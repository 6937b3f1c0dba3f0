----------------------------- MODULE SandboxRun -----------------------------
(***************************************************************************)
(* The registration sandbox: Core's dry run (sandbox-registration.ts), the *)
(* device facade (device-executor.ts), the Worker that gives every request *)
(* a container of its own (executor.ts, server-run.ts), the harness in the *)
(* container (theme-build.ts, registration-target.ts) and the judge of     *)
(* what it reports (isolation.ts).                                         *)
(*                                                                         *)
(* Several requests run at once.  A container is known by its instance     *)
(* identity: two requests that used the same identity would share one, and *)
(* the first to finish would destroy it under the other.  A destroy may    *)
(* fail or outlast its five seconds, a command may be killed, the caller   *)
(* may give up, and the device's bundle may be replaced between the probe  *)
(* and the run.                                                            *)
(***************************************************************************)
EXTENDS Naturals, Sequences, FiniteSets, TLC

CONSTANTS
    Requests,        \* requests under way at once
    Shapes,          \* what a request may ask for: see ShapeType
    Tools,           \* the tool names of definitions and allowlists
    Required,        \* the manifest fields without a default
    Optional,        \* the manifest fields THEME_MANIFEST_DEFAULTS fills
    Device,          \* TRUE in the Staging and Production lanes
    None,            \* null
    MaxFaults        \* bound on failures of the environment

Purposes == {"registration-dry-run", "theme-build", "unshipped-surface-build"}

TargetReasons == {"target_required", "target_digest_mismatch", "target_load_failed"}

ToolReasons == {"tool_execution_failed", "tool_result_invalid"}

SandboxAssumption ==
    /\ MaxFaults \in Nat /\ Device \in BOOLEAN
    /\ Required \cap Optional = {}
    /\ \A s \in Shapes : /\ s.purpose \in Purposes
                         /\ s.tools \in Seq(Tools) /\ s.allow \in SUBSET Tools
                         /\ s.target \in {"good", "missing", "mismatch", "broken"}
                         /\ s.manifest \in [Required \cup Optional -> {"absent", "good", "bad"}]

VARIABLES
    shape,       \* what each request asks for
    pc,          \* where its run is
    box,         \* the container identity its run was given, or None
    boxes,       \* identity -> "up", "gone": the containers that exist(ed)
    ran,         \* identity -> the tools that executed there, in order
    calls,       \* the harness's attemptedCalls
    exec,        \* what the executor answered the run, or None
    verdict,     \* what the run will answer once its container is gone
    answer,      \* what it answered, or None
    caller,      \* what the caller concluded: waiting, accepted or a refusal
    bundle,      \* which bundle the device host runs
    ranUnder,    \* identity -> the bundle that provisioned it
    hurt,        \* the requests an environment failure touched
    faults

vars == <<shape, pc, box, boxes, ran, calls, exec, verdict, answer, caller,
          bundle, ranUnder, hurt, faults>>

unchangedWorld == UNCHANGED <<shape, bundle>>

-----------------------------------------------------------------------------
(* What a request holds *)

readDefinitionToolNames(s) ==
    \A i, j \in 1..Len(s.tools) : s.tools[i] = s.tools[j] => i = j

readAllowlist(s) == s.allow \subseteq Tools

\* A dry run needs an allowlist and one call per declared tool, in order.
validDryRunPayload(s) == readDefinitionToolNames(s) /\ readAllowlist(s)

\* A manifest and nothing else; its fields are judged in the container.
validThemeBuildPayload(s) == DOMAIN s.manifest = Required \cup Optional

validateRequest(s) ==
    CASE s.purpose = "registration-dry-run" -> validDryRunPayload(s)
      [] s.purpose = "theme-build" -> validThemeBuildPayload(s)
      [] OTHER -> TRUE

readExecutableTarget(s) == s.target # "missing"

executableTargetDigestMatches(s) == s.target # "mismatch"

\* Core's request carries an identity derived from the definition alone.
buildRegistrationDryRunRequest(s) == <<"registration", s.tools, s.allow, s.target>>

-----------------------------------------------------------------------------
(* The harness: the program in the container *)

NoCalls == <<>>

Report(ok, cs, build, surface, reason) ==
    [ok |-> ok, calls |-> cs, build |-> build, surface |-> surface, reason |-> reason]

registrationFailure(reason) == Report(FALSE, NoCalls, None, None, reason)

\* Absent optional fields are defaulted, bad or missing ones are violations.
violations(m) == {f \in Required : m[f] # "good"} \cup {f \in Optional : m[f] = "bad"}

defaultedFields(m) == {f \in Optional : m[f] = "absent"}

X_buildTheme(m) == [status |-> "completed", defaulted |-> defaultedFields(m), wrong |-> {}]

buildTheme(m) ==
    IF violations(m) # {}
    THEN [status |-> "failed", defaulted |-> {}, wrong |-> violations(m)]
    ELSE [status |-> "completed", defaulted |-> defaultedFields(m), wrong |-> {}]

\* The surface check either proves that drift is refused or it fails.
runWebMcp(proves) ==
    IF proves THEN Report(TRUE, NoCalls, None, "surface", None)
    ELSE Report(FALSE, NoCalls, None, None, "webmcp_execution_failed")

\* Every call executed: the report of a registration that ends its loop.
runRegistration(s, cs, reason) ==
    Report(Len(cs) = Len(s.tools) /\ \A i \in 1..Len(cs) : cs[i].outcome = "executed",
           cs, None, None, reason)

-----------------------------------------------------------------------------
(* The executor: what it makes of the harness's output *)

readThemeBuildResult(b) ==
    /\ b.status \in {"completed", "failed"}
    /\ b.status = "completed" => b.defaulted \subseteq Optional
    /\ b.status = "failed" => b.wrong # {}

validFailureReason(r) ==
    r \in {None, "webmcp_execution_failed"} \cup TargetReasons \cup ToolReasons

\* readHarnessOutput: TRUE when the report is consistent with itself.
readHarnessOutput(rep) ==
    LET cs == rep.calls
        last == IF cs = <<>> THEN None ELSE cs[Len(cs)].outcome
    IN  /\ validFailureReason(rep.reason)
        /\ \A i \in 1..Len(cs) : cs[i].allowlisted = (cs[i].outcome # "refused")
        /\ \A i \in 1..Len(cs) : cs[i].outcome # "executed" => i = Len(cs)
        /\ rep.build # None => readThemeBuildResult(rep.build)
        /\ IF rep.build # None
           THEN /\ cs = <<>> /\ rep.surface = None /\ rep.reason = None
                /\ rep.ok = (rep.build.status = "completed")
           ELSE IF rep.surface # None THEN rep.ok /\ cs = <<>> /\ rep.reason = None
           ELSE IF rep.ok
           THEN rep.reason = None /\ \A i \in 1..Len(cs) : cs[i].outcome = "executed"
           ELSE /\ last = "refused" => rep.reason = None
                /\ last = "failed" => rep.reason \in ToolReasons
                /\ last # "executed"
                /\ last = None => rep.reason \in TargetReasons

\* cloudflareExecutor.execute, given the command's success and limit class.
Executed(rep, success, limit) ==
    IF readHarnessOutput(rep)
    THEN [rep EXCEPT !.ok = success /\ rep.ok] @@ [limit |-> limit]
    ELSE Report(FALSE, NoCalls, None, None, None) @@ [limit |-> limit]

\* The command threw, or printed nothing that can be read.
Unread(limit) == Report(FALSE, NoCalls, None, None, None) @@ [limit |-> limit]

-----------------------------------------------------------------------------
(* The judge: runIsolated after the executor answered *)

Verdict(code, reason, cs) == [code |-> code, reason |-> reason, calls |-> cs]

blocked(reason, cs) == Verdict("sandbox_blocked", reason, cs)

executionTraceMatches(s, cs, ok) ==
    IF s.purpose # "registration-dry-run" THEN cs = <<>>
    ELSE /\ Len(cs) <= Len(s.tools)
         /\ \A i \in 1..Len(cs) : cs[i].tool = s.tools[i]
         /\ ok => Len(cs) = Len(s.tools) /\ \A i \in 1..Len(cs) : cs[i].outcome = "executed"

themeBuildVerdict(e) ==
    IF e.surface # None THEN blocked("unexpected_surface_result", e.calls)
    ELSE IF e.build = None THEN blocked("theme_build_result_missing", e.calls)
    ELSE IF e.build.status = "failed" THEN Verdict("sandbox_build_failed", None, e.calls)
    ELSE IF ~e.ok THEN blocked("theme_build_execution_inconsistent", e.calls)
    ELSE Verdict("ok", None, e.calls)

surfaceVerdict(e) ==
    IF e.build # None THEN blocked("unexpected_build_result", e.calls)
    ELSE IF e.surface = None THEN blocked("webmcp_surface_result_missing", e.calls)
    ELSE IF ~e.ok THEN blocked("webmcp_execution_failed", e.calls)
    ELSE Verdict("ok", None, e.calls)

dryRunVerdict(e) ==
    IF e.build # None THEN blocked("unexpected_build_result", e.calls)
    ELSE IF e.surface # None THEN blocked("unexpected_surface_result", e.calls)
    ELSE IF ~e.ok THEN blocked(IF e.reason = None THEN "sandbox_execution_failed" ELSE e.reason, e.calls)
    ELSE Verdict("ok", None, e.calls)

refusedVerdict(e) == Verdict("sandbox_call_not_allowlisted", None, e.calls)

JudgeExecution(s, e) ==
    IF ~executionTraceMatches(s, e.calls, e.ok)
    THEN blocked("sandbox_execution_trace_invalid", e.calls)
    ELSE IF \E i \in 1..Len(e.calls) : e.calls[i].outcome = "refused" THEN refusedVerdict(e)
    ELSE IF e.limit # None THEN blocked("limit_exceeded", e.calls)
    ELSE CASE s.purpose = "theme-build" -> themeBuildVerdict(e)
           [] s.purpose = "unshipped-surface-build" -> surfaceVerdict(e)
           [] OTHER -> dryRunVerdict(e)

-----------------------------------------------------------------------------
(* The caller: what Core makes of the answer *)

\* Core accepts a completed record whose calls are the tools it sent.
readCompletedRecord(s, a) ==
    /\ a.code = "ok"
    /\ \A i \in 1..Len(a.calls) : a.calls[i].allowlisted /\ a.calls[i].outcome = "executed"
    /\ [i \in 1..Len(a.calls) |-> a.calls[i].tool] = s.tools

runRegistrationDryRun(s, a) ==
    IF a.code = "ok"
    THEN IF readCompletedRecord(s, a) THEN "accepted" ELSE "sandbox_response_invalid"
    ELSE IF a.code = "sandbox_call_not_allowlisted" THEN "registration_dry_run_rejected"
    ELSE "sandbox_blocked"

\* The two build purposes have the operator's tools as their caller.
Conclude(s, a) ==
    IF s.purpose = "registration-dry-run" THEN runRegistrationDryRun(s, a)
    ELSE IF a.code = "ok" THEN "accepted" ELSE a.code

-----------------------------------------------------------------------------
Init ==
    /\ shape \in [Requests -> Shapes]
    /\ pc = [r \in Requests |-> "call"]
    /\ box = [r \in Requests |-> None]
    /\ boxes = <<>> /\ ran = <<>> /\ ranUnder = <<>>
    /\ calls = [r \in Requests |-> NoCalls]
    /\ exec = [r \in Requests |-> None]
    /\ verdict = [r \in Requests |-> None]
    /\ answer = [r \in Requests |-> None]
    /\ caller = [r \in Requests |-> "waiting"]
    /\ bundle = "pinned" /\ hurt = {} /\ faults = 0

goto(r, label) == pc' = [pc EXCEPT ![r] = label]

Fault(r) ==
    /\ faults < MaxFaults /\ faults' = faults + 1
    /\ hurt' = hurt \cup {r}

NoFault == UNCHANGED <<faults, hurt>>

X_Reply(r, v) == answer' = [answer EXCEPT ![r] = v] /\ UNCHANGED pc

Reply(r, v) == answer' = [answer EXCEPT ![r] = v] /\ goto(r, "answered")

\* handleSandboxFetch and parseSandboxRequest: a request that does not parse
\* is refused; on the device lane the facade probes the host first.
Receive(r) ==
    /\ pc[r] = "call"
    /\ IF validateRequest(shape[r])
       THEN goto(r, IF Device THEN "probe" ELSE "start") /\ UNCHANGED answer
       ELSE Reply(r, blocked("sandbox_request_invalid", NoCalls))
    /\ NoFault /\ unchangedWorld
    /\ UNCHANGED <<box, boxes, ran, ranUnder, calls, exec, verdict, caller>>

\* probeDeviceHost and parseDeviceHostProbe: the host must answer the pins.
parseDeviceHostProbe(b) == b = "pinned"

probeDeviceHost(r) ==
    /\ pc[r] = "probe"
    /\ IF parseDeviceHostProbe(bundle)
       THEN goto(r, "forward") /\ UNCHANGED answer
       ELSE Reply(r, blocked("device_executor_unavailable", NoCalls))
    /\ NoFault /\ unchangedWorld
    /\ UNCHANGED <<box, boxes, ran, ranUnder, calls, exec, verdict, caller>>

\* The run carries the pins as headers; the host compares them again.
X_deviceHostHeaders(b) == TRUE

deviceHostHeaders(b) == b = "pinned"

ForwardToDevice(r) ==
    /\ pc[r] = "forward"
    /\ IF deviceHostHeaders(bundle)
       THEN goto(r, "start") /\ UNCHANGED answer
       ELSE Reply(r, blocked("device_executor_unavailable", NoCalls))
    /\ NoFault /\ unchangedWorld
    /\ UNCHANGED <<box, boxes, ran, ranUnder, calls, exec, verdict, caller>>

\* runServerIsolated: an identity of the server's own, fresh for every run.
X_executionInstanceId(r) == buildRegistrationDryRunRequest(shape[r])

executionInstanceId(r) == r

\* runIsolated up to the executor: a target that is missing or does not hash
\* to its digest is refused before there is a container.
Provision(r) ==
    /\ pc[r] = "start"
    /\ IF shape[r].purpose = "registration-dry-run" /\ ~readExecutableTarget(shape[r])
       THEN /\ Reply(r, blocked("target_required", NoCalls))
            /\ UNCHANGED <<box, boxes, ran, ranUnder>>
       ELSE IF shape[r].purpose = "registration-dry-run" /\ ~executableTargetDigestMatches(shape[r])
       THEN /\ Reply(r, blocked("target_digest_mismatch", NoCalls))
            /\ UNCHANGED <<box, boxes, ran, ranUnder>>
       ELSE LET id == executionInstanceId(r) IN
            /\ box' = [box EXCEPT ![r] = id]
            /\ boxes' = (id :> "up") @@ boxes
            /\ ran' = (id :> <<>>) @@ ran
            /\ ranUnder' = (id :> bundle) @@ ranUnder
            /\ goto(r, "harness") /\ UNCHANGED answer
    /\ NoFault /\ unchangedWorld /\ UNCHANGED <<calls, exec, verdict, caller>>

Finish(r, e) ==
    /\ exec' = [exec EXCEPT ![r] = e]
    /\ goto(r, "judge")

Alive(r) == pc[r] = "harness" /\ boxes[box[r]] = "up"

\* One tool call of runRegistration: a call outside the allowlist ends the
\* loop, so does a call that fails; EXECUTABLE_RUNNER_SOURCE exits 2 or 3.
X_allowlisted(r, tool) == TRUE

allowlisted(r, tool) == tool \in shape[r].allow

CallTool(r) ==
    LET s == shape[r]
        n == Len(calls[r]) + 1
    IN  /\ Alive(r) /\ s.purpose = "registration-dry-run"
        /\ n <= Len(s.tools) /\ s.target # "broken"
        /\ IF ~allowlisted(r, s.tools[n])
           THEN /\ Finish(r, Executed(runRegistration(s, Append(calls[r],
                      [tool |-> s.tools[n], allowlisted |-> FALSE, outcome |-> "refused"]), None),
                      TRUE, None))
                /\ UNCHANGED <<calls, ran>>
           ELSE \/ /\ ran' = [ran EXCEPT ![box[r]] = Append(@, s.tools[n])]
                   /\ calls' = [calls EXCEPT ![r] = Append(@,
                         [tool |-> s.tools[n], allowlisted |-> TRUE, outcome |-> "executed"])]
                   /\ UNCHANGED <<exec, pc>>
                \/ \E reason \in ToolReasons :
                     /\ Finish(r, Executed(runRegistration(s, Append(calls[r],
                           [tool |-> s.tools[n], allowlisted |-> TRUE, outcome |-> "failed"]), reason),
                           TRUE, None))
                     /\ UNCHANGED <<calls, ran>>
        /\ NoFault /\ unchangedWorld
        /\ UNCHANGED <<box, boxes, ranUnder, verdict, answer, caller>>

\* The harness writes its report and the command ends.
EndHarness(r) ==
    /\ Alive(r)
    /\ LET s == shape[r] IN
       CASE s.purpose = "theme-build" ->
              LET b == buildTheme(s.manifest) IN
              Finish(r, Executed(Report(b.status = "completed", NoCalls, b, None, None), TRUE, None))
         [] s.purpose = "unshipped-surface-build" ->
              \E proves \in BOOLEAN : Finish(r, Executed(runWebMcp(proves), TRUE, None))
         [] OTHER ->
              IF s.target = "broken"
              THEN Finish(r, Executed(registrationFailure("target_load_failed"), TRUE, None))
              ELSE /\ Len(calls[r]) = Len(s.tools)
                   /\ Finish(r, Executed(runRegistration(s, calls[r], None), TRUE, None))
    /\ NoFault /\ unchangedWorld
    /\ UNCHANGED <<box, boxes, ran, ranUnder, calls, verdict, answer, caller>>

\* The command is killed at a limit, or the executor's call fails; what the
\* harness had done so far is not reported (classifyExecutionLimit).
classifyExecutionLimit == {None, "wall-clock", "memory"}

CommandFails(r) ==
    /\ Alive(r)
    /\ \E limit \in classifyExecutionLimit : Finish(r, Unread(limit))
    /\ Fault(r) /\ unchangedWorld
    /\ UNCHANGED <<box, boxes, ran, ranUnder, calls, verdict, answer, caller>>

\* The container went away under the command: exec throws.
CommandLosesContainer(r) ==
    /\ pc[r] = "harness" /\ boxes[box[r]] # "up"
    /\ Finish(r, Unread(None))
    /\ NoFault /\ unchangedWorld
    /\ UNCHANGED <<box, boxes, ran, ranUnder, calls, verdict, answer, caller>>

\* runIsolated after execute: the verdict stands once the container is gone.
Judge(r) ==
    /\ pc[r] = "judge"
    /\ verdict' = [verdict EXCEPT ![r] = JudgeExecution(shape[r], exec[r])]
    /\ goto(r, "terminate")
    /\ NoFault /\ unchangedWorld
    /\ UNCHANGED <<box, boxes, ran, ranUnder, calls, exec, answer, caller>>

Destroy(r) == boxes' = [boxes EXCEPT ![box[r]] = "gone"]

\* terminateWithinBound succeeds and the verdict is answered.
Terminate(r) ==
    /\ pc[r] = "terminate"
    /\ Destroy(r) /\ Reply(r, verdict[r])
    /\ NoFault /\ unchangedWorld
    /\ UNCHANGED <<box, ran, ranUnder, calls, exec, verdict, caller>>

\* destroy fails, or outlasts its five seconds: the catch tries once more,
\* swallows what that does, and answers blocked without the calls.
X_terminateWithinBound(r) == Reply(r, verdict[r])

terminateWithinBound(r) == Reply(r, blocked("sandbox_termination_timeout", NoCalls))

TerminateFails(r) ==
    /\ pc[r] = "terminate"
    /\ terminateWithinBound(r)
    /\ Destroy(r) \/ UNCHANGED boxes
    /\ Fault(r) /\ unchangedWorld
    /\ UNCHANGED <<box, ran, ranUnder, calls, exec, verdict, caller>>

\* The caller reads the answer.
CallerReads(r) ==
    /\ answer[r] # None /\ caller[r] = "waiting"
    /\ caller' = [caller EXCEPT ![r] = Conclude(shape[r], answer[r])]
    /\ NoFault /\ unchangedWorld
    /\ UNCHANGED <<pc, box, boxes, ran, ranUnder, calls, exec, verdict, answer>>

\* REGISTRATION_SANDBOX_TIMEOUT_MS passes, or the answer is lost.
CallerGivesUp(r) ==
    /\ caller[r] = "waiting" /\ pc[r] # "call"
    /\ caller' = [caller EXCEPT ![r] = "sandbox_request_failed"]
    /\ Fault(r) /\ unchangedWorld
    /\ UNCHANGED <<pc, box, boxes, ran, ranUnder, calls, exec, verdict, answer>>

\* The device host closes, which waits for the job it has accepted, and
\* starts again with another bundle.
HostReplaced ==
    /\ Device /\ bundle = "pinned" /\ bundle' = "other"
    /\ \A r \in Requests : pc[r] \notin {"start", "harness", "judge", "terminate"}
    /\ UNCHANGED <<shape, pc, box, boxes, ran, calls, exec, verdict, answer,
                   caller, ranUnder, hurt, faults>>

X_ContainerSleeps(r) == FALSE /\ UNCHANGED vars

\* An idle container the destroy did not reach goes to sleep (sleepAfter).
ContainerSleeps(r) ==
    /\ pc[r] = "answered" /\ box[r] # None /\ boxes[box[r]] = "up"
    /\ Destroy(r)
    /\ NoFault /\ unchangedWorld
    /\ UNCHANGED <<pc, box, ran, ranUnder, calls, exec, verdict, answer, caller>>

Step(r) ==
    \/ Receive(r) \/ probeDeviceHost(r) \/ ForwardToDevice(r) \/ Provision(r)
    \/ CallTool(r) \/ EndHarness(r) \/ CommandLosesContainer(r)
    \/ Judge(r) \/ Terminate(r) \/ CallerReads(r) \/ ContainerSleeps(r)

Done ==
    /\ \A r \in Requests : caller[r] # "waiting" /\ pc[r] = "answered"
    /\ UNCHANGED vars

Next ==
    \/ \E r \in Requests : Step(r) \/ CommandFails(r) \/ TerminateFails(r) \/ CallerGivesUp(r)
    \/ HostReplaced
    \/ Done

Spec == Init /\ [][Next]_vars

\* Every handler runs on: the timers around each await see to it.
FairSpec == Spec /\ \A r \in Requests : WF_vars(Step(r))

-----------------------------------------------------------------------------
TypeOK ==
    /\ shape \in [Requests -> Shapes]
    /\ pc \in [Requests -> {"call", "probe", "forward", "start", "harness", "judge",
                            "terminate", "answered"}]
    /\ \A id \in DOMAIN boxes : boxes[id] \in {"up", "gone"}
    /\ \A r \in Requests : (answer[r] # None) = (pc[r] = "answered")
    /\ DOMAIN ran = DOMAIN boxes /\ DOMAIN ranUnder = DOMAIN boxes
    /\ \A r \in Requests : box[r] # None => box[r] \in DOMAIN boxes
    /\ faults \in 0..MaxFaults /\ hurt \subseteq Requests

\* A dry run Core accepts really executed every declared tool, in the order
\* of the definition, in a container that is gone: no report of a harness
\* that stopped early, was killed or could not be destroyed passes
\* executionTraceMatches, runIsolated and readCompletedRecord.
AcceptedRanEverything ==
    \A r \in Requests :
        caller[r] = "accepted" /\ shape[r].purpose = "registration-dry-run"
        => ran[box[r]] = shape[r].tools /\ boxes[box[r]] = "gone"

\* No tool outside the declared allowlist ever executes, whatever becomes of
\* the run (the loop of runRegistration breaks before the call).
OnlyAllowlisted ==
    \A r \in Requests : box[r] # None =>
        \A i \in 1..Len(ran[box[r]]) : ran[box[r]][i] \in shape[r].allow

\* Runs do not disturb each other: one whose own commands, destroys and
\* answers never failed is refused only for what it asked for, although Core
\* sends equal definitions under equal identities (runServerIsolated).
BlockedForCause ==
    \A r \in Requests :
        /\ caller[r] \in {"sandbox_blocked", "sandbox_response_invalid"}
        /\ r \notin hurt /\ ~Device
        /\ shape[r].purpose = "registration-dry-run"
        => answer[r].reason \in TargetReasons \cup ToolReasons \cup {"sandbox_request_invalid"}

\* On the device lane nothing executes under a bundle other than the pinned
\* one, although it may be replaced after the facade's probe.
RanUnderPins == \A id \in DOMAIN ranUnder : ranUnder[id] = "pinned"

\* A theme is built only from a manifest without a violation.
BuiltIsValid ==
    \A r \in Requests :
        caller[r] = "accepted" /\ shape[r].purpose = "theme-build"
        => violations(shape[r].manifest) = {}

\* Every caller gets an answer or gives up, and no container outlives its
\* run for ever.
RunsEnd ==
    \A r \in Requests :
        <>(caller[r] # "waiting" /\ (box[r] # None => boxes[box[r]] = "gone"))

=============================================================================
