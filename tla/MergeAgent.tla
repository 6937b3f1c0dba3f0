----------------------------- MODULE MergeAgent -----------------------------
(***************************************************************************)
(* The merge agent's orchestrator (scripts/merge-agent): it observes a     *)
(* pull request, validates the whole repair plan, reproduces the failing   *)
(* checks and then repairs conflicts, review comments and checks one patch *)
(* at a time.  Before each mutation of the worktree it reads its lane's    *)
(* authority from core, looks at the checkout, and has every path admitted.*)
(* Meanwhile the lane's lease may end or be taken over, somebody may commit *)
(* in the worktree, the wall clock runs out and commands are killed.       *)
(***************************************************************************)
EXTENDS Naturals, Sequences, FiniteSets, SequencesExt

CONSTANTS
  Pulls,           \* what the observation of the pull request may find
  Plan,            \* the repair plan of the request
  WriteSet,        \* the lane's declared write set, files and directories
  Below,           \* which paths lie below which directories
  AllowedActions,  \* actions of the command policy
  BoundChecks,     \* checks with a checked-in command
  Bounds           \* iteration and token ceilings

BoundsAssumption ==
  Bounds.iterations \in 1 .. 10 /\ Bounds.tokens \in Nat \ {0}

VARIABLES
  pull,      \* the observation, or the state before it
  agent,     \* where the run is and what it has recorded
  written,   \* paths the agent's patches have really changed
  unmerged,  \* unmerged paths of the index
  world      \* head of the checkout, holder of the lane, clock and breaker

vars == <<pull, agent, written, unmerged, world>>

PathCovered(p) == \E e \in WriteSet : p = e \/ <<p, e>> \in Below

Failing(obs) == {c \in DOMAIN obs.checks : obs.checks[c] = "fail"}
Running == agent.ended = "running"

-----------------------------------------------------------------------------
(* Validation of the plan, all of it before anything is changed.           *)

RepairFailure(r, required) ==
  IF r.paths = {} \/ r.tokens < 1 THEN "scope-gap"
  ELSE IF ~(required \subseteq r.paths) \/ \E p \in r.paths : ~PathCovered(p)
  THEN "out-of-write-set" ELSE "none"

ConflictFailure(p) ==
  IF ~PathCovered(p) THEN "out-of-write-set"
  ELSE IF p \notin DOMAIN Plan.conflicts THEN "scope-gap"
  ELSE RepairFailure(Plan.conflicts[p], {p})

CommentFailure(c) ==
  IF c.id \notin DOMAIN Plan.comments THEN "scope-gap"
  ELSE LET plan == Plan.comments[c.id] IN
       CASE ~plan.within -> "scope-gap"
         [] plan.within /\ plan.operator -> "requires-operator-decision"
         [] OTHER -> IF ~PathCovered(c.path) THEN "out-of-write-set"
                     ELSE RepairFailure(plan.repair, {c.path})

CheckFailure(c) ==
  IF c \notin DOMAIN Plan.checks \/ c \notin BoundChecks THEN "scope-gap"
  ELSE LET plan == Plan.checks[c]
           bad == {i \in DOMAIN plan.approaches : RepairFailure(plan.approaches[i], {}) # "none"}
       IN  CASE Len(plan.approaches) \notin 1 .. 2 -> "scope-gap"
             [] Len(plan.approaches) \in 1 .. 2 /\ ~plan.bound -> "circuit-breaker"
             [] OTHER -> IF bad = {} THEN "none"
                         ELSE RepairFailure(plan.approaches[CHOOSE i \in bad : \A j \in bad : i <= j], {})

\* The first of a list of findings; "none" when there is none.
Failures(S) == S \ {"none"}
FirstFailure(conflicts, comments, checks) ==
  CASE Failures(conflicts) # {} -> CHOOSE r \in Failures(conflicts) : TRUE
    [] Failures(conflicts) = {} /\ Failures(comments) # {} -> CHOOSE r \in Failures(comments) : TRUE
    [] OTHER -> IF Failures(checks) = {} THEN "none" ELSE CHOOSE r \in Failures(checks) : TRUE

\* Mutant: the checks of the plan are looked at when they are repaired.
ValidateMergePlan_ChecksLater(obs) ==
  FirstFailure({ConflictFailure(p) : p \in obs.conflicts}, {CommentFailure(c) : c \in obs.comments}, {})

ValidateMergePlan(obs) ==
  IF "pending" \in {obs.checks[c] : c \in DOMAIN obs.checks} THEN "checks-pending"
  ELSE IF obs.mergeable = "CONFLICTING" /\ obs.conflicts = {} THEN "scope-gap"
  ELSE IF obs.decision = "CHANGES_REQUESTED" /\ obs.comments = {} THEN "scope-gap"
  ELSE FirstFailure({ConflictFailure(p) : p \in obs.conflicts},
                    {CommentFailure(c) : c \in obs.comments},
                    {CheckFailure(c) : c \in Failing(obs)})

-----------------------------------------------------------------------------
(* The queue of repairs: conflicts, then comments, then checks.            *)

Tasks(obs) ==
  SetToSeq({[kind |-> "conflict-resolution", subject |-> p] : p \in obs.conflicts})
  \o SetToSeq({[kind |-> "comment-change", subject |-> c.id] : c \in obs.comments})
  \o SetToSeq({[kind |-> "check-repair", subject |-> c] : c \in Failing(obs)})

Task == Head(agent.queue)
Repair ==
  CASE Task.kind = "conflict-resolution" -> Plan.conflicts[Task.subject]
    [] Task.kind = "comment-change" -> Plan.comments[Task.subject].repair
    [] Task.kind = "check-repair" -> Plan.checks[Task.subject].approaches[agent.try]

Halt(a, reason) == [a EXCEPT !.ended = reason, !.at = "end"]

\* The next task, or the end of the run.
Proceed(a) ==
  IF Len(a.queue) = 1 THEN [Halt(a, "completed") EXCEPT !.queue = <<>>]
  ELSE [a EXCEPT !.queue = Tail(@), !.at = "identity", !.try = 1, !.admitted = {}]

\* runCommand: no command starts after the wall clock bound.
Run(then) == agent' = IF world.late THEN Halt(agent, "bound-reached") ELSE then

At(step) == Running /\ agent.at = step

-----------------------------------------------------------------------------
(* Observation and preflight.                                              *)

Observe ==
  /\ At("observe")
  /\ \E obs \in Pulls :
       /\ pull' = obs
       /\ unmerged' = obs.conflicts
       /\ LET failure == ValidateMergePlan(obs)
          IN  Run(CASE failure # "none" -> Halt(agent, failure)
                    [] failure = "none" /\ Failing(obs) # {} ->
                         [agent EXCEPT !.at = "capture", !.queue = Tasks(obs), !.capture = Failing(obs)]
                    [] OTHER -> IF Tasks(obs) = <<>> THEN Halt(agent, "completed")
                                ELSE [agent EXCEPT !.at = "identity", !.queue = Tasks(obs)])
  /\ UNCHANGED <<written, world>>

ObserveFails ==
  /\ At("observe")
  /\ agent' = Halt(agent, IF world.late THEN "bound-reached" ELSE "observation-failed")
  /\ UNCHANGED <<pull, written, unmerged, world>>

\* The checked-in command has to reproduce the remote failure.
CaptureFailingCheckEvidence(reproduced) ==
  /\ At("capture")
  /\ \E c \in agent.capture :
       Run(IF c \notin BoundChecks THEN Halt(agent, "scope-gap")
           ELSE IF ~reproduced THEN Halt(agent, "observation-failed")
           ELSE [agent EXCEPT !.capture = @ \ {c},
                              !.at = IF agent.capture = {c} THEN "identity" ELSE @])
  /\ UNCHANGED <<pull, written, unmerged, world>>

-----------------------------------------------------------------------------
(* One repair.                                                             *)

\* Core's answer to a claim of this lane: refused once the lease is another's;
\* a required write target has to be an entry of the claim's write set.
CoreAuthority == world.holder = "agent"
CoreAdmits(p) == CoreAuthority /\ p \in WriteSet

\* git rev-parse and git branch in the worktree.
ObserveLocalCheckout == world.head

LaneAuthorityMatches == CoreAuthority /\ ObserveLocalCheckout = pull.head

ActionAllowed(kind) == kind \in AllowedActions

AssertLaneIdentity ==
  /\ \/ At("identity") /\ Run(CASE Repair.paths = {} -> Halt(agent, "scope-gap")
                                [] Repair.paths # {} /\ LaneAuthorityMatches ->
                                     [agent EXCEPT !.at = "inspect"]
                                [] OTHER -> Halt(agent, "circuit-breaker"))
     \/ At("stage_identity") /\ Run(IF LaneAuthorityMatches THEN [agent EXCEPT !.at = "stage_authorize"]
                                    ELSE Halt(agent, "circuit-breaker"))
  /\ UNCHANGED <<pull, written, unmerged, world>>

\* git apply --numstat and --check; what git would touch is what was declared.
InspectPatch(applies) ==
  /\ At("inspect")
  /\ Run(IF /\ applies
            /\ Repair.effective = Repair.paths
            /\ \A p \in Repair.effective : PathCovered(p)
         THEN [agent EXCEPT !.at = "authorize"] ELSE Halt(agent, "circuit-breaker"))
  /\ UNCHANGED <<pull, written, unmerged, world>>

\* Mutant: the tokens of the next repair are not counted in.
BoundReached_TokensLate(tokens) ==
  agent.mutations >= Bounds.iterations \/ agent.tokens > Bounds.tokens \/ world.late

BoundReached(tokens) ==
  \/ agent.mutations >= Bounds.iterations
  \/ agent.tokens + tokens > Bounds.tokens
  \/ world.late

AuthorizeMutation ==
  LET staging == agent.at = "stage_authorize"
  IN
  /\ At("authorize") \/ At("stage_authorize")
  /\ agent' = CASE BoundReached(IF staging THEN 0 ELSE Repair.tokens) -> Halt(agent, "bound-reached")
                [] ~BoundReached(IF staging THEN 0 ELSE Repair.tokens) /\ world.breaker ->
                     Halt(agent, "circuit-breaker")
                [] OTHER -> IF LaneAuthorityMatches
                            THEN [agent EXCEPT !.at = IF staging THEN "stage_admit" ELSE "admit",
                                               !.admitted = {}]
                            ELSE Halt(agent, "circuit-breaker")
  /\ UNCHANGED <<pull, written, unmerged, world>>

Targets ==
  IF At("stage_admit") THEN {Task.subject} ELSE IF At("admit") THEN Repair.effective ELSE {}

\* Mutant: the lane's own reading of its write set stands for core's admission.
AdmitMutation_Unasked(p) ==
  /\ p \in Targets \ agent.admitted
  /\ agent' = [agent EXCEPT !.admitted = @ \cup Targets,
                            !.at = IF agent.at = "admit" THEN "apply" ELSE "stage"]
  /\ UNCHANGED <<pull, written, unmerged, world>>

\* Core answers with the claim; the path has to be an entry of its write set.
AdmitMutation(p) ==
  /\ p \in Targets \ agent.admitted
  /\ LET admitted == agent.admitted \cup {p}
         done == Targets \subseteq admitted
     IN  agent' = IF ~CoreAdmits(p) \/ world.late
                  THEN Halt(agent, "circuit-breaker")
                  ELSE [agent EXCEPT !.admitted = admitted,
                                     !.at = CASE ~done -> @
                                              [] done /\ @ = "admit" -> "apply"
                                              [] OTHER -> "stage"]
  /\ UNCHANGED <<pull, written, unmerged, world>>

\* A call of core that throws, times out or is malformed.
AuthorityUnavailable ==
  /\ \E s \in {"identity", "stage_identity", "authorize", "stage_authorize", "admit", "stage_admit"} : At(s)
  /\ agent' = Halt(agent, "circuit-breaker")
  /\ UNCHANGED <<pull, written, unmerged, world>>

Record(a, outcome, paths) ==
  [a EXCEPT !.actions = @ \cup {[subject |-> Task.subject, paths |-> paths, outcome |-> outcome]}]

\* Mutant: changed paths are noted with the action, after the check.
Apply_NotesLate(exit, effect) ==
  LET started == [agent EXCEPT !.mutations = @ + 1, !.tokens = @ + Repair.tokens]
  IN
  /\ At("apply")
  /\ exit = 0 => effect
  /\ written' = IF effect THEN written \cup Repair.effective ELSE written
  /\ agent' = IF exit # 0 THEN Halt(Record(started, "fail", Repair.effective), "mutation-failed")
              ELSE [started EXCEPT !.at = IF Task.kind = "check-repair" THEN "rerun" ELSE "stage_identity"]
  /\ UNCHANGED <<pull, unmerged, world>>

\* git apply.  A killed command exits with an error and may have written.
Apply(exit, effect) ==
  LET started == [agent EXCEPT !.mutations = @ + 1, !.tokens = @ + Repair.tokens]
      applied == [started EXCEPT !.changed = @ \cup Repair.effective]
  IN
  /\ At("apply")
  /\ exit = 0 => effect
  /\ IF ~ActionAllowed(Task.kind)
     THEN agent' = Halt(agent, "circuit-breaker") /\ UNCHANGED written
     ELSE IF world.late
     THEN agent' = Halt(started, "bound-reached") /\ UNCHANGED written
     ELSE /\ written' = IF effect THEN written \cup Repair.effective ELSE written
          /\ agent' = CASE exit # 0 -> Halt(Record(started, "fail", Repair.effective), "mutation-failed")
                        [] exit = 0 /\ Task.kind = "check-repair" -> [applied EXCEPT !.at = "rerun"]
                        [] OTHER -> LET a == Record(applied, "not-run", Repair.effective) IN
                                    IF Task.kind = "conflict-resolution"
                                    THEN [a EXCEPT !.at = "stage_identity"]
                                    ELSE Proceed(a)
  /\ UNCHANGED <<pull, unmerged, world>>

\* Mutant: an exhausted check is left to the release controller.
Rerun_GivesUp(passes) ==
  /\ At("rerun")
  /\ Run(Proceed(Record(agent, IF passes THEN "pass" ELSE "fail", Repair.effective)))
  /\ UNCHANGED <<pull, written, unmerged, world>>

\* The check is run again.  A second approach may follow, then escalation.
Rerun(passes) ==
  LET done == Record(agent, IF passes THEN "pass" ELSE "fail", Repair.effective)
  IN
  /\ At("rerun")
  /\ Run(IF passes THEN Proceed([done EXCEPT !.passed = @ \cup {Task.subject}])
         ELSE IF agent.try < Len(Plan.checks[Task.subject].approaches)
         THEN [done EXCEPT !.try = @ + 1, !.at = "identity", !.admitted = {}]
         ELSE Halt(Record(done, "escalation", {}), "repair_approach_exhausted"))
  /\ UNCHANGED <<pull, written, unmerged, world>>

\* git add of the resolved path.
StageResolvedConflict(exit) ==
  LET started == [agent EXCEPT !.mutations = @ + 1]
      a == Record(started, IF exit = 0 THEN "not-run" ELSE "fail", {Task.subject})
  IN
  /\ At("stage")
  /\ IF world.late
     THEN agent' = Halt(started, "bound-reached") /\ UNCHANGED unmerged
     ELSE /\ unmerged' = IF exit = 0 THEN unmerged \ {Task.subject} ELSE unmerged
          /\ agent' = IF exit # 0 THEN Halt(a, "mutation-failed") ELSE [a EXCEPT !.at = "verify"]
  /\ UNCHANGED <<pull, written, world>>

\* Mutant: the path is waited for until it is no longer unmerged.
VerifyStaged_Waits ==
  /\ At("verify")
  /\ Task.subject \notin unmerged
  /\ agent' = Proceed(agent)
  /\ UNCHANGED <<pull, written, unmerged, world>>

\* Nothing became unmerged that was not, and the path no longer is.
VerifyStaged ==
  /\ At("verify")
  /\ Run(IF Task.subject \in unmerged \/ ~(unmerged \subseteq pull.conflicts)
         THEN Halt(agent, "circuit-breaker") ELSE Proceed(agent))
  /\ UNCHANGED <<pull, written, unmerged, world>>

-----------------------------------------------------------------------------
(* The environment.                                                        *)

ClockEnds == ~world.late /\ world' = [world EXCEPT !.late = TRUE] /\ UNCHANGED <<pull, agent, written, unmerged>>
Breaker == ~world.breaker /\ world' = [world EXCEPT !.breaker = TRUE] /\ UNCHANGED <<pull, agent, written, unmerged>>
LaneTaken ==
  world.holder = "agent" /\ world' = [world EXCEPT !.holder = "other"]
  /\ UNCHANGED <<pull, agent, written, unmerged>>
\* Somebody else works in the worktree: a commit, or a merge that conflicts.
Intrusion ==
  /\ \/ world.head = 1 /\ world' = [world EXCEPT !.head = 2] /\ UNCHANGED unmerged
     \/ \E p \in WriteSet \ unmerged : unmerged' = unmerged \cup {p} /\ UNCHANGED world
  /\ UNCHANGED <<pull, agent, written>>

-----------------------------------------------------------------------------

NoPull == [conflicts |-> {}, comments |-> {}, checks |-> <<>>, decision |-> "", mergeable |-> "", head |-> 1]

Init ==
  /\ pull = NoPull
  /\ agent = [at |-> "observe", queue |-> <<>>, capture |-> {}, try |-> 1, admitted |-> {},
              mutations |-> 0, tokens |-> 0, changed |-> {}, actions |-> {}, passed |-> {},
              ended |-> "running"]
  /\ written = {} /\ unmerged = {}
  /\ world = [head |-> 1, holder |-> "agent", late |-> FALSE, breaker |-> FALSE]

Step ==
  \/ Observe \/ ObserveFails
  \/ \E b \in BOOLEAN : CaptureFailingCheckEvidence(b) \/ InspectPatch(b) \/ Rerun(b)
  \/ AssertLaneIdentity \/ AuthorizeMutation \/ AuthorityUnavailable
  \/ \E p \in Targets : AdmitMutation(p)
  \/ \E exit \in 0 .. 1, effect \in BOOLEAN : Apply(exit, effect)
  \/ \E exit \in 0 .. 1 : StageResolvedConflict(exit)
  \/ VerifyStaged

Next == Step \/ ClockEnds \/ Breaker \/ LaneTaken \/ Intrusion

\* The run's own steps keep being scheduled.
Spec == Init /\ [][Next]_vars /\ WF_vars(Step)

-----------------------------------------------------------------------------
(* Properties.                                                             *)

Outcomes == {"running", "completed", "requires-operator-decision", "out-of-write-set", "scope-gap",
             "repair_approach_exhausted", "bound-reached", "circuit-breaker", "observation-failed",
             "mutation-failed", "checks-pending"}

\* The run has a known outcome; its recorded bounds are never exceeded, whatever
\* the order of repairs, second approaches and stagings.
TypeOK ==
  /\ agent.ended \in Outcomes /\ agent.try \in 1 .. 2
  /\ agent.mutations <= Bounds.iterations /\ agent.tokens <= Bounds.tokens

\* A step that writes the worktree or the index writes only paths core has
\* admitted, under this lane's lease, since the mutation before it.
WritesAreAdmitted ==
  [][\A p \in (written' \ written) \cup {q \in unmerged \ unmerged' : agent.at = "stage"} :
       p \in agent.admitted /\ p \in WriteSet]_vars

\* A plan that is refused as a plan is refused before anything is changed.
RefusedPlanIsUntouched ==
  agent.ended \in {"scope-gap", "out-of-write-set", "requires-operator-decision", "checks-pending"} =>
    written = {} /\ agent.mutations = 0

\* The evidence names every path a patch has changed, also when the command was
\* killed after it had written or the clock ended before the check was repeated.
EvidenceAccounts ==
  written \subseteq agent.changed \cup UNION {x.paths : x \in agent.actions}

\* The verdict of the evidence artifact.
Status(reason) ==
  CASE reason = "completed" -> "local-repairs-complete"
    [] reason \in {"requires-operator-decision", "repair_approach_exhausted"} -> "escalated"
    [] OTHER -> "blocked"

\* local-repairs-complete: every conflict that was observed is staged or came back
\* later, every comment has its patch and every failing check has passed.
CompletedIsRepaired ==
  Status(agent.ended) = "local-repairs-complete" =>
    /\ Failing(pull) \subseteq agent.passed
    /\ pull.conflicts \subseteq agent.changed
    /\ \A c \in pull.comments : c.path \in agent.changed
    /\ \A p \in pull.conflicts : \E x \in agent.actions : x.subject = p /\ x.paths = {p}

\* Every run ends with evidence.
RunEnds == <>(agent.ended # "running")
=============================================================================
