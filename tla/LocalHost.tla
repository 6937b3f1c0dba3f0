------------------------------ MODULE LocalHost ------------------------------
(***************************************************************************)
(* The device-session execution host (scripts/local-host/server.ts): one   *)
(* Node process, one slot, no queue.  A job runs in a Podman container of  *)
(* its own (scripts/isolated-process.ts), reached through an executor used *)
(* once (scripts/sandbox-podman-executor.ts).  Clients disconnect, the     *)
(* operator stops the host, Podman commands fail.                          *)
(*                                                                         *)
(* Everything runIsolatedProcess does before it attaches is synchronous    *)
(* (spawnSync), and so is its cleanup: each is one step.  What it awaits,  *)
(* the attached client, is where other requests and signals get in.        *)
(***************************************************************************)
EXTENDS Naturals, FiniteSets

CONSTANTS
    Requests,    \* the requests of one host process
    Kinds,       \* the routes asked for, out of "livez", "readyz", "run"
    MaxFaults,   \* how many Podman commands fail in a behaviour
    None

HostAssumption ==
    /\ Kinds \subseteq {"livez", "readyz", "run", "other"}
    /\ MaxFaults \in Nat
    /\ None \notin Requests

VARIABLES
    host,        \* the process: starting, up, or the startup failed
    kind,        \* what each request asks for
    phase,       \* where each request is in dispatch and serve
    connected,   \* the requests whose client is still there
    answer,      \* the status each request was answered with
    active,      \* the request that owns the slot
    executor,    \* the request whose executor close() can see
    aborted,     \* the requests whose executor was told to stop
    container,   \* the container made for each request: "garbled" when it was
                 \* removed and what the job wrote is no UTF-8
    recoveryRequired,
    stopping,
    closed,      \* the promise of close()
    faults       \* Podman commands that have failed

vars == <<host, kind, phase, connected, answer, active, executor, aborted,
          container, recoveryRequired, stopping, closed, faults>>

request == <<kind, phase, connected, answer>>
slot == <<active, executor>>

Phases == {"none", "auth", "body", "digest", "attached", "ended", "done"}

Init ==
    /\ host = "starting"
    /\ kind = [r \in Requests |-> None]
    /\ phase = [r \in Requests |-> "none"]
    /\ connected = {}
    /\ answer = [r \in Requests |-> None]
    /\ active = None
    /\ executor = None
    /\ aborted = {}
    /\ container = [r \in Requests |-> "absent"]
    /\ recoveryRequired = FALSE
    /\ stopping = FALSE
    /\ closed = FALSE
    /\ faults = 0

-----------------------------------------------------------------------------
\* main: the token file, the arguments and one probe decide whether it starts.
main(ok) ==
    /\ host = "starting"
    /\ host' = IF ok THEN "up" ELSE "failed"
    /\ UNCHANGED <<request, slot, aborted, container, recoveryRequired,
                   stopping, closed, faults>>

-----------------------------------------------------------------------------
\* reply: nothing is sent to a client that left or that was answered before.
reply(r, status) ==
    answer' = IF r \in connected /\ answer[r] = None
              THEN [answer EXCEPT ![r] = status] ELSE answer

\* dispatch's finally: the slot and the executor's name are given up together.
X_release(r) == active' = None /\ UNCHANGED executor
release(r) ==
    /\ active' = None
    /\ executor' = None

\* The parts of dispatch that a request must pass before the host's own state
\* is looked at: the Host header, Origin and encoding, the bearer, the pins.
Refusals == {"authority", "browser", "unauthorized", "identity"}

\* A request reaches the host and waits for the bearer comparison.
Arrive(r, k) ==
    /\ host = "up"
    /\ ~closed
    /\ phase[r] = "none"
    /\ kind' = [kind EXCEPT ![r] = k]
    /\ phase' = [phase EXCEPT ![r] = "auth"]
    /\ connected' = connected \cup {r}
    /\ UNCHANGED <<host, answer, slot, aborted, container, recoveryRequired,
                   stopping, closed, faults>>

Finish(r, status) ==
    /\ phase' = [phase EXCEPT ![r] = "done"]
    /\ reply(r, status)

\* The request fails one of the checks that need none of the host's state.
Refuse(r, why) ==
    /\ phase[r] = "auth"
    /\ Finish(r, why)
    /\ UNCHANGED <<host, kind, connected, slot, aborted, container,
                   recoveryRequired, stopping, closed, faults>>

\* What dispatch answers without taking the slot, in the order of its checks.
X_Immediate(r) ==
    IF stopping THEN "stopping"
    ELSE IF kind[r] = "livez" THEN "live"
    ELSE IF recoveryRequired THEN "recovery_required"
    ELSE IF kind[r] = "other" THEN "not_found"
    ELSE IF active # None /\ kind[r] # "readyz" THEN "busy"
    ELSE None
Immediate(r) ==
    IF stopping THEN "stopping"
    ELSE IF kind[r] = "livez" THEN "live"
    ELSE IF recoveryRequired THEN "recovery_required"
    ELSE IF kind[r] = "other" THEN "not_found"
    ELSE IF active # None THEN "busy"
    ELSE None

X_DispatchAnswers(r) ==
    /\ phase[r] = "auth"
    /\ Immediate(r) \notin {None, "recovery_required"}
    /\ Finish(r, Immediate(r))
    /\ UNCHANGED <<host, kind, connected, slot, aborted, container,
                   recoveryRequired, stopping, closed, faults>>
DispatchAnswers(r) ==
    /\ phase[r] = "auth"
    /\ Immediate(r) # None
    /\ Finish(r, Immediate(r))
    /\ UNCHANGED <<host, kind, connected, slot, aborted, container,
                   recoveryRequired, stopping, closed, faults>>

\* The slot is taken in the same turn as the check; a job then awaits its body.
DispatchRuns(r) ==
    /\ phase[r] = "auth"
    /\ kind[r] = "run"
    /\ Immediate(r) = None
    /\ active' = r
    /\ phase' = [phase EXCEPT ![r] = "body"]
    /\ UNCHANGED <<host, kind, connected, answer, executor, aborted,
                   container, recoveryRequired, stopping, closed, faults>>

-----------------------------------------------------------------------------
(* runIsolatedProcess.  A provisioning that fails before "create" leaves    *)
(* nothing; one that fails after it runs the cleanup of "finally".          *)

Fault == /\ faults < MaxFaults
         /\ faults' = faults + 1

\* create, start and the two ownership checks succeed: the client attaches.
Create(r) ==
    /\ container[r] = "absent"
    /\ container' = [container EXCEPT ![r] = "running"]
    /\ UNCHANGED faults

\* The cleanup proves the container gone, kills it first when it still runs.
Cleaned(r) == container' = [container EXCEPT ![r] = "removed"]

\* The cleanup cannot prove it: exists, inspect, kill or rm failed.
Unproven(r) == /\ Fault
               /\ container' = [container EXCEPT ![r] = "left"]

\* The readiness probe takes the slot and runs a container of its own.
DispatchProbes(r) ==
    /\ phase[r] = "auth"
    /\ kind[r] = "readyz"
    /\ Immediate(r) = None
    /\ \/ /\ Create(r)
          /\ active' = r
          /\ phase' = [phase EXCEPT ![r] = "attached"]
          /\ UNCHANGED answer
       \/ /\ Fault
          /\ container' \in {[container EXCEPT ![r] = c] : c \in {"removed", "left"}}
          /\ Finish(r, "unavailable")
          /\ UNCHANGED active
    /\ UNCHANGED <<host, kind, connected, executor, aborted, recoveryRequired,
                   stopping, closed>>

\* The probe's process ended: ready, or not; whatever it threw is swallowed.
ProbeEnds(r) ==
    /\ phase[r] = "attached"
    /\ kind[r] = "readyz"
    /\ \/ Cleaned(r) /\ UNCHANGED faults /\ Finish(r, "ready")
       \/ Cleaned(r) /\ Fault /\ Finish(r, "unavailable")
       \/ Unproven(r) /\ Finish(r, "unavailable")
    /\ release(r)
    /\ UNCHANGED <<host, kind, connected, aborted, recoveryRequired,
                   stopping, closed>>

-----------------------------------------------------------------------------
\* readBody refuses (size, time, encoding, abort), or the request is malformed.
BodyRefused(r) ==
    /\ phase[r] = "body"
    /\ Finish(r, "body_invalid")
    /\ release(r)
    /\ UNCHANGED <<host, kind, connected, aborted, container,
                   recoveryRequired, stopping, closed, faults>>

\* The body is there, but meanwhile the host stops or the client has gone.
Abandoned(r) == stopping \/ r \notin connected

X_BodyTooLate(r) ==
    /\ phase[r] = "body"
    /\ Abandoned(r)
    /\ phase' = [phase EXCEPT ![r] = "done"]
    /\ UNCHANGED <<host, kind, connected, answer, slot, aborted, container,
                   recoveryRequired, stopping, closed, faults>>
BodyTooLate(r) ==
    /\ phase[r] = "body"
    /\ Abandoned(r)
    /\ phase' = [phase EXCEPT ![r] = "done"]
    /\ release(r)
    /\ UNCHANGED <<host, kind, connected, answer, aborted, container,
                   recoveryRequired, stopping, closed, faults>>

\* The executor is made and named; the digest of the job is still awaited.
BodyRead(r) ==
    /\ phase[r] = "body"
    /\ ~Abandoned(r)
    /\ executor' = r
    /\ phase' = [phase EXCEPT ![r] = "digest"]
    /\ UNCHANGED <<host, kind, connected, answer, active, aborted, container,
                   recoveryRequired, stopping, closed, faults>>

\* guarded: every error but a cancellation locks the host.
X_guarded(error) == recoveryRequired' = (recoveryRequired \/ error # None)
X_guardedNot(error) == recoveryRequired' = (recoveryRequired \/ error = "podman")
guarded(error) ==
    recoveryRequired' = (recoveryRequired \/ error \notin {None, "aborted"})

\* execute, when the executor has not been told to stop.
X_mayExecute(r) == TRUE
mayExecute(r) == r \notin aborted

ExecuteCancelled(r) ==
    /\ phase[r] = "digest"
    /\ ~mayExecute(r)
    /\ guarded("aborted")
    /\ Finish(r, "failed")
    /\ release(r)
    /\ UNCHANGED <<host, kind, connected, aborted, container, stopping,
                   closed, faults>>

ExecuteAttaches(r) ==
    /\ phase[r] = "digest"
    /\ mayExecute(r)
    /\ Create(r)
    /\ phase' = [phase EXCEPT ![r] = "attached"]
    /\ UNCHANGED <<host, kind, connected, answer, slot, aborted,
                   recoveryRequired, stopping, closed>>

\* A command fails on the way to attach; what was created is cleaned up, or not.
ExecuteFails(r) ==
    /\ phase[r] = "digest"
    /\ mayExecute(r)
    /\ Fault
    /\ container' \in {[container EXCEPT ![r] = c] : c \in {"absent", "removed", "left"}}
    /\ guarded("podman")
    /\ Finish(r, "failed")
    /\ release(r)
    /\ UNCHANGED <<host, kind, connected, aborted, stopping, closed>>

\* runIsolated gives up at its own deadline: the client is answered while the
\* executor is still there, and told to stop.
DeadlinePasses(r) ==
    /\ phase[r] \in {"attached", "ended"}
    /\ kind[r] = "run"
    /\ answer[r] = None
    /\ r \in connected
    /\ aborted' = aborted \cup {r}
    /\ reply(r, "failed")
    /\ UNCHANGED <<host, kind, phase, connected, slot, container,
                   recoveryRequired, stopping, closed, faults>>

\* attach ends by itself, by its timer, by too much output or by the signal.
X_attach(r) == /\ r \notin aborted
               /\ phase[r] = "attached"
               /\ kind[r] = "run"
               /\ phase' = [phase EXCEPT ![r] = "ended"]
               /\ UNCHANGED <<host, kind, connected, answer, slot, aborted,
                              container, recoveryRequired, stopping, closed, faults>>
attach(r) ==
    /\ phase[r] = "attached"
    /\ kind[r] = "run"
    /\ phase' = [phase EXCEPT ![r] = "ended"]
    /\ UNCHANGED <<host, kind, connected, answer, slot, aborted, container,
                   recoveryRequired, stopping, closed, faults>>

\* The exit is proved, the container removed, the answer given and, in serve's
\* finally, the executor awaited: only then is the slot free.
RunEnds(r) ==
    /\ phase[r] = "ended"
    /\ kind[r] = "run"
    /\ Cleaned(r)
    /\ Finish(r, IF r \in aborted THEN "failed" ELSE "result")
    /\ guarded(None)
    /\ release(r)
    /\ UNCHANGED <<host, kind, connected, aborted, stopping, closed, faults>>

\* The container is removed, but the job's own output cannot be decoded: the
\* request fails with no Podman command failed.
OutputInvalid(r) ==
    /\ phase[r] = "ended"
    /\ kind[r] = "run"
    /\ container' = [container EXCEPT ![r] = "garbled"]
    /\ guarded("encoding")
    /\ Finish(r, "failed")
    /\ release(r)
    /\ UNCHANGED <<host, kind, connected, aborted, stopping, closed, faults>>

\* termination, exit or cleanup unproved: the container may be left.
RunUnproven(r) ==
    /\ phase[r] = "ended"
    /\ kind[r] = "run"
    /\ \/ Unproven(r)
       \/ Fault /\ Cleaned(r)
    /\ guarded("unproven")
    /\ Finish(r, "failed")
    /\ release(r)
    /\ UNCHANGED <<host, kind, connected, aborted, stopping, closed>>

-----------------------------------------------------------------------------
\* cancelled: the listeners are there only from the executor's creation on.
cancelled(gone) ==
    aborted \cup {r \in gone : phase[r] \in {"digest", "attached", "ended"}
                               /\ kind[r] = "run" /\ answer[r] = None}

Disconnect(r) ==
    /\ r \in connected
    /\ phase[r] # "done"
    /\ connected' = connected \ {r}
    /\ aborted' = cancelled({r})
    /\ UNCHANGED <<host, kind, phase, answer, slot, container,
                   recoveryRequired, stopping, closed, faults>>

\* close: no new connection, every socket closed, the executor told to stop.
Close ==
    /\ host = "up"
    /\ ~stopping
    /\ stopping' = TRUE
    /\ connected' = {}
    /\ aborted' = cancelled(connected)
                  \cup (IF executor = None THEN {} ELSE {executor})
    /\ UNCHANGED <<host, kind, phase, answer, slot, container,
                   recoveryRequired, closed, faults>>

\* close awaits the executor, the owner of the slot and the server.
X_mayClose == stopping
mayClose == stopping /\ active = None

CloseEnds ==
    /\ mayClose
    /\ ~closed
    /\ \A r \in Requests : phase[r] # "auth"
    /\ closed' = TRUE
    /\ UNCHANGED <<host, request, slot, aborted, container, recoveryRequired,
                   stopping, faults>>

-----------------------------------------------------------------------------
\* One request's own steps, apart from its arrival and its client's departure.
Step(r) ==
    \/ DispatchAnswers(r) \/ DispatchRuns(r) \/ DispatchProbes(r)
    \/ ProbeEnds(r) \/ BodyRefused(r) \/ BodyTooLate(r) \/ BodyRead(r)
    \/ ExecuteCancelled(r) \/ ExecuteAttaches(r) \/ ExecuteFails(r)
    \/ attach(r) \/ RunEnds(r) \/ OutputInvalid(r) \/ RunUnproven(r)

Stopped ==
    /\ host = "failed" \/ closed
    /\ UNCHANGED vars

Next ==
    \/ \E ok \in BOOLEAN : main(ok)
    \/ \E r \in Requests :
        \/ \E k \in Kinds : Arrive(r, k)
        \/ \E why \in Refusals : Refuse(r, why)
        \/ Step(r)
        \/ DeadlinePasses(r)
        \/ Disconnect(r)
    \/ Close
    \/ CloseEnds
    \/ Stopped

Spec == Init /\ [][Next]_vars

\* The bearer comparison, the body (five seconds), the digest and the attached
\* client (its own timer kills the container) all settle by themselves; no
\* client has to leave and no container has to end of its own accord.
Fairness ==
    /\ \A r \in Requests : WF_vars(Step(r))
    /\ WF_vars(CloseEnds)

FairSpec == Spec /\ Fairness

-----------------------------------------------------------------------------
\* The types; the executor that close() can name is the slot owner's.
TypeOK ==
    /\ host \in {"starting", "up", "failed"}
    /\ kind \in [Requests -> Kinds \cup {None}]
    /\ phase \in [Requests -> Phases]
    /\ connected \subseteq Requests
    /\ active \in Requests \cup {None}
    /\ executor \in {None, active}
    /\ aborted \subseteq Requests
    /\ container \in [Requests -> {"absent", "running", "removed", "garbled", "left"}]
    /\ recoveryRequired \in BOOLEAN
    /\ stopping \in BOOLEAN
    /\ closed \in BOOLEAN
    /\ faults \in 0 .. MaxFaults

\* A container that may still exist belongs to the request that owns the slot,
\* was made by a readiness probe, or has locked the host: no job is ever run
\* beside what is left of an earlier one.  (server.ts "Keep the slot owned
\* until the actual executor has settled and cleaned up.")
SlotCoversContainer ==
    \A r \in Requests :
        (kind[r] = "run" /\ container[r] \in {"running", "left"})
            => active = r \/ recoveryRequired

\* At most one container runs at any moment, whoever disconnects and whichever
\* deadline answered the client first.
OneContainer ==
    Cardinality({r \in Requests : container[r] = "running"}) <= 1

\* The host is locked only after a Podman command failed or a job's output
\* could not be decoded: a client that leaves before its job is provisioned
\* does not cost the operator a restart.
LockedForCause ==
    recoveryRequired => faults > 0 \/ \E r \in Requests : container[r] = "garbled"

\* Once close() has resolved no request is being served and nothing runs.
ClosedIsQuiet ==
    closed => \A r \in Requests :
        /\ container[r] # "running"
        /\ phase[r] \notin {"body", "digest", "attached", "ended"}

\* After the host began to stop, or was locked, no container is created: not
\* by a body that arrives late nor by a digest that was awaited meanwhile.
NothingNewAfterStop ==
    [][stopping \/ recoveryRequired =>
        \A r \in Requests : container'[r] = "running" => container[r] = "running"]_vars

\* A client that leaves frees the slot, and every accepted request ends.
LeavingFrees ==
    \A r \in Requests : (active = r /\ r \notin connected) ~> (active # r)
EveryRequestEnds ==
    \A r \in Requests : (phase[r] = "auth") ~> (phase[r] = "done")

\* A stop always completes.
StopCompletes == stopping ~> closed

\* docs/local-host-runtime.md: an operation that leaves the runtime's state
\* uncertain locks the host against further work, the probe's included.
\* The code does not keep it, and no run checks it (README, disagreements).
UncertainIsLocked ==
    \A r \in Requests : container[r] = "left" => recoveryRequired
=============================================================================
