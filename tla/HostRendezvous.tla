--------------------------- MODULE HostRendezvous ---------------------------
(***************************************************************************)
(* The rendezvous of a release with its fulfilment host: while the         *)
(* operator replaces the old host by the one the release pins,             *)
(* waitForFulfillmentHost probes with the candidate's pins and, when they  *)
(* are denied, with the predecessor's, until the candidate's host is ready *)
(* or the deadline is over.  The host changes between any two probes.      *)
(***************************************************************************)
EXTENDS Naturals

CONSTANT MaxForeign     \* bound: answers of something else than a host

RendezvousAssumption == MaxForeign \in Nat

VARIABLES
    host,            \* "old", "gap", "new": what answers at the origin
    pc,              \* "candidate", "predecessor", "recheck", "sleep", "ready", "failed"
    answer,          \* the classification of the probe under way, or "none"
    error, late,     \* late: the deadline is over
    seenNew,         \* ghost: a probe was answered by the new host's identity
    foreign

vars == <<host, pc, answer, error, late, seenNew, foreign>>

Init ==
    /\ host = "old" /\ pc = "candidate" /\ answer = "none" /\ error = "none" /\ late = FALSE
    /\ seenNew = FALSE /\ foreign = 0

\* The operator's cutover.
Cutover ==
    /\ host' \in (CASE host = "old" -> {"gap", "new"} [] host = "gap" -> {"new"} [] host = "new" -> {})
    /\ UNCHANGED <<pc, answer, error, late, seenNew, foreign>>

Deadline == ~late /\ late' = TRUE /\ UNCHANGED <<host, pc, answer, error, seenNew, foreign>>

Ended == pc \in {"ready", "failed"}
Probing == pc \in {"candidate", "predecessor", "recheck"}

Fail(code) == pc' = "failed" /\ error' = code
Goto(next) == pc' = next /\ UNCHANGED error

Temporary == {"temporary-http", "temporary-transport"}

\* A redirect, another identity, an answer nobody classified.
Fatal == {"redirect", "identity-mismatch", "invalid-response"}

\* probeHost: how the origin's answer to one target's pins is classified.
probeHost ==
    IF host = "gap" THEN Temporary
    ELSE IF (host = "new") = (pc # "predecessor") THEN {"ready"} \cup Temporary
    ELSE {"denied", "temporary-transport"}

\* Mutant: the deadline is never looked at.
X_checkpoint == TRUE

checkpoint == ~late

\* probe: the deadline, then the request to the origin as it is now.
probe ==
    /\ Probing /\ answer = "none"
    /\ IF ~checkpoint THEN Fail("deadline") /\ UNCHANGED <<answer, seenNew, foreign>>
       ELSE /\ UNCHANGED <<pc, error>>
            /\ \/ answer' \in probeHost /\ UNCHANGED foreign
               \/ foreign < MaxForeign /\ foreign' = foreign + 1 /\ answer' \in Fatal
            /\ seenNew' = (seenNew \/ (pc # "predecessor" /\ answer' = "ready"))
    /\ UNCHANGED <<host, late>>

\* Mutant: a pair of denials is refused as it is.
X_AfterPredecessor == IF answer = "denied" THEN Fail("unexplained_denial") ELSE Goto("sleep")

\* The predecessor's pins: denied too (the cutover may just have finished),
\* ready, or in the gap of the cutover.
AfterPredecessor == Goto(IF answer = "denied" THEN "recheck" ELSE "sleep")

\* Mutant: the recheck takes whatever host answers.
X_AfterRecheck == Goto("ready")

\* One strict recheck tells the new host from an unexplained pair.
AfterRecheck ==
    IF answer = "denied" THEN Fail("unexplained_denial")
    ELSE Goto(IF answer = "ready" THEN "ready" ELSE "sleep")

AfterCandidate ==
    Goto(CASE answer = "ready" -> "ready" [] answer = "denied" -> "predecessor" [] OTHER -> "sleep")

\* The answer: the deadline again, a fatal class, or the next probe.
Answered ==
    /\ answer # "none" /\ answer' = "none"
    /\ IF ~checkpoint THEN Fail("deadline")
       ELSE IF answer \in Fatal THEN Fail(answer)
       ELSE CASE pc = "candidate" -> AfterCandidate
              [] pc = "predecessor" -> AfterPredecessor
              [] pc = "recheck" -> AfterRecheck
    /\ UNCHANGED <<host, late, seenNew, foreign>>

Sleep ==
    /\ pc = "sleep"
    /\ IF checkpoint THEN Goto("candidate") ELSE Fail("deadline")
    /\ UNCHANGED <<host, answer, late, seenNew, foreign>>

Step == probe \/ Answered \/ Sleep

Next == Step \/ Cutover \/ Deadline

\* The caller keeps probing and time passes; the operator owes nothing.
Spec == Init /\ [][Next]_vars /\ WF_vars(Step) /\ WF_vars(Deadline)

--------------------------------------------------------------------------------
\* The release continues only after the host with the candidate's pins proved
\* its identity, and then it is the one there.
ReadyIsTheNewHost == pc = "ready" => seenNew /\ host = "new"

\* A cutover, whenever it happens between the probes and however long its
\* gap, is never taken for an unexplained denial.
CutoverIsNotDenied == error # "unexplained_denial"

\* The rendezvous ends, at the latest with its deadline.
RendezvousEnds == <>Ended

================================================================================
