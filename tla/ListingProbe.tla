---------------------------- MODULE ListingProbe ----------------------------
(***************************************************************************)
(* The readiness probe of the listing host                                 *)
(* (scripts/durable-fulfillment/relay.mjs): reading the model's artifacts  *)
(* is expensive, so callers share one flight, at most MaxWaiters of them,  *)
(* and a flight that nobody waits for any more is aborted but keeps its    *)
(* place until its verifier, which may not listen, has really ended.       *)
(***************************************************************************)
EXTENDS Naturals, FiniteSets

CONSTANTS
    Requests,
    MaxWaiters,  \* four in the code
    None

ProbeAssumption ==
    /\ MaxWaiters \in Nat \ {0}
    /\ None \notin Requests
    /\ None \notin {"invalid", "forbidden", "probe"}

VARIABLES
    asked,      \* what each request presents: nothing yet, a probe, or worse
    status,     \* the answer of each request, None while it has none
    probe,      \* the current flight: the request that started it, or None
    aborted,    \* flights whose controller was aborted
    verifier,   \* per flight: not started, reading, or how it ended
    waiters,    \* per flight: the requests that wait for it
    good        \* whether the artifacts are the pinned ones at this moment

vars == <<asked, status, probe, aborted, verifier, waiters, good>>

Init ==
    /\ asked = [r \in Requests |-> None]
    /\ status = [r \in Requests |-> None]
    /\ probe = None
    /\ aborted = {}
    /\ verifier = [f \in Requests |-> "none"]
    /\ waiters = [f \in Requests |-> {}]
    /\ good \in BOOLEAN

-----------------------------------------------------------------------------
\* ready refuses a malformed probe, then one that is not the relay's.
ready(r, how) ==
    /\ asked[r] = None
    /\ how \in {"invalid", "forbidden"}
    /\ asked' = [asked EXCEPT ![r] = how]
    /\ status' = [status EXCEPT ![r] = IF how = "invalid" THEN 400 ELSE 403]
    /\ UNCHANGED <<probe, aborted, verifier, waiters, good>>

\* finish for a set of waiters of one flight: each is answered once, and a
\* flight that loses its last waiter before it settled is aborted.
X_finish(f, gone, code, settled) ==
    /\ status' = [r \in Requests |-> IF r \in gone THEN code ELSE status[r]]
    /\ waiters' = [waiters EXCEPT ![f] = @ \ gone]
    /\ UNCHANGED aborted
finish(f, gone, code, settled) ==
    /\ status' = [r \in Requests |-> IF r \in gone THEN code ELSE status[r]]
    /\ waiters' = [waiters EXCEPT ![f] = @ \ gone]
    /\ aborted' = IF ~settled /\ waiters[f] \ gone = {} THEN aborted \cup {f}
                  ELSE aborted

\* observe: an aborted flight refuses, a full one too, the others are joined.
inTheWay == IF probe \in aborted THEN probe ELSE None
X_full == probe # None /\ Cardinality(waiters[probe]) > MaxWaiters
full == probe # None /\ Cardinality(waiters[probe]) >= MaxWaiters

ObserveRefused(r) ==
    /\ asked[r] = None
    /\ \/ inTheWay # None /\ status' = [status EXCEPT ![r] = 503]
       \/ inTheWay = None /\ full /\ status' = [status EXCEPT ![r] = 429]
    /\ asked' = [asked EXCEPT ![r] = "probe"]
    /\ UNCHANGED <<probe, aborted, verifier, waiters, good>>

ObserveJoins(r) ==
    /\ asked[r] = None
    /\ probe # None /\ inTheWay = None /\ ~full
    /\ asked' = [asked EXCEPT ![r] = "probe"]
    /\ waiters' = [waiters EXCEPT ![probe] = @ \cup {r}]
    /\ UNCHANGED <<status, probe, aborted, verifier, good>>

\* startProbe: a flight of its own; the verifier starts a turn later.
X_free == probe = None \/ probe \in aborted
free == probe = None

startProbe(r) ==
    /\ asked[r] = None
    /\ free
    /\ asked' = [asked EXCEPT ![r] = "probe"]
    /\ probe' = r
    /\ verifier' = [verifier EXCEPT ![r] = "queued"]
    /\ waiters' = [waiters EXCEPT ![r] = {r}]
    /\ UNCHANGED <<status, aborted, good>>

\* settle: the flight leaves its place and answers whoever still waits.
clear(f) == IF probe = f THEN None ELSE probe

X_settle(f, ok) ==
    /\ verifier' = [verifier EXCEPT ![f] = IF ok THEN "verified" ELSE "refused"]
    /\ probe' = clear(f)
    /\ finish(f, waiters[f], 200, TRUE)
settle(f, ok) ==
    /\ verifier' = [verifier EXCEPT ![f] = IF ok THEN "verified" ELSE "refused"]
    /\ probe' = clear(f)
    /\ finish(f, waiters[f], IF ok /\ f \notin aborted THEN 200 ELSE 503, TRUE)

Verify(f) ==
    /\ verifier[f] = "queued"
    /\ IF f \in aborted
       THEN settle(f, FALSE)
       ELSE /\ verifier' = [verifier EXCEPT ![f] = "reading"]
            /\ UNCHANGED <<status, probe, aborted, waiters>>
    /\ UNCHANGED <<asked, good>>

\* The verifier ends: it has read the artifacts, or heard the abort.
VerifierEnds(f) ==
    /\ verifier[f] = "reading"
    /\ \/ settle(f, good)
       \/ f \in aborted /\ settle(f, FALSE)
    /\ UNCHANGED <<asked, good>>

\* Fifteen seconds after its start the flight is aborted, with all its waiters.
X_Timeout(f) ==
    /\ verifier[f] \in {"queued", "reading"}
    /\ f \notin aborted
    /\ aborted' = aborted \cup {f}
    /\ UNCHANGED <<asked, status, probe, verifier, waiters, good>>
Timeout(f) ==
    /\ verifier[f] \in {"queued", "reading"}
    /\ f \notin aborted
    /\ status' = [r \in Requests |-> IF r \in waiters[f] THEN 503 ELSE status[r]]
    /\ waiters' = [waiters EXCEPT ![f] = {}]
    /\ aborted' = aborted \cup {f}
    /\ UNCHANGED <<asked, probe, verifier, good>>

\* A caller goes away.
Cancel(r) ==
    \E f \in Requests :
        /\ r \in waiters[f]
        /\ finish(f, {r}, 503, FALSE)
        /\ UNCHANGED <<asked, probe, verifier, good>>

\* An operator replaces the artifacts on disk.
Replace ==
    /\ good' = ~good
    /\ UNCHANGED <<asked, status, probe, aborted, verifier, waiters>>

Next ==
    \/ \E r \in Requests :
        \/ \E how \in {"invalid", "forbidden"} : ready(r, how)
        \/ ObserveRefused(r) \/ ObserveJoins(r) \/ startProbe(r)
        \/ Verify(r) \/ VerifierEnds(r) \/ Timeout(r) \/ Cancel(r)
    \/ Replace

Spec == Init /\ [][Next]_vars

\* The timer fires and the queued microtask runs; the verifier need not end.
FairSpec == Spec /\ \A f \in Requests : WF_vars(Timeout(f)) /\ WF_vars(Verify(f))

-----------------------------------------------------------------------------
\* Types; a request waits in at most one flight and only while unanswered.
TypeOK ==
    /\ asked \in [Requests -> {None, "invalid", "forbidden", "probe"}]
    /\ status \in [Requests -> {None, 200, 400, 403, 429, 503}]
    /\ probe \in Requests \cup {None}
    /\ aborted \subseteq Requests
    /\ verifier \in [Requests -> {"none", "queued", "reading", "verified", "refused"}]
    /\ good \in BOOLEAN
    /\ waiters \in [Requests -> SUBSET Requests]
    /\ \A r \in Requests : Cardinality({f \in Requests : r \in waiters[f]}) <= 1
    /\ \A f \in Requests, r \in Requests : r \in waiters[f] => status[r] = None
    /\ \A f \in Requests : Cardinality(waiters[f]) <= MaxWaiters

\* The artifacts are read by one verifier at a time, however often callers
\* give up and come again while an aborted verifier does not listen.
OneVerifier == Cardinality({f \in Requests : verifier[f] \in {"queued", "reading"}}) <= 1

\* A flight nobody waits for is aborted: no artifacts are read for nobody.
NobodyIsServed ==
    \A f \in Requests : (verifier[f] \in {"queued", "reading"} /\ waiters[f] = {})
        => f \in aborted

\* Ready is answered only in the step in which a verifier has just found the
\* pinned artifacts, so never from an observation older than the request.
ReadyIsFresh ==
    [][\A r \in Requests : (status'[r] = 200 /\ status[r] # 200) =>
        /\ good
        /\ \E f \in Requests : verifier[f] = "reading" /\ verifier'[f] = "verified"]_vars

\* Every caller is answered, also when the verifier never ends.
EveryoneAnswered ==
    \A r \in Requests : (asked[r] = "probe") ~> (status[r] # None)
=============================================================================
