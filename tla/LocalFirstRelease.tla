-------------------------- MODULE LocalFirstRelease -------------------------
(***************************************************************************)
(* The local-first production release: execute.mjs observes the provider,  *)
(* deployLocalFirst uploads the candidate, binds the route (bootstrap) and *)
(* verifies it live, or restores what it may; a fulfilment release then    *)
(* rehearses the rollback to its retained reader and back.  Other          *)
(* operators change the same Worker and route, main advances, and every    *)
(* provider call may fail with or without having taken effect.             *)
(***************************************************************************)
EXTENDS Naturals

CONSTANTS
    None,
    Plans,           \* releases: [mode, checkout, prev, retained, pins]
    MaxPeers, MaxFaults    \* bounds

LocalFirstAssumption == MaxPeers \in Nat /\ MaxFaults \in Nat

VARIABLES
    plan,
    serving,         \* the active deployment [id, ver], or None
    route,           \* "absent", "bound" (to the Worker), "peer"
    main,            \* origin's main is the candidate
    pc, owned,
    before, journal, disk,
    restore,         \* restoreLocalFirstVersion under way, or None
    proof,           \* of the rehearsal, or None
    verified,        \* ghost: the deployment last verified live
    peerSeen,        \* ghost: a peer's deployment was read
    peers, faults

vars == <<plan, serving, route, main, pc, owned, before, journal, disk, restore, proof, verified,
          peerSeen, peers, faults>>
provider == <<serving, route>>
world == <<plan, main, peers>>
NoJournal == [stage |-> "prepared", outcome |-> "pending", active |-> None, route |-> None,
              unknown |-> FALSE, ready |-> FALSE]

Live == plan.checkout # "sandbox"
Bound == IF plan.mode = "bootstrap" THEN "absent" ELSE "bound"   \* the route authority's before

\* provider.version: the bindings of the versions.
version(ver) ==
    CASE ver = "prev" -> [source |-> "old", checkout |-> plan.prev.checkout, pins |-> plan.prev.pins]
      [] ver = "cand" -> [source |-> "cand", checkout |-> plan.checkout, pins |-> plan.pins]
      [] ver = "reader" -> [source |-> "reader", checkout |-> "sandbox", pins |-> None]
      [] ver = "peer" -> [source |-> "other", checkout |-> "sandbox", pins |-> None]

\* Mutant: a changed host still has the previous version restored.
X_selectFailureRecovery == FALSE

\* selectFailureRecovery: the reader is the failure target when the host's
\* pins change.
selectFailureRecovery ==
    /\ plan.checkout = "sandbox" /\ plan.mode = "steady"
    /\ plan.prev.pins # None /\ plan.pins # None /\ plan.prev.pins # plan.pins

requireRollbackRehearsal == ~Live /\ plan.pins # None

Init ==
    /\ plan \in Plans
    /\ serving = (IF plan.prev = None THEN None ELSE [id |-> 0, ver |-> "prev"])
    /\ route = Bound /\ main = TRUE
    /\ pc = "observe" /\ owned = FALSE /\ before = None /\ journal = NoJournal /\ disk = None
    /\ restore = None /\ proof = None /\ verified = None /\ peerSeen = FALSE
    /\ peers = 0 /\ faults = 0

--------------------------------------------------------------------------------
\* The provider.

Deployed(ver) == [id |-> 1 + (IF serving = None THEN 0 ELSE serving.id), ver |-> ver]

\* provider.active, provider.route: what is read, and that it was a peer's.
Reads == peerSeen' = (serving # None /\ serving.ver = "peer")

\* A provider write: it takes effect and is answered, or it fails with or
\* without having taken effect.
Write(effect, unchanged, good, bad) ==
    \/ effect /\ good /\ UNCHANGED faults
    \/ /\ faults < MaxFaults /\ faults' = faults + 1
       /\ effect \/ unchanged
       /\ bad

record(j, stage) == journal' = [j EXCEPT !.stage = stage] /\ disk' = [j EXCEPT !.stage = stage]

\* A step throws: the failure path of deployLocalFirst.
Throw ==
    /\ record([journal EXCEPT !.outcome = "preserve-required"], "failed")
    /\ pc' = "failed"

Goto(next) == pc' = next /\ UNCHANGED <<journal, disk>>

--------------------------------------------------------------------------------
\* execute.mjs before the first effect.

\* observeBefore and the guards: a bootstrap finds nothing but a retained
\* Worker, a sandbox release no live reader, a fulfilment its host.
observeBefore ==
    /\ pc = "observe"
    /\ before' = [active |-> serving, route |-> route]
    /\ Reads
    /\ LET admitted == /\ main /\ route = Bound
                       /\ plan.mode = "bootstrap" => (serving # None <=> plan.retained)
                       /\ plan.mode = "steady" => serving # None
                       /\ serving # None => serving.ver # "peer"
                       /\ ~Live /\ serving # None => version(serving.ver).checkout = "sandbox"
                       /\ Live \/ plan.pins # None => plan.mode = "steady"
       IN  \/ admitted /\ Goto("check")
           \/ Goto("refused")
    /\ UNCHANGED <<provider, world, owned, restore, proof, verified, faults>>

--------------------------------------------------------------------------------
\* deployLocalFirst.

\* Mutant: the upload does not look whether the provider changed.
X_Unchanged == TRUE

Unchanged == serving = before.active /\ route = before.route

\* Mutant: the journal is written once the upload is over.
X_CheckBefore ==
    /\ pc = "check" /\ Reads
    /\ main /\ Unchanged /\ Goto("upload")
    /\ UNCHANGED <<provider, world, owned, before, restore, proof, verified, faults>>

\* Main, the failure reader and the provider's state, then the journal.
CheckBefore ==
    /\ pc = "check" /\ Reads
    /\ \/ main /\ Unchanged /\ record(journal, "deploy-worker") /\ pc' = "upload" /\ UNCHANGED faults
       \/ ~(main /\ Unchanged) /\ Throw /\ UNCHANGED faults
       \/ faults < MaxFaults /\ faults' = faults + 1 /\ Throw
    /\ UNCHANGED <<provider, world, owned, before, restore, proof, verified>>

\* wrangler deploy.
Upload ==
    /\ pc = "upload"
    /\ Write(serving' = Deployed("cand"), UNCHANGED serving, Goto("readback"), Throw)
    /\ UNCHANGED <<route, world, owned, before, restore, proof, verified, peerSeen>>

\* The deployment read back is the candidate's, at no other address.
Readback ==
    /\ pc = "readback" /\ Reads
    /\ LET j == [journal EXCEPT !.active = serving]
           own == serving # None /\ version(serving.ver).source = "cand"
           failed == /\ record([j EXCEPT !.outcome = "preserve-required"], "failed")
                     /\ pc' = "failed"
       IN  \/ own /\ owned' = TRUE /\ record(j, "version-verified") /\ pc' = "unrouted" /\ UNCHANGED faults
           \/ ~own /\ failed /\ UNCHANGED <<owned, faults>>
           \/ /\ faults < MaxFaults /\ faults' = faults + 1
              /\ \/ owned' \in {FALSE, own} /\ failed
                 \/ Throw /\ UNCHANGED owned
    /\ UNCHANGED <<provider, world, before, restore, proof, verified>>

\* Main, the route and the deployment once more.
CheckRoute ==
    /\ pc = "unrouted" /\ Reads
    /\ \/ /\ main /\ route = before.route /\ serving = journal.active
          /\ IF plan.mode = "bootstrap" THEN record(journal, "activate-exact-route") /\ pc' = "bind"
             ELSE Goto("routed")
          /\ UNCHANGED faults
       \/ ~(main /\ route = before.route /\ serving = journal.active) /\ Throw /\ UNCHANGED faults
       \/ faults < MaxFaults /\ faults' = faults + 1 /\ Throw
    /\ UNCHANGED <<provider, world, owned, before, restore, proof, verified>>

\* provider.bindRoute; the provider refuses a pattern that is taken.
bindRoute ==
    /\ pc = "bind"
    /\ IF route = "absent"
       THEN Write(route' = "bound", UNCHANGED route, Goto("routed"), Throw)
       ELSE Throw /\ UNCHANGED <<route, faults>>
    /\ UNCHANGED <<serving, world, owned, before, restore, proof, verified, peerSeen>>

\* The route is read and proved.
ReadRoute ==
    /\ pc = "routed"
    /\ LET j == [journal EXCEPT !.route = route]
       IN  \/ route = "bound" /\ record(j, "verify-live-browser") /\ pc' = "live" /\ UNCHANGED faults
           \/ /\ route # "bound"
              /\ record([j EXCEPT !.outcome = "preserve-required"], "failed") /\ pc' = "failed"
              /\ UNCHANGED faults
           \/ faults < MaxFaults /\ faults' = faults + 1 /\ Throw
    /\ UNCHANGED <<provider, world, owned, before, restore, proof, verified, peerSeen>>

\* verifyLive: the browser proof and the identity of what is served.
verifyLive(next, failed) ==
    \/ /\ serving # None /\ serving.ver = journal.active.ver /\ route = "bound"
       /\ verified' = journal.active.id /\ next /\ UNCHANGED faults
    \/ /\ serving = None \/ serving.ver # journal.active.ver \/ route # "bound"
       /\ failed /\ UNCHANGED <<verified, faults>>
    \/ faults < MaxFaults /\ faults' = faults + 1 /\ failed /\ UNCHANGED verified

VerifyCandidate ==
    /\ pc = "live"
    /\ verifyLive(Goto("final"), Throw)
    /\ UNCHANGED <<provider, world, owned, before, restore, proof, peerSeen>>

\* The provider's last word; then the rehearsal or the completion.
FinalCheck ==
    /\ pc = "final" /\ Reads
    /\ LET same == serving = journal.active /\ route = journal.route
       IN  \/ /\ same /\ UNCHANGED faults
              /\ IF requireRollbackRehearsal THEN Goto("rehearse")
                 ELSE record([journal EXCEPT !.outcome = "production-complete"], "complete") /\ pc' = "done"
           \/ ~same /\ Throw /\ UNCHANGED faults
           \/ faults < MaxFaults /\ faults' = faults + 1 /\ Throw
    /\ UNCHANGED <<provider, world, owned, before, restore, proof, verified>>

--------------------------------------------------------------------------------
\* The failure path.

Ended(j) == record(j, "failed") /\ pc' = "done"

Owns == owned /\ serving = journal.active
RouteIsOurs == plan.mode = "bootstrap" /\ route = "bound" /\ journal.route = route
RouteUnchanged == plan.mode = "steady" /\ route = before.route

\* "Never restore over a peer or replay an ambiguous write": only the owned
\* deployment is taken back, and only from the route it was given.
Recover ==
    /\ pc = "failed" /\ Reads
    /\ \/ Owns /\ RouteIsOurs /\ Goto("remove") /\ UNCHANGED <<restore, faults>>
       \/ /\ Owns /\ RouteUnchanged /\ UNCHANGED faults
          /\ IF selectFailureRecovery
             THEN /\ restore' = [target |-> "reader", expected |-> journal.active, route |-> before.route,
                                 pc |-> "check"]
                  /\ Goto("recovering")
             ELSE Goto("previous") /\ UNCHANGED restore
       \/ ~(Owns /\ (RouteIsOurs \/ RouteUnchanged)) /\ Ended(journal) /\ UNCHANGED <<restore, faults>>
       \/ faults < MaxFaults /\ faults' = faults + 1 /\ Ended(journal) /\ UNCHANGED restore
    /\ UNCHANGED <<provider, world, owned, before, proof, verified>>

\* Mutant: the removal waits for its route.
X_removeRoute ==
    /\ pc = "remove" /\ route = "bound"
    /\ Write(route' = "absent", UNCHANGED route, Goto("removed"), Ended(journal))
    /\ UNCHANGED <<serving, world, owned, before, restore, proof, verified, peerSeen>>

\* removeRoute, by the id that was read.
removeRoute ==
    /\ pc = "remove"
    /\ IF route = "bound"
       THEN Write(route' = "absent", UNCHANGED route, Goto("removed"), Ended(journal))
       ELSE Ended(journal) /\ UNCHANGED <<route, faults>>
    /\ UNCHANGED <<serving, world, owned, before, restore, proof, verified, peerSeen>>

RouteRestored ==
    /\ pc = "removed"
    /\ \/ /\ Ended([journal EXCEPT !.outcome = IF route = "absent" THEN "failed-route-restored" ELSE @])
          /\ UNCHANGED faults
       \/ faults < MaxFaults /\ faults' = faults + 1 /\ Ended(journal)
    /\ UNCHANGED <<provider, world, owned, before, restore, proof, verified, peerSeen>>

\* Mutant: an activation that failed is taken for made.
X_ActivatePrevious ==
    /\ pc = "previous"
    /\ Write(serving' = Deployed(before.active.ver), UNCHANGED serving, Goto("activated"),
             Ended([journal EXCEPT !.outcome = "failed-previous-restored"]))
    /\ UNCHANGED <<route, world, owned, before, restore, proof, verified, peerSeen>>

\* activateLocalFirstVersion of the predecessor, and its readback.
ActivatePrevious ==
    /\ pc = "previous"
    /\ Write(serving' = Deployed(before.active.ver), UNCHANGED serving, Goto("activated"), Ended(journal))
    /\ UNCHANGED <<route, world, owned, before, restore, proof, verified, peerSeen>>

Restored == serving # None /\ serving.ver = before.active.ver

PreviousRestored ==
    /\ pc = "activated" /\ Reads
    /\ \/ /\ Ended([journal EXCEPT !.outcome = IF Restored THEN "failed-previous-restored" ELSE @])
          /\ UNCHANGED faults
       \/ faults < MaxFaults /\ faults' = faults + 1 /\ Ended(journal)
    /\ UNCHANGED <<provider, world, owned, before, restore, proof, verified>>

--------------------------------------------------------------------------------
\* restoreLocalFirstVersion, for the failure path and twice for the rehearsal.

\* Mutant: the failure of the restoration is swallowed.
X_RestoreThrows(unknown) == UNCHANGED <<pc, journal, disk, proof>>

RestoreThrows(unknown) ==
    IF pc = "recovering"
    THEN /\ Ended([journal EXCEPT !.unknown = @ \/ unknown]) /\ UNCHANGED proof
    ELSE /\ proof' = [proof EXCEPT !.unknown = @ \/ unknown, !.failure = TRUE]
         /\ Goto("rehearsed")

\* Main, the version, the state expected and main again, then the journal.
RestoreCheck ==
    /\ restore # None /\ restore.pc = "check" /\ Reads
    /\ LET unchanged == main /\ serving = restore.expected /\ route = restore.route
       IN  \/ /\ unchanged /\ record(journal, "restore-exact-version")
              /\ restore' = [restore EXCEPT !.pc = "write"] /\ UNCHANGED <<pc, proof, faults>>
           \/ ~unchanged /\ RestoreThrows(FALSE) /\ restore' = None /\ UNCHANGED faults
           \/ faults < MaxFaults /\ faults' = faults + 1 /\ RestoreThrows(FALSE) /\ restore' = None
    /\ UNCHANGED <<provider, world, owned, before, verified>>

\* One activation, never repeated.
activateLocalFirstVersion ==
    /\ restore # None /\ restore.pc = "write"
    /\ Write(serving' = Deployed(restore.target), UNCHANGED serving,
          restore' = [restore EXCEPT !.pc = "confirm"] /\ UNCHANGED <<pc, journal, disk, proof>>,
          RestoreThrows(TRUE) /\ restore' = None)
    /\ UNCHANGED <<route, world, owned, before, verified, peerSeen>>

\* Mutant: a confirmation that fails is not told from a refusal.
X_UnknownAfterWrite == FALSE

UnknownAfterWrite == TRUE

\* The readback; the deployment is then the caller's.
RestoreConfirm ==
    /\ restore # None /\ restore.pc = "confirm" /\ Reads /\ restore' = None
    /\ LET confirmed == serving # None /\ serving.ver = restore.target /\ route = restore.route
           active == [journal EXCEPT !.active = serving]
       IN  \/ /\ confirmed /\ UNCHANGED faults
              /\ CASE pc = "recovering" -> /\ record([active EXCEPT !.route = before.route], "failure-reader-active")
                                           /\ pc' = "failureReader" /\ UNCHANGED proof
                   [] pc = "toReader" -> /\ record(active, "rollback-reader-active")
                                         /\ proof' = [proof EXCEPT !.reader = serving]
                                         /\ pc' = "reader"
                   [] pc = "toCandidate" -> /\ record(active, "rollback-candidate-restored")
                                            /\ proof' = [proof EXCEPT !.restored = serving]
                                            /\ pc' = "restored"
           \/ ~confirmed /\ RestoreThrows(UnknownAfterWrite) /\ UNCHANGED faults
           \/ faults < MaxFaults /\ faults' = faults + 1 /\ RestoreThrows(UnknownAfterWrite)
    /\ UNCHANGED <<provider, world, owned, before, verified>>

\* verifyFailureReader, then the provider's identity again.
VerifyFailureReader ==
    /\ pc = "failureReader" /\ Reads
    /\ \/ /\ serving = journal.active /\ route = before.route
          /\ Ended([journal EXCEPT !.outcome = "failed-reader-restored", !.ready = TRUE])
          /\ UNCHANGED faults
       \/ ~(serving = journal.active /\ route = before.route) /\ Ended(journal) /\ UNCHANGED faults
       \/ faults < MaxFaults /\ faults' = faults + 1 /\ Ended(journal)
    /\ UNCHANGED <<provider, world, owned, before, restore, proof, verified>>

--------------------------------------------------------------------------------
\* rehearseLocalFirstRollback.

\* The candidate is the one deployed; a job is retained.
RetainJob ==
    /\ pc = "rehearse" /\ Reads
    /\ LET ready == route = "bound" /\ serving = journal.active
       IN  \/ /\ ready /\ UNCHANGED faults
              /\ proof' = [reader |-> None, restored |-> None, readerVerified |-> FALSE,
                           restoredVerified |-> FALSE, unknown |-> FALSE, failure |-> FALSE]
              /\ restore' = [target |-> "reader", expected |-> journal.active, route |-> route, pc |-> "check"]
              /\ record(journal, "rollback-job-retained") /\ pc' = "toReader"
           \/ /\ IF ready THEN faults < MaxFaults /\ faults' = faults + 1 ELSE UNCHANGED faults
              /\ record([journal EXCEPT !.outcome = "preserve-required"], "rollback-rehearsal-failed")
              /\ pc' = "done" /\ UNCHANGED <<proof, restore>>
    /\ UNCHANGED <<provider, world, owned, before, verified>>

\* The reader is observed; observed or not, the candidate is restored.
ObserveReader ==
    /\ pc = "reader"
    /\ \/ /\ serving # None /\ serving.ver = "reader" /\ UNCHANGED faults
          /\ proof' = [proof EXCEPT !.readerVerified = TRUE]
       \/ /\ IF serving.ver = "reader" THEN faults < MaxFaults /\ faults' = faults + 1 ELSE UNCHANGED faults
          /\ proof' = [proof EXCEPT !.failure = TRUE]
    /\ restore' = [target |-> "cand", expected |-> proof.reader, route |-> "bound", pc |-> "check"]
    /\ Goto("toCandidate")
    /\ UNCHANGED <<provider, world, owned, before, verified, peerSeen>>

ObserveRestored ==
    /\ pc = "restored"
    /\ \/ /\ serving # None /\ serving.ver = "cand" /\ UNCHANGED faults
          /\ proof' = [proof EXCEPT !.restoredVerified = TRUE]
       \/ /\ IF serving.ver = "cand" THEN faults < MaxFaults /\ faults' = faults + 1 ELSE UNCHANGED faults
          /\ proof' = [proof EXCEPT !.failure = TRUE]
    /\ Goto("rehearsed")
    /\ UNCHANGED <<provider, world, owned, before, restore, verified, peerSeen>>

\* Mutant: a failed observation of the reader is forgotten once the
\* candidate is back.
X_assertFulfillmentRollbackProof == proof.restoredVerified

\* assertFulfillmentRollbackProof: complete, and about this deployment.
assertFulfillmentRollbackProof ==
    /\ ~proof.failure /\ ~proof.unknown /\ proof.readerVerified /\ proof.restoredVerified
    /\ proof.restored = journal.active

EndRehearsal ==
    /\ pc = "rehearsed"
    /\ IF assertFulfillmentRollbackProof THEN Goto("reverify")
       ELSE /\ record([journal EXCEPT !.outcome = "preserve-required"], "rollback-rehearsal-failed")
            /\ pc' = "done"
    /\ UNCHANGED <<provider, world, owned, before, restore, proof, verified, peerSeen, faults>>

\* Mutant: the earlier verification is taken to stand.
X_VerifyRestored ==
    /\ pc = "reverify"
    /\ record([journal EXCEPT !.outcome = "production-complete"], "complete") /\ pc' = "done"
    /\ UNCHANGED <<provider, world, owned, before, restore, proof, verified, peerSeen, faults>>

\* verifyLive again, for the deployment that came back.
VerifyRestored ==
    /\ pc = "reverify"
    /\ verifyLive(record([journal EXCEPT !.outcome = "production-complete"], "complete") /\ pc' = "done",
                  record([journal EXCEPT !.outcome = "preserve-required"], "rollback-rehearsal-failed") /\ pc' = "done")
    /\ UNCHANGED <<provider, world, owned, before, restore, proof, peerSeen>>

--------------------------------------------------------------------------------
\* The others.

Peer ==
    /\ peers < MaxPeers /\ peers' = peers + 1 /\ pc \notin {"done", "refused"}
    /\ \/ serving' = Deployed("peer") /\ UNCHANGED <<route, main>>
       \/ route' \in {"absent", "peer"} \ {route} /\ UNCHANGED <<serving, main>>
       \/ main /\ main' = FALSE /\ UNCHANGED provider
    /\ UNCHANGED <<plan, pc, owned, before, journal, disk, restore, proof, verified, peerSeen, faults>>

\* The runner is killed: what is on disk is what is known.
Killed ==
    /\ pc \notin {"done", "refused", "killed"} /\ faults < MaxFaults /\ faults' = faults + 1
    /\ pc' = "killed" /\ restore' = None
    /\ UNCHANGED <<provider, world, owned, before, journal, disk, proof, verified, peerSeen>>

Step ==
    \/ observeBefore \/ CheckBefore \/ Upload \/ Readback \/ CheckRoute \/ bindRoute \/ ReadRoute
    \/ VerifyCandidate \/ FinalCheck
    \/ Recover \/ removeRoute \/ RouteRestored \/ ActivatePrevious \/ PreviousRestored
    \/ RestoreCheck \/ activateLocalFirstVersion \/ RestoreConfirm \/ VerifyFailureReader
    \/ RetainJob \/ ObserveReader \/ ObserveRestored \/ EndRehearsal \/ VerifyRestored

Next == Step \/ Peer \/ Killed

\* Every call has a time limit: the runner goes on until it ends.
Spec == Init /\ [][Next]_vars /\ WF_vars(Step)

--------------------------------------------------------------------------------
\* Types; the restoration belongs to the step that called it.
TypeOK ==
    /\ route \in {"absent", "bound", "peer"}
    /\ (restore # None) <=> pc \in {"recovering", "toReader", "toCandidate"}
    /\ owned => journal.active # None

\* A release that says it is complete verified, live, the very deployment it
\* records, the one of after the rehearsal; undisturbed, it is what is served.
CompletedIsServed ==
    journal.outcome = "production-complete" =>
        /\ journal.active.ver = "cand" /\ verified = journal.active.id
        /\ peers = 0 => serving = journal.active /\ route = "bound"

\* A fulfilment release completes only with a whole rehearsal.
CompletedIsRehearsed ==
    journal.outcome = "production-complete" /\ requireRollbackRehearsal =>
        proof.readerVerified /\ proof.restoredVerified

\* What a failed release says it restored was restored, by the last reading;
\* undisturbed, it is what is there.
OutcomeIsTrue ==
    peers = 0 =>
        /\ journal.outcome = "failed-previous-restored" => serving.ver = before.active.ver
        /\ journal.outcome = "failed-route-restored" => route = "absent"
        /\ journal.outcome = "failed-reader-restored" => serving.ver = "reader" /\ journal.ready

Ours == serving' # serving /\ peers' = peers

\* "Never restore over a peer": a write of the release replaces a peer's
\* deployment only when it came after the last reading.
NeverOverSeenPeer == [][Ours /\ serving # None /\ serving.ver = "peer" => ~peerSeen]_vars

\* A changed host cannot serve its predecessor: no activation of the release
\* brings back a version whose pins the host no longer has.
HostCompatible ==
    [][Ours /\ serving'.ver = "prev" => plan.pins = None \/ plan.prev.pins \in {None, plan.pins}]_vars

\* The rehearsal's journal: where the release wrote and another deployment
\* than the one it records may be active, it says so, whatever failed.
RehearsalAccounts ==
    pc = "done" /\ proof # None /\ peers = 0 => serving = journal.active \/ proof.unknown

\* A write is announced on disk before it is made: after a kill at any point,
\* a provider that was changed has its journal.
AnnouncedFirst == (serving # None /\ serving.ver \in {"cand", "reader"}) \/ (route = "bound" /\ plan.mode = "bootstrap")
                      => disk # None

\* Every release ends.
ReleaseEnds == <>(pc \in {"done", "refused", "killed"})

================================================================================
