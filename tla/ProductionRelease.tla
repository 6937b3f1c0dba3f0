------------------------- MODULE ProductionRelease -------------------------
(***************************************************************************)
(* The production release controller (scripts/production-release): one     *)
(* GitHub run at a time uploads the core and edge Workers inactive,        *)
(* deploys the sandbox Worker, activates core and edge, binds the route    *)
(* and proves it live.  Nothing of this is atomic and nothing is rolled    *)
(* back: a run that throws inside its try block leaves a preserve-required *)
(* receipt, from which a recovery run goes on.  Every call of the adapter  *)
(* may throw, before or after Cloudflare has carried it out; a run may be  *)
(* killed; somebody else may deploy a Worker or change the route.          *)
(*                                                                         *)
(* A candidate is the number of its commit on main, a version is its tag   *)
(* (the candidate), a number and whether its bindings are those the        *)
(* configuration and the operator's pins ask for.                          *)
(***************************************************************************)
EXTENDS Naturals, Sequences, FiniteSets

CONSTANTS
  Candidates,   \* how many commits main gets
  MaxRuns,      \* bound: workflow runs
  MaxFaults,    \* bound: adapter calls that fail and runs that are killed
  MaxForeign,   \* bound: deployments and route changes made by somebody else
  Drift,        \* whether bindings kept from the dashboard may make an upload inexact
  Reviews,      \* review histories a run may have, sets of reviews
  Reviewers     \* the users the production environment asks for a review

BoundsAssumption ==
  /\ Candidates \in Nat \ {0}
  /\ MaxRuns \in Nat /\ MaxFaults \in Nat /\ MaxForeign \in Nat
  /\ Drift \in BOOLEAN

VARIABLES
  main,       \* the head of protected main
  store,      \* the versions of each Worker that Cloudflare keeps
  active,     \* the version of each Worker that serves all traffic
  route,      \* the production route
  deployed,   \* deployment receipts, artifacts of runs that succeeded
  preserved,  \* preserve-required receipts, artifacts of runs that failed
  newest,     \* the receipt of the last run that got into its try block, if it left one
  run,        \* the run in progress, or how the last one ended
  moved,      \* the Workers somebody else deployed since the run last read them
  budget      \* what is left of the bounds

vars == <<main, store, active, route, deployed, preserved, newest, run, moved, budget>>

Workers == {"sandbox", "core", "edge"}
NoVersion == [tag |-> 0, n |-> 0, exact |-> FALSE]
NoTuple == [w \in Workers |-> NoVersion]
Unknown == [tag |-> 0, n |-> 0, exact |-> TRUE]
NoReceipt == [cand |-> 0]
NoRoute == [id |-> 0, script |-> "none"]
Authorities == {[mode |-> "bootstrap", id |-> 0]} \cup [mode : {"steady-state"}, id : 1 .. 2]

-----------------------------------------------------------------------------
(* The steps of a run.  Both programs enter their try block at TryFrom.    *)

Forward ==
  <<"route", "read", "host", "starting", "list",
    "upload_core", "upload_edge", "select_core", "select_edge", "cas_sandbox",
    "deploy", "select_sandbox", "verify_sandbox", "host",
    "cas_core", "host", "activate_core", "verify_core",
    "cas_edge", "host", "activate_edge", "verify_edge", "host",
    "bind", "route_after", "live", "host", "final", "preserve">>

\* Mutant: a recovery activates edge before core.
Recovery_EdgeFirst ==
  <<"route", "read", "host", "resume", "list",
    "prepare_core", "prepare_edge", "adopt",
    "deploy", "select_sandbox", "confirm_sandbox", "host",
    "peek_edge", "host", "activate_edge", "confirm_edge",
    "peek_core", "host", "activate_core", "confirm_core", "host",
    "bind", "route_after", "live", "host", "final", "preserve">>

Recovery ==
  <<"route", "read", "host", "resume", "list",
    "prepare_core", "prepare_edge", "adopt",
    "deploy", "select_sandbox", "confirm_sandbox", "host",
    "peek_core", "host", "activate_core", "confirm_core",
    "peek_edge", "host", "activate_edge", "confirm_edge", "host",
    "bind", "route_after", "live", "host", "final", "preserve">>

TryFrom == 6
Program == IF run.mode = "recovery" THEN Recovery ELSE Forward
At(s) == run.step # 0 /\ Program[run.step] = s
Last == Len(Program)

\* The run goes on with step s and forgets what it read of the Workers.
Goto(r, s) == [r EXCEPT !.step = s, !.seen = NoTuple, !.read = {}]
Advance(r) == Goto(r, r.step + 1)

\* An exception: before the try block the run ends without a receipt, inside
\* it the receipt is what is left to do.
Throw(r) == Goto(r, IF r.step < TryFrom THEN 0 ELSE Last)

\* A check of the controller that does not hold.
Refuse(r) == Throw([r EXCEPT !.refused = TRUE])
Check(ok, r) == run' = IF ok THEN Advance(r) ELSE Refuse(r)

-----------------------------------------------------------------------------
(* Contracts.                                                              *)

\* The one approval of the production environment, by a configured user.
HumanAuthorization(reviews) ==
  LET approvals == {r \in reviews : r.state = "approved" /\ r.environment = "production"}
  IN  IF Cardinality(approvals) = 1
      THEN {r.user : r \in {a \in approvals : a.type = "User" /\ a.user \in Reviewers}}
      ELSE {}

ValidateStaticContracts(mode, cand, auth, receipt) ==
  /\ auth.mode = IF mode = "steady-state" THEN "steady-state" ELSE "bootstrap"
  /\ IF mode = "recovery"
     THEN receipt.cand = cand /\ receipt.auth = auth
     ELSE receipt = NoReceipt

\* Secrets, services, Durable Objects and variables are those of the
\* configuration with the operator's pins, and there are no others.
ValidateConfiguredBindings(v) == v.exact

\* Mutant: the bindings of the uploaded version are not compared.
ValidateWorkerVersion_TagOnly(v, cand) == v.tag = cand

ValidateWorkerVersion(v, cand) == v.tag = cand /\ ValidateConfiguredBindings(v)

\* The version is viewed at Cloudflare and validated as it was read back.
ValidateUploadedVersion(v, cand) == v # NoVersion /\ ValidateWorkerVersion(v, cand)

\* Versions are immutable, so equal digests are equal versions.
RevalidateWorkerVersionProof(v, prior, w) == v = prior.cands[w]

\* Mutant: the newest version is taken for the candidate's.
SelectUploadedVersion_Newest(before, after, cand) ==
  IF after = {} THEN NoVersion ELSE CHOOSE v \in after : \A u \in after : u.n <= v.n

SelectUploadedVersion(before, after, cand) ==
  LET new == {v \in after \ before : v.tag = cand}
  IN  IF Cardinality(new) = 1 THEN CHOOSE v \in new : TRUE ELSE NoVersion

\* "refuse" when the preferred version is missing or several carry the tag.
SelectExistingCandidateVersion(listed, cand, preferred) ==
  LET matches == {v \in listed : v.tag = cand}
  IN  CASE preferred # NoVersion -> IF preferred \in matches THEN {preferred} ELSE {}
        [] preferred = NoVersion /\ matches = {} -> {NoVersion}
        [] OTHER -> IF Cardinality(matches) = 1 THEN matches ELSE {}

\* Mutant: before core is activated only the sandbox and edge Workers are compared.
ExpectedTuple_CoreNotCompared(before) ==
  [sandbox |-> run.cands["sandbox"],
   core |-> IF before = "core" THEN active["core"] ELSE run.cands["core"],
   edge |-> IF before = "complete" THEN run.cands["edge"] ELSE run.pred["edge"]]

ExpectedTuple(before) ==
  [sandbox |-> run.cands["sandbox"],
   core |-> IF before = "core" THEN run.pred["core"] ELSE run.cands["core"],
   edge |-> IF before = "complete" THEN run.cands["edge"] ELSE run.pred["edge"]]

ValidateStartingState(tuple) ==
  IF run.mode = "bootstrap"
  THEN tuple = NoTuple
  ELSE /\ run.prior.cands = tuple
       /\ run.prior.cand # run.cand
       /\ \A w \in Workers : RevalidateWorkerVersionProof(tuple[w], run.prior, w)

\* Mutant: a sandbox version the failed run never got to know is not accepted.
AmbiguousSandbox_Never(tuple, w) == FALSE

\* The sandbox Worker was deployed but the run failed before it knew which
\* version it had deployed; what it last observed is taken for it.
AmbiguousSandbox(tuple, w) ==
  /\ w = "sandbox"
  /\ run.receipt.started
  /\ run.receipt.cands[w] = NoVersion
  /\ tuple[w] # NoVersion
  /\ run.receipt.observed[w] = tuple[w]

ValidateRecoveryStartingState(tuple) ==
  LET r == run.receipt
  IN  /\ r.prior = run.prior
      /\ IF r.prior = NoReceipt THEN r.pred = NoTuple ELSE r.prior.cands = r.pred
      /\ \A w \in Workers :
           /\ \/ tuple[w] = r.pred[w]
              \/ r.cands[w] # NoVersion /\ tuple[w] = r.cands[w]
              \/ AmbiguousSandbox(tuple, w)
           /\ AmbiguousSandbox(tuple, w) => ValidateUploadedVersion(tuple[w], run.cand)
           /\ r.prior # NoReceipt /\ tuple[w] = r.pred[w] =>
                RevalidateWorkerVersionProof(tuple[w], r.prior, w)

-----------------------------------------------------------------------------
(* Cloudflare, as far as the adapter uses it.                              *)

Fault == budget.faults > 0 /\ budget' = [budget EXCEPT !.faults = @ - 1]
Done(lost) == IF lost THEN Fault ELSE UNCHANGED budget

\* The versions wrangler may upload; --keep-vars may keep what nobody asked for.
Uploads(w) == {[tag |-> run.cand, n |-> Cardinality(store[w]) + 1, exact |-> exact] :
                 exact \in {TRUE, ~Drift}}

RouteMatches(auth, r) ==
  IF auth.mode = "steady-state" THEN r.id = auth.id ELSE r # NoRoute

ValidateRouteProof(auth, r, phase) ==
  IF auth.mode = "bootstrap" /\ phase = "before"
  THEN r = NoRoute
  ELSE RouteMatches(auth, r) /\ r.script = "edge" /\ auth.id \in {0, r.id}

ValidateRecoveryRouteProof(r) == r = NoRoute \/ r.script = "edge"

-----------------------------------------------------------------------------
(* Reads and checks.                                                       *)

Start(mode, auth, prior, receipt, reviews) ==
  /\ run.step = 0
  /\ budget.runs > 0
  /\ budget' = [budget EXCEPT !.runs = @ - 1]
  /\ mode = "steady-state" <=> (prior # NoReceipt /\ receipt = NoReceipt)
  /\ mode = "recovery" <=> receipt # NoReceipt
  /\ receipt # NoReceipt => prior = receipt.prior
  /\ ValidateStaticContracts(mode, main, auth, receipt)
  /\ \E approver \in HumanAuthorization(reviews) :
       run' = [step |-> 1, mode |-> mode, cand |-> main, auth |-> auth, prior |-> prior,
               receipt |-> receipt, approver |-> approver,
               pred |-> IF receipt = NoReceipt THEN NoTuple ELSE receipt.pred,
               cands |-> IF receipt = NoReceipt THEN NoTuple ELSE receipt.cands,
               started |-> IF receipt = NoReceipt THEN FALSE ELSE receipt.started,
               listed |-> [w \in Workers |-> {}], first |-> NoTuple, before |-> NoRoute,
               seen |-> NoTuple, read |-> {}, refused |-> FALSE, failed |-> FALSE]
  /\ UNCHANGED <<main, store, active, route, deployed, preserved, newest, moved>>

RouteBefore ==
  /\ At("route")
  /\ Check(IF run.mode = "recovery" THEN ValidateRecoveryRouteProof(route)
           ELSE ValidateRouteProof(run.auth, route, "before"),
           [run EXCEPT !.before = route])
  /\ UNCHANGED <<main, store, active, route, deployed, preserved, newest, moved, budget>>

ReadSteps == {"read", "cas_sandbox", "verify_sandbox", "cas_core", "verify_core", "cas_edge",
              "verify_edge", "confirm_sandbox", "peek_core", "confirm_core", "peek_edge",
              "confirm_edge", "final"}

\* Mutant: the receipt names the predecessors where it should name the candidates.
DeploymentReceipt_Predecessors(r) ==
  [cand |-> r.cand, mode |-> r.mode, pred |-> r.pred, cands |-> r.pred]

DeploymentReceipt(r) ==
  [cand |-> r.cand, mode |-> r.mode, pred |-> r.pred, cands |-> r.cands]

\* What the controller makes of the three active versions it has read.
Conclude(tuple) ==
  LET kind == IF At("peek_core") THEN "core" ELSE "edge"
      Require(ok) == IF ok THEN Advance(run) ELSE Refuse(run)
  IN
  CASE At("read") -> Advance([run EXCEPT !.first = tuple,
                                         !.pred = IF run.mode = "recovery" THEN @ ELSE tuple])
    [] At("cas_sandbox") -> Require(tuple = run.pred)
    [] At("verify_sandbox") \/ At("cas_core") -> Require(tuple = ExpectedTuple("core"))
    [] At("verify_core") \/ At("cas_edge") -> Require(tuple = ExpectedTuple("edge"))
    [] At("verify_edge") -> Require(tuple = ExpectedTuple("complete"))
    [] At("confirm_sandbox") -> Require(tuple["sandbox"] = run.cands["sandbox"])
    [] At("peek_core") \/ At("peek_edge") ->
         IF tuple[kind] = run.cands[kind] THEN Goto(run, run.step + 4)
         ELSE Require(tuple[kind] = run.pred[kind])
    [] At("confirm_core") -> Require(tuple["core"] = run.cands["core"])
    [] At("confirm_edge") -> Require(tuple["edge"] = run.cands["edge"])
    [] At("final") -> IF tuple = run.cands THEN Goto(run, 0) ELSE Refuse(run)

\* readActiveTuple: three requests at once, answered in any order.
ReadActive(w) ==
  /\ \E s \in ReadSteps : At(s)
  /\ w \notin run.read
  /\ LET tuple == [run.seen EXCEPT ![w] = active[w]]
         complete == run.read \cup {w} = Workers
         success == complete /\ At("final") /\ tuple = run.cands
     IN  /\ run' = IF complete THEN Conclude(tuple)
                   ELSE [run EXCEPT !.seen = tuple, !.read = @ \cup {w}]
         /\ deployed' = IF success THEN deployed \cup {DeploymentReceipt(run)} ELSE deployed
         /\ newest' = IF success THEN NoReceipt ELSE newest
  /\ moved' = moved \ {w}
  /\ UNCHANGED <<main, store, active, route, preserved, budget>>

\* The device host answers with the pinned bundle and image; that it does not
\* is a fault of the call.
ProveExecutionHost ==
  /\ At("host")
  /\ run' = Advance(run)
  /\ UNCHANGED <<main, store, active, route, deployed, preserved, newest, moved, budget>>

Starting ==
  /\ At("starting")
  /\ Check(ValidateStartingState(run.first), run)
  /\ UNCHANGED <<main, store, active, route, deployed, preserved, newest, moved, budget>>

Resume ==
  /\ At("resume")
  /\ Check(ValidateRecoveryStartingState(run.first), run)
  /\ UNCHANGED <<main, store, active, route, deployed, preserved, newest, moved, budget>>

ListAllVersions ==
  /\ At("list")
  /\ run' = Advance([run EXCEPT !.listed = store])
  /\ UNCHANGED <<main, store, active, route, deployed, preserved, newest, moved, budget>>

\* The version is a candidate before it is viewed and validated; the view may
\* throw.
Validate(w, v, lost) ==
  LET r == [run EXCEPT !.cands[w] = v]
  IN  IF lost THEN run' = Throw(r) ELSE Check(ValidateUploadedVersion(v, run.cand), r)

\* List again, select the version that is new, view it and validate it.
SelectCandidate(w, lost) ==
  /\ At("select_" \o w)
  /\ LET v == SelectUploadedVersion(run.listed[w], store[w], run.cand)
     IN  IF v = NoVersion THEN run' = Refuse(run) /\ ~lost ELSE Validate(w, v, lost)
  /\ Done(lost)
  /\ UNCHANGED <<main, store, active, route, deployed, preserved, newest, moved>>

RouteAfter ==
  /\ At("route_after")
  /\ Check(/\ ValidateRouteProof(run.auth, route, "after")
           /\ run.mode = "steady-state" => route.id = run.before.id, run)
  /\ UNCHANGED <<main, store, active, route, deployed, preserved, newest, moved, budget>>

\* The public route answers with the headers of the exact edge and core versions.
ProveProductionRoute ==
  /\ At("live")
  /\ Check(/\ route.script = "edge"
           /\ \A w \in {"core", "edge"} : active[w] = run.cands[w], run)
  /\ UNCHANGED <<main, store, active, route, deployed, preserved, newest, moved, budget>>

-----------------------------------------------------------------------------
(* Calls that change Cloudflare.  The answer may be lost, or the call may   *)
(* have had no effect; both are exceptions for the controller.             *)

\* versions upload.  wrangler runs synchronously, so the second upload of the
\* Promise.all happens even when the first has thrown.
Upload(w, lost) ==
  /\ At("upload_" \o w)
  /\ \E v \in Uploads(w) :
       store' = [store EXCEPT ![w] = @ \cup {v}]
  /\ Done(lost)
  /\ LET r == [run EXCEPT !.failed = @ \/ lost]
     IN  run' = IF w = "edge" /\ r.failed THEN Throw(r) ELSE Advance(r)
  /\ UNCHANGED <<main, active, route, deployed, preserved, newest, moved>>

UploadFails(w) ==
  /\ At("upload_" \o w)
  /\ Fault
  /\ run' = IF w = "edge" THEN Throw(run) ELSE Advance([run EXCEPT !.failed = TRUE])
  /\ UNCHANGED <<main, store, active, route, deployed, preserved, newest, moved>>

\* A recovery uses the version that carries the candidate's tag, if there is one.
PrepareExisting(w, lost) ==
  /\ At("prepare_" \o w)
  /\ LET found == SelectExistingCandidateVersion(run.listed[w], run.cand, run.cands[w])
     IN  /\ found # {NoVersion}
         /\ \/ found = {} /\ run' = Refuse(run) /\ ~lost
            \/ \E v \in found : Validate(w, v, lost)
  /\ Done(lost)
  /\ UNCHANGED <<main, store, active, route, deployed, preserved, newest, moved>>

PrepareUpload(w, lost) ==
  /\ At("prepare_" \o w)
  /\ SelectExistingCandidateVersion(run.listed[w], run.cand, run.cands[w]) = {NoVersion}
  /\ \E v \in Uploads(w) :
       /\ store' = [store EXCEPT ![w] = @ \cup {v}]
       /\ Validate(w, v, lost) \/ (lost /\ run' = Throw(run))
  /\ Done(lost)
  /\ UNCHANGED <<main, active, route, deployed, preserved, newest, moved>>

\* The sandbox branch of a recovery: go on with the active version, which is a
\* candidate before it is viewed, or deploy.
AdoptSandbox(lost) ==
  /\ At("adopt")
  /\ LET preferred == IF run.cands["sandbox"] # NoVersion THEN run.cands["sandbox"]
                      ELSE IF run.first["sandbox"] # run.pred["sandbox"] THEN run.first["sandbox"]
                      ELSE NoVersion
         found == SelectExistingCandidateVersion(run.listed["sandbox"], run.cand, preferred)
         adopted == found = {run.first["sandbox"]} /\ found # {NoVersion}
         r == [run EXCEPT !.cands["sandbox"] = run.first["sandbox"]]
     IN  /\ lost => adopted /\ run.started
         /\ run' =
              CASE found = {} \/ (adopted /\ ~run.started) -> Refuse(run)
                [] adopted /\ run.started ->
                     IF lost THEN Throw(r)
                     ELSE IF ValidateUploadedVersion(run.first["sandbox"], run.cand)
                     THEN Goto(r, run.step + 4) ELSE Refuse(r)
                [] OTHER -> IF run.first["sandbox"] = run.pred["sandbox"] THEN Advance(run)
                            ELSE Refuse(run)
  /\ Done(lost)
  /\ UNCHANGED <<main, store, active, route, deployed, preserved, newest, moved>>

\* Mutant: sandboxMutationStarted is set only after the deployment has answered.
DeploySandbox_StartedLate(effect) ==
  /\ At("deploy")
  /\ LET lost == effect # "answered"
     IN  /\ run' = IF lost THEN Throw(run) ELSE Advance([run EXCEPT !.started = TRUE])
         /\ Done(lost)
         /\ \E v \in Uploads("sandbox") :
              /\ store' = [store EXCEPT !["sandbox"] = @ \cup {v}]
              /\ active' = IF effect = "version" THEN active
                           ELSE [active EXCEPT !["sandbox"] = v]
  /\ UNCHANGED <<main, route, deployed, preserved, newest, moved>>

\* wrangler deploy: uploads a version and activates it at once.  A lost answer
\* leaves the version, with or without its activation.
DeploySandbox(effect) ==
  /\ At("deploy")
  /\ LET lost == effect # "answered"
         r == [run EXCEPT !.started = TRUE]
     IN  /\ run' = IF lost THEN Throw(r) ELSE Advance(r)
         /\ Done(lost)
         /\ \E v \in Uploads("sandbox") :
              /\ store' = [store EXCEPT !["sandbox"] = @ \cup {v}]
              /\ active' = IF effect = "version" THEN active
                           ELSE [active EXCEPT !["sandbox"] = v]
  /\ UNCHANGED <<main, route, deployed, preserved, newest, moved>>

Activate(w, lost) ==
  /\ At("activate_" \o w)
  /\ active' = [active EXCEPT ![w] = run.cands[w]]
  /\ run' = IF lost THEN Throw(run) ELSE Advance(run)
  /\ Done(lost)
  /\ UNCHANGED <<main, store, route, deployed, preserved, newest, moved>>

\* activateBootstrapRoute reads the route again before it creates it.
BindRoute(lost) ==
  LET wanted == \/ run.mode = "bootstrap"
                \/ run.mode = "recovery" /\ run.before = NoRoute
  IN
  /\ At("bind")
  /\ IF ~wanted \/ route # NoRoute
     THEN Check(~wanted, run) /\ ~lost /\ UNCHANGED <<route, budget>>
     ELSE /\ route' = [id |-> 1, script |-> "edge"]
          /\ run' = IF lost THEN Throw(run) ELSE Advance(run)
          /\ Done(lost)
  /\ UNCHANGED <<main, store, active, deployed, preserved, newest, moved>>

\* Any call throws without an effect.  Uploads of a forward run do not end it.
CallFails ==
  /\ run.step # 0
  /\ \A s \in {"upload_core", "upload_edge", "adopt", "preserve"} : ~At(s)
  /\ Fault
  /\ run' = Throw(IF At("deploy") THEN [run EXCEPT !.started = TRUE] ELSE run)
  /\ UNCHANGED <<main, store, active, route, deployed, preserved, newest, moved>>

PreserveRequiredReceipt(observed) ==
  [cand |-> run.cand, mode |-> run.mode, auth |-> run.auth, prior |-> run.prior,
   pred |-> run.pred, cands |-> run.cands, started |-> run.started, observed |-> observed]

\* The receipt of a failed run.  A Worker that cannot be read is "unknown".
Preserve(unread) ==
  /\ At("preserve")
  /\ IF unread = {} THEN UNCHANGED budget ELSE Fault
  /\ newest' = PreserveRequiredReceipt(
                  [w \in Workers |-> IF w \in unread THEN Unknown ELSE active[w]])
  /\ preserved' = preserved \cup {newest'}
  /\ run' = Goto(run, 0)
  /\ UNCHANGED <<main, store, active, route, deployed, moved>>

-----------------------------------------------------------------------------
(* The environment.                                                        *)

\* The runner is lost, and with it the receipt.
Killed ==
  /\ run.step # 0
  /\ Fault
  /\ run' = Goto(run, 0)
  /\ newest' = IF run.step < TryFrom THEN newest ELSE NoReceipt
  /\ UNCHANGED <<main, store, active, route, deployed, preserved, moved>>

MainAdvances ==
  /\ main < Candidates
  /\ main' = main + 1
  /\ UNCHANGED <<store, active, route, deployed, preserved, newest, run, moved, budget>>

Foreign == budget.foreign > 0 /\ budget' = [budget EXCEPT !.foreign = @ - 1]

ForeignDeployment(w) ==
  /\ Foreign
  /\ LET v == [tag |-> 0, n |-> Cardinality(store[w]) + 1, exact |-> FALSE]
     IN  store' = [store EXCEPT ![w] = @ \cup {v}] /\ active' = [active EXCEPT ![w] = v]
  /\ moved' = moved \cup {w}
  /\ UNCHANGED <<main, route, deployed, preserved, newest, run>>

ForeignRoute ==
  /\ Foreign
  /\ route' \in {NoRoute, [id |-> 2, script |-> "edge"], [id |-> 1, script |-> "other"]} \ {route}
  /\ UNCHANGED <<main, store, active, deployed, preserved, newest, run, moved>>

-----------------------------------------------------------------------------

Init ==
  /\ main = 1
  /\ store = [w \in Workers |-> {}]
  /\ active = NoTuple
  /\ route = NoRoute
  /\ deployed = {} /\ preserved = {} /\ newest = NoReceipt
  /\ run = [step |-> 0, mode |-> "bootstrap", cand |-> 0, auth |-> [mode |-> "bootstrap", id |-> 0],
            prior |-> NoReceipt, receipt |-> NoReceipt, approver |-> "nobody", pred |-> NoTuple,
            cands |-> NoTuple, started |-> FALSE, listed |-> [w \in Workers |-> {}],
            first |-> NoTuple, before |-> NoRoute, seen |-> NoTuple, read |-> {},
            refused |-> FALSE, failed |-> FALSE]
  /\ moved = {}
  /\ budget = [runs |-> MaxRuns, faults |-> MaxFaults, foreign |-> MaxForeign]

\* A receipt counts only as the artifact of a completed first attempt of the
\* workflow on main: of one that succeeded, or, for a recovery, of one that failed.
AuthenticatedPriorReceipts == deployed
AuthenticatedRecoveryReceipts == preserved

Dispatch ==
  \E mode \in {"bootstrap", "steady-state", "recovery"}, auth \in Authorities, reviews \in Reviews :
    \/ Start(mode, auth, NoReceipt, NoReceipt, reviews)
    \/ \E prior \in AuthenticatedPriorReceipts : Start(mode, auth, prior, NoReceipt, reviews)
    \/ \E receipt \in AuthenticatedRecoveryReceipts : Start(mode, auth, receipt.prior, receipt, reviews)

Next ==
  \/ Dispatch
  \/ RouteBefore \/ ProveExecutionHost \/ Starting \/ Resume \/ ListAllVersions
  \/ RouteAfter \/ ProveProductionRoute
  \/ \E w \in Workers : ReadActive(w) \/ ForeignDeployment(w)
  \/ \E w \in Workers, lost \in BOOLEAN : SelectCandidate(w, lost)
  \/ \E w \in {"core", "edge"} : UploadFails(w)
  \/ \E w \in {"core", "edge"}, lost \in BOOLEAN :
       Upload(w, lost) \/ PrepareExisting(w, lost) \/ PrepareUpload(w, lost) \/ Activate(w, lost)
  \/ \E effect \in {"answered", "version", "activation"} : DeploySandbox(effect)
  \/ \E lost \in BOOLEAN : AdoptSandbox(lost) \/ BindRoute(lost)
  \/ CallFails \/ Killed
  \/ \E unread \in SUBSET Workers : Preserve(unread)
  \/ MainAdvances \/ ForeignRoute

Spec == Init /\ [][Next]_vars

-----------------------------------------------------------------------------
(* Properties.                                                             *)

Undisturbed == budget.foreign = MaxForeign
Versions == [tag : 0 .. Candidates, n : 0 .. 2 * MaxRuns + MaxForeign, exact : BOOLEAN]
Tuples == [Workers -> Versions]

\* The state of Cloudflare and of the run keep their types, a run never has a
\* candidate of another commit, and main is never behind a deployed candidate.
TypeOK ==
  /\ main \in 1 .. Candidates
  /\ store \in [Workers -> SUBSET Versions]
  /\ active \in Tuples
  /\ \A r \in deployed : r.cands \in Tuples /\ r.cand <= main
  /\ run.step \in 0 .. Last /\ run.cands \in Tuples /\ run.pred \in Tuples
  /\ \A w \in Workers : run.cands[w] # NoVersion => run.cands[w].tag = run.cand
  /\ moved \subseteq Workers

\* Through any sequence of failed releases and recoveries the edge Worker never
\* serves a newer candidate than core, nor core a newer one than the sandbox
\* Worker (activationOrder of the deployment receipt).
EdgeNeverAhead ==
  Undisturbed => /\ active["edge"].tag <= active["core"].tag
                 /\ active["core"].tag <= active["sandbox"].tag

\* The controller only ever activates core and edge versions whose bindings it
\* has read back and found exact, also when an earlier run selected them.
OnlyProvenServes ==
  \A w \in {"core", "edge"} : active[w].tag > 0 => active[w].exact

\* A step writes only preserve receipts that account for what serves.
AccountingReceipts ==
  \A r \in preserved' \ preserved :
    Undisturbed => \A w \in Workers :
      \/ active[w] = r.pred[w]
      \/ r.started /\ (active[w] = r.cands[w] \/ (w = "sandbox" /\ r.cands[w] = NoVersion))

\* A preserve receipt accounts for what serves: every Worker still runs the
\* predecessor, or sandboxMutationStarted is set and it runs the candidate the
\* receipt names, the sandbox Worker possibly one the run never got to know.
ReceiptAccounts == [][AccountingReceipts]_vars

\* Somebody else's deployment is only overwritten when it came after the run had
\* last read that Worker (requireActiveTuple before each activation).
OverwritesOnlyUnseen ==
  [][\A w \in Workers :
       active'[w] # active[w] /\ w \notin moved' => active[w] = run.pred[w]]_vars

\* When the deployment receipt is written every Worker serves the candidate it
\* names, or was deployed by somebody else after it was read for the last time.
DeployedWasServing ==
  [][\A r \in deployed' \ deployed :
       \A w \in Workers : active[w] = r.cands[w] \/ w \in moved']_vars

\* Which preserve receipts a recovery may be unable to use: nothing has been
\* activated (a new release is possible), the sandbox Worker could not be
\* observed, or an upload did not have the exact bindings.
Lost(r) ==
  \/ active = r.pred
  \/ r.observed["sandbox"] = Unknown
  \/ \E w \in Workers : \E v \in store[w] : v.tag = r.cand /\ ~v.exact

\* "authenticated preserve recovery converges after every remote mutation
\* boundary": wherever the runs before it have failed, no check of a recovery
\* from the newest receipt refuses the state they left, unless a killed run left
\* no receipt.
RecoveryConverges ==
  run.mode = "recovery" /\ run.refused /\ run.receipt = newest /\ Undisturbed =>
    Lost(run.receipt)

\* Every preserve receipt says "authenticated-artifact-required-then-roll-forward":
\* as long as main has not moved on, some route authority lets a recovery start.
\* The code does not keep it, and no run checks it (README, disagreements).
RollForwardIsPossible ==
  \A r \in preserved : r.cand = main =>
    \E auth \in Authorities : ValidateStaticContracts("recovery", main, auth, r)
=============================================================================
