--------------------------- MODULE ThemeDeployment --------------------------
(***************************************************************************)
(* Deployment of a merchant's theme: deployMerchantTheme prepares the      *)
(* manifest, reserves the mutation, activates the theme in the merchant's  *)
(* ThemeDeployment object under the authoring fence, and finishes the      *)
(* reservation whatever the object answered.  An exception, on the way to  *)
(* the object or back, ends the request and leaves the reservation.        *)
(*                                                                         *)
(* One merchant; the leases and the fence are those of AuthoringFence with *)
(* the ThemeDeployment object as its only journal.  An operation stands    *)
(* for the manifest and the predecessor the operator reviewed.             *)
(***************************************************************************)
EXTENDS AuthoringFence, Sequences

CONSTANTS
    Handlers,        \* concurrent POST requests
    Agents,
    manifest,        \* by operation: [merchant, scope, sections, unknown]
    reviewed,        \* by operation: the predecessor, NoTheme, or Unreviewed
    NoTheme, Unreviewed,
    MerchantScope,
    MaxFaults        \* bound: exceptions and lost requests

VARIABLES
    registered,      \* agents that are active and admitted
    theme,           \* theme_deployment: the digest of the current record
    history,         \* the records written, with their permit
    answered,        \* the outcome journalled for a permit
    pc, request, permit, result,
    faults

Sections == {"palette", "logo", "copy", "locale"}

\* A section is absent, the default, of the merchant's own, or malformed; the
\* default is filled in where it is absent.
Resolve(section) == IF section = "absent" THEN "default" ELSE section

\* The digest of a manifest is that of its resolved form.
Digest(op) == <<manifest[op].merchant, manifest[op].scope,
                [s \in Sections |-> Resolve(manifest[op].sections[s])]>>

Digests == {Digest(op) : op \in Operations}

ThemeAssumption ==
    /\ DOMAIN manifest = Operations /\ DOMAIN reviewed = Operations
    /\ NoTheme \notin Digests
    /\ Journals = {"theme"} /\ Compacting = {}
    /\ journalScope["theme"] = MerchantScope
    /\ MaxFaults \in Nat

\* validateThemeManifest
ValidateThemeManifest(op) ==
    /\ ~manifest[op].unknown
    /\ manifest[op].scope # {}
    /\ \A s \in Sections : manifest[op].sections[s] # "bad"

themeVars == <<registered, theme, history, answered, pc, request, permit, result, faults>>
vars == <<claimVars, fenceVars, themeVars>>
handlerVars == <<pc, request, permit, result>>

NoCall == [claim |-> NoClaim, operation |-> "none"]

Init ==
    /\ AuthoringInit
    /\ registered = Agents
    /\ theme = NoTheme
    /\ history = <<>>
    /\ answered = {}
    /\ pc = [h \in Handlers |-> "idle"]
    /\ request = [h \in Handlers |-> NoCall]
    /\ permit = [h \in Handlers |-> NoPermit]
    /\ result = [h \in Handlers |-> "none"]
    /\ faults = 0

Goto(h, label) == pc' = [pc EXCEPT ![h] = label]

Answer(h, code) ==
    /\ Goto(h, "idle")
    /\ request' = [request EXCEPT ![h] = NoCall]
    /\ permit' = [permit EXCEPT ![h] = NoPermit]
    /\ result' = [result EXCEPT ![h] = code]
-----------------------------------------------------------------------------
\* The claim object and the registry move on their own.
Authority ==
    /\ \/ \E c \in Claims : Acquire(c) \/ Release(c)
       \/ Tick
    /\ UNCHANGED <<fenceVars, themeVars>>

ChangeAgent(a) ==
    /\ registered' = (registered \ {a}) \cup ({a} \ registered)
    /\ UNCHANGED <<claimVars, fenceVars, theme, history, answered, handlerVars, faults>>

\* admitOperatorMutation
Start(h, c, op) ==
    /\ pc[h] = "idle"
    /\ operationScope[op] = MerchantScope /\ semanticScope[c] = MerchantScope
    /\ MutationAdmission(c)
    /\ request' = [request EXCEPT ![h] = [claim |-> c, operation |-> op]]
    /\ result' = [result EXCEPT ![h] = "none"]
    /\ Goto(h, "prepare")
    /\ UNCHANGED <<claimVars, fenceVars, registered, theme, history, answered, permit, faults>>

\* fetchAssetWithValidatedRedirects: at most three redirects, each to a public
\* address; a chain is what the servers answer in turn.
AssetReached(chain) ==
    \E i \in 1 .. Len(chain) :
        i <= 4 /\ chain[i] = "ok" /\ \A j \in 1 .. i - 1 : chain[j] = "redirect"

\* validateAssets: three attempts, each with its own chain.
ValidateAssets(op, chains) ==
    manifest[op].sections["logo"] # "own" \/ \E i \in 1 .. 3 : AssetReached(chains[i])

Chains == {<<"ok">>, <<"redirect", "ok">>, <<"redirect", "unsafe">>, <<"failed">>}

\* Mutant: the merchant in the manifest is not compared with the path.
Prepared_AnyMerchant(op, chains) ==
    IF ~ValidateThemeManifest(op) THEN "theme_manifest_invalid"
    ELSE IF ~(manifest[op].scope \subseteq registered) THEN "theme_scope_agent_not_registered"
    ELSE "prepared"

\* validateThemeManifest and the checks of prepareThemeDeployment, in order.
Prepared(op, chains) ==
    IF reviewed[op] = "malformed" THEN "theme_review_invalid"
    ELSE IF ~ValidateThemeManifest(op) THEN "theme_manifest_invalid"
    ELSE IF manifest[op].merchant # MerchantScope THEN "theme_merchant_mismatch"
    ELSE IF ~(manifest[op].scope \subseteq registered) THEN "theme_scope_agent_not_registered"
    ELSE IF ~ValidateAssets(op, chains) THEN "theme_asset_unreachable"
    ELSE "prepared"

Prepare(h) ==
    /\ pc[h] = "prepare"
    /\ \E chain \in Chains :
          LET code == Prepared(request[h].operation, [i \in 1 .. 3 |-> chain])
          IN  IF code = "prepared"
              THEN Goto(h, "reserve") /\ UNCHANGED <<request, permit, result>>
              ELSE Answer(h, code)
    /\ UNCHANGED <<claimVars, fenceVars, registered, theme, history, answered, faults>>

\* reserveOperatorMutation
Reserve(h) ==
    LET c == request[h].claim
        op == request[h].operation
        resumed == Reserved(c, op) \cup Completed(c, op)
    IN  /\ pc[h] = "reserve"
        /\ \/ /\ \E p \in resumed : permit' = [permit EXCEPT ![h] = p]
              /\ Goto(h, "activate") /\ UNCHANGED <<claimVars, request, result>>
           \/ /\ BeginMutation(c, op)
              /\ permit' = [permit EXCEPT ![h] = reservation'[MerchantScope]]
              /\ Goto(h, "activate") /\ UNCHANGED <<request, result>>
           \/ /\ resumed = {} /\ (HasReservation(MerchantScope) \/ ~MutationAdmission(c))
              /\ Answer(h, "refused") /\ UNCHANGED claimVars
        /\ UNCHANGED <<fenceVars, registered, theme, history, answered, faults>>
-----------------------------------------------------------------------------
\* expectedPreviousManifestDigest: the digest of the operation reviewed.
Reviewed(op) == IF reviewed[op] \in Operations THEN Digest(reviewed[op]) ELSE reviewed[op]

\* Mutant: the reviewed predecessor is not compared.
Transaction_IgnoresReview(p) ==
    LET digest == Digest(p.operation)
    IN  IF theme = digest
        THEN /\ answered' = answered \cup {[permit |-> p, code |-> "ok"]}
             /\ UNCHANGED <<theme, history>>
        ELSE /\ theme' = digest
             /\ history' = Append(history, [permit |-> p, from |-> theme])
             /\ answered' = answered \cup {[permit |-> p, code |-> "ok"]}

\* The body of ThemeDeployment.activate's transaction.
Transaction(p) ==
    LET digest == Digest(p.operation)
        expected == Reviewed(p.operation)
        record(code) == answered' = answered \cup {[permit |-> p, code |-> code]}
    IN  IF theme = digest THEN record("ok") /\ UNCHANGED <<theme, history>>
        ELSE IF expected # Unreviewed /\ expected # theme
             THEN record("theme_review_stale") /\ UNCHANGED <<theme, history>>
        ELSE /\ theme' = digest
             /\ history' = Append(history, [permit |-> p, from |-> theme])
             /\ record("ok")

\* Mutant: the outcome is only journalled when the theme was accepted.
Activate_JournalsSuccess(p) ==
    \/ ~Executable("theme", p) /\ UNCHANGED <<fenceVars, theme, history, answered>>
    \/ /\ Executable("theme", p) /\ Transaction(p)
       /\ fence' = [fence EXCEPT !["theme"] = p]
       /\ outcome' = [outcome EXCEPT !["theme"] = IF theme' # theme THEN @ \cup {p} ELSE @]

\* runAuthoringFencedMutation in ThemeDeployment.activate: the journalled
\* outcome, a refusal, or the transaction.
Activate(p) ==
    \/ ~Executable("theme", p) /\ UNCHANGED <<fenceVars, theme, history, answered>>
    \/ Execute("theme", p, {}) /\ Transaction(p)

\* Mutant: a refusal of the fence is read as an activation.
ActivationResult_NoRefusal(p) == IF \E a \in answered' : a.permit = p /\ a.code # "ok"
                                 THEN "theme_review_stale" ELSE "ok"

\* What activatePreparedTheme makes of the answer.
ActivationResult(p) ==
    IF \E a \in answered' : a.permit = p
    THEN (CHOOSE a \in answered' : a.permit = p).code
    ELSE "fence_refused"

\* activatePreparedTheme returns.
ActivateReturns(h) ==
    /\ pc[h] = "activate"
    /\ Activate(permit[h])
    /\ result' = [result EXCEPT ![h] = ActivationResult(permit[h])]
    /\ Goto(h, "finish")
    /\ UNCHANGED <<claimVars, registered, request, permit, faults>>

\* Mutant: an exception completes the reservation as an answer does.
ActivateThrows_Completes(h) ==
    /\ pc[h] = "activate" /\ faults < MaxFaults
    /\ faults' = faults + 1
    /\ CompleteMutation(permit[h])
    /\ Answer(h, "error")
    /\ UNCHANGED <<fenceVars, registered, theme, history, answered>>

\* activatePreparedTheme throws, before or after the object has acted.
ActivateThrows(h) ==
    /\ pc[h] = "activate" /\ faults < MaxFaults
    /\ faults' = faults + 1
    /\ \/ Activate(permit[h])
       \/ UNCHANGED <<fenceVars, theme, history, answered>>
    /\ Answer(h, "error")
    /\ UNCHANGED <<claimVars, registered>>

\* Mutant: the reservation is only finished when the theme is active.
Finish_OnlySuccess(h) ==
    /\ pc[h] = "finish"
    /\ IF result[h] = "ok" /\ reservation[MerchantScope] = permit[h]
       THEN CompleteMutation(permit[h]) ELSE UNCHANGED claimVars
    /\ Answer(h, result[h])
    /\ UNCHANGED <<fenceVars, registered, theme, history, answered, faults>>

\* finish, and the answer: completeMutation confirms a mutation that is
\* reserved or already completed.
Finish(h) ==
    /\ pc[h] = "finish"
    /\ \/ CompleteMutation(permit[h]) /\ Answer(h, result[h])
       \/ /\ permit[h] \in completion /\ reservation[MerchantScope] # permit[h]
          /\ UNCHANGED claimVars
          /\ Answer(h, IF HasReservation(MerchantScope)
                       THEN "authoring_mutation_completion_failed" ELSE result[h])
    /\ UNCHANGED <<fenceVars, registered, theme, history, answered, faults>>

\* finish fails although it may have completed the mutation; or the request is
\* lost at any point.
FinishFails(h) ==
    /\ pc[h] = "finish" /\ faults < MaxFaults
    /\ faults' = faults + 1
    /\ \/ UNCHANGED claimVars
       \/ CompleteMutation(permit[h])
    /\ Answer(h, "authoring_mutation_completion_failed")
    /\ UNCHANGED <<fenceVars, registered, theme, history, answered>>

Lost(h) ==
    /\ pc[h] # "idle" /\ faults < MaxFaults
    /\ faults' = faults + 1
    /\ Answer(h, "error")
    /\ UNCHANGED <<claimVars, fenceVars, registered, theme, history, answered>>
-----------------------------------------------------------------------------
Next ==
    \/ Authority
    \/ \E a \in Agents : ChangeAgent(a)
    \/ \E h \in Handlers, c \in Claims, op \in Operations : Start(h, c, op)
    \/ \E h \in Handlers :
          \/ Prepare(h) \/ Reserve(h) \/ ActivateReturns(h) \/ ActivateThrows(h)
          \/ Finish(h) \/ FinishFails(h) \/ Lost(h)

Spec == Init /\ [][Next]_vars
-----------------------------------------------------------------------------
Codes == {"none", "ok", "refused", "fence_refused", "error", "theme_review_stale",
          "theme_review_invalid", "theme_manifest_invalid", "theme_merchant_mismatch",
          "theme_scope_agent_not_registered", "theme_asset_unreachable",
          "authoring_mutation_completion_failed"}

TypeOK ==
    /\ AuthoringTypeOK
    /\ registered \subseteq Agents
    /\ theme \in Digests \cup {NoTheme}
    /\ answered \subseteq [permit : Permits, code : {"ok", "theme_review_stale"}]
    /\ request \in [Handlers -> [claim : Claims \cup {NoClaim},
                                 operation : Operations \cup {"none"}]]
    /\ result \in [Handlers -> Codes]
    /\ pc \in [Handlers -> {"idle", "prepare", "reserve", "activate", "finish"}]
    /\ permit \in [Handlers -> Permits \cup {NoPermit}]
    /\ {a.permit : a \in answered} = outcome["theme"]

\* An operator who reviewed a predecessor never replaces another theme, though
\* the manifest was prepared, and the permit given, long before.
ReviewedIsReplaced ==
    \A i \in 1 .. Len(history) :
        LET expected == Reviewed(history[i].permit.operation)
        IN  /\ expected # Unreviewed => history[i].from = expected
            /\ history[i].from = IF i = 1 THEN NoTheme
                                 ELSE Digest(history[i - 1].permit.operation)

\* The reservation of the merchant's scope is only left behind by a fault: as
\* long as nothing throws or gets lost, some request still works on it.
HeldOnlyByFault ==
    HasReservation(MerchantScope) =>
        \/ faults > 0
        \/ \E h \in Handlers : permit[h] = reservation[MerchantScope]

\* A theme is only written while its mutation is unresolved: a permit that was
\* completed, and is handed out again to a repeated request, has no effect.
WrittenWhileReserved ==
    [][theme' # theme => \E h \in Handlers :
          permit[h] = reservation[MerchantScope] /\ permit[h] \in outcome'["theme"]]_vars

\* Only a valid manifest of this merchant is ever reserved, let alone written.
ReservedIsPrepared ==
    \A p \in issued :
        ValidateThemeManifest(p.operation) /\ manifest[p.operation].merchant = MerchantScope

\* A request answered with success belongs to a theme that was written, or to
\* one that was current at the time.
SuccessWasWritten ==
    \A h \in Handlers : result[h] = "ok" /\ pc[h] = "finish" =>
        \E i \in 1 .. Len(history) :
            Digest(history[i].permit.operation) = Digest(permit[h].operation)
-----------------------------------------------------------------------------
\* What makes the above inductive.  A request past the reservation holds an
\* issued permit, and a valid manifest before it.
RequestsInMemory ==
    \A h \in Handlers :
        /\ pc[h] # "idle" =>
              /\ request[h].claim \in Claims /\ request[h].operation \in Operations
              /\ semanticScope[request[h].claim] = MerchantScope
        /\ pc[h] = "reserve" =>
              /\ ValidateThemeManifest(request[h].operation)
              /\ manifest[request[h].operation].merchant = MerchantScope
        /\ IF pc[h] \in {"activate", "finish"} THEN permit[h] \in issued
                                               ELSE permit[h] = NoPermit

PermitsAreTheMerchants ==
    /\ \A p \in issued : ScopeOf(p) = MerchantScope
    /\ completion \subseteq issued

\* A permit without its reservation is inert: the object has executed it or
\* its fence refuses it for good, before the request that holds it finishes.
InertUnlessReserved ==
    /\ \A p \in issued : p = reservation[MerchantScope] \/ ~Executable("theme", p)
    /\ \A h \in Handlers : pc[h] = "finish" => ~Executable("theme", permit[h])

\* The current theme is the last one written, and an activation journalled as
\* a success wrote its theme or found it written.
Written(p) ==
    \E i \in 1 .. Len(history) :
        Digest(history[i].permit.operation) = Digest(p.operation)

HistoryOfTheme ==
    /\ history \in Seq([permit : Permits, from : Digests \cup {NoTheme}])
    /\ theme = IF Len(history) = 0 THEN NoTheme
               ELSE Digest(history[Len(history)].permit.operation)
    /\ \A a \in answered : a.code = "ok" => Written(a.permit)

ThemeInv ==
    /\ AuthoringInv
    /\ TypeOK
    /\ faults \in Nat
    /\ RequestsInMemory
    /\ PermitsAreTheMerchants
    /\ InertUnlessReserved
    /\ HistoryOfTheme
    /\ ReviewedIsReplaced
    /\ HeldOnlyByFault
    /\ ReservedIsPrepared
    /\ SuccessWasWritten
=============================================================================
