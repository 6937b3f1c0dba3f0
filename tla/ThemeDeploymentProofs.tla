------------------------ MODULE ThemeDeploymentProofs -----------------------
(***************************************************************************)
(* The deployment of a merchant's theme.  ThemeInv is inductive: a permit  *)
(* that lost its reservation is inert, so a theme is only written by the   *)
(* permit in reservation, and what it replaces is what was reviewed.       *)
(***************************************************************************)
EXTENDS ThemeDeployment

USE ClaimFields, Bounds, NoPermitAssumption, JournalFields

\* The one journal is the merchant's ThemeDeployment object.
LEMMA TheJournal ==
    ASSUME ThemeAssumption
    PROVE  /\ "theme" \in Journals /\ MerchantScope \in Scopes
           /\ \A j \in Journals : j = "theme"
BY DEF ThemeAssumption

\* The types the proofs work with.
LEMMA ThemeTypes ==
    ASSUME ThemeAssumption, ThemeInv
    PROVE  /\ issued \subseteq Permits /\ completion \subseteq issued
           /\ reservation \in [Scopes -> Permits \cup {NoPermit}]
           /\ outcome \in [Journals -> SUBSET Permits]
           /\ fence \in [Journals -> Permits \cup {NoPermit}]
           /\ permit \in [Handlers -> Permits \cup {NoPermit}]
           /\ pc \in [Handlers -> {"idle", "prepare", "reserve", "activate", "finish"}]
           /\ DOMAIN request = Handlers /\ DOMAIN result = Handlers
BY DEF ThemeInv, TypeOK, AuthoringInv, AuthoringTypeOK, ClaimTypeOK, FenceTypeOK,
       PermitsAreTheMerchants

\* Nothing has been deployed.
LEMMA InitThemeInv == ThemeAssumption /\ Init => ThemeInv
<1> SUFFICES ASSUME ThemeAssumption, Init PROVE ThemeInv
  OBVIOUS
<1>1. AuthoringInv
  BY AuthoringInitInv DEF Init
<1>2. /\ issued = {} /\ completion = {} /\ reservation[MerchantScope] = NoPermit
      /\ outcome["theme"] = {}
  BY TheJournal DEF Init, AuthoringInit, ClaimInit, FenceInit
<1>3. TypeOK
  BY <1>1, <1>2 DEF Init, TypeOK, AuthoringInv, NoCall, Codes
<1>4. RequestsInMemory /\ PermitsAreTheMerchants /\ InertUnlessReserved /\ ReservedIsPrepared
  BY <1>2 DEF Init, RequestsInMemory, PermitsAreTheMerchants, InertUnlessReserved,
      ReservedIsPrepared
<1>5. HistoryOfTheme /\ ReviewedIsReplaced
  BY DEF Init, HistoryOfTheme, ReviewedIsReplaced
<1>6. HeldOnlyByFault /\ SuccessWasWritten /\ faults \in Nat
  BY <1>2 DEF Init, HeldOnlyByFault, HasReservation, SuccessWasWritten
<1> QED BY <1>1, <1>3, <1>4, <1>5, <1>6 DEF ThemeInv

\* A permit a request obtains was issued for the merchant's scope and its
\* operation; either it was there or beginMutation made it.
LEMMA ReserveObtains ==
    ASSUME ThemeAssumption, ThemeInv, NEW h \in Handlers, Reserve(h), pc'[h] = "activate"
    PROVE  /\ permit' = [permit EXCEPT ![h] = permit'[h]]
           /\ pc' = [pc EXCEPT ![h] = "activate"]
           /\ UNCHANGED <<request, result>>
           /\ \/ UNCHANGED claimVars /\ permit'[h] \in issued
              \/ /\ BeginMutation(request[h].claim, request[h].operation)
                 /\ permit'[h] = reservation'[MerchantScope]
<1> DEFINE c == request[h].claim
           op == request[h].operation
<1>0. /\ c \in Claims /\ op \in Operations /\ semanticScope[c] = MerchantScope
      /\ pc \in [Handlers -> {"idle", "prepare", "reserve", "activate", "finish"}]
      /\ permit \in [Handlers -> Permits \cup {NoPermit}]
  BY ThemeTypes DEF Reserve, ThemeInv, RequestsInMemory
<1>1. CASE \E p \in Reserved(c, op) \cup Completed(c, op) :
              permit' = [permit EXCEPT ![h] = p] /\ Goto(h, "activate")
                 /\ UNCHANGED <<claimVars, request, result>>
  <2>1. PICK p \in Reserved(c, op) \cup Completed(c, op) :
              permit' = [permit EXCEPT ![h] = p] /\ Goto(h, "activate")
                 /\ UNCHANGED <<claimVars, request, result>>
    BY <1>1
  <2>2. p \in issued
    BY <1>0, <2>1 DEF Reserved, Completed, ThemeInv, AuthoringInv, RowsWellFormed,
       HasReservation, PermitsAreTheMerchants
  <2> QED BY <1>0, <2>1, <2>2 DEF Goto
<1>2. CASE /\ BeginMutation(c, op)
           /\ permit' = [permit EXCEPT ![h] = reservation'[MerchantScope]]
           /\ Goto(h, "activate") /\ UNCHANGED <<request, result>>
  BY <1>0, <1>2 DEF Goto
<1>3. CASE Answer(h, "refused")
  BY <1>0, <1>3 DEF Answer, Goto
<1> QED BY <1>1, <1>2, <1>3 DEF Reserve

\* beginMutation: the new permit is in reservation, and valid.
LEMMA BeginMakes ==
    ASSUME ThemeAssumption, ThemeInv, NEW c \in Claims, NEW op \in Operations,
           semanticScope[c] = MerchantScope, BeginMutation(c, op)
    PROVE  /\ reservation'[MerchantScope] \in Permits
           /\ reservation'[MerchantScope].operation = op
           /\ reservation'[MerchantScope].claim = c
           /\ issued' = issued \cup {reservation'[MerchantScope]}
           /\ reservation[MerchantScope] = NoPermit
           /\ completion' = completion
<1> DEFINE p == [claim |-> c, operation |-> op, sequence |-> sequence[MerchantScope] + 1]
<1>1. /\ sequence \in [Scopes -> 0 .. MaxSequence] /\ MerchantScope \in Scopes
      /\ reservation \in [Scopes -> Permits \cup {NoPermit}]
  BY TheJournal DEF ThemeInv, AuthoringInv, AuthoringTypeOK, ClaimTypeOK
<1>2. reservation'[MerchantScope] = p /\ issued' = issued \cup {p}
  BY <1>1 DEF BeginMutation
<1>3. p \in Permits
  BY <1>1 DEF BeginMutation, Permits
<1>4. reservation[MerchantScope] = NoPermit /\ completion' = completion
  BY DEF BeginMutation, HasReservation
<1> QED BY <1>2, <1>3, <1>4

\* Every step is one the coordinator and the fence allow.
LEMMA ThemeAuthoringStep ==
    ASSUME ThemeAssumption, ThemeInv, [Next]_vars
    PROVE  [AuthoringNext]_authoringVars
<1>1. ASSUME NEW h \in Handlers, Reserve(h)
      PROVE  [AuthoringNext]_authoringVars
  <2>1. request[h].claim \in Claims /\ request[h].operation \in Operations
    BY <1>1 DEF Reserve, ThemeInv, RequestsInMemory
  <2> QED BY <1>1, <2>1 DEF Reserve, AuthoringNext, ClaimNext, authoringVars, claimVars, fenceVars
<1>2. ASSUME NEW h \in Handlers, ActivateReturns(h) \/ ActivateThrows(h)
      PROVE  [AuthoringNext]_authoringVars
  <2>1. permit[h] \in issued
    BY <1>2 DEF ActivateReturns, ActivateThrows, ThemeInv, RequestsInMemory
  <2>2. UNCHANGED claimVars
    BY <1>2 DEF ActivateReturns, ActivateThrows
  <2>3. Execute("theme", permit[h], {}) \/ UNCHANGED fenceVars
    BY <1>2 DEF ActivateReturns, ActivateThrows, Activate
  <2>4. ASSUME Execute("theme", permit[h], {}) PROVE FenceStep
    <3>1. {} \in SUBSET outcome["theme"] /\ "theme" \in Journals
      BY TheJournal
    <3> QED BY <2>1, <2>2, <2>4, <3>1 DEF FenceStep
  <2> QED BY <2>2, <2>3, <2>4 DEF AuthoringNext, authoringVars, claimVars, fenceVars
<1>3. ASSUME NEW h \in Handlers, Finish(h) \/ FinishFails(h)
      PROVE  [AuthoringNext]_authoringVars
  <2>1. permit[h] \in issued
    BY <1>3 DEF Finish, FinishFails, ThemeInv, RequestsInMemory
  <2> QED BY <1>3, <2>1 DEF Finish, FinishFails, AuthoringNext, ClaimNext, authoringVars,
             claimVars, fenceVars
<1>4. CASE Authority
  BY <1>4 DEF Authority, AuthoringNext, ClaimNext
<1>5. ASSUME NEW h \in Handlers, Prepare(h) \/ Lost(h)
      PROVE  UNCHANGED authoringVars
  BY <1>5 DEF Prepare, Lost, authoringVars, claimVars, fenceVars
<1>6. ASSUME NEW h \in Handlers, NEW c \in Claims, NEW op \in Operations, Start(h, c, op)
      PROVE  UNCHANGED authoringVars
  BY <1>6 DEF Start, authoringVars, claimVars, fenceVars
<1>7. ASSUME NEW a \in Agents, ChangeAgent(a)
      PROVE  UNCHANGED authoringVars
  BY <1>7 DEF ChangeAgent, authoringVars, claimVars, fenceVars
<1>8. CASE UNCHANGED vars
  BY <1>8 DEF vars, authoringVars, claimVars, fenceVars
<1> QED BY <1>1, <1>2, <1>3, <1>4, <1>5, <1>6, <1>7, <1>8 DEF Next

\* What an answered request leaves: its handler is idle and holds no permit.
LEMMA AnswerFrees ==
    ASSUME ThemeAssumption, ThemeInv, NEW h \in Handlers, NEW code, Answer(h, code)
    PROVE  /\ pc' = [pc EXCEPT ![h] = "idle"]
           /\ pc'[h] = "idle" /\ permit'[h] = NoPermit
           /\ \A g \in Handlers \ {h} :
                 /\ pc'[g] = pc[g] /\ permit'[g] = permit[g]
                 /\ request'[g] = request[g] /\ result'[g] = result[g]
           /\ code \in Codes => result' \in [Handlers -> Codes]
           /\ permit' \in [Handlers -> Permits \cup {NoPermit}]
           /\ request' \in [Handlers -> [claim : Claims \cup {NoClaim},
                                         operation : Operations \cup {"none"}]]
<1>1. /\ request \in [Handlers -> [claim : Claims \cup {NoClaim},
                                   operation : Operations \cup {"none"}]]
      /\ result \in [Handlers -> Codes]
  BY DEF ThemeInv, TypeOK
<1>2. NoCall \in [claim : Claims \cup {NoClaim}, operation : Operations \cup {"none"}]
  BY DEF NoCall
<1> QED BY <1>1, <1>2, ThemeTypes DEF Answer, Goto

\* completeMutation of a permit of the merchant.
LEMMA CompleteFrees ==
    ASSUME ThemeAssumption, ThemeInv, NEW p \in issued, CompleteMutation(p)
    PROVE  /\ reservation[MerchantScope] = p /\ reservation'[MerchantScope] = NoPermit
           /\ issued' = issued /\ completion' = completion \cup {p}
<1>1. ScopeOf(p) = MerchantScope
  BY DEF ThemeInv, PermitsAreTheMerchants
<1> QED BY <1>1, ThemeTypes, TheJournal DEF CompleteMutation

\* An inert permit stays inert, whatever the coordinator and the object do.
LEMMA InertStays ==
    ASSUME ThemeAssumption, ThemeInv, [Next]_vars, NEW p \in issued, ~Executable("theme", p)
    PROVE  ~Executable("theme", p)'
<1>1. AuthoringInv /\ [AuthoringNext]_authoringVars /\ "theme" \in Journals
  BY ThemeAuthoringStep, TheJournal DEF ThemeInv
<1>2. Executable("theme", p)' => Executable("theme", p)
  BY <1>1, ExecutableFalls
<1> QED BY <1>2

\* The object executes a permit at most once: after the call it is inert.
LEMMA ActivateMakesInert ==
    ASSUME ThemeAssumption, ThemeInv, [Next]_vars, NEW p \in issued, Activate(p)
    PROVE  ~Executable("theme", p)'
<1>1. CASE ~Executable("theme", p)
  BY <1>1, InertStays
<1>2. CASE Execute("theme", p, {})
  <2>1. p \in outcome'["theme"]
    BY <1>2, ThemeTypes, TheJournal DEF Execute
  <2> QED BY <2>1 DEF Executable
<1> QED BY <1>1, <1>2 DEF Activate

\* The steps that touch neither a permit nor the object.
LEMMA Aside ==
    ASSUME \/ Authority
           \/ \E a \in Agents : ChangeAgent(a)
           \/ UNCHANGED vars
    PROVE  UNCHANGED <<issued, reservation, completion, fence, outcome, theme, history,
                       answered, pc, request, permit, result, faults>>
BY DEF Authority, Acquire, Release, Tick, ChangeAgent, vars, claimVars, fenceVars, themeVars,
       handlerVars

\* Which requests are about to finish: those that were, and one whose call of
\* the object has just returned.
LEMMA FinishingRequests ==
    ASSUME ThemeAssumption, ThemeInv, [Next]_vars, NEW g \in Handlers, pc'[g] = "finish"
    PROVE  /\ permit'[g] = permit[g]
           /\ (pc[g] = "finish" /\ result'[g] = result[g]) \/ ActivateReturns(g)
<1>1. CASE Authority \/ (\E a \in Agents : ChangeAgent(a)) \/ UNCHANGED vars
  BY <1>1, Aside
<1>2. ASSUME NEW h \in Handlers, NEW code, Answer(h, code)
      PROVE  /\ permit'[g] = permit[g]
             /\ pc[g] = "finish" /\ result'[g] = result[g]
  BY <1>2, AnswerFrees
<1>3. ASSUME NEW h \in Handlers, NEW c \in Claims, NEW op \in Operations, Start(h, c, op)
      PROVE  /\ permit'[g] = permit[g]
             /\ pc[g] = "finish" /\ result'[g] = result[g]
  BY <1>3, ThemeTypes DEF Start, Goto
<1>4. ASSUME NEW h \in Handlers, Prepare(h)
      PROVE  /\ permit'[g] = permit[g]
             /\ pc[g] = "finish" /\ result'[g] = result[g]
  BY <1>4, <1>2, ThemeTypes DEF Prepare, Goto
<1>5. ASSUME NEW h \in Handlers, Reserve(h)
      PROVE  /\ permit'[g] = permit[g]
             /\ pc[g] = "finish" /\ result'[g] = result[g]
  BY <1>5, <1>2, ThemeTypes DEF Reserve, Goto
<1>6. ASSUME NEW h \in Handlers, ActivateReturns(h)
      PROVE  /\ permit'[g] = permit[g]
             /\ (pc[g] = "finish" /\ result'[g] = result[g]) \/ ActivateReturns(g)
  BY <1>6, ThemeTypes DEF ActivateReturns, Goto
<1>7. ASSUME NEW h \in Handlers, ActivateThrows(h) \/ Finish(h) \/ FinishFails(h) \/ Lost(h)
      PROVE  /\ permit'[g] = permit[g]
             /\ pc[g] = "finish" /\ result'[g] = result[g]
  BY <1>7, <1>2 DEF ActivateThrows, Finish, FinishFails, Lost
<1> QED BY <1>1, <1>3, <1>4, <1>5, <1>6, <1>7 DEF Next

\* How the coordinator's state moves: not at all, a new permit is reserved
\* where there was none, or an inert one is completed.
LEMMA ReservationMoves ==
    ASSUME ThemeAssumption, ThemeInv, [Next]_vars
    PROVE  \/ UNCHANGED <<issued, reservation, completion>>
           \/ \E h \in Handlers :
                 /\ Reserve(h) /\ pc'[h] = "activate"
                 /\ BeginMutation(request[h].claim, request[h].operation)
                 /\ permit'[h] = reservation'[MerchantScope]
           \/ \E h \in Handlers :
                 /\ pc[h] = "finish" /\ CompleteMutation(permit[h])
<1>1. CASE Authority \/ (\E a \in Agents : ChangeAgent(a)) \/ UNCHANGED vars
  BY <1>1, Aside
<1>2. ASSUME NEW h \in Handlers, NEW c \in Claims, NEW op \in Operations, Start(h, c, op)
      PROVE  UNCHANGED <<issued, reservation, completion>>
  BY <1>2 DEF Start, claimVars
<1>3. ASSUME NEW h \in Handlers,
             Prepare(h) \/ ActivateReturns(h) \/ ActivateThrows(h) \/ Lost(h)
      PROVE  UNCHANGED <<issued, reservation, completion>>
  BY <1>3 DEF Prepare, ActivateReturns, ActivateThrows, Lost, claimVars
<1>4. ASSUME NEW h \in Handlers, Reserve(h)
      PROVE  \/ UNCHANGED <<issued, reservation, completion>>
             \/ /\ Reserve(h) /\ pc'[h] = "activate"
                /\ BeginMutation(request[h].claim, request[h].operation)
                /\ permit'[h] = reservation'[MerchantScope]
  BY <1>4, ThemeTypes DEF Reserve, Goto, claimVars
<1>5. ASSUME NEW h \in Handlers, Finish(h) \/ FinishFails(h)
      PROVE  \/ UNCHANGED <<issued, reservation, completion>>
             \/ pc[h] = "finish" /\ CompleteMutation(permit[h])
  BY <1>5 DEF Finish, FinishFails, claimVars
<1> QED BY <1>1, <1>2, <1>3, <1>4, <1>5 DEF Next

\* A request about to reserve has a valid manifest and a lease of the merchant.
LEMMA ReserveBegins ==
    ASSUME ThemeAssumption, ThemeInv, NEW h \in Handlers, Reserve(h)
    PROVE  /\ request[h].claim \in Claims /\ request[h].operation \in Operations
           /\ semanticScope[request[h].claim] = MerchantScope
           /\ ValidateThemeManifest(request[h].operation)
           /\ manifest[request[h].operation].merchant = MerchantScope
BY DEF Reserve, ThemeInv, RequestsInMemory

\* A permit that lost its reservation is inert.
LEMMA InertStep ==
    ASSUME ThemeAssumption, ThemeInv, [Next]_vars
    PROVE  InertUnlessReserved'
<1>1. ASSUME NEW h \in Handlers, NEW q \in issued, pc[h] = "finish", permit[h] = q
      PROVE  ~Executable("theme", q)'
  BY <1>1, InertStays DEF ThemeInv, InertUnlessReserved
<1>2. ASSUME NEW p \in issued
      PROVE  p = reservation'[MerchantScope] \/ ~Executable("theme", p)'
  <2>1. p = reservation[MerchantScope] \/ ~Executable("theme", p)'
    BY InertStays DEF ThemeInv, InertUnlessReserved
  <2>2. CASE UNCHANGED <<issued, reservation, completion>>
    BY <2>1, <2>2
  <2>3. ASSUME NEW h \in Handlers, Reserve(h),
               BeginMutation(request[h].claim, request[h].operation)
        PROVE  ~Executable("theme", p)'
    <3>1. reservation[MerchantScope] = NoPermit
      BY <2>3, ReserveBegins, BeginMakes
    <3>2. p # NoPermit
      BY ThemeTypes
    <3> QED BY <2>1, <3>1, <3>2
  <2>4. ASSUME NEW h \in Handlers, pc[h] = "finish", CompleteMutation(permit[h])
        PROVE  ~Executable("theme", p)'
    <3>1. permit[h] \in issued
      BY <2>4 DEF ThemeInv, RequestsInMemory
    <3>2. reservation[MerchantScope] = permit[h]
      BY <2>4, <3>1, CompleteFrees
    <3> QED BY <2>1, <2>4, <3>1, <3>2, <1>1
  <2> QED BY <2>2, <2>3, <2>4, ReservationMoves
<1>3. ASSUME NEW p \in issued', p \notin issued
      PROVE  p = reservation'[MerchantScope]
  <2>1. CASE UNCHANGED <<issued, reservation, completion>>
    BY <1>3, <2>1
  <2>2. ASSUME NEW h \in Handlers, Reserve(h),
               BeginMutation(request[h].claim, request[h].operation)
        PROVE  p = reservation'[MerchantScope]
    BY <1>3, <2>2, ReserveBegins, BeginMakes
  <2>3. ASSUME NEW h \in Handlers, pc[h] = "finish", CompleteMutation(permit[h])
        PROVE  FALSE
    BY <1>3, <2>3 DEF CompleteMutation
  <2> QED BY <2>1, <2>2, <2>3, ReservationMoves
<1>4. ASSUME NEW g \in Handlers, pc'[g] = "finish"
      PROVE  \E q \in issued : permit'[g] = q /\ ~Executable("theme", q)'
  <2>1. permit'[g] = permit[g] /\ (pc[g] = "finish" \/ ActivateReturns(g))
    BY <1>4, FinishingRequests
  <2>2. permit[g] \in issued
    BY <2>1 DEF ThemeInv, RequestsInMemory, ActivateReturns
  <2>3. PICK q \in issued : permit[g] = q
    BY <2>2
  <2>4. CASE pc[g] = "finish"
    BY <2>1, <2>3, <2>4, <1>1
  <2>5. CASE ActivateReturns(g)
    <3>1. Activate(q)
      BY <2>3, <2>5 DEF ActivateReturns
    <3>2. ~Executable("theme", q)'
      BY <3>1, ActivateMakesInert
    <3> QED BY <2>1, <2>3, <3>2
  <2> QED BY <2>1, <2>4, <2>5
<1>5. \A p \in issued' : p = reservation'[MerchantScope] \/ ~Executable("theme", p)'
  BY <1>2, <1>3
<1>6. (\A g \in Handlers : pc[g] = "finish" => ~Executable("theme", permit[g]))'
  BY <1>4 DEF Executable
<1> QED BY <1>5, <1>6 DEF InertUnlessReserved

\* What the object's state can do in a step: nothing, or execute the permit of
\* a request at "activate", with its transaction.
LEMMA ObjectMoves ==
    ASSUME ThemeAssumption, ThemeInv, [Next]_vars
    PROVE  \/ UNCHANGED <<fence, outcome, theme, history, answered>>
           \/ \E h \in Handlers :
                 /\ pc[h] = "activate" /\ permit[h] \in issued
                 /\ Execute("theme", permit[h], {}) /\ Transaction(permit[h])
<1>1. CASE Authority \/ (\E a \in Agents : ChangeAgent(a)) \/ UNCHANGED vars
  BY <1>1, Aside
<1>2. ASSUME NEW h \in Handlers, NEW c \in Claims, NEW op \in Operations, Start(h, c, op)
      PROVE  UNCHANGED <<fence, outcome, theme, history, answered>>
  BY <1>2 DEF Start, fenceVars
<1>3. ASSUME NEW h \in Handlers,
             Prepare(h) \/ Reserve(h) \/ Finish(h) \/ FinishFails(h) \/ Lost(h)
      PROVE  UNCHANGED <<fence, outcome, theme, history, answered>>
  BY <1>3 DEF Prepare, Reserve, Finish, FinishFails, Lost, fenceVars
<1>4. ASSUME NEW h \in Handlers, ActivateReturns(h) \/ ActivateThrows(h)
      PROVE  \/ UNCHANGED <<fence, outcome, theme, history, answered>>
             \/ /\ pc[h] = "activate" /\ permit[h] \in issued
                /\ Execute("theme", permit[h], {}) /\ Transaction(permit[h])
  <2>1. pc[h] = "activate" /\ permit[h] \in issued
    BY <1>4 DEF ActivateReturns, ActivateThrows, ThemeInv, RequestsInMemory
  <2> QED BY <1>4, <2>1 DEF ActivateReturns, ActivateThrows, Activate, fenceVars
<1> QED BY <1>1, <1>2, <1>3, <1>4 DEF Next

\* What the object keeps: the outcomes are those journalled, the theme is the
\* last one written and every record replaced what was reviewed.
ObjectKeeps ==
    /\ theme \in Digests \cup {NoTheme}
    /\ answered \subseteq [permit : Permits, code : {"ok", "theme_review_stale"}]
    /\ {a.permit : a \in answered} = outcome["theme"]
    /\ HistoryOfTheme
    /\ ReviewedIsReplaced

LEMMA TransactionKeeps ==
    ASSUME ThemeAssumption, ThemeInv, NEW p \in Permits,
           Execute("theme", p, {}), Transaction(p)
    PROVE  ObjectKeeps'
<1> DEFINE digest == Digest(p.operation)
           expected == Reviewed(p.operation)
           row == [permit |-> p, from |-> theme]
<1>0. /\ theme \in Digests \cup {NoTheme}
      /\ answered \subseteq [permit : Permits, code : {"ok", "theme_review_stale"}]
      /\ {a.permit : a \in answered} = outcome["theme"]
      /\ history \in Seq([permit : Permits, from : Digests \cup {NoTheme}])
      /\ HistoryOfTheme /\ ReviewedIsReplaced
  BY DEF ThemeInv, TypeOK, HistoryOfTheme
<1>1. digest \in Digests
  BY PermitFields DEF Digests
<1>2. outcome'["theme"] = outcome["theme"] \cup {p}
  BY ThemeTypes, TheJournal DEF Execute
<1>3. ASSUME NEW code \in {"ok", "theme_review_stale"},
             answered' = answered \cup {[permit |-> p, code |-> code]}
      PROVE  /\ answered' \subseteq [permit : Permits, code : {"ok", "theme_review_stale"}]
             /\ {a.permit : a \in answered'} = outcome'["theme"]
  <2>1. answered' \subseteq [permit : Permits, code : {"ok", "theme_review_stale"}]
    BY <1>0, <1>3
  <2>2. {a.permit : a \in answered'} = {a.permit : a \in answered} \cup {p}
    <3> DEFINE new == [permit |-> p, code |-> code]
    <3>1. new.permit = p
      OBVIOUS
    <3> HIDE DEF new
    <3>2. answered' = answered \cup {new}
      BY <1>3 DEF new
    <3> QED BY <3>1, <3>2
  <2> QED BY <2>1, <2>2, <1>0, <1>2
<1>4. CASE theme = digest
  <2>1. /\ answered' = answered \cup {[permit |-> p, code |-> "ok"]}
        /\ theme' = theme /\ history' = history
    BY <1>4 DEF Transaction
  <2>2. Len(history) \in Nat /\ Len(history) # 0
    BY <1>0, <1>1, <1>4 DEF HistoryOfTheme, ThemeAssumption
  <2>3. Written(p)
    BY <1>0, <1>4, <2>2 DEF HistoryOfTheme, Written
  <2>4. \A a \in answered' : a.code = "ok" => Written(a.permit)
    BY <1>0, <2>1, <2>3 DEF HistoryOfTheme
  <2>5. (\A a \in answered : a.code = "ok" => Written(a.permit))'
    BY <2>1, <2>4 DEF Written
  <2>6. HistoryOfTheme'
    BY <1>0, <2>1, <2>5 DEF HistoryOfTheme
  <2>7. ReviewedIsReplaced'
    BY <1>0, <2>1 DEF ReviewedIsReplaced
  <2> QED BY <1>0, <1>3, <2>1, <2>6, <2>7 DEF ObjectKeeps
<1>5. CASE theme # digest /\ expected # Unreviewed /\ expected # theme
  <2>1. /\ answered' = answered \cup {[permit |-> p, code |-> "theme_review_stale"]}
        /\ theme' = theme /\ history' = history
    BY <1>5 DEF Transaction
  <2>4. \A a \in answered' : a.code = "ok" => Written(a.permit)
    BY <1>0, <2>1 DEF HistoryOfTheme
  <2>5. (\A a \in answered : a.code = "ok" => Written(a.permit))'
    BY <2>1, <2>4 DEF Written
  <2>6. HistoryOfTheme'
    BY <1>0, <2>1, <2>5 DEF HistoryOfTheme
  <2>7. ReviewedIsReplaced'
    BY <1>0, <2>1 DEF ReviewedIsReplaced
  <2> QED BY <1>0, <1>3, <2>1, <2>6, <2>7 DEF ObjectKeeps
<1>6. CASE theme # digest /\ (expected = Unreviewed \/ expected = theme)
  <2>1. /\ answered' = answered \cup {[permit |-> p, code |-> "ok"]}
        /\ theme' = digest /\ history' = Append(history, row)
    BY <1>6 DEF Transaction
  <2>2. row \in [permit : Permits, from : Digests \cup {NoTheme}]
    BY <1>0
  <2>3. /\ Len(history) \in Nat
        /\ history' \in Seq([permit : Permits, from : Digests \cup {NoTheme}])
        /\ Len(history') = Len(history) + 1
        /\ history'[Len(history) + 1] = row
        /\ \A i \in 1 .. Len(history) : history'[i] = history[i]
    BY <1>0, <2>1, <2>2
  <2>4. \A q : Written(q) => \E i \in 1 .. Len(history') :
                                Digest(history'[i].permit.operation) = Digest(q.operation)
    BY <2>3 DEF Written
  <2>5. \E i \in 1 .. Len(history') :
                                Digest(history'[i].permit.operation) = Digest(p.operation)
    <3>1. row.permit = p /\ Len(history) + 1 \in 1 .. Len(history')
      BY <2>3
    <3> QED BY <2>3, <3>1
  <2>6. \A a \in answered' : a.code = "ok" => \E i \in 1 .. Len(history') :
                                Digest(history'[i].permit.operation) = Digest(a.permit.operation)
    <3> TAKE a \in answered'
    <3>1. CASE a \in answered
      BY <1>0, <2>4, <3>1 DEF HistoryOfTheme
    <3>2. CASE a = [permit |-> p, code |-> "ok"]
      <4>1. a.permit = p
        BY <3>2
      <4> QED BY <2>5, <4>1
    <3> QED BY <2>1, <3>1, <3>2
  <2>7. theme' = Digest(history'[Len(history')].permit.operation) /\ Len(history') # 0
    BY <2>1, <2>3
  <2>8. HistoryOfTheme'
    BY <2>3, <2>6, <2>7 DEF HistoryOfTheme, Written
  <2>9. ReviewedIsReplaced'
    <3> SUFFICES ASSUME NEW i \in 1 .. Len(history')
                 PROVE  LET e == Reviewed(history'[i].permit.operation)
                        IN  /\ e # Unreviewed => history'[i].from = e
                            /\ history'[i].from = IF i = 1 THEN NoTheme
                                     ELSE Digest(history'[i - 1].permit.operation)
      BY DEF ReviewedIsReplaced
    <3>1. CASE i \in 1 .. Len(history)
      <4>1. history'[i] = history[i]
        BY <2>3, <3>1
      <4>2. i # 1 => i - 1 \in 1 .. Len(history)
        BY <2>3, <3>1
      <4>3. i # 1 => history'[i - 1] = history[i - 1]
        BY <2>3, <4>2
      <4> QED BY <1>0, <3>1, <4>1, <4>3 DEF ReviewedIsReplaced
    <3>2. CASE i = Len(history) + 1
      <4>1. history'[i].permit = p /\ history'[i].from = theme
        BY <2>3, <3>2
      <4>2. theme = IF i = 1 THEN NoTheme ELSE Digest(history'[i - 1].permit.operation)
        BY <1>0, <2>3, <3>2 DEF HistoryOfTheme
      <4> QED BY <1>6, <4>1, <4>2
    <3> QED BY <2>3, <3>1, <3>2
  <2> QED BY <1>1, <1>3, <2>1, <2>8, <2>9 DEF ObjectKeeps
<1> QED BY <1>4, <1>5, <1>6

\* The object's state after any step.
LEMMA ObjectStep ==
    ASSUME ThemeAssumption, ThemeInv, [Next]_vars
    PROVE  ObjectKeeps'
<1>1. CASE UNCHANGED <<fence, outcome, theme, history, answered>>
  BY <1>1 DEF ThemeInv, TypeOK, ObjectKeeps, HistoryOfTheme, ReviewedIsReplaced, Written
<1>2. ASSUME NEW h \in Handlers, permit[h] \in issued,
             Execute("theme", permit[h], {}), Transaction(permit[h])
      PROVE  ObjectKeeps'
  BY <1>2, ThemeTypes, TransactionKeeps
<1> QED BY <1>1, <1>2, ObjectMoves

\* Every permit is the merchant's and for a manifest that was prepared.
LEMMA PermitStep ==
    ASSUME ThemeAssumption, ThemeInv, [Next]_vars
    PROVE  /\ PermitsAreTheMerchants' /\ ReservedIsPrepared'
           /\ issued \subseteq issued'
<1>0. PermitsAreTheMerchants /\ ReservedIsPrepared
  BY DEF ThemeInv
<1>1. CASE UNCHANGED <<issued, reservation, completion>>
  BY <1>0, <1>1 DEF PermitsAreTheMerchants, ReservedIsPrepared
<1>2. ASSUME NEW h \in Handlers, Reserve(h),
             BeginMutation(request[h].claim, request[h].operation)
      PROVE  PermitsAreTheMerchants' /\ ReservedIsPrepared' /\ issued \subseteq issued'
  BY <1>0, <1>2, ReserveBegins, BeginMakes DEF PermitsAreTheMerchants, ReservedIsPrepared, ScopeOf
<1>3. ASSUME NEW h \in Handlers, pc[h] = "finish", CompleteMutation(permit[h])
      PROVE  PermitsAreTheMerchants' /\ ReservedIsPrepared' /\ issued \subseteq issued'
  <2>1. permit[h] \in issued
    BY <1>3 DEF ThemeInv, RequestsInMemory
  <2> QED BY <1>0, <1>3, <2>1, CompleteFrees DEF PermitsAreTheMerchants, ReservedIsPrepared
<1> QED BY <1>1, <1>2, <1>3, ReservationMoves

\* What one request has in memory.
InMemory(h) ==
    /\ pc[h] # "idle" =>
          /\ request[h].claim \in Claims /\ request[h].operation \in Operations
          /\ semanticScope[request[h].claim] = MerchantScope
    /\ pc[h] = "reserve" =>
          /\ ValidateThemeManifest(request[h].operation)
          /\ manifest[request[h].operation].merchant = MerchantScope
    /\ IF pc[h] \in {"activate", "finish"} THEN permit[h] \in issued
                                           ELSE permit[h] = NoPermit

HandlerTypes ==
    /\ pc \in [Handlers -> {"idle", "prepare", "reserve", "activate", "finish"}]
    /\ permit \in [Handlers -> Permits \cup {NoPermit}]
    /\ request \in [Handlers -> [claim : Claims \cup {NoClaim},
                                 operation : Operations \cup {"none"}]]
    /\ result \in [Handlers -> Codes]

\* An answer leaves the other requests as they were, and its own empty.
LEMMA AnswerStep ==
    ASSUME ThemeAssumption, ThemeInv, [Next]_vars, NEW h \in Handlers, NEW code \in Codes,
           Answer(h, code)
    PROVE  HandlerTypes' /\ \A g \in Handlers : InMemory(g)'
<1>1. HandlerTypes'
  BY AnswerFrees, ThemeTypes DEF HandlerTypes
<1>2. ASSUME NEW g \in Handlers PROVE InMemory(g)'
  <2>1. CASE g = h
    BY <2>1, AnswerFrees DEF InMemory
  <2>2. CASE g # h
    <3>1. InMemory(g)
      BY DEF ThemeInv, RequestsInMemory, InMemory
    <3> QED BY <2>2, <3>1, AnswerFrees, PermitStep DEF InMemory
  <2> QED BY <2>1, <2>2
<1> QED BY <1>1, <1>2

\* The codes of a preparation, and what a prepared manifest passed.
LEMMA PreparedCodes ==
    ASSUME NEW op, NEW chains
    PROVE  /\ Prepared(op, chains) \in Codes \cup {"prepared"}
           /\ Prepared(op, chains) = "prepared" =>
                 ValidateThemeManifest(op) /\ manifest[op].merchant = MerchantScope
BY DEF Prepared, Codes

\* The code of an activation that returned.
LEMMA ActivationCode ==
    ASSUME ThemeAssumption, ThemeInv, [Next]_vars, NEW p \in Permits
    PROVE  /\ ActivationResult(p) \in Codes
           /\ ActivationResult(p) = "ok" => \E a \in answered' : a.permit = p /\ a.code = "ok"
<1>1. answered' \subseteq [permit : Permits, code : {"ok", "theme_review_stale"}]
  BY ObjectStep DEF ObjectKeeps
<1>2. CASE \E a \in answered' : a.permit = p
  <2> DEFINE a == CHOOSE a \in answered' : a.permit = p
  <2>1. a \in answered' /\ a.permit = p
    BY <1>2
  <2>2. ActivationResult(p) = a.code
    BY <1>2 DEF ActivationResult
  <2> HIDE DEF a
  <2> QED BY <1>1, <2>1, <2>2 DEF Codes
<1>3. CASE ~\E a \in answered' : a.permit = p
  BY <1>3 DEF ActivationResult, Codes
<1> QED BY <1>2, <1>3

\* A step that moves one request and its permit.
LEMMA OthersUntouched ==
    ASSUME ThemeAssumption, ThemeInv, [Next]_vars, NEW h \in Handlers,
           \A g \in Handlers \ {h} : /\ pc'[g] = pc[g] /\ permit'[g] = permit[g]
                                     /\ request'[g] = request[g],
           InMemory(h)'
    PROVE  \A g \in Handlers : InMemory(g)'
<1> SUFFICES ASSUME NEW g \in Handlers, g # h PROVE InMemory(g)'
  OBVIOUS
<1>1. InMemory(g)
  BY DEF ThemeInv, RequestsInMemory, InMemory
<1> QED BY <1>1, PermitStep DEF InMemory

\* Requests keep the operation and the lease they started with, reserve only
\* what was prepared, and hold an issued permit from there on.
LEMMA RequestStep ==
    ASSUME ThemeAssumption, ThemeInv, [Next]_vars
    PROVE  HandlerTypes' /\ RequestsInMemory'
<1> DEFINE Goal == HandlerTypes' /\ \A g \in Handlers : InMemory(g)'
<1>0. HandlerTypes /\ \A g \in Handlers : InMemory(g)
  BY DEF ThemeInv, TypeOK, HandlerTypes, RequestsInMemory, InMemory
<1>1. ASSUME Authority \/ (\E a \in Agents : ChangeAgent(a)) \/ UNCHANGED vars
      PROVE  Goal
  <2>1. UNCHANGED <<issued, pc, request, permit, result>>
    BY <1>1, Aside
  <2> QED BY <1>0, <2>1 DEF HandlerTypes, InMemory
<1>2. ASSUME NEW h \in Handlers, NEW c \in Claims, NEW op \in Operations, Start(h, c, op)
      PROVE  Goal
  <2>1. HandlerTypes' /\ UNCHANGED permit /\ UNCHANGED issued
    BY <1>0, <1>2 DEF Start, Goto, HandlerTypes, Codes, claimVars
  <2>2. InMemory(h)'
    <3>1. pc'[h] = "prepare" /\ request'[h].claim = c /\ request'[h].operation = op
      BY <1>0, <1>2 DEF Start, Goto, HandlerTypes
    <3>2. permit'[h] = NoPermit /\ semanticScope[c] = MerchantScope
      BY <1>0, <1>2 DEF Start, InMemory
    <3> QED BY <3>1, <3>2 DEF InMemory
  <2>3. \A g \in Handlers \ {h} : /\ pc'[g] = pc[g] /\ permit'[g] = permit[g]
                                  /\ request'[g] = request[g]
    BY <1>0, <1>2 DEF Start, Goto, HandlerTypes
  <2> QED BY <2>1, <2>2, <2>3, OthersUntouched
<1>3. ASSUME NEW h \in Handlers, Prepare(h)
      PROVE  Goal
  <2>1. PICK chain \in Chains :
           LET code == Prepared(request[h].operation, [i \in 1 .. 3 |-> chain])
           IN  IF code = "prepared"
               THEN Goto(h, "reserve") /\ UNCHANGED <<request, permit, result>>
               ELSE Answer(h, code)
    BY <1>3 DEF Prepare
  <2> DEFINE code == Prepared(request[h].operation, [i \in 1 .. 3 |-> chain])
  <2>2. /\ code \in Codes \cup {"prepared"}
        /\ code = "prepared" => /\ ValidateThemeManifest(request[h].operation)
                                /\ manifest[request[h].operation].merchant = MerchantScope
    BY PreparedCodes
  <2>3. IF code = "prepared" THEN Goto(h, "reserve") /\ UNCHANGED <<request, permit, result>>
        ELSE Answer(h, code)
    BY <2>1
  <2> HIDE DEF code
  <2>4. CASE code = "prepared"
    <3>1. HandlerTypes' /\ pc'[h] = "reserve"
      BY <1>0, <2>3, <2>4 DEF Goto, HandlerTypes
    <3>2. InMemory(h)'
      BY <1>0, <1>3, <2>2, <2>3, <2>4, <3>1 DEF InMemory, Prepare
    <3>3. \A g \in Handlers \ {h} : /\ pc'[g] = pc[g] /\ permit'[g] = permit[g]
                                    /\ request'[g] = request[g]
      BY <1>0, <2>3, <2>4 DEF Goto, HandlerTypes
    <3> QED BY <3>1, <3>2, <3>3, OthersUntouched
  <2>5. CASE code # "prepared"
    BY <2>2, <2>3, <2>5, AnswerStep
  <2> QED BY <2>4, <2>5
<1>4. ASSUME NEW h \in Handlers, Reserve(h), pc'[h] = "activate"
      PROVE  Goal
  <2>1. /\ permit' = [permit EXCEPT ![h] = permit'[h]]
        /\ pc' = [pc EXCEPT ![h] = "activate"]
        /\ UNCHANGED <<request, result>>
        /\ \/ UNCHANGED claimVars /\ permit'[h] \in issued
           \/ /\ BeginMutation(request[h].claim, request[h].operation)
              /\ permit'[h] = reservation'[MerchantScope]
    BY <1>4, ReserveObtains
  <2>2. permit'[h] \in issued' /\ permit'[h] \in Permits
    BY <1>4, <2>1, ReserveBegins, BeginMakes, ThemeTypes, PermitStep
  <2>3. HandlerTypes'
    BY <1>0, <2>1, <2>2 DEF HandlerTypes
  <2>4. InMemory(h)'
    BY <1>0, <1>4, <2>1, <2>2 DEF InMemory, Reserve
  <2>5. \A g \in Handlers \ {h} : /\ pc'[g] = pc[g] /\ permit'[g] = permit[g]
                                  /\ request'[g] = request[g]
    BY <1>0, <2>1 DEF HandlerTypes
  <2> QED BY <2>3, <2>4, <2>5, OthersUntouched
<1>5. ASSUME NEW h \in Handlers, Reserve(h), pc'[h] # "activate"
      PROVE  Goal
  <2>1. Answer(h, "refused")
    BY <1>0, <1>5 DEF Reserve, Goto, HandlerTypes
  <2> QED BY <2>1, AnswerStep DEF Codes
<1>6. ASSUME NEW h \in Handlers, ActivateReturns(h)
      PROVE  Goal
  <2>1. permit[h] \in issued /\ permit[h] \in Permits /\ issued' = issued
    BY <1>0, <1>6, ThemeTypes DEF ActivateReturns, InMemory, claimVars
  <2>2. HandlerTypes'
    <3>1. ActivationResult(permit[h]) \in Codes
      BY <2>1, ActivationCode
    <3> QED BY <1>0, <1>6, <3>1 DEF ActivateReturns, Goto, HandlerTypes
  <2>3. InMemory(h)'
    BY <1>0, <1>6, <2>1 DEF ActivateReturns, Goto, HandlerTypes, InMemory
  <2>4. \A g \in Handlers \ {h} : /\ pc'[g] = pc[g] /\ permit'[g] = permit[g]
                                  /\ request'[g] = request[g]
    BY <1>0, <1>6 DEF ActivateReturns, Goto, HandlerTypes
  <2> QED BY <2>2, <2>3, <2>4, OthersUntouched
<1>7. ASSUME NEW h \in Handlers, ActivateThrows(h) \/ Finish(h) \/ FinishFails(h) \/ Lost(h)
      PROVE  Goal
  <2>1. \E code \in Codes : Answer(h, code)
    BY <1>0, <1>7 DEF ActivateThrows, Finish, FinishFails, Lost, Codes, HandlerTypes
  <2> QED BY <2>1, AnswerStep
<1>8. Goal
  BY <1>1, <1>2, <1>3, <1>4, <1>5, <1>6, <1>7 DEF Next
<1> QED BY <1>8 DEF RequestsInMemory, InMemory

\* The reservation is only left behind by a fault.
LEMMA HeldStep ==
    ASSUME ThemeAssumption, ThemeInv, [Next]_vars
    PROVE  HeldOnlyByFault' /\ faults' \in Nat
<1>0. faults \in Nat /\ HeldOnlyByFault
  BY DEF ThemeInv
<1>1. CASE Authority \/ (\E a \in Agents : ChangeAgent(a)) \/ UNCHANGED vars
  <2>1. UNCHANGED <<reservation, permit, faults>>
    BY <1>1, Aside
  <2> QED BY <1>0, <2>1 DEF HeldOnlyByFault, HasReservation
<1>2. ASSUME faults' = faults, UNCHANGED reservation,
             \A g \in Handlers : permit[g] # NoPermit /\ permit[g] = reservation[MerchantScope]
                => permit'[g] = permit[g]
      PROVE  HeldOnlyByFault' /\ faults' \in Nat
  BY <1>0, <1>2 DEF HeldOnlyByFault, HasReservation
<1>3. ASSUME NEW h \in Handlers, NEW code, Answer(h, code), permit[h] = NoPermit
      PROVE  \A g \in Handlers : permit'[g] = permit[g]
  BY <1>3, AnswerFrees
<1>4. ASSUME NEW h \in Handlers, NEW c \in Claims, NEW op \in Operations, Start(h, c, op)
      PROVE  HeldOnlyByFault' /\ faults' \in Nat
  BY <1>2, <1>4 DEF Start, claimVars
<1>5. ASSUME NEW h \in Handlers, Prepare(h)
      PROVE  HeldOnlyByFault' /\ faults' \in Nat
  <2>1. permit[h] = NoPermit /\ faults' = faults /\ UNCHANGED reservation
    BY <1>5 DEF Prepare, ThemeInv, RequestsInMemory, claimVars
  <2>2. UNCHANGED permit \/ \E code : Answer(h, code)
    BY <1>5 DEF Prepare
  <2> QED BY <1>2, <1>3, <2>1, <2>2
<1>6. ASSUME NEW h \in Handlers, Reserve(h)
      PROVE  HeldOnlyByFault' /\ faults' \in Nat
  <2>1. permit[h] = NoPermit /\ faults' = faults
    BY <1>6 DEF Reserve, ThemeInv, RequestsInMemory
  <2>2. CASE pc'[h] = "activate"
    <3>1. /\ permit' = [permit EXCEPT ![h] = permit'[h]]
          /\ \/ UNCHANGED claimVars
             \/ permit'[h] = reservation'[MerchantScope]
      BY <1>6, <2>2, ReserveObtains
    <3>2. CASE UNCHANGED claimVars
      BY <1>2, <2>1, <3>1, <3>2, ThemeTypes DEF claimVars
    <3>3. CASE permit'[h] = reservation'[MerchantScope]
      BY <1>0, <2>1, <3>3 DEF HeldOnlyByFault
    <3> QED BY <3>1, <3>2, <3>3
  <2>3. CASE pc'[h] # "activate"
    <3>1. Answer(h, "refused") /\ UNCHANGED claimVars
      BY <1>6, <2>3, ThemeTypes DEF Reserve, Goto
    <3> QED BY <1>2, <1>3, <2>1, <3>1 DEF claimVars
  <2> QED BY <2>2, <2>3
<1>7. ASSUME NEW h \in Handlers, ActivateReturns(h)
      PROVE  HeldOnlyByFault' /\ faults' \in Nat
  BY <1>2, <1>7 DEF ActivateReturns, claimVars
<1>8. ASSUME NEW h \in Handlers, ActivateThrows(h) \/ FinishFails(h) \/ Lost(h)
      PROVE  HeldOnlyByFault' /\ faults' \in Nat
  <2>1. faults' = faults + 1
    BY <1>8 DEF ActivateThrows, FinishFails, Lost
  <2> QED BY <1>0, <2>1 DEF HeldOnlyByFault
<1>9. ASSUME NEW h \in Handlers, Finish(h)
      PROVE  HeldOnlyByFault' /\ faults' \in Nat
  <2>1. permit[h] \in issued /\ faults' = faults
    BY <1>9 DEF Finish, ThemeInv, RequestsInMemory
  <2>2. CASE CompleteMutation(permit[h])
    BY <1>0, <2>1, <2>2, CompleteFrees DEF HeldOnlyByFault, HasReservation
  <2>3. CASE reservation[MerchantScope] # permit[h] /\ UNCHANGED claimVars
    <3>1. \E code : Answer(h, code)
      BY <1>9 DEF Finish
    <3>2. \A g \in Handlers : permit[g] = reservation[MerchantScope] => permit'[g] = permit[g]
      BY <2>3, <3>1, AnswerFrees
    <3> QED BY <1>2, <2>1, <2>3, <3>2 DEF claimVars
  <2> QED BY <1>9, <2>2, <2>3 DEF Finish
<1> QED BY <1>1, <1>4, <1>5, <1>6, <1>7, <1>8, <1>9 DEF Next

\* What was written stays in the history.
LEMMA WrittenStays ==
    ASSUME ThemeAssumption, ThemeInv, [Next]_vars, NEW p, Written(p)
    PROVE  Written(p)'
<1>1. history \in Seq([permit : Permits, from : Digests \cup {NoTheme}])
  BY DEF ThemeInv, HistoryOfTheme
<1>2. CASE history' = history
  BY <1>2 DEF Written
<1>3. ASSUME NEW q \in Permits, history' = Append(history, [permit |-> q, from |-> theme])
      PROVE  Written(p)'
  <2>1. /\ Len(history) \in Nat /\ Len(history') = Len(history) + 1
        /\ \A i \in 1 .. Len(history) : history'[i] = history[i]
    BY <1>1, <1>3
  <2> QED BY <2>1 DEF Written
<1>4. ASSUME NEW h \in Handlers, permit[h] \in issued, Transaction(permit[h])
      PROVE  Written(p)'
  BY <1>2, <1>3, <1>4, ThemeTypes DEF Transaction
<1> QED BY <1>2, <1>4, ObjectMoves

\* A request that finishes with success wrote its theme or found it written.
LEMMA SuccessStep ==
    ASSUME ThemeAssumption, ThemeInv, [Next]_vars
    PROVE  SuccessWasWritten'
<1> SUFFICES ASSUME NEW g \in Handlers, result'[g] = "ok", pc'[g] = "finish"
             PROVE  \E i \in 1 .. Len(history') :
                       Digest(history'[i].permit.operation) = Digest(permit'[g].operation)
  BY DEF SuccessWasWritten
<1>1. /\ permit'[g] = permit[g]
      /\ (pc[g] = "finish" /\ result'[g] = result[g]) \/ ActivateReturns(g)
  BY FinishingRequests
<1>2. PICK q \in Permits : permit[g] = q
  BY <1>1, ThemeTypes DEF ThemeInv, RequestsInMemory, ActivateReturns
<1>3. Written(q)'
  <2>1. CASE pc[g] = "finish" /\ result'[g] = result[g]
    <3>1. Written(q)
      BY <1>2, <2>1 DEF ThemeInv, SuccessWasWritten, Written
    <3> QED BY <3>1, WrittenStays
  <2>2. CASE ActivateReturns(g)
    <3>1. result'[g] = ActivationResult(q)
      BY <1>2, <2>2, ThemeTypes DEF ActivateReturns
    <3>2. PICK a \in answered' : a.permit = q /\ a.code = "ok"
      BY <3>1, ActivationCode
    <3>3. (\A b \in answered : b.code = "ok" => Written(b.permit))'
      BY ObjectStep DEF ObjectKeeps, HistoryOfTheme
    <3> QED BY <3>2, <3>3 DEF Written
  <2> QED BY <1>1, <2>1, <2>2
<1> QED BY <1>1, <1>2, <1>3 DEF Written

\* ThemeInv is inductive.
LEMMA ThemeNextInv ==
    ASSUME ThemeAssumption, ThemeInv, [Next]_vars
    PROVE  ThemeInv'
<1>1. AuthoringInv'
  BY ThemeAuthoringStep, AuthoringNextInv DEF ThemeInv
<1>2. registered' \subseteq Agents
  <2>1. registered \subseteq Agents
    BY DEF ThemeInv, TypeOK
  <2>2. UNCHANGED registered \/ \E a \in Agents : ChangeAgent(a)
    BY DEF Next, Authority, Start, Prepare, Reserve, ActivateReturns, ActivateThrows, Finish,
           FinishFails, Lost, vars, themeVars
  <2> QED BY <2>1, <2>2 DEF ChangeAgent
<1>3. TypeOK'
  BY <1>1, <1>2, ObjectStep, RequestStep DEF TypeOK, AuthoringInv, ObjectKeeps, HandlerTypes
<1> QED BY <1>1, <1>3, ObjectStep, RequestStep, PermitStep, InertStep, HeldStep, SuccessStep
        DEF ThemeInv, ObjectKeeps

LEMMA ThemeInvariance == ASSUME ThemeAssumption PROVE Spec => []ThemeInv
<1>1. Init => ThemeInv
  BY InitThemeInv
<1>2. ThemeInv /\ [Next]_vars => ThemeInv'
  BY ThemeNextInv
<1> QED BY <1>1, <1>2, PTL DEF Spec

\* The deployment uses the coordinator and the fence as they allow: what is
\* proved of AuthoringSpec holds of it.
THEOREM ThemeUsesAuthoring == ASSUME ThemeAssumption PROVE Spec => AuthoringSpec
<1>1. Init => AuthoringInit
  BY DEF Init
<1>2. ThemeInv /\ [Next]_vars => [AuthoringNext]_authoringVars
  BY ThemeAuthoringStep
<1> QED BY <1>1, <1>2, ThemeInvariance, PTL DEF Spec, AuthoringSpec

\* Requests, permits, the journal and the theme stay in their types; the
\* outcomes answered are those the object has journalled.
THEOREM ThemeTypeCorrect == ASSUME ThemeAssumption PROVE Spec => []TypeOK
BY ThemeInvariance, PTL DEF ThemeInv

\* An activation replaces exactly the theme its operator reviewed, and the one
\* the activation before it wrote.
THEOREM ReviewedThemeReplaced == ASSUME ThemeAssumption PROVE Spec => []ReviewedIsReplaced
BY ThemeInvariance, PTL DEF ThemeInv

\* Without a fault the merchant's reservation always has a request working on it.
THEOREM ReservationHasItsRequest == ASSUME ThemeAssumption PROVE Spec => []HeldOnlyByFault
BY ThemeInvariance, PTL DEF ThemeInv

\* Only a valid manifest of this merchant is ever reserved.
THEOREM OnlyPreparedReserved == ASSUME ThemeAssumption PROVE Spec => []ReservedIsPrepared
BY ThemeInvariance, PTL DEF ThemeInv

\* Success is only answered for a theme that was written.
THEOREM SuccessIsOfTheWritten == ASSUME ThemeAssumption PROVE Spec => []SuccessWasWritten
BY ThemeInvariance, PTL DEF ThemeInv

\* A theme is only written by the permit in reservation: a completed permit
\* that is handed out again, or arrives late, changes nothing.
THEOREM ThemeWrittenWhileReserved == ASSUME ThemeAssumption PROVE Spec => WrittenWhileReserved
<1> DEFINE A == theme' # theme => \E h \in Handlers :
                  permit[h] = reservation[MerchantScope] /\ permit[h] \in outcome'["theme"]
<1>1. ASSUME ThemeInv, [Next]_vars PROVE A
  <2>1. ASSUME NEW h \in Handlers, permit[h] \in issued, Execute("theme", permit[h], {})
        PROVE  A
    <3>1. permit[h] \in outcome'["theme"]
      BY <1>1, <2>1, ThemeTypes, TheJournal DEF Execute
    <3>2. permit[h] = reservation[MerchantScope]
      BY <1>1, <2>1 DEF Execute, ThemeInv, InertUnlessReserved
    <3> QED BY <3>1, <3>2
  <2> QED BY <1>1, <2>1, ObjectMoves
<1>2. ThemeInv /\ [Next]_vars => [A]_vars
  BY <1>1
<1> QED BY <1>2, ThemeInvariance, PTL DEF Spec, WrittenWhileReserved
=============================================================================
