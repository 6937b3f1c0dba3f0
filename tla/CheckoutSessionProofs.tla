------------------------ MODULE CheckoutSessionProofs ------------------------
(***************************************************************************)
(* Proofs about CheckoutSession for every amount, every set of deployed    *)
(* rates and observable prices and any number of restarts and storage      *)
(* faults.                                                                 *)
(***************************************************************************)
EXTENDS CheckoutSession, TLAPS

USE DEF MAXIMUM_OBSERVATION_RETRIES, MARKUP_ATTEMPT_LIMIT

-----------------------------------------------------------------------------
(* The markup *)

\* What a share of rate basis points of amount is worth: a whole number of minor
\* units, not above the amount, and the nearest one, upwards at the half.
RoundedShare(amount, rate, share) ==
    /\ share \in Nat
    /\ share <= amount
    /\ 10000 * share <= amount * rate + 5000
    /\ amount * rate < 10000 * share + 5000

\* Every line in the ledger, or still on its way to it, charges the merchant the
\* nearest minor unit of the pinned share of the amount that was settled, and
\* the checkout is settled.
BookedIsRoundedShare ==
    \A line \in ledger \cup late :
        /\ state = "settled"
        /\ line.settlementId = SettlementId
        /\ line.appliedRateBasisPoints = appliedRate
        /\ appliedRate \in Rate
        /\ RoundedShare(Amount, appliedRate, line.markupMinor)

\* Dividing by the 10000 basis points of a whole rounds down to an integer.
LEMMA WholeUnits ==
    ASSUME NEW n \in Nat
    PROVE  /\ n \div 10000 \in Nat
           /\ 10000 * (n \div 10000) <= n
           /\ n < 10000 * (n \div 10000) + 10000
  OBVIOUS

\* At a rate readRateBasisPoints admits the product is at most a tenth.
LEMMA ProductBound ==
    ASSUME NEW amount \in Nat, NEW rate \in Rate
    PROVE  /\ amount * rate \in Nat
           /\ amount * rate <= 1000 * amount
  BY SMT DEF Rate, MAXIMUM_RATE_BASIS_POINTS

\* computeMarkupMinor at an admitted rate is the exact share rounded half up to
\* a minor unit.  Its bound by the amount (take-rate.ts) never cuts anything
\* off, because MAXIMUM_RATE_BASIS_POINTS is a tenth of the whole.
LEMMA MarkupRoundsHalfUp ==
    ASSUME NEW amount \in Nat, NEW rate \in Rate
    PROVE  RoundedShare(amount, rate, computeMarkupMinor(amount, rate))
  <1> DEFINE product == amount * rate
             rounded == (product + 5000) \div 10000
  <1>1. product \in Nat /\ product <= 1000 * amount
    BY ProductBound
  <1>2. /\ rounded \in Nat
        /\ 10000 * rounded <= product + 5000
        /\ product + 5000 < 10000 * rounded + 10000
    <2> HIDE DEF product
    <2> QED BY <1>1, WholeUnits
  <1>3. rounded <= amount
    <2> HIDE DEF product, rounded
    <2> QED BY <1>1, <1>2
  <1>4. computeMarkupMinor(amount, rate) = rounded
    <2>1. computeMarkupMinor(amount, rate)
              = IF rounded > amount THEN amount ELSE rounded
      BY DEF computeMarkupMinor
    <2> HIDE DEF rounded
    <2> QED BY <1>2, <1>3, <2>1
  <1> HIDE DEF product, rounded
  <1>5. /\ 10000 * rounded <= product + 5000
        /\ product < 10000 * rounded + 5000
    BY <1>1, <1>2
  <1> QED
    BY <1>1, <1>2, <1>3, <1>4, <1>5 DEF RoundedShare, product

\* A larger settled amount, a higher rate or both never give a smaller markup:
\* the rounding of computeMarkupMinor does not turn the order round.
THEOREM MarkupMonotone ==
    ASSUME NEW a \in Nat, NEW b \in Nat, a <= b,
           NEW r \in Rate, NEW s \in Rate, r <= s
    PROVE  computeMarkupMinor(a, r) <= computeMarkupMinor(b, s)
  <1> DEFINE m == computeMarkupMinor(a, r)
             n == computeMarkupMinor(b, s)
             p == a * r
             q == b * s
  <1>1. m \in Nat /\ 10000 * m <= p + 5000
    BY MarkupRoundsHalfUp DEF RoundedShare
  <1>2. n \in Nat /\ q < 10000 * n + 5000
    BY MarkupRoundsHalfUp DEF RoundedShare
  <1>3. p \in Nat /\ q \in Nat /\ p <= q
    <2>1. p \in Nat /\ q \in Nat
      BY ProductBound
    <2>2. r \in Nat /\ s \in Nat
      BY DEF Rate, MAXIMUM_RATE_BASIS_POINTS
    <2>3. a * r <= b * r /\ b * r <= b * s
      BY <2>2
    <2> QED
      BY <2>1, <2>2, <2>3
  <1> HIDE DEF m, n, p, q
  <1>4. m <= n
    BY <1>1, <1>2, <1>3
  <1> QED
    BY <1>4 DEF m, n

-----------------------------------------------------------------------------
(* The ledger *)

\* A line is filed under the settlement of its checkout (createSettlementMarkupOutbox).
LEMMA LineSettlement ==
    \A rate : RevenueLine(SettlementId, Amount, rate).settlementId = SettlementId
  BY DEF RevenueLine

\* Appending one of a checkout's lines to a ledger that holds at most that
\* line leaves exactly that line and is accepted (RevenueLedger.appendLine).
LEMMA AppendIdempotent ==
    ASSUME NEW lines, NEW rate, lines \subseteq {RevenueLine(SettlementId, Amount, rate)}
    PROVE  /\ appendLine(lines, RevenueLine(SettlementId, Amount, rate))
                  = {RevenueLine(SettlementId, Amount, rate)}
           /\ appendAccepted(lines, RevenueLine(SettlementId, Amount, rate))
  BY LineSettlement DEF appendLine, appendAccepted, HasSettlement

\* Appending adds the given line or nothing.
LEMMA AppendAdds ==
    ASSUME NEW lines, NEW line
    PROVE  /\ lines \subseteq appendLine(lines, line)
           /\ appendLine(lines, line) \subseteq lines \cup {line}
  BY DEF appendLine

\* The lines of the model are revenue lines of this checkout.
LEMMA LinesType ==
    \A rate \in Rate \cup {NoRate} : RevenueLine(SettlementId, Amount, rate) \in Lines
  BY DEF Lines

\* readRateBasisPoints yields a rate or NoRate, whatever is configured.
LEMMA ReadRateType ==
    \A value : /\ readRateBasisPoints(value) \in Rate \cup {NoRate}
               /\ readRateBasisPoints(value) # NoRate => readRateBasisPoints(value) \in Rate
  BY DEF readRateBasisPoints

-----------------------------------------------------------------------------
(* Type correctness *)

\* The initial state is well typed.
LEMMA TypeInit == Init => TypeOK
  <1>1. Init => FlagType
    BY Zenon DEF Init, FlagType
  <1>2. Init => DataType
    BY LinesType, BoundsAssumption DEF Init, DataType, States, NoLine
  <1> QED
    BY <1>1, <1>2 DEF TypeOK

\* Flags stay Boolean.
LEMMA FlagNext == FlagType /\ [Next]_vars => FlagType'
  <1> SUFFICES ASSUME FlagType, [Next]_vars PROVE FlagType'
      OBVIOUS
  <1> USE DEF FlagType, row, watch, log, alarms, gate, shopper, provider,
              booking, bounds
  <1>1. CASE Prepare
    BY <1>1, Zenon DEF Prepare
  <1>2. CASE PrepareFailure
    BY <1>2, Zenon DEF PrepareFailure
  <1>3. ASSUME NEW ok \in BOOLEAN, PrepareReceipt(ok)
       PROVE  FlagType'
    BY <1>3, Zenon DEF PrepareReceipt, Stored
  <1>4. ASSUME NEW b \in shown, NEW ok \in BOOLEAN, ConfirmExpired(b, ok)
       PROVE  FlagType'
    BY <1>4, Zenon DEF ConfirmExpired, Stored
  <1>5. ASSUME NEW b \in shown, ConfirmBlocked(b)
       PROVE  FlagType'
    BY <1>5, Zenon DEF ConfirmBlocked, Unacknowledged
  <1>6. ASSUME NEW b \in shown, ConfirmArm(b)
       PROVE  FlagType'
    BY <1>6, Zenon DEF ConfirmArm, Unacknowledged
  <1>7. CASE ConfirmCommit
    BY <1>7, Zenon DEF ConfirmCommit, Goto
  <1>8. CASE SubmitSettlement
    BY <1>8, Zenon DEF SubmitSettlement, Goto
  <1>9. ASSUME NEW b \in shown, ConfirmResume(b)
       PROVE  FlagType'
    BY <1>9, Zenon DEF ConfirmResume, Enter
  <1>10. ASSUME NEW b \in shown, ConfirmSettled(b)
       PROVE  FlagType'
    BY <1>10, Zenon DEF ConfirmSettled, Enter
  <1>11. CASE Reconcile
    BY <1>11, Zenon DEF Reconcile, Goto
  <1>12. CASE ConsumeSettlement
    BY <1>12, Zenon DEF ConsumeSettlement, Goto
  <1>13. ASSUME NEW ok \in BOOLEAN, RequireReconciliation(ok)
       PROVE  FlagType'
    BY <1>13, Zenon DEF RequireReconciliation, Stored, AlarmReturns, Release,
                        Enter
  <1>14. ASSUME NEW ok \in BOOLEAN, FinalizeArm(ok)
       PROVE  FlagType'
    BY <1>14, Zenon DEF FinalizeArm, Goto, Stored
  <1>15. CASE MarkupAppend
    BY <1>15, Zenon DEF MarkupAppend, AfterAttempt
  <1>16. ASSUME NEW delayed \in BOOLEAN, MarkupAppendFails(delayed)
       PROVE  FlagType'
    BY <1>16, Zenon DEF MarkupAppendFails, AfterAttempt
  <1>17. ASSUME NEW ok \in BOOLEAN, FinalizeRecorded(ok)
       PROVE  FlagType'
    BY <1>17, Zenon DEF FinalizeRecorded, Stored, AlarmReturns, Release, Enter
  <1>18. ASSUME NEW ok \in BOOLEAN, FinalizeDeferred(ok)
       PROVE  FlagType'
    BY <1>18, Zenon DEF FinalizeDeferred, Stored, AlarmReturns, Release, Enter
  <1>19. CASE FinalizeUnpersisted
    BY <1>19, Zenon DEF FinalizeUnpersisted, Stored, AlarmReturns, Release,
                        Enter
  <1>20. CASE AlarmFires
    BY <1>20, Zenon DEF AlarmFires
  <1>21. CASE AlarmFinalize
    BY <1>21, Zenon DEF AlarmFinalize, Enter
  <1>22. ASSUME NEW ok \in BOOLEAN, AlarmStops(ok)
       PROVE  FlagType'
    BY <1>22, Zenon DEF AlarmStops, Stored
  <1>23. ASSUME NEW price \in OtherPrices \cup {HeldPrice}, NEW available \in BOOLEAN, NEW ok \in BOOLEAN,
              ObserveOffer(price, available, ok)
       PROVE  FlagType'
    BY <1>23, Zenon DEF ObserveOffer, Observing, AfterObservation, Stored,
                        Enter
  <1>24. ASSUME NEW ok \in BOOLEAN, ObserveInactiveAgent(ok)
       PROVE  FlagType'
    BY <1>24, Zenon DEF ObserveInactiveAgent, Observing, AfterObservation,
                        Stored, Enter
  <1>25. ASSUME NEW ok \in BOOLEAN, ObserveFails(ok)
       PROVE  FlagType'
    BY <1>25, Zenon DEF ObserveFails, Observing, AfterObservation, Stored,
                        Enter
  <1>26. CASE Expire
    BY <1>26, Zenon DEF Expire
  <1>27. ASSUME NEW rate \in ConfigRates, Restart(rate)
       PROVE  FlagType'
    BY <1>27, Zenon DEF Restart, Release, Enter
  <1>28. CASE ProviderCharges
    BY <1>28, Zenon DEF ProviderCharges
  <1>29. CASE ProviderDrops
    BY <1>29, Zenon DEF ProviderDrops
  <1>30. ASSUME NEW line \in late, LateAppend(line)
       PROVE  FlagType'
    BY <1>30, Zenon DEF LateAppend
  <1>31. CASE UNCHANGED vars
    BY <1>31, Zenon DEF vars
  <1> QED
    BY <1>1, <1>2, <1>3, <1>4, <1>5, <1>6, <1>7, <1>8, <1>9, <1>10, <1>11,
       <1>12, <1>13, <1>14, <1>15, <1>16, <1>17, <1>18, <1>19, <1>20, <1>21,
       <1>22, <1>23, <1>24, <1>25, <1>26, <1>27, <1>28, <1>29, <1>30, <1>31 DEF Next

\* Everything else stays in its type.
LEMMA DataNext == TypeOK /\ [Next]_vars => DataType'
  <1> SUFFICES ASSUME TypeOK, [Next]_vars PROVE DataType'
      OBVIOUS
  <1> USE BoundsAssumption DEF TypeOK, FlagType, DataType, row, watch, log, alarms,
                               gate, shopper, provider, booking, bounds
  <1>1. CASE Prepare
    BY <1>1 DEF Prepare, States
  <1>2. CASE PrepareFailure
    BY <1>2 DEF PrepareFailure, States
  <1>3. ASSUME NEW ok \in BOOLEAN, PrepareReceipt(ok)
       PROVE  DataType'
    BY <1>3 DEF PrepareReceipt, Stored, States, Observable
  <1>4. ASSUME NEW b \in shown, NEW ok \in BOOLEAN, ConfirmExpired(b, ok)
       PROVE  DataType'
    BY <1>4 DEF ConfirmExpired, Stored, States
  <1>5. ASSUME NEW b \in shown, ConfirmBlocked(b)
       PROVE  DataType'
    BY <1>5 DEF ConfirmBlocked, Unacknowledged
  <1>6. ASSUME NEW b \in shown, ConfirmArm(b)
       PROVE  DataType'
    BY <1>6, ReadRateType DEF ConfirmArm, Unacknowledged, Confirming
  <1>7. CASE ConfirmCommit
    BY <1>7 DEF ConfirmCommit, Goto, States, Observable, Unresolved
  <1>8. CASE SubmitSettlement
    BY <1>8 DEF SubmitSettlement, Goto
  <1>9. ASSUME NEW b \in shown, ConfirmResume(b)
       PROVE  DataType'
    BY <1>9 DEF ConfirmResume, Enter
  <1>10. ASSUME NEW b \in shown, ConfirmSettled(b)
       PROVE  DataType'
    BY <1>10 DEF ConfirmSettled, Enter
  <1>11. CASE Reconcile
    BY <1>11 DEF Reconcile, Goto, States, Observable, Unresolved
  <1>12. CASE ConsumeSettlement
    BY <1>12, LinesType DEF ConsumeSettlement, Goto, States
  <1>13. ASSUME NEW ok \in BOOLEAN, RequireReconciliation(ok)
       PROVE  DataType'
    BY <1>13 DEF RequireReconciliation, Stored, AlarmReturns, Release, Enter,
                 States, Observable, Unresolved
  <1>14. ASSUME NEW ok \in BOOLEAN, FinalizeArm(ok)
       PROVE  DataType'
    BY <1>14 DEF FinalizeArm, Goto, Stored
  <1>15. CASE MarkupAppend
    BY <1>15, AppendAdds DEF MarkupAppend, AfterAttempt
  <1>16. ASSUME NEW delayed \in BOOLEAN, MarkupAppendFails(delayed)
       PROVE  DataType'
    BY <1>16 DEF MarkupAppendFails, AfterAttempt
  <1>17. ASSUME NEW ok \in BOOLEAN, FinalizeRecorded(ok)
       PROVE  DataType'
    BY <1>17 DEF FinalizeRecorded, Stored, AlarmReturns, Release, Enter
  <1>18. ASSUME NEW ok \in BOOLEAN, FinalizeDeferred(ok)
       PROVE  DataType'
    BY <1>18 DEF FinalizeDeferred, Stored, AlarmReturns, Release, Enter
  <1>19. CASE FinalizeUnpersisted
    BY <1>19 DEF FinalizeUnpersisted, Stored, AlarmReturns, Release, Enter
  <1>20. CASE AlarmFires
    BY <1>20 DEF AlarmFires
  <1>21. CASE AlarmFinalize
    BY <1>21 DEF AlarmFinalize, Enter
  <1>22. ASSUME NEW ok \in BOOLEAN, AlarmStops(ok)
       PROVE  DataType'
    BY <1>22 DEF AlarmStops, Stored
  <1>23. ASSUME NEW price \in OtherPrices \cup {HeldPrice}, NEW available \in BOOLEAN, NEW ok \in BOOLEAN,
              ObserveOffer(price, available, ok)
       PROVE  DataType'
    BY <1>23 DEF ObserveOffer, Observing, AfterObservation, Stored, Enter,
                 diffObservation, BlockingEvents, Changes
  <1>24. ASSUME NEW ok \in BOOLEAN, ObserveInactiveAgent(ok)
       PROVE  DataType'
    BY <1>24 DEF ObserveInactiveAgent, Observing, AfterObservation, Stored,
                 Enter, BlockingEvents
  <1>25. ASSUME NEW ok \in BOOLEAN, ObserveFails(ok)
       PROVE  DataType'
    BY <1>25 DEF ObserveFails, Observing, AfterObservation, Stored, Enter,
                 BlockingEvents
  <1>26. CASE Expire
    BY <1>26 DEF Expire
  <1>27. ASSUME NEW rate \in ConfigRates, Restart(rate)
       PROVE  DataType'
    BY <1>27 DEF Restart, Release, Enter
  <1>28. CASE ProviderCharges
    BY <1>28 DEF ProviderCharges
  <1>29. CASE ProviderDrops
    BY <1>29 DEF ProviderDrops
  <1>30. ASSUME NEW line \in late, LateAppend(line)
       PROVE  DataType'
    BY <1>30, AppendAdds DEF LateAppend
  <1>31. CASE UNCHANGED vars
    BY <1>31 DEF vars
  <1> QED
    BY <1>1, <1>2, <1>3, <1>4, <1>5, <1>6, <1>7, <1>8, <1>9, <1>10, <1>11,
       <1>12, <1>13, <1>14, <1>15, <1>16, <1>17, <1>18, <1>19, <1>20, <1>21,
       <1>22, <1>23, <1>24, <1>25, <1>26, <1>27, <1>28, <1>29, <1>30, <1>31 DEF Next

\* The checkout row, log, alarm and gate keep their types in every behaviour.
THEOREM TypeCorrect == Spec => []TypeOK
  <1>1. TypeOK /\ [Next]_vars => TypeOK'
    BY FlagNext, DataNext DEF TypeOK
  <1> QED
    BY TypeInit, <1>1, PTL DEF Spec
-----------------------------------------------------------------------------
(* The inductive invariant *)

\* The initial state satisfies the inductive invariant.
LEMMA InvInit == Init => IInv
  <1> SUFFICES ASSUME Init PROVE IInv
      OBVIOUS
  <1>1. TypeOK
    BY TypeInit
  <1> QED
    BY <1>1 DEF Init, IInv, GateMatchesRow, RowIsConsistent, SingleCharge,
                BookedAtPinnedRate, CompletedIsBooked, HeldOfferWatched, Unresolved

\* What TypeOK adds to the other parts, as one step needs it.
Core == GateMatchesRow /\ RowIsConsistent /\ SingleCharge /\ BookedAtPinnedRate
            /\ CompletedIsBooked /\ HeldOfferWatched

\* Every step keeps the gate and the row consistent.
LEMMA CoreNext == IInv /\ [Next]_vars => Core'
  <1> SUFFICES ASSUME IInv, [Next]_vars PROVE Core'
      OBVIOUS
  <1> USE DEF IInv, TypeOK, FlagType, DataType, Core, GateMatchesRow, RowIsConsistent,
              SingleCharge, BookedAtPinnedRate, CompletedIsBooked, HeldOfferWatched,
              PinnedLine, Unresolved, Unacknowledged, row, watch, log, alarms, gate, shopper,
              provider, booking, bounds
  <1>1. CASE Prepare
    BY <1>1 DEF Prepare
  <1>2. CASE PrepareFailure
    BY <1>2 DEF PrepareFailure
  <1>3. ASSUME NEW ok \in BOOLEAN, PrepareReceipt(ok)
       PROVE  Core'
    BY <1>3 DEF PrepareReceipt, Stored
  <1>4. ASSUME NEW b \in shown, NEW ok \in BOOLEAN, ConfirmExpired(b, ok)
       PROVE  Core'
    BY <1>4 DEF ConfirmExpired, Stored, Confirming
  <1>5. ASSUME NEW b \in shown, ConfirmBlocked(b)
       PROVE  Core'
    BY <1>5 DEF ConfirmBlocked, Unacknowledged, Confirming
  <1>6. ASSUME NEW b \in shown, ConfirmArm(b)
       PROVE  Core'
    BY <1>6, ReadRateType DEF ConfirmArm, Unacknowledged, Confirming
  <1>7. CASE ConfirmCommit
    <2>1. acknowledged = {} /\ seen = blocking
      BY <1>7 DEF ConfirmCommit
    <2>2. acknowledged' = blocking
      BY <1>7, <2>1 DEF ConfirmCommit
    <2> QED
      BY <1>7, <2>1, <2>2 DEF ConfirmCommit, Goto
  <1>8. CASE SubmitSettlement
    BY <1>8 DEF SubmitSettlement, Goto
  <1>9. ASSUME NEW b \in shown, ConfirmResume(b)
       PROVE  Core'
    BY <1>9 DEF ConfirmResume, Enter, Confirming
  <1>10. ASSUME NEW b \in shown, ConfirmSettled(b)
       PROVE  Core'
    BY <1>10 DEF ConfirmSettled, Enter, Confirming
  <1>11. CASE Reconcile
    BY <1>11 DEF Reconcile, Goto
  <1>12. CASE ConsumeSettlement
    BY <1>12 DEF ConsumeSettlement, Goto
  <1>13. ASSUME NEW ok \in BOOLEAN, RequireReconciliation(ok)
       PROVE  Core'
    BY <1>13 DEF RequireReconciliation, Stored, AlarmReturns, Release, Enter
  <1>14. ASSUME NEW ok \in BOOLEAN, FinalizeArm(ok)
       PROVE  Core'
    BY <1>14 DEF FinalizeArm, Goto, Stored
  <1>15. CASE MarkupAppend
    BY <1>15, AppendIdempotent DEF MarkupAppend, AfterAttempt
  <1>16. ASSUME NEW delayed \in BOOLEAN, MarkupAppendFails(delayed)
       PROVE  Core'
    BY <1>16 DEF MarkupAppendFails, AfterAttempt
  <1>17. ASSUME NEW ok \in BOOLEAN, FinalizeRecorded(ok)
       PROVE  Core'
    BY <1>17 DEF FinalizeRecorded, Stored, AlarmReturns, Release, Enter
  <1>18. ASSUME NEW ok \in BOOLEAN, FinalizeDeferred(ok)
       PROVE  Core'
    BY <1>18 DEF FinalizeDeferred, Stored, AlarmReturns, Release, Enter
  <1>19. CASE FinalizeUnpersisted
    BY <1>19 DEF FinalizeUnpersisted, Stored, AlarmReturns, Release, Enter
  <1>20. CASE AlarmFires
    BY <1>20 DEF AlarmFires
  <1>21. CASE AlarmFinalize
    BY <1>21 DEF AlarmFinalize, Enter, AlarmRuns
  <1>22. ASSUME NEW ok \in BOOLEAN, AlarmStops(ok)
       PROVE  Core'
    <2>1. state \in {"settled", "failed"}
      BY <1>22 DEF AlarmStops, AlarmRuns, Observable, States
    <2> QED
      BY <1>22, <2>1 DEF AlarmStops, Stored, AlarmRuns
  <1>23. ASSUME NEW price \in OtherPrices \cup {HeldPrice}, NEW available \in BOOLEAN, NEW ok \in BOOLEAN,
              ObserveOffer(price, available, ok)
       PROVE  Core'
    BY <1>23 DEF ObserveOffer, Observing, AfterObservation, Stored, Enter,
                 AlarmRuns, Observable
  <1>24. ASSUME NEW ok \in BOOLEAN, ObserveInactiveAgent(ok)
       PROVE  Core'
    BY <1>24 DEF ObserveInactiveAgent, Observing, AfterObservation, Stored,
                 Enter, AlarmRuns, Observable
  <1>25. ASSUME NEW ok \in BOOLEAN, ObserveFails(ok)
       PROVE  Core'
    BY <1>25 DEF ObserveFails, Observing, AfterObservation, Stored, Enter,
                 AlarmRuns, Observable
  <1>26. CASE Expire
    BY <1>26 DEF Expire
  <1>27. ASSUME NEW rate \in ConfigRates, Restart(rate)
       PROVE  Core'
    BY <1>27 DEF Restart, Release, Enter
  <1>28. CASE ProviderCharges
    BY <1>28 DEF ProviderCharges
  <1>29. CASE ProviderDrops
    BY <1>29 DEF ProviderDrops
  <1>30. ASSUME NEW line \in late, LateAppend(line)
       PROVE  Core'
    BY <1>30, AppendIdempotent DEF LateAppend
  <1>31. CASE UNCHANGED vars
    BY <1>31 DEF vars
  <1> QED
    BY <1>1, <1>2, <1>3, <1>4, <1>5, <1>6, <1>7, <1>8, <1>9, <1>10, <1>11,
       <1>12, <1>13, <1>14, <1>15, <1>16, <1>17, <1>18, <1>19, <1>20, <1>21,
       <1>22, <1>23, <1>24, <1>25, <1>26, <1>27, <1>28, <1>29, <1>30, <1>31 DEF Next

\* IInv is inductive: the gate keeps what a handler established true until
\* its next step.
LEMMA InvNext == IInv /\ [Next]_vars => IInv'
  <1>1. IInv => TypeOK
    BY DEF IInv
  <1>2. TypeOK /\ [Next]_vars => TypeOK'
    BY FlagNext, DataNext DEF TypeOK
  <1> QED
    BY <1>1, <1>2, CoreNext DEF IInv, Core

\* The inductive invariant holds in every reachable state.
LEMMA Invariance == Spec => []IInv
  BY InvInit, InvNext, PTL DEF Spec

-----------------------------------------------------------------------------
(* The safety properties *)

\* However often confirm() is retried, the alarm fires or the object restarts,
\* the settlement is sent at most once and only from a confirmed checkout.
THEOREM AtMostOneCharge == Spec => []SingleCharge
  <1>1. IInv => SingleCharge
    BY DEF IInv
  <1> QED
    BY <1>1, Invariance, PTL

\* #consumeSettlement never records a settlement without a charge.
THEOREM SettledOnlyIfCharged == Spec => []SettledIsCharged
  <1>1. IInv => SettledIsCharged
    BY DEF IInv, TypeOK, DataType, SingleCharge, RowIsConsistent, SettledIsCharged
  <1> QED
    BY <1>1, Invariance, PTL

\* Retried and late appends, and a rate redeployed after the confirmation,
\* never book anything but the line of the pinned rate.
THEOREM BookedOnlyAtPinnedRate == Spec => []BookedAtPinnedRate
  <1>1. IInv => BookedAtPinnedRate
    BY DEF IInv
  <1> QED
    BY <1>1, Invariance, PTL

\* Whatever rate is redeployed and however often an append is retried, what the
\* ledger gets is the settled amount's share at the pinned rate, rounded half
\* up, never negative and never more than the amount.
THEOREM BookedMarkupIsRoundedShare == Spec => []BookedIsRoundedShare
  <1>1. IInv => BookedIsRoundedShare
    <2> SUFFICES ASSUME IInv, NEW line \in ledger \cup late
                 PROVE  /\ state = "settled"
                        /\ line.settlementId = SettlementId
                        /\ line.appliedRateBasisPoints = appliedRate
                        /\ appliedRate \in Rate
                        /\ RoundedShare(Amount, appliedRate, line.markupMinor)
      BY DEF BookedIsRoundedShare
    <2>1. /\ line = RevenueLine(SettlementId, Amount, appliedRate)
          /\ state = "settled" /\ appliedRate \in Rate
      BY DEF IInv, BookedAtPinnedRate, PinnedLine
    <2>2. /\ line.settlementId = SettlementId
          /\ line.appliedRateBasisPoints = appliedRate
          /\ line.markupMinor = computeMarkupMinor(Amount, appliedRate)
      BY <2>1 DEF RevenueLine
    <2>3. RoundedShare(Amount, appliedRate, computeMarkupMinor(Amount, appliedRate))
      BY <2>1, MarkupRoundsHalfUp, AmountAssumption
    <2> QED
      BY <2>1, <2>2, <2>3
  <1> QED
    BY <1>1, Invariance, PTL

\* #resumeSettledFinalization marks completed only what the ledger holds.
THEOREM CompletedOnlyIfBooked == Spec => []CompletedIsBooked
  <1>1. IInv => CompletedIsBooked
    BY DEF IInv
  <1> QED
    BY <1>1, Invariance, PTL

\* prepare() and alarm() keep a confirmable checkout under observation.
THEOREM HeldOfferStaysWatched == Spec => []HeldOfferWatched
  <1>1. IInv => HeldOfferWatched
    BY DEF IInv
  <1> QED
    BY <1>1, Invariance, PTL

\* Only submitSettlement sends the settlement request.
LEMMA OnlySubmitPosts == Next /\ posts' # posts => SubmitSettlement
  BY Zenon DEF Next, provider, Prepare, PrepareFailure, PrepareReceipt, ConfirmExpired,
         ConfirmBlocked, ConfirmArm, ConfirmCommit, ConfirmResume, ConfirmSettled,
         Reconcile, ConsumeSettlement, RequireReconciliation, FinalizeArm, MarkupAppend,
         MarkupAppendFails, FinalizeRecorded, FinalizeDeferred, FinalizeUnpersisted,
         AlarmFires, AlarmFinalize, AlarmStops, ObserveOffer, ObserveInactiveAgent,
         ObserveFails, Observing, Expire, Restart, ProviderCharges, ProviderDrops,
         LateAppend

\* The offer gate keeps the blockers #confirm checked current until the POST.
THEOREM ConsentBeforeEgress == Spec => ConsentAtEgress
  <1>1. IInv /\ [Next]_vars =>
            [posts' # posts => /\ blocking = acknowledged
                               /\ acknowledged \in shown
                               /\ AgentInactive \notin blocking]_vars
    BY OnlySubmitPosts DEF IInv, GateMatchesRow, SubmitSettlement, vars, provider
  <1> QED
    BY <1>1, Invariance, PTL DEF Spec, ConsentAtEgress

\* #terminalFailure and #recordObservationStopped are final: neither a late
\* alarm nor a replayed confirmation reopens what they closed.
THEOREM ClosedStaysClosed == Spec => StoppedIsClosed
  <1>1. ASSUME IInv, Next, stopped
        PROVE  /\ state \in {"settled", "failed"}
               /\ state' = state
               /\ blocking' = blocking
    <2> USE DEF IInv, GateMatchesRow, RowIsConsistent, row, watch, log, Observable, Unresolved
    <2>1. state \in {"settled", "failed"}
      BY <1>1
    <2>2. state' = state /\ blocking' = blocking
      BY <1>1, <2>1 DEF Next, Prepare, PrepareFailure, PrepareReceipt, ConfirmExpired,
         ConfirmBlocked, ConfirmArm, ConfirmCommit, SubmitSettlement, ConfirmResume, ConfirmSettled,
         Reconcile, ConsumeSettlement, RequireReconciliation, FinalizeArm, MarkupAppend,
         MarkupAppendFails, FinalizeRecorded, FinalizeDeferred, FinalizeUnpersisted,
         AlarmFires, AlarmFinalize, AlarmStops, ObserveOffer, ObserveInactiveAgent,
         ObserveFails, Observing, Expire, Restart, ProviderCharges, ProviderDrops,
         LateAppend
    <2> QED BY <2>1, <2>2
  <1>2. IInv /\ [Next]_vars => [stopped => /\ state \in {"settled", "failed"}
                  /\ state' = state
                  /\ blocking' = blocking]_vars
    BY <1>1
  <1> QED
    BY <1>2, Invariance, PTL DEF Spec, StoppedIsClosed
-----------------------------------------------------------------------------
(* Recovery *)

\* A step that leaves the storage without a fault keeps the alarm that resumes
\* an unresolved or unbooked settlement.
LEMMA RecoveryNext == IInv /\ RecoveryInv /\ [Next]_vars => RecoveryInv'
  <1> SUFFICES ASSUME IInv, RecoveryInv, [Next]_vars, faults' = 0
               PROVE  RecoveryInv'
      BY DEF RecoveryInv
  <1> USE DEF RecoveryInv, RecoveryScheduled, row, watch, log, alarms, gate, bounds,
              Unresolved
  <1>0. \A ok \in BOOLEAN : Stored(ok) => ok /\ faults = 0
    BY DEF Stored, IInv, TypeOK, DataType
  <1>1. faults = 0
    BY <1>0 DEF Next, vars, Prepare, PrepareFailure, PrepareReceipt, ConfirmExpired,
       ConfirmBlocked, ConfirmArm, ConfirmCommit, SubmitSettlement, ConfirmResume,
       ConfirmSettled, Reconcile, ConsumeSettlement, RequireReconciliation,
       FinalizeArm, MarkupAppend, MarkupAppendFails, FinalizeRecorded,
       FinalizeDeferred, FinalizeUnpersisted, AlarmFires, AlarmFinalize, AlarmStops,
       ObserveOffer, ObserveInactiveAgent, ObserveFails, Observing,
       AfterObservation, Expire, Restart, ProviderCharges, ProviderDrops,
       LateAppend
  <1>2. CASE PrepareFailure \/ \E ok \in BOOLEAN : PrepareReceipt(ok)
    BY <1>1, <1>2 DEF PrepareFailure, PrepareReceipt, IInv, GateMatchesRow
  <1>3. CASE Prepare \/ \E b \in shown, ok \in BOOLEAN : ConfirmExpired(b, ok)
    BY <1>1, <1>3 DEF Prepare, ConfirmExpired, IInv, GateMatchesRow, Confirming
  <1>4. CASE \E b \in shown : ConfirmArm(b) \/ ConfirmResume(b) \/ ConfirmSettled(b) \/ ConfirmBlocked(b)
    BY <1>1, <1>4 DEF ConfirmBlocked, ConfirmArm, ConfirmResume, ConfirmSettled, Enter
  <1>5. CASE ConfirmCommit \/ SubmitSettlement \/ Reconcile \/ ConsumeSettlement
    BY <1>1, <1>5 DEF ConfirmCommit, SubmitSettlement, Reconcile, ConsumeSettlement,
        Goto, IInv, GateMatchesRow, RowIsConsistent
  <1>6. CASE \E ok \in BOOLEAN : RequireReconciliation(ok)
    <2> PICK ok \in BOOLEAN : RequireReconciliation(ok)
      BY <1>6
    <2>1. ok
      BY <1>0 DEF RequireReconciliation
    <2>2. alarm \/ alarmDue
      BY <1>1 DEF RequireReconciliation
    <2>3. alarm' \/ alarmDue'
      <3>1. CASE owner = "alarm"
        <4>1. alarm' = (alarm \/ TRUE)
          BY <2>1, <3>1, Zenon DEF RequireReconciliation
        <4> QED BY <4>1
      <3>2. CASE owner # "alarm"
        <4>1. alarmDue' = alarmDue
          BY <3>2, Zenon DEF RequireReconciliation, AlarmReturns, IInv, TypeOK, FlagType
        <4>2. alarm' = alarm
          BY <3>2, Zenon DEF RequireReconciliation, AlarmReturns, IInv, TypeOK, FlagType
        <4> QED BY <4>1, <4>2, <2>2
      <3> QED BY <3>1, <3>2
    <2> QED
      BY <1>1, <2>3 DEF RequireReconciliation, Release, Enter
  <1>7. CASE \E ok \in BOOLEAN : FinalizeArm(ok)
    <2> PICK ok \in BOOLEAN : FinalizeArm(ok)
      BY <1>7
    <2>1. ok
      BY <1>0 DEF FinalizeArm
    <2>2. alarm'
      BY <2>1, Zenon DEF FinalizeArm
    <2> QED
      BY <1>1, <2>2 DEF FinalizeArm, Goto, IInv, GateMatchesRow
  <1>8. CASE MarkupAppend \/ \E delayed \in BOOLEAN : MarkupAppendFails(delayed)
    BY <1>1, <1>8 DEF MarkupAppend, MarkupAppendFails, AfterAttempt
  <1>9. CASE \E ok \in BOOLEAN : FinalizeRecorded(ok)
    BY <1>1, <1>9 DEF FinalizeRecorded, Release, Enter, IInv, GateMatchesRow
  <1>10. CASE \E ok \in BOOLEAN : FinalizeDeferred(ok)
    <2> PICK ok \in BOOLEAN : FinalizeDeferred(ok)
      BY <1>10
    <2>1. ok
      BY <1>0 DEF FinalizeDeferred
    <2> QED
      BY <1>1, <2>1 DEF FinalizeDeferred, Release, Enter
  <1>11. CASE FinalizeUnpersisted
    BY <1>0, <1>11 DEF FinalizeUnpersisted
  <1>12. CASE AlarmFires \/ AlarmFinalize
    BY <1>1, <1>12 DEF AlarmFires, AlarmFinalize, Enter
  <1>13. CASE \E ok \in BOOLEAN : AlarmStops(ok)
    BY <1>1, <1>13 DEF AlarmStops, AlarmRuns, Observable, IInv, TypeOK, DataType
  <1>14. CASE \E price \in OtherPrices \cup {HeldPrice}, available, ok \in BOOLEAN :
           ObserveOffer(price, available, ok)
    <2> PICK price \in OtherPrices \cup {HeldPrice}, available \in BOOLEAN, ok \in BOOLEAN :
           ObserveOffer(price, available, ok)
      BY <1>14
    <2> QED
      BY <1>1 DEF ObserveOffer, Observing, AfterObservation, Enter, Observable,
          AlarmRuns
  <1>15. CASE \E ok \in BOOLEAN : ObserveInactiveAgent(ok)
    BY <1>1, <1>15 DEF ObserveInactiveAgent, Observing, AfterObservation, Enter,
        Observable, AlarmRuns
  <1>16. CASE \E ok \in BOOLEAN : ObserveFails(ok)
    <2> PICK ok \in BOOLEAN : ObserveFails(ok)
      BY <1>16
    <2>1. ok
      BY <1>0 DEF ObserveFails, AfterObservation
    <2> QED
      BY <1>1, <2>1 DEF ObserveFails, Observing, AfterObservation, Enter, Observable,
          AlarmRuns
  <1>17. CASE Expire \/ ProviderCharges \/ ProviderDrops \/ \E line \in late : LateAppend(line)
    BY <1>1, <1>17 DEF Expire, ProviderCharges, ProviderDrops, LateAppend
  <1>18. CASE \E rate \in ConfigRates : Restart(rate)
    BY <1>1, <1>18 DEF Restart, Release, Enter
  <1>19. CASE UNCHANGED vars
    BY <1>19 DEF vars
  <1> QED
    BY <1>2, <1>3, <1>4, <1>5, <1>6, <1>7, <1>8, <1>9, <1>10, <1>11, <1>12, <1>13,
       <1>14, <1>15, <1>16, <1>17, <1>18, <1>19 DEF Next

\* As long as no storage write has failed, an alarm is stored or running for
\* every settlement that is unresolved or not booked: confirm() arms it before
\* it consumes the confirmation, and alarm() never leaves without a successor.
THEOREM RecoveryStaysScheduled == Spec => [](faults = 0 => RecoveryScheduled)
  <1>1. Init => RecoveryInv
    BY DEF Init, RecoveryInv, RecoveryScheduled, Unresolved
  <1>2. RecoveryInv => (faults = 0 => RecoveryScheduled)
    BY DEF RecoveryInv
  <1> QED
    BY <1>1, <1>2, RecoveryNext, Invariance, PTL DEF Spec

-----------------------------------------------------------------------------
(* The refinement of PaymentPromise: every step of the session is a step   *)
(* of the promise or leaves it unchanged.                                  *)

\* A checkout that does not exist yet has promised nothing.
LEMMA PromiseInit == Init => Promise!Init
  BY DEF Init, Promise!Init, Phase, Unresolved, NoRate, Promise!NoRate

\* PaymentPromise's rates and lines are those of the session.
LEMMA SameRates == Promise!Rate = Rate
  BY DEF Rate, Promise!Rate, MAXIMUM_RATE_BASIS_POINTS,
      Promise!MAXIMUM_RATE_BASIS_POINTS

\* Both specifications mean the same line.
LEMMA SameLine == \A rate : Promise!RevenueLine(SettlementId, Amount, rate)
                                = RevenueLine(SettlementId, Amount, rate)
  BY DEF RevenueLine, Promise!RevenueLine, computeMarkupMinor,
      Promise!computeMarkupMinor

\* ConfirmCommit is the consent, ProviderCharges the charge, ConsumeSettlement
\* the settlement and the first append that lands the booking; every other
\* step, a crash or a retry included, leaves the promise where it is.
LEMMA PromiseNext == IInv /\ IInv' /\ [Next]_vars => [Promise!Next]_(Promise!vars)
  <1> SUFFICES ASSUME IInv, IInv', [Next]_vars PROVE Promise!Next \/ UNCHANGED Promise!vars
      OBVIOUS
  <1> USE DEF row, provider, booking, Promise!vars, Unresolved
  <1>1. CASE ConfirmCommit
    <2>1. Promise!Consent
      BY <1>1, SameRates DEF ConfirmCommit, Promise!Consent, Phase, IInv, GateMatchesRow
    <2> QED
      BY <2>1 DEF Promise!Next
  <1>2. CASE ProviderCharges
    <2>1. Promise!Charge
      BY <1>2 DEF ProviderCharges, Promise!Charge, Phase, IInv, SingleCharge,
          RowIsConsistent, TypeOK, DataType
    <2> QED
      BY <2>1 DEF Promise!Next
  <1>3. CASE ConsumeSettlement
    <2>1. Promise!Settle
      BY <1>3 DEF ConsumeSettlement, Promise!Settle, Phase, IInv, SingleCharge,
          TypeOK, DataType
    <2> QED
      BY <2>1 DEF Promise!Next
  <1>4. CASE \/ MarkupAppend
             \/ \E line \in late : LateAppend(line)
    <2>1. /\ ledger' = {RevenueLine(SettlementId, Amount, appliedRate)}
          /\ ledger \subseteq {RevenueLine(SettlementId, Amount, appliedRate)}
          /\ state = "settled"
      BY <1>4, AppendIdempotent DEF MarkupAppend, LateAppend, IInv, RowIsConsistent,
         GateMatchesRow, BookedAtPinnedRate, PinnedLine
    <2>2. UNCHANGED <<Phase, appliedRate, charges>>
      BY <1>4 DEF MarkupAppend, LateAppend, Phase
    <2>3. CASE ledger = {}
      BY <2>1, <2>2, <2>3, SameLine DEF Promise!Book, Promise!Next, Phase
    <2>4. CASE ledger # {}
      BY <2>1, <2>2, <2>4
    <2> QED
      BY <2>3, <2>4
  <1>5. CASE \/ PrepareFailure
             \/ \E ok \in BOOLEAN : PrepareReceipt(ok)
             \/ \E b \in shown, ok \in BOOLEAN : ConfirmExpired(b, ok)
    <2>1. Phase = "open" /\ Phase' \in {"open", "abandoned"}
      BY <1>5 DEF PrepareFailure, PrepareReceipt, ConfirmExpired, Phase, IInv,
          GateMatchesRow
    <2>2. UNCHANGED <<appliedRate, charges, ledger>>
      BY <1>5 DEF PrepareFailure, PrepareReceipt, ConfirmExpired
    <2> QED
      BY <2>1, <2>2 DEF Promise!Abandon, Promise!Next
  <1>6. CASE \/ Prepare
             \/ Reconcile
             \/ \E ok \in BOOLEAN : RequireReconciliation(ok)
    BY <1>6 DEF Prepare, Reconcile, RequireReconciliation, Phase
  <1>7. CASE \/ \E b \in shown : ConfirmBlocked(b) \/ ConfirmArm(b) \/ ConfirmResume(b)
                                 \/ ConfirmSettled(b)
             \/ SubmitSettlement
             \/ ProviderDrops
             \/ Expire
             \/ \E rate \in ConfigRates : Restart(rate)
    BY <1>7 DEF ConfirmBlocked, ConfirmArm, ConfirmResume, ConfirmSettled,
        SubmitSettlement,
       ProviderDrops, Expire, Restart, Phase
  <1>8. CASE \/ \E ok \in BOOLEAN : FinalizeArm(ok) \/ FinalizeRecorded(ok) \/ FinalizeDeferred(ok)
             \/ \E delayed \in BOOLEAN : MarkupAppendFails(delayed)
             \/ FinalizeUnpersisted
    BY <1>8 DEF FinalizeArm, FinalizeRecorded, FinalizeDeferred, FinalizeUnpersisted,
       MarkupAppendFails, Phase
  <1>9. CASE \/ AlarmFires
             \/ AlarmFinalize
             \/ \E ok \in BOOLEAN : AlarmStops(ok) \/ ObserveInactiveAgent(ok) \/ ObserveFails(ok)
             \/ \E price \in OtherPrices \cup {HeldPrice}, available, ok \in BOOLEAN :
                   ObserveOffer(price, available, ok)
    BY <1>9 DEF AlarmFires, AlarmFinalize, AlarmStops, ObserveInactiveAgent,
        ObserveFails,
       ObserveOffer, Observing, Phase
  <1>10. CASE UNCHANGED vars
    BY <1>10 DEF vars, Phase
  <1> QED
    BY <1>1, <1>2, <1>3, <1>4, <1>5, <1>6, <1>7, <1>8, <1>9, <1>10 DEF Next

\* CheckoutSession implements PaymentPromise.
THEOREM Refinement == Spec => ImplementsPromise
  BY PromiseInit, PromiseNext, Invariance, PTL DEF Spec, ImplementsPromise,
      Promise!Safety
=============================================================================
