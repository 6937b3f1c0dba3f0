--------------------------- MODULE CheckoutSession ---------------------------
(***************************************************************************)
(* One CheckoutSession Durable Object (src/core/checkout-session.ts) with  *)
(* what it talks to: the checkout provider that charges, the RevenueLedger *)
(* that books the markup, the alarm the platform keeps for the object, and *)
(* the shopper who confirms.                                               *)
(*                                                                         *)
(* Durable state is the checkout_state row, the checkout_event log and the *)
(* alarm.  Everything else of the object (the running handler, its locals, *)
(* the offer gate) is memory and is gone after a restart.  A step of the   *)
(* model is what the object does between two awaits on something other     *)
(* than its own storage: the platform delivers no other event while a      *)
(* storage operation is outstanding, and commits writes that no await      *)
(* separates together.                                                     *)
(*                                                                         *)
(* Requests the code answers without changing anything (malformed input, a *)
(* wrong token, a digest that is not the recorded one, status) are         *)
(* stuttering steps and have no action.                                    *)
(***************************************************************************)
EXTENDS RevenueLedger

CONSTANTS
    Amount,             \* settled amount of the held offer, in minor units
    SettlementId,       \* the identifier the provider's receipt carries
    ConfigRates,        \* values AG_TAKE_RATE_BASIS_POINTS is deployed with
    OtherPrices,        \* prices an observation may see instead of the held one
    MaxRestarts,        \* bound: restarts of the object
    MaxStorageFaults    \* bound: failing alarm or transaction writes

HeldPrice == "priceMinor as recorded"
Unavailable == "available: false"
Suspended == "offer_observation_suspended"
AgentInactive == "offer_agent_inactive"

ASSUME AmountAssumption == Amount \in Nat \ {0}
ASSUME ConfigAssumption == ConfigRates \subseteq Int
ASSUME OtherPricesAssumption ==
    {HeldPrice, Unavailable, Suspended, AgentInactive} \cap OtherPrices = {}
ASSUME BoundsAssumption == MaxRestarts \in Nat /\ MaxStorageFaults \in Nat

MAXIMUM_OBSERVATION_RETRIES == 3
MARKUP_ATTEMPT_LIMIT == 3

\* Blocking events.  The log holds each of them at most once: offer_changed is
\* recorded once per observed value, the other two once per checkout.  So the
\* digest over the blocking events is abstracted to the set of them.
Changes == OtherPrices \cup {Unavailable}
BlockingEvents == Changes \cup {Suspended, AgentInactive}

VARIABLES
    \* the checkout_state row (state "absent" before its INSERT)
    state, appliedRate, outbox, markup, failures,
    \* the checkout_event rows that later steps depend on
    blocking, acknowledged, stopped,
    alarm,      \* an alarm is stored and has not fired
    alarmDue,   \* the alarm fired; alarm() waits for the gate or runs
    preparing,  \* prepare() is waiting for the guardrail provider
    \* the confirm() or alarm() that holds the offer gate, and its locals
    pc, owner, attempts, seen, readRate,
    expired,    \* Date.now() > confirmation_expires_at
    shown,      \* blocker sets whose digest the shopper has been given
    config,     \* AG_TAKE_RATE_BASIS_POINTS of the running deployment
    posts,      \* settlement POSTs sent to the provider
    wire,       \* of those, the ones the provider has not yet acted on
    charges,    \* charges the provider made
    ledger,     \* the RevenueLedger's lines
    late,       \* appends that timed out here and may still be applied
    restarts, faults

row == <<state, appliedRate, outbox, markup>>
watch == <<blocking, failures>>
log == <<watch, acknowledged, stopped>>
alarms == <<alarm, alarmDue>>
gate == <<pc, owner, attempts, seen, readRate>>
shopper == <<expired, shown>>
provider == <<posts, wire, charges>>
booking == <<ledger, late>>
bounds == <<restarts, faults>>

vars == <<row, log, alarms, preparing, gate, shopper, config, provider, booking,
          bounds>>

\* The outbox lines of this checkout; NoLine is SQL NULL.
Lines == {RevenueLine(SettlementId, Amount, rate) : rate \in Rate \cup {NoRate}}
NoLine == RevenueLine(SettlementId, Amount, NoRate)

Unresolved == {"confirming", "reconciliation_required"}
Observable == {"confirmation_required"} \cup Unresolved
States == {"absent", "preparing", "settled", "failed"} \cup Observable

Init ==
    /\ state = "absent"
    /\ appliedRate = NoRate
    /\ outbox = NoLine
    /\ markup = "pending"
    /\ failures = 0
    /\ blocking = {}
    /\ acknowledged = {}
    /\ stopped = FALSE
    /\ alarm = FALSE
    /\ alarmDue = FALSE
    /\ preparing = FALSE
    /\ pc = "free"
    /\ owner = "none"
    /\ attempts = 0
    /\ seen = {}
    /\ readRate = NoRate
    /\ expired = FALSE
    /\ shown = {}
    /\ config \in ConfigRates
    /\ posts = 0
    /\ wire = 0
    /\ charges = 0
    /\ ledger = {}
    /\ late = {}
    /\ restarts = 0
    /\ faults = 0

-----------------------------------------------------------------------------
\* A storage write that may fail: setAlarm, deleteAlarm or a transaction.
Stored(ok) ==
    /\ restarts' = restarts
    /\ IF ok THEN faults' = faults
       ELSE faults < MaxStorageFaults /\ faults' = faults + 1

Unacknowledged == blocking \ acknowledged

\* A handler takes the offer gate (#withOfferGate) at its step p, moves to
\* another step, or ends and lets the next one in.
Enter(p, handler) ==
    /\ pc' = p
    /\ owner' = handler
    /\ attempts' = 0
    /\ seen' = {}
    /\ readRate' = NoRate

Goto(p) == pc' = p /\ UNCHANGED <<owner, attempts, seen, readRate>>

Release == Enter("free", "none")

\* alarm() that returns normally is done; one that throws is run again.
AlarmReturns == alarmDue' = (alarmDue /\ owner # "alarm")

-----------------------------------------------------------------------------
(* prepare() *)

Prepare ==
    /\ state = "absent"
    /\ state' = "preparing"
    /\ preparing' = TRUE
    /\ UNCHANGED <<appliedRate, outbox, markup, log, alarms, gate, shopper,
                   config, provider, booking, bounds>>

\* The guardrail provider gave no valid receipt.
PrepareFailure ==
    /\ preparing
    /\ state' = "failed"
    /\ preparing' = FALSE
    /\ UNCHANGED <<appliedRate, outbox, markup, log, alarms, gate, shopper,
                   config, provider, booking, bounds>>

\* The receipt is stored and the observation alarm armed; when the alarm
\* cannot be stored the checkout fails.
PrepareReceipt(ok) ==
    /\ preparing
    /\ Stored(ok)
    /\ state' = IF ok THEN "confirmation_required" ELSE "failed"
    /\ alarm' = (alarm \/ ok)
    /\ shown' = IF ok THEN {{}} ELSE shown
    /\ preparing' = FALSE
    /\ UNCHANGED <<appliedRate, outbox, markup, log, alarmDue, gate, expired,
                   config, provider, booking>>

-----------------------------------------------------------------------------
(* confirm() with the token and facts of this checkout and a digest over   *)
(* the blocker set b                                                       *)

Confirming(b) == pc = "free" /\ b \in shown

\* #terminalFailure('confirmation_expired'), then deleteAlarm.
ConfirmExpired(b, ok) ==
    /\ Confirming(b)
    /\ state = "confirmation_required"
    /\ expired
    /\ Stored(ok)
    /\ state' = "failed"
    /\ stopped' = TRUE
    /\ alarm' = (alarm /\ ~ok)
    /\ UNCHANGED <<appliedRate, outbox, markup, watch, acknowledged, alarmDue,
                   preparing, gate, shopper, config, provider, booking>>

\* offer_agent_inactive or offer_reconfirmation_required: the answer carries
\* the current blockers and their digest.
ConfirmBlocked(b) ==
    /\ Confirming(b)
    /\ state = "confirmation_required"
    /\ ~expired
    /\ AgentInactive \in Unacknowledged \/ b # Unacknowledged
    /\ shown' = shown \cup {Unacknowledged}
    /\ UNCHANGED <<row, log, alarms, preparing, gate, expired, config, provider,
                   booking, bounds>>

\* Mutant: confirm() relies on the observation alarm for recovery.
ConfirmArm_NotArmed(b) ==
    /\ Confirming(b)
    /\ state = "confirmation_required"
    /\ ~expired
    /\ AgentInactive \notin Unacknowledged
    /\ b = Unacknowledged
    /\ readRateBasisPoints(config) # NoRate
    /\ pc' = "commit"
    /\ owner' = "confirm"
    /\ seen' = Unacknowledged
    /\ readRate' = readRateBasisPoints(config)
    /\ UNCHANGED <<row, log, alarms, preparing, attempts, shopper, config,
                   provider, booking, bounds>>

\* The blockers and the configured rate are read, and the recovery alarm is
\* armed before the confirmation is consumed.
ConfirmArm(b) ==
    /\ Confirming(b)
    /\ state = "confirmation_required"
    /\ ~expired
    /\ AgentInactive \notin Unacknowledged
    /\ b = Unacknowledged
    /\ readRateBasisPoints(config) # NoRate
    /\ alarm' = TRUE
    /\ pc' = "commit"
    /\ owner' = "confirm"
    /\ seen' = Unacknowledged
    /\ readRate' = readRateBasisPoints(config)
    /\ UNCHANGED <<row, log, alarmDue, preparing, attempts, shopper, config,
                   provider, booking, bounds>>

\* Mutant: the observation is recorded as stopped with the confirmation.
ConfirmCommit_StopsObservation ==
    /\ pc = "commit"
    /\ state = "confirmation_required"
    /\ state' = "confirming"
    /\ appliedRate' = readRate
    /\ acknowledged' = acknowledged \cup seen
    /\ stopped' = TRUE
    /\ Goto("submit")
    /\ UNCHANGED <<outbox, markup, watch, alarms, preparing, shopper, config,
                   provider, booking, bounds>>

\* One transaction: state, pinned rate and the acknowledgements.
ConfirmCommit ==
    /\ pc = "commit"
    /\ state = "confirmation_required"
    /\ state' = "confirming"
    /\ appliedRate' = readRate
    /\ acknowledged' = acknowledged \cup seen
    /\ Goto("submit")
    /\ UNCHANGED <<outbox, markup, watch, stopped, alarms, preparing, shopper,
                   config, provider, booking, bounds>>

\* submitSettlement: the POST leaves once the evidence gate has passed.
SubmitSettlement ==
    /\ pc = "submit"
    /\ posts' = posts + 1
    /\ wire' = wire + 1
    /\ Goto("posted")
    /\ UNCHANGED <<row, log, alarms, preparing, shopper, config, charges,
                   booking, bounds>>

\* Mutant: a repeated confirmation submits again instead of reconciling.
ConfirmResume_Resubmits(b) ==
    /\ Confirming(b)
    /\ state \in Unresolved
    /\ b = acknowledged
    /\ alarm' = TRUE
    /\ Enter("submit", "confirm")
    /\ UNCHANGED <<row, log, alarmDue, preparing, shopper, config, provider,
                   booking, bounds>>

\* The same confirmation again, before its settlement is known.
ConfirmResume(b) ==
    /\ Confirming(b)
    /\ state \in Unresolved
    /\ b = acknowledged
    /\ alarm' = TRUE
    /\ Enter("reconcile", "confirm")
    /\ UNCHANGED <<row, log, alarmDue, preparing, shopper, config, provider,
                   booking, bounds>>

\* The same confirmation again, after it settled.
ConfirmSettled(b) ==
    /\ Confirming(b)
    /\ state = "settled"
    /\ markup # "completed"
    /\ b = acknowledged
    /\ Enter("finalize", "confirm")
    /\ UNCHANGED <<row, log, alarms, preparing, shopper, config, provider,
                   booking, bounds>>

-----------------------------------------------------------------------------
(* #reconcile, #consumeSettlement and #requireReconciliation, for whichever *)
(* handler holds the gate                                                   *)

\* Mutant: every reconciliation pins the rate that is deployed now.
Reconcile_PinsAgain ==
    /\ pc = "reconcile"
    /\ state \in Unresolved
    /\ state' = "reconciliation_required"
    /\ appliedRate' = readRateBasisPoints(config)
    /\ Goto("reading")
    /\ UNCHANGED <<outbox, markup, log, alarms, preparing, shopper, config,
                   provider, booking, bounds>>

\* The GET of the provider's status never charges.
Reconcile ==
    /\ pc = "reconcile"
    /\ state \in Unresolved
    /\ state' = "reconciliation_required"
    /\ Goto("reading")
    /\ UNCHANGED <<appliedRate, outbox, markup, log, alarms, preparing, shopper,
                   config, provider, booking, bounds>>

\* Mutant: any answer of the provider settles.
ConsumeSettlement_NoReceipt ==
    /\ pc \in {"posted", "reading"}
    /\ state \in Unresolved
    /\ state' = "settled"
    /\ outbox' = RevenueLine(SettlementId, Amount, appliedRate)
    /\ markup' = "pending"
    /\ Goto("finalize")
    /\ UNCHANGED <<appliedRate, log, alarms, preparing, shopper, config,
                   provider, booking, bounds>>

\* Mutant: the line is derived from the rate deployed now.
ConsumeSettlement_DeployedRate ==
    /\ pc \in {"posted", "reading"}
    /\ charges > 0
    /\ state \in Unresolved
    /\ state' = "settled"
    /\ outbox' = RevenueLine(SettlementId, Amount, readRateBasisPoints(config))
    /\ markup' = "pending"
    /\ Goto("finalize")
    /\ UNCHANGED <<appliedRate, log, alarms, preparing, shopper, config,
                   provider, booking, bounds>>

\* Mutant: the receipt of a reconciliation is not consumed.
ConsumeSettlement_NotReconciled ==
    /\ pc = "posted"
    /\ charges > 0
    /\ state \in Unresolved
    /\ state' = "settled"
    /\ outbox' = RevenueLine(SettlementId, Amount, appliedRate)
    /\ markup' = "pending"
    /\ Goto("finalize")
    /\ UNCHANGED <<appliedRate, log, alarms, preparing, shopper, config,
                   provider, booking, bounds>>

\* A valid receipt in answer to the POST or the GET.  The outbox line is
\* derived from the pinned rate.
ConsumeSettlement ==
    /\ pc \in {"posted", "reading"}
    /\ charges > 0
    /\ state \in Unresolved
    /\ state' = "settled"
    /\ outbox' = RevenueLine(SettlementId, Amount, appliedRate)
    /\ markup' = "pending"
    /\ Goto("finalize")
    /\ UNCHANGED <<appliedRate, log, alarms, preparing, shopper, config,
                   provider, booking, bounds>>

\* Mutant: the provider is polled again while the gate is held.
RequireReconciliation_Polls(ok) ==
    /\ pc \in {"submit", "posted", "reading"}
    /\ state \in Unresolved
    /\ Stored(ok)
    /\ state' = "reconciliation_required"
    /\ Goto("reconcile")
    /\ UNCHANGED <<appliedRate, outbox, markup, log, alarms, preparing, shopper,
                   config, provider, booking>>

\* No usable answer: the evidence gate refused, the request timed out, the
\* status is not settled, or the receipt is invalid.  alarm() then arms the
\* recovery alarm when none is stored, and ignores a failure to do so.
RequireReconciliation(ok) ==
    /\ pc \in {"submit", "posted", "reading"}
    /\ state \in Unresolved
    /\ ok \/ (owner = "alarm" /\ ~alarm)
    /\ Stored(ok)
    /\ state' = "reconciliation_required"
    /\ alarm' = (alarm \/ (owner = "alarm" /\ ok))
    /\ AlarmReturns
    /\ Release
    /\ UNCHANGED <<appliedRate, outbox, markup, log, preparing, shopper, config,
                   provider, booking>>

-----------------------------------------------------------------------------
(* #resumeSettledFinalization *)

FinalizeArm(ok) ==
    /\ pc = "finalize"
    /\ Stored(ok)
    /\ alarm' = (alarm \/ ok)
    /\ stopped' = (stopped \/ ok)
    /\ Goto("append")
    /\ UNCHANGED <<row, watch, acknowledged, alarmDue, preparing, shopper,
                   config, provider, booking>>

\* Mutant: one attempt too many.
AfterAttempt_OneMore(accepted) ==
    /\ attempts' = attempts + 1
    /\ pc' = IF accepted THEN "recorded"
             ELSE IF attempts + 1 <= MARKUP_ATTEMPT_LIMIT THEN "append"
             ELSE "deferred"
    /\ UNCHANGED <<owner, seen, readRate>>

\* The loop of recordSettlementMarkup after one attempt.
AfterAttempt(accepted) ==
    /\ attempts' = attempts + 1
    /\ pc' = IF accepted THEN "recorded"
             ELSE IF attempts + 1 < MARKUP_ATTEMPT_LIMIT THEN "append"
             ELSE "deferred"
    /\ UNCHANGED <<owner, seen, readRate>>

\* One appendLine call that is answered in time.
MarkupAppend ==
    /\ pc = "append"
    /\ ledger' = appendLine(ledger, outbox)
    /\ AfterAttempt(appendAccepted(ledger, outbox))
    /\ UNCHANGED <<row, log, alarms, preparing, shopper, config, provider, late,
                   bounds>>

\* One appendLine call that fails, or times out and stays on its way.
MarkupAppendFails(delayed) ==
    /\ pc = "append"
    /\ late' = IF delayed THEN late \cup {outbox} ELSE late
    /\ AfterAttempt(FALSE)
    /\ UNCHANGED <<row, log, alarms, preparing, shopper, config, provider,
                   ledger, bounds>>

\* markup_recorded: finalization is completed and the alarm deleted; an alarm
\* that cannot be deleted finds nothing left to do.
FinalizeRecorded(ok) ==
    /\ pc = "recorded"
    /\ Stored(ok)
    /\ markup' = "completed"
    /\ alarm' = (alarm /\ ~ok)
    /\ AlarmReturns
    /\ Release
    /\ UNCHANGED <<state, appliedRate, outbox, log, preparing, shopper, config,
                   provider, booking>>

\* Mutant: a deferred markup is stored as completed.
FinalizeDeferred_Completes(ok) ==
    /\ pc = "deferred"
    /\ Stored(ok)
    /\ markup' = "completed"
    /\ alarm' = (alarm \/ ok)
    /\ AlarmReturns
    /\ Release
    /\ UNCHANGED <<state, appliedRate, outbox, log, preparing, shopper, config,
                   provider, booking>>

\* markup_deferred: the alarm is moved to the next retry; when that fails the
\* stored alarm, if there is one, stays.
FinalizeDeferred(ok) ==
    /\ pc = "deferred"
    /\ Stored(ok)
    /\ alarm' = (alarm \/ ok)
    /\ AlarmReturns
    /\ Release
    /\ UNCHANGED <<row, log, preparing, shopper, config, provider, booking>>

\* The transaction that stores the outcome fails: response-only-deferred.
FinalizeUnpersisted ==
    /\ pc \in {"recorded", "deferred"}
    /\ Stored(FALSE)
    /\ AlarmReturns
    /\ Release
    /\ UNCHANGED <<row, log, alarm, preparing, shopper, config, provider,
                   booking>>

-----------------------------------------------------------------------------
(* alarm() *)

\* The platform runs one alarm() at a time; a fired alarm is no longer stored.
AlarmFires ==
    /\ alarm
    /\ ~alarmDue
    /\ alarm' = FALSE
    /\ alarmDue' = TRUE
    /\ UNCHANGED <<row, log, preparing, gate, shopper, config, provider,
                   booking, bounds>>

\* Mutant: alarm() does not wait for the offer gate.
AlarmRuns_Ungated == alarmDue

AlarmRuns == pc = "free" /\ alarmDue

AlarmFinalize ==
    /\ AlarmRuns
    /\ state = "settled"
    /\ markup # "completed"
    /\ Enter("finalize", "alarm")
    /\ UNCHANGED <<row, log, alarms, preparing, shopper, config, provider,
                   booking, bounds>>

\* #stopObservation on a closed checkout; deleteAlarm may throw.
AlarmStops(ok) ==
    /\ AlarmRuns
    /\ state \notin Observable
    /\ ~(state = "settled" /\ markup # "completed")
    /\ Stored(ok)
    /\ stopped' = TRUE
    /\ alarm' = ~ok
    /\ alarmDue' = FALSE
    /\ UNCHANGED <<row, watch, acknowledged, preparing, gate, shopper, config,
                   provider, booking>>

\* diffObservation: what differs from the recorded price and availability.
diffObservation(price, available) ==
    ({price} \ {HeldPrice}) \cup (IF available THEN {} ELSE {Unavailable})

\* Mutant: an observation does not schedule the next one.
AfterObservation_Once(suspended, ok) ==
    /\ ok
    /\ Stored(ok)
    /\ UNCHANGED alarm
    /\ IF state \in Unresolved
       THEN Enter("reconcile", "alarm") /\ UNCHANGED alarmDue
       ELSE UNCHANGED gate /\ alarmDue' = FALSE

\* What follows #recordObservation.  A suspended observation leaves the alarm
\* alone; otherwise the next alarm is stored, and when that throws the
\* platform runs alarm() again.  An unresolved settlement is then reconciled.
AfterObservation(suspended, ok) ==
    /\ ok \/ ~suspended
    /\ Stored(ok)
    /\ alarm' = (alarm \/ ~suspended)
    /\ IF ok /\ state \in Unresolved
       THEN Enter("reconcile", "alarm") /\ UNCHANGED alarmDue
       ELSE UNCHANGED gate /\ alarmDue' = FALSE

Observing ==
    /\ AlarmRuns
    /\ state \in Observable
    /\ UNCHANGED <<row, acknowledged, stopped, preparing, shopper, config,
                   provider, booking>>

ObserveOffer(price, available, ok) ==
    /\ Observing
    /\ blocking' = blocking \cup diffObservation(price, available)
    /\ failures' = 0
    /\ AfterObservation(FALSE, ok)

ObserveInactiveAgent(ok) ==
    /\ Observing
    /\ blocking' = blocking \cup {AgentInactive}
    /\ UNCHANGED failures
    /\ AfterObservation(FALSE, ok)

ObserveFails(ok) ==
    LET attempt   == IF failures + 1 < MAXIMUM_OBSERVATION_RETRIES
                     THEN failures + 1
                     ELSE MAXIMUM_OBSERVATION_RETRIES
        suspended == attempt = MAXIMUM_OBSERVATION_RETRIES
    IN  /\ Observing
        /\ failures' = attempt
        /\ blocking' = blocking \cup (IF suspended THEN {Suspended} ELSE {})
        /\ AfterObservation(suspended, ok)

-----------------------------------------------------------------------------
(* The environment *)

\* The ten minutes of the confirmation challenge pass.
Expire ==
    /\ state = "confirmation_required"
    /\ ~expired
    /\ expired' = TRUE
    /\ UNCHANGED <<row, log, alarms, preparing, gate, shown, config, provider,
                   booking, bounds>>

\* The object is evicted, crashes or is redeployed, possibly with another
\* rate.  An alarm() that did not return is run again.
Restart(rate) ==
    /\ restarts < MaxRestarts
    /\ restarts' = restarts + 1
    /\ config' = rate
    /\ Release
    /\ preparing' = FALSE
    /\ alarm' = (alarm \/ alarmDue)
    /\ alarmDue' = FALSE
    /\ UNCHANGED <<row, log, shopper, provider, booking, faults>>

\* The provider acts on a POST it received, whether or not the session still
\* waits for the answer.  It is not assumed to recognise a repeated key.
ProviderCharges ==
    /\ wire > 0
    /\ wire' = wire - 1
    /\ charges' = charges + 1
    /\ UNCHANGED <<row, log, alarms, preparing, gate, shopper, config, posts,
                   booking, bounds>>

ProviderDrops ==
    /\ wire > 0
    /\ wire' = wire - 1
    /\ UNCHANGED <<row, log, alarms, preparing, gate, shopper, config, posts,
                   charges, booking, bounds>>

\* An append the session gave up on reaches the ledger after all.
LateAppend(line) ==
    /\ line \in late
    /\ ledger' = appendLine(ledger, line)
    /\ late' = late \ {line}
    /\ UNCHANGED <<row, log, alarms, preparing, gate, shopper, config, provider,
                   bounds>>

-----------------------------------------------------------------------------
Next ==
    \/ Prepare
    \/ PrepareFailure
    \/ \E ok \in BOOLEAN : PrepareReceipt(ok)
    \/ \E b \in shown, ok \in BOOLEAN : ConfirmExpired(b, ok)
    \/ \E b \in shown : ConfirmBlocked(b)
    \/ \E b \in shown : ConfirmArm(b)
    \/ ConfirmCommit
    \/ SubmitSettlement
    \/ \E b \in shown : ConfirmResume(b)
    \/ \E b \in shown : ConfirmSettled(b)
    \/ Reconcile
    \/ ConsumeSettlement
    \/ \E ok \in BOOLEAN : RequireReconciliation(ok)
    \/ \E ok \in BOOLEAN : FinalizeArm(ok)
    \/ MarkupAppend
    \/ \E delayed \in BOOLEAN : MarkupAppendFails(delayed)
    \/ \E ok \in BOOLEAN : FinalizeRecorded(ok)
    \/ \E ok \in BOOLEAN : FinalizeDeferred(ok)
    \/ FinalizeUnpersisted
    \/ AlarmFires
    \/ AlarmFinalize
    \/ \E ok \in BOOLEAN : AlarmStops(ok)
    \/ \E price \in OtherPrices \cup {HeldPrice}, available, ok \in BOOLEAN :
           ObserveOffer(price, available, ok)
    \/ \E ok \in BOOLEAN : ObserveInactiveAgent(ok)
    \/ \E ok \in BOOLEAN : ObserveFails(ok)
    \/ Expire
    \/ \E rate \in ConfigRates : Restart(rate)
    \/ ProviderCharges
    \/ ProviderDrops
    \/ \E line \in late : LateAppend(line)

Spec == Init /\ [][Next]_vars

(***************************************************************************)
(* Fairness.  A handler that holds the gate runs on, and a stored alarm    *)
(* fires: the platform guarantees both.  The gate is a first-in first-out  *)
(* chain of promises, so a fired alarm() gets it although confirmations    *)
(* keep arriving: strong fairness.  The provider and the ledger are        *)
(* assumed to answer when they are asked again and again.                  *)
(***************************************************************************)
HandlerRuns ==
    \/ ConfirmCommit
    \/ SubmitSettlement
    \/ Reconcile
    \/ ConsumeSettlement
    \/ \E ok \in BOOLEAN : RequireReconciliation(ok)
    \/ \E ok \in BOOLEAN : FinalizeArm(ok)
    \/ MarkupAppend
    \/ \E delayed \in BOOLEAN : MarkupAppendFails(delayed)
    \/ \E ok \in BOOLEAN : FinalizeRecorded(ok)
    \/ \E ok \in BOOLEAN : FinalizeDeferred(ok)
    \/ FinalizeUnpersisted

AlarmTakesGate ==
    \/ AlarmFinalize
    \/ \E ok \in BOOLEAN : AlarmStops(ok)
    \/ \E price \in OtherPrices \cup {HeldPrice}, available, ok \in BOOLEAN :
           ObserveOffer(price, available, ok)
    \/ \E ok \in BOOLEAN : ObserveInactiveAgent(ok)
    \/ \E ok \in BOOLEAN : ObserveFails(ok)

Fairness ==
    /\ WF_vars(HandlerRuns)
    /\ WF_vars(AlarmFires)
    /\ SF_vars(AlarmTakesGate)
    /\ SF_vars(ConsumeSettlement)
    /\ SF_vars(MarkupAppend)

FairSpec == Spec /\ Fairness

-----------------------------------------------------------------------------
(* Properties *)

PinnedLine == RevenueLine(SettlementId, Amount, appliedRate)

FlagType ==
    /\ stopped \in BOOLEAN
    /\ alarm \in BOOLEAN
    /\ alarmDue \in BOOLEAN
    /\ preparing \in BOOLEAN
    /\ expired \in BOOLEAN

DataType ==
    /\ state \in States
    /\ appliedRate \in Rate \cup {NoRate}
    /\ outbox \in Lines
    /\ markup \in {"pending", "completed"}
    /\ failures \in 0..MAXIMUM_OBSERVATION_RETRIES
    /\ blocking \in SUBSET BlockingEvents
    /\ acknowledged \in SUBSET BlockingEvents
    /\ pc \in {"free", "commit", "submit", "posted", "reconcile", "reading",
               "finalize", "append", "recorded", "deferred"}
    /\ owner \in {"none", "confirm", "alarm"}
    /\ attempts \in 0..MARKUP_ATTEMPT_LIMIT
    /\ pc = "append" => attempts < MARKUP_ATTEMPT_LIMIT
    /\ pc \notin {"append", "recorded", "deferred"} => attempts = 0
    /\ seen \in SUBSET BlockingEvents
    /\ readRate \in Rate \cup {NoRate}
    /\ shown \in SUBSET (SUBSET BlockingEvents)
    /\ config \in ConfigRates
    /\ posts \in Nat /\ wire \in Nat /\ charges \in Nat
    /\ ledger \in SUBSET Lines
    /\ late \in SUBSET Lines
    /\ restarts \in 0..MaxRestarts
    /\ faults \in 0..MaxStorageFaults

\* Each variable stays within the values its column, table or continuation
\* can hold (checkout_state, checkout_event, the alarm, the offer gate), and
\* recordSettlementMarkup makes at most MARKUP_ATTEMPT_LIMIT attempts.
TypeOK == FlagType /\ DataType

\* Settlement egress happens at most once, whatever retries of confirm(),
\* alarms and restarts follow, so even a provider that ignores the
\* idempotency key charges at most once; and a checkout that is still
\* confirmable or has failed was never sent for settlement (#prepareFailure
\* and #terminalFailure overwrite the state unconditionally).
SingleCharge ==
    /\ posts <= 1
    /\ charges + wire <= posts
    /\ posts > 0 => state \in Unresolved \cup {"settled"}

\* A settled checkout was charged.
SettledIsCharged == state = "settled" => charges = 1

\* When the settlement request leaves, every deviation of the held offer that
\* was ever recorded has been shown to the shopper and acknowledged by this
\* confirmation, and the agent was never observed inactive.  Without the
\* offer gate an alarm could record a deviation between the digest check of
\* #confirm and the POST.
ConsentAtEgress ==
    [][posts' # posts =>
           /\ blocking = acknowledged
           /\ acknowledged \in shown
           /\ AgentInactive \notin blocking]_vars

\* The ledger holds at most the line derived from the rate pinned when the
\* shopper confirmed, and only for a settled checkout, although the rate may
\* be redeployed in between and a timed-out append may land after its retry.
BookedAtPinnedRate ==
    /\ ledger \cup late \subseteq {PinnedLine}
    /\ ledger \cup late # {} => state = "settled" /\ appliedRate \in Rate

\* Finalization is only marked completed once the line is in the ledger.
CompletedIsBooked == markup = "completed" => outbox \in ledger

\* While a settlement is unresolved, or settled and not yet booked, there is
\* an alarm to resume it, also if the object is lost right now.
RecoveryScheduled ==
    state \in Unresolved \/ (state = "settled" /\ markup = "pending")
        => alarm \/ alarmDue

\* A checkout that waits for confirmation stays under observation until the
\* observation was suspended (which is itself a blocker).
HeldOfferWatched ==
    state = "confirmation_required" /\ Suspended \notin blocking
        => alarm \/ alarmDue

\* Once offer_observation_stopped is recorded the checkout is closed and no
\* observation adds a blocker.
StoppedIsClosed ==
    [][stopped => /\ state \in {"settled", "failed"}
                  /\ state' = state
                  /\ blocking' = blocking]_vars

\* A charge the provider made is eventually recorded as settled, without the
\* shopper asking again.
ChargeIsSettled == charges > 0 ~> state = "settled"

\* A settled checkout is eventually booked and its finalization completed.
SettledIsBooked == state = "settled" ~> markup = "completed"

\* No handler keeps the offer gate for ever.
GateIsReleased == []<>(pc = "free")

\* The comment at the end of #resumeSettledFinalization: when the retry alarm
\* cannot be stored, the already-armed recovery alarm remains the fallback.
RecoveryAlarmRemainsFallback ==
    [][FinalizeDeferred(FALSE) => alarm' \/ alarmDue']_vars

-----------------------------------------------------------------------------
(***************************************************************************)
(* The inductive invariant behind the safety properties.  The gate makes   *)
(* it so: what a handler established when it took the gate still holds at  *)
(* its next step, because only prepare() runs outside the gate.            *)
(***************************************************************************)
GateMatchesRow ==
    /\ preparing => state = "preparing"
    /\ pc = "commit" => /\ state = "confirmation_required"
                        /\ seen = Unacknowledged
                        /\ seen \in shown
                        /\ AgentInactive \notin seen
                        /\ readRate \in Rate
    /\ pc = "submit" => /\ state = "confirming"
                        /\ posts = 0
                        /\ blocking = acknowledged
                        /\ acknowledged \in shown
                        /\ AgentInactive \notin blocking
    /\ pc \in {"posted", "reconcile", "reading"} => state \in Unresolved
    /\ pc \in {"finalize", "append", "recorded", "deferred"} => state = "settled"
    /\ pc = "recorded" => outbox \in ledger

RowIsConsistent ==
    /\ state \in Unresolved \cup {"settled"} => appliedRate \in Rate
    /\ state \notin Unresolved \cup {"settled"} =>
           appliedRate = NoRate /\ acknowledged = {}
    /\ state = "settled" => outbox = PinnedLine /\ charges > 0
    /\ state # "settled" => markup = "pending"
    /\ stopped => state \in {"settled", "failed"}
    /\ alarm \/ alarmDue => state \notin {"absent", "preparing"}

IInv ==
    /\ TypeOK
    /\ GateMatchesRow
    /\ RowIsConsistent
    /\ SingleCharge
    /\ BookedAtPinnedRate
    /\ CompletedIsBooked
    /\ HeldOfferWatched

\* While no storage write has failed, the recovery alarm is there from before
\* the confirmation is committed.
RecoveryInv ==
    faults = 0 => /\ RecoveryScheduled
                  /\ pc = "commit" => alarm \/ alarmDue

-----------------------------------------------------------------------------
(* What the session promises: it implements PaymentPromise.  The row's     *)
(* state is the phase of the payment; the pinned rate, the provider's      *)
(* charges and the ledger's lines are themselves.                          *)

Phase ==
    IF state \in Unresolved THEN "consented"
    ELSE IF state = "settled" THEN "settled"
    ELSE IF state = "failed" THEN "abandoned"
    ELSE "open"

Promise == INSTANCE PaymentPromise WITH
    phase <- Phase, pinned <- appliedRate, charges <- charges,
    booked <- ledger

\* The session takes the steps of PaymentPromise and no others: no charge
\* before the consent, no second one, no booking before the settlement.
ImplementsPromise == Promise!Safety

\* Under FairSpec it also keeps the promise that a charge is settled and booked.
KeepsPromise == Promise!Spec

=============================================================================
