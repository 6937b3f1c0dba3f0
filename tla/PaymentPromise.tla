--------------------------- MODULE PaymentPromise ---------------------------
(***************************************************************************)
(* What a checkout promises, whatever happens to the object that carries   *)
(* it out: one consent pins one rate; only then is there one charge; only  *)
(* a charge settles; only a settlement is booked, once, at the pinned      *)
(* rate; and what was charged is in the end settled and booked.            *)
(***************************************************************************)
EXTENDS RevenueLedger

CONSTANTS Amount, SettlementId

VARIABLES phase, pinned, charges, booked

vars == <<phase, pinned, charges, booked>>

Init ==
    /\ phase = "open"
    /\ pinned = NoRate
    /\ charges = 0
    /\ booked = {}

Abandon ==
    /\ phase = "open"
    /\ phase' = "abandoned"
    /\ UNCHANGED <<pinned, charges, booked>>

Consent ==
    /\ phase = "open"
    /\ phase' = "consented"
    /\ pinned' \in Rate
    /\ UNCHANGED <<charges, booked>>

Charge ==
    /\ phase = "consented"
    /\ charges = 0
    /\ charges' = 1
    /\ UNCHANGED <<phase, pinned, booked>>

Settle ==
    /\ phase = "consented"
    /\ charges = 1
    /\ phase' = "settled"
    /\ UNCHANGED <<pinned, charges, booked>>

Book ==
    /\ phase = "settled"
    /\ booked = {}
    /\ booked' = {RevenueLine(SettlementId, Amount, pinned)}
    /\ UNCHANGED <<phase, pinned, charges>>

Next == Abandon \/ Consent \/ Charge \/ Settle \/ Book

Safety == Init /\ [][Next]_vars

Spec == Safety /\ WF_vars(Settle) /\ WF_vars(Book)
=============================================================================
