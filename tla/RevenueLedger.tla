---------------------------- MODULE RevenueLedger ----------------------------
(***************************************************************************)
(* The lines RevenueLedger (src/core/revenue-ledger.ts) stores and what    *)
(* appendLine does to them.  The ledger is a set of lines; settlementId is *)
(* its primary key.  A line keeps the attributes that equalRevenueLine can *)
(* tell apart between two appends of one settlement: the rate that was     *)
(* applied and the markup it gave.                                         *)
(*                                                                         *)
(* With the take rate of src/core/take-rate.ts: which configured values    *)
(* are a rate, and the markup that a rate derives from a settled amount.   *)
(* All amounts are integer minor units and rates integer basis points.     *)
(***************************************************************************)
EXTENDS Integers

MAXIMUM_RATE_BASIS_POINTS == 1000

\* The value readRateBasisPoints returns for anything that is not a rate
\* (null in the code, and SQL NULL in the applied_rate_basis_points column).
NoRate == 0

Rate == 1..MAXIMUM_RATE_BASIS_POINTS

\* A configured value is abstracted to an integer; text that is not an
\* integer behaves as an integer outside the range does.
readRateBasisPoints(value) == IF value \in Rate THEN value ELSE NoRate

\* (amount * rate + 5000) / 10000 in BigInt arithmetic: half-up rounding to a
\* whole minor unit, never more than the amount itself.
computeMarkupMinor(settledAmountMinor, rateBasisPoints) ==
    LET rounded == (settledAmountMinor * rateBasisPoints + 5000) \div 10000
    IN  IF rounded > settledAmountMinor THEN settledAmountMinor ELSE rounded

-----------------------------------------------------------------------------

\* The line whose settlement is sid, derived from the settled amount at rate.
RevenueLine(sid, amount, rate) ==
    [settlementId |-> sid,
     appliedRateBasisPoints |-> rate,
     markupMinor |-> computeMarkupMinor(amount, rate)]

HasSettlement(ledger, sid) == \E stored \in ledger : stored.settlementId = sid

\* INSERT ... ON CONFLICT(settlement_id) DO NOTHING: a settlement that is
\* already there keeps its first line.
appendLine(ledger, line) ==
    IF HasSettlement(ledger, line.settlementId)
    THEN ledger
    ELSE ledger \cup {line}

\* Mutant: a replay of the stored line is taken for a conflict.
appendAccepted_FirstOnly(ledger, line) ==
    ~HasSettlement(ledger, line.settlementId)

\* The append answers ok when the stored line equals the one it was given
\* (idempotent replay) or was just written; a different stored line is
\* settlement_ledger_precondition_failed.
appendAccepted(ledger, line) == line \in appendLine(ledger, line)
==============================================================================
