---------------------------- MODULE SmeWorkspace ----------------------------
(***************************************************************************)
(* The SME planning workspace (public/local-first/sme-business-pack.js):   *)
(* one to three rows of inputs, a plan computed from them, worksheets that *)
(* are exported and imported.  Everything that awaits (a protocol, a plan, *)
(* a table, a file) goes on while the inputs, the pack or the workspace    *)
(* change; three counters decide what may still be applied.  An operation  *)
(* under way carries `lost', the counters that moved since it began, so    *)
(* that "generation !== comparisonGeneration" reads "comparison" \in lost. *)
(* The second half is the calculation on ranges                            *)
(* (sme-business-pack-core.js); evidence rows are inputs like the others,  *)
(* wording and layout are left out.                                        *)
(***************************************************************************)
EXTENDS Integers, Sequences, SequencesExt

CONSTANTS
    Packs, TakeoverPacks, Modes, DefaultMode,
    Values,     \* per pack, the fields of its protocol and what they can hold
    Samples,    \* per pack, the illustrative inputs
    Sheets,     \* the worksheet files the user may choose
    Precision,  \* quotients are rounded to 1 / Precision
    MaxSafe,    \* Number.MAX_SAFE_INTEGER
    MaxRows, MaxFlight, MaxEdits,
    None

SmeAssumption ==
    /\ DefaultMode \in Modes
    /\ MaxRows \in Nat \ {0} /\ Precision \in Nat \ {0}
    /\ \A w \in Sheets : w.pack \in Packs /\ Len(w.rows) \in 1 .. MaxRows

VARIABLES
    pack,       \* packSelect.value
    protocol,   \* the pack of currentProtocol
    mode,       \* planModeSelect.value
    rows,       \* the visible rows: functions from the fields that are entered
    role,       \* whether the workspace is the SME one
    plan,       \* comparisonValue: what it was computed from, or None
    pending,    \* comparisonPending; the button is disabled meanwhile
    status,     \* what the status line says of the plan
    flight,     \* what is awaited
    saved,      \* the rows of the last worksheet downloaded or printed
    edits

form == <<pack, protocol, mode, rows>>
vars == <<form, role, plan, pending, status, flight, saved, edits>>

Empty == << >>  \* {}: no input is entered

Init ==
    /\ pack \in Packs /\ protocol = pack
    /\ mode = DefaultMode
    /\ rows = <<Empty>>
    /\ role = "sme"
    /\ plan = None /\ pending = FALSE /\ status = "ready"
    /\ flight = [i \in 1 .. MaxFlight |-> None]
    /\ saved = None
    /\ edits = 0

-----------------------------------------------------------------------------
Free == {i \in DOMAIN flight : flight[i] = None}
Under(i, kind) == flight[i] # None /\ flight[i].kind = kind

\* What is under way when the counters in `counters' move.
Moved(counters) ==
    [i \in DOMAIN flight |-> IF flight[i] = None THEN None
                             ELSE [flight[i] EXCEPT !.lost = @ \cup counters]]

\* An operation that begins, with the inputs it read.
Begun(kind, of, now) ==
    [now EXCEPT ![Min(Free)] =
        [kind |-> kind, of |-> of, pack |-> pack, rows |-> rows,
         lost |-> {}]]

Ended(i, now) == [now EXCEPT ![i] = None]

Current(i) == "comparison" \notin flight[i].lost /\ role = "sme"

\* invalidateComparison.
X_invalidateComparison(now) ==
    /\ plan' = None
    /\ pending' = FALSE
    /\ status' = "inputs changed"
    /\ flight' = now
invalidateComparison(now) ==
    /\ plan' = None
    /\ pending' = FALSE
    /\ status' = "inputs changed"
    /\ flight' = [i \in DOMAIN now |->
                    IF now[i] = None THEN None
                    ELSE [now[i] EXCEPT !.lost = @ \cup {"comparison"}]]

clearComparison(now) == rows' = <<Empty>> /\ invalidateComparison(now)

\* The editor's listeners: a value is entered or deleted in one row.
Edit(r, f, v) ==
    /\ role = "sme" /\ edits < MaxEdits
    /\ r \in DOMAIN rows /\ f \in DOMAIN Values[protocol]
    /\ \/ /\ v \in Values[protocol][f]
          /\ rows' = [rows EXCEPT ![r] = (f :> v) @@ @]
       \/ /\ v = None /\ f \in DOMAIN rows[r]
          /\ rows' = [rows EXCEPT ![r] = Restrict(@, DOMAIN @ \ {f})]
    /\ edits' = edits + 1
    /\ invalidateComparison(flight)
    /\ UNCHANGED <<pack, protocol, mode, role, saved>>

\* The number of rows: the rows that are no longer visible are emptied.
SetCount(n) ==
    /\ role = "sme" /\ edits < MaxEdits
    /\ n \in 1 .. MaxRows /\ n # Len(rows)
    /\ rows' = [r \in 1 .. n |-> IF r \in DOMAIN rows THEN rows[r] ELSE Empty]
    /\ edits' = edits + 1
    /\ invalidateComparison(flight)
    /\ UNCHANGED <<pack, protocol, mode, role, saved>>

SetMode(m) ==
    /\ role = "sme" /\ edits < MaxEdits
    /\ m \in Modes \ {mode}
    /\ mode' = m
    /\ edits' = edits + 1
    /\ invalidateComparison(flight)
    /\ UNCHANGED <<pack, protocol, rows, role, saved>>

\* "Load illustrative inputs", of the protocol that has arrived.
Sample ==
    /\ role = "sme" /\ edits < MaxEdits
    /\ Samples[protocol] # Empty
    /\ rows' = <<Samples[protocol]>>
    /\ edits' = edits + 1
    /\ invalidateComparison(flight)
    /\ UNCHANGED <<pack, protocol, mode, role, saved>>

\* Another pack: everything is cleared at once, its protocol is awaited.
SelectPack(p) ==
    /\ role = "sme" /\ edits < MaxEdits /\ Free # {}
    /\ p \in Packs \ {pack}
    /\ pack' = p
    /\ edits' = edits + 1
    /\ clearComparison(Begun("protocol", p, Moved({"pack"})))
    /\ UNCHANGED <<protocol, mode, role, saved>>

\* refreshFields applies the protocol of the pack that is still selected, and
\* sets the mode back, without a new comparison generation.
refreshFields(i) ==
    /\ Under(i, "protocol")
    /\ IF flight[i].of = pack
       THEN protocol' = pack /\ mode' = DefaultMode
       ELSE UNCHANGED <<protocol, mode>>
    /\ flight' = Ended(i, flight)
    /\ UNCHANGED <<pack, rows, role, plan, pending, status, saved, edits>>

-----------------------------------------------------------------------------
\* comparePlans refuses rows without one and the same currency.
Comparable(rs) ==
    \/ Len(rs) = 1
    \/ \A r \in DOMAIN rs : /\ "currency_code" \in DOMAIN rs[r]
                            /\ rs[r]["currency_code"] = rs[1]["currency_code"]

PlanOf(op) == [pack |-> op.pack, mode |-> op.of, rows |-> op.rows]

\* runComparison up to its first await.
runComparison ==
    /\ role = "sme" /\ ~pending /\ Free # {}
    /\ plan' = None /\ pending' = TRUE /\ status' = "building"
    /\ flight' = Begun("comparison", mode, Moved({"comparison"}))
    /\ UNCHANGED <<form, role, saved, edits>>

\* The plan is there in time: it is kept, and the table awaited, only if
\* nothing has changed.
X_Built(i) ==
    /\ Under(i, "comparison") /\ Comparable(flight[i].rows)
    /\ plan' = PlanOf(flight[i])
    /\ flight' = [flight EXCEPT ![i].kind = "table"]
    /\ UNCHANGED <<form, role, pending, status, saved, edits>>
Built(i) ==
    /\ Under(i, "comparison") /\ Comparable(flight[i].rows)
    /\ IF Current(i)
       THEN /\ plan' = PlanOf(flight[i])
            /\ flight' = [flight EXCEPT ![i].kind = "table"]
            /\ UNCHANGED pending
       ELSE /\ flight' = Ended(i, flight)
            /\ pending' = (pending /\ "comparison" \in flight[i].lost)
            /\ UNCHANGED plan
    /\ UNCHANGED <<form, role, status, saved, edits>>

\* It is refused, or two seconds are over, or the table cannot be shown (which
\* renderWorkflowTable reports only while the comparison is the current one).
X_Refused(i) ==
    /\ Under(i, "comparison")
    /\ plan' = None /\ status' = "refused"
    /\ flight' = Ended(i, flight)
    /\ UNCHANGED <<form, role, pending, saved, edits>>
Refused(i) ==
    /\ \/ Under(i, "comparison")
       \/ Under(i, "table") /\ "comparison" \notin flight[i].lost
    /\ IF Current(i) THEN plan' = None /\ status' = "refused"
                     ELSE UNCHANGED <<plan, status>>
    /\ pending' = (pending /\ "comparison" \in flight[i].lost)
    /\ flight' = Ended(i, flight)
    /\ UNCHANGED <<form, role, saved, edits>>

\* The table is there, or was overtaken: the status is written in both cases.
Shown(i) ==
    /\ Under(i, "table")
    /\ status' = "plan built"
    /\ pending' = (pending /\ "comparison" \in flight[i].lost)
    /\ flight' = Ended(i, flight)
    /\ UNCHANGED <<form, role, plan, saved, edits>>

-----------------------------------------------------------------------------
\* worksheetReports, for a download or the printer.
Export ==
    /\ role = "sme" /\ Free # {}
    /\ flight' = Begun("export", mode, flight)
    /\ UNCHANGED <<form, role, plan, pending, status, saved, edits>>

X_Download(i) ==
    /\ Under(i, "export") /\ Comparable(flight[i].rows) /\ role = "sme"
    /\ saved' = flight[i].rows /\ status' = "downloaded"
    /\ flight' = Ended(i, flight)
    /\ UNCHANGED <<form, role, plan, pending, edits>>
Download(i) ==
    /\ Under(i, "export") /\ Comparable(flight[i].rows)
    /\ IF Current(i)
       THEN saved' = flight[i].rows /\ status' = "downloaded"
       ELSE UNCHANGED <<saved, status>>
    /\ flight' = Ended(i, flight)
    /\ UNCHANGED <<form, role, plan, pending, edits>>

\* Values the pack does not admit, or too many bytes.
ExportRefused(i) ==
    /\ Under(i, "export")
    /\ status' = "export refused"
    /\ flight' = Ended(i, flight)
    /\ UNCHANGED <<form, role, plan, pending, saved, edits>>

\* A file is chosen: of the protocol at this moment it must be.
Choose(w) ==
    /\ role = "sme" /\ Free # {}
    /\ flight' = [Begun("import", w, Moved({"import"}))
                    EXCEPT ![Min(Free)].pack = protocol]
    /\ UNCHANGED <<form, role, plan, pending, status, saved, edits>>

\* isCurrent of importWorksheet.
X_isCurrent(i) == "import" \notin flight[i].lost /\ role = "sme"
isCurrent(i) == flight[i].lost = {} /\ role = "sme"

\* readSmeWorksheets: a worksheet of that pack, whose plan can be built.
readSmeWorksheets(op) == op.of.pack = op.pack /\ Comparable(op.of.rows)

\* importWorksheet after its last await.
importWorksheet(i) ==
    /\ Under(i, "import") /\ edits < MaxEdits
    /\ isCurrent(i)
    /\ readSmeWorksheets(flight[i])
    /\ mode' = flight[i].of.mode
    /\ rows' = flight[i].of.rows
    /\ edits' = edits + 1
    /\ plan' = None /\ pending' = FALSE /\ status' = "imported"
    /\ flight' = Ended(i, Moved({"comparison"}))
    /\ UNCHANGED <<pack, protocol, role, saved>>

\* The file is unreadable, of another pack, or something was changed meanwhile;
\* the last is not even reported.
ImportRefused(i) ==
    /\ Under(i, "import")
    /\ status' = IF isCurrent(i) THEN "import refused" ELSE status
    /\ flight' = Ended(i, flight)
    /\ UNCHANGED <<form, role, plan, pending, saved, edits>>

\* route sets the role first; deactivate follows after further awaits, and not
\* at all if the user is back by then.
Leave ==
    /\ role = "sme" /\ role' = "other"
    /\ UNCHANGED <<form, plan, pending, status, flight, saved, edits>>

Return ==
    /\ role = "other" /\ edits < MaxEdits /\ role' = "sme"
    /\ edits' = edits + 1
    /\ UNCHANGED <<form, plan, pending, status, flight, saved>>

\* Also when the page is hidden.
deactivate ==
    /\ clearComparison(flight)
    /\ UNCHANGED <<pack, protocol, mode, role, saved, edits>>

Next ==
    \/ \E r \in 1 .. MaxRows, f \in DOMAIN Values[protocol] :
         \E v \in Values[protocol][f] \cup {None} : Edit(r, f, v)
    \/ \E n \in 1 .. MaxRows : SetCount(n)
    \/ \E m \in Modes : SetMode(m)
    \/ Sample
    \/ \E p \in Packs : SelectPack(p)
    \/ runComparison \/ Export
    \/ \E w \in Sheets : Choose(w)
    \/ Leave \/ Return \/ deactivate
    \/ \E i \in 1 .. MaxFlight :
         \/ refreshFields(i) \/ Built(i) \/ Refused(i) \/ Shown(i)
         \/ Download(i) \/ ExportRefused(i)
         \/ importWorksheet(i) \/ ImportRefused(i)

Spec == Init /\ [][Next]_vars
-----------------------------------------------------------------------------
\* The calculation.  A number is the range from it to itself; None, which the
\* code writes null, is what is not entered or too large.
range(inputs, f) == IF f \in DOMAIN inputs THEN inputs[f] ELSE None

finiteRange(a, b) ==
    IF \E x \in {a, b} : x > MaxSafe \/ -x > MaxSafe THEN None
    ELSE [low |-> Min({a, b}), high |-> Max({a, b})]

\* Division, rounded, in units of 1 / Precision.
rounded(a, b) == (2 * a * Precision + b) \div (2 * b)
ceil(a, b) == (a + b - 1) \div b

add(l, r) == IF None \in {l, r} THEN None
             ELSE finiteRange(l.low + r.low, l.high + r.high)

X_subtract(l, r) == IF None \in {l, r} THEN None
                    ELSE finiteRange(l.low - r.low, l.high - r.high)
subtract(l, r) == IF None \in {l, r} THEN None
                  ELSE finiteRange(l.low - r.high, l.high - r.low)

multiply(l, r) ==
    IF None \in {l, r} THEN None
    ELSE LET products == {x * y : x \in {l.low, l.high}, y \in {r.low, r.high}}
         IN  finiteRange(Min(products), Max(products))

positivePart(r) == IF r = None THEN None
                   ELSE finiteRange(Max({0, r.low}), Max({0, r.high}))

Of(state, r) == [status |-> state, range |-> r]

\* What the initial outlay is made of.
X_Outlay(inputs, m) ==
    IF "buy_build_path" \notin DOMAIN inputs THEN {"setup_costs"}
    ELSE CASE inputs["buy_build_path"] = "build_new" -> {"setup_costs"}
           [] inputs["buy_build_path"] = "undecided" -> {"buy_build_path"}
           [] OTHER -> {"acquisition_price"}
Outlay(inputs, m) ==
    LET path == IF "buy_build_path" \in DOMAIN inputs
                THEN inputs["buy_build_path"] ELSE "none"
    IN  CASE path = "buy_existing" -> {"acquisition_price", "transition_costs"}
          [] path = "build_new" -> {"setup_costs"}
          [] path = "undecided" \/ m = "buy_build" -> {"buy_build_path"}
          [] OTHER -> {"setup_costs"}

PerUnit == {"price_per_unit", "variable_cost_per_unit"}
PerMonth == {"fixed_costs_per_month", "payroll_per_month"}
Operating == PerUnit \cup PerMonth \cup {"units_per_month"}

monthlyModel(inputs, m) ==
    LET n(f) == range(inputs, f)
        revenue == multiply(n("price_per_unit"), n("units_per_month"))
        variable == multiply(n("variable_cost_per_unit"), n("units_per_month"))
        costs == add(n("fixed_costs_per_month"), n("payroll_per_month"))
        result == subtract(subtract(revenue, variable), costs)
        unit == subtract(n("price_per_unit"), n("variable_cost_per_unit"))
        burn == IF result = None THEN None
                ELSE positivePart([low |-> -result.high, high |-> -result.low])
        cash == n("cash_available")
        months == n("runway_target_months")
        outlay == CASE Outlay(inputs, m) = {"setup_costs"} -> n("setup_costs")
                    [] "buy_build_path" \in Outlay(inputs, m) -> None
                    [] OTHER -> add(n("acquisition_price"),
                                    n("transition_costs"))
        gap == CASE None \in {outlay, cash, months, burn} -> None
                 [] burn.high = 0 -> positivePart(subtract(outlay, cash))
                 [] OTHER -> positivePart(subtract(
                               add(outlay, multiply(burn, months)), cash))
    IN  [revenue |-> revenue,
         result |-> result,
         breakEven |->
            CASE None \in {costs, unit} -> Of("unknown", None)
              [] unit.high <= 0 -> Of("no_positive_unit_contribution", None)
              [] unit.high > 0 /\ unit.low <= 0 ->
                   Of("range_includes_nonpositive_contribution", None)
              [] OTHER -> Of("calculated",
                             finiteRange(ceil(costs.low, unit.high),
                                         ceil(costs.high, unit.low))),
         runway |->
            CASE burn # None /\ burn.high = 0 ->
                   Of("no_monthly_burn_indicated", None)
              [] None \in {cash, burn} -> Of("unknown", None)
              [] burn.low > 0 ->
                   Of("calculated", [low |-> rounded(cash.low, burn.high),
                                     high |-> rounded(cash.high, burn.low)])
              [] OTHER -> Of("range_crosses_zero", None),
         gap |-> gap,
         difference |-> IF None \in {n("funding_requested"), gap} THEN None
                        ELSE subtract(n("funding_requested"), gap),
         missing |-> (Outlay(inputs, m) \cup Operating
                        \cup {"cash_available", "runway_target_months"})
                       \ DOMAIN inputs]

Upfront == <<"purchase_price", "transition_costs", "asset_setup_costs",
             "transaction_professional_costs", "immediate_reinvestment_costs">>

takeoverCashModel(inputs) ==
    LET n(f) == range(inputs, f)
        zero == [low |-> 0, high |-> 0]
        obligation == IF "location_obligation" \in DOMAIN inputs
                      THEN inputs["location_obligation"] ELSE "unknown"
        applies == obligation = "applies"
        \* what of these and the currency, and about the location, is missing
        missing(fs) == (fs \cup {"currency_code"}) \ DOMAIN inputs
        located(fs) == IF applies THEN fs \ DOMAIN inputs
                       ELSE IF obligation = "not_applicable" THEN {}
                       ELSE {"location_obligation"}
        required == missing(Range(Upfront) \cup {"monthly_operating_costs",
                                                 "working_capital_months"})
                      \cup located({"location_deposit",
                                    "location_monthly_cost"})
        upfront == FoldLeft(add, zero, [k \in DOMAIN Upfront |-> n(Upfront[k])])
        deposit == IF applies THEN n("location_deposit") ELSE zero
        monthly == add(n("monthly_operating_costs"),
                       IF applies THEN n("location_monthly_cost") ELSE zero)
        close == IF required # {} THEN None
                 ELSE add(add(upfront, deposit),
                          multiply(monthly, n("working_capital_months")))
    IN  [close |-> close,
         shortfall |->
            IF missing({"available_cash"}) # {} \/ close = None THEN None
            ELSE positivePart(subtract(close, n("available_cash"))),
         exposure |->
            IF ~applies \/ missing({"location_monthly_cost",
                                    "location_term_months"}) # {} THEN None
            ELSE multiply(n("location_monthly_cost"),
                          n("location_term_months")),
         difference |->
            IF missing({"monthly_revenue", "monthly_operating_costs"})
                 \cup located({"location_monthly_cost"}) # {} THEN None
            ELSE subtract(n("monthly_revenue"), monthly),
         missing |-> required]

-----------------------------------------------------------------------------
\* The plan on the page is that of the pack and of exactly the rows that are
\* entered now, whatever was edited, imported, selected or left while it was
\* computed or its table loaded.
PlanIsCurrent == plan # None => plan.pack = pack /\ plan.rows = rows

\* A plan under way has its operation: the button does not stay disabled.
PendingIsAwaited ==
    pending => \E i \in DOMAIN flight :
                 /\ Under(i, "comparison") \/ Under(i, "table")
                 /\ "comparison" \notin flight[i].lost

\* The status line says that a plan is built only while there is one.  The code
\* does not keep it, and no run checks it (README, disagreements).
BuiltIsShown == status = "plan built" => plan # None

\* What is downloaded is what is entered at that moment; an import replaces
\* only the rows that were there when its file was chosen.
WorksheetsAreCurrent ==
    [][/\ saved' # saved => saved' = rows
       /\ \A i \in DOMAIN flight :
            Under(i, "import") /\ flight'[i] = None /\ rows' # rows
              => flight[i].rows = rows]_vars

\* What is imported is a worksheet of the selected pack.  The code does not
\* keep it, and no run checks it (README, disagreements): a file chosen before
\* the protocol of a newly selected pack arrives is read under the old one.
ImportedIsOfPack ==
    [][\A i \in DOMAIN flight :
         Under(i, "import") /\ flight'[i] = None /\ rows' # rows
           => flight[i].of.pack = pack]_vars

-----------------------------------------------------------------------------
\* The same quantities for numbers instead of ranges, as the pack's formulas
\* state them: x chooses a number in every range that is entered.
Texts == {"currency_code", "buy_build_path", "location_obligation"}

Points(inputs) ==
    LET numbers == DOMAIN inputs \ Texts
        wide == {f \in numbers : inputs[f].low < inputs[f].high}
        amounts == UNION {inputs[f].low .. inputs[f].high : f \in wide}
        chosen == {q \in [wide -> amounts] : \A f \in wide :
                     inputs[f].low <= q[f] /\ q[f] <= inputs[f].high}
    IN  {q @@ [f \in numbers \ wide |-> inputs[f].low] : q \in chosen}

SumOf(x, fs) == MapThenSumSet(LAMBDA f : x[f], fs)

Encloses(r, x) == r.low <= x /\ x <= r.high

MonthlyEncloses(model, outlay, x) ==
    LET unit == x["price_per_unit"] - x["variable_cost_per_unit"]
        costs == x["fixed_costs_per_month"] + x["payroll_per_month"]
        result == unit * x["units_per_month"] - costs
        burn == Max({0, -result})
        gap == Max({0, SumOf(x, outlay) - x["cash_available"]
                         + burn * x["runway_target_months"]})
    IN  /\ model.revenue # None =>
             Encloses(model.revenue, x["price_per_unit"] * x["units_per_month"])
        /\ model.result # None => Encloses(model.result, result)
        /\ model.gap # None => Encloses(model.gap, gap)
        /\ model.difference # None =>
             Encloses(model.difference, x["funding_requested"] - gap)
        /\ CASE model.breakEven.status = "no_positive_unit_contribution" ->
                  unit <= 0
             [] model.breakEven.range # None ->
                  /\ model.breakEven.range.high * unit >= costs
                  /\ model.breakEven.range.low > 0 =>
                       (model.breakEven.range.low - 1) * unit < costs
             [] OTHER -> TRUE
        /\ CASE model.runway.status = "no_monthly_burn_indicated" -> result >= 0
             [] model.runway.status = "calculated" ->
                  LET cash == 2 * Precision * x["cash_available"]
                  IN  /\ 2 * model.runway.range.low * burn <= cash + burn
                      /\ cash <= 2 * model.runway.range.high * burn + burn
             [] OTHER -> TRUE

TakeoverEncloses(model, located, x) ==
    LET monthly == x["monthly_operating_costs"]
                     + IF located THEN x["location_monthly_cost"] ELSE 0
        close == SumOf(x, Range(Upfront))
                   + monthly * x["working_capital_months"]
                   + IF located THEN x["location_deposit"] ELSE 0
    IN  /\ model.close # None => Encloses(model.close, close)
        /\ model.shortfall # None =>
             Encloses(model.shortfall, Max({0, close - x["available_cash"]}))
        /\ model.exposure # None =>
             Encloses(model.exposure,
                      x["location_monthly_cost"] * x["location_term_months"])
        /\ model.difference # None =>
             Encloses(model.difference, x["monthly_revenue"] - monthly)

\* Every amount the report gives as a range holds for every choice of numbers
\* within the ranges the user entered, and what it says of break-even and
\* runway instead of a range is true of every choice.
ModelEncloses ==
    \A r \in DOMAIN rows :
      IF pack \in TakeoverPacks
      THEN LET model == takeoverCashModel(rows[r])
               located == /\ "location_obligation" \in DOMAIN rows[r]
                          /\ rows[r]["location_obligation"] = "applies"
           IN  \A x \in Points(rows[r]) : TakeoverEncloses(model, located, x)
      ELSE LET model == monthlyModel(rows[r], mode)
           IN  \A x \in Points(rows[r]) :
                 MonthlyEncloses(model, Outlay(rows[r], mode), x)

\* A funding gap, or the cash to close, that the report leaves unknown has an
\* input the report names as missing, and no other.  The code does not keep it
\* for the path "undecided", nor for products beyond MaxSafe, and no run checks
\* these (README, disagreements).
UnknownIsAccounted ==
    \A r \in DOMAIN rows :
      IF pack \in TakeoverPacks
      THEN (takeoverCashModel(rows[r]).close = None)
             <=> (takeoverCashModel(rows[r]).missing # {})
      ELSE \/ /\ "buy_build_path" \in DOMAIN rows[r]
              /\ rows[r]["buy_build_path"] = "undecided"
           \/ (monthlyModel(rows[r], mode).gap = None
                <=> monthlyModel(rows[r], mode).missing # {})
=============================================================================
