------------------------------ MODULE MCPages ------------------------------
(*****************************************************************************)
(* What runs in the browser and the endpoints it talks to: the shopper page, *)
(* the merchant workspace and its review queue, the local-first drafts and   *)
(* checkout, the offline queue, the merge of the devices' changes and the    *)
(* readiness flights of the fulfilment host, each in small instances.        *)
(* `scenario' selects one instance; its component takes its steps and all    *)
(* the others stand still, so the reachable states are the sum of the        *)
(* instances.                                                                *)
(*****************************************************************************)
EXTENDS Naturals, FiniteSets, Sequences, TLC

CONSTANTS 
    None,
    t1, t2,          \* interchangeable tabs, admin pages, selections
    n1, n2, j1       \* interchangeable nonces and texts; a job

VARIABLES
    scenario,        \* the instance that runs
    \* LocalStore
    pending, lastSequence, online, replay, merged, closes,
    \* SyncMerge
    replica, authored,
    \* MerchantReview
    now, live, holder, epoch, inflight, queue, cards, draft, pub, check,
    begun, confirmed,
    \* MerchantPage
    operatorToken, registry, connects, refreshDisabled, applying, asked, shown, lookups,
    wanted, calls, merchantNow, merchantOnline, visible, release, generation,
    controller, checks, observation, badge, expiry, history, passedAt, events,
    \* StorefrontActions
    registration, aborted, listed, catalog, selected, call, drifted, prepared,
    toolsBegun, foreign,
    \* ShopperPage
    shopperOnline, offlineShown, searchGeneration, searches, shopperCatalog,
    snapshot, offlineReads, selectedOffer, selecting, checkoutPreparing,
    checkoutConfirming, preparing, preparedConfirmation, shopperAsked, cut,
    faults, selections, checkouts,
    \* LocalCheckout
    orders, keys, jobs, cookie, files, tab, flight, clock, checkoutFaults,
    refused,
    \* DraftWorkspace
    store, draftTab, session, draftJobs, backup, lastSaved, acked, exported,
    seen, draftSelected,
    \* SmeWorkspace
    pack, protocol, mode, rows, role, plan, smePending, status, smeFlight,
    saved, edits,
    \* ListingProbe
    probeAsked, probeStatus, probe, probeAborted, verifier, waiters, good

queueVars == <<pending, lastSequence, online, replay, merged, closes>>
syncVars == <<replica, authored>>
reviewVars == <<now, live, holder, epoch, inflight, queue, cards, draft, pub,
                check, begun, confirmed>>
merchantVars == <<operatorToken, registry, connects, refreshDisabled, applying, asked, shown,
                  lookups, wanted, calls, merchantNow, merchantOnline,
                  visible, release, generation, controller, checks,
                  observation, badge, expiry, history, passedAt, events>>
toolsVars == <<registration, aborted, listed, catalog, selected, call,
               drifted, prepared, toolsBegun, foreign>>
shopperVars == <<shopperOnline, offlineShown, searchGeneration, searches,
                 shopperCatalog, snapshot, offlineReads, selectedOffer,
                 selecting, checkoutPreparing, checkoutConfirming, preparing,
                 preparedConfirmation, shopperAsked, cut, faults, selections,
                 checkouts>>
checkoutVars == <<orders, keys, jobs, cookie, files, tab, flight, clock,
                  checkoutFaults, refused>>
draftVars == <<store, draftTab, session, draftJobs, backup, lastSaved, acked,
               exported, seen, draftSelected>>
smeVars == <<pack, protocol, mode, rows, role, plan, smePending, status,
             smeFlight, saved, edits>>
probeVars == <<probeAsked, probeStatus, probe, probeAborted, verifier,
               waiters, good>>
vars == <<scenario, queueVars, syncVars, reviewVars, merchantVars, toolsVars,
          shopperVars, checkoutVars, draftVars, smeVars, probeVars>>
-----------------------------------------------------------------------------
\* Two tabs share the queue of recorded changes.
Queue == INSTANCE LocalStore WITH
    Tabs <- {t1, t2}, MAXIMUM_PENDING_CHANGES <- 2, MaxSequence <- 3,
    MaxCloses <- 1, MaxMerges <- 4

\* Three devices whose clocks collide.
Sync == INSTANCE SyncMerge WITH
    Replicas <- 1 .. 3, Scopes <- {1}, Fields <- {1}, Values <- {1},
    Times <- {1, 2}, MaxChanges <- 3

\* A vendor page, admin pages, and publications from elsewhere: two pages at
\* one time; one page over more than a minute.  No page is suspended between
\* its mark and its claim, and no removed record is staged again: with those
\* OnePublisher and CheckIsFinal do not hold (README, disagreements).
Review == INSTANCE MerchantReview WITH
    Admins <- {t1, t2}, Manifests <- {"m1"}, Others <- {"x1"}, Capacity <- 2,
    Minute <- 4, MaxTime <- 0, MaxPublications <- 2, Suspends <- FALSE,
    Recycles <- FALSE
Later == INSTANCE MerchantReview WITH
    Admins <- {t1}, Manifests <- {"m1"}, Others <- {"x1"}, Capacity <- 1,
    Minute <- 4, MaxTime <- 5, MaxPublications <- 2, Suspends <- FALSE,
    Recycles <- FALSE

\* Credentials, registries and catalogs; and the environment panel.
Link == INSTANCE MerchantPage WITH
    Credentials <- {"k1", "k2", "bad"}, Refused <- {"bad"},
    Merchants <- {"s1", "s2"}, Minute <- 2, HistoryLimit <- 1, MaxTime <- 0,
    MaxCalls <- 4, MaxChecks <- 0, MaxEvents <- 0, now <- merchantNow,
    online <- merchantOnline
Panel == INSTANCE MerchantPage WITH
    Credentials <- {}, Refused <- {}, Merchants <- {}, Minute <- 2,
    HistoryLimit <- 2, MaxTime <- 5, MaxCalls <- 0, MaxChecks <- 3,
    MaxEvents <- 2, now <- merchantNow, online <- merchantOnline

\* Two listings of two agents, one offer at two prices and another one.
Cheap == [id |-> "o1", price |-> 1]
Dear == [id |-> "o1", price |-> 2]
Other == [id |-> "o2", price |-> 1]
Listed(id, agent, offers) ==
    [id |-> id, agent |-> agent, matches |-> TRUE, valid |-> TRUE, offers |-> offers]
NoOffers == {<<>>, <<Listed("l1", "a1", {}), Listed("l2", "a2", {})>>}
Mixed == {
    <<>>,
    <<Listed("l1", "a1", {Cheap}), Listed("l2", "a2", {Other}), Listed("l3", "a1", {})>>,
    <<[Listed("l1", "a1", {Cheap}) EXCEPT !.matches = FALSE], Listed("l2", "a2", {Dear})>>,
    <<[Listed("l1", "a1", {Cheap}) EXCEPT !.valid = FALSE]>>}
Tools == INSTANCE StorefrontActions WITH
    Calls <- {t1, t2}, Payloads <- NoOffers, Offers <- {Dear},
    Routed <- {Dear}, MaximumSearchLimit <- 2, MaxCalls <- 2, MaxForeign <- 1,
    begun <- toolsBegun
Actions == INSTANCE StorefrontActions WITH
    Calls <- {t1, t2}, Payloads <- Mixed, Offers <- {Cheap, Dear, Other},
    Routed <- {Dear}, MaximumSearchLimit <- 2, MaxCalls <- 3, MaxForeign <- 0,
    begun <- toolsBegun

\* One offer at two prices, two selections under way at once.
Shopper == INSTANCE ShopperPage WITH
    Offers <- {Cheap, Dear}, Results <- {{}, {Cheap}, {Dear}},
    Selections <- {t1, t2}, MaxSearches <- 2, MaxSelections <- 2,
    MaxCheckouts <- 2, MaxFaults <- 1, Aborts <- FALSE,
    online <- shopperOnline, catalog <- shopperCatalog, asked <- shopperAsked

\* Sandbox mode with two tabs, a listing and the plain offer; the idempotency
\* window; and test or live mode with recovery files and the webhook, in one
\* tab (with two, PaidIsRecoverable does not hold: README, disagreements), with
\* two requests on their way or with a lost answer.
Orders == INSTANCE LocalCheckout WITH
    Tabs <- {t1, t2}, Nonces <- {n1}, Jobs <- {j1}, NoJob <- None,
    NoNonce <- None, Static <- FALSE, SalesEnabled <- TRUE, MaxOrders <- 2,
    MaxFlight <- 2, MaxClock <- 0, MaxFaults <- 0, Window <- 1,
    Retention <- 2, SessionAge <- 2, faults <- checkoutFaults
Retries == INSTANCE LocalCheckout WITH
    Tabs <- {t1}, Nonces <- {n1}, Jobs <- {j1}, NoJob <- None,
    NoNonce <- None, Static <- FALSE, SalesEnabled <- TRUE, MaxOrders <- 2,
    MaxFlight <- 2, MaxClock <- 3, MaxFaults <- 1, Window <- 1,
    Retention <- 2, SessionAge <- 2, faults <- checkoutFaults
Recoverable == INSTANCE LocalCheckout WITH
    Tabs <- {t1}, Nonces <- {n1, n2}, Jobs <- {}, NoJob <- None,
    NoNonce <- None, Static <- TRUE, SalesEnabled <- TRUE, MaxOrders <- 2,
    MaxFlight <- 2, MaxClock <- 3, MaxFaults <- 0, Window <- 1,
    Retention <- 2, SessionAge <- 2, faults <- checkoutFaults
Repeated == INSTANCE LocalCheckout WITH
    Tabs <- {t1}, Nonces <- {n1, n2}, Jobs <- {}, NoJob <- None,
    NoNonce <- None, Static <- TRUE, SalesEnabled <- TRUE, MaxOrders <- 2,
    MaxFlight <- 1, MaxClock <- 2, MaxFaults <- 1, Window <- 1,
    Retention <- 2, SessionAge <- 2, faults <- checkoutFaults

\* Two tabs with listing jobs; one tab through many revisions; a backup taken
\* to another device; launch packs.
Listings == INSTANCE DraftWorkspace WITH
    Tabs <- {t1, t2}, Texts <- {n1, n2}, MaxRevision <- 3, MaxSessions <- 1,
    Listing <- TRUE, Launch <- FALSE, tab <- draftTab, jobs <- draftJobs,
    selected <- draftSelected
Reviews == INSTANCE DraftWorkspace WITH
    Tabs <- {t1}, Texts <- {n1, n2}, MaxRevision <- 5, MaxSessions <- 1,
    Listing <- TRUE, Launch <- FALSE, tab <- draftTab, jobs <- draftJobs,
    selected <- draftSelected
Device == INSTANCE DraftWorkspace WITH
    Tabs <- {t1}, Texts <- {n1}, MaxRevision <- 3, MaxSessions <- 2,
    Listing <- TRUE, Launch <- FALSE, tab <- draftTab, jobs <- draftJobs,
    selected <- draftSelected
Launches == INSTANCE DraftWorkspace WITH
    Tabs <- {t1, t2}, Texts <- {n1}, MaxRevision <- 3, MaxSessions <- 1,
    Listing <- FALSE, Launch <- TRUE, tab <- draftTab, jobs <- draftJobs,
    selected <- draftSelected

\* Two packs, two rows and two things awaited at once; two changes of pack in a
\* row; and the calculations, from nothing or from the illustrative inputs,
\* after a few edits.
Currency == [currency_code |-> {"EUR"}]
Sheet(p, m, rs) == [pack |-> p, mode |-> m, rows |-> rs]
Amounts == {[low |-> 0, high |-> 1], [low |-> 1, high |-> 3], [low |-> 5, high |-> 5]}
Numbers == {[low |-> k, high |-> k] : k \in 1 .. 2}
Is(k) == [low |-> k, high |-> k]
Monthly == [
    buy_build_path |-> "build_new", price_per_unit |-> Is(5),
    units_per_month |-> Is(3), variable_cost_per_unit |-> Is(1),
    fixed_costs_per_month |-> Is(4), payroll_per_month |-> Is(4),
    setup_costs |-> Is(3), cash_available |-> Is(6),
    runway_target_months |-> Is(2), funding_requested |-> Is(4)]
Takeover == [
    currency_code |-> "USD", location_obligation |-> "applies",
    purchase_price |-> Is(8), transition_costs |-> Is(3),
    asset_setup_costs |-> Is(2), transaction_professional_costs |-> Is(1),
    immediate_reinvestment_costs |-> Is(1), monthly_operating_costs |-> Is(3),
    working_capital_months |-> Is(2), location_deposit |-> Is(2),
    location_monthly_cost |-> Is(2), location_term_months |-> Is(3),
    monthly_revenue |-> Is(6), available_cash |-> Is(9)]
Enterable(fields) == [f \in fields |->
    CASE f = "buy_build_path" -> {"buy_existing", "build_new", "undecided"}
      [] f = "location_obligation" -> {"applies", "not_applicable", "unknown"}
      [] f = "currency_code" -> {"USD"}
      [] f \in {"units_per_month", "runway_target_months", "working_capital_months",
                "location_term_months"} -> Numbers
      [] OTHER -> Amounts]
Worksheet == INSTANCE SmeWorkspace WITH
    Packs <- {"plan", "takeover"}, TakeoverPacks <- {"takeover"},
    Modes <- {"buy_build", "scenario"}, DefaultMode <- "buy_build",
    Values <- [p \in {"plan", "takeover"} |-> Currency],
    Samples <- [p \in {"plan", "takeover"} |-> [currency_code |-> "USD"]],
    Sheets <- {Sheet("plan", "scenario", <<[currency_code |-> "EUR"], [currency_code |-> "EUR"]>>)},
    Precision <- 10, MaxSafe <- 1000, MaxRows <- 2, MaxFlight <- 2,
    MaxEdits <- 1, pending <- smePending, flight <- smeFlight
Changes == INSTANCE SmeWorkspace WITH
    Packs <- {"plan", "takeover"}, TakeoverPacks <- {"takeover"},
    Modes <- {"buy_build", "scenario"}, DefaultMode <- "buy_build",
    Values <- [plan |-> Currency, takeover |-> << >>],
    Samples <- [p \in {"plan", "takeover"} |-> << >>], Sheets <- {},
    Precision <- 10, MaxSafe <- 1000, MaxRows <- 1, MaxFlight <- 2,
    MaxEdits <- 2, pending <- smePending, flight <- smeFlight
MonthlyPlan == INSTANCE SmeWorkspace WITH
    Packs <- {"plan"}, TakeoverPacks <- {"takeover"},
    Modes <- {"buy_build", "scenario"}, DefaultMode <- "buy_build",
    Values <- [plan |-> Enterable(DOMAIN Monthly \cup {"acquisition_price", "transition_costs"})],
    Samples <- [plan |-> Monthly], Sheets <- {}, Precision <- 10,
    MaxSafe <- 1000, MaxRows <- 1, MaxFlight <- 0, MaxEdits <- 3,
    pending <- smePending, flight <- smeFlight
TakeoverPlan == INSTANCE SmeWorkspace WITH
    Packs <- {"takeover"}, TakeoverPacks <- {"takeover"},
    Modes <- {"buy_build", "scenario"}, DefaultMode <- "buy_build",
    Values <- [takeover |-> Enterable(DOMAIN Takeover)],
    Samples <- [takeover |-> Takeover], Sheets <- {}, Precision <- 10,
    MaxSafe <- 1000, MaxRows <- 1, MaxFlight <- 0, MaxEdits <- 3,
    pending <- smePending, flight <- smeFlight

\* Three callers of one readiness flight that takes two.
Probe == INSTANCE ListingProbe WITH
    Requests <- 1 .. 3, MaxWaiters <- 2, asked <- probeAsked,
    status <- probeStatus, aborted <- probeAborted

-----------------------------------------------------------------------------
ASSUME
    /\ Queue!QueueAssumption /\ Review!ReviewAssumption
    /\ Later!ReviewAssumption /\ Link!PageAssumption
    /\ Panel!PageAssumption /\ Tools!StorefrontAssumption
    /\ Actions!StorefrontAssumption /\ Shopper!ShopperAssumption
    /\ Orders!WindowInsideRetention /\ Orders!ModeAssumption
    /\ Orders!NoneAreDistinct /\ Retries!WindowInsideRetention
    /\ Retries!ModeAssumption /\ Retries!NoneAreDistinct
    /\ Recoverable!WindowInsideRetention /\ Recoverable!ModeAssumption
    /\ Recoverable!NoneAreDistinct /\ Repeated!WindowInsideRetention
    /\ Repeated!ModeAssumption /\ Repeated!NoneAreDistinct
    /\ Listings!DraftAssumption
    /\ Reviews!DraftAssumption /\ Device!DraftAssumption
    /\ Launches!DraftAssumption /\ Worksheet!SmeAssumption /\ Changes!SmeAssumption
    /\ MonthlyPlan!SmeAssumption /\ TakeoverPlan!SmeAssumption
    /\ Probe!ProbeAssumption

Scenarios == { "offline queue", "sync merge", "review in two pages",
              "review checked later", "merchant link", "merchant panel",
              "storefront tools", "storefront actions", "shopper page",
              "checkout in two tabs", "checkout retried",
              "checkout with recovery files",
              "recovery files and a fault", "draft listing", "draft review",
              "draft on two devices", "draft launch", "SME worksheet",
              "SME packs changed", "SME monthly plan", "SME takeover plan", "readiness flights"}

\* Everybody but one component stands still.
Still(component) ==
    /\ UNCHANGED scenario
    /\ IF component = "LocalStore" THEN TRUE ELSE UNCHANGED queueVars
    /\ IF component = "SyncMerge" THEN TRUE ELSE UNCHANGED syncVars
    /\ IF component = "MerchantReview" THEN TRUE ELSE UNCHANGED reviewVars
    /\ IF component = "MerchantPage" THEN TRUE ELSE UNCHANGED merchantVars
    /\ IF component = "StorefrontActions" THEN TRUE ELSE UNCHANGED toolsVars
    /\ IF component = "ShopperPage" THEN TRUE ELSE UNCHANGED shopperVars
    /\ IF component = "LocalCheckout" THEN TRUE ELSE UNCHANGED checkoutVars
    /\ IF component = "DraftWorkspace" THEN TRUE ELSE UNCHANGED draftVars
    /\ IF component = "SmeWorkspace" THEN TRUE ELSE UNCHANGED smeVars
    /\ IF component = "ListingProbe" THEN TRUE ELSE UNCHANGED probeVars

Init ==
    /\ scenario \in Scenarios
    /\ Queue!Init
    /\ scenario \notin {"offline queue"} =>
         online
    /\ Sync!Init
    /\ CASE scenario = "review checked later" -> Later!Init
         [] OTHER -> Review!Init
    /\ CASE scenario = "merchant panel" -> Panel!Init
         [] OTHER -> Link!Init
    /\ CASE scenario = "storefront actions" -> Actions!Init
         [] OTHER -> Tools!Init
    /\ Shopper!Init
    /\ CASE scenario = "checkout retried" -> Retries!Init
         [] scenario = "checkout with recovery files" -> Recoverable!Init
         [] scenario = "recovery files and a fault" -> Repeated!Init
         [] OTHER -> Orders!Init
    /\ CASE scenario = "draft review" -> Reviews!Init
         [] scenario = "draft on two devices" -> Device!Init
         [] scenario = "draft launch" -> Launches!Init
         [] OTHER -> Listings!Init
    /\ CASE scenario = "SME packs changed" -> Changes!Init
         [] scenario = "SME monthly plan" -> MonthlyPlan!Init
         [] scenario = "SME takeover plan" -> TakeoverPlan!Init
         [] OTHER -> Worksheet!Init
    /\ scenario \notin {"SME worksheet", "SME packs changed", "SME monthly plan",
                     "SME takeover plan"} =>
         pack = "plan"
    /\ Probe!Init
    /\ scenario \notin {"readiness flights"} =>
         good

QueueStep == scenario = "offline queue" /\ Queue!Next /\ Still("LocalStore")
SyncStep == scenario = "sync merge" /\ Sync!Next /\ Still("SyncMerge")
ReviewStep == scenario = "review in two pages" /\ Review!Next /\ Still("MerchantReview")
LaterStep == scenario = "review checked later" /\ Later!Next /\ Still("MerchantReview")
LinkStep == scenario = "merchant link" /\ Link!Next /\ Still("MerchantPage")
PanelStep == scenario = "merchant panel" /\ Panel!Next /\ Still("MerchantPage")
ToolsStep == scenario = "storefront tools" /\ Tools!Next /\ Still("StorefrontActions")
ActionsStep == scenario = "storefront actions" /\ Actions!Next /\ Still("StorefrontActions")
ShopperStep == scenario = "shopper page" /\ Shopper!Next /\ Still("ShopperPage")
OrdersStep == scenario = "checkout in two tabs" /\ Orders!Next /\ Still("LocalCheckout")
RetriesStep == scenario = "checkout retried" /\ Retries!Next /\ Still("LocalCheckout")
RecoverableStep == scenario = "checkout with recovery files" /\ Recoverable!Next /\ Still("LocalCheckout")
RepeatedStep == scenario = "recovery files and a fault" /\ Repeated!Next /\ Still("LocalCheckout")
ListingsStep == scenario = "draft listing" /\ Listings!Next /\ Still("DraftWorkspace")
ReviewsStep == scenario = "draft review" /\ Reviews!Next /\ Still("DraftWorkspace")
DeviceStep == scenario = "draft on two devices" /\ Device!Next /\ Still("DraftWorkspace")
LaunchesStep == scenario = "draft launch" /\ Launches!Next /\ Still("DraftWorkspace")
WorksheetStep == scenario = "SME worksheet" /\ Worksheet!Next /\ Still("SmeWorkspace")
ChangesStep == scenario = "SME packs changed" /\ Changes!Next /\ Still("SmeWorkspace")
MonthlyPlanStep == scenario = "SME monthly plan" /\ MonthlyPlan!Next /\ Still("SmeWorkspace")
TakeoverPlanStep == scenario = "SME takeover plan" /\ TakeoverPlan!Next /\ Still("SmeWorkspace")
ProbeStep == scenario = "readiness flights" /\ Probe!Next /\ Still("ListingProbe")

Next ==
    \/ QueueStep \/ SyncStep \/ ReviewStep \/ LaterStep
    \/ LinkStep \/ PanelStep \/ ToolsStep \/ ActionsStep
    \/ ShopperStep \/ OrdersStep \/ RetriesStep \/ RecoverableStep
    \/ RepeatedStep
    \/ ListingsStep \/ ReviewsStep \/ DeviceStep \/ LaunchesStep
    \/ WorksheetStep \/ ChangesStep \/ MonthlyPlanStep \/ TakeoverPlanStep \/ ProbeStep

Spec == Init /\ [][Next]_vars

Symmetry == Permutations({t1, t2}) \cup Permutations({n1, n2})
-----------------------------------------------------------------------------
\* LocalStore: no change recorded offline is lost before the core has merged
\* it, and the changes of a scope are merged in the order they were recorded,
\* although two tabs replay one queue and may close in the middle.
\* SyncMerge: devices that received the same changes, in any order and
\* pieces, hold the same state, and each field the latest change.
OfflineWorkSafe ==
    /\ scenario = "offline queue" =>
         /\ Queue!TypeOK /\ Queue!NoChangeLost /\ Queue!MergedInOrder
    /\ scenario = "sync merge" => Sync!Confluence

\* MerchantReview: a status shown as applied is true of the published
\* registry, one publisher works on a proposal, a check is final.
\* MerchantPage: credential, registry and catalog on the page belong to the
\* link the merchant last asked for, and a check that is shown as passed is
\* fresh.  DraftWorkspace: an edit is never undone by the answer of an older
\* save, a job's handle is that of its run, a review is of the current
\* revision, what is selected was reviewed and what is exported was
\* acknowledged, over tabs and devices.  SmeWorkspace: the plan on the page
\* is that of the rows entered now, a pending plan is really awaited, every
\* range it gives holds for all numbers within the ranges entered, and what
\* it leaves unknown it accounts for. ListingProbe: one verifier runs at a
\* time and nobody is answered from somebody else's refused flight.
SellingSafe ==
    /\ scenario = "review in two pages" =>
         /\ Review!TypeOK /\ Review!AppliedIsTrue /\ Review!OnePublisher
         /\ Review!CheckIsFinal
    /\ scenario = "review checked later" =>
         /\ Later!TypeOK /\ Later!AppliedIsTrue /\ Later!OnePublisher
         /\ Later!CheckIsFinal
    /\ scenario = "merchant link" =>
         /\ Link!TypeOK /\ Link!CredentialIsWanted /\ Link!RegistryIsOwn
         /\ Link!CatalogIsAsked
    /\ scenario = "merchant panel" => Panel!TypeOK /\ Panel!PassedIsFresh
    /\ scenario = "draft listing" =>
         /\ Listings!TypeOK /\ Listings!EditNeverUndone
         /\ Listings!HandleIsItsRun
    /\ scenario = "draft review" =>
         /\ Reviews!TypeOK /\ Reviews!ReviewedIsCurrent
         /\ Reviews!SelectedWasReviewed
    /\ scenario = "draft on two devices" =>
         /\ Device!TypeOK /\ Device!SelectedWasReviewed
    /\ scenario = "draft launch" =>
         /\ Launches!TypeOK /\ Launches!ExportedWasAcknowledged
    /\ scenario = "SME worksheet" =>
         /\ Worksheet!PlanIsCurrent /\ Worksheet!PendingIsAwaited
    /\ scenario = "SME packs changed" =>
         /\ Changes!PlanIsCurrent /\ Changes!PendingIsAwaited
    /\ scenario = "SME monthly plan" =>
         /\ MonthlyPlan!ModelEncloses /\ MonthlyPlan!UnknownIsAccounted
    /\ scenario = "SME takeover plan" =>
         /\ TakeoverPlan!ModelEncloses /\ TakeoverPlan!UnknownIsAccounted
    /\ scenario = "readiness flights" =>
         /\ Probe!TypeOK /\ Probe!OneVerifier /\ Probe!NobodyIsServed

\* StorefrontActions: a registration given up leaves no tool behind, a tool
\* runs only under exactly the registered tools and a discovered offer is of
\* the agent that lists it.  ShopperPage: what is shown for confirmation is
\* the offer and the price that were asked for and selected, whatever was
\* searched and selected meanwhile.  LocalCheckout: one payable checkout
\* session per basket and one order per idempotency key, over tabs, retries
\* and lost answers, and in a single tab the recovery file of every paid
\* order was saved.
BuyingSafe ==
    /\ scenario = "storefront tools" =>
         /\ Tools!TypeOK /\ Tools!NoPartialToolSet
         /\ Tools!ExecutedUnderRegistered /\ Tools!OffersAreOfTheirAgent
    /\ scenario = "storefront actions" =>
         /\ Actions!TypeOK /\ Actions!NoPartialToolSet
         /\ Actions!ExecutedUnderRegistered /\ Actions!OffersAreOfTheirAgent
    /\ scenario = "shopper page" =>
         /\ Shopper!TypeOK /\ Shopper!PreparedIsAsked
         /\ Shopper!PreparedIsSelected
    /\ scenario = "checkout in two tabs" =>
         /\ Orders!TypeOK /\ Orders!OnePayable /\ Orders!OneOrderPerKey
    /\ scenario = "checkout retried" =>
         /\ Retries!TypeOK /\ Retries!OneOrderPerKey
    /\ scenario = "checkout with recovery files" =>
         /\ Recoverable!TypeOK /\ Recoverable!OneOrderPerKey
         /\ Recoverable!PaidIsRecoverable
    /\ scenario = "recovery files and a fault" =>
         /\ Repeated!TypeOK /\ Repeated!OneOrderPerKey
         /\ Repeated!PaidIsRecoverable

\* What no step may do: forget a change or move a field back (SyncMerge),
\* keep the environment's result over a loss of connection (MerchantPage),
\* show an older search over a newer one (ShopperPage), drop the handle of a
\* job that runs (DraftWorkspace), export or replace other rows than were
\* seen (SmeWorkspace), answer ready from a verification that began before
\* the request (ListingProbe).
PageSteps ==
    /\ Sync!NothingForgotten
    /\ Panel!OfflineForgets
    /\ Shopper!ResultsInOrder
    /\ Listings!RunningHandleKept
    /\ Worksheet!WorksheetsAreCurrent
    /\ Changes!WorksheetsAreCurrent
    /\ Probe!ReadyIsFresh

=============================================================================
