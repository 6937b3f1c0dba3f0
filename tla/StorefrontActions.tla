-------------------------- MODULE StorefrontActions -------------------------
(***************************************************************************)
(* The storefront's three actions as page tools: registerStorefrontTools   *)
(* offers catalog search, offer selection and checkout initiation to the   *)
(* browser's model context, each behind a guard that compares the tools    *)
(* the context lists with the ones registered; createStorefrontActions     *)
(* performs them over one catalog and one selection.  Tool calls overlap,  *)
(* and every await of a call lets the others run.                          *)
(***************************************************************************)
EXTENDS Naturals, Sequences, SequencesExt

CONSTANTS
    None,
    Calls,           \* tool calls under way at the same time
    Payloads,        \* catalog answers: sequences of listings
    Offers,          \* offers a caller may name
    Routed,          \* offers a routed agent may answer
    MaximumSearchLimit,
    MaxCalls, MaxForeign     \* bounds

StorefrontAssumption ==
    /\ MaximumSearchLimit \in Nat \ {0}
    /\ MaxCalls \in Nat /\ MaxForeign \in Nat
    /\ \A p \in Payloads : \A i \in DOMAIN p : p[i].offers \subseteq Offers

VARIABLES
    registration,    \* "new", "pending", "live", "absent", "timeout", "failed"
    aborted,         \* registrationController
    listed,          \* tools in the model context: [name, schema]
    catalog, selected,
    call,
    drifted,         \* ghost: a call was refused for a drift
    prepared,        \* ghost: checkouts prepared [want, sent]
    begun, foreign

vars == <<registration, aborted, listed, catalog, selected, call, drifted, prepared, begun, foreign>>
toolVars == <<registration, aborted, listed>>
shopVars == <<catalog, selected>>

--------------------------------------------------------------------------------
\* Registration of the tools.

\* storefrontToolDefinitions, as the context lists them.
Definitions == {[name |-> n, schema |-> "ours"] : n \in {"search", "select", "initiate"}}

\* buildRegisteredToolSet: the digest covers names, schemas and their number.
RegisteredToolSet == Definitions

Idle == [tool |-> "none", pc |-> "idle", want |-> None, offer |-> None, scoped |-> <<>>,
         limit |-> 0, observed |-> {}, late |-> FALSE]

Init ==
    /\ registration = "new" /\ aborted = FALSE /\ listed = {}
    /\ catalog = <<>> /\ selected = None
    /\ call = [c \in Calls |-> Idle]
    /\ drifted = FALSE /\ prepared = {} /\ begun = 0 /\ foreign = 0

Unchanged == UNCHANGED <<shopVars, call, drifted, prepared, begun, foreign>>

\* registerStorefrontTools begins, or finds no model context.
registerStorefrontTools ==
    /\ registration = "new"
    /\ registration' \in {"pending", "absent"}
    /\ UNCHANGED <<aborted, listed>> /\ Unchanged

\* The context takes one tool, unless the registration was given up.
RegisterTool(d) ==
    /\ registration \in {"pending", "timeout", "failed"} /\ ~aborted /\ d \notin listed
    /\ listed' = listed \cup {d}
    /\ UNCHANGED <<registration, aborted>> /\ Unchanged

\* Mutant: the failure is reported and the tools are left.
X_GiveUp(outcome) ==
    /\ registration' = outcome
    /\ UNCHANGED <<aborted, listed>>

\* registrationController.abort withdraws the tools that were taken.
GiveUp(outcome) ==
    /\ registration' = outcome /\ aborted' = TRUE
    /\ listed' = listed \ Definitions

\* verifyBeforeExecute: no refusal.
verifyBeforeExecute(observed) == observed = RegisteredToolSet

\* All tools were taken within the deadline; the set listed is compared.
RegistrationEnds ==
    /\ registration = "pending" /\ Definitions \subseteq listed
    /\ IF verifyBeforeExecute(listed)
       THEN registration' = "live" /\ UNCHANGED <<aborted, listed>>
       ELSE GiveUp("failed")
    /\ Unchanged

\* withinRegistrationDeadline: the two seconds are over, or a registration
\* was refused.
RegistrationFails ==
    /\ registration = "pending"
    /\ \E outcome \in {"timeout", "failed"} : GiveUp(outcome)
    /\ Unchanged

\* The page is left: its tools are withdrawn, its calls may still run.
pagehide ==
    /\ registration \in {"pending", "live"} /\ ~aborted
    /\ GiveUp(registration)
    /\ Unchanged

\* Another script of the page adds, removes or redefines a tool.
ForeignTool ==
    /\ foreign < MaxForeign /\ foreign' = foreign + 1
    /\ LET alien == [name |-> "alien", schema |-> "other"]
       IN  listed' \in {listed \cup {alien}, listed \ {alien}}
                       \cup {(listed \ {d}) \cup {[d EXCEPT !.schema = "other"]} : d \in listed \cap Definitions}
                       \cup {listed \ {d} : d \in listed \cap Definitions}
    /\ listed' # listed
    /\ UNCHANGED <<registration, aborted, shopVars, call, drifted, prepared, begun>>

--------------------------------------------------------------------------------
\* A tool call's guard.

Step(c, pc) == call' = [call EXCEPT ![c].pc = pc]
End(c) == call' = [call EXCEPT ![c] = Idle]

Names(offer) == [id |-> offer.id, price |-> offer.price]

\* observedNativeToolSet: a call of one of our tools reads the tools listed.
observedNativeToolSet(c, tool, want) ==
    /\ call[c].pc = "idle" /\ begun < MaxCalls /\ begun' = begun + 1
    /\ [name |-> tool, schema |-> "ours"] \in listed
    /\ \E limit \in IF tool = "search" THEN 1..MaximumSearchLimit ELSE {0} :
          call' = [call EXCEPT ![c] = [Idle EXCEPT !.tool = tool, !.pc = "observed", !.want = want, !.limit = limit,
                                                   !.observed = listed, !.late = drifted]]
    /\ UNCHANGED <<toolVars, shopVars, drifted, prepared, foreign>>

\* Mutant: a drift is answered, and the tools stay.
X_Refuse(c) == UNCHANGED toolVars /\ End(c)

\* A drift withdraws the tools and is answered.
Refuse(c) == GiveUp(registration) /\ End(c)

\* The guard refuses, finds its signal aborted, or executes the tool.
GuardedExecute(c) ==
    /\ call[c].pc = "observed"
    /\ IF verifyBeforeExecute(call[c].observed)
       THEN /\ \/ Step(c, call[c].tool) \/ End(c)
            /\ UNCHANGED <<toolVars, drifted>>
       ELSE Refuse(c) /\ drifted' = TRUE
    /\ UNCHANGED <<shopVars, prepared, begun, foreign>>

--------------------------------------------------------------------------------
\* searchCatalog.

matchesQuery(listing) == listing.matches

\* readListing: its fields and its offers.
readListing(listing) == listing.valid

\* readListings: one malformed listing or offer fails the answer.
readListings(payload) == \A i \in DOMAIN payload : readListing(payload[i])

\* Mutant: the limit is left to the core.
X_Slice(found, limit) == found

Slice(found, limit) == SubSeq(found, 1, IF Len(found) < limit THEN Len(found) ELSE limit)

WithOffers(scoped) == \E i \in DOMAIN scoped : scoped[i].offers # {}

\* The catalog is fetched: refused, invalid, used as it is, or without any
\* offer, which the search then has to discover.
searchCatalog(c) ==
    /\ call[c].pc = "search"
    /\ \/ End(c) /\ UNCHANGED catalog
       \/ \E payload \in Payloads :
             LET scoped == Slice(SelectSeq(payload, matchesQuery), call[c].limit)
             IN  IF ~readListings(payload) THEN End(c) /\ UNCHANGED catalog
                 ELSE IF scoped = <<>> \/ WithOffers(scoped) THEN catalog' = scoped /\ End(c)
                 ELSE /\ call' = [call EXCEPT ![c].pc = "session", ![c].scoped = scoped]
                      /\ UNCHANGED catalog
    /\ UNCHANGED <<toolVars, selected, drifted, prepared, begun, foreign>>

\* establishSession, before an intent is routed or a checkout prepared.
establishSession(c) ==
    /\ call[c].pc \in {"session", "checkout"}
    /\ \/ End(c)
       \/ Step(c, IF call[c].pc = "session" THEN "route" ELSE "prepare")
    /\ UNCHANGED <<toolVars, shopVars, drifted, prepared, begun, foreign>>

\* unavailableListing
unavailableListing(listing) == [listing EXCEPT !.offers = {}]

\* merchantScopeUnavailable
merchantScopeUnavailable(scoped) == [i \in DOMAIN scoped |-> unavailableListing(scoped[i])]

\* Mutant: an offer of another intent or agent is taken.
X_readDiscoveredOffer(offer, agent) == TRUE

\* readDiscoveredOffer: of this intent and of the routed agent.
readDiscoveredOffer(offer, agent) == offer.intent = "this" /\ offer.agent = agent

Agents == UNION {{p[i].agent : i \in DOMAIN p} : p \in Payloads} \cup {"stranger"}

\* The router's receipt: no offer, or one, which may be of another intent or
\* agent.
Receipts == {{}} \cup {{[id |-> o.id, price |-> o.price, agent |-> a, intent |-> i]} :
                          o \in Routed, a \in Agents, i \in {"this", "other"}}

\* readDiscoveredOffers: the listing of the routed agent gets the offers, the
\* others become unavailable.
readDiscoveredOffers(scoped, agent, receipt) ==
    LET at == {i \in DOMAIN scoped : scoped[i].agent = agent}
    IN  IF at = {} \/ receipt = {} THEN merchantScopeUnavailable(scoped)
        ELSE [i \in DOMAIN scoped |->
                IF i = CHOOSE k \in at : \A j \in at : k <= j
                THEN [scoped[i] EXCEPT !.offers = receipt] ELSE unavailableListing(scoped[i])]

\* The route answers: a failure, or an agent with a receipt.
RouteAnswer(c) ==
    /\ call[c].pc = "route"
    /\ \/ UNCHANGED catalog
       \/ \E agent \in Agents, receipt \in Receipts :
             IF \A o \in receipt : readDiscoveredOffer(o, agent)
             THEN catalog' = readDiscoveredOffers(call[c].scoped, agent, receipt)
             ELSE UNCHANGED catalog
    /\ End(c)
    /\ UNCHANGED <<toolVars, selected, drifted, prepared, begun, foreign>>

--------------------------------------------------------------------------------
\* selectOffer and initiateCheckout.

Found(want) == {o \in UNION {catalog[i].offers : i \in DOMAIN catalog} : o.id = want.id}

\* selectOffer finds the offer in the catalog.
selectOffer(c) ==
    /\ call[c].pc = "select"
    /\ IF Found(call[c].want) = {} THEN End(c)
       ELSE \E o \in Found(call[c].want) : call' = [call EXCEPT ![c].pc = "record", ![c].offer = o]
    /\ UNCHANGED <<toolVars, shopVars, drifted, prepared, begun, foreign>>

\* The change is recorded, then the offer is selected; a full store refuses.
SelectRecorded(c) ==
    /\ call[c].pc = "record"
    /\ \/ selected' = call[c].offer
       \/ UNCHANGED selected
    /\ End(c)
    /\ UNCHANGED <<toolVars, catalog, drifted, prepared, begun, foreign>>

\* initiateCheckout compares what it was asked for with the selection.
initiateCheckout(c) ==
    /\ call[c].pc = "initiate"
    /\ IF selected # None /\ Names(selected) = Names(call[c].want) THEN Step(c, "checkout") ELSE End(c)
    /\ UNCHANGED <<toolVars, shopVars, drifted, prepared, begun, foreign>>

\* It prepares the checkout of what is selected by now.
PrepareCheckout(c) ==
    /\ call[c].pc = "prepare"
    /\ prepared' = prepared \cup {[want |-> Names(call[c].want), sent |-> Names(selected)]}
    /\ End(c)
    /\ UNCHANGED <<toolVars, shopVars, drifted, begun, foreign>>

Next ==
    \/ registerStorefrontTools \/ RegistrationEnds \/ RegistrationFails \/ pagehide \/ ForeignTool
    \/ \E d \in Definitions : RegisterTool(d)
    \/ \E c \in Calls :
          \/ observedNativeToolSet(c, "search", None)
          \/ \E o \in Offers : observedNativeToolSet(c, "select", o) \/ observedNativeToolSet(c, "initiate", o)
          \/ GuardedExecute(c) \/ searchCatalog(c) \/ establishSession(c) \/ RouteAnswer(c)
          \/ selectOffer(c) \/ SelectRecorded(c) \/ initiateCheckout(c) \/ PrepareCheckout(c)

Spec == Init /\ [][Next]_vars

--------------------------------------------------------------------------------
\* Types.
TypeOK ==
    /\ registration \in {"new", "pending", "live", "absent", "timeout", "failed"}
    /\ Len(catalog) <= MaximumSearchLimit
    /\ selected # None => selected.id \in {o.id : o \in Offers}

\* A registration that was given up, for a timeout, a failure or a drift, and
\* the browser's late completions of it, leave no tool of the page behind.
NoPartialToolSet ==
    aborted \/ registration \in {"timeout", "failed"} => listed \cap Definitions = {}

Executing(c) == call[c].pc \notin {"idle", "observed"}

\* A tool runs only if the tools listed while it was called were exactly the
\* registered ones, and no earlier call had been refused for a drift.
ExecutedUnderRegistered ==
    \A c \in Calls : Executing(c) => call[c].observed = RegisteredToolSet /\ ~call[c].late

\* Every offer discovered for a listing is of the agent that lists it, however
\* the answers to overlapping searches arrive.
OffersAreOfTheirAgent ==
    \A i \in DOMAIN catalog : \A o \in catalog[i].offers :
        "intent" \in DOMAIN o => o.agent = catalog[i].agent /\ o.intent = "this"

\* A checkout is prepared for the offer and the price its caller named.
\* The code does not keep it, and no run checks it (README, disagreements).
PreparedIsAsked == \A p \in prepared : p.sent = p.want

================================================================================
