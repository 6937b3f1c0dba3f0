----------------------------- MODULE ShopperPage ----------------------------
(***************************************************************************)
(* The shopper page: searches of the catalog, the selection of an offer,   *)
(* the preparation of its checkout and its confirmation, by the shopper's  *)
(* clicks and by tool calls at the same time.  Each action reads the       *)
(* page's variables, awaits the network or the local store, and reads or   *)
(* writes them again; searchGeneration, checkoutPreparing and              *)
(* checkoutConfirming are what keeps them apart.                           *)
(***************************************************************************)
EXTENDS Naturals, FiniteSets

CONSTANTS
    None,
    Offers,          \* [id, price]
    Results,         \* what a search may find: sets of offers
    Selections,      \* selections under way at the same time
    MaxSearches, MaxSelections, MaxCheckouts, MaxFaults,   \* bounds
    Aborts           \* TRUE if a tool call may be cancelled by its caller

ShopperAssumption ==
    /\ Results \subseteq SUBSET Offers /\ Aborts \in BOOLEAN
    /\ {MaxSearches, MaxSelections, MaxCheckouts, MaxFaults} \subseteq Nat

VARIABLES
    online, offlineShown,
    searchGeneration,
    searches,        \* searches under way: [gen, pc, found]
    catalog,         \* [gen, offers]
    snapshot,        \* the saved catalog
    offlineReads,    \* showOffline awaiting the snapshot
    selectedOffer,
    selecting,       \* selections awaiting the local store: [gen, offer], or None
    checkoutPreparing, checkoutConfirming,
    preparing,       \* the preparation under way: [pc, ask]
    preparedConfirmation,
    asked,           \* ghost: what the preparation was asked for
    cut,             \* ghost: the network has failed since the page was online
    faults, selections, checkouts

searchVars == <<searchGeneration, searches, catalog, snapshot, offlineReads>>
selectVars == <<selectedOffer, selecting, selections>>
checkoutVars == <<checkoutPreparing, checkoutConfirming, preparing, preparedConfirmation, asked, checkouts>>
netVars == <<online, offlineShown, cut, faults>>
vars == <<searchVars, selectVars, checkoutVars, netVars>>

Empty == [gen |-> 0, offers |-> {}]

Init ==
    /\ online = TRUE /\ offlineShown = FALSE /\ cut = FALSE /\ faults = 0
    /\ searchGeneration = 0 /\ searches = {} /\ catalog = Empty /\ snapshot = None /\ offlineReads = 0
    /\ selectedOffer = None /\ selecting = [t \in Selections |-> None] /\ selections = 0
    /\ checkoutPreparing = FALSE /\ checkoutConfirming = FALSE /\ preparing = None
    /\ preparedConfirmation = None /\ asked = None /\ checkouts = 0

Busy == checkoutPreparing \/ checkoutConfirming

--------------------------------------------------------------------------------
\* Offline and online.

\* showOffline: the indicator at once, the saved catalog when it is read.
showOffline == offlineShown' = TRUE /\ offlineReads' = offlineReads + 1

ShowSnapshot ==
    /\ offlineReads > 0 /\ offlineReads' = offlineReads - 1
    /\ catalog' = IF snapshot = None THEN catalog ELSE snapshot
    /\ UNCHANGED <<searchGeneration, searches, snapshot, selectVars, checkoutVars, netVars>>

GoOffline ==
    /\ online /\ faults < MaxFaults /\ faults' = faults + 1
    /\ online' = FALSE /\ cut' = TRUE
    /\ showOffline
    /\ UNCHANGED <<searchGeneration, searches, catalog, snapshot, selectVars, checkoutVars>>

\* The online event: showOnline.
GoOnline ==
    /\ ~online /\ online' = TRUE /\ offlineShown' = FALSE /\ cut' = FALSE
    /\ UNCHANGED <<faults, searchVars, selectVars, checkoutVars>>

--------------------------------------------------------------------------------
\* searchCatalog.

searchCatalog ==
    /\ ~Busy /\ searchGeneration < MaxSearches
    /\ searchGeneration' = searchGeneration + 1
    /\ IF online
       THEN /\ searches' = searches \cup {[gen |-> searchGeneration + 1, pc |-> "fetch", found |-> {}]}
            /\ UNCHANGED <<offlineShown, offlineReads>>
       ELSE showOffline /\ UNCHANGED searches
    /\ UNCHANGED <<catalog, snapshot, selectVars, checkoutVars, online, cut, faults>>

\* The request fails on the network, or its caller aborts it: either way the
\* page takes itself for offline.
SearchFails(s) ==
    /\ s \in searches /\ s.pc = "fetch"
    /\ \/ faults < MaxFaults /\ faults' = faults + 1 /\ cut' = TRUE
       \/ Aborts /\ UNCHANGED <<faults, cut>>
    /\ searches' = searches \ {s}
    /\ showOffline
    /\ UNCHANGED <<searchGeneration, catalog, snapshot, selectVars, checkoutVars, online>>

\* The answer is not ok or unreadable, or the caller aborts after it: the
\* search throws and leaves the page as it is.
SearchRefused(s) ==
    /\ s \in searches /\ s.pc \in {"fetch", "discover", "found"}
    /\ searches' = searches \ {s}
    /\ UNCHANGED <<searchGeneration, catalog, snapshot, offlineReads, selectVars, checkoutVars, netVars>>

\* parseCatalog, then discoverOffers when no listing has an offer: the offers
\* of the answer, of the routed agent, or none.
parseCatalog(s) ==
    /\ s \in searches /\ s.pc = "fetch"
    /\ \E found \in Results :
          searches' = (searches \ {s}) \cup {[s EXCEPT !.pc = IF found = {} THEN "discover" ELSE "found", !.found = found]}
    /\ UNCHANGED <<searchGeneration, catalog, snapshot, offlineReads, selectVars, checkoutVars, netVars>>

\* discoverOffers: offers of this intent and agent, or unavailability.
discoverOffers(s) ==
    /\ s \in searches /\ s.pc = "discover"
    /\ \E found \in Results :
          searches' = (searches \ {s}) \cup {[s EXCEPT !.pc = "found", !.found = found]}
    /\ UNCHANGED <<searchGeneration, catalog, snapshot, offlineReads, selectVars, checkoutVars, netVars>>

\* Mutant: the last search to end is shown.
X_Superseded(s) == Busy

Superseded(s) == s.gen # searchGeneration \/ Busy

\* The search ends: superseded or aborted, or its results replace the
\* catalog, the selection and what was prepared.
SearchEnds(s) ==
    /\ s \in searches /\ s.pc = "found"
    /\ IF Superseded(s)
       THEN /\ searches' = searches \ {s}
            /\ UNCHANGED <<catalog, selectedOffer, preparedConfirmation, asked>>
       ELSE /\ searches' = (searches \ {s}) \cup {[s EXCEPT !.pc = "save"]}
            /\ catalog' = [gen |-> s.gen, offers |-> s.found]
            /\ selectedOffer' = None /\ preparedConfirmation' = None /\ asked' = None
    /\ UNCHANGED <<searchGeneration, snapshot, offlineReads, selecting, selections,
                   checkoutPreparing, checkoutConfirming, preparing, checkouts, netVars>>

\* saveSnapshot, then showOnline.
SearchSaved(s) ==
    /\ s \in searches /\ s.pc = "save"
    /\ searches' = searches \ {s}
    /\ snapshot' = [gen |-> s.gen, offers |-> s.found]
    /\ offlineShown' = FALSE
    /\ UNCHANGED <<searchGeneration, catalog, offlineReads, selectVars, checkoutVars, online, cut, faults>>

--------------------------------------------------------------------------------
\* selectOffer.

selectOffer(t, o) ==
    /\ ~Busy /\ selecting[t] = None /\ o \in catalog.offers
    /\ selections < MaxSelections /\ selections' = selections + 1
    /\ selecting' = [selecting EXCEPT ![t] = [gen |-> searchGeneration, offer |-> o]]
    /\ UNCHANGED <<selectedOffer, searchVars, checkoutVars, netVars>>

\* Mutant: a selection does not look at a checkout that began meanwhile.
X_Drift(t) == selecting[t].gen # searchGeneration

Drift(t) == selecting[t].gen # searchGeneration \/ Busy

\* Mutant: the new selection leaves the prepared one open.
X_TakeSelection(t) == selectedOffer' = selecting[t].offer /\ UNCHANGED <<preparedConfirmation, asked>>

TakeSelection(t) == selectedOffer' = selecting[t].offer /\ preparedConfirmation' = None /\ asked' = None

\* The change is recorded (or the store is full): the selection, unless a
\* search or a checkout began meanwhile.
SelectionRecorded(t) ==
    /\ selecting[t] # None
    /\ selecting' = [selecting EXCEPT ![t] = None]
    /\ \/ UNCHANGED <<selectedOffer, preparedConfirmation, asked>>
       \/ ~Drift(t) /\ TakeSelection(t)
    /\ UNCHANGED <<selections, searchVars, checkoutPreparing, checkoutConfirming, preparing, checkouts, netVars>>

--------------------------------------------------------------------------------
\* initiateCheckout and the confirmation.

\* Mutant: only what is prepared is guarded against, not what is being
\* prepared.
X_AlreadyPrepared == preparedConfirmation # None

AlreadyPrepared == Busy \/ preparedConfirmation # None

\* It is asked for an offer at a price, which must be the selection's; an
\* early return lowers the flag again (finally).
initiateCheckout(ask) ==
    /\ ~AlreadyPrepared /\ checkouts < MaxCheckouts /\ checkouts' = checkouts + 1
    /\ IF online /\ selectedOffer = ask
       THEN /\ checkoutPreparing' = TRUE /\ asked' = ask
            /\ preparing' = [pc |-> "session"]
       ELSE checkoutPreparing' = FALSE /\ UNCHANGED <<preparing, asked>>
    /\ UNCHANGED <<checkoutConfirming, preparedConfirmation, searchVars, selectVars, netVars>>

\* establishSession answers; the checkout is sent with what is selected now.
SendPrepare ==
    /\ preparing # None /\ preparing.pc = "session"
    /\ preparing' = [pc |-> "sent"]
    /\ UNCHANGED <<checkoutPreparing, checkoutConfirming, preparedConfirmation, asked, checkouts,
                   searchVars, selectVars, netVars>>

\* The preparation ends: refused or failed, or awaiting the human.
PrepareAnswer ==
    /\ preparing # None
    /\ preparing' = None /\ checkoutPreparing' = FALSE
    /\ preparedConfirmation' \in {preparedConfirmation} \cup (IF preparing.pc = "sent" THEN {selectedOffer} ELSE {})
    /\ UNCHANGED <<checkoutConfirming, asked, checkouts, searchVars, selectVars, netVars>>

\* The confirm button.
confirmPreparedCheckout ==
    /\ ~checkoutConfirming /\ preparedConfirmation # None /\ online
    /\ checkoutConfirming' = TRUE
    /\ UNCHANGED <<checkoutPreparing, preparing, preparedConfirmation, asked, checkouts, searchVars, selectVars, netVars>>

\* The confirmation ends: settled, or open for a retry or a new review.
ConfirmAnswer ==
    /\ checkoutConfirming /\ checkoutConfirming' = FALSE
    /\ \/ preparedConfirmation' = None /\ selectedOffer' = None /\ asked' = None
       \/ UNCHANGED <<preparedConfirmation, selectedOffer, asked>>
    /\ UNCHANGED <<checkoutPreparing, preparing, checkouts, selecting, selections, searchVars, netVars>>

Next ==
    \/ GoOffline \/ GoOnline \/ ShowSnapshot \/ searchCatalog
    \/ \E s \in searches : \/ SearchFails(s) \/ SearchRefused(s) \/ parseCatalog(s) \/ discoverOffers(s)
                           \/ SearchEnds(s) \/ SearchSaved(s)
    \/ \E t \in Selections : SelectionRecorded(t) \/ \E o \in Offers : selectOffer(t, o)
    \/ \E o \in Offers : initiateCheckout(o)
    \/ SendPrepare \/ PrepareAnswer \/ confirmPreparedCheckout \/ ConfirmAnswer

Spec == Init /\ [][Next]_vars

--------------------------------------------------------------------------------
\* Types; a preparation and the flag that guards it go together.
TypeOK ==
    /\ selectedOffer \in Offers \cup {None} /\ preparedConfirmation \in Offers \cup {None}
    /\ catalog.gen \in 0..searchGeneration
    /\ checkoutPreparing <=> preparing # None

\* What the shopper is shown for confirmation is the offer, at the price, that
\* the preparation was asked for, whatever was searched and selected while it
\* was under way.
PreparedIsAsked == preparedConfirmation # None => preparedConfirmation = asked

\* It stays the selected one until it is confirmed or given up.
PreparedIsSelected == preparedConfirmation # None => preparedConfirmation = selectedOffer

\* A search never replaces the results of a later one, in whichever order
\* they end (the saved catalog of showOffline may: the page then says so).
ResultsInOrder == [][catalog' # catalog /\ searches' # searches => catalog'.gen > catalog.gen]_vars

\* "Select one offer previously returned by the current storefront catalog":
\* while the page is online the selected offer is one it shows.
\* The code does not keep it, and no run checks it (README, disagreements).
SelectedIsShown == selectedOffer # None /\ ~cut => selectedOffer \in catalog.offers

\* The page says it is offline only after the network has failed.
\* The code does not keep it, and no run checks it (README, disagreements).
OfflineIsTrue == offlineShown => cut

================================================================================
