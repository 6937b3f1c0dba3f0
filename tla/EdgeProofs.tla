------------------------------ MODULE EdgeProofs ------------------------------
(***************************************************************************)
(* Proofs about the edge.  First, that what HumanConfirmation promises of  *)
(* a confirmation holds for any tabs, offers, shoppers, lifetimes, losses  *)
(* and checkouts.  The argument: a proof in the jar, or on its way to it,  *)
(* vouches for a window, for blocking events and for a shopper (Issued);   *)
(* nothing that happens later takes back what it vouches for               *)
(* (SignatureStays); and a tab that is about to send has put what it shows *)
(* among the consents (SentWasShown).  Two sections on instances follow:   *)
(* Edge, the requests of the edge Worker (EdgeInv), and Catalog, the       *)
(* catalogue of the isolates (CatalogInv).                                 *)
(***************************************************************************)
EXTENDS HumanConfirmation, TLAPS, FiniteSetTheorems

(* The initial state satisfies the invariant: nothing is signed and no        *)
(* checkout is prepared.                                                     *)
LEMMA ConfirmInit == TtlAssumption /\ Init => ConfirmInv
  <1> SUFFICES ASSUME TtlAssumption, Init PROVE ConfirmInv
      OBVIOUS
  <1>1. TypeOK
    BY DEF Init, TypeOK, EmptyPage, NoCheckout, Stages
  <1>2. LiveProofs = {}
    BY DEF Init, LiveProofs, EmptyPage
  <1>3. \A c \in 1..MaxCheckouts : core[c].state = "absent"
    BY DEF Init, NoCheckout
  <1>4. \A t \in Tabs : tab[t].stage = "idle"
    BY DEF Init, EmptyPage
  <1> QED
    BY <1>1, <1>2, <1>3, <1>4 DEF ConfirmInv, ProofsAreIssued, SentWasShown, ConsentWasShown,
       NothingUnacknowledged, SameShopperThroughout, WindowNeverGrows

(* What a signature stands for is not undone: rows of prepared checkouts keep *)
(* the time of their preparation and only gain blocking events, and consents  *)
(* are never withdrawn (OfferChanges is the only writer of blockers).         *)
LEMMA SignatureStays ==
  ASSUME TtlAssumption, checkouts \in Nat, checkouts' \in Nat, checkouts <= checkouts',
         consents \subseteq consents',
         \A c \in 1..MaxCheckouts : c <= checkouts =>
           /\ core[c].preparedAt \in Nat /\ core'[c].preparedAt = core[c].preparedAt
           /\ core[c].blockers \in Nat /\ core'[c].blockers \in Nat
           /\ core[c].blockers <= core'[c].blockers
  PROVE  \A q : Issued(q) => Issued(q)'
  <1> SUFFICES ASSUME NEW q, Issued(q) PROVE Issued(q)'
      OBVIOUS
  <1>1. q.checkout \in 1..checkouts /\ q.checkout \in 1..MaxCheckouts
    BY DEF Issued
  <1>2. q.checkout \in 1..checkouts'
    BY <1>1
  <1>3. /\ q.expires \in Nat /\ q.expires <= core'[q.checkout].preparedAt + ConfirmationTtl
        /\ q.blockers \in Nat /\ q.blockers <= core'[q.checkout].blockers
    BY <1>1 DEF Issued, TtlAssumption
  <1>4. (TrustAnchor /\ q.blockers > 0) =>
          /\ q.expected # Absent
          /\ \E k \in consents' : /\ k.checkout = q.checkout
                                  /\ k.blockers \in Nat /\ k.blockers < q.blockers
                                  /\ k.principal = q.expected
    BY DEF Issued
  <1> QED
    BY <1>1, <1>2, <1>3, <1>4 DEF Issued

(* When one tab moves and the jar takes nothing but a proof that was live,    *)
(* the live proofs are the old ones and the one the tab's answer carries.     *)
LEMMA ProofsFollow ==
  ASSUME DOMAIN tab = Tabs, ProofsAreIssued, NEW t \in Tabs, NEW page,
         tab' = [tab EXCEPT ![t] = page],
         confirmation' \in LiveProofs \cup {Absent},
         page.stage = "prepareAnswer" => Issued(page.answer)',
         page.stage = "confirmAnswer" => page.answer.proof = Absent \/ Issued(page.answer.proof)',
         \A q : Issued(q) => Issued(q)'
  PROVE  ProofsAreIssued'
  <1> SUFFICES ASSUME NEW q, q \in LiveProofs' PROVE Issued(q)'
      BY DEF ProofsAreIssued
  <1>1. q # Absent
    BY DEF LiveProofs
  <1>2. CASE q = confirmation'
    BY <1>1, <1>2 DEF ProofsAreIssued
  <1>3. CASE \E u \in Tabs : tab'[u].stage = "prepareAnswer" /\ q = tab'[u].answer
    <2>1. PICK u \in Tabs : tab'[u].stage = "prepareAnswer" /\ q = tab'[u].answer
      BY <1>3
    <2>2. CASE u = t
      <3>1. tab'[u] = page
        BY <2>2
      <3>2. q = page.answer /\ page.stage = "prepareAnswer"
        BY <2>1, <3>1
      <3> QED
        BY <3>2
    <2>3. CASE u # t
      <3>1. tab'[u] = tab[u]
        BY <2>3
      <3>2. q \in LiveProofs
        BY <1>1, <2>1, <3>1 DEF LiveProofs
      <3> QED
        BY <3>2 DEF ProofsAreIssued
    <2> QED
      BY <2>2, <2>3
  <1>4. CASE \E u \in Tabs : tab'[u].stage = "confirmAnswer" /\ q = tab'[u].answer.proof
    <2>1. PICK u \in Tabs : tab'[u].stage = "confirmAnswer" /\ q = tab'[u].answer.proof
      BY <1>4
    <2>2. CASE u = t
      <3>1. tab'[u] = page
        BY <2>2
      <3>2. q = page.answer.proof /\ page.stage = "confirmAnswer"
        BY <2>1, <3>1
      <3> QED
        BY <1>1, <3>2
    <2>3. CASE u # t
      <3>1. tab'[u] = tab[u]
        BY <2>3
      <3>2. q \in LiveProofs
        BY <1>1, <2>1, <3>1 DEF LiveProofs
      <3> QED
        BY <3>2 DEF ProofsAreIssued
    <2> QED
      BY <2>2, <2>3
  <1> QED
    BY <1>2, <1>3, <1>4 DEF LiveProofs

(* What the confirmed rows say stays true while the rows stay and consents   *)
(* are only added.                                                           *)
LEMMA RowsKeep ==
  ASSUME ConsentWasShown, NothingUnacknowledged, SameShopperThroughout, WindowNeverGrows,
         consents \subseteq consents',
         \A c \in 1..MaxCheckouts : core'[c].state = "confirmed" => core'[c] = core[c]
  PROVE  ConsentWasShown' /\ NothingUnacknowledged' /\ SameShopperThroughout' /\ WindowNeverGrows'
  <1>1. ConsentWasShown'
    BY DEF ConsentWasShown
  <1>2. NothingUnacknowledged'
    BY DEF NothingUnacknowledged
  <1>3. SameShopperThroughout'
    BY DEF SameShopperThroughout
  <1>4. WindowNeverGrows'
    BY DEF WindowNeverGrows
  <1> QED
    BY <1>1, <1>2, <1>3, <1>4

(* The other tabs' terms stay shown when one tab moves. *)
LEMMA ShownFollows ==
  ASSUME DOMAIN tab = Tabs, SentWasShown, NEW t \in Tabs, NEW page,
         tab' = [tab EXCEPT ![t] = page], consents \subseteq consents',
         page.stage = "confirm" => Shown(page)'
  PROVE  SentWasShown'
  <1> SUFFICES ASSUME NEW u \in Tabs, tab'[u].stage = "confirm"
               PROVE  \E k \in consents' : /\ k.checkout = tab'[u].prepared.checkout
                                           /\ k.offer = tab'[u].prepared.offer
                                           /\ k.blockers = tab'[u].prepared.blockers
                                           /\ TrustAnchor => k.principal = tab'[u].receipt.principal
      BY DEF SentWasShown, Shown
  <1>1. CASE u = t
    <2>1. tab'[u] = page
      BY <1>1
    <2> QED
      BY <2>1 DEF Shown
  <1>2. CASE u # t
    <2>1. tab'[u] = tab[u]
      BY <1>2
    <2> QED
      BY <2>1 DEF SentWasShown, Shown
  <1> QED
    BY <1>1, <1>2

(* A step of one tab that makes no proof and leaves the core alone.          *)
LEMMA PageStepKeeps ==
  ASSUME TtlAssumption, ConfirmInv, NEW t \in Tabs, NEW page,
         DOMAIN page = DOMAIN EmptyPage,
         page.stage \in {"idle", "session", "prepare", "presence", "confirm"},
         tab' = [tab EXCEPT ![t] = page],
         confirmation' \in LiveProofs \cup {Absent},
         consents \subseteq consents',
         page.stage = "confirm" => Shown(page)',
         UNCHANGED <<now, core, checkouts>>
  PROVE  ConfirmInv'
  <1>1. TypeOK'
    BY DEF ConfirmInv, TypeOK, Stages
  <1>2. \A q : Issued(q) => Issued(q)'
    <2>1. checkouts \in Nat /\ checkouts' \in Nat /\ checkouts <= checkouts'
      BY DEF ConfirmInv, TypeOK
    <2>2. \A c \in 1..MaxCheckouts : c <= checkouts =>
           /\ core[c].preparedAt \in Nat /\ core'[c].preparedAt = core[c].preparedAt
           /\ core[c].blockers \in Nat /\ core'[c].blockers \in Nat
           /\ core[c].blockers <= core'[c].blockers
      BY DEF ConfirmInv, TypeOK
    <2> QED
      BY <2>1, <2>2, SignatureStays
  <1>3. ProofsAreIssued'
    <2>1. DOMAIN tab = Tabs /\ ProofsAreIssued
      BY DEF ConfirmInv, TypeOK
    <2>2. page.stage # "prepareAnswer" /\ page.stage # "confirmAnswer"
      OBVIOUS
    <2> QED
      BY <1>2, <2>1, <2>2, ProofsFollow
  <1>4. SentWasShown'
    <2>1. DOMAIN tab = Tabs /\ SentWasShown
      BY DEF ConfirmInv, TypeOK
    <2> QED
      BY <2>1, ShownFollows
  <1>5. ConsentWasShown' /\ NothingUnacknowledged' /\ SameShopperThroughout' /\ WindowNeverGrows'
    BY RowsKeep DEF ConfirmInv
  <1> QED
    BY <1>1, <1>3, <1>4, <1>5 DEF ConfirmInv

(* The steps of the page between its requests. *)
LEMMA PageKeeps ==
  ASSUME TtlAssumption, ConfirmInv, NEW t \in Tabs,
         \/ \E o \in Offers : SelectOffer(t, o)
         \/ SearchCatalog(t) \/ InitiateCheckout(t) \/ EstablishSession(t)
  PROVE  ConfirmInv'
  <1>1. PICK page :
          /\ tab' = [tab EXCEPT ![t] = page]
          /\ \/ \E o \in Offers : page = [EmptyPage EXCEPT !.selected = o]
             \/ page = EmptyPage
             \/ \E s \in {"idle", "session", "prepare"} : page = [tab[t] EXCEPT !.stage = s]
          /\ UNCHANGED <<now, confirmation, core, checkouts, consents>>
    <2>1. CASE \E o \in Offers : SelectOffer(t, o)
      BY <2>1 DEF SelectOffer, edge
    <2>2. CASE SearchCatalog(t)
      BY <2>2 DEF SearchCatalog, edge
    <2>3. CASE InitiateCheckout(t)
      BY <2>3 DEF InitiateCheckout, edge
    <2>4. CASE EstablishSession(t)
      BY <2>4 DEF EstablishSession
    <2> QED
      BY <2>1, <2>2, <2>3, <2>4
  <1>2. DOMAIN tab[t] = DOMAIN EmptyPage
    BY DEF ConfirmInv, TypeOK
  <1>3. DOMAIN page = DOMAIN EmptyPage /\ page.stage \in {"idle", "session", "prepare"}
    BY <1>1, <1>2 DEF EmptyPage
  <1>4. confirmation' \in LiveProofs \cup {Absent}
    BY <1>1 DEF LiveProofs
  <1> QED
    BY <1>1, <1>3, <1>4, PageStepKeeps

(* The arrival of an answer: the cookie it sets was live in the answer.      *)
LEMMA AnswerKeeps ==
  ASSUME TtlAssumption, ConfirmInv, NEW t \in Tabs, PrepareAnswer(t) \/ ConfirmAnswer(t)
  PROVE  ConfirmInv'
  <1>1. DOMAIN tab[t] = DOMAIN EmptyPage
    BY DEF ConfirmInv, TypeOK
  <1>2. confirmation \in LiveProofs \cup {Absent}
    BY DEF LiveProofs
  <1>3. PICK page :
          /\ tab' = [tab EXCEPT ![t] = page]
          /\ DOMAIN page = DOMAIN EmptyPage /\ page.stage = "idle"
    <2>1. CASE PrepareAnswer(t)
      <3>1. CASE tab' = [tab EXCEPT ![t].stage = "idle", ![t].answer = Absent]
        <4> DEFINE page == [tab[t] EXCEPT !.stage = "idle", !.answer = Absent]
        <4>1. tab' = [tab EXCEPT ![t] = page]
          BY <3>1 DEF ConfirmInv, TypeOK
        <4>2. DOMAIN page = DOMAIN EmptyPage /\ page.stage = "idle"
          BY <1>1 DEF EmptyPage
        <4> QED
          BY <4>1, <4>2
      <3>2. CASE tab' = [tab EXCEPT ![t].stage = "idle", ![t].answer = Absent,
                                    ![t].prepared = PublicProof(tab[t].answer)]
        <4> DEFINE page == [tab[t] EXCEPT !.stage = "idle", !.answer = Absent,
                                          !.prepared = PublicProof(tab[t].answer)]
        <4>1. tab' = [tab EXCEPT ![t] = page]
          BY <3>2 DEF ConfirmInv, TypeOK
        <4>2. DOMAIN page = DOMAIN EmptyPage /\ page.stage = "idle"
          BY <1>1 DEF EmptyPage
        <4> QED
          BY <4>1, <4>2
      <3> QED
        BY <2>1, <3>1, <3>2 DEF PrepareAnswer
    <2>2. CASE ConfirmAnswer(t)
      <3> DEFINE back == [tab[t] EXCEPT !.stage = "idle", !.answer = Absent, !.unverified = FALSE]
      <3>1. PICK page : /\ tab' = [tab EXCEPT ![t] = page]
                        /\ page \in {EmptyPage, back, [back EXCEPT !.unverified = TRUE],
                                     [back EXCEPT !.prepared = PublicProof(tab[t].answer.proof)]}
        BY <2>2 DEF ConfirmAnswer
      <3>2. DOMAIN back = DOMAIN EmptyPage /\ back.stage = "idle"
        BY <1>1 DEF EmptyPage
      <3>3. EmptyPage.stage = "idle"
        BY DEF EmptyPage
      <3>4. DOMAIN page = DOMAIN EmptyPage
        BY <3>1, <3>2
      <3>5. page.stage = "idle"
        <4> HIDE DEF back
        <4>1. "stage" \in DOMAIN back
          BY <3>2 DEF EmptyPage
        <4> QED
          BY <3>1, <3>2, <3>3, <4>1
      <3> QED
        BY <3>1, <3>4, <3>5
    <2> QED
      BY <2>1, <2>2
  <1>4. confirmation' \in LiveProofs \cup {Absent} /\ UNCHANGED <<now, core, checkouts, consents>>
    <2>1. CASE PrepareAnswer(t)
      BY <1>2, <2>1 DEF PrepareAnswer, LiveProofs
    <2>2. CASE ConfirmAnswer(t)
      <3>1. confirmation' \in {confirmation, Absent} \/ (tab[t].answer.proof # Absent /\ confirmation' = tab[t].answer.proof)
        BY <2>2 DEF ConfirmAnswer, CookieAfter
      <3>2. tab[t].stage = "confirmAnswer" /\ UNCHANGED <<now, core, checkouts, consents>>
        BY <2>2 DEF ConfirmAnswer
      <3> QED
        BY <1>2, <3>1, <3>2 DEF LiveProofs
    <2> QED
      BY <2>1, <2>2
  <1> QED
    BY <1>3, <1>4, PageStepKeeps

(* A click on "Confirm checkout" or the receipt of the trusted surface puts   *)
(* what the page shows among the consents before the request is sent.         *)
LEMMA ClickKeeps ==
  ASSUME TtlAssumption, ConfirmInv, NEW t \in Tabs,
         ConfirmPreparedCheckout(t) \/ RequestHumanPresenceReceipt(t)
  PROVE  ConfirmInv'
  <1>1. DOMAIN tab[t] = DOMAIN EmptyPage /\ DOMAIN tab = Tabs
    BY DEF ConfirmInv, TypeOK
  <1>2. confirmation' \in LiveProofs \cup {Absent} /\ UNCHANGED <<now, core, checkouts>>
        /\ consents \subseteq consents'
    BY DEF ConfirmPreparedCheckout, RequestHumanPresenceReceipt, LiveProofs, edge
  <1>3. CASE ConfirmPreparedCheckout(t)
    <2>0. PICK page : page = [tab[t] EXCEPT !.stage = IF TrustAnchor THEN "presence" ELSE "confirm"]
      OBVIOUS
    <2>1. tab' = [tab EXCEPT ![t] = page]
      BY <1>1, <1>3, <2>0 DEF ConfirmPreparedCheckout
    <2>2. /\ DOMAIN page = DOMAIN EmptyPage
          /\ page.stage = IF TrustAnchor THEN "presence" ELSE "confirm"
          /\ page.prepared = tab[t].prepared
      BY <1>1, <2>0 DEF EmptyPage
    <2>3. ~TrustAnchor => [checkout |-> tab[t].prepared.checkout, offer |-> tab[t].prepared.offer,
                           blockers |-> tab[t].prepared.blockers, principal |-> Absent] \in consents'
      BY <1>3 DEF ConfirmPreparedCheckout
    <2>4. page.stage = "confirm" => Shown(page)'
      BY <2>2, <2>3 DEF Shown
    <2>5. page.stage \in {"idle", "session", "prepare", "presence", "confirm"}
      BY <2>2
    <2> QED
      BY <1>2, <2>1, <2>2, <2>4, <2>5, PageStepKeeps
  <1>4. CASE RequestHumanPresenceReceipt(t) /\ tab' = [tab EXCEPT ![t].stage = "idle"]
    <2> DEFINE page == [tab[t] EXCEPT !.stage = "idle"]
    <2>1. tab' = [tab EXCEPT ![t] = page]
      BY <1>1, <1>4
    <2>2. DOMAIN page = DOMAIN EmptyPage /\ page.stage = "idle"
      BY <1>1 DEF EmptyPage
    <2> HIDE DEF page
    <2> QED
      BY <1>2, <2>1, <2>2, PageStepKeeps
  <1>5. CASE RequestHumanPresenceReceipt(t) /\ tab' # [tab EXCEPT ![t].stage = "idle"]
    <2> DEFINE p == tab[t].prepared
               receipt(who) == [checkout |-> p.checkout, offer |-> p.offer, blockers |-> p.blockers,
                                nonce |-> p.nonce, challenge |-> p.challenge,
                                principal |-> who, confirmedAt |-> now]
    <2>1. PICK who \in Principals :
            /\ tab' = [tab EXCEPT ![t].stage = "confirm", ![t].receipt = receipt(who)]
            /\ [checkout |-> p.checkout, offer |-> p.offer,
                blockers |-> p.blockers, principal |-> who] \in consents'
      BY <1>5 DEF RequestHumanPresenceReceipt
    <2>0. PICK page : page = [tab[t] EXCEPT !.stage = "confirm", !.receipt = receipt(who)]
      OBVIOUS
    <2>2. tab' = [tab EXCEPT ![t] = page]
      BY <1>1, <2>0, <2>1
    <2>3. /\ DOMAIN page = DOMAIN EmptyPage /\ page.stage = "confirm"
          /\ page.prepared = tab[t].prepared /\ page.receipt.principal = who
      BY <1>1, <2>0 DEF EmptyPage
    <2>4. Shown(page)'
      BY <2>1, <2>3 DEF Shown
    <2>5. page.stage \in {"idle", "session", "prepare", "presence", "confirm"}
      BY <2>3
    <2> QED
      BY <1>2, <2>2, <2>3, <2>4, <2>5, PageStepKeeps
  <1> QED
    BY <1>3, <1>4, <1>5

(* Time, a new session elsewhere and a blocking event touch no page.  The    *)
(* rows that are confirmed are left alone by a blocking event.                *)
LEMMA SurroundingsKeep ==
  ASSUME TtlAssumption, ConfirmInv,
         Tick \/ Reconnect \/ (\E c \in 1..MaxCheckouts : OfferChanges(c)) \/ UNCHANGED vars
  PROVE  ConfirmInv'
  <1>1. /\ UNCHANGED <<confirmation, tab, checkouts, consents>> /\ now' \in Nat
        /\ \/ UNCHANGED core
           \/ \E c \in 1..MaxCheckouts :
                /\ core[c].state = "ready"
                /\ core' = [core EXCEPT ![c].blockers = @ + 1]
    BY DEF Tick, Reconnect, OfferChanges, vars, edge, ConfirmInv, TypeOK
  <1>2. \A c \in 1..MaxCheckouts :
          /\ DOMAIN core'[c] = DOMAIN NoCheckout
          /\ core'[c].state = core[c].state /\ core'[c].preparedAt = core[c].preparedAt
          /\ core'[c].blockers \in Nat /\ core[c].blockers <= core'[c].blockers
          /\ core'[c] = core[c] \/ core[c].state = "ready"
    <2> SUFFICES ASSUME NEW c \in 1..MaxCheckouts
                 PROVE  /\ DOMAIN core'[c] = DOMAIN NoCheckout
                        /\ core'[c].state = core[c].state /\ core'[c].preparedAt = core[c].preparedAt
                        /\ core'[c].blockers \in Nat /\ core[c].blockers <= core'[c].blockers
                        /\ core'[c] = core[c] \/ core[c].state = "ready"
        OBVIOUS
    <2>1. DOMAIN core = 1..MaxCheckouts /\ DOMAIN core[c] = DOMAIN NoCheckout /\ core[c].blockers \in Nat
      BY DEF ConfirmInv, TypeOK
    <2>2. CASE core'[c] = core[c]
      BY <2>1, <2>2
    <2>3. CASE core[c].state = "ready" /\ core'[c] = [core[c] EXCEPT !.blockers = @ + 1]
      <3>1. /\ DOMAIN core'[c] = DOMAIN core[c] /\ core'[c].state = core[c].state
            /\ core'[c].preparedAt = core[c].preparedAt /\ core'[c].blockers = core[c].blockers + 1
        BY <2>1, <2>3 DEF NoCheckout
      <3> QED
        BY <2>1, <2>3, <3>1
    <2> QED
      BY <1>1, <2>1, <2>2, <2>3
  <1>3. TypeOK'
    <2>1. DOMAIN core' = 1..MaxCheckouts
      BY <1>1 DEF ConfirmInv, TypeOK
    <2>2. \A c \in 1..MaxCheckouts : c > checkouts => core'[c] = core[c]
      BY <1>2 DEF ConfirmInv, TypeOK
    <2> QED
      BY <1>1, <1>2, <2>1, <2>2 DEF ConfirmInv, TypeOK
  <1>4. \A q : Issued(q) => Issued(q)'
    <2>1. checkouts \in Nat /\ checkouts' \in Nat /\ checkouts <= checkouts'
      BY <1>1 DEF ConfirmInv, TypeOK
    <2>2. \A c \in 1..MaxCheckouts : c <= checkouts =>
           /\ core[c].preparedAt \in Nat /\ core'[c].preparedAt = core[c].preparedAt
           /\ core[c].blockers \in Nat /\ core'[c].blockers \in Nat
           /\ core[c].blockers <= core'[c].blockers
      BY <1>2 DEF ConfirmInv, TypeOK
    <2> QED
      BY <1>1, <2>1, <2>2, SignatureStays
  <1>5. ProofsAreIssued'
    <2>1. LiveProofs' = LiveProofs
      BY <1>1 DEF LiveProofs
    <2> QED
      BY <1>4, <2>1 DEF ConfirmInv, ProofsAreIssued
  <1>6. SentWasShown'
    BY <1>1 DEF ConfirmInv, SentWasShown, Shown
  <1>7. ConsentWasShown' /\ NothingUnacknowledged' /\ SameShopperThroughout' /\ WindowNeverGrows'
    <2>1. \A c \in 1..MaxCheckouts : core'[c].state = "confirmed" => core'[c] = core[c]
      BY <1>2
    <2> QED
      BY <1>1, <2>1, RowsKeep DEF ConfirmInv
  <1> QED
    BY <1>3, <1>5, <1>6, <1>7 DEF ConfirmInv

(* A prepared checkout takes the next unused row, and its first proof has the *)
(* row's window and no blocking events.                                      *)
LEMMA PrepareKeeps ==
  ASSUME TtlAssumption, ConfirmInv, NEW t \in Tabs, HandlePrepare(t)
  PROVE  ConfirmInv'
  <1>1. /\ DOMAIN tab[t] = DOMAIN EmptyPage /\ DOMAIN tab = Tabs /\ checkouts \in Nat /\ now \in Nat
        /\ confirmation' = confirmation /\ UNCHANGED <<now, consents>>
    BY DEF HandlePrepare, ConfirmInv, TypeOK, edge
  <1>2. confirmation' \in LiveProofs \cup {Absent}
    BY <1>1 DEF LiveProofs
  <1>3. CASE ~AuthorizeStorefrontSession(session)
    <2>1. tab' = [tab EXCEPT ![t].stage = "idle"] /\ UNCHANGED <<checkouts, core>>
      BY <1>3 DEF HandlePrepare
    <2>2. PICK page : page = [tab[t] EXCEPT !.stage = "idle"]
      OBVIOUS
    <2>3. DOMAIN page = DOMAIN EmptyPage /\ page.stage = "idle" /\ tab' = [tab EXCEPT ![t] = page]
      BY <1>1, <2>1, <2>2 DEF EmptyPage
    <2> QED
      BY <1>1, <1>2, <2>1, <2>3, PageStepKeeps
  <1>4. CASE AuthorizeStorefrontSession(session)
    <2>1. PICK c, proof, page :
            /\ c = checkouts + 1
            /\ proof = IssueHumanConfirmation(c, tab[t].selected, 0, Absent, session.nonce, now + CoreTtl)
            /\ page = [tab[t] EXCEPT !.stage = "prepareAnswer", !.answer = proof]
      OBVIOUS
    <2>2. /\ checkouts < MaxCheckouts /\ checkouts' = c
          /\ core' = [core EXCEPT ![c] = [@ EXCEPT !.state = "ready", !.offer = tab[t].selected,
                                                   !.preparedAt = now]]
          /\ tab' = [tab EXCEPT ![t].stage = "prepareAnswer", ![t].answer = proof]
      BY <1>4, <2>1 DEF HandlePrepare
    <2>3. /\ DOMAIN page = DOMAIN EmptyPage /\ page.stage = "prepareAnswer" /\ page.answer = proof
          /\ tab' = [tab EXCEPT ![t] = page]
      BY <1>1, <2>1, <2>2 DEF EmptyPage
    <2>4. /\ proof.checkout = c /\ proof.blockers = 0
          /\ proof.expires \in Nat /\ proof.expires <= now + ConfirmationTtl
      BY <1>1, <2>1 DEF IssueHumanConfirmation, Least, TtlAssumption
    <2>5. c \in Nat /\ c > checkouts /\ c \in 1..MaxCheckouts /\ c \in 1..checkouts'
      BY <1>1, <2>1, <2>2 DEF TtlAssumption
    <2>6. /\ DOMAIN core' = 1..MaxCheckouts
          /\ \A d \in 1..MaxCheckouts : d # c => core'[d] = core[d]
      BY <2>2, <2>5 DEF ConfirmInv, TypeOK
    <2>7. /\ core'[c].state = "ready" /\ core'[c].preparedAt = now /\ core'[c].blockers = 0
          /\ DOMAIN core'[c] = DOMAIN NoCheckout
      <3>1. DOMAIN core[c] = DOMAIN NoCheckout /\ core[c].blockers = 0
        BY <2>5 DEF ConfirmInv, TypeOK
      <3>2. core'[c] = [core[c] EXCEPT !.state = "ready", !.offer = tab[t].selected, !.preparedAt = now]
        BY <2>2, <2>5 DEF ConfirmInv, TypeOK
      <3> QED
        BY <3>1, <3>2 DEF NoCheckout
    <2>8. TypeOK'
      <3>1. \A u \in Tabs : DOMAIN tab'[u] = DOMAIN EmptyPage /\ tab'[u].stage \in Stages
        BY <2>3 DEF ConfirmInv, TypeOK, Stages
      <3>2. \A d \in 1..MaxCheckouts :
              /\ DOMAIN core'[d] = DOMAIN NoCheckout
              /\ core'[d].state \in {"absent", "ready", "confirmed", "failed"}
              /\ core'[d].blockers \in Nat /\ core'[d].preparedAt \in Nat
              /\ d > c => core'[d].state = "absent" /\ core'[d].blockers = 0
        BY <1>1, <2>5, <2>6, <2>7 DEF ConfirmInv, TypeOK
      <3>3. DOMAIN tab' = Tabs
        BY <1>1, <2>3
      <3> QED
        BY <1>1, <2>2, <2>5, <2>6, <3>1, <3>2, <3>3 DEF TypeOK
    <2>9. \A q : Issued(q) => Issued(q)'
      <3>1. \A d \in 1..MaxCheckouts : d <= checkouts =>
              /\ core[d].preparedAt \in Nat /\ core'[d].preparedAt = core[d].preparedAt
              /\ core[d].blockers \in Nat /\ core'[d].blockers \in Nat
              /\ core[d].blockers <= core'[d].blockers
        BY <2>5, <2>6, <1>1 DEF ConfirmInv, TypeOK
      <3>2. checkouts' \in Nat /\ checkouts <= checkouts' /\ consents \subseteq consents'
        BY <1>1, <2>2, <2>5
      <3> QED
        BY <1>1, <3>1, <3>2, SignatureStays
    <2>10. Issued(proof)'
      BY <2>4, <2>5, <2>7 DEF Issued
    <2>11. ProofsAreIssued'
      <3>1. ProofsAreIssued
        BY DEF ConfirmInv
      <3>2. page.stage # "confirmAnswer" /\ Issued(page.answer)'
        BY <2>3, <2>10
      <3> QED
        BY <1>1, <1>2, <2>3, <2>9, <3>1, <3>2, ProofsFollow
    <2>12. SentWasShown'
      <3>1. page.stage # "confirm" /\ SentWasShown /\ consents \subseteq consents'
        BY <1>1, <2>3 DEF ConfirmInv
      <3> QED
        BY <1>1, <2>3, <3>1, ShownFollows
    <2>13. ConsentWasShown' /\ NothingUnacknowledged' /\ SameShopperThroughout' /\ WindowNeverGrows'
      <3>1. \A d \in 1..MaxCheckouts : core'[d].state = "confirmed" => core'[d] = core[d]
        BY <2>6, <2>7
      <3> QED
        BY <1>1, <3>1, RowsKeep DEF ConfirmInv
    <2> QED
      BY <2>8, <2>11, <2>12, <2>13 DEF ConfirmInv
  <1> QED
    BY <1>3, <1>4

(* What the core's decision may do to a row: it keeps the terms, and a newly  *)
(* confirmed row has exactly the blocking events of the body.                 *)
LEMMA CoreDecides ==
  ASSUME NEW body, NEW principal, DOMAIN core[body.checkout] = DOMAIN NoCheckout,
         core[body.checkout].state \in {"absent", "ready", "confirmed", "failed"}
  PROVE  LET row == core[body.checkout]
             decision == CoreConfirm(body, principal)
         IN /\ DOMAIN decision.row = DOMAIN NoCheckout
            /\ decision.row.state \in {row.state, "confirmed", "failed"}
            /\ decision.row.offer = row.offer
            /\ decision.row.blockers = row.blockers /\ decision.row.preparedAt = row.preparedAt
            /\ decision.row.state = "confirmed" =>
                 \/ decision.row = row
                 \/ /\ row.offer = body.offer /\ row.blockers = body.blockers
                    /\ decision.row.confirmed = Confirmed(body, principal)
            /\ decision.code = "reconfirmation_required" => body.blockers # row.blockers
  <1> DEFINE row == core[body.checkout]
             same == /\ row.confirmed # Absent
                     /\ row.confirmed.blockers = body.blockers
                     /\ row.confirmed.principal = principal
             decision == CoreConfirm(body, principal)
  <1>1. CASE decision.row = row /\ (decision.code = "reconfirmation_required" => body.blockers # row.blockers)
    BY <1>1
  <1>2. CASE decision = [code |-> "confirmation_expired", row |-> [row EXCEPT !.state = "failed"]]
    <2>1. /\ decision.code = "confirmation_expired"
          /\ decision.row = [row EXCEPT !.state = "failed"]
      BY <1>2
    <2> HIDE DEF decision, row
    <2>2. DOMAIN row = DOMAIN NoCheckout
      BY DEF row
    <2>3. /\ DOMAIN decision.row = DOMAIN NoCheckout /\ decision.row.state = "failed"
          /\ decision.row.offer = row.offer
          /\ decision.row.blockers = row.blockers /\ decision.row.preparedAt = row.preparedAt
      BY <2>1, <2>2 DEF NoCheckout
    <2> QED
      BY <2>1, <2>3 DEF decision, row
  <1>3. CASE /\ decision = [code |-> "ok", row |-> [row EXCEPT !.state = "confirmed",
                                                               !.confirmed = Confirmed(body, principal)]]
             /\ row.offer = body.offer /\ row.blockers = body.blockers
    <2>1. /\ decision.code = "ok"
          /\ decision.row = [row EXCEPT !.state = "confirmed", !.confirmed = Confirmed(body, principal)]
      BY <1>3
    <2> HIDE DEF decision, row
    <2>2. DOMAIN row = DOMAIN NoCheckout
      BY DEF row
    <2>3. /\ DOMAIN decision.row = DOMAIN NoCheckout /\ decision.row.state = "confirmed"
          /\ decision.row.offer = row.offer
          /\ decision.row.blockers = row.blockers /\ decision.row.preparedAt = row.preparedAt
          /\ decision.row.confirmed = Confirmed(body, principal)
      BY <2>1, <2>2 DEF NoCheckout
    <2> QED
      BY <1>3, <2>1, <2>3 DEF decision, row
  <1> QED
    BY <1>1, <1>2, <1>3 DEF CoreConfirm

(* What the edge's authorisation guarantees of the proof in the jar and of    *)
(* the receipt.                                                              *)
LEMMA EdgeAuthorises ==
  ASSUME NEW cookie, NEW proof, NEW body, NEW receipt, NEW principal, TtlAssumption,
         principal = AuthorizeHumanConfirmation(cookie, proof, body, receipt), principal # Absent
  PROVE  /\ proof # Absent /\ ~(proof.expires <= now)
         /\ proof.checkout = body.checkout /\ proof.offer = body.offer /\ proof.blockers = body.blockers
         /\ TrustAnchor => /\ principal = receipt.principal
                           /\ proof.expected # Absent => principal = proof.expected
  BY DEF AuthorizeHumanConfirmation, ProofMatches, VerifyHumanPresenceReceipt, TtlAssumption

(* The confirmation.  A refusal changes nothing but the page.  Otherwise the  *)
(* proof in the jar vouches for the window, for the blocking events and for   *)
(* the shopper, and the tab's click vouches for what was shown.               *)
LEMMA ConfirmKeeps ==
  ASSUME TtlAssumption, ConfirmInv, NEW t \in Tabs, HandleConfirm(t)
  PROVE  ConfirmInv'
  <1>1. /\ DOMAIN tab[t] = DOMAIN EmptyPage /\ DOMAIN tab = Tabs /\ checkouts \in Nat /\ now \in Nat
        /\ confirmation' = confirmation /\ UNCHANGED <<now, consents, checkouts>>
        /\ tab[t].stage = "confirm"
    BY DEF HandleConfirm, ConfirmInv, TypeOK, edge
  <1>2. confirmation' \in LiveProofs \cup {Absent}
    BY <1>1 DEF LiveProofs
  <1>3. PICK p, body, principal, decision, again :
          /\ p = tab[t].prepared
          /\ body = [checkout |-> p.checkout, offer |-> p.offer, blockers |-> p.blockers, csrf |-> p.challenge]
          /\ principal = IF AuthorizeStorefrontSession(session)
                         THEN AuthorizeHumanConfirmation(session, confirmation, body, tab[t].receipt)
                         ELSE Absent
          /\ decision = CoreConfirm(body, principal)
          /\ again = IssueHumanConfirmation(p.checkout, p.offer, core[p.checkout].blockers, principal,
                                            session.nonce, confirmation.expires)
    OBVIOUS
  <1>4. PICK answer :
          /\ tab' = [tab EXCEPT ![t].stage = "confirmAnswer", ![t].receipt = Absent, ![t].answer = answer]
          /\ \/ principal = Absent /\ answer.proof = Absent /\ UNCHANGED core
             \/ /\ principal # Absent
                /\ core' = [core EXCEPT ![p.checkout] = decision.row]
                /\ \/ answer.proof = Absent
                   \/ answer.proof = again /\ decision.code = "reconfirmation_required"
    <2> DEFINE Reply(code, proof) ==
                 tab' = [tab EXCEPT ![t].stage = "confirmAnswer", ![t].receipt = Absent,
                                    ![t].answer = [code |-> code, proof |-> proof]]
    <2>1. CASE principal = Absent /\ UNCHANGED core /\ Reply("refused", Absent)
      <3>1. [code |-> "refused", proof |-> Absent].proof = Absent
        OBVIOUS
      <3> QED
        BY <2>1, <3>1
    <2>2. CASE /\ principal # Absent /\ core' = [core EXCEPT ![p.checkout] = decision.row]
               /\ Reply(decision.code, again) /\ decision.code = "reconfirmation_required"
      <3>1. [code |-> decision.code, proof |-> again].proof = again
        OBVIOUS
      <3> QED
        BY <2>2, <3>1
    <2>3. CASE /\ principal # Absent /\ core' = [core EXCEPT ![p.checkout] = decision.row]
               /\ Reply(decision.code, Absent)
      <3>1. [code |-> decision.code, proof |-> Absent].proof = Absent
        OBVIOUS
      <3> QED
        BY <2>3, <3>1
    <2> QED
      BY <1>3, <2>1, <2>2, <2>3 DEF HandleConfirm
  <1>5. PICK page : page = [tab[t] EXCEPT !.stage = "confirmAnswer", !.receipt = Absent, !.answer = answer]
    OBVIOUS
  <1>6. /\ DOMAIN page = DOMAIN EmptyPage /\ page.stage = "confirmAnswer" /\ page.answer = answer
        /\ tab' = [tab EXCEPT ![t] = page]
    BY <1>1, <1>4, <1>5 DEF EmptyPage
  <1>7. SentWasShown'
    <2>1. page.stage # "confirm" /\ SentWasShown /\ consents \subseteq consents'
      BY <1>1, <1>6 DEF ConfirmInv
    <2> QED
      BY <1>1, <1>6, <2>1, ShownFollows
  <1>8. \A u \in Tabs : DOMAIN tab'[u] = DOMAIN EmptyPage /\ tab'[u].stage \in Stages
    BY <1>6 DEF ConfirmInv, TypeOK, Stages
  <1>9. DOMAIN tab' = Tabs
    BY <1>1, <1>6
  <1>10. CASE principal = Absent
    <2>1. core' = core /\ answer.proof = Absent
      BY <1>4, <1>10
    <2>2. TypeOK'
      BY <1>1, <1>8, <1>9, <2>1 DEF ConfirmInv, TypeOK
    <2>3. \A q : Issued(q) => Issued(q)'
      <3>1. \A d \in 1..MaxCheckouts : d <= checkouts =>
              /\ core[d].preparedAt \in Nat /\ core'[d].preparedAt = core[d].preparedAt
              /\ core[d].blockers \in Nat /\ core'[d].blockers \in Nat
              /\ core[d].blockers <= core'[d].blockers
        BY <2>1 DEF ConfirmInv, TypeOK
      <3> QED
        BY <1>1, <3>1, SignatureStays
    <2>4. ProofsAreIssued'
      <3>1. ProofsAreIssued /\ page.stage # "prepareAnswer" /\ page.answer.proof = Absent
        BY <1>6, <2>1 DEF ConfirmInv
      <3> QED
        BY <1>1, <1>2, <1>6, <2>3, <3>1, ProofsFollow
    <2>5. ConsentWasShown' /\ NothingUnacknowledged' /\ SameShopperThroughout' /\ WindowNeverGrows'
      BY <1>1, <2>1, RowsKeep DEF ConfirmInv
    <2> QED
      BY <1>7, <2>2, <2>4, <2>5 DEF ConfirmInv
  <1>11. CASE principal # Absent
    <2>1. principal = AuthorizeHumanConfirmation(session, confirmation, body, tab[t].receipt)
      BY <1>3, <1>11
    <2>2. /\ confirmation # Absent /\ ~(confirmation.expires <= now)
          /\ confirmation.checkout = body.checkout /\ confirmation.offer = body.offer
          /\ confirmation.blockers = body.blockers
          /\ TrustAnchor => /\ principal = tab[t].receipt.principal
                            /\ confirmation.expected # Absent => principal = confirmation.expected
      BY <1>11, <2>1, EdgeAuthorises
    <2>3. Issued(confirmation)
      BY <2>2 DEF ConfirmInv, ProofsAreIssued, LiveProofs
    <2>4. PICK c : c = p.checkout
      OBVIOUS
    <2>5. body.checkout = c /\ body.offer = p.offer /\ body.blockers = p.blockers
      BY <1>3, <2>4
    <2>6. c \in 1..checkouts /\ c \in 1..MaxCheckouts /\ c \in Nat
      BY <1>1, <2>2, <2>3, <2>5 DEF Issued
    <2>7. /\ DOMAIN core = 1..MaxCheckouts /\ DOMAIN core[c] = DOMAIN NoCheckout
          /\ core[c].state \in {"absent", "ready", "confirmed", "failed"}
          /\ core[c].blockers \in Nat /\ core[c].preparedAt \in Nat
      BY <2>6 DEF ConfirmInv, TypeOK
    <2>8. /\ DOMAIN decision.row = DOMAIN NoCheckout
          /\ decision.row.state \in {core[c].state, "confirmed", "failed"}
          /\ decision.row.offer = core[c].offer
          /\ decision.row.blockers = core[c].blockers /\ decision.row.preparedAt = core[c].preparedAt
          /\ decision.row.state = "confirmed" =>
               \/ decision.row = core[c]
               \/ /\ core[c].offer = body.offer /\ core[c].blockers = body.blockers
                  /\ decision.row.confirmed = Confirmed(body, principal)
          /\ decision.code = "reconfirmation_required" => body.blockers # core[c].blockers
      <3>1. /\ DOMAIN core[body.checkout] = DOMAIN NoCheckout
            /\ core[body.checkout].state \in {"absent", "ready", "confirmed", "failed"}
        BY <2>5, <2>7
      <3> HIDE DEF CoreConfirm
      <3>2. LET row == core[body.checkout]
                verdict == CoreConfirm(body, principal)
            IN /\ DOMAIN verdict.row = DOMAIN NoCheckout
               /\ verdict.row.state \in {row.state, "confirmed", "failed"}
               /\ verdict.row.offer = row.offer
               /\ verdict.row.blockers = row.blockers /\ verdict.row.preparedAt = row.preparedAt
               /\ verdict.row.state = "confirmed" =>
                    \/ verdict.row = row
                    \/ /\ row.offer = body.offer /\ row.blockers = body.blockers
                       /\ verdict.row.confirmed = Confirmed(body, principal)
               /\ verdict.code = "reconfirmation_required" => body.blockers # row.blockers
        BY <3>1, CoreDecides, Zenon
      <3> QED
        BY <1>3, <2>5, <3>2
    <2>9. core' = [core EXCEPT ![c] = decision.row]
      BY <1>4, <1>11, <2>4
    <2>10. /\ DOMAIN core' = 1..MaxCheckouts /\ core'[c] = decision.row
           /\ \A d \in 1..MaxCheckouts : d # c => core'[d] = core[d]
      BY <2>6, <2>7, <2>9
    <2>11. PICK k \in consents :
             /\ k.checkout = c /\ k.offer = body.offer /\ k.blockers = body.blockers
             /\ TrustAnchor => k.principal = principal
      <3>1. Shown(tab[t])
        BY <1>1 DEF ConfirmInv, SentWasShown
      <3> QED
        BY <1>3, <2>2, <2>4, <2>5, <3>1 DEF Shown
    <2>12. TypeOK'
      <3>1. \A d \in 1..MaxCheckouts :
              /\ DOMAIN core'[d] = DOMAIN NoCheckout
              /\ core'[d].state \in {"absent", "ready", "confirmed", "failed"}
              /\ core'[d].blockers \in Nat /\ core'[d].preparedAt \in Nat
              /\ d > checkouts => core'[d].state = "absent" /\ core'[d].blockers = 0
        <4> SUFFICES ASSUME NEW d \in 1..MaxCheckouts
                     PROVE  /\ DOMAIN core'[d] = DOMAIN NoCheckout
                            /\ core'[d].state \in {"absent", "ready", "confirmed", "failed"}
                            /\ core'[d].blockers \in Nat /\ core'[d].preparedAt \in Nat
                            /\ d > checkouts => core'[d].state = "absent" /\ core'[d].blockers = 0
            OBVIOUS
        <4>1. CASE d = c
          BY <1>1, <2>6, <2>7, <2>8, <2>10, <4>1
        <4>2. CASE d # c
          BY <2>10, <4>2 DEF ConfirmInv, TypeOK
        <4> QED
          BY <4>1, <4>2
      <3> QED
        BY <1>1, <1>8, <1>9, <2>10, <3>1 DEF TypeOK
    <2>13. \A q : Issued(q) => Issued(q)'
      <3>1. \A d \in 1..MaxCheckouts : d <= checkouts =>
              /\ core[d].preparedAt \in Nat /\ core'[d].preparedAt = core[d].preparedAt
              /\ core[d].blockers \in Nat /\ core'[d].blockers \in Nat
              /\ core[d].blockers <= core'[d].blockers
        <4> SUFFICES ASSUME NEW d \in 1..MaxCheckouts
                     PROVE  /\ core[d].preparedAt \in Nat /\ core'[d].preparedAt = core[d].preparedAt
                            /\ core[d].blockers \in Nat /\ core'[d].blockers \in Nat
                            /\ core[d].blockers <= core'[d].blockers
            OBVIOUS
        <4>1. core[d].preparedAt \in Nat /\ core[d].blockers \in Nat
          BY DEF ConfirmInv, TypeOK
        <4>2. core'[d].preparedAt = core[d].preparedAt /\ core'[d].blockers = core[d].blockers
          BY <2>8, <2>10
        <4> QED
          BY <4>1, <4>2
      <3> QED
        BY <1>1, <3>1, SignatureStays
    <2>14. answer.proof = Absent \/ Issued(answer.proof)'
      <3> SUFFICES ASSUME answer.proof = again, decision.code = "reconfirmation_required"
                   PROVE  Issued(again)'
          BY <1>4, <1>11
      <3>1. /\ again.checkout = c /\ again.blockers = core[c].blockers /\ again.expected = principal
            /\ again.expires = Least(now + ConfirmationTtl, confirmation.expires)
        BY <1>3, <2>4 DEF IssueHumanConfirmation
      <3>2. again.expires \in Nat /\ again.expires <= core[c].preparedAt + ConfirmationTtl
        BY <1>1, <2>2, <2>3, <2>5, <2>7, <3>1 DEF Issued, Least, TtlAssumption
      <3>3. k.blockers \in Nat /\ k.blockers < again.blockers
        BY <2>2, <2>3, <2>5, <2>7, <2>8, <2>11, <3>1 DEF Issued
      <3>4. core'[c].preparedAt = core[c].preparedAt /\ core'[c].blockers = core[c].blockers
        BY <2>8, <2>10
      <3>5. again.blockers \in Nat /\ again.blockers <= core'[c].blockers
        BY <2>7, <3>1, <3>4
      <3>6. TrustAnchor => \E j \in consents' : /\ j.checkout = again.checkout
                              /\ j.blockers \in Nat /\ j.blockers < again.blockers
                              /\ j.principal = again.expected
        BY <1>1, <2>11, <3>1, <3>3
      <3> QED
        BY <1>1, <1>11, <2>6, <3>1, <3>2, <3>4, <3>5, <3>6 DEF Issued
    <2>15. ProofsAreIssued'
      <3>1. ProofsAreIssued /\ page.stage # "prepareAnswer"
        BY <1>6 DEF ConfirmInv
      <3>2. page.answer.proof = Absent \/ Issued(page.answer.proof)'
        BY <1>6, <2>14
      <3> QED
        BY <1>1, <1>2, <1>6, <2>13, <3>1, <3>2, ProofsFollow
    <2>16. CASE decision.row.state = "confirmed" => decision.row = core[c]
      <3>1. \A d \in 1..MaxCheckouts : core'[d].state = "confirmed" => core'[d] = core[d]
        BY <2>10, <2>16
      <3>2. ConsentWasShown' /\ NothingUnacknowledged' /\ SameShopperThroughout' /\ WindowNeverGrows'
        BY <1>1, <3>1, RowsKeep DEF ConfirmInv
      <3> QED
        BY <1>7, <2>12, <2>15, <3>2 DEF ConfirmInv
    <2>17. CASE decision.row.state = "confirmed" /\ decision.row # core[c]
      <3>1. /\ core'[c].offer = body.offer /\ core'[c].blockers = body.blockers
            /\ core'[c].confirmed.blockers = body.blockers
            /\ core'[c].confirmed.principal = principal /\ core'[c].confirmed.at = now
            /\ core'[c].preparedAt = core[c].preparedAt
        BY <2>8, <2>10, <2>17 DEF Confirmed
      <3>2. ConsentWasShown'
        BY <1>1, <2>10, <2>11, <3>1 DEF ConfirmInv, ConsentWasShown
      <3>3. NothingUnacknowledged'
        BY <2>10, <3>1 DEF ConfirmInv, NothingUnacknowledged
      <3>4. SameShopperThroughout'
        <4>1. (TrustAnchor /\ core'[c].confirmed.blockers > 0) =>
                \E j \in consents' : /\ j.checkout = c
                                     /\ j.blockers < core'[c].confirmed.blockers
                                     /\ j.principal = core'[c].confirmed.principal
          BY <1>1, <2>2, <2>3, <2>5, <3>1 DEF Issued
        <4> QED
          BY <1>1, <2>10, <4>1 DEF ConfirmInv, SameShopperThroughout
      <3>5. WindowNeverGrows'
        <4>1. core'[c].confirmed.at < core'[c].preparedAt + ConfirmationTtl
          BY <1>1, <2>2, <2>3, <2>5, <2>7, <3>1 DEF Issued, TtlAssumption
        <4> QED
          BY <2>10, <4>1 DEF ConfirmInv, WindowNeverGrows
      <3> QED
        BY <1>7, <2>12, <2>15, <3>2, <3>3, <3>4, <3>5 DEF ConfirmInv
    <2> QED
      BY <2>16, <2>17
  <1> QED
    BY <1>10, <1>11

(* The invariant is inductive. *)
LEMMA ConfirmNext == TtlAssumption /\ ConfirmInv /\ [Next]_vars => ConfirmInv'
  <1> SUFFICES ASSUME TtlAssumption, ConfirmInv, [Next]_vars PROVE ConfirmInv'
      OBVIOUS
  <1>1. CASE Tick \/ Reconnect \/ (\E c \in 1..MaxCheckouts : OfferChanges(c)) \/ UNCHANGED vars
    BY <1>1, SurroundingsKeep
  <1>2. ASSUME NEW t \in Tabs,
               \/ \E o \in Offers : SelectOffer(t, o)
               \/ SearchCatalog(t) \/ InitiateCheckout(t) \/ EstablishSession(t)
        PROVE  ConfirmInv'
    BY <1>2, PageKeeps
  <1>3. ASSUME NEW t \in Tabs, HandlePrepare(t) PROVE ConfirmInv'
    BY <1>3, PrepareKeeps
  <1>4. ASSUME NEW t \in Tabs, PrepareAnswer(t) \/ ConfirmAnswer(t) PROVE ConfirmInv'
    BY <1>4, AnswerKeeps
  <1>5. ASSUME NEW t \in Tabs, ConfirmPreparedCheckout(t) \/ RequestHumanPresenceReceipt(t)
        PROVE  ConfirmInv'
    BY <1>5, ClickKeeps
  <1>6. ASSUME NEW t \in Tabs, HandleConfirm(t) PROVE ConfirmInv'
    BY <1>6, ConfirmKeeps
  <1> QED
    BY <1>1, <1>2, <1>3, <1>4, <1>5, <1>6 DEF Next

LEMMA ConfirmInvariant == ASSUME TtlAssumption PROVE Spec => []ConfirmInv
  <1>1. Init => ConfirmInv
    BY ConfirmInit
  <1>2. ConfirmInv /\ [Next]_vars => ConfirmInv'
    BY ConfirmNext
  <1> QED
    BY <1>1, <1>2, PTL DEF Spec

(* Pages, rows and counts keep their shape, whatever tabs, losses and         *)
(* sessions there are.                                                       *)
THEOREM ConfirmationTypeCorrect == ASSUME TtlAssumption PROVE Spec => []TypeOK
  <1>1. ConfirmInv => TypeOK
    BY DEF ConfirmInv
  <1> QED
    BY <1>1, ConfirmInvariant, PTL

(* The core confirms only what a person was shown, for any number of tabs,    *)
(* lost answers and repeated requests (authorizeHumanConfirmation, #confirm). *)
THEOREM OnlyShownConfirmed == ASSUME TtlAssumption PROVE Spec => []ConsentWasShown
  <1>1. ConfirmInv => ConsentWasShown
    BY DEF ConfirmInv
  <1> QED
    BY <1>1, ConfirmInvariant, PTL

(* A confirmation acknowledges every blocking event of the checkout, however  *)
(* the offer watch and the requests interleave (#confirm).                    *)
THEOREM EveryBlockerAcknowledged == ASSUME TtlAssumption PROVE Spec => []NothingUnacknowledged
  <1>1. ConfirmInv => NothingUnacknowledged
    BY DEF ConfirmInv
  <1> QED
    BY <1>1, ConfirmInvariant, PTL

(* A changed offer is confirmed by the shopper who had confirmed it before it *)
(* changed, for any shoppers at the browser (reissued proof).                *)
THEOREM ShopperStays == ASSUME TtlAssumption PROVE Spec => []SameShopperThroughout
  <1>1. ConfirmInv => SameShopperThroughout
    BY DEF ConfirmInv
  <1> QED
    BY <1>1, ConfirmInvariant, PTL

(* No chain of reissued proofs prolongs the window of the first one           *)
(* (reissue.confirmationExpiresAt).                                          *)
THEOREM WindowStays == ASSUME TtlAssumption PROVE Spec => []WindowNeverGrows
  <1>1. ConfirmInv => WindowNeverGrows
    BY DEF ConfirmInv
  <1> QED
    BY <1>1, ConfirmInvariant, PTL

-----------------------------------------------------------------------------
(***************************************************************************)
(* Requests of the edge, EdgeRequest.  EdgeInv is inductive: a request that *)
(* holds a core's answer also holds the core version that gave it (Held),   *)
(* an authorised call the candidate it was authorised under, and the        *)
(* effects of a request are none before its call and one after (Executed). *)
(***************************************************************************)
CONSTANTS None, Requests, Versions, Sandboxes, Doors, Deps, MaxDeploys, MaxFaults
VARIABLES edgeVersion, edgeCore, sandbox, dep, deploys, faults, req, effects

Edge == INSTANCE EdgeRequest WITH edge <- edgeVersion, core <- edgeCore

\* The instance counts as this module does.
LEMMA EdgeCounts == \A S : Edge!Cardinality(S) = Cardinality(S)
BY DEF Edge!Cardinality, Cardinality

\* The doors that only read, and the stages before the core executes anything.
Readings == {"dashboard", "readyz"}
Early == {"arrived", "probing", "authorize", "call"}

\* A held request: the core versions that were read, the verdict they allow, and
\* what the guards before the call have established.
Held(q) ==
    /\ q.pc = "done" <=> q.status # None
    /\ q.seen = {v \in {q.report, q.live} : v # None}
    /\ q.pc = "probing" => /\ q.door \in Readings
                           /\ q.door = "dashboard" => Edge!ObserveGuard(q)
    /\ q.header => /\ q.pc = "done" /\ q.door = "dashboard" /\ Edge!ObserveGuard(q)
                   /\ q.report # None /\ Edge!readCoreReadiness(q) /\ q.live = q.report
    /\ q.door = "mcp" => q.target \in Edge!registerAgentTools
    /\ q.door = "mcp_operator" => q.target \in Edge!registerOperatorTools
    /\ q.pc \in {"authorize", "call", "called"} =>
          /\ q.door \notin Readings
          /\ q.target = "prepare" => q.mode = q.cred /\ q.mode \in {"agent", "session"}
    /\ q.pc \in {"call", "called"} =>
          /\ q.auth \in Versions /\ q.auth.cand = q.ev.cand
          /\ ~Edge!CheckoutRefused(q)

\* No effect before the call, exactly one of a called or answered request.
Executed(r) ==
    /\ (req[r].pc \in Early \/ req[r].status = "refused") => \A e \in effects : e.req # r
    /\ (req[r].pc = "called" \/ (req[r].status = "ok" /\ req[r].door \notin Readings)) =>
          \E e \in effects : e.req = r /\ \A f \in effects : f.req = r => f = e

\* An effect is of one release, and of a request allowed to have it.
EffectFits(e) ==
    /\ req[e.req] # None
    /\ e.by.cand = req[e.req].ev.cand /\ e.auth.cand = e.by.cand
    /\ req[e.req].target # "confirm"
    /\ req[e.req].target = "prepare" => req[e.req].cred = "session"

\* The types.
EdgeTypes ==
    /\ edgeVersion \in Versions /\ edgeCore \in Versions /\ sandbox \in Sandboxes
    /\ deploys \in 0 .. MaxDeploys /\ faults \in 0 .. MaxFaults
    /\ req \in [Requests -> Edge!RequestRecord \cup {None}]
    /\ effects \subseteq Edge!EffectRecord

\* The inductive invariant.
EdgeInv ==
    /\ EdgeTypes
    /\ \A r \in Requests : req[r] # None => Held(req[r]) /\ Executed(r)
    /\ \A e \in effects : EffectFits(e)

\* What the properties say follows from the invariant.
LEMMA EdgeSafe ==
    ASSUME Edge!VersionAssumption, EdgeInv
    PROVE  /\ Edge!TypeOK /\ Edge!ReadyIsOneRelease /\ Edge!EffectsAreOneRelease
           /\ Edge!RefusalDidNothing /\ Edge!CheckoutsAreVisual
  <1>1. Edge!TypeOK
    BY DEF EdgeInv, EdgeTypes, Edge!TypeOK, Held, EffectFits, Edge!VersionAssumption
  <1>2. Edge!ReadyIsOneRelease
    <2> SUFFICES ASSUME NEW r \in Requests, req[r] # None, req[r].header
                 PROVE  /\ req[r].seen = {req[r].report}
                        /\ req[r].report.cand = req[r].ev.cand /\ req[r].report.tag = req[r].ev.tag
                        /\ req[r].ev.lane = "Production" /\ req[r].report.lane = "Production"
                        /\ req[r].bad = {}
      BY DEF Edge!ReadyIsOneRelease
    <2>1. Held(req[r])
      BY DEF EdgeInv
    <2>2. /\ Edge!ObserveGuard(req[r]) /\ Edge!readCoreReadiness(req[r])
          /\ req[r].report # None /\ req[r].live = req[r].report
          /\ req[r].seen = {v \in {req[r].report, req[r].live} : v # None}
      BY <2>1 DEF Held
    <2>3. req[r].seen = {req[r].report}
      BY <2>2
    <2> QED
      BY <2>2, <2>3 DEF Edge!ObserveGuard, Edge!readCoreReadiness, Edge!readiness, Edge!SourceOk
  <1>3. Edge!EffectsAreOneRelease /\ Edge!CheckoutsAreVisual
    BY DEF EdgeInv, EffectFits, Edge!EffectsAreOneRelease, Edge!CheckoutsAreVisual
  <1>4. Edge!RefusalDidNothing
    <2> SUFFICES ASSUME NEW r \in Requests, req[r] # None, req[r].pc = "done",
                        req[r].door \notin {"dashboard", "readyz"}
                 PROVE  /\ req[r].status = "refused" => ~\E e \in effects : e.req = r
                        /\ req[r].status = "ok" => Edge!Cardinality({e \in effects : e.req = r}) = 1
      BY DEF Edge!RefusalDidNothing
    <2>1. Executed(r)
      BY DEF EdgeInv
    <2>2. ASSUME req[r].status = "ok" PROVE Edge!Cardinality({e \in effects : e.req = r}) = 1
      <3>1. PICK e \in effects : e.req = r /\ \A f \in effects : f.req = r => f = e
        BY <2>1, <2>2 DEF Executed, Readings
      <3>2. {f \in effects : f.req = r} = {e}
        BY <3>1
      <3> QED
        BY <3>2, FS_Singleton, EdgeCounts
    <2> QED
      BY <2>1, <2>2 DEF Executed
  <1> QED
    BY <1>1, <1>2, <1>3, <1>4

\* No request has arrived.
LEMMA EdgeInit == ASSUME Edge!VersionAssumption, Edge!Init PROVE EdgeInv
  <1>1. EdgeTypes
    BY DEF Edge!Init, EdgeTypes, Edge!VersionAssumption
  <1>2. \A r \in Requests : req[r] = None
    BY DEF Edge!Init
  <1> QED
    BY <1>1, <1>2 DEF Edge!Init, EdgeInv

\* One request moves on without the core executing anything.
LEMMA RequestMoves ==
    ASSUME Edge!VersionAssumption, EdgeInv, NEW r \in Requests, req[r] # None,
           NEW q \in Edge!RequestRecord, req' = [req EXCEPT ![r] = q], Held(q),
           q.ev = req[r].ev, q.target = req[r].target, q.cred = req[r].cred,
           (q.pc \in Early \/ q.status = "refused") => req[r].pc \in Early,
           (q.pc = "called" \/ (q.status = "ok" /\ q.door \notin Readings)) => req[r].pc = "called",
           effects' = effects, UNCHANGED <<edgeVersion, edgeCore, sandbox, deploys>>,
           faults' \in 0 .. MaxFaults
    PROVE  EdgeInv'
  <1>1. req \in [Requests -> Edge!RequestRecord \cup {None}] /\ effects \subseteq Edge!EffectRecord
    BY DEF EdgeInv, EdgeTypes
  <1>2. req'[r] = q /\ q # None /\ \A s \in Requests \ {r} : req'[s] = req[s]
    BY <1>1 DEF Edge!VersionAssumption
  <1>3. EdgeTypes'
    BY <1>1 DEF EdgeInv, EdgeTypes
  <1>4. ASSUME NEW s \in Requests, req'[s] # None PROVE Held(req'[s]) /\ Executed(s)'
    <2>1. CASE s = r
      <3>1. Executed(r)
        BY DEF EdgeInv
      <3> QED
        BY <1>2, <2>1, <3>1 DEF Executed
    <2>2. CASE s # r
      <3>1. Held(req[s]) /\ Executed(s)
        BY <1>2, <1>4, <2>2 DEF EdgeInv
      <3> QED
        BY <1>2, <2>2, <3>1 DEF Executed
    <2> QED
      BY <2>1, <2>2
  <1>5. ASSUME NEW e \in effects' PROVE EffectFits(e)'
    <2>1. e \in effects /\ e.req \in Requests /\ EffectFits(e)
      BY <1>1, <1>5 DEF EdgeInv, Edge!EffectRecord
    <2> QED
      BY <1>2, <2>1 DEF EffectFits
  <1> QED
    BY <1>3, <1>4, <1>5 DEF EdgeInv

\* What the invariant says of a request that is held.
LEMMA HeldRequest ==
    ASSUME EdgeInv, NEW r \in Requests, req[r] # None
    PROVE  req[r] \in Edge!RequestRecord /\ Held(req[r]) /\ Executed(r)
BY DEF EdgeInv, EdgeTypes

\* A request arrives at the edge version of that moment.
LEMMA ArriveKeeps == ASSUME Edge!VersionAssumption, EdgeInv, NEW r \in Requests, Edge!Arrive(r) PROVE EdgeInv'
  <1>1. PICK door \in Doors, t \in Edge!Targets, cred \in Edge!Creds, claim \in BOOLEAN, exact \in BOOLEAN :
           /\ door \in {"dashboard", "readyz"} => t = "registry" /\ cred = "none" /\ ~claim
           /\ door # "dashboard" => exact
           /\ door = "route" /\ ~Edge!routeToCore(t).claim => ~claim
           /\ door = "mcp" => t \in Edge!registerAgentTools /\ ~claim
           /\ door = "mcp_operator" => t \in Edge!registerOperatorTools
           /\ req' = [req EXCEPT ![r] = Edge!NewRequest(door, t, cred, claim, exact)]
    BY Zenon DEF Edge!Arrive
  <1> DEFINE q == Edge!NewRequest(door, t, cred, claim, exact)
  <1>2. q \in Edge!RequestRecord
    BY DEF EdgeInv, EdgeTypes, Edge!NewRequest, Edge!RequestRecord, Edge!Stages
  <1>3. Held(q)
    BY <1>1 DEF Edge!NewRequest, Held, Edge!VersionAssumption
  <1>4. q.pc = "arrived" /\ q.status = None
    BY DEF Edge!NewRequest
  <1>5. req' = [req EXCEPT ![r] = q]
    BY <1>1
  <1> HIDE DEF q
  <1>6. /\ req[r] = None /\ effects' = effects
        /\ UNCHANGED <<edgeVersion, edgeCore, sandbox, deploys, faults>>
    BY DEF Edge!Arrive, Edge!env
  <1>7. req \in [Requests -> Edge!RequestRecord \cup {None}] /\ effects \subseteq Edge!EffectRecord
    BY DEF EdgeInv, EdgeTypes
  <1>8. req'[r] = q /\ q # None /\ \A s \in Requests \ {r} : req'[s] = req[s]
    BY <1>2, <1>5, <1>7 DEF Edge!VersionAssumption
  <1>9. \A e \in effects : e.req \in Requests \ {r} /\ EffectFits(e)
    BY <1>6, <1>7 DEF EdgeInv, EffectFits, Edge!EffectRecord
  <1>10. EdgeTypes'
    BY <1>2, <1>5, <1>6, <1>7 DEF EdgeInv, EdgeTypes
  <1>11. ASSUME NEW s \in Requests, req'[s] # None PROVE Held(req'[s]) /\ Executed(s)'
    <2>1. CASE s = r
      BY <1>3, <1>4, <1>6, <1>8, <1>9, <2>1 DEF Executed, Edge!VersionAssumption, Edge!Statuses
    <2>2. CASE s # r
      <3>1. Held(req[s]) /\ Executed(s)
        BY <1>8, <1>11, <2>2 DEF EdgeInv
      <3> QED
        BY <1>6, <1>8, <2>2, <3>1 DEF Executed
    <2> QED
      BY <2>1, <2>2
  <1>12. ASSUME NEW e \in effects' PROVE EffectFits(e)'
    BY <1>6, <1>8, <1>9, <1>12 DEF EffectFits
  <1> QED
    BY <1>10, <1>11, <1>12 DEF EdgeInv

\* A request before its call that is answered, as refused or as failed, or that
\* goes on to its call.
LEMMA Ended ==
    ASSUME Edge!VersionAssumption, NEW q \in Edge!RequestRecord, Held(q), q.pc # "done",
           NEW status \in {"failed", "refused"}
    PROVE  /\ Edge!End(q, status) \in Edge!RequestRecord /\ Held(Edge!End(q, status))
           /\ Edge!End(q, status).pc = "done" /\ Edge!End(q, status).status = status
           /\ Edge!End(q, status).door = q.door /\ Edge!End(q, status).ev = q.ev
           /\ Edge!End(q, status).target = q.target /\ Edge!End(q, status).cred = q.cred
  <1> DEFINE w == Edge!End(q, status)
  <1>1. /\ w \in Edge!RequestRecord /\ w.pc = "done" /\ w.status = status
        /\ w.door = q.door /\ w.ev = q.ev /\ w.target = q.target /\ w.cred = q.cred
        /\ w.seen = q.seen /\ w.report = q.report /\ w.live = q.live /\ w.header = q.header
    BY DEF Edge!End, Edge!RequestRecord, Edge!Stages, Edge!Statuses
  <1>2. status # None
    BY DEF Edge!VersionAssumption, Edge!Statuses
  <1>3. ~q.header
    BY DEF Held
  <1> HIDE DEF w
  <1>4. Held(w)
    BY <1>1, <1>2, <1>3 DEF Held
  <1> QED
    BY <1>1, <1>4 DEF w

\* A request ends before its call.
LEMMA EndKeeps ==
    ASSUME Edge!VersionAssumption, EdgeInv, NEW r \in Requests, req[r] # None, req[r].pc \in Early,
           NEW status \in {"failed", "refused"}, req' = [req EXCEPT ![r] = Edge!End(req[r], status)],
           effects' = effects, UNCHANGED <<edgeVersion, edgeCore, sandbox, deploys>>,
           faults' \in 0 .. MaxFaults
    PROVE  EdgeInv'
  <1> DEFINE w == Edge!End(req[r], status)
  <1>1. /\ req[r] \in Edge!RequestRecord /\ Held(req[r]) /\ req[r].pc # "done"
    BY HeldRequest DEF Early
  <1>2. /\ w \in Edge!RequestRecord /\ Held(w) /\ w.pc = "done" /\ w.status = status
        /\ w.door = req[r].door /\ w.ev = req[r].ev /\ w.target = req[r].target
        /\ w.cred = req[r].cred
    BY <1>1, Ended
  <1>3. req' = [req EXCEPT ![r] = w]
    OBVIOUS
  <1> HIDE DEF w
  <1> QED
    BY <1>2, <1>3, RequestMoves DEF Early

\* A dashboard answer, ready or not.
LEMMA HeadersKeep ==
    ASSUME Edge!VersionAssumption, EdgeInv, NEW r \in Requests, req[r] # None,
           req[r].pc \in {"arrived", "probing"}, req[r].door = "dashboard", NEW ready \in BOOLEAN,
           ready => /\ Edge!ObserveGuard(req[r]) /\ req[r].report # None
                    /\ Edge!readCoreReadiness(req[r]) /\ req[r].live = req[r].report,
           req' = [req EXCEPT ![r] = Edge!attachRouteReadinessHeaders(req[r], ready)],
           effects' = effects, UNCHANGED <<edgeVersion, edgeCore, sandbox, deploys>>,
           faults' \in 0 .. MaxFaults
    PROVE  EdgeInv'
  <1> DEFINE q == req[r]  w == Edge!attachRouteReadinessHeaders(q, ready)
  <1>1. q \in Edge!RequestRecord /\ Held(q)
    BY HeldRequest
  <1>2. /\ w \in Edge!RequestRecord /\ w.pc = "done" /\ w.status = "ok" /\ w.header = ready
        /\ w.door = q.door /\ w.ev = q.ev /\ w.target = q.target /\ w.cred = q.cred
        /\ w.seen = q.seen /\ w.report = q.report /\ w.live = q.live /\ w.bad = q.bad
        /\ w.exact = q.exact
    BY <1>1 DEF Edge!attachRouteReadinessHeaders, Edge!End, Edge!RequestRecord, Edge!Stages, Edge!Statuses
  <1>3. "ok" # None
    BY DEF Edge!VersionAssumption, Edge!Statuses
  <1>4. ready => Edge!ObserveGuard(w) /\ Edge!readCoreReadiness(w)
    BY <1>2 DEF Edge!ObserveGuard, Edge!readCoreReadiness, Edge!isExactProductionDeliveryRequest, Edge!readiness, Edge!SourceOk
  <1>5. req' = [req EXCEPT ![r] = w]
    OBVIOUS
  <1> HIDE DEF w
  <1>6. Held(w)
    BY <1>1, <1>2, <1>3, <1>4 DEF Held
  <1>7. q.door \in Readings
    BY DEF Readings
  <1> QED
    BY <1>2, <1>5, <1>6, <1>7, RequestMoves DEF Early

\* A readiness request passes its guards, or is answered as not ready.
LEMMA ObserveKeeps ==
    ASSUME Edge!VersionAssumption, EdgeInv, NEW r \in Requests,
           Edge!observeProductionRouteReadiness(r) \/ Edge!readinessResponse(r)
    PROVE  EdgeInv'
  <1> DEFINE q == req[r]  w == [q EXCEPT !.pc = "probing"]
  <1>1. /\ q # None /\ q.pc = "arrived" /\ q.door \in Readings /\ effects' = effects
        /\ UNCHANGED <<edgeVersion, edgeCore, sandbox, deploys, faults>>
    BY DEF Edge!observeProductionRouteReadiness, Edge!readinessResponse, Edge!env, Readings
  <1>2. q \in Edge!RequestRecord /\ Held(q)
    BY <1>1, HeldRequest
  <1>3. faults' \in 0 .. MaxFaults
    BY <1>1 DEF EdgeInv, EdgeTypes
  <1>4. CASE req' = [req EXCEPT ![r] = w] /\ (q.door = "dashboard" => Edge!ObserveGuard(q))
    <2>1. /\ w \in Edge!RequestRecord /\ w.pc = "probing" /\ w.status = q.status /\ w.header = q.header
          /\ w.door = q.door /\ w.ev = q.ev /\ w.target = q.target /\ w.cred = q.cred
          /\ w.seen = q.seen /\ w.report = q.report /\ w.live = q.live
          /\ w.exact = q.exact
      BY <1>2 DEF Edge!RequestRecord, Edge!Stages
    <2>2. w.door = "dashboard" => Edge!ObserveGuard(w)
      BY <2>1, <1>4 DEF Edge!ObserveGuard, Edge!isExactProductionDeliveryRequest
    <2>3. req' = [req EXCEPT ![r] = w]
      BY <1>4
    <2> HIDE DEF w
    <2>4. Held(w)
      BY <1>1, <1>2, <2>1, <2>2 DEF Held
    <2>5. w.status = None
      BY <1>1, <1>2, <2>1 DEF Held
    <2> QED
      BY <1>1, <1>3, <2>1, <2>3, <2>4, <2>5, RequestMoves DEF Early, Edge!VersionAssumption, Edge!Statuses
  <1>5. CASE q.door = "dashboard" /\ req' = [req EXCEPT ![r] = Edge!attachRouteReadinessHeaders(q, FALSE)]
    BY <1>1, <1>3, <1>5, HeadersKeep
  <1>6. Edge!observeProductionRouteReadiness(r) \/ Edge!readinessResponse(r)
    OBVIOUS
  <1> QED
    BY <1>1, <1>4, <1>5, <1>6 DEF Edge!observeProductionRouteReadiness, Edge!readinessResponse

\* Reading the core: its version, its report, a check of it.
LEMMA ReadKeeps ==
    ASSUME Edge!VersionAssumption, EdgeInv, NEW r \in Requests,
           Edge!CoreLivez(r) \/ Edge!CoreReadyz(r) \/ Edge!check(r)
    PROVE  EdgeInv'
  <1> DEFINE q == req[r]
  <1>1. /\ q # None /\ q.pc = "probing" /\ effects' = effects
        /\ UNCHANGED <<edgeVersion, edgeCore, sandbox, deploys, faults>>
    BY DEF Edge!CoreLivez, Edge!CoreReadyz, Edge!check, Edge!env
  <1>2. q \in Edge!RequestRecord /\ Held(q)
    BY <1>1, HeldRequest
  <1>3. edgeCore \in Versions /\ faults' \in 0 .. MaxFaults
    BY <1>1 DEF EdgeInv, EdgeTypes
  <1>4. PICK w \in Edge!RequestRecord :
          /\ req' = [req EXCEPT ![r] = w]
          /\ w.pc = "probing" /\ w.status = q.status /\ w.header = q.header
          /\ w.door = q.door /\ w.ev = q.ev /\ w.target = q.target /\ w.cred = q.cred
          /\ w.exact = q.exact
          /\ w.seen = {v \in {w.report, w.live} : v # None}
    <2>1. CASE Edge!CoreLivez(r)
      <3> DEFINE w == [q EXCEPT !.live = edgeCore, !.seen = @ \cup {edgeCore}]
      <3>1. req' = [req EXCEPT ![r] = w]
        BY <2>1 DEF Edge!CoreLivez
      <3>2. /\ w \in Edge!RequestRecord /\ w.pc = q.pc /\ w.status = q.status /\ w.header = q.header
            /\ w.door = q.door /\ w.ev = q.ev /\ w.target = q.target /\ w.cred = q.cred
            /\ w.exact = q.exact /\ w.report = q.report /\ w.live = edgeCore
            /\ w.seen = q.seen \cup {edgeCore}
        BY <1>2, <1>3 DEF Edge!RequestRecord
      <3>3. q.seen = {v \in {q.report, None} : v # None}
        BY <1>2, <2>1 DEF Held, Edge!CoreLivez
      <3> HIDE DEF w
      <3>4. w.seen = {v \in {w.report, w.live} : v # None}
        BY <1>3, <3>2, <3>3 DEF Edge!VersionAssumption
      <3> QED
        BY <1>1, <3>1, <3>2, <3>4
    <2>2. CASE Edge!CoreReadyz(r)
      <3> DEFINE w == [q EXCEPT !.report = edgeCore, !.left = Edge!Checks, !.seen = @ \cup {edgeCore}]
      <3>1. req' = [req EXCEPT ![r] = w]
        BY <2>2 DEF Edge!CoreReadyz
      <3>2. /\ w \in Edge!RequestRecord /\ w.pc = q.pc /\ w.status = q.status /\ w.header = q.header
            /\ w.door = q.door /\ w.ev = q.ev /\ w.target = q.target /\ w.cred = q.cred
            /\ w.exact = q.exact /\ w.live = q.live /\ w.report = edgeCore
            /\ w.seen = q.seen \cup {edgeCore}
        BY <1>2, <1>3 DEF Edge!RequestRecord
      <3>3. q.seen = {v \in {None, q.live} : v # None}
        BY <1>2, <2>2 DEF Held, Edge!CoreReadyz
      <3> HIDE DEF w
      <3>4. w.seen = {v \in {w.report, w.live} : v # None}
        BY <1>3, <3>2, <3>3 DEF Edge!VersionAssumption
      <3> QED
        BY <1>1, <3>1, <3>2, <3>4
    <2>3. CASE Edge!check(r)
      <3>1. PICK c \in q.left, bad \in SUBSET Edge!Checks :
               req' = [req EXCEPT ![r].left = @ \ {c}, ![r].bad = bad]
        <4>1. PICK c \in q.left :
                 \/ req' = [req EXCEPT ![r].left = @ \ {c}, ![r].bad = @]
                 \/ req' = [req EXCEPT ![r].left = @ \ {c}, ![r].bad = @ \cup {c}]
          BY <2>3 DEF Edge!check
        <4>2. q.bad \in SUBSET Edge!Checks /\ q.bad \cup {c} \in SUBSET Edge!Checks
          BY <1>2 DEF Edge!RequestRecord
        <4> QED
          BY <4>1, <4>2
      <3> DEFINE w == [q EXCEPT !.left = @ \ {c}, !.bad = bad]
      <3>2. req' = [req EXCEPT ![r] = w]
        BY <3>1
      <3>3. /\ w \in Edge!RequestRecord /\ w.pc = q.pc /\ w.status = q.status /\ w.header = q.header
            /\ w.door = q.door /\ w.ev = q.ev /\ w.target = q.target /\ w.cred = q.cred
            /\ w.exact = q.exact /\ w.live = q.live /\ w.report = q.report /\ w.seen = q.seen
        BY <1>2, <3>1 DEF Edge!RequestRecord
      <3> HIDE DEF w
      <3> QED
        BY <1>1, <1>2, <3>2, <3>3 DEF Held
    <2> QED
      BY <2>1, <2>2, <2>3
  <1>5. w.status = None
    BY <1>1, <1>2, <1>4 DEF Held
  <1>6. w.door = "dashboard" => Edge!ObserveGuard(w)
    BY <1>1, <1>2, <1>4 DEF Held, Edge!ObserveGuard, Edge!isExactProductionDeliveryRequest
  <1>7. Held(w)
    BY <1>1, <1>2, <1>4, <1>5, <1>6 DEF Held
  <1> QED
    BY <1>1, <1>3, <1>4, <1>5, <1>7, RequestMoves DEF Early, Edge!VersionAssumption, Edge!Statuses

\* The verdicts on what was read, and a reading that failed.
LEMMA VerdictKeeps ==
    ASSUME Edge!VersionAssumption, EdgeInv, NEW r \in Requests,
           Edge!RouteVerdict(r) \/ Edge!ReadyzVerdict(r) \/ Edge!ProbeFails(r)
    PROVE  EdgeInv'
  <1> DEFINE q == req[r]
  <1>1. /\ q # None /\ q.pc = "probing" /\ effects' = effects
        /\ UNCHANGED <<edgeVersion, edgeCore, sandbox, deploys>> /\ faults' \in 0 .. MaxFaults
    <2>1. faults \in 0 .. MaxFaults /\ MaxFaults \in Nat
      BY DEF EdgeInv, EdgeTypes, Edge!VersionAssumption
    <2>2. CASE Edge!RouteVerdict(r)
      BY <2>1, <2>2 DEF Edge!RouteVerdict, Edge!ProbesDone, Edge!env
    <2>3. CASE Edge!ReadyzVerdict(r)
      BY <2>1, <2>3 DEF Edge!ReadyzVerdict, Edge!ProbesDone, Edge!env
    <2>4. CASE Edge!ProbeFails(r)
      BY <2>1, <2>4 DEF Edge!ProbeFails
    <2> QED
      BY <2>2, <2>3, <2>4
  <1>2. q \in Edge!RequestRecord /\ Held(q)
    BY <1>1, HeldRequest
  <1>3. q.door = "dashboard" => Edge!ObserveGuard(q)
    BY <1>1, <1>2 DEF Held
  <1>4. CASE Edge!RouteVerdict(r)
    <2> DEFINE ready == Edge!readCoreReadiness(q) /\ Edge!readCoreLive(q) /\ Edge!sameVersion(q.report, q.live)
    <2>1. /\ req' = [req EXCEPT ![r] = Edge!attachRouteReadinessHeaders(q, ready)]
          /\ q.door = "dashboard" /\ q.report # None
      BY <1>4 DEF Edge!RouteVerdict, Edge!ProbesDone
    <2>2. ready \in BOOLEAN
      BY DEF Edge!readCoreReadiness, Edge!readCoreLive, Edge!sameVersion
    <2>3. ready => Edge!readCoreReadiness(q) /\ q.live = q.report
      BY DEF Edge!sameVersion
    <2> HIDE DEF ready
    <2> QED
      BY <1>1, <1>3, <2>1, <2>2, <2>3, HeadersKeep
  <1>5. CASE Edge!ReadyzVerdict(r)
    <2>1. req' = [req EXCEPT ![r] = Edge!End(q, "failed")]
      BY <1>5 DEF Edge!ReadyzVerdict, Edge!readiness
    <2> QED
      BY <1>1, <2>1, EndKeeps DEF Early
  <1>6. CASE Edge!ProbeFails(r)
    <2>1. CASE q.door = "dashboard"
      <3>1. req' = [req EXCEPT ![r] = Edge!attachRouteReadinessHeaders(q, FALSE)]
        BY <1>6, <2>1 DEF Edge!ProbeFails
      <3> QED
        BY <1>1, <2>1, <3>1, HeadersKeep
    <2>2. CASE q.door # "dashboard"
      <3>1. req' = [req EXCEPT ![r] = Edge!End(q, "failed")]
        BY <1>6, <2>2 DEF Edge!ProbeFails
      <3> QED
        BY <1>1, <3>1, EndKeeps DEF Early
    <2> QED
      BY <2>1, <2>2
  <1> QED
    BY <1>4, <1>5, <1>6

\* A request admitted to its authorization has a mode that fits its credential.
LEMMA AdmittedKeeps ==
    ASSUME Edge!VersionAssumption, EdgeInv, NEW r \in Requests, req[r] # None,
           req[r].pc = "arrived", req[r].door \notin Readings, NEW mode \in Edge!Creds,
           req[r].target = "prepare" => mode = req[r].cred /\ mode \in {"agent", "session"},
           req' = [req EXCEPT ![r] = [req[r] EXCEPT !.pc = "authorize", !.mode = mode]],
           effects' = effects, UNCHANGED <<edgeVersion, edgeCore, sandbox, deploys, faults>>
    PROVE  EdgeInv'
  <1> DEFINE q == req[r]  w == [q EXCEPT !.pc = "authorize", !.mode = mode]
  <1>1. q \in Edge!RequestRecord /\ Held(q)
    BY HeldRequest
  <1>2. /\ w \in Edge!RequestRecord /\ w.pc = "authorize" /\ w.mode = mode /\ w.status = q.status
        /\ w.header = q.header /\ w.door = q.door /\ w.ev = q.ev /\ w.target = q.target
        /\ w.cred = q.cred /\ w.report = q.report /\ w.live = q.live /\ w.seen = q.seen
    BY <1>1 DEF Edge!RequestRecord, Edge!Stages
  <1>3. req' = [req EXCEPT ![r] = w]
    OBVIOUS
  <1>4. faults' \in 0 .. MaxFaults
    BY DEF EdgeInv, EdgeTypes
  <1> HIDE DEF w
  <1>5. w.status = None
    BY <1>1, <1>2 DEF Held
  <1>6. Held(w)
    BY <1>1, <1>2, <1>5 DEF Held
  <1> QED
    BY <1>2, <1>3, <1>4, <1>5, <1>6, RequestMoves DEF Early, Edge!VersionAssumption, Edge!Statuses

\* The guards of the routes and of the MCP doors.
LEMMA AdmitKeeps ==
    ASSUME Edge!VersionAssumption, EdgeInv, NEW r \in Requests, Edge!AdmitRoute(r) \/ Edge!handleMcpRequest(r)
    PROVE  EdgeInv'
  <1> DEFINE q == req[r]
  <1>1. /\ q # None /\ q.pc = "arrived" /\ q.door \notin Readings /\ effects' = effects
        /\ UNCHANGED <<edgeVersion, edgeCore, sandbox, deploys, faults>> /\ faults' \in 0 .. MaxFaults
    BY DEF Edge!AdmitRoute, Edge!handleMcpRequest, Edge!env, Readings, EdgeInv, EdgeTypes
  <1>2. q \in Edge!RequestRecord /\ Held(q)
    BY <1>1, HeldRequest
  <1>3. CASE Edge!AdmitRoute(r)
    <2> DEFINE mode == Edge!routeAuthorized(Edge!routeToCore(q.target).authority, q.cred)
    <2>1. \/ \E status \in {"failed", "refused"} : req' = [req EXCEPT ![r] = Edge!End(q, status)]
          \/ mode # None /\ req' = [req EXCEPT ![r] = [q EXCEPT !.pc = "authorize", !.mode = mode]]
      BY <1>3 DEF Edge!AdmitRoute
    <2>2. ASSUME mode # None PROVE mode \in Edge!Creds
      BY <1>2, <2>2 DEF Edge!routeAuthorized, Edge!routeToCore, Edge!RequestRecord, Edge!Creds, Edge!Targets
    <2>3. ASSUME mode # None, q.target = "prepare" PROVE mode = q.cred /\ mode \in {"agent", "session"}
      BY <2>3 DEF Edge!routeAuthorized, Edge!routeToCore
    <2> HIDE DEF mode
    <2>4. CASE mode # None /\ req' = [req EXCEPT ![r] = [q EXCEPT !.pc = "authorize", !.mode = mode]]
      BY <1>1, <2>2, <2>3, <2>4, AdmittedKeeps
    <2>5. ASSUME NEW status \in {"failed", "refused"}, req' = [req EXCEPT ![r] = Edge!End(q, status)]
          PROVE  EdgeInv'
      BY <1>1, <2>5, EndKeeps DEF Early
    <2> QED
      BY <2>1, <2>4, <2>5
  <1>4. CASE Edge!handleMcpRequest(r)
    <2> DEFINE mode == IF q.door = "mcp" THEN "agent" ELSE "operator"
    <2>1. \/ \E status \in {"failed", "refused"} : req' = [req EXCEPT ![r] = Edge!End(q, status)]
          \/ q.cred = mode /\ req' = [req EXCEPT ![r] = [q EXCEPT !.pc = "authorize", !.mode = mode]]
      BY <1>4 DEF Edge!handleMcpRequest
    <2>2. mode \in Edge!Creds
      BY DEF Edge!Creds
    <2>3. q.target = "prepare" => mode = "agent"
      BY <1>2, <1>4 DEF Edge!handleMcpRequest, Held, Edge!registerOperatorTools
    <2> HIDE DEF mode
    <2>4. CASE q.cred = mode /\ req' = [req EXCEPT ![r] = [q EXCEPT !.pc = "authorize", !.mode = mode]]
      BY <1>1, <2>2, <2>3, <2>4, AdmittedKeeps
    <2>5. ASSUME NEW status \in {"failed", "refused"}, req' = [req EXCEPT ![r] = Edge!End(q, status)]
          PROVE  EdgeInv'
      BY <1>1, <2>5, EndKeeps DEF Early
    <2> QED
      BY <2>1, <2>4, <2>5
  <1> QED
    BY <1>3, <1>4

\* The authorization: only a request of the core's own candidate, with a checkout
\* action its mode may have, goes on to its call.
LEMMA AuthorizeKeeps ==
    ASSUME Edge!VersionAssumption, EdgeInv, NEW r \in Requests, Edge!authorizeCoreAction(r)
    PROVE  EdgeInv'
  <1> DEFINE q == req[r]  w == [q EXCEPT !.pc = "call", !.auth = edgeCore]
  <1>1. /\ q # None /\ q.pc = "authorize" /\ effects' = effects
        /\ UNCHANGED <<edgeVersion, edgeCore, sandbox, deploys, faults>> /\ faults' \in 0 .. MaxFaults
    BY DEF Edge!authorizeCoreAction, Edge!env, EdgeInv, EdgeTypes
  <1>2. q \in Edge!RequestRecord /\ Held(q) /\ edgeCore \in Versions
    BY <1>1, HeldRequest DEF EdgeInv, EdgeTypes
  <1>3. \/ \E status \in {"failed", "refused"} : req' = [req EXCEPT ![r] = Edge!End(q, status)]
        \/ edgeCore.cand = q.ev.cand /\ ~Edge!CheckoutRefused(q) /\ req' = [req EXCEPT ![r] = w]
    BY DEF Edge!authorizeCoreAction, Edge!handleCoreRequest
  <1>4. CASE edgeCore.cand = q.ev.cand /\ ~Edge!CheckoutRefused(q) /\ req' = [req EXCEPT ![r] = w]
    <2>1. /\ w \in Edge!RequestRecord /\ w.pc = "call" /\ w.auth = edgeCore /\ w.mode = q.mode
          /\ w.status = q.status /\ w.header = q.header /\ w.door = q.door /\ w.ev = q.ev
          /\ w.target = q.target /\ w.cred = q.cred /\ w.report = q.report
          /\ w.live = q.live /\ w.seen = q.seen
      BY <1>2 DEF Edge!RequestRecord, Edge!Stages
    <2>2. req' = [req EXCEPT ![r] = w] /\ edgeCore.cand = q.ev.cand /\ ~Edge!CheckoutRefused(q)
      BY <1>4
    <2> HIDE DEF w
    <2>3. w.status = None
      BY <1>1, <1>2, <2>1 DEF Held
    <2>4. ~Edge!CheckoutRefused(w)
      BY <2>1, <2>2 DEF Edge!CheckoutRefused
    <2>5. Held(w)
      BY <1>1, <1>2, <2>1, <2>2, <2>3, <2>4 DEF Held
    <2> QED
      BY <1>1, <2>1, <2>2, <2>3, <2>5, RequestMoves DEF Early, Edge!VersionAssumption, Edge!Statuses
  <1>5. ASSUME NEW status \in {"failed", "refused"}, req' = [req EXCEPT ![r] = Edge!End(q, status)]
        PROVE  EdgeInv'
    BY <1>1, <1>5, EndKeeps DEF Early
  <1> QED
    BY <1>3, <1>4, <1>5

\* A call that did not reach the core, or that the core refused.
LEMMA CallFailsKeeps ==
    ASSUME Edge!VersionAssumption, EdgeInv, NEW r \in Requests, Edge!CallFails(r)
    PROVE  EdgeInv'
  <1>1. /\ req[r] # None /\ req[r].pc \in Early /\ effects' = effects
        /\ UNCHANGED <<edgeVersion, edgeCore, sandbox, deploys>> /\ faults' \in 0 .. MaxFaults
        /\ req' = [req EXCEPT ![r] = Edge!End(req[r], "failed")]
    BY DEF Edge!CallFails, Early, EdgeInv, EdgeTypes, Edge!VersionAssumption
  <1> QED
    BY <1>1, EndKeeps

\* The core executes the call of a request: its version has the candidate of the
\* edge, which is the one that authorised it.
LEMMA ExecuteKeeps ==
    ASSUME Edge!VersionAssumption, EdgeInv, NEW r \in Requests, req[r] # None, req[r].pc = "call",
           edgeCore.cand = req[r].ev.cand, NEW q \in Edge!RequestRecord, req' = [req EXCEPT ![r] = q],
           Held(q), q.ev = req[r].ev, q.target = req[r].target, q.cred = req[r].cred,
           q.pc = "called" \/ (q.pc = "done" /\ q.status = "failed"),
           effects' = effects \cup {[req |-> r, by |-> edgeCore, auth |-> req[r].auth]},
           UNCHANGED <<edgeVersion, edgeCore, sandbox, deploys>>, faults' \in 0 .. MaxFaults
    PROVE  EdgeInv'
  <1> DEFINE d == [req |-> r, by |-> edgeCore, auth |-> req[r].auth]
  <1>1. /\ req \in [Requests -> Edge!RequestRecord \cup {None}] /\ effects \subseteq Edge!EffectRecord
        /\ edgeCore \in Versions
    BY DEF EdgeInv, EdgeTypes
  <1>2. req'[r] = q /\ q # None /\ \A s \in Requests \ {r} : req'[s] = req[s]
    BY <1>1 DEF Edge!VersionAssumption
  <1>3. Held(req[r]) /\ Executed(r)
    BY DEF EdgeInv
  <1>4. /\ req[r].auth \in Versions /\ req[r].auth.cand = req[r].ev.cand
        /\ ~Edge!CheckoutRefused(req[r])
        /\ req[r].target = "prepare" => req[r].mode = req[r].cred /\ req[r].mode \in {"agent", "session"}
    BY <1>3 DEF Held
  <1>5. /\ d \in Edge!EffectRecord /\ d.req = r /\ d.by = edgeCore /\ d.auth = req[r].auth
        /\ effects' = effects \cup {d}
    BY <1>1, <1>4 DEF Edge!EffectRecord
  <1> HIDE DEF d
  <1>6. \A e \in effects : e.req # r
    BY <1>3 DEF Executed, Early
  <1>7. EdgeTypes'
    BY <1>1, <1>5 DEF EdgeInv, EdgeTypes
  <1>8. req[r].target # "confirm" /\ (req[r].target = "prepare" => req[r].cred = "session")
    BY <1>4 DEF Edge!CheckoutRefused, Edge!routeToCore
  <1>9. ASSUME NEW s \in Requests, req'[s] # None PROVE Held(req'[s]) /\ Executed(s)'
    <2>1. CASE s = r
      <3>1. q.pc \notin Early /\ q.status # "refused"
        BY DEF Early, Held, Edge!VersionAssumption, Edge!Statuses
      <3>2. d \in effects' /\ d.req = r /\ \A f \in effects' : f.req = r => f = d
        BY <1>5, <1>6
      <3> QED
        BY <1>2, <2>1, <3>1, <3>2 DEF Executed
    <2>2. CASE s # r
      <3>1. Held(req[s]) /\ Executed(s)
        BY <1>2, <1>9, <2>2 DEF EdgeInv
      <3>2. \A e : (e \in effects' /\ e.req = s) <=> (e \in effects /\ e.req = s)
        BY <1>5, <2>2
      <3> QED
        BY <1>2, <2>2, <3>1, <3>2 DEF Executed
    <2> QED
      BY <2>1, <2>2
  <1>10. ASSUME NEW e \in effects' PROVE EffectFits(e)'
    <2>1. CASE e = d
      BY <1>2, <1>4, <1>5, <1>8, <2>1 DEF EffectFits
    <2>2. CASE e \in effects
      <3>1. e.req \in Requests \ {r} /\ EffectFits(e)
        BY <1>1, <1>6, <2>2 DEF EdgeInv, Edge!EffectRecord
      <3> QED
        BY <1>2, <3>1 DEF EffectFits
    <2> QED
      BY <1>5, <1>10, <2>1, <2>2
  <1> QED
    BY <1>7, <1>9, <1>10 DEF EdgeInv

\* The call: refused by another candidate, or executed and perhaps not answered.
LEMMA CallKeeps ==
    ASSUME Edge!VersionAssumption, EdgeInv, NEW r \in Requests, Edge!coreCall(r)
    PROVE  EdgeInv'
  <1> DEFINE q == req[r]
  <1>1. /\ q # None /\ q.pc = "call" /\ UNCHANGED <<edgeVersion, edgeCore, sandbox, deploys>>
    BY DEF Edge!coreCall
  <1>2. q \in Edge!RequestRecord /\ Held(q)
    BY <1>1, HeldRequest
  <1>3. faults' \in 0 .. MaxFaults
    <2>1. faults \in 0 .. MaxFaults /\ MaxFaults \in Nat
      BY DEF EdgeInv, EdgeTypes, Edge!VersionAssumption
    <2>2. faults' = faults \/ (faults < MaxFaults /\ faults' = faults + 1)
      BY DEF Edge!coreCall
    <2> QED
      BY <2>1, <2>2
  <1>4. CASE req' = [req EXCEPT ![r] = Edge!End(q, "refused")] /\ effects' = effects
    BY <1>1, <1>3, <1>4, EndKeeps DEF Early
  <1>5. CASE /\ edgeCore.cand = q.ev.cand
             /\ effects' = effects \cup {[req |-> r, by |-> edgeCore, auth |-> req[r].auth]}
             /\ \/ req' = [req EXCEPT ![r].pc = "called"]
                \/ req' = [req EXCEPT ![r] = Edge!End(q, "failed")]
    <2>1. CASE req' = [req EXCEPT ![r] = Edge!End(q, "failed")]
      <3> DEFINE w == Edge!End(q, "failed")
      <3>1. /\ w \in Edge!RequestRecord /\ Held(w) /\ w.pc = "done" /\ w.status = "failed"
            /\ w.ev = q.ev /\ w.target = q.target /\ w.cred = q.cred
        BY <1>1, <1>2, Ended
      <3>2. req' = [req EXCEPT ![r] = w]
        BY <2>1
      <3> HIDE DEF w
      <3> QED
        BY <1>1, <1>3, <1>5, <3>1, <3>2, ExecuteKeeps
    <2>2. CASE req' = [req EXCEPT ![r].pc = "called"]
      <3> DEFINE w == [q EXCEPT !.pc = "called"]
      <3>1. /\ w \in Edge!RequestRecord /\ w.pc = "called" /\ w.auth = q.auth /\ w.mode = q.mode
            /\ w.status = q.status /\ w.header = q.header /\ w.door = q.door /\ w.ev = q.ev
            /\ w.target = q.target /\ w.cred = q.cred /\ w.report = q.report
            /\ w.live = q.live /\ w.seen = q.seen
        BY <1>2 DEF Edge!RequestRecord, Edge!Stages
      <3>2. req' = [req EXCEPT ![r] = w]
        BY <2>2
      <3> HIDE DEF w
      <3>3. Edge!CheckoutRefused(w) = Edge!CheckoutRefused(q)
        BY <3>1 DEF Edge!CheckoutRefused
      <3>4. Held(w)
        BY <1>1, <1>2, <3>1, <3>3 DEF Held
      <3> QED
        BY <1>1, <1>3, <1>5, <3>1, <3>2, <3>4, ExecuteKeeps
    <2> QED
      BY <1>5, <2>1, <2>2
  <1> QED
    BY <1>4, <1>5 DEF Edge!coreCall, Edge!handleCoreRequest

\* The answer of a call that was executed.
LEMMA IssueKeeps ==
    ASSUME Edge!VersionAssumption, EdgeInv, NEW r \in Requests, Edge!issueProof(r)
    PROVE  EdgeInv'
  <1> DEFINE q == req[r]
  <1>1. /\ q # None /\ q.pc = "called" /\ effects' = effects
        /\ UNCHANGED <<edgeVersion, edgeCore, sandbox, deploys, faults>> /\ faults' \in 0 .. MaxFaults
    BY DEF Edge!issueProof, Edge!env, EdgeInv, EdgeTypes
  <1>2. q \in Edge!RequestRecord /\ Held(q)
    BY <1>1, HeldRequest
  <1>3. PICK status \in {"ok", "failed"} : req' = [req EXCEPT ![r] = Edge!End(q, status)]
    BY DEF Edge!issueProof
  <1> DEFINE w == Edge!End(q, status)
  <1>4. /\ w \in Edge!RequestRecord /\ w.pc = "done" /\ w.status = status
        /\ w.door = q.door /\ w.ev = q.ev /\ w.target = q.target /\ w.cred = q.cred
        /\ w.seen = q.seen /\ w.report = q.report /\ w.live = q.live /\ w.header = q.header
    BY <1>2 DEF Edge!End, Edge!RequestRecord, Edge!Stages, Edge!Statuses
  <1>5. req' = [req EXCEPT ![r] = w]
    BY <1>3
  <1> HIDE DEF w
  <1>6. Held(w)
    BY <1>1, <1>2, <1>4 DEF Held, Edge!VersionAssumption, Edge!Statuses
  <1> QED
    BY <1>1, <1>4, <1>5, <1>6, RequestMoves DEF Early

\* Rollouts, disturbances and stuttering steps leave the requests alone.
LEMMA WorldKeeps ==
    ASSUME Edge!VersionAssumption, EdgeInv, Edge!Deploy \/ Edge!Disturb \/ UNCHANGED Edge!vars
    PROVE  EdgeInv'
  <1>1. req' = req /\ effects' = effects
    BY DEF Edge!Deploy, Edge!Disturb, Edge!vars
  <1>2. EdgeTypes'
    <2>1. EdgeTypes /\ MaxDeploys \in Nat /\ MaxFaults \in Nat
      BY DEF EdgeInv, Edge!VersionAssumption
    <2>2. CASE Edge!Deploy
      BY <2>1, <2>2 DEF Edge!Deploy, EdgeTypes
    <2>3. CASE Edge!Disturb
      BY <2>1, <2>3 DEF Edge!Disturb, EdgeTypes
    <2>4. CASE UNCHANGED Edge!vars
      BY <2>1, <2>4 DEF Edge!vars, Edge!env, EdgeTypes
    <2> QED
      BY <2>2, <2>3, <2>4
  <1>3. \A r \in Requests : req'[r] # None => Held(req'[r]) /\ Executed(r)'
    BY <1>1 DEF EdgeInv, Executed
  <1>4. \A e \in effects' : EffectFits(e)'
    BY <1>1 DEF EdgeInv, EffectFits
  <1> QED
    BY <1>2, <1>3, <1>4 DEF EdgeInv

\* Every step keeps the invariant.
LEMMA EdgeNext == Edge!VersionAssumption /\ EdgeInv /\ [Edge!Next]_(Edge!vars) => EdgeInv'
  <1> SUFFICES ASSUME Edge!VersionAssumption, EdgeInv, [Edge!Next]_(Edge!vars) PROVE EdgeInv'
      OBVIOUS
  <1>1. ASSUME NEW r \in Requests, Edge!Arrive(r) \/ Edge!Serve(r) \/ Edge!ProbeFails(r) \/ Edge!CallFails(r)
        PROVE  EdgeInv'
    <2>1. CASE Edge!Arrive(r)
      BY <2>1, ArriveKeeps
    <2>2. CASE Edge!observeProductionRouteReadiness(r) \/ Edge!readinessResponse(r)
      BY <2>2, ObserveKeeps
    <2>3. CASE Edge!CoreLivez(r) \/ Edge!CoreReadyz(r) \/ Edge!check(r)
      BY <2>3, ReadKeeps
    <2>4. CASE Edge!RouteVerdict(r) \/ Edge!ReadyzVerdict(r) \/ Edge!ProbeFails(r)
      BY <2>4, VerdictKeeps
    <2>5. CASE Edge!AdmitRoute(r) \/ Edge!handleMcpRequest(r)
      BY <2>5, AdmitKeeps
    <2>6. CASE Edge!authorizeCoreAction(r)
      BY <2>6, AuthorizeKeeps
    <2>7. CASE Edge!coreCall(r)
      BY <2>7, CallKeeps
    <2>8. CASE Edge!issueProof(r)
      BY <2>8, IssueKeeps
    <2>9. CASE Edge!CallFails(r)
      BY <2>9, CallFailsKeeps
    <2> QED
      BY <1>1, <2>1, <2>2, <2>3, <2>4, <2>5, <2>6, <2>7, <2>8, <2>9 DEF Edge!Serve
  <1>2. ASSUME Edge!Deploy \/ Edge!Disturb \/ UNCHANGED Edge!vars PROVE EdgeInv'
    BY <1>2, WorldKeeps
  <1> QED
    BY <1>1, <1>2 DEF Edge!Next

\* The invariant holds throughout.
LEMMA EdgeInvariant == ASSUME Edge!VersionAssumption PROVE Edge!Spec => []EdgeInv
  <1>1. Edge!Init => EdgeInv
    BY EdgeInit
  <1>2. EdgeInv /\ [Edge!Next]_(Edge!vars) => EdgeInv'
    BY EdgeNext
  <1> QED
    BY <1>1, <1>2, PTL DEF Edge!Spec

\* What the edge holds of its requests keeps its shape, for any requests and rollouts.
THEOREM EdgeTypeCorrect == ASSUME Edge!VersionAssumption PROVE Edge!Spec => []Edge!TypeOK
  <1>1. EdgeInv => Edge!TypeOK
    BY EdgeSafe
  <1> QED
    BY <1>1, EdgeInvariant, PTL

\* A dashboard answered ready was served by one core version of the edge's own release,
\* whatever was rolled out between the reads (observeProductionRouteReadiness).
THEOREM ReadyFromOneRelease == ASSUME Edge!VersionAssumption PROVE Edge!Spec => []Edge!ReadyIsOneRelease
  <1>1. EdgeInv => Edge!ReadyIsOneRelease
    BY EdgeSafe
  <1> QED
    BY <1>1, EdgeInvariant, PTL

\* The edge that asked, the core that authorised and the core that executed have one
\* candidate, for any rollouts between the steps (authorizeCoreAction, coreCall).
THEOREM EffectsOfOneRelease == ASSUME Edge!VersionAssumption PROVE Edge!Spec => []Edge!EffectsAreOneRelease
  <1>1. EdgeInv => Edge!EffectsAreOneRelease
    BY EdgeSafe
  <1> QED
    BY <1>1, EdgeInvariant, PTL

\* A refused request changed nothing in the core, and one answered ok was executed
\* exactly once, for any faults and rollouts.
THEOREM RefusedDidNothing == ASSUME Edge!VersionAssumption PROVE Edge!Spec => []Edge!RefusalDidNothing
  <1>1. EdgeInv => Edge!RefusalDidNothing
    BY EdgeSafe
  <1> QED
    BY <1>1, EdgeInvariant, PTL

\* No door of the edge confirms a checkout for an agent, and only a session prepares
\* one (visualOnlyCheckout).
THEOREM CheckoutsStayVisual == ASSUME Edge!VersionAssumption PROVE Edge!Spec => []Edge!CheckoutsAreVisual
  <1>1. EdgeInv => Edge!CheckoutsAreVisual
    BY EdgeSafe
  <1> QED
    BY <1>1, EdgeInvariant, PTL

-----------------------------------------------------------------------------
(***************************************************************************)
(* The invocation catalogue of an isolate, InvocationCatalog.  CatalogInv   *)
(* is inductive: the cache is empty or the pinned catalogue, a hydration    *)
(* that goes on while the upstream is away from the pin holds no metadata   *)
(* of the pin, and the sessions left behind are as many as the faults.      *)
(***************************************************************************)
CONSTANTS Revision, Pin, Content, Map, Actions, Required, Presented, BadToken, Kinds, MaxPublish
VARIABLES adv, body, live, published, catalogFaults, catalogSession, cache, hyd, catalogReq,
          called, off

Catalog == INSTANCE InvocationCatalog WITH
    faults <- catalogFaults, session <- catalogSession, req <- catalogReq

\* The instance counts as this module does.
LEMMA CatalogCounts == \A S : Catalog!Cardinality(S) = Cardinality(S)
BY DEF Catalog!Cardinality, Cardinality

\* Names for the sets of the invariant below.
AllEntries == UNION {Content[r] : r \in Revision}
Distinct(E) == \A e, f \in E : e.token = f.token => e = f
Args == Actions \cup Presented \cup {None}
Asked == [pc : {"await", "answered"}, kind : Kinds, arg : Args,
          ans : {None, "ok", "unavailable", "uncovered", "unresolved", "unmapped"},
          snap : {None, Catalog!PinnedSnapshot}]
Mapped(a) == Catalog!EntryOf(a) # {} /\ Catalog!Covered(Catalog!EntryOf(a), Content[Pin])

\* A request that was answered ok holds the pinned catalogue, and a core call its
\* coverage; one that waits has a hydration to wait for.
Fitting(q) ==
    \/ q = Catalog!Idle
    \/ /\ q \in Asked
       /\ q.pc = "await" /\ q.kind = "call" => Catalog!EntryOf(q.arg) # {}
       /\ q.pc = "answered" /\ q.ans = "ok" =>
             q.snap = Catalog!PinnedSnapshot /\ (q.kind = "call" => Mapped(q.arg))

\* The types.
CatalogTypes ==
    /\ adv \in Revision /\ body \in Revision
    /\ live \subseteq 1..(MaxFaults + 2) /\ catalogSession \in 0..(MaxFaults + 2)
    /\ published \in 0..MaxPublish /\ catalogFaults \in 0..MaxFaults
    /\ off \in {"no", "yes", "seen"}
    /\ cache \in {None, Catalog!PinnedSnapshot} /\ hyd \in Catalog!Hydration \cup {None}

\* The hydration reads its metadata once, from what was advertised then: one begun
\* or going on while the upstream is away never holds the metadata of the pin.
HydrationInv ==
    hyd # None =>
        /\ hyd.phase \in {"init", "notify"} => hyd.i = 1
        /\ hyd.phase = "call" => hyd.i \in 1..3
        /\ hyd.phase = "digest" => hyd.meta # None
        /\ hyd.phase = "close" => cache = None
        /\ Distinct(hyd.entries)
        /\ hyd.off => off = "yes"
        /\ hyd.off \/ off = "seen" => hyd.meta = None \/ hyd.meta.rev # Pin

\* Whether the upstream is away, and nothing cached once that was seen.
AwayInv == (off = "no" <=> adv = Pin) /\ (off = "seen" => cache = None)

\* What was left behind; a client is only kept with the cache or a hydration.
SessionInv ==
    /\ Cardinality(live \ {catalogSession}) \leq catalogFaults
    /\ hyd = None /\ cache = None => catalogSession = 0

\* The requests, and the core calls made.
RequestInv == \A r \in Requests : Fitting(catalogReq[r]) /\ (catalogReq[r].pc = "await" => hyd # None)

CalledInv == \A c \in called : c.snap = Catalog!PinnedSnapshot /\ Mapped(c.action)

\* The inductive invariant.
CatalogInv == /\ CatalogTypes /\ HydrationInv /\ AwayInv /\ SessionInv /\ CalledInv
              /\ RequestInv /\ DOMAIN catalogReq = Requests

\* The stages of a request.
LEMMA PcOfFitting == \A q : Fitting(q) => q.pc \in {"idle", "await", "answered"}
BY DEF Fitting, Catalog!Idle, Asked

\* What the properties say follows from the invariant.
LEMMA CatalogSafe ==
    ASSUME Catalog!PinAssumption, CatalogInv
    PROVE  Catalog!TypeOK /\ Catalog!CallsAreCovered /\ Catalog!SessionsAccounted
  <1>1. Catalog!TypeOK
    BY PcOfFitting DEF CatalogInv, CatalogTypes, RequestInv, Catalog!TypeOK
  <1>2. Catalog!SessionsAccounted
    BY CatalogCounts DEF CatalogInv, SessionInv, Catalog!SessionsAccounted
  <1>3. Catalog!PinnedSnapshot.entries = Content[Pin] /\ Catalog!PinnedSnapshot # None
    BY DEF Catalog!PinnedSnapshot, Catalog!PinAssumption
  <1>4. \A c \in called : /\ c.snap # None /\ c.snap.entries = Content[Pin]
                          /\ Catalog!EntryOf(c.action) # {} /\ Catalog!Covered(Catalog!EntryOf(c.action), Content[Pin])
    BY <1>3 DEF CatalogInv, CalledInv, Mapped
  <1>5. ASSUME NEW r \in Requests, catalogReq[r].pc = "answered", catalogReq[r].ans = "ok"
        PROVE  catalogReq[r].snap.entries = Content[Pin]
    <2>1. Fitting(catalogReq[r])
      BY DEF CatalogInv, RequestInv
    <2>2. catalogReq[r] # Catalog!Idle
      BY <1>5 DEF Catalog!Idle
    <2> QED
      BY <1>3, <1>5, <2>1, <2>2 DEF Fitting
  <1>6. Catalog!CallsAreCovered
    BY <1>4, <1>5 DEF Catalog!CallsAreCovered
  <1> QED
    BY <1>1, <1>2, <1>6

\* Nothing is cached and nobody waits.
LEMMA CatalogInit == ASSUME Catalog!PinAssumption, Catalog!Init PROVE CatalogInv
  <1>1. live \ {catalogSession} = {} /\ catalogFaults = 0
    BY DEF Catalog!Init
  <1>2. SessionInv
    BY <1>1, FS_EmptySet DEF Catalog!Init, SessionInv
  <1>3. CatalogTypes
    BY DEF Catalog!Init, CatalogTypes, Catalog!PinAssumption
  <1>4. \A r \in Requests : catalogReq[r] = Catalog!Idle
    BY DEF Catalog!Init
  <1>5. Catalog!Idle.pc = "idle"
    BY DEF Catalog!Idle
  <1>6. RequestInv
    BY <1>4, <1>5 DEF RequestInv, Fitting
  <1>7. HydrationInv /\ AwayInv /\ CalledInv /\ DOMAIN catalogReq = Requests
    BY DEF Catalog!Init, HydrationInv, AwayInv, CalledInv
  <1> QED
    BY <1>2, <1>3, <1>6, <1>7 DEF CatalogInv

\* An entry without its tools.
Bare(e) == [e EXCEPT !.tools = {}]

\* Two entries that are equal but for their tools have one token.
LEMMA BareNames ==
    ASSUME NEW e, NEW f, e = Catalog!EntryShape(e), f = Catalog!EntryShape(f), Bare(e) = Bare(f)
    PROVE  e.token = f.token /\ (e.tools = f.tools => e = f)
  <1>1. /\ Bare(e).token = e.token /\ Bare(e).kind = e.kind /\ Bare(e).semantics = e.semantics
        /\ Bare(e).bindings = e.bindings /\ Bare(e).url = e.url
    BY DEF Catalog!EntryShape, Bare
  <1>2. /\ Bare(f).token = f.token /\ Bare(f).kind = f.kind /\ Bare(f).semantics = f.semantics
        /\ Bare(f).bindings = f.bindings /\ Bare(f).url = f.url
    BY DEF Catalog!EntryShape, Bare
  <1> QED
    BY <1>1, <1>2 DEF Catalog!EntryShape

\* The digests, of the entries and of their tools, name one set of entries when
\* one of the two has no token twice.
LEMMA DigestsSeparate ==
    ASSUME Catalog!PinAssumption, NEW E \in SUBSET AllEntries, Distinct(E),
           Catalog!buildInvocationDigests(E) = Catalog!buildInvocationDigests(Content[Pin])
    PROVE  E = Content[Pin]
  <1> DEFINE P == Content[Pin]
  <1>1. /\ {Bare(e) : e \in E} = {Bare(e) : e \in P}
        /\ {<<e.token, e.tools>> : e \in E} = {<<e.token, e.tools>> : e \in P}
    BY DEF Catalog!buildInvocationDigests, Bare
  <1>2. \A e \in E \cup P : e = Catalog!EntryShape(e)
    BY DEF AllEntries, Catalog!PinAssumption
  <1>4. \A p \in P : \E e \in E : Bare(e) = Bare(p)
    BY <1>1
  <1>5. \A p \in P : \E e \in E : e.token = p.token /\ e.tools = p.tools
    <2> SUFFICES ASSUME NEW p \in P PROVE \E e \in E : e.token = p.token /\ e.tools = p.tools
        OBVIOUS
    <2>1. <<p.token, p.tools>> \in {<<e.token, e.tools>> : e \in E}
      BY <1>1
    <2> QED
      BY <2>1
  <1>6. ASSUME NEW p \in P PROVE p \in E
    <2>1. PICK e \in E : Bare(e) = Bare(p)
      BY <1>4
    <2>2. PICK f \in E : f.token = p.token /\ f.tools = p.tools
      BY <1>5
    <2>3. e.token = p.token /\ (e.tools = p.tools => e = p)
      <3>1. e = Catalog!EntryShape(e) /\ p = Catalog!EntryShape(p)
        BY <1>2
      <3> QED
        BY <2>1, <3>1, BareNames
    <2>4. e = f
      BY <2>2, <2>3 DEF Distinct
    <2> QED
      BY <2>2, <2>3, <2>4
  <1>7. \A e \in E : \E p \in P : Bare(e) = Bare(p)
    BY <1>1
  <1>8. ASSUME NEW e \in E PROVE e \in P
    <2>1. PICK p \in P : Bare(e) = Bare(p)
      BY <1>7
    <2>2. e.token = p.token
      <3>1. e = Catalog!EntryShape(e) /\ p = Catalog!EntryShape(p)
        BY <1>2
      <3> QED
        BY <2>1, <3>1, BareNames
    <2> QED
      BY <1>6, <2>2 DEF Distinct
  <1> QED
    BY <1>6, <1>8

\* A request handed the catalogue, or none.
LEMMA Handed ==
    ASSUME Catalog!PinAssumption, NEW q \in Asked, NEW s \in {None, Catalog!PinnedSnapshot},
           q.kind = "call" => Catalog!EntryOf(q.arg) # {}
    PROVE  /\ Fitting(Catalog!Answered(q, s)) /\ Catalog!Answered(q, s).pc = "answered"
           /\ Catalog!Answered(q, s).ans = "ok" => s = Catalog!PinnedSnapshot
  <1> DEFINE w == Catalog!Answered(q, s)
  <1>1. Catalog!PinnedSnapshot # None /\ Catalog!PinnedSnapshot.entries = Content[Pin]
    BY DEF Catalog!PinnedSnapshot, Catalog!PinAssumption
  <1>2. q.kind \in Kinds /\ q.kind \in {"call", "present", "ready", "coverage"}
    BY DEF Asked, Catalog!PinAssumption
  <1>3. /\ Catalog!Answer(q, s) \in {"ok", "unavailable", "uncovered", "unresolved"}
        /\ s = None => Catalog!Answer(q, s) = "unavailable"
        /\ Catalog!Answer(q, s) = "ok" /\ q.kind = "call" => Catalog!Covered(Catalog!EntryOf(q.arg), s.entries)
    BY <1>2 DEF Catalog!Answer, Catalog!authorizeCapabilityAction, Catalog!resolvePresentedInvocations,
       Catalog!resolvePinnedInvocations, Catalog!capabilityCoverage
  <1>4. /\ w.pc = "answered" /\ w.ans = Catalog!Answer(q, s) /\ w.snap = s /\ w.kind = q.kind
        /\ w.arg = q.arg /\ w \in Asked
    BY <1>3 DEF Catalog!Answered, Asked
  <1> HIDE DEF w
  <1>5. Fitting(w)
    BY <1>1, <1>3, <1>4 DEF Fitting, Mapped
  <1> QED
    BY <1>3, <1>4, <1>5 DEF w

\* The answer to every request that waits.
LEMMA Delivered ==
    ASSUME Catalog!PinAssumption, CatalogInv, NEW s \in {None, Catalog!PinnedSnapshot}, catalogReq' = Catalog!Deliver(s)
    PROVE  /\ DOMAIN catalogReq' = Requests
           /\ \A r \in Requests : Fitting(catalogReq'[r]) /\ catalogReq'[r].pc # "await"
           /\ \A r \in Requests : (catalogReq[r].pc # "answered" /\ catalogReq'[r].pc = "answered" /\ catalogReq'[r].ans = "ok") =>
                 s = Catalog!PinnedSnapshot
  <1>1. DOMAIN catalogReq' = Requests
    BY DEF Catalog!Deliver
  <1>2. ASSUME NEW r \in Requests
        PROVE  /\ Fitting(catalogReq'[r]) /\ catalogReq'[r].pc # "await"
               /\ (catalogReq[r].pc # "answered" /\ catalogReq'[r].pc = "answered" /\ catalogReq'[r].ans = "ok") =>
                    s = Catalog!PinnedSnapshot
    <2>1. Fitting(catalogReq[r])
      BY DEF CatalogInv, RequestInv
    <2>2. CASE catalogReq[r].pc = "await"
      <3>1. catalogReq[r] \in Asked /\ (catalogReq[r].kind = "call" => Catalog!EntryOf(catalogReq[r].arg) # {})
        BY <2>1, <2>2 DEF Fitting, Catalog!Idle
      <3>2. catalogReq'[r] = Catalog!Answered(catalogReq[r], s)
        BY <2>2 DEF Catalog!Deliver
      <3> QED
        BY <3>1, <3>2, Handed
    <2>3. CASE catalogReq[r].pc # "await"
      BY <2>1, <2>3 DEF Catalog!Deliver
    <2> QED
      BY <2>2, <2>3
  <1> QED
    BY <1>1, <1>2

\* One session more is one fault more.
LEMMA OneMore ==
    ASSUME NEW n \in Nat, NEW S \in SUBSET (1..n), NEW x
    PROVE  /\ Cardinality(S) \in Nat /\ Cardinality(S \ {x}) \in Nat
           /\ Cardinality(S) \leq Cardinality(S \ {x}) + 1
           /\ \A T \in SUBSET S : Cardinality(T) \in Nat /\ Cardinality(T) \leq Cardinality(S)
  <1>1. IsFiniteSet(1..n)
    BY FS_Interval
  <1>2. IsFiniteSet(S)
    BY <1>1, FS_Subset
  <1>3. \A T \in SUBSET S : IsFiniteSet(T) /\ Cardinality(T) \in Nat /\ Cardinality(T) \leq Cardinality(S)
    BY <1>2, FS_Subset, FS_CardinalityType
  <1>4. Cardinality(S \ {x}) = IF x \in S THEN Cardinality(S) - 1 ELSE Cardinality(S)
    BY <1>2, FS_RemoveElement
  <1>5. S \in SUBSET S /\ S \ {x} \in SUBSET S
    OBVIOUS
  <1> QED
    BY <1>3, <1>4, <1>5

\* A client without a session can be given one: fewer are left behind than exist.
LEMMA NewSessionIsNew ==
    ASSUME Catalog!PinAssumption, CatalogInv, catalogSession = 0
    PROVE  Catalog!NewSession \in 1..(MaxFaults + 2) /\ Catalog!NewSession \notin live
  <1> DEFINE n == MaxFaults + 2
  <1>1. n \in Nat /\ live \in SUBSET (1..n) /\ catalogFaults \in 0..MaxFaults
    BY DEF CatalogInv, CatalogTypes, Catalog!PinAssumption
  <1>2. live \ {catalogSession} = live
    BY <1>1
  <1>3. Cardinality(live) \leq MaxFaults
    <2>1. Cardinality(live) \in Nat
      BY <1>1, OneMore
    <2>2. Cardinality(live \ {catalogSession}) \leq catalogFaults
      BY DEF CatalogInv, SessionInv
    <2>3. Cardinality(live) \leq catalogFaults
      BY Zenon, <1>2, <2>2
    <2> QED
      BY <1>1, <2>1, <2>3 DEF Catalog!PinAssumption
  <1>4. IsFiniteSet(1..n) /\ Cardinality(1..n) = n
    BY <1>1, FS_Interval
  <1>5. live # 1..n
    BY <1>1, <1>3, <1>4 DEF Catalog!PinAssumption
  <1>6. \E s : s \in 1..n \ live
    BY <1>1, <1>5
  <1> QED
    BY <1>6 DEF Catalog!NewSession

\* What a step that leaves the requests alone keeps of them.
LEMMA RequestsStay ==
    ASSUME CatalogInv, catalogReq' = catalogReq, hyd # None => hyd' # None
    PROVE  RequestInv' /\ DOMAIN catalogReq' = Requests
BY DEF CatalogInv, RequestInv

\* The step of a hydration that goes wrong: the cache is dropped.
LEMMA Rejected ==
    ASSUME Catalog!PinAssumption, CatalogInv, hyd # None, Catalog!Reject, UNCHANGED <<adv, body, published, catalogReq, called, off>>,
           catalogFaults' \in 0..MaxFaults, live' \subseteq 1..(MaxFaults + 2),
           catalogSession' \in 0..(MaxFaults + 2), Cardinality(live' \ {catalogSession'}) \leq catalogFaults'
    PROVE  CatalogInv'
  <1> DEFINE h == [hyd EXCEPT !.phase = "close"]
  <1>1. hyd \in Catalog!Hydration
    BY DEF CatalogInv, CatalogTypes
  <1>2. /\ h \in Catalog!Hydration /\ h.phase = "close" /\ h.meta = hyd.meta
        /\ h.entries = hyd.entries /\ h.off = hyd.off
    BY <1>1 DEF Catalog!Hydration, Catalog!Phases
  <1>3. hyd' = h /\ cache' = None
    BY DEF Catalog!Reject
  <1> HIDE DEF h
  <1>4. hyd' # None
    BY <1>2, <1>3 DEF Catalog!PinAssumption
  <1>5. CatalogTypes'
    BY <1>2, <1>3 DEF CatalogInv, CatalogTypes
  <1>6. HydrationInv'
    BY <1>2, <1>3, <1>4 DEF CatalogInv, HydrationInv
  <1>7. AwayInv' /\ SessionInv' /\ CalledInv'
    BY <1>3, <1>4 DEF CatalogInv, AwayInv, SessionInv, CalledInv
  <1> QED
    BY <1>4, <1>5, <1>6, <1>7, RequestsStay DEF CatalogInv

\* A hydration that goes on: what it holds and whether the upstream was away stays.
LEMMA GoesOn ==
    ASSUME Catalog!PinAssumption, CatalogInv, hyd # None, NEW h \in Catalog!Hydration, hyd' = h,
           h.phase \in {"notify", "call", "digest"}, h.off = hyd.off, Distinct(h.entries),
           h.phase = "notify" => h.i = 1, h.phase = "call" => h.i \in 1..3,
           h.phase = "digest" => h.meta # None,
           h.meta = hyd.meta \/ (h.meta = None \/ h.meta.rev = adv),
           UNCHANGED <<adv, body, published, cache, catalogReq, called, off>>,
           catalogFaults' \in 0..MaxFaults, live' \subseteq 1..(MaxFaults + 2),
           catalogSession' \in 0..(MaxFaults + 2), Cardinality(live' \ {catalogSession'}) \leq catalogFaults'
    PROVE  CatalogInv'
  <1>1. hyd' # None
    BY DEF Catalog!PinAssumption
  <1>2. CatalogTypes'
    BY DEF CatalogInv, CatalogTypes
  <1>3. HydrationInv'
    <2>1. hyd.off \/ off = "seen" => adv # Pin
      BY DEF CatalogInv, HydrationInv, AwayInv
    <2> QED
      BY <1>1, <2>1 DEF CatalogInv, HydrationInv
  <1>4. AwayInv' /\ SessionInv' /\ CalledInv'
    BY <1>1 DEF CatalogInv, AwayInv, SessionInv, CalledInv
  <1> QED
    BY <1>1, <1>2, <1>3, <1>4, RequestsStay DEF CatalogInv

\* A session is asked for: given, or perhaps lost on the way.
LEMMA InitializeKeeps ==
    ASSUME Catalog!PinAssumption, CatalogInv, Catalog!ensureInitialized PROVE CatalogInv'
  <1> DEFINE n == MaxFaults + 2
  <1>1. /\ hyd # None /\ hyd \in Catalog!Hydration /\ hyd.phase = "init" /\ hyd.i = 1
        /\ Distinct(hyd.entries) /\ UNCHANGED <<adv, body, published, catalogReq, called, off>>
    BY DEF Catalog!ensureInitialized, CatalogInv, CatalogTypes, HydrationInv, Catalog!up
  <1>2. /\ n \in Nat /\ live \in SUBSET (1..n) /\ catalogSession \in 0..n /\ catalogFaults \in 0..MaxFaults
        /\ MaxFaults \in Nat /\ Cardinality(live \ {catalogSession}) \leq catalogFaults
    BY DEF CatalogInv, CatalogTypes, Catalog!PinAssumption, SessionInv
  <1>3. CASE catalogSession # 0 /\ hyd' = [hyd EXCEPT !.phase = "call"] /\ UNCHANGED <<Catalog!up, catalogSession, cache>>
    <2> DEFINE h == [hyd EXCEPT !.phase = "call"]
    <2>1. /\ h \in Catalog!Hydration /\ h.phase = "call" /\ h.i = hyd.i /\ h.meta = hyd.meta
          /\ h.entries = hyd.entries /\ h.off = hyd.off
      BY <1>1 DEF Catalog!Hydration, Catalog!Phases
    <2>2. hyd' = h /\ UNCHANGED <<live, catalogFaults, catalogSession, cache>>
      BY <1>3 DEF Catalog!up
    <2> HIDE DEF h
    <2> QED
      BY <1>1, <1>2, <2>1, <2>2, GoesOn
  <1>4. CASE /\ catalogSession = 0 /\ catalogSession' = Catalog!NewSession /\ live' = live \cup {Catalog!NewSession}
             /\ hyd' = [hyd EXCEPT !.phase = "notify"] /\ UNCHANGED <<catalogFaults, cache>>
    <2> DEFINE h == [hyd EXCEPT !.phase = "notify"]
    <2>1. /\ h \in Catalog!Hydration /\ h.phase = "notify" /\ h.i = hyd.i /\ h.meta = hyd.meta
          /\ h.entries = hyd.entries /\ h.off = hyd.off
      BY <1>1 DEF Catalog!Hydration, Catalog!Phases
    <2>2. hyd' = h /\ UNCHANGED <<catalogFaults, cache>>
      BY <1>4
    <2>3. Catalog!NewSession \in 1..n /\ Catalog!NewSession \notin live
      BY <1>4, NewSessionIsNew
    <2>4. live' \ {catalogSession'} = live \ {catalogSession}
      BY <1>2, <1>4, <2>3
    <2>5. live' \subseteq 1..n /\ catalogSession' \in 0..n
      BY <1>2, <1>4, <2>3
    <2> HIDE DEF h
    <2> QED
      BY <1>1, <1>2, <2>1, <2>2, <2>4, <2>5, GoesOn
  <1>5. CASE /\ catalogSession = 0 /\ Catalog!Fault /\ Catalog!Reject /\ live' \in {live, live \cup {Catalog!NewSession}}
             /\ UNCHANGED catalogSession
    <2>1. Catalog!NewSession \in 1..n /\ Catalog!NewSession \notin live
      BY <1>5, NewSessionIsNew
    <2>2. live' \in SUBSET (1..n) /\ live' \ {Catalog!NewSession} = live /\ live \ {catalogSession} = live
          /\ live' \ {catalogSession'} = live'
      BY <1>2, <1>5, <2>1
    <2>3. catalogFaults' = catalogFaults + 1 /\ catalogFaults' \in 0..MaxFaults
      BY <1>2, <1>5 DEF Catalog!Fault
    <2>4. Cardinality(live') \in Nat /\ Cardinality(live') \leq Cardinality(live) + 1
      <3> HIDE DEF n
      <3> QED
        BY <1>2, <2>2, OneMore
    <2>5. Cardinality(live') \leq catalogFaults'
      <3>1. Cardinality(live) \in Nat
        BY <1>2, OneMore
      <3>2. Cardinality(live) \leq catalogFaults
        BY Zenon, <1>2, <2>2
      <3> QED
        BY <1>2, <2>3, <2>4, <3>1, <3>2
    <2> QED
      BY <1>1, <1>2, <1>5, <2>2, <2>3, <2>5, Rejected
  <1> QED
    BY <1>3, <1>4, <1>5, Zenon DEF Catalog!ensureInitialized

\* What a step may add to the sessions left behind.
LEMMA SessionFacts ==
    ASSUME Catalog!PinAssumption, CatalogInv
    PROVE  /\ MaxFaults \in Nat /\ catalogFaults \in 0..MaxFaults /\ MaxFaults + 2 \in Nat
           /\ live \in SUBSET (1..(MaxFaults + 2)) /\ catalogSession \in 0..(MaxFaults + 2)
           /\ Cardinality(live \ {catalogSession}) \leq catalogFaults
           /\ Cardinality(live) \leq catalogFaults + 1
           /\ \A T \in SUBSET (live \ {catalogSession}) : Cardinality(T) \leq catalogFaults
           /\ \A T \in SUBSET live : Cardinality(T) \leq catalogFaults + 1
           /\ Catalog!Fault => catalogFaults' = catalogFaults + 1 /\ catalogFaults' \in 0..MaxFaults
  <1> DEFINE n == MaxFaults + 2
  <1>1. /\ MaxFaults \in Nat /\ catalogFaults \in 0..MaxFaults /\ n \in Nat
        /\ live \in SUBSET (1..n) /\ catalogSession \in 0..n
        /\ Cardinality(live \ {catalogSession}) \leq catalogFaults
    BY DEF CatalogInv, CatalogTypes, Catalog!PinAssumption, SessionInv
  <1> HIDE DEF n
  <1>2. /\ Cardinality(live) \in Nat /\ Cardinality(live \ {catalogSession}) \in Nat
        /\ Cardinality(live) \leq Cardinality(live \ {catalogSession}) + 1
        /\ \A T \in SUBSET live : Cardinality(T) \in Nat /\ Cardinality(T) \leq Cardinality(live)
    BY <1>1, OneMore
  <1>3. live \ {catalogSession} \in SUBSET (1..n)
    BY <1>1
  <1>4. \A T \in SUBSET (live \ {catalogSession}) :
           Cardinality(T) \in Nat /\ Cardinality(T) \leq Cardinality(live \ {catalogSession})
    BY <1>1, <1>3, OneMore
  <1>5. Cardinality(live) \leq catalogFaults + 1
    BY <1>1, <1>2
  <1>6. \A T \in SUBSET (live \ {catalogSession}) : Cardinality(T) \leq catalogFaults
    BY <1>1, <1>2, <1>4
  <1>7. \A T \in SUBSET live : Cardinality(T) \leq catalogFaults + 1
    BY <1>1, <1>2, <1>5
  <1>8. Catalog!Fault => catalogFaults' = catalogFaults + 1 /\ catalogFaults' \in 0..MaxFaults
    BY <1>1 DEF Catalog!Fault
  <1> QED
    BY <1>1, <1>5, <1>6, <1>7, <1>8 DEF n

\* The new session is confirmed to the docs MCP, or forgotten.
LEMMA NotifyKeeps ==
    ASSUME Catalog!PinAssumption, CatalogInv, Catalog!notifyInitialized PROVE CatalogInv'
  <1>1. /\ hyd # None /\ hyd \in Catalog!Hydration /\ hyd.phase = "notify" /\ hyd.i = 1
        /\ Distinct(hyd.entries) /\ UNCHANGED <<adv, body, live, published, catalogReq, called, off>>
    BY DEF Catalog!notifyInitialized, CatalogInv, CatalogTypes, HydrationInv
  <1>2. CASE catalogSession \in live /\ hyd' = [hyd EXCEPT !.phase = "call"] /\ UNCHANGED <<catalogFaults, catalogSession, cache>>
    <2> DEFINE h == [hyd EXCEPT !.phase = "call"]
    <2>1. /\ h \in Catalog!Hydration /\ h.phase = "call" /\ h.i = hyd.i /\ h.meta = hyd.meta
          /\ h.entries = hyd.entries /\ h.off = hyd.off
      BY <1>1 DEF Catalog!Hydration, Catalog!Phases
    <2>2. hyd' = h
      BY <1>2
    <2>3. live' \ {catalogSession'} = live \ {catalogSession}
      BY <1>1, <1>2
    <2> HIDE DEF h
    <2> QED
      BY <1>1, <1>2, <2>1, <2>2, <2>3, SessionFacts, GoesOn
  <1>3. CASE catalogSession \notin live /\ Catalog!Reject /\ catalogSession' = 0 /\ UNCHANGED catalogFaults
    <2>1. live' \ {catalogSession'} \in SUBSET (live \ {catalogSession})
      BY <1>1, <1>3
    <2> QED
      BY <1>1, <1>3, <2>1, SessionFacts, Rejected
  <1>4. CASE Catalog!Fault /\ Catalog!Reject /\ catalogSession' = 0
    <2>1. live' \ {catalogSession'} \in SUBSET live
      BY <1>1, <1>4
    <2> QED
      BY <1>1, <1>4, <2>1, SessionFacts, Rejected
  <1> QED
    BY <1>2, <1>3, <1>4, Zenon DEF Catalog!notifyInitialized

\* A hydration with new contents.
Advanced(g, i, m, E, phase) == [g EXCEPT !.i = i, !.meta = m, !.entries = E, !.phase = phase]

\* The hydration after a round of its loop.
LEMMA Advance ==
    ASSUME NEW g \in Catalog!Hydration, NEW i \in 1..4, NEW m \in Catalog!Metadata \cup {None},
           NEW E \in SUBSET AllEntries, NEW phase \in Catalog!Phases
    PROVE  LET h == Advanced(g, i, m, E, phase)
           IN  /\ h \in Catalog!Hydration /\ h.i = i /\ h.meta = m /\ h.entries = E
               /\ h.phase = phase /\ h.off = g.off
  <1> DEFINE a == [g EXCEPT !.i = i]
  <1>1. /\ a \in Catalog!Hydration /\ a.i = i /\ a.off = g.off
    BY DEF Catalog!Hydration
  <1> DEFINE b == [a EXCEPT !.meta = m]
  <1> HIDE DEF a
  <1>2. /\ b \in Catalog!Hydration /\ b.i = i /\ b.off = g.off /\ b.meta = m
    BY <1>1 DEF Catalog!Hydration
  <1> DEFINE c == [b EXCEPT !.entries = E]
  <1> HIDE DEF b
  <1>3. /\ c \in Catalog!Hydration /\ c.i = i /\ c.off = g.off /\ c.meta = m /\ c.entries = E
    BY <1>2 DEF Catalog!Hydration, AllEntries
  <1> DEFINE d == [c EXCEPT !.phase = phase]
  <1> HIDE DEF c
  <1>4. /\ d \in Catalog!Hydration /\ d.i = i /\ d.off = g.off /\ d.meta = m /\ d.entries = E
        /\ d.phase = phase
    BY <1>3 DEF Catalog!Hydration
  <1>5. Advanced(g, i, m, E, phase) = d
    BY Zenon DEF a, b, c, d, Advanced
  <1> QED
    BY <1>4, <1>5

\* One sigil read: it fits what was read before, or the hydration fails.
LEMMA HydrateKeeps ==
    ASSUME Catalog!PinAssumption, CatalogInv, Catalog!hydrateFresh PROVE CatalogInv'
  <1>1. /\ hyd # None /\ hyd \in Catalog!Hydration /\ hyd.phase = "call" /\ hyd.i \in 1..3
        /\ Distinct(hyd.entries)
        /\ UNCHANGED <<adv, body, live, published, catalogSession, catalogReq, called, off>>
    BY DEF Catalog!hydrateFresh, CatalogInv, CatalogTypes, HydrationInv
  <1>2. live' \ {catalogSession'} = live \ {catalogSession}
    BY <1>1
  <1> DEFINE k == Catalog!Sigils[hyd.i]
             m == IF hyd.meta = None THEN Catalog!normalizeMetadata(adv) ELSE hyd.meta
             phase == IF hyd.i = 3 THEN "digest" ELSE "call"
             h == [hyd EXCEPT !.i = hyd.i + 1, !.meta = m,
                              !.entries = hyd.entries \cup Catalog!Payload(k), !.phase = phase]
  <1>3. CASE Catalog!Fits(k) /\ hyd' = h /\ UNCHANGED <<catalogFaults, cache>>
    <2>1. adv \in Revision /\ body \in Revision
      BY DEF CatalogInv, CatalogTypes
    <2>2. Catalog!normalizeMetadata(adv) \in Catalog!Metadata /\ Catalog!normalizeMetadata(adv).rev = adv
      BY <2>1 DEF Catalog!Metadata, Catalog!normalizeMetadata
    <2>3. m \in Catalog!Metadata /\ m # None /\ (m = hyd.meta \/ m.rev = adv)
      BY <1>1, <2>2 DEF Catalog!Hydration, Catalog!PinAssumption
    <2>4. Catalog!Payload(k) \subseteq UNION {Content[r] : r \in Revision}
      BY <2>1 DEF Catalog!Payload, Catalog!OfKind
    <2>5. /\ phase \in Catalog!Phases /\ (phase = "call" => hyd.i + 1 \in 1..3)
          /\ phase \in {"call", "digest"}
      BY <1>1 DEF Catalog!Phases
    <2>6. hyd' = h /\ Catalog!Fits(k)
      BY <1>3
    <2> HIDE DEF k, m, phase
    <2>7. /\ h.phase = phase /\ h.i = hyd.i + 1
          /\ h.meta = m /\ h.entries = hyd.entries \cup Catalog!Payload(k) /\ h.off = hyd.off
          /\ h \in Catalog!Hydration
      <3>1. /\ hyd.i + 1 \in 1..4 /\ m \in Catalog!Metadata \cup {None}
            /\ hyd.entries \cup Catalog!Payload(k) \in SUBSET UNION {Content[r] : r \in Revision}
        BY <1>1, <2>3, <2>4 DEF Catalog!Hydration
      <3> DEFINE i == hyd.i + 1  E == hyd.entries \cup Catalog!Payload(k)
      <3>2. h = Advanced(hyd, i, m, E, phase)
        BY Zenon DEF Advanced
      <3>3. i \in 1..4 /\ E \in SUBSET AllEntries
        BY <3>1 DEF AllEntries
      <3> HIDE DEF h, i, E
      <3>4. /\ h \in Catalog!Hydration /\ h.i = i /\ h.meta = m /\ h.entries = E
            /\ h.phase = phase /\ h.off = hyd.off
        <4>1. hyd \in Catalog!Hydration /\ m \in Catalog!Metadata \cup {None} /\ phase \in Catalog!Phases
          BY <1>1, <2>5, <3>1
        <4> QED
          BY <3>2, <3>3, <4>1, Advance
      <3> QED
        BY <3>4 DEF i, E
    <2> HIDE DEF h
    <2>8. Distinct(h.entries)
      <3>1. \A e, f \in Catalog!Payload(k) : e.token = f.token => e = f
        BY <2>6 DEF Catalog!Fits
      <3>2. \A e \in Catalog!Payload(k) : \A f \in hyd.entries : e.token # f.token
        BY <2>6 DEF Catalog!Fits
      <3> QED
        BY <1>1, <2>7, <3>1, <3>2 DEF Distinct
    <2> QED
      BY <1>1, <1>2, <1>3, <2>3, <2>5, <2>6, <2>7, <2>8, SessionFacts, GoesOn
  <1>4. CASE Catalog!Reject /\ UNCHANGED catalogFaults
    BY <1>1, <1>2, <1>4, SessionFacts, Rejected
  <1>5. CASE Catalog!Fault /\ Catalog!Reject
    <2>1. live' \ {catalogSession'} \in SUBSET live
      BY <1>1, <1>2
    <2> QED
      BY <1>1, <1>5, <2>1, SessionFacts, Rejected
  <1> QED
    BY <1>3, <1>4, <1>5, Zenon DEF Catalog!hydrateFresh

\* A verified and pinned snapshot is the pinned catalogue.
LEMMA VerifiedIsPinned ==
    ASSUME Catalog!PinAssumption, CatalogInv, hyd # None, Catalog!Verified, Catalog!assertPinnedSnapshot(Catalog!Snapshot)
    PROVE  Catalog!Snapshot = Catalog!PinnedSnapshot /\ hyd.meta.rev = Pin
  <1>1. hyd.entries \in SUBSET AllEntries /\ Distinct(hyd.entries)
    BY DEF CatalogInv, CatalogTypes, HydrationInv, Catalog!Hydration, AllEntries
  <1>2. /\ hyd.meta.rev = Pin /\ hyd.meta.digest = Catalog!normalizeMetadata(Pin).digest
        /\ hyd.meta.counts = Catalog!normalizeMetadata(Pin).counts
        /\ Catalog!buildInvocationDigests(hyd.entries) = hyd.meta.digest
    BY DEF Catalog!assertPinnedSnapshot, Catalog!Snapshot, Catalog!Verified
  <1>3. Catalog!normalizeMetadata(Pin).digest = Catalog!buildInvocationDigests(Content[Pin])
    BY DEF Catalog!normalizeMetadata
  <1>4. hyd.entries = Content[Pin]
    BY <1>1, <1>2, <1>3, DigestsSeparate
  <1> QED
    BY <1>2, <1>4 DEF Catalog!Snapshot, Catalog!PinnedSnapshot

\* A verified snapshot is cached and handed out; it is never one of an upstream away.
LEMMA SettleKeeps ==
    ASSUME Catalog!PinAssumption, CatalogInv, Catalog!settle
    PROVE  /\ CatalogInv'
           /\ catalogReq' = catalogReq \/ (off # "seen" /\ catalogReq' = Catalog!Deliver(Catalog!PinnedSnapshot))
  <1>1. /\ hyd # None /\ hyd.phase = "digest"
        /\ UNCHANGED <<adv, body, live, published, catalogFaults, catalogSession, called>>
    BY DEF Catalog!settle, Catalog!up
  <1>2. live' \ {catalogSession'} = live \ {catalogSession}
    BY <1>1
  <1>3. CASE Catalog!Reject /\ UNCHANGED <<catalogReq, off>>
    BY <1>1, <1>2, <1>3, SessionFacts, Rejected
  <1>4. CASE /\ Catalog!Verified /\ Catalog!assertPinnedSnapshot(Catalog!Snapshot) /\ cache' = Catalog!Snapshot
             /\ catalogReq' = Catalog!Deliver(Catalog!Snapshot) /\ off' = Catalog!OffAfter(hyd) /\ hyd' = None
    <2>1. Catalog!Snapshot = Catalog!PinnedSnapshot /\ hyd.meta.rev = Pin /\ hyd.meta # None
      BY <1>1, <1>4, VerifiedIsPinned DEF CatalogInv, HydrationInv
    <2>2. ~hyd.off /\ off # "seen"
      BY <1>1, <2>1 DEF CatalogInv, HydrationInv
    <2>3. off' = off /\ cache' = Catalog!PinnedSnapshot /\ catalogReq' = Catalog!Deliver(Catalog!PinnedSnapshot) /\ cache' # None
      BY <1>4, <2>1, <2>2 DEF Catalog!OffAfter, Catalog!PinAssumption
    <2>4. RequestInv' /\ DOMAIN catalogReq' = Requests
      BY <2>3, Delivered DEF RequestInv
    <2>5. CatalogTypes'
      BY <1>1, <1>4, <2>3 DEF CatalogInv, CatalogTypes
    <2>6. SessionInv'
      BY <1>1, <1>2, <2>3, SessionFacts DEF SessionInv
    <2>7. HydrationInv' /\ AwayInv' /\ CalledInv'
      BY <1>1, <1>4, <2>2, <2>3 DEF CatalogInv, HydrationInv, AwayInv, CalledInv
    <2> QED
      BY <2>2, <2>3, <2>4, <2>5, <2>6, <2>7 DEF CatalogInv
  <1> QED
    BY <1>3, <1>4, Zenon DEF Catalog!settle

\* A failed hydration gives its session back, or leaves it behind with a fault.
LEMMA CloseKeeps ==
    ASSUME Catalog!PinAssumption, CatalogInv, Catalog!close
    PROVE  CatalogInv' /\ catalogReq' = Catalog!Deliver(None)
  <1>1. /\ hyd # None /\ hyd.phase = "close" /\ catalogSession' = 0 /\ catalogReq' = Catalog!Deliver(None)
        /\ off' = Catalog!OffAfter(hyd) /\ hyd' = None
        /\ UNCHANGED <<adv, body, published, cache, called>>
    BY DEF Catalog!close
  <1>2. cache = None
    BY <1>1 DEF CatalogInv, HydrationInv
  <1>3. RequestInv' /\ DOMAIN catalogReq' = Requests
    BY <1>1, Delivered DEF RequestInv
  <1>4. off' \in {"no", "yes", "seen"} /\ (off' = "no" <=> off = "no")
    BY <1>1 DEF Catalog!OffAfter, CatalogInv, CatalogTypes
  <1>5. AwayInv' /\ HydrationInv' /\ CalledInv'
    BY <1>1, <1>2, <1>4 DEF CatalogInv, AwayInv, HydrationInv, CalledInv
  <1>6. /\ live' \subseteq 1..(MaxFaults + 2) /\ catalogFaults' \in 0..MaxFaults
        /\ Cardinality(live' \ {catalogSession'}) \leq catalogFaults'
    <2>1. CASE live' = live \ {catalogSession} /\ UNCHANGED catalogFaults
      <3>1. live' \ {catalogSession'} \in SUBSET (live \ {catalogSession}) /\ live' \subseteq live
        BY <1>1, <2>1
      <3> QED
        BY <2>1, <3>1, SessionFacts
    <2>2. CASE Catalog!Fault /\ UNCHANGED live
      <3>1. live' \ {catalogSession'} \in SUBSET live /\ live' \subseteq live
        BY <1>1, <2>2
      <3> QED
        BY <2>2, <3>1, SessionFacts
    <2> QED
      BY <2>1, <2>2 DEF Catalog!close
  <1>7. CatalogTypes'
    BY <1>1, <1>4, <1>6 DEF CatalogInv, CatalogTypes, Catalog!PinAssumption
  <1>8. SessionInv'
    BY <1>1, <1>6 DEF SessionInv
  <1> QED
    BY <1>1, <1>3, <1>5, <1>7, <1>8 DEF CatalogInv

\* A request looks the catalogue up: it is answered from the cache, or waits for
\* a hydration, which is begun when none is in flight.
LEMMA LookupKeeps ==
    ASSUME Catalog!PinAssumption, CatalogInv, NEW r \in Requests, NEW q \in Asked, NEW refresh \in BOOLEAN,
           q.pc = "await", q.kind = "call" => Catalog!EntryOf(q.arg) # {},
           Catalog!pinnedInvocationCatalog(r, q, refresh), UNCHANGED <<Catalog!up, cache, called, off>>
    PROVE  /\ CatalogInv' /\ \A s \in Requests \ {r} : catalogReq'[s] = catalogReq[s]
           /\ catalogReq'[r].pc = "answered" => cache # None
  <1>1. /\ UNCHANGED <<adv, body, live, published, catalogFaults, cache, called, off>>
        /\ DOMAIN catalogReq = Requests
    BY DEF Catalog!up, CatalogInv
  <1>2. CASE cache # None /\ catalogReq' = [catalogReq EXCEPT ![r] = Catalog!Answered(q, cache)] /\ UNCHANGED <<hyd, catalogSession>>
    <2> DEFINE w == Catalog!Answered(q, cache)
    <2>1. cache \in {None, Catalog!PinnedSnapshot}
      BY DEF CatalogInv, CatalogTypes
    <2>2. Fitting(w) /\ w.pc = "answered"
      BY <2>1, Handed
    <2>3. catalogReq' = [catalogReq EXCEPT ![r] = w]
      BY <1>2
    <2> HIDE DEF w
    <2>4. /\ DOMAIN catalogReq' = Requests /\ catalogReq'[r] = w /\ \A s \in Requests \ {r} : catalogReq'[s] = catalogReq[s]
      BY <1>1, <2>3
    <2>5. RequestInv'
      BY <1>2, <2>2, <2>4 DEF CatalogInv, RequestInv
    <2>6. CatalogTypes' /\ HydrationInv' /\ AwayInv' /\ SessionInv' /\ CalledInv'
      BY <1>1, <1>2 DEF CatalogInv, CatalogTypes, HydrationInv, AwayInv, SessionInv, CalledInv
    <2> QED
      BY <1>2, <2>4, <2>5, <2>6 DEF CatalogInv
  <1>3. CASE /\ catalogReq' = [catalogReq EXCEPT ![r] = [q EXCEPT !.pc = "await"]]
             /\ hyd # None /\ UNCHANGED <<hyd, catalogSession>>
    <2>1. [q EXCEPT !.pc = "await"] = q
      BY DEF Asked
    <2>2. Fitting(q)
      BY DEF Fitting
    <2>3. /\ DOMAIN catalogReq' = Requests /\ catalogReq'[r] = q /\ \A s \in Requests \ {r} : catalogReq'[s] = catalogReq[s]
      BY <1>1, <1>3, <2>1
    <2>4. RequestInv'
      BY <1>3, <2>2, <2>3 DEF CatalogInv, RequestInv
    <2>5. CatalogTypes' /\ HydrationInv' /\ AwayInv' /\ SessionInv' /\ CalledInv'
      BY <1>1, <1>3 DEF CatalogInv, CatalogTypes, HydrationInv, AwayInv, SessionInv, CalledInv
    <2> QED
      BY <2>3, <2>4, <2>5 DEF CatalogInv
  <1>4. CASE /\ catalogReq' = [catalogReq EXCEPT ![r] = [q EXCEPT !.pc = "await"]] /\ hyd = None
             /\ hyd' = Catalog!NewHydration(cache # None)
             /\ catalogSession' = (IF cache # None THEN catalogSession ELSE Catalog!createInvocationClient)
    <2> DEFINE h == Catalog!NewHydration(cache # None)
    <2>1. [q EXCEPT !.pc = "await"] = q
      BY DEF Asked
    <2>2. Fitting(q)
      BY DEF Fitting
    <2>3. /\ DOMAIN catalogReq' = Requests /\ catalogReq'[r] = q /\ \A s \in Requests \ {r} : catalogReq'[s] = catalogReq[s]
      BY <1>1, <1>4, <2>1
    <2>4. /\ h \in Catalog!Hydration /\ h.phase = "init" /\ h.i = 1 /\ h.meta = None /\ h.entries = {}
          /\ h.off = (off = "yes")
      BY DEF Catalog!NewHydration, Catalog!Hydration, Catalog!Phases
    <2>5. hyd' = h
      BY <1>4
    <2> HIDE DEF h
    <2>6. hyd' # None
      BY <2>4, <2>5 DEF Catalog!PinAssumption
    <2>7. RequestInv'
      BY <2>2, <2>3, <2>6 DEF CatalogInv, RequestInv
    <2>8. catalogSession' = catalogSession
      BY <1>4 DEF CatalogInv, SessionInv, Catalog!createInvocationClient
    <2>9. SessionInv' /\ CatalogTypes'
      BY <1>1, <2>4, <2>5, <2>6, <2>8 DEF CatalogInv, SessionInv, CatalogTypes
    <2>10. HydrationInv' /\ AwayInv' /\ CalledInv'
      BY <1>1, <2>4, <2>5 DEF CatalogInv, HydrationInv, AwayInv, CalledInv, Distinct
    <2>11. q.pc # "answered"
      OBVIOUS
    <2> QED
      BY <2>3, <2>7, <2>9, <2>10, <2>11 DEF CatalogInv
  <1> QED
    BY <1>2, <1>3, <1>4, Zenon DEF Catalog!pinnedInvocationCatalog

\* A request that is answered without a look at the catalogue, not with ok.
LEMMA UnaskedKeeps ==
    ASSUME Catalog!PinAssumption, CatalogInv, NEW r \in Requests, NEW w \in Asked,
           w.pc = "answered", w.ans # "ok", catalogReq' = [catalogReq EXCEPT ![r] = w],
           UNCHANGED <<Catalog!up, catalogSession, cache, hyd, called, off>>
    PROVE  CatalogInv' /\ catalogReq'[r].ans # "ok" /\ \A s \in Requests \ {r} : catalogReq'[s] = catalogReq[s]
  <1>1. /\ DOMAIN catalogReq' = Requests /\ catalogReq'[r] = w /\ \A s \in Requests \ {r} : catalogReq'[s] = catalogReq[s]
    BY DEF CatalogInv
  <1>2. RequestInv'
    BY <1>1 DEF CatalogInv, RequestInv, Fitting
  <1>3. CatalogTypes' /\ HydrationInv' /\ AwayInv' /\ SessionInv' /\ CalledInv'
    BY DEF Catalog!up, CatalogInv, CatalogTypes, HydrationInv, AwayInv, SessionInv, CalledInv
  <1> QED
    BY <1>1, <1>2, <1>3 DEF CatalogInv

\* A question in its right form.
LEMMA AskIsAsked ==
    ASSUME NEW kind \in Kinds, NEW arg \in Args
    PROVE  /\ Catalog!Ask(kind, arg) \in Asked /\ Catalog!Ask(kind, arg).pc = "await"
           /\ Catalog!Ask(kind, arg).kind = kind /\ Catalog!Ask(kind, arg).arg = arg
BY DEF Catalog!Ask, Asked

\* A question answered without a look at the catalogue.
Told(kind, arg, ans) == [Catalog!Ask(kind, arg) EXCEPT !.pc = "answered", !.ans = ans]

\* Such an answer is not ok.
LEMMA ToldIsAsked ==
    ASSUME NEW kind \in Kinds, NEW arg \in Args, NEW ans \in {"unmapped", "unresolved"}
    PROVE  /\ Told(kind, arg, ans) \in Asked /\ Told(kind, arg, ans).pc = "answered"
           /\ Told(kind, arg, ans).ans # "ok"
BY DEF Catalog!Ask, Asked, Told

\* A request begins: it asks, or is answered from the cache or not at all.
LEMMA BeginKeeps ==
    ASSUME Catalog!PinAssumption, CatalogInv, NEW r \in Requests, Catalog!Begin(r)
    PROVE  /\ CatalogInv' /\ \A s \in Requests \ {r} : catalogReq'[s] = catalogReq[s]
           /\ (catalogReq'[r].pc = "answered" /\ catalogReq'[r].ans = "ok") => off # "seen"
  <1>1. UNCHANGED <<Catalog!up, cache, called, off>>
    BY DEF Catalog!Begin
  <1>2. cache # None => off # "seen"
    BY DEF CatalogInv, AwayInv
  <1>3. ASSUME NEW kind \in Kinds, NEW arg \in Args,
               NEW refresh \in BOOLEAN, kind = "call" => Catalog!EntryOf(arg) # {},
               Catalog!pinnedInvocationCatalog(r, Catalog!Ask(kind, arg), refresh)
        PROVE  /\ CatalogInv' /\ \A s \in Requests \ {r} : catalogReq'[s] = catalogReq[s]
               /\ (catalogReq'[r].pc = "answered" /\ catalogReq'[r].ans = "ok") => off # "seen"
    <2> DEFINE q == Catalog!Ask(kind, arg)
    <2>1. q \in Asked /\ q.pc = "await" /\ q.kind = kind /\ q.arg = arg
      BY AskIsAsked
    <2>2. Catalog!pinnedInvocationCatalog(r, q, refresh)
      BY <1>3
    <2>3. q.kind = "call" => Catalog!EntryOf(q.arg) # {}
      BY <1>3, <2>1
    <2> HIDE DEF q
    <2> QED
      BY <1>1, <1>2, <2>1, <2>2, <2>3, LookupKeeps
  <1>4. ASSUME NEW kind \in Kinds, NEW arg \in Args,
               NEW ans \in {"unmapped", "unresolved"}, UNCHANGED <<hyd, catalogSession>>,
               catalogReq' = [catalogReq EXCEPT ![r] = [Catalog!Ask(kind, arg) EXCEPT !.pc = "answered", !.ans = ans]]
        PROVE  /\ CatalogInv' /\ \A s \in Requests \ {r} : catalogReq'[s] = catalogReq[s]
               /\ (catalogReq'[r].pc = "answered" /\ catalogReq'[r].ans = "ok") => off # "seen"
    <2> DEFINE w == Told(kind, arg, ans)
    <2>1. w \in Asked /\ w.pc = "answered" /\ w.ans # "ok"
      BY ToldIsAsked
    <2>2. catalogReq' = [catalogReq EXCEPT ![r] = w]
      BY <1>4 DEF Told
    <2> HIDE DEF w
    <2> QED
      BY <1>1, <1>4, <2>1, <2>2, UnaskedKeeps
  <1>5. CASE "call" \in Kinds /\ Catalog!capabilityBoundCore(r)
    <2>1. CASE Catalog!Unmapped(r, None)
      BY <1>4, <1>5, <2>1 DEF Catalog!Unmapped, Args
    <2>2. ASSUME NEW a \in Actions, Catalog!EntryOf(a) = {} /\ Catalog!Unmapped(r, a)
          PROVE  /\ CatalogInv' /\ \A s \in Requests \ {r} : catalogReq'[s] = catalogReq[s]
                 /\ (catalogReq'[r].pc = "answered" /\ catalogReq'[r].ans = "ok") => off # "seen"
      BY <1>4, <1>5, <2>2 DEF Catalog!Unmapped, Args
    <2>3. ASSUME NEW a \in Actions, Catalog!EntryOf(a) # {}, Catalog!pinnedInvocationCatalog(r, Catalog!Ask("call", a), FALSE)
          PROVE  /\ CatalogInv' /\ \A s \in Requests \ {r} : catalogReq'[s] = catalogReq[s]
                 /\ (catalogReq'[r].pc = "answered" /\ catalogReq'[r].ans = "ok") => off # "seen"
      BY <1>3, <1>5, <2>3 DEF Args
    <2> QED
      BY <1>5, <2>1, <2>2, <2>3 DEF Catalog!capabilityBoundCore, Catalog!Authorize
  <1>6. CASE "present" \in Kinds /\ Catalog!Present(r)
    <2>1. ASSUME NEW t \in Presented,
                 /\ catalogReq' = [catalogReq EXCEPT ![r] = [Catalog!Ask("present", t) EXCEPT !.pc = "answered", !.ans = "unresolved"]]
                 /\ UNCHANGED <<hyd, catalogSession>>
          PROVE  /\ CatalogInv' /\ \A s \in Requests \ {r} : catalogReq'[s] = catalogReq[s]
                 /\ (catalogReq'[r].pc = "answered" /\ catalogReq'[r].ans = "ok") => off # "seen"
      BY <1>4, <1>6, <2>1 DEF Args
    <2>2. ASSUME NEW t \in Presented, Catalog!pinnedInvocationCatalog(r, Catalog!Ask("present", t), FALSE)
          PROVE  /\ CatalogInv' /\ \A s \in Requests \ {r} : catalogReq'[s] = catalogReq[s]
                 /\ (catalogReq'[r].pc = "answered" /\ catalogReq'[r].ans = "ok") => off # "seen"
      BY <1>3, <1>6, <2>2 DEF Args
    <2> QED
      BY <1>6, <2>1, <2>2 DEF Catalog!Present
  <1>7. CASE "ready" \in Kinds /\ Catalog!pinnedInvocationCatalog(r, Catalog!Ask("ready", None), TRUE)
    BY <1>3, <1>7 DEF Args
  <1>8. CASE "coverage" \in Kinds /\ Catalog!pinnedInvocationCatalog(r, Catalog!Ask("coverage", None), FALSE)
    BY <1>3, <1>8 DEF Args
  <1> QED
    BY <1>5, <1>6, <1>7, <1>8 DEF Catalog!Begin

\* A request ends, with the core call it was authorised for.
LEMMA FinishKeeps ==
    ASSUME Catalog!PinAssumption, CatalogInv, NEW r \in Requests, Catalog!Finish(r)
    PROVE  CatalogInv' /\ \A s \in Requests : catalogReq'[s].pc = "answered" => catalogReq'[s] = catalogReq[s]
  <1>1. /\ UNCHANGED <<adv, body, live, published, catalogFaults, catalogSession, cache, hyd, off>>
        /\ DOMAIN catalogReq = Requests /\ catalogReq' = [catalogReq EXCEPT ![r] = Catalog!Idle] /\ catalogReq[r].pc = "answered"
    BY DEF Catalog!Finish, Catalog!up, CatalogInv
  <1>2. Catalog!Idle.pc = "idle" /\ Fitting(Catalog!Idle)
    BY DEF Catalog!Idle, Fitting
  <1>3. /\ DOMAIN catalogReq' = Requests /\ catalogReq'[r] = Catalog!Idle /\ \A s \in Requests \ {r} : catalogReq'[s] = catalogReq[s]
    BY <1>1
  <1>4. RequestInv'
    BY <1>1, <1>2, <1>3 DEF CatalogInv, RequestInv
  <1>5. CalledInv'
    <2>1. CASE called' = called
      BY <2>1 DEF CatalogInv, CalledInv
    <2>2. CASE /\ catalogReq[r].kind = "call" /\ catalogReq[r].ans = "ok"
               /\ called' = called \cup {[action |-> catalogReq[r].arg, snap |-> catalogReq[r].snap]}
      <3>1. Fitting(catalogReq[r]) /\ catalogReq[r] # Catalog!Idle
        BY <1>1, <1>2 DEF CatalogInv, RequestInv
      <3>2. catalogReq[r].snap = Catalog!PinnedSnapshot /\ Mapped(catalogReq[r].arg)
        BY <1>1, <2>2, <3>1 DEF Fitting
      <3> QED
        BY <2>2, <3>2 DEF CatalogInv, CalledInv
    <2> QED
      BY <2>1, <2>2 DEF Catalog!Finish
  <1>6. CatalogTypes' /\ HydrationInv' /\ AwayInv' /\ SessionInv'
    BY <1>1 DEF CatalogInv, CatalogTypes, HydrationInv, AwayInv, SessionInv
  <1> QED
    BY <1>2, <1>3, <1>4, <1>5, <1>6 DEF CatalogInv

\* The docs MCP publishes or ends a session.
LEMMA UpstreamKeeps ==
    ASSUME Catalog!PinAssumption, CatalogInv, Catalog!Upstream \/ UNCHANGED Catalog!vars
    PROVE  CatalogInv' /\ catalogReq' = catalogReq
  <1>1. ASSUME NEW r \in Revision, Catalog!PublishMetadata(r) PROVE CatalogInv' /\ catalogReq' = catalogReq
    <2>1. /\ published < MaxPublish /\ r # adv /\ adv' = r /\ published' = published + 1
          /\ off' = IF r = Pin THEN "no" ELSE IF off = "no" THEN "yes" ELSE off
          /\ hyd' = IF hyd # None /\ r = Pin THEN [hyd EXCEPT !.off = FALSE] ELSE hyd
          /\ UNCHANGED <<body, live, catalogFaults, catalogSession, cache, catalogReq, called>>
      BY <1>1 DEF Catalog!PublishMetadata
    <2>4. CatalogTypes /\ MaxPublish \in Nat
      BY DEF CatalogInv, Catalog!PinAssumption
    <2>5. published' \in 0..MaxPublish /\ off' \in {"no", "yes", "seen"}
      BY <2>1, <2>4 DEF CatalogTypes
    <2>2. CASE hyd # None /\ r = Pin
      <3> DEFINE h == [hyd EXCEPT !.off = FALSE]
      <3>1. hyd \in Catalog!Hydration
        BY <2>2 DEF CatalogInv, CatalogTypes
      <3>2. /\ h \in Catalog!Hydration /\ h.phase = hyd.phase /\ h.i = hyd.i /\ h.meta = hyd.meta
            /\ h.entries = hyd.entries /\ h.off = FALSE
        BY <3>1 DEF Catalog!Hydration
      <3>3. hyd' = h
        BY <2>1, <2>2
      <3> HIDE DEF h
      <3>4. hyd' # None
        BY <3>2, <3>3 DEF Catalog!PinAssumption
      <3>5. CatalogTypes'
        BY <2>1, <2>4, <2>5, <3>2, <3>3 DEF CatalogTypes
      <3>6. HydrationInv' /\ AwayInv'
        BY <2>1, <2>2, <3>2, <3>3 DEF CatalogInv, HydrationInv, AwayInv
      <3>7. SessionInv' /\ CalledInv'
        BY <2>1, <3>4 DEF CatalogInv, SessionInv, CalledInv
      <3> QED
        BY <2>1, <3>4, <3>5, <3>6, <3>7, RequestsStay DEF CatalogInv
    <2>3. CASE ~(hyd # None /\ r = Pin)
      <3>1. hyd' = hyd
        BY <2>1, <2>3
      <3>2. CatalogTypes'
        BY <2>1, <2>4, <2>5, <3>1 DEF CatalogTypes
      <3>3. HydrationInv' /\ AwayInv'
        BY <2>1, <2>3, <3>1 DEF CatalogInv, HydrationInv, AwayInv, CatalogTypes
      <3>4. SessionInv' /\ CalledInv'
        BY <2>1, <3>1 DEF CatalogInv, SessionInv, CalledInv
      <3> QED
        BY <2>1, <3>1, <3>2, <3>3, <3>4, RequestsStay DEF CatalogInv
    <2> QED
      BY <2>2, <2>3
  <1>2. ASSUME NEW r \in Revision, Catalog!PublishEntries(r) PROVE CatalogInv' /\ catalogReq' = catalogReq
    <2>1. CatalogTypes'
      BY <1>2 DEF Catalog!PublishEntries, CatalogInv, CatalogTypes, Catalog!PinAssumption
    <2>2. HydrationInv' /\ AwayInv' /\ SessionInv' /\ CalledInv' /\ hyd' = hyd /\ catalogReq' = catalogReq
      BY <1>2 DEF Catalog!PublishEntries, CatalogInv, HydrationInv, AwayInv, SessionInv, CalledInv
    <2> QED
      BY <2>1, <2>2, RequestsStay DEF CatalogInv
  <1>3. CASE Catalog!ExpireSession
    <2>1. /\ Catalog!Fault /\ UNCHANGED <<adv, body, published, catalogSession, cache, hyd, catalogReq, called, off>>
          /\ live' \subseteq live
      BY <1>3 DEF Catalog!ExpireSession
    <2>2. live' \ {catalogSession'} \in SUBSET live
      BY <2>1
    <2>3. SessionInv' /\ catalogFaults' \in 0..MaxFaults /\ live' \subseteq 1..(MaxFaults + 2)
      BY <2>1, <2>2, SessionFacts DEF CatalogInv, SessionInv
    <2>4. CatalogTypes' /\ HydrationInv' /\ AwayInv' /\ CalledInv'
      BY <2>1, <2>3 DEF CatalogInv, CatalogTypes, HydrationInv, AwayInv, CalledInv
    <2> QED
      BY <2>1, <2>3, <2>4, RequestsStay DEF CatalogInv
  <1>4. CASE UNCHANGED Catalog!vars
    BY <1>4 DEF Catalog!vars, CatalogInv, CatalogTypes, HydrationInv, AwayInv, SessionInv, CalledInv, RequestInv
  <1> QED
    BY <1>1, <1>2, <1>3, <1>4 DEF Catalog!Upstream

\* Every step keeps the invariant, and answers ok only as RefreshRevokes allows.
LEMMA CatalogNext ==
    ASSUME Catalog!PinAssumption, CatalogInv, [Catalog!Next]_(Catalog!vars)
    PROVE  /\ CatalogInv'
           /\ \A r \in Requests : (catalogReq[r].pc # "answered" /\ catalogReq'[r].pc = "answered" /\ catalogReq'[r].ans = "ok") =>
                 off # "seen"
  <1> DEFINE Allowed == \A r \in Requests :
                (catalogReq[r].pc # "answered" /\ catalogReq'[r].pc = "answered" /\ catalogReq'[r].ans = "ok") => off # "seen"
  <1>1. ASSUME NEW r \in Requests, Catalog!Begin(r) PROVE CatalogInv' /\ Allowed
    BY <1>1, BeginKeeps
  <1>2. ASSUME NEW r \in Requests, Catalog!Finish(r) PROVE CatalogInv' /\ Allowed
    BY <1>2, FinishKeeps
  <1>3. CASE Catalog!ensureInitialized
    BY <1>3, InitializeKeeps DEF Catalog!ensureInitialized
  <1>4. CASE Catalog!notifyInitialized
    BY <1>4, NotifyKeeps DEF Catalog!notifyInitialized
  <1>5. CASE Catalog!hydrateFresh
    BY <1>5, HydrateKeeps DEF Catalog!hydrateFresh
  <1>6. CASE Catalog!settle
    BY <1>6, SettleKeeps, Delivered
  <1>7. CASE Catalog!close
    <2>1. CatalogInv' /\ catalogReq' = Catalog!Deliver(None)
      BY <1>7, CloseKeeps
    <2>2. None # Catalog!PinnedSnapshot
      BY DEF Catalog!PinAssumption
    <2> QED
      BY <2>1, <2>2, Delivered
  <1>8. CASE Catalog!Upstream \/ UNCHANGED Catalog!vars
    BY <1>8, UpstreamKeeps
  <1> QED
    BY <1>1, <1>2, <1>3, <1>4, <1>5, <1>6, <1>7, <1>8 DEF Catalog!Next, Catalog!Hydrate

\* The invariant holds throughout.
LEMMA CatalogInvariant == ASSUME Catalog!PinAssumption PROVE Catalog!Spec => []CatalogInv
  <1>1. Catalog!Init => CatalogInv
    BY CatalogInit
  <1>2. CatalogInv /\ [Catalog!Next]_(Catalog!vars) => CatalogInv'
    BY CatalogNext
  <1> QED
    BY <1>1, <1>2, PTL DEF Catalog!Spec

\* Every core call and every ok answer was authorised against exactly the pinned
\* entries, for any revisions published between the sigil calls (settle).
THEOREM CoreCallsCovered == ASSUME Catalog!PinAssumption PROVE Catalog!Spec => []Catalog!CallsAreCovered
  <1>1. CatalogInv => Catalog!CallsAreCovered
    BY CatalogSafe
  <1> QED
    BY <1>1, CatalogInvariant, PTL

\* Once a refresh begun while the upstream was away has ended, nothing is answered ok
\* until the upstream is back at the pin (Reject drops the cache).
THEOREM RefreshRevokesAnswers == ASSUME Catalog!PinAssumption PROVE Catalog!Spec => Catalog!RefreshRevokes
  <1>1. CatalogInv /\ [Catalog!Next]_(Catalog!vars) =>
           [\A r \in Requests :
              (catalogReq[r].pc # "answered" /\ catalogReq'[r].pc = "answered" /\ catalogReq'[r].ans = "ok") => off # "seen"]_(Catalog!vars)
    BY CatalogNext
  <1> QED
    BY <1>1, CatalogInvariant, PTL DEF Catalog!Spec, Catalog!RefreshRevokes

\* Sessions the client no longer holds are at most as many as there were faults (close).
THEOREM FewSessionsLeft == ASSUME Catalog!PinAssumption PROVE Catalog!Spec => []Catalog!SessionsAccounted
  <1>1. CatalogInv => Catalog!SessionsAccounted
    BY CatalogSafe
  <1> QED
    BY <1>1, CatalogInvariant, PTL

\* The cache and the hydration keep their shape, and nobody waits for nothing.
THEOREM CatalogTypeCorrect == ASSUME Catalog!PinAssumption PROVE Catalog!Spec => []Catalog!TypeOK
  <1>1. CatalogInv => Catalog!TypeOK
    BY CatalogSafe
  <1> QED
    BY <1>1, CatalogInvariant, PTL
=============================================================================
