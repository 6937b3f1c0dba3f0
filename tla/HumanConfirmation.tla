-------------------------- MODULE HumanConfirmation --------------------------
(***************************************************************************)
(* The human confirmation of a checkout: the shopper's tabs                 *)
(* (edge/client/shopper-actions.client.js, shopper-checkout.client.js), the *)
(* edge that keeps no state but what it signs into two cookies              *)
(* (edge/session.ts, edge/human-confirmation.ts,                            *)
(* edge/checkout-confirmation-handler.ts, edge/human-presence.ts) and the   *)
(* part of the core's CheckoutSession that decides a confirmation.          *)
(*                                                                         *)
(* All tabs of a browser share the cookie jar.  A request is handled with    *)
(* the cookies of the moment it is sent; its answer sets cookies and page     *)
(* state when it arrives, and it may be lost, or arrive with an unreadable    *)
(* body.  A signature is a record that only the edge makes; a session nonce,  *)
(* a csrf token and a challenge are fresh numbers; a set of blockers is how   *)
(* many blocking events it has, since the events of a checkout only grow      *)
(* until it is confirmed.  Identifiers, amounts and currencies belong to the  *)
(* offer.  Times are ticks.                                                   *)
(***************************************************************************)
EXTENDS Naturals, FiniteSets

CONSTANTS
  Tabs, Offers,
  Principals,            \* shoppers the presence adapter can attest
  TrustAnchor,           \* HUMAN_CONFIRMATION_TRUST_ANCHOR_JSON is configured
  ConfirmationTtl,       \* HUMAN_CONFIRMATION_TTL_SECONDS
  PresenceTtl,           \* MAXIMUM_PRESENCE_AGE_MS
  CoreTtl,               \* CONFIRMATION_TTL_MS
  SessionTtl,            \* STOREFRONT_SESSION_TTL_SECONDS
  MaxTime, MaxCheckouts, MaxBlockers, MaxSessions, MaxLosses   \* bounds

TtlAssumption ==
  /\ ConfirmationTtl \in Nat \ {0} /\ PresenceTtl \in Nat \ {0}
  /\ CoreTtl \in Nat \ {0} /\ SessionTtl \in Nat \ {0}
  /\ TrustAnchor \in BOOLEAN /\ MaxCheckouts \in Nat

VARIABLES
  now,
  session, confirmation,   \* the cookie jar: __Host-ag_session, __Host-ag_human_confirmation
  tab,                     \* per tab: what the page holds
  core,                    \* per checkout: the row of its CheckoutSession
  checkouts, issued, sessions, losses,   \* how many have been made
  consents                 \* history: what a person was shown when they confirmed

vars == <<now, session, confirmation, tab, core, checkouts, issued, sessions, losses, consents>>
edge == <<session, confirmation>>

Absent == <<>>

Stages == {"idle", "session", "prepare", "prepareAnswer", "presence", "confirm", "confirmAnswer"}

EmptyPage == [selected |-> Absent, prepared |-> Absent, stage |-> "idle",
              receipt |-> Absent, answer |-> Absent, unverified |-> FALSE]

NoCheckout == [state |-> "absent", offer |-> Absent, blockers |-> 0, preparedAt |-> 0,
               confirmed |-> Absent]

Init ==
  /\ now = 0
  /\ session = Absent /\ confirmation = Absent
  /\ tab = [t \in Tabs |-> EmptyPage]
  /\ core = [c \in 1..MaxCheckouts |-> NoCheckout]
  /\ checkouts = 0 /\ issued = 0 /\ sessions = 0 /\ losses = 0
  /\ consents = {}

Least(m, n) == IF m <= n THEN m ELSE n

-----------------------------------------------------------------------------
(* The edge. *)

(* issueStorefrontSession. *)
IssueStorefrontSession == [nonce |-> sessions + 1, expires |-> now + SessionTtl]

(* authorizeStorefrontSession: signed, of this origin, not expired. *)
AuthorizeStorefrontSession(cookie) == cookie # Absent /\ cookie.expires > now

(* Mutant: a reissued proof starts a new window. *)
IssueHumanConfirmation_Renews(c, offer, blockers, expected, nonce, coreExpires) ==
  [checkout |-> c, offer |-> offer, blockers |-> blockers, expected |-> expected,
   nonce |-> nonce, challenge |-> issued + 1, issuedAt |-> now,
   expires |-> now + ConfirmationTtl]

(* Mutant: the reissued proof does not name the shopper of the first one. *)
IssueHumanConfirmation_AnyShopper(c, offer, blockers, expected, nonce, coreExpires) ==
  [checkout |-> c, offer |-> offer, blockers |-> blockers, expected |-> Absent,
   nonce |-> nonce, challenge |-> issued + 1, issuedAt |-> now,
   expires |-> Least(now + ConfirmationTtl, coreExpires)]

(* issueHumanConfirmation: the proof a cookie carries, signed; its window    *)
(* ends with the one it was derived from.                                    *)
IssueHumanConfirmation(c, offer, blockers, expected, nonce, coreExpires) ==
  [checkout |-> c, offer |-> offer, blockers |-> blockers, expected |-> expected,
   nonce |-> nonce, challenge |-> issued + 1, issuedAt |-> now,
   expires |-> Least(now + ConfirmationTtl, coreExpires)]

(* verifyHumanPresenceReceipt: signed by the anchor's issuer for exactly      *)
(* these terms and this challenge, by the expected shopper, recently.        *)
VerifyHumanPresenceReceipt(receipt, proof, body) ==
  /\ receipt # Absent
  /\ receipt.challenge = proof.challenge
  /\ receipt.checkout = body.checkout
  /\ receipt.offer = body.offer
  /\ receipt.blockers = body.blockers
  /\ receipt.nonce = proof.nonce
  /\ proof.expected # Absent => receipt.principal = proof.expected
  /\ receipt.confirmedAt + PresenceTtl > now

(* authorizeHumanConfirmation up to the presence: the proof is this          *)
(* session's, this checkout's, and the body repeats its terms and csrf token.*)
ProofMatches(proof, body, cookie) ==
  /\ proof # Absent
  /\ proof.nonce = cookie.nonce
  /\ proof.checkout = body.checkout
  /\ proof.offer = body.offer
  /\ proof.blockers = body.blockers
  /\ proof.challenge = body.csrf

(* authorizeHumanConfirmation: the shopper it authorises, or Absent. *)
AuthorizeHumanConfirmation(cookie, proof, body, receipt) ==
  IF \/ ~ProofMatches(proof, body, cookie)
     \/ proof.expires <= now
     \/ TrustAnchor /\ ~VerifyHumanPresenceReceipt(receipt, proof, body)
  THEN Absent
  ELSE IF TrustAnchor THEN receipt.principal
  ELSE <<cookie.nonce>>                \* development-visual-only

-----------------------------------------------------------------------------
(* The core's decision on a confirmation, CheckoutSession.#confirm, for an    *)
(* agent that stays active and a provider that answers.                      *)
Confirmed(body, principal) ==
  [blockers |-> body.blockers, principal |-> principal, at |-> now]

(* Mutant: the blockers of the moment are not compared. *)
CoreConfirm_IgnoresBlockers(body, principal) ==
  LET row == core[body.checkout]
  IN IF row.offer # body.offer THEN [code |-> "precondition_failed", row |-> row]
     ELSE IF row.state = "confirmed" THEN [code |-> "ok", row |-> row]
     ELSE [code |-> "ok", row |-> [row EXCEPT !.state = "confirmed",
                                     !.confirmed = Confirmed([body EXCEPT !.blockers = row.blockers], principal)]]

(* Mutant: what the shopper acknowledged is recorded, current or not. *)
CoreConfirm_Stale(body, principal) ==
  LET row == core[body.checkout]
  IN IF row.offer # body.offer THEN [code |-> "precondition_failed", row |-> row]
     ELSE IF row.state = "confirmed" THEN [code |-> "ok", row |-> row]
     ELSE [code |-> "ok", row |-> [row EXCEPT !.state = "confirmed", !.confirmed = Confirmed(body, principal)]]

CoreConfirm(body, principal) ==
  LET row == core[body.checkout]
      same == /\ row.confirmed # Absent
              /\ row.confirmed.blockers = body.blockers
              /\ row.confirmed.principal = principal
  IN IF row.offer # body.offer THEN [code |-> "precondition_failed", row |-> row]
     ELSE IF row.state = "confirmed"
       THEN [code |-> IF same THEN "ok" ELSE "precondition_failed", row |-> row]
     ELSE IF row.state = "failed" THEN [code |-> "not_confirmable", row |-> row]
     ELSE IF now > row.preparedAt + CoreTtl
       THEN [code |-> "confirmation_expired", row |-> [row EXCEPT !.state = "failed"]]
     ELSE IF body.blockers # row.blockers THEN [code |-> "reconfirmation_required", row |-> row]
     ELSE [code |-> "ok", row |-> [row EXCEPT !.state = "confirmed", !.confirmed = Confirmed(body, principal)]]

(* A blocking event of the offer watch. *)
OfferChanges(c) ==
  /\ core[c].state = "ready"
  /\ core[c].blockers < MaxBlockers
  /\ core' = [core EXCEPT ![c].blockers = @ + 1]
  /\ UNCHANGED <<now, edge, tab, checkouts, issued, sessions, losses, consents>>

-----------------------------------------------------------------------------
(* The page. *)

(* selectOffer, at its end. *)
SelectOffer(t, o) ==
  /\ tab[t].stage = "idle"
  /\ tab' = [tab EXCEPT ![t] = [EmptyPage EXCEPT !.selected = o]]
  /\ UNCHANGED <<now, edge, core, checkouts, issued, sessions, losses, consents>>

(* searchCatalog, at its end, or the tab is reloaded: the page starts over.  *)
SearchCatalog(t) ==
  /\ tab[t] # EmptyPage
  /\ tab' = [tab EXCEPT ![t] = EmptyPage]
  /\ UNCHANGED <<now, edge, core, checkouts, issued, sessions, losses, consents>>

(* initiateCheckout to its first await. *)
InitiateCheckout(t) ==
  /\ tab[t].stage = "idle" /\ tab[t].prepared = Absent /\ tab[t].selected # Absent
  /\ tab' = [tab EXCEPT ![t].stage = "session"]
  /\ UNCHANGED <<now, edge, core, checkouts, issued, sessions, losses, consents>>

(* establishSession in initiateCheckout: the jar holds a new session, or the *)
(* checkout is refused.                                                      *)
EstablishSession(t) ==
  /\ tab[t].stage = "session"
  /\ \/ /\ sessions < MaxSessions
        /\ session' = IssueStorefrontSession
        /\ sessions' = sessions + 1
        /\ tab' = [tab EXCEPT ![t].stage = "prepare"]
     \/ /\ tab' = [tab EXCEPT ![t].stage = "idle"]
        /\ UNCHANGED <<session, sessions>>
  /\ UNCHANGED <<now, confirmation, core, checkouts, issued, losses, consents>>

(* establishSession elsewhere, in replayPendingChanges at an 'online' event   *)
(* and in discoverOffers, of any tab at any time.                            *)
Reconnect ==
  /\ sessions < MaxSessions
  /\ session' = IssueStorefrontSession
  /\ sessions' = sessions + 1
  /\ UNCHANGED <<now, confirmation, tab, core, checkouts, issued, losses, consents>>

(* The prepare request at the edge and the core: a row for a new checkout id *)
(* and a proof with no blockers for the session that asked.                  *)
HandlePrepare(t) ==
  LET c == checkouts + 1
      proof == IssueHumanConfirmation(c, tab[t].selected, 0, Absent, session.nonce, now + CoreTtl)
  IN
  /\ tab[t].stage = "prepare"
  /\ \/ /\ AuthorizeStorefrontSession(session)
        /\ checkouts < MaxCheckouts
        /\ checkouts' = c
        /\ core' = [core EXCEPT ![c] = [@ EXCEPT !.state = "ready", !.offer = tab[t].selected,
                                                 !.preparedAt = now]]
        /\ issued' = issued + 1
        /\ tab' = [tab EXCEPT ![t].stage = "prepareAnswer", ![t].answer = proof]
     \/ /\ ~AuthorizeStorefrontSession(session)
        /\ tab' = [tab EXCEPT ![t].stage = "idle"]
        /\ UNCHANGED <<checkouts, core, issued>>
  /\ UNCHANGED <<now, edge, sessions, losses, consents>>

(* What the page keeps of a proof: the public part, without the shopper.      *)
PublicProof(proof) ==
  [checkout |-> proof.checkout, offer |-> proof.offer, blockers |-> proof.blockers,
   nonce |-> proof.nonce, challenge |-> proof.challenge, expires |-> proof.expires]

(* The answer to prepare arrives; or only its headers do; or nothing does.    *)
PrepareAnswer(t) ==
  /\ tab[t].stage = "prepareAnswer"
  /\ \/ /\ confirmation' = tab[t].answer
        /\ tab' = [tab EXCEPT ![t].stage = "idle", ![t].answer = Absent,
                              ![t].prepared = PublicProof(tab[t].answer)]
        /\ UNCHANGED losses
     \/ /\ losses < MaxLosses /\ losses' = losses + 1
        /\ confirmation' \in {confirmation, tab[t].answer}
        /\ tab' = [tab EXCEPT ![t].stage = "idle", ![t].answer = Absent]
  /\ UNCHANGED <<now, session, core, checkouts, issued, sessions, consents>>

(* The click on "Confirm checkout", with the review that is on the page.     *)
ConfirmPreparedCheckout(t) ==
  /\ tab[t].stage = "idle" /\ tab[t].prepared # Absent
  /\ tab' = [tab EXCEPT ![t].stage = IF TrustAnchor THEN "presence" ELSE "confirm"]
  /\ consents' = IF TrustAnchor THEN consents
                 ELSE consents \cup {[checkout |-> tab[t].prepared.checkout, offer |-> tab[t].prepared.offer,
                                      blockers |-> tab[t].prepared.blockers, principal |-> Absent]}
  /\ UNCHANGED <<now, edge, core, checkouts, issued, sessions, losses>>

(* requestHumanPresenceReceipt: a person confirms these terms on a trusted    *)
(* surface, or there is no adapter.                                          *)
RequestHumanPresenceReceipt(t) ==
  LET p == tab[t].prepared IN
  /\ tab[t].stage = "presence"
  /\ \/ \E who \in Principals :
          /\ tab' = [tab EXCEPT ![t].stage = "confirm",
                                ![t].receipt = [checkout |-> p.checkout, offer |-> p.offer, blockers |-> p.blockers,
                                                nonce |-> p.nonce, challenge |-> p.challenge,
                                                principal |-> who, confirmedAt |-> now]]
          /\ consents' = consents \cup {[checkout |-> p.checkout, offer |-> p.offer,
                                         blockers |-> p.blockers, principal |-> who]}
     \/ /\ tab' = [tab EXCEPT ![t].stage = "idle"]
        /\ UNCHANGED consents
  /\ UNCHANGED <<now, edge, core, checkouts, issued, sessions, losses>>

(* confirmHumanCheckout: the whole handler at the edge with the core's        *)
(* decision in it.                                                           *)
HandleConfirm(t) ==
  LET p == tab[t].prepared
      body == [checkout |-> p.checkout, offer |-> p.offer, blockers |-> p.blockers, csrf |-> p.challenge]
      principal == IF AuthorizeStorefrontSession(session)
                   THEN AuthorizeHumanConfirmation(session, confirmation, body, tab[t].receipt)
                   ELSE Absent
      decision == CoreConfirm(body, principal)
      again == IssueHumanConfirmation(p.checkout, p.offer, core[p.checkout].blockers, principal,
                                      session.nonce, confirmation.expires)
      Reply(code, proof) ==
        tab' = [tab EXCEPT ![t].stage = "confirmAnswer", ![t].receipt = Absent,
                           ![t].answer = [code |-> code, proof |-> proof]]
  IN
  /\ tab[t].stage = "confirm"
  /\ \/ /\ principal = Absent
        /\ Reply("refused", Absent)
        /\ UNCHANGED <<core, issued>>
     \/ /\ principal # Absent
        /\ core' = [core EXCEPT ![p.checkout] = decision.row]
        /\ \/ /\ decision.code = "reconfirmation_required" /\ again.expires > now
              /\ issued' = issued + 1
              /\ Reply(decision.code, again)
           \/ /\ decision.code # "reconfirmation_required" \/ again.expires <= now
              /\ Reply(decision.code, Absent)
              /\ UNCHANGED issued
  /\ UNCHANGED <<now, edge, checkouts, sessions, losses, consents>>

(* The set-cookie header of the answer. *)
CookieAfter(answer) ==
  IF answer.code = "ok" THEN Absent
  ELSE IF answer.proof # Absent THEN answer.proof
  ELSE confirmation

(* The answer to confirm: it arrives; or its body is unreadable, which the    *)
(* page reports as a failure; or it is lost, which the page reports as        *)
(* unverified, with the advice to retry.                                      *)
ConfirmAnswer(t) ==
  LET answer == tab[t].answer
      back == [tab[t] EXCEPT !.stage = "idle", !.answer = Absent, !.unverified = FALSE]
  IN
  /\ tab[t].stage = "confirmAnswer"
  /\ \/ /\ confirmation' = CookieAfter(answer)
        /\ tab' = [tab EXCEPT ![t] =
                     IF answer.code = "ok" THEN EmptyPage
                     ELSE IF answer.proof # Absent THEN [back EXCEPT !.prepared = PublicProof(answer.proof)]
                     ELSE back]
        /\ UNCHANGED losses
     \/ /\ losses < MaxLosses /\ losses' = losses + 1
        /\ \/ /\ confirmation' = CookieAfter(answer)
              /\ tab' = [tab EXCEPT ![t] = back]
           \/ /\ tab' = [tab EXCEPT ![t] = [back EXCEPT !.unverified = TRUE]]
              /\ UNCHANGED confirmation
  /\ UNCHANGED <<now, session, core, checkouts, issued, sessions, consents>>

Tick ==
  /\ now < MaxTime
  /\ now' = now + 1
  /\ UNCHANGED <<edge, tab, core, checkouts, issued, sessions, losses, consents>>

Next ==
  \/ Tick \/ Reconnect
  \/ \E c \in 1..MaxCheckouts : OfferChanges(c)
  \/ \E t \in Tabs :
       \/ SearchCatalog(t) \/ InitiateCheckout(t) \/ EstablishSession(t)
       \/ HandlePrepare(t) \/ PrepareAnswer(t)
       \/ ConfirmPreparedCheckout(t) \/ RequestHumanPresenceReceipt(t)
       \/ HandleConfirm(t) \/ ConfirmAnswer(t)
       \/ \E o \in Offers : SelectOffer(t, o)

Spec == Init /\ [][Next]_vars

-----------------------------------------------------------------------------
(* What the core confirms, a person was shown: this checkout, this offer and *)
(* exactly the blocking events that the confirmation acknowledges, and with   *)
(* a trust anchor it is that person whom the core records, whatever tabs,     *)
(* stale cookies and repeated requests are involved (authorizeHumanConfirmation, *)
(* #confirm).                                                                *)
ConsentWasShown ==
  \A c \in 1..MaxCheckouts : core[c].state = "confirmed" =>
    \E k \in consents :
      /\ k.checkout = c /\ k.offer = core[c].offer
      /\ k.blockers = core[c].confirmed.blockers
      /\ TrustAnchor => k.principal = core[c].confirmed.principal

(* Blocking events of a checkout are acknowledged only up to the moment of    *)
(* the confirmation, and none that happened before it is left out.           *)
NothingUnacknowledged ==
  \A c \in 1..MaxCheckouts :
    core[c].state = "confirmed" => core[c].confirmed.blockers = core[c].blockers

(* A changed offer is confirmed by the shopper who had confirmed the offer    *)
(* before it changed, not by another person at the same browser              *)
(* (expectedShopperPrincipalDigest of the reissued proof).                   *)
SameShopperThroughout ==
  \A c \in 1..MaxCheckouts :
    (TrustAnchor /\ core[c].state = "confirmed" /\ core[c].confirmed.blockers > 0) =>
      \E k \in consents : /\ k.checkout = c
                          /\ k.blockers < core[c].confirmed.blockers
                          /\ k.principal = core[c].confirmed.principal

(* Reissuing a proof never prolongs the shopper's window: no confirmation is  *)
(* accepted later than the first proof of the checkout allowed               *)
(* (reissue.confirmationExpiresAt).                                          *)
WindowNeverGrows ==
  \A c \in 1..MaxCheckouts : core[c].state = "confirmed" =>
    core[c].confirmed.at < core[c].preparedAt + ConfirmationTtl

(* The page, after an answer was lost: "We couldn't verify the result. You    *)
(* can retry this same checkout to confirm its outcome."  Until its review   *)
(* expires, a retry of it would not be refused by the edge: the jar still     *)
(* holds the session and the proof of the review.                            *)
(* The code does not keep it, and no run checks it (README, disagreements).      *)
RetryIsPossible ==
  \A t \in Tabs : (tab[t].unverified /\ tab[t].stage = "idle" /\ tab[t].prepared.expires > now) =>
    LET p == tab[t].prepared
    IN /\ AuthorizeStorefrontSession(session)
       /\ ProofMatches(confirmation, [checkout |-> p.checkout, offer |-> p.offer,
                                      blockers |-> p.blockers, csrf |-> p.challenge], session)

-----------------------------------------------------------------------------
(* The inductive invariant. *)

(* Every page and every row keeps its fields, the counts are counts, and the  *)
(* rows beyond the last checkout are unused.                                 *)
TypeOK ==
  /\ now \in Nat /\ checkouts \in Nat
  /\ DOMAIN tab = Tabs
  /\ \A t \in Tabs : DOMAIN tab[t] = DOMAIN EmptyPage /\ tab[t].stage \in Stages
  /\ DOMAIN core = 1..MaxCheckouts
  /\ \A c \in 1..MaxCheckouts :
       /\ DOMAIN core[c] = DOMAIN NoCheckout
       /\ core[c].state \in {"absent", "ready", "confirmed", "failed"}
       /\ core[c].blockers \in Nat /\ core[c].preparedAt \in Nat
       /\ c > checkouts => core[c].state = "absent" /\ core[c].blockers = 0

(* The proofs that are in the cookie jar or in an answer on its way to it.   *)
LiveProofs ==
  ({confirmation}
     \cup {tab[t].answer : t \in {u \in Tabs : tab[u].stage = "prepareAnswer"}}
     \cup {tab[t].answer.proof : t \in {u \in Tabs : tab[u].stage = "confirmAnswer"}}) \ {Absent}

(* What the edge's signature stands for: the window and the blocking events   *)
(* are those of a prepared checkout at some moment, and a proof with blocking *)
(* events names the shopper who had confirmed with fewer.                     *)
Issued(proof) ==
  /\ proof.checkout \in 1..checkouts /\ proof.checkout \in 1..MaxCheckouts
  /\ proof.expires \in Nat /\ proof.expires <= core[proof.checkout].preparedAt + ConfirmationTtl
  /\ proof.blockers \in Nat /\ proof.blockers <= core[proof.checkout].blockers
  /\ (TrustAnchor /\ proof.blockers > 0) =>
       /\ proof.expected # Absent
       /\ \E k \in consents : /\ k.checkout = proof.checkout
                              /\ k.blockers \in Nat /\ k.blockers < proof.blockers
                              /\ k.principal = proof.expected

ProofsAreIssued == \A proof \in LiveProofs : Issued(proof)

(* The terms a tab is about to send were confirmed by a person, with a trust  *)
(* anchor by the one its receipt names.                                       *)
Shown(page) ==
  \E k \in consents : /\ k.checkout = page.prepared.checkout
                      /\ k.offer = page.prepared.offer
                      /\ k.blockers = page.prepared.blockers
                      /\ TrustAnchor => k.principal = page.receipt.principal

SentWasShown == \A t \in Tabs : tab[t].stage = "confirm" => Shown(tab[t])

ConfirmInv ==
  /\ TypeOK /\ ProofsAreIssued /\ SentWasShown
  /\ ConsentWasShown /\ NothingUnacknowledged /\ SameShopperThroughout /\ WindowNeverGrows
=============================================================================
