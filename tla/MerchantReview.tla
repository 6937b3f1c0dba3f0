--------------------------- MODULE MerchantReview ---------------------------
(***************************************************************************)
(* The merchant review queue of one browser: a vendor page stages changes  *)
(* of a storefront, and the admin pages of the same browser approve and    *)
(* publish, reject, check or remove them.  The queue is one IndexedDB      *)
(* store; each admin page works from the cards it last rendered, which     *)
(* another page's change makes stale until the next rendering.             *)
(*                                                                         *)
(* A publication marks its record, acquires the authoring claim of the     *)
(* store (again with a later epoch when the fence is stale), posts the     *)
(* theme and marks the outcome.  Any call may end without its answer; the  *)
(* core may still handle it while the lease lasts.  A page may be closed   *)
(* at any step, or suspended between two of them.  One merchant.           *)
(***************************************************************************)
EXTENDS Naturals, FiniteSets

CONSTANTS
    None,
    Admins,          \* open admin pages, connected with the operator's credential
    Manifests,       \* the vendor's
    Others,          \* published from elsewhere
    Capacity,        \* 20 records in the code
    Minute,          \* the lease and the wait before a check, in call timeouts (4)
    MaxTime,         \* bound
    MaxPublications, \* bound: publications begun, here or elsewhere
    Suspends,        \* TRUE if a page may sleep between two steps
    Recycles         \* TRUE if a removed proposal may be staged again while a
                     \* page still shows or checks the removed record

ReviewAssumption ==
    /\ None \notin Manifests \cup Others /\ Capacity \in Nat \ {0}
    /\ Minute \in Nat \ {0} /\ MaxTime \in Nat
    /\ MaxPublications \in Nat
    /\ Suspends \in BOOLEAN /\ Recycles \in BOOLEAN

VARIABLES
    now,             \* in call timeouts of 15 s
    live,            \* the manifest the store serves
    holder,          \* the claim on the store: [by, epoch, until], or None
    epoch,           \* the highest lease epoch granted
    inflight,        \* theme requests the core may still handle
    queue,           \* by scope: the record, or None
    cards,           \* by admin page: the queue as rendered
    draft,           \* the vendor's proposal between reading and saving
    pub,             \* by admin page: the publication under way
    check,           \* by admin page: a check between reading and marking
    begun,           \* publications begun
    confirmed        \* ghost: staged scopes whose manifest was live since

vars == <<now, live, holder, epoch, inflight, queue, cards, draft, pub, check, begun, confirmed>>
storeVars == <<live, holder, epoch, inflight>>

Versions == Manifests \cup Others \cup {None}

\* A proposal is addressed by the digest of its manifest and predecessor.
Scopes == [manifest : Manifests, prev : Versions]

Statuses == {"pending", "applying", "uncertain", "applied", "rejected"}
Records == [status : Statuses, at : 0..MaxTime, code : {"none", "error", "differs"}]

Idle == [pc |-> "idle", scope |-> None, claim |-> None, since |-> 0]

Init ==
    /\ now = 0 /\ live = None /\ holder = None /\ epoch = 0 /\ inflight = {}
    /\ queue = [s \in Scopes |-> None]
    /\ cards = [a \in Admins |-> queue]
    /\ draft = None
    /\ pub = [a \in Admins |-> Idle]
    /\ check = [a \in Admins |-> None]
    /\ begun = 0 /\ confirmed = {}

\* Mutant: the status is written whatever the record's status is by now.
X_changeProposal(s, expected, status, code) ==
    IF queue[s] = None THEN queue
    ELSE [queue EXCEPT ![s] = [status |-> status, at |-> now, code |-> code]]

\* changeProposal: one transaction; null, and nothing written, unless the
\* record still has the expected status.
changeProposal(s, expected, status, code) ==
    IF queue[s] = None THEN queue
    ELSE IF queue[s].status # expected THEN queue
    ELSE [queue EXCEPT ![s] = [status |-> status, at |-> now, code |-> code]]

\* renderProposals of the page itself, after its own change.
Rendered(a) == cards' = [cards EXCEPT ![a] = queue']

\* The first rendering after a publication has marked its record disables the
\* buttons of the cards, and the publication goes on.
Disabled(a) == pub' = [pub EXCEPT ![a].pc = IF @ = "marked" THEN "claim" ELSE @]

\* renderProposals after the page's own mark, an announcement of another
\* page, a search or a change of the connection.
renderProposals(a) ==
    /\ cards[a] # queue
    /\ cards' = [cards EXCEPT ![a] = queue]
    /\ Disabled(a)
    /\ UNCHANGED <<now, storeVars, queue, draft, check, begun, confirmed>>

--------------------------------------------------------------------------------
\* The vendor page.

\* stageTheme reads the published version the proposal is to replace.
readMerchant(m) ==
    /\ draft = None
    /\ draft' = [manifest |-> m, prev |-> live]
    /\ UNCHANGED <<now, storeVars, queue, cards, pub, check, begun, confirmed>>

Staged == {s \in Scopes : queue[s] # None}

\* A page still refers to the record of a scope.
Referred(s) == \E a \in Admins : cards[a][s] # None \/ (check[a] # None /\ check[a].scope = s)

\* Mutant: the queue has no bound.
X_Full == FALSE

Full == Cardinality(Staged) >= Capacity

\* stageTheme saves the proposal: an existing record is kept as it is, and
\* a full queue refuses.
stageTheme ==
    /\ draft # None
    /\ queue[draft] # None \/ Recycles \/ ~Referred(draft)
    /\ IF queue[draft] # None \/ Full
       THEN UNCHANGED <<queue, confirmed>>
       ELSE /\ queue' = [queue EXCEPT ![draft] = [status |-> "pending", at |-> now, code |-> "none"]]
            /\ confirmed' = IF live = draft.manifest THEN confirmed \cup {draft} ELSE confirmed \ {draft}
    /\ draft' = None
    /\ UNCHANGED <<now, storeVars, cards, pub, check, begun>>

--------------------------------------------------------------------------------
\* A card's actions.

Shows(a, s, statuses) == cards[a][s] # None /\ (cards[a][s]).status \in statuses

\* The cards were rendered when nothing was being published; their handlers
\* do not look again whether something is.
Enabled(a) == pub[a].pc \in {"idle", "marked"}

\* 'Approve and publish' starts a publication, if the record is still
\* pending; until the page has rendered its mark the cards are the old ones.
publish(a, s) ==
    /\ pub[a].pc = "idle" /\ Shows(a, s, {"pending"}) /\ begun < MaxPublications
    /\ begun' = begun + 1
    /\ queue' = changeProposal(s, "pending", "applying", "none")
    /\ pub' = [pub EXCEPT ![a] = IF queue' = queue THEN @
                                 ELSE [pc |-> "marked", scope |-> s, claim |-> None, since |-> now]]
    /\ IF queue' = queue THEN Rendered(a) ELSE UNCHANGED cards
    /\ UNCHANGED <<now, storeVars, draft, check, confirmed>>

\* 'Reject proposal'.
rejectProposal(a, s) ==
    /\ Enabled(a) /\ Shows(a, s, {"pending"})
    /\ queue' = changeProposal(s, "pending", "rejected", "none")
    /\ Rendered(a) /\ Disabled(a)
    /\ UNCHANGED <<now, storeVars, draft, check, begun, confirmed>>

\* Mutant: a check does not wait.
X_WaitedOneMinute(card) == TRUE

WaitedOneMinute(card) == now - card.at >= Minute

\* 'Check publication' reads the live version, at least a minute after the
\* record it shows was written.
CheckPublication(a, s) ==
    /\ Shows(a, s, {"applying", "uncertain"}) /\ check[a] = None /\ Enabled(a)
    /\ WaitedOneMinute(cards[a][s])
    /\ check' = [check EXCEPT ![a] = [scope |-> s, status |-> cards[a][s].status,
                                      matches |-> live = s.manifest]]
    /\ UNCHANGED <<now, storeVars, queue, cards, draft, pub, begun, confirmed>>

\* Mutant: the live version is not compared.
X_CheckedStatus(c) == "applied"

CheckedStatus(c) == IF c.matches THEN "applied" ELSE "uncertain"

\* It then marks what it read, if the record is as it was.
MarkChecked(a) ==
    LET c == check[a]
    IN  /\ c # None
        /\ queue' = changeProposal(c.scope, c.status, CheckedStatus(c),
                                   IF c.matches THEN "none" ELSE "differs")
        /\ check' = [check EXCEPT ![a] = None]
        /\ Rendered(a) /\ Disabled(a)
        /\ UNCHANGED <<now, storeVars, draft, begun, confirmed>>

\* 'Remove local record' deletes whatever the scope holds by now.
RemoveRecord(a, s) ==
    /\ Shows(a, s, {"applied", "rejected", "uncertain"})
    /\ queue' = [queue EXCEPT ![s] = None]
    /\ Rendered(a) /\ Disabled(a)
    /\ UNCHANGED <<now, storeVars, draft, check, begun, confirmed>>

--------------------------------------------------------------------------------
\* A publication's steps.

Goto(a, pc) == pub' = [pub EXCEPT ![a].pc = pc, ![a].since = now]

\* The catch of publish; the claim is released if it was acquired.
Fail(a) ==
    /\ queue' = changeProposal(pub[a].scope, "applying", "uncertain", "error")
    /\ pub' = [pub EXCEPT ![a] = IF @.pc = "post" THEN [@ EXCEPT !.pc = "release", !.since = now] ELSE Idle]
    /\ Rendered(a)

\* The claim: its lease starts now, its epoch is the page's clock.
BuildClaim(a) ==
    /\ pub[a].pc = "claim"
    /\ pub' = [pub EXCEPT ![a] = [@ EXCEPT !.pc = "acquire", !.since = now,
                                  !.claim = [by |-> a, epoch |-> now, until |-> now + Minute]]]
    /\ UNCHANGED <<now, storeVars, queue, cards, draft, check, begun, confirmed>>

Held == holder # None /\ holder.until > now

\* /claims/acquire at the core.
Grant(claim) == holder' = claim /\ epoch' = claim.epoch /\ UNCHANGED <<live, inflight>>
Stale(claim) == claim.epoch <= epoch

\* acquire answers: granted, stale (asked once more with a later epoch), or
\* held by another.
acquire(a) ==
    LET claim == pub[a].claim
    IN  /\ pub[a].pc \in {"acquire", "reacquire"}
        /\ \/ /\ ~Held /\ ~Stale(claim)
              /\ Grant(claim) /\ Goto(a, "send") /\ UNCHANGED <<queue, cards>>
           \/ /\ ~Held /\ Stale(claim) /\ pub[a].pc = "acquire"
              /\ pub' = [pub EXCEPT ![a] = [@ EXCEPT !.pc = "reacquire", !.since = now,
                                            !.claim.epoch = epoch + 1]]
              /\ UNCHANGED <<storeVars, queue, cards>>
           \/ /\ Held \/ (Stale(claim) /\ pub[a].pc = "reacquire")
              /\ Fail(a) /\ UNCHANGED storeVars
        /\ UNCHANGED <<now, draft, check, begun, confirmed>>

\* The answer of an acquire is lost, whether or not it was granted.
AcquireLost(a) ==
    /\ pub[a].pc \in {"acquire", "reacquire"}
    /\ Fail(a)
    /\ \/ ~Held /\ ~Stale(pub[a].claim) /\ Grant(pub[a].claim)
       \/ UNCHANGED storeVars
    /\ UNCHANGED <<now, draft, check, begun, confirmed>>

\* The theme is posted under the claim.
SendTheme(a) ==
    /\ pub[a].pc = "send"
    /\ inflight' = inflight \cup {[claim |-> pub[a].claim, scope |-> pub[a].scope, code |-> "none"]}
    /\ Goto(a, "post")
    /\ UNCHANGED <<now, live, holder, epoch, queue, cards, draft, check, begun, confirmed>>

Serve(m) ==
    /\ live' = m
    /\ confirmed' = confirmed \cup {s \in Staged : s.manifest = m}

\* The core handles a theme request (ThemeDeployment has its steps): refused
\* without its claim or over another version than the one reviewed.
deployMerchantTheme(r) ==
    LET code == IF holder # r.claim \/ ~Held THEN "fence"
                ELSE IF live # r.scope.manifest /\ live # r.scope.prev THEN "theme_review_stale"
                ELSE "ok"
    IN  /\ r \in inflight /\ r.code = "none"
        /\ IF code = "ok" THEN Serve(r.scope.manifest) ELSE UNCHANGED <<live, confirmed>>
        /\ inflight' = (inflight \ {r}) \cup {[r EXCEPT !.code = code]}
        /\ UNCHANGED <<now, holder, epoch, queue, cards, draft, pub, check, begun>>

\* publish receives the answer and marks the outcome.
PublishAnswer(a) ==
    /\ pub[a].pc = "post"
    /\ \E r \in inflight :
          /\ r.claim = pub[a].claim /\ r.code # "none"
          /\ IF r.code = "ok"
             THEN /\ queue' = changeProposal(r.scope, "applying", "applied", "none")
                  /\ Goto(a, "release") /\ Rendered(a)
             ELSE Fail(a)
          /\ inflight' = inflight \ {r}
    /\ UNCHANGED <<now, live, holder, epoch, draft, check, begun, confirmed>>

\* The call ends without its answer.
PublishLost(a) ==
    /\ pub[a].pc = "post"
    /\ Fail(a)
    /\ UNCHANGED <<now, storeVars, draft, check, begun, confirmed>>

\* The claim is released, or its release is left unconfirmed.
releaseClaim(a) ==
    /\ pub[a].pc = "release"
    /\ holder' \in {holder, IF holder = pub[a].claim THEN None ELSE holder}
    /\ pub' = [pub EXCEPT ![a] = Idle]
    /\ UNCHANGED <<now, live, epoch, inflight, queue, cards, draft, check, begun, confirmed>>

\* The page is closed and opened again.
ClosePage(a) ==
    /\ pub[a] # Idle \/ check[a] # None
    /\ pub' = [pub EXCEPT ![a] = Idle]
    /\ check' = [check EXCEPT ![a] = None]
    /\ cards' = [cards EXCEPT ![a] = queue]
    /\ UNCHANGED <<now, storeVars, queue, draft, begun, confirmed>>

--------------------------------------------------------------------------------
\* Another device publishes.
PublishElsewhere(m) ==
    /\ begun < MaxPublications /\ ~Held /\ m # live
    /\ begun' = begun + 1
    /\ Serve(m)
    /\ holder' = None /\ epoch' = epoch + 1
    /\ UNCHANGED <<now, inflight, queue, cards, draft, pub, check>>

\* Requests whose lease has ended, and answers nobody waits for, are dropped.
Waited == {r \in inflight : (r.code = "none" /\ r.claim.until > now + 1) \/ \E a \in Admins : pub[a].pc = "post" /\ pub[a].claim = r.claim}

\* An awake page ends each call at its timeout, is between calls for no time,
\* and has rendered what was announced.
Prompt(a) ==
    /\ pub[a].pc = "idle" \/ (pub[a].pc \notin {"marked", "claim", "send"} /\ pub[a].since = now)
    /\ check[a] = None /\ cards[a] = queue

\* Time passes.
Tick ==
    /\ now < MaxTime
    /\ \A a \in Admins : Prompt(a) \/ Suspends
    /\ now' = now + 1
    /\ inflight' = Waited
    /\ UNCHANGED <<live, holder, epoch, queue, cards, draft, pub, check, begun, confirmed>>

Next ==
    \/ \E m \in Manifests : readMerchant(m)
    \/ \E m \in Others : PublishElsewhere(m)
    \/ stageTheme \/ Tick
    \/ \E a \in Admins :
          \/ renderProposals(a) \/ MarkChecked(a)
          \/ BuildClaim(a) \/ acquire(a) \/ AcquireLost(a)
          \/ SendTheme(a) \/ PublishAnswer(a) \/ PublishLost(a) \/ releaseClaim(a) \/ ClosePage(a)
          \/ \E s \in Scopes : \/ publish(a, s) \/ rejectProposal(a, s)
                               \/ CheckPublication(a, s) \/ RemoveRecord(a, s)
    \/ \E r \in inflight : deployMerchantTheme(r)

Spec == Init /\ [][Next]_vars

--------------------------------------------------------------------------------
\* Types; the queue never holds more than its capacity.
TypeOK ==
    /\ now \in 0..MaxTime /\ live \in Versions
    /\ queue \in [Scopes -> Records \cup {None}]
    /\ cards \in [Admins -> [Scopes -> Records \cup {None}]]
    /\ draft \in Scopes \cup {None}
    /\ Cardinality(Staged) <= Capacity

\* A record marked 'applied' ("this storefront version was confirmed"),
\* whether by the page that published it or by a later check from another
\* page, is of a version the store did serve since the change was staged.
AppliedIsTrue ==
    \A s \in Staged : queue[s].status = "applied" => s \in confirmed

Sending(a) == pub[a].pc \in {"marked", "claim", "acquire", "reacquire", "send", "post"}

\* However many pages show the same pending card, and whatever is rejected,
\* removed or staged again in between, at most one page is publishing it:
\* "Publication outcome is pending. Do not repeat it".
\* Holds where a removed proposal is not staged again under a page that still
\* shows it (Recycles is FALSE; README, disagreements).
OnePublisher ==
    \A a, b \in Admins : a # b /\ Sending(a) /\ Sending(b) => pub[a].scope # pub[b].scope

\* Requests the core would still accept.
Effective(s) == \E r \in inflight : r.scope = s /\ r.code = "none" /\ r.claim = holder /\ Held

\* The verdict of a check, "the live version differs", is final: the
\* publication it was asked about is over, at the page and at the core, and
\* cannot take effect after the operator was told to stage a fresh review.
\* Holds for pages that are not suspended in the middle of a publication
\* (Suspends is FALSE; README, disagreements).
CheckIsFinal ==
    \A s \in Staged : queue[s].code = "differs"
        => ~Effective(s) /\ ~\E a \in Admins : Sending(a) /\ pub[a].scope = s

================================================================================
