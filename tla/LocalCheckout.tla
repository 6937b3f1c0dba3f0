--------------------------- MODULE LocalCheckout ---------------------------
(***************************************************************************)
(* The human checkout of the local-first storefront: the tabs of one       *)
(* browser (public/local-first/checkout.js), the stateless Worker that     *)
(* keeps an order only in a signed cookie (src/local-first/checkout.ts,    *)
(* session.ts, checkout-recovery.ts, stripe-webhook.ts) and Stripe, whose  *)
(* idempotency keys are the only ledger (stripe-checkout.ts).              *)
(*                                                                         *)
(* A request is in flight from the click to the answer. The page gives up  *)
(* after 20 seconds while the handler still runs (Abandon), Stripe may act *)
(* and its answer be lost (heard = FALSE), any call may fail (Fail), and the     *)
(* answers of two tabs overwrite each other's cookie. A tick of the clock  *)
(* stands for hours: no request lives that long.                           *)
(***************************************************************************)
EXTENDS Naturals, FiniteSets, Sequences

CONSTANTS Tabs, Nonces,
          Jobs,         \* bindings of reviewed listings to a fulfilment run
          NoJob, NoNonce,
          Static,       \* test and live mode: education materials only
          SalesEnabled, \* FALSE in live-reader mode
          MaxOrders, MaxFlight, MaxClock, MaxFaults,
          Window,       \* age at which an intent may no longer create (23 h)
          Retention,    \* age at which Stripe may forget a key (24 h)
          SessionAge    \* age after which a cookie is refused (7 days)

WindowInsideRetention ==
    /\ Window \in Nat /\ Retention \in Nat /\ SessionAge \in Nat
    /\ Window < Retention
ModeAssumption == Static \in BOOLEAN /\ SalesEnabled \in BOOLEAN
NoneAreDistinct == NoJob \notin Jobs /\ NoNonce \notin Nonces

VARIABLES orders,   \* Stripe's checkout sessions, in order of creation
          keys,     \* Stripe's idempotency keys
          jobs,     \* completed fulfilment runs: their principal and planning time
          cookie,   \* the browser's signed session, one per browser
          files,    \* recovery files the shopper saved
          tab,      \* what each tab holds
          flight,   \* requests on their way
          clock,
          faults,   \* requests abandoned, failed or half done so far
          refused   \* orders Stripe refused to cancel because of the key

vars == <<orders, keys, jobs, cookie, files, tab, flight, clock, faults, refused>>

Bindings == Jobs \cup {NoJob}
Status == {"none", "pending", "succeeded", "expired"}
NoCookie == [nonce |-> NoNonce, issuedAt |-> 0, payment |-> 0, job |-> NoJob]
NoPayment == [id |-> 0, status |-> "open", paid |-> FALSE, entitled |-> FALSE]
Reads == {"open", "status", "recovery", "recover"}
Writes == {"start", "cancel", "reset"}

---------------------------------------------------------------------------
(* Stripe *)

\* What a read of the session answers; id 0 when the cookie names no order.
ReadOrder(id) ==
    IF id = 0 THEN NoPayment
    ELSE [id |-> id, status |-> orders[id].status, paid |-> orders[id].paid,
          entitled |-> orders[id].entitled]

\* Stripe's session must carry the nonce and the listing the cookie names.
validate(c) ==
    c.payment # 0 => orders[c.payment].nonce = c.nonce /\ orders[c.payment].job = c.job

Success(payment) == payment.status = "complete" /\ payment.paid

\* The status of the order in the answer.
receipt(payment) ==
    CASE payment.id = 0 -> "none"
      [] payment.id # 0 /\ Success(payment) -> "succeeded"
      [] payment.id # 0 /\ payment.status = "expired" -> "expired"
      [] OTHER -> "pending"

\* The key of a first order is the intent; a separate order adds its job.
CreateKey(nonce, job, separate) ==
    [op |-> "create", nonce |-> nonce, job |-> IF separate THEN job ELSE NoJob]
ExpireKey(nonce) == [op |-> "expire", nonce |-> nonce, job |-> NoJob]

KnownKeys(key) == {k \in keys : k.key = key}
\* Stripe answers a known key only to the request it was first used for.
Clashes(key, params) == \E k \in KnownKeys(key) : k.params # params

---------------------------------------------------------------------------
(* The Worker *)

readSession(c) == c.nonce # NoNonce /\ clock - c.issuedAt <= SessionAge

newSession(nonce) ==
    [nonce |-> nonce, issuedAt |-> clock, payment |-> 0, job |-> NoJob]
FreshNonces ==
    Nonces \ ({cookie.nonce} \cup {tab[t].csrf : t \in Tabs}
              \cup {orders[i].nonce : i \in 1..Len(orders)}
              \cup {r.cookie.nonce : r \in flight} \cup {r.set.nonce : r \in flight}
              \cup {jobs[j].nonce : j \in Jobs})

\* A recovery file names one order and its nonce; only the Worker can make it.
createCheckoutRecovery(c) == c.payment
readCheckoutRecovery(f) == [newSession(orders[f].nonce) EXCEPT !.payment = f]

csrf(r) == r.csrf = r.cookie.nonce

SeparateOrder(r) == r.seen.id # 0 /\ r.cookie.job # r.job

X_ReplacementAllowed(r) == SeparateOrder(r) => r.job # NoJob
\* Only a terminal order gives way to another listing's.
ReplacementAllowed(r) ==
    SeparateOrder(r) =>
        /\ r.job # NoJob
        /\ r.seen.status = "expired" \/ Success(r.seen)

\* 23 hours bound the creation: of the session, or of the job's own planning.
X_WithinWindow(r) == TRUE
WithinWindow(r) ==
    IF SeparateOrder(r)
    THEN /\ jobs[r.job].plannedAt >= r.cookie.issuedAt
         /\ clock - jobs[r.job].plannedAt < Window
    ELSE clock - r.cookie.issuedAt < Window

\* readFulfillment: only the principal that ran the job may read it.
Reviewed(r) == r.job # NoJob => jobs[r.job].nonce = r.cookie.nonce

---------------------------------------------------------------------------
(* The page *)

Busy(t) == \E r \in flight : r.tab = t /\ ~r.dropped

differentOrder(t) ==
    /\ ~Static /\ tab[t].order # 0 /\ tab[t].job # NoJob
    /\ orders[tab[t].order].job # tab[t].job

\* enabled(): an order of this listing, or a pending one, blocks a start.
StartEnabled(t) ==
    /\ SalesEnabled /\ tab[t].verified
    /\ tab[t].order # 0 => differentOrder(t) /\ tab[t].status # "pending"
CancelShown(t) == tab[t].status = "pending" /\ SalesEnabled
ResetShown(t) == tab[t].status = "expired" /\ ~differentOrder(t) /\ SalesEnabled

X_ContinueShown(t) ==
    tab[t].verified /\ ~differentOrder(t) /\ tab[t].status = "pending"
ContinueShown(t) ==
    /\ tab[t].verified /\ ~differentOrder(t) /\ tab[t].status = "pending"
    /\ Static => SalesEnabled /\ tab[t].saved = tab[t].order

EmptyTab == [csrf |-> NoNonce, order |-> 0, status |-> "none", verified |-> FALSE,
             job |-> NoJob, saved |-> 0, held |-> 0]

\* One request: what it carries, what the handler has read, what it answers.
Request(t, path) ==
    [tab |-> t, path |-> path, cookie |-> cookie, csrf |-> tab[t].csrf,
     job |-> IF path = "start" THEN tab[t].job ELSE NoJob,
     file |-> 0, stage |-> "sent", seen |-> NoPayment, set |-> NoCookie,
     ok |-> FALSE, dropped |-> FALSE]

\* openCheckout clears the page before it asks.
Cleared(page) ==
    [page EXCEPT !.csrf = NoNonce, !.order = 0, !.status = "none", !.verified = FALSE]
ClearedRequest(t) == [Request(t, "open") EXCEPT !.csrf = NoNonce]

Init ==
    /\ orders = <<>> /\ keys = {} /\ files = {} /\ flight = {} /\ clock = 0
    /\ refused = {} /\ faults = 0
    /\ jobs = [j \in Jobs |-> [nonce |-> NoNonce, plannedAt |-> 0]]
    /\ cookie = NoCookie
    /\ tab = [t \in Tabs |-> EmptyTab]

\* The faults of a behaviour are bounded by MaxFaults.
Fault == faults < MaxFaults /\ faults' = faults + 1
Heard(heard) == IF heard THEN UNCHANGED faults ELSE Fault

Room == Cardinality(flight) < MaxFlight

openCheckout(t) ==
    /\ ~Busy(t) /\ Room
    /\ tab' = [tab EXCEPT ![t] = Cleared(@)]
    /\ flight' = flight \cup {ClearedRequest(t)}
    /\ UNCHANGED <<orders, keys, jobs, cookie, files, clock, faults, refused>>

\* selectFulfillment: the listing the shopper reviewed goes into the checkout.
selectFulfillment(t, j) ==
    /\ ~Static /\ jobs[j].nonce # NoNonce /\ tab[t].job # j
    /\ tab' = [tab EXCEPT ![t].job = j]
    /\ UNCHANGED <<orders, keys, jobs, cookie, files, flight, clock, faults, refused>>

\* A fulfilment run of this browser's principal completes at the host.
CompleteJob(j) ==
    /\ ~Static /\ jobs[j].nonce = NoNonce /\ readSession(cookie)
    /\ jobs' = [jobs EXCEPT ![j] = [nonce |-> cookie.nonce, plannedAt |-> clock]]
    /\ UNCHANGED <<orders, keys, cookie, files, tab, flight, clock, faults, refused>>

\* mutate(path): the Web Lock lets one tab write at a time, until it gives up.
Offered(t, path) ==
    CASE path = "start" -> StartEnabled(t)
      [] path = "cancel" -> CancelShown(t)
      [] path = "reset" -> ResetShown(t)
mutate(t, path) ==
    /\ ~Busy(t) /\ Room
    /\ tab[t].csrf # NoNonce /\ tab[t].verified
    /\ Offered(t, path)
    /\ ~\E r \in flight : r.path \in Writes /\ ~r.dropped
    /\ flight' = flight \cup {Request(t, path)}
    /\ UNCHANGED <<orders, keys, jobs, cookie, files, tab, clock, faults, refused>>

refresh(t) ==
    /\ ~Busy(t) /\ Room /\ tab[t].csrf # NoNonce
    /\ flight' = flight \cup {Request(t, "status")}
    /\ UNCHANGED <<orders, keys, jobs, cookie, files, tab, clock, faults, refused>>

\* The file of the order in hand is saved at once; any other is asked for.
saveRecovery(t) ==
    /\ Static /\ ~Busy(t) /\ tab[t].verified /\ tab[t].order # 0
    /\ \/ /\ tab[t].held = tab[t].order
          /\ files' = files \cup {tab[t].order}
          /\ tab' = [tab EXCEPT ![t].saved = tab[t].order]
          /\ UNCHANGED flight
       \/ /\ tab[t].held # tab[t].order /\ Room
          /\ flight' = flight \cup {[Request(t, "recovery") EXCEPT !.file = tab[t].order]}
          /\ UNCHANGED <<files, tab>>
    /\ UNCHANGED <<orders, keys, jobs, cookie, clock, faults, refused>>

restoreRecovery(t, f) ==
    /\ Static /\ ~Busy(t) /\ Room /\ f \in files
    /\ flight' = flight \cup {[Request(t, "recover") EXCEPT !.file = f]}
    /\ UNCHANGED <<orders, keys, jobs, cookie, files, tab, clock, faults, refused>>

\* The page stops waiting after 20 seconds, shows a failure and lets go of the
\* lock. The handler runs on; its answer, and its cookie, go nowhere.
Abandon(r) ==
    /\ ~r.dropped /\ Fault
    /\ flight' = (flight \ {r}) \cup
           (IF r.stage = "done" \/ r.path \in Reads THEN {} ELSE {[r EXCEPT !.dropped = TRUE]})
    /\ tab' = [tab EXCEPT ![r.tab].verified =
                  IF r.path \in {"recovery", "recover"} THEN @ ELSE FALSE]
    /\ UNCHANGED <<orders, keys, jobs, cookie, files, clock, refused>>

---------------------------------------------------------------------------
(* The handlers *)

Advance(r, next) == flight' = (flight \ {r}) \cup (IF next.dropped /\ next.stage = "done"
                                                  THEN {} ELSE {next})
Done(r, ok, payment, session) ==
    [r EXCEPT !.stage = "done", !.ok = ok, !.seen = payment, !.set = session]

\* GET /checkout keeps the session it read, or makes one, and sets its cookie.
ServeOpen(r) ==
    /\ r.stage = "sent" /\ r.path = "open"
    /\ \/ /\ readSession(r.cookie) /\ validate(r.cookie)
          /\ Advance(r, Done(r, TRUE, ReadOrder(r.cookie.payment), r.cookie))
       \/ /\ ~readSession(r.cookie)
          /\ \E n \in FreshNonces : Advance(r, Done(r, TRUE, NoPayment, newSession(n)))
    /\ UNCHANGED <<orders, keys, jobs, cookie, files, tab, clock, faults, refused>>

\* GET /checkout/status sets no cookie.
ServeStatus(r) ==
    /\ r.stage = "sent" /\ r.path = "status"
    /\ Advance(r, Done(r, readSession(r.cookie) /\ validate(r.cookie), ReadOrder(r.cookie.payment), NoCookie))
    /\ UNCHANGED <<orders, keys, jobs, cookie, files, tab, clock, faults, refused>>

\* POST /checkout/recovery: a bearer token for the order of the cookie.
ServeRecovery(r) ==
    /\ r.stage = "sent" /\ r.path = "recovery"
    /\ Advance(r, Done(r, readSession(r.cookie) /\ csrf(r) /\ r.cookie.payment # 0
                          /\ validate(r.cookie),
                       ReadOrder(r.cookie.payment), NoCookie))
    /\ UNCHANGED <<orders, keys, jobs, cookie, files, tab, clock, faults, refused>>

\* POST /checkout/recover: a paid order becomes this browser's session again.
ServeRecover(r) ==
    /\ r.stage = "sent" /\ r.path = "recover"
    /\ Advance(r, Done(r, Success(ReadOrder(r.file)), ReadOrder(r.file),
                       readCheckoutRecovery(r.file)))
    /\ UNCHANGED <<orders, keys, jobs, cookie, files, tab, clock, faults, refused>>

\* The writes check session, confirmation and sales, then read the payment.
ReadPayment(r) ==
    /\ r.stage = "sent" /\ r.path \in Writes
    /\ IF readSession(r.cookie) /\ csrf(r) /\ validate(r.cookie) /\ (r.path = "start" => SalesEnabled)
       THEN Advance(r, [r EXCEPT !.stage = "read", !.seen = ReadOrder(r.cookie.payment)])
       ELSE Advance(r, Done(r, FALSE, NoPayment, NoCookie))
    /\ UNCHANGED <<orders, keys, jobs, cookie, files, tab, clock, faults, refused>>

NewOrder(r, key) ==
    [nonce |-> r.cookie.nonce, job |-> r.job, key |-> key, createdAt |-> clock,
     status |-> "open", paid |-> FALSE, entitled |-> FALSE]

\* stripe.create: a known key replays the answer of the first request, or is
\* refused when the order it was used for was another one.
create(r, key, heard) ==
    LET first == CHOOSE k \in KnownKeys(key) : TRUE
        id == IF KnownKeys(key) = {} THEN Len(orders) + 1 ELSE first.order
    IN /\ KnownKeys(key) = {} => Len(orders) < MaxOrders
       /\ IF Clashes(key, r.job)
          THEN /\ Advance(r, Done(r, FALSE, NoPayment, NoCookie))
               /\ UNCHANGED <<orders, keys>>
          ELSE /\ orders' = IF KnownKeys(key) = {} THEN Append(orders, NewOrder(r, key))
                            ELSE orders
               /\ keys' = IF KnownKeys(key) = {}
                          THEN keys \cup {[key |-> key, params |-> r.job, order |-> id,
                                           at |-> clock]}
                          ELSE keys
               /\ Advance(r, IF heard
                    THEN Done(r, TRUE, [NoPayment EXCEPT !.id = id],
                              [r.cookie EXCEPT !.payment = id, !.job = r.job])
                    ELSE Done(r, FALSE, NoPayment, NoCookie))

Start(r, heard) ==
    /\ r.stage = "read" /\ r.path = "start"
    /\ IF r.seen.id # 0 /\ ~SeparateOrder(r)
       THEN /\ heard /\ Advance(r, Done(r, TRUE, r.seen, r.cookie))
            /\ UNCHANGED <<orders, keys>>
       ELSE IF ReplacementAllowed(r) /\ Reviewed(r) /\ WithinWindow(r)
            THEN create(r, CreateKey(r.cookie.nonce, r.job, SeparateOrder(r)), heard)
            ELSE /\ heard /\ Advance(r, Done(r, FALSE, NoPayment, NoCookie))
                 /\ UNCHANGED <<orders, keys>>
    /\ Heard(heard)
    /\ UNCHANGED <<jobs, cookie, files, tab, clock, refused>>

\* stripe.expire: Stripe expires an open session only, under a key of the intent.
Cancel(r, heard) ==
    /\ r.stage = "read" /\ r.path = "cancel"
    /\ LET id == r.seen.id
           key == ExpireKey(r.cookie.nonce)
       IN IF id = 0 \/ r.seen.status # "open"
          THEN /\ heard /\ Advance(r, Done(r, id # 0, r.seen, r.cookie))
               /\ UNCHANGED <<orders, keys, refused>>
          ELSE IF Clashes(key, id)
          THEN /\ heard /\ Advance(r, Done(r, FALSE, NoPayment, NoCookie))
               /\ refused' = refused \cup {id}
               /\ UNCHANGED <<orders, keys>>
          ELSE IF KnownKeys(key) = {} /\ orders[id].status # "open"
          THEN /\ heard /\ Advance(r, Done(r, FALSE, NoPayment, NoCookie))
               /\ UNCHANGED <<orders, keys, refused>>
          ELSE /\ orders' = IF KnownKeys(key) = {}
                            THEN [orders EXCEPT ![id].status = "expired"] ELSE orders
               /\ keys' = IF KnownKeys(key) = {}
                          THEN keys \cup {[key |-> key, params |-> id, order |-> id,
                                           at |-> clock]}
                          ELSE keys
               /\ Advance(r, IF heard
                    THEN Done(r, TRUE, [r.seen EXCEPT !.status = "expired"], r.cookie)
                    ELSE Done(r, FALSE, NoPayment, NoCookie))
               /\ UNCHANGED refused
    /\ Heard(heard)
    /\ UNCHANGED <<jobs, cookie, files, tab, clock>>

Reset(r) ==
    /\ r.stage = "read" /\ r.path = "reset"
    /\ IF r.seen.id # 0 /\ r.seen.status # "expired"
       THEN Advance(r, Done(r, FALSE, NoPayment, NoCookie))
       ELSE \E n \in FreshNonces : Advance(r, Done(r, TRUE, NoPayment, newSession(n)))
    /\ UNCHANGED <<orders, keys, jobs, cookie, files, tab, clock, faults, refused>>

\* A failing provider, host or asset ends the request with nothing done.
Fail(r) ==
    /\ r.stage # "done" /\ Fault
    /\ Advance(r, Done(r, FALSE, NoPayment, NoCookie))
    /\ UNCHANGED <<orders, keys, jobs, cookie, files, tab, clock, refused>>

\* The answer arrives: the browser stores the cookie, the page the order.
Shown(page, r) == [page EXCEPT !.order = r.seen.id, !.status = receipt(r.seen),
                               !.verified = TRUE]
Answer(r) ==
    LET t == r.tab
        stores == r.ok /\ r.set # NoCookie
        rest == flight \ {r}
    IN /\ r.stage = "done" /\ ~r.dropped
       /\ cookie' = IF stores THEN r.set ELSE cookie
       /\ CASE ~r.ok ->
                 /\ tab' = [tab EXCEPT ![t].verified =
                               IF r.path \in {"recovery", "recover"} THEN @ ELSE FALSE]
                 /\ flight' = rest /\ UNCHANGED files
            [] r.ok /\ r.path = "open" ->
                 /\ tab' = [tab EXCEPT ![t] = [Shown(@, r) EXCEPT !.csrf = r.set.nonce]]
                 /\ flight' = rest /\ UNCHANGED files
            [] r.ok /\ r.path = "recovery" ->
                 /\ tab' = [tab EXCEPT ![t].held = r.file, ![t].saved = r.file]
                 /\ files' = files \cup {createCheckoutRecovery(r.cookie)}
                 /\ flight' = rest
            [] r.ok /\ r.path = "recover" ->
                 /\ tab' = [tab EXCEPT ![t] = [Cleared(@) EXCEPT !.held = r.seen.id,
                                                                 !.saved = r.seen.id]]
                 /\ flight' = rest \cup {[ClearedRequest(t) EXCEPT !.cookie = r.set]}
                 /\ UNCHANGED files
            [] r.ok /\ r.path = "reset" ->
                 /\ tab' = [tab EXCEPT ![t] = [Cleared(@) EXCEPT !.held = 0, !.saved = 0]]
                 /\ flight' = rest \cup {[ClearedRequest(t) EXCEPT !.cookie = r.set]}
                 /\ UNCHANGED files
            [] OTHER ->
                 /\ tab' = [tab EXCEPT ![t] = [Shown(@, r) EXCEPT !.held =
                               IF Static /\ r.set.payment # 0 THEN r.seen.id ELSE @]]
                 /\ flight' = rest /\ UNCHANGED files
       /\ UNCHANGED <<orders, keys, jobs, clock, faults, refused>>

---------------------------------------------------------------------------
(* The shopper at Stripe, Stripe's own clock and its events *)

Pay(t) ==
    /\ ContinueShown(t)
    /\ orders[tab[t].order].status = "open"
    /\ \E paid \in BOOLEAN :
          orders' = [orders EXCEPT ![tab[t].order].status = "complete",
                                   ![tab[t].order].paid = paid]
    /\ UNCHANGED <<keys, jobs, cookie, files, tab, flight, clock, faults, refused>>

PayLater(i) ==
    /\ orders[i].status = "complete" /\ ~orders[i].paid
    /\ orders' = [orders EXCEPT ![i].paid = TRUE]
    /\ UNCHANGED <<keys, jobs, cookie, files, tab, flight, clock, faults, refused>>

\* fulfill: the order is read again, and only a paid one is entitled.
fulfill(i) == Success(ReadOrder(i)) /\ ~orders[i].entitled

X_handleStripeWebhook(i) ==
    /\ Static /\ ~orders[i].entitled
    /\ orders' = [orders EXCEPT ![i].entitled = TRUE]
    /\ UNCHANGED <<keys, jobs, cookie, files, tab, flight, clock, faults, refused>>

\* handleStripeWebhook: an event is a wakeup only; fulfill re-reads the order.
handleStripeWebhook(i) ==
    /\ Static /\ fulfill(i)
    /\ orders' = [orders EXCEPT ![i].entitled = TRUE]
    /\ UNCHANGED <<keys, jobs, cookie, files, tab, flight, clock, faults, refused>>

Tick ==
    /\ clock < MaxClock /\ flight = {}
    /\ clock' = clock + 1
    /\ orders' = [i \in 1..Len(orders) |->
           IF orders[i].status = "open" /\ clock' - orders[i].createdAt >= Retention
           THEN [orders[i] EXCEPT !.status = "expired"] ELSE orders[i]]
    /\ UNCHANGED <<keys, jobs, cookie, files, tab, flight, faults, refused>>

ForgetKey(k) ==
    /\ clock - k.at >= Retention
    /\ keys' = keys \ {k}
    /\ UNCHANGED <<orders, jobs, cookie, files, tab, flight, clock, faults, refused>>

Handle(r) ==
    \/ ServeOpen(r) \/ ServeStatus(r) \/ ServeRecovery(r) \/ ServeRecover(r)
    \/ ReadPayment(r) \/ Reset(r) \/ Fail(r)
    \/ \E heard \in BOOLEAN : Start(r, heard) \/ Cancel(r, heard)
    \/ Abandon(r) \/ Answer(r)

Next ==
    \/ \E t \in Tabs :
          \/ openCheckout(t) \/ refresh(t) \/ saveRecovery(t) \/ Pay(t)
          \/ \E path \in Writes : mutate(t, path)
          \/ \E j \in Jobs : selectFulfillment(t, j)
          \/ \E f \in files : restoreRecovery(t, f)
    \/ \E j \in Jobs : CompleteJob(j)
    \/ \E r \in flight : Handle(r)
    \/ \E i \in 1..Len(orders) : PayLater(i) \/ handleStripeWebhook(i)
    \/ \E k \in keys : ForgetKey(k)
    \/ Tick

Spec == Init /\ [][Next]_vars

---------------------------------------------------------------------------
(* Properties *)

\* Every variable keeps its shape, and no tab shows an order Stripe lacks.
TypeOK ==
    /\ Len(orders) \in 0..MaxOrders
    /\ \A i \in 1..Len(orders) :
          /\ orders[i].nonce \in Nonces /\ orders[i].job \in Bindings
          /\ orders[i].status \in {"open", "complete", "expired"}
          /\ orders[i].paid => orders[i].status = "complete"
          /\ orders[i].entitled => orders[i].paid
    /\ \A t \in Tabs : tab[t].order \in 0..Len(orders) /\ tab[t].status \in Status
    /\ cookie.payment \in 0..Len(orders) /\ files \subseteq 1..Len(orders)
    /\ Cardinality(flight) <= MaxFlight

\* However often a start is retried after a lost answer or a timeout, Stripe
\* never opens a second session for the same intent: by the time it may forget
\* the key, the intent is too old to create (checkout.ts:136 and :141-143).
OneOrderPerKey ==
    \A i, j \in 1..Len(orders) : orders[i].key = orders[j].key => i = j

\* "Pending or unpaid orders cannot be replaced" (docs/durable-fulfillment.md:97):
\* whatever the tabs do and however stale their pages are, the browser never
\* offers two different orders of one session that can both still be paid.
\* (Two tabs that open a checkout at once without a cookie make two sessions.)
OnePayable ==
    \A t, u \in Tabs :
        LET o == tab[t].order
            p == tab[u].order
        IN /\ ContinueShown(t) /\ orders[o].status = "open"
           /\ ContinueShown(u) /\ orders[p].status = "open"
           /\ orders[o].nonce = orders[p].nonce
           => o = p

\* In test and live mode a paid order can always be fetched again: before the
\* page links to Stripe the recovery file of that very order was saved, so
\* the loss of the cookie (expiry, another tab's late answer) loses nothing.
\* Holds for one tab; a restore in a second one breaks it (README, disagreements).
PaidIsRecoverable ==
    Static => \A i \in 1..Len(orders) : orders[i].paid => i \in files

\* "cancel expires the open session" (docs/prd-tad-adr-mvp-gtm-edge-commerce-agent.md:171):
\* Stripe never refuses the cancellation of an open order.
\* The code does not keep it, and no run checks it (README, disagreements).
CancelExpires == refused = {}

\* An intent too old to create is given up with a reset
\* (test/local-first/checkout.test.mjs:86-90): a page that stands on one, with
\* no order, offers the reset.
\* The code does not keep it, and no run checks it (README, disagreements).
OldIntentCanBeReset ==
    \A t \in Tabs :
        /\ tab[t].csrf # NoNonce /\ tab[t].verified /\ tab[t].order = 0
        /\ tab[t].csrf = cookie.nonce /\ cookie.payment = 0 /\ SalesEnabled
        /\ clock - cookie.issuedAt >= Window
        => ResetShown(t)
=============================================================================
