--------------------------- MODULE SandboxPreview ---------------------------
(***************************************************************************)
(* Engagement previews (preview.ts, executor.ts): one address per          *)
(* engagement, whose identity and lifetime a Durable Object stores.  A     *)
(* request takes its clock when it arrives and then makes one call to the  *)
(* object to save, or two to resolve: it reads, and when what it read has  *)
(* expired or is not an identity of this address it deletes.               *)
(***************************************************************************)
EXTENDS Naturals, FiniteSets

CONSTANTS
    Creators, Readers,      \* requests under way: POST /v1/previews, GET /preview/<id>
    Lifetimes,              \* the lifetimes asked for, in hours
    MAXIMUM_PREVIEW_LIFETIME_HOURS,
    MaxClock,               \* bound on the clock, in hours
    None                    \* null

PreviewAssumption ==
    /\ Lifetimes \subseteq Nat /\ MAXIMUM_PREVIEW_LIFETIME_HOURS \in Nat
    /\ MaxClock \in Nat

VARIABLES
    now,      \* the clock, in hours
    stored,   \* what the Durable Object holds
    post,     \* each creator's request
    get,      \* each reader's request
    promised  \* the identity the latest 201 answered, and when it was saved

vars == <<now, stored, post, get, promised>>


Idle == [pc |-> "idle", at |-> 0, seen |-> None, status |-> 0]

Init ==
    /\ now = 0 /\ stored = None /\ promised = None
    /\ post = [c \in Creators |-> Idle]
    /\ get = [r \in Readers |-> Idle]

\* previewIdentity: the address is the engagement's, so only the times vary.
previewIdentity(at, hours) == [createdAt |-> at, expiresAt |-> at + hours]

X_ValidLifetime(hours) == 1 <= hours

ValidLifetime(hours) == 1 <= hours /\ hours <= MAXIMUM_PREVIEW_LIFETIME_HOURS

\* readPreviewIdentity: what is stored must be an identity with a lifetime.
readPreviewIdentity(value) ==
    /\ value # None
    /\ value.expiresAt > value.createdAt
    /\ value.expiresAt - value.createdAt <= MAXIMUM_PREVIEW_LIFETIME_HOURS

resolvePreview_late(identity, at) == at <= identity.expiresAt

resolvePreview(identity, at) == at < identity.expiresAt

-----------------------------------------------------------------------------
\* handlePreviewRequest: a POST arrives and is judged.
CreateArrives(c) ==
    /\ post[c].pc \in {"idle", "done"}
    /\ \E hours \in Lifetimes :
         post' = [post EXCEPT ![c] =
            IF ValidLifetime(hours)
            THEN [pc |-> "save", at |-> now, seen |-> previewIdentity(now, hours), status |-> 0]
            ELSE [pc |-> "done", at |-> now, seen |-> None, status |-> 400]]
    /\ UNCHANGED <<now, stored, get, promised>>

\* savePreviewIdentity stores it and the request answers 201.
savePreviewIdentity(c) ==
    /\ post[c].pc = "save"
    /\ stored' = post[c].seen
    /\ promised' = post[c].seen
    /\ post' = [post EXCEPT ![c].pc = "done", ![c].status = 201]
    /\ UNCHANGED <<now, get>>

\* The save fails: 503, preview_persistence_failed.
SaveFails(c) ==
    /\ post[c].pc = "save"
    /\ post' = [post EXCEPT ![c].pc = "done", ![c].status = 503]
    /\ UNCHANGED <<now, stored, get, promised>>

ResolveArrives(r) ==
    /\ get[r].pc \in {"idle", "done"}
    /\ get' = [get EXCEPT ![r] = [pc |-> "read", at |-> now, seen |-> None, status |-> 0]]
    /\ UNCHANGED <<now, stored, post, promised>>

\* resolveStoredPreview up to its read of the object.
ReadStored(r) ==
    /\ get[r].pc = "read"
    /\ get' = [get EXCEPT ![r].seen = stored,
                          ![r].pc = IF readPreviewIdentity(stored) /\ resolvePreview(stored, get[r].at)
                                    THEN "done"
                                    ELSE IF stored = None THEN "done" ELSE "delete",
                          ![r].status = IF readPreviewIdentity(stored) /\ resolvePreview(stored, get[r].at)
                                        THEN 200 ELSE 410]
    /\ UNCHANGED <<now, stored, post, promised>>

\* deletePreviewIdentity: whatever the object holds by now is deleted.
deletePreviewIdentity(r) ==
    /\ get[r].pc = "delete"
    /\ stored' = None
    /\ get' = [get EXCEPT ![r].pc = "done"]
    /\ UNCHANGED <<now, post, promised>>

\* A call to the object fails: 503.
ResolveFails(r) ==
    /\ get[r].pc \in {"read", "delete"}
    /\ get' = [get EXCEPT ![r].pc = "done", ![r].status = 503]
    /\ UNCHANGED <<now, stored, post, promised>>

Tick == now < MaxClock /\ now' = now + 1 /\ UNCHANGED <<stored, post, get, promised>>

Next ==
    \/ \E c \in Creators : CreateArrives(c) \/ savePreviewIdentity(c) \/ SaveFails(c)
    \/ \E r \in Readers : ResolveArrives(r) \/ ReadStored(r) \/ deletePreviewIdentity(r) \/ ResolveFails(r)
    \/ Tick

Spec == Init /\ [][Next]_vars

-----------------------------------------------------------------------------
\* The store holds an identity whose lifetime is within the maximum.
TypeOK ==
    /\ now \in 0..MaxClock
    /\ stored = None \/ (stored \in [createdAt : 0..MaxClock, expiresAt : 0..(MaxClock + MAXIMUM_PREVIEW_LIFETIME_HOURS)]
                         /\ readPreviewIdentity(stored))

\* A preview answered 200 had not expired when the request arrived, whatever
\* was saved or deleted around its read.
ServedIsAlive ==
    \A r \in Readers : get[r].status = 200 => get[r].at < get[r].seen.expiresAt

\* A preview that was answered 201 is there until its lifetime is over: "it
\* creates one addressable identity and revokes it exactly at its lifetime".
\* A reader that saw the expired predecessor deletes its renewal.
\* The code does not keep it, and no run checks it (README, disagreements).
PreviewKept ==
    promised # None /\ now < promised.expiresAt => stored # None

=============================================================================
