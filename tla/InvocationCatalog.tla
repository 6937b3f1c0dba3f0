-------------------------- MODULE InvocationCatalog --------------------------
(***************************************************************************)
(* The pinned invocation catalogue of a core isolate: the single-flight    *)
(* cache of src/core/core-readiness.ts, the MCP client it hydrates the     *)
(* catalogue with (src/invocation), the coverage check of the capability   *)
(* map, and the authorise-then-call sequence of the edge.  The docs MCP    *)
(* upstream publishes revisions, ends sessions and fails on its own.       *)
(***************************************************************************)
EXTENDS Integers, FiniteSets, Sequences

CONSTANTS
    None,
    Requests,     \* requests the isolate serves at one time
    Revision,     \* source revisions the docs MCP may advertise
    Pin,          \* env.ACOS_SOURCE_REVISION
    Content,      \* revision -> its invocation entries
    Map,          \* CAPABILITY_MAP: a set of capability entries
    Actions,      \* capability actions callers ask for, mapped or not
    Required,     \* env.ACOS_REQUIRED_TOKENS_JSON
    Presented,    \* token sets callers present; BadToken is malformed
    BadToken,
    Kinds,        \* the kinds of request of this instance
    MaxPublish, MaxFaults   \* bounds of the upstream's behaviour

VARIABLES
    adv,        \* revision whose metadata the docs MCP advertises
    body,       \* revision whose entries it serves
    live,       \* its live MCP sessions
    published, faults,
    session,    \* sessionId of the isolate's client, 0 for ""
    cache,      \* invocationCatalogCache: a snapshot or None
    hyd,        \* invocationCatalogHydration: the hydration in flight or None
    req,        \* what each request is doing
    called,     \* the core calls made: [action, snap]
    off         \* history: "yes" once adv left Pin, "seen" once a hydration begun since has ended

up == <<adv, body, live, published, faults>>
vars == <<adv, body, live, published, faults, session, cache, hyd, req, called, off>>

Sigils == <<"command", "semantic", "binding">>
Idle == [pc |-> "idle"]

----------------------------------------------------------------------------
(* The catalogue's data.                                                    *)

OfKind(entries, k) == {e \in entries : e.kind = k}
Counts(entries) == [k \in {"command", "semantic", "binding"} |-> Cardinality(OfKind(entries, k))]

\* A digest separates any two catalogues, so the entries stand for theirs.
buildInvocationDigests(entries) == [catalog |-> {[e EXCEPT !.tools = {}] : e \in entries},
                                    routing |-> {<<e.token, e.tools>> : e \in entries}]

\* The metadata that comes with every answer of the docs MCP.
normalizeMetadata(r) == [rev    |-> r,
                         digest |-> buildInvocationDigests(Content[r]),
                         counts |-> Counts(Content[r])]

\* An entry's source URL, when it has one, names the advertised revision.
normalizeEntry(e, rev) == e.url \in {None, rev}

assertSameMetadata(expected, actual) == expected = actual

commandTools(e) == e.tools

\* coverageFindings(map, catalog) = []
Covered(map, entries) ==
    \A m \in map :
        /\ \E c \in OfKind(entries, "command") :
              /\ c.token = m.command
              /\ m.semantics \subseteq c.semantics
              /\ m.bindings \subseteq c.bindings
        /\ m.semantics \subseteq {e.token : e \in OfKind(entries, "semantic")}
        /\ m.bindings \subseteq {e.token : e \in OfKind(entries, "binding")}
        /\ {e.token : e \in {c \in OfKind(entries, "command") : m.tool \in commandTools(c)}} = {m.command}

assertPinnedSnapshot(s) == /\ s.rev = Pin
                           /\ s.digest = normalizeMetadata(Pin).digest
                           /\ s.counts = normalizeMetadata(Pin).counts

\* What the isolate may hold: a verified catalogue, and a hydration on the way to one.
PinnedSnapshot == [rev |-> Pin, digest |-> normalizeMetadata(Pin).digest,
                   counts |-> normalizeMetadata(Pin).counts, entries |-> Content[Pin]]
Metadata == {normalizeMetadata(r) : r \in Revision}
Phases == {"init", "notify", "call", "digest", "close"}
Hydration == [refresh : BOOLEAN, phase : Phases, i : 1..4, meta : Metadata \cup {None},
              entries : SUBSET UNION {Content[r] : r \in Revision}, off : BOOLEAN]

EntryShape(e) == [token |-> e.token, kind |-> e.kind, tools |-> e.tools,
                  semantics |-> e.semantics, bindings |-> e.bindings, url |-> e.url]

PinAssumption ==
    /\ Pin \in Revision /\ DOMAIN Content = Revision
    /\ \A r \in Revision : \A e \in Content[r] : e = EntryShape(e)
    /\ Kinds \subseteq {"call", "present", "ready", "coverage"}
    /\ MaxPublish \in Nat /\ MaxFaults \in Nat
    /\ None # PinnedSnapshot /\ None \notin Metadata /\ None \notin Hydration

----------------------------------------------------------------------------
(* What a request answers once it holds a catalogue (None: unavailable).    *)

\* A map with a malformed or a repeated entry is no map: every action is unmapped.
readEntry(m) == m.semantics # {} /\ m.bindings # {}
readCapabilityMap(map) ==
    IF /\ \A m \in map : readEntry(m)
       /\ \A m, n \in map : m.action = n.action \/ m.tool = n.tool => m = n
    THEN map ELSE {}
CapabilityMap == readCapabilityMap(Map)

EntryOf(action) == {m \in CapabilityMap : m.action = action}

authorizeCapabilityAction(action, s) ==
    IF s = None THEN "unavailable"
    ELSE IF Covered(EntryOf(action), s.entries) THEN "ok" ELSE "uncovered"

resolvePresentedInvocations(tokens, s) ==
    IF s = None THEN "unavailable"
    ELSE IF tokens \subseteq {e.token : e \in s.entries} THEN "ok" ELSE "unresolved"

resolvePinnedInvocations(s) ==
    IF s = None THEN "unavailable"
    ELSE IF Required \subseteq {e.token : e \in s.entries} THEN "ok" ELSE "unresolved"

capabilityCoverage(s) ==
    IF s = None THEN "unavailable"
    ELSE IF CapabilityMap # {} /\ Covered(CapabilityMap, s.entries) THEN "ok" ELSE "uncovered"

Answer(q, s) == CASE q.kind = "call"     -> authorizeCapabilityAction(q.arg, s)
                  [] q.kind = "present"  -> resolvePresentedInvocations(q.arg, s)
                  [] q.kind = "ready"    -> resolvePinnedInvocations(s)
                  [] q.kind = "coverage" -> capabilityCoverage(s)

\* The request's continuation with the catalogue it was handed.
Answered(q, s) == [q EXCEPT !.pc = "answered", !.ans = Answer(q, s), !.snap = s]

\* Every request that awaits the hydration's promise is handed its result.
X_Deliver(s) == req
Deliver(s) == [r \in Requests |-> IF req[r].pc = "await" THEN Answered(req[r], s) ELSE req[r]]

----------------------------------------------------------------------------
(* pinnedInvocationCatalog: the cache, else the hydration in flight, else   *)
(* a new one, with the cached entry's client or with a new client.          *)

createInvocationClient == 0   \* a client without a session

NewHydration(refresh) == [refresh |-> refresh, phase |-> "init", i |-> 1,
                          meta |-> None, entries |-> {}, off |-> off = "yes"]

pinnedInvocationCatalog(r, q, refresh) ==
    \/ /\ cache # None /\ ~refresh
       /\ req' = [req EXCEPT ![r] = Answered(q, cache)]
       /\ UNCHANGED <<hyd, session>>
    \/ /\ cache = None \/ refresh
       /\ req' = [req EXCEPT ![r] = [q EXCEPT !.pc = "await"]]
       /\ IF hyd # None
          THEN UNCHANGED <<hyd, session>>
          ELSE /\ hyd' = NewHydration(cache # None)
               /\ session' = IF cache # None THEN session ELSE createInvocationClient

Ask(kind, arg) == [pc |-> "await", kind |-> kind, arg |-> arg, ans |-> None, snap |-> None]

Unmapped(r, a) ==
    /\ req' = [req EXCEPT ![r] = [Ask("call", a) EXCEPT !.pc = "answered", !.ans = "unmapped"]]
    /\ UNCHANGED <<hyd, session>>

\* POST /internal/v1/invocations/authorize
Authorize(r, a) ==
    \/ EntryOf(a) = {} /\ Unmapped(r, a)
    \/ EntryOf(a) # {} /\ pinnedInvocationCatalog(r, Ask("call", a), FALSE)

\* The edge maps the path and the method to an action (None for other paths),
\* then asks the core to authorise it.
capabilityBoundCore(r) ==
    \/ Unmapped(r, None)
    \/ \E a \in Actions : Authorize(r, a)

\* POST /internal/v1/invocations/resolve; nothing is read for malformed tokens.
Present(r) ==
    \E t \in Presented :
        IF t \subseteq {BadToken}
        THEN /\ req' = [req EXCEPT ![r] = [Ask("present", t) EXCEPT !.pc = "answered", !.ans = "unresolved"]]
             /\ UNCHANGED <<hyd, session>>
        ELSE pinnedInvocationCatalog(r, Ask("present", t), FALSE)

Begin(r) ==
    /\ req[r].pc = "idle"
    /\ \/ "call" \in Kinds /\ capabilityBoundCore(r)
       \/ "present" \in Kinds /\ Present(r)
       \/ "ready" \in Kinds /\ pinnedInvocationCatalog(r, Ask("ready", None), TRUE)
       \/ "coverage" \in Kinds /\ pinnedInvocationCatalog(r, Ask("coverage", None), FALSE)
    /\ UNCHANGED <<up, cache, called, off>>

\* authorizedCoreCall: the call itself is made only on an ok authorisation.
Finish(r) ==
    /\ req[r].pc = "answered"
    /\ called' = IF req[r].kind = "call" /\ req[r].ans = "ok"
                 THEN called \cup {[action |-> req[r].arg, snap |-> req[r].snap]} ELSE called
    /\ req' = [req EXCEPT ![r] = Idle]
    /\ UNCHANGED <<up, session, cache, hyd, off>>

----------------------------------------------------------------------------
(* The hydration: initialise a session if the client has none, one tool     *)
(* call for each sigil, the digests, the pin.                               *)

\* What a post may end in besides an answer.
readBoundedBody == {"response_too_large"}
post == readBoundedBody \cup {"transport_failed"}
parseMcpEnvelope == {"invalid_mcp_response"}
request == post \cup parseMcpEnvelope \cup {"mcp_tool_failed"}
extractToolPayload == {"invalid_mcp_response", "mcp_tool_failed"}

\* The catch of pinnedInvocationCatalog: the cache is dropped before the close.
X_Reject == /\ hyd' = [hyd EXCEPT !.phase = "close"]
            /\ UNCHANGED cache
Reject == /\ hyd' = [hyd EXCEPT !.phase = "close"]
          /\ cache' = None

Fault == faults < MaxFaults /\ faults' = faults + 1

\* The docs MCP assigns an identifier no live session has.
NewSession == CHOOSE s \in 1..(MaxFaults + 2) \ live : TRUE

ensureInitialized ==
    /\ hyd # None /\ hyd.phase = "init"
    /\ \/ /\ session # 0
          /\ hyd' = [hyd EXCEPT !.phase = "call"]
          /\ UNCHANGED <<up, session, cache>>
       \/ /\ session = 0
          /\ session' = NewSession /\ live' = live \cup {NewSession}
          /\ hyd' = [hyd EXCEPT !.phase = "notify"]
          /\ UNCHANGED <<adv, body, published, faults, cache>>
       \/ /\ session = 0 /\ Fault   \* not reached, or the answer is lost
          /\ \E f \in request : Reject
          /\ live' \in {live, live \cup {NewSession}}
          /\ UNCHANGED <<adv, body, published, session>>
    /\ UNCHANGED <<req, called, off>>

\* notifications/initialized; a failure forgets the session.
notifyInitialized ==
    /\ hyd # None /\ hyd.phase = "notify"
    /\ \/ /\ session \in live
          /\ hyd' = [hyd EXCEPT !.phase = "call"]
          /\ UNCHANGED <<faults, session, cache>>
       \/ /\ session \notin live
          /\ Reject /\ session' = 0 /\ UNCHANGED faults
       \/ /\ Fault
          /\ \E f \in post : Reject
          /\ session' = 0
    /\ UNCHANGED <<adv, body, live, published, req, called, off>>

\* One round of hydrateFresh's loop.
Payload(k) == OfKind(Content[body], k)
Fits(k) == LET meta == normalizeMetadata(adv)
           IN  /\ hyd.meta # None => assertSameMetadata(hyd.meta, meta)
               /\ \A e \in Payload(k) : normalizeEntry(e, adv)
               /\ Cardinality(Payload(k)) = meta.counts[k]
               /\ \A e \in Payload(k), f \in Payload(k) \cup hyd.entries :
                     e.token = f.token => e = f /\ f \notin hyd.entries

hydrateFresh ==
    /\ hyd # None /\ hyd.phase = "call"
    /\ LET k == Sigils[hyd.i]
       IN \/ /\ session \in live /\ Fits(k)
             /\ hyd' = [hyd EXCEPT !.i = @ + 1, !.meta = IF @ = None THEN normalizeMetadata(adv) ELSE @,
                                   !.entries = @ \cup Payload(k),
                                   !.phase = IF hyd.i = 3 THEN "digest" ELSE "call"]
             /\ UNCHANGED <<faults, cache>>
          \/ session \in live /\ ~Fits(k) /\ Reject /\ UNCHANGED faults
          \/ session \notin live /\ Reject /\ UNCHANGED faults    \* mcp_session_expired
          \/ Fault /\ \E f \in request \cup extractToolPayload : Reject
    /\ UNCHANGED <<adv, body, live, published, session, req, called, off>>

OffAfter(h) == IF off = "yes" /\ h.off THEN "seen" ELSE off

Snapshot == [rev |-> hyd.meta.rev, digest |-> hyd.meta.digest, counts |-> hyd.meta.counts,
             entries |-> hyd.entries]

X_Verified == TRUE
Verified == /\ buildInvocationDigests(hyd.entries) = hyd.meta.digest
            /\ Cardinality(hyd.entries) = hyd.meta.counts["command"] + hyd.meta.counts["semantic"]
                                            + hyd.meta.counts["binding"]

\* The digests are awaited, then the snapshot is compared with the pin and cached.
settle ==
    /\ hyd # None /\ hyd.phase = "digest"
    /\ IF Verified /\ assertPinnedSnapshot(Snapshot)
       THEN /\ cache' = Snapshot
            /\ req' = Deliver(Snapshot)
            /\ off' = OffAfter(hyd)
            /\ hyd' = None
       ELSE Reject /\ UNCHANGED <<req, off>>
    /\ UNCHANGED <<up, session, called>>

\* client.close, best effort and within a second, then the promise rejects.
X_close ==
    /\ hyd # None /\ hyd.phase = "close"
    /\ session' = 0
    /\ req' = Deliver(None) /\ off' = OffAfter(hyd) /\ hyd' = None
    /\ UNCHANGED <<up, cache, called>>
X_closeHung ==
    /\ hyd # None /\ hyd.phase = "close"
    /\ session' = 0
    /\ UNCHANGED <<up, cache, hyd, req, called, off>>
X_closeKept ==
    /\ hyd # None /\ hyd.phase = "close"
    /\ session' = 0
    /\ live' = live \ {session}
    /\ req' = Deliver(None)
    /\ UNCHANGED <<adv, body, published, faults, cache, called, off, hyd>>
close ==
    /\ hyd # None /\ hyd.phase = "close"
    /\ session' = 0
    /\ \/ live' = live \ {session} /\ UNCHANGED faults
       \/ session # 0 /\ Fault /\ UNCHANGED live
    /\ req' = Deliver(None)
    /\ off' = OffAfter(hyd)
    /\ hyd' = None
    /\ UNCHANGED <<adv, body, published, cache, called>>

Hydrate == ensureInitialized \/ notifyInitialized \/ hydrateFresh \/ settle \/ close

----------------------------------------------------------------------------
(* The docs MCP, external: its entries and its metadata move to another     *)
(* revision in either order, and its sessions end.                          *)

PublishMetadata(r) ==
    /\ published < MaxPublish
    /\ r # adv
    /\ adv' = r /\ published' = published + 1
    /\ off' = IF r = Pin THEN "no" ELSE IF off = "no" THEN "yes" ELSE off
    /\ hyd' = IF hyd # None /\ r = Pin THEN [hyd EXCEPT !.off = FALSE] ELSE hyd
    /\ UNCHANGED <<body, live, faults, session, cache, req, called>>

PublishEntries(r) ==
    /\ published < MaxPublish
    /\ r # body
    /\ body' = r /\ published' = published + 1
    /\ UNCHANGED <<adv, live, faults, session, cache, hyd, req, called, off>>

ExpireSession ==
    /\ Fault
    /\ \E s \in live : live' = live \ {s}
    /\ UNCHANGED <<adv, body, published, session, cache, hyd, req, called, off>>

Upstream == \/ \E r \in Revision : PublishMetadata(r) \/ PublishEntries(r)
            \/ ExpireSession

----------------------------------------------------------------------------
Init ==
    /\ adv = Pin /\ body = Pin /\ live = {} /\ published = 0 /\ faults = 0
    /\ session = 0 /\ cache = None /\ hyd = None
    /\ req = [r \in Requests |-> Idle]
    /\ called = {} /\ off = "no"

Next == \/ \E r \in Requests : Begin(r) \/ Finish(r)
        \/ Hydrate
        \/ Upstream

Spec == Init /\ [][Next]_vars

(* Every fetch of the client carries an abort signal, so a hydration step   *)
(* ends, and an answered request is finished.  Callers keep coming.         *)
FairSpec == /\ Spec
            /\ WF_vars(Hydrate)
            /\ \A r \in Requests : WF_vars(Finish(r)) /\ WF_vars(Begin(r))

----------------------------------------------------------------------------
(* The type invariant.  Only a hydration holds a half-read catalogue, and   *)
(* a request awaits only while one is in flight.                            *)
TypeOK ==
    /\ adv \in Revision /\ body \in Revision
    /\ live \subseteq 1..(MaxFaults + 2) /\ session \in 0..(MaxFaults + 2)
    /\ published \in 0..MaxPublish /\ faults \in 0..MaxFaults
    /\ off \in {"no", "yes", "seen"}
    /\ cache \in {None, PinnedSnapshot} /\ hyd \in Hydration \cup {None}
    /\ \A r \in Requests :
          /\ req[r].pc \in {"idle", "await", "answered"}
          /\ req[r].pc = "await" => hyd # None

(* Every core call the edge makes, and every ok answer, was authorised      *)
(* against exactly the pinned revision's entries, whatever the docs MCP     *)
(* published between the three sigil calls, and covers the action's tokens. *)
CallsAreCovered ==
    /\ \A c \in called : /\ c.snap # None
                         /\ c.snap.entries = Content[Pin]
                         /\ EntryOf(c.action) # {} /\ Covered(EntryOf(c.action), Content[Pin])
    /\ \A r \in Requests :
          req[r].pc = "answered" /\ req[r].ans = "ok" => req[r].snap.entries = Content[Pin]

(* Once a refresh begun after the upstream left the pin has ended, nothing  *)
(* is answered from the catalogue until the upstream is back at the pin.    *)
RefreshRevokes ==
    [][\A r \in Requests :
          (req[r].pc # "answered" /\ req'[r].pc = "answered" /\ req'[r].ans = "ok") => off # "seen"]_vars

(* A session the client no longer holds was closed at the docs MCP, unless  *)
(* a lost answer or a failed close left it there.                           *)
SessionsAccounted == Cardinality(live \ {session}) <= faults

(* Every request is answered.                                               *)
RequestsEnd == \A r \in Requests : req[r].pc = "await" ~> req[r].pc = "idle"

(* Once the docs MCP stays at the pin, and requests keep asking for the     *)
(* catalogue, the isolate holds it for good: no failed hydration is          *)
(* remembered.                                                               *)
Recovers == (<>[](adv = Pin /\ body = Pin) /\ []<>(hyd # None \/ cache # None)) => <>[](cache # None)
=============================================================================
