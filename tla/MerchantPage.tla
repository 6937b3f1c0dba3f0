---------------------------- MODULE MerchantPage ----------------------------
(***************************************************************************)
(* The asynchronous parts of one merchant workspace page outside its       *)
(* review queue: the operator's connection with the registry it reads, the *)
(* vendor's catalog lookup, and the environment panel, which shows for a   *)
(* minute what an explicit readiness check of this page's release found.   *)
(* Each has answers that arrive after the page moved on: the operator      *)
(* disconnected or used another credential, asked for another store,       *)
(* cancelled, went offline, or left the page and came back.                *)
(***************************************************************************)
EXTENDS Naturals, Sequences

CONSTANTS
    None,
    Credentials, Refused,    \* what is typed in, and which of it is refused
    Merchants,
    Minute,          \* life of an observation, in check timeouts (12 of 5 s)
    HistoryLimit,    \* 20 in the code
    MaxTime, MaxCalls, MaxChecks, MaxEvents  \* bounds

PageAssumption ==
    /\ None \notin Credentials \cup Merchants /\ Refused \subseteq Credentials
    /\ Minute \in Nat \ {0} /\ HistoryLimit \in Nat \ {0}
    /\ {MaxTime, MaxCalls, MaxChecks, MaxEvents} \subseteq Nat

VARIABLES
    operatorToken, registry,
    connects,        \* calls of the connection: [kind, token, n, current]
    refreshDisabled, \* the registry's refresh button
    applying,        \* a publication is under way
    asked, shown,    \* ghost: the store asked for last; the store shown
    lookups,         \* catalog calls: [merchant, current]
    wanted,          \* ghost: the credential the operator last connected with
    calls,
    now, online, visible,
    release,         \* what /readyz answers: "ready", "unready", "other" release
    generation, controller,
    checks,          \* readiness calls: [gen, aborted, reply, since]
    observation, badge, expiry, history, passedAt, events

linkVars == <<operatorToken, registry, connects, refreshDisabled, applying, asked, shown,
              lookups, wanted, calls>>
panelVars == <<now, online, visible, release, generation, controller, checks,
               observation, badge, expiry, history, passedAt, events>>
vars == <<linkVars, panelVars>>

Init ==
    /\ operatorToken = None /\ registry = None /\ connects = {} /\ refreshDisabled = TRUE
    /\ applying = FALSE
    /\ asked = None /\ shown = None /\ lookups = {} /\ wanted = None /\ calls = 0
    /\ now = 0 /\ online = TRUE /\ visible = TRUE /\ release = "ready"
    /\ generation = 0 /\ controller = None /\ checks = {} /\ observation = None
    /\ badge = "none" /\ expiry = None /\ history = <<>> /\ passedAt = None /\ events = 0

--------------------------------------------------------------------------------
\* The operator's connection.

\* connectionRevision has moved on.
Superseded(set) == {[c EXCEPT !.current = FALSE] : c \in set}

\* disconnect, by the button or at the start of a connection.
disconnect ==
    /\ operatorToken' = None /\ registry' = None /\ refreshDisabled' = TRUE
    /\ UNCHANGED <<applying, asked, shown, lookups>>

Disconnect ==
    /\ operatorToken # None
    /\ disconnect /\ connects' = Superseded(connects) /\ wanted' = None
    /\ UNCHANGED <<calls, panelVars>>

Call(type, token) == [kind |-> type, token |-> token, n |-> calls, current |-> TRUE]

\* The operator submits a credential, in a form that is hidden while one is
\* accepted: the page disconnects and reads the registry with it.
connect(k) ==
    /\ ~applying /\ operatorToken = None /\ calls < MaxCalls
    /\ disconnect
    /\ connects' = Superseded(connects) \cup {Call("connect", k)}
    /\ wanted' = k /\ calls' = calls + 1
    /\ UNCHANGED panelVars

\* registry-refresh.
registryRefresh ==
    /\ operatorToken # None /\ ~refreshDisabled /\ calls < MaxCalls
    /\ refreshDisabled' = TRUE
    /\ connects' = connects \cup {Call("refresh", operatorToken)}
    /\ calls' = calls + 1
    /\ UNCHANGED <<operatorToken, registry, applying, asked, shown, lookups, wanted, panelVars>>

\* Mutant: the answer of an earlier connection is accepted.
X_Accepted(c) == c.token \notin Refused

Accepted(c) == c.current /\ c.token \notin Refused

\* Mutant: whoever disconnected, the page shows what it reads.
X_RefreshAccepted(c) == TRUE

RefreshAccepted(c) == c.current

\* A connection's answer.
ConnectAnswer(c) ==
    /\ c \in connects /\ c.kind = "connect"
    /\ connects' = connects \ {c}
    /\ IF Accepted(c) THEN operatorToken' = c.token /\ registry' = c.token /\ refreshDisabled' = FALSE
       ELSE UNCHANGED <<operatorToken, registry, refreshDisabled>>
    /\ UNCHANGED <<applying, asked, shown, lookups, wanted, calls, panelVars>>

\* A refresh's answer: acceptRegistry, or a report of the failure.  The answer
\* to a superseded refresh enables the button too, beside a current one.
RefreshAnswer(c) ==
    /\ c \in connects /\ c.kind = "refresh"
    /\ connects' = connects \ {c}
    /\ registry' \in {registry, IF RefreshAccepted(c) THEN c.token ELSE registry}
    /\ refreshDisabled' = (operatorToken = None)
    /\ UNCHANGED <<operatorToken, applying, asked, shown, lookups, wanted, calls, panelVars>>

\* A publication (MerchantReview) begins with the credential, and ends.
Publishing ==
    /\ applying \/ operatorToken # None
    /\ applying' = ~applying
    /\ UNCHANGED <<operatorToken, registry, connects, refreshDisabled, asked, shown, lookups, wanted, calls, panelVars>>

--------------------------------------------------------------------------------
\* The vendor's catalog.

vendorCatalog(m) ==
    /\ calls < MaxCalls
    /\ lookups' = Superseded(lookups) \cup {[merchant |-> m, current |-> TRUE]}
    /\ asked' = m /\ shown' = None /\ calls' = calls + 1
    /\ UNCHANGED <<operatorToken, registry, connects, refreshDisabled, applying, wanted, panelVars>>

\* Mutant: the last answer to arrive is shown.
X_CatalogAnswer(l) ==
    /\ l \in lookups /\ lookups' = lookups \ {l}
    /\ shown' \in {shown, l.merchant}
    /\ UNCHANGED <<operatorToken, registry, connects, refreshDisabled, applying, asked, wanted, calls, panelVars>>

\* Its answer, or its failure.
CatalogAnswer(l) ==
    /\ l \in lookups /\ lookups' = lookups \ {l}
    /\ shown' \in {shown, IF l.current THEN l.merchant ELSE shown}
    /\ UNCHANGED <<operatorToken, registry, connects, refreshDisabled, applying, asked, wanted, calls, panelVars>>

--------------------------------------------------------------------------------
\* The environment panel.

\* Mutant: an observation does not age.
X_StaleAt(o, t, on) == o.stale \/ ~on

StaleAt(o, t, on) == o.stale \/ ~on \/ t - o.time > Minute

\* render: what the badge says, and when it is to be rendered again.
render ==
    LET stale == observation' # None => StaleAt(observation', now', online')
    IN  /\ badge' = IF ~online' THEN "offline"
                    ELSE IF observation' = None THEN "none"
                    ELSE IF stale THEN "stale" ELSE observation'.label
        /\ expiry' = IF observation' # None /\ ~stale THEN observation'.time + Minute + 1 ELSE None

Aborted(set, gen) == {IF c.gen = gen THEN [c EXCEPT !.aborted = TRUE] ELSE c : c \in set}

\* The refresh button: one check at a time.
refreshEnvironment ==
    /\ controller = None /\ online /\ visible /\ generation < MaxChecks
    /\ generation' = generation + 1 /\ controller' = generation + 1
    /\ checks' = checks \cup {[gen |-> generation + 1, aborted |-> FALSE, reply |-> None, since |-> now]}
    /\ observation' = None
    /\ UNCHANGED <<now, online, visible, release, history, passedAt, events, linkVars>>
    /\ render

\* /readyz answers.
Answer(c) ==
    /\ c \in checks /\ c.reply = None /\ ~c.aborted
    /\ checks' = (checks \ {c}) \cup {[c EXCEPT !.reply = release]}
    /\ passedAt' = IF release = "ready" THEN now ELSE passedAt
    /\ UNCHANGED <<now, online, visible, release, generation, controller, observation, badge,
                   expiry, history, events, linkVars>>

\* The verdict on the answer: read in full, not aborted, of this page's
\* contract, release, lane and version.
labelOf(c) == IF c.aborted \/ c.reply \in {None, "other"} THEN "unknown"
              ELSE IF c.reply = "unready" THEN "unavailable" ELSE "passed"

\* Mutant: the history is not cut.
X_Kept(h) == h

Kept(h) == IF Len(h) <= HistoryLimit THEN h ELSE SubSeq(h, 1, HistoryLimit)

Current(c) == c.gen = generation

\* A check ends: answered, aborted, or failed; superseded ones say nothing.
CheckEnds(c) ==
    /\ c \in checks
    /\ checks' = checks \ {c}
    /\ IF Current(c)
       THEN /\ controller' = None
            /\ observation' = [time |-> now, label |-> labelOf(c), stale |-> FALSE]
            /\ history' = Kept(<<labelOf(c)>> \o history)
            /\ UNCHANGED <<now, online, visible, release, generation, passedAt, events, linkVars>>
            /\ render
       ELSE UNCHANGED <<controller, observation, history, badge, expiry, now, online, visible,
                        release, generation, passedAt, events, linkVars>>

\* The cancel button, or the five seconds are over.
cancelCheck ==
    /\ controller # None /\ visible
    /\ checks' = Aborted(checks, controller) /\ checks' # checks
    /\ UNCHANGED <<now, online, visible, release, generation, controller, observation, badge,
                   expiry, history, passedAt, events, linkVars>>

\* Mutant: going offline leaves the observation as it is.
X_Offline ==
    /\ online /\ visible /\ events < MaxEvents /\ events' = events + 1
    /\ online' = FALSE
    /\ checks' = Aborted(checks, controller)
    /\ UNCHANGED <<now, visible, release, generation, controller, history, passedAt, observation, linkVars>>
    /\ render

Offline ==
    /\ online /\ visible /\ events < MaxEvents /\ events' = events + 1
    /\ online' = FALSE
    /\ observation' = IF observation = None THEN None ELSE [observation EXCEPT !.stale = TRUE]
    /\ checks' = Aborted(checks, controller)
    /\ UNCHANGED <<now, visible, release, generation, controller, history, passedAt, linkVars>>
    /\ render

\* online, focus and the expiry timer render again.
Rerender ==
    /\ visible
    /\ \/ ~online /\ online' = TRUE
       \/ expiry # None /\ expiry <= now /\ UNCHANGED online
    /\ UNCHANGED <<now, visible, release, generation, controller, checks, observation, history,
                   passedAt, events, linkVars>>
    /\ render

\* Mutant: the panel still waits for the check that was given up.
X_pagehide ==
    /\ visible /\ events < MaxEvents /\ events' = events + 1
    /\ visible' = FALSE /\ generation' = generation + 1 /\ expiry' = None
    /\ checks' = Aborted(checks, controller)
    /\ UNCHANGED <<now, online, release, controller, observation, badge, history, passedAt, linkVars>>

\* pagehide: the check is given up.
pagehide ==
    /\ visible /\ events < MaxEvents /\ events' = events + 1
    /\ visible' = FALSE /\ generation' = generation + 1 /\ controller' = None /\ expiry' = None
    /\ checks' = Aborted(checks, controller)
    /\ UNCHANGED <<now, online, release, observation, badge, history, passedAt, linkVars>>

pageshow ==
    /\ ~visible /\ visible' = TRUE
    /\ UNCHANGED <<now, online, release, generation, controller, checks, observation, history,
                   passedAt, events, linkVars>>
    /\ render

\* Another release is served, or the release becomes unready.
Rollout ==
    /\ events < MaxEvents /\ events' = events + 1
    /\ release' \in {"ready", "unready", "other"} \ {release}
    /\ UNCHANGED <<now, online, visible, generation, controller, checks, observation, badge,
                   expiry, history, passedAt, linkVars>>

\* The timers of a page on screen are prompt.
Tick ==
    /\ now < MaxTime
    /\ visible => /\ expiry # None => now < expiry
                  /\ \A c \in checks : c.since = now /\ ~c.aborted
    /\ now' = now + 1
    /\ UNCHANGED <<online, visible, release, generation, controller, checks, observation, badge,
                   expiry, history, passedAt, events, linkVars>>

Next ==
    \/ Disconnect \/ registryRefresh \/ Publishing
    \/ \E k \in Credentials : connect(k)
    \/ \E c \in connects : ConnectAnswer(c) \/ RefreshAnswer(c)
    \/ \E m \in Merchants : vendorCatalog(m)
    \/ \E l \in lookups : CatalogAnswer(l)
    \/ refreshEnvironment \/ cancelCheck \/ Offline \/ Rerender \/ pagehide \/ pageshow
    \/ \E c \in checks : Answer(c) \/ CheckEnds(c)
    \/ Rollout \/ Tick

\* A fetch ends at the latest when it is aborted, which its timer does.
Fairness == WF_vars(cancelCheck) /\ WF_vars(pageshow)
            /\ WF_vars(\E c \in checks : c.aborted /\ CheckEnds(c))

Spec == Init /\ [][Next]_vars /\ Fairness

--------------------------------------------------------------------------------
Labels == {"unknown", "unavailable", "passed"}

\* Types; the history never outgrows its limit.
TypeOK ==
    /\ operatorToken \in Credentials \cup {None} /\ registry \in Credentials \cup {None}
    /\ controller \in (1..generation) \cup {None}
    /\ badge \in Labels \cup {"none", "stale", "offline"}
    /\ Len(history) <= HistoryLimit

\* The page holds a credential only while the operator, who may have
\* disconnected or typed another one before the answer came, wants that one.
CredentialIsWanted == operatorToken # None => operatorToken = wanted

\* The agents listed were read with the credential the page now holds, in
\* whichever order the reads of this and of earlier connections ended.
RegistryIsOwn == registry # None => registry = operatorToken

\* The catalog shown is of the store asked for last.
CatalogIsAsked == shown # None => shown = asked

\* "Checks passed" on screen means that this page's release did answer so,
\* within the last minute and one check's time.
PassedIsFresh ==
    visible /\ badge = "passed" => passedAt # None /\ now <= passedAt + Minute + 2

\* Once the page was offline, nothing but a new check makes it say so again.
OfflineForgets ==
    [][badge # "passed" /\ badge' = "passed"
        => \/ controller # None /\ controller' = None
           \/ ~visible /\ visible']_vars

\* A check always gives its button back.
CheckReturns == controller # None ~> controller = None

================================================================================
