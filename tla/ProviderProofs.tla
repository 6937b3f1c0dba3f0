---------------------------- MODULE ProviderProofs ----------------------------
(***************************************************************************)
(* The providers the core asks before it acts: the admission provider,     *)
(* the gate of the marketplace provider, and the probe of the listing host *)
(* (the last two as instances).                                            *)
(*                                                                         *)
(* Admission: AdmissionInv is inductive.  The views an isolate has read    *)
(* are ordered by what the store went through, so a projection is always   *)
(* one of them and never goes back.  What the core concludes needs RoomInv *)
(* too, which is inductive as long as the journal has room: an answer that *)
(* completes a reservation then is one that no later step makes untrue.    *)
(***************************************************************************)
EXTENDS AdmissionProvider, TLAPS, FiniteSetTheorems

\* The agents of view s that hold an entry, and the views that agree with
\* what a stored snapshot can be.
Holds(s, a, e) == s[a] # None /\ entry[s[a]] = e

\* A view that a snapshot of the store can be.
GoodView(s) ==
  /\ s \in Views
  /\ \A a \in Agents : s[a] # None => agent[s[a]] = a
  /\ \A a, b \in Agents : (s[a] # None /\ s[b] # None /\ entry[s[a]] = entry[s[b]]) =>
                            content[s[a]] = content[s[b]]
  /\ IsFiniteSet(Used(ProjectionOf(s)))
  /\ Cardinality(Used(ProjectionOf(s))) <= MAX_COMMERCE_REGISTRATIONS

\* View r shows for every agent of s the same permit or a later one.
Reaches(s, r) == \A a \in Agents : s[a] # None => r[a] # None /\ ~Newer(s[a], r[a])

\* View s has p or a later registration of p's agent.
Covers(s, p) == s[agent[p]] # None /\ ~Newer(p, s[agent[p]])

\* The entries are those of s, without the agents that are left.
Partial(s, left, entries) ==
  /\ \A a \in Agents \ left : s[a] # None => entries[entry[s[a]]] = content[s[a]]
  /\ \A e \in Entries : entries[e] # None => \E a \in Agents \ left : Holds(s, a, e)

\* The durable object: one registration per agent, each with its entry, no
\* entry without one, and the fence at the newest permit.
StoreInv ==
  /\ \A a \in Agents : registration[a] # None =>
       /\ agent[registration[a]] = a /\ registration[a] \in registered
       /\ owner[entry[registration[a]]] = content[registration[a]]
  /\ \A e \in Entries : owner[e] # None => \E a \in Agents : Holds(registration, a, e)
  /\ IsFiniteSet(Used(owner)) /\ Cardinality(Used(owner)) <= MAX_COMMERCE_REGISTRATIONS
  /\ fence = None => registered = {}
  /\ Retained \subseteq registered
  /\ \A p \in registered : ~Newer(p, fence) /\ Covers(registration, p)

\* Who waits for a rehydration waits there, once.
QueueInv(w) ==
  LET queue == isolate[w].queue IN
  /\ \A i \in 1..Len(queue) : /\ attempt[queue[i]].pc \in {"before", "after", "probe"}
                              /\ attempt[queue[i]].at = w
  /\ \A i, j \in 1..Len(queue) : queue[i] = queue[j] => i = j

\* What an isolate has read was so, and the store has only moved on.
ViewInv(w) ==
  LET revision == isolate[w].revision
      snapshot == isolate[w].snapshot
  IN
  /\ revision # None => GoodView(revision) /\ Reaches(revision, registration)
  /\ snapshot # None => GoodView(snapshot) /\ Reaches(snapshot, registration)
  /\ revision # None /\ snapshot # None => Reaches(revision, snapshot)

\* The entries an isolate serves, and those of a rehydration half way.
ProjectionInv(w) ==
  LET i == isolate[w] IN
  /\ i.rehydrated => i.revision # None /\ i.snapshot = None /\ i.entries = ProjectionOf(i.revision)
  /\ i.snapshot # None => /\ i.queue # <<>> /\ i.left \subseteq Used(i.snapshot)
                          /\ Partial(i.snapshot, i.left, i.entries)

\* The stages of an attempt that has not been answered.
Path == {"before", "preflight", "commit", "committed", "after"}

\* What an attempt may rely on at its stage.
AttemptInv(a) ==
  LET t == attempt[a] IN
  /\ t.pc \in Path => t.permit \in Permits /\ t.at \in Isolates
  /\ t.pc = "probe" => t.at \in Isolates
  /\ t.pc \in {"committed", "after"} => t.permit \in registered
  /\ t.pc = "after" /\ Busy(t.at) /\ Running(t.at) = a => Covers(isolate[t.at].snapshot, t.permit)
  /\ t.pc = "answered" /\ t.code = "registered" =>
       /\ t.permit \in registered /\ t.at \in Isolates /\ isolate[t.at].revision # None
       /\ Covers(isolate[t.at].revision, t.permit)

\* The inductive invariant.
AdmissionInv ==
  /\ TypeOK /\ StoreInv
  /\ \A w \in Isolates : QueueInv(w) /\ ViewInv(w) /\ ProjectionInv(w)
  /\ \A a \in Attempts : AttemptInv(a)
  /\ \A p \in Permits : settled[p] = "registered" => p \in registered

\* The journal has an outcome of every permit, or room for one.
HasRoom == JournalFull => Permits \subseteq Retained

\* The permits issued before p are settled or their leases are over.
EarlierClosed(p) ==
  \A q \in Permits : Newer(p, q) => settled[q] # "open" \/ LeaseExpired(q)

\* Why a permit is refused for good, and when one can still be stored.
Flawed(p) == ~BodyReadable(p) \/ ~BodyWellFormed(p) \/ ~PermitMatches(p)
Storable(p) == p \notin registered /\ ~LeaseExpired(p) /\ ~StalePermit(p)
Admits(p, entries) ==
  /\ entries[entry[p]] \in {None, content[p]}
  /\ entries[entry[p]] = None => ~(Cardinality(Used(entries)) >= MAX_COMMERCE_REGISTRATIONS)
Barred(p) == Flawed(p) \/ Decision(p) # "registered" \/ ~Admits(p, ProjectionOf(registration))
Stored(p) == registration[agent[p]] = p
Rejected(p) == (Storable(p) => Barred(p)) /\ ~Stored(p)

\* What an attempt has read tells what the store will say of its permit.
PathInv(a) ==
  LET t == attempt[a]
      p == t.permit
      i == isolate[t.at]
  IN
  /\ t.permit # None => EarlierClosed(p)
  /\ t.pc \in Path => ~Flawed(p)
  /\ t.pc = "before" /\ Busy(t.at) /\ Running(t.at) = a =>
       /\ Storable(p) => i.snapshot = registration
       /\ Stored(p) => Admits(p, ProjectionOf(i.snapshot))
  /\ t.pc = "preflight" =>
       /\ Storable(p) => /\ i.revision = registration /\ i.entries = ProjectionOf(registration)
                         /\ i.snapshot # None => i.snapshot = registration /\ i.left = {}
       /\ Stored(p) => /\ Admits(p, i.entries)
                       /\ i.snapshot # None => i.left = {} \/ i.snapshot[agent[p]] = p
  /\ t.pc = "commit" /\ Storable(p) => Admits(p, ProjectionOf(registration))
  /\ t.pc = "answered" /\ t.permit # None /\ t.code \in TerminalRejections => Rejected(p)

\* The inductive invariant while the journal has room: a rejection that ends a
\* reservation stays true.
RoomInv ==
  /\ registered = Retained /\ \A p \in registered : ~Flawed(p)
  /\ \A a \in Attempts : PathInv(a)
  /\ \A p \in Permits : /\ settled[p] # "open" => EarlierClosed(p)
                        /\ settled[p] = "rejected" => Rejected(p)
-----------------------------------------------------------------------------
\* The order in which permits are issued.
LEMMA NewerOrder ==
  ASSUME AdmissionAssumption, NEW p \in Permits, NEW q \in Permits, NEW r \in Permits
  PROVE  /\ ~Newer(p, p)
         /\ Newer(p, q) => ~Newer(q, p)
         /\ ~Newer(p, q) /\ ~Newer(q, r) => ~Newer(p, r)
         /\ ~Newer(p, q) /\ Newer(r, q) => ~Newer(p, r)
<1>1. /\ epoch[p] \in Nat /\ epoch[q] \in Nat /\ epoch[r] \in Nat
      /\ sequenceNo[p] \in Nat /\ sequenceNo[q] \in Nat /\ sequenceNo[r] \in Nat
  BY DEF AdmissionAssumption
<1> QED BY <1>1 DEF Newer

\* A permit is stale when it is not newer than the fence.
LEMMA StaleIsNotNewer ==
  ASSUME AdmissionAssumption, NEW p \in Permits, NEW q \in Permits
  PROVE  ~(epoch[p] < epoch[q] \/ (epoch[p] = epoch[q] /\ sequenceNo[p] <= sequenceNo[q]))
           <=> Newer(p, q)
<1>1. /\ epoch[p] \in Nat /\ epoch[q] \in Nat /\ sequenceNo[p] \in Nat /\ sequenceNo[q] \in Nat
  BY DEF AdmissionAssumption
<1> QED BY <1>1 DEF Newer

\* One view reaches the next along a history.
LEMMA ReachesFurther ==
  ASSUME AdmissionAssumption, NEW s \in Views, NEW r \in Views, NEW v \in Views,
         Reaches(s, r), Reaches(r, v)
  PROVE  Reaches(s, v)
<1> SUFFICES ASSUME NEW a \in Agents, s[a] # None
             PROVE  v[a] # None /\ ~Newer(s[a], v[a])
  BY DEF Reaches
<1>1. s[a] \in Permits BY DEF Views
<1>2. r[a] \in Permits /\ ~Newer(s[a], r[a]) BY DEF Reaches, Views
<1>3. v[a] \in Permits /\ ~Newer(r[a], v[a]) BY <1>2 DEF Reaches, Views, AdmissionAssumption
<1> QED BY <1>1, <1>2, <1>3, NewerOrder DEF AdmissionAssumption

\* A view reaches itself.
LEMMA ReachesItself ==
  ASSUME AdmissionAssumption, NEW s \in Views
  PROVE  Reaches(s, s)
BY NewerOrder DEF Reaches, Views

\* What a view covers, the views it reaches cover.
LEMMA CoversFurther ==
  ASSUME AdmissionAssumption, NEW s \in Views, NEW r \in Views, NEW p \in Permits,
         Reaches(s, r), Covers(s, p)
  PROVE  Covers(r, p)
<1>1. agent[p] \in Agents BY DEF AdmissionAssumption
<1>2. s[agent[p]] \in Permits /\ r[agent[p]] \in Permits /\ r[agent[p]] # None
  BY <1>1 DEF Covers, Views, Reaches
<1> QED BY <1>1, <1>2, NewerOrder DEF Covers, Reaches

\* What the allowlist of a view shows.
LEMMA ProjectionShows ==
  ASSUME AdmissionAssumption, NEW s \in Views,
         \A a, b \in Agents : (s[a] # None /\ s[b] # None /\ entry[s[a]] = entry[s[b]]) =>
                                content[s[a]] = content[s[b]]
  PROVE  /\ \A a \in Agents : s[a] # None => ProjectionOf(s)[entry[s[a]]] = content[s[a]]
         /\ \A e \in Entries : ProjectionOf(s)[e] # None <=> \E a \in Agents : Holds(s, a, e)
         /\ ProjectionOf(s) \in [Entries -> Contents \cup {None}]
<1> DEFINE holders(e) == {a \in Agents : s[a] # None /\ entry[s[a]] = e}
           shown(e) == IF holders(e) = {} THEN None ELSE content[s[CHOOSE a \in holders(e) : TRUE]]
<1>1. ProjectionOf(s) = [e \in Entries |-> shown(e)] BY DEF ProjectionOf
<1>2. \A a \in Agents : s[a] # None =>
        s[a] \in Permits /\ entry[s[a]] \in Entries /\ content[s[a]] # None /\ content[s[a]] \in Contents
  BY DEF Views, AdmissionAssumption, Contents
<1>3. \A e \in Entries : holders(e) # {} =>
        (CHOOSE a \in holders(e) : TRUE) \in holders(e)
  OBVIOUS
<1> HIDE DEF holders
<1>4. \A e \in Entries : shown(e) = None <=> holders(e) = {}
  BY <1>2, <1>3 DEF holders
<1>5. \A a \in Agents : s[a] # None => a \in holders(entry[s[a]])
  BY DEF holders
<1>6. \A a \in Agents : s[a] # None => shown(entry[s[a]]) = content[s[a]]
  <2> SUFFICES ASSUME NEW a \in Agents, s[a] # None PROVE shown(entry[s[a]]) = content[s[a]]
    OBVIOUS
  <2> DEFINE b == CHOOSE x \in holders(entry[s[a]]) : TRUE
  <2>1. b \in holders(entry[s[a]]) BY <1>2, <1>3, <1>5
  <2>2. b \in Agents /\ s[b] # None /\ entry[s[b]] = entry[s[a]] BY <2>1 DEF holders
  <2>3. content[s[b]] = content[s[a]] BY <2>2
  <2> QED BY <2>3, <1>5
<1>7. \A e \in Entries : shown(e) \in Contents \cup {None}
  BY <1>2, <1>3 DEF holders
<1> HIDE DEF shown
<1> QED
  <2>1. \A a \in Agents : s[a] # None => ProjectionOf(s)[entry[s[a]]] = content[s[a]]
    BY <1>1, <1>2, <1>6
  <2>2. \A e \in Entries : ProjectionOf(s)[e] # None <=> \E a \in Agents : Holds(s, a, e)
    BY <1>1, <1>4 DEF holders, Holds
  <2>3. ProjectionOf(s) \in [Entries -> Contents \cup {None}]
    BY <1>1, <1>7
  <2> QED BY <2>1, <2>2, <2>3

\* A projection to which nothing is left is whole, and one on the way shows
\* nothing else.
LEMMA PartialShows ==
  ASSUME AdmissionAssumption, NEW s, GoodView(s), NEW left \in SUBSET Agents,
         NEW entries \in [Entries -> Contents \cup {None}], Partial(s, left, entries)
  PROVE  /\ left = {} => entries = ProjectionOf(s)
         /\ \A e \in Entries : entries[e] \in {None, ProjectionOf(s)[e]}
<1>1. /\ \A a \in Agents : s[a] # None => ProjectionOf(s)[entry[s[a]]] = content[s[a]]
      /\ \A e \in Entries : ProjectionOf(s)[e] # None <=> \E a \in Agents : Holds(s, a, e)
      /\ ProjectionOf(s) \in [Entries -> Contents \cup {None}]
  BY ProjectionShows DEF GoodView
<1>2. \A e \in Entries : entries[e] \in {None, ProjectionOf(s)[e]}
  <2> SUFFICES ASSUME NEW e \in Entries, entries[e] # None PROVE entries[e] = ProjectionOf(s)[e]
    OBVIOUS
  <2>1. PICK a \in Agents \ left : Holds(s, a, e) BY DEF Partial
  <2>2. entries[e] = content[s[a]] BY <2>1 DEF Partial, Holds
  <2> QED BY <1>1, <2>1, <2>2 DEF Holds
<1>3. ASSUME left = {} PROVE entries = ProjectionOf(s)
  <2>1. \A e \in Entries : ProjectionOf(s)[e] # None => entries[e] # None
    <3> SUFFICES ASSUME NEW e \in Entries, ProjectionOf(s)[e] # None PROVE entries[e] # None
      OBVIOUS
    <3>1. PICK a \in Agents : Holds(s, a, e) BY <1>1
    <3>2. entries[e] = content[s[a]] BY <1>3, <3>1 DEF Partial, Holds
    <3> QED BY <1>1, <3>1, <3>2 DEF Holds
  <2>2. \A e \in Entries : entries[e] = ProjectionOf(s)[e] BY <1>2, <2>1
  <2> QED BY <1>1, <2>2
<1> QED BY <1>2, <1>3

\* A permit that a snapshot holds passes the checks on its projection, whole
\* or on the way.
LEMMA HeldIsAdmitted ==
  ASSUME AdmissionAssumption, NEW s, GoodView(s), NEW left \in SUBSET Agents,
         NEW entries \in [Entries -> Contents \cup {None}], Partial(s, left, entries),
         NEW p \in Permits, s[agent[p]] = p
  PROVE  Admits(p, entries)
<1>1. agent[p] \in Agents /\ entry[p] \in Entries /\ content[p] # None /\ p # None
      /\ MAX_COMMERCE_REGISTRATIONS \in Nat
  BY DEF AdmissionAssumption
<1>2. ProjectionOf(s)[entry[p]] = content[p]
  BY <1>1, ProjectionShows DEF GoodView
<1>3. \A e \in Entries : entries[e] \in {None, ProjectionOf(s)[e]} BY PartialShows
<1>4. ASSUME entries[entry[p]] = None
      PROVE  ~(Cardinality(Used(entries)) >= MAX_COMMERCE_REGISTRATIONS)
  <2> DEFINE whole == Used(ProjectionOf(s))
  <2>1. DOMAIN entries = Entries /\ DOMAIN ProjectionOf(s) = Entries BY DEF ProjectionOf
  <2>2. Used(entries) \subseteq whole \ {entry[p]} BY <1>3, <1>4, <2>1 DEF Used
  <2>3. entry[p] \in whole BY <1>1, <1>2, <2>1 DEF Used
  <2>4. IsFiniteSet(whole) /\ Cardinality(whole) <= MAX_COMMERCE_REGISTRATIONS BY DEF GoodView
  <2> HIDE DEF whole
  <2>5. IsFiniteSet(whole \ {entry[p]}) /\ Cardinality(whole \ {entry[p]}) = Cardinality(whole) - 1
    BY <2>3, <2>4, FS_RemoveElement
  <2>6. Cardinality(Used(entries)) <= Cardinality(whole \ {entry[p]})
    BY <2>2, <2>5, FS_Subset
  <2>7. Cardinality(whole) \in Nat /\ Cardinality(Used(entries)) \in Nat
    BY <2>2, <2>4, <2>5, FS_CardinalityType, FS_Subset
  <2> QED BY <1>1, <2>4, <2>5, <2>6, <2>7
<1> QED BY <1>1, <1>2, <1>3, <1>4 DEF Admits
-----------------------------------------------------------------------------
\* What commerceAdmissionRegister has checked when it stores a permit.
LEMMA StoredDecision ==
  ASSUME NEW p \in Permits, Decision(p) = "registered", p \notin Retained
  PROVE  /\ ~LeaseExpired(p) /\ ~StalePermit(p) /\ ~OutcomeCapacity
         /\ owner[entry[p]] \in {None, content[p]}
         /\ ~(Cardinality(Used(OwnersAfter(p))) > MAX_COMMERCE_REGISTRATIONS)
BY DEF Decision

\* The allowlist owners after a registration.
LEMMA OwnersFollow ==
  ASSUME AdmissionAssumption, TypeOK, StoreInv, NEW p \in Permits,
         owner[entry[p]] \in {None, content[p]}
  PROVE  /\ OwnersAfter(p) \in [Entries -> Contents \cup {None}]
         /\ RegistrationsAfter(p) \in Views
         /\ \A a \in Agents : RegistrationsAfter(p)[a] # None =>
              OwnersAfter(p)[entry[RegistrationsAfter(p)[a]]] = content[RegistrationsAfter(p)[a]]
         /\ \A e \in Entries : OwnersAfter(p)[e] # None =>
              \E a \in Agents : Holds(RegistrationsAfter(p), a, e)
         /\ IsFiniteSet(Used(OwnersAfter(p)))
<1> DEFINE R == RegistrationsAfter(p)
           O == OwnersAfter(p)
<1>1. agent[p] \in Agents /\ entry[p] \in Entries /\ content[p] # None /\ p # None
      /\ content[p] \in Contents
  BY DEF AdmissionAssumption, Contents
<1>2. /\ R \in Views /\ R[agent[p]] = p
      /\ \A a \in Agents \ {agent[p]} : R[a] = registration[a]
  BY <1>1 DEF RegistrationsAfter, Views, TypeOK
<1>3. \A e \in Entries : O[e] = CASE e \in RetiredEntries(p) -> None
                                  [] e = entry[p] -> content[p]
                                  [] OTHER -> owner[e]
  BY DEF OwnersAfter
<1>4. entry[p] \notin RetiredEntries(p) BY DEF RetiredEntries
<1>5. O[entry[p]] = content[p] BY <1>1, <1>3, <1>4
<1>6. O \in [Entries -> Contents \cup {None}]
  <2>1. \A e \in Entries : O[e] \in Contents \cup {None} BY <1>1, <1>3 DEF TypeOK
  <2>2. O = [e \in Entries |-> O[e]] BY DEF OwnersAfter
  <2> HIDE DEF O
  <2> QED BY <2>1, <2>2
<1>7. ASSUME NEW a \in Agents, R[a] # None PROVE O[entry[R[a]]] = content[R[a]]
  <2>1. CASE a = agent[p] BY <2>1, <1>2, <1>5
  <2>2. CASE a # agent[p]
    <3>1. R[a] = registration[a] /\ registration[a] # None BY <2>2, <1>2, <1>7
    <3>2. registration[a] \in Permits /\ entry[registration[a]] \in Entries
          /\ owner[entry[registration[a]]] = content[registration[a]]
          /\ content[registration[a]] # None
      BY <3>1 DEF TypeOK, Views, StoreInv, AdmissionAssumption
    <3>3. entry[registration[a]] \notin RetiredEntries(p) BY <3>1, <2>2 DEF RetiredEntries
    <3>4. CASE entry[registration[a]] = entry[p]
      BY <3>1, <3>2, <3>4, <1>5
    <3>5. CASE entry[registration[a]] # entry[p]
      BY <3>1, <3>2, <3>3, <3>5, <1>3
    <3> QED BY <3>4, <3>5
  <2> QED BY <2>1, <2>2
<1>8. ASSUME NEW e \in Entries, O[e] # None PROVE \E a \in Agents : Holds(R, a, e)
  <2>1. CASE e = entry[p]
    BY <2>1, <1>1, <1>2 DEF Holds
  <2>2. CASE e # entry[p]
    <3>1. e \notin RetiredEntries(p) /\ owner[e] # None BY <2>2, <1>3, <1>8
    <3>2. PICK a \in Agents : Holds(registration, a, e) BY <3>1 DEF StoreInv
    <3>3. CASE a # agent[p]
      BY <3>2, <3>3, <1>2 DEF Holds
    <3>4. CASE a = agent[p]
      <4>1. PICK b \in Agents \ {agent[p]} : registration[b] # None /\ entry[registration[b]] = e
        BY <2>2, <3>1, <3>2, <3>4 DEF RetiredEntries, Holds
      <4> QED BY <4>1, <1>2 DEF Holds
    <3> QED BY <3>3, <3>4
  <2> QED BY <2>1, <2>2
<1>9. IsFiniteSet(Used(O))
  <2>1. DOMAIN O = Entries /\ DOMAIN owner = Entries BY <1>6 DEF TypeOK
  <2>2. Used(O) \subseteq Used(owner) \cup {entry[p]} BY <1>3, <2>1 DEF Used
  <2>3. IsFiniteSet(Used(owner) \cup {entry[p]}) BY FS_AddElement DEF StoreInv
  <2> QED BY <2>2, <2>3, FS_Subset
<1> QED BY <1>2, <1>6, <1>7, <1>8, <1>9

\* The durable object keeps what it promises, and its registrations only go
\* forward.
LEMMA StoreKeeps ==
  ASSUME AdmissionAssumption, TypeOK, StoreInv, NEW p \in Permits,
         Store(p) \/ UNCHANGED store
  PROVE  /\ registration' \in Views /\ owner' \in [Entries -> Contents \cup {None}]
         /\ fence' \in Permits \cup {None} /\ outcomes' \in Seq(Permits)
         /\ registered' \in SUBSET Permits /\ registered \subseteq registered'
         /\ StoreInv' /\ Reaches(registration, registration')
         /\ Store(p) /\ Decision(p) = "registered" => p \in registered'
<1>0. registration \in Views /\ registered \in SUBSET Permits /\ outcomes \in Seq(Permits)
      /\ fence \in Permits \cup {None}
  BY DEF TypeOK
<1>1. CASE UNCHANGED store
  <2>1. StoreInv' BY <1>1 DEF store, StoreInv, Holds, Used, Covers, Newer, Retained
  <2>2. Decision(p) = "registered" /\ Store(p) => p \in registered'
    BY <1>1 DEF store, Store, StoreInv
  <2> QED BY <1>0, <1>1, <2>1, <2>2, ReachesItself DEF store, TypeOK
<1>2. CASE Store(p) /\ ~UNCHANGED store
  <2>1. /\ Decision(p) = "registered" /\ p \notin Retained
        /\ registration' = RegistrationsAfter(p) /\ owner' = OwnersAfter(p) /\ fence' = p
        /\ outcomes' = Append(IF JournalFull THEN Tail(outcomes) ELSE outcomes, p)
        /\ registered' = registered \cup {p}
    BY <1>2 DEF Store
  <2>2. /\ ~StalePermit(p) /\ owner[entry[p]] \in {None, content[p]}
        /\ ~(Cardinality(Used(OwnersAfter(p))) > MAX_COMMERCE_REGISTRATIONS)
    BY <2>1, StoredDecision
  <2>3. agent[p] \in Agents /\ entry[p] \in Entries /\ p # None
    BY DEF AdmissionAssumption
  <2>4. registration'[agent[p]] = p /\ \A a \in Agents \ {agent[p]} : registration'[a] = registration[a]
    BY <2>1, <2>3, <1>0 DEF RegistrationsAfter, Views
  <2>5. ASSUME NEW q \in registered PROVE ~Newer(q, p)
    <3>1. q \in Permits /\ fence \in Permits /\ ~Newer(q, fence) BY <2>5, <1>0 DEF StoreInv
    <3>2. Newer(p, fence)
      BY <2>2, <3>1, StaleIsNotNewer DEF StalePermit, AdmissionAssumption
    <3> QED BY <3>1, <3>2, NewerOrder
  <2>6. Reaches(registration, registration')
    <3> SUFFICES ASSUME NEW a \in Agents, registration[a] # None
                 PROVE  registration'[a] # None /\ ~Newer(registration[a], registration'[a])
      BY DEF Reaches
    <3>1. registration[a] \in registered /\ registration[a] \in Permits
      BY <1>0 DEF StoreInv, Views
    <3>2. CASE a = agent[p] BY <3>1, <3>2, <2>3, <2>4, <2>5
    <3>3. CASE a # agent[p] BY <3>1, <3>3, <2>4, NewerOrder
    <3> QED BY <3>2, <3>3
  <2>7. outcomes' \in Seq(Permits) /\ Retained' \subseteq Retained \cup {p}
    <3> DEFINE o == IF JournalFull THEN Tail(outcomes) ELSE outcomes
    <3>1. JournalFull => outcomes # <<>>
      BY <1>0 DEF JournalFull, AdmissionAssumption
    <3>2. o \in Seq(Permits) /\ \A i \in 1..Len(o) : o[i] \in Retained
      BY <1>0, <3>1 DEF Retained
    <3> HIDE DEF o
    <3>3. outcomes' = Append(o, p) BY <2>1 DEF o
    <3> QED BY <3>2, <3>3 DEF Retained
  <2>8. registration' \in Views /\ owner' \in [Entries -> Contents \cup {None}]
    BY <2>1, <2>2, OwnersFollow
  <2>9. StoreInv'
    <3>1. \A a \in Agents : registration'[a] # None =>
            /\ agent[registration'[a]] = a /\ registration'[a] \in registered'
            /\ owner'[entry[registration'[a]]] = content[registration'[a]]
      <4> SUFFICES ASSUME NEW a \in Agents, registration'[a] # None
                   PROVE  agent[registration'[a]] = a /\ registration'[a] \in registered'
        BY <2>1, <2>2, OwnersFollow
      <4>1. CASE a = agent[p] BY <4>1, <2>1, <2>4
      <4>2. CASE a # agent[p] BY <4>2, <2>1, <2>4 DEF StoreInv
      <4> QED BY <4>1, <4>2
    <3>2. \A e \in Entries : owner'[e] # None => \E a \in Agents : Holds(registration', a, e)
      BY <2>1, <2>2, OwnersFollow
    <3>3. IsFiniteSet(Used(owner')) /\ Cardinality(Used(owner')) <= MAX_COMMERCE_REGISTRATIONS
      <4>1. IsFiniteSet(Used(owner')) BY <2>1, <2>2, OwnersFollow
      <4>2. Cardinality(Used(owner')) \in Nat /\ MAX_COMMERCE_REGISTRATIONS \in Nat
        BY <4>1, FS_CardinalityType DEF AdmissionAssumption
      <4> QED BY <4>1, <4>2, <2>1, <2>2
    <3>4. ASSUME NEW q \in registered' PROVE ~Newer(q, fence') /\ Covers(registration', q)
      <4>1. CASE q = p
        BY <4>1, <2>1, <2>3, <2>4, NewerOrder DEF Covers
      <4>2. CASE q \in registered
        <5>1. Covers(registration, q) /\ q \in Permits BY <4>2, <1>0 DEF StoreInv
        <5>2. Covers(registration', q) BY <5>1, <1>0, <2>6, <2>8, CoversFurther
        <5> QED BY <4>2, <5>2, <2>1, <2>5
      <4> QED BY <4>1, <4>2, <2>1
    <3>5. fence' # None /\ Retained' \subseteq registered'
      BY <2>1, <2>3, <2>7 DEF StoreInv
    <3> QED BY <3>1, <3>2, <3>3, <3>4, <3>5 DEF StoreInv, Holds, Covers, Newer, Used
  <2> QED BY <1>0, <2>1, <2>6, <2>7, <2>8, <2>9
<1> QED BY <1>1, <1>2

\* A snapshot of the store is a view the isolates can work with.
LEMMA SnapshotIsGood ==
  ASSUME AdmissionAssumption, TypeOK, StoreInv
  PROVE  GoodView(registration)
<1>1. registration \in Views /\ owner \in [Entries -> Contents \cup {None}] BY DEF TypeOK
<1>2. \A a, b \in Agents : (registration[a] # None /\ registration[b] # None
                            /\ entry[registration[a]] = entry[registration[b]]) =>
                              content[registration[a]] = content[registration[b]]
  BY DEF StoreInv
<1>3. Used(ProjectionOf(registration)) = Used(owner)
  <2>1. \A e \in Entries : ProjectionOf(registration)[e] # None <=> owner[e] # None
    <3> SUFFICES ASSUME NEW e \in Entries
                 PROVE (\E a \in Agents : Holds(registration, a, e)) <=> owner[e] # None
      BY <1>1, <1>2, ProjectionShows
    <3>1. ASSUME NEW a \in Agents, Holds(registration, a, e) PROVE owner[e] # None
      <4>1. registration[a] \in Permits /\ owner[e] = content[registration[a]]
        BY <3>1, <1>1 DEF StoreInv, Holds, Views
      <4> QED BY <4>1 DEF AdmissionAssumption
    <3> QED BY <3>1 DEF StoreInv
  <2>2. DOMAIN ProjectionOf(registration) = Entries /\ DOMAIN owner = Entries
    BY <1>1 DEF ProjectionOf
  <2> QED BY <2>1, <2>2 DEF Used
<1> QED BY <1>1, <1>2, <1>3 DEF GoodView, StoreInv
-----------------------------------------------------------------------------
\* The queues of the isolates.
LEMMA RunningIsQueued ==
  ASSUME TypeOK, NEW w \in Isolates, QueueInv(w), isolate[w].queue # <<>>
  PROVE  /\ Running(w) \in Attempts
         /\ attempt[Running(w)].pc \in {"before", "after", "probe"} /\ attempt[Running(w)].at = w
<1>1. isolate[w].queue \in Seq(Attempts) BY DEF TypeOK, IsolateRecords
<1>2. Running(w) = isolate[w].queue[1] /\ 1 \in 1..Len(isolate[w].queue) /\ Running(w) \in Attempts
  BY <1>1 DEF Running
<1> QED BY <1>2 DEF QueueInv

\* A step that leaves the queue of an isolate leaves its invariant.
LEMMA QueuesRest ==
  ASSUME TypeOK, NEW v \in Isolates, QueueInv(v), isolate'[v].queue = isolate[v].queue,
         \A a \in Attempts : attempt[a].pc \in {"before", "after", "probe"} /\ attempt[a].at = v =>
            attempt'[a].pc \in {"before", "after", "probe"} /\ attempt'[a].at = attempt[a].at
  PROVE  QueueInv(v)'
<1>1. isolate[v].queue \in Seq(Attempts) BY DEF TypeOK, IsolateRecords
<1>2. \A i \in 1..Len(isolate[v].queue) : isolate[v].queue[i] \in Attempts BY <1>1
<1> QED BY <1>2 DEF QueueInv

\* The first of the queue leaves it.
LEMMA QueueAdvances ==
  ASSUME TypeOK, NEW w \in Isolates, QueueInv(w), isolate[w].queue # <<>>,
         isolate'[w].queue = Tail(isolate[w].queue),
         \A a \in Attempts \ {Running(w)} : attempt'[a] = attempt[a]
  PROVE  QueueInv(w)'
<1> DEFINE q == isolate[w].queue
<1>1. q \in Seq(Attempts) BY DEF TypeOK, IsolateRecords
<1>2. Len(Tail(q)) = Len(q) - 1 /\ \A i \in 1..Len(Tail(q)) : Tail(q)[i] = q[i + 1] /\ i + 1 \in 1..Len(q)
  BY <1>1
<1>3. Running(w) = q[1] /\ 1 \in 1..Len(q) BY <1>1 DEF Running
<1>4. \A i \in 1..Len(Tail(q)) : Tail(q)[i] \in Attempts \ {Running(w)}
  BY <1>1, <1>2, <1>3 DEF QueueInv
<1>5. \A i \in 1..Len(Tail(q)) : /\ attempt'[Tail(q)[i]].pc \in {"before", "after", "probe"}
                                 /\ attempt'[Tail(q)[i]].at = w
  BY <1>2, <1>4 DEF QueueInv
<1>6. \A i, j \in 1..Len(Tail(q)) : Tail(q)[i] = Tail(q)[j] => i = j
  BY <1>2 DEF QueueInv
<1> QED BY <1>5, <1>6 DEF QueueInv

\* An attempt that was not waiting joins the queue.
LEMMA QueueGrows ==
  ASSUME TypeOK, NEW w \in Isolates, QueueInv(w), NEW a \in Attempts,
         attempt[a].pc \notin {"before", "after", "probe"},
         isolate'[w].queue = Append(isolate[w].queue, a),
         attempt'[a].pc \in {"before", "after", "probe"}, attempt'[a].at = w,
         \A b \in Attempts \ {a} : attempt'[b] = attempt[b]
  PROVE  QueueInv(w)'
<1> DEFINE q == isolate[w].queue
           r == Append(q, a)
<1>1. q \in Seq(Attempts) BY DEF TypeOK, IsolateRecords
<1>2. /\ Len(r) = Len(q) + 1 /\ r[Len(q) + 1] = a /\ Len(q) \in Nat
      /\ \A i \in 1..Len(q) : r[i] = q[i] /\ q[i] \in Attempts
  BY <1>1
<1>3. \A i \in 1..Len(q) : q[i] # a BY DEF QueueInv
<1>4. \A i \in 1..Len(r) : i = Len(q) + 1 \/ i \in 1..Len(q) BY <1>2
<1> HIDE DEF q, r
<1>5. \A i \in 1..Len(r) : attempt'[r[i]].pc \in {"before", "after", "probe"} /\ attempt'[r[i]].at = w
  <2> SUFFICES ASSUME NEW i \in 1..Len(r)
               PROVE attempt'[r[i]].pc \in {"before", "after", "probe"} /\ attempt'[r[i]].at = w
    OBVIOUS
  <2>1. CASE i = Len(q) + 1 BY <2>1, <1>2
  <2>2. CASE i \in 1..Len(q)
    <3>1. r[i] = q[i] /\ q[i] \in Attempts \ {a} BY <2>2, <1>2, <1>3
    <3> QED BY <2>2, <3>1 DEF QueueInv, q
  <2> QED BY <2>1, <2>2, <1>4
<1>6. \A i, j \in 1..Len(r) : r[i] = r[j] => i = j
  <2> SUFFICES ASSUME NEW i \in 1..Len(r), NEW j \in 1..Len(r), r[i] = r[j] PROVE i = j
    OBVIOUS
  <2>1. CASE i \in 1..Len(q) /\ j \in 1..Len(q) BY <2>1, <1>2 DEF QueueInv, q
  <2>2. CASE ~(i \in 1..Len(q) /\ j \in 1..Len(q)) BY <2>2, <1>2, <1>3, <1>4
  <2> QED BY <2>1, <2>2
<1> QED BY <1>5, <1>6 DEF QueueInv, q, r

-----------------------------------------------------------------------------
\* What a record of an isolate promises stays true while the store grows.
LEMMA ViewsRest ==
  ASSUME AdmissionAssumption, TypeOK, registration' \in Views,
         Reaches(registration, registration'),
         NEW v \in Isolates, ViewInv(v), isolate'[v].revision = isolate[v].revision,
         isolate'[v].snapshot = isolate[v].snapshot
  PROVE  ViewInv(v)'
<1>1. \A s \in Views : Reaches(s, registration) => Reaches(s, registration')
  BY ReachesFurther DEF TypeOK
<1>2. \A s : GoodView(s) => s \in Views BY DEF GoodView
<1> QED BY <1>1, <1>2 DEF ViewInv

\* An attempt that does not move keeps its invariant.
LEMMA AttemptRests ==
  ASSUME AdmissionAssumption, TypeOK, NEW b \in Attempts, AttemptInv(b),
         attempt'[b] = attempt[b], registered \subseteq registered',
         attempt[b].at \in Isolates => isolate'[attempt[b].at] = isolate[attempt[b].at]
  PROVE  AttemptInv(b)'
BY DEF AttemptInv, Busy, Running, Covers, Newer, Path

\* The end of a rehydration: it leaves the isolate with the snapshot it has
\* projected, or with what it was before.
LEMMA RehydrationEnds ==
  ASSUME AdmissionAssumption, AdmissionInv, NEW w \in Isolates, isolate[w].queue # <<>>,
         NEW i \in IsolateRecords, i.queue = Tail(isolate[w].queue), i.snapshot = None,
         isolate' = [isolate EXCEPT ![w] = i],
         \/ i.revision = isolate[w].revision
         \/ isolate[w].snapshot # None /\ i.revision = isolate[w].snapshot,
         i.rehydrated => i.revision # None /\ i.entries = ProjectionOf(i.revision),
         \/ /\ Rehydrated(Running(w))
            /\ attempt[Running(w)].pc = "after" =>
                 i.revision # None /\ Covers(i.revision, attempt[Running(w)].permit)
         \/ Answer(Running(w), "projection_unavailable"),
         UNCHANGED <<store, ended, settled>>, faults' \in Nat
  PROVE  AdmissionInv'
<1> DEFINE a == Running(w)
<1>0. /\ TypeOK /\ StoreInv /\ QueueInv(w) /\ ViewInv(w) /\ ProjectionInv(w)
      /\ \A b \in Attempts : AttemptInv(b)
  BY DEF AdmissionInv
<1>1. a \in Attempts /\ attempt[a].pc \in {"before", "after", "probe"} /\ attempt[a].at = w
  BY <1>0, RunningIsQueued
<1>2. /\ isolate'[w] = i /\ \A v \in Isolates \ {w} : isolate'[v] = isolate[v]
      /\ isolate' \in [Isolates -> IsolateRecords]
  BY <1>0 DEF TypeOK
<1> HIDE DEF a
<1>3. /\ attempt' \in [Attempts -> AttemptRecords]
      /\ \A b \in Attempts \ {a} : attempt'[b] = attempt[b]
      /\ attempt'[a].permit = attempt[a].permit /\ attempt'[a].at = w
      /\ \/ attempt[a].pc = "before" /\ attempt'[a].pc = "preflight"
         \/ attempt[a].pc = "after" /\ attempt'[a].pc = "answered" /\ attempt'[a].code = "registered"
            /\ i.revision # None /\ Covers(i.revision, attempt[a].permit)
         \/ attempt'[a].pc = "answered" /\ attempt'[a].code # "registered"
  <2>1. attempt \in [Attempts -> AttemptRecords] BY <1>0 DEF TypeOK
  <2>2. CASE Goto(a, "preflight") /\ attempt[a].pc = "before"
    BY <2>1, <2>2, <1>1 DEF Goto, AttemptRecords
  <2>3. ASSUME NEW code \in Codes, Answer(a, code)
        PROVE  /\ attempt' \in [Attempts -> AttemptRecords]
               /\ \A b \in Attempts \ {a} : attempt'[b] = attempt[b]
               /\ attempt'[a].permit = attempt[a].permit /\ attempt'[a].at = w
               /\ attempt'[a].pc = "answered" /\ attempt'[a].code = code
    BY <2>1, <2>3, <1>1 DEF Answer, AttemptRecords
  <2>4. {"registered", "ready", "projection_unavailable"} \subseteq Codes BY DEF Codes
  <2> QED BY <2>2, <2>3, <2>4, <1>1 DEF Rehydrated, a
<1>4. TypeOK' BY <1>0, <1>2, <1>3 DEF TypeOK, store
<1>5. StoreInv' /\ registered' = registered /\ registration' = registration /\ settled' = settled
  <2>1. /\ registration' = registration /\ owner' = owner /\ fence' = fence
        /\ outcomes' = outcomes /\ registered' = registered /\ settled' = settled
    BY DEF store
  <2>2. StoreInv' BY <1>0, <2>1 DEF StoreInv, Holds, Covers, Retained
  <2> QED BY <2>1, <2>2
<1>6. ASSUME NEW v \in Isolates PROVE QueueInv(v)'
  <2>1. QueueInv(v) BY DEF AdmissionInv
  <2>2. CASE v = w BY <2>2, <2>1, <1>0, <1>2, <1>3, QueueAdvances DEF a
  <2>3. CASE v # w
    <3>1. \A b \in Attempts : attempt[b].at = v => attempt'[b] = attempt[b] BY <2>3, <1>1, <1>3
    <3> QED BY <2>1, <2>3, <3>1, <1>0, <1>2, QueuesRest
  <2> QED BY <2>2, <2>3
<1>7. ASSUME NEW v \in Isolates PROVE ViewInv(v)' /\ ProjectionInv(v)'
  <2>1. ViewInv(v) /\ ProjectionInv(v) BY DEF AdmissionInv
  <2>2. CASE v = w
    <3>1. ViewInv(v)' BY <2>2, <1>0, <1>2, <1>5 DEF ViewInv
    <3>2. ProjectionInv(v)' BY <2>2, <1>2 DEF ProjectionInv
    <3> QED BY <3>1, <3>2
  <2>3. CASE v # w
    <3>1. isolate'[v] = isolate[v] BY <2>3, <1>2
    <3>2. ViewInv(v)' BY <2>1, <3>1, <1>5 DEF ViewInv
    <3>3. ProjectionInv(v)' BY <2>1, <3>1 DEF ProjectionInv
    <3> QED BY <3>2, <3>3
  <2> QED BY <2>2, <2>3
<1>8. ASSUME NEW b \in Attempts PROVE AttemptInv(b)'
  <2>1. AttemptInv(b) BY <1>0
  <2>2. CASE b = a
    <3>1. ~Busy(w)' BY <1>2 DEF Busy
    <3> QED BY <2>1, <2>2, <3>1, <1>1, <1>2, <1>3, <1>5 DEF AttemptInv, Path
  <2>3. CASE b # a /\ attempt[b].at # w
    <3>1. attempt'[b] = attempt[b]
          /\ (attempt[b].at \in Isolates => isolate'[attempt[b].at] = isolate[attempt[b].at])
      BY <2>3, <1>2, <1>3
    <3> QED BY <2>1, <3>1, <1>0, <1>5, AttemptRests
  <2>4. CASE b # a /\ attempt[b].at = w
    <3>1. attempt'[b] = attempt[b] /\ ~Busy(w)' BY <2>4, <1>2, <1>3 DEF Busy
    <3>2. ASSUME attempt[b].pc = "answered", attempt[b].code = "registered"
          PROVE  i.revision # None /\ Covers(i.revision, attempt[b].permit)
      <4>1. /\ attempt[b].permit \in Permits /\ isolate[w].revision # None
            /\ Covers(isolate[w].revision, attempt[b].permit)
        BY <2>1, <2>4, <3>2, <1>0 DEF AttemptInv, TypeOK
      <4>2. CASE i.revision = isolate[w].revision BY <4>1, <4>2
      <4>3. CASE isolate[w].snapshot # None /\ i.revision = isolate[w].snapshot
        <5>1. isolate[w].revision \in Views /\ isolate[w].snapshot \in Views
              /\ Reaches(isolate[w].revision, isolate[w].snapshot)
          BY <4>1, <4>3, <1>0 DEF ViewInv, GoodView
        <5> QED BY <4>1, <4>3, <5>1, CoversFurther
      <4> QED BY <4>2, <4>3
    <3> QED BY <2>1, <2>4, <3>1, <3>2, <1>2, <1>5 DEF AttemptInv, Path
  <2> QED BY <2>2, <2>3, <2>4
<1> QED BY <1>4, <1>5, <1>6, <1>7, <1>8 DEF AdmissionInv
\* An isolate moves on with its rehydration, and nothing else does.
LEMMA IsolateMoves ==
  ASSUME AdmissionAssumption, AdmissionInv, NEW w \in Isolates, isolate[w].queue # <<>>,
         NEW i \in IsolateRecords, i.queue = isolate[w].queue, i.revision = isolate[w].revision,
         i.snapshot # None, i.snapshot = registration \/ i.snapshot = isolate[w].snapshot,
         i.left \subseteq Used(i.snapshot), Partial(i.snapshot, i.left, i.entries),
         ~i.rehydrated, isolate' = [isolate EXCEPT ![w] = i],
         UNCHANGED <<store, ended, attempt, settled, faults>>
  PROVE  AdmissionInv'
<1>0. TypeOK /\ StoreInv /\ QueueInv(w) /\ ViewInv(w) /\ ProjectionInv(w)
  BY DEF AdmissionInv
<1>1. /\ isolate'[w] = i /\ \A v \in Isolates \ {w} : isolate'[v] = isolate[v]
      /\ isolate' \in [Isolates -> IsolateRecords]
  BY <1>0 DEF TypeOK
<1>2. TypeOK' BY <1>0, <1>1 DEF TypeOK, store
<1>3. StoreInv' /\ registered' = registered /\ registration' = registration
  BY <1>0 DEF StoreInv, store, Used, Holds, Covers, Newer, Retained
<1>4. GoodView(registration) /\ registration \in Views /\ Reaches(registration, registration)
  BY <1>0, SnapshotIsGood, ReachesItself DEF TypeOK
<1>5. ASSUME NEW v \in Isolates PROVE QueueInv(v)' /\ ViewInv(v)' /\ ProjectionInv(v)'
  <2>1. QueueInv(v) /\ ViewInv(v) /\ ProjectionInv(v) BY DEF AdmissionInv
  <2>2. QueueInv(v)' BY <2>1, <1>0, <1>1, QueuesRest
  <2>3. CASE v = w
    <3>1. ViewInv(v)' BY <2>3, <1>0, <1>1, <1>3, <1>4 DEF ViewInv
    <3>2. ProjectionInv(v)' BY <2>3, <1>1 DEF ProjectionInv
    <3> QED BY <2>2, <3>1, <3>2
  <2>4. CASE v # w
    <3>1. isolate'[v] = isolate[v] BY <2>4, <1>1
    <3>2. ViewInv(v)' BY <2>1, <3>1, <1>3 DEF ViewInv
    <3>3. ProjectionInv(v)' BY <2>1, <3>1 DEF ProjectionInv
    <3> QED BY <2>2, <3>2, <3>3
  <2> QED BY <2>3, <2>4
<1>6. ASSUME NEW b \in Attempts PROVE AttemptInv(b)'
  <2>1. AttemptInv(b) BY DEF AdmissionInv
  <2>2. CASE attempt[b].at # w
    <3>1. attempt[b].at \in Isolates => isolate'[attempt[b].at] = isolate[attempt[b].at]
      BY <2>2, <1>1
    <3> QED BY <2>1, <3>1, <1>0, <1>3, AttemptRests
  <2>3. CASE attempt[b].at = w
    <3>1. ASSUME attempt[b].pc = "after", Running(w) = b PROVE Covers(i.snapshot, attempt[b].permit)
      <4>1. CASE i.snapshot = registration
        <5>1. attempt[b].permit \in registered BY <2>1, <3>1 DEF AttemptInv
        <5> QED BY <4>1, <5>1, <1>0 DEF StoreInv
      <4>2. CASE i.snapshot = isolate[w].snapshot
        BY <2>1, <2>3, <3>1, <4>2 DEF AttemptInv, Busy
      <4> QED BY <4>1, <4>2
    <3>2. Running(w)' = Running(w) BY <1>1 DEF Running
    <3> QED BY <2>1, <2>3, <3>1, <3>2, <1>1, <1>3 DEF AttemptInv, Path
  <2> QED BY <2>2, <2>3
<1> QED BY <1>2, <1>3, <1>5, <1>6 DEF AdmissionInv

\* What is queued waits for the rehydration that runs.
LEMMA RunningStays ==
  ASSUME AdmissionInv, NEW w \in Isolates, NEW a \in Attempts,
         attempt[a].pc \notin {"before", "after", "probe"}, isolate' = Enqueue(w, a),
         NEW v \in Isolates, Busy(v)'
  PROVE  Busy(v) /\ Running(v)' = Running(v) /\ Running(v) # a
<1>0. TypeOK /\ isolate[w] \in IsolateRecords BY DEF AdmissionInv, TypeOK
<1>1. /\ isolate' = [isolate EXCEPT ![w].queue = Append(isolate[w].queue, a)]
      /\ isolate[w].queue \in Seq(Attempts) /\ isolate \in [Isolates -> IsolateRecords]
  BY <1>0 DEF TypeOK, Enqueue, IsolateRecords
<1>2. /\ isolate'[v].snapshot = isolate[v].snapshot
      /\ v = w => isolate'[v].queue = Append(isolate[v].queue, a)
      /\ v # w => isolate'[v] = isolate[v]
  BY <1>0, <1>1 DEF IsolateRecords
<1>3. Busy(v) BY <1>2 DEF Busy
<1>4. isolate[v].queue # <<>> /\ QueueInv(v) BY <1>3 DEF AdmissionInv, ProjectionInv, Busy
<1>5. Running(v) # a BY <1>0, <1>4, RunningIsQueued
<1>6. \/ isolate'[v].queue = isolate[v].queue
      \/ isolate'[v].queue = Append(isolate[w].queue, a) /\ v = w
  BY <1>2
<1>7. v = w => Head(Append(isolate[w].queue, a)) = Head(isolate[w].queue) BY <1>1, <1>4
<1> QED BY <1>2, <1>3, <1>5, <1>6, <1>7 DEF Running

\* A request of the isolate is queued for a rehydration.
LEMMA RequestQueues ==
  ASSUME AdmissionAssumption, AdmissionInv, NEW w \in Isolates, NEW a \in Attempts,
         attempt[a].pc \notin {"before", "after", "probe"},
         NEW t \in AttemptRecords, t.pc \in {"before", "after", "probe"}, t.at = w,
         t.pc # "probe" => t.permit \in Permits, t.pc = "after" => t.permit \in registered,
         attempt' = [attempt EXCEPT ![a] = t], isolate' = Enqueue(w, a),
         UNCHANGED <<store, ended, settled, faults>>
  PROVE  AdmissionInv'
<1>0. TypeOK /\ StoreInv /\ QueueInv(w) /\ ViewInv(w) /\ ProjectionInv(w)
  BY DEF AdmissionInv
<1>1. /\ attempt' \in [Attempts -> AttemptRecords] /\ attempt'[a] = t
      /\ \A b \in Attempts \ {a} : attempt'[b] = attempt[b]
  BY <1>0 DEF TypeOK
<1> DEFINE i == [isolate[w] EXCEPT !.queue = Append(isolate[w].queue, a)]
<1>2. /\ isolate' = [isolate EXCEPT ![w] = i] /\ isolate[w] \in IsolateRecords
      /\ isolate' \in [Isolates -> IsolateRecords] /\ isolate'[w] = i
      /\ \A v \in Isolates \ {w} : isolate'[v] = isolate[v]
  <2>1. isolate[w] \in IsolateRecords /\ isolate \in [Isolates -> IsolateRecords] BY <1>0 DEF TypeOK
  <2>2. isolate[w].queue \in Seq(Attempts) BY <2>1 DEF IsolateRecords
  <2>3. Append(isolate[w].queue, a) \in Seq(Attempts) BY <2>2
  <2>4. i \in IsolateRecords BY <2>1, <2>3 DEF IsolateRecords
  <2>5. isolate' = [isolate EXCEPT ![w] = i] BY DEF Enqueue
  <2> HIDE DEF i
  <2> QED BY <2>1, <2>4, <2>5
<1>3. \A v \in Isolates : /\ isolate'[v].revision = isolate[v].revision
                          /\ isolate'[v].snapshot = isolate[v].snapshot
                          /\ isolate'[v].entries = isolate[v].entries
                          /\ isolate'[v].left = isolate[v].left
                          /\ isolate'[v].rehydrated = isolate[v].rehydrated
  BY <1>2 DEF IsolateRecords
<1>4. isolate[w].queue \in Seq(Attempts) /\ isolate'[w].queue = Append(isolate[w].queue, a)
  BY <1>2 DEF IsolateRecords
<1> HIDE DEF i
<1>5. TypeOK' BY <1>0, <1>1, <1>2 DEF TypeOK, store
<1>6. StoreInv' /\ registered' = registered /\ registration' = registration
  BY <1>0 DEF StoreInv, store, Used, Holds, Covers, Newer, Retained
<1>7. ASSUME NEW v \in Isolates PROVE QueueInv(v)' /\ ViewInv(v)' /\ ProjectionInv(v)'
  <2>1. QueueInv(v) /\ ViewInv(v) /\ ProjectionInv(v) BY DEF AdmissionInv
  <2>2. ViewInv(v)' BY <2>1, <1>3, <1>6 DEF ViewInv
  <2>3. isolate[v].queue # <<>> => isolate'[v].queue # <<>>
    <3>1. Len(Append(isolate[w].queue, a)) = Len(isolate[w].queue) + 1
          /\ Len(isolate[w].queue) \in Nat /\ Len(<<>>) = 0
      BY <1>4
    <3> QED BY <3>1, <1>2, <1>4
  <2>4. ProjectionInv(v)' BY <2>1, <2>3, <1>3 DEF ProjectionInv
  <2>5. CASE v = w BY <2>2, <2>4, <2>5, <1>0, <1>1, <1>4, QueueGrows
  <2>6. CASE v # w
    <3>1. QueueInv(v)' BY <2>1, <2>6, <1>0, <1>1, <1>2, QueuesRest
    <3> QED BY <2>2, <2>4, <3>1
  <2> QED BY <2>5, <2>6
<1>8. \A v \in Isolates : Busy(v)' => Busy(v) /\ Running(v)' = Running(v) /\ Running(v) # a
  BY RunningStays
<1>10. ASSUME NEW b \in Attempts PROVE AttemptInv(b)'
  <2>1. AttemptInv(b) BY DEF AdmissionInv
  <2>2. CASE b = a
    <3>1. Busy(w)' => Running(w)' # a BY <1>8
    <3> QED BY <2>2, <3>1, <1>1, <1>6 DEF AttemptInv, Path
  <2>3. CASE b # a
    <3>1. attempt'[b] = attempt[b] BY <2>3, <1>1
    <3>2. attempt[b].pc = "after" => attempt[b].at \in Isolates BY <2>1 DEF AttemptInv, Path
    <3> QED BY <2>1, <3>1, <3>2, <1>3, <1>6, <1>8 DEF AttemptInv, Path
  <2> QED BY <2>2, <2>3
<1> QED BY <1>5, <1>6, <1>7, <1>10 DEF AdmissionInv

\* A request goes on by itself, or the durable object answers it.
LEMMA AttemptMoves ==
  ASSUME AdmissionAssumption, AdmissionInv, NEW a \in Attempts, NEW t \in AttemptRecords,
         attempt' = [attempt EXCEPT ![a] = t], UNCHANGED isolate,
         attempt[a].pc \in {"before", "after", "probe"} => t.pc = attempt[a].pc /\ t.at = attempt[a].at,
         UNCHANGED store \/ \E p \in Permits : Store(p), AttemptInv(a)',
         settled' \in [Permits -> {"open", "registered", "rejected"}],
         \A p \in Permits : settled'[p] = "registered" => p \in registered',
         ended' \in Nat, faults' \in Nat
  PROVE  AdmissionInv'
<1>0. TypeOK /\ StoreInv BY DEF AdmissionInv
<1>1. /\ attempt' \in [Attempts -> AttemptRecords] /\ attempt'[a] = t
      /\ \A b \in Attempts \ {a} : attempt'[b] = attempt[b]
  BY <1>0 DEF TypeOK
<1>2. /\ registration' \in Views /\ owner' \in [Entries -> Contents \cup {None}]
      /\ fence' \in Permits \cup {None} /\ outcomes' \in Seq(Permits)
      /\ registered' \in SUBSET Permits /\ registered \subseteq registered'
      /\ StoreInv' /\ Reaches(registration, registration')
  <2>1. CASE UNCHANGED store
    <3>1. registration \in Views BY <1>0 DEF TypeOK
    <3> QED BY <2>1, <3>1, <1>0, ReachesItself
          DEF TypeOK, StoreInv, store, Used, Holds, Covers, Newer, Retained
  <2>2. CASE \E p \in Permits : Store(p) BY <2>2, <1>0, StoreKeeps
  <2> QED BY <2>1, <2>2
<1>3. TypeOK' BY <1>0, <1>1, <1>2 DEF TypeOK
<1>4. ASSUME NEW v \in Isolates PROVE QueueInv(v)' /\ ViewInv(v)' /\ ProjectionInv(v)'
  <2>1. QueueInv(v) /\ ViewInv(v) /\ ProjectionInv(v) BY DEF AdmissionInv
  <2>2. ViewInv(v)' BY <2>1, <1>0, <1>2, ViewsRest
  <2>3. QueueInv(v)' BY <2>1, <1>0, <1>1, QueuesRest
  <2>4. ProjectionInv(v)' BY <2>1 DEF ProjectionInv
  <2> QED BY <2>2, <2>3, <2>4
<1>5. ASSUME NEW b \in Attempts PROVE AttemptInv(b)'
  <2>1. AttemptInv(b) BY DEF AdmissionInv
  <2>2. CASE b # a BY <2>1, <2>2, <1>0, <1>1, <1>2, AttemptRests
  <2> QED BY <2>2
<1> QED BY <1>2, <1>3, <1>4, <1>5 DEF AdmissionInv
-----------------------------------------------------------------------------
\* One lemma per action.
LEMMA AdmissionInit == AdmissionAssumption /\ Init => AdmissionInv
<1> SUFFICES ASSUME AdmissionAssumption, Init PROVE AdmissionInv
  OBVIOUS
<1>1. NoAttempt \in AttemptRecords BY DEF NoAttempt, AttemptRecords
<1>2. ColdIsolate \in IsolateRecords
  <2>1. <<>> \in Seq(Attempts) OBVIOUS
  <2> QED BY <2>1 DEF ColdIsolate, IsolateRecords
<1>3. <<>> \in Seq(Permits) /\ Retained = {}
  BY DEF Init, Retained
<1>4. TypeOK BY <1>1, <1>2, <1>3 DEF Init, TypeOK, Views
<1>5. StoreInv
  <2>1. Used(owner) = {} BY DEF Init, Used
  <2>2. IsFiniteSet(Used(owner)) /\ Cardinality(Used(owner)) = 0 BY <2>1, FS_EmptySet
  <2> QED BY <1>3, <2>2 DEF Init, StoreInv, AdmissionAssumption
<1>6. \A w \in Isolates : QueueInv(w) /\ ViewInv(w) /\ ProjectionInv(w)
  BY DEF Init, ColdIsolate, QueueInv, ViewInv, ProjectionInv
<1>7. \A a \in Attempts : AttemptInv(a)
  BY DEF Init, NoAttempt, AttemptInv, Path
<1> QED BY <1>4, <1>5, <1>6, <1>7 DEF Init, AdmissionInv

\* The record of an isolate whose rehydration has ended.
LEMMA DequeuedRecord ==
  ASSUME NEW w \in Isolates, isolate[w] \in IsolateRecords, isolate[w].queue # <<>>
  PROVE  /\ Dequeued(w) \in IsolateRecords /\ Dequeued(w).queue = Tail(isolate[w].queue)
         /\ Dequeued(w).snapshot = None /\ Dequeued(w).revision = isolate[w].revision
         /\ Dequeued(w).rehydrated = isolate[w].rehydrated
         /\ Dequeued(w).entries = isolate[w].entries /\ Dequeued(w).left = {}
<1>1. isolate[w].queue \in Seq(Attempts) BY DEF IsolateRecords
<1>2. Tail(isolate[w].queue) \in Seq(Attempts) BY <1>1
<1> QED BY <1>2 DEF Dequeued, IsolateRecords

\* A rehydration that fails answers its attempt and projects nothing new.
LEMMA FailureEnds ==
  ASSUME AdmissionAssumption, AdmissionInv, NEW w \in Isolates, isolate[w].queue # <<>>,
         ~Busy(w), Failed(w, Running(w)), UNCHANGED <<store, ended, settled>>, faults' \in Nat
  PROVE  AdmissionInv'
<1> DEFINE i == [Dequeued(w) EXCEPT !.rehydrated =
                   IF attempt[Running(w)].pc = "after" THEN FALSE ELSE @]
<1>1. isolate[w] \in IsolateRecords /\ ProjectionInv(w) BY DEF AdmissionInv, TypeOK
<1>2. /\ i \in IsolateRecords /\ i.queue = Tail(isolate[w].queue) /\ i.snapshot = None
      /\ i.revision = isolate[w].revision /\ i.entries = isolate[w].entries
      /\ i.rehydrated => isolate[w].rehydrated
  BY <1>1, DequeuedRecord DEF IsolateRecords
<1>3. isolate' = [isolate EXCEPT ![w] = i] /\ Answer(Running(w), "projection_unavailable")
  BY DEF Failed
<1> HIDE DEF i
<1> QED BY <1>1, <1>2, <1>3, RehydrationEnds DEF ProjectionInv

\* Snapshot: the store is read and the first entries are projected.
LEMMA SnapshotKeeps ==
  ASSUME AdmissionAssumption, AdmissionInv, NEW w \in Isolates, Snapshot(w)
  PROVE  AdmissionInv'
<1> DEFINE a == Running(w)
<1>0. /\ TypeOK /\ StoreInv /\ QueueInv(w) /\ ViewInv(w) /\ ProjectionInv(w)
      /\ isolate[w] \in IsolateRecords /\ faults' \in Nat /\ registration \in Views
      /\ isolate[w].queue # <<>> /\ ~Busy(w) /\ AttemptInv(a)
  <2>1. TypeOK /\ QueueInv(w) /\ isolate[w].queue # <<>> /\ ~Busy(w)
    BY DEF AdmissionInv, Snapshot
  <2>2. a \in Attempts BY <2>1, RunningIsQueued
  <2> QED BY <2>1, <2>2 DEF AdmissionInv, TypeOK, Snapshot
<1>1. /\ Dequeued(w) \in IsolateRecords /\ Dequeued(w).queue = Tail(isolate[w].queue)
      /\ Dequeued(w).snapshot = None /\ Dequeued(w).revision = isolate[w].revision
      /\ Dequeued(w).rehydrated = isolate[w].rehydrated /\ Dequeued(w).entries = isolate[w].entries
  BY <1>0, DequeuedRecord
<1>2. UNCHANGED <<store, ended, settled>> BY DEF Snapshot
<1>3. CASE /\ Unchanged(isolate[w].revision) /\ isolate[w].rehydrated
           /\ isolate' = [isolate EXCEPT ![w] = Dequeued(w)] /\ Rehydrated(a)
  <2>1. attempt[a].pc = "after" =>
          isolate[w].revision # None /\ Covers(isolate[w].revision, attempt[a].permit)
    BY <1>0, <1>3 DEF AttemptInv, StoreInv, Unchanged, AdmissionAssumption, Views
  <2> QED BY <1>0, <1>1, <1>2, <1>3, <2>1, RehydrationEnds DEF ProjectionInv
<1>4. CASE Failed(w, a)
  BY <1>0, <1>2, <1>4, FailureEnds
<1>5. CASE /\ isolate' = [isolate EXCEPT ![w].rehydrated = FALSE,
                                         ![w].entries = [e \in Entries |-> None],
                                         ![w].snapshot = registration,
                                         ![w].left = Used(registration)]
           /\ UNCHANGED attempt
  <2> DEFINE i == [isolate[w] EXCEPT !.rehydrated = FALSE, !.entries = [e \in Entries |-> None],
                                     !.snapshot = registration, !.left = Used(registration)]
  <2>1. isolate' = [isolate EXCEPT ![w] = i] BY <1>0, <1>5 DEF TypeOK
  <2>2. Used(registration) \in SUBSET Agents /\ DOMAIN registration = Agents
    BY <1>0 DEF Used, Views
  <2>3. [e \in Entries |-> None] \in [Entries -> Contents \cup {None}] OBVIOUS
  <2>4. /\ i \in IsolateRecords /\ i.queue = isolate[w].queue /\ i.revision = isolate[w].revision
        /\ i.snapshot = registration /\ i.left = Used(registration) /\ ~i.rehydrated
        /\ i.entries = [e \in Entries |-> None]
    BY <1>0, <2>2, <2>3 DEF IsolateRecords
  <2>5. Partial(i.snapshot, i.left, i.entries) BY <2>2, <2>4 DEF Partial, Used
  <2>6. registration # None BY <1>0 DEF AdmissionAssumption, Views
  <2> HIDE DEF i
  <2> QED BY <1>0, <1>2, <1>5, <2>1, <2>4, <2>5, <2>6, IsolateMoves DEF Snapshot
<1> QED BY <1>3, <1>4, <1>5 DEF Snapshot

\* Snapshot failed: nothing was read.
LEMMA SnapshotFailsKeeps ==
  ASSUME AdmissionAssumption, AdmissionInv, NEW w \in Isolates, SnapshotFails(w)
  PROVE  AdmissionInv'
<1>1. faults' \in Nat BY DEF AdmissionInv, TypeOK, SnapshotFails
<1> QED BY <1>1, FailureEnds DEF SnapshotFails

\* One agent more of the snapshot is projected.
LEMMA ProjectIntentKeeps ==
  ASSUME AdmissionAssumption, AdmissionInv, NEW w \in Isolates, NEW a \in Agents,
         ProjectIntent(w, a)
  PROVE  AdmissionInv'
<1> DEFINE s == isolate[w].snapshot
           p == s[a]
           i == [isolate[w] EXCEPT !.left = @ \ {a}, !.entries = [@ EXCEPT ![entry[p]] = content[p]]]
<1>1. /\ isolate[w] \in IsolateRecords /\ isolate \in [Isolates -> IsolateRecords]
      /\ ViewInv(w) /\ ProjectionInv(w) /\ s # None /\ a \in isolate[w].left
  BY DEF AdmissionInv, TypeOK, ProjectIntent, Busy
<1>2. /\ isolate[w].queue # <<>> /\ isolate[w].left \subseteq Used(s) /\ ~isolate[w].rehydrated
      /\ Partial(s, isolate[w].left, isolate[w].entries) /\ GoodView(s)
  BY <1>1 DEF ProjectionInv, ViewInv
<1>3. s \in Views /\ s[a] # None /\ p \in Permits BY <1>1, <1>2 DEF GoodView, Used, Views
<1>4. entry[p] \in Entries /\ content[p] \in Contents /\ content[p] # None
  BY <1>3 DEF AdmissionAssumption, Contents
<1>5. isolate' = [isolate EXCEPT ![w] = i] BY <1>1 DEF ProjectIntent
<1>6. /\ i \in IsolateRecords /\ i.queue = isolate[w].queue /\ i.revision = isolate[w].revision
      /\ i.snapshot = s /\ i.left = isolate[w].left \ {a} /\ ~i.rehydrated
      /\ i.entries = [isolate[w].entries EXCEPT ![entry[p]] = content[p]]
  <2>1. [isolate[w].entries EXCEPT ![entry[p]] = content[p]] \in [Entries -> Contents \cup {None}]
    BY <1>1, <1>4 DEF IsolateRecords
  <2>2. isolate[w].left \ {a} \in SUBSET Agents BY <1>1 DEF IsolateRecords
  <2> HIDE DEF p
  <2> QED BY <2>1, <2>2, <1>1, <1>2 DEF IsolateRecords
<1>7. Partial(s, i.left, i.entries)
  <2>1. isolate[w].entries \in [Entries -> Contents \cup {None}] BY <1>1 DEF IsolateRecords
  <2>2. /\ i.entries[entry[p]] = content[p]
        /\ \A e \in Entries \ {entry[p]} : i.entries[e] = isolate[w].entries[e]
    BY <2>1, <1>4, <1>6
  <2>3. ASSUME NEW b \in Agents \ i.left, s[b] # None PROVE i.entries[entry[s[b]]] = content[s[b]]
    <3>1. s[b] \in Permits /\ entry[s[b]] \in Entries
      BY <1>3, <2>3 DEF Views, AdmissionAssumption
    <3>2. CASE entry[s[b]] = entry[p]
      <4>1. content[s[b]] = content[p] BY <1>2, <1>3, <2>3, <3>2 DEF GoodView
      <4> QED BY <2>2, <3>2, <4>1
    <3>3. CASE entry[s[b]] # entry[p]
      <4>1. b \notin isolate[w].left BY <1>6, <2>3, <3>3
      <4> QED BY <1>2, <2>2, <2>3, <3>1, <3>3, <4>1 DEF Partial
    <3> QED BY <3>2, <3>3
  <2>4. ASSUME NEW e \in Entries, i.entries[e] # None
        PROVE  \E b \in Agents \ i.left : Holds(s, b, e)
    <3>1. CASE e = entry[p] BY <3>1, <1>3, <1>6 DEF Holds
    <3>2. CASE e # entry[p]
      <4>1. PICK b \in Agents \ isolate[w].left : Holds(s, b, e) BY <1>2, <2>2, <2>4, <3>2 DEF Partial
      <4> QED BY <4>1, <1>6
    <3> QED BY <3>1, <3>2
  <2> QED BY <2>3, <2>4 DEF Partial
<1>8. i.left \subseteq Used(s) BY <1>2, <1>6
<1> HIDE DEF i, s
<1>9. i.snapshot # None /\ i.snapshot = isolate[w].snapshot BY <1>1, <1>6 DEF s
<1> QED BY <1>2, <1>5, <1>6, <1>7, <1>8, <1>9, IsolateMoves DEF ProjectIntent

\* Every agent of the snapshot is projected: it is the new revision.
LEMMA FinishRehydrationKeeps ==
  ASSUME AdmissionAssumption, AdmissionInv, NEW w \in Isolates, FinishRehydration(w)
  PROVE  AdmissionInv'
<1> DEFINE a == Running(w)
           i == [Dequeued(w) EXCEPT !.rehydrated = TRUE, !.revision = isolate[w].snapshot]
<1>1. /\ TypeOK /\ isolate[w] \in IsolateRecords /\ isolate[w].snapshot # None
      /\ isolate[w].left = {} /\ ViewInv(w) /\ ProjectionInv(w) /\ QueueInv(w) /\ faults' \in Nat
  BY DEF AdmissionInv, TypeOK, FinishRehydration, Busy
<1>2. /\ isolate[w].queue # <<>> /\ GoodView(isolate[w].snapshot)
      /\ Partial(isolate[w].snapshot, isolate[w].left, isolate[w].entries)
  BY <1>1 DEF ViewInv, ProjectionInv
<1>3. /\ i \in IsolateRecords /\ i.queue = Tail(isolate[w].queue) /\ i.snapshot = None
      /\ i.revision = isolate[w].snapshot /\ i.entries = isolate[w].entries
  <2>1. isolate[w].snapshot \in Views \cup {None} BY <1>1 DEF IsolateRecords
  <2> QED BY <1>1, <1>2, <2>1, DequeuedRecord DEF IsolateRecords
<1>4. isolate[w].entries = ProjectionOf(isolate[w].snapshot)
  BY <1>1, <1>2, PartialShows DEF IsolateRecords
<1>5. a \in Attempts /\ attempt[a].at = w /\ AttemptInv(a)
  BY <1>1, <1>2, RunningIsQueued DEF AdmissionInv
<1>6. attempt[a].pc = "after" => Covers(isolate[w].snapshot, attempt[a].permit)
  BY <1>1, <1>5 DEF AttemptInv, Busy
<1>7. isolate' = [isolate EXCEPT ![w] = i] /\ Rehydrated(a) BY DEF FinishRehydration
<1> HIDE DEF i
<1> QED BY <1>1, <1>2, <1>3, <1>4, <1>6, <1>7, RehydrationEnds DEF FinishRehydration

\* An isolate is evicted with what it projects and who waits there.
LEMMA RestartKeeps ==
  ASSUME AdmissionAssumption, AdmissionInv, NEW w \in Isolates, Restart(w)
  PROVE  AdmissionInv'
<1>0. TypeOK /\ StoreInv BY DEF AdmissionInv
<1>1. ColdIsolate \in IsolateRecords
  <2>1. <<>> \in Seq(Attempts) OBVIOUS
  <2> QED BY <2>1 DEF ColdIsolate, IsolateRecords
<1>2. /\ isolate' \in [Isolates -> IsolateRecords] /\ isolate'[w] = ColdIsolate
      /\ \A v \in Isolates \ {w} : isolate'[v] = isolate[v]
  BY <1>0, <1>1 DEF Restart, TypeOK
<1>3. /\ attempt' \in [Attempts -> AttemptRecords]
      /\ \A b \in Attempts : attempt'[b] = IF attempt[b].at = w THEN NoAttempt ELSE attempt[b]
  <2>1. NoAttempt \in AttemptRecords BY DEF NoAttempt, AttemptRecords
  <2> QED BY <1>0, <2>1 DEF Restart, TypeOK
<1>4. faults' \in Nat BY <1>0 DEF Restart, TypeOK
<1>5. TypeOK' BY <1>0, <1>2, <1>3, <1>4 DEF TypeOK, Restart, store
<1>6. StoreInv' /\ registered' = registered /\ registration' = registration /\ settled' = settled
  BY <1>0 DEF StoreInv, Restart, store, Used, Holds, Covers, Newer, Retained
<1>7. ASSUME NEW v \in Isolates PROVE QueueInv(v)' /\ ViewInv(v)' /\ ProjectionInv(v)'
  <2>1. QueueInv(v) /\ ViewInv(v) /\ ProjectionInv(v) BY DEF AdmissionInv
  <2>2. CASE v = w BY <2>2, <1>2 DEF ColdIsolate, QueueInv, ViewInv, ProjectionInv
  <2>3. CASE v # w
    <3>1. isolate'[v] = isolate[v] BY <2>3, <1>2
    <3>2. \A b \in Attempts : attempt[b].at = v => attempt'[b] = attempt[b] BY <2>3, <1>3
    <3>3. QueueInv(v)' BY <2>1, <3>1, <3>2, <1>0, QueuesRest
    <3>4. ViewInv(v)' BY <2>1, <3>1, <1>6 DEF ViewInv
    <3>5. ProjectionInv(v)' BY <2>1, <3>1 DEF ProjectionInv
    <3> QED BY <3>3, <3>4, <3>5
  <2> QED BY <2>2, <2>3
<1>8. ASSUME NEW b \in Attempts PROVE AttemptInv(b)'
  <2>1. AttemptInv(b) BY DEF AdmissionInv
  <2>2. CASE attempt[b].at = w BY <2>2, <1>3 DEF NoAttempt, AttemptInv, Path
  <2>3. CASE attempt[b].at # w
    <3>1. attempt'[b] = attempt[b]
          /\ (attempt[b].at \in Isolates => isolate'[attempt[b].at] = isolate[attempt[b].at])
      BY <2>3, <1>2, <1>3
    <3> QED BY <2>1, <3>1, <1>0, <1>6, AttemptRests
  <2> QED BY <2>2, <2>3
<1> QED BY <1>5, <1>6, <1>7, <1>8 DEF AdmissionInv

\* Attempts: what a step that answers or moves on makes of a record.
LEMMA NextRecord ==
  ASSUME TypeOK, NEW a \in Attempts
  PROVE  /\ attempt[a] \in AttemptRecords
         /\ \A pc \in {"preflight", "commit", "committed", "after"} :
              [attempt[a] EXCEPT !.pc = pc] \in AttemptRecords
         /\ \A code \in Codes : [attempt[a] EXCEPT !.pc = "answered", !.code = code] \in AttemptRecords
         /\ \A pc : Goto(a, pc) => attempt' = [attempt EXCEPT ![a] = [attempt[a] EXCEPT !.pc = pc]]
         /\ \A code : Answer(a, code) =>
              attempt' = [attempt EXCEPT ![a] = [attempt[a] EXCEPT !.pc = "answered", !.code = code]]
BY DEF TypeOK, AttemptRecords, Goto, Answer

\* An attempt arrives and waits for the first rehydration.
LEMMA RegisterKeeps ==
  ASSUME AdmissionAssumption, AdmissionInv, NEW a \in Attempts, NEW p \in Permits,
         NEW w \in Isolates, NEW defect, Register(a, p, w, defect)
  PROVE  AdmissionInv'
<1> DEFINE t == [pc |-> IF Refusal(w, p, defect) = None THEN "before" ELSE "answered",
                 permit |-> p, at |-> w, heard |-> TRUE, code |-> Refusal(w, p, defect)]
<1>1. TypeOK /\ attempt[a].pc = "idle" BY DEF AdmissionInv, Register, NoAttempt
<1>2. /\ Refusal(w, p, defect) \in Codes \cup {None}
      /\ Refusal(w, p, defect) # "registered" \/ Refusal(w, p, defect) = None
  BY DEF Refusal, Codes, TerminalRejections
<1>3. t \in AttemptRecords BY <1>2 DEF AttemptRecords
<1>4. attempt' = [attempt EXCEPT ![a] = t] BY DEF Register
<1>5. CASE Refusal(w, p, defect) = None
  BY <1>1, <1>3, <1>4, <1>5, RequestQueues DEF Register
<1>6. CASE Refusal(w, p, defect) # None
  <2>1. attempt'[a] = t BY <1>1, <1>4 DEF TypeOK
  <2>2. AttemptInv(a)' BY <2>1, <1>2, <1>6 DEF AttemptInv, Path
  <2>3. UNCHANGED <<isolate, store, ended, settled, faults>> BY <1>6 DEF Register
  <2>4. /\ settled' \in [Permits -> {"open", "registered", "rejected"}]
        /\ \A q \in Permits : settled'[q] = "registered" => q \in registered'
        /\ ended' \in Nat /\ faults' \in Nat
    BY <2>3 DEF AdmissionInv, TypeOK, store
  <2> HIDE DEF t
  <2> QED BY <1>1, <1>3, <1>4, <2>2, <2>3, <2>4, AttemptMoves
<1> QED BY <1>5, <1>6

\* A readiness probe waits for a rehydration.
LEMMA ReadyzKeeps ==
  ASSUME AdmissionAssumption, AdmissionInv, NEW a \in Attempts, NEW w \in Isolates, Readyz(a, w)
  PROVE  AdmissionInv'
<1> DEFINE t == [NoAttempt EXCEPT !.pc = "probe", !.at = w, !.heard = TRUE]
<1>1. TypeOK /\ attempt[a].pc = "idle" BY DEF AdmissionInv, Readyz, NoAttempt
<1>2. t \in AttemptRecords /\ t.pc = "probe" /\ t.at = w BY DEF AttemptRecords, NoAttempt
<1>3. attempt' = [attempt EXCEPT ![a] = t] BY DEF Readyz
<1> HIDE DEF t
<1> QED BY <1>1, <1>2, <1>3, RequestQueues DEF Readyz

\* After the commit an attempt waits for the second rehydration.
LEMMA CommittedKeeps ==
  ASSUME AdmissionAssumption, AdmissionInv, NEW a \in Attempts, Committed(a)
  PROVE  AdmissionInv'
<1> DEFINE t == [attempt[a] EXCEPT !.pc = "after"]
<1>1. TypeOK /\ AttemptInv(a) /\ attempt[a].pc = "committed" BY DEF AdmissionInv, Committed
<1>2. attempt[a].permit \in Permits /\ attempt[a].at \in Isolates /\ attempt[a].permit \in registered
  BY <1>1 DEF AttemptInv, Path
<1>3. /\ t \in AttemptRecords /\ t.pc = "after" /\ t.at = attempt[a].at
      /\ t.permit = attempt[a].permit
  <2>1. attempt[a] \in AttemptRecords /\ t \in AttemptRecords BY <1>1, NextRecord
  <2>2. t.pc = "after" /\ t.at = attempt[a].at /\ t.permit = attempt[a].permit
    BY <2>1 DEF AttemptRecords
  <2> QED BY <2>1, <2>2
<1>4. attempt' = [attempt EXCEPT ![a] = t] BY <1>1, NextRecord DEF Committed
<1> HIDE DEF t
<1> QED BY <1>1, <1>2, <1>3, <1>4, RequestQueues DEF Committed

\* The preflight refuses, or lets the attempt commit.
LEMMA PreflightKeeps ==
  ASSUME AdmissionAssumption, AdmissionInv, NEW a \in Attempts, Preflight(a)
  PROVE  AdmissionInv'
<1>1. TypeOK /\ AttemptInv(a) /\ attempt[a].pc = "preflight" BY DEF AdmissionInv, Preflight
<1>2. UNCHANGED <<store, ended, isolate, settled, faults>> BY DEF Preflight
<1>3. PICK t \in AttemptRecords : /\ attempt' = [attempt EXCEPT ![a] = t]
                                  /\ t.permit = attempt[a].permit /\ t.at = attempt[a].at
                                  /\ t.pc = "commit" \/ (t.pc = "answered" /\ t.code # "registered")
  <2>1. {"tool_allowlist_entry_conflict", "tool_allowlist_capacity"} \subseteq Codes
    BY DEF Codes, TerminalRejections
  <2>2. ASSUME NEW code \in Codes, code # "registered", Answer(a, code)
        PROVE  \E t \in AttemptRecords : /\ attempt' = [attempt EXCEPT ![a] = t]
                                         /\ t.permit = attempt[a].permit /\ t.at = attempt[a].at
                                         /\ t.pc = "commit" \/ (t.pc = "answered" /\ t.code # "registered")
    <3> DEFINE t == [attempt[a] EXCEPT !.pc = "answered", !.code = code]
    <3>1. t \in AttemptRecords /\ attempt' = [attempt EXCEPT ![a] = t] BY <1>1, <2>2, NextRecord
    <3>2. /\ t.permit = attempt[a].permit /\ t.at = attempt[a].at
          /\ t.pc = "answered" /\ t.code # "registered"
      BY <1>1, <2>2 DEF TypeOK, AttemptRecords
    <3> QED BY <3>1, <3>2
  <2>3. ASSUME Goto(a, "commit")
        PROVE  \E t \in AttemptRecords : /\ attempt' = [attempt EXCEPT ![a] = t]
                                         /\ t.permit = attempt[a].permit /\ t.at = attempt[a].at
                                         /\ t.pc = "commit" \/ (t.pc = "answered" /\ t.code # "registered")
    <3> DEFINE t == [attempt[a] EXCEPT !.pc = "commit"]
    <3>1. t \in AttemptRecords /\ attempt' = [attempt EXCEPT ![a] = t] BY <1>1, <2>3, NextRecord
    <3>2. t.permit = attempt[a].permit /\ t.at = attempt[a].at /\ t.pc = "commit"
      BY <1>1 DEF TypeOK, AttemptRecords
    <3> QED BY <3>1, <3>2
  <2>4. \/ Goto(a, "commit") \/ Answer(a, "tool_allowlist_entry_conflict")
        \/ Answer(a, "tool_allowlist_capacity")
    BY DEF Preflight
  <2>5. CASE Goto(a, "commit") BY <2>3, <2>5
  <2>6. CASE Answer(a, "tool_allowlist_entry_conflict") \/ Answer(a, "tool_allowlist_capacity")
    BY <2>1, <2>2, <2>6
  <2> QED BY <2>4, <2>5, <2>6
<1>4. AttemptInv(a)'
  <2>1. attempt'[a] = t BY <1>1, <1>3 DEF TypeOK
  <2> QED BY <2>1, <1>1, <1>3 DEF AttemptInv, Path
<1>5. /\ settled' \in [Permits -> {"open", "registered", "rejected"}]
      /\ \A q \in Permits : settled'[q] = "registered" => q \in registered'
      /\ ended' \in Nat /\ faults' \in Nat
  BY <1>2 DEF AdmissionInv, TypeOK, store
<1> QED BY <1>1, <1>2, <1>3, <1>4, <1>5, AttemptMoves

\* The durable object stores the registration, repeats or refuses.
LEMMA CommitKeeps ==
  ASSUME AdmissionAssumption, AdmissionInv, NEW a \in Attempts, Commit(a)
  PROVE  AdmissionInv'
<1> DEFINE p == attempt[a].permit
<1>1. TypeOK /\ StoreInv /\ AttemptInv(a) /\ attempt[a].pc = "commit" BY DEF AdmissionInv, Commit
<1>2. p \in Permits /\ attempt[a].at \in Isolates BY <1>1 DEF AttemptInv, Path
<1>3. UNCHANGED <<ended, isolate, settled>> /\ faults' \in Nat /\ (Store(p) \/ UNCHANGED store)
  BY <1>1 DEF Commit, TypeOK
<1>4. Decision(p) \in Codes BY DEF Decision, Codes, TerminalRejections
<1>5. registered \subseteq registered' /\ (Store(p) /\ Decision(p) = "registered" => p \in registered')
  BY <1>1, <1>2, <1>3, StoreKeeps
<1>6. \A q \in Permits : settled'[q] = "registered" => q \in registered'
  BY <1>3, <1>5 DEF AdmissionInv
<1>7. CASE Goto(a, "committed") /\ Store(p) /\ Decision(p) = "registered"
  <2> DEFINE t == [attempt[a] EXCEPT !.pc = "committed"]
  <2>1. t \in AttemptRecords /\ attempt' = [attempt EXCEPT ![a] = t] BY <1>1, <1>7, NextRecord
  <2>2. t.permit = p /\ t.at = attempt[a].at /\ t.pc = "committed"
    BY <1>1 DEF TypeOK, AttemptRecords
  <2> HIDE DEF t
  <2>3. attempt'[a] = t BY <1>1, <2>1 DEF TypeOK
  <2>4. AttemptInv(a)' BY <2>2, <2>3, <1>2, <1>5, <1>7 DEF AttemptInv, Path
  <2> QED BY <1>1, <1>2, <1>3, <1>6, <2>1, <2>2, <2>4, AttemptMoves DEF TypeOK
<1>8. ASSUME NEW code \in Codes, code # "registered", Answer(a, code) PROVE AdmissionInv'
  <2> DEFINE t == [attempt[a] EXCEPT !.pc = "answered", !.code = code]
  <2>1. t \in AttemptRecords /\ attempt' = [attempt EXCEPT ![a] = t] BY <1>1, <1>8, NextRecord
  <2>2. t.pc = "answered" /\ t.code = code BY <1>1 DEF TypeOK, AttemptRecords
  <2> HIDE DEF t
  <2>3. attempt'[a] = t BY <1>1, <2>1 DEF TypeOK
  <2>4. AttemptInv(a)' BY <2>2, <2>3, <1>8 DEF AttemptInv, Path
  <2> QED BY <1>1, <1>2, <1>3, <1>6, <2>1, <2>2, <2>4, AttemptMoves DEF TypeOK
<1>9. "durable_admission_unavailable" \in Codes BY DEF Codes
<1> QED BY <1>4, <1>7, <1>8, <1>9 DEF Commit

\* The core gives up on an attempt, which runs on.
LEMMA TimeoutKeeps ==
  ASSUME AdmissionAssumption, AdmissionInv, NEW a \in Attempts, Timeout(a)
  PROVE  AdmissionInv'
<1> DEFINE t == [attempt[a] EXCEPT !.heard = FALSE]
<1>1. TypeOK /\ AttemptInv(a) /\ attempt[a] \in AttemptRecords BY DEF AdmissionInv, TypeOK
<1>2. UNCHANGED <<store, ended, isolate, settled, faults>> BY DEF Timeout
<1>3. /\ t \in AttemptRecords /\ t.pc = attempt[a].pc /\ t.at = attempt[a].at
      /\ t.permit = attempt[a].permit /\ t.code = attempt[a].code
      /\ attempt' = [attempt EXCEPT ![a] = t]
  BY <1>1 DEF AttemptRecords, Timeout, TypeOK
<1> HIDE DEF t
<1>4. AttemptInv(a)'
  <2>1. attempt'[a] = t BY <1>1, <1>3 DEF TypeOK
  <2>2. \A w : Busy(w)' = Busy(w) /\ Running(w)' = Running(w) BY <1>2 DEF Busy, Running
  <2> QED BY <2>1, <2>2, <1>1, <1>2, <1>3 DEF AttemptInv, store
<1>5. /\ settled' \in [Permits -> {"open", "registered", "rejected"}]
      /\ \A q \in Permits : settled'[q] = "registered" => q \in registered'
      /\ ended' \in Nat /\ faults' \in Nat
  BY <1>2 DEF AdmissionInv, TypeOK, store
<1> QED BY <1>1, <1>2, <1>3, <1>4, <1>5, AttemptMoves

\* The core concludes from an answer.
LEMMA ReceiveKeeps ==
  ASSUME AdmissionAssumption, AdmissionInv, NEW a \in Attempts, Receive(a)
  PROVE  AdmissionInv'
<1> DEFINE p == attempt[a].permit
<1>1. TypeOK /\ AttemptInv(a) /\ attempt[a] \in AttemptRecords /\ attempt[a].pc = "answered"
  BY DEF AdmissionInv, TypeOK, Receive
<1>2. UNCHANGED <<store, ended, isolate, faults>> /\ attempt' = [attempt EXCEPT ![a] = NoAttempt]
  BY DEF Receive
<1>3. NoAttempt \in AttemptRecords /\ NoAttempt.pc = "idle" BY DEF NoAttempt, AttemptRecords
<1>4. AttemptInv(a)'
  <2>1. attempt'[a] = NoAttempt BY <1>1, <1>2 DEF TypeOK
  <2> QED BY <2>1, <1>3 DEF AttemptInv, Path
<1>5. Conclusion(a) \in {"open", "registered", "rejected"}
      /\ (Conclusion(a) = "registered" => p \in registered)
  BY <1>1 DEF Conclusion, ReceiptBound, AttemptInv
<1>6. /\ settled' \in [Permits -> {"open", "registered", "rejected"}]
      /\ \A q \in Permits : settled'[q] = "registered" => q \in registered'
      /\ ended' \in Nat /\ faults' \in Nat
  BY <1>2, <1>5 DEF Receive, AdmissionInv, TypeOK, store
<1> QED BY <1>1, <1>2, <1>3, <1>4, <1>6, AttemptMoves

\* More leases have ended.
LEMMA LeaseEndsKeeps ==
  ASSUME AdmissionInv, LeaseEnds
  PROVE  AdmissionInv'
<1>1. UNCHANGED <<store, isolate, attempt, settled, faults>> /\ ended' \in Nat
  BY DEF LeaseEnds, AdmissionInv, TypeOK
<1>2. TypeOK' BY <1>1 DEF AdmissionInv, TypeOK, store
<1>3. StoreInv' BY <1>1 DEF AdmissionInv, StoreInv, store, Used, Holds, Covers, Newer, Retained
<1>4. ASSUME NEW v \in Isolates PROVE QueueInv(v)' /\ ViewInv(v)' /\ ProjectionInv(v)'
  <2>1. QueueInv(v)' BY <1>1 DEF AdmissionInv, QueueInv
  <2>2. ViewInv(v)' BY <1>1 DEF AdmissionInv, ViewInv, store
  <2>3. ProjectionInv(v)' BY <1>1 DEF AdmissionInv, ProjectionInv
  <2> QED BY <2>1, <2>2, <2>3
<1>5. \A b \in Attempts : AttemptInv(b)'
  BY <1>1 DEF AdmissionInv, AttemptInv, Busy, Running, store
<1> QED BY <1>1, <1>2, <1>3, <1>4, <1>5 DEF AdmissionInv, store

\* Every step keeps the invariant.
LEMMA AdmissionStep == AdmissionAssumption /\ AdmissionInv /\ [Next]_vars => AdmissionInv'
<1> SUFFICES ASSUME AdmissionAssumption, AdmissionInv, [Next]_vars PROVE AdmissionInv'
  OBVIOUS
<1>1. CASE LeaseEnds BY <1>1, LeaseEndsKeeps
<1>2. ASSUME NEW w \in Isolates,
             \/ Snapshot(w) \/ SnapshotFails(w) \/ FinishRehydration(w) \/ Restart(w)
             \/ \E a \in Agents : ProjectIntent(w, a)
      PROVE  AdmissionInv'
  BY <1>2, SnapshotKeeps, SnapshotFailsKeeps, FinishRehydrationKeeps, RestartKeeps,
     ProjectIntentKeeps
<1>3. ASSUME NEW a \in Attempts,
             \/ Preflight(a) \/ Commit(a) \/ Committed(a) \/ Timeout(a) \/ Receive(a)
             \/ \E w \in Isolates :
                  \/ Readyz(a, w)
                  \/ \E p \in Permits, defect \in Defects : Register(a, p, w, defect)
      PROVE  AdmissionInv'
  BY <1>3, PreflightKeeps, CommitKeeps, CommittedKeeps, TimeoutKeeps, ReceiveKeeps, ReadyzKeeps,
     RegisterKeeps
<1>4. CASE UNCHANGED vars
  <2>1. UNCHANGED <<store, ended, isolate, attempt, settled, faults>> BY <1>4 DEF vars
  <2>2. TypeOK' BY <2>1 DEF AdmissionInv, TypeOK, store
  <2>3. StoreInv' BY <2>1 DEF AdmissionInv, StoreInv, store, Used, Holds, Covers, Newer, Retained
  <2>4. ASSUME NEW v \in Isolates PROVE QueueInv(v)' /\ ViewInv(v)' /\ ProjectionInv(v)'
    <3>1. QueueInv(v)' BY <2>1 DEF AdmissionInv, QueueInv
    <3>2. ViewInv(v)' BY <2>1 DEF AdmissionInv, ViewInv, store
    <3>3. ProjectionInv(v)' BY <2>1 DEF AdmissionInv, ProjectionInv
    <3> QED BY <3>1, <3>2, <3>3
  <2>5. \A b \in Attempts : AttemptInv(b)'
    BY <2>1 DEF AdmissionInv, AttemptInv, Busy, Running, store
  <2> QED BY <2>1, <2>2, <2>3, <2>4, <2>5 DEF AdmissionInv, store
<1> QED BY <1>1, <1>2, <1>3, <1>4 DEF Next

\* AdmissionInv holds throughout.
LEMMA AdmissionInvariance == ASSUME AdmissionAssumption PROVE Spec => []AdmissionInv
<1>1. Init => AdmissionInv BY AdmissionInit
<1>2. AdmissionInv /\ [Next]_vars => AdmissionInv' BY AdmissionStep
<1> QED BY <1>1, <1>2, PTL DEF Spec

\* The types, for any isolates, attempts and permits.
THEOREM AdmissionTypeCorrect == ASSUME AdmissionAssumption PROVE Spec => []TypeOK
<1>1. AdmissionInv => TypeOK BY DEF AdmissionInv
<1> QED BY <1>1, AdmissionInvariance, PTL

\* An isolate never serves a projection that is not one of the store's
\* (runRehydration).
THEOREM ProjectionIsOneRevision == ASSUME AdmissionAssumption PROVE Spec => []ProjectionIsItsRevision
<1>1. AdmissionInv => ProjectionIsItsRevision
  BY DEF AdmissionInv, ProjectionInv, ProjectionIsItsRevision
<1> QED BY <1>1, AdmissionInvariance, PTL

\* Whoever is told that a permit is registered was told by an isolate that
\* projects it or what came after it (register).
THEOREM RegisteredAgentProjected == ASSUME AdmissionAssumption PROVE Spec => []RegisteredIsProjected
<1>1. AdmissionInv => RegisteredIsProjected
  BY DEF AdmissionInv, AttemptInv, RegisteredIsProjected, Covers
<1> QED BY <1>1, AdmissionInvariance, PTL

\* The allowlist owners of the durable object are those its registrations
\* need, whatever replaced what (commerceAdmissionRegister).
THEOREM OwnersOfRegistrations == ASSUME AdmissionAssumption PROVE Spec => []OwnersMatchRegistrations
<1>1. AdmissionAssumption /\ AdmissionInv => OwnersMatchRegistrations
  <2> SUFFICES ASSUME AdmissionAssumption, AdmissionInv, NEW e \in Entries
               PROVE (owner[e] # None) <=>
                       (\E a \in Agents : registration[a] # None /\ entry[registration[a]] = e)
    BY DEF OwnersMatchRegistrations
  <2>1. ASSUME NEW a \in Agents, registration[a] # None, entry[registration[a]] = e
        PROVE  owner[e] # None
    <3>1. registration[a] \in Permits /\ owner[e] = content[registration[a]]
      BY <2>1 DEF AdmissionInv, StoreInv, TypeOK, Views
    <3> QED BY <3>1 DEF AdmissionAssumption
  <2> QED BY <2>1 DEF AdmissionInv, StoreInv, Holds
<1> QED BY <1>1, AdmissionInvariance, PTL

\* A delayed answer never makes an isolate project an older registration of
\* an agent (commerce-admission-provider.js:305).
THEOREM ProjectionGoesForward == ASSUME AdmissionAssumption PROVE Spec => ProjectionNeverGoesBack
<1>1. ASSUME AdmissionInv, [Next]_vars, NEW w \in Isolates
      PROVE  \/ isolate'[w].revision = isolate[w].revision
             \/ isolate'[w].revision = None
             \/ isolate[w].snapshot # None /\ isolate'[w].revision = isolate[w].snapshot
  <2>1. /\ isolate \in [Isolates -> IsolateRecords]
        /\ \A v \in Isolates : isolate[v] \in IsolateRecords
    BY <1>1 DEF AdmissionInv, TypeOK
  <2>2. CASE UNCHANGED isolate BY <2>2
  <2>3. ASSUME NEW v \in Isolates, Snapshot(v) \/ SnapshotFails(v) PROVE isolate'[w].revision = isolate[w].revision
    <3>1. CASE Failed(v, Running(v))
      BY <2>1, <3>1 DEF Failed, Dequeued, IsolateRecords
    <3>2. CASE isolate' = [isolate EXCEPT ![v] = Dequeued(v)]
      BY <2>1, <3>2 DEF Dequeued, IsolateRecords
    <3>3. CASE isolate' = [isolate EXCEPT ![v].rehydrated = FALSE,
                                          ![v].entries = [e \in Entries |-> None],
                                          ![v].snapshot = registration,
                                          ![v].left = Used(registration)]
      BY <2>1, <3>3 DEF IsolateRecords
    <3> QED BY <2>3, <3>1, <3>2, <3>3 DEF Snapshot, SnapshotFails
  <2>4. ASSUME NEW v \in Isolates, FinishRehydration(v)
        PROVE  \/ isolate'[w].revision = isolate[w].revision
               \/ isolate[w].snapshot # None /\ isolate'[w].revision = isolate[w].snapshot
    BY <2>1, <2>4 DEF FinishRehydration, Busy, Dequeued, IsolateRecords
  <2>5. ASSUME NEW v \in Isolates, Restart(v)
        PROVE  isolate'[w].revision = isolate[w].revision \/ isolate'[w].revision = None
    BY <2>1, <2>5 DEF Restart, ColdIsolate
  <2>6. ASSUME NEW v \in Isolates, NEW a \in Agents, ProjectIntent(v, a)
        PROVE  isolate'[w].revision = isolate[w].revision
    BY <2>1, <2>6 DEF ProjectIntent, IsolateRecords
  <2>7. ASSUME NEW v \in Isolates, NEW a, isolate' = Enqueue(v, a)
        PROVE  isolate'[w].revision = isolate[w].revision
    BY <2>1, <2>7 DEF Enqueue, IsolateRecords
  <2>8. ASSUME NEW a \in Attempts, Preflight(a) \/ Commit(a) \/ Timeout(a) \/ Receive(a)
        PROVE  UNCHANGED isolate
    BY <2>8 DEF Preflight, Commit, Timeout, Receive
  <2>9. ASSUME NEW a \in Attempts, Committed(a) PROVE isolate'[w].revision = isolate[w].revision
    <3>1. attempt[a].at \in Isolates BY <1>1, <2>9 DEF Committed, AdmissionInv, AttemptInv, Path
    <3> QED BY <3>1, <2>7, <2>9 DEF Committed
  <2>10. ASSUME NEW a \in Attempts, NEW v \in Isolates,
                Readyz(a, v) \/ \E p \in Permits, defect \in Defects : Register(a, p, v, defect)
         PROVE  isolate'[w].revision = isolate[w].revision
    BY <2>7, <2>10 DEF Readyz, Register
  <2>11. CASE LeaseEnds \/ UNCHANGED vars BY <2>11 DEF LeaseEnds, vars
  <2> QED BY <1>1, <2>3, <2>4, <2>5, <2>6, <2>8, <2>9, <2>10, <2>11 DEF Next
<1>2. AdmissionInv /\ [Next]_vars => [ProjectionKept]_vars
  <2> SUFFICES ASSUME AdmissionInv, [Next]_vars PROVE ProjectionKept
    OBVIOUS
  <2> SUFFICES ASSUME NEW w \in Isolates, NEW a \in Agents, isolate[w].revision # None,
                      isolate'[w].revision # None, isolate[w].revision[a] # None
               PROVE  /\ isolate'[w].revision[a] # None
                      /\ ~Newer(isolate[w].revision[a], isolate'[w].revision[a])
    BY DEF ProjectionKept
  <2>1. ViewInv(w) BY DEF AdmissionInv
  <2>2. CASE isolate'[w].revision = isolate[w].revision
    <3>1. Reaches(isolate[w].revision, isolate[w].revision)
      BY AdmissionAssumption, <2>1, ReachesItself DEF ViewInv, GoodView
    <3> QED BY <2>2, <3>1 DEF Reaches
  <2>3. CASE isolate[w].snapshot # None /\ isolate'[w].revision = isolate[w].snapshot
    BY <2>1, <2>3 DEF ViewInv, Reaches
  <2> QED BY <1>1, <2>2, <2>3
<1> QED BY <1>2, AdmissionInvariance, PTL DEF Spec, ProjectionNeverGoesBack
-----------------------------------------------------------------------------
\* A permit that has been refused for good.

\* What the durable object would say of a permit stays while it stands.
LEMMA StoreStands ==
  ASSUME UNCHANGED <<store, ended>>, NEW p \in Permits
  PROVE  /\ Storable(p)' = Storable(p) /\ Stored(p)' = Stored(p)
         /\ Rejected(p)' = Rejected(p)
<1>1. /\ registration' = registration /\ owner' = owner /\ fence' = fence
      /\ outcomes' = outcomes /\ registered' = registered /\ ended' = ended
  BY DEF store
<1>2. Retained' = Retained /\ JournalFull' = JournalFull /\ OutcomeCapacity' = OutcomeCapacity
  BY <1>1 DEF Retained, JournalFull, OutcomeCapacity, LeaseExpired
<1>3. /\ LeaseExpired(p)' = LeaseExpired(p) /\ StalePermit(p)' = StalePermit(p)
      /\ AgentRevisionConflict(p)' = AgentRevisionConflict(p)
      /\ RetiredEntries(p)' = RetiredEntries(p)
      /\ RegistrationsAfter(p)' = RegistrationsAfter(p)
  BY <1>1 DEF LeaseExpired, StalePermit, AgentRevisionConflict, RetiredEntries, RegistrationsAfter
<1>4. OwnersAfter(p)' = OwnersAfter(p) BY <1>1, <1>3 DEF OwnersAfter
<1>5. Decision(p)' = Decision(p) BY <1>1, <1>2, <1>3, <1>4 DEF Decision
<1>6. Storable(p)' = Storable(p) /\ Stored(p)' = Stored(p)
  BY <1>1, <1>3 DEF Storable, Stored
<1>7. Barred(p)' = Barred(p) BY <1>1, <1>5 DEF Barred
<1> QED BY <1>6, <1>7 DEF Rejected

\* The end of a lease opens no way to a permit that was refused: without the
\* limit of the journal no decision depends on other leases.
LEMMA LeaseEndsRefusesOn ==
  ASSUME AdmissionAssumption, AdmissionInv, RoomInv, HasRoom, LeaseEnds,
         NEW p \in Permits
  PROVE  (Storable(p)' => Storable(p)) /\ Stored(p)' = Stored(p) /\ (Rejected(p) => Rejected(p)')
<1>1. /\ registration' = registration /\ owner' = owner /\ fence' = fence
      /\ outcomes' = outcomes /\ registered' = registered /\ ended' = ended + 1
      /\ ended \in Nat /\ epoch[p] \in Nat
  BY DEF LeaseEnds, store, AdmissionInv, TypeOK, AdmissionAssumption
<1>2. Retained' = Retained /\ JournalFull' = JournalFull BY <1>1 DEF Retained, JournalFull
<1>3. /\ LeaseExpired(p) => LeaseExpired(p)'
      /\ StalePermit(p)' = StalePermit(p)
      /\ AgentRevisionConflict(p)' = AgentRevisionConflict(p)
      /\ RetiredEntries(p)' = RetiredEntries(p)
      /\ RegistrationsAfter(p)' = RegistrationsAfter(p)
  BY <1>1 DEF LeaseExpired, StalePermit, AgentRevisionConflict, RetiredEntries, RegistrationsAfter
<1>4. OwnersAfter(p)' = OwnersAfter(p) BY <1>1, <1>3 DEF OwnersAfter
<1>5. Storable(p)' => Storable(p) BY <1>1, <1>3 DEF Storable
<1>6. ASSUME Storable(p)' PROVE Decision(p)' = Decision(p)
  <2>1. p \notin Retained BY <1>5, <1>6 DEF Storable, RoomInv
  <2>2. ~JournalFull BY <2>1 DEF HasRoom
  <2>3. ~OutcomeCapacity /\ ~OutcomeCapacity' BY <2>2, <1>2 DEF OutcomeCapacity
  <2>4. ~LeaseExpired(p)' /\ ~LeaseExpired(p) BY <1>3, <1>6 DEF Storable
  <2> QED BY <1>1, <1>2, <1>3, <1>4, <2>3, <2>4 DEF Decision
<1>7. Stored(p)' = Stored(p) BY <1>1 DEF Stored
<1>8. Storable(p)' /\ Barred(p) => Barred(p)' BY <1>1, <1>6 DEF Barred
<1> QED BY <1>5, <1>7, <1>8 DEF Rejected

\* Reservations that are settled or over stay so.
LEMMA EarlierStayClosed ==
  ASSUME NEW p \in Permits, EarlierClosed(p),
         \A q \in Permits : settled[q] # "open" => settled'[q] # "open",
         \A q \in Permits : LeaseExpired(q) => LeaseExpired(q)'
  PROVE  EarlierClosed(p)'
BY DEF EarlierClosed

\* What the durable object holds passes the checks of an isolate.
LEMMA StoredIsAdmitted ==
  ASSUME AdmissionAssumption, AdmissionInv, NEW p \in Permits, Stored(p)
  PROVE  Admits(p, ProjectionOf(registration))
<1>1. GoodView(registration) /\ registration \in Views BY SnapshotIsGood DEF AdmissionInv, TypeOK
<1>2. ProjectionOf(registration) \in [Entries -> Contents \cup {None}]
      /\ Partial(registration, {}, ProjectionOf(registration))
  BY <1>1, ProjectionShows DEF GoodView, Partial
<1> QED BY <1>1, <1>2, HeldIsAdmitted DEF Stored

\* A request whose isolate did not move under it.
LEMMA PathRests ==
  ASSUME AdmissionAssumption, AdmissionInv, NEW b \in Attempts, PathInv(b),
         UNCHANGED <<store, ended>>,
         \A q \in Permits : settled[q] # "open" => settled'[q] # "open",
         /\ attempt'[b].pc = attempt[b].pc /\ attempt'[b].permit = attempt[b].permit
         /\ attempt'[b].at = attempt[b].at /\ attempt'[b].code = attempt[b].code,
         attempt[b].at \in Isolates =>
           LET i == isolate[attempt[b].at]
               j == isolate'[attempt[b].at]
           IN  /\ j.entries = i.entries /\ j.revision = i.revision
               /\ j.snapshot = i.snapshot /\ j.left = i.left
               /\ attempt[b].pc = "before" /\ Busy(attempt[b].at)' =>
                    Running(attempt[b].at)' = Running(attempt[b].at)
  PROVE  PathInv(b)'
<1> DEFINE p == attempt[b].permit
           w == attempt[b].at
<1>1. p \in Permits \cup {None} /\ AttemptInv(b) BY DEF AdmissionInv, TypeOK, AttemptRecords
<1>2. CASE p = None
  <2>1. attempt[b].pc \notin Path BY <1>1, <1>2 DEF AttemptInv, AdmissionAssumption
  <2> QED BY <2>1, <1>2 DEF PathInv, Path
<1>3. CASE p \in Permits
  <2>1. EarlierClosed(p) => EarlierClosed(p)'
    BY <1>3, EarlierStayClosed DEF LeaseExpired
  <2>2. /\ Storable(p)' = Storable(p) /\ Stored(p)' = Stored(p) /\ Rejected(p)' = Rejected(p)
        /\ registration' = registration
    BY <1>3, StoreStands DEF store
  <2>3. Busy(w)' /\ w \in Isolates => Busy(w) BY DEF Busy
  <2>4. attempt[b].pc \in Path => w \in Isolates BY <1>1 DEF AttemptInv
  <2>5. EarlierClosed(attempt[b].permit)' <=> EarlierClosed(p)' OBVIOUS
  <2> QED
    <3>1. (attempt[b].permit # None => EarlierClosed(p))' BY <2>1, <1>3 DEF PathInv
    <3> QED BY <2>1, <2>2, <2>3, <2>4, <1>3, <3>1 DEF PathInv, Path
<1> QED BY <1>1, <1>2, <1>3

\* The durable object stores a permit: every request that was sent before is
\* of an older or an equal permit, and the permit itself was never refused.
LEMMA StoringShutsOut ==
  ASSUME AdmissionAssumption, AdmissionInv, RoomInv, HasRoom, NEW a \in Attempts,
         attempt[a].pc = "commit", NEW r \in Permits, r = attempt[a].permit, Store(r),
         Decision(r) = "registered", r \notin Retained, UNCHANGED <<ended, settled>>
  PROVE  /\ Storable(r) /\ ~Barred(r) /\ ~Flawed(r)
         /\ registered' = Retained' /\ registered' = registered \cup {r}
         /\ \A p \in Permits : EarlierClosed(p) => ~Storable(p)' /\ EarlierClosed(p)'
         /\ \A p \in Permits : Stored(p)' => p = r \/ Stored(p)
<1>1. /\ registration' = RegistrationsAfter(r) /\ fence' = r
      /\ outcomes' = Append(IF JournalFull THEN Tail(outcomes) ELSE outcomes, r)
      /\ registered' = registered \cup {r}
  BY DEF Store
<1>2. ~LeaseExpired(r) /\ ~StalePermit(r) BY StoredDecision
<1>3. Storable(r) /\ registered = Retained BY <1>2 DEF Storable, RoomInv
<1>4. ~Flawed(r) /\ ~Barred(r) BY <1>3 DEF RoomInv, PathInv, Path, Barred
<1>5. registered' = Retained'
  <2>1. outcomes' = Append(outcomes, r) /\ outcomes \in Seq(Permits)
    BY <1>1 DEF HasRoom, AdmissionInv, TypeOK
  <2>2. /\ Len(outcomes') = Len(outcomes) + 1 /\ outcomes'[Len(outcomes) + 1] = r
        /\ Len(outcomes) \in Nat /\ \A i \in 1..Len(outcomes) : outcomes'[i] = outcomes[i]
    BY <2>1
  <2>3. Retained' = {outcomes'[i] : i \in 1..Len(outcomes')} BY DEF Retained
  <2>4. \A i \in 1..Len(outcomes') : i \in 1..Len(outcomes) \/ i = Len(outcomes) + 1 BY <2>2
  <2>5. 1..Len(outcomes) \subseteq 1..Len(outcomes') /\ Len(outcomes) + 1 \in 1..Len(outcomes')
    BY <2>2
  <2>6. Retained' = Retained \cup {r} BY <2>2, <2>3, <2>4, <2>5 DEF Retained
  <2> QED BY <2>6, <1>1, <1>3
<1>6. ASSUME NEW p \in Permits, EarlierClosed(p) PROVE ~Storable(p)' /\ EarlierClosed(p)'
  <2>1. ~Newer(p, r)
    <3> SUFFICES ASSUME Newer(p, r) PROVE FALSE
      OBVIOUS
    <3>1. settled[r] # "open" BY <1>2, <1>6 DEF EarlierClosed
    <3>2. settled[r] # "registered" BY <1>3 DEF AdmissionInv, Storable
    <3>3. settled[r] = "rejected" BY <3>1, <3>2 DEF AdmissionInv, TypeOK
    <3> QED BY <3>3, <1>3, <1>4 DEF RoomInv, Rejected
  <2>2. r # None BY DEF AdmissionAssumption
  <2>3. StalePermit(p)' BY <2>1, <2>2, <1>1, StaleIsNotNewer DEF StalePermit
  <2>4. EarlierClosed(p)' BY <1>6, EarlierStayClosed DEF LeaseExpired
  <2> QED BY <2>3, <2>4 DEF Storable
<1>7. ASSUME NEW p \in Permits, Stored(p)', p # r PROVE Stored(p)
  <2>1. agent[p] \in Agents /\ agent[r] \in Agents /\ registration \in Views
    BY DEF AdmissionAssumption, AdmissionInv, TypeOK
  <2>2. registration'[agent[r]] = r /\ \A b \in Agents \ {agent[r]} : registration'[b] = registration[b]
    BY <1>1, <2>1 DEF RegistrationsAfter, Views
  <2> QED BY <1>7, <2>1, <2>2 DEF Stored
<1> QED BY <1>1, <1>3, <1>4, <1>5, <1>6, <1>7

\* No step opens what the core has closed.
LEMMA SettledStays ==
  ASSUME [Next]_vars, NEW q \in Permits, settled[q] # "open", TypeOK
  PROVE  settled'[q] = settled[q]
<1>1. CASE UNCHANGED settled BY <1>1
<1>2. ASSUME NEW a \in Attempts, Receive(a) PROVE settled'[q] = settled[q]
  BY <1>2 DEF Receive, TypeOK
<1> QED BY <1>1, <1>2 DEF Next, vars, LeaseEnds, Snapshot, SnapshotFails, FinishRehydration, Restart,
      ProjectIntent, Preflight, Commit, Committed, Timeout, Readyz, Register

\* What the core concluded stays true while the durable object stands.
LEMMA StandingRoom ==
  ASSUME AdmissionInv, RoomInv, UNCHANGED <<store, ended>>,
         \A q \in Permits : settled[q] # "open" => settled'[q] = settled[q],
         \A q \in Permits : settled[q] = "open" /\ settled'[q] # "open" =>
            EarlierClosed(q) /\ (settled'[q] = "rejected" => Rejected(q)),
         \A b \in Attempts : PathInv(b)'
  PROVE  RoomInv'
<1>1. registered' = Retained' /\ \A p \in registered' : ~Flawed(p)
  BY DEF RoomInv, store, Retained
<1>2. ASSUME NEW p \in Permits, settled'[p] # "open" PROVE EarlierClosed(p)'
  <2>1. EarlierClosed(p) BY <1>2 DEF RoomInv
  <2> QED BY <2>1, EarlierStayClosed DEF LeaseExpired
<1>3. ASSUME NEW p \in Permits, settled'[p] = "rejected" PROVE Rejected(p)'
  <2>1. Rejected(p)
    <3>1. CASE settled[p] = "open" BY <1>3, <3>1
    <3>2. CASE settled[p] # "open" BY <1>3, <3>2 DEF RoomInv
    <3> QED BY <3>1, <3>2
  <2> QED BY <2>1, StoreStands
<1> QED BY <1>1, <1>2, <1>3 DEF RoomInv, Flawed

\* Nothing is registered, so nothing is missing from the journal.
LEMMA RoomInit == AdmissionAssumption /\ Init => RoomInv
<1> SUFFICES ASSUME AdmissionAssumption, Init PROVE RoomInv
  OBVIOUS
<1>1. Retained = {} BY DEF Init, Retained
<1>2. \A a \in Attempts : PathInv(a)
  BY DEF Init, NoAttempt, PathInv, Path
<1> QED BY <1>1, <1>2 DEF Init, RoomInv

\* The end of a rehydration leaves a request where the checks of its isolate
\* and those of the durable object agree.
LEMMA RehydratedPath ==
  ASSUME AdmissionAssumption, AdmissionInv, RoomInv, NEW w \in Isolates,
         isolate[w].queue # <<>>, NEW i \in IsolateRecords, i.snapshot = None,
         i.entries = isolate[w].entries, isolate' = [isolate EXCEPT ![w] = i],
         \/ i.revision = isolate[w].revision /\ isolate[w].snapshot = None
         \/ isolate[w].snapshot # None /\ i.revision = isolate[w].snapshot,
         \/ /\ Rehydrated(Running(w))
            /\ attempt[Running(w)].pc = "before" =>
                 /\ i.entries = ProjectionOf(i.revision)
                 /\ Storable(attempt[Running(w)].permit) => i.revision = registration
                 /\ Stored(attempt[Running(w)].permit) =>
                      Admits(attempt[Running(w)].permit, i.entries)
         \/ Answer(Running(w), "projection_unavailable"),
         UNCHANGED <<store, ended, settled>>
  PROVE  RoomInv'
<1> DEFINE a == Running(w)
<1>0. TypeOK /\ QueueInv(w) BY DEF AdmissionInv
<1>1. /\ a \in Attempts /\ attempt[a].pc \in {"before", "after", "probe"} /\ attempt[a].at = w
      /\ AttemptInv(a) /\ PathInv(a)
  BY <1>0, RunningIsQueued DEF AdmissionInv, RoomInv
<1>2. isolate'[w] = i /\ \A v \in Isolates \ {w} : isolate'[v] = isolate[v]
  BY <1>0 DEF TypeOK
<1> HIDE DEF a
<1>3. /\ \A b \in Attempts \ {a} : attempt'[b] = attempt[b]
      /\ attempt'[a].permit = attempt[a].permit /\ attempt'[a].at = w
      /\ \/ /\ attempt[a].pc = "before" /\ attempt'[a].pc = "preflight"
            /\ i.entries = ProjectionOf(i.revision)
            /\ Storable(attempt[a].permit) => i.revision = registration
            /\ Stored(attempt[a].permit) => Admits(attempt[a].permit, i.entries)
         \/ attempt'[a].pc = "answered" /\ attempt'[a].code \notin TerminalRejections
  <2>1. attempt \in [Attempts -> AttemptRecords] BY <1>0 DEF TypeOK
  <2>2. CASE Goto(a, "preflight") /\ attempt[a].pc = "before" /\ Rehydrated(a)
    BY <2>1, <2>2, <1>1 DEF Goto, AttemptRecords, a, Rehydrated, Answer
  <2>3. ASSUME NEW code \in {"registered", "ready", "projection_unavailable"}, Answer(a, code)
        PROVE  /\ \A b \in Attempts \ {a} : attempt'[b] = attempt[b]
               /\ attempt'[a].permit = attempt[a].permit /\ attempt'[a].at = w
               /\ attempt'[a].pc = "answered" /\ attempt'[a].code = code
    BY <2>1, <2>3, <1>1 DEF Answer, AttemptRecords
  <2>4. \A code \in {"registered", "ready", "projection_unavailable"} : code \notin TerminalRejections
    BY DEF TerminalRejections
  <2>5. Rehydrated(a) => \/ Goto(a, "preflight") /\ attempt[a].pc = "before"
                         \/ Answer(a, "registered") \/ Answer(a, "ready")
    BY <1>1 DEF Rehydrated
  <2>6. Rehydrated(a) \/ Answer(a, "projection_unavailable") BY DEF a
  <2>7. CASE Rehydrated(a) /\ Goto(a, "preflight") /\ attempt[a].pc = "before" BY <2>2, <2>7
  <2>8. CASE \E code \in {"registered", "ready", "projection_unavailable"} : Answer(a, code)
    BY <2>3, <2>4, <2>8
  <2> QED BY <2>5, <2>6, <2>7, <2>8
<1>4. ~Busy(w)' BY <1>2 DEF Busy
<1>5. registration' = registration BY DEF store
<1>6. ASSUME NEW b \in Attempts PROVE PathInv(b)'
  <2>1. PathInv(b) /\ AttemptInv(b) BY DEF RoomInv, AdmissionInv
  <2>2. CASE b = a
    <3>0. PICK p \in Permits \cup {None} : p = attempt[a].permit /\ p = attempt'[a].permit
      BY <1>0, <1>1, <1>3 DEF TypeOK, AttemptRecords
    <3>1. CASE attempt[a].pc = "before" /\ attempt'[a].pc = "preflight"
      <4>1. p \in Permits /\ p # None
        BY <1>1, <3>0, <3>1 DEF AttemptInv, Path, AdmissionAssumption
      <4>2. /\ Storable(p)' = Storable(p) /\ Stored(p)' = Stored(p)
        BY <4>1, StoreStands
      <4>3. EarlierClosed(p)' BY <4>1, <1>1, <3>0, EarlierStayClosed DEF PathInv, LeaseExpired
      <4>4. ~Flawed(p) BY <1>1, <3>0, <3>1 DEF PathInv, Path
      <4> QED BY <2>2, <3>0, <3>1, <4>1, <4>2, <4>3, <4>4, <1>2, <1>3, <1>5 DEF PathInv, Path
    <3>2. CASE attempt'[a].pc = "answered" /\ attempt'[a].code \notin TerminalRejections
      <4>1. p # None => EarlierClosed(p)'
        BY <1>1, <3>0, EarlierStayClosed DEF PathInv, LeaseExpired
      <4> QED BY <2>2, <3>0, <3>2, <4>1, <1>3 DEF PathInv, Path
    <3> QED BY <1>3, <3>1, <3>2
  <2>3. CASE b # a /\ attempt[b].at # w
    <3>1. attempt'[b] = attempt[b]
          /\ (attempt[b].at \in Isolates => isolate'[attempt[b].at] = isolate[attempt[b].at])
      BY <2>3, <1>2, <1>3
    <3>2. attempt[b].at \in Isolates => Running(attempt[b].at)' = Running(attempt[b].at)
      BY <3>1 DEF Running
    <3> QED BY <2>1, <3>1, <3>2, PathRests
  <2>4. CASE b # a /\ attempt[b].at = w
    <3> DEFINE p == attempt[b].permit
    <3>1. attempt'[b] = attempt[b] BY <2>4, <1>3
    <3>2. CASE p = None
      <4>1. attempt[b].pc \notin Path BY <2>1, <3>2 DEF AttemptInv, AdmissionAssumption
      <4> QED BY <3>1, <3>2, <4>1 DEF PathInv, Path
    <3>3. CASE p \in Permits
      <4>1. /\ Storable(p)' = Storable(p) /\ Stored(p)' = Stored(p) /\ Rejected(p)' = Rejected(p)
        BY <3>1, <3>3, StoreStands
      <4>2. EarlierClosed(p) => EarlierClosed(p)' BY <3>1, <3>3, EarlierStayClosed DEF LeaseExpired
      <4>3. p # None BY <3>3 DEF AdmissionAssumption
      <4> QED BY <2>1, <2>4, <3>1, <4>1, <4>2, <4>3, <1>2, <1>4, <1>5 DEF PathInv, Path
    <3> QED BY <1>0, <3>2, <3>3 DEF TypeOK, AttemptRecords
  <2> QED BY <2>2, <2>3, <2>4
<1> QED BY <1>6, StandingRoom

\* A failed rehydration answers with no terminal rejection.
LEMMA RoomFailure ==
  ASSUME AdmissionAssumption, AdmissionInv, RoomInv, NEW w \in Isolates,
         isolate[w].queue # <<>>, ~Busy(w), Failed(w, Running(w)),
         UNCHANGED <<store, ended, settled>>
  PROVE  RoomInv'
<1> DEFINE i == [Dequeued(w) EXCEPT !.rehydrated =
                   IF attempt[Running(w)].pc = "after" THEN FALSE ELSE @]
<1>1. isolate[w] \in IsolateRecords /\ isolate[w].snapshot = None
  BY DEF AdmissionInv, TypeOK, Busy
<1>2. /\ i \in IsolateRecords /\ i.snapshot = None /\ i.revision = isolate[w].revision
      /\ i.entries = isolate[w].entries
  BY <1>1, DequeuedRecord DEF IsolateRecords
<1>3. isolate' = [isolate EXCEPT ![w] = i] /\ Answer(Running(w), "projection_unavailable")
  BY DEF Failed
<1> HIDE DEF i
<1> QED BY <1>1, <1>2, <1>3, RehydratedPath

\* A snapshot taken for a storable permit is the present store.
LEMMA RoomSnapshot ==
  ASSUME AdmissionAssumption, AdmissionInv, RoomInv, NEW w \in Isolates, Snapshot(w)
  PROVE  RoomInv'
<1> DEFINE a == Running(w)
<1>0. /\ TypeOK /\ StoreInv /\ ViewInv(w) /\ ProjectionInv(w) /\ isolate[w] \in IsolateRecords
      /\ registration \in Views /\ isolate[w].queue # <<>> /\ isolate[w].snapshot = None
      /\ a \in Attempts /\ attempt[a].pc \in {"before", "after", "probe"} /\ attempt[a].at = w
      /\ AttemptInv(a)
  BY RunningIsQueued DEF AdmissionInv, TypeOK, Snapshot, Busy
<1>1. UNCHANGED <<store, ended, settled>> BY DEF Snapshot
<1>2. CASE /\ Unchanged(isolate[w].revision) /\ isolate[w].rehydrated
           /\ isolate' = [isolate EXCEPT ![w] = Dequeued(w)] /\ Rehydrated(a)
  <2>1. /\ isolate[w].entries = ProjectionOf(isolate[w].revision)
        /\ isolate[w].revision = registration
    BY <1>0, <1>2 DEF ProjectionInv, Unchanged
  <2>2. ASSUME attempt[a].pc = "before", Stored(attempt[a].permit)
        PROVE  Admits(attempt[a].permit, isolate[w].entries)
    <3>1. attempt[a].permit \in Permits BY <1>0, <2>2 DEF AttemptInv, Path
    <3> QED BY <2>1, <2>2, <3>1, StoredIsAdmitted
  <2>3. /\ Dequeued(w) \in IsolateRecords /\ Dequeued(w).snapshot = None
        /\ Dequeued(w).revision = isolate[w].revision /\ Dequeued(w).entries = isolate[w].entries
    BY <1>0, DequeuedRecord
  <2> QED BY <1>0, <1>1, <1>2, <2>1, <2>2, <2>3, RehydratedPath
<1>3. CASE Failed(w, a) BY <1>0, <1>1, <1>3, RoomFailure DEF Busy
<1>4. CASE /\ ~Unchanged(isolate[w].revision)
           /\ isolate' = [isolate EXCEPT ![w].rehydrated = FALSE,
                                         ![w].entries = [e \in Entries |-> None],
                                         ![w].snapshot = registration,
                                         ![w].left = Used(registration)]
           /\ UNCHANGED attempt
  <2>1. /\ isolate'[w].queue = isolate[w].queue /\ isolate'[w].revision = isolate[w].revision
        /\ isolate'[w].snapshot = registration /\ isolate'[w].left = Used(registration)
        /\ isolate'[w].entries = [e \in Entries |-> None]
        /\ \A v \in Isolates \ {w} : isolate'[v] = isolate[v]
    BY <1>0, <1>4 DEF TypeOK, IsolateRecords
  <2>2. registration' = registration BY <1>1 DEF store
  <2>3. ASSUME NEW p \in Permits PROVE Admits(p, [e \in Entries |-> None])
    <3>1. Used([e \in Entries |-> None]) = {} BY DEF Used
    <3>2. Cardinality(Used([e \in Entries |-> None])) = 0 BY <3>1, FS_EmptySet
    <3>3. entry[p] \in Entries /\ MAX_COMMERCE_REGISTRATIONS \in Nat \ {0} BY DEF AdmissionAssumption
    <3> QED BY <3>2, <3>3 DEF Admits
  <2>4. ASSUME isolate[w].revision = registration
        PROVE  /\ [e \in Entries |-> None] = ProjectionOf(registration)
               /\ Used(registration) = {}
    <3>1. registered = {} BY <1>4, <2>4 DEF Unchanged
    <3>2. \A b \in Agents : registration[b] = None BY <1>0, <3>1 DEF StoreInv
    <3>3. Used(registration) = {} BY <1>0, <3>2 DEF Used, Views
    <3> QED BY <3>2, <3>3 DEF ProjectionOf
  <2>5. ASSUME NEW b \in Attempts PROVE PathInv(b)'
    <3>0. PathInv(b) /\ AttemptInv(b) /\ attempt'[b] = attempt[b]
      BY <1>4 DEF RoomInv, AdmissionInv
    <3>1. CASE attempt[b].at # w
      <4>1. attempt[b].at \in Isolates => isolate'[attempt[b].at] = isolate[attempt[b].at]
        BY <2>1, <3>1
      <4>2. attempt[b].at \in Isolates => Running(attempt[b].at)' = Running(attempt[b].at)
        BY <3>0, <4>1 DEF Running
      <4> QED BY <1>1, <3>0, <4>1, <4>2, PathRests
    <3>2. CASE attempt[b].at = w
      <4>0. PICK p \in Permits \cup {None} : p = attempt[b].permit
        BY <1>0 DEF TypeOK, AttemptRecords
      <4>1. CASE p = None
        BY <3>0, <4>0, <4>1 DEF PathInv, Path, AttemptInv, AdmissionAssumption
      <4>2. CASE p \in Permits
        <5>1. /\ Storable(p)' = Storable(p) /\ Stored(p)' = Stored(p) /\ Rejected(p)' = Rejected(p)
          BY <1>1, <4>2, StoreStands
        <5>2. EarlierClosed(p) => EarlierClosed(p)' BY <1>1, <4>2, EarlierStayClosed DEF LeaseExpired
        <5>3. p # None BY <4>2 DEF AdmissionAssumption
        <5>4. Stored(p) => Admits(p, ProjectionOf(registration)) BY <4>2, StoredIsAdmitted
        <5>5. Admits(p, [e \in Entries |-> None]) BY <2>3, <4>2
        <5>6. Stored(p) => registration[agent[p]] = p BY DEF Stored
        <5>7. (attempt[b].pc = "preflight" /\ Storable(p)) => isolate[w].revision = registration
          BY <3>0, <3>2, <4>0 DEF PathInv
        <5>8. (attempt[b].pc = "preflight" =>
                 /\ Storable(p) =>
                      /\ isolate[w].revision = registration
                      /\ isolate[w].entries = ProjectionOf(registration)
                      /\ isolate[w].snapshot # None =>
                           isolate[w].snapshot = registration /\ isolate[w].left = {}
                 /\ Stored(p) =>
                      /\ Admits(p, isolate[w].entries)
                      /\ isolate[w].snapshot # None =>
                           isolate[w].left = {} \/ isolate[w].snapshot[agent[p]] = p)'
          BY <2>1, <2>2, <2>4, <3>0, <5>1, <5>5, <5>6, <5>7
        <5>9. (attempt[b].pc = "before" =>
                 /\ Storable(p) => isolate[w].snapshot = registration
                 /\ Stored(p) => Admits(p, ProjectionOf(isolate[w].snapshot)))'
          BY <2>1, <2>2, <5>1, <5>4
        <5> QED BY <3>0, <3>2, <4>0, <4>2, <5>1, <5>2, <5>3, <5>8, <5>9, <2>2 DEF PathInv, Path
      <4> QED BY <4>1, <4>2
    <3> QED BY <3>1, <3>2
  <2> QED BY <1>1, <2>5, StandingRoom
<1> QED BY <1>2, <1>3, <1>4 DEF Snapshot

\* A finished rehydration lets its attempt go on with what it read.
LEMMA RoomFinish ==
  ASSUME AdmissionAssumption, AdmissionInv, RoomInv, NEW w \in Isolates, FinishRehydration(w)
  PROVE  RoomInv'
<1> DEFINE a == Running(w)
           i == [Dequeued(w) EXCEPT !.rehydrated = TRUE, !.revision = isolate[w].snapshot]
<1>1. /\ TypeOK /\ isolate[w] \in IsolateRecords /\ isolate[w].snapshot # None
      /\ isolate[w].left = {} /\ ViewInv(w) /\ ProjectionInv(w) /\ QueueInv(w)
  BY DEF AdmissionInv, TypeOK, FinishRehydration, Busy
<1>2. /\ isolate[w].queue # <<>> /\ GoodView(isolate[w].snapshot)
      /\ Partial(isolate[w].snapshot, isolate[w].left, isolate[w].entries)
  BY <1>1 DEF ViewInv, ProjectionInv
<1>3. /\ i \in IsolateRecords /\ i.snapshot = None
      /\ i.revision = isolate[w].snapshot /\ i.entries = isolate[w].entries
  <2>1. isolate[w].snapshot \in Views \cup {None} BY <1>1 DEF IsolateRecords
  <2> QED BY <1>1, <1>2, <2>1, DequeuedRecord DEF IsolateRecords
<1>4. isolate[w].entries = ProjectionOf(isolate[w].snapshot)
  BY <1>1, <1>2, PartialShows DEF IsolateRecords
<1>5. a \in Attempts /\ attempt[a].at = w /\ PathInv(a)
  BY <1>1, <1>2, RunningIsQueued DEF RoomInv
<1>6. attempt[a].pc = "before" =>
        /\ Storable(attempt[a].permit) => isolate[w].snapshot = registration
        /\ Stored(attempt[a].permit) => Admits(attempt[a].permit, ProjectionOf(isolate[w].snapshot))
  BY <1>1, <1>5 DEF PathInv, Busy
<1>7. /\ isolate' = [isolate EXCEPT ![w] = i] /\ Rehydrated(a)
      /\ UNCHANGED <<store, ended, settled>>
  BY DEF FinishRehydration
<1>8. attempt[a].pc = "before" =>
        /\ i.entries = ProjectionOf(i.revision)
        /\ Storable(attempt[a].permit) => i.revision = registration
        /\ Stored(attempt[a].permit) => Admits(attempt[a].permit, i.entries)
  BY <1>3, <1>4, <1>6
<1> HIDE DEF i
<1> QED BY <1>1, <1>2, <1>3, <1>7, <1>8, RehydratedPath

\* Projecting an agent keeps what the waiting attempts rely on.
LEMMA RoomProjectIntent ==
  ASSUME AdmissionAssumption, AdmissionInv, AdmissionInv', RoomInv, NEW w \in Isolates,
         NEW c \in Agents, ProjectIntent(w, c)
  PROVE  RoomInv'
<1>0. /\ isolate[w] \in IsolateRecords /\ isolate \in [Isolates -> IsolateRecords]
      /\ isolate[w].snapshot # None /\ c \in isolate[w].left
      /\ UNCHANGED <<store, ended, attempt, settled>>
  BY DEF AdmissionInv, TypeOK, ProjectIntent, Busy
<1>1. /\ isolate'[w].queue = isolate[w].queue /\ isolate'[w].revision = isolate[w].revision
      /\ isolate'[w].snapshot = isolate[w].snapshot
      /\ \A v \in Isolates \ {w} : isolate'[v] = isolate[v]
  BY <1>0 DEF ProjectIntent, IsolateRecords
<1>2. registration' = registration BY <1>0 DEF store
<1>3. ASSUME NEW p \in Permits, isolate[w].snapshot[agent[p]] = p
      PROVE  Admits(p, isolate'[w].entries)
  <2>1. /\ GoodView(isolate'[w].snapshot) /\ isolate'[w].left \in SUBSET Agents
        /\ isolate'[w].entries \in [Entries -> Contents \cup {None}]
        /\ Partial(isolate'[w].snapshot, isolate'[w].left, isolate'[w].entries)
    BY <1>0, <1>1 DEF AdmissionInv, ViewInv, ProjectionInv, TypeOK, IsolateRecords
  <2> QED BY <1>1, <1>3, <2>1, HeldIsAdmitted
<1>4. ASSUME NEW b \in Attempts PROVE PathInv(b)'
  <2>0. PathInv(b) /\ AttemptInv(b) /\ attempt'[b] = attempt[b]
    BY <1>0 DEF RoomInv, AdmissionInv
  <2>1. CASE attempt[b].at # w
    <3>1. attempt[b].at \in Isolates => isolate'[attempt[b].at] = isolate[attempt[b].at]
      BY <1>1, <2>1
    <3>2. attempt[b].at \in Isolates => Running(attempt[b].at)' = Running(attempt[b].at)
      BY <2>0, <3>1 DEF Running
    <3> QED BY <1>0, <2>0, <3>1, <3>2, PathRests
  <2>2. CASE attempt[b].at = w
    <3>0. PICK p \in Permits \cup {None} : p = attempt[b].permit
      BY DEF AdmissionInv, TypeOK, AttemptRecords
    <3>1. CASE p = None
      BY <2>0, <3>0, <3>1 DEF PathInv, Path, AttemptInv, AdmissionAssumption
    <3>2. CASE p \in Permits
      <4>1. /\ Storable(p)' = Storable(p) /\ Stored(p)' = Stored(p) /\ Rejected(p)' = Rejected(p)
        BY <1>0, <3>2, StoreStands
      <4>2. EarlierClosed(p) => EarlierClosed(p)' BY <1>0, <3>2, EarlierStayClosed DEF LeaseExpired
      <4>3. p # None /\ isolate[w].left # {} BY <1>0, <3>2 DEF AdmissionAssumption
      <4>4. attempt[b].pc = "preflight" =>
              ~Storable(p) /\ (Stored(p) => isolate[w].snapshot[agent[p]] = p)
        BY <1>0, <2>0, <2>2, <3>0, <4>3 DEF PathInv
      <4>5. attempt[b].pc = "preflight" /\ Stored(p) => Admits(p, isolate'[w].entries)
        BY <1>3, <3>2, <4>4
      <4>6. Running(w)' = Running(w) /\ (Busy(w)' => Busy(w)) BY <1>1 DEF Running, Busy
      <4> QED BY <1>1, <1>2, <2>0, <2>2, <3>0, <3>2, <4>1, <4>2, <4>3, <4>4, <4>5, <4>6
            DEF PathInv, Path
    <3> QED BY <3>1, <3>2
  <2> QED BY <2>1, <2>2
<1> QED BY <1>0, <1>4, StandingRoom

\* The other requests stay where they are.
LEMMA OthersRest ==
  ASSUME AdmissionAssumption, AdmissionInv, RoomInv, NEW a \in Attempts,
         UNCHANGED <<store, ended>>,
         \A q \in Permits : settled[q] # "open" => settled'[q] # "open",
         \A b \in Attempts \ {a} : attempt'[b] = attempt[b],
         \/ UNCHANGED isolate
         \/ /\ attempt[a].pc \notin {"before", "after", "probe"}
            /\ \E w \in Isolates : isolate' = Enqueue(w, a)
  PROVE  \A b \in Attempts \ {a} : PathInv(b)'
<1> SUFFICES ASSUME NEW b \in Attempts \ {a} PROVE PathInv(b)'
  OBVIOUS
<1>1. ASSUME NEW v \in Isolates
      PROVE  /\ isolate'[v].entries = isolate[v].entries
             /\ isolate'[v].revision = isolate[v].revision
             /\ isolate'[v].snapshot = isolate[v].snapshot /\ isolate'[v].left = isolate[v].left
             /\ Busy(v)' => Running(v)' = Running(v)
  <2>1. CASE UNCHANGED isolate BY <2>1 DEF Running
  <2>2. ASSUME NEW w \in Isolates, isolate' = Enqueue(w, a),
               attempt[a].pc \notin {"before", "after", "probe"}
        PROVE  /\ isolate'[v].entries = isolate[v].entries
               /\ isolate'[v].revision = isolate[v].revision
               /\ isolate'[v].snapshot = isolate[v].snapshot /\ isolate'[v].left = isolate[v].left
               /\ Busy(v)' => Running(v)' = Running(v)
    <3>1. Busy(v)' => Running(v)' = Running(v) BY <2>2, RunningStays
    <3>2. isolate \in [Isolates -> IsolateRecords] BY DEF AdmissionInv, TypeOK
    <3> QED BY <2>2, <3>1, <3>2 DEF Enqueue, IsolateRecords
  <2> QED BY <2>1, <2>2
<1>2. PathInv(b) /\ attempt'[b] = attempt[b] BY DEF RoomInv
<1> QED BY <1>1, <1>2, PathRests

\* A request that has been answered, or that waits for the store's answer.
LEMMA AnsweredPath ==
  ASSUME NEW a \in Attempts, NEW p \in Permits, attempt'[a].permit = p, EarlierClosed(p)',
         \/ attempt'[a].pc \in {"committed", "after"} /\ ~Flawed(p)
         \/ /\ attempt'[a].pc = "answered"
            /\ attempt'[a].code \in TerminalRejections => Rejected(p)'
  PROVE  PathInv(a)'
BY DEF PathInv, Path

\* An attempt that has no permit relies on nothing.
LEMMA FreshPath ==
  ASSUME NEW a \in Attempts, attempt'[a].permit = None, attempt'[a].pc \in {"idle", "probe"}
  PROVE  PathInv(a)'
BY DEF PathInv, Path

\* An attempt starts on a permit whose predecessors are closed.
LEMMA RoomRegister ==
  ASSUME AdmissionAssumption, AdmissionInv, RoomInv, NEW a \in Attempts, NEW p \in Permits,
         NEW w \in Isolates, NEW defect, Register(a, p, w, defect)
  PROVE  RoomInv'
<1>1. /\ TypeOK /\ StoreInv /\ attempt[a].pc = "idle" /\ UNCHANGED <<store, ended, settled>>
      /\ agent[p] \in Agents /\ p # None
  BY DEF AdmissionInv, Register, NoAttempt, AdmissionAssumption
<1>2. /\ \A b \in Attempts \ {a} : attempt'[b] = attempt[b]
      /\ attempt'[a].pc = IF Refusal(w, p, defect) = None THEN "before" ELSE "answered"
      /\ attempt'[a].permit = p /\ attempt'[a].at = w /\ attempt'[a].code = Refusal(w, p, defect)
  BY <1>1 DEF Register, TypeOK
<1>3. isolate' = Enqueue(w, a) \/ UNCHANGED isolate BY DEF Register
<1>4. \A b \in Attempts \ {a} : PathInv(b)' BY <1>1, <1>2, <1>3, OthersRest
<1>5. EarlierClosed(p) BY DEF Register, Sendable, EarlierClosed, Newer, AdmissionAssumption
<1>6. EarlierClosed(p)' BY <1>1, <1>5, EarlierStayClosed DEF LeaseExpired
<1>7. PathInv(a)'
  <2>1. CASE Refusal(w, p, defect) = None
    <3>1. ~Flawed(p) BY <2>1 DEF Refusal, Flawed, AdmissionAssumption
    <3>2. isolate' = Enqueue(w, a) BY <2>1 DEF Register
    <3>3. Busy(w)' => Running(w)' # a BY <1>1, <3>2, RunningStays
    <3> QED BY <2>1, <3>1, <3>3, <1>2, <1>6 DEF PathInv, Path
  <2>2. CASE Refusal(w, p, defect) # None
    <3>1. ASSUME Refusal(w, p, defect) \in TerminalRejections PROVE Rejected(p)'
      <4>1. Flawed(p) BY <2>2, <3>1 DEF Refusal, Flawed, TerminalRejections, AdmissionAssumption
      <4>2. ~Stored(p) BY <1>1, <4>1 DEF RoomInv, StoreInv, Stored
      <4>3. Rejected(p) BY <4>1, <4>2 DEF Rejected, Barred
      <4> QED BY <1>1, <4>3, StoreStands
    <3> QED BY <2>2, <3>1, <1>2, <1>6, AnsweredPath
  <2> QED BY <2>1, <2>2
<1> QED BY <1>1, <1>4, <1>7, StandingRoom

\* A readiness probe carries no permit.
LEMMA RoomReadyz ==
  ASSUME AdmissionAssumption, AdmissionInv, RoomInv, NEW a \in Attempts, NEW w \in Isolates,
         Readyz(a, w)
  PROVE  RoomInv'
<1>1. /\ TypeOK /\ attempt[a].pc = "idle" /\ UNCHANGED <<store, ended, settled>>
      /\ isolate' = Enqueue(w, a)
  BY DEF AdmissionInv, Readyz, NoAttempt
<1>2. /\ \A b \in Attempts \ {a} : attempt'[b] = attempt[b]
      /\ attempt'[a].pc = "probe" /\ attempt'[a].permit = None
  BY <1>1 DEF Readyz, TypeOK, NoAttempt
<1>3. \A b \in Attempts \ {a} : PathInv(b)' BY <1>1, <1>2, OthersRest
<1>4. PathInv(a)' BY <1>2, FreshPath
<1> QED BY <1>1, <1>3, <1>4, StandingRoom

\* What was committed is stored.
LEMMA RoomCommitted ==
  ASSUME AdmissionAssumption, AdmissionInv, RoomInv, NEW a \in Attempts, Committed(a)
  PROVE  RoomInv'
<1>1. /\ TypeOK /\ attempt[a].pc = "committed" /\ UNCHANGED <<store, ended, settled>>
      /\ attempt[a].permit \in Permits /\ attempt[a].at \in Isolates
      /\ isolate' = Enqueue(attempt[a].at, a) /\ PathInv(a)
  BY DEF AdmissionInv, RoomInv, Committed, AttemptInv, Path
<1>2. PICK p \in Permits : p = attempt[a].permit BY <1>1
<1>3. /\ \A b \in Attempts \ {a} : attempt'[b] = attempt[b]
      /\ attempt'[a].pc = "after" /\ attempt'[a].permit = p
  BY <1>1, <1>2 DEF Committed, Goto, TypeOK, AttemptRecords
<1>4. \A b \in Attempts \ {a} : PathInv(b)' BY <1>1, <1>3, OthersRest
<1>5. EarlierClosed(p) /\ ~Flawed(p) BY <1>1, <1>2 DEF PathInv, Path, AdmissionAssumption
<1>6. EarlierClosed(p)' BY <1>1, <1>5, EarlierStayClosed DEF LeaseExpired
<1>7. PathInv(a)' BY <1>3, <1>5, <1>6, AnsweredPath
<1> QED BY <1>1, <1>4, <1>7, StandingRoom

\* The isolate's checks refuse what the durable object would refuse.
LEMMA RoomPreflight ==
  ASSUME AdmissionAssumption, AdmissionInv, RoomInv, NEW a \in Attempts, Preflight(a)
  PROVE  RoomInv'
<1>1. /\ TypeOK /\ attempt[a].pc = "preflight" /\ UNCHANGED <<store, ended, isolate, settled>>
      /\ attempt[a].permit \in Permits /\ attempt[a].at \in Isolates /\ PathInv(a)
  BY DEF AdmissionInv, RoomInv, Preflight, AttemptInv, Path
<1>2. PICK p \in Permits, w \in Isolates : p = attempt[a].permit /\ w = attempt[a].at BY <1>1
<1>3. /\ ~Flawed(p) /\ EarlierClosed(p)
      /\ Storable(p) => isolate[w].entries = ProjectionOf(registration)
      /\ Stored(p) => Admits(p, isolate[w].entries)
  BY <1>1, <1>2 DEF PathInv, Path, AdmissionAssumption
<1>4. /\ EarlierClosed(p)' /\ Storable(p)' = Storable(p) /\ Stored(p)' = Stored(p)
      /\ Rejected(p)' = Rejected(p) /\ registration' = registration
  BY <1>1, <1>3, EarlierStayClosed, StoreStands DEF LeaseExpired, store
<1>5. \/ Goto(a, "commit") /\ Admits(p, isolate[w].entries)
      \/ /\ \E code \in {"tool_allowlist_entry_conflict", "tool_allowlist_capacity"} : Answer(a, code)
         /\ ~Admits(p, isolate[w].entries)
  BY <1>2 DEF Preflight, Admits
<1>6. /\ \A b \in Attempts \ {a} : attempt'[b] = attempt[b]
      /\ attempt'[a].permit = p /\ attempt'[a].at = w
      /\ attempt'[a].pc = IF Admits(p, isolate[w].entries) THEN "commit" ELSE "answered"
  BY <1>1, <1>2, <1>5 DEF Goto, Answer, TypeOK, AttemptRecords
<1>7. \A b \in Attempts \ {a} : PathInv(b)' BY <1>1, <1>6, OthersRest
<1>8. CASE Admits(p, isolate[w].entries)
  <2>1. PathInv(a)' BY <1>3, <1>4, <1>6, <1>8 DEF PathInv, Path
  <2> QED BY <2>1, <1>1, <1>7, StandingRoom
<1>9. CASE ~Admits(p, isolate[w].entries)
  <2>1. Rejected(p) BY <1>3, <1>9 DEF Rejected, Barred
  <2>2. PathInv(a)' BY <2>1, <1>4, <1>6, <1>9, AnsweredPath
  <2> QED BY <2>2, <1>1, <1>7, StandingRoom
<1> QED BY <1>8, <1>9

\* A permit is stored: what was refused stays refused, and a request of the
\* same permit that is still on its way passes the checks it passed before.
LEMMA StoringRoom ==
  ASSUME AdmissionAssumption, AdmissionInv, RoomInv, HasRoom, NEW a \in Attempts,
         attempt[a].pc = "commit", NEW r \in Permits, r = attempt[a].permit, Store(r),
         Decision(r) = "registered", r \notin Retained, UNCHANGED <<ended, isolate, settled>>,
         \A b \in Attempts \ {a} : attempt'[b] = attempt[b],
         EarlierClosed(r)' => PathInv(a)'
  PROVE  RoomInv'
<1>1. /\ Storable(r) /\ ~Barred(r) /\ ~Flawed(r)
      /\ registered' = Retained' /\ registered' = registered \cup {r}
      /\ \A p \in Permits : EarlierClosed(p) => ~Storable(p)' /\ EarlierClosed(p)'
      /\ \A p \in Permits : Stored(p)' => p = r \/ Stored(p)
  BY StoringShutsOut
<1>2. Admits(r, ProjectionOf(registration)) BY <1>1 DEF Barred
<1>3. r # None BY DEF AdmissionAssumption
<1>4. PathInv(a)' BY <1>1, <1>3 DEF RoomInv, PathInv
<1>5. ASSUME NEW p \in Permits, EarlierClosed(p), Rejected(p) PROVE Rejected(p)'
  BY <1>1, <1>5 DEF Rejected
<1>6. ASSUME NEW b \in Attempts \ {a} PROVE PathInv(b)'
  <2>0. PathInv(b) /\ AttemptInv(b) /\ attempt'[b] = attempt[b] BY DEF RoomInv, AdmissionInv
  <2>1. PICK p \in Permits \cup {None}, w \in Isolates \cup {None} :
          p = attempt[b].permit /\ w = attempt[b].at
    BY DEF AdmissionInv, TypeOK, AttemptRecords
  <2>2. CASE p = None
    BY <2>0, <2>1, <2>2 DEF PathInv, Path, AttemptInv, AdmissionAssumption
  <2>3. CASE p \in Permits
    <3>1. p # None /\ EarlierClosed(p) /\ EarlierClosed(p)' /\ ~Storable(p)'
      BY <1>1, <2>0, <2>1, <2>3 DEF PathInv, AdmissionAssumption
    <3>2. isolate'[w] = isolate[w] /\ Busy(w)' = Busy(w) /\ Running(w)' = Running(w)
      BY DEF Busy, Running
    <3>3. ASSUME attempt[b].pc = "before", Busy(w), Running(w) = b, Stored(p)'
          PROVE  Admits(p, ProjectionOf(isolate[w].snapshot))
      <4>1. /\ Storable(p) => isolate[w].snapshot = registration
            /\ Stored(p) => Admits(p, ProjectionOf(isolate[w].snapshot))
        BY <2>0, <2>1, <3>3 DEF PathInv
      <4>2. CASE p = r BY <4>1, <4>2, <1>1, <1>2
      <4>3. CASE Stored(p) BY <4>1, <4>3
      <4> QED BY <4>2, <4>3, <3>3, <2>3, <1>1
    <3>4. ASSUME attempt[b].pc = "preflight", Stored(p)'
          PROVE  /\ Admits(p, isolate[w].entries)
                 /\ isolate[w].snapshot # None =>
                      isolate[w].left = {} \/ isolate[w].snapshot[agent[p]] = p
      <4>1. /\ Storable(p) => /\ isolate[w].entries = ProjectionOf(registration)
                              /\ isolate[w].snapshot # None => isolate[w].left = {}
            /\ Stored(p) => /\ Admits(p, isolate[w].entries)
                            /\ isolate[w].snapshot # None =>
                                 isolate[w].left = {} \/ isolate[w].snapshot[agent[p]] = p
        BY <2>0, <2>1, <3>4 DEF PathInv
      <4>2. CASE p = r BY <4>1, <4>2, <1>1, <1>2
      <4>3. CASE Stored(p) BY <4>1, <4>3
      <4> QED BY <4>2, <4>3, <3>4, <2>3, <1>1
    <3>5. attempt[b].pc = "answered" /\ attempt[b].code \in TerminalRejections => Rejected(p)'
      BY <1>5, <2>0, <2>1, <2>3, <3>1 DEF PathInv
    <3>6. attempt[b].pc \in Path => ~Flawed(p) BY <2>0, <2>1 DEF PathInv
    <3> QED BY <2>0, <2>1, <3>1, <3>2, <3>3, <3>4, <3>5, <3>6 DEF PathInv, Path
  <2> QED BY <2>1, <2>2, <2>3
<1>7. ASSUME NEW p \in Permits
      PROVE  /\ settled'[p] # "open" => EarlierClosed(p)'
             /\ settled'[p] = "rejected" => Rejected(p)'
  BY <1>1, <1>5 DEF RoomInv
<1>8. \A p \in registered' : ~Flawed(p) BY <1>1 DEF RoomInv
<1> QED BY <1>1, <1>4, <1>6, <1>7, <1>8 DEF RoomInv, Flawed

\* A refused commit is final, because the journal tells what was done.
LEMMA RoomCommit ==
  ASSUME AdmissionAssumption, AdmissionInv, RoomInv, HasRoom, NEW a \in Attempts, Commit(a)
  PROVE  RoomInv'
<1>1. /\ TypeOK /\ StoreInv /\ attempt[a].pc = "commit" /\ UNCHANGED <<ended, isolate, settled>>
      /\ attempt[a].permit \in Permits /\ PathInv(a)
  BY DEF AdmissionInv, RoomInv, Commit, AttemptInv, Path
<1>2. PICK p \in Permits : p = attempt[a].permit BY <1>1
<1>3. p # None /\ ~Flawed(p) /\ EarlierClosed(p) BY <1>1, <1>2 DEF PathInv, Path, AdmissionAssumption
<1>4. /\ Store(p) \/ UNCHANGED store
      /\ \/ Goto(a, "committed")
         \/ /\ Store(p) /\ Decision(p) # "registered" /\ Answer(a, Decision(p))
         \/ Answer(a, "durable_admission_unavailable")
  BY <1>2 DEF Commit
<1>5. /\ \A b \in Attempts \ {a} : attempt'[b] = attempt[b]
      /\ attempt'[a].permit = p
      /\ \/ attempt'[a].pc = "committed"
         \/ /\ attempt'[a].pc = "answered"
            /\ \/ Store(p) /\ Decision(p) # "registered"
               \/ attempt'[a].code \notin TerminalRejections
  <2>1. "durable_admission_unavailable" \notin TerminalRejections BY DEF TerminalRejections
  <2>2. attempt \in [Attempts -> AttemptRecords] BY <1>1 DEF TypeOK
  <2>3. CASE Goto(a, "committed") BY <2>2, <2>3, <1>2 DEF Goto, AttemptRecords
  <2>4. ASSUME NEW code, Answer(a, code)
        PROVE  /\ \A b \in Attempts \ {a} : attempt'[b] = attempt[b]
               /\ attempt'[a].permit = p
               /\ attempt'[a].pc = "answered" /\ attempt'[a].code = code
    BY <2>2, <2>4, <1>2 DEF Answer, AttemptRecords
  <2> QED BY <1>4, <2>1, <2>3, <2>4
<1>6. CASE Store(p) /\ Decision(p) = "registered" /\ p \notin Retained
  <2>1. EarlierClosed(p)' => PathInv(a)' BY <1>3, <1>5, <1>6, AnsweredPath
  <2> QED BY <1>1, <1>2, <1>5, <1>6, <2>1, StoringRoom
<1>7. CASE UNCHANGED store
  <2>1. \A b \in Attempts \ {a} : PathInv(b)' BY <1>1, <1>5, <1>7, OthersRest
  <2>2. EarlierClosed(p)' BY <1>1, <1>3, EarlierStayClosed DEF LeaseExpired
  <2>3. ASSUME Decision(p) # "registered" PROVE Rejected(p)'
    <3>0. p \notin Retained BY <2>3 DEF Decision
    <3>1. p \notin registered BY <3>0 DEF RoomInv
    <3>2. agent[p] \in Agents BY DEF AdmissionAssumption
    <3>3. ~Stored(p) BY <1>1, <1>3, <3>1, <3>2 DEF Stored, StoreInv
    <3>4. Rejected(p) BY <2>3, <3>3 DEF Rejected, Barred
    <3> QED BY <1>1, <1>7, <3>4, StoreStands
  <2>4. PathInv(a)' BY <1>3, <1>5, <2>2, <2>3, AnsweredPath
  <2> QED BY <1>1, <1>7, <2>1, <2>4, StandingRoom
<1>8. Store(p) => UNCHANGED store \/ (Decision(p) = "registered" /\ p \notin Retained) BY DEF Store
<1> QED BY <1>4, <1>6, <1>7, <1>8

\* A terminal rejection settles its permit, and is true.
LEMMA RoomReceive ==
  ASSUME AdmissionAssumption, AdmissionInv, RoomInv, NEW a \in Attempts, Receive(a)
  PROVE  RoomInv'
<1>1. /\ TypeOK /\ attempt[a].pc = "answered" /\ UNCHANGED <<store, ended, isolate>> /\ PathInv(a)
      /\ attempt' = [attempt EXCEPT ![a] = NoAttempt]
  BY DEF AdmissionInv, RoomInv, Receive
<1>2. PICK p : p = attempt[a].permit OBVIOUS
<1>3. settled' = settled \/ (p # None /\ settled[p] = "open"
                             /\ settled' = [settled EXCEPT ![p] = Conclusion(a)])
  BY <1>2 DEF Receive
<1>4. /\ \A b \in Attempts \ {a} : attempt'[b] = attempt[b]
      /\ attempt'[a].pc = "idle" /\ attempt'[a].permit = None
  BY <1>1 DEF TypeOK, NoAttempt
<1>5. \A q \in Permits : settled[q] # "open" => settled'[q] = settled[q]
  BY <1>1, <1>3 DEF TypeOK
<1>6. \A b \in Attempts \ {a} : PathInv(b)' BY <1>1, <1>4, <1>5, OthersRest
<1>7. PathInv(a)' BY <1>4, FreshPath
<1>8. ASSUME NEW q \in Permits, settled[q] = "open", settled'[q] # "open"
      PROVE  EarlierClosed(q) /\ (settled'[q] = "rejected" => Rejected(q))
  <2>1. q = p /\ p # None /\ settled'[q] = Conclusion(a) BY <1>1, <1>3, <1>8 DEF TypeOK
  <2>2. Conclusion(a) = "rejected" => attempt[a].code \in TerminalRejections
    BY DEF Conclusion, TerminalRejection
  <2> QED BY <1>1, <1>2, <2>1, <2>2 DEF PathInv
<1> QED BY <1>1, <1>5, <1>6, <1>7, <1>8, StandingRoom

\* An abandoned attempt may run on: its permit stays open.
LEMMA RoomTimeout ==
  ASSUME AdmissionAssumption, AdmissionInv, RoomInv, NEW a \in Attempts, Timeout(a)
  PROVE  RoomInv'
<1>1. TypeOK /\ UNCHANGED <<store, ended, isolate, settled>> BY DEF AdmissionInv, Timeout
<1>2. \A b \in Attempts : /\ attempt'[b].pc = attempt[b].pc /\ attempt'[b].permit = attempt[b].permit
                          /\ attempt'[b].at = attempt[b].at /\ attempt'[b].code = attempt[b].code
  BY <1>1 DEF Timeout, TypeOK, AttemptRecords
<1>3. \A w \in Isolates : Running(w)' = Running(w) BY <1>1 DEF Running
<1>4. \A b \in Attempts : PathInv(b)' BY <1>1, <1>2, <1>3, PathRests DEF RoomInv
<1> QED BY <1>1, <1>4, StandingRoom

\* An eviction answers with no terminal rejection.
LEMMA RoomRestart ==
  ASSUME AdmissionAssumption, AdmissionInv, RoomInv, NEW w \in Isolates, Restart(w)
  PROVE  RoomInv'
<1>1. /\ TypeOK /\ UNCHANGED <<store, ended, settled>>
      /\ \A v \in Isolates \ {w} : isolate'[v] = isolate[v]
  BY DEF AdmissionInv, Restart, TypeOK
<1>2. ASSUME NEW b \in Attempts PROVE PathInv(b)'
  <2>1. CASE attempt[b].at = w
    <3>1. attempt'[b].pc = "idle" /\ attempt'[b].permit = None BY <2>1 DEF Restart, NoAttempt
    <3> QED BY <3>1, FreshPath
  <2>2. CASE attempt[b].at # w
    <3>1. attempt'[b] = attempt[b] BY <2>2 DEF Restart
    <3>2. attempt[b].at \in Isolates =>
            /\ isolate'[attempt[b].at] = isolate[attempt[b].at]
            /\ Running(attempt[b].at)' = Running(attempt[b].at)
      BY <1>1, <2>2, <3>1 DEF Running
    <3> QED BY <1>1, <3>1, <3>2, PathRests DEF RoomInv
  <2> QED BY <2>1, <2>2
<1> QED BY <1>1, <1>2, StandingRoom

\* A permit whose lease has ended is stored no more.
LEMMA RoomLeaseEnds ==
  ASSUME AdmissionAssumption, AdmissionInv, RoomInv, HasRoom, LeaseEnds
  PROVE  RoomInv'
<1>1. UNCHANGED <<store, isolate, attempt, settled>> /\ registration' = registration
  BY DEF LeaseEnds, store
<1>2. ASSUME NEW p \in Permits
      PROVE  /\ Storable(p)' => Storable(p)
             /\ Stored(p)' = Stored(p)
             /\ Rejected(p) => Rejected(p)'
             /\ EarlierClosed(p) => EarlierClosed(p)'
  <2>1. \A q \in Permits : LeaseExpired(q) => LeaseExpired(q)'
    BY DEF LeaseEnds, LeaseExpired, AdmissionInv, TypeOK, AdmissionAssumption
  <2> QED BY <1>1, <2>1, LeaseEndsRefusesOn, EarlierStayClosed
<1>3. ASSUME NEW b \in Attempts PROVE PathInv(b)'
  <2>1. PathInv(b) /\ AttemptInv(b) BY DEF RoomInv, AdmissionInv
  <2>2. PICK p \in Permits \cup {None} : p = attempt[b].permit
    BY DEF AdmissionInv, TypeOK, AttemptRecords
  <2>3. CASE p = None
    BY <1>1, <2>1, <2>2, <2>3 DEF PathInv, Path, AttemptInv, AdmissionAssumption
  <2>4. CASE p \in Permits
    <3>1. p # None BY <2>4 DEF AdmissionAssumption
    <3>2. Busy(attempt[b].at)' = Busy(attempt[b].at) /\ Running(attempt[b].at)' = Running(attempt[b].at)
      BY <1>1 DEF Busy, Running
    <3> QED BY <1>1, <1>2, <2>1, <2>2, <2>4, <3>1, <3>2 DEF PathInv, Path
  <2> QED BY <2>2, <2>3, <2>4
<1>4. registered' = Retained' BY <1>1 DEF RoomInv, store, Retained
<1>5. \A p \in registered' : ~Flawed(p) BY <1>1 DEF RoomInv, store
<1> QED BY <1>1, <1>2, <1>3, <1>4, <1>5 DEF RoomInv, Flawed

\* A step that changes nothing keeps the invariant.
LEMMA RoomStutter ==
  ASSUME AdmissionAssumption, AdmissionInv, RoomInv, UNCHANGED vars
  PROVE  RoomInv'
<1>1. UNCHANGED <<store, ended, isolate, attempt, settled>> BY DEF vars
<1>2. \A w \in Isolates : Running(w)' = Running(w) BY <1>1 DEF Running
<1>3. \A b \in Attempts : PathInv(b)' BY <1>1, <1>2, PathRests DEF RoomInv
<1> QED BY <1>1, <1>3, StandingRoom

\* Every step that leaves the journal room keeps the invariant.
LEMMA RoomStep ==
  ASSUME AdmissionAssumption, AdmissionInv, AdmissionInv', RoomInv, HasRoom, [Next]_vars
  PROVE  RoomInv'
<1>1. ASSUME NEW w \in Isolates, SnapshotFails(w) PROVE RoomInv'
  BY <1>1, RoomFailure DEF SnapshotFails
<1>2. ASSUME NEW w \in Isolates,
             \/ Snapshot(w) \/ FinishRehydration(w) \/ Restart(w)
             \/ \E a \in Agents : ProjectIntent(w, a)
      PROVE  RoomInv'
  BY <1>2, RoomSnapshot, RoomFinish, RoomRestart, RoomProjectIntent
<1>3. ASSUME NEW a \in Attempts,
             \/ Preflight(a) \/ Commit(a) \/ Committed(a) \/ Timeout(a) \/ Receive(a)
             \/ \E w \in Isolates :
                  \/ Readyz(a, w)
                  \/ \E p \in Permits, defect \in Defects : Register(a, p, w, defect)
      PROVE  RoomInv'
  BY <1>3, RoomPreflight, RoomCommit, RoomCommitted, RoomTimeout, RoomReceive, RoomReadyz,
     RoomRegister
<1> QED BY <1>1, <1>2, <1>3, RoomLeaseEnds, RoomStutter DEF Next

\* RoomInv holds as long as the journal has room.
LEMMA RoomInvariance == ASSUME AdmissionAssumption PROVE Spec /\ []HasRoom => []RoomInv
<1>1. Init => RoomInv BY RoomInit
<1>2. AdmissionInv /\ AdmissionInv' /\ RoomInv /\ HasRoom /\ [Next]_vars => RoomInv' BY RoomStep
<1> QED BY <1>1, <1>2, AdmissionInvariance, PTL DEF Spec

\* Whatever attempts the core gave up on are still running, and in whatever
\* order their answers arrive, what it concluded about a permit is so, as
\* long as the journal can tell what became of every permit
\* (requestAcosAdmission, reservationSafeToComplete).
THEOREM SettledIsTold ==
  ASSUME AdmissionAssumption
  PROVE  Spec /\ []HasRoom => []SettledIsTrue
<1>1. AdmissionInv /\ RoomInv => SettledIsTrue
  <2> SUFFICES ASSUME AdmissionInv, RoomInv, NEW p \in Permits, settled[p] = "rejected",
                      NEW a \in Agents, registration[a] = p
               PROVE  FALSE
    BY DEF SettledIsTrue, AdmissionInv
  <2>1. ~Stored(p) BY DEF RoomInv, Rejected
  <2>2. agent[p] = a BY DEF AdmissionInv, StoreInv, AdmissionAssumption
  <2> QED BY <2>1, <2>2 DEF Stored
<1> QED BY <1>1, AdmissionInvariance, RoomInvariance, PTL

\* The journal holds an outcome once.
OutcomeOnce == \A i, j \in 1..Len(outcomes) : outcomes[i] = outcomes[j] => i = j

\* Storing a permit keeps its outcome unique.
LEMMA StoreKeepsOnce ==
  ASSUME AdmissionAssumption, TypeOK, OutcomeOnce, NEW p \in Permits, Store(p)
  PROVE  OutcomeOnce'
<1>1. CASE outcomes' = outcomes BY <1>1 DEF OutcomeOnce
<1>2. CASE p \notin Retained /\ outcomes' = Append(outcomes, p)
  <2>1. /\ outcomes \in Seq(Permits) /\ Len(outcomes) \in Nat /\ Len(outcomes') = Len(outcomes) + 1
        /\ \A i \in 1..Len(outcomes) : outcomes'[i] = outcomes[i] /\ outcomes[i] # p
        /\ outcomes'[Len(outcomes) + 1] = p
        /\ \A i \in 1..Len(outcomes') : i \in 1..Len(outcomes) \/ i = Len(outcomes) + 1
    BY <1>2 DEF TypeOK, Retained
  <2> QED BY <2>1 DEF OutcomeOnce
<1>3. CASE p \notin Retained /\ JournalFull /\ outcomes' = Append(Tail(outcomes), p)
  <2>1. outcomes \in Seq(Permits) /\ Len(outcomes) \in Nat \ {0}
    BY <1>3 DEF TypeOK, JournalFull, AdmissionAssumption
  <2>2. /\ Tail(outcomes) \in Seq(Permits) /\ Len(Tail(outcomes)) = Len(outcomes) - 1
        /\ \A i \in 1..Len(outcomes) - 1 : Tail(outcomes)[i] = outcomes[i + 1]
    BY <2>1
  <2>3. /\ Len(outcomes') = Len(outcomes)
        /\ \A i \in 1..Len(outcomes) - 1 : outcomes'[i] = outcomes[i + 1] /\ i + 1 \in 1..Len(outcomes)
        /\ outcomes'[Len(outcomes)] = p
        /\ \A i \in 1..Len(outcomes') : i \in 1..Len(outcomes) - 1 \/ i = Len(outcomes)
    BY <1>3, <2>1, <2>2
  <2>4. \A i \in 1..Len(outcomes) : outcomes[i] # p BY <1>3 DEF Retained
  <2> QED BY <2>1, <2>3, <2>4 DEF OutcomeOnce
<1> QED BY <1>1, <1>2, <1>3 DEF Store, store

\* The journal holds an outcome once.
LEMMA OutcomeOnceInvariance == ASSUME AdmissionAssumption PROVE Spec => []OutcomeOnce
<1>1. Init => OutcomeOnce BY DEF Init, OutcomeOnce
<1>2. AdmissionInv /\ OutcomeOnce /\ [Next]_vars => OutcomeOnce'
  <2> SUFFICES ASSUME AdmissionInv, OutcomeOnce, [Next]_vars PROVE OutcomeOnce'
    OBVIOUS
  <2>1. CASE outcomes' = outcomes BY <2>1 DEF OutcomeOnce
  <2>2. ASSUME NEW a \in Attempts, Commit(a) PROVE OutcomeOnce'
    <3>1. attempt[a].permit \in Permits BY <2>2 DEF Commit, AdmissionInv, AttemptInv, Path
    <3>2. CASE outcomes' = outcomes BY <3>2 DEF OutcomeOnce
    <3>3. CASE Store(attempt[a].permit) BY <3>1, <3>3, StoreKeepsOnce DEF AdmissionInv
    <3> QED BY <2>2, <3>2, <3>3 DEF Commit, store
  <2> QED BY <2>1, <2>2 DEF Next, vars, store, LeaseEnds, Snapshot, SnapshotFails,
        FinishRehydration, Restart, ProjectIntent, Preflight, Committed, Timeout, Receive, Readyz,
        Register
<1> QED BY <1>1, <1>2, AdmissionInvariance, PTL DEF Spec

\* A journal as large as the number of permits always has room, and then what
\* the core concluded is so without a further condition.
LEMMA AmpleJournal ==
  ASSUME AdmissionAssumption, AdmissionInv, OutcomeOnce, IsFiniteSet(Permits),
         Cardinality(Permits) <= MAX_COMMERCE_RETAINED_OUTCOMES
  PROVE  HasRoom
<1> SUFFICES ASSUME JournalFull PROVE Permits \subseteq Retained
  BY DEF HasRoom
<1> DEFINE N == Len(outcomes)
           f == [i \in 1..N |-> outcomes[i]]
<1>1. outcomes \in Seq(Permits) /\ N \in Nat /\ MAX_COMMERCE_RETAINED_OUTCOMES \in Nat
  BY DEF AdmissionInv, TypeOK, AdmissionAssumption
<1>2. Retained \subseteq Permits BY <1>1 DEF Retained
<1>3. f \in Injection(1..N, Retained)
  BY DEF Injection, IsInjective, OutcomeOnce, Retained
<1>4. IsFiniteSet(Retained) BY <1>2, FS_Subset
<1>5. N <= Cardinality(Retained)
  <2> HIDE DEF f
  <2>1. Cardinality(1..N) <= Cardinality(Retained) BY <1>3, <1>4, FS_Injection
  <2> HIDE DEF N
  <2>2. Cardinality(1..N) = IF 1 > N THEN 0 ELSE N - 1 + 1 BY <1>1, FS_Interval
  <2> QED BY <1>1, <2>1, <2>2
<1>6. Cardinality(Permits) \in Nat /\ Cardinality(Retained) \in Nat BY <1>4, FS_CardinalityType
<1>7. MAX_COMMERCE_RETAINED_OUTCOMES <= N BY DEF JournalFull
<1> HIDE DEF f, N
<1>8. Cardinality(Retained) = Cardinality(Permits)
  <2>1. Cardinality(Retained) <= Cardinality(Permits) BY <1>2, FS_Subset
  <2> QED BY <2>1, <1>1, <1>5, <1>6, <1>7
<1> QED BY <1>2, <1>8, FS_Subset

\* With a journal no smaller than the number of permits there always is room
\* (MAX_COMMERCE_RETAINED_OUTCOMES is 64), so the conclusions of the core are true.
THEOREM SettledIsToldByAmpleJournal ==
  ASSUME AdmissionAssumption, IsFiniteSet(Permits),
         Cardinality(Permits) <= MAX_COMMERCE_RETAINED_OUTCOMES
  PROVE  Spec => []SettledIsTrue
<1>1. AdmissionInv /\ OutcomeOnce => HasRoom BY AmpleJournal
<1> QED BY <1>1, AdmissionInvariance, OutcomeOnceInvariance, SettledIsTold, PTL
-----------------------------------------------------------------------------
(***************************************************************************)
(* Operations of the core at the marketplace provider, ProviderGate.       *)
(* GateInv is inductive: what a call knows does not change once it has     *)
(* sent its request, so whatever is decided later, or in another life of   *)
(* the provider, was asked by a call that had verified the evidence.       *)
(***************************************************************************)
CONSTANTS Calls, operation, Evidence, RequiredChecks, Declared, Secrets, NoPin, MaxDeployments
VARIABLES provider, core, deployments, fences, leaseOver, permits, reservation, pc, local,
          answer, network, responses, decided

Gate == INSTANCE ProviderGate

\* The instance counts as this module does.
LEMMA GateCounts ==
    \A S : Gate!Cardinality(S) = Cardinality(S) /\ (Gate!IsFiniteSet(S) <=> IsFiniteSet(S))
BY DEF Gate!Cardinality, Cardinality, Gate!IsFiniteSet, IsFiniteSet

\* The sets of the invariant below.
Pins == {Gate!PinOf(e) : e \in Evidence}
Numbers == 0 .. Cardinality(Gate!Mutations)
Knowledge == [pin : Pins \cup {NoPin}, secret : Secrets \cup {"none"},
              seen : Evidence \cup {NoPin}, permit : Numbers]
Decisions == [permit : Numbers \ {0}, outcome : {"applied", "refused"}, pin : Pins, life : Nat]
Transition(c) == operation[c].kind = "transition"

\* The types, those of what a call remembers and a provider decided included.
GateTypes ==
    /\ provider \in [evidence : Evidence, secret : Secrets, life : Nat]
    /\ core \in [pin : Pins, secret : Secrets]
    /\ fences \in Numbers
    /\ permits \in [Gate!Mutations -> Numbers]
    /\ reservation \in [Gate!Mutations -> {"none", "reserved", "completed"}]
    /\ pc \in [Calls -> {"start", "reserve", "verify", "send", "await", "done"}]
    /\ local \in [Calls -> Knowledge]
    /\ decided \in Seq(Decisions)
    /\ \A response \in responses : response.call \in Calls

\* What call c knows at each point: evidence that converges with its pin from
\* send on, and the permit of its mutation from verify on.
CallInv(c) ==
    /\ pc[c] = "start" => local[c] = Gate!NoLocal
    /\ pc[c] \in {"reserve", "verify"} => local[c].seen = NoPin
    /\ pc[c] \in {"send", "await"} => local[c].seen # NoPin
    /\ local[c].seen # NoPin => /\ local[c].pin \in Pins
                                /\ Gate!EvaluateConvergence(local[c].seen, local[c].pin) # "blocked"
    /\ pc[c] # "start" => local[c].pin \in Pins
    /\ local[c].permit > 0 => Transition(c) /\ local[c].permit = permits[operation[c].mutation]
    /\ Transition(c) /\ pc[c] \in {"verify", "send", "await"} => local[c].permit > 0
    /\ pc[c] = "reserve" => Transition(c)

\* A request on its way is bound to what its call still remembers.
RequestInv(request) ==
    LET c == request.call
    IN  /\ c \in Calls /\ pc[c] \in {"await", "done"} /\ local[c].seen # NoPin
        /\ request.binding = Gate!Binding(c, local[c].pin, local[c].permit)

\* A definite answer was decided.
ResponseInv(response) ==
    response.permit \in Nat \ {0} /\ Gate!ClassifyVendorTransition(response) # "invalid" =>
        \E i \in 1 .. Len(decided) : decided[i].permit = response.permit

\* The call whose request was decided, and the place of the fence.
DecisionInv(d) ==
    /\ \E c \in Calls : local[c].permit = d.permit /\ local[c].pin = d.pin /\ local[c].seen # NoPin
    /\ d.life <= provider.life
    /\ d.outcome = "applied" /\ d.life = provider.life => d.permit <= fences

\* The inductive invariant.
GateInv ==
    /\ GateTypes
    /\ \A c \in Calls : CallInv(c)
    /\ \A request \in network : RequestInv(request)
    /\ \A response \in responses : ResponseInv(response)
    /\ \A i \in 1 .. Len(decided) : DecisionInv(decided[i])
    /\ Gate!CompletedIsDecided
    /\ Gate!AppliedInOrder

\* The evidence that converges with a pin is the one the pin was taken of.
LEMMA ConvergedEvidence ==
    ASSUME NEW e \in Evidence, NEW pin \in Pins, Gate!EvaluateConvergence(e, pin) # "blocked"
    PROVE  /\ Gate!PinOf(e) = pin /\ RequiredChecks \subseteq e.checks
           /\ e.wellFormed /\ pin.receiptDigest = <<e.revision, e.version, e.checks>>
  <1>1. pin = [version |-> pin.version, receiptDigest |-> pin.receiptDigest]
    BY DEF Pins, Gate!PinOf
  <1>2. e.version = pin.version /\ e.receiptDigest = pin.receiptDigest
    BY DEF Gate!EvaluateConvergence
  <1> QED
    BY <1>1, <1>2 DEF Gate!EvaluateConvergence, Gate!Digest, Gate!PinOf

\* A pin admits one evidence, because it pins a digest of the rest.
LEMMA OneEvidence ==
    ASSUME Gate!OperationAssumption, NEW e \in Evidence, NEW f \in Evidence, NEW pin \in Pins,
           Gate!EvaluateConvergence(e, pin) # "blocked", Gate!EvaluateConvergence(f, pin) # "blocked"
    PROVE  e = f
  <1>1. /\ Gate!PinOf(e) = pin /\ Gate!PinOf(f) = pin /\ e.wellFormed = TRUE /\ f.wellFormed = TRUE
        /\ <<e.revision, e.version, e.checks>> = <<f.revision, f.version, f.checks>>
    BY ConvergedEvidence DEF Gate!OperationAssumption
  <1>2. /\ e.revision = f.revision /\ e.version = f.version /\ e.checks = f.checks
        /\ e.wellFormed = f.wellFormed
    BY <1>1
  <1>3. e.receiptDigest = f.receiptDigest
    BY <1>1 DEF Gate!PinOf
  <1>4. /\ e = [wellFormed |-> e.wellFormed, revision |-> e.revision, version |-> e.version,
                checks |-> e.checks, receiptDigest |-> e.receiptDigest]
        /\ f = [wellFormed |-> f.wellFormed, revision |-> f.revision, version |-> f.version,
                checks |-> f.checks, receiptDigest |-> f.receiptDigest]
    BY DEF Gate!OperationAssumption
  <1> QED
    BY <1>2, <1>3, <1>4

\* The mutations of finitely many calls are finitely many.
LEMMA FiniteMutations == Gate!OperationAssumption => IsFiniteSet(Gate!Mutations)
  <1> DEFINE T == {c \in Calls : Transition(c)}
  <1>1. ASSUME Gate!OperationAssumption PROVE IsFiniteSet(T)
    BY <1>1, FS_Subset, GateCounts DEF Gate!OperationAssumption
  <1> DEFINE f == [c \in T |-> operation[c].mutation]
  <1>2. f \in Surjection(T, Gate!Mutations)
    BY DEF Surjection, Gate!Mutations, Transition
  <1> HIDE DEF T, f
  <1> QED
    BY <1>1, <1>2, FS_Surjection

\* What the properties say follows from the invariant.
LEMMA GateSafe ==
    ASSUME Gate!OperationAssumption, GateInv
    PROVE  Gate!TypeOK /\ Gate!DecidedUnderVerifiedEvidence /\ Gate!PinFixesEvidence
  <1>1. Gate!TypeOK
    BY GateCounts DEF GateInv, GateTypes, Gate!TypeOK, Numbers, RequestInv
  <1>2. Gate!DecidedUnderVerifiedEvidence
    <2> SUFFICES ASSUME NEW i \in 1 .. Len(decided)
                 PROVE  \E c \in Calls :
                           /\ local[c].permit = decided[i].permit
                           /\ local[c].pin = decided[i].pin
                           /\ local[c].seen # NoPin /\ Gate!PinOf(local[c].seen) = decided[i].pin
                           /\ RequiredChecks \subseteq local[c].seen.checks
      BY DEF Gate!DecidedUnderVerifiedEvidence
    <2>1. PICK c \in Calls : /\ local[c].permit = decided[i].permit
                             /\ local[c].pin = decided[i].pin /\ local[c].seen # NoPin
      BY DEF GateInv, DecisionInv
    <2>2. /\ local[c].seen \in Evidence /\ local[c].pin \in Pins
          /\ Gate!EvaluateConvergence(local[c].seen, local[c].pin) # "blocked"
      BY <2>1 DEF GateInv, GateTypes, CallInv, Knowledge
    <2> QED
      BY <2>1, <2>2, ConvergedEvidence
  <1>3. Gate!PinFixesEvidence
    <2> SUFFICES ASSUME NEW c \in Calls, NEW d \in Calls, local[c].seen # NoPin,
                        local[d].seen # NoPin, local[c].pin = local[d].pin
                 PROVE  local[c].seen = local[d].seen
      BY DEF Gate!PinFixesEvidence
    <2>1. /\ local[c].seen \in Evidence /\ local[d].seen \in Evidence /\ local[c].pin \in Pins
          /\ Gate!EvaluateConvergence(local[c].seen, local[c].pin) # "blocked"
          /\ Gate!EvaluateConvergence(local[d].seen, local[c].pin) # "blocked"
      BY DEF GateInv, GateTypes, CallInv, Knowledge
    <2> QED
      BY <2>1, OneEvidence
  <1> QED
    BY <1>1, <1>2, <1>3

\* The bound of the permits is a number, and a mutation without a permit
\* leaves one to give.
LEMMA PermitBound ==
    ASSUME Gate!OperationAssumption, GateInv
    PROVE  /\ Cardinality(Gate!Mutations) \in Nat /\ Numbers \subseteq Nat /\ 0 \in Numbers
           /\ \A m \in Gate!Mutations : permits[m] = 0 => Gate!NextPermit \in Numbers \ {0}
  <1> DEFINE given == {n \in Gate!Mutations : permits[n] > 0}
  <1>1. IsFiniteSet(Gate!Mutations) /\ Cardinality(Gate!Mutations) \in Nat
    BY FiniteMutations, FS_CardinalityType
  <1>2. Numbers \subseteq Nat /\ 0 \in Numbers
    BY <1>1 DEF Numbers
  <1>3. ASSUME NEW m \in Gate!Mutations, permits[m] = 0 PROVE Gate!NextPermit \in Numbers \ {0}
    <2>1. IsFiniteSet(Gate!Mutations \ {m}) /\ Cardinality(Gate!Mutations \ {m}) = Cardinality(Gate!Mutations) - 1
      BY <1>1, FS_RemoveElement
    <2>2. given \in SUBSET (Gate!Mutations \ {m})
      BY <1>3
    <2>3. IsFiniteSet(given) /\ Cardinality(given) <= Cardinality(Gate!Mutations) - 1
      BY <2>1, <2>2, FS_Subset
    <2>4. Cardinality(given) \in Nat
      BY <2>3, FS_CardinalityType
    <2>5. Gate!NextPermit = 1 + Cardinality(given)
      BY GateCounts DEF Gate!NextPermit
    <2> HIDE DEF given
    <2> QED
      BY <1>1, <2>3, <2>4, <2>5 DEF Numbers
  <1> QED
    BY <1>1, <1>2, <1>3

\* Nothing has been asked.
LEMMA GateInit == ASSUME Gate!OperationAssumption, Gate!Init PROVE GateInv
  <1>1. Cardinality(Gate!Mutations) \in Nat
    BY FiniteMutations, FS_CardinalityType
  <1>2. 0 \in Numbers
    BY <1>1 DEF Numbers
  <1>3. GateTypes
    <2>1. decided \in Seq(Decisions)
      BY DEF Gate!Init
    <2> QED
      BY <1>2, <2>1 DEF Gate!Init, GateTypes, Gate!NoLocal, Pins, Knowledge
  <1>4. \A c \in Calls : CallInv(c)
    BY DEF Gate!Init, CallInv, Gate!NoLocal
  <1>5. Len(decided) = 0 /\ Gate!CompletedIsDecided
    BY DEF Gate!Init, Gate!CompletedIsDecided
  <1> QED
    BY <1>3, <1>4, <1>5 DEF GateInv, Gate!Init, Gate!AppliedInOrder

\* A step of a handler changes what its call knows, before it has seen
\* evidence, may issue a permit, and may send the request.
StepOf(c, to, knows) ==
    /\ to \in {"reserve", "verify", "send", "await", "done"}
    /\ pc[c] \in {"await", "done"} => to = "done"
    /\ pc' = [pc EXCEPT ![c] = to]
    /\ knows \in Knowledge
    /\ knows # local[c] => local[c].seen = NoPin /\ pc[c] \notin {"await", "done"}
    /\ local' = [local EXCEPT ![c] = knows]
    /\ permits' \in [Gate!Mutations -> Numbers]
    /\ \A m \in Gate!Mutations : permits[m] > 0 => permits'[m] = permits[m]
    /\ reservation' \in [Gate!Mutations -> {"none", "reserved", "completed"}]
    /\ \A m \in Gate!Mutations : reservation'[m] = "completed" => reservation[m] = "completed"
    /\ UNCHANGED <<provider, core, fences, responses, decided>>

\* Whatever a handler does next keeps the invariant.
LEMMA CallStep ==
    ASSUME Gate!OperationAssumption, GateInv, NEW c \in Calls, NEW to, NEW knows,
           StepOf(c, to, knows), CallInv(c)',
           \A request \in network' : request \in network \/ RequestInv(request)'
    PROVE  GateInv'
  <1> USE DEF StepOf
  <1>1. GateTypes'
    BY DEF GateInv, GateTypes
  <1>2. /\ pc'[c] = to /\ local'[c] = knows
        /\ \A d \in Calls \ {c} : pc'[d] = pc[d] /\ local'[d] = local[d]
    BY DEF GateInv, GateTypes
  <1>3. ASSUME NEW d \in Calls PROVE CallInv(d)'
    <2>1. CASE d = c
      BY <2>1
    <2>2. CASE d # c
      <3>1. CallInv(d) /\ pc'[d] = pc[d] /\ local'[d] = local[d]
        BY <1>2, <2>2 DEF GateInv
      <3>2. Transition(d) => operation[d].mutation \in Gate!Mutations
        BY DEF Transition, Gate!Mutations
      <3> QED
        BY <3>1, <3>2 DEF CallInv
    <2> QED
      BY <2>1, <2>2
  <1>4. ASSUME NEW request \in network' PROVE RequestInv(request)'
    <2>1. CASE request \in network
      <3>1. RequestInv(request)
        BY <2>1 DEF GateInv
      <3>2. /\ pc'[request.call] \in {"await", "done"}
            /\ local'[request.call] = local[request.call]
        BY <1>2, <3>1 DEF RequestInv
      <3> QED
        BY <3>1, <3>2 DEF RequestInv
    <2> QED
      BY <1>4, <2>1
  <1>5. \A response \in responses' : ResponseInv(response)'
    BY DEF GateInv, ResponseInv
  <1>6. ASSUME NEW i \in 1 .. Len(decided) PROVE DecisionInv(decided[i])'
    <2>1. DecisionInv(decided[i])
      BY DEF GateInv
    <2>2. PICK d \in Calls : /\ local[d].permit = decided[i].permit
                             /\ local[d].pin = decided[i].pin /\ local[d].seen # NoPin
      BY <2>1 DEF DecisionInv
    <2>3. local'[d] = local[d]
      BY <1>2, <2>2
    <2> QED
      BY <2>1, <2>2, <2>3 DEF DecisionInv
  <1>7. Gate!CompletedIsDecided'
    <2> SUFFICES ASSUME NEW m \in Gate!Mutations, reservation'[m] = "completed"
                 PROVE  \E i \in 1 .. Len(decided) : decided[i].permit = permits'[m]
      BY DEF Gate!CompletedIsDecided
    <2>1. PICK i \in 1 .. Len(decided) : decided[i].permit = permits[m]
      BY DEF GateInv, Gate!CompletedIsDecided
    <2>2. decided[i].permit \in Numbers \ {0}
      <3>1. decided[i] \in Decisions
        BY DEF GateInv, GateTypes
      <3> QED
        BY <3>1 DEF Decisions
    <2>3. permits[m] > 0
      BY <2>1, <2>2, PermitBound
    <2> QED
      BY <2>1, <2>3
  <1>8. Gate!AppliedInOrder'
    BY DEF GateInv, Gate!AppliedInOrder
  <1> QED
    BY <1>1, <1>3, <1>4, <1>5, <1>6, <1>7, <1>8 DEF GateInv

\* A deployment only puts another evidence, pin or life in place.
LEMMA DeployKeeps ==
    ASSUME Gate!OperationAssumption, GateInv, NEW e \in Evidence,
           Gate!DeployProvider(e) \/ Gate!DeployCore(Gate!PinOf(e)) \/ Gate!LeaseEnds
    PROVE  GateInv'
  <1>1. /\ provider' \in [evidence : Evidence, secret : Secrets, life : Nat]
        /\ \/ provider' = provider /\ fences' = fences
           \/ provider'.life = provider.life + 1 /\ fences' = 0
        /\ core' \in [pin : Pins, secret : Secrets]
        /\ UNCHANGED <<permits, reservation, pc, local, network, responses, decided>>
    <2>1. /\ provider \in [evidence : Evidence, secret : Secrets, life : Nat]
          /\ core \in [pin : Pins, secret : Secrets] /\ Gate!PinOf(e) \in Pins
      BY DEF GateInv, GateTypes, Pins
    <2>2. CASE Gate!DeployProvider(e)
      <3>1. /\ provider' = [provider EXCEPT !.evidence = e, !.life = @ + 1]
            /\ fences' = 0
            /\ UNCHANGED <<core, permits, reservation, pc, local, network, responses, decided>>
        BY <2>2 DEF Gate!DeployProvider, Gate!claimVars
      <3>2. provider' = [evidence |-> e, secret |-> provider.secret, life |-> provider.life + 1]
        BY <2>1, <3>1
      <3>3. provider.life + 1 \in Nat /\ provider.secret \in Secrets
        BY <2>1
      <3> QED
        BY <2>1, <3>1, <3>2, <3>3
    <2>3. CASE Gate!DeployCore(Gate!PinOf(e))
      BY <2>1, <2>3 DEF Gate!DeployCore, Gate!claimVars
    <2>4. CASE Gate!LeaseEnds
      BY <2>1, <2>4 DEF Gate!LeaseEnds, Gate!claimVars, Gate!deploymentVars
    <2> QED
      BY <2>2, <2>3, <2>4
  <1>2. fences' \in Numbers /\ provider.life \in Nat
    BY <1>1, PermitBound DEF GateInv, GateTypes
  <1>3. GateTypes'
    BY <1>1, <1>2 DEF GateInv, GateTypes
  <1>4. /\ \A c \in Calls : CallInv(c)'
        /\ \A request \in network' : RequestInv(request)'
        /\ \A response \in responses' : ResponseInv(response)'
        /\ Gate!CompletedIsDecided' /\ Gate!AppliedInOrder'
    BY <1>1 DEF GateInv, CallInv, RequestInv, ResponseInv, Gate!CompletedIsDecided, Gate!AppliedInOrder
  <1>5. ASSUME NEW i \in 1 .. Len(decided) PROVE DecisionInv(decided[i])'
    <2>1. DecisionInv(decided[i])
      BY DEF GateInv
    <2>2. decided[i] \in Decisions
      BY DEF GateInv, GateTypes
    <2>3. decided[i].life \in Nat
      BY <2>2 DEF Decisions
    <2> QED
      BY <1>1, <1>2, <2>1, <2>3 DEF DecisionInv
  <1> QED
    BY <1>1, <1>3, <1>4, <1>5 DEF GateInv

\* A call that is answered keeps what it knows.
LEMMA RespondKeeps ==
    ASSUME Gate!OperationAssumption, GateInv, NEW c \in Calls, NEW code, Gate!Respond(c, code),
           pc[c] # "start",
           UNCHANGED <<provider, core, fences, permits, reservation, local, network,
                       responses, decided>>
    PROVE  GateInv'
  <1>1. pc' = [pc EXCEPT ![c] = "done"] /\ local' = [local EXCEPT ![c] = local[c]]
    BY DEF Gate!Respond, GateInv, GateTypes
  <1>2. pc'[c] = "done"
    BY <1>1 DEF GateInv, GateTypes
  <1>3. CallInv(c)'
    BY <1>2 DEF GateInv, CallInv
  <1>4. /\ local[c] \in Knowledge
        /\ permits' \in [Gate!Mutations -> Numbers]
        /\ reservation' \in [Gate!Mutations -> {"none", "reserved", "completed"}]
    BY DEF GateInv, GateTypes
  <1>5. StepOf(c, "done", local[c]) /\ network' = network
    BY <1>1, <1>4 DEF StepOf
  <1> QED
    BY <1>3, <1>5, CallStep

\* A call takes the pin and the secret of the deployed core.
LEMMA ReceivedKeeps ==
    ASSUME Gate!OperationAssumption, GateInv, NEW c \in Calls, Gate!Receive(c)
    PROVE  GateInv'
  <1> DEFINE knows == [local[c] EXCEPT !.pin = core.pin, !.secret = core.secret]
  <1>1. PICK to \in {"reserve", "verify", "done"} :
          /\ pc' = [pc EXCEPT ![c] = to]
          /\ to = "reserve" => Transition(c)
          /\ to = "verify" => ~Transition(c)
    BY DEF Gate!Receive, Gate!Respond, Gate!Goto, Transition
  <1>2. /\ pc[c] = "start" /\ local[c] = Gate!NoLocal /\ local' = [local EXCEPT ![c] = knows]
        /\ UNCHANGED <<provider, core, fences, permits, reservation, network, responses, decided>>
    BY DEF Gate!Receive, GateInv, GateTypes, CallInv, Gate!deploymentVars, Gate!claimVars
  <1>3. /\ knows \in Knowledge
        /\ knows.pin \in Pins /\ knows.seen = NoPin /\ knows.permit = 0 /\ local[c].seen = NoPin
    <2>1. knows = [pin |-> core.pin, secret |-> core.secret, seen |-> NoPin, permit |-> 0]
      <3>1. knows = [Gate!NoLocal EXCEPT !.pin = core.pin, !.secret = core.secret]
        BY <1>2
      <3> HIDE DEF knows
      <3> QED
        BY <3>1 DEF Gate!NoLocal
    <2>2. core.pin \in Pins /\ core.secret \in Secrets /\ 0 \in Numbers
      BY PermitBound DEF GateInv, GateTypes
    <2> HIDE DEF knows
    <2> QED
      BY <1>2, <2>1, <2>2 DEF Knowledge, Gate!NoLocal
  <1>4. pc'[c] = to /\ local'[c] = knows
    BY <1>1, <1>2 DEF GateInv, GateTypes
  <1>5. CallInv(c)'
    <2> HIDE DEF knows
    <2> QED
      BY <1>1, <1>3, <1>4 DEF CallInv
  <1>6. /\ permits' \in [Gate!Mutations -> Numbers]
        /\ reservation' \in [Gate!Mutations -> {"none", "reserved", "completed"}]
    BY <1>2 DEF GateInv, GateTypes
  <1> HIDE DEF knows
  <1>7. StepOf(c, to, knows) /\ network' = network
    BY <1>1, <1>2, <1>3, <1>6 DEF StepOf
  <1> QED
    BY <1>5, <1>7, CallStep

\* A transition goes on with the permit of its mutation, new or again.
LEMMA ReserveKeeps ==
    ASSUME Gate!OperationAssumption, GateInv, NEW c \in Calls, Gate!Reserve(c)
    PROVE  GateInv'
  <1> DEFINE m == operation[c].mutation
             p == permits'[m]
             knows == [local[c] EXCEPT !.permit = p]
  <1>1. /\ pc[c] = "reserve" /\ Transition(c) /\ m \in Gate!Mutations
        /\ local[c].seen = NoPin /\ local[c].pin \in Pins
    BY DEF Gate!Reserve, GateInv, CallInv, Transition, Gate!Mutations
  <1>2. UNCHANGED <<provider, core, fences, network, responses, decided>>
    BY DEF Gate!Reserve, Gate!deploymentVars
  <1>3. CASE Gate!Respond(c, "authoring_mutation_unresolved") /\ UNCHANGED <<Gate!claimVars, local>>
    BY <1>1, <1>2, <1>3, RespondKeeps DEF Gate!claimVars
  <1>4. CASE ~(Gate!Respond(c, "authoring_mutation_unresolved") /\ UNCHANGED <<Gate!claimVars, local>>)
    <2>1. /\ permits' \in [Gate!Mutations -> Numbers] /\ p \in Numbers \ {0}
          /\ \A n \in Gate!Mutations : permits[n] > 0 => permits'[n] = permits[n]
          /\ reservation' \in [Gate!Mutations -> {"none", "reserved", "completed"}]
          /\ \A n \in Gate!Mutations : reservation'[n] = "completed" => reservation[n] = "completed"
          /\ local' = [local EXCEPT ![c].permit = p]
          /\ pc' = [pc EXCEPT ![c] = "verify"]
      <3>1. permits \in [Gate!Mutations -> Numbers] /\ permits[m] \in Nat
            /\ reservation \in [Gate!Mutations -> {"none", "reserved", "completed"}]
        BY <1>1, PermitBound DEF GateInv, GateTypes
      <3>2. CASE permits[m] > 0
        BY <1>1, <1>4, <3>1, <3>2 DEF Gate!Reserve, Gate!Goto, Gate!claimVars
      <3>3. CASE permits[m] = 0
        <4>1. Gate!NextPermit \in Numbers \ {0}
          BY <1>1, <3>3, PermitBound
        <4>2. /\ permits' = [permits EXCEPT ![m] = Gate!NextPermit]
              /\ reservation' = [reservation EXCEPT ![m] = "reserved"]
              /\ local' = [local EXCEPT ![c].permit = Gate!NextPermit]
              /\ pc' = [pc EXCEPT ![c] = "verify"]
          BY <1>1, <1>4, <3>1, <3>3 DEF Gate!Reserve, Gate!Goto
        <4> HIDE DEF m
        <4>3. p = Gate!NextPermit /\ permits' \in [Gate!Mutations -> Numbers]
          BY <1>1, <3>1, <4>1, <4>2
        <4>4. /\ \A n \in Gate!Mutations : permits[n] > 0 => permits'[n] = permits[n]
              /\ reservation' \in [Gate!Mutations -> {"none", "reserved", "completed"}]
              /\ \A n \in Gate!Mutations : reservation'[n] = "completed" => reservation[n] = "completed"
          BY <1>1, <3>1, <3>3, <4>2
        <4> QED
          BY <4>1, <4>2, <4>3, <4>4
      <3> QED
        BY <3>1, <3>2, <3>3
    <2>2. /\ local' = [local EXCEPT ![c] = knows]
          /\ knows \in Knowledge
          /\ knows.pin = local[c].pin /\ knows.seen = NoPin /\ knows.permit = p
      BY <1>1, <2>1 DEF GateInv, GateTypes, Knowledge
    <2>3. pc'[c] = "verify" /\ local'[c] = knows /\ p > 0
      BY <2>1, <2>2, PermitBound DEF GateInv, GateTypes
    <2>4. CallInv(c)'
      <3> HIDE DEF knows
      <3> QED
        BY <1>1, <2>2, <2>3 DEF CallInv
    <2> HIDE DEF knows, m, p
    <2>5. StepOf(c, "verify", knows) /\ network' = network
      BY <1>1, <1>2, <2>1, <2>2 DEF StepOf
    <2> QED
      BY <2>4, <2>5, CallStep
  <1> QED
    BY <1>3, <1>4

\* A call goes on with evidence that converges with its pin.
LEMMA VerifyKeeps ==
    ASSUME Gate!OperationAssumption, GateInv, NEW c \in Calls, Gate!VerifyEvidence(c)
    PROVE  GateInv'
  <1> DEFINE knows == [local[c] EXCEPT !.seen = provider.evidence]
  <1>1. /\ pc[c] = "verify" /\ local[c].seen = NoPin /\ local[c].pin \in Pins
        /\ UNCHANGED <<provider, core, fences, permits, reservation, network, responses, decided>>
    BY DEF Gate!VerifyEvidence, GateInv, CallInv, Gate!deploymentVars, Gate!claimVars
  <1>2. CASE \E code : Gate!Respond(c, code) /\ UNCHANGED local
    BY <1>1, <1>2, RespondKeeps
  <1>3. CASE /\ Gate!EvaluateConvergence(provider.evidence, local[c].pin) # "blocked"
             /\ local' = [local EXCEPT ![c].seen = provider.evidence]
             /\ Gate!Goto(c, "send")
    <2>1. /\ pc' = [pc EXCEPT ![c] = "send"] /\ local' = [local EXCEPT ![c] = knows]
          /\ provider.evidence \in Evidence /\ provider.evidence # NoPin
      BY <1>3 DEF Gate!Goto, GateInv, GateTypes, Gate!OperationAssumption
    <2>2. /\ knows \in Knowledge
          /\ knows.pin = local[c].pin /\ knows.seen = provider.evidence
          /\ knows.permit = local[c].permit
      BY <2>1 DEF GateInv, GateTypes, Knowledge
    <2>3. pc'[c] = "send" /\ local'[c] = knows
      BY <2>1 DEF GateInv, GateTypes
    <2>4. CallInv(c)'
      <3>1. CallInv(c)
        BY DEF GateInv
      <3> HIDE DEF knows
      <3> QED
        BY <1>1, <1>3, <2>1, <2>2, <2>3, <3>1 DEF CallInv
    <2>5. /\ permits' \in [Gate!Mutations -> Numbers]
          /\ reservation' \in [Gate!Mutations -> {"none", "reserved", "completed"}]
      BY <1>1 DEF GateInv, GateTypes
    <2> HIDE DEF knows
    <2>6. StepOf(c, "send", knows) /\ network' = network
      BY <1>1, <2>1, <2>2, <2>5 DEF StepOf
    <2> QED
      BY <2>4, <2>6, CallStep
  <1> QED
    BY <1>2, <1>3 DEF Gate!VerifyEvidence

\* A request is sent with the binding of what its call knows.
LEMMA SendKeeps ==
    ASSUME Gate!OperationAssumption, GateInv, NEW c \in Calls, Gate!Send(c)
    PROVE  GateInv'
  <1>1. /\ pc[c] = "send" /\ CallInv(c)
        /\ UNCHANGED <<provider, core, fences, permits, reservation, local, responses, decided>>
    BY DEF Gate!Send, GateInv, Gate!deploymentVars, Gate!claimVars
  <1>2. CASE \E code : Gate!Respond(c, code) /\ UNCHANGED network
    BY <1>1, <1>2, RespondKeeps
  <1>3. CASE ~\E code : Gate!Respond(c, code) /\ UNCHANGED network
    <2>1. PICK signature :
            /\ network' = network \cup {[call |-> c, signature |-> signature,
                                         binding |-> Gate!Binding(c, local[c].pin, local[c].permit)]}
            /\ pc' = [pc EXCEPT ![c] = "await"]
      BY <1>3 DEF Gate!Send, Gate!Goto
    <2>2. pc'[c] = "await" /\ local' = [local EXCEPT ![c] = local[c]]
      BY <1>1, <2>1 DEF GateInv, GateTypes
    <2>3. CallInv(c)' /\ local[c].seen # NoPin
      BY <1>1, <2>2 DEF CallInv
    <2>4. \A request \in network' : request \in network \/ RequestInv(request)'
      BY <1>1, <2>1, <2>2, <2>3 DEF RequestInv
    <2>5. /\ permits' \in [Gate!Mutations -> Numbers]
          /\ reservation' \in [Gate!Mutations -> {"none", "reserved", "completed"}]
          /\ local[c] \in Knowledge
      BY <1>1 DEF GateInv, GateTypes
    <2>6. StepOf(c, "await", local[c])
      BY <1>1, <2>1, <2>2, <2>5 DEF StepOf
    <2> QED
      BY <2>3, <2>4, <2>6, CallStep
  <1> QED
    BY <1>2, <1>3

\* A decision that is added keeps the earlier ones and is one more.
LEMMA Added ==
    ASSUME GateInv, NEW d \in Decisions, decided' = Append(decided, d)
    PROVE  /\ decided' \in Seq(Decisions) /\ Len(decided) \in Nat
           /\ Len(decided') = Len(decided) + 1
           /\ \A i \in 1 .. Len(decided) : decided'[i] = decided[i]
           /\ decided'[Len(decided) + 1] = d
           /\ \A i \in 1 .. Len(decided') : i \in 1 .. Len(decided) \/ i = Len(decided) + 1
  <1>1. decided \in Seq(Decisions)
    BY DEF GateInv, GateTypes
  <1> QED
    BY <1>1

\* Taking a request off the network with an answer, and perhaps a decision.
Answered(request, response) ==
    /\ request \in network
    /\ network' = network \ {request}
    /\ responses' = responses \cup {response}
    /\ response.call \in Calls
    /\ UNCHANGED <<provider, core, permits, reservation, pc, local>>

\* An answer without a decision is not definite.
LEMMA AnswerKeeps ==
    ASSUME GateInv, NEW request, NEW response, Answered(request, response),
           UNCHANGED <<fences, decided>>, ResponseInv(response)
    PROVE  GateInv'
  <1>1. GateTypes'
    BY DEF GateInv, GateTypes, Answered
  <1>2. (\A c \in Calls : CallInv(c)') /\ Gate!CompletedIsDecided' /\ Gate!AppliedInOrder'
    BY DEF GateInv, CallInv, Gate!CompletedIsDecided, Gate!AppliedInOrder, Answered
  <1>3. \A q \in network' : RequestInv(q)'
    BY DEF GateInv, RequestInv, Answered
  <1>4. \A r \in responses' : ResponseInv(r)'
    BY DEF GateInv, ResponseInv, Answered
  <1>5. \A i \in 1 .. Len(decided') : DecisionInv(decided[i])'
    BY DEF GateInv, DecisionInv, Answered
  <1> QED
    BY <1>1, <1>2, <1>3, <1>4, <1>5 DEF GateInv

\* A decision is added with its answer; one that is applied moves the fence.
LEMMA DecisionKeeps ==
    ASSUME Gate!OperationAssumption, GateInv, NEW request, NEW response, Answered(request, response),
           NEW d \in Decisions, decided' = Append(decided, d),
           response.permit = d.permit, d.life = provider.life,
           \E c \in Calls : /\ local[c].permit = d.permit /\ local[c].pin = d.pin
                            /\ local[c].seen # NoPin,
           \/ d.outcome = "refused" /\ fences' = fences
           \/ d.outcome = "applied" /\ fences' = d.permit /\ fences <= d.permit
    PROVE  GateInv'
  <1> USE DEF Answered
  <1>0. /\ decided' \in Seq(Decisions) /\ Len(decided) \in Nat
        /\ Len(decided') = Len(decided) + 1
        /\ \A i \in 1 .. Len(decided) : decided'[i] = decided[i]
        /\ decided'[Len(decided) + 1] = d
        /\ \A i \in 1 .. Len(decided') : i \in 1 .. Len(decided) \/ i = Len(decided) + 1
    BY Added
  <1>1. ASSUME NEW i \in 1 .. Len(decided)
        PROVE  /\ decided[i].permit \in Nat /\ decided[i].life \in Nat
               /\ decided[i].outcome \in {"applied", "refused"}
               /\ i \in 1 .. Len(decided') /\ decided'[i] = decided[i] /\ DecisionInv(decided[i])
    <2>1. decided[i] \in Decisions /\ DecisionInv(decided[i])
      BY DEF GateInv, GateTypes
    <2>2. decided[i].permit \in Nat /\ decided[i].life \in Nat
          /\ decided[i].outcome \in {"applied", "refused"}
      BY <2>1, PermitBound DEF Decisions
    <2> QED
      BY <1>0, <2>1, <2>2
  <1>2. /\ d.permit \in Nat \ {0} /\ d.permit \in Numbers /\ provider.life \in Nat
        /\ fences \in Nat /\ fences' \in Numbers /\ fences <= fences' /\ fences' \in Nat
    BY PermitBound DEF Decisions, GateInv, GateTypes
  <1>3. GateTypes'
    BY <1>0, <1>2 DEF GateInv, GateTypes
  <1>4. (\A c \in Calls : CallInv(c)') /\ (\A q \in network' : RequestInv(q)')
    BY DEF GateInv, CallInv, RequestInv
  <1>5. ASSUME NEW r \in responses' PROVE ResponseInv(r)'
    <2>1. CASE r \in responses
      <3>1. ResponseInv(r)
        BY <2>1 DEF GateInv
      <3> QED
        BY <1>1, <3>1 DEF ResponseInv
    <2>2. CASE r = response
      <3>1. /\ Len(decided) + 1 \in 1 .. Len(decided')
            /\ decided'[Len(decided) + 1].permit = r.permit
        BY <1>0, <2>2
      <3> QED
        BY <3>1 DEF ResponseInv
    <2> QED
      BY <2>1, <2>2
  <1>6. ASSUME NEW i \in 1 .. Len(decided') PROVE DecisionInv(decided[i])'
    <2>1. CASE i \in 1 .. Len(decided)
      <3>1. DecisionInv(decided[i]) /\ decided'[i] = decided[i] /\ decided[i].permit \in Nat
        BY <1>1, <2>1
      <3> QED
        BY <1>2, <3>1 DEF DecisionInv
    <2>2. CASE i = Len(decided) + 1
      <3>1. decided'[i] = d
        BY <1>0, <2>2
      <3> QED
        BY <1>2, <3>1 DEF DecisionInv
    <2> QED
      BY <1>0, <2>1, <2>2
  <1>7. Gate!CompletedIsDecided'
    <2> SUFFICES ASSUME NEW m \in Gate!Mutations, reservation[m] = "completed"
                 PROVE  \E i \in 1 .. Len(decided') : decided'[i].permit = permits[m]
      BY DEF Gate!CompletedIsDecided
    <2>1. PICK i \in 1 .. Len(decided) : decided[i].permit = permits[m]
      BY DEF GateInv, Gate!CompletedIsDecided
    <2> QED
      BY <1>1, <2>1
  <1>8. Gate!AppliedInOrder'
    <2> SUFFICES ASSUME NEW i \in 1 .. Len(decided'), NEW j \in 1 .. Len(decided'), i < j,
                        decided'[i].outcome = "applied", decided'[j].outcome = "applied",
                        decided'[i].life = decided'[j].life
                 PROVE  decided'[i].permit <= decided'[j].permit
      BY DEF Gate!AppliedInOrder
    <2>1. i \in 1 .. Len(decided)
      BY <1>0
    <2>2. CASE j \in 1 .. Len(decided)
      BY <1>1, <2>1, <2>2 DEF GateInv, Gate!AppliedInOrder
    <2>3. CASE j = Len(decided) + 1
      <3>1. decided'[j] = d /\ decided'[i] = decided[i]
        BY <1>0, <1>1, <2>1, <2>3
      <3>2. decided[i].permit <= fences /\ decided[i].permit \in Nat
        BY <1>1, <2>1, <3>1 DEF DecisionInv
      <3> QED
        BY <1>2, <3>1, <3>2
    <2> QED
      BY <1>0, <2>2, <2>3
  <1> QED
    BY <1>3, <1>4, <1>5, <1>6, <1>7, <1>8 DEF GateInv

\* A request that arrives asks for what its call knows.
LEMMA Asked ==
    ASSUME Gate!OperationAssumption, GateInv, NEW request \in network
    PROVE  LET c == request.call
               p == request.binding.request.permit
           IN  /\ c \in Calls /\ p = local[c].permit /\ p \in Numbers
               /\ request.binding.pin = local[c].pin /\ local[c].seen # NoPin
  <1>1. RequestInv(request)
    BY DEF GateInv
  <1>2. /\ request.call \in Calls /\ local[request.call].seen # NoPin
        /\ request.binding = Gate!Binding(request.call, local[request.call].pin,
                                     local[request.call].permit)
    BY <1>1 DEF RequestInv
  <1>3. local[request.call].permit \in Numbers
    BY <1>2 DEF GateInv, GateTypes, Knowledge
  <1> QED
    BY <1>2, <1>3 DEF Gate!Binding, Gate!RequestDigest

\* The provider refuses, reads, or decides under its own evidence.
LEMMA HandlesKeeps ==
    ASSUME Gate!OperationAssumption, GateInv, NEW request \in network, Gate!ProviderHandles(request)
    PROVE  GateInv'
  <1> DEFINE c == request.call
             p == request.binding.request.permit
             verdict == Gate!AdmitMutation(p)
  <1>1. /\ c \in Calls /\ p = local[c].permit /\ p \in Numbers /\ p \in Nat
        /\ request.binding.pin = local[c].pin /\ local[c].seen # NoPin
    BY Asked, PermitBound
  <1>2. /\ network' = network \ {request}
        /\ UNCHANGED <<provider, core, permits, reservation, pc, local>>
    BY DEF Gate!ProviderHandles, Gate!deploymentVars, Gate!claimVars
  <1>0. \/ /\ ~Gate!ReadBinding(request)
           /\ responses' = responses \cup
                {Gate!Answer(request, FALSE, 0, 409, "operational_evidence_binding_invalid")}
           /\ UNCHANGED <<fences, decided>>
        \/ /\ Gate!ReadBinding(request) /\ p = 0
           /\ \E code \in {"ok", "not_found"} :
                 responses' = responses \cup {Gate!Answer(request, TRUE, 0, 200, code)}
           /\ UNCHANGED <<fences, decided>>
        \/ /\ Gate!ReadBinding(request) /\ p > 0 /\ verdict # "admitted"
           /\ responses' = responses \cup {Gate!Answer(request, TRUE, p, 409, verdict)}
           /\ Gate!Decide(p, "refused") /\ UNCHANGED fences
        \/ /\ Gate!ReadBinding(request) /\ p > 0 /\ verdict = "admitted"
           /\ fences' = p
           /\ Gate!Decide(p, "applied")
           /\ responses' = responses \cup {Gate!Answer(request, TRUE, p, 200, "ok")}
    BY Zenon DEF Gate!ProviderHandles
  <1>3. ASSUME NEW bound, NEW status, NEW code,
               responses' = responses \cup {Gate!Answer(request, bound, 0, status, code)},
               UNCHANGED <<fences, decided>>
        PROVE  GateInv'
    <2> DEFINE answered == Gate!Answer(request, bound, 0, status, code)
    <2>1. answered.call = c /\ answered.permit = 0
      BY DEF Gate!Answer
    <2> HIDE DEF answered
    <2>2. Answered(request, answered) /\ ResponseInv(answered)
      BY <1>1, <1>2, <1>3, <2>1 DEF Answered, ResponseInv, answered
    <2> QED
      BY <1>3, <2>2, AnswerKeeps
  <1>4. ASSUME NEW outcome \in {"applied", "refused"}, NEW status, NEW code,
               Gate!ReadBinding(request), p > 0, Gate!Decide(p, outcome),
               responses' = responses \cup {Gate!Answer(request, TRUE, p, status, code)},
               \/ outcome = "refused" /\ fences' = fences
               \/ outcome = "applied" /\ fences' = p /\ fences <= p
        PROVE  GateInv'
    <2> DEFINE answered == Gate!Answer(request, TRUE, p, status, code)
               d == [permit |-> p, outcome |-> outcome,
                     pin |-> Gate!PinOf(provider.evidence), life |-> provider.life]
    <2>1. answered.call = c /\ answered.permit = p
      BY DEF Gate!Answer
    <2>2. Answered(request, answered)
      <3> HIDE DEF answered
      <3> QED
        BY <1>1, <1>2, <1>4, <2>1 DEF Answered, answered
    <2>3. d \in Decisions /\ d.permit = p /\ d.outcome = outcome /\ d.life = provider.life
      <3>1. Gate!PinOf(provider.evidence) \in Pins /\ provider.life \in Nat /\ p \in Numbers \ {0}
        BY <1>1, <1>4 DEF GateInv, GateTypes, Pins
      <3> QED
        BY <3>1 DEF Decisions
    <2>4. local[c].permit = d.permit /\ local[c].pin = d.pin /\ local[c].seen # NoPin
      BY <1>1, <1>4 DEF Gate!ReadBinding
    <2>5. decided' = Append(decided, d)
      BY <1>4 DEF Gate!Decide
    <2> HIDE DEF answered, d, c, p
    <2> QED
      BY <1>1, <1>4, <2>1, <2>2, <2>3, <2>4, <2>5, DecisionKeeps
  <1>5. CASE /\ UNCHANGED <<fences, decided>>
             /\ \E bound, status, code :
                   responses' = responses \cup {Gate!Answer(request, bound, 0, status, code)}
    BY <1>3, <1>5
  <1>6. CASE /\ Gate!ReadBinding(request) /\ p > 0 /\ verdict # "admitted"
             /\ responses' = responses \cup {Gate!Answer(request, TRUE, p, 409, verdict)}
             /\ Gate!Decide(p, "refused") /\ UNCHANGED fences
    BY <1>4, <1>6
  <1>7. CASE /\ Gate!ReadBinding(request) /\ p > 0 /\ verdict = "admitted"
             /\ fences' = p
             /\ Gate!Decide(p, "applied")
             /\ responses' = responses \cup {Gate!Answer(request, TRUE, p, 200, "ok")}
    <2>1. fences <= p
      BY <1>1, <1>7, PermitBound DEF GateInv, GateTypes, Gate!AdmitMutation
    <2> QED
      BY <1>4, <1>7, <2>1
  <1> HIDE DEF c, p, verdict
  <1> QED
    BY <1>0, <1>5, <1>6, <1>7, Zenon

\* A provider that leaves a transition undecided gives no definite answer.
LEMMA UndecidedKeeps ==
    ASSUME Gate!OperationAssumption, GateInv, NEW request \in network, Gate!ProviderUndecided(request)
    PROVE  GateInv'
  <1>1. PICK failure \in {<<409, "authoring_mutation_reconciliation_required">>, <<500, "error">>} :
          responses' = responses \cup
              {Gate!Answer(request, TRUE, request.binding.request.permit, failure[1], failure[2])}
    BY DEF Gate!ProviderUndecided
  <1> DEFINE answered == Gate!Answer(request, TRUE, request.binding.request.permit, failure[1], failure[2])
  <1>2. /\ answered.call = request.call
        /\ answered.status = failure[1] /\ answered.code = failure[2]
    BY DEF Gate!Answer
  <1>3. request.call \in Calls
    BY Asked
  <1>4. Gate!ClassifyVendorTransition(answered) = "invalid"
    <2> HIDE DEF answered
    <2> QED
      BY <1>2 DEF Gate!ClassifyVendorTransition, Gate!TerminalCodes
  <1> HIDE DEF answered
  <1>5. Answered(request, answered) /\ ResponseInv(answered) /\ UNCHANGED <<fences, decided>>
    BY <1>1, <1>2, <1>3, <1>4
       DEF Answered, ResponseInv, answered, Gate!ProviderUndecided, Gate!deploymentVars, Gate!claimVars
  <1> QED
    BY <1>5, AnswerKeeps

\* A reservation is completed by a definite answer to its own permit.
LEMMA AnswerReceived ==
    ASSUME Gate!OperationAssumption, GateInv, NEW response \in responses, Gate!ReceiveAnswer(response)
    PROVE  GateInv'
  <1> DEFINE c == response.call
             m == operation[c].mutation
  <1>1. /\ c \in Calls /\ pc[c] = "await" /\ responses' \subseteq responses
        /\ UNCHANGED <<provider, core, fences, permits, local, network, decided>>
        /\ \E code : Gate!Respond(c, code)
    BY DEF Gate!ReceiveAnswer, GateInv, GateTypes, Gate!deploymentVars
  <1>2. /\ pc' = [pc EXCEPT ![c] = "done"] /\ pc'[c] = "done"
        /\ \A d \in Calls \ {c} : pc'[d] = pc[d]
    BY <1>1 DEF Gate!Respond, GateInv, GateTypes
  <1>3. \/ UNCHANGED reservation
        \/ /\ Gate!BoundTo(response, c) /\ Transition(c)
           /\ Gate!ClassifyVendorTransition(response) # "invalid"
           /\ reservation' = [reservation EXCEPT ![m] = "completed"]
    BY DEF Gate!ReceiveAnswer, Transition
  <1>4. GateTypes'
    <2>1. /\ pc' \in [Calls -> {"start", "reserve", "verify", "send", "await", "done"}]
          /\ reservation' \in [Gate!Mutations -> {"none", "reserved", "completed"}]
      BY <1>2, <1>3 DEF GateInv, GateTypes
    <2> QED
      BY <1>1, <2>1 DEF GateInv, GateTypes
  <1>5. ASSUME NEW d \in Calls PROVE CallInv(d)'
    <2>1. CallInv(d)
      BY DEF GateInv
    <2>2. CASE d = c
      BY <1>1, <1>2, <2>1, <2>2 DEF CallInv
    <2>3. CASE d # c
      BY <1>1, <1>2, <2>1, <2>3 DEF CallInv
    <2> QED
      BY <2>2, <2>3
  <1>6. \A request \in network' : RequestInv(request)'
    BY <1>1, <1>2 DEF GateInv, RequestInv
  <1>7. \A r \in responses' : ResponseInv(r)'
    BY <1>1 DEF GateInv, ResponseInv
  <1>8. (\A i \in 1 .. Len(decided') : DecisionInv(decided[i])') /\ Gate!AppliedInOrder'
    BY <1>1 DEF GateInv, DecisionInv, Gate!AppliedInOrder
  <1>9. Gate!CompletedIsDecided'
    <2> SUFFICES ASSUME NEW n \in Gate!Mutations, reservation'[n] = "completed"
                 PROVE  \E i \in 1 .. Len(decided) : decided[i].permit = permits[n]
      BY <1>1 DEF Gate!CompletedIsDecided
    <2>1. CASE reservation[n] = "completed"
      BY <2>1 DEF GateInv, Gate!CompletedIsDecided
    <2>2. CASE reservation[n] # "completed"
      <3>1. /\ Gate!BoundTo(response, c) /\ Transition(c) /\ n = m
            /\ Gate!ClassifyVendorTransition(response) # "invalid"
        BY <1>3, <2>2 DEF GateInv, GateTypes
      <3>2. local[c].permit > 0 /\ local[c].permit = permits[m] /\ local[c].permit \in Nat
        <4>1. CallInv(c) /\ local[c].permit \in Nat
          BY <1>1, PermitBound DEF GateInv, GateTypes, Knowledge
        <4> QED
          BY <1>1, <3>1, <4>1 DEF CallInv
      <3>3. response.permit = permits[m] /\ response.permit \in Nat \ {0}
        BY <3>1, <3>2 DEF Gate!BoundTo, Transition
      <3> QED
        BY <3>1, <3>3 DEF GateInv, ResponseInv
    <2> QED
      BY <2>1, <2>2
  <1> QED
    BY <1>4, <1>5, <1>6, <1>7, <1>8, <1>9 DEF GateInv

\* Every step keeps the invariant.
LEMMA GateStep == Gate!OperationAssumption /\ GateInv /\ [Gate!Next]_(Gate!vars) => GateInv'
  <1> SUFFICES ASSUME Gate!OperationAssumption, GateInv, [Gate!Next]_(Gate!vars) PROVE GateInv'
      OBVIOUS
  <1>1. ASSUME NEW c \in Calls, Gate!Timeout(c) PROVE GateInv'
    <2>1. /\ pc[c] # "start" /\ \E code : Gate!Respond(c, code)
          /\ UNCHANGED <<provider, core, fences, permits, reservation, local, network,
                         responses, decided>>
      BY <1>1 DEF Gate!Timeout, Gate!deploymentVars, Gate!claimVars
    <2> QED
      BY <2>1, RespondKeeps
  <1>2. CASE UNCHANGED Gate!vars
    BY <1>2 DEF Gate!vars, GateInv, GateTypes, CallInv, RequestInv, ResponseInv, DecisionInv,
            Gate!CompletedIsDecided, Gate!AppliedInOrder
  <1> QED
    <2>1. provider.evidence \in Evidence
      BY DEF GateInv, GateTypes
    <2>2. CASE Gate!LeaseEnds \/ \E e \in Evidence : Gate!DeployProvider(e) \/ Gate!DeployCore(Gate!PinOf(e))
      BY <2>1, <2>2, DeployKeeps
    <2>3. CASE \E c \in Calls : Gate!Receive(c) \/ Gate!Reserve(c) \/ Gate!VerifyEvidence(c) \/ Gate!Send(c) \/ Gate!Timeout(c)
      BY <1>1, <2>3, ReceivedKeeps, ReserveKeeps, VerifyKeeps, SendKeeps
    <2>4. CASE \E request \in network : Gate!ProviderHandles(request) \/ Gate!ProviderUndecided(request)
      BY <2>4, HandlesKeeps, UndecidedKeeps
    <2>5. CASE \E response \in responses : Gate!ReceiveAnswer(response)
      BY <2>5, AnswerReceived
    <2> QED
      BY <1>2, <2>2, <2>3, <2>4, <2>5 DEF Gate!Next

\* The types, with at most as many permits as there are mutations
\* (beginMutation numbers them).
THEOREM GateTypeCorrect == ASSUME Gate!OperationAssumption PROVE Gate!Spec => []Gate!TypeOK
  BY GateInit, GateStep, GateSafe, PTL DEF Gate!Spec

\* Whatever is deployed on either side meanwhile, a mutation is only decided
\* under evidence that a call verified against the pin it was bound to
\* (verifyOperationalEvidence, readAuthenticatedOperationalEvidenceBinding).
THEOREM VerifiedBeforeDecided ==
    ASSUME Gate!OperationAssumption PROVE Gate!Spec => []Gate!DecidedUnderVerifiedEvidence
  BY GateInit, GateStep, GateSafe, PTL DEF Gate!Spec

\* Calls with the same pin went ahead on the same evidence
\* (evaluateConvergence recomputes the digest).
THEOREM OnePinOneEvidence == ASSUME Gate!OperationAssumption PROVE Gate!Spec => []Gate!PinFixesEvidence
  BY GateInit, GateStep, GateSafe, PTL DEF Gate!Spec

\* Only an answer that decides the permit completes its reservation
\* (classifyVendorTransition, responseMatchesAuthoringMutation).
THEOREM DecidedBeforeCompleted == ASSUME Gate!OperationAssumption PROVE Gate!Spec => []Gate!CompletedIsDecided
  <1>1. GateInv => Gate!CompletedIsDecided
    BY DEF GateInv
  <1> QED
    BY <1>1, GateInit, GateStep, PTL DEF Gate!Spec

\* The fence of one life of the provider admits no permit below an executed
\* one (admitDevAuthoringMutation).
THEOREM OrderOfPermits == ASSUME Gate!OperationAssumption PROVE Gate!Spec => []Gate!AppliedInOrder
  <1>1. GateInv => Gate!AppliedInOrder
    BY DEF GateInv
  <1> QED
    BY <1>1, GateInit, GateStep, PTL DEF Gate!Spec

-----------------------------------------------------------------------------
(***************************************************************************)
(* The readiness probe of the listing host, ListingProbe.                  *)
(***************************************************************************)
CONSTANTS Requests, MaxWaiters
VARIABLES asked, status, probe, aborted, verifier, waiters, good

Probe == INSTANCE ListingProbe

\* The instance counts as this module does.
LEMMA ProbeCounts == \A S : Probe!Cardinality(S) = Cardinality(S)
BY DEF Probe!Cardinality, Cardinality

\* The inductive invariant: the flight in its place is the one whose
\* verifier runs, and only there anyone waits, unanswered.

\* A flight whose verifier has not ended.
Flying(f) == verifier[f] \in {"queued", "reading"}

\* The types.
FlightTypes ==
    /\ asked \in [Requests -> {None, "invalid", "forbidden", "probe"}]
    /\ status \in [Requests -> {None, 200, 400, 403, 429, 503}]
    /\ probe \in Requests \cup {None}
    /\ aborted \subseteq Requests
    /\ verifier \in [Requests -> {"none", "queued", "reading", "verified", "refused"}]
    /\ good \in BOOLEAN
    /\ waiters \in [Requests -> SUBSET Requests]

\* The flight in its place is the one whose verifier runs.
PlaceIsTheVerifiers == \A f \in Requests : Flying(f) <=> probe = f

\* Only there anyone waits, unanswered.
WaitersAreUnanswered ==
    /\ \A f, r \in Requests : r \in waiters[f] =>
           Flying(f) /\ asked[r] = "probe" /\ status[r] = None
    /\ \A r \in Requests : asked[r] = None => status[r] = None

\* No flight has more waiters than it may.
WaitersFit ==
    \A f \in Requests : IsFiniteSet(waiters[f]) /\ Cardinality(waiters[f]) <= MaxWaiters

\* The inductive invariant.
ProbeInv ==
    /\ FlightTypes
    /\ PlaceIsTheVerifiers
    /\ WaitersAreUnanswered
    /\ WaitersFit
    /\ Probe!NobodyIsServed

\* A set that one value exhausts has at most one member.
LEMMA AtMostOne ==
    ASSUME NEW S, NEW x, S \subseteq {x}
    PROVE  Cardinality(S) <= 1
  <1>1. IsFiniteSet({x}) /\ Cardinality({x}) = 1
    BY FS_Singleton
  <1> QED
    BY <1>1, FS_Subset

\* What the types and the limit say follows.
LEMMA ProbeTypes == ProbeInv => Probe!TypeOK
  <1> SUFFICES ASSUME ProbeInv PROVE Probe!TypeOK
      OBVIOUS
  <1>1. ASSUME NEW r \in Requests
        PROVE  Cardinality({f \in Requests : r \in waiters[f]}) <= 1
    <2>1. {f \in Requests : r \in waiters[f]} \subseteq {probe}
      BY DEF ProbeInv, WaitersAreUnanswered, PlaceIsTheVerifiers
    <2> QED
      BY <2>1, AtMostOne
  <1> QED
    BY <1>1, ProbeCounts DEF ProbeInv, FlightTypes, WaitersAreUnanswered, WaitersFit, Probe!TypeOK

\* A host that was just started reads nothing for anyone.
LEMMA ProbeInit == Probe!ProbeAssumption /\ Probe!Init => ProbeInv
  <1> SUFFICES ASSUME Probe!ProbeAssumption, Probe!Init PROVE ProbeInv
      OBVIOUS
  <1>1. IsFiniteSet({}) /\ Cardinality({}) = 0
    BY FS_EmptySet
  <1>2. FlightTypes
    BY DEF Probe!Init, FlightTypes
  <1>3. PlaceIsTheVerifiers /\ WaitersAreUnanswered /\ Probe!NobodyIsServed
    BY DEF Probe!Init, PlaceIsTheVerifiers, WaitersAreUnanswered, Probe!NobodyIsServed, Flying,
       Probe!ProbeAssumption
  <1>4. WaitersFit
    BY <1>1 DEF Probe!Init, WaitersFit, Probe!ProbeAssumption
  <1> QED
    BY <1>2, <1>3, <1>4 DEF ProbeInv

\* Taking waiters from a flight keeps the others within the limit.
LEMMA FewerWaitersFit ==
    ASSUME WaitersFit, Probe!ProbeAssumption, NEW f \in Requests, NEW w, w \subseteq waiters[f]
    PROVE  IsFiniteSet(w) /\ Cardinality(w) <= MaxWaiters
  <1>1. IsFiniteSet(w) /\ Cardinality(w) <= Cardinality(waiters[f])
    BY FS_Subset DEF WaitersFit
  <1>2. Cardinality(w) \in Nat /\ Cardinality(waiters[f]) \in Nat
    BY <1>1, FS_CardinalityType DEF WaitersFit
  <1> QED
    BY <1>1, <1>2 DEF WaitersFit, Probe!ProbeAssumption

\* A request that is refused at once was in no flight.
LEMMA RefusalKeeps ==
    ASSUME Probe!ProbeAssumption, ProbeInv, NEW r \in Requests,
           \/ \E how \in {"invalid", "forbidden"} : Probe!ready(r, how)
           \/ Probe!ObserveRefused(r)
    PROVE  ProbeInv'
  <1>1. PICK how \in {"invalid", "forbidden", "probe"}, code \in {400, 403, 429, 503} :
          /\ asked[r] = None
          /\ asked' = [asked EXCEPT ![r] = how]
          /\ status' = [status EXCEPT ![r] = code]
          /\ UNCHANGED <<probe, aborted, verifier, waiters, good>>
    BY DEF Probe!ready, Probe!ObserveRefused
  <1>2. FlightTypes'
    BY <1>1 DEF ProbeInv, FlightTypes
  <1>3. PlaceIsTheVerifiers' /\ WaitersFit' /\ Probe!NobodyIsServed'
    BY <1>1 DEF ProbeInv, PlaceIsTheVerifiers, WaitersFit, Probe!NobodyIsServed, Flying
  <1>4. WaitersAreUnanswered'
    BY <1>1 DEF ProbeInv, FlightTypes, WaitersAreUnanswered, Flying, Probe!ProbeAssumption
  <1> QED
    BY <1>2, <1>3, <1>4 DEF ProbeInv

\* A request that joins finds room in the flight that runs.
LEMMA JoinKeeps ==
    ASSUME Probe!ProbeAssumption, ProbeInv, NEW r \in Requests, Probe!ObserveJoins(r)
    PROVE  ProbeInv'
  <1> DEFINE w == waiters[probe] \cup {r}
  <1>1. /\ asked[r] = None
        /\ probe \in Requests
        /\ asked' = [asked EXCEPT ![r] = "probe"]
        /\ waiters' = [waiters EXCEPT ![probe] = w]
        /\ UNCHANGED <<status, probe, aborted, verifier, good>>
    BY DEF Probe!ObserveJoins, ProbeInv, FlightTypes
  <1>2. IsFiniteSet(w) /\ Cardinality(w) <= MaxWaiters
    <2>1. IsFiniteSet(waiters[probe]) /\ Cardinality(waiters[probe]) \in Nat
      BY <1>1, FS_CardinalityType DEF ProbeInv, WaitersFit
    <2>2. ~(Cardinality(waiters[probe]) >= MaxWaiters)
      BY ProbeCounts DEF Probe!ObserveJoins, Probe!full
    <2>3. IsFiniteSet(w) /\ Cardinality(w) <= Cardinality(waiters[probe]) + 1
      <3>1. /\ IsFiniteSet(w)
            /\ Cardinality(w) = IF r \in waiters[probe] THEN Cardinality(waiters[probe])
                                ELSE Cardinality(waiters[probe]) + 1
        BY <2>1, FS_AddElement, Zenon
      <3> HIDE DEF w
      <3> QED
        BY <2>1, <3>1
    <2>4. Cardinality(w) \in Nat
      BY <2>3, FS_CardinalityType
    <2> QED
      BY <2>1, <2>2, <2>3, <2>4 DEF Probe!ProbeAssumption
  <1>3. FlightTypes'
    BY <1>1 DEF ProbeInv, FlightTypes
  <1>4. PlaceIsTheVerifiers' /\ Probe!NobodyIsServed'
    BY <1>1 DEF ProbeInv, FlightTypes, PlaceIsTheVerifiers, Probe!NobodyIsServed, Flying
  <1>5. WaitersFit'
    <2> HIDE DEF w
    <2> QED
      BY <1>1, <1>2 DEF ProbeInv, FlightTypes, WaitersFit
  <1>6. WaitersAreUnanswered'
    BY <1>1 DEF ProbeInv, FlightTypes, WaitersAreUnanswered, PlaceIsTheVerifiers, Flying,
       Probe!ProbeAssumption
  <1> QED
    BY <1>3, <1>4, <1>5, <1>6 DEF ProbeInv

\* A flight starts in an empty place, so no verifier runs.
LEMMA StartKeeps ==
    ASSUME Probe!ProbeAssumption, ProbeInv, NEW r \in Requests, Probe!startProbe(r)
    PROVE  ProbeInv'
  <1>1. /\ asked[r] = None /\ probe = None
        /\ asked' = [asked EXCEPT ![r] = "probe"]
        /\ probe' = r
        /\ verifier' = [verifier EXCEPT ![r] = "queued"]
        /\ waiters' = [waiters EXCEPT ![r] = {r}]
        /\ UNCHANGED <<status, aborted, good>>
    BY DEF Probe!startProbe, Probe!free
  <1>2. IsFiniteSet({r}) /\ Cardinality({r}) = 1
    BY FS_Singleton
  <1>3. FlightTypes'
    BY <1>1 DEF ProbeInv, FlightTypes
  <1>4. PlaceIsTheVerifiers' /\ Probe!NobodyIsServed'
    BY <1>1 DEF ProbeInv, FlightTypes, PlaceIsTheVerifiers, Probe!NobodyIsServed, Flying,
       Probe!ProbeAssumption
  <1>5. WaitersFit'
    BY <1>1, <1>2 DEF ProbeInv, FlightTypes, WaitersFit, Probe!ProbeAssumption
  <1>6. WaitersAreUnanswered'
    BY <1>1 DEF ProbeInv, FlightTypes, WaitersAreUnanswered, Flying, Probe!ProbeAssumption
  <1> QED
    BY <1>3, <1>4, <1>5, <1>6 DEF ProbeInv

\* A verifier that begins to read keeps its place.
LEMMA ReadKeeps ==
    ASSUME ProbeInv, NEW f \in Requests, verifier[f] = "queued",
           verifier' = [verifier EXCEPT ![f] = "reading"],
           UNCHANGED <<asked, status, probe, aborted, waiters, good>>
    PROVE  ProbeInv'
  <1>1. \A g \in Requests : Flying(g) <=> Flying(g)'
    BY DEF ProbeInv, FlightTypes, Flying
  <1>2. FlightTypes'
    BY DEF ProbeInv, FlightTypes
  <1>3. PlaceIsTheVerifiers' /\ WaitersAreUnanswered' /\ WaitersFit'
    BY <1>1 DEF ProbeInv, PlaceIsTheVerifiers, WaitersAreUnanswered, WaitersFit
  <1>4. Probe!NobodyIsServed'
    BY DEF ProbeInv, FlightTypes, Probe!NobodyIsServed
  <1> QED
    BY <1>2, <1>3, <1>4 DEF ProbeInv

\* A flight that settles leaves its place with nobody waiting.
LEMMA SettleKeeps ==
    ASSUME Probe!ProbeAssumption, ProbeInv, NEW f \in Requests, Flying(f),
           NEW ok \in BOOLEAN, Probe!settle(f, ok), UNCHANGED <<asked, good>>
    PROVE  ProbeInv'
  <1>1. PICK code \in {200, 503}, end \in {"verified", "refused"} :
          /\ status' = [r \in Requests |-> IF r \in waiters[f] THEN code ELSE status[r]]
          /\ verifier' = [verifier EXCEPT ![f] = end]
          /\ probe' = None
          /\ waiters' = [waiters EXCEPT ![f] = {}]
          /\ aborted' = aborted
    <2> DEFINE code == IF ok /\ f \notin aborted THEN 200 ELSE 503
               end == IF ok THEN "verified" ELSE "refused"
    <2>1. probe = f
      BY DEF ProbeInv, PlaceIsTheVerifiers
    <2>2. /\ status' = [r \in Requests |-> IF r \in waiters[f] THEN code ELSE status[r]]
          /\ verifier' = [verifier EXCEPT ![f] = end]
          /\ probe' = None
          /\ aborted' = aborted
      BY <2>1 DEF Probe!settle, Probe!finish, Probe!clear
    <2>3. waiters' = [waiters EXCEPT ![f] = {}]
      BY waiters[f] \ waiters[f] = {} DEF Probe!settle, Probe!finish
    <2>4. code \in {200, 503} /\ end \in {"verified", "refused"}
      OBVIOUS
    <2> HIDE DEF code, end
    <2> QED
      BY <2>2, <2>3, <2>4
  <1>2. IsFiniteSet({}) /\ Cardinality({}) = 0
    BY FS_EmptySet
  <1>3. FlightTypes'
    BY <1>1 DEF ProbeInv, FlightTypes
  <1>4. PlaceIsTheVerifiers' /\ Probe!NobodyIsServed'
    BY <1>1 DEF ProbeInv, FlightTypes, PlaceIsTheVerifiers, Probe!NobodyIsServed, Flying,
       Probe!ProbeAssumption
  <1>5. WaitersFit'
    BY <1>1, <1>2 DEF ProbeInv, FlightTypes, WaitersFit, Probe!ProbeAssumption
  <1>6. WaitersAreUnanswered'
    BY <1>1 DEF ProbeInv, FlightTypes, WaitersAreUnanswered, PlaceIsTheVerifiers, Flying,
       Probe!ProbeAssumption
  <1> QED
    BY <1>3, <1>4, <1>5, <1>6 DEF ProbeInv

\* Whoever leaves a flight, or is sent away by its timer, is answered, and a
\* flight that loses its last waiter is aborted.
LEMMA LeaveKeeps ==
    ASSUME Probe!ProbeAssumption, ProbeInv, NEW r \in Requests, Probe!Timeout(r) \/ Probe!Cancel(r)
    PROVE  ProbeInv'
  <1>1. PICK f \in Requests, gone \in SUBSET Requests :
          /\ gone \subseteq waiters[f]
          /\ status' = [q \in Requests |-> IF q \in gone THEN 503 ELSE status[q]]
          /\ waiters' = [waiters EXCEPT ![f] = waiters[f] \ gone]
          /\ aborted \subseteq aborted' /\ aborted' \subseteq aborted \cup {f}
          /\ waiters[f] \ gone = {} => f \in aborted'
          /\ UNCHANGED <<asked, probe, verifier, good>>
    <2>1. CASE Probe!Timeout(r)
      BY <2>1, waiters[r] \subseteq Requests, waiters[r] \ waiters[r] = {}
         DEF Probe!Timeout, ProbeInv, FlightTypes
    <2>2. CASE Probe!Cancel(r)
      <3>1. PICK f \in Requests : /\ r \in waiters[f]
                                  /\ Probe!finish(f, {r}, 503, FALSE)
                                  /\ UNCHANGED <<asked, probe, verifier, good>>
        BY <2>2 DEF Probe!Cancel
      <3>2. {r} \in SUBSET Requests /\ {r} \subseteq waiters[f]
        BY <3>1
      <3>3. waiters' = [waiters EXCEPT ![f] = waiters[f] \ {r}]
        BY <3>1 DEF Probe!finish
      <3>4. /\ status' = [q \in Requests |-> IF q \in {r} THEN 503 ELSE status[q]]
            /\ aborted \subseteq aborted' /\ aborted' \subseteq aborted \cup {f}
            /\ waiters[f] \ {r} = {} => f \in aborted'
        BY <3>1 DEF Probe!finish
      <3> QED
        BY <3>1, <3>2, <3>3, <3>4
    <2> QED
      BY <2>1, <2>2
  <1>2. IsFiniteSet(waiters[f] \ gone) /\ Cardinality(waiters[f] \ gone) <= MaxWaiters
    BY FewerWaitersFit DEF ProbeInv
  <1>3. FlightTypes'
    BY <1>1 DEF ProbeInv, FlightTypes
  <1>4. PlaceIsTheVerifiers' /\ Probe!NobodyIsServed'
    BY <1>1 DEF ProbeInv, FlightTypes, PlaceIsTheVerifiers, Probe!NobodyIsServed, Flying
  <1>5. WaitersFit'
    BY <1>1, <1>2 DEF ProbeInv, FlightTypes, WaitersFit
  <1>6. WaitersAreUnanswered'
    BY <1>1 DEF ProbeInv, FlightTypes, WaitersAreUnanswered, PlaceIsTheVerifiers, Flying,
       Probe!ProbeAssumption
  <1> QED
    BY <1>3, <1>4, <1>5, <1>6 DEF ProbeInv

\* Every step keeps the invariant.
LEMMA ProbeStep == Probe!ProbeAssumption /\ ProbeInv /\ [Probe!Next]_(Probe!vars) => ProbeInv'
  <1> SUFFICES ASSUME Probe!ProbeAssumption, ProbeInv, [Probe!Next]_(Probe!vars) PROVE ProbeInv'
      OBVIOUS
  <1>1. ASSUME NEW f \in Requests, Probe!Verify(f) PROVE ProbeInv'
    <2>1. CASE f \in aborted
      BY <1>1, <2>1, SettleKeeps DEF Probe!Verify, Flying
    <2>2. CASE f \notin aborted
      BY <1>1, <2>2, ReadKeeps DEF Probe!Verify
    <2> QED
      BY <2>1, <2>2
  <1>2. ASSUME NEW f \in Requests, Probe!VerifierEnds(f) PROVE ProbeInv'
    <2>1. Flying(f) /\ UNCHANGED <<asked, good>> /\ good \in BOOLEAN
      BY <1>2 DEF Probe!VerifierEnds, Flying, ProbeInv, FlightTypes
    <2>2. Probe!settle(f, good) \/ Probe!settle(f, FALSE)
      BY <1>2 DEF Probe!VerifierEnds
    <2> QED
      BY <2>1, <2>2, SettleKeeps
  <1>3. CASE Probe!Replace \/ UNCHANGED Probe!vars
    <2>1. UNCHANGED <<asked, status, probe, aborted, verifier, waiters>>
      BY <1>3 DEF Probe!Replace, Probe!vars
    <2>2. good' \in BOOLEAN
      BY <1>3 DEF Probe!Replace, Probe!vars, ProbeInv, FlightTypes
    <2> QED
      BY <2>1, <2>2 DEF ProbeInv, FlightTypes, PlaceIsTheVerifiers, WaitersAreUnanswered,
         WaitersFit, Probe!NobodyIsServed, Flying
  <1> QED
    BY <1>1, <1>2, <1>3, RefusalKeeps, JoinKeeps, StartKeeps, LeaveKeeps DEF Probe!Next

\* The types, and the limit of MaxWaiters callers per flight (observe).
THEOREM ProbeTypeCorrect == ASSUME Probe!ProbeAssumption PROVE Probe!Spec => []Probe!TypeOK
  BY ProbeInit, ProbeStep, ProbeTypes, PTL DEF Probe!Spec

\* For any number of callers, one verifier at a time reads the artifacts
\* (startProbe waits for settle, not for the abort).
THEOREM OneVerifierAtATime == ASSUME Probe!ProbeAssumption PROVE Probe!Spec => []Probe!OneVerifier
  <1>1. ProbeInv => Probe!OneVerifier
    <2> SUFFICES ASSUME ProbeInv PROVE Probe!OneVerifier
        OBVIOUS
    <2>1. {f \in Requests : verifier[f] \in {"queued", "reading"}} \subseteq {probe}
      BY DEF ProbeInv, PlaceIsTheVerifiers, Flying
    <2> QED
      BY <2>1, AtMostOne, ProbeCounts DEF Probe!OneVerifier
  <1> QED
    BY <1>1, ProbeInit, ProbeStep, PTL DEF Probe!Spec

\* No artifacts are read for nobody: finish aborts the flight it empties.
THEOREM NobodyServed == ASSUME Probe!ProbeAssumption PROVE Probe!Spec => []Probe!NobodyIsServed
  <1>1. ProbeInv => Probe!NobodyIsServed
    BY DEF ProbeInv
  <1> QED
    BY <1>1, ProbeInit, ProbeStep, PTL DEF Probe!Spec

\* A caller reads 200 only in the step in which a verifier found the pinned
\* artifacts (settle).
THEOREM ReadyOnlyFresh == ASSUME Probe!ProbeAssumption PROVE Probe!Spec => Probe!ReadyIsFresh
  <1> DEFINE Fresh ==
        \A r \in Requests : (status'[r] = 200 /\ status[r] # 200) =>
            /\ good
            /\ \E f \in Requests : verifier[f] = "reading" /\ verifier'[f] = "verified"
  <1>1. ProbeInv /\ [Probe!Next]_(Probe!vars) => [Fresh]_(Probe!vars)
    <2> SUFFICES ASSUME ProbeInv, Probe!Next, NEW r \in Requests, status'[r] = 200, status[r] # 200
                 PROVE  good /\ \E f \in Requests : verifier[f] = "reading" /\ verifier'[f] = "verified"
        OBVIOUS
    <2>1. status \in [Requests -> {None, 200, 400, 403, 429, 503}]
      BY DEF ProbeInv, FlightTypes
    <2>2. ASSUME NEW q \in Requests, NEW how \in {"invalid", "forbidden"}, Probe!ready(q, how) PROVE FALSE
      BY <2>1, <2>2 DEF Probe!ready
    <2>3. ASSUME NEW q \in Requests, Probe!ObserveRefused(q) PROVE FALSE
      BY <2>1, <2>3 DEF Probe!ObserveRefused
    <2>4. ASSUME NEW q \in Requests, Probe!ObserveJoins(q) \/ Probe!startProbe(q) PROVE FALSE
      BY <2>4 DEF Probe!ObserveJoins, Probe!startProbe
    <2>5. ASSUME NEW q \in Requests, Probe!Verify(q) PROVE FALSE
      BY <2>1, <2>5 DEF Probe!Verify, Probe!settle, Probe!finish
    <2>6. ASSUME NEW q \in Requests, Probe!Timeout(q) \/ Probe!Cancel(q) PROVE FALSE
      BY <2>1, <2>6 DEF Probe!Timeout, Probe!Cancel, Probe!finish
    <2>7. ASSUME NEW q \in Requests, Probe!VerifierEnds(q)
          PROVE  good /\ verifier[q] = "reading" /\ verifier'[q] = "verified"
      BY <2>1, <2>7 DEF Probe!VerifierEnds, Probe!settle, Probe!finish, ProbeInv, FlightTypes
    <2>8. CASE Probe!Replace
      BY <2>8 DEF Probe!Replace
    <2> QED
      BY <2>2, <2>3, <2>4, <2>5, <2>6, <2>7, <2>8 DEF Probe!Next
  <1> QED
    BY <1>1, ProbeInit, ProbeStep, PTL DEF Probe!Spec, Probe!ReadyIsFresh
=============================================================================
