-------------------------- MODULE StorageTransition --------------------------
(***************************************************************************)
(* The storage compatibility gate (production-release/storage-transition): *)
(* two manifests of the Durable Object storage surface, of the release     *)
(* that serves and of the candidate, are compared part by part.            *)
(*                                                                         *)
(* A manifest has a revision, a sequence of migrations, bindings (name to  *)
(* class), persistence dependencies (file to digest) and one schema region *)
(* per class with its DDL statements in order.                             *)
(***************************************************************************)
EXTENDS Naturals, Sequences, FiniteSets, SequencesExt

CONSTANTS
  Base,       \* the manifest of the release that serves
  Classes,    \* class names
  Revisions,  \* revision digests
  MaxEdits    \* bound: edits between the two manifests

VARIABLES
  current,    \* the candidate's manifest
  edits       \* edits made so far

vars == <<current, edits>>

EditsAssumption == MaxEdits \in Nat

Statement(object, sha) == [object |-> object, sha |-> sha]
SafeAdditive(ddl) == ddl.object # "drop"
Entries(s) == {s[i] : i \in 1 .. Len(s)}

-----------------------------------------------------------------------------
(* Parsing: inventories have no duplicates and DDL objects are distinct.   *)

ParseRegion(r) == \A i, j \in 1 .. Len(r.ddl) : r.ddl[i].object = r.ddl[j].object => i = j

ParseManifest(m) ==
  /\ \A b, c \in m.bindings : (b.name = c.name \/ b.class = c.class) => b = c
  /\ \A r, s \in m.regions : r.class = s.class => r = s
  /\ \A r \in m.regions : ParseRegion(r)

-----------------------------------------------------------------------------
(* compareMigrations.  A migration has one key beside its tag.             *)

Appended(prior, cur) ==
  IF Len(cur) < Len(prior) THEN <<>> ELSE SubSeq(cur, Len(prior) + 1, Len(cur))

Introduced(prior, cur) ==
  UNION {m.classes : m \in {n \in Entries(Appended(prior, cur)) : n.key = "new_sqlite_classes"}}

IntroducedTwice(prior, cur) ==
  LET appended == Appended(prior, cur)
  IN  \E i, j \in 1 .. Len(appended) :
        /\ i # j /\ appended[i].key = appended[j].key
        /\ appended[i].classes \cap appended[j].classes # {}

\* Mutant: the migrations both manifests have are not compared.
MigrationReasons_NewOnly(prior, cur) ==
  {"class_lifecycle_destructive" :
     m \in {n \in Entries(Appended(prior, cur)) : n.key \in {"deleted_classes", "renamed_classes"}}}

MigrationReasons(prior, cur) ==
  LET appended == Appended(prior, cur)
  IN
  {"migration_history_rewritten" :
     x \in {y \in {0} : \/ ~IsPrefix(prior, cur)
                        \/ \E m \in Entries(appended) :
                             m.key = "other" \/ (m.key = "new_sqlite_classes" /\ m.classes = {})
                        \/ IntroducedTwice(prior, cur)}}
  \cup {"class_lifecycle_destructive" :
          m \in {n \in Entries(appended) : n.key \in {"deleted_classes", "renamed_classes"}}}
  \cup {"legacy_durable_object_migration" : m \in {n \in Entries(appended) : n.key = "new_classes"}}

BindingReasons(prior, cur, introduced, twice) ==
  LET added == {b \in cur : \A p \in prior : p.name # b.name}
      classes == {b.class : b \in added}
  IN
  {"binding_removed_or_remapped" : p \in prior \ cur}
  \cup IF introduced = {} /\ added # {} THEN {"binding_added_without_sqlite_class_migration"}
       ELSE IF classes # introduced \/ twice THEN {"new_sqlite_class_inventory_mismatch"} ELSE {}

\* One class both manifests have.
KeptRegionReasons(p, c) ==
  {"schema_region_identity_changed" : x \in {y \in {0} : p.id # c.id}}
  \cup IF ~IsPrefix(p.ddl, c.ddl) THEN {"old_ddl_changed_or_reordered"}
       ELSE {"unsafe_ddl_added" :
               i \in {j \in Len(p.ddl) + 1 .. Len(c.ddl) : ~SafeAdditive(c.ddl[j])}}
            \cup {"codec_drift" : x \in {y \in {0} : c.ddl = p.ddl /\ c.sha # p.sha}}

RegionReasons(prior, cur, introduced) ==
  UNION {KeptRegionReasons(p, c) :
           <<p, c>> \in {pair \in prior \X cur : pair[1].class = pair[2].class}}
  \cup {"schema_region_removed" : p \in {q \in prior : \A c \in cur : c.class # q.class}}
  \cup LET new == {c \in cur : \A p \in prior : p.class # c.class}
       IN  {"schema_region_added_without_sqlite_class_migration" :
              c \in {d \in new : d.class \notin introduced}}
           \cup {"unsafe_ddl_added" : c \in {d \in new : \E s \in Entries(d.ddl) : ~SafeAdditive(s)}}

\* Statements appended to regions both manifests have.
IntroducedDdlObjects(prior, cur) ==
  UNION {{<<p.class, c.ddl[i].object>> : i \in Len(p.ddl) + 1 .. Len(c.ddl)} :
           <<p, c>> \in {pair \in prior \X cur :
                           pair[1].class = pair[2].class /\ IsPrefix(pair[1].ddl, pair[2].ddl)}}

Surface(m) == <<m.migrations, m.bindings, m.dependencies, m.regions>>

\* Mutant: the revision alone decides whether anything has changed.
ClassifyStorageTransition_RevisionOnly(p, c) ==
  [status |-> IF ~ParseManifest(p) \/ ~ParseManifest(c) THEN "incompatible"
              ELSE IF p.revision = c.revision THEN "rollback-safe" ELSE "blocked",
   reasons |-> {}]

ClassifyStorageTransition(p, c) ==
  LET introduced == Introduced(p.migrations, c.migrations)
      found == MigrationReasons(p.migrations, c.migrations)
               \cup BindingReasons(p.bindings, c.bindings, introduced,
                                   IntroducedTwice(p.migrations, c.migrations))
               \cup (IF p.dependencies # c.dependencies THEN {"codec_drift"} ELSE {})
               \cup RegionReasons(p.regions, c.regions, introduced)
      same == Surface(p) = Surface(c)
  IN
  IF ~ParseManifest(p) \/ ~ParseManifest(c)
  THEN [status |-> "incompatible", reasons |-> {"manifest_invalid"}]
  ELSE IF same /\ p.revision = c.revision THEN [status |-> "rollback-safe", reasons |-> {}]
  ELSE [status |-> "blocked",
        reasons |-> found
          \cup (IF same THEN {"revision_changed_without_compatible_delta"} ELSE {})
          \cup (IF p.revision = c.revision /\ IntroducedDdlObjects(p.regions, c.regions) # {}
                THEN {"ddl_added_without_revision_change"} ELSE {})]

-----------------------------------------------------------------------------
(* What a commit may do to the manifest: one edit of the storage surface.  *)

Init == current = Base /\ edits = 0

Edit(m) == edits < MaxEdits /\ edits' = edits + 1 /\ current' = m

Migrations == [key : {"new_sqlite_classes"}, classes : SUBSET Classes]
  \cup [key : {"new_classes", "deleted_classes", "renamed_classes", "other"}, classes : {{}}]

AppendMigration ==
  \E m \in Migrations : Edit([current EXCEPT !.migrations = Append(@, m)])
DropMigration ==
  current.migrations # <<>> /\ Edit([current EXCEPT !.migrations = Front(@)])
Bind ==
  \E n \in {"A", "B", "C"}, c \in Classes :
    Edit([current EXCEPT !.bindings = @ \cup {[name |-> n, class |-> c]}])
Unbind == \E b \in current.bindings : Edit([current EXCEPT !.bindings = @ \ {b}])
AddRegion ==
  \E c \in Classes, ddl \in {<<>>, <<Statement("drop", 1)>>} :
    Edit([current EXCEPT !.regions = @ \cup {[class |-> c, id |-> 1, sha |-> 1, ddl |-> ddl]}])
RemoveRegion == \E r \in current.regions : Edit([current EXCEPT !.regions = @ \ {r}])
ChangeRegion(r, s) == Edit([current EXCEPT !.regions = (@ \ {r}) \cup {s}])
EditRegion ==
  \E r \in current.regions :
    \/ ChangeRegion(r, [r EXCEPT !.id = 3 - @])
    \/ ChangeRegion(r, [r EXCEPT !.sha = 3 - @])
    \/ r.ddl # <<>> /\ ChangeRegion(r, [r EXCEPT !.ddl = Tail(@)])
    \/ \E o \in {"table", "index", "drop"} :
         ChangeRegion(r, [r EXCEPT !.ddl = Append(@, Statement(o, 1))])
    \/ \E o \in {"table", "index", "drop"} :
         ChangeRegion(r, [r EXCEPT !.ddl = <<Statement(o, 1)>> \o @])
EditDependency == Edit([current EXCEPT !.dependencies = 3 - @])
EditRevision == \E v \in Revisions \ {current.revision} : Edit([current EXCEPT !.revision = v])

Next ==
  \/ AppendMigration \/ DropMigration \/ Bind \/ Unbind \/ AddRegion \/ RemoveRegion
  \/ EditRegion \/ EditDependency \/ EditRevision

Spec == Init /\ [][Next]_vars

-----------------------------------------------------------------------------
(* Properties.                                                             *)

Verdict == ClassifyStorageTransition(Base, current)

\* Only a candidate whose whole storage surface and revision are those of the
\* release that serves may be rolled back ("No changed persistence surface is
\* rollback-safe"): edits that cancel out are fine, any other combination is not.
RollbackSafeIsUnchanged ==
  (Verdict.status = "rollback-safe") <=> (current = Base /\ ParseManifest(Base))

\* The reference: what an N-1 Worker would have to find untouched in the
\* candidate's storage, said without going through it part by part.
Extends(p, c) ==
  LET before == {b.class : b \in p.bindings}
      after == {b.class : b \in c.bindings}
      created == UNION {c.migrations[i].classes : i \in Len(p.migrations) + 1 .. Len(c.migrations)}
      Region(m, k) == {r \in m.regions : r.class = k}
      Sum(s) == FoldSeq(LAMBDA m, n : n + Cardinality(m.classes), 0, s)
  IN
  /\ p.bindings \subseteq c.bindings /\ p.dependencies = c.dependencies
  /\ \E tail \in {SubSeq(c.migrations, Len(p.migrations) + 1, Len(c.migrations))} :
       /\ c.migrations = p.migrations \o tail
       /\ \A i \in 1 .. Len(tail) : tail[i].key = "new_sqlite_classes" /\ tail[i].classes # {}
       /\ Sum(tail) = Cardinality(created)
  /\ after \ before = created
  /\ \A r \in p.regions : \E s \in c.regions :
       /\ s.class = r.class /\ s.id = r.id
       /\ \A i \in DOMAIN r.ddl : i \in DOMAIN s.ddl /\ s.ddl[i] = r.ddl[i]
       /\ s.sha # r.sha => Len(s.ddl) > Len(r.ddl)
  /\ \A s \in c.regions : Region(p, s.class) # {} \/ s.class \in created
  /\ \A s \in c.regions : \A i \in DOMAIN s.ddl :
       ~SafeAdditive(s.ddl[i]) => \E r \in Region(p, s.class) : i \in DOMAIN r.ddl

\* A changed surface is reported without a reason exactly when it extends the one
\* that serves; every other combination of edits leaves at least one reason.
ReasonsAreComplete ==
  Verdict.status = "blocked" /\ Surface(current) # Surface(Base) =>
    /\ Verdict.reasons \ {"ddl_added_without_revision_change"} = {} <=> Extends(Base, current)
    /\ "ddl_added_without_revision_change" \in Verdict.reasons => current.revision = Base.revision
=============================================================================
