-------------------------- MODULE EvidenceVerdict --------------------------
(***************************************************************************)
(* The evidence runner: captureCheckOutput runs a task's two checks in an   *)
(* external executor and files their artifacts, issueTaskVerdict derives a  *)
(* verdict from the two files, and evaluateEvidenceGate audits every        *)
(* persisted verdict.  The three are commands of their own: they run side   *)
(* by side over one workspace that is edited and committed all the while.   *)
(*                                                                         *)
(* A file's digest is the file's content here, so a descriptor carries the  *)
(* artifact it was taken from.  A fingerprint is taken in one step: the     *)
(* file by file read of digestEntries is not split.                         *)
(***************************************************************************)
EXTENDS Integers, Sequences, FiniteSets

CONSTANTS Tasks,        \* the tasks of config/task-bounds.snapshot.json
          Strays,       \* task ids the snapshot does not know
          Codes,        \* what the authored files may hold
          Unreadable,   \* those the fingerprint refuses (linked, too large)
          Failing,      \* <<role, code>>: the check of this role fails there
          Docs,         \* contents of docs/verification-baseline.json
          Performers, Issuers, TrustedIssuers,
          Captures,     \* concurrent captureCheckOutput processes
          MaxEdits, MaxCommits, MaxDispatches, MaxAnchors,
          MaxCaptures, MaxIssues, MaxGates, \* how often each command starts
          Outcomes,     \* <<ran, readable>>: what the executor may record
          OpenFindings, \* may --finding= be given: a subset of BOOLEAN
          None

EvidenceAssumption ==
    /\ Tasks \cap Strays = {} /\ Tasks # {}
    /\ Unreadable \subseteq Codes /\ TrustedIssuers \subseteq Issuers
    /\ {MaxEdits, MaxCommits, MaxDispatches, MaxAnchors} \subseteq Nat
    /\ {MaxCaptures, MaxIssues, MaxGates} \subseteq Nat
    /\ Outcomes \subseteq BOOLEAN \X BOOLEAN /\ OpenFindings \subseteq BOOLEAN

Roles == {"existing-verification", "task-named-check"}
Evaluators == {"issue", "gate"}

VARIABLES
    tree,      \* the workspace: [code, doc]
    commits,   \* the history: commit i has [parent, tree]; 0 is the baseline
    head,
    anchor,    \* the evaluator's trust anchor file: [id, doc]
    receipts,  \* the dispatch receipt file of each task
    checks,    \* checks/task-<id>-<role>.json
    verdicts,  \* verdicts/task-<id>.json
    cap,       \* running captures
    ev,        \* running evaluations: of an issue, and inside the gate
    gate,      \* the running gate
    answer,    \* what the last gate printed
    edits,     \* bound on Edit and Checkout
    commands   \* bound on the commands started

vars == <<tree, commits, head, anchor, receipts, checks, verdicts,
          cap, ev, gate, answer, edits, commands>>
workspace == <<tree, commits, head, edits>>
files     == <<receipts, checks, verdicts>>

----------------------------------------------------------------------------
(* The authored source *)

BaseTree == [code |-> CHOOSE c \in Codes \ Unreadable : \A r \in Roles : <<r, c>> \notin Failing,
             doc  |-> CHOOSE d \in Docs : TRUE]

TreeOf(c) == IF c = 0 THEN BaseTree ELSE commits[c].tree

\* The commits reachable from c, 0 excepted.
Line(c) ==
    LET up[i \in 0..Len(commits)] ==
            IF i = 0 THEN {} ELSE {i} \cup up[commits[i].parent]
    IN  up[c]

(* computeAuthoredSourceFingerprint: the head and the tree digest, or null  *)
ComputeAuthoredSourceFingerprint ==
    IF tree.code \in Unreadable THEN None ELSE [head |-> head, tree |-> tree]

EvidenceOnlyCommitRange(from, to) ==
    \A c \in Line(to) \ Line(from) : commits[c].tree = TreeOf(commits[c].parent)

X_AuthoredSourceIsCurrent(recorded, current) == recorded = current /\ current # None

AuthoredSourceIsCurrent(recorded, current) ==
    IF recorded = None \/ current = None THEN FALSE
    ELSE /\ recorded.tree = current.tree
         /\ \/ recorded.head = current.head
            \/ /\ recorded.head \in Line(current.head) \cup {0}
               /\ EvidenceOnlyCommitRange(recorded.head, current.head)

(* resolveExternalDispatchTrust: the anchor must pin the baseline document  *)
(* that is in the workspace now.                                            *)
ResolveExternalDispatchTrust(policy) == policy.doc = tree.doc

----------------------------------------------------------------------------
(* Dispatch receipts and check artifacts *)

X_VerifyEvidenceDispatchReceipt(receipt, task, source, performer) ==
    IF receipt = None THEN "dispatch_receipt_invalid"
    ELSE IF receipt.task # task THEN "dispatch_receipt_task_mismatch"
    ELSE IF receipt.source # source THEN "dispatch_receipt_source_mismatch"
    ELSE IF receipt.performer # performer THEN "performer_identity_mismatch"
    ELSE "none"

(* The first finding of verifyEvidenceDispatchReceipt, or "none"            *)
VerifyEvidenceDispatchReceipt(receipt, task, source, performer) ==
    IF receipt = None THEN "dispatch_receipt_invalid"
    ELSE IF receipt.task # task THEN "dispatch_receipt_task_mismatch"
    ELSE IF receipt.source # source THEN "dispatch_receipt_source_mismatch"
    ELSE IF receipt.performer # performer THEN "performer_identity_mismatch"
    ELSE IF receipt.issuer \notin TrustedIssuers \/ receipt.issuer = receipt.performer
    THEN "dispatch_receipt_untrusted"
    ELSE "none"

(* expectedCheckForRole: the aggregate check, or the task's named check     *)
ExpectedCheckForRole(task, role) ==
    IF role = "existing-verification" THEN "check:implementation"
    ELSE IF task \in Tasks THEN task
    ELSE None

Passes(role, code) == <<role, code>> \notin Failing

Passed(artifact) == artifact.ran /\ artifact.passed

(* loadSurface: the first finding about one descriptor.  The artifact named *)
(* by the descriptor is compared with the file as it is now.                *)
LoadSurface(descriptor, file, task, role, performer, start, policy) ==
    IF ExpectedCheckForRole(task, role) = None THEN "named_check_mismatch"
    ELSE IF file = None THEN "evidence_unreadable"
    ELSE IF file # descriptor THEN "evidence_digest_mismatch"
    ELSE IF ~AuthoredSourceIsCurrent(file.source, start) THEN "source_fingerprint_mismatch"
    ELSE IF file.policy # policy THEN "dispatch_trust_anchor_mismatch"
    ELSE LET found == VerifyEvidenceDispatchReceipt(file.receipt, task, file.source, performer)
         IN  IF found # "none" THEN found
             ELSE IF ~file.readable THEN "evidence_unreadable"
             ELSE IF ~file.ran THEN "check_not_run"
             ELSE IF ~file.passed THEN "check_failed"
             ELSE "none"

(* A surface that did not run, or failed, is loaded all the same.           *)
IsLoaded(found) == found \in {"none", "check_not_run", "check_failed"}

X_SharedReceipts(loaded) == {}

(* The receipts behind the loaded surfaces: more than one is a finding      *)
SharedReceipts(loaded) == {loaded[r].receipt : r \in {q \in Roles : loaded[q] # None}}

(* emitReferences: only checks that ran and passed are referred to          *)
EmitReferences(loaded) ==
    [r \in Roles |-> IF loaded[r] # None /\ Passed(loaded[r]) THEN loaded[r] ELSE None]

(* The verdict's findings after both surfaces: mixed receipts, a            *)
(* self-graded record, open findings, drift since the start.                *)
Findings(e, end) ==
    e.found
    \cup (IF Cardinality(SharedReceipts(e.loaded)) > 1 THEN {"dispatch_receipt_invalid"} ELSE {})
    \cup (IF \E r \in Roles : e.loaded[r] = None THEN {"self_graded_verdict"} ELSE {})
    \cup (IF e.open THEN {"unresolved_evidence"} ELSE {})
    \cup (IF e.task \notin Tasks THEN {"task_bounds_unresolved"} ELSE {})
    \cup (IF AuthoredSourceIsCurrent(e.start, end) THEN {} ELSE {"source_changed_during_evaluation"})

X_EvaluateEvidenceRequest(e, end) ==
    LET findings   == Findings(e, end) \ {"source_changed_during_evaluation"}
        references == EmitReferences(e.loaded)
    IN  [task |-> e.task, performer |-> e.performer, policy |-> e.policy,
         source |-> e.start, references |-> references,
         status |-> IF findings = {} /\ \A r \in Roles : references[r] # None
                    THEN "verified" ELSE "failed"]

(* evaluateEvidenceRequest, once its surfaces are loaded: the verdict       *)
EvaluateEvidenceRequest(e, end) ==
    LET findings   == Findings(e, end)
        references == EmitReferences(e.loaded)
    IN  [task |-> e.task, performer |-> e.performer, policy |-> e.policy,
         source |-> e.start, references |-> references,
         status |-> IF findings = {} /\ \A r \in Roles : references[r] # None
                    THEN "verified" ELSE "failed"]

(* stableVerdictProjection: all but the source it was issued on             *)
StableVerdictProjection(v) == [f \in DOMAIN v \ {"source"} |-> v[f]]

----------------------------------------------------------------------------
(* The workspace, the dispatcher and the evaluator's files                  *)

Init ==
    /\ tree = BaseTree /\ commits = <<>> /\ head = 0 /\ edits = 0 /\ commands = [capture |-> 0, issue |-> 0, gate |-> 0]
    /\ anchor = [id |-> 1, doc |-> BaseTree.doc]
    /\ receipts = [t \in Tasks |-> None]
    /\ checks = [t \in Tasks |-> [r \in Roles |-> None]]
    /\ verdicts = [t \in Tasks \cup Strays |-> None]
    /\ cap = [c \in Captures |-> None]
    /\ ev = [e \in Evaluators |-> None]
    /\ gate = None /\ answer = None

(* Somebody edits an authored file                                          *)
Edit ==
    /\ edits < MaxEdits /\ edits' = edits + 1
    /\ \E code \in Codes, doc \in Docs :
        /\ tree' = [code |-> code, doc |-> doc] /\ tree' # tree
        /\ code = tree.code \/ doc = tree.doc
    /\ UNCHANGED <<commands, commits, head, anchor, files, cap, ev, gate, answer>>

(* A commit of the edits, or of evidence output alone                       *)
Commit ==
    /\ Len(commits) < MaxCommits
    /\ \E committed \in {tree, TreeOf(head)} :
        commits' = Append(commits, [parent |-> head, tree |-> committed])
    /\ head' = Len(commits')
    /\ UNCHANGED <<commands, tree, edits, anchor, files, cap, ev, gate, answer>>

(* An older commit is checked out                                           *)
Checkout ==
    /\ head # 0 /\ edits < MaxEdits /\ edits' = edits + 1
    /\ head' = commits[head].parent /\ tree' = TreeOf(head')
    /\ UNCHANGED <<commands, commits, anchor, files, cap, ev, gate, answer>>

(* The external dispatcher signs a receipt for the source as it is          *)
Dispatch(t) ==
    /\ ComputeAuthoredSourceFingerprint # None
    /\ \E p \in Performers, i \in Issuers, n \in 1..MaxDispatches :
        /\ \A u \in Tasks : receipts[u] # None => receipts[u].id < n
        /\ receipts' = [receipts EXCEPT ![t] =
             [id |-> n, task |-> t, source |-> ComputeAuthoredSourceFingerprint,
              performer |-> p, issuer |-> i]]
    /\ UNCHANGED <<commands, workspace, anchor, checks, verdicts, cap, ev, gate, answer>>

(* The external evaluator anchors the baseline document of the workspace    *)
Reanchor ==
    /\ anchor.id < MaxAnchors /\ anchor.doc # tree.doc
    /\ anchor' = [id |-> anchor.id + 1, doc |-> tree.doc]
    /\ UNCHANGED <<commands, workspace, files, cap, ev, gate, answer>>

----------------------------------------------------------------------------
(* captureCheckOutput.  Whatever it refuses throws and changes nothing.     *)

CaptureStart(c, t, role, performer) ==
    /\ commands.capture < MaxCaptures /\ commands' = [commands EXCEPT !.capture = @ + 1]
    /\ cap[c] = None
    /\ ResolveExternalDispatchTrust(anchor)
    /\ ComputeAuthoredSourceFingerprint # None
    /\ VerifyEvidenceDispatchReceipt(receipts[t], t, ComputeAuthoredSourceFingerprint, performer) = "none"
    /\ cap' = [cap EXCEPT ![c] =
         [task |-> t, role |-> role, start |-> ComputeAuthoredSourceFingerprint,
          receipt |-> receipts[t], policy |-> anchor, artifact |-> None]]
    /\ UNCHANGED <<workspace, anchor, files, ev, gate, answer>>

(* External: the executor runs the check on the workspace as it is, and     *)
(* signs what it saw.  An artifact whose source drifted is thrown away.     *)
ExecutorRuns(c) ==
    /\ cap[c] # None /\ cap[c].artifact = None
    /\ \E <<ran, readable>> \in Outcomes :
        cap' = [cap EXCEPT ![c] =
          IF tree # cap[c].start.tree THEN None
          ELSE [@ EXCEPT !.artifact =
                 [receipt |-> cap[c].receipt, policy |-> cap[c].policy,
                  source |-> cap[c].start, ran |-> ran, readable |-> readable,
                  passed |-> Passes(cap[c].role, tree.code)]]]
    /\ UNCHANGED <<commands, workspace, anchor, files, ev, gate, answer>>

(* The end fingerprint, then writeCheckArtifact: the file is replaced even  *)
(* by an artifact that records a failure.                                   *)
CaptureEnd(c) ==
    /\ cap[c] # None /\ cap[c].artifact # None
    /\ cap' = [cap EXCEPT ![c] = None]
    /\ checks' = IF /\ AuthoredSourceIsCurrent(cap[c].start, ComputeAuthoredSourceFingerprint)
                    /\ ResolveExternalDispatchTrust(cap[c].policy)
                 THEN [checks EXCEPT ![cap[c].task][cap[c].role] = cap[c].artifact]
                 ELSE checks
    /\ UNCHANGED <<commands, workspace, anchor, receipts, verdicts, ev, gate, answer>>

(* The executor throws, or the command is killed                            *)
CaptureFails(c) ==
    /\ cap[c] # None
    /\ cap' = [cap EXCEPT ![c] = None]
    /\ UNCHANGED <<commands, workspace, anchor, files, ev, gate, answer>>

----------------------------------------------------------------------------
(* evaluateEvidenceRequest, step by step, for both of its callers           *)

Evaluation(t, performer, open, policy, descriptors) ==
    [task |-> t, performer |-> performer, open |-> open, policy |-> policy,
     descriptors |-> descriptors, start |-> None,
     left |-> Roles, found |-> {}, loaded |-> [r \in Roles |-> None]]

(* issueTaskVerdict: surfaceFor reads the digests of both files first       *)
IssueTaskVerdict(t, performer, open) ==
    /\ commands.issue < MaxIssues /\ commands' = [commands EXCEPT !.issue = @ + 1]
    /\ ev["issue"] = None
    /\ ev' = [ev EXCEPT !["issue"] =
         Evaluation(t, performer, open, anchor,
                    IF t \in Tasks THEN checks[t] ELSE [r \in Roles |-> None])]
    /\ UNCHANGED <<workspace, anchor, files, cap, gate, answer>>

(* Baseline, trust and the start fingerprint.  Where one is missing, the    *)
(* verdict is failed and runEvidenceVerdict writes nothing.                 *)
EvaluateStart(e) ==
    /\ ev[e] # None /\ ev[e].start = None
    /\ IF ResolveExternalDispatchTrust(ev[e].policy) /\ ComputeAuthoredSourceFingerprint # None
       THEN /\ ev' = [ev EXCEPT ![e].start = ComputeAuthoredSourceFingerprint]
            /\ UNCHANGED <<gate, answer>>
       ELSE /\ ev' = [ev EXCEPT ![e] = None]
            /\ IF e = "gate" THEN gate' = None /\ answer' = "refused"
               ELSE UNCHANGED <<gate, answer>>
    /\ UNCHANGED <<commands, workspace, anchor, files, cap>>

(* One turn of the loop over the request's surfaces                         *)
EvaluateSurface(e, role) ==
    /\ ev[e] # None /\ ev[e].start # None /\ role \in ev[e].left
    /\ role = "task-named-check" => "existing-verification" \notin ev[e].left
    /\ LET task == ev[e].task
           file == IF task \in Tasks THEN checks[task][role] ELSE None
           found == LoadSurface(ev[e].descriptors[role], file, task, role,
                                ev[e].performer, ev[e].start, ev[e].policy)
       IN  ev' = [ev EXCEPT ![e].left = @ \ {role},
                            ![e].found = @ \cup ({found} \ {"none"}),
                            ![e].loaded[role] = IF IsLoaded(found) THEN file ELSE None]
    /\ UNCHANGED <<commands, workspace, anchor, files, cap, gate, answer>>

(* The end fingerprint and runEvidenceVerdict: the verdict is written,      *)
(* verified or failed, under the task's name                                *)
RunEvidenceVerdict ==
    /\ ev["issue"] # None /\ ev["issue"].start # None /\ ev["issue"].left = {}
    /\ verdicts' = IF ResolveExternalDispatchTrust(ev["issue"].policy)
                   THEN [verdicts EXCEPT ![ev["issue"].task] =
                           EvaluateEvidenceRequest(ev["issue"], ComputeAuthoredSourceFingerprint)]
                   ELSE verdicts
    /\ ev' = [ev EXCEPT !["issue"] = None]
    /\ UNCHANGED <<commands, workspace, anchor, receipts, checks, cap, gate, answer>>

----------------------------------------------------------------------------
(* evaluateEvidenceGate.  A gate that cannot resolve its context refuses.   *)

GateStart ==
    /\ commands.gate < MaxGates /\ commands' = [commands EXCEPT !.gate = @ + 1]
    /\ gate = None
    /\ IF ResolveExternalDispatchTrust(anchor) /\ ComputeAuthoredSourceFingerprint # None
       THEN /\ gate' = [policy |-> anchor, start |-> ComputeAuthoredSourceFingerprint,
                        listed |-> None, left |-> Tasks \X {1, 2}]
            /\ answer' = None
       ELSE answer' = "refused" /\ UNCHANGED gate
    /\ UNCHANGED <<workspace, anchor, files, cap, ev>>

(* listEvidenceJsonFiles: a missing, failed or stray verdict refuses the    *)
(* gate whatever the others say                                             *)
GateList ==
    /\ gate # None /\ gate.listed = None
    /\ IF /\ \A t \in Strays : verdicts[t] = None
          /\ \A t \in Tasks : verdicts[t] # None => verdicts[t].status = "verified"
          /\ \A t \in Tasks : verdicts[t] # None
       THEN gate' = [gate EXCEPT !.listed = verdicts] /\ UNCHANGED answer
       ELSE gate' = None /\ answer' = "refused"
    /\ UNCHANGED <<commands, workspace, anchor, files, cap, ev>>

(* verdictStillCurrent: the recorded source must be current, and then the   *)
(* verdict's own references are evaluated again.  The audit asks twice, to  *)
(* count the stale and to count the verified.                               *)
AuditVerdict(t) ==
    /\ gate # None /\ gate.listed # None /\ ev["gate"] = None
    /\ \E round \in {1, 2} :
        /\ <<t, round>> \in gate.left /\ (round = 2 => \A u \in Tasks : <<u, 1>> \notin gate.left)
        /\ IF AuthoredSourceIsCurrent(gate.listed[t].source, gate.start)
           THEN /\ ev' = [ev EXCEPT !["gate"] =
                     Evaluation(t, gate.listed[t].performer, FALSE, gate.policy,
                                gate.listed[t].references)]
                /\ gate' = [gate EXCEPT !.left = @ \ {<<t, round>>}]
                /\ UNCHANGED answer
           ELSE gate' = None /\ answer' = "refused" /\ UNCHANGED ev
    /\ UNCHANGED <<commands, workspace, anchor, files, cap>>

AuditEnds ==
    /\ ev["gate"] # None /\ ev["gate"].start # None /\ ev["gate"].left = {}
    /\ LET current == EvaluateEvidenceRequest(ev["gate"], ComputeAuthoredSourceFingerprint)
       IN  IF /\ current.status = "verified"
              /\ StableVerdictProjection(current)
                   = StableVerdictProjection(gate.listed[ev["gate"].task])
           THEN UNCHANGED <<gate, answer>>
           ELSE gate' = None /\ answer' = "refused"
    /\ ev' = [ev EXCEPT !["gate"] = None]
    /\ UNCHANGED <<commands, workspace, anchor, files, cap>>

X_GateEnd ==
    /\ gate # None /\ gate.listed # None /\ gate.left = {} /\ ev["gate"] = None
    /\ answer' = "ok"
    /\ gate' = None
    /\ UNCHANGED <<commands, workspace, anchor, files, cap, ev>>

X_GateEndEarly ==
    /\ gate # None /\ gate.listed # None /\ gate.left = {}
    /\ answer' = IF AuthoredSourceIsCurrent(gate.start, ComputeAuthoredSourceFingerprint)
                 THEN "ok" ELSE "refused"
    /\ gate' = None
    /\ UNCHANGED <<commands, workspace, anchor, files, cap, ev>>

(* The end fingerprint and the answer                                       *)
GateEnd ==
    /\ gate # None /\ gate.listed # None /\ gate.left = {} /\ ev["gate"] = None
    /\ answer' = IF AuthoredSourceIsCurrent(gate.start, ComputeAuthoredSourceFingerprint)
                 THEN "ok" ELSE "refused"
    /\ gate' = None
    /\ UNCHANGED <<commands, workspace, anchor, files, cap, ev>>

----------------------------------------------------------------------------
Next ==
    \/ Edit \/ Commit \/ Checkout \/ Reanchor
    \/ \E t \in Tasks : Dispatch(t)
    \/ \E c \in Captures, t \in Tasks, r \in Roles, p \in Performers : CaptureStart(c, t, r, p)
    \/ \E c \in Captures : ExecutorRuns(c) \/ CaptureEnd(c) \/ CaptureFails(c)
    \/ \E t \in Tasks \cup Strays, p \in Performers, o \in OpenFindings : IssueTaskVerdict(t, p, o)
    \/ \E e \in Evaluators : EvaluateStart(e) \/ \E r \in Roles : EvaluateSurface(e, r)
    \/ RunEvidenceVerdict
    \/ GateStart \/ GateList \/ AuditEnds \/ GateEnd
    \/ \E t \in Tasks : AuditVerdict(t)

Spec == Init /\ [][Next]_vars

----------------------------------------------------------------------------
(* One artifact can be the file of any number of verdicts, but the audit of *)
(* the gate and its evaluation always belong together.                      *)
TypeOK ==
    /\ tree \in [code : Codes, doc : Docs]
    /\ head \in 0..Len(commits)
    /\ \A i \in 1..Len(commits) : commits[i].parent \in 0..(i - 1)
    /\ anchor \in [id : 1..MaxAnchors, doc : Docs]
    /\ answer \in {None, "ok", "refused"}
    /\ edits \in 0..MaxEdits 
    /\ commands \in [capture : 0..MaxCaptures, issue : 0..MaxIssues, gate : 0..MaxGates]
    /\ ev["gate"] # None => gate # None /\ gate.listed # None

(* A gate that prints ok says the truth about the source of that moment:    *)
(* every check of every task passes on it, however it was edited, committed *)
(* or checked out since the checks were captured.                           *)
GateOkIsTrue ==
    [][answer' = "ok" /\ answer # "ok" =>
         \A r \in Roles : tree.code \notin Unreadable /\ Passes(r, tree.code)]_vars

(* A verdict written as verified is true of the source when it is written:  *)
(* an edit while its surfaces are loaded is noticed.                        *)
VerdictIsTrue ==
    [][\A t \in Tasks :
         LET v == verdicts'[t]
         IN  v # None /\ v # verdicts[t] /\ v.status = "verified"
               => \A r \in Roles : Passes(r, tree.code)]_vars

(* A verified verdict rests on one dispatch: both artifacts carry the same  *)
(* receipt, of this task, by a trusted issuer, for the source the verdict   *)
(* names, whichever captures overwrote which files in between.              *)
OneDispatch ==
    \A t \in Tasks :
        verdicts[t] # None /\ verdicts[t].status = "verified" =>
            LET ref == verdicts[t].references
            IN  /\ \A q, r \in Roles : ref[q].receipt = ref[r].receipt
                /\ \A r \in Roles :
                    /\ ref[r].receipt.task = t /\ ref[r].receipt.issuer \in TrustedIssuers
                    /\ ref[r].receipt.source.tree = verdicts[t].source.tree
                    /\ ref[r].policy = verdicts[t].policy /\ Passed(ref[r])

(* The audit of task t, taken at one moment                                 *)
StillCurrent(t) ==
    LET v == verdicts[t] now == ComputeAuthoredSourceFingerprint
    IN  /\ v # None
        /\ IF v = None THEN FALSE
           ELSE /\ v.status = "verified" /\ ResolveExternalDispatchTrust(anchor)
                /\ AuthoredSourceIsCurrent(v.source, now)
                /\ \A r \in Roles :
                     LoadSurface(v.references[r], checks[t][r], t, r, v.performer, now, anchor) = "none"

(* Committing evidence output makes no evidence stale: a verdict that the   *)
(* gate would count is counted after a commit that touches nothing else.    *)
EvidenceCommitKeeps ==
    [][Len(commits') > Len(commits) /\ commits'[head'].tree = TreeOf(head) =>
         \A t \in Tasks : StillCurrent(t) => StillCurrent(t)']_vars
=============================================================================
