--------------------------- MODULE DraftWorkspace ---------------------------
(***************************************************************************)
(* One draft of the local-first workspace: the IndexedDB record            *)
(* (public/local-first/drafts.js), the editor that reviews and exports it  *)
(* (app.js), the listing dialog that prepares a job from it (workflow.js)  *)
(* and the job host behind /fulfillment (src/local-first/fulfillment.ts).  *)
(*                                                                         *)
(* Tabs share the record and the session cookie and nothing else.  A       *)
(* dialog's operation stays in flight when the dialog is closed, so the    *)
(* editor of the same tab goes on beside it.  A text stands for title and  *)
(* description; a run stands for its output, whose digest names it.        *)
(***************************************************************************)
EXTENDS Naturals

CONSTANTS
    Tabs,
    Texts,
    MaxRevision,   \* saves of one record
    MaxSessions,   \* session cookies, one after the other
    Listing,       \* whether listing jobs are prepared
    Launch,        \* whether launch reviews are exported
    None

DraftAssumption ==
    /\ MaxRevision \in Nat \ {0}
    /\ MaxSessions \in Nat \ {0}
    /\ Listing \in BOOLEAN /\ Launch \in BOOLEAN

VARIABLES
    store,      \* the record: text, revision, workflow; or None
    tab,        \* what each tab holds
    session,    \* the nonce of the cookie
    jobs,       \* the host's runs and their states
    backup,     \* the last export, as it was
    lastSaved,  \* what a person last saved from an editor or imported
    acked,      \* <<revision, text>> acknowledged by a person
    exported,   \* <<revision, text>> exported as a launch pack
    seen,       \* runs whose output a person has reviewed on this device
    selected    \* runs chosen for the sandbox checkout on this device

vars == <<store, tab, session, jobs, backup, lastSaved, acked, exported, seen,
          selected>>
ghosts == <<acked, exported, seen, selected>>

Sessions == 1 .. MaxSessions
Revisions == 1 .. MaxRevision
Runs == Sessions \X Revisions \X Texts
Finished == {"completed", "canceled", "blocked"}
Workflows == [run : Runs \cup {None}, inputRevision : Revisions, text : Texts,
              status : {"queued", "running"} \cup Finished, reviewed : BOOLEAN]
Drafts == [text : Texts, revision : Revisions, workflow : Workflows \cup {None}]

\* What a freshly opened tab holds: nothing selected, no dialog.
Fresh == [chosen |-> None, text |-> None, dirty |-> FALSE, stale |-> FALSE,
          review |-> None, approved |-> FALSE, reading |-> None,
          current |-> None, open |-> FALSE, op |-> None, notice |-> FALSE]

Init ==
    /\ store = None
    /\ tab = [t \in Tabs |-> Fresh]
    /\ session = 1
    /\ jobs = [r \in {} |-> "running"]
    /\ backup = None
    /\ lastSaved = None
    /\ acked = {} /\ exported = {} /\ seen = {} /\ selected = {}

-----------------------------------------------------------------------------
(* drafts.js                                                                *)

\* The job of another text keeps its result and loses its review.
X_unreview(draft) == draft
unreview(draft) ==
    IF draft.workflow # None /\ draft.workflow.text # draft.text
    THEN [draft EXCEPT !.workflow.reviewed = FALSE] ELSE draft

revisionOf(draft) == IF draft = None THEN 0 ELSE draft.revision

\* saveDraft's revision check, inside its transaction.
X_expected(revision) == TRUE
expected(revision) == revisionOf(store) = revision

\* saveDraft puts text and workflow under the next revision.
X_saveDraft(text, workflow) ==
    store' = unreview([text |-> text, revision |-> revisionOf(store),
                       workflow |-> workflow])
saveDraft(text, workflow) ==
    store' = unreview([text |-> text, revision |-> revisionOf(store) + 1,
                       workflow |-> workflow])

Room == revisionOf(store) < MaxRevision

\* Every other tab is told through the broadcast channel.  Notices and stale
\* marks decide about launch reviews only, and are kept where there are some.
changed(t, mine) ==
    [u \in Tabs |-> IF u = t THEN mine ELSE [tab[u] EXCEPT !.notice = Launch]]

-----------------------------------------------------------------------------
(* app.js: the editor.  A modal dialog keeps the person away from it.       *)

AtEditor(t) == ~tab[t].open /\ tab[t].reading = None

invalidateReview(s) == [s EXCEPT !.review = None, !.approved = FALSE]

edited(t, text) ==
    /\ AtEditor(t)
    /\ text # tab[t].text
    /\ tab' = [tab EXCEPT ![t] = [invalidateReview(@) EXCEPT
                                    !.text = text, !.dirty = TRUE]]
    /\ UNCHANGED <<store, session, jobs, backup, lastSaved, ghosts>>

\* show: the editor takes over a saved draft.
show(s, draft) ==
    [invalidateReview(s) EXCEPT !.chosen = draft, !.dirty = FALSE, !.stale = FALSE,
        !.text = IF draft = None THEN None ELSE draft.text]

\* The draft list and the reload button; unsaved edits are given up knowingly.
openSavedDraft(t) ==
    /\ AtEditor(t)
    /\ store # None
    /\ tab' = [tab EXCEPT ![t] = show(@, store)]
    /\ UNCHANGED <<store, session, jobs, backup, lastSaved, ghosts>>

\* A save whose revision matches replaces the text and keeps the workflow.
Submit(t) ==
    /\ AtEditor(t)
    /\ tab[t].text # None
    /\ Room
    /\ expected(revisionOf(tab[t].chosen))
    /\ saveDraft(tab[t].text, IF store = None THEN None ELSE store.workflow)
    /\ tab' = changed(t, show(tab[t], store'))
    /\ lastSaved' = tab[t].text
    /\ UNCHANGED <<session, jobs, backup, ghosts>>

\* One that does not is refused; the editor keeps its text.
SubmitConflict(t) ==
    /\ AtEditor(t)
    /\ tab[t].text # None
    /\ ~expected(revisionOf(tab[t].chosen))
    /\ tab' = [tab EXCEPT ![t] = [invalidateReview(@) EXCEPT !.stale = Launch]]
    /\ UNCHANGED <<store, session, jobs, backup, lastSaved, ghosts>>

\* The launch review reads the saved draft, then computes over it.
ReviewBegins(t) ==
    /\ Launch
    /\ AtEditor(t)
    /\ tab[t].chosen # None /\ ~tab[t].dirty
    /\ IF revisionOf(store) = tab[t].chosen.revision
       THEN tab' = [tab EXCEPT ![t] = [invalidateReview(@) EXCEPT
                        !.reading = <<store.revision, store.text>>]]
       ELSE tab' = [tab EXCEPT ![t] = [invalidateReview(@) EXCEPT !.stale = Launch]]
    /\ UNCHANGED <<store, session, jobs, backup, lastSaved, ghosts>>

ReviewShown(t) ==
    /\ tab[t].reading # None
    /\ tab' = [tab EXCEPT ![t].review = tab[t].reading, ![t].reading = None]
    /\ UNCHANGED <<store, session, jobs, backup, lastSaved, ghosts>>

\* The acknowledgement is of the review on the screen.
Approve(t) ==
    /\ AtEditor(t)
    /\ tab[t].review # None
    /\ ~tab[t].approved
    /\ tab' = [tab EXCEPT ![t].approved = TRUE]
    /\ acked' = acked \cup {tab[t].review}
    /\ UNCHANGED <<store, session, jobs, backup, lastSaved, exported, seen,
                   selected>>

\* renderSetup: the export is offered for the saved, current, approved review.
acknowledged(t) ==
    /\ tab[t].approved /\ tab[t].review # None
    /\ tab[t].chosen # None /\ ~tab[t].dirty /\ ~tab[t].stale
    /\ tab[t].review[1] = tab[t].chosen.revision

\* The saved draft is read again and must be the one that was reviewed.
X_stillReviewed(t) == store # None
stillReviewed(t) == revisionOf(store) = tab[t].review[1]

ExportLaunch(t) ==
    /\ AtEditor(t)
    /\ acknowledged(t)
    /\ IF stillReviewed(t)
       THEN /\ exported' = exported \cup {<<store.revision, store.text>>}
            /\ UNCHANGED tab
       ELSE /\ tab' = [tab EXCEPT ![t] = [invalidateReview(@) EXCEPT !.stale = Launch]]
            /\ UNCHANGED exported
    /\ UNCHANGED <<store, session, jobs, backup, lastSaved, acked, seen, selected>>

\* Another tab's change: the review goes, the copy is marked stale.
externalChange(t) ==
    /\ tab[t].notice
    /\ tab' = [tab EXCEPT ![t] = [invalidateReview(@) EXCEPT
                 !.notice = FALSE, !.stale = tab[t].chosen # None]]
    /\ UNCHANGED <<store, session, jobs, backup, lastSaved, ghosts>>

-----------------------------------------------------------------------------
(* Backups: they travel to another device with no drafts and no session.    *)

exportDrafts(t) ==
    /\ Listing
    /\ AtEditor(t)
    /\ session < MaxSessions
    /\ store # None
    /\ backup' = store
    /\ UNCHANGED <<store, tab, session, jobs, lastSaved, ghosts>>

NewDevice ==
    /\ backup # None
    /\ session < MaxSessions
    /\ store' = None
    /\ tab' = [t \in Tabs |-> Fresh]
    /\ session' = session + 1
    /\ lastSaved' = None
    /\ acked' = {} /\ exported' = {} /\ seen' = {} /\ selected' = {}
    /\ UNCHANGED <<jobs, backup>>

\* parseImport drops the review: the person on this device has seen nothing.
X_parseImport(draft) == draft
parseImport(draft) ==
    IF draft.workflow = None THEN draft
    ELSE [draft EXCEPT !.workflow.reviewed = FALSE]

\* importDrafts adds what is absent and replaces nothing; the host must answer.
importDrafts(t) ==
    /\ AtEditor(t)
    /\ backup # None
    /\ store = None
    /\ store' = parseImport(backup)
    /\ lastSaved' = backup.text
    /\ tab' = changed(t, tab[t])
    /\ UNCHANGED <<session, jobs, backup, ghosts>>

-----------------------------------------------------------------------------
(* workflow.js: one operation of a tab's dialog at a time.                  *)

matches(t) ==
    /\ tab[t].current.workflow # None
    /\ tab[t].current.workflow.text = tab[t].current.text

Idle(t) == tab[t].open /\ tab[t].op = None

\* run: an operation begins with the session of the job host.
Begin(s, what) == [s EXCEPT !.op = [what |-> what, at |-> "session"]]

\* openWorkflow: the draft in the store, if it is the one in the editor, and
\* no operation of an earlier dialog still in flight.
openWorkflow(t) ==
    /\ Listing
    /\ AtEditor(t)
    /\ tab[t].op = None
    /\ tab[t].chosen # None /\ ~tab[t].dirty
    /\ revisionOf(store) = tab[t].chosen.revision
    /\ tab' = [tab EXCEPT ![t] = Begin([@ EXCEPT !.open = TRUE, !.current = store],
                 IF store.workflow = None THEN "prepare" ELSE "status")]
    /\ UNCHANGED <<store, session, jobs, backup, lastSaved, ghosts>>

CloseDialog(t) ==
    /\ tab[t].open
    /\ tab' = [tab EXCEPT ![t].open = FALSE]
    /\ UNCHANGED <<store, session, jobs, backup, lastSaved, ghosts>>

\* Which buttons render leaves enabled.
X_mayPrepare(flow) == TRUE
mayPrepare(flow) == flow # None => flow.run = None \/ flow.status \in Finished
mayCancel(flow) == flow.run # None /\ flow.status \notin {"completed", "canceled"}
mayRetry(flow) == flow.status = "blocked"

Press(t, what) ==
    /\ Idle(t)
    /\ LET flow == tab[t].current.workflow
       IN  \/ what = "status" /\ flow # None
           \/ what = "prepare" /\ mayPrepare(flow)
           \/ what = "cancel" /\ flow # None /\ mayCancel(flow)
           \/ what = "retry" /\ flow # None /\ mayRetry(flow)
    /\ tab' = [tab EXCEPT ![t] = Begin(@, what)]
    /\ UNCHANGED <<store, session, jobs, backup, lastSaved, ghosts>>

\* persist: saveDraft with the dialog's own copy, at that copy's revision; the
\* editor of the tab then holds the saved draft, its unsaved text untouched.
persist(t, workflow, mine) ==
    /\ Room
    /\ expected(tab[t].current.revision)
    /\ saveDraft(tab[t].current.text, workflow)
    /\ tab' = changed(t, [invalidateReview(mine) EXCEPT !.current = store',
                                                        !.chosen = store'])

\* An error of any kind ends the operation; draft and handle are as they were.
X_Fails(t) ==
    /\ tab[t].op # None /\ tab[t].op.at = "session"
    /\ tab' = [tab EXCEPT ![t].op = None]
    /\ UNCHANGED <<store, session, jobs, backup, lastSaved, ghosts>>
Fails(t) ==
    /\ tab[t].op # None
    /\ tab' = [tab EXCEPT ![t].op = None]
    /\ UNCHANGED <<store, session, jobs, backup, lastSaved, ghosts>>

\* The session answers; a cookie is kept, or renewed when it has expired.
SessionAnswers(t) ==
    /\ tab[t].op # None /\ tab[t].op.at = "session"
    /\ tab[t].op.what # "prepare"
    /\ tab' = [tab EXCEPT ![t].op = [what |-> tab[t].op.what, at |-> "request",
                                     csrf |-> session]]
    /\ UNCHANGED <<store, session, jobs, backup, lastSaved, ghosts>>

\* prepare: the queued job is saved before anything is asked of the host.
prepare(t) ==
    /\ tab[t].op # None /\ tab[t].op.at = "session"
    /\ tab[t].op.what = "prepare"
    /\ persist(t, [run |-> None, inputRevision |-> tab[t].current.revision,
                   text |-> tab[t].current.text, status |-> "queued",
                   reviewed |-> FALSE],
               [tab[t] EXCEPT !.op = [what |-> "status", at |-> "request",
                                      csrf |-> session]])
    /\ UNCHANGED <<session, jobs, backup, lastSaved, ghosts>>

SessionExpires ==
    /\ session < MaxSessions
    /\ session' = session + 1
    /\ UNCHANGED <<store, tab, jobs, backup, lastSaved, ghosts>>

\* The identity of a run: the session's nonce and the draft that was sent.
X_startInput(t) == <<session, tab[t].current.workflow.inputRevision, tab[t].text>>
startInput(t) ==
    LET flow == tab[t].current.workflow
    IN  <<session, flow.inputRevision, flow.text>>

runOf(t) == IF tab[t].current.workflow.run = None THEN startInput(t)
            ELSE tab[t].current.workflow.run

\* handleFulfillment: the csrf token is the session's and the run its own.
admitted(t) == tab[t].op.csrf = session /\ runOf(t)[1] = session

\* The operation at the host; "start" repeated answers the run it made.
Outcome(t) ==
    LET run == runOf(t) IN
    IF run \notin DOMAIN jobs THEN "running"
    ELSE IF tab[t].op.what = "cancel" /\ jobs[run] # "completed" THEN "canceled"
    ELSE IF tab[t].op.what = "retry" /\ jobs[run] = "blocked" THEN "running"
    ELSE jobs[run]

invoke(t) ==
    jobs' = [r \in DOMAIN jobs \cup {runOf(t)} |->
                IF r = runOf(t) THEN Outcome(t) ELSE jobs[r]]

RequestServed(t) ==
    /\ tab[t].op # None /\ tab[t].op.at = "request"
    /\ admitted(t)
    /\ invoke(t)
    /\ \/ tab' = [tab EXCEPT ![t].op = [at |-> "answer", run |-> runOf(t),
                                        status |-> Outcome(t)]]
       \/ tab' = [tab EXCEPT ![t].op = None]   \* the answer is lost
    /\ UNCHANGED <<store, session, backup, lastSaved, ghosts>>

\* refresh: the answer replaces the job's state; a review survives only for
\* the same output.
X_stillSeen(flow, answer) == flow.reviewed \/ answer.status = "completed"
stillSeen(flow, answer) ==
    flow.reviewed /\ answer.run = flow.run /\ answer.status = "completed"

refresh(t) ==
    /\ tab[t].op # None /\ tab[t].op.at = "answer"
    /\ LET flow == tab[t].current.workflow
           answer == tab[t].op
       IN  persist(t, [flow EXCEPT !.run = answer.run, !.status = answer.status,
                                   !.reviewed = stillSeen(flow, answer)],
                   [tab[t] EXCEPT !.op = None])
    /\ UNCHANGED <<session, jobs, backup, lastSaved, ghosts>>

\* The person ticks the review of the output on the screen.
Review(t) ==
    /\ Idle(t)
    /\ matches(t)
    /\ tab[t].current.workflow.status = "completed"
    /\ ~tab[t].current.workflow.reviewed
    /\ persist(t, [tab[t].current.workflow EXCEPT !.reviewed = TRUE], tab[t])
    /\ seen' = seen \cup {tab[t].current.workflow.run}
    /\ UNCHANGED <<session, jobs, backup, lastSaved, acked, exported, selected>>

\* The reviewed output is handed to the sandbox checkout.
Checkout(t) ==
    /\ Idle(t)
    /\ matches(t)
    /\ tab[t].current.workflow.reviewed
    /\ selected' = selected \cup {tab[t].current.workflow.run}
    /\ tab' = [tab EXCEPT ![t].open = FALSE]
    /\ UNCHANGED <<store, session, jobs, backup, lastSaved, acked, exported, seen>>

\* The host works on, or gives up, what it was given.
JobEnds(run) ==
    /\ jobs[run] = "running"
    /\ jobs' \in {[jobs EXCEPT ![run] = s] : s \in {"completed", "blocked"}}
    /\ UNCHANGED <<store, tab, session, backup, lastSaved, ghosts>>

-----------------------------------------------------------------------------
\* The steps of an operation in flight.
OpStep(t) ==
    \/ Fails(t) \/ SessionAnswers(t) \/ prepare(t) \/ RequestServed(t) \/ refresh(t)

Next ==
    \/ \E t \in Tabs :
        \/ \E text \in Texts : edited(t, text)
        \/ openSavedDraft(t) \/ Submit(t) \/ SubmitConflict(t)
        \/ ReviewBegins(t) \/ ReviewShown(t) \/ Approve(t) \/ ExportLaunch(t)
        \/ externalChange(t)
        \/ exportDrafts(t) \/ importDrafts(t)
        \/ openWorkflow(t) \/ CloseDialog(t)
        \/ \E what \in {"status", "prepare", "cancel", "retry"} : Press(t, what)
        \/ OpStep(t)
        \/ Review(t) \/ Checkout(t)
    \/ NewDevice
    \/ Listing /\ SessionExpires
    \/ \E run \in DOMAIN jobs : JobEnds(run)

Spec == Init /\ [][Next]_vars

\* Every request of the page has a deadline of 60 s and every transaction ends.
FairSpec == Spec /\ \A t \in Tabs : WF_vars(OpStep(t))

-----------------------------------------------------------------------------
\* Types, and what validWorkflow demands of a stored job.
TypeOK ==
    /\ store \in Drafts \cup {None}
    /\ session \in Sessions
    /\ DOMAIN jobs \subseteq Runs
    /\ backup \in Drafts \cup {None}
    /\ acked \subseteq Revisions \X Texts
    /\ exported \subseteq Revisions \X Texts
    /\ (store # None /\ store.workflow # None) =>
        /\ store.workflow.run = None => store.workflow.status = "queued"
        /\ store.workflow.inputRevision <= store.revision

\* What a person last saved is what is stored: neither another tab nor a job's
\* answer, which rewrites the whole record from the dialog's copy, undoes it.
EditNeverUndone == store # None => store.text = lastSaved

\* A stored review is of a finished output made from the text now stored.
ReviewedIsCurrent ==
    (store # None /\ store.workflow # None /\ store.workflow.reviewed) =>
        /\ store.workflow.status = "completed"
        /\ store.workflow.text = store.text

\* A stored handle names a run the host has, made from the text and revision
\* the record says it was made from.
HandleIsItsRun ==
    (store # None /\ store.workflow # None /\ store.workflow.run # None) =>
        /\ store.workflow.run \in DOMAIN jobs
        /\ store.workflow.run[2] = store.workflow.inputRevision
        /\ store.workflow.run[3] = store.workflow.text

\* Only an output reviewed on this device reaches the checkout, whatever was
\* refreshed, imported or prepared since.
SelectedWasReviewed == selected \subseteq seen

\* Only a revision whose review was acknowledged is exported, with its text.
ExportedWasAcknowledged == exported \subseteq acked

\* The handle of a job the record shows as unfinished is never replaced.
RunningHandleKept ==
    [][(/\ store # None /\ store.workflow # None /\ store.workflow.run # None
        /\ store.workflow.status \notin Finished /\ store' # None)
        => store'.workflow.run = store.workflow.run]_vars

\* An operation of the dialog always ends, so the dialog can be used again.
OperationEnds == \A t \in Tabs : (tab[t].op # None) ~> (tab[t].op = None)
=============================================================================
