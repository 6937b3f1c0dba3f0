--------------------------- MODULE MCOperations ---------------------------
(*****************************************************************************)
(* What the repository's scripts and its sandbox do: the two release         *)
(* controllers and the gate on storage changes, the merge agent, the         *)
(* evidence verdicts, the sandbox's provisioning proof, runs and previews,   *)
(* and the local host, each in small instances.  `scenario' selects one      *)
(* instance; its component takes its steps and all the others stand still,   *)
(* so the reachable states are the sum of the instances.                     *)
(*****************************************************************************)
EXTENDS Integers, FiniteSets, Sequences, TLC

CONSTANTS None

VARIABLES
    scenario,        \* the instance that runs
    \* ProductionRelease
    main, store, active, route, deployed, preserved, newest, run, moved,
    budget,
    \* StorageTransition
    current, edits,
    \* MergeAgent
    pull, agent, written, unmerged, world,
    \* LocalFirstRelease
    plan, serving, localFirstRoute, localFirstMain, pc, owned, before,
    journal, disk, restore, proof, verified, peerSeen, peers, faults,
    \* HostRendezvous
    host, rendezvousPc, answer, error, late, seenNew, foreign,
    \* EvidenceVerdict
    tree, commits, head, anchor, receipts, checks, verdicts, cap, ev, gate,
    evidenceAnswer, evidenceEdits, commands,
    \* SandboxProvision
    provisionTree, now, provisionProof, boxes, ranIn, signed, check,
    provisionEdits, provisionFaults,
    \* SandboxRun
    shape, runPc, box, runBoxes, ran, calls, exec, verdict, runAnswer, caller,
    bundle, ranUnder, hurt, runFaults,
    \* SandboxPreview
    previewNow, stored, post, get, promised,
    \* LocalHost
    hostHost, kind, phase, connected, hostAnswer, hostActive, executor,
    aborted, container, recoveryRequired, stopping, closed, hostFaults

releaseVars == <<main, store, active, route, deployed, preserved, newest, run,
                 moved, budget>>
storageVars == <<current, edits>>
mergeVars == <<pull, agent, written, unmerged, world>>
localFirstVars == <<plan, serving, localFirstRoute, localFirstMain, pc, owned,
                    before, journal, disk, restore, proof, verified, peerSeen,
                    peers, faults>>
rendezvousVars == <<host, rendezvousPc, answer, error, late, seenNew, foreign>>
evidenceVars == <<tree, commits, head, anchor, receipts, checks, verdicts,
                  cap, ev, gate, evidenceAnswer, evidenceEdits, commands>>
provisionVars == <<provisionTree, now, provisionProof, boxes, ranIn, signed,
                   check, provisionEdits, provisionFaults>>
runVars == <<shape, runPc, box, runBoxes, ran, calls, exec, verdict,
             runAnswer, caller, bundle, ranUnder, hurt, runFaults>>
previewVars == <<previewNow, stored, post, get, promised>>
hostVars == <<hostHost, kind, phase, connected, hostAnswer, hostActive,
              executor, aborted, container, recoveryRequired, stopping,
              closed, hostFaults>>
vars == <<scenario, releaseVars, storageVars, mergeVars, localFirstVars,
          rendezvousVars, evidenceVars, provisionVars, runVars, previewVars,
          hostVars>>
-----------------------------------------------------------------------------
\* Reviews: one approval by the reviewer, and histories that do not
\* authorise: two approvals, an approval by somebody else, one by a bot.
Reviewed(state, user, type) ==
    [state |-> state, environment |-> "production", user |-> user, type |-> type]
ReviewHistories ==
    {{Reviewed("approved", "owner", "User")},
     {Reviewed("approved", "owner", "User"), Reviewed("approved", "guest", "User")},
     {Reviewed("rejected", "owner", "User"), Reviewed("approved", "guest", "User")},
     {Reviewed("approved", "owner", "Bot")}}
Recovery == INSTANCE ProductionRelease WITH
    Candidates <- 1, MaxRuns <- 3, MaxFaults <- 1, MaxForeign <- 0,
    Drift <- TRUE, Reviews <- ReviewHistories, Reviewers <- {"owner"}
Foreign == INSTANCE ProductionRelease WITH
    Candidates <- 2, MaxRuns <- 2, MaxFaults <- 1, MaxForeign <- 1,
    Drift <- FALSE, Reviews <- ReviewHistories, Reviewers <- {"owner"}

\* One class is bound and has two statements, another is free to be
\* introduced.
Surface ==
    [revision |-> 1, migrations |-> <<[key |-> "new_sqlite_classes", classes |-> {"Ledger"}]>>,
     bindings |-> {[name |-> "A", class |-> "Ledger"]}, dependencies |-> 1,
     regions |-> {[class |-> "Ledger", id |-> 1, sha |-> 1,
                   ddl |-> <<[object |-> "table", sha |-> 1], [object |-> "index", sha |-> 1]>>]}]
Storage == INSTANCE StorageTransition WITH
    Base <- Surface, Classes <- {"Ledger", "Route"}, Revisions <- {1, 2},
    MaxEdits <- 4

\* A lane with two files and a directory, one conflict, comments and checks:
\* everything to repair, and observations that are refused, each another way.
Patch(paths, effective, tokens) == [paths |-> paths, effective |-> effective, tokens |-> tokens]
Answer(operator, repair) == [within |-> TRUE, operator |-> operator, repair |-> repair]
Patches ==
    [conflicts |-> [p \in {"a"} |-> Patch({"a"}, {"a"}, 1)],
     comments |-> [c1 |-> Answer(FALSE, Patch({"b"}, {"b"}, 1)), c2 |-> Answer(TRUE, Patch({"b"}, {"b"}, 1)),
                   c3 |-> Answer(FALSE, Patch({"dir/c"}, {"dir/c"}, 1)),
                   c4 |-> Answer(FALSE, Patch({"b"}, {"b", "x"}, 1))],
     checks |->
       [unit |-> [bound |-> TRUE, approaches |-> <<Patch({"a", "b"}, {"a", "b"}, 2), Patch({"b"}, {"b"}, 2)>>],
        loose |-> [bound |-> FALSE, approaches |-> <<Patch({"b"}, {"b"}, 1)>>],
        void |-> [bound |-> TRUE, approaches |-> <<Patch({"b"}, {"b"}, 1), Patch({}, {}, 1)>>]]]
Comment(id, path) == [id |-> id, path |-> path]
Observed(conflicts, comments, unit) ==
    [conflicts |-> conflicts, comments |-> comments, checks |-> [k \in {"unit"} |-> unit],
     decision |-> "REVIEW_REQUIRED", mergeable |-> "MERGEABLE", head |-> 1]
Observations ==
    {Observed({"a"}, {Comment("c1", "b")}, "fail"), Observed({}, {Comment("c1", "b")}, "fail"),
     Observed({}, {}, "fail"), Observed({"a"}, {}, "success"), Observed({}, {}, "pending"),
     Observed({}, {}, "success"), Observed({"a"}, {Comment("c2", "b")}, "success"),
     Observed({}, {Comment("c3", "dir/c")}, "success"), Observed({}, {Comment("c4", "b")}, "success"),
     Observed({}, {Comment("c1", "x")}, "fail"), Observed({"x"}, {}, "success"),
     Observed({"b"}, {}, "success"), Observed({}, {Comment("c9", "b")}, "success"),
     [Observed({}, {}, "success") EXCEPT !.mergeable = "CONFLICTING"],
     [Observed({}, {}, "success") EXCEPT !.decision = "CHANGES_REQUESTED"],
     [Observed({}, {}, "success") EXCEPT !.checks = [k \in {"loose"} |-> "fail"]],
     [Observed({}, {}, "success") EXCEPT !.checks = [k \in {"void"} |-> "fail"]],
     [Observed({"a"}, {}, "success") EXCEPT !.head = 2]}
Merge == INSTANCE MergeAgent WITH
    Pulls <- Observations, Plan <- Patches, WriteSet <- {"a", "b", "dir"},
    Below <- {<<"dir/c", "dir">>},
    AllowedActions <- {"conflict-resolution", "comment-change", "check-repair"},
    BoundChecks <- {"unit", "loose", "void"},
    Bounds <- [iterations |-> 4, tokens |-> 4]

\* A bootstrap, one over a retained Worker, a steady release without a host,
\* with the same and with a changed host, and live ones.
Planned(mode, checkout, prev, retained, pins) ==
    [mode |-> mode, checkout |-> checkout, prev |-> prev, retained |-> retained, pins |-> pins]
Before(checkout, pins) == [checkout |-> checkout, pins |-> pins]
Releases ==
    {Planned("bootstrap", "sandbox", None, FALSE, None),
     Planned("bootstrap", "sandbox", Before("sandbox", None), TRUE, None),
     Planned("steady", "sandbox", Before("sandbox", None), FALSE, None),
     Planned("steady", "sandbox", Before("sandbox", "h1"), FALSE, "h1"),
     Planned("steady", "sandbox", Before("sandbox", "h1"), FALSE, "h2"),
     Planned("steady", "live", Before("live-reader", None), FALSE, None),
     Planned("steady", "sandbox", Before("live", None), FALSE, None)}
LocalFirst == INSTANCE LocalFirstRelease WITH
    Plans <- Releases, MaxPeers <- 2, MaxFaults <- 2,
    route <- localFirstRoute, main <- localFirstMain

\* The rendezvous with the fulfilment host.
Rendezvous == INSTANCE HostRendezvous WITH
    MaxForeign <- 1, pc <- rendezvousPc

\* A source that passes, one on which the task's check fails, and one that
\* cannot be fingerprinted.
Gate == INSTANCE EvidenceVerdict WITH
    Tasks <- {"t1"}, Strays <- {}, Codes <- {"good", "bad"}, Unreadable <- {},
    Failing <- {<<"task-named-check", "bad">>}, Docs <- {"d1"},
    Performers <- {"p1"}, Issuers <- {"i1"}, TrustedIssuers <- {"i1"},
    Captures <- {"c1"}, MaxEdits <- 1, MaxCommits <- 1, MaxDispatches <- 2,
    MaxAnchors <- 1, MaxCaptures <- 2, MaxIssues <- 1, MaxGates <- 1,
    Outcomes <- {<<TRUE, TRUE>>}, OpenFindings <- {FALSE},
    answer <- evidenceAnswer, edits <- evidenceEdits
Issue == INSTANCE EvidenceVerdict WITH
    Tasks <- {"t1"}, Strays <- {}, Codes <- {"good", "bad"}, Unreadable <- {},
    Failing <- {<<"task-named-check", "bad">>}, Docs <- {"d1"},
    Performers <- {"p1"}, Issuers <- {"i1"}, TrustedIssuers <- {"i1"},
    Captures <- {"c1"}, MaxEdits <- 1, MaxCommits <- 0, MaxDispatches <- 2,
    MaxAnchors <- 1, MaxCaptures <- 3, MaxIssues <- 1, MaxGates <- 0,
    Outcomes <- {<<TRUE, TRUE>>, <<FALSE, TRUE>>, <<TRUE, FALSE>>},
    OpenFindings <- {FALSE}, answer <- evidenceAnswer, edits <- evidenceEdits
Policy == INSTANCE EvidenceVerdict WITH
    Tasks <- {"t1"}, Strays <- {"s1"}, Codes <- {"good", "huge"},
    Unreadable <- {"huge"}, Failing <- {}, Docs <- {"d1", "d2"},
    Performers <- {"p1", "p2"}, Issuers <- {"i1", "i2"},
    TrustedIssuers <- {"i1"}, Captures <- {"c1", "c2"}, MaxEdits <- 1,
    MaxCommits <- 0, MaxDispatches <- 1, MaxAnchors <- 1, MaxCaptures <- 2,
    MaxIssues <- 1, MaxGates <- 1, Outcomes <- {<<TRUE, TRUE>>},
    OpenFindings <- BOOLEAN, answer <- evidenceAnswer, edits <- evidenceEdits

\* Two files, two lanes, a trusted attestor and another one.
Provision == INSTANCE SandboxProvision WITH
    Files <- {"f1", "f2"}, Versions <- {"v1", "v2"}, Proofs <- {"p1"},
    SANDBOX_PROOF_COMMANDS <- <<"12.4", "12.7">>,
    Attestors <- {"ours", "other"}, Trusted <- {"ours"}, WallClock <- 1,
    Grace <- 1, Validity <- 1, MaxClock <- 3, MaxEdits <- 1, MaxFaults <- 1,
    tree <- provisionTree, proof <- provisionProof, edits <- provisionEdits,
    faults <- provisionFaults

\* Definitions that run, that call a tool outside the allowlist, that name a
\* tool twice, that declare no tool, and with each kind of unusable target;
\* equal definitions at once, also on the device lane; every manifest of
\* three fields.
NoManifest == [f \in {"merchantId", "palette", "locale"} |-> "absent"]
DryRun(tools, allow, target) ==
    [purpose |-> "registration-dry-run", tools |-> tools, allow |-> allow,
     target |-> target, manifest |-> NoManifest]
Definitions ==
    {DryRun(<<"t1", "t2">>, {"t1", "t2"}, "good"), DryRun(<<"t1", "t2">>, {"t1"}, "good"),
     DryRun(<<"t1", "t1">>, {"t1"}, "good"), DryRun(<<>>, {}, "good"),
     DryRun(<<"t1">>, {"t1"}, "missing"), DryRun(<<"t1">>, {"t1"}, "mismatch"),
     DryRun(<<"t1">>, {"t1"}, "broken")}
TwoTools == {DryRun(<<"t1", "t2">>, {"t1", "t2"}, "good"), DryRun(<<"t1", "t2">>, {"t1"}, "good")}
Builds ==
    [purpose : {"unshipped-surface-build"}, tools : {<<>>}, allow : {{}}, target : {"missing"},
     manifest : {NoManifest}]
    \cup [purpose : {"theme-build"}, tools : {<<>>}, allow : {{}}, target : {"missing"},
          manifest : [{"merchantId", "palette", "locale"} -> {"absent", "good", "bad"}]]
Runs == INSTANCE SandboxRun WITH
    Requests <- {"r1", "r2"}, Shapes <- Definitions, Tools <- {"t1", "t2"},
    Required <- {"merchantId"}, Optional <- {"palette", "locale"},
    Device <- FALSE, MaxFaults <- 1, pc <- runPc, boxes <- runBoxes,
    answer <- runAnswer, faults <- runFaults
Equal == INSTANCE SandboxRun WITH
    Requests <- {"r1", "r2"}, Shapes <- TwoTools, Tools <- {"t1", "t2"},
    Required <- {"merchantId"}, Optional <- {"palette", "locale"},
    Device <- FALSE, MaxFaults <- 2, pc <- runPc, boxes <- runBoxes,
    answer <- runAnswer, faults <- runFaults
OnDevice == INSTANCE SandboxRun WITH
    Requests <- {"r1", "r2"}, Shapes <- TwoTools, Tools <- {"t1", "t2"},
    Required <- {"merchantId"}, Optional <- {"palette", "locale"},
    Device <- TRUE, MaxFaults <- 1, pc <- runPc, boxes <- runBoxes,
    answer <- runAnswer, faults <- runFaults
Build == INSTANCE SandboxRun WITH
    Requests <- {"r1"}, Shapes <- Builds, Tools <- {"t1", "t2"},
    Required <- {"merchantId"}, Optional <- {"palette", "locale"},
    Device <- FALSE, MaxFaults <- 1, pc <- runPc, boxes <- runBoxes,
    answer <- runAnswer, faults <- runFaults

\* One creator and two readers of one address.
Preview == INSTANCE SandboxPreview WITH
    Creators <- {"c1"}, Readers <- {"g1", "g2"}, Lifetimes <- 0 .. 3,
    MAXIMUM_PREVIEW_LIFETIME_HOURS <- 2, MaxClock <- 2, now <- previewNow

\* Two requests of any route; three jobs.
Host == INSTANCE LocalHost WITH
    Requests <- {"r1", "r2"}, Kinds <- {"livez", "readyz", "run", "other"},
    MaxFaults <- 2, host <- hostHost, answer <- hostAnswer,
    active <- hostActive, faults <- hostFaults
Jobs == INSTANCE LocalHost WITH
    Requests <- {"r1", "r2", "r3"}, Kinds <- {"run"}, MaxFaults <- 1,
    host <- hostHost, answer <- hostAnswer, active <- hostActive,
    faults <- hostFaults

-----------------------------------------------------------------------------
ASSUME
    /\ Recovery!BoundsAssumption /\ Foreign!BoundsAssumption
    /\ Storage!EditsAssumption /\ Merge!BoundsAssumption
    /\ LocalFirst!LocalFirstAssumption /\ Rendezvous!RendezvousAssumption
    /\ Gate!EvidenceAssumption /\ Issue!EvidenceAssumption
    /\ Policy!EvidenceAssumption /\ Provision!ProvisionAssumption
    /\ Runs!SandboxAssumption /\ Equal!SandboxAssumption
    /\ OnDevice!SandboxAssumption /\ Build!SandboxAssumption
    /\ Preview!PreviewAssumption /\ Host!HostAssumption
    /\ Jobs!HostAssumption

Scenarios == { "release recovered", "release among others",
              "storage transition", "merge agent", "local-first release",
              "host rendezvous", "evidence gate", "evidence issue",
              "evidence policy", "sandbox provision", "sandbox runs",
              "equal sandbox runs", "device lane", "sandbox builds",
              "sandbox preview", "local host", "jobs of the local host"}

\* Everybody but one component stands still.
Still(component) ==
    /\ UNCHANGED scenario
    /\ IF component = "ProductionRelease" THEN TRUE ELSE UNCHANGED releaseVars
    /\ IF component = "StorageTransition" THEN TRUE ELSE UNCHANGED storageVars
    /\ IF component = "MergeAgent" THEN TRUE ELSE UNCHANGED mergeVars
    /\ IF component = "LocalFirstRelease" THEN TRUE ELSE UNCHANGED localFirstVars
    /\ IF component = "HostRendezvous" THEN TRUE ELSE UNCHANGED rendezvousVars
    /\ IF component = "EvidenceVerdict" THEN TRUE ELSE UNCHANGED evidenceVars
    /\ IF component = "SandboxProvision" THEN TRUE ELSE UNCHANGED provisionVars
    /\ IF component = "SandboxRun" THEN TRUE ELSE UNCHANGED runVars
    /\ IF component = "SandboxPreview" THEN TRUE ELSE UNCHANGED previewVars
    /\ IF component = "LocalHost" THEN TRUE ELSE UNCHANGED hostVars

Init ==
    /\ scenario \in Scenarios
    /\ CASE scenario = "release among others" -> Foreign!Init
         [] OTHER -> Recovery!Init
    /\ Storage!Init
    /\ Merge!Init
    /\ LocalFirst!Init
    /\ scenario \notin {"local-first release"} =>
         plan.prev = None
    /\ Rendezvous!Init
    /\ CASE scenario = "evidence issue" -> Issue!Init
         [] scenario = "evidence policy" -> Policy!Init
         [] OTHER -> Gate!Init
    /\ Provision!Init
    /\ scenario \notin {"sandbox provision"} =>
         provisionTree = [f \in {"f1", "f2"} |-> "v1"]
    /\ CASE scenario = "equal sandbox runs" -> Equal!Init
         [] scenario = "device lane" -> OnDevice!Init
         [] scenario = "sandbox builds" -> Build!Init
         [] OTHER -> Runs!Init
    /\ scenario \notin {"sandbox runs", "equal sandbox runs", "device lane", "sandbox builds"} =>
         \A r \in {"r1", "r2"} : shape[r] = DryRun(<<>>, {}, "good")
    /\ Preview!Init
    /\ CASE scenario = "jobs of the local host" -> Jobs!Init
         [] OTHER -> Host!Init

RecoveryStep == scenario = "release recovered" /\ Recovery!Next /\ Still("ProductionRelease")
ForeignStep == scenario = "release among others" /\ Foreign!Next /\ Still("ProductionRelease")
StorageStep == scenario = "storage transition" /\ Storage!Next /\ Still("StorageTransition")
MergeStep == scenario = "merge agent" /\ Merge!Next /\ Still("MergeAgent")
LocalFirstStep == scenario = "local-first release" /\ LocalFirst!Next /\ Still("LocalFirstRelease")
RendezvousStep == scenario = "host rendezvous" /\ Rendezvous!Next /\ Still("HostRendezvous")
GateStep == scenario = "evidence gate" /\ Gate!Next /\ Still("EvidenceVerdict")
IssueStep == scenario = "evidence issue" /\ Issue!Next /\ Still("EvidenceVerdict")
PolicyStep == scenario = "evidence policy" /\ Policy!Next /\ Still("EvidenceVerdict")
ProvisionStep == scenario = "sandbox provision" /\ Provision!Next /\ Still("SandboxProvision")
RunsStep == scenario = "sandbox runs" /\ Runs!Next /\ Still("SandboxRun")
EqualStep == scenario = "equal sandbox runs" /\ Equal!Next /\ Still("SandboxRun")
OnDeviceStep == scenario = "device lane" /\ OnDevice!Next /\ Still("SandboxRun")
BuildStep == scenario = "sandbox builds" /\ Build!Next /\ Still("SandboxRun")
PreviewStep == scenario = "sandbox preview" /\ Preview!Next /\ Still("SandboxPreview")
HostStep == scenario = "local host" /\ Host!Next /\ Still("LocalHost")
JobsStep == scenario = "jobs of the local host" /\ Jobs!Next /\ Still("LocalHost")

Next ==
    \/ RecoveryStep \/ ForeignStep \/ StorageStep \/ MergeStep
    \/ LocalFirstStep \/ RendezvousStep \/ GateStep \/ IssueStep
    \/ PolicyStep \/ ProvisionStep \/ RunsStep \/ EqualStep
    \/ OnDeviceStep \/ BuildStep \/ PreviewStep \/ HostStep
    \/ JobsStep

Spec == Init /\ [][Next]_vars
-----------------------------------------------------------------------------
\* ProductionRelease: only versions that were proven serve, the edge is never
\* ahead of the core it needs, and a recovery restores the tuple that served
\* before, over ambiguous answers and releases from elsewhere.
\* StorageTransition: what is called safe to roll back leaves storage
\* unchanged, and every reason for a migration is reported.
\* LocalFirstRelease: a completed release serves and was rehearsed, its
\* outcome and its rehearsal's account are true, and a host is announced
\* before it is needed.  HostRendezvous: ready is said only of the new host,
\* and a cutover that happened is not denied.
ReleaseSafe ==
    /\ scenario = "release recovered" =>
         /\ Recovery!TypeOK /\ Recovery!OnlyProvenServes
         /\ Recovery!EdgeNeverAhead /\ Recovery!RecoveryConverges
    /\ scenario = "release among others" => Foreign!TypeOK
    /\ scenario = "storage transition" =>
         /\ Storage!RollbackSafeIsUnchanged /\ Storage!ReasonsAreComplete
    /\ scenario = "local-first release" =>
         /\ LocalFirst!TypeOK /\ LocalFirst!CompletedIsServed
         /\ LocalFirst!CompletedIsRehearsed /\ LocalFirst!OutcomeIsTrue
         /\ LocalFirst!RehearsalAccounts /\ LocalFirst!AnnouncedFirst
    /\ scenario = "host rendezvous" =>
         /\ Rendezvous!ReadyIsTheNewHost /\ Rendezvous!CutoverIsNotDenied

\* MergeAgent: a refused plan left the repository untouched, the evidence
\* accounts for every change made, and a run that completed is repaired.
\* EvidenceVerdict: a task is dispatched once, whoever captures receipts at
\* the same time.
RepositorySafe ==
    /\ scenario = "merge agent" =>
         /\ Merge!TypeOK /\ Merge!RefusedPlanIsUntouched
         /\ Merge!EvidenceAccounts /\ Merge!CompletedIsRepaired
    /\ scenario = "evidence gate" => Gate!TypeOK
    /\ scenario = "evidence issue" => Issue!TypeOK /\ Issue!OneDispatch
    /\ scenario = "evidence policy" => Policy!TypeOK /\ Policy!OneDispatch

\* SandboxProvision: a receipt that verifies was proved by every command and
\* is recent.  SandboxRun: an accepted run executed every declared tool, only
\* allowlisted ones, under the pinned bundle on the device lane; runs do not
\* disturb each other, and a theme is built only from a valid manifest.
\* SandboxPreview: what is served is alive.  LocalHost: the one slot covers
\* the container's whole life, there is never a second one, the host is
\* locked only after a Podman command failed or a job's output could not be
\* decoded, and a closed host is quiet.
SandboxSafe ==
    /\ scenario = "sandbox provision" =>
         /\ Provision!TypeOK /\ Provision!VerifiedIsProved
         /\ Provision!VerifiedIsRecent
    /\ scenario = "sandbox runs" =>
         /\ Runs!TypeOK /\ Runs!AcceptedRanEverything /\ Runs!OnlyAllowlisted
    /\ scenario = "equal sandbox runs" =>
         /\ Equal!TypeOK /\ Equal!BlockedForCause
    /\ scenario = "device lane" => OnDevice!TypeOK /\ OnDevice!RanUnderPins
    /\ scenario = "sandbox builds" => Build!TypeOK /\ Build!BuiltIsValid
    /\ scenario = "sandbox preview" => Preview!TypeOK /\ Preview!ServedIsAlive
    /\ scenario = "local host" =>
         /\ Host!TypeOK /\ Host!SlotCoversContainer /\ Host!OneContainer
         /\ Host!LockedForCause /\ Host!ClosedIsQuiet
    /\ scenario = "jobs of the local host" =>
         /\ Jobs!TypeOK /\ Jobs!SlotCoversContainer /\ Jobs!OneContainer
         /\ Jobs!LockedForCause /\ Jobs!ClosedIsQuiet

\* What no step may do: write a receipt that does not account for the steps,
\* overwrite a release that was seen, report a deployment that did not serve
\* (ProductionRelease), write without admission (MergeAgent), go over a peer
\* it saw or to an incompatible host (LocalFirstRelease), pass the gate,
\* commit evidence or issue a verdict for a source that is not the current
\* one (EvidenceVerdict), vouch for or write a receipt of another tree
\* (SandboxProvision), begin work after the stop (LocalHost).
OperationSteps ==
    /\ [][scenario = "release recovered" => Recovery!AccountingReceipts]_releaseVars
    /\ Foreign!OverwritesOnlyUnseen
    /\ Foreign!DeployedWasServing
    /\ Merge!WritesAreAdmitted
    /\ LocalFirst!NeverOverSeenPeer
    /\ LocalFirst!HostCompatible
    /\ Gate!GateOkIsTrue
    /\ Gate!EvidenceCommitKeeps
    /\ Issue!VerdictIsTrue
    /\ Provision!VouchedIsCurrent
    /\ Provision!WrittenIsCurrent
    /\ Host!NothingNewAfterStop

=============================================================================
