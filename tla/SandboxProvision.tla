-------------------------- MODULE SandboxProvision --------------------------
(***************************************************************************)
(* The provision proof: sandbox-live-proof.ts packages the authored source *)
(* (sandbox-source-package.ts) and asks the Worker to prove it             *)
(* (provision.ts).  The Worker extracts the package in a fresh container   *)
(* (provision-harness.ts), runs the two proof lanes there, inspects it,    *)
(* destroys it and answers a receipt body.  An external attestor signs it, *)
(* and sandbox-provision-receipt.ts verifies the signed receipt against    *)
(* the source of the workspace, which people keep editing all the while.   *)
(***************************************************************************)
EXTENDS Naturals, Sequences, FiniteSets

CONSTANTS
    Files, Versions,          \* the authored files and the bytes they may have
    Proofs,                   \* runs of the live proof
    SANDBOX_PROOF_COMMANDS,   \* the lanes, in order
    Attestors, Trusted,       \* who may sign, and whom the anchor trusts
    WallClock, Grace,         \* SANDBOX_PROOF_BOUNDS
    Validity,                 \* maximumReceiptValidityMs, and what is asked for
    MaxClock, MaxEdits, MaxFaults,  \* bounds
    None                      \* null

ProvisionAssumption ==
    /\ Trusted \subseteq Attestors
    /\ WallClock \in Nat /\ Grace \in Nat /\ Validity \in Nat \ {0}
    /\ MaxClock \in Nat /\ MaxEdits \in Nat /\ MaxFaults \in Nat
    /\ SANDBOX_PROOF_COMMANDS \in Seq(STRING) /\ SANDBOX_PROOF_COMMANDS # <<>>

VARIABLES
    tree,      \* the workspace: Files -> Versions
    now,       \* the clock
    proof,     \* Proofs -> the state of that live proof
    boxes,     \* Proofs -> "none", "up", "gone": the container of the proof
    ranIn,     \* Proofs -> the lanes that ran to success there, and on what
    signed,    \* the signed receipts that exist
    check,     \* the verifier: what it saw at the start and what it found
    edits, faults

vars == <<tree, now, proof, boxes, ranIn, signed, check, edits, faults>>

Trees == [Files -> Versions]

Fresh == [pc |-> "idle", source |-> None, entries |-> <<>>, lanes |-> <<>>,
          begun |-> 0, provisioned |-> 0, asked |-> 0, gone |-> 0, issued |-> 0]

NoCheck == [pc |-> "idle", source |-> None, receipt |-> None, ok |-> FALSE, at |-> 0]

Init ==
    /\ tree \in Trees /\ now = 1
    /\ proof = [p \in Proofs |-> Fresh]
    /\ boxes = [p \in Proofs |-> "none"]
    /\ ranIn = [p \in Proofs |-> <<>>]
    /\ signed = {} /\ check = NoCheck
    /\ edits = 0 /\ faults = 0

goto(p, label) == proof' = [proof EXCEPT ![p].pc = label]

unchangedOthers == UNCHANGED <<tree, now, signed, check, edits>>

Fault == faults < MaxFaults /\ faults' = faults + 1

-----------------------------------------------------------------------------
(* Packaging: buildSandboxSourcePackage *)

\* The fingerprint of the source, taken before the files are read.
BeginPackage(p) ==
    /\ proof[p].pc = "idle"
    /\ proof' = [proof EXCEPT ![p].pc = "reading", ![p].source = tree]
    /\ unchangedOthers /\ UNCHANGED <<boxes, ranIn, faults>>

\* readStableFile: one file after the other.
readStableFile(p) ==
    /\ proof[p].pc = "reading"
    /\ \E f \in Files \ DOMAIN proof[p].entries :
         proof' = [proof EXCEPT ![p].entries =
                     [g \in DOMAIN @ \cup {f} |-> IF g = f THEN tree[f] ELSE @[g]]]
    /\ unchangedOthers /\ UNCHANGED <<boxes, ranIn, faults>>

\* parseSandboxSourcePackage: the entries hash to the fingerprint's tree.
parseSandboxSourcePackage(entries, source) == entries = source

sameAuthoredSource(a, b) == a = b

\* The package is verified against itself and the source fingerprinted again.
EndPackage(p) ==
    /\ proof[p].pc = "reading" /\ DOMAIN proof[p].entries = Files
    /\ goto(p, IF /\ parseSandboxSourcePackage(proof[p].entries, proof[p].source)
                  /\ sameAuthoredSource(proof[p].source, tree)
               THEN "request" ELSE "failed")
    /\ unchangedOthers /\ UNCHANGED <<boxes, ranIn, faults>>

-----------------------------------------------------------------------------
(* The Worker: handleSandboxProofRequest *)

\* The request parses, a fresh identity is made and the container created.
\* extract writes the entries it has verified again and reports the digests.
validSandboxProofBearer(p) == proof[p].pc = "request"

Extract(p) ==
    /\ validSandboxProofBearer(p)
    /\ boxes' = [boxes EXCEPT ![p] = "up"]
    /\ proof' = [proof EXCEPT ![p].provisioned = now,
                   ![p].pc = IF parseSandboxSourcePackage(proof[p].entries, proof[p].source)
                             THEN "install" ELSE "destroyFailed"]
    /\ unchangedOthers /\ UNCHANGED <<ranIn, faults>>

Install(p) ==
    /\ proof[p].pc = "install" /\ goto(p, "lane")
    /\ unchangedOthers /\ UNCHANGED <<boxes, ranIn, faults>>

Lane(p) == Len(proof[p].lanes) + 1

\* runProofLanes: one lane starts ...
LaneStarts(p) ==
    /\ proof[p].pc = "lane" /\ Lane(p) <= Len(SANDBOX_PROOF_COMMANDS)
    /\ proof' = [proof EXCEPT ![p].pc = "laneRuns", ![p].begun = now]
    /\ unchangedOthers /\ UNCHANGED <<boxes, ranIn, faults>>

\* ... and succeeds, which counts only within the wall-clock bound.
withinWallClock(began) == now - began <= WallClock

LaneSucceeds(p) ==
    /\ proof[p].pc = "laneRuns"
    /\ LET task == SANDBOX_PROOF_COMMANDS[Lane(p)] IN
       IF withinWallClock(proof[p].begun)
       THEN /\ proof' = [proof EXCEPT ![p].pc = "lane",
                  ![p].lanes = Append(@, [task |-> task, box |-> p, started |-> proof[p].begun,
                                          completed |-> now])]
            /\ ranIn' = [ranIn EXCEPT ![p] = Append(@, [task |-> task, source |-> proof[p].entries])]
       ELSE goto(p, "destroyFailed") /\ UNCHANGED ranIn
    /\ unchangedOthers /\ UNCHANGED <<boxes, faults>>

\* A command of the proof fails or throws; what was gained is dropped.
CommandFails(p) ==
    /\ proof[p].pc \in {"install", "laneRuns", "inspect"}
    /\ Fault /\ goto(p, "destroyFailed")
    /\ unchangedOthers /\ UNCHANGED <<boxes, ranIn>>

\* inspect and parseInspection: node, Playwright and Chromium are the pinned.
Inspect(p) ==
    /\ proof[p].pc = "lane" /\ Lane(p) > Len(SANDBOX_PROOF_COMMANDS)
    /\ goto(p, "inspect")
    /\ unchangedOthers /\ UNCHANGED <<boxes, ranIn, faults>>

X_AskDestroy(p) ==
    /\ proof[p].pc = "inspect"
    /\ proof' = [proof EXCEPT ![p].asked = now, ![p].pc = "destroyGood"]
    /\ unchangedOthers /\ UNCHANGED <<boxes, ranIn, faults>>

\* The finally block asks for the destroy, whatever came before.
AskDestroy(p) ==
    /\ proof[p].pc \in {"inspect", "destroyFailed"}
    /\ proof' = [proof EXCEPT ![p].asked = now,
                   ![p].pc = IF proof[p].pc = "inspect" THEN "destroyGood" ELSE "destroyBad"]
    /\ unchangedOthers /\ UNCHANGED <<boxes, ranIn, faults>>

\* withTimeout: a destroy that is late is a failure like one that throws.
withTimeout(asked) == now - asked <= Grace

\* The destroy completes; with everything proved the receipt body is issued
\* (buildReceiptBody), else the Worker answers the failure.
DestroyCompletes(p) ==
    /\ proof[p].pc \in {"destroyGood", "destroyBad"}
    /\ boxes' = [boxes EXCEPT ![p] = "gone"]
    /\ proof' = [proof EXCEPT ![p].gone = now, ![p].issued = now,
                   ![p].pc = IF proof[p].pc = "destroyGood" /\ withTimeout(proof[p].asked)
                             THEN "answered" ELSE "failed"]
    /\ unchangedOthers /\ UNCHANGED <<ranIn, faults>>

X_DestroyFails(p) ==
    /\ proof[p].pc \in {"destroyGood", "destroyBad"}
    /\ Fault /\ goto(p, IF proof[p].pc = "destroyGood" THEN "answered" ELSE "failed")
    /\ unchangedOthers /\ UNCHANGED <<boxes, ranIn>>

DestroyFails(p) ==
    /\ proof[p].pc \in {"destroyGood", "destroyBad"}
    /\ Fault /\ goto(p, "failed")
    /\ unchangedOthers /\ UNCHANGED <<boxes, ranIn>>

-----------------------------------------------------------------------------
(* The receipt *)

buildReceiptBody(p) ==
    [source |-> proof[p].source, box |-> p, provisioned |-> proof[p].provisioned,
     lanes |-> proof[p].lanes, termination |-> [box |-> p, asked |-> proof[p].asked, gone |-> proof[p].gone],
     issued |-> proof[p].issued, expires |-> proof[p].issued + Validity]

parseLanes(b) == Len(b.lanes) = Len(SANDBOX_PROOF_COMMANDS)

validReceiptTimeline(b) ==
    /\ \A i \in 1..Len(b.lanes) : /\ b.lanes[i].started >= b.provisioned
                                  /\ b.lanes[i].completed - b.lanes[i].started <= WallClock
                                  /\ b.termination.asked >= b.lanes[i].completed
    /\ b.termination.gone <= b.issued

parseSandboxProvisionReceipt(b) == parseLanes(b) /\ validReceiptTimeline(b)

lanesMatchExpected(b) ==
    \A i \in 1..Len(b.lanes) : b.lanes[i].task = SANDBOX_PROOF_COMMANDS[i]

oneInstance(b) ==
    /\ \A i \in 1..Len(b.lanes) : b.lanes[i].box = b.box
    /\ b.termination.box = b.box

terminatedWithinBound(b) == b.termination.gone - b.termination.asked <= Grace

\* The live proof validates the answer ...
validateUnsignedProofResponse(p) ==
    LET b == buildReceiptBody(p) IN
    parseSandboxProvisionReceipt(b) /\ lanesMatchExpected(b) /\ b.source = proof[p].source

\* ... and packages the source again: it must still be what was proved.
X_Recheck(p) ==
    /\ proof[p].pc = "answered"
    /\ goto(p, "written")
    /\ unchangedOthers /\ UNCHANGED <<boxes, ranIn, faults>>

Recheck(p) ==
    /\ proof[p].pc = "answered"
    /\ goto(p, IF validateUnsignedProofResponse(p) /\ sameAuthoredSource(proof[p].source, tree)
               THEN "written" ELSE "failed")
    /\ unchangedOthers /\ UNCHANGED <<boxes, ranIn, faults>>

\* An attestor signs the receipt body that was written.
Sign(p, a) ==
    /\ proof[p].pc = "written"
    /\ signed' = signed \cup {[body |-> buildReceiptBody(p), by |-> a]}
    /\ UNCHANGED <<tree, now, proof, boxes, ranIn, check, edits, faults>>

-----------------------------------------------------------------------------
(* The verifier: verifySandboxProvisionReceiptFiles *)

verifyReceiptSignature(r) == r.by \in Trusted

X_receiptIsCurrent(b) == b.expires - b.issued <= Validity

receiptIsCurrent(b) ==
    b.issued <= now /\ now <= b.expires /\ b.expires - b.issued <= Validity

X_verifySandboxProvisionReceipt(r, source) ==
    LET b == r.body IN
    /\ parseSandboxProvisionReceipt(b)
    /\ lanesMatchExpected(b) /\ oneInstance(b) /\ terminatedWithinBound(b)
    /\ receiptIsCurrent(b) /\ verifyReceiptSignature(r)

verifySandboxProvisionReceipt(r, source) ==
    LET b == r.body IN
    /\ parseSandboxProvisionReceipt(b)
    /\ sameAuthoredSource(b.source, source)
    /\ lanesMatchExpected(b) /\ oneInstance(b) /\ terminatedWithinBound(b)
    /\ receiptIsCurrent(b) /\ verifyReceiptSignature(r)

\* The source is fingerprinted, then the receipt read and judged ...
VerifyBegins ==
    /\ check.pc \in {"idle", "done"}
    /\ check' = [NoCheck EXCEPT !.pc = "judging", !.source = tree]
    /\ UNCHANGED <<tree, now, proof, boxes, ranIn, signed, edits, faults>>

VerifyJudges ==
    /\ check.pc = "judging"
    /\ \E r \in signed :
         check' = [check EXCEPT !.pc = "ending", !.receipt = r, !.at = now,
                                !.ok = verifySandboxProvisionReceipt(r, check.source)]
    /\ UNCHANGED <<tree, now, proof, boxes, ranIn, signed, edits, faults>>

\* readExternalJson finds no receipt: the verification fails.
VerifyFindsNone ==
    /\ check.pc = "judging"
    /\ check' = [check EXCEPT !.pc = "done", !.ok = FALSE]
    /\ UNCHANGED <<tree, now, proof, boxes, ranIn, signed, edits, faults>>

\* ... and fingerprinted again: it must not have changed meanwhile.
X_VerifyEnds ==
    /\ check.pc = "ending"
    /\ check' = [check EXCEPT !.pc = "done"]
    /\ UNCHANGED <<tree, now, proof, boxes, ranIn, signed, edits, faults>>

VerifyEnds ==
    /\ check.pc = "ending"
    /\ check' = [check EXCEPT !.pc = "done",
                   !.ok = @ /\ sameAuthoredSource(check.source, tree)]
    /\ UNCHANGED <<tree, now, proof, boxes, ranIn, signed, edits, faults>>

-----------------------------------------------------------------------------
Edit ==
    /\ edits < MaxEdits /\ edits' = edits + 1
    /\ \E f \in Files, v \in Versions : v # tree[f] /\ tree' = [tree EXCEPT ![f] = v]
    /\ UNCHANGED <<now, proof, boxes, ranIn, signed, check, faults>>

Tick ==
    /\ now < MaxClock /\ now' = now + 1
    /\ UNCHANGED <<tree, proof, boxes, ranIn, signed, check, edits, faults>>

\* A container the destroy did not reach stops by itself (sleepAfter '1m').
ContainerSleeps(p) ==
    /\ proof[p].pc = "failed" /\ boxes[p] = "up"
    /\ boxes' = [boxes EXCEPT ![p] = "gone"]
    /\ UNCHANGED <<tree, now, proof, ranIn, signed, check, edits, faults>>

Work(p) ==
    \/ BeginPackage(p) \/ readStableFile(p) \/ EndPackage(p)
    \/ Extract(p) \/ Install(p) \/ LaneStarts(p) \/ LaneSucceeds(p) \/ Inspect(p)
    \/ AskDestroy(p) \/ DestroyCompletes(p) \/ Recheck(p) \/ ContainerSleeps(p)

Next ==
    \/ \E p \in Proofs : Work(p) \/ CommandFails(p) \/ DestroyFails(p)
                         \/ \E a \in Attestors : Sign(p, a)
    \/ VerifyBegins \/ VerifyJudges \/ VerifyFindsNone \/ VerifyEnds
    \/ Edit \/ Tick

Spec == Init /\ [][Next]_vars

\* Every call of the proof has a timeout, so each step is taken in the end.
FairSpec == Spec /\ \A p \in Proofs : WF_vars(Work(p))

-----------------------------------------------------------------------------
TypeOK ==
    /\ tree \in Trees /\ now \in 1..MaxClock
    /\ boxes \in [Proofs -> {"none", "up", "gone"}]
    /\ \A p \in Proofs : /\ Len(proof[p].lanes) <= Len(SANDBOX_PROOF_COMMANDS)
                         /\ proof[p].pc \in {"answered", "written"} => boxes[p] = "gone"
    /\ \A r \in signed : r.by \in Attestors
    /\ edits \in 0..MaxEdits /\ faults \in 0..MaxFaults

\* A verification that passes speaks of the truth: both lanes really ran to
\* success, in order, in one container that is gone, on exactly the source
\* the workspace held when the verification began, although that source may
\* change while it is packaged, proved, signed and verified.
VerifiedIsProved ==
    check.pc = "done" /\ check.ok =>
        LET p == check.receipt.body.box IN
        /\ boxes[p] = "gone" /\ check.receipt.by \in Trusted
        /\ ranIn[p] = [i \in 1..Len(SANDBOX_PROOF_COMMANDS) |->
                          [task |-> SANDBOX_PROOF_COMMANDS[i], source |-> check.source]]

\* Its lanes and its destroy kept their bounds and it was issued no longer
\* ago than the anchor allows.
VerifiedIsRecent ==
    check.pc = "done" /\ check.ok =>
        LET b == check.receipt.body IN
        /\ check.at - b.issued <= Validity
        /\ b.termination.gone - b.termination.asked <= Grace
        /\ \A i \in 1..Len(b.lanes) : b.lanes[i].completed - b.lanes[i].started <= WallClock

\* A verification passes only if no edit separated its two fingerprints for
\* good: what it vouches for is what the workspace holds as it ends.
VouchedIsCurrent ==
    [][check.pc = "ending" /\ check'.pc = "done" /\ check'.ok => tree = check'.source]_vars

\* A receipt is written only for the source the workspace still holds.
WrittenIsCurrent ==
    [][\A p \in Proofs : proof[p].pc # "written" /\ proof'[p].pc = "written"
                         => ranIn[p] # <<>> /\ tree = ranIn[p][1].source]_vars

\* Every proof that is begun ends, written or failed, its container gone.
ProofEnds ==
    \A p \in Proofs : <>(proof[p].pc \in {"written", "failed"} /\ boxes[p] # "up")

=============================================================================
