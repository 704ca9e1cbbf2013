--------------------------- MODULE SequenceEvidence ---------------------------
(***************************************************************************)
(* What a sequence leaves in its evidence root, and how a reader proves a  *)
(* completed root unaltered: the execution directories and their seals,    *)
(* the immutable manifest, the inventory over the whole tree, the archive  *)
(* with its receipt, and the control state beside the root, which must all *)
(* tell one story (sequenceVerification.ts, packageEvidence.ts,            *)
(* reporting.ts).  All executions of a sequence are one here; a hash is    *)
(* the content it is taken over.                                           *)
(***************************************************************************)
CONSTANT None

NoRoot ==
  [plan |-> None, study |-> None, provenance |-> None, prerequisite |-> None,
   execution |-> None, manifest |-> None, inventory |-> None, archive |-> None, state |-> None]

-----------------------------------------------------------------------------
(* What a run writes *)

Control(plan, sha, edition, provenance, prerequisite) ==
  [plan |-> plan, sha |-> sha, edition |-> edition, status |-> "in-progress",
   provenance |-> provenance, prerequisite |-> prerequisite,
   execution |-> None, aggregate |-> None, archive |-> None]

\* the files of the attempt directories; valid: the ledger and bundle validators accept them
Executed(edition) == [edition |-> edition, valid |-> TRUE]

\* the control state's record of the executions: the seals over their files, the verdicts
sealExecution(execution, passed) == [seal |-> execution, passed |-> passed]

\* re-derived from the archived records
buildManifestRegistration(root) ==
  [provenance |-> root.provenance, prerequisite |-> root.prerequisite]

RecordsHashAsStated(root) ==
  root.provenance = root.state.provenance /\ root.prerequisite = root.state.prerequisite

buildSequenceManifest(root) ==
  [plan |-> root.state.plan, sha |-> root.state.sha, execution |-> root.state.execution,
   registration |-> buildManifestRegistration(root)]

\* the archived plan, study and prerequisite are files of it too, and never altered here
Tree(root) == <<root.provenance, root.execution, root.manifest>>

Inventory(root) == [files |-> Tree(root), aggregate |-> Tree(root)]

\* a zip of the tree, its inventory aside; the sidecar and the receipt name its hash
Zip(root) == [content |-> Tree(root), sha |-> Tree(root), plan |-> root.state.plan,
              aggregate |-> root.inventory.aggregate]

\* the attempts ended, then manifest, inventory, archive and receipt, then "completed"
WithExecution(root, passed) ==
  LET execution == Executed(root.state.edition) IN
  [root EXCEPT !.execution = execution, !.state.execution = sealExecution(execution, passed)]
WithManifest(root)  == [root EXCEPT !.manifest = buildSequenceManifest(root)]
WithInventory(root) == [root EXCEPT !.inventory = Inventory(root),
                                    !.state.aggregate = Inventory(root).aggregate]
WithArchive(root)   == [root EXCEPT !.archive = Zip(root), !.state.archive = Zip(root).sha]

Completed(root, passed) ==
  LET packed == WithArchive(WithInventory(WithManifest(WithExecution(root, passed))))
  IN [packed EXCEPT !.state.status = "completed"]

-----------------------------------------------------------------------------
(* What a reader requires of it *)

verifySealedExecutions(root) == root.state.execution.seal = root.execution

validateInventory(inventory) == inventory.aggregate = inventory.files

verifyTreeAgainstInventory(tree, inventory) ==
  validateInventory(inventory) /\ tree = inventory.files

\* Mutated form of reconcileManifestWithState: the verdicts of the executions are left out.
ReconciledButVerdicts(root) ==
  /\ root.manifest.plan = root.state.plan /\ root.manifest.sha = root.state.sha
  /\ root.manifest.execution.seal = root.state.execution.seal
  /\ root.manifest.registration.provenance = root.state.provenance
  /\ root.manifest.registration.prerequisite = root.state.prerequisite

\* the manifest is the authority: identity, executions and verdicts agree with it
reconcileManifestWithState(root) ==
  /\ root.manifest.plan = root.state.plan /\ root.manifest.sha = root.state.sha
  /\ root.manifest.execution = root.state.execution
  /\ root.manifest.registration.provenance = root.state.provenance
  /\ root.manifest.registration.prerequisite = root.state.prerequisite

revalidateCompletedExecutions(root) == root.execution.valid

verifyCompletedArchive(root) ==
  /\ root.archive.content = root.state.archive     \* the hash of the file as it is
  /\ root.archive.sha = root.state.archive         \* the sidecar and the receipt
  /\ root.archive.plan = root.state.plan
  /\ root.archive.aggregate = root.inventory.aggregate
  /\ verifyTreeAgainstInventory(root.archive.content, root.inventory)

verifyCompletedSequence(root) ==
  /\ verifySealedExecutions(root)
  /\ root.state.aggregate = root.inventory.aggregate
  /\ verifyTreeAgainstInventory(Tree(root), root.inventory)
  /\ reconcileManifestWithState(root)
  /\ RecordsHashAsStated(root)
  /\ buildManifestRegistration(root) = root.manifest.registration
  /\ revalidateCompletedExecutions(root)
  /\ verifyCompletedArchive(root)

-----------------------------------------------------------------------------
(* One file of a completed root, or of its control state, changed by hand *)

RecordAltered(root) == [root EXCEPT !.provenance.edited = TRUE]

EvidenceAltered(root) ==
  {[root EXCEPT !.execution.valid = FALSE],
   [root EXCEPT !.execution.edition = 0],               \* valid files, of another run
   [root EXCEPT !.state.execution.passed = ~@],
   [root EXCEPT !.state.execution.seal = root.execution],
   [root EXCEPT !.manifest.execution.passed = ~@],
   [root EXCEPT !.inventory.files = Tree(root)],        \* the entries, the aggregate kept
   [root EXCEPT !.inventory = Inventory(root)],
   [root EXCEPT !.state.aggregate = root.inventory.aggregate],
   [root EXCEPT !.archive = Zip(root)]}

Alterations(root) ==
  ((IF root.provenance = None THEN {} ELSE {RecordAltered(root)})
     \cup (IF root.state.status = "completed" THEN EvidenceAltered(root) ELSE {})) \ {root}
===============================================================================
