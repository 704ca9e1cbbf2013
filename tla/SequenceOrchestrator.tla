------------------------ MODULE SequenceOrchestrator ------------------------
(***************************************************************************)
(* The unattended sequence orchestrator: operating-system processes        *)
(* ("invocations") started one after another, or by mistake side by side,  *)
(* on one sequence.  They share files only: the control state, the writer  *)
(* lock, the evidence root with its inventory, and the versioned archives. *)
(* An invocation that resumes an inventoried root takes the recovery path, *)
(* every other one the ordinary path; both end in the same packaging       *)
(* transaction.  A step is what lies between two moments at which another  *)
(* process, a crash or a drift of the repository can be noticed.           *)
(***************************************************************************)
EXTENDS Naturals, Sequences, FiniteSets

CONSTANTS
  Invocations,      \* orchestrator processes that may run on the sequence
  Plan,             \* plan.attempts: the planned attempts, in order
  Reasons,          \* failure classes an execution can end with
  Retryable,        \* replacementPolicy.retryableFailureClasses
  MaxReplacements,  \* replacementPolicy.maxReplacementAttempts
  Evidentiary,      \* plan.evidentiary: the process-provenance gate applies
  ArchiveLimit,     \* last archive index nextArchivePath tries
  MaxCrashes,       \* how many invocations may be killed
  None

Attempts == {Plan[k] : k \in DOMAIN Plan}
Capacity == 1 + MaxReplacements
Classes  == Reasons \cup {"interrupted", "freeze-violation", "execution-seal-failed"}
Dead     == "killed process"   \* the lock's holder no longer runs

ASSUME SequenceAssumption ==
  /\ Plan \in Seq(Attempts) /\ Plan # <<>>
  /\ Retryable \subseteq Reasons \cup {"interrupted"}
  /\ MaxReplacements \in Nat /\ MaxCrashes \in Nat
  /\ ArchiveLimit \in Nat \ {0}
  /\ Evidentiary \in BOOLEAN
  /\ None \notin Invocations \cup Attempts \cup Classes
  /\ Dead \notin Invocations

VARIABLES
  control,    \* sequence-state.json, or None
  lock,       \* sequence.lock: None, its holder, or Dead
  root,       \* evidence root: is the plan archived, the last report written
  inventory,  \* sha256-inventory.json: the aggregate, and does the root match it
  archives,   \* index -> None, "committed" or "receipted"
  staged,     \* invocations whose staged .tmp archive lies beside them
  proc,       \* invocation -> where it stands in the orchestrator's code
  mem,        \* invocation -> its in-memory copy of the control state
  straggler,  \* invocations with a child whose stop was never confirmed
  drift,      \* the repository differs from the frozen identity
  full,       \* the evidence root is over its size budget
  crashes     \* invocations killed so far

evidence == <<root, inventory>>
shelf    == <<archives, staged>>
outside  == <<drift, full, crashes>>
vars     == <<control, lock, evidence, shelf, proc, mem, straggler, outside>>

-----------------------------------------------------------------------------
(* The control state and what the code derives from it *)

Slots == 1..ArchiveLimit

Execution(a) == [attempt |-> a, status |-> "in-progress", failureReason |-> None,
                 seal |-> None, disposition |-> None]

Created == [status |-> "in-progress", executions |-> <<>>, aggregate |-> None,
            archive |-> None, superseded |-> {}]

ExecutionsOf(s, a) == {k \in DOMAIN s.executions : s.executions[k].attempt = a}

CompletedExecution(s, a) ==
  \E k \in ExecutionsOf(s, a) : s.executions[k].status = "completed"

AllCompleted(s) == \A a \in Attempts : CompletedExecution(s, a)

NextAttempt(s) ==
  Plan[CHOOSE k \in DOMAIN Plan :
         /\ ~CompletedExecution(s, Plan[k])
         /\ \A j \in 1..(k - 1) : CompletedExecution(s, Plan[j])]

\* Mutated form of Exhausted: one execution more than the capacity.
ExhaustedTooLate(s, a) == Cardinality(ExecutionsOf(s, a)) > Capacity

\* the loop's own capacity check, beside the recorded dispositions
Exhausted(s, a) == Cardinality(ExecutionsOf(s, a)) >= Capacity

\* assessReplacementDisposition
Disposition(reason, used) ==
  IF reason \notin Retryable THEN "forbidden"
  ELSE IF used >= Capacity THEN "exhausted" ELSE "permitted"

\* assertResumable refuses a state with a recorded halt
Halted(s) ==
  \E k \in DOMAIN s.executions : s.executions[k].disposition \in {"forbidden", "exhausted"}

\* verifySealedExecutions
SealsVerify(s) ==
  \A k \in DOMAIN s.executions :
    s.executions[k].status # "in-progress" => s.executions[k].seal = s.executions[k].status

Ended(e, status, reason) == [e EXCEPT !.status = status, !.failureReason = reason, !.seal = status]

\* Mutated form of Interrupted: the disposition is assigned, the execution not ended.
LeftRunning(s) ==
  LET Mark(e) == IF e.status # "in-progress" THEN e
                 ELSE [e EXCEPT !.disposition =
                   Disposition("interrupted", Cardinality(ExecutionsOf(s, e.attempt)))]
  IN [s EXCEPT !.executions = [k \in DOMAIN @ |-> Mark(@[k])]]

\* markInterruptedExecutions, with the disposition its caller assigns
Interrupted(s) ==
  LET Mark(e) == IF e.status # "in-progress" THEN e
                 ELSE [Ended(e, "failed", "interrupted") EXCEPT !.disposition =
                   Disposition("interrupted", Cardinality(ExecutionsOf(s, e.attempt)))]
  IN [s EXCEPT !.executions = [k \in DOMAIN @ |-> Mark(@[k])]]

Last(s) == Len(s.executions)

WithLast(s, e) == [s EXCEPT !.executions[Last(s)] = e]

-----------------------------------------------------------------------------
(* Steps common to the whole module *)

Stopped == [pc |-> "idle", path |-> "ordinary", resume |-> FALSE,
            failed |-> FALSE, stopFailed |-> FALSE, slot |-> 0]

Goto(i, pc) == proc' = [proc EXCEPT ![i].pc = pc]

Leave(i) == proc' = [proc EXCEPT ![i] = Stopped]

Persist(i, s) == mem' = [mem EXCEPT ![i] = s] /\ control' = s

\* A write into the evidence root after its inventory was taken spoils it.
Spoiled == IF inventory = None THEN None ELSE [inventory EXCEPT !.intact = FALSE]

TouchRoot == root' = root /\ inventory' = Spoiled

\* reporting.ts: the report and the manifest are written anew each time.
WriteReport(s, complete) ==
  /\ root' = [root EXCEPT !.report =
       [turn |-> IF @ = None THEN 0 ELSE 1 - @.turn,
        complete |-> complete, executions |-> s.executions]]
  /\ inventory' = Spoiled

\* recordSequenceFailure of the ordinary path, the inner catch of recovery
FailWith(i, s) ==
  /\ Persist(i, [s EXCEPT !.status = "failed"])
  /\ Goto(i, "release")

Fail(i) == FailWith(i, mem[i])

At(i, pc) == proc[i].pc = pc
OnPath(i, path) == proc[i].path = path

-----------------------------------------------------------------------------
(* Starting: the read-only gates *)

\* Nothing keeps a second invocation from being started beside the first.
Launch(i, resume) ==
  /\ At(i, "idle")
  /\ proc' = [proc EXCEPT ![i] = [Stopped EXCEPT !.pc = "gates", !.resume = resume]]
  /\ UNCHANGED <<control, lock, evidence, shelf, mem, straggler, outside>>

Refused(i) ==
  IF control = None THEN proc[i].resume \/ root.archived
                    ELSE ~proc[i].resume \/ drift \/ Halted(control)

NoOpResume == control # None /\ control.status = "completed" /\ AllCompleted(control)

\* A refusal and the verified no-op of a completed sequence write nothing.
Refuse(i) ==
  /\ At(i, "gates")
  /\ Refused(i) \/ NoOpResume
  /\ Leave(i)
  /\ UNCHANGED <<control, lock, evidence, shelf, mem, straggler, outside>>

\* Mutated form of PackagingReady: only a root that says it is packaging counts as final.
ReadyIfPackaging == control # None /\ inventory # None /\ control.status = "packaging"

\* An inventory means the root is final: only packaging may run again.
PackagingReady == control # None /\ inventory # None

Admit(i) ==
  /\ At(i, "gates")
  /\ ~Refused(i)
  /\ ~NoOpResume
  /\ proc' = [proc EXCEPT ![i].pc = "lock",
                          ![i].path = IF PackagingReady THEN "recovery" ELSE "ordinary"]
  /\ mem' = [mem EXCEPT ![i] = IF PackagingReady THEN None ELSE control]
  /\ UNCHANGED <<control, lock, evidence, shelf, straggler, outside>>

-----------------------------------------------------------------------------
(* acquireSequenceLock, one file operation at a time *)

Entry(i) == IF OnPath(i, "recovery") THEN "recheck" ELSE "setup"

\* Only the ordinary path acquires the lock inside its catch block.
LockThrows(i) ==
  IF OnPath(i, "recovery") THEN Leave(i) ELSE Goto(i, "abandon")

CreateLock(i) ==
  /\ At(i, "lock")
  /\ IF lock = None THEN lock' = i /\ Goto(i, Entry(i))
                    ELSE UNCHANGED lock /\ Goto(i, "holder")
  /\ UNCHANGED <<control, evidence, shelf, mem, straggler, outside>>

\* Mutated form of ProbeHolder: a held lock is waited for instead of refused.
WaitForHolder(i) ==
  /\ At(i, "holder")
  /\ Goto(i, IF lock = Dead THEN "steal" ELSE "lock")
  /\ UNCHANGED <<control, lock, evidence, shelf, mem, straggler, outside>>

\* The holder is probed; a lock released meanwhile cannot be read any more.
ProbeHolder(i) ==
  /\ At(i, "holder")
  /\ IF lock = Dead THEN Goto(i, "steal") ELSE LockThrows(i)
  /\ UNCHANGED <<control, lock, evidence, shelf, mem, straggler, outside>>

RemoveStaleLock(i) ==
  /\ At(i, "steal")
  /\ lock' = None
  /\ Goto(i, "relock")
  /\ UNCHANGED <<control, evidence, shelf, mem, straggler, outside>>

RecreateLock(i) ==
  /\ At(i, "relock")
  /\ IF lock = None THEN lock' = i /\ Goto(i, Entry(i))
                    ELSE UNCHANGED lock /\ LockThrows(i)
  /\ UNCHANGED <<control, evidence, shelf, mem, straggler, outside>>

-----------------------------------------------------------------------------
(* The ordinary path up to the first execution *)

\* Archives plan, study and registration records unless they are there.
ArchivePlan(i) ==
  /\ At(i, "setup")
  /\ IF root.archived THEN UNCHANGED evidence
     ELSE root' = [root EXCEPT !.archived = TRUE] /\ inventory' = Spoiled
  /\ Goto(i, "open")
  /\ UNCHANGED <<control, lock, shelf, mem, straggler, outside>>

CreateState(i) ==
  /\ At(i, "open")
  /\ mem[i] = None
  /\ Persist(i, Created)
  /\ Goto(i, "preflight")
  /\ UNCHANGED <<lock, evidence, shelf, straggler, outside>>

\* An interrupted execution is ended, sealed and given its disposition; one
\* that may not be replaced ends the sequence here.
ResumeState(i) ==
  /\ At(i, "open")
  /\ mem[i] # None
  /\ SealsVerify(mem[i])
  /\ LET s == Interrupted(mem[i]) IN
     LET stop == \E k \in DOMAIN s.executions :
                   /\ mem[i].executions[k].status = "in-progress"
                   /\ s.executions[k].disposition # "permitted" IN
       /\ Persist(i, [s EXCEPT !.status = IF stop THEN "failed" ELSE "in-progress"])
       /\ proc' = [proc EXCEPT ![i].pc = IF stop THEN "verdict" ELSE "preflight",
                               ![i].failed = stop]
  /\ UNCHANGED <<lock, evidence, shelf, straggler, outside>>

\* Ports are probed, then Vite and Chromium started: their logs are evidence.
Preflight(i) ==
  /\ At(i, "preflight")
  /\ TouchRoot
  /\ Goto(i, "next")
  /\ UNCHANGED <<control, lock, shelf, mem, straggler, outside>>

-----------------------------------------------------------------------------
(* The attempt loop *)

LoopEnds(i, failed) ==
  proc' = [proc EXCEPT ![i].pc = "verdict", ![i].failed = failed]

\* Every planned attempt is complete, or the next one may not be executed.
LeaveLoop(i) ==
  /\ At(i, "next")
  /\ \/ AllCompleted(mem[i]) /\ LoopEnds(i, FALSE) /\ UNCHANGED control
     \/ /\ ~AllCompleted(mem[i])
        /\ Exhausted(mem[i], NextAttempt(mem[i]))
        /\ LoopEnds(i, TRUE) /\ UNCHANGED control
     \/ /\ ~AllCompleted(mem[i])
        /\ ~Exhausted(mem[i], NextAttempt(mem[i]))
        /\ full
        /\ LoopEnds(i, TRUE) /\ control' = mem[i]
  /\ UNCHANGED <<lock, evidence, shelf, mem, straggler, outside>>

\* The pre-execution checkpoint, then the execution recorded as started.
StartExecution(i) ==
  /\ At(i, "next")
  /\ ~AllCompleted(mem[i])
  /\ LET a == NextAttempt(mem[i]) IN
       /\ ~Exhausted(mem[i], a)
       /\ ~full
       /\ ~drift
       /\ Persist(i, [mem[i] EXCEPT !.executions = Append(@, Execution(a))])
  /\ Goto(i, "executing")
  /\ UNCHANGED <<lock, evidence, shelf, straggler, outside>>

\* An execution's directory is what may push the root over its size budget.
FillRoot == TouchRoot /\ full' \in {full, TRUE}

\* checkFreeze after the execution: drift invalidates what it produced.
FreezeRechecked(e) == IF drift THEN Ended(e, "failed", "freeze-violation") ELSE e

\* executeAttempt, whatever becomes of it, and the persisted terminal state.
Execute(i) ==
  /\ At(i, "executing")
  /\ LET e == mem[i].executions[Last(mem[i])] IN
     \E end \in {Ended(e, "completed", None)} \cup
                {Ended(e, "failed", r) : r \in Reasons \cup {"execution-seal-failed"}} :
       Persist(i, WithLast(mem[i], FreezeRechecked(end)))
  /\ FillRoot
  /\ Goto(i, "judge")
  /\ UNCHANGED <<lock, shelf, straggler, drift, crashes>>

\* The seal of a failed execution fails too: the error leaves executeAttempt.
SealEscapes(i) ==
  /\ At(i, "executing")
  /\ \E r \in Reasons \cup {"execution-seal-failed"} :
       mem' = [mem EXCEPT ![i] = WithLast(@,
         [Ended(@.executions[Last(@)], "failed", r) EXCEPT !.seal = None])]
  /\ FillRoot
  /\ Goto(i, "abandon")
  /\ UNCHANGED <<control, lock, shelf, straggler, drift, crashes>>

\* Over budget the loop stops before any disposition is recorded.
JudgeBudget(i) ==
  /\ At(i, "judge")
  /\ full
  /\ control' = mem[i]
  /\ LoopEnds(i, TRUE)
  /\ UNCHANGED <<lock, evidence, shelf, mem, straggler, outside>>

Judge(i) ==
  /\ At(i, "judge")
  /\ ~full
  /\ LET e == mem[i].executions[Last(mem[i])] IN
       IF e.status = "completed"
       THEN Goto(i, "next") /\ UNCHANGED <<control, mem>>
       ELSE LET d == Disposition(e.failureReason, Cardinality(ExecutionsOf(mem[i], e.attempt))) IN
              /\ Persist(i, WithLast(mem[i], [e EXCEPT !.disposition = d]))
              /\ IF d = "permitted" THEN Goto(i, "next") ELSE LoopEnds(i, TRUE)
  /\ UNCHANGED <<lock, evidence, shelf, straggler, outside>>

\* The outcome of the attempts is recorded and every child is stopped; a stop
\* that is never confirmed leaves a straggler.
Verdict(i) ==
  /\ At(i, "verdict")
  /\ Persist(i, [mem[i] EXCEPT !.status =
       IF proc[i].failed THEN "failed" ELSE "attempts-complete"])
  /\ \E unconfirmed \in BOOLEAN :
       /\ proc' = [proc EXCEPT ![i].pc = IF proc[i].failed THEN "report" ELSE "batch",
                               ![i].stopFailed = unconfirmed]
       /\ straggler' = IF unconfirmed THEN straggler \cup {i} ELSE straggler
  /\ TouchRoot
  /\ UNCHANGED <<lock, shelf, outside>>

\* A failed sequence preserves its reports and is never packaged.
ReportFailure(i) ==
  /\ At(i, "report")
  /\ WriteReport(mem[i], FALSE)
  /\ Persist(i, mem[i])
  /\ Goto(i, "release")
  /\ UNCHANGED <<lock, shelf, straggler, outside>>

-----------------------------------------------------------------------------
(* runPostSequencePipeline *)

ProvenanceComplete(i) == Evidentiary => ~proc[i].stopFailed

\* pre-batch checkpoint, batch, post-batch checkpoint, provenance gate
Batch(i) ==
  /\ At(i, "batch")
  /\ IF drift \/ ~ProvenanceComplete(i) THEN Fail(i)
     ELSE /\ Persist(i, [mem[i] EXCEPT !.status = "validating"])
          /\ Goto(i, "evaluate")
  /\ TouchRoot
  /\ UNCHANGED <<lock, shelf, straggler, outside>>

\* The evaluation and the final evidence, between two checkpoints.
Evaluate(i) ==
  /\ At(i, "evaluate")
  /\ \/ drift /\ Fail(i) /\ (WriteReport(mem[i], TRUE) \/ UNCHANGED evidence)
     \/ /\ ~drift
        /\ WriteReport(mem[i], TRUE)
        /\ Persist(i, [mem[i] EXCEPT !.status = "packaging"])
        /\ Goto(i, "package")
  /\ UNCHANGED <<lock, shelf, straggler, outside>>

-----------------------------------------------------------------------------
(* The packaging transaction, shared by both paths *)

FreeSlots == {n \in Slots : archives[n] = None}

\* Mutated form of NextArchive: the number after the next free one.
ArchiveAfterNext == Cardinality(Slots \ FreeSlots) + 2

\* archive names are versioned, the first unused one is taken
NextArchive == CHOOSE n \in FreeSlots : \A m \in FreeSlots : n <= m

Aggregate == IF inventory = None THEN root.report.turn ELSE inventory.aggregate

\* pre-package checkpoint (recovery has passed its own), the archive's path,
\* the secret scan; the aggregate is recorded before the inventory exists.
BeginPackage(i) ==
  /\ At(i, "package")
  /\ IF \/ OnPath(i, "ordinary") /\ drift
        \/ FreeSlots = {}
        \/ inventory # None /\ ~inventory.intact
     THEN Fail(i)
     ELSE /\ Persist(i, [mem[i] EXCEPT !.aggregate = Aggregate])
          /\ proc' = [proc EXCEPT ![i].slot = NextArchive,
                        ![i].pc = IF inventory = None THEN "inventory" ELSE "zip"]
  /\ UNCHANGED <<lock, evidence, shelf, straggler, outside>>

WriteInventory(i) ==
  /\ At(i, "inventory")
  /\ inventory' = [aggregate |-> mem[i].aggregate, intact |-> root.report.turn = mem[i].aggregate]
  /\ Goto(i, "zip")
  /\ UNCHANGED <<control, lock, root, shelf, mem, straggler, outside>>

\* Zip, size and extraction check of a staged sibling archive.
Stage(i) ==
  /\ At(i, "zip")
  /\ IF inventory.intact
     THEN staged' = staged \cup {i} /\ Goto(i, "commit") /\ UNCHANGED <<control, mem>>
     ELSE Fail(i) /\ UNCHANGED staged
  /\ UNCHANGED <<lock, evidence, archives, straggler, outside>>

CommitArchive(i) ==
  /\ At(i, "commit")
  /\ staged' = staged \ {i}
  /\ IF i \in staged
     THEN /\ archives' = [archives EXCEPT ![proc[i].slot] = "committed"]
          /\ Goto(i, "receipt") /\ UNCHANGED <<control, mem>>
     ELSE Fail(i) /\ UNCHANGED archives
  /\ UNCHANGED <<lock, evidence, straggler, outside>>

\* Mutated form of WriteReceipt: the receipt is not written.
ReceiptForgotten(i) ==
  /\ At(i, "receipt")
  /\ IF drift THEN Fail(i) ELSE Persist(i, mem[i]) /\ Goto(i, "complete")
  /\ UNCHANGED <<lock, evidence, shelf, straggler, outside>>

\* post-package checkpoint, sidecar, and the receipt last
WriteReceipt(i) ==
  /\ At(i, "receipt")
  /\ IF drift THEN Fail(i) /\ UNCHANGED archives
     ELSE /\ archives' = [archives EXCEPT ![proc[i].slot] = "receipted"]
          /\ Persist(i, mem[i])
          /\ Goto(i, "complete")
  /\ UNCHANGED <<lock, evidence, staged, straggler, outside>>

Packaged(i) == [mem[i] EXCEPT !.status = "completed", !.archive = proc[i].slot]

MarkCompleted(i) ==
  /\ At(i, "complete")
  /\ Persist(i, Packaged(i))
  /\ Goto(i, "release")
  /\ UNCHANGED <<lock, evidence, shelf, straggler, outside>>

-----------------------------------------------------------------------------
(* resumePackagingReady: everything is read again under the lock *)

\* What is packaged must be complete, sealed, reconciled and authenticated.
Recoverable(s) ==
  /\ s.status \in {"packaging", "failed"}
  /\ AllCompleted(s)
  /\ SealsVerify(s)
  /\ s.aggregate = inventory.aggregate
  /\ inventory.intact
  /\ root.report.complete
  /\ root.report.executions = s.executions

Recheck(i) ==
  /\ At(i, "recheck")
  /\ IF \/ control = None \/ inventory = None
        \/ Halted(control) \/ NoOpResume \/ ~Recoverable(control)
     THEN Goto(i, "release") /\ UNCHANGED mem
     ELSE Goto(i, "supersede") /\ mem' = [mem EXCEPT ![i] = control]
  /\ UNCHANGED <<control, lock, evidence, shelf, straggler, outside>>

Unreceipted == {n \in Slots : archives[n] = "committed"}

\* Leftovers of earlier transactions: staged files go, unreceipted archives
\* stay and are recorded; then the recovery's own freeze checkpoint.
Supersede(i) ==
  /\ At(i, "supersede")
  /\ staged' = {}
  /\ LET s == [mem[i] EXCEPT !.superseded = @ \cup Unreceipted] IN
       IF drift THEN FailWith(i, s)
       ELSE Persist(i, [s EXCEPT !.status = "packaging"]) /\ Goto(i, "package")
  /\ UNCHANGED <<lock, evidence, archives, straggler, outside>>

-----------------------------------------------------------------------------
(* Errors, the way out, and what happens around the invocations *)

\* Outside the stages a thrown error ends in the catch block.
Throws(i) ==
  /\ proc[i].pc \in {"setup", "open", "preflight", "next", "judge", "verdict", "report"}
  /\ Goto(i, "abandon")
  /\ UNCHANGED <<control, lock, evidence, shelf, mem, straggler, outside>>

\* A failing stage of the pipeline or of packaging: its failure is recorded,
\* its staged file removed.
StageFails(i) ==
  /\ proc[i].pc \in {"batch", "evaluate", "package", "inventory", "zip", "commit",
                     "receipt", "complete", "supersede"}
  /\ FailWith(i, IF At(i, "complete") THEN Packaged(i) ELSE mem[i])
  /\ staged' = staged \ {i}
  /\ UNCHANGED <<lock, evidence, archives, straggler, outside>>

\* The catch block writes the state this invocation holds in memory.
Abandon(i) ==
  /\ At(i, "abandon")
  /\ IF mem[i] # None /\ control # None
     THEN Persist(i, [mem[i] EXCEPT !.status = "failed"])
     ELSE UNCHANGED <<control, mem>>
  /\ Goto(i, "release")
  /\ UNCHANGED <<lock, evidence, shelf, straggler, outside>>

\* finally: stopAll once more, which logs what it finds, and the lock's release
Release(i) ==
  /\ At(i, "release")
  /\ lock' = IF lock = i THEN None ELSE lock
  /\ Leave(i)
  /\ mem' = [mem EXCEPT ![i] = None]
  /\ IF i \in straggler THEN TouchRoot ELSE UNCHANGED evidence
  /\ straggler' = straggler \ {i}
  /\ UNCHANGED <<control, shelf, outside>>

Run(i) ==
  \/ Refuse(i) \/ Admit(i)
  \/ CreateLock(i) \/ ProbeHolder(i) \/ RemoveStaleLock(i) \/ RecreateLock(i)
  \/ ArchivePlan(i) \/ CreateState(i) \/ ResumeState(i) \/ Preflight(i)
  \/ LeaveLoop(i) \/ StartExecution(i) \/ Execute(i) \/ SealEscapes(i)
  \/ JudgeBudget(i) \/ Judge(i) \/ Verdict(i) \/ ReportFailure(i)
  \/ Batch(i) \/ Evaluate(i)
  \/ BeginPackage(i) \/ WriteInventory(i) \/ Stage(i) \/ CommitArchive(i)
  \/ WriteReceipt(i) \/ MarkCompleted(i)
  \/ Recheck(i) \/ Supersede(i)
  \/ Throws(i) \/ StageFails(i) \/ Abandon(i) \/ Release(i)

\* The process is killed: its memory is gone, its files stay as they are.
Crash(i) ==
  /\ ~At(i, "idle")
  /\ crashes < MaxCrashes
  /\ crashes' = crashes + 1
  /\ lock' = IF lock = i THEN Dead ELSE lock
  /\ Leave(i)
  /\ mem' = [mem EXCEPT ![i] = None]
  /\ straggler' = straggler \ {i}
  /\ UNCHANGED <<control, evidence, shelf, drift, full>>

\* A child that would not stop ends after all: its exit is appended to the
\* process log inside the evidence root.
LateExit(i) ==
  /\ i \in straggler
  /\ straggler' = straggler \ {i}
  /\ TouchRoot
  /\ UNCHANGED <<control, lock, shelf, proc, mem, outside>>

\* Somebody changes the repository, and restores it while nothing runs.
Drifts ==
  /\ control # None
  /\ ~drift \/ \A i \in Invocations : At(i, "idle")
  /\ drift' = ~drift
  /\ UNCHANGED <<control, lock, evidence, shelf, proc, mem, straggler, full, crashes>>

Around ==
  \/ \E i \in Invocations :
       \/ \E resume \in BOOLEAN : Launch(i, resume)
       \/ Crash(i) \/ LateExit(i)
  \/ Drifts

Init ==
  /\ control = None /\ lock = None /\ inventory = None
  /\ root = [archived |-> FALSE, report |-> None]
  /\ archives = [n \in Slots |-> None] /\ staged = {}
  /\ proc = [i \in Invocations |-> Stopped]
  /\ mem = [i \in Invocations |-> None]
  /\ straggler = {} /\ drift = FALSE /\ full = FALSE /\ crashes = 0

Next == Around \/ \E i \in Invocations : Run(i)

Fairness == \A i \in Invocations : WF_vars(Run(i))

Spec == Init /\ [][Next]_vars /\ Fairness

-----------------------------------------------------------------------------
(* The operator's discipline                                               *)
(*                                                                         *)
(* The code reads the control state before it takes the lock, and takes a  *)
(* dead lock over in two file operations: one writer is more than it gives *)
(* to invocations started side by side (OneWriter and WritesUnderLock fail *)
(* of Spec).  What rests on one writer is therefore claimed of SerialSpec, *)
(* where whoever starts an invocation sees to it that no other one runs,   *)
(* unless the root is inventoried, when the lock is taken before anything  *)
(* is read, and its lock is not a dead one's.                              *)

Alone(i) == \A j \in Invocations \ {i} : At(j, "idle")

Serially(i) == Alone(i) \/ (inventory # None /\ lock # Dead)

SerialAround ==
  \/ \E i \in Invocations :
       \/ Serially(i) /\ \E resume \in BOOLEAN : Launch(i, resume)
       \/ Crash(i) \/ LateExit(i)
  \/ Drifts

SerialNext == SerialAround \/ \E i \in Invocations : Run(i)

SerialSpec == Init /\ [][SerialNext]_vars /\ Fairness

-----------------------------------------------------------------------------
(* Properties *)

Executions == [attempt : Attempts, status : {"in-progress", "completed", "failed"},
               failureReason : Classes \cup {None}, seal : {None, "completed", "failed"},
               disposition : {None, "permitted", "forbidden", "exhausted"}]

States == [status : {"in-progress", "attempts-complete", "validating", "packaging",
                     "completed", "failed"},
           executions : Seq(Executions), aggregate : {None} \cup 0..1,
           archive : {None} \cup Slots, superseded : SUBSET Slots]

Stations == {"idle", "gates", "lock", "holder", "steal", "relock", "setup", "open",
             "preflight", "next", "executing", "judge", "verdict", "report", "batch",
             "evaluate", "package", "inventory", "zip", "commit", "receipt", "complete",
             "recheck", "supersede", "abandon", "release"}

Reports == [turn : 0..1, complete : BOOLEAN, executions : Seq(Executions)]

Inventories == [aggregate : 0..1, intact : BOOLEAN]

Processes == [pc : Stations, path : {"ordinary", "recovery"}, resume : BOOLEAN,
              failed : BOOLEAN, stopFailed : BOOLEAN, slot : Slots \cup {0}]

\* None stands for what is not there, and is none of the things that may be.
ASSUME NoneAssumption ==
  /\ None \notin States /\ None \notin Reports /\ None \notin Inventories
  /\ None \notin Nat
  /\ None \notin {Dead, "committed", "receipted", "completed", "failed", "permitted",
                  "forbidden", "exhausted"}

\* Every variable is well typed; an archive index is one nextArchivePath may return.
TypeOK ==
  /\ control \in States \cup {None}
  /\ lock \in Invocations \cup {None, Dead}
  /\ root \in [archived : BOOLEAN, report : {None} \cup Reports]
  /\ inventory \in {None} \cup Inventories
  /\ archives \in [Slots -> {None, "committed", "receipted"}]
  /\ staged \subseteq Invocations /\ straggler \subseteq Invocations
  /\ proc \in [Invocations -> Processes]
  /\ mem \in [Invocations -> States \cup {None}]
  /\ drift \in BOOLEAN /\ full \in BOOLEAN /\ crashes \in 0..MaxCrashes

Completed == control # None /\ control.status = "completed"

\* `completed` in the control state means the whole of it: every attempt has
\* a completed execution, the root still equals its recorded inventory, the
\* manifest tells the same executions, and the recorded archive is receipted.  Its
\* packaging history is accounted for: no staged file is left, and exactly the archives
\* without receipt are recorded as superseded (orchestrate.ts markCompleted).
CompletedIsWhole ==
  Completed => /\ AllCompleted(control)
               /\ inventory # None /\ inventory.intact
               /\ control.aggregate = inventory.aggregate
               /\ root.report.complete /\ root.report.executions = control.executions
               /\ control.archive # None /\ archives[control.archive] = "receipted"
               /\ staged = {}
               /\ control.superseded = {n \in Slots : archives[n] = "committed"}

\* Nothing inventoried changes any more: neither the root nor its inventory,
\* whatever is resumed, killed or late.
RootIsFinal == [][inventory # None => UNCHANGED evidence]_vars

\* However crashes and resumes interleave, an attempt never receives more
\* executions than registered, and none after one that completed.
CapacityHeld ==
  control # None =>
    \A a \in Attempts :
      /\ Cardinality(ExecutionsOf(control, a)) <= Capacity
      /\ \A k, n \in ExecutionsOf(control, a) :
           k < n => control.executions[k].status # "completed"

\* Once a forbidden or exhausted disposition is recorded nothing is executed,
\* inventoried or archived for the sequence again.
HaltedStaysHalted ==
  [][control # None /\ Halted(control) =>
       /\ Len(control'.executions) = Len(control.executions)
       /\ UNCHANGED <<inventory, archives>>]_vars

CompletedIn(s) == IF s = None THEN {} ELSE
  {k \in DOMAIN s.executions : s.executions[k].status = "completed"}

\* While the repository differs from the frozen identity no execution is
\* recorded as completed and no archive receives its receipt.
DriftStopsEvidence ==
  [][drift => /\ CompletedIn(control') \subseteq CompletedIn(control)
              /\ \A n \in Slots : archives'[n] = "receipted" => archives[n] = "receipted"]_vars

\* "Exclusive single-writer lock": only its holder changes the control state.  An
\* invocation refused the lock writes the copy it read before, marked failed, over the
\* state of the one at work (orchestrate.ts 328, 1404, 1995).
WritesUnderLock ==
  [][control' # control => \E i \in Invocations : lock = i /\ proc'[i] # proc[i]]_vars

Writing(i) ==
  proc[i].pc \notin {"idle", "gates", "lock", "holder", "steal", "relock", "abandon", "release"}

\* "A sequence has exactly one writer": never two invocations past the lock.  Of two that
\* find the same dead lock the second removes the first one's (orchestrate.ts 348, 351).
OneWriter == \A i, j \in Invocations : Writing(i) /\ Writing(j) => i = j

\* Evidence ends when it must: at the inventory, at a disposition that permits no more,
\* and at a repository that differs from the frozen one (orchestrate.ts assertResumable,
\* checkFreeze; packageEvidence.ts).
EvidenceIsFinal == RootIsFinal /\ HaltedStaysHalted /\ DriftStopsEvidence

\* "A non-retryable failure can never be revived by a process restart": no execution
\* follows one that failed for a reason that may not be retried.  The failure is persisted
\* before the disposition the resume looks for (orchestrate.ts 123, 1777, 1797).
ForbiddenNeverRevived ==
  [][(control # None /\ \E k \in DOMAIN control.executions :
         /\ control.executions[k].status = "failed"
         /\ control.executions[k].failureReason \notin Retryable)
       => Len(control'.executions) = Len(control.executions)]_vars

\* Every invocation comes to its end and, not killed, leaves no lock behind.
EveryInvocationEnds ==
  \A i \in Invocations : ~At(i, "idle") ~> At(i, "idle") /\ lock # i

Fate(e) == [attempt |-> e.attempt,
            fate |-> IF e.status = "in-progress" THEN "running" ELSE e.status]

History == INSTANCE AttemptHistory WITH
  history <- IF control = None THEN <<>>
             ELSE [k \in DOMAIN control.executions |-> Fate(control.executions[k])],
  closed  <- inventory # None

\* The control state tells an append-only attempt history, closed by the inventory.
KeepsHistory == History!Spec
=============================================================================
