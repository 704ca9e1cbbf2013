--------------------- MODULE SequenceOrchestratorProofs ---------------------
(***************************************************************************)
(* TLAPS proofs about SequenceOrchestrator, for any plan, any retry policy *)
(* and any number of archive names.                                        *)
(*                                                                         *)
(* Types and the capacity of an attempt hold however many invocations run  *)
(* side by side.  Whatever rests on one writer is proved of SerialSpec     *)
(* where no more than two processes can meet a killed one's lock: that a   *)
(* sequence has one writer is not true of the code by itself.              *)
(***************************************************************************)
EXTENDS SequenceOrchestrator, TLAPS, FiniteSetTheorems, SequenceTheorems,
        WellFoundedInduction

-----------------------------------------------------------------------------
(* The inductive invariants                                                *)

\* Where an invocation holds a control state in its memory.
Carrying == {"preflight", "next", "executing", "judge", "verdict", "report", "batch",
             "evaluate", "package", "inventory", "zip", "commit", "receipt", "complete",
             "supersede"}

\* What the code has read or written by the time it gets to a station.
Equipped(i) ==
  /\ proc[i].pc \in Carrying => mem[i] \in States
  /\ proc[i].pc \in {"executing", "judge"} => mem[i].executions # <<>>
  /\ proc[i].pc \in {"package", "inventory"} => root.report # None \/ inventory # None
  /\ proc[i].pc = "inventory" => mem[i].aggregate \in 0..1
  /\ proc[i].pc \in {"zip", "supersede"} => inventory # None
  /\ proc[i].pc \in {"inventory", "zip", "commit", "receipt", "complete"} => proc[i].slot \in Slots

TypeInv == TypeOK /\ \A i \in Invocations : Equipped(i)

\* No attempt has more executions than registered in s, and none after a completed one.
Within(s) ==
  s # None =>
    \A a \in Attempts :
      /\ Cardinality(ExecutionsOf(s, a)) <= Capacity
      /\ \A k, n \in ExecutionsOf(s, a) : k < n => s.executions[k].status # "completed"

CapacityInv == Within(control) /\ \A i \in Invocations : Within(mem[i])

-----------------------------------------------------------------------------
(* Serial sequences                                                        *)

\* No more than two processes are ever there to meet a dead lock.
Paired == MaxCrashes = 0 \/ \E a, b \in Invocations : Invocations = {a, b}

LEMMA SerialNextIsNext == [SerialNext]_vars => [Next]_vars
BY DEF SerialNext, SerialAround, Next, Around

Asking == {"lock", "holder", "steal", "relock"}

Outside(i) == proc[i].pc \in {"idle", "gates"} \cup Asking

\* At most one invocation is under way.
OneAtATime == \A i, j \in Invocations : i # j => At(i, "idle") \/ At(j, "idle")

\* The lock tells who is past it; whoever takes over a dead one is alone.
LockInv ==
  /\ \A i \in Invocations : lock = i <=> ~Outside(i)
  /\ inventory = None \/ lock = Dead => OneAtATime
  /\ \A i \in Invocations : At(i, "steal") => lock = Dead

\* Stations before the inventory, and those after it.
Open == {"setup", "open", "preflight", "next", "executing", "judge", "verdict", "report",
         "batch", "evaluate", "inventory", "abandon"}
Packing == {"zip", "commit", "receipt", "complete"}
Rereading == {"recheck", "supersede"}

\* Which path an invocation takes is decided by the inventory.
PathOf(i) ==
  /\ OnPath(i, "ordinary") =>
       /\ proc[i].pc \notin Rereading
       /\ proc[i].pc \in Asking \cup {"package"} => inventory = None
       /\ At(i, "holder") => lock = Dead
       /\ At(i, "relock") => lock = None
  /\ OnPath(i, "recovery") =>
       /\ proc[i].pc \in Asking \cup Rereading \cup Packing \cup {"package", "release"}
       /\ inventory # None
  /\ proc[i].pc \in Open => inventory = None
  /\ proc[i].pc \in Packing => inventory # None

PathInv == \A i \in Invocations : PathOf(i)

\* Once there is an inventory, or an invocation at work, there is a control state.
FoundInv ==
  /\ inventory # None => control # None
  /\ \A i \in Invocations : proc[i].pc \in Carrying => control # None

Quiet(s) == \A k \in DOMAIN s.executions : s.executions[k].status # "in-progress"

\* Only the last execution can be running.
AtMostLast(s) == \A k \in DOMAIN s.executions : s.executions[k].status = "in-progress" => k = Last(s)

\* The memory of an invocation whose execution failed and could not be sealed.
Escaped(s, m) ==
  /\ s \in States /\ s.executions # <<>> /\ s.executions[Last(s)].status = "in-progress"
  /\ \E r \in Reasons \cup {"execution-seal-failed"} :
       m = WithLast(s, [Ended(s.executions[Last(s)], "failed", r) EXCEPT !.seal = None])

\* Where an invocation holds what is on disk.
Holding(i) ==
  \/ proc[i].pc \in Carrying \cup {"setup", "open"}
  \/ OnPath(i, "ordinary") /\ proc[i].pc \in Asking

\* What an invocation has in memory is what is on disk, or what it failed to seal.
CopyInv ==
  \A i \in Invocations :
    /\ Holding(i) => mem[i] = control
    /\ At(i, "abandon") => mem[i] = control \/ Escaped(control, mem[i])

Settled == {"preflight", "next", "judge", "verdict", "report", "batch", "evaluate", "package",
            "inventory", "zip", "commit", "receipt", "complete", "supersede"}

\* Where every attempt is known to be complete.
Due(i) ==
  \/ At(i, "verdict") /\ ~proc[i].failed
  \/ proc[i].pc \in {"batch", "evaluate", "package", "inventory"}

RunningAt(i) ==
  /\ proc[i].pc \in Settled => Quiet(control)
  /\ At(i, "executing") =>
       /\ control.executions # <<>>
       /\ control.executions[Last(control)].status = "in-progress"
  /\ Due(i) => AllCompleted(control)

\* Executions run one at a time, and only while the invocation that started them lasts.
RunningInv ==
  /\ control # None => AtMostLast(control)
  /\ \A i \in Invocations : RunningAt(i)

\* A sequence with a recorded halt is only brought to its end.
HaltInv ==
  control # None /\ Halted(control) =>
    /\ inventory = None
    /\ \A i \in Invocations :
         \/ proc[i].pc \in {"idle", "gates", "report", "abandon", "release"}
         \/ At(i, "verdict") /\ proc[i].failed

\* What the inventory closes: every attempt complete, nothing running, the root as it was
\* when the inventory was taken, the report telling the executions of the control state.
Reported(s) == root.report # None /\ root.report.complete /\ root.report.executions = s.executions

ClosedInv ==
  /\ inventory # None =>
       /\ Quiet(control) /\ AllCompleted(control) /\ Reported(control)
       /\ inventory.aggregate = control.aggregate /\ inventory.aggregate = root.report.turn
  /\ \A i \in Invocations :
       /\ proc[i].pc \in {"package", "inventory"} => Reported(control)
       /\ At(i, "inventory") => control.aggregate = root.report.turn

\* Before the inventory nothing can be late for it.
StragglerInv ==
  /\ \A i \in straggler :
       proc[i].stopFailed /\ proc[i].pc \in {"report", "batch", "abandon", "release"}
  /\ straggler # {} => inventory = None
  /\ inventory # None => inventory.intact

\* The packaging transaction: which archives are there, which are known as leftovers.
ShelfInv ==
  /\ inventory = None => staged = {} /\ Unreceipted = {}
  /\ control # None => control.superseded \subseteq Unreceipted
  /\ \A i \in Invocations :
       /\ proc[i].pc \in {"package", "inventory", "zip", "receipt", "complete"} => staged = {}
       /\ At(i, "commit") => staged = {i}
       /\ proc[i].pc \in {"package", "inventory", "zip", "commit", "complete"} =>
            control.superseded = Unreceipted
       /\ At(i, "receipt") =>
            /\ archives[proc[i].slot] = "committed"
            /\ control.superseded = Unreceipted \ {proc[i].slot}
       /\ proc[i].pc \in {"inventory", "zip", "commit"} => archives[proc[i].slot] = None
       /\ At(i, "complete") => archives[proc[i].slot] = "receipted"

\* A completed sequence is whole, and nobody is on the way to change it.
WholeInv ==
  Completed =>
    /\ inventory # None
    /\ control.archive \in Slots /\ archives[control.archive] = "receipted"
    /\ staged = {} /\ control.superseded = Unreceipted
    /\ \A i \in Invocations : Outside(i) \/ proc[i].pc \in {"recheck", "release"}

-----------------------------------------------------------------------------
(* What the operators on control states return *)

LEMMA EndedTyped ==
  ASSUME NEW e \in Executions, NEW status \in {"completed", "failed"}, NEW r \in Classes \cup {None}
  PROVE  Ended(e, status, r) \in Executions
BY DEF Ended, Executions

LEMMA WithLastTyped ==
  ASSUME NEW s \in States, s.executions # <<>>, NEW e \in Executions
  PROVE  /\ WithLast(s, e) \in States
         /\ WithLast(s, e) = [s EXCEPT !.executions = WithLast(s, e).executions]
         /\ WithLast(s, e).executions # <<>>
         /\ Len(WithLast(s, e).executions) = Len(s.executions)
         /\ \A k \in DOMAIN s.executions :
              WithLast(s, e).executions[k] = IF k = Last(s) THEN e ELSE s.executions[k]
<1> DEFINE new == [s.executions EXCEPT ![Last(s)] = e]
<1>1. WithLast(s, e) = [s EXCEPT !.executions = new]
  BY DEF WithLast
<1>2. s.executions \in Seq(Executions) /\ Last(s) \in 1..Len(s.executions)
  BY DEF States, Last
<1>3. /\ new \in Seq(Executions) /\ Len(new) = Len(s.executions)
      /\ \A k \in DOMAIN s.executions : new[k] = IF k = Last(s) THEN e ELSE s.executions[k]
  BY <1>2, ExceptSeq
<1>4. new # <<>>
  BY <1>2, <1>3
<1> HIDE DEF new
<1>5. WithLast(s, e) \in States /\ WithLast(s, e).executions = new
  BY <1>1, <1>3 DEF States
<1>6. QED
  BY <1>1, <1>3, <1>4, <1>5

LEMMA DispositionTyped ==
  ASSUME NEW r, NEW n \in Nat
  PROVE  Disposition(r, n) \in {"permitted", "forbidden", "exhausted"}
BY DEF Disposition

LEMMA ExecutionsOfFinite ==
  ASSUME NEW s \in States, NEW a
  PROVE  /\ ExecutionsOf(s, a) \subseteq 1..Len(s.executions)
         /\ IsFiniteSet(ExecutionsOf(s, a))
         /\ Cardinality(ExecutionsOf(s, a)) \in Nat
<1>1. s.executions \in Seq(Executions)
  BY DEF States
<1>2. ExecutionsOf(s, a) \subseteq 1..Len(s.executions)
  BY <1>1 DEF ExecutionsOf
<1>3. IsFiniteSet(1..Len(s.executions))
  BY <1>1, FS_Interval
<1>4. QED
  BY <1>2, <1>3, FS_Subset, FS_CardinalityType

LEMMA InterruptedTyped ==
  ASSUME NEW s \in States
  PROVE  /\ Interrupted(s) \in States
         /\ Len(Interrupted(s).executions) = Len(s.executions)
         /\ \A k \in DOMAIN s.executions :
              LET e == s.executions[k]  f == Interrupted(s).executions[k] IN
              /\ f.attempt = e.attempt
              /\ e.status # "in-progress" => f = e
              /\ e.status = "in-progress" => f.status = "failed"
<1> DEFINE Mark(e) == IF e.status # "in-progress" THEN e
              ELSE [Ended(e, "failed", "interrupted") EXCEPT !.disposition =
                   Disposition("interrupted", Cardinality(ExecutionsOf(s, e.attempt)))]
           marked == [k \in DOMAIN s.executions |-> Mark(s.executions[k])]
<1>1. s.executions \in Seq(Executions)
  BY DEF States
<1>2. ASSUME NEW e \in Executions
      PROVE  /\ Mark(e) \in Executions /\ Mark(e).attempt = e.attempt
             /\ e.status = "in-progress" => Mark(e).status = "failed"
  <2>1. Disposition("interrupted", Cardinality(ExecutionsOf(s, e.attempt))) \in
          {"permitted", "forbidden", "exhausted"}
    BY ExecutionsOfFinite, DispositionTyped
  <2>2. "interrupted" \in Classes
    BY DEF Classes
  <2>3. QED
    BY <2>1, <2>2 DEF Ended, Executions
<1>3. /\ marked \in Seq(Executions) /\ Len(marked) = Len(s.executions)
      /\ \A k \in DOMAIN s.executions : marked[k] = Mark(s.executions[k])
  <2>1. DOMAIN s.executions = 1..Len(s.executions) /\ Len(s.executions) \in Nat
    BY <1>1
  <2>2. marked \in [1..Len(s.executions) -> Executions]
    BY <1>1, <1>2, <2>1
  <2>3. QED
    BY <2>1, <2>2
<1>4. Interrupted(s) = [s EXCEPT !.executions = marked]
  BY DEF Interrupted
<1>5. Interrupted(s).executions = marked /\ Interrupted(s) \in States
  BY <1>3, <1>4 DEF States
<1>6. QED
  BY <1>1, <1>2, <1>3, <1>5

\* The first planned attempt without a completed execution.
LEMMA NextAttemptExists ==
  ASSUME NEW s, ~AllCompleted(s)
  PROVE  NextAttempt(s) \in Attempts /\ ~CompletedExecution(s, NextAttempt(s))
<1> DEFINE Unfinished == {k \in DOMAIN Plan : ~CompletedExecution(s, Plan[k])}
<1>1. DOMAIN Plan \subseteq Nat /\ DOMAIN Plan = 1..Len(Plan)
  BY SequenceAssumption
<1>2. Unfinished # {} /\ Unfinished \subseteq Nat
  BY <1>1 DEF AllCompleted, Attempts
<1>3. PICK k \in Unfinished : \A j \in Unfinished : ~(<<j, k>> \in OpToRel(<, Nat))
  BY <1>2, NatLessThanWellFounded, WFMin
<1>4. \A j \in Unfinished : ~(j < k)
  BY <1>2, <1>3 DEF OpToRel
<1>5. \A j \in 1..(k - 1) : CompletedExecution(s, Plan[j])
  BY <1>1, <1>2, <1>4
<1>6. \E n \in DOMAIN Plan : /\ ~CompletedExecution(s, Plan[n])
                             /\ \A j \in 1..(n - 1) : CompletedExecution(s, Plan[j])
  BY <1>5
<1>7. QED
  BY <1>6 DEF NextAttempt, Attempts

LEMMA StartedTyped ==
  ASSUME NEW s \in States, NEW a \in Attempts
  PROVE  LET t == [s EXCEPT !.executions = Append(@, Execution(a))] IN
         /\ t \in States
         /\ t.executions = Append(s.executions, Execution(a))
         /\ t.executions # <<>>
         /\ Last(t) = Last(s) + 1
<1>1. s.executions \in Seq(Executions)
  BY DEF States
<1>2. Execution(a) \in Executions
  BY DEF Execution, Executions
<1>3. Append(s.executions, Execution(a)) \in Seq(Executions)
  BY <1>1, <1>2
<1>4. Append(s.executions, Execution(a)) # <<>>
  BY <1>1, <1>2
<1>5. Len(Append(s.executions, Execution(a))) = Len(s.executions) + 1
  BY <1>1, <1>2
<1>6. QED
  BY <1>1, <1>3, <1>4, <1>5, Zenon DEF States, Last

-----------------------------------------------------------------------------
(* Types                                                                   *)

LEMMA GotoTyped ==
  ASSUME TypeOK, NEW i \in Invocations, NEW st \in Stations, Goto(i, st)
  PROVE  /\ proc' \in [Invocations -> Processes]
         /\ proc'[i] = [proc[i] EXCEPT !.pc = st] /\ proc'[i].pc = st
         /\ UNCHANGED <<proc[i].path, proc[i].failed, proc[i].stopFailed, proc[i].slot>>
         /\ \A j \in Invocations \ {i} : proc'[j] = proc[j]
<1>1. proc \in [Invocations -> Processes] /\ proc' = [proc EXCEPT ![i].pc = st]
  BY DEF TypeOK, Goto
<1>2. proc'[i] = [proc[i] EXCEPT !.pc = st] /\ \A j \in Invocations \ {i} : proc'[j] = proc[j]
  BY <1>1
<1>3. proc'[i] \in Processes /\ proc'[i].pc = st
      /\ UNCHANGED <<proc[i].path, proc[i].failed, proc[i].stopFailed, proc[i].slot>>
  BY <1>1, <1>2 DEF Processes
<1>4. QED
  BY <1>1, <1>2, <1>3

LEMMA LeaveTyped ==
  ASSUME TypeOK, NEW i \in Invocations, Leave(i)
  PROVE  /\ proc' \in [Invocations -> Processes]
         /\ proc'[i] = Stopped
         /\ \A j \in Invocations \ {i} : proc'[j] = proc[j]
BY DEF TypeOK, Leave, Processes, Stopped, Stations

LEMMA PersistTyped ==
  ASSUME TypeOK, NEW i \in Invocations, NEW s \in States, Persist(i, s)
  PROVE  /\ control' = s /\ mem' \in [Invocations -> States \cup {None}] /\ mem'[i] = s
         /\ \A j \in Invocations \ {i} : mem'[j] = mem[j]
BY DEF TypeOK, Persist

LEMMA TouchRootTyped ==
  ASSUME TypeOK, TouchRoot
  PROVE  /\ root' = root /\ inventory' \in {None} \cup Inventories
         /\ inventory # None <=> inventory' # None
BY NoneAssumption DEF TypeOK, TouchRoot, Spoiled, Inventories

LEMMA WriteReportTyped ==
  ASSUME TypeOK, NEW s \in States, NEW complete \in BOOLEAN, WriteReport(s, complete)
  PROVE  /\ root' \in [archived : BOOLEAN, report : {None} \cup Reports]
         /\ root'.report # None /\ root'.report.complete = complete
         /\ root'.report.executions = s.executions
         /\ inventory' \in {None} \cup Inventories
         /\ inventory # None <=> inventory' # None
<1> DEFINE new == [turn |-> IF root.report = None THEN 0 ELSE 1 - root.report.turn,
                   complete |-> complete, executions |-> s.executions]
<1>1. root' = [root EXCEPT !.report = new]
  BY DEF WriteReport
<1>2. s.executions \in Seq(Executions)
  BY DEF States
<1>3. root.report # None => root.report.turn \in 0..1
  BY DEF TypeOK, Reports
<1>4. new \in Reports
  BY <1>2, <1>3 DEF Reports
<1>5. inventory' \in {None} \cup Inventories /\ (inventory # None <=> inventory' # None)
  BY NoneAssumption DEF WriteReport, TypeOK, Spoiled, Inventories
<1>6. root' \in [archived : BOOLEAN, report : {None} \cup Reports] /\ root'.report = new
  BY <1>1, <1>4 DEF TypeOK
<1>7. QED
  BY <1>4, <1>5, <1>6, NoneAssumption

\* What a step of i leaves to the others, and nobody ever takes away.
Apart(i) ==
  /\ \A j \in Invocations \ {i} : proc'[j] = proc[j] /\ mem'[j] = mem[j]
  /\ root.report # None => root'.report # None
  /\ inventory # None => inventory' # None

LEMMA OthersEquipped ==
  ASSUME TypeInv, NEW i \in Invocations, Apart(i)
  PROVE  \A j \in Invocations \ {i} : Equipped(j)'
BY DEF TypeInv, Equipped, Apart

\* Away from the control state nothing is required of an invocation.
LEMMA LightStepTyped ==
  ASSUME TypeOK, NEW i \in Invocations, NEW st \in Stations \ Carrying,
         Goto(i, st) \/ Leave(i)
  PROVE  /\ proc' \in [Invocations -> Processes]
         /\ \A j \in Invocations \ {i} : proc'[j] = proc[j]
         /\ Equipped(i)'
<1>1. proc'[i].pc \notin Carrying
  <2>1. CASE Goto(i, st)
    BY <2>1, GotoTyped
  <2>2. CASE Leave(i)
    BY <2>2, LeaveTyped DEF Stopped, Carrying
  <2>3. QED
    BY <2>1, <2>2
<1>2. /\ proc' \in [Invocations -> Processes]
      /\ \A j \in Invocations \ {i} : proc'[j] = proc[j]
  BY GotoTyped, LeaveTyped
<1>3. Equipped(i)'
  BY <1>1 DEF Equipped, Carrying
<1>4. QED
  BY <1>2, <1>3

\* The steps of starting up.
LEMMA StartingTyped ==
  ASSUME TypeInv, NEW i \in Invocations,
         \/ \E resume \in BOOLEAN : Launch(i, resume)
         \/ Refuse(i) \/ Admit(i)
         \/ CreateLock(i) \/ ProbeHolder(i) \/ RemoveStaleLock(i) \/ RecreateLock(i)
         \/ ArchivePlan(i) \/ Recheck(i)
  PROVE  TypeOK' /\ Equipped(i)' /\ Apart(i)
<1> USE DEF TypeInv
<1>1. ASSUME NEW resume \in BOOLEAN, Launch(i, resume)
      PROVE  TypeOK' /\ Equipped(i)' /\ Apart(i)
  <2>1. /\ proc \in [Invocations -> Processes]
        /\ proc' = [proc EXCEPT ![i] = [Stopped EXCEPT !.pc = "gates", !.resume = resume]]
        /\ UNCHANGED <<control, lock, root, inventory, archives, staged, mem, straggler, drift, full, crashes>>
    BY <1>1 DEF Launch, TypeOK, evidence, shelf, outside
  <2>2. [Stopped EXCEPT !.pc = "gates", !.resume = resume] \in Processes /\ proc'[i].pc = "gates"
    BY <2>1 DEF Stopped, Processes, Stations
  <2>3. TypeOK'
    BY <2>1, <2>2 DEF TypeOK
  <2>4. Equipped(i)'
    BY <2>2 DEF Equipped, Carrying
  <2>5. Apart(i)
    BY <2>1 DEF Apart
  <2>6. QED
    BY <2>3, <2>4, <2>5
<1>2. CASE Refuse(i)
  <2>1. "idle" \in Stations \ Carrying
    BY DEF Stations, Carrying
  <2>2. QED
    BY <1>2, <2>1, LightStepTyped DEF Refuse, TypeOK, Apart, evidence, shelf, outside
<1>3. CASE Admit(i)
  <2> DEFINE path == IF PackagingReady THEN "recovery" ELSE "ordinary"
             p == [proc[i] EXCEPT !.pc = "lock", !.path = path]
  <2>1. /\ proc' \in [Invocations -> Processes] /\ proc'[i].pc = "lock"
        /\ \A j \in Invocations \ {i} : proc'[j] = proc[j]
    <3>1. proc \in [Invocations -> Processes] /\ path \in {"ordinary", "recovery"}
      BY DEF TypeOK
    <3>2. proc' = [proc EXCEPT ![i].pc = "lock", ![i].path = path]
      BY <1>3 DEF Admit
    <3> HIDE DEF path
    <3>3. proc' = [proc EXCEPT ![i] = p]
      <4>1. p = [[proc[i] EXCEPT !.pc = "lock"] EXCEPT !.path = path]
        OBVIOUS
      <4>2. proc' = [proc EXCEPT ![i] = [[proc[i] EXCEPT !.pc = "lock"] EXCEPT !.path = path]]
        BY <3>1, <3>2
      <4>3. QED
        BY <4>1, <4>2
    <3>4. p \in Processes /\ p.pc = "lock"
      <4> DEFINE b == proc[i]
      <4>1. b \in Processes /\ p = [b EXCEPT !.pc = "lock", !.path = path]
        BY <3>1
      <4> HIDE DEF b, p
      <4>2. p.pc = "lock"
        BY <4>1 DEF Processes
      <4>3. "lock" \in Stations
        BY DEF Stations
      <4>4. p \in Processes
        BY <3>1, <4>1, <4>3 DEF Processes
      <4>5. QED
        BY <4>2, <4>4
    <3>5. QED
      BY <3>1, <3>3, <3>4
  <2>2. /\ mem' \in [Invocations -> States \cup {None}]
        /\ \A j \in Invocations \ {i} : mem'[j] = mem[j]
    BY <1>3 DEF Admit, TypeOK
  <2>3. QED
    BY <1>3, <2>1, <2>2 DEF Admit, TypeOK, Equipped, Apart, Carrying, evidence, shelf, outside
<1>4. \A st \in {"recheck", "setup", "holder", "steal", "relock", "abandon", "open", "release"} :
        st \in Stations \ Carrying
  BY DEF Stations, Carrying
<1>5. CASE CreateLock(i)
  BY <1>4, <1>5, LightStepTyped DEF CreateLock, Entry, TypeOK, Apart, evidence, shelf, outside
<1>6. CASE ProbeHolder(i)
  BY <1>4, <1>6, LightStepTyped DEF ProbeHolder, LockThrows, TypeOK, Apart, evidence, shelf, outside
<1>7. CASE RemoveStaleLock(i)
  BY <1>4, <1>7, LightStepTyped DEF RemoveStaleLock, TypeOK, Apart, evidence, shelf, outside
<1>8. CASE RecreateLock(i)
  BY <1>4, <1>8, LightStepTyped DEF RecreateLock, Entry, LockThrows, TypeOK, Apart, evidence, shelf, outside
<1>9. CASE ArchivePlan(i)
  <2>1. /\ root' \in [archived : BOOLEAN, report : {None} \cup Reports]
        /\ root'.report = root.report
        /\ inventory' \in {None} \cup Inventories
        /\ inventory # None => inventory' # None
    <3>1. root \in [archived : BOOLEAN, report : {None} \cup Reports] /\ inventory \in {None} \cup Inventories
      BY DEF TypeOK
    <3>2. CASE root.archived
      BY <1>9, <3>1, <3>2 DEF ArchivePlan, evidence
    <3>3. CASE ~root.archived
      <4>1. root' = [root EXCEPT !.archived = TRUE] /\ inventory' = Spoiled
        BY <1>9, <3>3 DEF ArchivePlan
      <4>2. root' \in [archived : BOOLEAN, report : {None} \cup Reports] /\ root'.report = root.report
        BY <3>1, <4>1
      <4>3. inventory' \in {None} \cup Inventories /\ (inventory # None => inventory' # None)
        BY <3>1, <4>1, NoneAssumption DEF Spoiled, Inventories
      <4>4. QED
        BY <4>2, <4>3
    <3>4. QED
      BY <3>2, <3>3
  <2>2. QED
    BY <1>4, <1>9, <2>1, LightStepTyped DEF ArchivePlan, TypeOK, Apart, shelf, outside
<1>10. CASE Recheck(i)
  <2>1. CASE Goto(i, "release") /\ UNCHANGED mem
    BY <1>4, <1>10, <2>1, LightStepTyped DEF Recheck, TypeOK, Apart, evidence, shelf, outside
  <2>2. CASE /\ control # None /\ inventory # None
             /\ Goto(i, "supersede") /\ mem' = [mem EXCEPT ![i] = control]
    <3>1. /\ proc' \in [Invocations -> Processes] /\ proc'[i].pc = "supersede"
          /\ \A j \in Invocations \ {i} : proc'[j] = proc[j]
      BY <2>2, GotoTyped DEF TypeOK, Processes, Stations
    <3>2. mem' \in [Invocations -> States \cup {None}] /\ mem'[i] \in States
          /\ \A j \in Invocations \ {i} : mem'[j] = mem[j]
      BY <2>2 DEF TypeOK
    <3>3. QED
      BY <1>10, <2>2, <3>1, <3>2 DEF Recheck, TypeOK, Equipped, Apart, evidence, shelf, outside
  <2>3. QED
    BY <1>10, <2>1, <2>2 DEF Recheck
<1>11. QED
  BY <1>1, <1>2, <1>3, <1>5, <1>6, <1>7, <1>8, <1>9, <1>10

MoveFailed(i, st, failed) == proc' = [proc EXCEPT ![i].pc = st, ![i].failed = failed]

LEMMA LoopEndsTyped ==
  ASSUME TypeOK, NEW i \in Invocations, NEW st \in Stations, NEW failed \in BOOLEAN,
         MoveFailed(i, st, failed)
  PROVE  /\ proc' \in [Invocations -> Processes]
         /\ proc'[i].pc = st /\ proc'[i].failed = failed
         /\ UNCHANGED <<proc[i].path, proc[i].stopFailed>>
         /\ \A j \in Invocations \ {i} : proc'[j] = proc[j]
<1> DEFINE p == [proc[i] EXCEPT !.pc = st, !.failed = failed]
<1>1. proc \in [Invocations -> Processes]
  BY DEF TypeOK
<1>2. proc' = [proc EXCEPT ![i] = p]
  BY <1>1 DEF MoveFailed
<1>3. p \in Processes /\ p.pc = st /\ p.failed = failed /\ p.path = proc[i].path
      /\ p.stopFailed = proc[i].stopFailed
  BY <1>1 DEF Processes
<1>4. QED
  BY <1>1, <1>2, <1>3

MoveStop(i, st, unconfirmed) == proc' = [proc EXCEPT ![i].pc = st, ![i].stopFailed = unconfirmed]

LEMMA VerdictMoveTyped ==
  ASSUME TypeOK, NEW i \in Invocations, NEW st \in Stations, NEW unconfirmed \in BOOLEAN,
         MoveStop(i, st, unconfirmed)
  PROVE  /\ proc' \in [Invocations -> Processes]
         /\ proc'[i].pc = st /\ proc'[i].stopFailed = unconfirmed
         /\ UNCHANGED <<proc[i].path, proc[i].failed>>
         /\ \A j \in Invocations \ {i} : proc'[j] = proc[j]
<1> DEFINE p == [proc[i] EXCEPT !.pc = st, !.stopFailed = unconfirmed]
<1>1. proc \in [Invocations -> Processes]
  BY DEF TypeOK
<1>2. proc' = [proc EXCEPT ![i] = p]
  BY <1>1 DEF MoveStop
<1>3. p \in Processes /\ p.pc = st /\ p.stopFailed = unconfirmed /\ p.path = proc[i].path
      /\ p.failed = proc[i].failed
  BY <1>1 DEF Processes
<1>4. QED
  BY <1>1, <1>2, <1>3

MoveSlot(i, st, slot) == proc' = [proc EXCEPT ![i].slot = slot, ![i].pc = st]

LEMMA SlotTyped ==
  ASSUME TypeOK, NEW i \in Invocations, NEW st \in Stations, NEW slot \in Slots,
         MoveSlot(i, st, slot)
  PROVE  /\ proc' \in [Invocations -> Processes]
         /\ proc'[i].pc = st /\ proc'[i].slot = slot
         /\ UNCHANGED <<proc[i].path, proc[i].stopFailed>>
         /\ \A j \in Invocations \ {i} : proc'[j] = proc[j]
<1> DEFINE p == [proc[i] EXCEPT !.slot = slot, !.pc = st]
<1>1. proc \in [Invocations -> Processes]
  BY DEF TypeOK
<1>2. proc' = [proc EXCEPT ![i] = p]
  BY <1>1 DEF MoveSlot
<1>3. p \in Processes /\ p.pc = st /\ p.slot = slot /\ p.path = proc[i].path
      /\ p.stopFailed = proc[i].stopFailed
  BY <1>1 DEF Processes
<1>4. QED
  BY <1>1, <1>2, <1>3

\* Stations that require a control state in memory, and nothing else.
Plain == {"preflight", "next", "verdict", "report", "batch", "evaluate"}

LEMMA PlainEquipped ==
  ASSUME NEW i, \/ proc'[i].pc \in Stations \ Carrying
                \/ proc'[i].pc \in Plain /\ mem'[i] \in States
  PROVE  Equipped(i)'
BY DEF Equipped, Plain, Carrying

LEMMA FailTyped ==
  ASSUME TypeOK, NEW i \in Invocations, NEW s \in States, FailWith(i, s)
  PROVE  /\ control' \in States \cup {None}
         /\ mem' \in [Invocations -> States \cup {None}]
         /\ proc' \in [Invocations -> Processes]
         /\ \A j \in Invocations \ {i} : proc'[j] = proc[j] /\ mem'[j] = mem[j]
         /\ Equipped(i)'
<1>1. [s EXCEPT !.status = "failed"] \in States
  BY DEF States
<1>2. "release" \in Stations \ Carrying
  BY DEF Stations, Carrying
<1>3. QED
  BY <1>1, <1>2, PersistTyped, LightStepTyped DEF FailWith

\* A step into a plain station that leaves the shelf and the world around alone.
LEMMA PlainStepTyped ==
  ASSUME TypeOK, NEW i \in Invocations,
         proc' \in [Invocations -> Processes], proc'[i].pc \in Plain,
         mem' \in [Invocations -> States \cup {None}], mem'[i] \in States,
         \A j \in Invocations \ {i} : proc'[j] = proc[j] /\ mem'[j] = mem[j],
         control' \in States \cup {None},
         root' \in [archived : BOOLEAN, report : {None} \cup Reports],
         inventory' \in {None} \cup Inventories,
         root.report # None => root'.report # None,
         inventory # None => inventory' # None,
         straggler' \subseteq Invocations,
         UNCHANGED <<lock, shelf, outside>>
  PROVE  TypeOK' /\ Equipped(i)' /\ Apart(i)
<1>1. TypeOK'
  BY DEF TypeOK, shelf, outside
<1>2. Equipped(i)'
  BY PlainEquipped
<1>3. QED
  BY <1>1, <1>2 DEF Apart

\* The steps of the attempt loop and around it.
LEMMA AttemptsTyped ==
  ASSUME TypeInv, NEW i \in Invocations,
         \/ CreateState(i) \/ ResumeState(i) \/ Preflight(i) \/ LeaveLoop(i)
         \/ StartExecution(i) \/ Execute(i) \/ SealEscapes(i) \/ JudgeBudget(i) \/ Judge(i)
         \/ Verdict(i) \/ ReportFailure(i)
  PROVE  TypeOK' /\ Equipped(i)' /\ Apart(i)
<1> USE DEF TypeInv
<1>0. /\ Plain \cup {"executing", "judge", "abandon", "release"} \subseteq Stations
      /\ {"abandon", "release"} \subseteq Stations \ Carrying
  BY DEF Plain, Stations, Carrying
<1>1. CASE CreateState(i)
  <2>1. Created \in States
    BY DEF Created, States
  <2>2. "preflight" \in Plain
    BY DEF Plain
  <2>3. Persist(i, Created) /\ Goto(i, "preflight") /\ UNCHANGED <<lock, evidence, shelf, straggler, outside>>
    BY <1>1 DEF CreateState
  <2>4. /\ control' \in States /\ mem'[i] \in States /\ mem' \in [Invocations -> States \cup {None}]
        /\ \A j \in Invocations \ {i} : mem'[j] = mem[j]
    BY <2>1, <2>3, PersistTyped
  <2>5. /\ proc' \in [Invocations -> Processes] /\ proc'[i].pc \in Plain
        /\ \A j \in Invocations \ {i} : proc'[j] = proc[j]
    BY <1>0, <2>2, <2>3, GotoTyped
  <2>6. QED
    BY <2>3, <2>4, <2>5, PlainStepTyped DEF TypeOK, evidence
<1>2. CASE ResumeState(i)
  <2> DEFINE t == Interrupted(mem[i])
             stop == \E k \in DOMAIN t.executions :
                       /\ mem[i].executions[k].status = "in-progress"
                       /\ t.executions[k].disposition # "permitted"
             u == [t EXCEPT !.status = IF stop THEN "failed" ELSE "in-progress"]
             st == IF stop THEN "verdict" ELSE "preflight"
  <2>1. /\ mem[i] \in States
        /\ Persist(i, u)
        /\ MoveFailed(i, st, stop)
    BY <1>2 DEF ResumeState, TypeOK, MoveFailed
  <2>2. t \in States
    BY <2>1, InterruptedTyped
  <2>3. stop \in BOOLEAN /\ st \in Plain
    BY DEF Plain
  <2> HIDE DEF t, stop, st
  <2>4. u \in States
    BY <2>2 DEF States
  <2> HIDE DEF u
  <2>5. /\ control' \in States /\ mem'[i] \in States /\ mem' \in [Invocations -> States \cup {None}]
        /\ \A j \in Invocations \ {i} : mem'[j] = mem[j]
    BY <2>1, <2>4, PersistTyped
  <2>6. /\ proc' \in [Invocations -> Processes] /\ proc'[i].pc \in Plain
        /\ \A j \in Invocations \ {i} : proc'[j] = proc[j]
    BY <1>0, <2>1, <2>3, LoopEndsTyped
  <2>7. UNCHANGED <<lock, evidence, shelf, straggler, outside>>
    BY <1>2 DEF ResumeState
  <2>8. QED
    BY <2>5, <2>6, <2>7, PlainStepTyped DEF TypeOK, evidence
<1>3. CASE Preflight(i)
  <2>1. mem[i] \in States /\ "next" \in Plain
    BY <1>3 DEF Preflight, At, Equipped, Carrying, Plain
  <2>2. TouchRoot /\ Goto(i, "next") /\ UNCHANGED <<control, lock, shelf, mem, straggler, outside>>
    BY <1>3 DEF Preflight
  <2>3. /\ proc' \in [Invocations -> Processes] /\ proc'[i].pc \in Plain
        /\ \A j \in Invocations \ {i} : proc'[j] = proc[j]
    BY <1>0, <2>1, <2>2, GotoTyped
  <2>4. root' = root /\ inventory' \in {None} \cup Inventories /\ (inventory # None => inventory' # None)
    BY <2>2, TouchRootTyped
  <2>5. QED
    BY <2>1, <2>2, <2>3, <2>4, PlainStepTyped DEF TypeOK
<1>4. CASE LeaveLoop(i)
  <2>1. mem[i] \in States /\ "verdict" \in Plain
    BY <1>4 DEF LeaveLoop, At, Equipped, Carrying, Plain
  <2>2. PICK failed \in BOOLEAN : LoopEnds(i, failed)
    BY <1>4 DEF LeaveLoop
  <2>3. /\ control' \in {control, mem[i]}
        /\ UNCHANGED <<lock, evidence, shelf, mem, straggler, outside>>
    BY <1>4 DEF LeaveLoop
  <2>4. MoveFailed(i, "verdict", failed)
    BY <2>2 DEF LoopEnds, MoveFailed
  <2>5. /\ proc' \in [Invocations -> Processes] /\ proc'[i].pc \in Plain
        /\ \A j \in Invocations \ {i} : proc'[j] = proc[j]
    BY <1>0, <2>1, <2>4, LoopEndsTyped
  <2>6. QED
    BY <2>1, <2>3, <2>5, PlainStepTyped DEF TypeOK, evidence
<1>5. CASE StartExecution(i)
  <2> DEFINE s == [mem[i] EXCEPT !.executions = Append(@, Execution(NextAttempt(mem[i])))]
  <2>1. mem[i] \in States
    BY <1>5 DEF StartExecution, At, Equipped, Carrying
  <2>2. Persist(i, s) /\ NextAttempt(mem[i]) \in Attempts
    BY <1>5, NextAttemptExists DEF StartExecution
  <2>3. s \in States /\ s.executions # <<>>
    BY <2>1, <2>2, StartedTyped
  <2> HIDE DEF s
  <2>4. /\ Goto(i, "executing") /\ "executing" \in Stations
        /\ UNCHANGED <<lock, root, inventory, archives, staged, straggler, drift, full, crashes>>
    BY <1>0, <1>5 DEF StartExecution, evidence, shelf, outside
  <2>5. /\ proc' \in [Invocations -> Processes] /\ proc'[i].pc = "executing"
        /\ \A j \in Invocations \ {i} : proc'[j] = proc[j]
    BY <1>0, <2>4, GotoTyped
  <2>6. /\ control' = s /\ mem' \in [Invocations -> States \cup {None}] /\ mem'[i] = s
        /\ \A j \in Invocations \ {i} : mem'[j] = mem[j]
    BY <1>0, <2>2, <2>3, PersistTyped
  <2>7. Equipped(i)'
    BY <2>3, <2>5, <2>6 DEF Equipped, Carrying
  <2>8. Apart(i)
    BY <2>4, <2>5, <2>6 DEF Apart
  <2>9. TypeOK'
    BY <1>0, <2>3, <2>4, <2>5, <2>6 DEF TypeOK
  <2>10. QED
    BY <2>7, <2>8, <2>9
<1>6. CASE Execute(i)
  <2>1. mem[i] \in States /\ mem[i].executions # <<>>
    BY <1>6 DEF Execute, At, Equipped, Carrying
  <2>2. mem[i].executions[Last(mem[i])] \in Executions
    BY <2>1 DEF States, Last
  <2>3. PICK end : /\ end \in {Ended(mem[i].executions[Last(mem[i])], "completed", None)} \cup
                       {Ended(mem[i].executions[Last(mem[i])], "failed", r) :
                          r \in Reasons \cup {"execution-seal-failed"}}
                   /\ Persist(i, WithLast(mem[i], FreezeRechecked(end)))
    BY <1>6 DEF Execute
  <2>4. end \in Executions
    BY <2>2, <2>3, EndedTyped DEF Classes
  <2>5. FreezeRechecked(end) \in Executions
    BY <2>4, EndedTyped DEF FreezeRechecked, Classes
  <2> DEFINE s == WithLast(mem[i], FreezeRechecked(end))
  <2>6. s \in States /\ s.executions # <<>>
    BY <2>1, <2>5, WithLastTyped
  <2> HIDE DEF s
  <2>7. Persist(i, s)
    BY <2>3 DEF s
  <2>8. /\ Goto(i, "judge") /\ "judge" \in Stations
        /\ TouchRoot /\ full' \in {full, TRUE}
        /\ UNCHANGED <<lock, archives, staged, straggler, drift, crashes>>
    BY <1>0, <1>6 DEF Execute, FillRoot, shelf
  <2>9. /\ proc' \in [Invocations -> Processes] /\ proc'[i].pc = "judge"
        /\ \A j \in Invocations \ {i} : proc'[j] = proc[j]
    BY <1>0, <2>8, GotoTyped
  <2>10. /\ control' = s /\ mem' \in [Invocations -> States \cup {None}] /\ mem'[i] = s
         /\ \A j \in Invocations \ {i} : mem'[j] = mem[j]
    BY <1>0, <2>6, <2>7, PersistTyped
  <2>11. root' = root /\ inventory' \in {None} \cup Inventories /\ (inventory # None <=> inventory' # None)
    BY <1>0, <2>8, TouchRootTyped
  <2>12. Equipped(i)'
    BY <2>6, <2>9, <2>10 DEF Equipped, Carrying
  <2>13. Apart(i)
    BY <2>9, <2>10, <2>11 DEF Apart
  <2>14. TypeOK'
    BY <1>0, <2>6, <2>8, <2>9, <2>10, <2>11 DEF TypeOK
  <2>15. QED
    BY <2>12, <2>13, <2>14
<1>7. CASE SealEscapes(i)
  <2>1. mem[i] \in States /\ mem[i].executions # <<>>
    BY <1>7 DEF SealEscapes, At, Equipped, Carrying
  <2>2. PICK r \in Reasons \cup {"execution-seal-failed"} :
          mem' = [mem EXCEPT ![i] = WithLast(@,
                    [Ended(@.executions[Last(@)], "failed", r) EXCEPT !.seal = None])]
    BY <1>7 DEF SealEscapes
  <2> DEFINE e == [Ended(mem[i].executions[Last(mem[i])], "failed", r) EXCEPT !.seal = None]
  <2>3. e \in Executions
    <3>1. mem[i].executions[Last(mem[i])] \in Executions
      BY <2>1 DEF States, Last
    <3>2. Ended(mem[i].executions[Last(mem[i])], "failed", r) \in Executions
      BY <3>1, EndedTyped DEF Classes
    <3>3. QED
      BY <3>2 DEF Executions
  <2>4. WithLast(mem[i], e) \in States
    BY <2>1, <2>3, WithLastTyped
  <2>5. /\ mem' \in [Invocations -> States \cup {None}]
        /\ \A j \in Invocations \ {i} : mem'[j] = mem[j]
    BY <2>2, <2>4 DEF TypeOK
  <2>6. QED
    BY <1>0, <1>7, <2>5, LightStepTyped, TouchRootTyped
    DEF SealEscapes, FillRoot, TypeOK, Apart, shelf
<1>8. CASE JudgeBudget(i)
  <2>1. mem[i] \in States /\ "verdict" \in Plain
    BY <1>8 DEF JudgeBudget, At, Equipped, Carrying, Plain
  <2>2. /\ control' = mem[i] /\ LoopEnds(i, TRUE)
        /\ UNCHANGED <<lock, evidence, shelf, mem, straggler, outside>>
    BY <1>8 DEF JudgeBudget
  <2>3. /\ proc' \in [Invocations -> Processes] /\ proc'[i].pc \in Plain
        /\ \A j \in Invocations \ {i} : proc'[j] = proc[j]
    <3>1. MoveFailed(i, "verdict", TRUE)
      BY <2>2 DEF LoopEnds, MoveFailed
    <3>2. QED
      BY <1>0, <2>1, <3>1, LoopEndsTyped
  <2>4. QED
    BY <2>1, <2>2, <2>3, PlainStepTyped DEF TypeOK, evidence
<1>9. CASE Judge(i)
  <2>1. mem[i] \in States /\ mem[i].executions # <<>> /\ {"next", "verdict"} \subseteq Plain
    BY <1>9 DEF Judge, At, Equipped, Carrying, Plain
  <2> DEFINE e == mem[i].executions[Last(mem[i])]
             d == Disposition(e.failureReason, Cardinality(ExecutionsOf(mem[i], e.attempt)))
             s == WithLast(mem[i], [e EXCEPT !.disposition = d])
  <2>0. UNCHANGED <<lock, evidence, shelf, straggler, outside>>
    BY <1>9 DEF Judge
  <2>2. CASE Goto(i, "next") /\ UNCHANGED <<control, mem>>
    <3>1. /\ proc' \in [Invocations -> Processes] /\ proc'[i].pc \in Plain
          /\ \A j \in Invocations \ {i} : proc'[j] = proc[j]
      BY <1>0, <2>1, <2>2, GotoTyped
    <3>2. QED
      BY <2>0, <2>1, <2>2, <3>1, PlainStepTyped DEF TypeOK, evidence
  <2>3. CASE Persist(i, s) /\ (Goto(i, "next") \/ LoopEnds(i, TRUE))
    <3>1. e \in Executions
      BY <2>1 DEF States, Last
    <3>2. d \in {"permitted", "forbidden", "exhausted"}
      BY <2>1, ExecutionsOfFinite, DispositionTyped
    <3> HIDE DEF d
    <3>3. [e EXCEPT !.disposition = d] \in Executions
      BY <3>1, <3>2 DEF Executions
    <3>4. s \in States
      BY <2>1, <3>3, WithLastTyped
    <3> HIDE DEF s
    <3>5. /\ proc' \in [Invocations -> Processes] /\ proc'[i].pc \in Plain
          /\ \A j \in Invocations \ {i} : proc'[j] = proc[j]
      <4>1. CASE Goto(i, "next")
        BY <1>0, <2>1, <4>1, GotoTyped
      <4>2. CASE LoopEnds(i, TRUE)
        <5>1. MoveFailed(i, "verdict", TRUE)
          BY <4>2 DEF LoopEnds, MoveFailed
        <5>2. QED
          BY <1>0, <2>1, <5>1, LoopEndsTyped
      <4>3. QED
        BY <2>3, <4>1, <4>2
    <3>6. /\ control' \in States /\ mem'[i] \in States /\ mem' \in [Invocations -> States \cup {None}]
          /\ \A j \in Invocations \ {i} : mem'[j] = mem[j]
      BY <2>3, <3>4, PersistTyped
    <3>7. QED
      BY <2>0, <3>5, <3>6, PlainStepTyped DEF TypeOK, evidence
  <2>4. QED
    BY <1>9, <2>2, <2>3 DEF Judge
<1>10. CASE Verdict(i)
  <2> DEFINE s == [mem[i] EXCEPT !.status = IF proc[i].failed THEN "failed" ELSE "attempts-complete"]
             st == IF proc[i].failed THEN "report" ELSE "batch"
  <2>1. mem[i] \in States /\ st \in Plain
    BY <1>10 DEF Verdict, At, Equipped, Carrying, Plain
  <2>2. s \in States
    BY <2>1 DEF States
  <2>3. Persist(i, s)
    BY <1>10 DEF Verdict
  <2>4. \E unconfirmed \in BOOLEAN :
          /\ MoveStop(i, st, unconfirmed)
          /\ straggler' = IF unconfirmed THEN straggler \cup {i} ELSE straggler
    BY <1>10 DEF Verdict, MoveStop
  <2> HIDE DEF s, st
  <2>5. /\ control' \in States /\ mem'[i] \in States /\ mem' \in [Invocations -> States \cup {None}]
        /\ \A j \in Invocations \ {i} : mem'[j] = mem[j]
    BY <2>2, <2>3, PersistTyped
  <2>6. /\ proc' \in [Invocations -> Processes] /\ proc'[i].pc \in Plain
        /\ \A j \in Invocations \ {i} : proc'[j] = proc[j]
    BY <1>0, <2>1, <2>4, VerdictMoveTyped
  <2>7. straggler' \subseteq Invocations
    BY <2>4 DEF TypeOK
  <2>8. TouchRoot /\ UNCHANGED <<lock, shelf, outside>>
    BY <1>10 DEF Verdict
  <2>9. root' = root /\ inventory' \in {None} \cup Inventories /\ (inventory # None => inventory' # None)
    BY <2>8, TouchRootTyped
  <2>10. QED
    BY <2>5, <2>6, <2>7, <2>8, <2>9, PlainStepTyped DEF TypeOK
<1>11. CASE ReportFailure(i)
  <2>1. mem[i] \in States
    BY <1>11 DEF ReportFailure, At, Equipped, Carrying
  <2>2. /\ WriteReport(mem[i], FALSE) /\ Persist(i, mem[i]) /\ Goto(i, "release")
        /\ UNCHANGED <<lock, shelf, straggler, outside>>
    BY <1>11 DEF ReportFailure
  <2>3. /\ control' \in States /\ mem' \in [Invocations -> States \cup {None}]
        /\ \A j \in Invocations \ {i} : mem'[j] = mem[j]
    BY <2>1, <2>2, PersistTyped
  <2>4. /\ proc' \in [Invocations -> Processes] /\ Equipped(i)'
        /\ \A j \in Invocations \ {i} : proc'[j] = proc[j]
    BY <1>0, <2>2, LightStepTyped
  <2>5. /\ root' \in [archived : BOOLEAN, report : {None} \cup Reports] /\ root'.report # None
        /\ inventory' \in {None} \cup Inventories /\ (inventory # None => inventory' # None)
    BY <2>1, <2>2, WriteReportTyped
  <2>6. QED
    BY <2>2, <2>3, <2>4, <2>5 DEF TypeOK, Apart, shelf, outside
<1>12. QED
  BY <1>1, <1>2, <1>3, <1>4, <1>5, <1>6, <1>7, <1>8, <1>9, <1>10, <1>11

\* The first unused archive name is one of the archive's names, and unused.
LEMMA NextArchiveExists ==
  ASSUME FreeSlots # {}
  PROVE  NextArchive \in Slots /\ archives[NextArchive] = None
<1>1. FreeSlots \subseteq Nat
  BY SequenceAssumption DEF FreeSlots, Slots
<1>2. PICK n \in FreeSlots : \A m \in FreeSlots : ~(<<m, n>> \in OpToRel(<, Nat))
  BY <1>1, NatLessThanWellFounded, WFMin
<1>3. \A m \in FreeSlots : n <= m
  <2>1. ASSUME NEW m \in FreeSlots PROVE n <= m
    <3>1. ~(m < n) /\ m \in Nat /\ n \in Nat
      BY <1>1, <1>2 DEF OpToRel
    <3>2. QED
      BY <3>1
  <2>2. QED
    BY <2>1
<1>4. NextArchive \in FreeSlots
  BY <1>3 DEF NextArchive
<1>5. QED
  BY <1>4 DEF FreeSlots

\* A step that persists a control state and fails or goes on to another station.
LEMMA WorkStepTyped ==
  ASSUME TypeOK, NEW i \in Invocations,
         proc' \in [Invocations -> Processes],
         mem' \in [Invocations -> States \cup {None}],
         \A j \in Invocations \ {i} : proc'[j] = proc[j] /\ mem'[j] = mem[j],
         control' \in States \cup {None},
         root' \in [archived : BOOLEAN, report : {None} \cup Reports],
         inventory' \in {None} \cup Inventories,
         root.report # None => root'.report # None,
         inventory # None => inventory' # None,
         archives' \in [Slots -> {None, "committed", "receipted"}],
         staged' \subseteq Invocations,
         UNCHANGED <<lock, straggler, outside>>
  PROVE  TypeOK' /\ Apart(i)
<1>1. TypeOK'
  BY DEF TypeOK, outside
<1>2. QED
  BY <1>1 DEF Apart

\* The steps of the pipeline and of the packaging transaction.
LEMMA PackagingTyped ==
  ASSUME TypeInv, NEW i \in Invocations,
         \/ Batch(i) \/ Evaluate(i) \/ BeginPackage(i) \/ WriteInventory(i) \/ Stage(i)
         \/ CommitArchive(i) \/ WriteReceipt(i) \/ MarkCompleted(i) \/ Supersede(i)
  PROVE  TypeOK' /\ Equipped(i)' /\ Apart(i)
<1> USE DEF TypeInv
<1>0. /\ mem[i] \in States
      /\ {"evaluate", "package", "inventory", "zip", "commit", "receipt", "complete"}
           \subseteq Stations \cap Carrying
      /\ "release" \in Stations \ Carrying
  <2>1. proc[i].pc \in Carrying
    BY DEF Batch, Evaluate, BeginPackage, WriteInventory, Stage, CommitArchive, WriteReceipt,
           MarkCompleted, Supersede, At, Carrying
  <2>2. QED
    BY <2>1 DEF Equipped, Stations, Carrying
<1> DEFINE With(status) == [mem[i] EXCEPT !.status = status]
<1>00. \A status \in {"validating", "packaging", "completed", "failed"} : With(status) \in States
  BY <1>0 DEF States
<1>1. CASE Batch(i)
  <2>1. TouchRoot /\ UNCHANGED <<lock, shelf, straggler, outside>>
    BY <1>1 DEF Batch
  <2>2. /\ root' = root /\ inventory' \in {None} \cup Inventories
        /\ inventory # None => inventory' # None
    BY <2>1, TouchRootTyped
  <2>3. CASE Fail(i)
    BY <1>0, <2>1, <2>2, <2>3, FailTyped, WorkStepTyped DEF Fail, TypeOK, shelf
  <2>4. CASE Persist(i, With("validating")) /\ Goto(i, "evaluate")
    <3>1. /\ control' \in States /\ mem' \in [Invocations -> States \cup {None}]
          /\ mem'[i] \in States /\ \A j \in Invocations \ {i} : mem'[j] = mem[j]
      BY <1>00, <2>4, PersistTyped
    <3>2. /\ proc' \in [Invocations -> Processes] /\ proc'[i].pc \in Plain
          /\ \A j \in Invocations \ {i} : proc'[j] = proc[j]
      BY <1>0, <2>4, GotoTyped DEF Plain
    <3>3. QED
      BY <2>1, <2>2, <3>1, <3>2, PlainStepTyped DEF TypeOK
  <2>5. QED
    BY <1>1, <2>3, <2>4 DEF Batch
<1>2. CASE Evaluate(i)
  <2>1. UNCHANGED <<lock, shelf, straggler, outside>>
    BY <1>2 DEF Evaluate
  <2>2. /\ root' \in [archived : BOOLEAN, report : {None} \cup Reports]
        /\ inventory' \in {None} \cup Inventories
        /\ root.report # None => root'.report # None
        /\ inventory # None => inventory' # None
        /\ WriteReport(mem[i], TRUE) => root'.report # None
    <3>1. CASE WriteReport(mem[i], TRUE)
      BY <1>0, <3>1, WriteReportTyped
    <3>2. CASE UNCHANGED evidence /\ ~WriteReport(mem[i], TRUE)
      BY <3>2 DEF evidence, TypeOK
    <3>3. QED
      BY <1>2, <3>1, <3>2 DEF Evaluate
  <2>3. CASE Fail(i)
    BY <1>0, <2>1, <2>2, <2>3, FailTyped, WorkStepTyped DEF Fail, TypeOK, shelf
  <2>4. CASE WriteReport(mem[i], TRUE) /\ Persist(i, With("packaging")) /\ Goto(i, "package")
    <3>1. /\ control' \in States /\ mem' \in [Invocations -> States \cup {None}]
          /\ mem'[i] \in States /\ \A j \in Invocations \ {i} : mem'[j] = mem[j]
      BY <1>00, <2>4, PersistTyped
    <3>2. /\ proc' \in [Invocations -> Processes] /\ proc'[i].pc = "package"
          /\ \A j \in Invocations \ {i} : proc'[j] = proc[j]
      BY <1>0, <2>4, GotoTyped
    <3>3. Equipped(i)'
      BY <2>2, <2>4, <3>1, <3>2 DEF Equipped
    <3>4. QED
      BY <2>1, <2>2, <3>1, <3>2, <3>3, WorkStepTyped DEF TypeOK, shelf
  <2>5. QED
    BY <1>2, <2>3, <2>4 DEF Evaluate
<1>3. CASE BeginPackage(i)
  <2>1. UNCHANGED <<lock, evidence, shelf, straggler, outside>>
    BY <1>3 DEF BeginPackage
  <2>2. CASE Fail(i)
    BY <1>0, <2>1, <2>2, FailTyped, WorkStepTyped DEF Fail, TypeOK, shelf, evidence
  <2> DEFINE s == [mem[i] EXCEPT !.aggregate = Aggregate]
             st == IF inventory = None THEN "inventory" ELSE "zip"
  <2>3. CASE FreeSlots # {} /\ Persist(i, s) /\ MoveSlot(i, st, NextArchive)
    <3>1. Aggregate \in 0..1
      BY <1>3, <1>0 DEF BeginPackage, At, Equipped, Aggregate, TypeOK, Reports, Inventories
    <3>2. s \in States /\ s.aggregate \in 0..1
      BY <1>0, <3>1 DEF States
    <3>3. NextArchive \in Slots
      BY <2>3, NextArchiveExists
    <3>4. st \in Stations /\ (st = "inventory" \/ (st = "zip" /\ inventory # None))
      <4>1. CASE inventory = None
        BY <4>1 DEF Stations
      <4>2. CASE inventory # None
        BY <4>2 DEF Stations
      <4>3. QED
        BY <4>1, <4>2
    <3>5. inventory = None => root.report # None
      BY <1>3 DEF BeginPackage, At, Equipped
    <3> HIDE DEF s, st
    <3>6. /\ control' \in States /\ mem' \in [Invocations -> States \cup {None}]
          /\ mem'[i] = s /\ \A j \in Invocations \ {i} : mem'[j] = mem[j]
      BY <2>3, <3>2, PersistTyped
    <3>7. /\ proc' \in [Invocations -> Processes] /\ proc'[i].pc = st /\ proc'[i].slot \in Slots
          /\ \A j \in Invocations \ {i} : proc'[j] = proc[j]
      BY <2>3, <3>3, <3>4, SlotTyped
    <3>8. UNCHANGED <<root, inventory>>
      BY <2>1 DEF evidence
    <3>9. root.report # None \/ inventory # None
      BY <3>5
    <3>10. Equipped(i)'
      BY <3>2, <3>4, <3>6, <3>7, <3>8, <3>9 DEF Equipped
    <3>11. QED
      BY <2>1, <3>6, <3>7, <3>8, <3>10, WorkStepTyped DEF TypeOK, shelf
  <2>4. QED
    BY <1>3, <2>2, <2>3 DEF BeginPackage, MoveSlot
<1>4. CASE WriteInventory(i)
  <2>1. /\ inventory' = [aggregate |-> mem[i].aggregate, intact |-> root.report.turn = mem[i].aggregate]
        /\ Goto(i, "zip") /\ UNCHANGED <<control, lock, root, shelf, mem, straggler, outside>>
    BY <1>4 DEF WriteInventory
  <2>2. mem[i].aggregate \in 0..1 /\ proc[i].slot \in Slots
    BY <1>4 DEF WriteInventory, At, Equipped
  <2>3. inventory' \in Inventories /\ inventory' # None
    <3> DEFINE intact == root.report.turn = mem[i].aggregate
    <3>1. intact \in BOOLEAN
      OBVIOUS
    <3>2. inventory' = [aggregate |-> mem[i].aggregate, intact |-> intact]
      BY <2>1
    <3> HIDE DEF intact
    <3>3. inventory' \in Inventories
      BY <2>2, <3>1, <3>2 DEF Inventories
    <3>4. QED
      BY <3>3, NoneAssumption
  <2>4. /\ proc' \in [Invocations -> Processes] /\ proc'[i].pc = "zip" /\ proc'[i].slot \in Slots
        /\ \A j \in Invocations \ {i} : proc'[j] = proc[j]
    BY <1>0, <2>1, <2>2, GotoTyped
  <2>5. Equipped(i)'
    BY <1>0, <2>1, <2>3, <2>4 DEF Equipped
  <2>6. QED
    BY <2>1, <2>3, <2>4, <2>5, WorkStepTyped DEF TypeOK, shelf
<1>5. CASE Stage(i)
  <2>1. UNCHANGED <<lock, evidence, archives, straggler, outside>>
    BY <1>5 DEF Stage
  <2>2. CASE Fail(i) /\ UNCHANGED staged
    BY <1>0, <2>1, <2>2, FailTyped, WorkStepTyped DEF Fail, TypeOK, evidence
  <2>3. CASE staged' = staged \cup {i} /\ Goto(i, "commit") /\ UNCHANGED <<control, mem>>
    <3>1. proc[i].slot \in Slots
      BY <1>5 DEF Stage, At, Equipped
    <3>2. /\ proc' \in [Invocations -> Processes] /\ proc'[i].pc = "commit" /\ proc'[i].slot \in Slots
          /\ \A j \in Invocations \ {i} : proc'[j] = proc[j]
      BY <1>0, <2>3, <3>1, GotoTyped
    <3>3. Equipped(i)'
      BY <1>0, <2>3, <3>2 DEF Equipped
    <3>4. QED
      BY <2>1, <2>3, <3>2, <3>3, WorkStepTyped DEF TypeOK, evidence
  <2>4. QED
    BY <1>5, <2>2, <2>3 DEF Stage
<1>6. CASE CommitArchive(i)
  <2>1. staged' = staged \ {i} /\ UNCHANGED <<lock, evidence, straggler, outside>>
    BY <1>6 DEF CommitArchive
  <2>2. CASE Fail(i) /\ UNCHANGED archives
    BY <1>0, <2>1, <2>2, FailTyped, WorkStepTyped DEF Fail, TypeOK, evidence
  <2>3. CASE /\ archives' = [archives EXCEPT ![proc[i].slot] = "committed"]
             /\ Goto(i, "receipt") /\ UNCHANGED <<control, mem>>
    <3>1. proc[i].slot \in Slots
      BY <1>6 DEF CommitArchive, At, Equipped
    <3>2. /\ proc' \in [Invocations -> Processes] /\ proc'[i].pc = "receipt" /\ proc'[i].slot \in Slots
          /\ \A j \in Invocations \ {i} : proc'[j] = proc[j]
      BY <1>0, <2>3, <3>1, GotoTyped
    <3>3. Equipped(i)'
      BY <1>0, <2>3, <3>2 DEF Equipped
    <3>4. QED
      BY <2>1, <2>3, <3>2, <3>3, WorkStepTyped DEF TypeOK, evidence
  <2>4. QED
    BY <1>6, <2>2, <2>3 DEF CommitArchive
<1>7. CASE WriteReceipt(i)
  <2>1. UNCHANGED <<lock, evidence, staged, straggler, outside>>
    BY <1>7 DEF WriteReceipt
  <2>2. CASE Fail(i) /\ UNCHANGED archives
    BY <1>0, <2>1, <2>2, FailTyped, WorkStepTyped DEF Fail, TypeOK, evidence
  <2>3. CASE /\ archives' = [archives EXCEPT ![proc[i].slot] = "receipted"]
             /\ Persist(i, mem[i]) /\ Goto(i, "complete")
    <3>1. proc[i].slot \in Slots
      BY <1>7 DEF WriteReceipt, At, Equipped
    <3>2. /\ proc' \in [Invocations -> Processes] /\ proc'[i].pc = "complete" /\ proc'[i].slot \in Slots
          /\ \A j \in Invocations \ {i} : proc'[j] = proc[j]
      BY <1>0, <2>3, <3>1, GotoTyped
    <3>3. /\ control' \in States /\ mem' \in [Invocations -> States \cup {None}]
          /\ mem'[i] \in States /\ \A j \in Invocations \ {i} : mem'[j] = mem[j]
      BY <1>0, <2>3, PersistTyped
    <3>4. Equipped(i)'
      BY <3>2, <3>3 DEF Equipped
    <3>5. QED
      BY <2>1, <2>3, <3>2, <3>3, <3>4, WorkStepTyped DEF TypeOK, evidence
  <2>4. QED
    BY <1>7, <2>2, <2>3 DEF WriteReceipt
<1>8. CASE MarkCompleted(i)
  <2>1. Persist(i, Packaged(i)) /\ Goto(i, "release") /\ UNCHANGED <<lock, evidence, shelf, straggler, outside>>
    BY <1>8 DEF MarkCompleted
  <2>2. Packaged(i) \in States
    BY <1>0, <1>8 DEF MarkCompleted, At, Equipped, Packaged, States
  <2>3. /\ control' \in States /\ mem' \in [Invocations -> States \cup {None}]
        /\ \A j \in Invocations \ {i} : mem'[j] = mem[j]
    BY <2>1, <2>2, PersistTyped
  <2>4. /\ proc' \in [Invocations -> Processes] /\ Equipped(i)'
        /\ \A j \in Invocations \ {i} : proc'[j] = proc[j]
    BY <1>0, <2>1, LightStepTyped
  <2>5. QED
    BY <2>1, <2>3, <2>4, WorkStepTyped DEF TypeOK, shelf, evidence
<1>9. CASE Supersede(i)
  <2> DEFINE s == [mem[i] EXCEPT !.superseded = @ \cup Unreceipted]
             t == [s EXCEPT !.status = "packaging"]
  <2>1. staged' = {} /\ UNCHANGED <<lock, evidence, archives, straggler, outside>>
    BY <1>9 DEF Supersede
  <2>2. s \in States
    BY <1>0 DEF States, Unreceipted
  <2> HIDE DEF s
  <2>3. CASE FailWith(i, s)
    BY <2>1, <2>2, <2>3, FailTyped, WorkStepTyped DEF TypeOK, evidence
  <2>4. CASE Persist(i, t) /\ Goto(i, "package")
    <3>1. t \in States
      BY <2>2 DEF States
    <3>2. /\ control' \in States /\ mem' \in [Invocations -> States \cup {None}]
          /\ mem'[i] \in States /\ \A j \in Invocations \ {i} : mem'[j] = mem[j]
      BY <2>4, <3>1, PersistTyped
    <3>3. /\ proc' \in [Invocations -> Processes] /\ proc'[i].pc = "package"
          /\ \A j \in Invocations \ {i} : proc'[j] = proc[j]
      BY <1>0, <2>4, GotoTyped
    <3>4. inventory' # None
      BY <1>9, <2>1 DEF Supersede, At, Equipped, evidence
    <3>5. Equipped(i)'
      BY <3>2, <3>3, <3>4 DEF Equipped
    <3>6. QED
      BY <2>1, <3>2, <3>3, <3>5, WorkStepTyped DEF TypeOK, evidence
  <2>5. QED
    BY <1>9, <2>3, <2>4 DEF Supersede, s
<1>10. QED
  BY <1>1, <1>2, <1>3, <1>4, <1>5, <1>6, <1>7, <1>8, <1>9

\* Errors, the way out, and what happens around the invocations.
LEMMA EndingTyped ==
  ASSUME TypeInv, NEW i \in Invocations,
         \/ Throws(i) \/ StageFails(i) \/ Abandon(i) \/ Release(i)
         \/ Crash(i) \/ LateExit(i)
  PROVE  TypeOK' /\ Equipped(i)' /\ Apart(i)
<1> USE DEF TypeInv
<1>0. {"abandon", "release"} \subseteq Stations \ Carrying
  BY DEF Stations, Carrying
<1>1. CASE Throws(i)
  BY <1>0, <1>1, LightStepTyped DEF Throws, TypeOK, Apart, evidence, shelf, outside
<1>2. CASE StageFails(i)
  <2> DEFINE s == IF At(i, "complete") THEN Packaged(i) ELSE mem[i]
  <2>1. mem[i] \in States /\ (At(i, "complete") => proc[i].slot \in Slots)
    BY <1>2 DEF StageFails, At, Equipped, Carrying
  <2>2. s \in States
    BY <2>1 DEF Packaged, States
  <2>3. FailWith(i, s) /\ staged' = staged \ {i} /\ UNCHANGED <<lock, evidence, archives, straggler, outside>>
    BY <1>2 DEF StageFails
  <2> HIDE DEF s
  <2>4. QED
    BY <2>2, <2>3, FailTyped, WorkStepTyped DEF TypeOK, evidence
<1>3. CASE Abandon(i)
  <2>1. Goto(i, "release") /\ UNCHANGED <<lock, evidence, shelf, straggler, outside>>
    BY <1>3 DEF Abandon
  <2>2. /\ proc' \in [Invocations -> Processes] /\ Equipped(i)'
        /\ \A j \in Invocations \ {i} : proc'[j] = proc[j]
    BY <1>0, <2>1, LightStepTyped
  <2> DEFINE s == [mem[i] EXCEPT !.status = "failed"]
  <2>3. CASE mem[i] # None /\ Persist(i, s)
    <3>1. mem[i] \in States
      BY <2>3 DEF TypeOK
    <3>2. s \in States
      BY <3>1 DEF States
    <3>3. /\ control' \in States /\ mem' \in [Invocations -> States \cup {None}]
          /\ \A j \in Invocations \ {i} : mem'[j] = mem[j]
      BY <2>3, <3>2, PersistTyped
    <3>4. QED
      BY <2>1, <2>2, <3>3, WorkStepTyped DEF TypeOK, shelf, evidence
  <2>4. CASE UNCHANGED <<control, mem>>
    BY <2>1, <2>2, <2>4, WorkStepTyped DEF TypeOK, shelf, evidence
  <2>5. QED
    BY <1>3, <2>3, <2>4 DEF Abandon
<1>4. CASE Release(i)
  <2>1. /\ lock' = IF lock = i THEN None ELSE lock
        /\ Leave(i) /\ mem' = [mem EXCEPT ![i] = None] /\ straggler' = straggler \ {i}
        /\ UNCHANGED <<control, shelf, outside>>
    BY <1>4 DEF Release
  <2>2. /\ proc' \in [Invocations -> Processes] /\ Equipped(i)'
        /\ \A j \in Invocations \ {i} : proc'[j] = proc[j]
    BY <1>0, <2>1, LightStepTyped
  <2>3. root' = root /\ inventory' \in {None} \cup Inventories /\ (inventory # None => inventory' # None)
    BY <1>4, TouchRootTyped DEF Release, evidence, TypeOK
  <2>4. /\ mem' \in [Invocations -> States \cup {None}]
        /\ \A j \in Invocations \ {i} : mem'[j] = mem[j]
    BY <2>1 DEF TypeOK
  <2>5. QED
    BY <2>1, <2>2, <2>3, <2>4 DEF TypeOK, Apart, shelf, outside
<1>5. CASE Crash(i)
  <2>1. /\ lock' = IF lock = i THEN Dead ELSE lock
        /\ Leave(i) /\ mem' = [mem EXCEPT ![i] = None] /\ straggler' = straggler \ {i}
        /\ crashes < MaxCrashes /\ crashes' = crashes + 1
        /\ UNCHANGED <<control, evidence, shelf, drift, full>>
    BY <1>5 DEF Crash
  <2>2. /\ proc' \in [Invocations -> Processes] /\ Equipped(i)'
        /\ \A j \in Invocations \ {i} : proc'[j] = proc[j]
    BY <1>0, <2>1, LightStepTyped
  <2>3. /\ mem' \in [Invocations -> States \cup {None}]
        /\ \A j \in Invocations \ {i} : mem'[j] = mem[j]
    BY <2>1 DEF TypeOK
  <2>4. crashes' \in 0..MaxCrashes
    BY <2>1, SequenceAssumption DEF TypeOK
  <2>5. QED
    BY <2>1, <2>2, <2>3, <2>4 DEF TypeOK, Apart, shelf, evidence
<1>6. CASE LateExit(i)
  <2>1. /\ straggler' = straggler \ {i} /\ TouchRoot
        /\ UNCHANGED <<control, lock, shelf, proc, mem, outside>>
    BY <1>6 DEF LateExit
  <2>2. root' = root /\ inventory' \in {None} \cup Inventories /\ (inventory # None => inventory' # None)
    BY <2>1, TouchRootTyped
  <2>3. Equipped(i)'
    BY <2>1, <2>2 DEF Equipped
  <2>4. QED
    BY <2>1, <2>2, <2>3 DEF TypeOK, Apart, shelf, outside
<1>7. QED
  BY <1>1, <1>2, <1>3, <1>4, <1>5, <1>6

LEMMA DriftsTyped ==
  ASSUME TypeInv, Drifts
  PROVE  TypeInv'
BY DEF TypeInv, TypeOK, Equipped, Drifts, evidence, shelf

LEMMA InitTyped ==
  ASSUME Init
  PROVE  TypeInv
<1>1. 0 \in 0..MaxCrashes
  BY SequenceAssumption
<1>2. Stopped \in Processes
  BY DEF Stopped, Processes, Stations
<1>3. TypeOK
  BY <1>1, <1>2 DEF Init, TypeOK
<1>4. QED
  BY <1>3 DEF TypeInv, Init, Equipped, Stopped, Carrying

LEMMA TypeInvStep ==
  ASSUME TypeInv, [Next]_vars
  PROVE  TypeInv'
<1>1. ASSUME NEW i \in Invocations, Run(i) \/ (\E resume \in BOOLEAN : Launch(i, resume)) \/ Crash(i) \/ LateExit(i)
      PROVE  TypeInv'
  <2>1. TypeOK' /\ Equipped(i)' /\ Apart(i)
    BY <1>1, StartingTyped, AttemptsTyped, PackagingTyped, EndingTyped DEF Run
  <2>2. QED
    BY <2>1, OthersEquipped DEF TypeInv
<1>2. CASE UNCHANGED vars
  BY <1>2 DEF vars, evidence, shelf, outside, TypeInv, TypeOK, Equipped
<1>3. QED
  BY <1>1, <1>2, DriftsTyped DEF Next, Around

\* Every variable stays well typed however many invocations run side by side: no
\* execution, no archive number and no report is ever anything else than what
\* orchestrate.ts may write, and what a stage reads is there when it reads it.
THEOREM SequenceTypeCorrect == Spec => []TypeOK
<1>1. Spec => []TypeInv
  BY InitTyped, TypeInvStep, PTL DEF Spec
<1>2. TypeInv => TypeOK
  BY DEF TypeInv
<1>3. QED
  BY <1>1, <1>2, PTL

-----------------------------------------------------------------------------
(* Capacity                                                                *)

\* t tells the attempts of s, and completed only the last of them.
Kept(s, t) ==
  /\ Len(t.executions) = Len(s.executions)
  /\ \A k \in DOMAIN s.executions :
       /\ t.executions[k].attempt = s.executions[k].attempt
       /\ k # Last(s) /\ t.executions[k].status = "completed" => s.executions[k].status = "completed"

LEMMA KeptWithin ==
  ASSUME NEW s \in States, NEW t \in States, Within(s), Kept(s, t)
  PROVE  Within(t)
<1>1. /\ DOMAIN s.executions = 1..Len(s.executions) /\ Len(s.executions) \in Nat
      /\ DOMAIN t.executions = 1..Len(s.executions)
  <2>1. s.executions \in Seq(Executions) /\ t.executions \in Seq(Executions)
    BY DEF States
  <2>2. QED
    BY <2>1 DEF Kept
<1>2. \A a : ExecutionsOf(t, a) = ExecutionsOf(s, a)
  BY <1>1 DEF Kept, ExecutionsOf
<1>3. s # None
  BY NoneAssumption
<1>4. ASSUME NEW a \in Attempts, NEW k \in ExecutionsOf(t, a), NEW n \in ExecutionsOf(t, a), k < n
      PROVE  t.executions[k].status # "completed"
  <2>1. s.executions[k].status # "completed"
    BY <1>2, <1>3, <1>4 DEF Within
  <2>2. k \in 1..Len(s.executions) /\ n \in 1..Len(s.executions)
    BY <1>1 DEF ExecutionsOf
  <2>3. k # Last(s)
    BY <1>1, <1>4, <2>2 DEF Last
  <2>4. QED
    BY <1>1, <2>1, <2>2, <2>3 DEF Kept
<1>5. \A a \in Attempts : Cardinality(ExecutionsOf(t, a)) <= Capacity
  BY <1>2, <1>3 DEF Within
<1>6. QED
  BY <1>4, <1>5 DEF Within

StartedOn(s) == [s EXCEPT !.executions = Append(@, Execution(NextAttempt(s)))]

LEMMA StartedWithin ==
  ASSUME NEW s \in States, Within(s), ~AllCompleted(s), ~Exhausted(s, NextAttempt(s))
  PROVE  Within(StartedOn(s))
<1> DEFINE a == NextAttempt(s)
           t == StartedOn(s)
           new == Len(s.executions) + 1
<1>1. a \in Attempts /\ ~CompletedExecution(s, a)
  BY NextAttemptExists
<1>2. s.executions \in Seq(Executions) /\ s # None /\ Len(s.executions) \in Nat
      /\ DOMAIN s.executions = 1..Len(s.executions)
  BY NoneAssumption DEF States
<1>3. t.executions = Append(s.executions, Execution(a))
  BY <1>1, StartedTyped DEF StartedOn
<1>4. /\ DOMAIN t.executions = 1..new
      /\ \A k \in 1..Len(s.executions) : t.executions[k] = s.executions[k]
      /\ t.executions[new] = Execution(a)
  BY <1>2, <1>3
<1> HIDE DEF a, t
<1>5. Execution(a).attempt = a
  BY DEF Execution
<1>6. \A b : b # a => ExecutionsOf(t, b) = ExecutionsOf(s, b)
  BY <1>2, <1>4, <1>5 DEF ExecutionsOf
<1>7. ExecutionsOf(t, a) = ExecutionsOf(s, a) \cup {new}
  BY <1>2, <1>4, <1>5 DEF ExecutionsOf
<1>8. Cardinality(ExecutionsOf(t, a)) <= Capacity
  <2>1. IsFiniteSet(ExecutionsOf(s, a)) /\ Cardinality(ExecutionsOf(s, a)) \in Nat
        /\ ExecutionsOf(s, a) \subseteq 1..Len(s.executions)
    BY ExecutionsOfFinite
  <2>2. new \notin ExecutionsOf(s, a)
    BY <1>2, <2>1
  <2>3. Cardinality(ExecutionsOf(t, a)) = Cardinality(ExecutionsOf(s, a)) + 1
    BY <1>7, <2>1, <2>2, FS_AddElement
  <2>4. Capacity \in Nat
    BY SequenceAssumption DEF Capacity
  <2>5. ~(Cardinality(ExecutionsOf(s, a)) >= Capacity)
    BY DEF Exhausted, a
  <2>6. QED
    BY <2>1, <2>3, <2>4, <2>5
<1>9. ASSUME NEW k \in ExecutionsOf(t, a), NEW n \in ExecutionsOf(t, a), k < n
      PROVE  t.executions[k].status # "completed"
  <2>1. k \in 1..Len(s.executions)
    BY <1>2, <1>4, <1>9 DEF ExecutionsOf
  <2>2. k \in ExecutionsOf(s, a)
    BY <1>2, <1>7, <2>1
  <2>3. QED
    BY <1>1, <1>4, <2>1, <2>2 DEF CompletedExecution
<1>10. ASSUME NEW b \in Attempts, b # a
       PROVE  /\ Cardinality(ExecutionsOf(t, b)) <= Capacity
              /\ \A k, n \in ExecutionsOf(t, b) : k < n => t.executions[k].status # "completed"
  <2>1. ExecutionsOf(t, b) = ExecutionsOf(s, b) /\ ExecutionsOf(s, b) \subseteq 1..Len(s.executions)
    BY <1>6, <1>10, ExecutionsOfFinite
  <2>2. QED
    BY <1>2, <1>4, <2>1 DEF Within
<1>11. Within(t)
  BY <1>8, <1>9, <1>10 DEF Within
<1>12. QED
  BY <1>11 DEF t

\* What a step of i may write into the control state or keep in its memory.
Writes(i, t) ==
  \/ t \in {None, control, mem[i], Created}
  \/ mem[i] \in States /\ Kept(mem[i], t)
  \/ /\ mem[i] \in States /\ t = StartedOn(mem[i])
     /\ ~AllCompleted(mem[i]) /\ ~Exhausted(mem[i], NextAttempt(mem[i]))

\* A copy with the same executions is kept.
LEMMA SameKept ==
  ASSUME NEW s \in States, NEW t, t.executions = s.executions
  PROVE  Kept(s, t)
BY DEF Kept

\* The steps that write a control state back with the executions they read.
Rewrites(i) ==
  \/ LeaveLoop(i) \/ JudgeBudget(i) \/ Verdict(i) \/ ReportFailure(i) \/ Batch(i) \/ Evaluate(i)
  \/ BeginPackage(i) \/ WriteReceipt(i) \/ MarkCompleted(i) \/ Stage(i) \/ CommitArchive(i)
  \/ Supersede(i) \/ StageFails(i) \/ Abandon(i)

Copies(i) ==
  \/ control' = control /\ mem' = mem
  \/ mem[i] \in States /\ control' = mem[i] /\ mem' = mem
  \/ mem[i] \in States /\ \E t : t.executions = mem[i].executions /\ Persist(i, t)

LEMMA SameExecutions ==
  ASSUME TypeInv, NEW i \in Invocations, Rewrites(i)
  PROVE  Copies(i)
<1>0. mem \in [Invocations -> States \cup {None}] /\ TypeOK
  BY DEF TypeInv, TypeOK
<1>3. ASSUME NEW t, mem[i] \in States, t.executions = mem[i].executions, Persist(i, t)
      PROVE  Copies(i)
  BY <1>3 DEF Copies
<1>4. proc[i].pc \in Carrying => mem[i] \in States
  BY DEF TypeInv, Equipped
<1>5. ASSUME mem[i] \in States, Fail(i) PROVE Copies(i)
  <2>1. [mem[i] EXCEPT !.status = "failed"].executions = mem[i].executions
    BY <1>5 DEF States
  <2>2. QED
    BY <1>3, <1>5, <2>1 DEF Fail, FailWith
<1>6. \A v : /\ [mem[i] EXCEPT !.status = v].executions = mem[i].executions
             /\ [mem[i] EXCEPT !.aggregate = v].executions = mem[i].executions
             /\ [mem[i] EXCEPT !.superseded = v].executions = mem[i].executions
             /\ \A w : /\ [mem[i] EXCEPT !.status = v, !.archive = w].executions = mem[i].executions
                       /\ [[mem[i] EXCEPT !.superseded = v] EXCEPT !.status = w].executions = mem[i].executions
                       /\ \A u : [[mem[i] EXCEPT !.status = v, !.archive = w] EXCEPT !.status = u].executions
                                   = mem[i].executions
  OBVIOUS
<1>7. ASSUME LeaveLoop(i) \/ JudgeBudget(i) PROVE Copies(i)
  <2>1. proc[i].pc \in Carrying /\ UNCHANGED mem /\ control' \in {control, mem[i]}
    BY <1>7 DEF LeaveLoop, JudgeBudget, At, Carrying
  <2>2. QED
    BY <1>4, <2>1 DEF Copies
<1>8. ASSUME Verdict(i) \/ ReportFailure(i) \/ Batch(i) \/ Evaluate(i) \/ BeginPackage(i)
             \/ WriteReceipt(i) \/ MarkCompleted(i)
      PROVE  Copies(i)
  <2>1. mem[i] \in States
    BY <1>4, <1>8 DEF Verdict, ReportFailure, Batch, Evaluate, BeginPackage, WriteReceipt,
         MarkCompleted, At, Carrying
  <2>2. Fail(i) \/ \E t : t.executions = mem[i].executions /\ Persist(i, t)
    <3>1. CASE Verdict(i) \/ ReportFailure(i) \/ Batch(i) \/ Evaluate(i)
      BY <1>6, <3>1 DEF Verdict, ReportFailure, Batch, Evaluate
    <3>2. CASE BeginPackage(i) \/ WriteReceipt(i) \/ MarkCompleted(i)
      BY <1>6, <3>2 DEF BeginPackage, WriteReceipt, MarkCompleted, Packaged
    <3>3. QED
      BY <1>8, <3>1, <3>2
  <2>3. QED
    BY <1>3, <1>5, <2>1, <2>2
<1>9. ASSUME Stage(i) \/ CommitArchive(i)
      PROVE  Copies(i)
  <2>1. mem[i] \in States
    BY <1>4, <1>9 DEF Stage, CommitArchive, At, Carrying
  <2>2. Fail(i) \/ UNCHANGED <<control, mem>>
    BY <1>9 DEF Stage, CommitArchive
  <2>3. QED
    BY <1>5, <2>1, <2>2 DEF Copies
<1>10. ASSUME Supersede(i) \/ StageFails(i)
       PROVE  Copies(i)
  <2>1. mem[i] \in States
    BY <1>4, <1>10 DEF Supersede, StageFails, At, Carrying
  <2>2. \E t : t.executions = mem[i].executions /\ Persist(i, t)
    <3>1. CASE Supersede(i)
      BY <1>6, <3>1 DEF Supersede, FailWith
    <3>2. CASE StageFails(i)
      <4> DEFINE s == IF At(i, "complete") THEN Packaged(i) ELSE mem[i]
                 t == [s EXCEPT !.status = "failed"]
      <4>1. Persist(i, t)
        BY <3>2 DEF StageFails, FailWith
      <4>2. t.executions = mem[i].executions
        BY <1>6 DEF Packaged
      <4>3. QED
        BY <4>1, <4>2
    <3>3. QED
      BY <1>10, <3>1, <3>2
  <2>3. QED
    BY <1>3, <2>1, <2>2
<1>11. ASSUME Abandon(i) PROVE Copies(i)
  <2>1. CASE mem[i] # None /\ Persist(i, [mem[i] EXCEPT !.status = "failed"])
    <3>1. mem[i] \in States
      BY <1>0, <2>1
    <3>2. QED
      BY <1>3, <1>6, <2>1, <3>1
  <2>2. CASE UNCHANGED <<control, mem>>
    BY <2>2 DEF Copies
  <2>3. QED
    BY <1>11, <2>1, <2>2 DEF Abandon
<1>12. QED
  BY <1>7, <1>8, <1>9, <1>10, <1>11 DEF Rewrites

LEMMA WriteStep ==
  ASSUME TypeInv, NEW i \in Invocations,
         Run(i) \/ (\E resume \in BOOLEAN : Launch(i, resume)) \/ Crash(i) \/ LateExit(i)
  PROVE  Writes(i, control') /\ Writes(i, mem'[i])
<1>0. mem \in [Invocations -> States \cup {None}] /\ TypeOK
  BY DEF TypeInv, TypeOK
<1>1. ASSUME UNCHANGED control, mem' \in {mem, [mem EXCEPT ![i] = control], [mem EXCEPT ![i] = None]}
      PROVE  Writes(i, control') /\ Writes(i, mem'[i])
  BY <1>0, <1>1 DEF Writes
<1>2. ASSUME \/ \E resume \in BOOLEAN : Launch(i, resume)
             \/ Refuse(i) \/ Admit(i) \/ CreateLock(i) \/ ProbeHolder(i) \/ RemoveStaleLock(i)
             \/ RecreateLock(i) \/ ArchivePlan(i) \/ Preflight(i) \/ WriteInventory(i)
             \/ Recheck(i) \/ Throws(i) \/ Release(i) \/ Crash(i) \/ LateExit(i)
      PROVE  UNCHANGED control /\ mem' \in {mem, [mem EXCEPT ![i] = control], [mem EXCEPT ![i] = None]}
  BY <1>2 DEF Launch, Refuse, Admit, CreateLock, ProbeHolder, RemoveStaleLock, RecreateLock,
       ArchivePlan, Preflight, WriteInventory, Recheck, Throws, Release, Crash, LateExit
<1>3. ASSUME NEW t, mem[i] \in States, t.executions = mem[i].executions, Persist(i, t)
      PROVE  Writes(i, control') /\ Writes(i, mem'[i])
  <2>1. control' = t /\ mem'[i] = t
    BY <1>0, <1>3 DEF Persist
  <2>2. QED
    BY <1>3, <2>1, SameKept DEF Writes
<1>4. proc[i].pc \in Carrying => mem[i] \in States
  BY DEF TypeInv, Equipped
<1>6. ASSUME Rewrites(i) PROVE Writes(i, control') /\ Writes(i, mem'[i])
  BY <1>0, <1>3, <1>6, SameExecutions DEF Copies, Writes
<1>12. ASSUME CreateState(i) PROVE Writes(i, control') /\ Writes(i, mem'[i])
  BY <1>0, <1>12 DEF CreateState, Persist, Writes
<1>13. ASSUME StartExecution(i) PROVE Writes(i, control') /\ Writes(i, mem'[i])
  <2>1. /\ mem[i] \in States
        /\ ~AllCompleted(mem[i]) /\ ~Exhausted(mem[i], NextAttempt(mem[i]))
        /\ Persist(i, StartedOn(mem[i]))
    BY <1>4, <1>13 DEF StartExecution, StartedOn, At, Carrying
  <2>2. control' = StartedOn(mem[i]) /\ mem'[i] = StartedOn(mem[i])
    BY <1>0, <2>1 DEF Persist
  <2>3. QED
    BY <2>1, <2>2 DEF Writes
<1>14. ASSUME NEW t, mem[i] \in States, Kept(mem[i], t), control' \in {control, t},
              mem' = [mem EXCEPT ![i] = t]
       PROVE  Writes(i, control') /\ Writes(i, mem'[i])
  BY <1>0, <1>14 DEF Writes
<1>15. ASSUME ResumeState(i) PROVE Writes(i, control') /\ Writes(i, mem'[i])
  <2> DEFINE s == Interrupted(mem[i])
  <2>1. mem[i] \in States
    BY <1>0, <1>15 DEF ResumeState
  <2>2. PICK v : Persist(i, [s EXCEPT !.status = v])
    BY <1>15 DEF ResumeState
  <2>3. /\ Len(s.executions) = Len(mem[i].executions)
        /\ \A k \in DOMAIN mem[i].executions :
             /\ s.executions[k].attempt = mem[i].executions[k].attempt
             /\ s.executions[k].status = "completed" => mem[i].executions[k].status = "completed"
    BY <2>1, InterruptedTyped
  <2>4. s \in States
    BY <2>1, InterruptedTyped
  <2> HIDE DEF s
  <2>5. [s EXCEPT !.status = v].executions = s.executions
    BY <2>4 DEF States
  <2>6. Kept(mem[i], [s EXCEPT !.status = v])
    BY <2>3, <2>5 DEF Kept
  <2>7. QED
    BY <1>14, <2>1, <2>2, <2>6 DEF Persist
<1>16. ASSUME mem[i] \in States, mem[i].executions # <<>>, NEW e \in Executions,
              e.attempt = mem[i].executions[Last(mem[i])].attempt
       PROVE  Kept(mem[i], WithLast(mem[i], e))
  BY <1>16, WithLastTyped DEF Kept
<1>17. ASSUME Execute(i) \/ SealEscapes(i) \/ Judge(i)
       PROVE  Writes(i, control') /\ Writes(i, mem'[i])
  <2> DEFINE last == mem[i].executions[Last(mem[i])]
  <2>1. mem[i] \in States /\ mem[i].executions # <<>>
    BY <1>17 DEF Execute, SealEscapes, Judge, At, TypeInv, Equipped, Carrying
  <2>2. last \in Executions
    BY <2>1 DEF States, Last
  <2>3. CASE Execute(i)
    <3>1. PICK end : /\ end \in {Ended(last, "completed", None)} \cup
                         {Ended(last, "failed", r) : r \in Reasons \cup {"execution-seal-failed"}}
                     /\ Persist(i, WithLast(mem[i], FreezeRechecked(end)))
      BY <2>3 DEF Execute
    <3>2. end \in Executions /\ end.attempt = last.attempt
      <4>1. \A status, r : Ended(last, status, r).attempt = last.attempt
        BY <2>2 DEF Ended, Executions
      <4>2. \A r \in Reasons \cup {"execution-seal-failed"} :
              Ended(last, "failed", r) \in Executions
        BY <2>2, EndedTyped DEF Classes
      <4>3. Ended(last, "completed", None) \in Executions
        BY <2>2, EndedTyped
      <4>4. QED
        BY <3>1, <4>1, <4>2, <4>3
    <3>3. FreezeRechecked(end) \in Executions /\ FreezeRechecked(end).attempt = last.attempt
      BY <3>2, EndedTyped DEF FreezeRechecked, Classes, Ended, Executions
    <3>4. Kept(mem[i], WithLast(mem[i], FreezeRechecked(end)))
      BY <1>16, <2>1, <3>3
    <3>5. QED
      BY <1>14, <2>1, <3>1, <3>4 DEF Persist
  <2>4. CASE SealEscapes(i)
    <3>1. PICK r \in Reasons \cup {"execution-seal-failed"} :
            mem' = [mem EXCEPT ![i] = WithLast(@,
                      [Ended(@.executions[Last(@)], "failed", r) EXCEPT !.seal = None])]
      BY <2>4 DEF SealEscapes
    <3> DEFINE e == [Ended(last, "failed", r) EXCEPT !.seal = None]
    <3>2. e \in Executions /\ e.attempt = last.attempt
      BY <2>2, EndedTyped DEF Classes, Ended, Executions
    <3>3. UNCHANGED control /\ mem' = [mem EXCEPT ![i] = WithLast(mem[i], e)]
      BY <2>4, <3>1 DEF SealEscapes
    <3> HIDE DEF e
    <3>4. Kept(mem[i], WithLast(mem[i], e))
      BY <1>16, <2>1, <3>2
    <3>5. QED
      BY <1>14, <2>1, <3>3, <3>4
  <2>5. CASE Judge(i)
    <3> DEFINE d == Disposition(last.failureReason, Cardinality(ExecutionsOf(mem[i], last.attempt)))
               e == [last EXCEPT !.disposition = d]
    <3>1. CASE UNCHANGED <<control, mem>>
      BY <3>1 DEF Writes
    <3>2. CASE Persist(i, WithLast(mem[i], e))
      <4>1. d \in {"permitted", "forbidden", "exhausted"}
        BY <2>1, ExecutionsOfFinite, DispositionTyped
      <4> HIDE DEF d
      <4>2. e \in Executions /\ e.attempt = last.attempt
        BY <2>2, <4>1 DEF Executions
      <4> HIDE DEF e
      <4>3. Kept(mem[i], WithLast(mem[i], e))
        BY <1>16, <2>1, <4>2
      <4>4. QED
        BY <1>14, <2>1, <3>2, <4>3 DEF Persist
    <3>3. QED
      BY <2>5, <3>1, <3>2 DEF Judge
  <2>6. QED
    BY <1>17, <2>3, <2>4, <2>5
<1>18. QED
  BY <1>1, <1>2, <1>6, <1>12, <1>13, <1>15, <1>17 DEF Run, Rewrites

LEMMA CapacityStep ==
  ASSUME TypeInv, TypeInv', CapacityInv, [Next]_vars
  PROVE  CapacityInv'
<1>1. Within(Created) /\ Within(None)
  <2>1. \A a : ExecutionsOf(Created, a) = {}
    BY DEF Created, ExecutionsOf
  <2>2. Cardinality({}) <= Capacity
    BY FS_EmptySet, SequenceAssumption DEF Capacity
  <2>3. QED
    BY <2>1, <2>2 DEF Within
<1>2. ASSUME NEW i \in Invocations, NEW t \in States \cup {None}, Writes(i, t)
      PROVE  Within(t)
  <2>1. CASE t \in {None, control, mem[i], Created}
    BY <1>1, <2>1 DEF CapacityInv
  <2>2. CASE t # None /\ mem[i] \in States /\ Kept(mem[i], t)
    BY <1>2, <2>2, KeptWithin DEF CapacityInv
  <2>3. CASE /\ mem[i] \in States /\ t = StartedOn(mem[i])
             /\ ~AllCompleted(mem[i]) /\ ~Exhausted(mem[i], NextAttempt(mem[i]))
    BY <2>3, StartedWithin DEF CapacityInv
  <2>4. QED
    BY <1>2, <2>1, <2>2, <2>3 DEF Writes
<1>3. ASSUME NEW i \in Invocations,
             Run(i) \/ (\E resume \in BOOLEAN : Launch(i, resume)) \/ Crash(i) \/ LateExit(i)
      PROVE  CapacityInv'
  <2>1. Writes(i, control') /\ Writes(i, mem'[i])
    BY <1>3, WriteStep
  <2>2. Apart(i)
    BY <1>3, StartingTyped, AttemptsTyped, PackagingTyped, EndingTyped DEF Run
  <2>3. control' \in States \cup {None} /\ mem'[i] \in States \cup {None}
    BY DEF TypeInv, TypeOK
  <2>4. Within(control') /\ Within(mem'[i])
    BY <1>2, <2>1, <2>3
  <2>5. \A j \in Invocations \ {i} : Within(mem'[j])
    BY <2>2 DEF Apart, CapacityInv
  <2>6. QED
    BY <2>4, <2>5 DEF CapacityInv
<1>4. CASE UNCHANGED <<control, mem>>
  BY <1>4 DEF CapacityInv
<1>5. QED
  BY <1>3, <1>4 DEF Next, Around, Drifts, vars

\* However crashes, resumes and even overlapping invocations interleave, the control
\* state never gives an attempt more executions than registered, nor one after an execution
\* that completed: an invocation writes only what it read, and checks it before it appends.
THEOREM CapacityKept == Spec => []CapacityHeld
<1>1. Init => CapacityInv
  BY DEF Init, CapacityInv, Within
<1>2. Spec => [](TypeInv /\ CapacityInv)
  <2>1. Init => TypeInv
    BY InitTyped
  <2>2. TypeInv /\ CapacityInv /\ [Next]_vars => TypeInv' /\ CapacityInv'
    BY TypeInvStep, CapacityStep
  <2>3. QED
    BY <1>1, <2>1, <2>2, PTL DEF Spec
<1>3. CapacityInv => CapacityHeld
  BY DEF CapacityInv, Within, CapacityHeld
<1>4. QED
  BY <1>2, <1>3, PTL

-----------------------------------------------------------------------------
(* The writer lock                                                         *)

\* i goes on to st, the others stay where they are.
Moves(i, st) ==
  /\ proc'[i].pc = st /\ proc'[i].path = proc[i].path
  /\ \A j \in Invocations \ {i} : proc'[j] = proc[j]

GoesTo(i, st) ==
  \/ Goto(i, st)
  \/ \E v : MoveFailed(i, st, v)
  \/ \E v : MoveStop(i, st, v)
  \/ \E v : MoveSlot(i, st, v)

LEMMA MovesOn ==
  ASSUME TypeOK, NEW i \in Invocations, NEW st, GoesTo(i, st)
  PROVE  Moves(i, st)
<1>1. proc \in [Invocations -> Processes] /\ proc[i] \in Processes
  BY DEF TypeOK
<1>2. CASE Goto(i, st)
  BY <1>1, <1>2 DEF Goto, Moves, Processes
<1>3. ASSUME NEW v, MoveFailed(i, st, v) PROVE Moves(i, st)
  BY <1>1, <1>3 DEF MoveFailed, Moves, Processes
<1>4. ASSUME NEW v, MoveStop(i, st, v) PROVE Moves(i, st)
  BY <1>1, <1>4 DEF MoveStop, Moves, Processes
<1>5. ASSUME NEW v, MoveSlot(i, st, v) PROVE Moves(i, st)
  BY <1>1, <1>5 DEF MoveSlot, Moves, Processes
<1>6. QED
  BY <1>2, <1>3, <1>4, <1>5 DEF GoesTo

\* The steps an invocation takes between the lock and its release, but for WriteInventory.
Works(i) ==
  \/ ArchivePlan(i) \/ CreateState(i) \/ ResumeState(i) \/ Preflight(i)
  \/ LeaveLoop(i) \/ StartExecution(i) \/ Execute(i) \/ SealEscapes(i)
  \/ JudgeBudget(i) \/ Judge(i) \/ Verdict(i) \/ ReportFailure(i)
  \/ Batch(i) \/ Evaluate(i)
  \/ BeginPackage(i) \/ Stage(i) \/ CommitArchive(i) \/ WriteReceipt(i) \/ MarkCompleted(i)
  \/ Recheck(i) \/ Supersede(i)
  \/ Throws(i) \/ StageFails(i) \/ Abandon(i)

\* Which station may follow which.
Follows(i, st) ==
  /\ st # proc[i].pc
  /\ \/ st = "release" /\ proc[i].pc \in Open \cup Packing \cup Rereading \cup {"package"}
     \/ proc[i].pc \in Open /\ st \in (Open \ {"inventory"}) \cup {"package"}
     \/ At(i, "package") /\ inventory = None /\ st = "inventory"
     \/ At(i, "package") /\ inventory # None /\ st = "zip"
     \/ proc[i].pc \in Packing /\ st \in Packing
     \/ At(i, "recheck") /\ st = "supersede"
     \/ At(i, "supersede") /\ st = "package"

LEMMA WorkMoves ==
  ASSUME TypeInv, NEW i \in Invocations, Works(i)
  PROVE  /\ \E st : Moves(i, st) /\ Follows(i, st)
         /\ lock' = lock
         /\ inventory = None <=> inventory' = None
<1>1. TypeOK
  BY DEF TypeInv
<1>2. lock' = lock
  BY DEF Works, ArchivePlan, CreateState, ResumeState, Preflight, LeaveLoop, StartExecution, Execute,
     SealEscapes, JudgeBudget, Judge, Verdict, ReportFailure, Batch, Evaluate, BeginPackage, Stage,
     CommitArchive, WriteReceipt, MarkCompleted, Recheck, Supersede, Throws, StageFails, Abandon
<1>3. inventory = None <=> inventory' = None
  <2>1. Spoiled # None <=> inventory # None
    BY <1>1, NoneAssumption DEF Spoiled, TypeOK, Inventories
  <2>2. UNCHANGED inventory \/ inventory' = Spoiled
    <3>1. CASE ArchivePlan(i) \/ CreateState(i) \/ ResumeState(i) \/ Preflight(i) \/ LeaveLoop(i)
               \/ StartExecution(i) \/ Execute(i) \/ SealEscapes(i) \/ JudgeBudget(i) \/ Judge(i)
               \/ Verdict(i) \/ ReportFailure(i)
      BY <3>1 DEF ArchivePlan, CreateState, ResumeState, Preflight, LeaveLoop, StartExecution, Execute,
         SealEscapes, JudgeBudget, Judge, Verdict, ReportFailure, TouchRoot, FillRoot, WriteReport, evidence
    <3>2. CASE Batch(i) \/ Evaluate(i) \/ BeginPackage(i) \/ Stage(i) \/ CommitArchive(i)
               \/ WriteReceipt(i) \/ MarkCompleted(i) \/ Recheck(i) \/ Supersede(i) \/ Throws(i)
               \/ StageFails(i) \/ Abandon(i)
      BY <3>2 DEF Batch, Evaluate, BeginPackage, Stage, CommitArchive, WriteReceipt, MarkCompleted,
         Recheck, Supersede, Throws, StageFails, Abandon, TouchRoot, WriteReport, evidence
    <3>3. QED
      BY <3>1, <3>2 DEF Works
  <2>3. QED
    BY <2>1, <2>2
<1> SUFFICES \E st : Moves(i, st) /\ Follows(i, st)
  BY <1>2, <1>3
<1>4. ASSUME NEW st, GoesTo(i, st), Follows(i, st)
      PROVE  \E to : Moves(i, to) /\ Follows(i, to)
  BY <1>1, <1>4, MovesOn
<1>5. ASSUME NEW failed, LoopEnds(i, failed) PROVE GoesTo(i, "verdict")
  BY <1>5 DEF LoopEnds, MoveFailed, GoesTo
<1>6. ASSUME NEW st, Goto(i, st) PROVE GoesTo(i, st)
  BY <1>6 DEF GoesTo
<1>7. CASE ArchivePlan(i) \/ CreateState(i) \/ Preflight(i) \/ StartExecution(i)
           \/ Execute(i) \/ SealEscapes(i) \/ ReportFailure(i) \/ Batch(i) \/ Evaluate(i)
  <2>1. PICK st : /\ Goto(i, st) /\ proc[i].pc \in Open /\ st # proc[i].pc
                  /\ st \in (Open \ {"inventory"}) \cup {"package", "release"}
    <3>1. CASE Batch(i) \/ Evaluate(i)
      <4>1. proc[i].pc \in {"batch", "evaluate"}
        BY <3>1 DEF Batch, Evaluate, At
      <4>2. \/ Goto(i, "release") \/ Goto(i, "package")
            \/ At(i, "batch") /\ Goto(i, "evaluate")
        BY <3>1 DEF Batch, Evaluate, Fail, FailWith
      <4>3. QED
        BY <4>1, <4>2 DEF At, Open
    <3>2. CASE ArchivePlan(i) \/ CreateState(i) \/ Preflight(i) \/ StartExecution(i)
      BY <3>2 DEF ArchivePlan, CreateState, Preflight, StartExecution, At, Open
    <3>3. CASE Execute(i) \/ SealEscapes(i) \/ ReportFailure(i)
      <4>1. proc[i].pc \in {"executing", "report"}
        BY <3>3 DEF Execute, SealEscapes, ReportFailure, At
      <4>2. Goto(i, "release") \/ Goto(i, "judge") \/ Goto(i, "abandon")
        BY <3>3 DEF Execute, SealEscapes, ReportFailure
      <4>3. QED
        BY <4>1, <4>2 DEF Open
    <3>4. QED
      BY <1>7, <3>1, <3>2, <3>3
  <2>2. Follows(i, st)
    BY <2>1 DEF Follows
  <2>3. QED
    BY <1>4, <1>6, <2>1, <2>2
<1>8. CASE LeaveLoop(i) \/ JudgeBudget(i) \/ Judge(i)
  <2>1. Goto(i, "next") \/ \E failed : LoopEnds(i, failed)
    BY <1>8 DEF LeaveLoop, JudgeBudget, Judge
  <2>2. \/ At(i, "judge")
        \/ At(i, "next") /\ \E failed : LoopEnds(i, failed)
    BY <1>8 DEF LeaveLoop, JudgeBudget, Judge
  <2>3. /\ At(i, "judge") => Follows(i, "next") /\ Follows(i, "verdict")
        /\ At(i, "next") => Follows(i, "verdict")
    BY DEF At, Follows, Open
  <2>4. QED
    BY <1>4, <1>5, <1>6, <2>1, <2>2, <2>3
<1>9. CASE Stage(i) \/ CommitArchive(i) \/ WriteReceipt(i) \/ MarkCompleted(i)
  <2>1. PICK st \in Packing \cup {"release"} : Goto(i, st) /\ st # proc[i].pc
    BY <1>9 DEF Stage, CommitArchive, WriteReceipt, MarkCompleted, Fail, FailWith, At, Packing
  <2>2. proc[i].pc \in Packing
    BY <1>9 DEF Stage, CommitArchive, WriteReceipt, MarkCompleted, At, Packing
  <2>3. QED
    BY <1>4, <1>6, <2>1, <2>2 DEF Follows
<1>10. CASE Recheck(i) \/ Supersede(i)
  <2>1. PICK st : Goto(i, st) /\ st \in IF Recheck(i) THEN {"supersede", "release"} ELSE {"package", "release"}
    BY <1>10 DEF Recheck, Supersede, FailWith
  <2>2. Follows(i, st)
    BY <1>10, <2>1 DEF Recheck, Supersede, At, Follows, Rereading
  <2>3. QED
    BY <1>4, <1>6, <2>1, <2>2
<1>11. CASE Throws(i) \/ StageFails(i) \/ Abandon(i)
  <2>1. PICK st : Goto(i, st) /\ st = IF Throws(i) THEN "abandon" ELSE "release"
    BY <1>11 DEF Throws, StageFails, Abandon, FailWith
  <2>2. Follows(i, st)
    <3>1. CASE Throws(i)
      BY <2>1, <3>1 DEF Throws, Follows, Open
    <3>2. CASE ~Throws(i)
      BY <1>11, <2>1, <3>2 DEF StageFails, Abandon, At, Follows, Open, Packing, Rereading
    <3>3. QED
      BY <3>1, <3>2
  <2>3. QED
    BY <1>4, <1>6, <2>1, <2>2
<1>12. CASE ResumeState(i)
  <2>1. PICK st \in {"verdict", "preflight"} : \E v : MoveFailed(i, st, v)
    BY <1>12 DEF ResumeState, MoveFailed
  <2>2. Follows(i, st)
    BY <1>12 DEF ResumeState, At, Follows, Open
  <2>3. QED
    BY <1>4, <2>1, <2>2 DEF GoesTo
<1>13. CASE Verdict(i)
  <2>1. PICK st \in {"report", "batch"} : \E v : MoveStop(i, st, v)
    BY <1>13 DEF Verdict, MoveStop
  <2>2. Follows(i, st)
    BY <1>13 DEF Verdict, At, Follows, Open
  <2>3. QED
    BY <1>4, <2>1, <2>2 DEF GoesTo
<1>14. CASE BeginPackage(i)
  <2>1. At(i, "package")
    BY <1>14 DEF BeginPackage
  <2>2. CASE Goto(i, "release")
    <3>1. Follows(i, "release")
      BY <2>1 DEF At, Follows
    <3>2. QED
      BY <1>4, <1>6, <2>2, <3>1
  <2>3. CASE \E slot : MoveSlot(i, IF inventory = None THEN "inventory" ELSE "zip", slot)
    <3>1. PICK st : /\ \E slot : MoveSlot(i, st, slot)
                    /\ st = IF inventory = None THEN "inventory" ELSE "zip"
      BY <2>3
    <3>2. Follows(i, st)
      <4>1. CASE inventory = None
        BY <2>1, <3>1, <4>1 DEF At, Follows
      <4>2. CASE inventory # None
        BY <2>1, <3>1, <4>2 DEF At, Follows
      <4>3. QED
        BY <4>1, <4>2
    <3>3. QED
      BY <1>4, <3>1, <3>2 DEF GoesTo
  <2>4. QED
    BY <1>14, <2>2, <2>3 DEF BeginPackage, Fail, FailWith, MoveSlot
<1>15. QED
  BY <1>7, <1>8, <1>9, <1>10, <1>11, <1>12, <1>13, <1>14 DEF Works

\* Only steps at work write the control state, and it is what they hold in memory then.
LEMMA ControlStep ==
  ASSUME TypeInv, TypeInv', NEW i \in Invocations,
         Run(i) \/ (\E resume \in BOOLEAN : Launch(i, resume)) \/ Crash(i) \/ LateExit(i)
  PROVE  \/ control' = control
         \/ Works(i) /\ control' \in States /\ control' = mem'[i]
<1>0. TypeOK /\ mem \in [Invocations -> States \cup {None}]
  BY DEF TypeInv, TypeOK
<1>1. ASSUME NEW t, Persist(i, t) PROVE control' = t /\ mem'[i] = t
  BY <1>0, <1>1 DEF Persist
<1>2. proc[i].pc \in Carrying => mem[i] \in States
  BY DEF TypeInv, Equipped
<1>3. proc'[i].pc \in Carrying => mem'[i] \in States
  BY DEF TypeInv, Equipped
<1>4. ASSUME \/ \E resume \in BOOLEAN : Launch(i, resume)
             \/ Refuse(i) \/ Admit(i) \/ CreateLock(i) \/ ProbeHolder(i) \/ RemoveStaleLock(i)
             \/ RecreateLock(i) \/ ArchivePlan(i) \/ Preflight(i) \/ WriteInventory(i)
             \/ Recheck(i) \/ Throws(i) \/ Release(i) \/ Crash(i) \/ LateExit(i) \/ SealEscapes(i)
      PROVE  control' = control
  BY <1>4 DEF Launch, Refuse, Admit, CreateLock, ProbeHolder, RemoveStaleLock, RecreateLock,
     ArchivePlan, Preflight, WriteInventory, Recheck, Throws, Release, Crash, LateExit, SealEscapes
<1>5. ASSUME NEW s \in States, FailWith(i, s)
      PROVE  control' \in States /\ control' = mem'[i]
  BY <1>1, <1>5 DEF FailWith, States
<1>6. CASE CreateState(i) \/ ResumeState(i) \/ StartExecution(i) \/ Execute(i) \/ Verdict(i)
  <2>1. \E t : Persist(i, t)
    BY <1>6 DEF CreateState, ResumeState, StartExecution, Execute, Verdict
  <2>2. \E st \in Carrying : GoesTo(i, st)
    <3>1. CASE CreateState(i) \/ StartExecution(i) \/ Execute(i)
      BY <3>1 DEF CreateState, StartExecution, Execute, GoesTo, Carrying
    <3>2. CASE ResumeState(i)
      <4>1. \E st \in {"verdict", "preflight"} : \E v : MoveFailed(i, st, v)
        BY <3>2 DEF ResumeState, MoveFailed
      <4>2. QED
        BY <4>1 DEF GoesTo, Carrying
    <3>3. CASE Verdict(i)
      <4>1. \E st \in {"report", "batch"} : \E v : MoveStop(i, st, v)
        BY <3>3 DEF Verdict, MoveStop
      <4>2. QED
        BY <4>1 DEF GoesTo, Carrying
    <3>4. QED
      BY <1>6, <3>1, <3>2, <3>3
  <2>3. proc'[i].pc \in Carrying
    BY <1>0, <2>2, MovesOn DEF Moves
  <2>4. QED
    BY <1>1, <1>3, <1>6, <2>1, <2>3 DEF Works
<1>7. CASE LeaveLoop(i) \/ JudgeBudget(i)
  <2>1. proc[i].pc \in Carrying /\ UNCHANGED mem /\ control' \in {control, mem[i]}
    BY <1>7 DEF LeaveLoop, JudgeBudget, At, Carrying
  <2>2. QED
    BY <1>2, <1>7, <2>1 DEF Works
<1>8. CASE Judge(i)
  <2>1. UNCHANGED control \/ \E t : Persist(i, t)
    BY <1>8 DEF Judge
  <2>2. Goto(i, "next") \/ LoopEnds(i, TRUE)
    BY <1>8 DEF Judge
  <2>3. GoesTo(i, "next") \/ GoesTo(i, "verdict")
    BY <2>2 DEF GoesTo, LoopEnds, MoveFailed
  <2>4. proc'[i].pc \in Carrying
    BY <1>0, <2>3, MovesOn DEF Moves, Carrying
  <2>5. QED
    BY <1>1, <1>3, <1>8, <2>1, <2>4 DEF Works
<1>9. CASE Stage(i) \/ CommitArchive(i)
  <2>1. proc[i].pc \in Carrying /\ (UNCHANGED control \/ Fail(i))
    BY <1>9 DEF Stage, CommitArchive, At, Carrying
  <2>2. QED
    BY <1>2, <1>5, <1>9, <2>1 DEF Works, Fail
<1>10. CASE Batch(i) \/ Evaluate(i) \/ WriteReceipt(i)
  <2>1. proc[i].pc \in Carrying
    BY <1>10 DEF Batch, Evaluate, WriteReceipt, At, Carrying
  <2>2. \/ Fail(i)
        \/ /\ \E t : Persist(i, t)
           /\ Goto(i, "evaluate") \/ Goto(i, "package") \/ Goto(i, "complete")
    BY <1>10 DEF Batch, Evaluate, WriteReceipt
  <2>3. CASE Fail(i)
    BY <1>2, <1>5, <1>10, <2>1, <2>3 DEF Works, Fail
  <2>4. CASE \E t : Persist(i, t) /\ (Goto(i, "evaluate") \/ Goto(i, "package") \/ Goto(i, "complete"))
    <3>1. GoesTo(i, "evaluate") \/ GoesTo(i, "package") \/ GoesTo(i, "complete")
      BY <2>4 DEF GoesTo
    <3>2. proc'[i].pc \in Carrying
      BY <1>0, <3>1, MovesOn DEF Moves, Carrying
    <3>3. QED
      BY <1>1, <1>3, <1>10, <2>4, <3>2 DEF Works
  <2>5. QED
    BY <2>2, <2>3, <2>4
<1>11. CASE BeginPackage(i)
  <2>1. proc[i].pc \in Carrying
    BY <1>11 DEF BeginPackage, At, Carrying
  <2>2. CASE Fail(i)
    BY <1>2, <1>5, <1>11, <2>1, <2>2 DEF Works, Fail
  <2>3. CASE /\ \E t : Persist(i, t)
             /\ \E slot : MoveSlot(i, IF inventory = None THEN "inventory" ELSE "zip", slot)
    <3>1. GoesTo(i, "inventory") \/ GoesTo(i, "zip")
      BY <2>3 DEF GoesTo
    <3>2. proc'[i].pc \in Carrying
      BY <1>0, <3>1, MovesOn DEF Moves, Carrying
    <3>3. QED
      BY <1>1, <1>3, <1>11, <2>3, <3>2 DEF Works
  <2>4. QED
    BY <1>11, <2>2, <2>3 DEF BeginPackage, MoveSlot
<1>12. CASE MarkCompleted(i) \/ ReportFailure(i) \/ StageFails(i)
  <2>1. mem[i] \in States
    BY <1>2, <1>12 DEF MarkCompleted, ReportFailure, StageFails, At, Carrying
  <2>2. At(i, "complete") => Packaged(i) \in States
    <3>1. At(i, "complete") => proc[i].slot \in Slots
      BY DEF TypeInv, Equipped, At
    <3>2. QED
      BY <2>1, <3>1 DEF Packaged, States
  <2>3. CASE MarkCompleted(i)
    BY <1>1, <2>2, <2>3 DEF MarkCompleted, Works
  <2>4. CASE ReportFailure(i)
    BY <1>1, <2>1, <2>4 DEF ReportFailure, Works
  <2>5. CASE StageFails(i)
    <3>1. \E s \in States : FailWith(i, s)
      BY <2>1, <2>2, <2>5 DEF StageFails
    <3>2. QED
      BY <1>5, <2>5, <3>1 DEF Works
  <2>6. QED
    BY <1>12, <2>3, <2>4, <2>5
<1>13. CASE Supersede(i)
  <2>1. mem[i] \in States
    BY <1>2, <1>13 DEF Supersede, At, Carrying
  <2> DEFINE s == [mem[i] EXCEPT !.superseded = @ \cup Unreceipted]
  <2>2. s \in States
    BY <2>1 DEF States, Unreceipted
  <2>3. FailWith(i, s) \/ Persist(i, [s EXCEPT !.status = "packaging"])
    BY <1>13 DEF Supersede
  <2> HIDE DEF s
  <2>4. [s EXCEPT !.status = "packaging"] \in States
    BY <2>2 DEF States
  <2>5. QED
    BY <1>1, <1>5, <1>13, <2>2, <2>3, <2>4 DEF Works
<1>14. CASE Abandon(i)
  <2>1. CASE UNCHANGED control
    BY <2>1
  <2>2. CASE mem[i] # None /\ Persist(i, [mem[i] EXCEPT !.status = "failed"])
    <3>1. [mem[i] EXCEPT !.status = "failed"] \in States
      BY <1>0, <2>2 DEF States
    <3>2. QED
      BY <1>1, <1>14, <2>2, <3>1 DEF Works
  <2>3. QED
    BY <1>14, <2>1, <2>2 DEF Abandon
<1>15. QED
  BY <1>4, <1>6, <1>7, <1>8, <1>9, <1>10, <1>11, <1>12, <1>13, <1>14 DEF Run

\* Only WriteInventory makes an inventory appear; none disappears.
LEMMA InventoryAppears ==
  ASSUME TypeInv, NEW i \in Invocations,
         Run(i) \/ (\E resume \in BOOLEAN : Launch(i, resume)) \/ Crash(i) \/ LateExit(i)
  PROVE  (inventory = None <=> inventory' = None) \/ WriteInventory(i)
<1>1. Spoiled # None <=> inventory # None
  BY NoneAssumption DEF Spoiled, TypeInv, TypeOK, Inventories
<1>2. ASSUME \/ \E resume \in BOOLEAN : Launch(i, resume)
             \/ Refuse(i) \/ Admit(i) \/ CreateLock(i) \/ ProbeHolder(i) \/ RemoveStaleLock(i)
             \/ RecreateLock(i) \/ Release(i) \/ Crash(i) \/ LateExit(i)
      PROVE  UNCHANGED inventory \/ inventory' = Spoiled
  BY <1>2 DEF Launch, Refuse, Admit, CreateLock, ProbeHolder, RemoveStaleLock, RecreateLock,
     Release, Crash, LateExit, TouchRoot, evidence
<1>3. QED
  BY <1>1, <1>2, WorkMoves DEF Run, Works

\* Starting, ending and asking for the lock lead nowhere near the control state.
LEMMA OuterMoves ==
  ASSUME TypeInv, NEW i \in Invocations, ~Works(i),
         Run(i) \/ (\E resume \in BOOLEAN : Launch(i, resume)) \/ Crash(i) \/ LateExit(i)
  PROVE  proc'[i].pc \notin Carrying \/ proc[i].pc \in Carrying
<1>1. TypeOK /\ proc \in [Invocations -> Processes]
  BY DEF TypeInv, TypeOK
<1>2. CASE CreateLock(i) \/ ProbeHolder(i) \/ RemoveStaleLock(i) \/ RecreateLock(i)
  <2>1. Leave(i) \/ \E st \in {"recheck", "setup", "holder", "steal", "relock", "abandon"} : GoesTo(i, st)
    BY <1>2 DEF CreateLock, ProbeHolder, RemoveStaleLock, RecreateLock, LockThrows, Entry, GoesTo
  <2>2. QED
    BY <1>1, <2>1, LeaveTyped, MovesOn DEF Moves, Stopped, Carrying
<1>3. CASE Refuse(i) \/ Release(i) \/ Crash(i)
  BY <1>1, <1>3, LeaveTyped DEF Refuse, Release, Crash, Stopped, Carrying
<1>4. CASE \E resume \in BOOLEAN : Launch(i, resume)
  <2>1. PICK resume \in BOOLEAN : proc' = [proc EXCEPT ![i] = [Stopped EXCEPT !.pc = "gates", !.resume = resume]]
    BY <1>4 DEF Launch
  <2>2. proc'[i].pc = "gates"
    BY <1>1, <2>1 DEF Stopped
  <2>3. QED
    BY <2>2 DEF Carrying
<1>5. CASE Admit(i)
  BY <1>1, <1>5 DEF Admit, Processes, Carrying
<1>6. CASE WriteInventory(i) \/ LateExit(i)
  BY <1>6 DEF WriteInventory, LateExit, At, Carrying
<1>7. QED
  BY <1>2, <1>3, <1>4, <1>5, <1>6 DEF Run, Works

LEMMA FoundStep ==
  ASSUME TypeInv, TypeInv', FoundInv, [Next]_vars
  PROVE  FoundInv'
<1>1. ASSUME NEW i \in Invocations,
             Run(i) \/ (\E resume \in BOOLEAN : Launch(i, resume)) \/ Crash(i) \/ LateExit(i)
      PROVE  FoundInv'
  <2>1. Apart(i)
    BY <1>1, StartingTyped, AttemptsTyped, PackagingTyped, EndingTyped DEF Run
  <2>2. control # None => control' # None
    BY <1>1, ControlStep, NoneAssumption
  <2>3. inventory' # None /\ inventory = None => proc[i].pc = "inventory"
    BY <1>1, InventoryAppears DEF WriteInventory, At
  <2>4. ASSUME proc'[i].pc \in Carrying, proc[i].pc \notin Carrying PROVE control' # None
    <3>1. mem \in [Invocations -> States \cup {None}] /\ TypeOK
      BY DEF TypeInv, TypeOK
    <3>2. CASE CreateState(i) \/ ResumeState(i)
      <4>1. \E t : Persist(i, t)
        BY <3>2 DEF CreateState, ResumeState
      <4>2. control' = mem'[i]
        BY <3>1, <4>1 DEF Persist
      <4>3. QED
        BY <2>4, <4>2, NoneAssumption DEF TypeInv, Equipped
    <3>3. CASE Recheck(i)
      <4>1. CASE Goto(i, "release")
        BY <2>4, <3>1, <4>1, MovesOn DEF GoesTo, Moves, Carrying
      <4>2. CASE control # None /\ UNCHANGED control
        BY <4>2
      <4>3. QED
        BY <3>3, <4>1, <4>2 DEF Recheck
    <3>4. CASE ArchivePlan(i) \/ Throws(i) \/ Abandon(i)
      <4>1. \E st \in {"open", "abandon", "release"} : GoesTo(i, st)
        BY <3>4 DEF ArchivePlan, Throws, Abandon, GoesTo
      <4>2. QED
        BY <2>4, <3>1, <4>1, MovesOn DEF Moves, Carrying
    <3>5. CASE Works(i)
      BY <2>4, <3>2, <3>3, <3>4, <3>5 DEF Works, Preflight, LeaveLoop, StartExecution, Execute,
         SealEscapes, JudgeBudget, Judge, Verdict, ReportFailure, Batch, Evaluate, BeginPackage, Stage,
         CommitArchive, WriteReceipt, MarkCompleted, Supersede, StageFails, At, Carrying
    <3>6. CASE ~Works(i)
      <4>1. proc'[i].pc \notin Carrying \/ proc[i].pc \in Carrying
        BY <1>1, <3>6, OuterMoves
      <4>2. QED
        BY <2>4, <4>1
    <3>7. QED
      BY <3>5, <3>6
  <2>5. QED
    BY <2>1, <2>2, <2>3, <2>4 DEF FoundInv, Apart, Carrying
<1>2. CASE UNCHANGED <<control, proc, inventory>>
  BY <1>2 DEF FoundInv
<1>3. QED
  BY <1>1, <1>2 DEF Next, Around, Drifts, vars, evidence

LockedInv == FoundInv /\ LockInv /\ PathInv

\* A step of i past the lock that leaves the lock and the inventory alone.
LEMMA InnerMove ==
  ASSUME LockInv, PathInv, NEW i \in Invocations, NEW st, Moves(i, st),
         lock' = lock, inventory = None <=> inventory' = None,
         ~Outside(i), ~Outside(i)', PathOf(i)'
  PROVE  LockInv' /\ PathInv'
<1>1. \A j \in Invocations : Outside(j)' <=> Outside(j)
  BY DEF Moves, Outside
<1>2. \A j \in Invocations : At(j, "idle")' => At(j, "idle")
  BY DEF Moves, Outside, At
<1>3. \A j \in Invocations \ {i} : PathOf(j)'
  BY DEF PathInv, PathOf, Moves, OnPath, At
<1>4. At(i, "idle")' <=> At(i, "idle")
  BY DEF Outside, At
<1>5. OneAtATime => OneAtATime'
  BY <1>4 DEF OneAtATime, Moves, At
<1>6. \A j \in Invocations : At(j, "steal")' => At(j, "steal")
  BY DEF Outside, Asking, At, Moves
<1>7. QED
  BY <1>1, <1>3, <1>5, <1>6 DEF LockInv, PathInv

LEMMA WorksLocked ==
  ASSUME TypeInv, LockInv, PathInv, NEW i \in Invocations, Works(i)
  PROVE  LockInv' /\ PathInv'
<1>1. PICK st : Moves(i, st) /\ Follows(i, st)
  BY WorkMoves
<1>2. lock' = lock /\ (inventory = None <=> inventory' = None)
  BY WorkMoves
<1>3. ~Outside(i) /\ ~Outside(i)'
  BY <1>1 DEF Follows, Moves, Outside, Asking, Open, Packing, Rereading, At
<1>4. proc[i].path \in {"ordinary", "recovery"}
  BY DEF TypeInv, TypeOK, Processes
<1>5. PathOf(i)'
  <2>1. PathOf(i) /\ proc'[i].pc = st /\ proc'[i].path = proc[i].path
    BY <1>1 DEF PathInv, Moves
  <2>2. CASE st = "release"
    BY <1>2, <1>3, <2>1, <2>2 DEF PathOf, OnPath, At, Asking, Rereading, Packing, Open
  <2>3. CASE proc[i].pc \in Open /\ st \in (Open \ {"inventory"}) \cup {"package"}
    BY <1>2, <1>4, <2>1, <2>3 DEF PathOf, OnPath, At, Asking, Rereading, Packing, Open
  <2>4. CASE At(i, "package") /\ inventory = None /\ st = "inventory"
    BY <1>2, <1>4, <2>1, <2>4 DEF PathOf, OnPath, At, Asking, Rereading, Packing, Open
  <2>5. CASE At(i, "package") /\ inventory # None /\ st = "zip"
    BY <1>2, <1>4, <2>1, <2>5 DEF PathOf, OnPath, At, Asking, Rereading, Packing, Open
  <2>6. CASE proc[i].pc \in Packing /\ st \in Packing
    BY <1>2, <1>4, <2>1, <2>6 DEF PathOf, OnPath, At, Asking, Rereading, Packing, Open
  <2>7. CASE \/ At(i, "recheck") /\ st = "supersede"
             \/ At(i, "supersede") /\ st = "package"
    BY <1>2, <1>4, <2>1, <2>7 DEF PathOf, OnPath, At, Asking, Rereading, Packing, Open
  <2>8. QED
    BY <1>1, <2>2, <2>3, <2>4, <2>5, <2>6, <2>7 DEF Follows
<1>6. QED
  BY <1>1, <1>2, <1>3, <1>5, InnerMove

\* Whoever may still take the ordinary path is alone, and finds no living holder.
LEMMA OrdinaryAlone ==
  ASSUME TypeInv, LockInv, PathInv, NEW i \in Invocations,
         OnPath(i, "ordinary"), proc[i].pc \in Asking
  PROVE  /\ inventory = None /\ \A j \in Invocations \ {i} : At(j, "idle")
         /\ lock \in {None, Dead}
<1>1. inventory = None
  BY DEF PathInv, PathOf
<1>2. \A j \in Invocations \ {i} : At(j, "idle")
  BY <1>1 DEF LockInv, OneAtATime, At, Asking
<1>3. \A j \in Invocations : Outside(j)
  BY <1>2 DEF Outside, At, Asking
<1>4. QED
  BY <1>1, <1>2, <1>3 DEF LockInv, TypeInv, TypeOK

LEMMA AskingLocked ==
  ASSUME TypeInv, LockInv, PathInv, NEW i \in Invocations,
         CreateLock(i) \/ ProbeHolder(i) \/ RemoveStaleLock(i) \/ RecreateLock(i)
  PROVE  LockInv' /\ PathInv'
<1>0. /\ TypeOK /\ proc[i].path \in {"ordinary", "recovery"}
      /\ None \notin Invocations /\ Dead \notin Invocations /\ None # Dead
      /\ lock \in Invocations \cup {None, Dead}
  BY NoneAssumption, SequenceAssumption DEF TypeInv, TypeOK, Processes
<1>1. proc[i].pc \in Asking /\ Outside(i) /\ lock # i
  <2>1. proc[i].pc \in Asking
    BY DEF CreateLock, ProbeHolder, RemoveStaleLock, RecreateLock, At, Asking
  <2>2. QED
    BY <2>1 DEF Outside, LockInv
<1>2. UNCHANGED inventory
  BY DEF CreateLock, ProbeHolder, RemoveStaleLock, RecreateLock, evidence
\* i gets the lock
<1>3. CASE lock = None /\ lock' = i /\ Goto(i, Entry(i))
  <2>1. Moves(i, Entry(i))
    BY <1>0, <1>3, MovesOn DEF GoesTo
  <2>2. \A j \in Invocations : Outside(j)
    BY <1>0, <1>3 DEF LockInv
  <2>3. ~Outside(i)'
    BY <2>1 DEF Moves, Entry, Outside, Asking
  <2>4. \A j \in Invocations \ {i} : Outside(j)' /\ (At(j, "idle")' <=> At(j, "idle"))
    BY <2>1, <2>2 DEF Moves, Outside, At
  <2>5. ~At(i, "idle") /\ ~At(i, "idle")'
    BY <1>1, <2>1 DEF Moves, Entry, At, Asking
  <2>6. OneAtATime => OneAtATime'
    BY <2>4, <2>5 DEF OneAtATime
  <2>7. \A j \in Invocations : ~At(j, "steal")'
    BY <1>0, <1>3, <2>1 DEF LockInv, Moves, At, Entry
  <2>8. LockInv'
    BY <1>0, <1>2, <1>3, <2>3, <2>4, <2>6, <2>7 DEF LockInv
  <2>9. PathOf(i)'
    BY <1>0, <1>1, <1>2, <2>1 DEF PathInv, PathOf, Moves, Entry, OnPath, At, Asking, Rereading, Packing, Open
  <2>10. ASSUME NEW j \in Invocations \ {i} PROVE PathOf(j)'
    <3>1. OnPath(j, "ordinary") => proc[j].pc \notin Asking
      BY <1>1, OrdinaryAlone DEF At, Asking
    <3>2. QED
      BY <1>2, <2>1, <3>1 DEF PathInv, PathOf, Moves, OnPath, At, Asking
  <2>11. QED
    BY <2>8, <2>9, <2>10 DEF PathInv
\* i goes on asking, or is refused on the recovery path
<1>4. CASE /\ lock' \in {lock, None} /\ (lock' = lock \/ lock = Dead)
           /\ \/ \E st \in Asking : /\ Goto(i, st)
                                    /\ st = "steal" => lock' = Dead
                                    /\ st = "holder" /\ OnPath(i, "ordinary") => lock' = Dead
                                    /\ st = "relock" => lock' = None
              \/ OnPath(i, "recovery") /\ Leave(i) /\ UNCHANGED lock
           /\ lock' # lock => ~At(i, "lock")
  <2>1. \/ \E st \in Asking : /\ Moves(i, st) /\ (st = "steal" => lock' = Dead)
                              /\ st = "holder" /\ OnPath(i, "ordinary") => lock' = Dead
                              /\ st = "relock" => lock' = None
        \/ /\ proc'[i] = Stopped /\ UNCHANGED lock
           /\ \A j \in Invocations \ {i} : proc'[j] = proc[j]
    BY <1>0, <1>4, MovesOn, LeaveTyped DEF GoesTo
  <2>2. \A j \in Invocations \ {i} : proc'[j] = proc[j]
    BY <2>1 DEF Moves
  <2>3. Outside(i)' /\ \A j \in Invocations : Outside(j)' <=> Outside(j)
    BY <1>1, <2>1, <2>2 DEF Outside, Moves, Stopped
  <2>4. OneAtATime => OneAtATime'
    BY <1>1, <2>2 DEF OneAtATime, At, Asking
  <2>5. \A j \in Invocations : lock' = j <=> lock = j
    BY <1>0, <1>4
  <2>6. ASSUME NEW j \in Invocations \ {i}
        PROVE  PathOf(j)' /\ (At(j, "steal")' => lock' = Dead)
    <3>1. CASE lock' = lock
      BY <1>2, <2>2, <3>1 DEF PathInv, PathOf, LockInv, OnPath, At
    <3>2. CASE lock = Dead
      <4>1. At(j, "idle")
        BY <1>1, <3>2 DEF LockInv, OneAtATime, At, Asking
      <4>2. QED
        BY <1>2, <2>2, <4>1 DEF PathInv, PathOf, OnPath, At, Asking, Rereading, Open, Packing
    <3>3. QED
      BY <1>4, <3>1, <3>2
  <2>7. PathOf(i)' /\ (At(i, "steal")' => lock' = Dead)
    <3>1. CASE proc'[i] = Stopped
      BY <3>1 DEF PathOf, Stopped, OnPath, At, Asking, Rereading, Open, Packing
    <3>2. CASE \E st \in Asking : /\ Moves(i, st) /\ (st = "steal" => lock' = Dead)
                                  /\ st = "holder" /\ OnPath(i, "ordinary") => lock' = Dead
                                  /\ st = "relock" => lock' = None
      BY <1>0, <1>1, <1>2, <3>2 DEF PathInv, PathOf, Moves, OnPath, At, Asking, Rereading, Open, Packing
    <3>3. QED
      BY <2>1, <3>1, <3>2
  <2>8. lock' = Dead => lock = Dead
    BY <1>0, <1>4
  <2>9. LockInv'
    BY <1>2, <2>3, <2>4, <2>5, <2>6, <2>7, <2>8 DEF LockInv
  <2>10. QED
    BY <2>6, <2>7, <2>9 DEF PathInv
<1>5. CASE CreateLock(i)
  <2>1. CASE lock = None
    BY <1>3, <1>5, <2>1 DEF CreateLock
  <2>2. CASE lock # None
    <3>1. OnPath(i, "ordinary") => lock = Dead
      BY <1>1, <2>2, OrdinaryAlone
    <3>2. Goto(i, "holder") /\ UNCHANGED lock /\ "holder" \in Asking
      BY <1>5, <2>2 DEF CreateLock, Asking
    <3>3. QED
      BY <1>4, <3>1, <3>2
  <2>3. QED
    BY <2>1, <2>2
<1>6. CASE ProbeHolder(i)
  <2>1. CASE lock = Dead
    BY <1>4, <1>6, <2>1 DEF ProbeHolder, Asking
  <2>2. CASE lock # Dead
    <3>1. OnPath(i, "recovery")
      BY <1>0, <1>6, <2>2 DEF ProbeHolder, PathInv, PathOf, OnPath
    <3>2. QED
      BY <1>4, <1>6, <2>2, <3>1 DEF ProbeHolder, LockThrows
  <2>3. QED
    BY <2>1, <2>2
<1>7. CASE RemoveStaleLock(i)
  <2>1. lock = Dead /\ lock' = None /\ Goto(i, "relock") /\ ~At(i, "lock")
    BY <1>7 DEF RemoveStaleLock, LockInv, At
  <2>2. QED
    BY <1>4, <2>1 DEF Asking
<1>8. CASE RecreateLock(i)
  <2>1. CASE lock = None
    BY <1>3, <1>8, <2>1 DEF RecreateLock
  <2>2. CASE lock # None
    <3>1. OnPath(i, "recovery")
      BY <1>0, <1>8, <2>2 DEF RecreateLock, PathInv, PathOf, OnPath
    <3>2. QED
      BY <1>4, <1>8, <2>2, <3>1 DEF RecreateLock, LockThrows
  <2>3. QED
    BY <2>1, <2>2
<1>9. QED
  BY <1>5, <1>6, <1>7, <1>8

\* Starting and ending, and what goes on around an invocation.
LEMMA AroundLocked ==
  ASSUME Paired, TypeInv, FoundInv, LockInv, PathInv, NEW i \in Invocations,
         \/ Serially(i) /\ \E resume \in BOOLEAN : Launch(i, resume)
         \/ Refuse(i) \/ Admit(i) \/ WriteInventory(i) \/ Release(i) \/ Crash(i) \/ LateExit(i)
  PROVE  LockInv' /\ PathInv'
<1>0. /\ TypeOK /\ proc \in [Invocations -> Processes]
      /\ None \notin Invocations /\ Dead \notin Invocations /\ None # Dead
      /\ lock \in Invocations \cup {None, Dead}
  BY NoneAssumption, SequenceAssumption DEF TypeInv, TypeOK
<1>1. CASE Serially(i) /\ \E resume \in BOOLEAN : Launch(i, resume)
  <2>1. /\ At(i, "idle") /\ (Alone(i) \/ (inventory # None /\ lock # Dead))
        /\ UNCHANGED <<lock, inventory>>
    BY <1>1 DEF Launch, evidence, Serially
  <2>2. /\ proc'[i].pc = "gates" /\ proc'[i].path = "ordinary"
        /\ \A j \in Invocations \ {i} : proc'[j] = proc[j]
    BY <1>0, <1>1 DEF Launch, Stopped
  <2>3. \A j \in Invocations : Outside(j)' <=> Outside(j)
    BY <2>1, <2>2 DEF Outside, At
  <2>4. inventory = None \/ lock = Dead => OneAtATime'
    BY <2>1, <2>2 DEF Alone, OneAtATime, At
  <2>5. LockInv'
    BY <2>1, <2>2, <2>3, <2>4 DEF LockInv, At
  <2>6. PathInv'
    BY <2>1, <2>2 DEF PathInv, PathOf, OnPath, At, Asking, Rereading, Open, Packing
  <2>7. QED
    BY <2>5, <2>6
<1>2. CASE Refuse(i)
  <2>1. At(i, "gates") /\ UNCHANGED <<lock, inventory>>
    BY <1>2 DEF Refuse, evidence
  <2>2. proc'[i] = Stopped /\ \A j \in Invocations \ {i} : proc'[j] = proc[j]
    BY <1>0, <1>2, LeaveTyped DEF Refuse
  <2>3. \A j \in Invocations : Outside(j)' <=> Outside(j)
    BY <2>1, <2>2 DEF Outside, At, Stopped
  <2>4. LockInv'
    BY <2>1, <2>2, <2>3 DEF LockInv, OneAtATime, At, Stopped
  <2>5. PathInv'
    BY <2>1, <2>2 DEF PathInv, PathOf, OnPath, At, Stopped, Asking, Rereading, Open, Packing
  <2>6. QED
    BY <2>4, <2>5
<1>3. CASE Admit(i)
  <2>1. At(i, "gates") /\ UNCHANGED <<lock, inventory>>
    BY <1>3 DEF Admit, evidence
  <2>2. /\ proc'[i].pc = "lock"
        /\ proc'[i].path = IF PackagingReady THEN "recovery" ELSE "ordinary"
        /\ \A j \in Invocations \ {i} : proc'[j] = proc[j]
    BY <1>0, <1>3 DEF Admit, Processes
  <2>3. PackagingReady <=> inventory # None
    BY DEF PackagingReady, FoundInv
  <2>4. \A j \in Invocations : Outside(j)' <=> Outside(j)
    BY <2>1, <2>2 DEF Outside, At, Asking
  <2>5. LockInv'
    BY <2>1, <2>2, <2>4 DEF LockInv, OneAtATime, At
  <2>6. PathOf(i)'
    BY <2>1, <2>2, <2>3 DEF PathOf, OnPath, At, Asking, Rereading, Open, Packing
  <2>7. PathInv'
    BY <2>1, <2>2, <2>6 DEF PathInv, PathOf, OnPath, At
  <2>8. QED
    BY <2>5, <2>7
<1>4. CASE WriteInventory(i)
  <2>1. /\ At(i, "inventory") /\ lock' = lock
        /\ inventory' = [aggregate |-> mem[i].aggregate, intact |-> root.report.turn = mem[i].aggregate]
        /\ Goto(i, "zip")
    BY <1>4 DEF WriteInventory
  <2>2. Moves(i, "zip")
    BY <1>0, <2>1, MovesOn DEF GoesTo
  <2>3. inventory' # None
    <3>1. Equipped(i)'
      BY <1>4, PackagingTyped
    <3>2. QED
      BY <2>2, <3>1 DEF Equipped, Moves
  <2>4. inventory = None
    BY <2>1 DEF PathInv, PathOf, Open, At
  <2>5. OneAtATime
    BY <2>4 DEF LockInv
  <2>6. \A j \in Invocations \ {i} : At(j, "idle") /\ proc'[j] = proc[j]
    BY <2>1, <2>2, <2>5 DEF OneAtATime, At, Moves
  <2>7. \A j \in Invocations : Outside(j)' <=> Outside(j)
    BY <2>1, <2>2, <2>6 DEF Outside, At, Moves, Asking
  <2>8. OneAtATime'
    BY <2>6 DEF OneAtATime, At
  <2>9. LockInv'
    BY <2>1, <2>2, <2>6, <2>7, <2>8 DEF LockInv, Moves, At
  <2>10. PathOf(i)'
    BY <2>1, <2>2, <2>3, <2>4 DEF PathInv, PathOf, OnPath, Moves, At, Asking, Rereading, Open, Packing
  <2>11. \A j \in Invocations \ {i} : PathOf(j)'
    BY <2>3, <2>4, <2>6 DEF PathInv, PathOf, OnPath, At, Asking, Rereading, Open, Packing
  <2>12. QED
    BY <2>9, <2>10, <2>11 DEF PathInv
<1>5. CASE Release(i)
  <2>1. At(i, "release") /\ lock = i /\ lock' = None
    BY <1>5 DEF Release, LockInv, Outside, At, Asking
  <2>2. proc'[i] = Stopped /\ \A j \in Invocations \ {i} : proc'[j] = proc[j]
    BY <1>0, <1>5, LeaveTyped DEF Release
  <2>3. inventory = None <=> inventory' = None
    BY <1>5, InventoryAppears DEF Run, WriteInventory, At, Release
  <2>4. \A j \in Invocations \ {i} : Outside(j) /\ Outside(j)' /\ ~At(j, "steal")
    BY <1>0, <2>1, <2>2 DEF LockInv, Outside
  <2>5. LockInv'
    BY <1>0, <2>1, <2>2, <2>3, <2>4 DEF LockInv, OneAtATime, Outside, At, Stopped
  <2>6. PathOf(i)'
    BY <2>2 DEF PathOf, OnPath, At, Stopped, Asking, Rereading, Open, Packing
  <2>7. ASSUME NEW j \in Invocations \ {i} PROVE PathOf(j)'
    <3>1. OnPath(j, "ordinary") => proc[j].pc \notin Asking
      BY <2>1, OrdinaryAlone DEF At
    <3>2. QED
      BY <2>2, <2>3, <3>1 DEF PathInv, PathOf, OnPath, At, Asking
  <2>8. QED
    BY <2>5, <2>6, <2>7 DEF PathInv
<1>6. CASE Crash(i)
  <2>1. /\ ~At(i, "idle") /\ lock' = IF lock = i THEN Dead ELSE lock
        /\ UNCHANGED inventory
    BY <1>6 DEF Crash, evidence
  <2>2. proc'[i] = Stopped /\ \A j \in Invocations \ {i} : proc'[j] = proc[j]
    BY <1>0, <1>6, LeaveTyped DEF Crash
  <2>3. \E a, b \in Invocations : Invocations = {a, b}
    <3>1. MaxCrashes # 0
      BY <1>6, SequenceAssumption DEF Crash, TypeInv, TypeOK
    <3>2. QED
      BY <3>1 DEF Paired
  <2>4. OneAtATime'
    BY <2>2, <2>3 DEF OneAtATime, At, Stopped
  <2>5. \A j \in Invocations : lock' = j <=> ~Outside(j)'
    BY <1>0, <2>1, <2>2 DEF LockInv, Outside, Stopped
  <2>6. \A j \in Invocations : At(j, "steal")' => lock' = Dead
    BY <1>0, <2>1, <2>2 DEF LockInv, At, Stopped
  <2>7. PathOf(i)'
    BY <2>2 DEF PathOf, OnPath, At, Stopped, Asking, Rereading, Open, Packing
  <2>8. ASSUME NEW j \in Invocations \ {i} PROVE PathOf(j)'
    <3>1. OnPath(j, "ordinary") => proc[j].pc \notin Asking
      BY <2>1, OrdinaryAlone
    <3>2. QED
      BY <2>1, <2>2, <3>1 DEF PathInv, PathOf, OnPath, At, Asking
  <2>9. QED
    BY <2>4, <2>5, <2>6, <2>7, <2>8 DEF LockInv, PathInv
<1>7. CASE LateExit(i)
  <2>1. UNCHANGED <<lock, proc>>
    BY <1>7 DEF LateExit
  <2>2. inventory = None <=> inventory' = None
    BY <1>7, NoneAssumption DEF LateExit, TouchRoot, Spoiled, TypeInv, TypeOK, Inventories
  <2>3. QED
    BY <2>1, <2>2 DEF LockInv, PathInv, PathOf, OneAtATime, Outside, OnPath, At
<1>8. QED
  BY <1>1, <1>2, <1>3, <1>4, <1>5, <1>6, <1>7

LEMMA LockedStep ==
  ASSUME Paired, TypeInv, TypeInv', LockedInv, [SerialNext]_vars
  PROVE  LockedInv'
<1>1. FoundInv'
  BY FoundStep, SerialNextIsNext DEF LockedInv
<1> SUFFICES LockInv' /\ PathInv'
  BY <1>1 DEF LockedInv
<1>2. ASSUME NEW i \in Invocations,
             \/ Serially(i) /\ \E resume \in BOOLEAN : Launch(i, resume)
             \/ Run(i) \/ Crash(i) \/ LateExit(i)
      PROVE  LockInv' /\ PathInv'
  BY <1>2, AroundLocked, AskingLocked, WorksLocked DEF Run, Works, LockedInv
<1>3. CASE UNCHANGED <<lock, proc, inventory>>
  <2>1. LockInv'
    BY <1>3 DEF LockedInv, LockInv, OneAtATime, Outside, At
  <2>2. PathInv'
    BY <1>3 DEF LockedInv, PathInv, PathOf, OnPath, At
  <2>3. QED
    BY <2>1, <2>2
<1>4. CASE Drifts \/ UNCHANGED vars
  <2>1. UNCHANGED <<lock, proc, inventory>>
    BY <1>4 DEF Drifts, vars, evidence
  <2>2. QED
    BY <1>3, <2>1
<1>5. QED
  BY <1>2, <1>4 DEF SerialNext, SerialAround

LEMMA LockedInit ==
  ASSUME Init
  PROVE  LockedInv
<1>0. /\ \A i \in Invocations : proc[i].pc = "idle" /\ proc[i].path = "ordinary"
      /\ lock = None /\ inventory = None
  BY DEF Init, Stopped
<1>1. FoundInv
  BY <1>0 DEF FoundInv, Carrying
<1>2. LockInv
  BY <1>0, NoneAssumption, SequenceAssumption DEF LockInv, Outside, OneAtATime, At
<1>3. PathInv
  BY <1>0 DEF PathInv, PathOf, OnPath, At, Asking, Rereading, Open, Packing
<1>4. QED
  BY <1>1, <1>2, <1>3 DEF LockedInv

-----------------------------------------------------------------------------
(* What is in memory is what is on disk                                    *)

LEMMA MemoryStep ==
  ASSUME TypeInv, NEW i \in Invocations, Works(i)
  PROVE  \/ SealEscapes(i)
         \/ control' = mem'[i]
         \/ control' = control /\ mem' = mem
<1>0. mem \in [Invocations -> States \cup {None}]
  BY DEF TypeInv, TypeOK
<1>1. ASSUME NEW t, Persist(i, t) PROVE control' = mem'[i]
  BY <1>0, <1>1 DEF Persist
<1>2. CASE Rewrites(i)
  <2>1. Copies(i)
    BY <1>2, SameExecutions
  <2>2. QED
    BY <1>1, <2>1 DEF Copies
<1>3. CASE CreateState(i) \/ ResumeState(i) \/ StartExecution(i) \/ Execute(i)
  <2>1. \E t : Persist(i, t)
    BY <1>3 DEF CreateState, ResumeState, StartExecution, Execute
  <2>2. QED
    BY <1>1, <2>1
<1>4. CASE Judge(i)
  <2>1. \/ control' = control /\ mem' = mem
        \/ \E t : Persist(i, t)
    BY <1>4 DEF Judge
  <2>2. QED
    BY <1>1, <2>1
<1>5. CASE Recheck(i)
  BY <1>0, <1>5 DEF Recheck
<1>6. CASE ArchivePlan(i) \/ Preflight(i) \/ Throws(i)
  BY <1>6 DEF ArchivePlan, Preflight, Throws
<1>7. QED
  BY <1>2, <1>3, <1>4, <1>5, <1>6 DEF Works, Rewrites

\* While i is past the lock the others are away from the control state.
LEMMA OthersAway ==
  ASSUME TypeInv, LockedInv, NEW i \in Invocations, ~Outside(i), NEW j \in Invocations \ {i}
  PROVE  Outside(j) /\ ~Holding(j) /\ ~At(j, "abandon")
<1>1. Outside(j)
  BY DEF LockedInv, LockInv
<1>2. OnPath(j, "ordinary") => proc[j].pc \notin Asking
  <2>1. ~At(i, "idle")
    BY DEF Outside, At
  <2>2. QED
    BY <2>1, OrdinaryAlone DEF LockedInv
<1>3. QED
  BY <1>1, <1>2 DEF Holding, Outside, Asking, Carrying, At

LEMMA CopyStep ==
  ASSUME TypeInv, TypeInv', LockedInv, CopyInv, RunningInv, NEW i \in Invocations,
         Run(i) \/ (\E resume \in BOOLEAN : Launch(i, resume)) \/ Crash(i) \/ LateExit(i)
  PROVE  CopyInv'
<1>0. TypeOK /\ mem \in [Invocations -> States \cup {None}] /\ proc \in [Invocations -> Processes]
  BY DEF TypeInv, TypeOK
<1> DEFINE Copied(j) == /\ Holding(j) => mem[j] = control
                        /\ At(j, "abandon") => mem[j] = control \/ Escaped(control, mem[j])
<1>1. ASSUME NEW j \in Invocations \ {i} PROVE Copied(j)'
  <2>1. proc'[j] = proc[j] /\ mem'[j] = mem[j]
    BY StartingTyped, AttemptsTyped, PackagingTyped, EndingTyped DEF Run, Apart
  <2>2. CASE control' = control
    BY <2>1, <2>2 DEF CopyInv, Holding, OnPath, At
  <2>3. CASE Works(i)
    <3>1. ~Outside(i)
      BY <2>3, WorkMoves DEF Follows, Outside, Asking, Open, Packing, Rereading, At
    <3>2. ~Holding(j) /\ ~At(j, "abandon")
      BY <3>1, OthersAway
    <3>3. QED
      BY <2>1, <3>2 DEF Holding, OnPath, At
  <2>4. QED
    BY <2>2, <2>3, ControlStep
<1>2. Copied(i)'
  <2>1. CASE SealEscapes(i)
    <3>1. At(i, "executing") /\ Goto(i, "abandon") /\ control' = control
      BY <2>1 DEF SealEscapes
    <3>2. mem[i] = control /\ mem[i] \in States /\ mem[i].executions # <<>>
      BY <3>1 DEF CopyInv, Holding, At, Carrying, TypeInv, Equipped
    <3>3. proc'[i].pc = "abandon"
      BY <1>0, <3>1, MovesOn DEF GoesTo, Moves
    <3>4. Escaped(control, mem'[i])
      <4>1. control.executions[Last(control)].status = "in-progress"
        BY <3>1 DEF RunningInv, RunningAt
      <4>2. PICK r \in Reasons \cup {"execution-seal-failed"} :
              mem' = [mem EXCEPT ![i] = WithLast(@,
                        [Ended(@.executions[Last(@)], "failed", r) EXCEPT !.seal = None])]
        BY <2>1 DEF SealEscapes
      <4>3. mem'[i] = WithLast(control,
                        [Ended(control.executions[Last(control)], "failed", r) EXCEPT !.seal = None])
        BY <1>0, <3>2, <4>2
      <4>4. QED
        BY <3>2, <4>1, <4>3 DEF Escaped
    <3>5. QED
      BY <3>1, <3>3, <3>4 DEF Holding, At, Carrying, Asking
  <2>2. CASE Works(i) /\ ~SealEscapes(i)
    <3>1. CASE control' = mem'[i]
      BY <3>1
    <3>2. CASE control' = control /\ mem' = mem
      <4>1. CASE Holding(i)
        BY <3>2, <4>1 DEF CopyInv
      <4>2. CASE Abandon(i)
        <5>1. proc'[i].pc = "release"
          BY <1>0, <4>2, MovesOn DEF Abandon, GoesTo, Moves
        <5>2. QED
          BY <5>1 DEF Holding, At, Carrying, Asking
      <4>3. CASE Recheck(i)
        <5>1. CASE Goto(i, "release")
          <6>1. proc'[i].pc = "release"
            BY <1>0, <5>1, MovesOn DEF GoesTo, Moves
          <6>2. QED
            BY <6>1 DEF Holding, At, Carrying, Asking
        <5>2. CASE mem' = [mem EXCEPT ![i] = control]
          BY <1>0, <3>2, <5>2
        <5>3. QED
          BY <4>3, <5>1, <5>2 DEF Recheck
      <4>4. QED
        BY <2>2, <4>1, <4>2, <4>3 DEF Works, ArchivePlan, CreateState, ResumeState, Preflight, LeaveLoop,
           StartExecution, Execute, JudgeBudget, Judge, Verdict, ReportFailure, Batch, Evaluate,
           BeginPackage, Stage, CommitArchive, WriteReceipt, MarkCompleted, Supersede, Throws,
           StageFails, At, Holding, Carrying
    <3>3. QED
      BY <2>2, <3>1, <3>2, MemoryStep
  <2>3. CASE CreateLock(i) \/ ProbeHolder(i) \/ RemoveStaleLock(i) \/ RecreateLock(i)
    <3>1. control' = control /\ mem' = mem /\ proc[i].pc \in Asking
      BY <2>3 DEF CreateLock, ProbeHolder, RemoveStaleLock, RecreateLock, At, Asking
    <3>2. CASE OnPath(i, "ordinary")
      BY <3>1, <3>2 DEF CopyInv, Holding
    <3>3. CASE OnPath(i, "recovery")
      <4>1. Leave(i) \/ \E st \in Asking \cup {"recheck"} : GoesTo(i, st)
        BY <2>3, <3>3 DEF CreateLock, ProbeHolder, RemoveStaleLock, RecreateLock, LockThrows, Entry,
           Asking, GoesTo
      <4>2. \/ proc'[i].pc = "idle"
            \/ proc'[i].pc \in Asking \cup {"recheck"} /\ proc'[i].path = "recovery"
        BY <1>0, <3>3, <4>1, LeaveTyped, MovesOn DEF Stopped, Moves, OnPath
      <4>3. QED
        BY <4>2 DEF Holding, OnPath, At, Carrying, Asking
    <3>4. QED
      BY <1>0, <3>2, <3>3 DEF Processes, OnPath
  <2>4. CASE Admit(i)
    <3>1. /\ control' = control
          /\ mem'[i] = IF PackagingReady THEN None ELSE control
          /\ proc'[i].pc = "lock"
          /\ proc'[i].path = IF PackagingReady THEN "recovery" ELSE "ordinary"
      BY <1>0, <2>4 DEF Admit, Processes
    <3>2. QED
      BY <3>1 DEF Holding, OnPath, At, Carrying, Asking
  <2>5. CASE \/ \E resume \in BOOLEAN : Launch(i, resume)
             \/ Refuse(i) \/ Release(i) \/ Crash(i)
    <3>1. proc'[i].pc \in {"idle", "gates"}
      <4>1. CASE Leave(i)
        BY <1>0, <4>1, LeaveTyped DEF Stopped
      <4>2. CASE \E resume \in BOOLEAN : Launch(i, resume)
        BY <1>0, <4>2 DEF Launch, Stopped
      <4>3. QED
        BY <2>5, <4>1, <4>2 DEF Refuse, Release, Crash
    <3>2. QED
      BY <3>1 DEF Holding, OnPath, At, Carrying, Asking
  <2>6. CASE WriteInventory(i)
    <3>1. control' = control /\ mem' = mem /\ Holding(i)
      BY <2>6 DEF WriteInventory, At, Holding, Carrying
    <3>2. QED
      <4>1. proc'[i].pc = "zip"
        BY <1>0, <2>6, MovesOn DEF WriteInventory, GoesTo, Moves
      <4>2. QED
        BY <3>1, <4>1 DEF CopyInv, At
  <2>7. CASE LateExit(i)
    <3>1. UNCHANGED <<control, mem, proc>>
      BY <2>7 DEF LateExit
    <3>2. QED
      <4>1. Copied(i)
        BY DEF CopyInv
      <4>2. QED
        BY <3>1, <4>1 DEF Holding, OnPath, At
  <2>8. QED
    BY <2>1, <2>2, <2>3, <2>4, <2>5, <2>6, <2>7 DEF Run, Works
<1>3. QED
  BY <1>1, <1>2 DEF CopyInv

-----------------------------------------------------------------------------
(* What is running, and what is complete                                   *)

\* The control state tells the same executions after the step.
SameList ==
  \/ control' = control
  \/ /\ control \in States /\ control' \in States
     /\ control'.executions = control.executions

LEMMA SameListKeeps ==
  ASSUME SameList, control # None
  PROVE  /\ AtMostLast(control)' <=> AtMostLast(control)
         /\ Quiet(control)' <=> Quiet(control)
         /\ AllCompleted(control)' <=> AllCompleted(control)
         /\ Halted(control)' <=> Halted(control)
         /\ Reported(control) /\ root'.report = root.report => Reported(control)'
<1>1. control'.executions = control.executions
  BY DEF SameList
<1>2. QED
  BY <1>1 DEF AtMostLast, Last, Quiet, AllCompleted, CompletedExecution, ExecutionsOf, Halted, Reported

\* A failed execution whose seal failed too, written back with the catch block.
Surfaces(i) ==
  /\ Abandon(i) /\ Escaped(control, mem[i])
  /\ control' \in States /\ control'.executions = mem[i].executions

LEMMA RewriteEffect ==
  ASSUME TypeInv, TypeInv', CopyInv, NEW i \in Invocations, Rewrites(i)
  PROVE  SameList \/ Surfaces(i)
<1>0. mem \in [Invocations -> States \cup {None}] /\ control' \in States \cup {None}
  BY DEF TypeInv, TypeOK
<1>1. \/ control' = control
      \/ mem[i] \in States /\ control' \in States /\ control'.executions = mem[i].executions
  <2>1. Copies(i)
    BY SameExecutions
  <2>2. CASE \E t : t.executions = mem[i].executions /\ Persist(i, t)
    <3>1. control'.executions = mem[i].executions
      BY <2>2 DEF Persist
    <3>2. CASE Works(i) /\ control' \in States
      BY <2>1, <3>1, <3>2 DEF Copies
    <3>3. QED
      BY <2>1, <3>1, <3>2, ControlStep DEF Run, Rewrites, Works, Copies
  <2>3. QED
    BY <2>1, <2>2 DEF Copies
<1>2. CASE Abandon(i)
  <2>1. mem[i] = control \/ Escaped(control, mem[i])
    BY <1>2 DEF Abandon, CopyInv
  <2>2. QED
    BY <1>1, <1>2, <2>1 DEF SameList, Surfaces
<1>3. CASE ~Abandon(i)
  <2>1. Holding(i)
    BY <1>3 DEF Rewrites, LeaveLoop, JudgeBudget, Verdict, ReportFailure, Batch, Evaluate, BeginPackage,
       Stage, CommitArchive, WriteReceipt, MarkCompleted, Supersede, StageFails, At, Holding, Carrying
  <2>2. mem[i] = control
    BY <2>1 DEF CopyInv
  <2>3. QED
    BY <1>1, <2>2 DEF SameList
<1>4. QED
  BY <1>2, <1>3

LEMMA RewriteMoves ==
  ASSUME TypeInv, NEW i \in Invocations, Rewrites(i), ~Abandon(i)
  PROVE  /\ proc[i].pc \in Settled /\ proc'[i].pc \in Settled \cup {"release"}
         /\ Due(i)' => Due(i) \/ At(i, "supersede") \/ AllCompleted(mem[i])
<1>0. TypeOK
  BY DEF TypeInv
<1> DEFINE Late == {"package", "inventory", "zip", "commit", "receipt", "complete"}
<1>1. ASSUME NEW st \in Stations, Goto(i, st)
      PROVE  proc'[i].pc = st /\ proc'[i].failed = proc[i].failed
  BY <1>0, <1>1, GotoTyped
<1>2. ASSUME NEW failed \in BOOLEAN, LoopEnds(i, failed)
      PROVE  proc'[i].pc = "verdict" /\ proc'[i].failed = failed
  <2>1. MoveFailed(i, "verdict", failed) /\ "verdict" \in Stations
    BY <1>2 DEF LoopEnds, MoveFailed, Stations
  <2>2. QED
    BY <1>0, <2>1, LoopEndsTyped
<1>3. Settled \cup {"release"} \subseteq Stations
  BY DEF Settled, Stations
<1>4. CASE LeaveLoop(i) \/ JudgeBudget(i)
  <2>1. /\ proc[i].pc \in {"next", "judge"}
        /\ LoopEnds(i, TRUE) \/ (LoopEnds(i, FALSE) /\ AllCompleted(mem[i]))
    BY <1>4 DEF LeaveLoop, JudgeBudget, At
  <2>2. /\ proc'[i].pc = "verdict"
        /\ proc'[i].failed = TRUE \/ AllCompleted(mem[i])
    BY <1>2, <2>1
  <2>3. QED
    BY <2>1, <2>2 DEF Due, At, Settled
<1>5. CASE Verdict(i)
  <2>1. PICK unconfirmed \in BOOLEAN : MoveStop(i, IF proc[i].failed THEN "report" ELSE "batch", unconfirmed)
    BY <1>5 DEF Verdict, MoveStop
  <2>2. /\ At(i, "verdict") /\ proc'[i].pc = IF proc[i].failed THEN "report" ELSE "batch"
        /\ proc'[i].failed = proc[i].failed
    <3>1. "report" \in Stations /\ "batch" \in Stations
      BY DEF Stations
    <3>2. QED
      BY <1>0, <1>5, <2>1, <3>1, VerdictMoveTyped DEF Verdict
  <2>3. QED
    BY <2>2 DEF Due, At, Settled
<1>6. CASE BeginPackage(i)
  <2>1. At(i, "package")
    BY <1>6 DEF BeginPackage
  <2>2. Due(i) /\ proc[i].pc \in Settled
    BY <2>1 DEF Due, At, Settled
  <2>3. CASE Goto(i, "release")
    BY <1>1, <1>3, <2>2, <2>3
  <2>4. CASE \E slot : MoveSlot(i, IF inventory = None THEN "inventory" ELSE "zip", slot)
    <3>1. GoesTo(i, "inventory") \/ GoesTo(i, "zip")
      BY <2>4 DEF GoesTo
    <3>2. proc'[i].pc \in {"inventory", "zip"}
      BY <1>0, <3>1, MovesOn DEF Moves
    <3>3. QED
      BY <2>2, <3>2 DEF Settled
  <2>5. QED
    BY <1>6, <2>3, <2>4 DEF BeginPackage, Fail, FailWith, MoveSlot
<1>7. CASE Batch(i) \/ Evaluate(i)
  <2>1. Due(i) /\ proc[i].pc \in Settled
    BY <1>7 DEF Batch, Evaluate, Due, At, Settled
  <2>2. Goto(i, "release") \/ Goto(i, "evaluate") \/ Goto(i, "package")
    BY <1>7 DEF Batch, Evaluate, Fail, FailWith
  <2>3. QED
    BY <1>1, <1>3, <2>1, <2>2 DEF Settled
<1>8. CASE ReportFailure(i) \/ StageFails(i)
  <2>1. proc[i].pc \in Settled /\ Goto(i, "release")
    BY <1>8 DEF ReportFailure, StageFails, FailWith, At, Settled
  <2>2. proc'[i].pc = "release"
    BY <1>1, <1>3, <2>1
  <2>3. QED
    BY <2>1, <2>2 DEF Due, At
<1>9. CASE WriteReceipt(i) \/ MarkCompleted(i) \/ Stage(i) \/ CommitArchive(i)
  <2>1. PICK st \in {"commit", "receipt", "complete", "release"} : Goto(i, st)
    BY <1>9 DEF WriteReceipt, MarkCompleted, Stage, CommitArchive, Fail, FailWith
  <2>2. st \in Stations /\ proc[i].pc \in Settled /\ st \in Settled \cup {"release"}
    BY <1>9 DEF WriteReceipt, MarkCompleted, Stage, CommitArchive, At, Settled, Stations
  <2>3. proc'[i].pc = st
    BY <1>1, <2>1, <2>2
  <2>4. QED
    BY <2>2, <2>3 DEF Due, At
<1>10. CASE Supersede(i)
  <2>1. At(i, "supersede") /\ (Goto(i, "release") \/ Goto(i, "package"))
    BY <1>10 DEF Supersede, FailWith
  <2>2. QED
    BY <1>1, <1>3, <2>1 DEF At, Settled
<1>11. QED
  BY <1>4, <1>5, <1>6, <1>7, <1>8, <1>9, <1>10 DEF Rewrites

LEMMA InterruptedQuiet ==
  ASSUME NEW s \in States
  PROVE  Quiet(Interrupted(s))
<1>1. /\ Interrupted(s) \in States /\ Len(Interrupted(s).executions) = Len(s.executions)
      /\ \A k \in DOMAIN s.executions :
           /\ s.executions[k].status # "in-progress" =>
                Interrupted(s).executions[k] = s.executions[k]
           /\ s.executions[k].status = "in-progress" =>
                Interrupted(s).executions[k].status = "failed"
  BY InterruptedTyped
<1>2. DOMAIN Interrupted(s).executions = DOMAIN s.executions
  <2>1. s.executions \in Seq(Executions) /\ Interrupted(s).executions \in Seq(Executions)
    BY <1>1 DEF States
  <2>2. QED
    BY <1>1, <2>1
<1>3. QED
  BY <1>1, <1>2 DEF Quiet

\* An execution put in place of the last one, which does not run.
LEMMA LastEndedQuiet ==
  ASSUME NEW s \in States, s.executions # <<>>, AtMostLast(s), NEW e \in Executions,
         e.status # "in-progress"
  PROVE  Quiet(WithLast(s, e))
<1>1. /\ WithLast(s, e) \in States /\ Len(WithLast(s, e).executions) = Len(s.executions)
      /\ \A k \in DOMAIN s.executions :
           WithLast(s, e).executions[k] = IF k = Last(s) THEN e ELSE s.executions[k]
  BY WithLastTyped
<1>2. DOMAIN WithLast(s, e).executions = DOMAIN s.executions
  <2>1. s.executions \in Seq(Executions) /\ WithLast(s, e).executions \in Seq(Executions)
    BY <1>1 DEF States
  <2>2. QED
    BY <1>1, <2>1
<1>3. QED
  BY <1>1, <1>2 DEF Quiet, AtMostLast

LEMMA StartedRuns ==
  ASSUME NEW s \in States, ~AllCompleted(s), Quiet(s)
  PROVE  /\ AtMostLast(StartedOn(s))
         /\ StartedOn(s).executions # <<>>
         /\ StartedOn(s).executions[Last(StartedOn(s))].status = "in-progress"
<1> DEFINE a == NextAttempt(s)
           t == StartedOn(s)
<1>1. a \in Attempts
  BY NextAttemptExists
<1>2. /\ t.executions = Append(s.executions, Execution(a)) /\ t.executions # <<>>
      /\ Last(t) = Last(s) + 1
  BY <1>1, StartedTyped DEF StartedOn
<1>3. s.executions \in Seq(Executions) /\ Last(s) = Len(s.executions)
  BY DEF States, Last
<1> HIDE DEF a, t
<1>4. /\ DOMAIN t.executions = 1..Last(t) /\ t.executions[Last(t)] = Execution(a)
      /\ \A k \in 1..Last(s) : t.executions[k] = s.executions[k]
  BY <1>2, <1>3
<1>5. AtMostLast(t) /\ t.executions[Last(t)].status = "in-progress"
  BY <1>2, <1>3, <1>4 DEF AtMostLast, Quiet, Execution
<1>6. QED
  BY <1>2, <1>5 DEF t

\* Where starting, ending and asking for the lock lead.
LEMMA OuterStations ==
  ASSUME TypeInv, NEW i \in Invocations, ~Works(i),
         Run(i) \/ (\E resume \in BOOLEAN : Launch(i, resume)) \/ Crash(i) \/ LateExit(i)
  PROVE  \/ proc'[i].pc \in {"idle", "gates", "recheck", "setup", "abandon"} \cup Asking
         \/ WriteInventory(i) \/ LateExit(i)
<1>1. TypeOK /\ proc \in [Invocations -> Processes]
  BY DEF TypeInv, TypeOK
<1>2. CASE CreateLock(i) \/ ProbeHolder(i) \/ RemoveStaleLock(i) \/ RecreateLock(i)
  <2>1. Leave(i) \/ \E st \in {"recheck", "setup", "holder", "steal", "relock", "abandon"} : GoesTo(i, st)
    BY <1>2 DEF CreateLock, ProbeHolder, RemoveStaleLock, RecreateLock, LockThrows, Entry, GoesTo
  <2>2. QED
    BY <1>1, <2>1, LeaveTyped, MovesOn DEF Moves, Stopped, Asking
<1>3. CASE Refuse(i) \/ Release(i) \/ Crash(i)
  BY <1>1, <1>3, LeaveTyped DEF Refuse, Release, Crash, Stopped
<1>4. CASE \E resume \in BOOLEAN : Launch(i, resume)
  BY <1>1, <1>4 DEF Launch, Stopped
<1>5. CASE Admit(i)
  BY <1>1, <1>5 DEF Admit, Processes, Asking
<1>6. QED
  BY <1>2, <1>3, <1>4, <1>5 DEF Run, Works

\* The executions of an attempt's life: one started on a quiet list, ended before the next.
LEMMA ExecutionEffect ==
  ASSUME TypeInv, LockedInv, CopyInv, RunningInv, NEW i \in Invocations,
         CreateState(i) \/ ResumeState(i) \/ StartExecution(i) \/ Execute(i)
  PROVE  /\ AtMostLast(control') /\ RunningAt(i)'
<1>0. /\ TypeOK /\ mem \in [Invocations -> States \cup {None}]
      /\ proc \in [Invocations -> Processes]
  BY DEF TypeInv, TypeOK
<1>1. CASE CreateState(i)
  <2>1. control' = Created /\ proc'[i].pc = "preflight"
    BY <1>0, <1>1, MovesOn DEF CreateState, Persist, GoesTo, Moves
  <2>2. QED
    BY <2>1 DEF Created, AtMostLast, RunningAt, Quiet, Due, At
<1>2. CASE ResumeState(i)
  <2>1. mem[i] \in States
    BY <1>0, <1>2 DEF ResumeState
  <2>2. PICK stop \in BOOLEAN :
          /\ \E v : control' = [Interrupted(mem[i]) EXCEPT !.status = v]
          /\ proc' = [proc EXCEPT ![i].pc = IF stop THEN "verdict" ELSE "preflight",
                                  ![i].failed = stop]
    BY <1>2 DEF ResumeState, Persist
  <2>3. control'.executions = Interrupted(mem[i]).executions
    BY <2>2
  <2>4. AtMostLast(control') /\ Quiet(control')
    BY <2>1, <2>3, InterruptedQuiet DEF Quiet, AtMostLast
  <2>5. \/ proc'[i].pc = "preflight"
        \/ proc'[i].pc = "verdict" /\ proc'[i].failed = TRUE
    BY <1>0, <2>2 DEF Processes
  <2>6. QED
    BY <2>4, <2>5 DEF RunningAt, Due, At, Quiet
<1>3. CASE StartExecution(i)
  <2>1. mem[i] = control /\ mem[i] \in States /\ Quiet(mem[i])
    BY <1>3 DEF StartExecution, At, CopyInv, Holding, Carrying, TypeInv, Equipped, RunningInv, RunningAt,
       Settled
  <2>2. ~AllCompleted(mem[i]) /\ control' = StartedOn(mem[i])
    BY <1>3 DEF StartExecution, Persist, StartedOn
  <2>3. proc'[i].pc = "executing"
    BY <1>0, <1>3, MovesOn DEF StartExecution, GoesTo, Moves
  <2>4. QED
    BY <2>1, <2>2, <2>3, StartedRuns DEF RunningAt, Due, At, Settled
<1>4. CASE Execute(i)
  <2>1. /\ mem[i] = control /\ mem[i] \in States /\ mem[i].executions # <<>>
        /\ AtMostLast(mem[i])
    BY <1>4, NoneAssumption DEF Execute, At, CopyInv, Holding, Carrying, TypeInv, Equipped, RunningInv
  <2> DEFINE e == mem[i].executions[Last(mem[i])]
  <2>2. e \in Executions
    BY <2>1 DEF States, Last
  <2>3. PICK f \in Executions : f.status # "in-progress" /\ control' = WithLast(mem[i], f)
    <3>1. PICK end \in {Ended(e, "completed", None)} \cup
                       {Ended(e, "failed", r) : r \in Reasons \cup {"execution-seal-failed"}} :
            control' = WithLast(mem[i], FreezeRechecked(end))
      BY <1>4 DEF Execute, Persist
    <3>2. PICK status \in {"completed", "failed"}, r \in Classes \cup {None} : end = Ended(e, status, r)
      BY <3>1 DEF Classes
    <3>3. end \in Executions /\ end.status = status
      BY <2>2, <3>2, EndedTyped DEF Ended, Executions
    <3>4. FreezeRechecked(end) \in Executions /\ FreezeRechecked(end).status # "in-progress"
      <4>1. Ended(end, "failed", "freeze-violation") \in Executions
        BY <3>3, EndedTyped DEF Classes
      <4>2. Ended(end, "failed", "freeze-violation").status = "failed"
        BY <3>3 DEF Ended, Executions
      <4>3. QED
        BY <3>3, <4>1, <4>2 DEF FreezeRechecked
    <3>5. QED
      BY <3>1, <3>4
  <2>4. Quiet(control')
    BY <2>1, <2>3, LastEndedQuiet
  <2>5. proc'[i].pc = "judge"
    BY <1>0, <1>4, MovesOn DEF Execute, GoesTo, Moves
  <2>6. QED
    BY <2>4, <2>5 DEF RunningAt, Due, At, Quiet, AtMostLast
<1>5. QED
  BY <1>1, <1>2, <1>3, <1>4

LEMMA JudgeEffect ==
  ASSUME TypeInv, LockedInv, CopyInv, RunningInv, NEW i \in Invocations, Judge(i)
  PROVE  /\ AtMostLast(control') /\ RunningAt(i)'
<1>0. /\ TypeOK /\ mem[i] = control /\ mem[i] \in States /\ mem[i].executions # <<>> /\ Quiet(mem[i])
      /\ AtMostLast(mem[i])
  BY DEF Judge, At, CopyInv, Holding, Carrying, TypeInv, Equipped, RunningInv, RunningAt, Settled, Quiet,
     AtMostLast
<1> DEFINE e == mem[i].executions[Last(mem[i])]
           d == Disposition(e.failureReason, Cardinality(ExecutionsOf(mem[i], e.attempt)))
<1>1. e \in Executions /\ e.status # "in-progress"
  BY <1>0 DEF States, Last, Quiet
<1>2. CASE Goto(i, "next") /\ UNCHANGED control
  <2>1. proc'[i].pc = "next"
    BY <1>0, <1>2, MovesOn DEF GoesTo, Moves
  <2>2. QED
    BY <1>0, <1>2, <2>1 DEF RunningAt, Due, At
<1>3. CASE /\ Persist(i, WithLast(mem[i], [e EXCEPT !.disposition = d]))
           /\ Goto(i, "next") \/ LoopEnds(i, TRUE)
  <2>1. [e EXCEPT !.disposition = d] \in Executions /\ [e EXCEPT !.disposition = d].status # "in-progress"
    <3>1. d \in {"permitted", "forbidden", "exhausted"}
      BY <1>0, ExecutionsOfFinite, DispositionTyped
    <3>2. QED
      BY <1>1, <3>1 DEF Executions
  <2>2. Quiet(control')
    BY <1>0, <1>3, <2>1, LastEndedQuiet DEF Persist
  <2>3. CASE Goto(i, "next")
    <3>1. proc'[i].pc = "next"
      BY <1>0, <2>3, MovesOn DEF GoesTo, Moves
    <3>2. QED
      BY <2>2, <3>1 DEF RunningAt, Due, At, Quiet, AtMostLast
  <2>4. CASE LoopEnds(i, TRUE)
    <3>1. MoveFailed(i, "verdict", TRUE) /\ "verdict" \in Stations
      BY <2>4 DEF LoopEnds, MoveFailed, Stations
    <3>2. proc'[i].pc = "verdict" /\ proc'[i].failed = TRUE
      BY <1>0, <3>1, LoopEndsTyped
    <3>3. QED
      BY <2>2, <3>2 DEF RunningAt, Due, At, Quiet, AtMostLast
  <2>5. QED
    BY <1>3, <2>3, <2>4
<1>4. QED
  BY <1>2, <1>3 DEF Judge

\* A written-back failure that could not be sealed ends the execution it surfaces.
LEMMA SurfacedQuiet ==
  ASSUME TypeInv, RunningInv, NEW m, Escaped(control, m)
  PROVE  Quiet(m) /\ m \in States
<1>1. control \in States /\ control.executions # <<>> /\ AtMostLast(control)
  BY NoneAssumption DEF Escaped, RunningInv
<1> DEFINE e == control.executions[Last(control)]
<1>2. PICK r \in Reasons \cup {"execution-seal-failed"} :
        m = WithLast(control, [Ended(e, "failed", r) EXCEPT !.seal = None])
  BY DEF Escaped
<1>3. e \in Executions
  BY <1>1 DEF States, Last
<1>4. Ended(e, "failed", r) \in Executions /\ Ended(e, "failed", r).status = "failed"
  BY <1>3, EndedTyped DEF Classes, Ended, Executions
<1>5. /\ [Ended(e, "failed", r) EXCEPT !.seal = None] \in Executions
      /\ [Ended(e, "failed", r) EXCEPT !.seal = None].status # "in-progress"
  BY <1>4 DEF Executions
<1>6. QED
  BY <1>1, <1>2, <1>5, LastEndedQuiet, WithLastTyped

LEMMA RewriteRunning ==
  ASSUME TypeInv, TypeInv', LockedInv, CopyInv, RunningInv, ClosedInv, NEW i \in Invocations, Rewrites(i)
  PROVE  /\ control' # None => AtMostLast(control')
         /\ RunningAt(i)'
<1>1. CASE ~Abandon(i)
  <2>1. /\ proc[i].pc \in Settled /\ proc'[i].pc \in Settled \cup {"release"}
        /\ Due(i)' => Due(i) \/ At(i, "supersede") \/ AllCompleted(mem[i])
    BY <1>1, RewriteMoves
  <2>2. control # None /\ mem[i] = control
    BY <2>1 DEF Settled, LockedInv, FoundInv, Carrying, CopyInv, Holding
  <2>3. SameList
    BY <1>1, RewriteEffect DEF Surfaces
  <2>4. AtMostLast(control) /\ Quiet(control)
    BY <2>1, <2>2 DEF RunningInv, RunningAt
  <2>5. At(i, "supersede") => AllCompleted(control)
    BY DEF TypeInv, Equipped, ClosedInv, At
  <2>6. Due(i)' => AllCompleted(control)
    BY <2>1, <2>2, <2>5 DEF RunningInv, RunningAt
  <2>7. AtMostLast(control)' /\ Quiet(control)' /\ (Due(i)' => AllCompleted(control)')
    BY <2>2, <2>3, <2>4, <2>6, SameListKeeps
  <2>8. QED
    BY <2>1, <2>7 DEF RunningAt, At, Settled
<1>2. CASE Abandon(i)
  <2>1. proc'[i].pc = "release"
    BY <1>2, MovesOn DEF TypeInv, Abandon, GoesTo, Moves
  <2>2. RunningAt(i)'
    BY <2>1 DEF RunningAt, Due, At, Settled
  <2>3. CASE SameList
    BY <2>2, <2>3, SameListKeeps, NoneAssumption DEF RunningInv, SameList
  <2>4. CASE Surfaces(i)
    <3>1. control'.executions = mem[i].executions /\ Quiet(mem[i])
      BY <2>4, SurfacedQuiet DEF Surfaces
    <3>2. QED
      BY <2>2, <3>1 DEF AtMostLast, Quiet
  <2>5. QED
    BY <2>3, <2>4, RewriteEffect
<1>3. QED
  BY <1>1, <1>2

LEMMA RunningStep ==
  ASSUME TypeInv, TypeInv', LockedInv, CopyInv, RunningInv, ClosedInv, NEW i \in Invocations,
         Run(i) \/ (\E resume \in BOOLEAN : Launch(i, resume)) \/ Crash(i) \/ LateExit(i)
  PROVE  RunningInv'
<1>0. TypeOK
  BY DEF TypeInv
<1>1. /\ control' # None => AtMostLast(control')
      /\ RunningAt(i)'
  <2>1. CASE Rewrites(i)
    BY <2>1, RewriteRunning
  <2>2. CASE CreateState(i) \/ ResumeState(i) \/ StartExecution(i) \/ Execute(i) \/ Judge(i)
    BY <2>2, ExecutionEffect, JudgeEffect
  <2>3. CASE Recheck(i)
    <3>1. UNCHANGED control
      BY <2>3 DEF Recheck
    <3>2. CASE Goto(i, "release")
      <4>1. proc'[i].pc = "release"
        BY <1>0, <3>2, MovesOn DEF GoesTo, Moves
      <4>2. QED
        BY <3>1, <4>1 DEF RunningInv, RunningAt, Due, At, Settled
    <3>3. CASE control # None /\ inventory # None /\ Goto(i, "supersede")
      <4>1. proc'[i].pc = "supersede"
        BY <1>0, <3>3, MovesOn DEF GoesTo, Moves
      <4>2. QED
        BY <3>1, <3>3, <4>1 DEF RunningInv, RunningAt, Due, At, Settled, ClosedInv
    <3>4. QED
      BY <2>3, <3>2, <3>3 DEF Recheck
  <2>4. CASE ArchivePlan(i) \/ Preflight(i) \/ Throws(i) \/ SealEscapes(i)
    <3>1. UNCHANGED control
      BY <2>4 DEF ArchivePlan, Preflight, Throws, SealEscapes
    <3>2. CASE Preflight(i)
      <4>1. proc'[i].pc = "next" /\ Quiet(control)
        BY <1>0, <3>2, MovesOn DEF Preflight, GoesTo, Moves, RunningInv, RunningAt, Settled, At
      <4>2. QED
        BY <3>1, <4>1 DEF RunningInv, RunningAt, Due, At, Settled
    <3>3. CASE ArchivePlan(i) \/ Throws(i) \/ SealEscapes(i)
      <4>1. proc'[i].pc \in {"open", "abandon"}
        BY <1>0, <3>3, MovesOn DEF ArchivePlan, Throws, SealEscapes, GoesTo, Moves
      <4>2. QED
        BY <3>1, <4>1 DEF RunningInv, RunningAt, Due, At, Settled
    <3>4. QED
      BY <2>4, <3>2, <3>3
  <2>5. CASE ~Works(i)
    <3>1. UNCHANGED control
      BY <2>5, ControlStep
    <3>2. CASE proc'[i].pc \in {"idle", "gates", "recheck", "setup", "abandon"} \cup Asking
      BY <3>1, <3>2 DEF RunningInv, RunningAt, Due, At, Settled, Asking
    <3>3. CASE WriteInventory(i)
      <4>1. proc'[i].pc = "zip" /\ Quiet(control)
        BY <1>0, <3>3, MovesOn DEF WriteInventory, GoesTo, Moves, RunningInv, RunningAt, Settled, At
      <4>2. QED
        BY <3>1, <4>1 DEF RunningInv, RunningAt, Due, At, Settled
    <3>4. CASE LateExit(i)
      <4>1. UNCHANGED <<control, proc>> /\ RunningAt(i)
        BY <3>4 DEF LateExit, RunningInv
      <4>2. QED
        BY <4>1 DEF RunningInv, RunningAt, Due, At
    <3>5. QED
      BY <2>5, <3>2, <3>3, <3>4, OuterStations
  <2>6. QED
    BY <2>1, <2>2, <2>3, <2>4, <2>5 DEF Works, Rewrites
<1>2. ASSUME NEW j \in Invocations \ {i} PROVE RunningAt(j)'
  <2>1. proc'[j] = proc[j] /\ RunningAt(j)
    BY StartingTyped, AttemptsTyped, PackagingTyped, EndingTyped DEF Run, Apart, RunningInv
  <2>2. CASE control' = control
    BY <2>1, <2>2 DEF RunningAt, Due, At
  <2>3. CASE Works(i)
    <3>1. ~Outside(i)
      BY <2>3, WorkMoves DEF Follows, Outside, Asking, Open, Packing, Rereading, At
    <3>2. Outside(j)
      BY <3>1, OthersAway
    <3>3. QED
      BY <2>1, <3>2 DEF RunningAt, Due, At, Outside, Asking, Settled
  <2>4. QED
    BY <2>2, <2>3, ControlStep
<1>3. QED
  BY <1>1, <1>2 DEF RunningInv

-----------------------------------------------------------------------------
(* What the inventory closes                                               *)

\* Past the inventory only the packaging transaction works, and it rewrites the control
\* state it read, the aggregate included.
LEMMA ClosedWork ==
  ASSUME TypeInv, TypeInv', LockedInv, CopyInv, ClosedInv, NEW i \in Invocations, Works(i),
         inventory # None
  PROVE  /\ UNCHANGED evidence /\ SameList /\ control # None
         /\ control'.aggregate = control.aggregate
<1>0. mem \in [Invocations -> States \cup {None}] /\ control # None /\ TypeOK
  BY DEF TypeInv, TypeOK, LockedInv, FoundInv
<1>1. proc[i].pc \notin Open
  BY DEF LockedInv, PathInv, PathOf
<1>2. \/ BeginPackage(i) \/ Stage(i) \/ CommitArchive(i) \/ WriteReceipt(i) \/ MarkCompleted(i)
      \/ Recheck(i) \/ Supersede(i) \/ StageFails(i)
  BY <1>1 DEF Works, ArchivePlan, CreateState, ResumeState, Preflight, LeaveLoop, StartExecution, Execute,
     SealEscapes, JudgeBudget, Judge, Verdict, ReportFailure, Batch, Evaluate, Throws, Abandon, At, Open
<1>3. UNCHANGED evidence
  BY <1>2 DEF BeginPackage, Stage, CommitArchive, WriteReceipt, MarkCompleted, Recheck, Supersede,
     StageFails, evidence
<1>4. CASE Recheck(i)
  BY <1>0, <1>3, <1>4 DEF Recheck, SameList
<1>5. CASE ~Recheck(i)
  <2>1. Rewrites(i) /\ ~Abandon(i)
    <3>1. proc[i].pc # "abandon"
      BY <1>1 DEF Open
    <3>2. QED
      BY <1>2, <1>5, <3>1 DEF Rewrites, Abandon, At
  <2>2. SameList
    BY <2>1, RewriteEffect DEF Surfaces
  <2>3. proc[i].pc \in Carrying
    BY <1>2, <1>5 DEF BeginPackage, Stage, CommitArchive, WriteReceipt, MarkCompleted, Supersede,
       StageFails, At, Carrying
  <2>4. mem[i] = control /\ mem[i] \in States
    BY <2>3 DEF CopyInv, Holding, TypeInv, Equipped
  <2>5. ASSUME NEW s, s.aggregate = control.aggregate, FailWith(i, s)
        PROVE  control'.aggregate = control.aggregate
    <3>1. [s EXCEPT !.status = "failed"].aggregate = s.aggregate
      OBVIOUS
    <3>2. QED
      BY <2>5, <3>1 DEF FailWith, Persist
  <2>6. ASSUME Fail(i) PROVE control'.aggregate = control.aggregate
    BY <2>4, <2>5, <2>6 DEF Fail
  <2>7. /\ \A v : [mem[i] EXCEPT !.superseded = v].aggregate = control.aggregate
        /\ \A v, w : /\ [[mem[i] EXCEPT !.superseded = v] EXCEPT !.status = w].aggregate = control.aggregate
                     /\ [mem[i] EXCEPT !.status = v, !.archive = w].aggregate = control.aggregate
    BY <2>4
  <2>8. control'.aggregate = control.aggregate
    <3>1. CASE BeginPackage(i)
      <4>1. CASE control' = [mem[i] EXCEPT !.aggregate = Aggregate]
        <5>1. control'.aggregate = Aggregate
          BY <2>4, <4>1 DEF States
        <5>2. QED
          BY <5>1 DEF Aggregate, ClosedInv
      <4>2. QED
        BY <2>6, <3>1, <4>1 DEF BeginPackage, Persist
    <3>2. CASE Stage(i) \/ CommitArchive(i)
      <4>1. Fail(i) \/ UNCHANGED control
        BY <3>2 DEF Stage, CommitArchive
      <4>2. QED
        BY <2>6, <4>1
    <3>3. CASE WriteReceipt(i)
      <4>1. Fail(i) \/ control' = mem[i]
        BY <3>3 DEF WriteReceipt, Persist
      <4>2. QED
        BY <2>4, <2>6, <4>1
    <3>4. CASE MarkCompleted(i)
      BY <2>7, <3>4 DEF MarkCompleted, Packaged, Persist
    <3>5. CASE Supersede(i)
      <4> DEFINE s == [mem[i] EXCEPT !.superseded = @ \cup Unreceipted]
      <4>1. /\ s.aggregate = control.aggregate
            /\ [s EXCEPT !.status = "packaging"].aggregate = control.aggregate
        BY <2>4
      <4>2. FailWith(i, s) \/ Persist(i, [s EXCEPT !.status = "packaging"])
        BY <3>5 DEF Supersede
      <4> HIDE DEF s
      <4>3. QED
        BY <2>5, <4>1, <4>2 DEF Persist
    <3>6. CASE StageFails(i)
      <4> DEFINE s == IF At(i, "complete") THEN Packaged(i) ELSE mem[i]
      <4>1. s.aggregate = control.aggregate
        BY <2>4, <2>7 DEF Packaged
      <4>2. FailWith(i, s)
        BY <3>6 DEF StageFails
      <4> HIDE DEF s
      <4>3. QED
        BY <2>5, <4>1, <4>2
    <3>7. QED
      BY <1>2, <1>5, <3>1, <3>2, <3>3, <3>4, <3>5, <3>6
  <2>9. QED
    BY <1>0, <1>3, <2>2, <2>8
<1>6. QED
  BY <1>4, <1>5

\* Away from the writer nothing but the inventory is new, and only if i takes it.
LEMMA IdleEvidence ==
  ASSUME TypeInv, NEW i \in Invocations, ~Works(i), ~WriteInventory(i),
         Run(i) \/ (\E resume \in BOOLEAN : Launch(i, resume)) \/ Crash(i) \/ LateExit(i)
  PROVE  /\ UNCHANGED root
         /\ inventory' = inventory \/ inventory' = Spoiled
BY DEF Run, Works, Launch, Refuse, Admit, CreateLock, ProbeHolder, RemoveStaleLock, RecreateLock,
   Release, Crash, LateExit, TouchRoot, evidence

LEMMA SpoiledKeeps ==
  ASSUME TypeInv, inventory' = inventory \/ inventory' = Spoiled
  PROVE  /\ inventory = None <=> inventory' = None
         /\ inventory # None => inventory'.aggregate = inventory.aggregate
<1>1. CASE inventory = None
  BY <1>1 DEF Spoiled
<1>2. CASE inventory \in Inventories
  <2>1. /\ [inventory EXCEPT !.intact = FALSE] \in Inventories
        /\ [inventory EXCEPT !.intact = FALSE].aggregate = inventory.aggregate
    BY <1>2 DEF Inventories
  <2>2. inventory # None /\ [inventory EXCEPT !.intact = FALSE] # None
    BY <1>2, <2>1, NoneAssumption
  <2>3. QED
    BY <2>1, <2>2 DEF Spoiled
<1>3. QED
  BY <1>1, <1>2 DEF TypeInv, TypeOK

ClosedAt(i) ==
  /\ proc[i].pc \in {"package", "inventory"} => Reported(control)
  /\ At(i, "inventory") => control.aggregate = root.report.turn

LEMMA ClosedAtWork ==
  ASSUME TypeInv, TypeInv', LockedInv, CopyInv, ClosedInv, NEW i \in Invocations, Works(i)
  PROVE  ClosedAt(i)'
<1>0. /\ TypeOK /\ proc \in [Invocations -> Processes] /\ mem \in [Invocations -> States \cup {None}]
  BY DEF TypeInv, TypeOK
<1>1. PICK st : Moves(i, st) /\ Follows(i, st)
  BY WorkMoves
<1>2. CASE st \notin {"package", "inventory"}
  BY <1>1, <1>2 DEF ClosedAt, Moves, At
<1>3. CASE st = "inventory"
  <2>1. At(i, "package") /\ inventory = None
    BY <1>1, <1>3 DEF Follows, Open, Packing
  <2>2. mem[i] = control /\ mem[i] \in States
    BY <2>1 DEF CopyInv, Holding, Carrying, At, TypeInv, Equipped
  <2>3. BeginPackage(i) \/ StageFails(i)
    BY <2>1 DEF Works, ArchivePlan, CreateState, ResumeState, Preflight, LeaveLoop, StartExecution, Execute,
       SealEscapes, JudgeBudget, Judge, Verdict, ReportFailure, Batch, Evaluate, Stage, CommitArchive,
       WriteReceipt, MarkCompleted, Recheck, Supersede, Throws, Abandon, At
  <2>4. CASE Goto(i, "release")
    <3>1. proc'[i].pc = "release"
      BY <1>0, <2>4, MovesOn DEF GoesTo, Moves
    <3>2. QED
      BY <1>1, <1>3, <3>1 DEF Moves
  <2>5. CASE control' = [mem[i] EXCEPT !.aggregate = Aggregate] /\ UNCHANGED evidence
    <3>1. control'.executions = control.executions /\ control'.aggregate = Aggregate
      BY <2>2, <2>5 DEF States
    <3>2. Reported(control) /\ UNCHANGED root
      BY <2>1, <2>5 DEF ClosedInv, At, evidence
    <3>3. QED
      BY <2>1, <3>1, <3>2 DEF ClosedAt, Reported, Aggregate
  <2>6. QED
    BY <2>3, <2>4, <2>5 DEF BeginPackage, StageFails, Fail, FailWith, Persist
<1>4. CASE st = "package"
  <2>1. CASE inventory # None
    <3>1. UNCHANGED evidence /\ SameList /\ control # None
      BY <2>1, ClosedWork
    <3>2. Reported(control)'
      BY <2>1, <3>1, SameListKeeps DEF ClosedInv, evidence
    <3>3. QED
      BY <1>1, <1>4, <3>2 DEF ClosedAt, Moves, At
  <2>2. CASE inventory = None
    <3>1. Evaluate(i)
      <4>1. ASSUME NEW to, GoesTo(i, to), to # "package" PROVE FALSE
        BY <1>0, <1>1, <1>4, <4>1, MovesOn DEF Moves
      <4>2. proc[i].pc \in Open
        <5>1. ~At(i, "supersede")
          BY <2>2 DEF TypeInv, Equipped, At
        <5>2. QED
          BY <1>1, <1>4, <5>1 DEF Follows, Packing
      <4>3. ~(ArchivePlan(i) \/ CreateState(i) \/ Preflight(i) \/ StartExecution(i)
              \/ Execute(i) \/ SealEscapes(i) \/ ReportFailure(i) \/ Throws(i) \/ Abandon(i))
        BY <4>1 DEF ArchivePlan, CreateState, Preflight, StartExecution, Execute, SealEscapes,
           ReportFailure, Throws, Abandon, GoesTo
      <4>4. ~(LeaveLoop(i) \/ JudgeBudget(i) \/ Judge(i))
        <5>1. ~LoopEnds(i, TRUE) /\ ~LoopEnds(i, FALSE)
          BY <4>1 DEF LoopEnds, MoveFailed, GoesTo
        <5>2. QED
          BY <4>1, <5>1 DEF LeaveLoop, JudgeBudget, Judge, GoesTo
      <4>5. ~(ResumeState(i) \/ Verdict(i))
        <5>1. ~ResumeState(i)
          <6>1. SUFFICES ASSUME NEW stop \in BOOLEAN,
                  proc' = [proc EXCEPT ![i].pc = IF stop THEN "verdict" ELSE "preflight", ![i].failed = stop]
                  PROVE FALSE
            BY DEF ResumeState
          <6>2. proc'[i].pc # "package"
            BY <1>0, <6>1 DEF Processes
          <6>3. QED
            BY <1>1, <1>4, <6>2 DEF Moves
        <5>2. ~Verdict(i)
          <6>1. SUFFICES ASSUME NEW v,
                  proc' = [proc EXCEPT ![i].pc = IF proc[i].failed THEN "report" ELSE "batch",
                                       ![i].stopFailed = v]
                  PROVE FALSE
            BY DEF Verdict
          <6>2. proc'[i].pc # "package"
            BY <1>0, <6>1 DEF Processes
          <6>3. QED
            BY <1>1, <1>4, <6>2 DEF Moves
        <5>3. QED
          BY <5>1, <5>2
      <4>6. ~(Batch(i) \/ StageFails(i))
        BY <4>1 DEF Batch, StageFails, Fail, FailWith, GoesTo
      <4>7. ~(BeginPackage(i) \/ Stage(i) \/ CommitArchive(i) \/ WriteReceipt(i) \/ MarkCompleted(i)
              \/ Recheck(i) \/ Supersede(i))
        BY <4>2 DEF BeginPackage, Stage, CommitArchive, WriteReceipt, MarkCompleted, Recheck, Supersede,
           At, Open
      <4>8. QED
        BY <4>3, <4>4, <4>5, <4>6, <4>7 DEF Works
    <3>2. mem[i] \in States
      BY <3>1 DEF Evaluate, At, TypeInv, Equipped, Carrying
    <3>3. CASE Fail(i)
      <4>1. proc'[i].pc = "release"
        BY <1>0, <3>3, MovesOn DEF Fail, FailWith, GoesTo, Moves
      <4>2. QED
        BY <1>1, <1>4, <4>1 DEF Moves
    <3>4. CASE /\ WriteReport(mem[i], TRUE)
               /\ Persist(i, [mem[i] EXCEPT !.status = "packaging"])
      <4>1. control'.executions = mem[i].executions
        BY <3>2, <3>4 DEF Persist
      <4>2. /\ root'.report # None /\ root'.report.complete = TRUE
            /\ root'.report.executions = mem[i].executions
        BY <1>0, <3>2, <3>4, WriteReportTyped
      <4>3. QED
        BY <1>1, <1>4, <4>1, <4>2 DEF ClosedAt, Reported, Moves, At
    <3>5. QED
      BY <3>1, <3>3, <3>4 DEF Evaluate
  <2>3. QED
    BY <2>1, <2>2
<1>5. QED
  BY <1>2, <1>3, <1>4

LEMMA ClosedStep ==
  ASSUME TypeInv, TypeInv', LockedInv, CopyInv, RunningInv, ClosedInv, NEW i \in Invocations,
         Run(i) \/ (\E resume \in BOOLEAN : Launch(i, resume)) \/ Crash(i) \/ LateExit(i)
  PROVE  ClosedInv'
<1>0. TypeOK /\ mem \in [Invocations -> States \cup {None}]
  BY DEF TypeInv, TypeOK
<1>1. \A j \in Invocations \ {i} : proc'[j] = proc[j]
  BY StartingTyped, AttemptsTyped, PackagingTyped, EndingTyped DEF Run, Apart
<1> DEFINE Final == /\ Quiet(control) /\ AllCompleted(control) /\ Reported(control)
                    /\ inventory.aggregate = control.aggregate
                    /\ inventory.aggregate = root.report.turn
<1>2. CASE Works(i)
  <2>1. ASSUME NEW j \in Invocations \ {i} PROVE ClosedAt(j)'
    <3>1. ~Outside(i)
      BY <1>2, WorkMoves DEF Follows, Outside, Asking, Open, Packing, Rereading, At
    <3>2. Outside(j) /\ proc'[j] = proc[j]
      BY <1>1, <3>1, OthersAway
    <3>3. QED
      BY <3>2 DEF ClosedAt, Outside, Asking, At
  <2>2. inventory' # None => Final'
    <3>1. CASE inventory # None
      <4>1. UNCHANGED evidence /\ SameList /\ control # None /\ control'.aggregate = control.aggregate
        BY <1>2, <3>1, ClosedWork
      <4>2. QED
        BY <3>1, <4>1, SameListKeeps DEF ClosedInv, evidence
    <3>2. QED
      BY <1>2, <3>1, WorkMoves
  <2>3. QED
    BY <1>2, <2>1, <2>2, ClosedAtWork DEF ClosedInv, ClosedAt
<1>3. CASE WriteInventory(i)
  <2>1. /\ UNCHANGED <<control, root>> /\ At(i, "inventory") /\ Goto(i, "zip")
        /\ inventory'.aggregate = mem[i].aggregate
    BY <1>3 DEF WriteInventory
  <2>2. mem[i] = control /\ Quiet(control) /\ AllCompleted(control)
    BY <2>1 DEF CopyInv, Holding, Carrying, At, RunningInv, RunningAt, Settled, Due
  <2>3. Reported(control) /\ control.aggregate = root.report.turn
    BY <2>1 DEF ClosedInv, At
  <2>4. Final'
    BY <2>1, <2>2, <2>3 DEF Quiet, AllCompleted, CompletedExecution, ExecutionsOf, Reported
  <2>5. proc'[i].pc = "zip"
    BY <1>0, <2>1, MovesOn DEF GoesTo, Moves
  <2>6. \A j \in Invocations : ClosedAt(j)'
    <3>1. ASSUME NEW j \in Invocations \ {i} PROVE ClosedAt(j)'
      BY <1>1, <2>1, <3>1 DEF ClosedInv, ClosedAt, At, Reported
    <3>2. QED
      BY <2>5, <3>1 DEF ClosedAt, At
  <2>7. QED
    BY <2>4, <2>6 DEF ClosedInv, ClosedAt
<1>4. CASE ~Works(i) /\ ~WriteInventory(i)
  <2>1. UNCHANGED <<control, root>> /\ (inventory' = inventory \/ inventory' = Spoiled)
    BY <1>4, ControlStep, IdleEvidence
  <2>2. /\ inventory = None <=> inventory' = None
        /\ inventory # None => inventory'.aggregate = inventory.aggregate
    BY <2>1, SpoiledKeeps
  <2>3. inventory' # None => Final'
    BY <2>1, <2>2 DEF ClosedInv, Quiet, AllCompleted, CompletedExecution, ExecutionsOf, Reported
  <2>4. ASSUME NEW j \in Invocations PROVE ClosedAt(j)'
    <3>1. proc'[j].pc \in {"package", "inventory"} => proc'[j] = proc[j]
      <4>1. LateExit(i) => UNCHANGED proc
        BY DEF LateExit
      <4>2. QED
        BY <1>1, <1>4, <4>1, OuterStations DEF Asking
    <3>2. QED
      BY <2>1, <3>1 DEF ClosedInv, ClosedAt, At, Reported
  <2>5. QED
    BY <2>3, <2>4 DEF ClosedInv, ClosedAt
<1>5. QED
  BY <1>2, <1>3, <1>4

-----------------------------------------------------------------------------
(* A recorded halt                                                         *)

LEMMA LastNotHalted ==
  ASSUME NEW s \in States, s.executions # <<>>, NEW e \in Executions,
         e.disposition \notin {"forbidden", "exhausted"}, ~Halted(s)
  PROVE  ~Halted(WithLast(s, e))
<1>1. /\ WithLast(s, e) \in States /\ Len(WithLast(s, e).executions) = Len(s.executions)
      /\ \A k \in DOMAIN s.executions :
           WithLast(s, e).executions[k] = IF k = Last(s) THEN e ELSE s.executions[k]
  BY WithLastTyped
<1>2. DOMAIN WithLast(s, e).executions = DOMAIN s.executions
  <2>1. s.executions \in Seq(Executions) /\ WithLast(s, e).executions \in Seq(Executions)
    BY <1>1 DEF States
  <2>2. QED
    BY <1>1, <2>1
<1>3. QED
  BY <1>1, <1>2 DEF Halted

LEMMA StartedNotHalted ==
  ASSUME NEW s \in States, ~AllCompleted(s), ~Halted(s)
  PROVE  ~Halted(StartedOn(s))
<1> DEFINE a == NextAttempt(s)
           t == StartedOn(s)
<1>1. a \in Attempts
  BY NextAttemptExists
<1>2. t.executions = Append(s.executions, Execution(a))
  BY <1>1, StartedTyped DEF StartedOn
<1>3. s.executions \in Seq(Executions)
  BY DEF States
<1>4. Execution(a).disposition \notin {"forbidden", "exhausted"}
  BY NoneAssumption DEF Execution
<1> HIDE DEF a, t
<1>5. \A k \in DOMAIN t.executions :
        \/ k \in DOMAIN s.executions /\ t.executions[k] = s.executions[k]
        \/ t.executions[k] = Execution(a)
  BY <1>2, <1>3
<1>6. QED
  BY <1>4, <1>5 DEF Halted, t

\* What an execution ends with is no disposition yet.
LEMMA EndedNotHalted ==
  ASSUME NEW e \in Executions, e.disposition \notin {"forbidden", "exhausted"},
         NEW status \in {"completed", "failed"}, NEW r \in Classes \cup {None}
  PROVE  LET f == Ended(e, status, r) IN
         /\ f \in Executions /\ f.disposition \notin {"forbidden", "exhausted"}
         /\ [f EXCEPT !.seal = None] \in Executions
         /\ [f EXCEPT !.seal = None].disposition \notin {"forbidden", "exhausted"}
         /\ FreezeRechecked(f) \in Executions
         /\ FreezeRechecked(f).disposition \notin {"forbidden", "exhausted"}
<1> DEFINE f == Ended(e, status, r)
<1>1. f \in Executions /\ f.disposition \notin {"forbidden", "exhausted"}
  BY EndedTyped DEF Ended, Executions
<1> HIDE DEF f
<1>2. /\ [f EXCEPT !.seal = None] \in Executions
      /\ [f EXCEPT !.seal = None].disposition \notin {"forbidden", "exhausted"}
  BY <1>1 DEF Executions
<1>3. /\ Ended(f, "failed", "freeze-violation") \in Executions
      /\ Ended(f, "failed", "freeze-violation").disposition \notin {"forbidden", "exhausted"}
  BY <1>1, EndedTyped DEF Classes, Ended, Executions
<1>4. QED
  BY <1>1, <1>2, <1>3 DEF FreezeRechecked, f

\* A halt is recorded by the judgement of an execution and by a resume only, and both
\* leave the attempts with it.
LEMMA HaltAppears ==
  ASSUME TypeInv, TypeInv', LockedInv, CopyInv, RunningInv, NEW i \in Invocations,
         Run(i) \/ (\E resume \in BOOLEAN : Launch(i, resume)) \/ Crash(i) \/ LateExit(i),
         control = None \/ ~Halted(control), control' # None, Halted(control')
  PROVE  /\ Works(i) /\ proc[i].pc \in Open
         /\ proc'[i].pc = "verdict" /\ proc'[i].failed = TRUE
<1>0. /\ TypeOK /\ mem \in [Invocations -> States \cup {None}]
      /\ proc \in [Invocations -> Processes]
  BY DEF TypeInv, TypeOK
<1>1. Works(i) /\ control' \in States
  BY ControlStep
<1>2. ~SameList
  <2>1. CASE control # None
    BY <2>1, SameListKeeps
  <2>2. CASE control = None
    BY <2>2, NoneAssumption DEF SameList
  <2>3. QED
    BY <2>1, <2>2
<1>3. ASSUME proc[i].pc \in Carrying
      PROVE  mem[i] = control /\ mem[i] \in States /\ ~Halted(mem[i])
  BY <1>3, NoneAssumption DEF CopyInv, Holding, TypeInv, Equipped
<1>4. ASSUME Rewrites(i) PROVE FALSE
  <2>1. Surfaces(i)
    BY <1>2, <1>4, RewriteEffect
  <2>2. control \in States /\ control.executions # <<>> /\ ~Halted(control)
    BY <2>1, NoneAssumption DEF Surfaces, Escaped
  <2> DEFINE e == control.executions[Last(control)]
  <2>3. PICK r \in Reasons \cup {"execution-seal-failed"} :
          mem[i] = WithLast(control, [Ended(e, "failed", r) EXCEPT !.seal = None])
    BY <2>1 DEF Surfaces, Escaped
  <2>4. e \in Executions /\ e.disposition \notin {"forbidden", "exhausted"}
    BY <2>2 DEF States, Last, Halted
  <2>5. r \in Classes
    BY DEF Classes
  <2>6. ~Halted(mem[i])
    BY <2>2, <2>3, <2>4, <2>5, EndedNotHalted, LastNotHalted
  <2>7. QED
    BY <2>1, <2>6 DEF Surfaces, Halted
<1>5. ASSUME CreateState(i) PROVE FALSE
  BY <1>5 DEF CreateState, Persist, Created, Halted
<1>6. ASSUME StartExecution(i) PROVE FALSE
  <2>1. mem[i] \in States /\ ~Halted(mem[i])
    BY <1>3, <1>6 DEF StartExecution, At, Carrying
  <2>2. ~AllCompleted(mem[i]) /\ control' = StartedOn(mem[i])
    BY <1>6 DEF StartExecution, Persist, StartedOn
  <2>3. QED
    BY <2>1, <2>2, StartedNotHalted
<1>7. ASSUME Execute(i) PROVE FALSE
  <2>1. mem[i] \in States /\ ~Halted(mem[i]) /\ mem[i].executions # <<>>
    BY <1>3, <1>7 DEF Execute, At, Carrying, TypeInv, Equipped
  <2> DEFINE e == mem[i].executions[Last(mem[i])]
  <2>2. e \in Executions /\ e.disposition \notin {"forbidden", "exhausted"}
    BY <2>1 DEF States, Last, Halted
  <2>3. PICK end \in {Ended(e, "completed", None)} \cup
                     {Ended(e, "failed", r) : r \in Reasons \cup {"execution-seal-failed"}} :
          control' = WithLast(mem[i], FreezeRechecked(end))
    BY <1>7 DEF Execute, Persist
  <2>4. PICK status \in {"completed", "failed"}, r \in Classes \cup {None} : end = Ended(e, status, r)
    BY <2>3 DEF Classes
  <2>5. FreezeRechecked(end) \in Executions /\ FreezeRechecked(end).disposition \notin {"forbidden", "exhausted"}
    BY <2>2, <2>4, EndedNotHalted
  <2>6. QED
    BY <2>1, <2>3, <2>5, LastNotHalted
<1>8. CASE ResumeState(i)
  <2>1. mem[i] = control /\ mem[i] \in States /\ ~Halted(mem[i]) /\ At(i, "open")
    BY <1>0, <1>8, NoneAssumption DEF ResumeState, CopyInv, Holding, At
  <2> DEFINE s == Interrupted(mem[i])
             stop == \E k \in DOMAIN s.executions :
                       /\ mem[i].executions[k].status = "in-progress"
                       /\ s.executions[k].disposition # "permitted"
  <2>2. /\ \E v : control' = [s EXCEPT !.status = v]
        /\ proc' = [proc EXCEPT ![i].pc = IF stop THEN "verdict" ELSE "preflight",
                                ![i].failed = stop]
    BY <1>8 DEF ResumeState, Persist
  <2>3. control'.executions = s.executions
    BY <2>2
  <2>4. /\ s \in States /\ DOMAIN s.executions = DOMAIN mem[i].executions
        /\ \A k \in DOMAIN mem[i].executions :
             mem[i].executions[k].status # "in-progress" => s.executions[k] = mem[i].executions[k]
    <3>1. /\ s \in States /\ Len(s.executions) = Len(mem[i].executions)
          /\ \A k \in DOMAIN mem[i].executions :
               mem[i].executions[k].status # "in-progress" => s.executions[k] = mem[i].executions[k]
      BY <2>1, InterruptedTyped
    <3>2. s.executions \in Seq(Executions) /\ mem[i].executions \in Seq(Executions)
      BY <2>1, <3>1 DEF States
    <3>3. QED
      BY <3>1, <3>2
  <2> HIDE DEF s
  <2>5. stop
    <3>1. PICK k \in DOMAIN s.executions : s.executions[k].disposition \in {"forbidden", "exhausted"}
      BY <2>3 DEF Halted
    <3>2. mem[i].executions[k].status = "in-progress"
      BY <2>1, <2>4, <3>1 DEF Halted
    <3>3. QED
      BY <3>1, <3>2
  <2> HIDE DEF stop
  <2>6. proc'[i].pc = "verdict" /\ proc'[i].failed = TRUE
    <3>1. stop = TRUE
      BY <2>5 DEF stop
    <3>2. QED
      BY <1>0, <2>2, <3>1 DEF Processes
  <2>7. QED
    BY <1>1, <2>1, <2>6 DEF At, Open
<1>9. CASE Judge(i)
  <2>1. /\ mem[i] = control /\ mem[i] \in States /\ ~Halted(mem[i]) /\ mem[i].executions # <<>>
        /\ At(i, "judge")
    BY <1>3, <1>9 DEF Judge, At, Carrying, TypeInv, Equipped
  <2> DEFINE e == mem[i].executions[Last(mem[i])]
             d == Disposition(e.failureReason, Cardinality(ExecutionsOf(mem[i], e.attempt)))
  <2>2. e \in Executions
    BY <2>1 DEF States, Last
  <2>3. control' # control
    BY <1>2 DEF SameList
  <2>4. /\ control' = WithLast(mem[i], [e EXCEPT !.disposition = d])
        /\ IF d = "permitted" THEN Goto(i, "next") ELSE LoopEnds(i, TRUE)
    BY <1>9, <2>3 DEF Judge, Persist
  <2>5. d # "permitted"
    <3>1. SUFFICES ASSUME d = "permitted" PROVE FALSE
      OBVIOUS
    <3> HIDE DEF d
    <3>2. /\ [e EXCEPT !.disposition = d] \in Executions
          /\ [e EXCEPT !.disposition = d].disposition \notin {"forbidden", "exhausted"}
      BY <2>2, <3>1 DEF Executions
    <3>3. QED
      BY <2>1, <2>4, <3>2, LastNotHalted
  <2>6. MoveFailed(i, "verdict", TRUE) /\ "verdict" \in Stations
    BY <2>4, <2>5 DEF LoopEnds, MoveFailed, Stations
  <2>7. proc'[i].pc = "verdict" /\ proc'[i].failed = TRUE
    BY <1>0, <2>6, LoopEndsTyped
  <2>8. QED
    BY <1>1, <2>1, <2>7 DEF At, Open
<1>10. CASE Recheck(i) \/ ArchivePlan(i) \/ Preflight(i) \/ Throws(i) \/ SealEscapes(i)
  <2>1. UNCHANGED control
    BY <1>10 DEF Recheck, ArchivePlan, Preflight, Throws, SealEscapes
  <2>2. QED
    BY <1>2, <2>1 DEF SameList
<1>11. QED
  BY <1>1, <1>4, <1>5, <1>6, <1>7, <1>8, <1>9, <1>10 DEF Works, Rewrites

\* Where an invocation of a halted sequence can still be.
HaltedAt(i) ==
  \/ proc[i].pc \in {"idle", "gates", "report", "abandon", "release"}
  \/ At(i, "verdict") /\ proc[i].failed

\* A halted sequence is only brought to its end.
LEMMA HaltedMoves ==
  ASSUME TypeInv, control # None, Halted(control), NEW i \in Invocations, HaltedAt(i),
         Run(i) \/ (\E resume \in BOOLEAN : Launch(i, resume)) \/ Crash(i) \/ LateExit(i)
  PROVE  HaltedAt(i)' /\ ~WriteInventory(i)
<1>0. TypeOK /\ proc \in [Invocations -> Processes]
  BY DEF TypeInv, TypeOK
<1> SUFFICES ~WriteInventory(i) /\ HaltedAt(i)'
  OBVIOUS
<1>1. ~WriteInventory(i)
  BY DEF WriteInventory, At, HaltedAt
<1>2. CASE LateExit(i)
  BY <1>1, <1>2 DEF LateExit, HaltedAt, At
<1>3. CASE \/ \E resume \in BOOLEAN : Launch(i, resume)
           \/ Refuse(i) \/ Release(i) \/ Crash(i)
  <2>1. proc'[i].pc \in {"idle", "gates"}
    <3>1. CASE Leave(i)
      BY <1>0, <3>1, LeaveTyped DEF Stopped
    <3>2. CASE \E resume \in BOOLEAN : Launch(i, resume)
      BY <1>0, <3>2 DEF Launch, Stopped
    <3>3. QED
      BY <1>3, <3>1, <3>2 DEF Refuse, Release, Crash
  <2>2. QED
    BY <1>1, <2>1 DEF HaltedAt
<1>4. CASE Verdict(i)
  <2>1. proc[i].failed
    BY <1>4 DEF Verdict, At, HaltedAt
  <2>2. PICK unconfirmed \in BOOLEAN : MoveStop(i, "report", unconfirmed)
    BY <1>4, <2>1 DEF Verdict, MoveStop
  <2>3. proc'[i].pc = "report"
    BY <1>0, <2>2, MovesOn DEF GoesTo, Moves
  <2>4. QED
    BY <1>1, <2>3 DEF HaltedAt
<1>5. CASE ReportFailure(i) \/ Throws(i) \/ Abandon(i)
  <2>1. GoesTo(i, "release") \/ GoesTo(i, "abandon")
    BY <1>5 DEF ReportFailure, Throws, Abandon, GoesTo
  <2>2. proc'[i].pc \in {"release", "abandon"}
    BY <1>0, <2>1, MovesOn DEF Moves
  <2>3. QED
    BY <1>1, <2>2 DEF HaltedAt
<1>6. ~Admit(i)
  BY DEF Admit, Refused
<1>7. QED
  BY <1>1, <1>2, <1>3, <1>4, <1>5, <1>6 DEF Run, CreateLock, ProbeHolder, RemoveStaleLock, RecreateLock,
     ArchivePlan, CreateState, ResumeState, Preflight, LeaveLoop, StartExecution, Execute, SealEscapes,
     JudgeBudget, Judge, Batch, Evaluate, BeginPackage, Stage, CommitArchive, WriteReceipt, MarkCompleted,
     Recheck, Supersede, StageFails, At, HaltedAt

LEMMA HaltStep ==
  ASSUME TypeInv, TypeInv', LockedInv, CopyInv, RunningInv, HaltInv, NEW i \in Invocations,
         Run(i) \/ (\E resume \in BOOLEAN : Launch(i, resume)) \/ Crash(i) \/ LateExit(i)
  PROVE  HaltInv'
<1> SUFFICES ASSUME control' # None, Halted(control')
             PROVE  inventory' = None /\ \A j \in Invocations : HaltedAt(j)'
  BY DEF HaltInv, HaltedAt
<1>1. \A j \in Invocations \ {i} : proc'[j] = proc[j]
  BY StartingTyped, AttemptsTyped, PackagingTyped, EndingTyped DEF Run, Apart
<1>2. CASE control # None /\ Halted(control)
  <2>1. inventory = None /\ \A j \in Invocations : HaltedAt(j)
    BY <1>2 DEF HaltInv, HaltedAt
  <2>2. HaltedAt(i)' /\ ~WriteInventory(i)
    BY <1>2, <2>1, HaltedMoves
  <2>3. inventory' = None
    BY <2>1, <2>2, InventoryAppears
  <2>4. \A j \in Invocations \ {i} : HaltedAt(j)'
    BY <1>1, <2>1 DEF HaltedAt, At
  <2>5. QED
    BY <2>2, <2>3, <2>4
<1>3. CASE control = None \/ ~Halted(control)
  <2>1. /\ Works(i) /\ proc[i].pc \in Open
        /\ proc'[i].pc = "verdict" /\ proc'[i].failed = TRUE
    BY <1>3, HaltAppears
  <2>2. inventory = None
    BY <2>1 DEF LockedInv, PathInv, PathOf
  <2>3. inventory' = None
    BY <2>1, <2>2, WorkMoves
  <2>4. \A j \in Invocations \ {i} : At(j, "idle")
    BY <2>1, <2>2 DEF LockedInv, LockInv, OneAtATime, At, Open
  <2>5. QED
    BY <1>1, <2>1, <2>3, <2>4 DEF HaltedAt, At
<1>4. QED
  BY <1>2, <1>3

-----------------------------------------------------------------------------
(* Stragglers and the inventory they could spoil                           *)

StragglingAt(i) == proc[i].stopFailed /\ proc[i].pc \in {"report", "batch", "abandon", "release"}

\* A process with a straggler fails before its packaging begins: the provenance gate.
LEMMA StragglerMoves ==
  ASSUME Evidentiary, TypeInv, NEW i \in Invocations, StragglingAt(i),
         Run(i) \/ (\E resume \in BOOLEAN : Launch(i, resume)) \/ Crash(i) \/ LateExit(i)
  PROVE  StragglingAt(i)' \/ i \notin straggler'
<1>0. TypeOK
  BY DEF TypeInv
<1>1. CASE Release(i) \/ Crash(i) \/ LateExit(i)
  BY <1>1 DEF Release, Crash, LateExit
<1>2. CASE ReportFailure(i) \/ Throws(i) \/ StageFails(i) \/ Abandon(i) \/ Batch(i)
  <2>1. Goto(i, "release") \/ Goto(i, "abandon")
    BY <1>2 DEF ReportFailure, Throws, StageFails, Abandon, Batch, Fail, FailWith, ProvenanceComplete,
       StragglingAt
  <2>2. proc'[i].pc \in {"release", "abandon"} /\ proc'[i].stopFailed = proc[i].stopFailed
    <3>1. "release" \in Stations /\ "abandon" \in Stations
      BY DEF Stations
    <3>2. QED
      BY <1>0, <2>1, <3>1, GotoTyped
  <2>3. QED
    BY <2>2 DEF StragglingAt
<1>3. QED
  BY <1>1, <1>2 DEF Run, Launch, Refuse, Admit, CreateLock, ProbeHolder, RemoveStaleLock, RecreateLock,
     ArchivePlan, CreateState, ResumeState, Preflight, LeaveLoop, StartExecution, Execute, SealEscapes,
     JudgeBudget, Judge, Verdict, Evaluate, BeginPackage, WriteInventory, Stage, CommitArchive,
     WriteReceipt, MarkCompleted, Recheck, Supersede, At, StragglingAt

\* The only step that leaves a straggler behind, on a root without inventory.
LEMMA StragglerAppears ==
  ASSUME TypeInv, LockedInv, NEW i \in Invocations,
         Run(i) \/ (\E resume \in BOOLEAN : Launch(i, resume)) \/ Crash(i) \/ LateExit(i)
  PROVE  \/ straggler' \subseteq straggler
         \/ /\ straggler' = straggler \cup {i} /\ StragglingAt(i)'
            /\ inventory = None /\ inventory' = None
<1>0. TypeOK
  BY DEF TypeInv
<1>1. CASE Verdict(i)
  <2>1. PICK unconfirmed \in BOOLEAN :
          /\ MoveStop(i, IF proc[i].failed THEN "report" ELSE "batch", unconfirmed)
          /\ straggler' = IF unconfirmed THEN straggler \cup {i} ELSE straggler
    BY <1>1 DEF Verdict, MoveStop
  <2>2. "report" \in Stations /\ "batch" \in Stations
    BY DEF Stations
  <2>3. proc'[i].pc \in {"report", "batch"} /\ proc'[i].stopFailed = unconfirmed
    BY <1>0, <2>1, <2>2, VerdictMoveTyped
  <2>4. inventory = None /\ inventory' = None
    <3>1. proc[i].pc \in Open /\ Works(i)
      BY <1>1 DEF Verdict, At, Open, Works
    <3>2. QED
      BY <3>1, WorkMoves DEF LockedInv, PathInv, PathOf
  <2>5. QED
    BY <2>1, <2>3, <2>4 DEF StragglingAt
<1>2. CASE ~Verdict(i)
  <2>1. straggler' = straggler \/ straggler' = straggler \ {i}
    <3>1. CASE ArchivePlan(i) \/ CreateState(i) \/ ResumeState(i) \/ Preflight(i) \/ LeaveLoop(i)
               \/ StartExecution(i) \/ Execute(i) \/ SealEscapes(i) \/ JudgeBudget(i) \/ Judge(i)
               \/ ReportFailure(i) \/ Batch(i) \/ Evaluate(i)
      BY <3>1 DEF ArchivePlan, CreateState, ResumeState, Preflight, LeaveLoop, StartExecution, Execute,
         SealEscapes, JudgeBudget, Judge, ReportFailure, Batch, Evaluate
    <3>2. CASE BeginPackage(i) \/ WriteInventory(i) \/ Stage(i) \/ CommitArchive(i)
               \/ WriteReceipt(i) \/ MarkCompleted(i) \/ Recheck(i) \/ Supersede(i)
               \/ Throws(i) \/ StageFails(i) \/ Abandon(i)
      BY <3>2 DEF BeginPackage, WriteInventory, Stage, CommitArchive, WriteReceipt, MarkCompleted,
         Recheck, Supersede, Throws, StageFails, Abandon
    <3>3. CASE \/ \E resume \in BOOLEAN : Launch(i, resume)
               \/ Refuse(i) \/ Admit(i) \/ CreateLock(i) \/ ProbeHolder(i) \/ RemoveStaleLock(i)
               \/ RecreateLock(i) \/ Release(i) \/ Crash(i) \/ LateExit(i)
      BY <3>3 DEF Launch, Refuse, Admit, CreateLock, ProbeHolder, RemoveStaleLock, RecreateLock,
         Release, Crash, LateExit
    <3>4. QED
      BY <1>2, <3>1, <3>2, <3>3 DEF Run
  <2>2. QED
    BY <2>1
<1>3. QED
  BY <1>1, <1>2

\* What is inventoried stays: nobody is left who would write into the root.
LEMMA ClosedEvidence ==
  ASSUME TypeInv, TypeInv', LockedInv, CopyInv, ClosedInv, StragglerInv, NEW i \in Invocations,
         Run(i) \/ (\E resume \in BOOLEAN : Launch(i, resume)) \/ Crash(i) \/ LateExit(i),
         inventory # None
  PROVE  UNCHANGED evidence
<1>1. CASE Works(i)
  BY <1>1, ClosedWork
<1>2. ~WriteInventory(i)
  BY DEF WriteInventory, At, Open, LockedInv, PathInv, PathOf
<1>3. i \notin straggler
  BY DEF StragglerInv
<1>4. CASE ~Works(i)
  BY <1>2, <1>3, <1>4 DEF Run, Works, Launch, Refuse, Admit, CreateLock, ProbeHolder, RemoveStaleLock,
     RecreateLock, Release, Crash, LateExit
<1>5. QED
  BY <1>1, <1>4

LEMMA StragglerStep ==
  ASSUME Evidentiary, TypeInv, TypeInv', LockedInv, CopyInv, ClosedInv, StragglerInv,
         NEW i \in Invocations,
         Run(i) \/ (\E resume \in BOOLEAN : Launch(i, resume)) \/ Crash(i) \/ LateExit(i)
  PROVE  StragglerInv'
<1>1. \A j \in Invocations \ {i} : proc'[j] = proc[j]
  BY StartingTyped, AttemptsTyped, PackagingTyped, EndingTyped DEF Run, Apart
<1>2. \A j \in straggler : j \in Invocations /\ StragglingAt(j)
  BY DEF StragglerInv, StragglingAt, TypeInv, TypeOK
<1>3. \A j \in straggler' : StragglingAt(j)'
  <2>1. ASSUME NEW j \in straggler', j # i PROVE StragglingAt(j)'
    <3>1. j \in straggler
      BY <2>1, StragglerAppears
    <3>2. QED
      BY <1>1, <1>2, <2>1, <3>1 DEF StragglingAt
  <2>2. ASSUME i \in straggler' PROVE StragglingAt(i)'
    BY <1>2, <2>2, StragglerMoves, StragglerAppears
  <2>3. QED
    BY <2>1, <2>2
<1>4. CASE WriteInventory(i)
  <2>1. /\ At(i, "inventory") /\ UNCHANGED straggler
        /\ inventory'.intact = (root.report.turn = mem[i].aggregate)
    BY <1>4 DEF WriteInventory
  <2>2. inventory = None
    BY <2>1 DEF At, Open, LockedInv, PathInv, PathOf
  <2>3. straggler = {}
    <3>1. \A j \in Invocations \ {i} : At(j, "idle")
      BY <2>1, <2>2 DEF LockedInv, LockInv, OneAtATime, At
    <3>2. QED
      BY <1>2, <2>1, <3>1 DEF StragglingAt, At
  <2>4. root.report.turn = mem[i].aggregate
    BY <2>1 DEF At, ClosedInv, CopyInv, Holding, Carrying
  <2>5. QED
    BY <2>1, <2>3, <2>4 DEF StragglerInv
<1>5. CASE ~WriteInventory(i)
  <2>1. inventory = None <=> inventory' = None
    BY <1>5, InventoryAppears
  <2>2. inventory # None => UNCHANGED evidence
    BY ClosedEvidence
  <2>3. straggler' # {} => inventory' = None
    BY <2>1, StragglerAppears DEF StragglerInv
  <2>4. inventory' # None => inventory'.intact
    BY <2>1, <2>2 DEF StragglerInv, evidence
  <2>5. QED
    BY <1>3, <2>3, <2>4 DEF StragglerInv, StragglingAt
<1>6. QED
  BY <1>4, <1>5

-----------------------------------------------------------------------------
(* The invariant of a serial sequence                                      *)

SerialInv == TypeInv /\ LockedInv /\ CopyInv /\ RunningInv /\ ClosedInv /\ HaltInv

LEMMA SerialInit ==
  ASSUME Init
  PROVE  SerialInv /\ StragglerInv
<1>1. TypeInv /\ LockedInv
  BY InitTyped, LockedInit
<1>2. control = None /\ inventory = None /\ straggler = {}
      /\ \A i \in Invocations : proc[i].pc = "idle"
  BY DEF Init, Stopped
<1>3. CopyInv
  BY <1>2 DEF CopyInv, Holding, Carrying, Asking, At
<1>4. RunningInv /\ ClosedInv /\ HaltInv /\ StragglerInv
  BY <1>2 DEF RunningInv, RunningAt, Due, At, Settled, ClosedInv, HaltInv, StragglerInv
<1>5. QED
  BY <1>1, <1>3, <1>4 DEF SerialInv

LEMMA SerialStep ==
  ASSUME Paired, SerialInv, [SerialNext]_vars
  PROVE  SerialInv'
<1>0. [Next]_vars
  BY SerialNextIsNext
<1>1. TypeInv /\ LockedInv /\ CopyInv /\ RunningInv /\ ClosedInv /\ HaltInv
  BY DEF SerialInv
<1>2. TypeInv' /\ LockedInv'
  BY <1>0, <1>1, TypeInvStep, LockedStep
<1>3. ASSUME NEW i \in Invocations,
             Run(i) \/ (\E resume \in BOOLEAN : Launch(i, resume)) \/ Crash(i) \/ LateExit(i)
      PROVE  CopyInv' /\ RunningInv' /\ ClosedInv' /\ HaltInv'
  BY <1>1, <1>2, <1>3, CopyStep, RunningStep, ClosedStep, HaltStep
<1>4. CASE UNCHANGED <<control, proc, mem, inventory, root>>
  <2>1. CopyInv'
    BY <1>1, <1>4 DEF CopyInv, Holding, OnPath, At
  <2>2. RunningInv'
    BY <1>1, <1>4 DEF RunningInv, RunningAt, Due, At
  <2>3. ClosedInv'
    BY <1>1, <1>4 DEF ClosedInv, Reported, At
  <2>4. HaltInv'
    BY <1>1, <1>4 DEF HaltInv, At
  <2>5. QED
    BY <1>2, <2>1, <2>2, <2>3, <2>4 DEF SerialInv
<1>5. Drifts \/ vars' = vars => UNCHANGED <<control, proc, mem, inventory, root>>
  BY DEF Drifts, vars, evidence
<1>6. QED
  BY <1>0, <1>2, <1>3, <1>4, <1>5 DEF Next, Around, SerialInv

LEMMA StragglersStep ==
  ASSUME Evidentiary, SerialInv, StragglerInv, [Next]_vars
  PROVE  StragglerInv'
<1>1. TypeInv /\ LockedInv /\ CopyInv /\ ClosedInv /\ TypeInv'
  BY TypeInvStep DEF SerialInv
<1>2. ASSUME NEW i \in Invocations,
             Run(i) \/ (\E resume \in BOOLEAN : Launch(i, resume)) \/ Crash(i) \/ LateExit(i)
      PROVE  StragglerInv'
  BY <1>1, <1>2, StragglerStep
<1>3. CASE UNCHANGED <<straggler, proc, inventory>>
  BY <1>3 DEF StragglerInv
<1>4. Drifts \/ vars' = vars => UNCHANGED <<straggler, proc, inventory>>
  BY DEF Drifts, vars, evidence
<1>5. QED
  BY <1>2, <1>3, <1>4 DEF Next, Around

LEMMA SerialAlways == Paired => (SerialSpec => []SerialInv)
<1>1. Init => SerialInv
  BY SerialInit
<1>2. ASSUME Paired PROVE SerialSpec => []SerialInv
  <2>1. SerialInv /\ [SerialNext]_vars => SerialInv'
    BY <1>2, SerialStep
  <2>2. QED
    BY <1>1, <2>1, PTL DEF SerialSpec
<1>3. QED
  BY <1>2

LEMMA StragglersAlways == Paired /\ Evidentiary => (SerialSpec => [](SerialInv /\ StragglerInv))
<1>1. Init => SerialInv /\ StragglerInv
  BY SerialInit
<1>2. ASSUME Paired, Evidentiary PROVE SerialSpec => [](SerialInv /\ StragglerInv)
  <2>1. SerialInv /\ StragglerInv /\ [SerialNext]_vars => (SerialInv /\ StragglerInv)'
    BY <1>2, SerialStep, StragglersStep, SerialNextIsNext
  <2>2. QED
    BY <1>1, <2>1, PTL DEF SerialSpec
<1>3. QED
  BY <1>2

-----------------------------------------------------------------------------
(* What a step does to the executions recorded in the control state        *)

SameFates(s, t) ==
  /\ DOMAIN t.executions = DOMAIN s.executions
  /\ \A k \in DOMAIN s.executions : Fate(t.executions[k]) = Fate(s.executions[k])

\* The running execution, the last one, ends.
EndsLast(s, t, status) ==
  /\ s.executions # <<>> /\ s.executions[Last(s)].status = "in-progress"
  /\ DOMAIN t.executions = DOMAIN s.executions
  /\ \A k \in DOMAIN s.executions :
       Fate(t.executions[k]) = IF k = Last(s)
                               THEN [attempt |-> s.executions[k].attempt, fate |-> status]
                               ELSE Fate(s.executions[k])

Begins(i) ==
  /\ StartExecution(i) /\ control \in States /\ Quiet(control)
  /\ ~AllCompleted(control) /\ ~Exhausted(control, NextAttempt(control))
  /\ control' = StartedOn(control)

LEMMA LastFates ==
  ASSUME NEW s \in States, s.executions # <<>>, NEW f \in Executions,
         f.attempt = s.executions[Last(s)].attempt
  PROVE  /\ f.status = s.executions[Last(s)].status => SameFates(s, WithLast(s, f))
         /\ s.executions[Last(s)].status = "in-progress" /\ f.status # "in-progress" =>
              EndsLast(s, WithLast(s, f), f.status)
<1>1. /\ WithLast(s, f) \in States /\ Len(WithLast(s, f).executions) = Len(s.executions)
      /\ \A k \in DOMAIN s.executions :
           WithLast(s, f).executions[k] = IF k = Last(s) THEN f ELSE s.executions[k]
  BY WithLastTyped
<1>2. DOMAIN WithLast(s, f).executions = DOMAIN s.executions
  <2>1. s.executions \in Seq(Executions) /\ WithLast(s, f).executions \in Seq(Executions)
    BY <1>1 DEF States
  <2>2. QED
    BY <1>1, <2>1
<1>3. QED
  BY <1>1, <1>2 DEF SameFates, EndsLast, Fate

LEMMA InterruptedFates ==
  ASSUME NEW s \in States, AtMostLast(s)
  PROVE  \/ SameFates(s, Interrupted(s))
         \/ EndsLast(s, Interrupted(s), "failed")
<1>1. /\ Interrupted(s) \in States /\ Len(Interrupted(s).executions) = Len(s.executions)
      /\ \A k \in DOMAIN s.executions :
           LET e == s.executions[k]  f == Interrupted(s).executions[k] IN
           /\ f.attempt = e.attempt
           /\ e.status # "in-progress" => f = e
           /\ e.status = "in-progress" => f.status = "failed"
  BY InterruptedTyped
<1>2. s.executions \in Seq(Executions) /\ Interrupted(s).executions \in Seq(Executions)
  BY <1>1 DEF States
<1>3. DOMAIN Interrupted(s).executions = DOMAIN s.executions
  BY <1>1, <1>2
<1>4. CASE Quiet(s)
  <2>1. SameFates(s, Interrupted(s))
    BY <1>1, <1>3, <1>4 DEF SameFates, Quiet
  <2>2. QED
    BY <2>1
<1>5. CASE ~Quiet(s)
  <2>1. PICK k \in DOMAIN s.executions : s.executions[k].status = "in-progress"
    BY <1>5 DEF Quiet
  <2>2. k = Last(s) /\ s.executions # <<>>
    BY <1>2, <2>1 DEF AtMostLast
  <2>3. \A n \in DOMAIN s.executions : n # Last(s) => s.executions[n].status # "in-progress"
    BY DEF AtMostLast
  <2>4. EndsLast(s, Interrupted(s), "failed")
    BY <1>1, <1>3, <2>1, <2>2, <2>3 DEF EndsLast, Fate
  <2>5. QED
    BY <2>4
<1>6. QED
  BY <1>4, <1>5

FatesKept == control \in States /\ control' \in States /\ SameFates(control, control')

LEMMA ExecutionsDecide ==
  ASSUME NEW s, NEW t, NEW u, t.executions = u.executions
  PROVE  /\ SameFates(s, t) <=> SameFates(s, u)
         /\ \A status : EndsLast(s, t, status) <=> EndsLast(s, u, status)
BY DEF SameFates, EndsLast

Finishes ==
  /\ control \in States /\ control' \in States /\ inventory = None
  /\ \E status \in {"completed", "failed"} :
       /\ EndsLast(control, control', status)
       /\ drift => status = "failed"

LEMMA ControlEffect ==
  ASSUME TypeInv, TypeInv', LockedInv, CopyInv, RunningInv, NEW i \in Invocations,
         Run(i) \/ (\E resume \in BOOLEAN : Launch(i, resume)) \/ Crash(i) \/ LateExit(i)
  PROVE  \/ UNCHANGED control
         \/ control = None /\ control' = Created
         \/ FatesKept \/ Finishes \/ Begins(i)
<1>0. /\ TypeOK /\ mem \in [Invocations -> States \cup {None}]
      /\ proc \in [Invocations -> Processes]
  BY DEF TypeInv, TypeOK
<1>1. CASE UNCHANGED control
  BY <1>1
<1>2. CASE Works(i) /\ control' \in States
  <2>1. ASSUME proc[i].pc \in Carrying
        PROVE  mem[i] = control /\ control \in States /\ AtMostLast(control)
    BY <2>1, NoneAssumption DEF CopyInv, Holding, TypeInv, Equipped, RunningInv
  <2>2. proc[i].pc \in Open => inventory = None
    BY DEF LockedInv, PathInv, PathOf
  <2>3. CASE Rewrites(i)
    <3>1. CASE SameList
      BY <3>1 DEF SameList, FatesKept, SameFates
    <3>2. CASE Surfaces(i)
      <4>1. control \in States /\ control.executions # <<>> /\ control'.executions = mem[i].executions
        BY <3>2 DEF Surfaces, Escaped
      <4> DEFINE e == control.executions[Last(control)]
      <4>2. PICK r \in Reasons \cup {"execution-seal-failed"} :
              mem[i] = WithLast(control, [Ended(e, "failed", r) EXCEPT !.seal = None])
        BY <3>2 DEF Surfaces, Escaped
      <4>3. e \in Executions /\ e.status = "in-progress"
        BY <3>2, <4>1 DEF States, Last, Surfaces, Escaped
      <4> DEFINE f == [Ended(e, "failed", r) EXCEPT !.seal = None]
      <4>4. Ended(e, "failed", r) \in Executions
        BY <4>3, EndedTyped DEF Classes
      <4>5. f \in Executions /\ f.status = "failed" /\ f.attempt = e.attempt
        BY <4>3, <4>4 DEF Executions, Ended
      <4> HIDE DEF f
      <4>6. EndsLast(control, WithLast(control, f), "failed")
        BY <4>1, <4>3, <4>5, LastFates
      <4>7. EndsLast(control, control', "failed")
        BY <4>1, <4>2, <4>6, ExecutionsDecide DEF f
      <4>8. inventory = None
        BY <2>2, <3>2 DEF Surfaces, Abandon, At, Open
      <4>9. QED
        BY <1>2, <4>1, <4>7, <4>8 DEF Finishes
    <3>3. QED
      BY <2>3, <3>1, <3>2, RewriteEffect
  <2>4. CASE CreateState(i)
    <3>1. control = None
      BY <2>4 DEF CreateState, At, CopyInv, Holding
    <3>2. QED
      BY <2>4, <3>1 DEF CreateState, Persist
  <2>5. CASE ResumeState(i)
    <3>1. control \in States /\ mem[i] = control /\ inventory = None
      BY <1>0, <2>2, <2>5 DEF ResumeState, At, CopyInv, Holding, Open
    <3>2. AtMostLast(control)
      BY <3>1, NoneAssumption DEF RunningInv
    <3>3. \E v : control' = [Interrupted(control) EXCEPT !.status = v]
      BY <2>5, <3>1 DEF ResumeState, Persist
    <3>4. control'.executions = Interrupted(control).executions
      BY <3>3
    <3>5. SameFates(control, control') \/ EndsLast(control, control', "failed")
      BY <3>1, <3>2, <3>4, InterruptedFates, ExecutionsDecide
    <3>6. QED
      BY <1>2, <3>1, <3>5 DEF FatesKept, Finishes
  <2>6. CASE StartExecution(i)
    <3>1. mem[i] = control /\ control \in States /\ Quiet(control)
      BY <2>1, <2>6 DEF StartExecution, At, Carrying, RunningInv, RunningAt, Settled
    <3>2. QED
      BY <2>6, <3>1 DEF StartExecution, Persist, StartedOn, Begins
  <2>7. CASE Execute(i)
    <3>1. /\ mem[i] = control /\ control \in States /\ control.executions # <<>>
          /\ control.executions[Last(control)].status = "in-progress" /\ inventory = None
      BY <2>1, <2>2, <2>7 DEF Execute, At, Carrying, Open, RunningInv, RunningAt
    <3> DEFINE e == control.executions[Last(control)]
    <3>2. e \in Executions
      BY <3>1 DEF States, Last
    <3>3. PICK end \in {Ended(e, "completed", None)} \cup
                       {Ended(e, "failed", r) : r \in Reasons \cup {"execution-seal-failed"}} :
            control' = WithLast(control, FreezeRechecked(end))
      BY <2>7, <3>1 DEF Execute, Persist
    <3>4. PICK status \in {"completed", "failed"}, r \in Classes \cup {None} : end = Ended(e, status, r)
      BY <3>3 DEF Classes
    <3>5. end \in Executions /\ end.status = status /\ end.attempt = e.attempt
      BY <3>2, <3>4, EndedTyped DEF Ended, Executions
    <3>6. /\ FreezeRechecked(end) \in Executions /\ FreezeRechecked(end).attempt = e.attempt
          /\ FreezeRechecked(end).status \in {"completed", "failed"}
          /\ drift => FreezeRechecked(end).status = "failed"
      <4>1. Ended(end, "failed", "freeze-violation") \in Executions
        BY <3>5, EndedTyped DEF Classes
      <4>2. /\ Ended(end, "failed", "freeze-violation").status = "failed"
            /\ Ended(end, "failed", "freeze-violation").attempt = e.attempt
        BY <3>5 DEF Ended, Executions
      <4>3. QED
        BY <3>5, <4>1, <4>2 DEF FreezeRechecked
    <3>7. EndsLast(control, control', FreezeRechecked(end).status)
      BY <3>1, <3>3, <3>6, LastFates
    <3>8. QED
      BY <1>2, <3>1, <3>6, <3>7 DEF Finishes
  <2>8. CASE Judge(i)
    <3>1. mem[i] = control /\ control \in States /\ control.executions # <<>>
      BY <2>1, <2>8 DEF Judge, At, Carrying, TypeInv, Equipped
    <3> DEFINE e == control.executions[Last(control)]
               d == Disposition(e.failureReason, Cardinality(ExecutionsOf(control, e.attempt)))
    <3>2. e \in Executions /\ d \in {"permitted", "forbidden", "exhausted"}
      BY <3>1, ExecutionsOfFinite, DispositionTyped DEF States, Last
    <3>3. UNCHANGED control \/ control' = WithLast(control, [e EXCEPT !.disposition = d])
      BY <2>8, <3>1 DEF Judge, Persist
    <3> HIDE DEF d
    <3>4. /\ [e EXCEPT !.disposition = d] \in Executions
          /\ [e EXCEPT !.disposition = d].attempt = e.attempt
          /\ [e EXCEPT !.disposition = d].status = e.status
      BY <3>2 DEF Executions
    <3>5. QED
      BY <1>2, <3>1, <3>3, <3>4, LastFates DEF FatesKept
  <2>9. CASE Recheck(i) \/ ArchivePlan(i) \/ Preflight(i) \/ Throws(i) \/ SealEscapes(i)
    BY <2>9 DEF Recheck, ArchivePlan, Preflight, Throws, SealEscapes
  <2>10. QED
    BY <1>2, <2>3, <2>4, <2>5, <2>6, <2>7, <2>8, <2>9 DEF Works, Rewrites
<1>3. QED
  BY <1>1, <1>2, ControlStep

LEMMA ArchivesChange ==
  ASSUME NEW i \in Invocations,
         Run(i) \/ (\E resume \in BOOLEAN : Launch(i, resume)) \/ Crash(i) \/ LateExit(i),
         ~CommitArchive(i), ~WriteReceipt(i)
  PROVE  UNCHANGED archives
<1>1. CASE ArchivePlan(i) \/ CreateState(i) \/ ResumeState(i) \/ Preflight(i) \/ LeaveLoop(i)
           \/ StartExecution(i) \/ Execute(i) \/ SealEscapes(i) \/ JudgeBudget(i) \/ Judge(i)
           \/ Verdict(i) \/ ReportFailure(i) \/ Batch(i) \/ Evaluate(i)
  BY <1>1 DEF ArchivePlan, CreateState, ResumeState, Preflight, LeaveLoop, StartExecution, Execute,
     SealEscapes, JudgeBudget, Judge, Verdict, ReportFailure, Batch, Evaluate, shelf
<1>2. CASE BeginPackage(i) \/ WriteInventory(i) \/ Stage(i) \/ MarkCompleted(i) \/ Recheck(i)
           \/ Supersede(i) \/ Throws(i) \/ StageFails(i) \/ Abandon(i)
  BY <1>2 DEF BeginPackage, WriteInventory, Stage, MarkCompleted, Recheck, Supersede, Throws, StageFails,
     Abandon, shelf
<1>3. CASE \/ \E resume \in BOOLEAN : Launch(i, resume)
           \/ Refuse(i) \/ Admit(i) \/ CreateLock(i) \/ ProbeHolder(i) \/ RemoveStaleLock(i)
           \/ RecreateLock(i) \/ Release(i) \/ Crash(i) \/ LateExit(i)
  BY <1>3 DEF Launch, Refuse, Admit, CreateLock, ProbeHolder, RemoveStaleLock, RecreateLock,
     Release, Crash, LateExit, shelf
<1>4. QED
  BY <1>1, <1>2, <1>3 DEF Run

LEMMA SameLength ==
  ASSUME NEW s \in States, NEW t \in States, DOMAIN t.executions = DOMAIN s.executions
  PROVE  Len(t.executions) = Len(s.executions)
<1>1. s.executions \in Seq(Executions) /\ t.executions \in Seq(Executions)
  BY DEF States
<1>2. QED
  BY <1>1

LEMMA HaltedAction ==
  ASSUME SerialInv, TypeInv', NEW i \in Invocations,
         Run(i) \/ (\E resume \in BOOLEAN : Launch(i, resume)) \/ Crash(i) \/ LateExit(i),
         control # None, Halted(control)
  PROVE  /\ Len(control'.executions) = Len(control.executions)
         /\ UNCHANGED <<inventory, archives>>
<1>1. /\ TypeInv /\ LockedInv /\ CopyInv /\ RunningInv /\ ClosedInv
      /\ inventory = None /\ HaltedAt(i)
  BY DEF SerialInv, HaltInv, HaltedAt
<1>2. ~WriteInventory(i)
  BY <1>1, HaltedMoves
<1>3. inventory' = None
  BY <1>1, <1>2, InventoryAppears
<1>4. UNCHANGED archives
  <2>1. ~CommitArchive(i) /\ ~WriteReceipt(i)
    BY <1>1 DEF HaltedAt, CommitArchive, WriteReceipt, At
  <2>2. QED
    BY <2>1, ArchivesChange
<1>5. ~Begins(i)
  BY <1>1 DEF HaltedAt, Begins, StartExecution, At
<1>6. Len(control'.executions) = Len(control.executions)
  <2>1. UNCHANGED control \/ FatesKept \/ Finishes
    BY <1>1, <1>5, ControlEffect
  <2>2. CASE FatesKept \/ Finishes
    BY <2>2, SameLength DEF FatesKept, Finishes, SameFates, EndsLast
  <2>3. QED
    BY <2>1, <2>2
<1>7. QED
  BY <1>1, <1>3, <1>4, <1>6

LEMMA DriftAction ==
  ASSUME SerialInv, TypeInv', NEW i \in Invocations,
         Run(i) \/ (\E resume \in BOOLEAN : Launch(i, resume)) \/ Crash(i) \/ LateExit(i), drift
  PROVE  /\ CompletedIn(control') \subseteq CompletedIn(control)
         /\ \A n \in Slots : archives'[n] = "receipted" => archives[n] = "receipted"
<1>1. TypeInv /\ LockedInv /\ CopyInv /\ RunningInv
  BY DEF SerialInv
<1>2. CompletedIn(control') \subseteq CompletedIn(control)
  <2>1. ~Begins(i)
    <3>1. StartExecution(i) => ~drift
      BY DEF StartExecution
    <3>2. QED
      BY <3>1 DEF Begins
  <2>2. CASE FatesKept
    <3>1. control # None /\ control' # None
      BY <2>2, NoneAssumption DEF FatesKept
    <3>2. \A k \in DOMAIN control.executions :
            control'.executions[k].status = "completed" <=> control.executions[k].status = "completed"
      BY <2>2 DEF FatesKept, SameFates, Fate
    <3>3. QED
      BY <2>2, <3>1, <3>2 DEF FatesKept, SameFates, CompletedIn
  <2>3. CASE Finishes
    <3>1. control # None /\ control' # None /\ EndsLast(control, control', "failed")
      BY <2>3, NoneAssumption DEF Finishes
    <3>2. \A k \in DOMAIN control.executions :
            control'.executions[k].status = "completed" => control.executions[k].status = "completed"
      BY <3>1 DEF EndsLast, Fate
    <3>3. QED
      BY <3>1, <3>2 DEF EndsLast, CompletedIn
  <2>4. CASE control' = Created
    BY <2>4 DEF Created, CompletedIn
  <2>5. QED
    BY <1>1, <2>1, <2>2, <2>3, <2>4, ControlEffect
<1>3. \A n \in Slots : archives'[n] = "receipted" => archives[n] = "receipted"
  <2>1. CASE CommitArchive(i)
    BY <1>1, <2>1 DEF CommitArchive, TypeInv, TypeOK
  <2>2. CASE WriteReceipt(i)
    BY <2>2 DEF WriteReceipt
  <2>3. QED
    BY <2>1, <2>2, ArchivesChange
<1>4. QED
  BY <1>2, <1>3

\* What the orchestrator tells a reader of its evidence is final: the inventoried root, a
\* disposition that permits no more, and a repository that differs from the frozen one stop
\* what would follow, for every plan and policy.  The provenance gate of an evidentiary plan
\* keeps a child whose stop was never confirmed from writing into an inventoried root.
THEOREM EvidenceStaysFinal == Paired /\ Evidentiary => (SerialSpec => EvidenceIsFinal)
<1>1. ASSUME SerialInv, StragglerInv, TypeInv', [Next]_vars, inventory # None PROVE UNCHANGED evidence
  <2>1. ASSUME NEW i \in Invocations,
               Run(i) \/ (\E resume \in BOOLEAN : Launch(i, resume)) \/ Crash(i) \/ LateExit(i)
        PROVE  UNCHANGED evidence
    BY <1>1, <2>1, ClosedEvidence DEF SerialInv
  <2>2. Drifts \/ vars' = vars => UNCHANGED evidence
    BY DEF Drifts, vars, evidence
  <2>3. QED
    BY <1>1, <2>1, <2>2 DEF Next, Around
<1>2. ASSUME SerialInv, TypeInv', [Next]_vars, control # None, Halted(control)
      PROVE  /\ Len(control'.executions) = Len(control.executions)
             /\ UNCHANGED <<inventory, archives>>
  <2>1. Drifts \/ vars' = vars => UNCHANGED <<control, inventory, archives>>
    BY DEF Drifts, vars, evidence, shelf
  <2>2. QED
    BY <1>2, <2>1, HaltedAction DEF Next, Around
<1>3. ASSUME SerialInv, TypeInv', [Next]_vars, drift
      PROVE  /\ CompletedIn(control') \subseteq CompletedIn(control)
             /\ \A n \in Slots : archives'[n] = "receipted" => archives[n] = "receipted"
  <2>1. Drifts \/ vars' = vars => UNCHANGED <<control, archives>>
    BY DEF Drifts, vars, shelf
  <2>2. CASE UNCHANGED <<control, archives>>
    BY <2>2
  <2>3. QED
    BY <1>3, <2>1, <2>2, DriftAction DEF Next, Around
<1>4. ASSUME Paired, Evidentiary PROVE SerialSpec => EvidenceIsFinal
  <2>1. SerialSpec => [](SerialInv /\ StragglerInv)
    BY <1>4, StragglersAlways
  <2>2. SerialInv => TypeInv
    BY DEF SerialInv
  <2>3. SerialSpec => RootIsFinal
    <3>1. SerialInv /\ StragglerInv /\ TypeInv' /\ [Next]_vars
            => [inventory # None => UNCHANGED evidence]_vars
      BY <1>1
    <3>2. QED
      BY <2>1, <2>2, <3>1, SerialNextIsNext, PTL DEF SerialSpec, RootIsFinal
  <2>4. SerialSpec => HaltedStaysHalted
    <3>1. SerialInv /\ TypeInv' /\ [Next]_vars
            => [control # None /\ Halted(control) =>
                  /\ Len(control'.executions) = Len(control.executions)
                  /\ UNCHANGED <<inventory, archives>>]_vars
      BY <1>2
    <3>2. QED
      BY <2>1, <2>2, <3>1, SerialNextIsNext, PTL DEF SerialSpec, HaltedStaysHalted
  <2>5. SerialSpec => DriftStopsEvidence
    <3>1. SerialInv /\ TypeInv' /\ [Next]_vars
            => [drift => /\ CompletedIn(control') \subseteq CompletedIn(control)
                         /\ \A n \in Slots : archives'[n] = "receipted" => archives[n] = "receipted"]_vars
      BY <1>3
    <3>2. QED
      BY <2>1, <2>2, <3>1, SerialNextIsNext, PTL DEF SerialSpec, DriftStopsEvidence
  <2>6. QED
    BY <2>3, <2>4, <2>5 DEF EvidenceIsFinal
<1>5. QED
  BY <1>4

-----------------------------------------------------------------------------
(* The control state as an attempt history                                 *)

Told(s) == IF s = None THEN <<>> ELSE [k \in DOMAIN s.executions |-> Fate(s.executions[k])]

Fates == [attempt : Attempts, fate : {"running", "completed", "failed"}]

LEMMA ToldTyped ==
  ASSUME NEW s \in States
  PROVE  /\ Told(s) \in Seq(Fates) /\ Len(Told(s)) = Last(s)
         /\ DOMAIN Told(s) = DOMAIN s.executions
         /\ \A k \in DOMAIN s.executions : Told(s)[k] = Fate(s.executions[k])
<1>1. s.executions \in Seq(Executions) /\ s # None
  BY NoneAssumption DEF States
<1>2. \A k \in DOMAIN s.executions : Fate(s.executions[k]) \in Fates
  <2>1. ASSUME NEW e \in Executions PROVE Fate(e) \in Fates
    BY DEF Fate, Fates, Executions
  <2>2. \A k \in DOMAIN s.executions : s.executions[k] \in Executions
    BY <1>1
  <2>3. QED
    BY <2>1, <2>2
<1>3. Told(s) = [k \in 1..Len(s.executions) |-> Fate(s.executions[k])]
  BY <1>1 DEF Told
<1>4. Len(s.executions) \in Nat
  BY <1>1
<1>5. Told(s) \in Seq(Fates) /\ Len(Told(s)) = Len(s.executions)
  BY <1>1, <1>2, <1>3, <1>4
<1>6. QED
  BY <1>1, <1>3, <1>5 DEF Last

LEMMA ToldSame ==
  ASSUME NEW s \in States, NEW t \in States, SameFates(s, t)
  PROVE  Told(t) = Told(s)
<1>1. s # None /\ t # None
  BY NoneAssumption
<1>2. QED
  BY <1>1 DEF Told, SameFates

LEMMA ToldEnds ==
  ASSUME NEW s \in States, NEW t \in States, NEW status, EndsLast(s, t, status)
  PROVE  /\ Last(s) \in DOMAIN Told(s) /\ Told(s)[Last(s)].fate = "running"
         /\ Told(t) = [Told(s) EXCEPT ![Last(s)].fate = status]
<1>1. s # None /\ t # None /\ s.executions \in Seq(Executions) /\ s.executions # <<>>
  BY NoneAssumption DEF States, EndsLast
<1>2. Last(s) \in DOMAIN s.executions
  BY <1>1 DEF Last
<1>3. Told(s)[Last(s)] = [attempt |-> s.executions[Last(s)].attempt, fate |-> "running"]
  BY <1>2, ToldTyped DEF EndsLast, Fate
<1>4. [Told(s)[Last(s)] EXCEPT !.fate = status] = [attempt |-> s.executions[Last(s)].attempt, fate |-> status]
  BY <1>3
<1>5. \A k \in DOMAIN s.executions :
        Told(t)[k] = IF k = Last(s) THEN [Told(s)[k] EXCEPT !.fate = status] ELSE Told(s)[k]
  BY <1>1, <1>4, ToldTyped DEF EndsLast
<1>6. Told(t) = [k \in DOMAIN Told(s) |->
                   IF k = Last(s) THEN [Told(s)[k] EXCEPT !.fate = status] ELSE Told(s)[k]]
  <2>1. Told(t) = [k \in DOMAIN s.executions |-> Told(t)[k]]
    BY <1>1 DEF Told, EndsLast
  <2>2. DOMAIN Told(s) = DOMAIN s.executions
    BY ToldTyped
  <2> DEFINE ended == [k \in DOMAIN s.executions |->
                         IF k = Last(s) THEN [Told(s)[k] EXCEPT !.fate = status] ELSE Told(s)[k]]
             now   == [k \in DOMAIN s.executions |-> Told(t)[k]]
  <2>3. \A k \in DOMAIN s.executions : now[k] = ended[k]
    BY <1>5
  <2>4. now = ended
    BY <2>3
  <2>5. QED
    BY <2>1, <2>2, <2>4
<1>7. Last(s) \in DOMAIN Told(s) /\ Told(s)[Last(s)].fate = "running"
  <2>1. DOMAIN Told(s) = DOMAIN s.executions
    BY ToldTyped
  <2>2. QED
    BY <1>2, <1>3, <2>1
<1>8. ASSUME NEW h, NEW n
      PROVE  [h EXCEPT ![n].fate = status]
               = [k \in DOMAIN h |-> IF k = n THEN [h[k] EXCEPT !.fate = status] ELSE h[k]]
  OBVIOUS
<1>9. QED
  BY <1>6, <1>7, <1>8

LEMMA ToldStarts ==
  ASSUME NEW s \in States, ~AllCompleted(s)
  PROVE  /\ StartedOn(s) \in States
         /\ Told(StartedOn(s)) = Append(Told(s), [attempt |-> NextAttempt(s), fate |-> "running"])
<1> DEFINE a == NextAttempt(s)
           t == StartedOn(s)
<1>1. a \in Attempts
  BY NextAttemptExists
<1>2. t \in States /\ t.executions = Append(s.executions, Execution(a))
  BY <1>1, StartedTyped DEF StartedOn
<1>3. s.executions \in Seq(Executions) /\ Last(s) = Len(s.executions)
  BY DEF States, Last
<1> HIDE DEF t
<1>4. Fate(Execution(a)) = [attempt |-> a, fate |-> "running"]
  BY DEF Fate, Execution
<1> HIDE DEF a
<1>5. /\ Last(t) = Last(s) + 1 /\ DOMAIN t.executions = 1..(Last(s) + 1)
      /\ t.executions[Last(s) + 1] = Execution(a)
      /\ \A k \in 1..Last(s) : t.executions[k] = s.executions[k]
  BY <1>2, <1>3 DEF Last
<1>6. /\ Told(s) \in Seq(Fates) /\ Len(Told(s)) = Last(s) /\ Last(s) \in Nat
      /\ \A k \in 1..Last(s) : Told(s)[k] = Fate(s.executions[k])
  BY <1>3, ToldTyped
<1>7. /\ Told(t) \in Seq(Fates) /\ Len(Told(t)) = Last(s) + 1
      /\ \A k \in 1..(Last(s) + 1) : Told(t)[k] = Fate(t.executions[k])
  BY <1>2, <1>5, ToldTyped
<1> DEFINE new == Append(Told(s), [attempt |-> a, fate |-> "running"])
<1>8. /\ new \in Seq(Fates) /\ Len(new) = Last(s) + 1 /\ new[Last(s) + 1] = [attempt |-> a, fate |-> "running"]
      /\ \A k \in 1..Last(s) : new[k] = Told(s)[k]
  <2>1. [attempt |-> a, fate |-> "running"] \in Fates
    BY <1>1 DEF Fates, a
  <2>2. QED
    BY <1>6, <2>1
<1> HIDE DEF new
<1>9. \A k \in 1..(Last(s) + 1) : Told(t)[k] = new[k]
  BY <1>4, <1>5, <1>6, <1>7, <1>8
<1>10. Told(t) = new
  BY <1>6, <1>7, <1>8, <1>9, SeqEqual
<1>11. QED
  BY <1>2, <1>10 DEF new, a, t

LEMMA HistoryUnchanged ==
  ASSUME Told(control') = Told(control), inventory = None <=> inventory' = None
  PROVE  UNCHANGED History!ledger
BY DEF Told, History!ledger

\* What the history lets a reader see of the recorded executions.
LEMMA ToldReads ==
  ASSUME NEW s \in States
  PROVE  /\ DOMAIN Told(s) = DOMAIN s.executions
         /\ \A k \in DOMAIN s.executions :
              /\ Told(s)[k].attempt = s.executions[k].attempt
              /\ Told(s)[k].fate = "running" <=> s.executions[k].status = "in-progress"
              /\ Told(s)[k].fate = "completed" <=> s.executions[k].status = "completed"
<1>1. ASSUME NEW e \in Executions
      PROVE  /\ Fate(e).attempt = e.attempt
             /\ Fate(e).fate = "running" <=> e.status = "in-progress"
             /\ Fate(e).fate = "completed" <=> e.status = "completed"
  BY DEF Fate, Executions
<1>2. \A k \in DOMAIN s.executions : s.executions[k] \in Executions
  BY DEF States
<1>3. QED
  BY <1>1, <1>2, ToldTyped

LEMMA HistoryStarts ==
  ASSUME TypeInv, NEW i \in Invocations, Begins(i), inventory = None, inventory' = None
  PROVE  History!Start(NextAttempt(control))
<1>1. control \in States /\ Quiet(control) /\ ~AllCompleted(control) /\ control # None /\ control' # None
  BY ToldStarts, NoneAssumption DEF Begins
<1> DEFINE a == NextAttempt(control)
<1>2. a \in Attempts /\ ~CompletedExecution(control, a)
  BY <1>1, NextAttemptExists
<1>3. Told(control') = Append(Told(control), [attempt |-> a, fate |-> "running"])
  BY <1>1, ToldStarts DEF Begins
<1>4. /\ DOMAIN Told(control) = DOMAIN control.executions
      /\ \A k \in DOMAIN control.executions :
           /\ Told(control)[k].attempt = control.executions[k].attempt
           /\ Told(control)[k].fate = "running" <=> control.executions[k].status = "in-progress"
           /\ Told(control)[k].fate = "completed" <=> control.executions[k].status = "completed"
  BY <1>1, ToldReads
<1>5. {k \in DOMAIN Told(control) : Told(control)[k].fate = "running"} = {}
  BY <1>1, <1>4 DEF Quiet
<1>6. {k \in DOMAIN Told(control) : Told(control)[k].attempt = a} = ExecutionsOf(control, a)
  BY <1>4 DEF ExecutionsOf
<1>7. Cardinality(ExecutionsOf(control, a)) < Capacity
  <2>1. Cardinality(ExecutionsOf(control, a)) \in Nat /\ Capacity \in Nat
    BY <1>1, ExecutionsOfFinite, SequenceAssumption DEF Capacity
  <2>2. QED
    BY <2>1 DEF Begins, Exhausted
<1>8. \A k \in ExecutionsOf(control, a) : Told(control)[k].fate # "completed"
  BY <1>2, <1>4 DEF CompletedExecution, ExecutionsOf
<1> HIDE DEF a
<1>9. History!Start(a)
  <2>1. History!Running = {}
    BY <1>1, <1>5 DEF Told, History!Running
  <2>2. History!ExecutionsOf(a) = ExecutionsOf(control, a)
    BY <1>1, <1>6 DEF Told, History!ExecutionsOf
  <2>3. ~History!Completed(a)
    BY <1>1, <1>8, <2>2 DEF Told, History!Completed
  <2>4. History!Cardinality(History!ExecutionsOf(a)) < Capacity
    <3>1. History!Cardinality(ExecutionsOf(control, a)) = Cardinality(ExecutionsOf(control, a))
      BY DEF History!Cardinality, Cardinality
    <3>2. QED
      BY <1>7, <2>2, <3>1
  <2>5. QED
    BY <1>1, <1>3, <2>1, <2>3, <2>4 DEF Told, History!Start
<1>10. QED
  BY <1>9 DEF a

LEMMA HistoryFinishes ==
  ASSUME Finishes, inventory' = None
  PROVE  \E fate \in {"completed", "failed"} : History!Finish(fate)
<1>1. control \in States /\ control' \in States /\ control # None /\ control' # None /\ inventory = None
  BY NoneAssumption DEF Finishes
<1>2. PICK status \in {"completed", "failed"} : EndsLast(control, control', status)
  BY DEF Finishes
<1>3. /\ Last(control) \in DOMAIN Told(control) /\ Told(control)[Last(control)].fate = "running"
      /\ Told(control') = [Told(control) EXCEPT ![Last(control)].fate = status]
  BY <1>1, <1>2, ToldEnds
<1>4. \E k \in {k \in DOMAIN Told(control) : Told(control)[k].fate = "running"} :
        Told(control') = [Told(control) EXCEPT ![k].fate = status]
  BY <1>3
<1>5. History!Finish(status)
  BY <1>1, <1>4 DEF Told, History!Finish, History!Running
<1>6. QED
  BY <1>5

LEMMA HistoryCloses ==
  ASSUME SerialInv, NEW i \in Invocations, WriteInventory(i)
  PROVE  History!Close
<1>1. At(i, "inventory") /\ UNCHANGED control /\ TypeInv /\ LockedInv /\ RunningInv
  BY DEF WriteInventory, SerialInv
<1>2. inventory = None /\ inventory' # None
  <2>1. inventory' \in Inventories
    <3>1. inventory' = [aggregate |-> mem[i].aggregate, intact |-> root.report.turn = mem[i].aggregate]
      BY DEF WriteInventory
    <3>2. mem[i].aggregate \in 0..1
      BY <1>1 DEF TypeInv, Equipped, At
    <3>3. QED
      BY <3>1, <3>2 DEF Inventories
  <2>2. QED
    BY <1>1, <2>1, NoneAssumption DEF LockedInv, PathInv, PathOf, Open, At
<1>3. control \in States /\ control # None /\ Quiet(control) /\ AllCompleted(control)
  <2>1. control # None
    BY <1>1 DEF LockedInv, FoundInv, Carrying, At
  <2>2. Quiet(control) /\ AllCompleted(control)
    BY <1>1 DEF RunningInv, RunningAt, Settled, Due, At
  <2>3. QED
    BY <1>1, <2>1, <2>2 DEF TypeInv, TypeOK
<1>4. /\ DOMAIN Told(control) = DOMAIN control.executions
      /\ \A k \in DOMAIN control.executions :
           /\ Told(control)[k].attempt = control.executions[k].attempt
           /\ Told(control)[k].fate = "running" <=> control.executions[k].status = "in-progress"
           /\ Told(control)[k].fate = "completed" <=> control.executions[k].status = "completed"
  BY <1>3, ToldReads
<1>5. {k \in DOMAIN Told(control) : Told(control)[k].fate = "running"} = {}
  BY <1>3, <1>4 DEF Quiet
<1>6. \A a \in Attempts : \E k \in {n \in DOMAIN Told(control) : Told(control)[n].attempt = a} :
        Told(control)[k].fate = "completed"
  BY <1>3, <1>4 DEF AllCompleted, CompletedExecution, ExecutionsOf
<1>7. QED
  BY <1>1, <1>2, <1>5, <1>6 DEF Told, History!Close, History!Running, History!Completed,
     History!ExecutionsOf

LEMMA HistoryStep ==
  ASSUME SerialInv, TypeInv', NEW i \in Invocations,
         Run(i) \/ (\E resume \in BOOLEAN : Launch(i, resume)) \/ Crash(i) \/ LateExit(i)
  PROVE  [History!Next]_(History!ledger)
<1>1. TypeInv /\ LockedInv /\ CopyInv /\ RunningInv
  BY DEF SerialInv
<1>2. CASE WriteInventory(i)
  BY <1>2, HistoryCloses DEF History!Next
<1>3. CASE ~WriteInventory(i)
  <2>1. inventory = None <=> inventory' = None
    BY <1>1, <1>3, InventoryAppears
  <2>2. CASE UNCHANGED control
    BY <2>1, <2>2, HistoryUnchanged
  <2>3. CASE control = None /\ control' = Created
    <3>1. Created.executions = <<>> /\ Created # None
      <4>1. Created \in States
        <5>1. <<>> \in Seq(Executions)
          OBVIOUS
        <5>2. QED
          BY <5>1 DEF Created, States
      <4>2. QED
        BY <4>1, NoneAssumption DEF Created
    <3>2. Told(control') = <<>>
      <4>1. Told(Created) = [k \in DOMAIN <<>> |-> Fate(Created.executions[k])]
        BY <3>1 DEF Told
      <4>2. DOMAIN <<>> = {}
        OBVIOUS
      <4>3. \A f : [k \in {} |-> f[k]] = <<>>
        OBVIOUS
      <4>4. [k \in {} |-> Fate(Created.executions[k])] = <<>>
        OBVIOUS
      <4>5. QED
        BY <2>3, <4>1, <4>2, <4>4
    <3>3. Told(control) = <<>>
      BY <2>3 DEF Told
    <3>4. QED
      BY <2>1, <3>2, <3>3, HistoryUnchanged
  <2>4. CASE FatesKept
    BY <2>1, <2>4, ToldSame, HistoryUnchanged DEF FatesKept
  <2>5. CASE Finishes
    <3>1. inventory' = None
      BY <2>1, <2>5 DEF Finishes
    <3>2. QED
      BY <2>5, <3>1, HistoryFinishes DEF History!Next
  <2>6. CASE Begins(i)
    <3>1. inventory = None /\ inventory' = None
      BY <1>1, <2>1, <2>6 DEF Begins, StartExecution, At, Open, LockedInv, PathInv, PathOf
    <3>2. NextAttempt(control) \in Attempts
      BY <2>6, NextAttemptExists DEF Begins
    <3>3. QED
      BY <1>1, <2>6, <3>1, <3>2, HistoryStarts DEF History!Next
  <2>7. QED
    BY <1>1, <2>2, <2>3, <2>4, <2>5, <2>6, ControlEffect
<1>4. QED
  BY <1>2, <1>3

\* The control state implements the append-only history it promises its reader: executions
\* are started one at a time within the capacity, keep their fate, and end with the
\* inventory, whatever processes are killed and started again in between (orchestrate.ts).
THEOREM HistoryIsKept == Paired => (SerialSpec => KeepsHistory)
<1>1. ASSUME Init PROVE History!Init
  BY <1>1 DEF Init, History!Init
<1>2. ASSUME SerialInv, TypeInv', [Next]_vars PROVE [History!Next]_(History!ledger)
  <2>1. Drifts \/ vars' = vars => UNCHANGED <<control, inventory>>
    BY DEF Drifts, vars, evidence
  <2>2. CASE UNCHANGED <<control, inventory>>
    BY <2>2, HistoryUnchanged
  <2>3. QED
    BY <1>2, <2>1, <2>2, HistoryStep DEF Next, Around
<1>3. ASSUME Paired PROVE SerialSpec => KeepsHistory
  <2>1. SerialSpec => []SerialInv
    BY <1>3, SerialAlways
  <2>2. SerialInv => TypeInv
    BY DEF SerialInv
  <2>3. SerialInv /\ TypeInv' /\ [Next]_vars => [History!Next]_(History!ledger)
    BY <1>2
  <2>4. QED
    BY <1>1, <2>1, <2>2, <2>3, SerialNextIsNext, PTL DEF SerialSpec, KeepsHistory, History!Spec
<1>4. QED
  BY <1>3

-----------------------------------------------------------------------------
(* The packaging transaction                                               *)

\* t is s with other executions, another aggregate or another status.
SameBook(s, t) ==
  /\ t.superseded = s.superseded
  /\ t.status = "completed" => s.status = "completed"

LEMMA BookOfWrites ==
  ASSUME NEW s \in States
  PROVE  /\ SameBook(s, s)
         /\ \A v : v # "completed" => SameBook(s, [s EXCEPT !.status = v])
         /\ \A v : SameBook(s, [s EXCEPT !.executions = v]) /\ SameBook(s, [s EXCEPT !.aggregate = v])
         /\ \A v, w : w # "completed" =>
              /\ SameBook(s, [[s EXCEPT !.executions = v] EXCEPT !.status = w])
              /\ SameBook(s, [[s EXCEPT !.status = v] EXCEPT !.status = w])
              /\ \A u : SameBook(s, [[s EXCEPT !.status = v, !.archive = u] EXCEPT !.status = w])
BY DEF SameBook, States

LEMMA WithLastBook ==
  ASSUME NEW s \in States, s.executions # <<>>, NEW e \in Executions
  PROVE  SameBook(s, WithLast(s, e)) /\ SameBook(s, [WithLast(s, e) EXCEPT !.status = "failed"])
<1>1. WithLast(s, e) = [s EXCEPT !.executions = WithLast(s, e).executions]
  BY WithLastTyped
<1> DEFINE v == WithLast(s, e).executions
<1>2. WithLast(s, e) = [s EXCEPT !.executions = v]
  BY <1>1
<1> HIDE DEF v
<1>3. SameBook(s, [s EXCEPT !.executions = v])
  BY BookOfWrites
<1>4. SameBook(s, [[s EXCEPT !.executions = v] EXCEPT !.status = "failed"])
  BY BookOfWrites
<1>5. QED
  BY <1>2, <1>3, <1>4

\* Only CreateState, Supersede and MarkCompleted write what the transaction records.
LEMMA BookKept ==
  ASSUME TypeInv, TypeInv', LockedInv, CopyInv, RunningInv, NEW i \in Invocations, Works(i),
         ~CreateState(i), ~Supersede(i), ~MarkCompleted(i)
  PROVE  \/ UNCHANGED control
         \/ control \in States /\ control' \in States /\ SameBook(control, control')
<1>0. /\ TypeOK /\ mem \in [Invocations -> States \cup {None}] /\ control' \in States \cup {None}
  BY DEF TypeInv, TypeOK
<1>1. ASSUME proc[i].pc \in Carrying PROVE mem[i] = control /\ control \in States
  BY <1>1 DEF CopyInv, Holding, TypeInv, Equipped
<1>2. ASSUME control \in States, SameBook(control, control')
      PROVE  UNCHANGED control \/ (control' \in States /\ SameBook(control, control'))
  <2>1. control' # control => control' \in States
    BY ControlStep DEF Works, Run
  <2>2. QED
    BY <1>2, <2>1
<1> SUFFICES UNCHANGED control \/ (control \in States /\ SameBook(control, control'))
  BY <1>2
<1>3. ASSUME control \in States, mem[i] = control, Fail(i) PROVE SameBook(control, control')
  BY <1>3, BookOfWrites DEF Fail, FailWith, Persist
<1>4. CASE LeaveLoop(i) \/ JudgeBudget(i) \/ ReportFailure(i)
  <2>1. proc[i].pc \in Carrying /\ (control' = control \/ control' = mem[i])
    BY <1>4 DEF LeaveLoop, JudgeBudget, ReportFailure, Persist, At, Carrying
  <2>2. QED
    BY <1>1, <2>1
<1>5. CASE Verdict(i) \/ Batch(i) \/ Evaluate(i) \/ BeginPackage(i)
  <2>1. mem[i] = control /\ control \in States
    BY <1>1, <1>5 DEF Verdict, Batch, Evaluate, BeginPackage, At, Carrying
  <2>2. \/ Fail(i) \/ control' = [control EXCEPT !.aggregate = Aggregate]
        \/ \E v \in {"failed", "attempts-complete", "validating", "packaging"} :
             control' = [control EXCEPT !.status = v]
    <3>1. CASE Verdict(i)
      BY <2>1, <3>1 DEF Verdict, Persist
    <3>2. CASE Batch(i) \/ Evaluate(i)
      BY <2>1, <3>2 DEF Batch, Evaluate, Persist
    <3>3. CASE BeginPackage(i)
      BY <2>1, <3>3 DEF BeginPackage, Persist
    <3>4. QED
      BY <1>5, <3>1, <3>2, <3>3
  <2>3. ASSUME NEW v \in {"failed", "attempts-complete", "validating", "packaging"},
               control' = [control EXCEPT !.status = v]
        PROVE  SameBook(control, control')
    BY <2>1, <2>3, BookOfWrites
  <2>4. ASSUME control' = [control EXCEPT !.aggregate = Aggregate]
        PROVE  SameBook(control, control')
    BY <2>1, <2>4, BookOfWrites
  <2>5. QED
    BY <1>3, <2>1, <2>2, <2>3, <2>4
<1>6. CASE Stage(i) \/ CommitArchive(i) \/ WriteReceipt(i)
  <2>1. mem[i] = control /\ control \in States
    BY <1>1, <1>6 DEF Stage, CommitArchive, WriteReceipt, At, Carrying
  <2>2. Fail(i) \/ UNCHANGED control
    BY <1>6, <2>1 DEF Stage, CommitArchive, WriteReceipt, Persist
  <2>3. QED
    BY <1>3, <2>1, <2>2
<1>7. CASE StageFails(i)
  <2>1. mem[i] = control /\ control \in States
    BY <1>1, <1>7 DEF StageFails, Carrying
  <2>2. CASE At(i, "complete")
    <3>1. control' = [[control EXCEPT !.status = "completed", !.archive = proc[i].slot] EXCEPT !.status = "failed"]
      BY <1>7, <2>1, <2>2 DEF StageFails, FailWith, Persist, Packaged
    <3>2. QED
      BY <2>1, <3>1, BookOfWrites
  <2>3. CASE ~At(i, "complete")
    <3>1. control' = [control EXCEPT !.status = "failed"]
      BY <1>7, <2>1, <2>3 DEF StageFails, FailWith, Persist
    <3>2. QED
      BY <2>1, <3>1, BookOfWrites
  <2>4. QED
    BY <2>2, <2>3
<1>8. CASE Abandon(i)
  <2>1. CASE UNCHANGED control
    BY <2>1
  <2>2. CASE control # None /\ control' = [mem[i] EXCEPT !.status = "failed"]
    <3>1. control \in States
      BY <2>2 DEF TypeInv, TypeOK
    <3>2. CASE mem[i] = control
      BY <2>2, <3>1, <3>2, BookOfWrites
    <3>3. CASE Escaped(control, mem[i])
      <4> DEFINE e == control.executions[Last(control)]
      <4>1. PICK r \in Reasons \cup {"execution-seal-failed"} :
              mem[i] = WithLast(control, [Ended(e, "failed", r) EXCEPT !.seal = None])
        BY <3>3 DEF Escaped
      <4>2. e \in Executions /\ control.executions # <<>>
        BY <3>1, <3>3 DEF Escaped, States, Last
      <4>3. Ended(e, "failed", r) \in Executions
        BY <4>2, EndedTyped DEF Classes
      <4>4. [Ended(e, "failed", r) EXCEPT !.seal = None] \in Executions
        BY <4>3 DEF Executions
      <4>5. QED
        BY <2>2, <3>1, <4>1, <4>2, <4>4, WithLastBook
    <3>4. QED
      BY <1>8, <3>2, <3>3 DEF Abandon, CopyInv
  <2>3. QED
    BY <1>8, <2>1, <2>2 DEF Abandon, Persist
<1>9. CASE ResumeState(i)
  <2>1. mem[i] = control /\ control \in States
    BY <1>0, <1>9 DEF ResumeState, At, CopyInv, Holding
  <2>2. PICK w \in {"failed", "in-progress"} : control' = [Interrupted(control) EXCEPT !.status = w]
    BY <1>9, <2>1 DEF ResumeState, Persist
  <2>3. \E v : Interrupted(control) = [control EXCEPT !.executions = v]
    BY DEF Interrupted
  <2>4. QED
    BY <2>1, <2>2, <2>3, BookOfWrites
<1>10. CASE StartExecution(i)
  <2>1. mem[i] = control /\ control \in States
    BY <1>1, <1>10 DEF StartExecution, At, Carrying
  <2>2. PICK v : control' = [control EXCEPT !.executions = v]
    BY <1>10, <2>1 DEF StartExecution, Persist
  <2>3. QED
    BY <2>1, <2>2, BookOfWrites
<1>11. CASE Execute(i) \/ Judge(i)
  <2>1. mem[i] = control /\ control \in States
    BY <1>1, <1>11 DEF Execute, Judge, At, Carrying
  <2>2. UNCHANGED control \/ \E e : control' = WithLast(control, e)
    BY <1>11, <2>1 DEF Execute, Judge, Persist
  <2>3. ASSUME NEW e, control' = WithLast(control, e) PROVE SameBook(control, control')
    <3> DEFINE v == [control.executions EXCEPT ![Last(control)] = e]
    <3>1. WithLast(control, e) = [control EXCEPT !.executions = v]
      BY DEF WithLast
    <3>2. \A u : SameBook(control, [control EXCEPT !.executions = u])
      BY <2>1, BookOfWrites
    <3> HIDE DEF v
    <3>3. SameBook(control, WithLast(control, e))
      BY <3>1, <3>2
    <3>4. QED
      BY <2>3, <3>3
  <2>4. QED
    BY <2>1, <2>2, <2>3
<1>12. CASE Recheck(i) \/ ArchivePlan(i) \/ Preflight(i) \/ Throws(i) \/ SealEscapes(i)
  BY <1>12 DEF Recheck, ArchivePlan, Preflight, Throws, SealEscapes
<1>13. QED
  BY <1>4, <1>5, <1>6, <1>7, <1>8, <1>9, <1>10, <1>11, <1>12 DEF Works

ShelfAt(i) ==
  /\ proc[i].pc \in {"package", "inventory", "zip", "receipt", "complete"} => staged = {}
  /\ At(i, "commit") => staged = {i}
  /\ proc[i].pc \in {"package", "inventory", "zip", "commit", "complete"} =>
       control.superseded = Unreceipted
  /\ At(i, "receipt") =>
       /\ archives[proc[i].slot] = "committed"
       /\ control.superseded = Unreceipted \ {proc[i].slot}
  /\ proc[i].pc \in {"inventory", "zip", "commit"} => archives[proc[i].slot] = None
  /\ At(i, "complete") => archives[proc[i].slot] = "receipted"

\* Where the staged files and the archives change.
LEMMA StagedChanges ==
  ASSUME NEW i \in Invocations,
         Run(i) \/ (\E resume \in BOOLEAN : Launch(i, resume)) \/ Crash(i) \/ LateExit(i)
  PROVE  \/ UNCHANGED staged
         \/ Stage(i) \/ CommitArchive(i) \/ Supersede(i) \/ StageFails(i)
<1>1. CASE ArchivePlan(i) \/ CreateState(i) \/ ResumeState(i) \/ Preflight(i) \/ LeaveLoop(i)
           \/ StartExecution(i) \/ Execute(i) \/ SealEscapes(i) \/ JudgeBudget(i) \/ Judge(i)
           \/ Verdict(i) \/ ReportFailure(i) \/ Batch(i) \/ Evaluate(i)
  BY <1>1 DEF ArchivePlan, CreateState, ResumeState, Preflight, LeaveLoop, StartExecution, Execute,
     SealEscapes, JudgeBudget, Judge, Verdict, ReportFailure, Batch, Evaluate, shelf
<1>2. CASE BeginPackage(i) \/ WriteInventory(i) \/ WriteReceipt(i) \/ MarkCompleted(i) \/ Recheck(i)
           \/ Throws(i) \/ Abandon(i)
  BY <1>2 DEF BeginPackage, WriteInventory, WriteReceipt, MarkCompleted, Recheck, Throws, Abandon, shelf
<1>3. CASE \/ \E resume \in BOOLEAN : Launch(i, resume)
           \/ Refuse(i) \/ Admit(i) \/ CreateLock(i) \/ ProbeHolder(i) \/ RemoveStaleLock(i)
           \/ RecreateLock(i) \/ Release(i) \/ Crash(i) \/ LateExit(i)
  BY <1>3 DEF Launch, Refuse, Admit, CreateLock, ProbeHolder, RemoveStaleLock, RecreateLock,
     Release, Crash, LateExit, shelf
<1>4. QED
  BY <1>1, <1>2, <1>3 DEF Run

\* The archive a receipt or a commit is for changes hands, the others stay.
LEMMA ArchiveMoves ==
  ASSUME TypeInv, TypeInv', LockedInv, CopyInv, RunningInv, ShelfInv, NEW i \in Invocations,
         CommitArchive(i) \/ WriteReceipt(i), archives' # archives
  PROVE  ShelfAt(i)' /\ control'.superseded \subseteq Unreceipted' /\ inventory' # None /\ control # None
<1>0. /\ TypeOK /\ proc \in [Invocations -> Processes] /\ mem \in [Invocations -> States \cup {None}]
      /\ archives \in [Slots -> {None, "committed", "receipted"}]
  BY DEF TypeInv, TypeOK
<1>1. /\ proc[i].pc \in {"commit", "receipt"} /\ mem[i] = control /\ control # None
      /\ proc[i].slot \in Slots /\ UNCHANGED control /\ UNCHANGED inventory /\ inventory # None
      /\ ShelfAt(i)
  BY DEF CommitArchive, WriteReceipt, At, CopyInv, Holding, Carrying, LockedInv, FoundInv, TypeInv,
     Equipped, Persist, evidence, PathInv, PathOf, Packing, ShelfInv, ShelfAt
<1>2. CASE CommitArchive(i)
  <2>1. /\ i \in staged /\ staged' = staged \ {i} /\ Goto(i, "receipt") /\ At(i, "commit")
        /\ archives' = [archives EXCEPT ![proc[i].slot] = "committed"]
    BY <1>2 DEF CommitArchive
  <2>2. staged = {i} /\ control.superseded = Unreceipted /\ archives[proc[i].slot] = None
    BY <1>1, <2>1 DEF ShelfAt, At
  <2>3. proc'[i].pc = "receipt" /\ proc'[i].slot = proc[i].slot
    BY <1>0, <2>1, GotoTyped DEF Stations
  <2>4. Unreceipted' = Unreceipted \cup {proc[i].slot} /\ archives'[proc[i].slot] = "committed"
    BY <1>0, <1>1, <2>1 DEF Unreceipted
  <2>5. proc[i].slot \notin Unreceipted
    BY <2>2, NoneAssumption DEF Unreceipted
  <2>6. QED
    BY <1>1, <2>1, <2>2, <2>3, <2>4, <2>5 DEF ShelfAt, At
<1>3. CASE WriteReceipt(i)
  <2>1. /\ staged' = staged /\ Goto(i, "complete") /\ At(i, "receipt")
        /\ archives' = [archives EXCEPT ![proc[i].slot] = "receipted"]
    BY <1>3 DEF WriteReceipt
  <2>2. staged = {} /\ control.superseded = Unreceipted \ {proc[i].slot}
    BY <1>1, <2>1 DEF ShelfAt, At
  <2>3. proc'[i].pc = "complete" /\ proc'[i].slot = proc[i].slot
    BY <1>0, <2>1, GotoTyped DEF Stations
  <2>4. Unreceipted' = Unreceipted \ {proc[i].slot} /\ archives'[proc[i].slot] = "receipted"
    BY <1>0, <1>1, <2>1 DEF Unreceipted
  <2>5. QED
    BY <1>1, <2>1, <2>2, <2>3, <2>4 DEF ShelfAt, At
<1>4. QED
  BY <1>2, <1>3

\* The leftovers are recorded before the packaging goes on.
LEMMA SupersedeShelf ==
  ASSUME TypeInv, TypeInv', LockedInv, CopyInv, ShelfInv, NEW i \in Invocations, Supersede(i)
  PROVE  /\ ShelfAt(i)' /\ control' # None /\ control'.superseded = Unreceipted'
         /\ staged' = {} /\ UNCHANGED archives
<1>0. TypeOK
  BY DEF TypeInv
<1>1. /\ mem[i] = control /\ control \in States /\ control # None
      /\ UNCHANGED archives /\ staged' = {}
  BY NoneAssumption DEF Supersede, At, CopyInv, Holding, Carrying, TypeInv, Equipped
<1> DEFINE s == [control EXCEPT !.superseded = @ \cup Unreceipted]
<1>2. control' = [s EXCEPT !.status = "failed"] \/ control' = [s EXCEPT !.status = "packaging"]
  BY <1>1 DEF Supersede, FailWith, Persist
<1>3. /\ s.superseded = control.superseded \cup Unreceipted
      /\ [s EXCEPT !.status = "failed"].superseded = s.superseded
      /\ [s EXCEPT !.status = "packaging"].superseded = s.superseded
  BY <1>1 DEF States
<1>4. s.superseded = Unreceipted
  BY <1>1, <1>3 DEF ShelfInv
<1> HIDE DEF s
<1>5. control'.superseded = Unreceipted
  BY <1>2, <1>3, <1>4
<1>6. Unreceipted' = Unreceipted
  BY <1>1 DEF Unreceipted
<1>7. proc'[i].pc \in {"release", "package"}
  BY <1>0, MovesOn DEF Supersede, FailWith, GoesTo, Moves
<1>8. control' # None
  BY ControlStep, <1>1, NoneAssumption DEF Works, Run
<1>9. QED
  BY <1>1, <1>5, <1>6, <1>7, <1>8 DEF ShelfAt, At

\* Before the inventory there is nothing on the shelf, and what is recorded is there.
LEMMA ShelfFrame ==
  ASSUME TypeInv, TypeInv', LockedInv, CopyInv, RunningInv, ShelfInv, NEW i \in Invocations,
         Run(i) \/ (\E resume \in BOOLEAN : Launch(i, resume)) \/ Crash(i) \/ LateExit(i)
  PROVE  /\ inventory' = None => staged' = {} /\ Unreceipted' = {}
         /\ control' # None => control'.superseded \subseteq Unreceipted'
<1>1. ASSUME inventory' = None PROVE staged' = {} /\ Unreceipted' = {}
  <2>1. inventory = None
    <3>1. WriteInventory(i) => inventory = None
      BY DEF WriteInventory, At, Open, LockedInv, PathInv, PathOf
    <3>2. QED
      BY <1>1, <3>1, InventoryAppears
  <2>2. ~Stage(i) /\ ~CommitArchive(i) /\ ~WriteReceipt(i) /\ ~Supersede(i)
    BY <2>1 DEF Stage, CommitArchive, WriteReceipt, Supersede, At, Packing, LockedInv, PathInv, PathOf,
       TypeInv, Equipped
  <2>3. staged' \subseteq staged
    <3>1. StageFails(i) => staged' \subseteq staged
      BY DEF StageFails
    <3>2. QED
      BY <2>2, <3>1, StagedChanges
  <2>4. UNCHANGED archives
    BY <2>2, ArchivesChange
  <2>5. QED
    BY <2>1, <2>3, <2>4 DEF ShelfInv, Unreceipted
<1>2. ASSUME control' # None PROVE control'.superseded \subseteq Unreceipted'
  <2>1. CASE archives' # archives
    BY <2>1, ArchivesChange, ArchiveMoves
  <2>2. CASE UNCHANGED archives
    <3>1. Unreceipted' = Unreceipted
      BY <2>2 DEF Unreceipted
    <3>2. CASE UNCHANGED control
      BY <1>2, <3>1, <3>2 DEF ShelfInv
    <3>3. CASE CreateState(i)
      BY <3>3 DEF CreateState, Persist, Created
    <3>4. CASE Supersede(i)
      BY <3>4, SupersedeShelf
    <3>5. CASE MarkCompleted(i)
      <4>1. mem[i] = control /\ control \in States
        BY <3>5 DEF MarkCompleted, At, Carrying, CopyInv, Holding, TypeInv, Equipped
      <4>2. control' = [control EXCEPT !.status = "completed", !.archive = proc[i].slot]
        BY <3>5, <4>1 DEF MarkCompleted, Packaged, Persist
      <4>3. control'.superseded = control.superseded /\ control # None
        BY <4>1, <4>2, NoneAssumption DEF States
      <4>4. QED
        BY <3>1, <4>3 DEF ShelfInv
    <3>6. CASE control \in States /\ SameBook(control, control')
      BY <3>1, <3>6, NoneAssumption DEF ShelfInv, SameBook
    <3>7. QED
      BY <3>2, <3>3, <3>4, <3>5, <3>6, BookKept, ControlStep
  <2>3. QED
    BY <2>1, <2>2
<1>3. QED
  BY <1>1, <1>2

LEMMA ShelfWork ==
  ASSUME TypeInv, TypeInv', LockedInv, LockedInv', CopyInv, RunningInv, ShelfInv, NEW i \in Invocations, Works(i)
  PROVE  ShelfAt(i)'
<1>0. /\ TypeOK /\ proc \in [Invocations -> Processes] /\ mem \in [Invocations -> States \cup {None}]
      /\ archives \in [Slots -> {None, "committed", "receipted"}]
  BY DEF TypeInv, TypeOK
<1>1. PICK st : Moves(i, st) /\ Follows(i, st)
  BY WorkMoves
<1>2. /\ inventory' = None => staged' = {} /\ Unreceipted' = {}
      /\ control' # None => control'.superseded \subseteq Unreceipted'
  BY ShelfFrame DEF Run, Works
<1>3. ShelfAt(i)
  BY DEF ShelfInv, ShelfAt
<1> DEFINE Late == {"package", "inventory", "zip", "commit", "receipt", "complete"}
<1>4. CASE st \notin Late
  BY <1>1, <1>4 DEF Moves, ShelfAt, At
<1>5. CASE archives' # archives
  BY <1>5, ArchivesChange, ArchiveMoves DEF Run, Works
<1>6. CASE Supersede(i)
  BY <1>6, SupersedeShelf
<1>7. ASSUME Goto(i, "release") PROVE st \notin Late
  <2>1. proc'[i].pc = "release"
    BY <1>0, <1>7, MovesOn DEF GoesTo, Moves
  <2>2. QED
    BY <1>1, <2>1 DEF Moves
<1>8. CASE st = "package" /\ ~Supersede(i)
  <2>1. ~At(i, "supersede")
    <3>1. At(i, "supersede") => StageFails(i)
      BY <1>8 DEF Works, ArchivePlan, CreateState, ResumeState, Preflight, LeaveLoop, StartExecution,
         Execute, SealEscapes, JudgeBudget, Judge, Verdict, ReportFailure, Batch, Evaluate, BeginPackage,
         Stage, CommitArchive, WriteReceipt, MarkCompleted, Recheck, Throws, Abandon, At
    <3>2. QED
      BY <1>7, <1>8, <3>1 DEF StageFails, FailWith
  <2>2. inventory' = None
    <3>1. proc[i].pc \in Open
      BY <1>1, <1>8, <2>1 DEF Follows, Packing
    <3>2. QED
      BY <3>1, WorkMoves DEF LockedInv, PathInv, PathOf
  <2>3. control' # None
    BY <1>1, <1>8 DEF Moves, Carrying, LockedInv, FoundInv
  <2>4. control'.superseded = Unreceipted' /\ staged' = {}
    BY <1>2, <2>2, <2>3
  <2>5. QED
    BY <1>1, <1>8, <2>4 DEF Moves, ShelfAt, At
<1>9. CASE At(i, "package") /\ UNCHANGED archives /\ st \in Late
  <2>1. BeginPackage(i)
    <3>1. BeginPackage(i) \/ StageFails(i)
      BY <1>9 DEF Works, ArchivePlan, CreateState, ResumeState, Preflight, LeaveLoop, StartExecution,
         Execute, SealEscapes, JudgeBudget, Judge, Verdict, ReportFailure, Batch, Evaluate,
         Stage, CommitArchive, WriteReceipt, MarkCompleted, Recheck, Supersede, Throws, Abandon, At
    <3>2. QED
      BY <1>7, <1>9, <3>1 DEF StageFails, FailWith
  <2>2. /\ FreeSlots # {} /\ control' = [mem[i] EXCEPT !.aggregate = Aggregate] /\ UNCHANGED shelf
        /\ MoveSlot(i, IF inventory = None THEN "inventory" ELSE "zip", NextArchive)
    BY <1>7, <1>9, <2>1 DEF BeginPackage, Fail, FailWith, Persist, MoveSlot
  <2>3. mem[i] = control /\ control \in States
    BY <1>9 DEF CopyInv, Holding, Carrying, At, TypeInv, Equipped
  <2>4. control'.superseded = control.superseded
    BY <2>2, <2>3 DEF States
  <2>5. /\ proc'[i].pc \in {"inventory", "zip"} /\ proc'[i].slot = NextArchive
        /\ archives[NextArchive] = None
    <3>1. NextArchive \in Slots /\ archives[NextArchive] = None
      BY <2>2, NextArchiveExists
    <3>2. "inventory" \in Stations /\ "zip" \in Stations
      BY DEF Stations
    <3>3. QED
      BY <1>0, <2>2, <3>1, <3>2, SlotTyped
  <2>6. staged' = {} /\ control'.superseded = Unreceipted' /\ UNCHANGED archives
    BY <1>3, <1>9, <2>2, <2>4 DEF ShelfAt, At, shelf, Unreceipted
  <2>7. QED
    BY <2>5, <2>6 DEF ShelfAt, At
<1>10. CASE proc[i].pc \in Packing /\ UNCHANGED archives /\ st \in Late
  <2>1. Stage(i)
    <3>1. Stage(i) \/ CommitArchive(i) \/ WriteReceipt(i) \/ MarkCompleted(i) \/ StageFails(i)
      BY <1>10 DEF Works, ArchivePlan, CreateState, ResumeState, Preflight, LeaveLoop, StartExecution,
         Execute, SealEscapes, JudgeBudget, Judge, Verdict, ReportFailure, Batch, Evaluate, BeginPackage,
         Recheck, Supersede, Throws, Abandon, At, Packing
    <3>2. ~CommitArchive(i)
      <4>1. SUFFICES ASSUME CommitArchive(i) PROVE FALSE
        OBVIOUS
      <4>2. archives' = [archives EXCEPT ![proc[i].slot] = "committed"] /\ At(i, "commit")
        BY <1>7, <1>10, <4>1 DEF CommitArchive, Fail, FailWith
      <4>3. archives[proc[i].slot] = None /\ proc[i].slot \in Slots
        BY <1>3, <4>2 DEF ShelfAt, At, TypeInv, Equipped
      <4>4. QED
        BY <1>0, <1>10, <4>2, <4>3, NoneAssumption
    <3>3. ~WriteReceipt(i)
      <4>1. SUFFICES ASSUME WriteReceipt(i) PROVE FALSE
        OBVIOUS
      <4>2. archives' = [archives EXCEPT ![proc[i].slot] = "receipted"] /\ At(i, "receipt")
        BY <1>7, <1>10, <4>1 DEF WriteReceipt, Fail, FailWith
      <4>3. archives[proc[i].slot] = "committed" /\ proc[i].slot \in Slots
        BY <1>3, <4>2 DEF ShelfAt, At, TypeInv, Equipped
      <4>4. QED
        BY <1>0, <1>10, <4>2, <4>3
    <3>4. QED
      BY <1>7, <1>10, <3>1, <3>2, <3>3 DEF MarkCompleted, StageFails, FailWith
  <2>2. /\ staged' = staged \cup {i} /\ Goto(i, "commit") /\ UNCHANGED control /\ At(i, "zip")
    BY <1>7, <1>10, <2>1 DEF Stage, Fail, FailWith
  <2>3. proc'[i].pc = "commit" /\ proc'[i].slot = proc[i].slot
    BY <1>0, <2>2, GotoTyped DEF Stations
  <2>4. QED
    BY <1>3, <1>10, <2>2, <2>3 DEF ShelfAt, At, Unreceipted
<1>11. QED
  BY <1>1, <1>4, <1>5, <1>6, <1>8, <1>9, <1>10 DEF Follows, Open, Rereading, At

LEMMA ShelfStep ==
  ASSUME TypeInv, TypeInv', LockedInv, LockedInv', CopyInv, RunningInv, ShelfInv, NEW i \in Invocations,
         Run(i) \/ (\E resume \in BOOLEAN : Launch(i, resume)) \/ Crash(i) \/ LateExit(i)
  PROVE  ShelfInv'
<1>0. TypeOK
  BY DEF TypeInv
<1>1. \A j \in Invocations \ {i} : proc'[j] = proc[j]
  BY StartingTyped, AttemptsTyped, PackagingTyped, EndingTyped DEF Run, Apart
<1>2. /\ inventory' = None => staged' = {} /\ Unreceipted' = {}
      /\ control' # None => control'.superseded \subseteq Unreceipted'
  BY ShelfFrame
<1>3. \A j \in Invocations : ShelfAt(j)
  BY DEF ShelfInv, ShelfAt
<1>4. CASE Works(i)
  <2>1. ASSUME NEW j \in Invocations \ {i} PROVE ShelfAt(j)'
    <3>1. ~Outside(i)
      BY <1>4, WorkMoves DEF Follows, Outside, Asking, Open, Packing, Rereading, At
    <3>2. Outside(j) /\ proc'[j] = proc[j]
      BY <1>1, <3>1, OthersAway
    <3>3. QED
      BY <3>2 DEF ShelfAt, Outside, Asking, At
  <2>2. QED
    BY <1>2, <1>4, <2>1, ShelfWork DEF ShelfInv, ShelfAt
<1>5. CASE ~Works(i)
  <2>1. UNCHANGED <<control, staged, archives>>
    BY <1>5, ControlStep, StagedChanges, ArchivesChange DEF Works
  <2>2. Unreceipted' = Unreceipted
    BY <2>1 DEF Unreceipted
  <2>3. ASSUME NEW j \in Invocations, proc'[j] = proc[j] PROVE ShelfAt(j)'
    BY <1>3, <2>1, <2>2, <2>3 DEF ShelfAt, At
  <2>4. ShelfAt(i)'
    <3>1. CASE proc'[i].pc \in {"idle", "gates", "recheck", "setup", "abandon"} \cup Asking
      BY <3>1 DEF ShelfAt, At, Asking
    <3>2. CASE WriteInventory(i)
      <4>1. At(i, "inventory") /\ Goto(i, "zip")
        BY <3>2 DEF WriteInventory
      <4>2. proc'[i].pc = "zip" /\ proc'[i].slot = proc[i].slot
        BY <1>0, <4>1, GotoTyped DEF Stations
      <4>3. QED
        BY <1>3, <2>1, <2>2, <4>1, <4>2 DEF ShelfAt, At
    <3>3. CASE LateExit(i)
      BY <2>3, <3>3 DEF LateExit
    <3>4. QED
      BY <1>5, <3>1, <3>2, <3>3, OuterStations
  <2>5. QED
    BY <1>1, <1>2, <2>3, <2>4 DEF ShelfInv, ShelfAt
<1>6. QED
  BY <1>4, <1>5

\* What completes a sequence is its last step in the lock; past it only the lock is given back.
LEMMA WholeStep ==
  ASSUME TypeInv, TypeInv', LockedInv, LockedInv', CopyInv, RunningInv, ClosedInv, ShelfInv, WholeInv,
         NEW i \in Invocations,
         Run(i) \/ (\E resume \in BOOLEAN : Launch(i, resume)) \/ Crash(i) \/ LateExit(i)
  PROVE  WholeInv'
<1>0. /\ TypeOK /\ proc \in [Invocations -> Processes] /\ mem \in [Invocations -> States \cup {None}]
  BY DEF TypeInv, TypeOK
<1>1. \A j \in Invocations \ {i} : proc'[j] = proc[j]
  BY StartingTyped, AttemptsTyped, PackagingTyped, EndingTyped DEF Run, Apart
<1> DEFINE Off(j) == Outside(j) \/ proc[j].pc \in {"recheck", "release"}
<1>2. CASE MarkCompleted(i)
  <2>1. /\ At(i, "complete") /\ mem[i] = control /\ control \in States /\ proc[i].slot \in Slots
        /\ inventory # None /\ staged = {} /\ control.superseded = Unreceipted
        /\ archives[proc[i].slot] = "receipted" /\ ~Outside(i)
    BY <1>2 DEF MarkCompleted, At, CopyInv, Holding, Carrying, TypeInv, Equipped, LockedInv, PathInv,
       PathOf, Packing, ShelfInv, Outside, Asking
  <2>2. control' = [control EXCEPT !.status = "completed", !.archive = proc[i].slot]
    BY <1>2, <2>1 DEF MarkCompleted, Packaged, Persist
  <2>3. control'.archive = proc[i].slot /\ control'.superseded = control.superseded
    BY <2>1, <2>2 DEF States
  <2>4. proc'[i].pc = "release" /\ UNCHANGED <<evidence, shelf>>
    BY <1>0, <1>2, MovesOn DEF MarkCompleted, GoesTo, Moves
  <2>5. \A j \in Invocations : Off(j)'
    <3>1. \A j \in Invocations \ {i} : Off(j)'
      BY <1>1, <2>1, OthersAway DEF Outside
    <3>2. QED
      BY <2>4, <3>1
  <2>6. QED
    BY <2>1, <2>3, <2>4, <2>5 DEF WholeInv, evidence, shelf, Unreceipted
<1>3. CASE ~MarkCompleted(i)
  <2>1. SUFFICES ASSUME Completed' PROVE WholeInv'
    BY DEF WholeInv
  <2>2. Completed
    <3>1. CASE UNCHANGED control
      BY <2>1, <3>1 DEF Completed
    <3>2. CASE CreateState(i)
      BY <2>1, <3>2 DEF CreateState, Persist, Created, Completed
    <3>3. CASE Supersede(i)
      <4>1. mem[i] \in States
        BY <3>3 DEF Supersede, At, TypeInv, Equipped, Carrying
      <4> DEFINE s == [mem[i] EXCEPT !.superseded = @ \cup Unreceipted]
      <4>2. /\ [s EXCEPT !.status = "failed"].status = "failed"
            /\ [s EXCEPT !.status = "packaging"].status = "packaging"
        BY <4>1 DEF States
      <4>3. control' = [s EXCEPT !.status = "failed"] \/ control' = [s EXCEPT !.status = "packaging"]
        BY <3>3 DEF Supersede, FailWith, Persist
      <4> HIDE DEF s
      <4>4. QED
        BY <2>1, <4>2, <4>3 DEF Completed
    <3>4. CASE control \in States /\ SameBook(control, control')
      BY <2>1, <3>4, NoneAssumption DEF SameBook, Completed
    <3>5. QED
      BY <1>3, <3>1, <3>2, <3>3, <3>4, BookKept, ControlStep
  <2>3. /\ inventory # None /\ control.archive \in Slots /\ archives[control.archive] = "receipted"
        /\ staged = {} /\ control.superseded = Unreceipted /\ \A j \in Invocations : Off(j)
    BY <2>2 DEF WholeInv
  <2>4. /\ control # None /\ NoOpResume
    BY <2>2, <2>3 DEF Completed, NoOpResume, ClosedInv
  <2>5. CASE Recheck(i)
    <3>1. Goto(i, "release") /\ UNCHANGED <<control, evidence, shelf>>
      BY <2>4, <2>5 DEF Recheck
    <3>2. proc'[i].pc = "release"
      BY <1>0, <3>1, MovesOn DEF GoesTo, Moves
    <3>3. \A j \in Invocations : Off(j)'
      BY <1>1, <2>3, <3>2 DEF Outside
    <3>4. QED
      BY <2>3, <3>1, <3>3 DEF WholeInv, evidence, shelf, Unreceipted
  <2>6. CASE ~Recheck(i)
    <3>1. ~Works(i) /\ ~WriteInventory(i)
      BY <2>3, <2>6 DEF Works, WriteInventory, ArchivePlan, CreateState, ResumeState, Preflight, LeaveLoop,
         StartExecution, Execute, SealEscapes, JudgeBudget, Judge, Verdict, ReportFailure, Batch, Evaluate,
         BeginPackage, Stage, CommitArchive, WriteReceipt, MarkCompleted, Supersede, Throws, StageFails,
         Abandon, Outside, Asking, At
    <3>2. UNCHANGED <<control, staged, archives>>
      BY <3>1, ControlStep, StagedChanges, ArchivesChange DEF Works
    <3>3. inventory' # None
      BY <2>3, <3>1, InventoryAppears
    <3>4. Off(i)'
      <4>1. CASE LateExit(i)
        BY <2>3, <4>1 DEF LateExit, Outside
      <4>2. CASE proc'[i].pc \in {"idle", "gates", "recheck"} \cup Asking
        BY <4>2 DEF Outside
      <4>3. CASE proc'[i].pc \in {"setup", "abandon"}
        <5>1. PathInv'
          BY DEF LockedInv
        <5>2. QED
          BY <3>3, <4>3, <5>1 DEF PathInv, PathOf, Open
      <4>4. QED
        BY <3>1, <4>1, <4>2, <4>3, OuterStations
    <3>5. \A j \in Invocations : Off(j)'
      BY <1>1, <2>3, <3>4 DEF Outside
    <3>6. QED
      BY <2>3, <3>2, <3>3, <3>5 DEF WholeInv, Unreceipted
  <2>7. QED
    BY <2>5, <2>6
<1>4. QED
  BY <1>2, <1>3

-----------------------------------------------------------------------------
(* What `completed` means                                                  *)

PackagedInv == ShelfInv /\ WholeInv

LEMMA PackagedInit ==
  ASSUME Init
  PROVE  PackagedInv
<1>1. /\ control = None /\ staged = {} /\ archives = [n \in Slots |-> None]
      /\ \A i \in Invocations : proc[i].pc = "idle"
  BY DEF Init, Stopped
<1>2. Unreceipted = {}
  BY <1>1, NoneAssumption DEF Unreceipted
<1>3. ShelfInv
  BY <1>1, <1>2 DEF ShelfInv, At
<1>4. WholeInv
  BY <1>1 DEF WholeInv, Completed
<1>5. QED
  BY <1>3, <1>4 DEF PackagedInv

LEMMA PackagedStep ==
  ASSUME Paired, SerialInv, PackagedInv, [SerialNext]_vars
  PROVE  PackagedInv'
<1>0. [Next]_vars
  BY SerialNextIsNext
<1>1. TypeInv /\ LockedInv /\ CopyInv /\ RunningInv /\ ClosedInv /\ ShelfInv /\ WholeInv
  BY DEF SerialInv, PackagedInv
<1>2. TypeInv' /\ LockedInv'
  BY <1>0, <1>1, TypeInvStep, LockedStep
<1>3. ASSUME NEW i \in Invocations,
             Run(i) \/ (\E resume \in BOOLEAN : Launch(i, resume)) \/ Crash(i) \/ LateExit(i)
      PROVE  ShelfInv' /\ WholeInv'
  BY <1>1, <1>2, <1>3, ShelfStep, WholeStep
<1>4. CASE UNCHANGED <<control, inventory, staged, archives, proc>>
  <2>1. Unreceipted' = Unreceipted
    BY <1>4 DEF Unreceipted
  <2>2. ShelfInv'
    BY <1>1, <1>4, <2>1 DEF ShelfInv, At
  <2>3. WholeInv'
    BY <1>1, <1>4, <2>1 DEF WholeInv, Completed, Outside
  <2>4. QED
    BY <2>2, <2>3 DEF PackagedInv
<1>5. Drifts \/ vars' = vars => UNCHANGED <<control, inventory, staged, archives, proc>>
  BY DEF Drifts, vars, evidence, shelf
<1>6. QED
  BY <1>0, <1>3, <1>4, <1>5 DEF Next, Around, PackagedInv

\* In every reachable state in which the control state says `completed`, every planned
\* attempt has a completed execution, the evidence root still equals the inventory whose
\* aggregate is recorded, the manifest tells the recorded executions, the recorded archive
\* has its receipt, nothing staged is left, and exactly the archives without a receipt are
\* recorded as superseded (orchestrate.ts markCompleted, resumePackagingReady).
THEOREM CompletionIsWhole == Paired /\ Evidentiary => (SerialSpec => []CompletedIsWhole)
<1>1. Init => SerialInv /\ PackagedInv
  BY SerialInit, PackagedInit
<1>2. SerialInv /\ StragglerInv /\ PackagedInv => CompletedIsWhole
  BY NoneAssumption DEF SerialInv, PackagedInv, ClosedInv, StragglerInv, WholeInv, Reported,
     Completed, CompletedIsWhole, Unreceipted, Slots
<1>3. ASSUME Paired, Evidentiary PROVE SerialSpec => []CompletedIsWhole
  <2>1. SerialInv /\ PackagedInv /\ [SerialNext]_vars => (SerialInv /\ PackagedInv)'
    BY <1>3, SerialStep, PackagedStep
  <2>2. SerialSpec => [](SerialInv /\ StragglerInv)
    BY <1>3, StragglersAlways
  <2>3. QED
    BY <1>1, <1>2, <2>1, <2>2, PTL DEF SerialSpec
<1>4. QED
  BY <1>3

=============================================================================
