--------------------------- MODULE AttemptHistory ---------------------------
(***************************************************************************)
(* What the unattended orchestrator promises to whoever reads the evidence *)
(* of a sequence, whatever crashes and restarts lie between: executions    *)
(* are only ever appended, one at a time and within the registered         *)
(* capacity; a finished one keeps its fate; nothing follows a completed    *)
(* execution of its attempt; and once the evidence is closed (inventoried) *)
(* every planned attempt is complete and nothing is appended any more.     *)
(***************************************************************************)
EXTENDS Naturals, Sequences, FiniteSets

CONSTANTS Attempts, Capacity

VARIABLES
  history,   \* the executions so far: [attempt, fate]
  closed     \* the evidence is final

ledger == <<history, closed>>

ExecutionsOf(a) == {k \in DOMAIN history : history[k].attempt = a}

Running == {k \in DOMAIN history : history[k].fate = "running"}

Completed(a) == \E k \in ExecutionsOf(a) : history[k].fate = "completed"

Init == history = <<>> /\ closed = FALSE

Start(a) ==
  /\ ~closed
  /\ Running = {}
  /\ ~Completed(a)
  /\ Cardinality(ExecutionsOf(a)) < Capacity
  /\ history' = Append(history, [attempt |-> a, fate |-> "running"])
  /\ UNCHANGED closed

Finish(fate) ==
  /\ ~closed
  /\ \E k \in Running : history' = [history EXCEPT ![k].fate = fate]
  /\ UNCHANGED closed

Close ==
  /\ ~closed
  /\ Running = {}
  /\ \A a \in Attempts : Completed(a)
  /\ closed' = TRUE
  /\ UNCHANGED history

Next ==
  \/ \E a \in Attempts : Start(a)
  \/ \E fate \in {"completed", "failed"} : Finish(fate)
  \/ Close

Spec == Init /\ [][Next]_ledger
=============================================================================
