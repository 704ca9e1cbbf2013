------------------------------ MODULE RequestBook ------------------------------
(***************************************************************************)
(* What the decision lifecycle promises about requests, and nothing of how *)
(* it keeps it: a book in which each NPC has at most one open request and  *)
(* every request ever opened meets exactly one fate.                       *)
(***************************************************************************)
EXTENDS Integers, Sequences

CONSTANTS Npcs, None

VARIABLES
  open, \* open[n]: the NPC's open request, or None
  fate  \* fate[r], for the requests opened so far, numbered from 1

book == <<open, fate>>

Fates == {"Accepted", "Expired", "Superseded"}

Init ==
  /\ open = [n \in Npcs |-> None]
  /\ fate = <<>>

\* A new request for n overtakes the one that is open.
Open(n) ==
  LET r == Len(fate) + 1
  IN /\ open' = [open EXCEPT ![n] = r]
     /\ fate' = IF open[n] = None
                THEN Append(fate, "Open")
                ELSE Append([fate EXCEPT ![open[n]] = "Superseded"], "Open")

\* The open request of n is answered, or given up.
Settle(n, how) ==
  /\ open[n] # None
  /\ fate' = [fate EXCEPT ![open[n]] = how]
  /\ open' = [open EXCEPT ![n] = None]

Next == \E n \in Npcs : Open(n) \/ \E how \in {"Accepted", "Expired"} : Settle(n, how)

Spec == Init /\ [][Next]_book

\* The book is consistent: a request is open exactly while some NPC has it
\* open, and then only one NPC has.
Consistent ==
  /\ \A r \in DOMAIN fate : fate[r] = "Open" <=> \E n \in Npcs : open[n] = r
  /\ \A m, n \in Npcs : open[m] # None /\ open[m] = open[n] => m = n

=============================================================================
