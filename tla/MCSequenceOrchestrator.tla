----------------------- MODULE MCSequenceOrchestrator -----------------------
(***************************************************************************)
(* Small instances of SequenceOrchestrator: two processes, a two-attempt   *)
(* plan, one retryable class and one that is not.                          *)
(***************************************************************************)
EXTENDS SequenceOrchestrator, TLC

CONSTANTS first, second, i1, i2

TwoAttempts == <<first, second>>

OneAttempt == <<first>>

\* Processes are interchangeable (no liveness property is checked with it).
Swap == Permutations({i1, i2})
=============================================================================
