--------------------------- MODULE MCRunFinalization ---------------------------
EXTENDS RunFinalization
MCRequests == 1..2
=============================================================================
