-------------------------- MODULE MCAttemptExecution --------------------------
EXTENDS AttemptExecution
=============================================================================
