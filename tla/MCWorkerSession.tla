---------------------------- MODULE MCWorkerSession ----------------------------
EXTENDS WorkerSession
=============================================================================
