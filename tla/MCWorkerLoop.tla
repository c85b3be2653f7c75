---------------------------- MODULE MCWorkerLoop ----------------------------
\* Small instances of the worker loop for TLC.
EXTENDS WorkerLoopProperties

CONSTANTS a1, a2, a3
=============================================================================
