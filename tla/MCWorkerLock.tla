---------------------------- MODULE MCWorkerLock ----------------------------
(***************************************************************************)
(* Instances of WorkerLock, with the times of the code scaled down.        *)
(***************************************************************************)
EXTENDS WorkerLock

CONSTANTS i1, i2, i3

=============================================================================
