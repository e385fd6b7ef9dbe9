-------------------------- MODULE MCWorkerFallback --------------------------
(***************************************************************************)
(* Small instances of WorkerFallback.                                      *)
(***************************************************************************)
EXTENDS WorkerFallback

CONSTANTS r1, o1

OneRun == [j \in Jobs |-> r1]
OneOwner == [r \in Runs |-> o1]
=============================================================================
