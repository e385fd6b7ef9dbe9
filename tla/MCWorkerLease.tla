--------------------------- MODULE MCWorkerLease ---------------------------
(***************************************************************************)
(* Small instances of WorkerLease.  Jobs are numbers because claims scan   *)
(* them in rowid order; only the workers are interchangeable.              *)
(***************************************************************************)
EXTENDS WorkerLease, TLC

CONSTANTS r1, r2, o1, o2

WorkerSymmetry == Permutations(Workers)

OneRun == [j \in Jobs |-> r1]
OneOwner == [r \in Runs |-> o1]

AlternatingRuns == [j \in Jobs |-> IF j % 2 = 1 THEN r1 ELSE r2]
OwnerPerRun == [r \in Runs |-> IF r = r1 THEN o1 ELSE o2]
=============================================================================
