--------------------------- MODULE WorkerFallback ---------------------------
(***************************************************************************)
(* WorkerLease with one more fault: a database write of a recovery claim   *)
(* fails (SQLITE_BUSY after busy_timeout, a full disk) while its lease is  *)
(* still held.  executeClaim() then leaves the recovery branch through its *)
(* outer catch block, which was written for first claims: launchInvoked is *)
(* false there, so the execution is reported as never attempted.           *)
(***************************************************************************)
EXTENDS WorkerLease

CONSTANT MaxWriteFailures   (* bound: failing writes *)

ASSUME WriteFailureAssumption == MaxWriteFailures \in Nat

VARIABLE writeFailures

fallbackVars == <<vars, writeFailures>>

NeverAttempted == [attempted |-> FALSE, terminal |-> FALSE, seconds |-> NULL]

(* What finish() finds against "never attempted" in the database.          *)
Evidence(j) == sessionRef[j] \/ recordedAttempt[j] \/ consumed[j] > 0 \/ observation[j] # NULL

(* The report settles the launch unless that evidence contradicts it. *)
MaySettleUnlaunched(t) == HoldsLease(t.job, t.worker, t.generation) /\ ~Evidence(t.job)

(* control.finish() fails before the query, or recover() and its fallback  *)
(* both fail after it.  The outer catch block then calls finish() with the *)
(* never-attempted usage; if that finds evidence to the contrary, or the   *)
(* lease gone, the task ends and leaves the row to a later recovery.       *)
RecoveryWriteFails(t) ==
  /\ writeFailures < MaxWriteFailures
  /\ HoldsLease(t.job, t.worker, t.generation)
  /\ IF MaySettleUnlaunched(t)
     THEN /\ Settle(t.job, 0, TRUE, 0)
          /\ \E outcome \in ResultsOf(NeverAttempted) : SettleLaunch(t.job, TRUE, outcome)
          /\ recordedAttempt' = [recordedAttempt EXCEPT ![t.job] = FALSE]
          /\ UNCHANGED <<jobCancel, generation, sessionRef, runCancel, observation>>
     ELSE UNCHANGED <<leaseVars, launchVars, runVars, attemptVars, ledgerVars>>
  /\ recoveries' = recoveries \ {t}
  /\ writeFailures' = writeFailures + 1
  /\ UNCHANGED <<providerVars, launcherVars, boundVars>>

FallbackInit == Init /\ writeFailures = 0
FallbackNext ==
  \/ Next /\ UNCHANGED writeFailures
  \/ \E t \in recoveries : RecoveryWriteFails(t)

FallbackSpec == FallbackInit /\ [][FallbackNext]_fallbackVars
FairFallbackSpec == FallbackSpec /\ Fairness

(* What the failing write cannot take away: a browser that may be running  *)
(* and whose session id was stored keeps its slot, because finish() checks *)
(* a report of "never attempted" against the row.                          *)
StoredSessionHoldsSlot ==
  \A j \in Jobs : sessionRef[j] /\ MayRun(j) => launch[j] \notin {"none", "settled"}

(* More: a job of which anything was ever recorded keeps its slot and its  *)
(* account.  What the failing write lets go of is a browser nobody wrote a *)
(* word about (finish()).                                                  *)
EvidenceHolds ==
  \A j \in Jobs : Evidence(j) =>
    /\ MayRun(j) => launch[j] \notin {"none", "settled"}
    /\ launch[j] \notin {"none", "settled"} => reserved[j] = SessionSeconds /\ released[j] = 0
    /\ launch[j] = "settled" /\ remote[j] = "terminal"
         => consumed[j] >= Min({duration[j], SessionSeconds})
=============================================================================
