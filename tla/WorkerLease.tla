---------------------------- MODULE WorkerLease -----------------------------
(***************************************************************************)
(* The durable worker protocol of src/server/worker: jobs claimed under a  *)
(* generation-fenced lease, at most one paid Browserbase session per job,  *)
(* recovery by another worker, quarantine, and the usage ledger.           *)
(*                                                                         *)
(* Every repository method is one BEGIN IMMEDIATE transaction on a SQLite  *)
(* file shared by all workers, hence one atomic action.  What happens      *)
(* between two transactions of a worker (the creation request, the wait    *)
(* for its reply, the recovery query) is kept in the worker's memory,      *)
(* which a crash erases.                                                   *)
(*                                                                         *)
(* The jobs are controlled-fixture attempts without a saved browser        *)
(* context and without a reproduction candidate.  Time is abstracted to    *)
(* the two comparisons the code makes: whether lease_expires_at and        *)
(* recovery_after lie in the future.                                       *)
(***************************************************************************)
EXTENDS Integers, FiniteSets, FiniteSetsExt

CONSTANTS
  Jobs,               (* rowids of the jobs table, so a set of numbers     *)
  Runs, Owners,
  RunOf,              (* [Jobs -> Runs]                                    *)
  OwnerOf,            (* [Runs -> Owners]                                  *)
  Unsupported,        (* jobs whose criteria the claim refuses             *)
  Workers,            (* worker processes                                  *)
  Operator,           (* the worker:reconcile command                      *)
  NULL,
  GlobalConcurrency, OwnerConcurrency, RecoveryLimit,
  SessionSeconds,     (* reserved for each launch                          *)
  DevelopmentBudget, OwnerBudget, LifetimeLimit, Baseline,
  Durations,          (* billed durations the provider may measure         *)
  Outcomes,           (* results executePersona may return                 *)
  MaxFaults,          (* bound: crashes and stalls longer than a lease     *)
  MaxOperatorClaims   (* bound: operator reconciliations                   *)

TerminalStatuses ==
  {"infrastructure_failed", "limit_reached", "blocked", "target_failed",
   "gave_up", "cancelled", "succeeded"}

Holders == Workers \cup {Operator}
SecondsOrNull == Nat \cup {NULL}

(* CloudUsage, a remote_usage_observations row and a CloudRecoveryResult:  *)
(* whether the session is known to be over, and for how long it ran.       *)
UsageRecords ==
  [attempted : BOOLEAN, terminal : BOOLEAN, seconds : SecondsOrNull]
Observations == [charged : Nat, actual : SecondsOrNull, terminal : BOOLEAN]
RecoveryResults ==
  [seen : BOOLEAN, terminal : BOOLEAN, confirmed : BOOLEAN, seconds : SecondsOrNull]

ASSUME JobsAssumption == Jobs \subseteq Nat /\ IsFiniteSet(Jobs)
ASSUME OwnershipAssumption ==
  /\ RunOf \in [Jobs -> Runs]
  /\ OwnerOf \in [Runs -> Owners]
  /\ Unsupported \subseteq Jobs
  /\ \A r \in Runs : \E j \in Jobs : RunOf[j] = r
ASSUME NullAssumption ==
  NULL \notin Holders \cup Nat \cup UsageRecords \cup Observations \cup RecoveryResults
ASSUME PolicyAssumption ==
  /\ GlobalConcurrency \in Nat \ {0}
  /\ OwnerConcurrency \in Nat \ {0}
  /\ RecoveryLimit \in Nat \ {0}
  /\ SessionSeconds \in Nat \ {0}
  /\ DevelopmentBudget \in Nat /\ OwnerBudget \in Nat
  /\ LifetimeLimit \in Nat /\ Baseline \in Nat
ASSUME InputAssumption == Durations \subseteq Nat /\ Outcomes \subseteq TerminalStatuses
ASSUME BoundAssumption == MaxFaults \in Nat /\ MaxOperatorClaims \in Nat

VARIABLES
  (* the database *)
  job,            (* jobs.status                                           *)
  jobCancel,      (* jobs.cancel_requested_at is set                       *)
  leaseOwner,     (* jobs.lease_owner                                      *)
  generation,     (* jobs.lease_generation                                 *)
  leaseLive,      (* jobs.lease_expires_at lies in the future              *)
  launch,         (* launches.state, "none" when there is no row           *)
  sessionRef,     (* launches.session_reference is set                     *)
  recoveryCount,  (* launches.recovery_count                               *)
  backingOff,     (* launches.recovery_after lies in the future            *)
  attempt,        (* attempts.status                                       *)
  runStatus,      (* runs.status                                           *)
  runCancel,      (* runs.cancel_requested_at is set                       *)
  reserved, consumed, released,   (* the usage_reservations row            *)
  observation,    (* the remote_usage_observations row, NULL if none       *)
  recordedAttempt,   (* launches.usage says that an allocation was tried   *)
  finishedEvents, (* attempt.finished events appended for the attempt      *)
  runFinishedEvents, (* run.finished events appended for the run           *)
  (* the provider *)
  remote,         (* the session the job's creation request leads to       *)
  duration,       (* what the provider bills for it, NULL before it ends   *)
  creations,      (* creation requests sent for the job                    *)
  (* the memory of the workers *)
  launcher,       (* progress of the first claim of the job                *)
  launcherWorker, (* the worker and                                        *)
  launcherGeneration, (* the lease generation of that claim                *)
  usage,          (* CloudUsage of that execution, NULL until it closes    *)
  recoveries,     (* recovery claims being executed                        *)
  (* bounds *)
  faults, operatorClaims

leaseVars == <<job, jobCancel, leaseOwner, generation, leaseLive>>
launchVars == <<launch, sessionRef, recoveryCount, backingOff>>
runVars == <<runStatus, runCancel, runFinishedEvents>>
attemptVars == <<attempt, finishedEvents>>
ledgerVars == <<reserved, consumed, released, observation, recordedAttempt>>
providerVars == <<remote, duration, creations>>
claimVars == <<launcherWorker, launcherGeneration>>
launcherVars == <<launcher, claimVars, usage>>
boundVars == <<faults, operatorClaims>>
vars == <<leaseVars, launchVars, runVars, attemptVars, ledgerVars,
          providerVars, launcherVars, recoveries, boundVars>>
-----------------------------------------------------------------------------
Larger(a, b) == IF a >= b THEN a ELSE b

OwnerOfJob(j) == OwnerOf[RunOf[j]]

(* Faulty variant: a quarantined launch no longer counts. *)
OccupiedWithoutQuarantine == {j \in Jobs : launch[j] \notin {"none", "settled", "quarantined"}}
Occupied == {j \in Jobs : launch[j] \notin {"none", "settled"}}
OccupiedBy(o) == {j \in Occupied : OwnerOfJob(j) = o}

Committed(S) == MapThenSumSet(LAMBDA j : Larger(reserved[j] - released[j], consumed[j]), S)
Reserved(S) == MapThenSumSet(LAMBDA j : reserved[j], S)
JobsOfOwner(o) == {j \in Jobs : OwnerOfJob(j) = o}

(* Faulty variant: the fence compares the worker but not the generation. *)
HoldsLeaseOfAnyGeneration(j, w, g) == job[j] = "leased" /\ leaseOwner[j] = w /\ leaseLive[j]

(* The row assertLease looks up, cancellation aside.                       *)
HoldsLease(j, w, g) ==
  /\ job[j] = "leased"
  /\ leaseOwner[j] = w
  /\ generation[j] = g
  /\ leaseLive[j]

LauncherHolds(j) == HoldsLease(j, launcherWorker[j], launcherGeneration[j])

LauncherActive(j) == launcher[j] \notin {"idle", "gone"}
ActiveTasks(w) ==
  Cardinality({j \in Jobs : LauncherActive(j) /\ launcherWorker[j] = w})
    + Cardinality({t \in recoveries : t.worker = w})

(* Whether the task of the current generation is alive to send heartbeats. *)
HolderAlive(j) ==
  \/ LauncherActive(j) /\ generation[j] = launcherGeneration[j]
  \/ \E t \in recoveries : t.job = j /\ t.generation = generation[j]
-----------------------------------------------------------------------------
(* The order in which reconcile() looks for a run's outcome.               *)
Rank ==
  [infrastructure_failed |-> 1, limit_reached |-> 2, blocked |-> 3, target_failed |-> 4,
   gave_up |-> 5, cancelled |-> 6, succeeded |-> 7]

RunOutcome(r, attempts, cancel) ==
  LET statuses == {attempts[j] : j \in {i \in Jobs : RunOf[i] = r}}
  IN  IF cancel[r] /\ "infrastructure_failed" \notin statuses THEN "cancelled"
      ELSE CHOOSE s \in statuses : \A t \in statuses : Rank[s] <= Rank[t]

(* Runs of touched whose attempts have all ended.                          *)
Complete(touched, attempts) ==
  {r \in touched : \A j \in Jobs : RunOf[j] = r => attempts[j] \in TerminalStatuses}

Reconcile(touched, base, attempts, cancel) ==
  LET complete == Complete(touched, attempts)
  IN  /\ runStatus' = [r \in Runs |-> IF r \in complete THEN RunOutcome(r, attempts, cancel)
                                      ELSE base[r]]
      /\ runFinishedEvents' = [r \in Runs |-> runFinishedEvents[r] +
                                              (IF r \in complete THEN 1 ELSE 0)]

EndStatus(j, outcome) ==
  IF attempt[j] \in TerminalStatuses THEN attempt[j]
  ELSE IF (runCancel[RunOf[j]] \/ jobCancel[j]) /\ outcome # "infrastructure_failed"
       THEN "cancelled" ELSE outcome

(* Whether end() closes the attempt, rather than a launch of an attempt    *)
(* that has ended already.                                                 *)
EndsAttempt(j) == attempt[j] \notin TerminalStatuses

(* end(): the outcome of a terminal attempt is kept, and no event is       *)
(* appended for it again.                                                  *)
End(j, outcome) ==
  LET status == EndStatus(j, outcome)
  IN  /\ attempt' = [attempt EXCEPT ![j] = status]
      /\ job' = [job EXCEPT ![j] = IF status = "cancelled" THEN "cancelled" ELSE "completed"]
      /\ leaseOwner' = [leaseOwner EXCEPT ![j] = NULL]
      /\ leaseLive' = [leaseLive EXCEPT ![j] = FALSE]
      /\ IF EndsAttempt(j)
         THEN /\ finishedEvents' = [finishedEvents EXCEPT ![j] = @ + 1]
              /\ Reconcile({RunOf[j]}, runStatus, attempt', runCancel)
         ELSE UNCHANGED <<finishedEvents, runStatus, runFinishedEvents>>

(* The launch state once the recoveries are used up.  Faulty variant: the  *)
(* launch is written off, which frees its slot.                            *)
WrittenOff == "settled"
ExhaustedState == "quarantined"

RecoveryExhausted(j) == recoveryCount[j] + 1 >= RecoveryLimit

(* deferRecovery(): retry after a back-off, or quarantine at the limit.    *)
DeferRecovery(j) ==
  /\ recoveryCount' = [recoveryCount EXCEPT ![j] = @ + 1]
  /\ IF RecoveryExhausted(j)
     THEN /\ launch' = [launch EXCEPT ![j] = ExhaustedState]
          /\ UNCHANGED backingOff
          /\ End(j, "infrastructure_failed")
     ELSE /\ launch' = [launch EXCEPT ![j] = "recovering"]
          /\ backingOff' = [backingOff EXCEPT ![j] = TRUE]
          /\ leaseLive' = [leaseLive EXCEPT ![j] = FALSE]
          /\ UNCHANGED <<job, leaseOwner, attempt, finishedEvents, runStatus, runFinishedEvents>>
-----------------------------------------------------------------------------
(* observeCharge(): the monotone per-session record.  A session without a  *)
(* measured duration is charged its whole reservation.                     *)
Observe(j, seconds, terminal) ==
  LET old == observation[j]
      charge == IF seconds = NULL THEN SessionSeconds ELSE seconds
  IN  IF old = NULL THEN [charged |-> charge, actual |-> seconds, terminal |-> terminal]
      ELSE [charged |-> Larger(old.charged,
                          IF seconds = NULL /\ old.actual # NULL THEN old.actual ELSE charge),
            actual |-> IF seconds = NULL THEN old.actual
                       ELSE IF old.actual = NULL THEN seconds ELSE Larger(old.actual, seconds),
            terminal |-> old.terminal \/ terminal]

(* Faulty variant: an uncertain launch is refunded too. *)
RefundAlways(j, used, confirmed) == Larger(0, reserved[j] - used)
Refund(j, used, confirmed) == IF confirmed THEN Larger(0, reserved[j] - used) ELSE 0

(* settle(): consumption only grows; the rest of the reservation is        *)
(* released only when the session is confirmed over.                       *)
Settle(j, seconds, confirmed, charge) ==
  LET billed == IF seconds # NULL THEN seconds ELSE IF confirmed THEN SessionSeconds ELSE 0
      used == Larger(consumed[j], Larger(billed, charge))
  IN  /\ consumed' = [consumed EXCEPT ![j] = used]
      /\ released' = [released EXCEPT ![j] = Refund(j, used, confirmed)]
      /\ UNCHANGED reserved

(* The launch row after settle(), with the retry or end that follows.      *)
SettleLaunch(j, confirmed, outcome) ==
  IF confirmed
  THEN /\ launch' = [launch EXCEPT ![j] = "settled"]
       /\ UNCHANGED <<recoveryCount, backingOff>>
       /\ End(j, outcome)
  ELSE DeferRecovery(j)
-----------------------------------------------------------------------------
Acquire(j, w) ==
  /\ job' = [job EXCEPT ![j] = "leased"]
  /\ leaseOwner' = [leaseOwner EXCEPT ![j] = w]
  /\ generation' = [generation EXCEPT ![j] = @ + 1]
  /\ leaseLive' = [leaseLive EXCEPT ![j] = TRUE]

StartRecovery(j, w) ==
  /\ Acquire(j, w)
  /\ launch' = [launch EXCEPT ![j] = "recovering"]
  /\ recoveries' = recoveries \cup
       {[job |-> j, worker |-> w, generation |-> generation[j] + 1, result |-> NULL]}

(* A worker's run loop claims only while it executes fewer tasks than the  *)
(* global ceiling.                                                         *)
MayClaim(w) == ActiveTasks(w) < GlobalConcurrency

(* Faulty variant: a launch whose recovery failed once is not retried. *)
ExpiredOnce ==
  {j \in Jobs : job[j] = "leased" /\ ~leaseLive[j] /\ launch[j] \in {"intent", "active"}}
Expired ==
  {j \in Jobs : /\ job[j] = "leased" /\ ~leaseLive[j]
                /\ launch[j] \notin {"none", "settled", "quarantined"}
                /\ ~backingOff[j]}

(* claim() first takes over the oldest expired lease.                      *)
ClaimExpired(w, j) ==
  /\ MayClaim(w)
  /\ j \in Expired
  /\ \A i \in Expired : j <= i
  /\ StartRecovery(j, w)
  /\ UNCHANGED <<jobCancel, sessionRef, recoveryCount, backingOff, runVars, attemptVars,
                 ledgerVars, providerVars, launcherVars, boundVars>>

(* The queued rows the claim selects, in rowid order.                      *)
Selected ==
  {j \in Jobs : /\ job[j] = "queued" /\ ~jobCancel[j]
                /\ Cardinality(OccupiedBy(OwnerOfJob(j))) < OwnerConcurrency}

GlobalFull == Cardinality(Occupied) >= GlobalConcurrency

BudgetExhausted(o) ==
  \/ Committed(Jobs) + Baseline + SessionSeconds > DevelopmentBudget
  \/ Committed(JobsOfOwner(o)) + SessionSeconds > OwnerBudget
  \/ Reserved(Jobs) + SessionSeconds > LifetimeLimit

(* The loop ends at the first supported row: with a claim, or with null    *)
(* when every slot is taken.  The rows before it are refused.              *)
EndsScan(j) == j \notin Unsupported /\ (GlobalFull \/ ~BudgetExhausted(OwnerOfJob(j)))
Refused == {j \in Selected : \A s \in Selected : EndsScan(s) => j < s}
RefusalStatus(j) == IF j \in Unsupported THEN "blocked" ELSE "limit_reached"

(* endQueued() for every refused row of the transaction.                   *)
AfterRefusal == [j \in Jobs |-> IF j \in Refused THEN RefusalStatus(j) ELSE attempt[j]]
RefuseJobs(status) == [j \in Jobs |-> IF j \in Refused THEN "completed" ELSE status[j]]
CountRefusals ==
  finishedEvents' = [j \in Jobs |-> finishedEvents[j] + (IF j \in Refused THEN 1 ELSE 0)]
RunsRefused == {RunOf[j] : j \in Refused}

ClaimQueued(w, j) ==
  /\ MayClaim(w)
  /\ Expired = {}
  /\ j \in Selected /\ EndsScan(j) /\ ~GlobalFull
  /\ \A s \in Selected : EndsScan(s) => j <= s
  /\ reserved' = [reserved EXCEPT ![j] = SessionSeconds]
  /\ launch' = [launch EXCEPT ![j] = "intent"]
  /\ attempt' = [AfterRefusal EXCEPT ![j] = "running"]
  /\ job' = [RefuseJobs(job) EXCEPT ![j] = "leased"]
  /\ leaseOwner' = [leaseOwner EXCEPT ![j] = w]
  /\ generation' = [generation EXCEPT ![j] = @ + 1]
  /\ leaseLive' = [leaseLive EXCEPT ![j] = TRUE]
  /\ CountRefusals
  /\ Reconcile(RunsRefused, [runStatus EXCEPT ![RunOf[j]] = "running"], attempt', runCancel)
  /\ launcher' = [launcher EXCEPT ![j] = "claimed"]
  /\ launcherWorker' = [launcherWorker EXCEPT ![j] = w]
  /\ launcherGeneration' = [launcherGeneration EXCEPT ![j] = generation[j] + 1]
  /\ UNCHANGED <<jobCancel, sessionRef, recoveryCount, backingOff, runCancel, consumed, released,
                 observation, recordedAttempt, providerVars, usage, recoveries, boundVars>>

(* A claim that refuses rows and returns null.                             *)
RefuseQueued(w) ==
  /\ MayClaim(w)
  /\ Expired = {}
  /\ Refused # {}
  /\ \A s \in Selected : EndsScan(s) => GlobalFull
  /\ attempt' = AfterRefusal
  /\ job' = RefuseJobs(job)
  /\ CountRefusals
  /\ Reconcile(RunsRefused, runStatus, attempt', runCancel)
  /\ UNCHANGED <<jobCancel, leaseOwner, generation, leaseLive, launchVars, runCancel, ledgerVars,
                 providerVars, launcherVars, recoveries, boundVars>>
-----------------------------------------------------------------------------
(* The execution of a first claim.                                         *)

(* The last assertActive() and the creation POST are one synchronous step; *)
(* the request is then on its way.                                         *)
RequestBrowser(j) ==
  /\ launcher[j] = "claimed"
  /\ LauncherHolds(j) /\ ~jobCancel[j]
  /\ launcher' = [launcher EXCEPT ![j] = "requested"]
  /\ remote' = [remote EXCEPT ![j] = "requested"]
  /\ creations' = [creations EXCEPT ![j] = @ + 1]
  /\ UNCHANGED <<leaseVars, launchVars, runVars, attemptVars, ledgerVars, duration,
                 claimVars, usage, recoveries, boundVars>>

(* The execution ends before the creation request: allocationAttempted is  *)
(* false.                                                                  *)
FailBeforeRequest(j) ==
  /\ launcher[j] = "claimed"
  /\ launcher' = [launcher EXCEPT ![j] = "closed"]
  /\ usage' = [usage EXCEPT ![j] = [attempted |-> FALSE, terminal |-> FALSE, seconds |-> NULL]]
  /\ UNCHANGED <<leaseVars, launchVars, runVars, attemptVars, ledgerVars, providerVars,
                 claimVars, recoveries, boundVars>>

ReceiveReply(j) ==
  /\ launcher[j] = "requested"
  /\ remote[j] \in {"running", "terminal"}
  /\ launcher' = [launcher EXCEPT ![j] = "allocated"]
  /\ UNCHANGED <<leaseVars, launchVars, runVars, attemptVars, ledgerVars, providerVars,
                 claimVars, usage, recoveries, boundVars>>

(* A timeout, an error status or a lost reply: no session id is known.     *)
LoseReply(j) ==
  /\ launcher[j] = "requested"
  /\ launcher' = [launcher EXCEPT ![j] = "closed"]
  /\ usage' = [usage EXCEPT ![j] = [attempted |-> TRUE, terminal |-> FALSE, seconds |-> NULL]]
  /\ UNCHANGED <<leaseVars, launchVars, runVars, attemptVars, ledgerVars, providerVars,
                 claimVars, recoveries, boundVars>>

(* sessionReference(): the id is stored even after a cancellation, never   *)
(* after the lease is lost.                                                *)
SaveReference(j) ==
  /\ launcher[j] = "allocated"
  /\ LauncherHolds(j)
  /\ sessionRef' = [sessionRef EXCEPT ![j] = TRUE]
  /\ launch' = [launch EXCEPT ![j] = "active"]
  /\ launcher' = [launcher EXCEPT ![j] = "running"]
  /\ UNCHANGED <<leaseVars, recoveryCount, backingOff, runVars, attemptVars, ledgerVars,
                 providerVars, claimVars, usage, recoveries, boundVars>>

(* A release request takes effect, with some billed duration.              *)
Terminate(j, d) ==
  /\ remote' = [remote EXCEPT ![j] = "terminal"]
  /\ duration' = [duration EXCEPT ![j] = d]

(* close(): the session's release is requested and its status read back.   *)
(* The read may fail, and may lack the end time.  An execution whose       *)
(* reference could not be stored closes too.                               *)
CloseBrowser(j) ==
  /\ launcher[j] \in {"allocated", "running"}
  /\ \/ remote[j] = "running" /\ \E d \in Durations : Terminate(j, d)
     \/ UNCHANGED <<remote, duration>>
  /\ \E terminal \in BOOLEAN, seconds \in {duration'[j], NULL} :
       /\ terminal => remote'[j] = "terminal"
       /\ seconds # NULL => terminal
       /\ usage' = [usage EXCEPT ![j] =
                      [attempted |-> TRUE, terminal |-> terminal, seconds |-> seconds]]
  /\ launcher' = [launcher EXCEPT ![j] = "closed"]
  /\ UNCHANGED <<leaseVars, launchVars, runVars, attemptVars, ledgerVars, creations,
                 claimVars, recoveries, boundVars>>

(* What the execution may report: a failed startup or cleanup, an aborted  *)
(* startup, or with a browser any result of the persona loop.              *)
ResultsOf(u) ==
  {"cancelled", "infrastructure_failed"} \cup (IF u.attempted THEN Outcomes ELSE {})

(* finish() refuses "never attempted" against evidence of an allocation.   *)
Contradictory(j) ==
  ~usage[j].attempted /\ (\/ sessionRef[j] \/ recordedAttempt[j]
                          \/ consumed[j] > 0 \/ observation[j] # NULL)

Finish(j) ==
  LET u == usage[j]
      confirmed == ~u.attempted \/ u.terminal
      seconds == IF u.attempted THEN u.seconds ELSE 0
  IN  /\ launcher[j] = "closed"
      /\ LauncherHolds(j) /\ ~Contradictory(j)
      /\ observation' = [observation EXCEPT ![j] =
           IF sessionRef[j] /\ (u.seconds # NULL \/ confirmed)
           THEN Observe(j, u.seconds, u.terminal) ELSE @]
      /\ recordedAttempt' = [recordedAttempt EXCEPT ![j] = u.attempted]
      /\ Settle(j, seconds, confirmed, 0)
      /\ \E outcome \in ResultsOf(u) : SettleLaunch(j, confirmed, outcome)
      /\ launcher' = [launcher EXCEPT ![j] = "gone"]
      /\ UNCHANGED <<jobCancel, generation, sessionRef, runCancel, providerVars,
                     claimVars, usage, recoveries, boundVars>>

(* The lease is gone: the execution returns and leaves the row to recovery. *)
FinishFenced(j) ==
  /\ launcher[j] = "closed"
  /\ ~LauncherHolds(j) \/ Contradictory(j)
  /\ launcher' = [launcher EXCEPT ![j] = "gone"]
  /\ UNCHANGED <<leaseVars, launchVars, runVars, attemptVars, ledgerVars, providerVars,
                 claimVars, usage, recoveries, boundVars>>
-----------------------------------------------------------------------------
(* The execution of a recovery claim.                                      *)

(* Whether a recovery settles: an empty answer is no proof.                *)
ProvenOver(found, observed) ==
  found.confirmed /\ found.seen /\ found.terminal /\ observed.terminal

NothingFound == [seen |-> FALSE, terminal |-> FALSE, confirmed |-> FALSE, seconds |-> NULL]

(* The provider query: the metadata search may lag or fail and find        *)
(* nothing; a session it finds is asked to stop and read back.             *)
QueryProvider(t) ==
  /\ t.result = NULL
  /\ \/ /\ recoveries' = (recoveries \ {t}) \cup {[t EXCEPT !.result = NothingFound]}
        /\ UNCHANGED <<remote, duration>>
     \/ /\ remote[t.job] \in {"running", "terminal"}
        /\ \/ remote[t.job] = "running" /\ \E d \in Durations : Terminate(t.job, d)
           \/ UNCHANGED <<remote, duration>>
        /\ \E terminal, confirmed \in BOOLEAN, seconds \in {duration'[t.job], NULL} :
             /\ terminal => remote'[t.job] = "terminal"
             /\ seconds # NULL \/ confirmed => terminal
             /\ recoveries' = (recoveries \ {t}) \cup
                  {[t EXCEPT !.result = [seen |-> TRUE, terminal |-> terminal,
                                         confirmed |-> confirmed, seconds |-> seconds]]}
  /\ UNCHANGED <<leaseVars, launchVars, runVars, attemptVars, ledgerVars, creations,
                 launcherVars, boundVars>>

(* recover(): record the charges, then settle or retry later.              *)
Recover(t) ==
  LET j == t.job
      found == t.result
      observed == IF found.seen THEN Observe(j, found.seconds, found.terminal) ELSE observation[j]
      confirmed == ProvenOver(found, observed)
      charge == IF observed = NULL THEN 0 ELSE observed.charged
      seconds == IF observed = NULL THEN NULL ELSE observed.actual
  IN  /\ t.result # NULL
      /\ HoldsLease(j, t.worker, t.generation)
      /\ observation' = [observation EXCEPT ![j] = observed]
      /\ Settle(j, seconds, confirmed, charge)
      /\ SettleLaunch(j, confirmed, "infrastructure_failed")
      /\ recoveries' = recoveries \ {t}
      /\ UNCHANGED <<jobCancel, generation, sessionRef, runCancel, recordedAttempt, providerVars,
                     launcherVars, boundVars>>

RecoverFenced(t) ==
  /\ t.result # NULL
  /\ ~HoldsLease(t.job, t.worker, t.generation)
  /\ recoveries' = recoveries \ {t}
  /\ UNCHANGED <<leaseVars, launchVars, runVars, attemptVars, ledgerVars, providerVars,
                 launcherVars, boundVars>>

(* claimQuarantined(): the operator reopens one quarantined launch.        *)
ClaimQuarantined(j) ==
  /\ operatorClaims < MaxOperatorClaims
  /\ launch[j] = "quarantined"
  /\ recoveryCount' = [recoveryCount EXCEPT ![j] = 0]
  /\ backingOff' = [backingOff EXCEPT ![j] = FALSE]
  /\ StartRecovery(j, Operator)
  /\ operatorClaims' = operatorClaims + 1
  /\ UNCHANGED <<jobCancel, sessionRef, runVars, attemptVars, ledgerVars, providerVars,
                 launcherVars, faults>>
-----------------------------------------------------------------------------
(* The attempts a cancellation ends. *)
QueuedOfRun(r) == {j \in Jobs : RunOf[j] = r /\ attempt[j] = "queued"}

(* cancelRun(): queued attempts end at once, running ones are told.        *)
CancelRun(r) ==
  LET mine == {j \in Jobs : RunOf[j] = r}
      queued == QueuedOfRun(r)
  IN  /\ ~runCancel[r] /\ runStatus[r] \notin TerminalStatuses
      /\ runCancel' = [runCancel EXCEPT ![r] = TRUE]
      /\ jobCancel' = [j \in Jobs |-> jobCancel[j] \/ (j \in mine /\ job[j] \in {"queued", "leased"})]
      /\ attempt' = [j \in Jobs |-> IF j \in queued THEN "cancelled" ELSE attempt[j]]
      /\ job' = [j \in Jobs |-> IF j \in queued THEN "cancelled" ELSE job[j]]
      /\ finishedEvents' = [j \in Jobs |-> finishedEvents[j] + (IF j \in queued THEN 1 ELSE 0)]
      /\ Reconcile({r}, runStatus, attempt', runCancel')
      /\ UNCHANGED <<leaseOwner, generation, leaseLive, launchVars, ledgerVars, providerVars,
                     launcherVars, recoveries, boundVars>>
-----------------------------------------------------------------------------
(* The provider and the passage of time.                                   *)
ProviderCreates(j) ==
  /\ remote[j] = "requested"
  /\ remote' = [remote EXCEPT ![j] = "running"]
  /\ UNCHANGED <<leaseVars, launchVars, runVars, attemptVars, ledgerVars, duration, creations,
                 launcherVars, recoveries, boundVars>>

ProviderRejects(j) ==
  /\ remote[j] = "requested"
  /\ remote' = [remote EXCEPT ![j] = "rejected"]
  /\ UNCHANGED <<leaseVars, launchVars, runVars, attemptVars, ledgerVars, duration, creations,
                 launcherVars, recoveries, boundVars>>

(* The session's own timeout.                                              *)
ProviderStops(j) ==
  /\ remote[j] = "running"
  /\ \E d \in Durations : Terminate(j, d)
  /\ UNCHANGED <<leaseVars, launchVars, runVars, attemptVars, ledgerVars, creations,
                 launcherVars, recoveries, boundVars>>

(* A lease nobody renews runs out.                                         *)
LeaseExpires(j) ==
  /\ leaseLive[j] /\ ~HolderAlive(j)
  /\ leaseLive' = [leaseLive EXCEPT ![j] = FALSE]
  /\ UNCHANGED <<job, jobCancel, leaseOwner, generation, launchVars, runVars, attemptVars,
                 ledgerVars, providerVars, launcherVars, recoveries, boundVars>>

(* The holder stalls for longer than its lease, and then goes on.          *)
HolderStalls(j) ==
  /\ faults < MaxFaults
  /\ leaseLive[j] /\ HolderAlive(j)
  /\ leaseLive' = [leaseLive EXCEPT ![j] = FALSE]
  /\ faults' = faults + 1
  /\ UNCHANGED <<job, jobCancel, leaseOwner, generation, launchVars, runVars, attemptVars,
                 ledgerVars, providerVars, launcherVars, recoveries, operatorClaims>>

BackOffEnds(j) ==
  /\ backingOff[j]
  /\ backingOff' = [backingOff EXCEPT ![j] = FALSE]
  /\ UNCHANGED <<leaseVars, launch, sessionRef, recoveryCount, runVars, attemptVars, ledgerVars,
                 providerVars, launcherVars, recoveries, boundVars>>

(* A process dies with everything it held in memory, and is restarted.     *)
Crash(w) ==
  /\ faults < MaxFaults
  /\ \/ \E j \in Jobs : LauncherActive(j) /\ launcherWorker[j] = w
     \/ \E t \in recoveries : t.worker = w
  /\ launcher' = [j \in Jobs |-> IF LauncherActive(j) /\ launcherWorker[j] = w
                                 THEN "gone" ELSE launcher[j]]
  /\ recoveries' = {t \in recoveries : t.worker # w}
  /\ faults' = faults + 1
  /\ UNCHANGED <<leaseVars, launchVars, runVars, attemptVars, ledgerVars, providerVars,
                 claimVars, usage, operatorClaims>>
-----------------------------------------------------------------------------
Init ==
  /\ job = [j \in Jobs |-> "queued"]
  /\ jobCancel = [j \in Jobs |-> FALSE]
  /\ leaseOwner = [j \in Jobs |-> NULL]
  /\ generation = [j \in Jobs |-> 0]
  /\ leaseLive = [j \in Jobs |-> FALSE]
  /\ launch = [j \in Jobs |-> "none"]
  /\ sessionRef = [j \in Jobs |-> FALSE]
  /\ recoveryCount = [j \in Jobs |-> 0]
  /\ backingOff = [j \in Jobs |-> FALSE]
  /\ attempt = [j \in Jobs |-> "queued"]
  /\ runStatus = [r \in Runs |-> "queued"]
  /\ runCancel = [r \in Runs |-> FALSE]
  /\ reserved = [j \in Jobs |-> 0]
  /\ consumed = [j \in Jobs |-> 0]
  /\ released = [j \in Jobs |-> 0]
  /\ observation = [j \in Jobs |-> NULL]
  /\ recordedAttempt = [j \in Jobs |-> FALSE]
  /\ finishedEvents = [j \in Jobs |-> 0]
  /\ runFinishedEvents = [r \in Runs |-> 0]
  /\ remote = [j \in Jobs |-> "none"]
  /\ duration = [j \in Jobs |-> NULL]
  /\ creations = [j \in Jobs |-> 0]
  /\ launcher = [j \in Jobs |-> "idle"]
  /\ launcherWorker = [j \in Jobs |-> NULL]
  /\ launcherGeneration = [j \in Jobs |-> 0]
  /\ usage = [j \in Jobs |-> NULL]
  /\ recoveries = {}
  /\ faults = 0
  /\ operatorClaims = 0

LauncherStep(j) ==
  \/ RequestBrowser(j) \/ FailBeforeRequest(j) \/ ReceiveReply(j) \/ LoseReply(j)
  \/ SaveReference(j) \/ CloseBrowser(j) \/ Finish(j) \/ FinishFenced(j)
RecoveryStep(t) == QueryProvider(t) \/ Recover(t) \/ RecoverFenced(t)
ProviderStep(j) == ProviderCreates(j) \/ ProviderRejects(j) \/ ProviderStops(j)
TimeStep(j) == LeaseExpires(j) \/ HolderStalls(j) \/ BackOffEnds(j)

Next ==
  \/ \E w \in Workers : RefuseQueued(w) \/ \E j \in Jobs : ClaimExpired(w, j) \/ ClaimQueued(w, j)
  \/ \E j \in Jobs : LauncherStep(j) \/ ProviderStep(j) \/ TimeStep(j) \/ ClaimQuarantined(j)
  \/ \E t \in recoveries : RecoveryStep(t)
  \/ \E r \in Runs : CancelRun(r)
  \/ \E w \in Holders : Crash(w)

Spec == Init /\ [][Next]_vars

(* A worker that runs keeps claiming and its tasks end: every await in     *)
(* them is bounded.  Nothing is assumed of creation, of the operator or of *)
(* cancellation.                                                           *)
Fairness ==
  /\ \A w \in Workers : WF_vars(\E j \in Jobs : ClaimExpired(w, j))
  /\ \A j \in Jobs : /\ WF_vars(LauncherStep(j))
                     /\ WF_vars(LeaseExpires(j))
                     /\ WF_vars(BackOffEnds(j))
                     /\ WF_vars(\E t \in recoveries : t.job = j /\ RecoveryStep(t))

FairSpec == Spec /\ Fairness
-----------------------------------------------------------------------------
RecoveryClaims ==
  [job : Jobs, worker : Holders, generation : Nat, result : RecoveryResults \cup {NULL}]

(* Every column holds a value of its schema: in particular a refund is     *)
(* never negative, whatever an overrun costs (settle()).                   *)
TypeOK ==
  /\ job \in [Jobs -> {"queued", "leased", "completed", "cancelled"}]
  /\ jobCancel \in [Jobs -> BOOLEAN]
  /\ leaseOwner \in [Jobs -> Holders \cup {NULL}]
  /\ generation \in [Jobs -> Nat]
  /\ leaseLive \in [Jobs -> BOOLEAN]
  /\ launch \in [Jobs -> {"none", "intent", "active", "recovering", "settled", "quarantined"}]
  /\ sessionRef \in [Jobs -> BOOLEAN]
  /\ recoveryCount \in [Jobs -> Nat]
  /\ backingOff \in [Jobs -> BOOLEAN]
  /\ attempt \in [Jobs -> {"queued", "running"} \cup TerminalStatuses]
  /\ runStatus \in [Runs -> {"queued", "running"} \cup TerminalStatuses]
  /\ runCancel \in [Runs -> BOOLEAN]
  /\ reserved \in [Jobs -> Nat] /\ consumed \in [Jobs -> Nat] /\ released \in [Jobs -> Nat]
  /\ observation \in [Jobs -> Observations \cup {NULL}]
  /\ recordedAttempt \in [Jobs -> BOOLEAN]
  /\ finishedEvents \in [Jobs -> Nat] /\ runFinishedEvents \in [Runs -> Nat]
  /\ remote \in [Jobs -> {"none", "requested", "running", "terminal", "rejected"}]
  /\ duration \in [Jobs -> SecondsOrNull]
  /\ creations \in [Jobs -> Nat]
  /\ launcher \in [Jobs -> {"idle", "claimed", "requested", "allocated", "running", "closed", "gone"}]
  /\ launcherWorker \in [Jobs -> Workers \cup {NULL}]
  /\ launcherGeneration \in [Jobs -> Nat]
  /\ usage \in [Jobs -> UsageRecords \cup {NULL}]
  /\ recoveries \subseteq RecoveryClaims
  /\ faults \in Nat /\ operatorClaims \in Nat

MayRun(j) == remote[j] \in {"requested", "running"}

(* A browser that may be running keeps its job's slot: no crash, lost      *)
(* reply, empty metadata answer or operator command frees it (finish(),    *)
(* recover(), deferRecovery(), claimQuarantined()).                        *)
BrowserHoldsSlot == \A j \in Jobs : MayRun(j) => launch[j] \notin {"none", "settled"}

(* Browsers that may be running never exceed the global and owner ceilings *)
(* claim() admits under.                                                   *)
BrowsersBounded ==
  /\ Cardinality({j \in Jobs : MayRun(j)}) <= GlobalConcurrency
  /\ \A o \in Owners :
       Cardinality({j \in JobsOfOwner(o) : MayRun(j)}) <= OwnerConcurrency

(* A job asks for a browser at most once: a later lease holder recovers    *)
(* and never launches again (claim(), executeClaim()).                     *)
OneBrowserPerJob == \A j \in Jobs : creations[j] <= 1

(* Once a second lease was granted the attempt cannot end as anything but  *)
(* an infrastructure failure, whatever its first holder still reports      *)
(* (assertLease(), recover()).                                             *)
RecoveredAttemptsFail ==
  \A j \in Jobs : generation[j] > 1 => attempt[j] \in {"running", "infrastructure_failed"}

(* The ledger never undercounts: an open launch keeps its reservation, a   *)
(* settled one has consumed the billed time, up to the reservation when    *)
(* the provider never told the duration (observeCharge(), settle()).       *)
LedgerCoversBrowser ==
  \A j \in Jobs :
    /\ launch[j] \notin {"none", "settled"} => reserved[j] = SessionSeconds /\ released[j] = 0
    /\ launch[j] = "settled" /\ remote[j] = "terminal"
         => consumed[j] >= Min({duration[j], SessionSeconds})

(* What ended, ended once: one attempt.finished for each attempt that has  *)
(* an outcome and one run.finished for each run, although executions,      *)
(* recoveries and cancellations of its attempts reach end() and            *)
(* reconcile() in any order (end(), endQueued(), cancelRun()).             *)
Ended(j) == attempt[j] \in TerminalStatuses
RunEnded(r) == runStatus[r] \in TerminalStatuses
EndsOnce ==
  /\ \A j \in Jobs : finishedEvents[j] = IF Ended(j) THEN 1 ELSE 0
  /\ \A r \in Runs : runFinishedEvents[r] = IF RunEnded(r) THEN 1 ELSE 0

(* A run has ended exactly when its attempts have, with the outcome that   *)
(* the rows still give when they are read again (reconcile()).             *)
RunsFollowAttempts ==
  \A r \in Runs :
    /\ RunEnded(r) <=> \A j \in Jobs : RunOf[j] = r => Ended(j)
    /\ RunEnded(r) => runStatus[r] = RunOutcome(r, attempt, runCancel)

(* What was reported stands: no late report, recovery, operator or         *)
(* cancellation changes the outcome of an attempt or of a run that has     *)
(* one (end(), cancelRun()).                                               *)
OutcomesStand ==
  [][/\ \A j \in Jobs : Ended(j) => attempt'[j] = attempt[j]
     /\ \A r \in Runs : RunEnded(r) => runStatus'[r] = runStatus[r] /\ runCancel'[r] = runCancel[r]]_vars

(* No launch is left to nobody: an open one is leased, waits for its       *)
(* back-off, or is what the next claim takes over; it is quarantined only  *)
(* with its attempt ended, after as many recoveries as the policy allows   *)
(* (claim(), deferRecovery()).                                             *)
NobodyIsStranded ==
  \A j \in Jobs :
    /\ launch[j] \in {"intent", "active", "recovering"}
         => leaseLive[j] \/ backingOff[j] \/ j \in Expired
    /\ launch[j] = "quarantined"
         => attempt[j] = "infrastructure_failed" /\ recoveryCount[j] >= RecoveryLimit

(* Money only moves one way: consumption and the observed charge never     *)
(* fall, no refund precedes the settlement, and the records of a settled   *)
(* launch are closed (observeCharge(), settle()).                          *)
LedgerOnlyGrows ==
  [][\A j \in Jobs :
       /\ consumed'[j] >= consumed[j]
       /\ observation[j] # NULL =>
            observation'[j] # NULL /\ observation'[j].charged >= observation[j].charged
       /\ released'[j] # released[j] => launch'[j] = "settled"
       /\ launch[j] = "settled" =>
            /\ launch'[j] = "settled" /\ reserved'[j] = reserved[j]
            /\ consumed'[j] = consumed[j] /\ released'[j] = released[j]
            /\ observation'[j] = observation[j] /\ recordedAttempt'[j] = recordedAttempt[j]]_vars

(* The inductive invariant behind the safety properties.  A row is leased  *)
(* only while its launch is open, and to its first holder only while the   *)
(* attempt runs.                                                           *)
RowConsistent(j) ==
  /\ attempt[j] = "queued" <=> job[j] = "queued"
  /\ job[j] = "queued" => launch[j] = "none"
  /\ job[j] = "leased" => launch[j] \in {"intent", "active", "recovering"}
  /\ job[j] = "leased" /\ generation[j] <= 1 => attempt[j] = "running"
  /\ launch[j] = "quarantined" => attempt[j] = "infrastructure_failed"
  /\ launch[j] = "none" <=> launcher[j] = "idle"
  /\ launch[j] = "none" <=> generation[j] = 0

(* Only the first lease launches, and it asks for a browser once; what it  *)
(* reports of that browser is true.                                        *)
LauncherConsistent(j) ==
  /\ launcher[j] # "idle" => launcherGeneration[j] = 1
  /\ launcher[j] \in {"idle", "claimed"} => remote[j] = "none" /\ creations[j] = 0
  /\ launcher[j] = "closed" =>
       /\ usage[j] # NULL
       /\ ~usage[j].attempted => remote[j] = "none"
       /\ usage[j].terminal => remote[j] = "terminal"

(* What a recovery holds as proof of an end was read from the provider.    *)
RecoveryConsistent(t) ==
  t.result # NULL /\ t.result.terminal => remote[t.job] = "terminal"

(* Rows, executions and recoveries agree on what the job's browser may be  *)
(* doing (claim(), finish(), recover(), claimQuarantined()).               *)
Consistent ==
  /\ \A j \in Jobs : RowConsistent(j) /\ LauncherConsistent(j)
  /\ \A t \in recoveries : RecoveryConsistent(t)
  /\ BrowserHoldsSlot /\ OneBrowserPerJob /\ RecoveredAttemptsFail

(* The protocol implements PaidSlot.                                       *)
SlotOf(j) ==
  IF launch[j] = "none" THEN "free" ELSE IF launch[j] = "settled" THEN "released" ELSE "held"
BrowserOf(j) ==
  IF remote[j] = "none" THEN "never" ELSE IF MayRun(j) THEN "possible" ELSE "gone"
Slots ==
  INSTANCE PaidSlot WITH slot <- [j \in Jobs |-> SlotOf(j)],
                         browser <- [j \in Jobs |-> BrowserOf(j)]
ImplementsPaidSlot == Slots!Spec

(* Every launch is eventually settled or left to the operator, with the    *)
(* attempt ended (run(), executeClaim(), deferRecovery()).                 *)
LaunchesResolve ==
  \A j \in Jobs :
    launch[j] # "none" ~> /\ launch[j] \in {"settled", "quarantined"}
                         /\ attempt[j] \in TerminalStatuses
=============================================================================
