------------------------- MODULE WorkerLeaseProofs -------------------------
(***************************************************************************)
(* Proofs about WorkerLease and WorkerFallback, for any number of jobs,    *)
(* runs, owners and workers and every value of the policy.                 *)
(***************************************************************************)
EXTENDS WorkerFallback, FiniteSetTheorems, TLAPS

Statuses == {"queued", "running"} \cup TerminalStatuses

(* The outcome reconcile() finds is one of the attempts' outcomes: among   *)
(* finitely many ranks there is a first.                                   *)
LEMMA RunOutcomeType ==
  ASSUME NEW attempts, NEW cancel, NEW r,
         \A j \in Jobs : RunOf[j] = r => attempts[j] \in TerminalStatuses,
         \E j \in Jobs : RunOf[j] = r
  PROVE  RunOutcome(r, attempts, cancel) \in TerminalStatuses
PROOF
<1> DEFINE S == {attempts[j] : j \in {i \in Jobs : RunOf[i] = r}}
<1>1. S \subseteq TerminalStatuses /\ S # {}
  OBVIOUS
<1>2. \E s \in S : \A t \in S : Rank[s] <= Rank[t]
  <2> HIDE DEF S
  <2>1. \A s \in TerminalStatuses : Rank[s] \in 1..7
    BY DEF Rank, TerminalStatuses
  <2>2. ASSUME NEW n \in 1..7, \E s \in S : Rank[s] = n, \A s \in S : Rank[s] >= n
        PROVE  \E s \in S : \A t \in S : Rank[s] <= Rank[t]
    BY <2>2
  <2>3. \E n \in 1..7 : (\E s \in S : Rank[s] = n) /\ (\A s \in S : Rank[s] >= n)
    BY <1>1, <2>1
  <2> QED
    BY <2>2, <2>3
<1>3. (CHOOSE s \in S : \A t \in S : Rank[s] <= Rank[t]) \in S
  BY <1>2
<1>4. "cancelled" \in TerminalStatuses
  BY DEF TerminalStatuses
<1> QED
  BY <1>1, <1>3, <1>4 DEF RunOutcome
-----------------------------------------------------------------------------
(* Type correctness, operator by operator.                                 *)

(* reconcile() writes an outcome for every complete run.                   *)
LEMMA ReconcileType ==
  ASSUME TypeOK, NEW touched \in SUBSET Runs, NEW base \in [Runs -> Statuses],
         NEW attempts \in [Jobs -> Statuses], NEW cancel,
         Reconcile(touched, base, attempts, cancel)
  PROVE  runStatus' \in [Runs -> Statuses] /\ runFinishedEvents' \in [Runs -> Nat]
PROOF
<1>1. \A r \in Complete(touched, attempts) : RunOutcome(r, attempts, cancel) \in Statuses
  BY RunOutcomeType, OwnershipAssumption DEF Complete, Statuses
<1>2. runStatus' \in [Runs -> Statuses]
  BY <1>1 DEF Reconcile
<1>3. runFinishedEvents' \in [Runs -> Nat]
  BY DEF Reconcile, TypeOK
<1> QED
  BY <1>2, <1>3

(* end() keeps the columns it writes in their types.                       *)
LEMMA EndType ==
  ASSUME TypeOK, NEW j \in Jobs, NEW outcome \in TerminalStatuses, End(j, outcome)
  PROVE  /\ attempt' \in [Jobs -> Statuses]
         /\ job' \in [Jobs -> {"queued", "leased", "completed", "cancelled"}]
         /\ leaseOwner' \in [Jobs -> Holders \cup {NULL}]
         /\ leaseLive' \in [Jobs -> BOOLEAN]
         /\ finishedEvents' \in [Jobs -> Nat]
         /\ runStatus' \in [Runs -> Statuses]
         /\ runFinishedEvents' \in [Runs -> Nat]
PROOF
<1>1. EndStatus(j, outcome) \in TerminalStatuses
  BY DEF EndStatus, TerminalStatuses
<1>2. attempt' \in [Jobs -> Statuses]
  BY <1>1 DEF End, TypeOK, Statuses
<1>3. /\ job' \in [Jobs -> {"queued", "leased", "completed", "cancelled"}]
      /\ leaseOwner' \in [Jobs -> Holders \cup {NULL}]
      /\ leaseLive' \in [Jobs -> BOOLEAN]
  BY DEF End, TypeOK
<1>4. finishedEvents' \in [Jobs -> Nat]
  BY DEF End, TypeOK
<1>5. runStatus' \in [Runs -> Statuses] /\ runFinishedEvents' \in [Runs -> Nat]
  <2>1. CASE EndsAttempt(j)
    <3>1. Reconcile({RunOf[j]}, runStatus, attempt', runCancel)
      BY <2>1 DEF End
    <3>2. {RunOf[j]} \in SUBSET Runs /\ runStatus \in [Runs -> Statuses]
      BY OwnershipAssumption DEF TypeOK, Statuses
    <3> QED
      BY <1>2, <3>1, <3>2, ReconcileType
  <2>2. CASE ~EndsAttempt(j)
    BY <2>2 DEF End, TypeOK, Statuses
  <2> QED
    BY <2>1, <2>2
<1> QED
  BY <1>2, <1>3, <1>4, <1>5

(* So does the launch row after settle(), whichever way it goes.           *)
LEMMA SettleLaunchType ==
  ASSUME TypeOK, NEW j \in Jobs, NEW confirmed \in BOOLEAN,
         NEW outcome \in TerminalStatuses, SettleLaunch(j, confirmed, outcome)
  PROVE  /\ attempt' \in [Jobs -> Statuses]
         /\ job' \in [Jobs -> {"queued", "leased", "completed", "cancelled"}]
         /\ leaseOwner' \in [Jobs -> Holders \cup {NULL}]
         /\ leaseLive' \in [Jobs -> BOOLEAN]
         /\ finishedEvents' \in [Jobs -> Nat]
         /\ runStatus' \in [Runs -> Statuses]
         /\ runFinishedEvents' \in [Runs -> Nat]
         /\ launch' \in [Jobs -> {"none", "intent", "active", "recovering", "settled", "quarantined"}]
         /\ recoveryCount' \in [Jobs -> Nat]
         /\ backingOff' \in [Jobs -> BOOLEAN]
PROOF
<1>1. "infrastructure_failed" \in TerminalStatuses
  BY DEF TerminalStatuses
<1>2. CASE confirmed
  <2>1. End(j, outcome)
    BY <1>2 DEF SettleLaunch
  <2> QED
    BY <1>2, <2>1, EndType, ZenonT(60) DEF SettleLaunch, TypeOK
<1>3. CASE ~confirmed /\ RecoveryExhausted(j)
  <2>1. End(j, "infrastructure_failed")
    BY <1>3 DEF SettleLaunch, DeferRecovery
  <2> QED
    BY <1>1, <1>3, <2>1, EndType, SMTT(60) DEF SettleLaunch, DeferRecovery, TypeOK, ExhaustedState
<1>4. CASE ~confirmed /\ ~RecoveryExhausted(j)
  <2>1. /\ launch' = [launch EXCEPT ![j] = "recovering"]
        /\ recoveryCount' = [recoveryCount EXCEPT ![j] = @ + 1]
        /\ backingOff' = [backingOff EXCEPT ![j] = TRUE]
        /\ leaseLive' = [leaseLive EXCEPT ![j] = FALSE]
        /\ UNCHANGED <<job, leaseOwner, attempt, finishedEvents, runStatus, runFinishedEvents>>
    BY <1>4 DEF SettleLaunch, DeferRecovery
  <2>2. /\ launch' \in [Jobs -> {"none", "intent", "active", "recovering", "settled", "quarantined"}]
        /\ recoveryCount' \in [Jobs -> Nat]
        /\ leaseLive' \in [Jobs -> BOOLEAN]
        /\ backingOff' \in [Jobs -> BOOLEAN]
    BY <2>1 DEF TypeOK
  <2> QED
    BY <2>1, <2>2 DEF TypeOK, Statuses
<1> QED
  BY <1>2, <1>3, <1>4

(* observeCharge() leaves a well-formed record.                            *)
LEMMA ObserveType ==
  ASSUME TypeOK, NEW j \in Jobs, NEW seconds \in SecondsOrNull, NEW terminal \in BOOLEAN
  PROVE  Observe(j, seconds, terminal) \in Observations
PROOF
<1>1. observation[j] \in Observations \cup {NULL} /\ SessionSeconds \in Nat
  BY PolicyAssumption DEF TypeOK
<1>2. CASE observation[j] = NULL
  BY <1>1, <1>2 DEF Observe, Observations, SecondsOrNull
<1>3. CASE observation[j] # NULL
  BY <1>1, <1>3 DEF Observe, Observations, SecondsOrNull, Larger
<1> QED
  BY <1>2, <1>3

(* settle() never releases a negative amount.                              *)
LEMMA SettleType ==
  ASSUME TypeOK, NEW j \in Jobs, NEW seconds \in SecondsOrNull, NEW confirmed \in BOOLEAN,
         NEW charge \in Nat, Settle(j, seconds, confirmed, charge)
  PROVE  /\ reserved' \in [Jobs -> Nat]
         /\ consumed' \in [Jobs -> Nat]
         /\ released' \in [Jobs -> Nat]
PROOF
<1> DEFINE billed == IF seconds # NULL THEN seconds ELSE IF confirmed THEN SessionSeconds ELSE 0
           used == Larger(consumed[j], Larger(billed, charge))
<1>1. billed \in Nat
  BY PolicyAssumption DEF SecondsOrNull
<1>2. used \in Nat
  BY <1>1 DEF Larger, TypeOK
<1>3. Refund(j, used, confirmed) \in Nat
  <2> HIDE DEF used
  <2> QED
    BY <1>2 DEF Refund, Larger, TypeOK
<1>4. /\ consumed' = [consumed EXCEPT ![j] = used]
      /\ released' = [released EXCEPT ![j] = Refund(j, used, confirmed)]
      /\ reserved' = reserved
  BY DEF Settle
<1> HIDE DEF used
<1> QED
  BY <1>2, <1>3, <1>4 DEF TypeOK
-----------------------------------------------------------------------------
(* Init and every action keep the types.                                   *)
LEMMA TypeInit == Init => TypeOK
PROOF
  BY DEF Init, TypeOK, TerminalStatuses, Holders, RecoveryClaims, SecondsOrNull

(* claim() and claimQuarantined() keep the types.                          *)
LEMMA TypeClaims ==
  ASSUME TypeOK, NEW w \in Holders, NEW j \in Jobs,
         \/ w \in Workers /\ (ClaimExpired(w, j) \/ ClaimQueued(w, j) \/ RefuseQueued(w))
         \/ ClaimQuarantined(j)
  PROVE  TypeOK'
PROOF
<1> USE DEF leaseVars, launchVars, runVars, attemptVars, ledgerVars, providerVars,
            claimVars, launcherVars, boundVars
<1>1. w \in Holders /\ Operator \in Holders
  BY DEF Holders
<1>2. ASSUME NEW h \in Holders, StartRecovery(j, h)
      PROVE  /\ job' \in [Jobs -> {"queued", "leased", "completed", "cancelled"}]
             /\ leaseOwner' \in [Jobs -> Holders \cup {NULL}]
             /\ generation' \in [Jobs -> Nat]
             /\ leaseLive' \in [Jobs -> BOOLEAN]
             /\ launch' \in [Jobs -> {"none", "intent", "active", "recovering", "settled", "quarantined"}]
             /\ recoveries' \subseteq RecoveryClaims
  <2>1. [job |-> j, worker |-> h, generation |-> generation[j] + 1, result |-> NULL] \in RecoveryClaims
    BY DEF RecoveryClaims, TypeOK
  <2>2. recoveries' \subseteq RecoveryClaims
    BY <1>2, <2>1 DEF StartRecovery, TypeOK
  <2>3. generation' \in [Jobs -> Nat]
    BY <1>2 DEF StartRecovery, Acquire, TypeOK
  <2> QED
    BY <1>2, <2>2, <2>3 DEF StartRecovery, Acquire, TypeOK
<1>3. CASE ClaimExpired(w, j)
  BY <1>1, <1>2, <1>3 DEF ClaimExpired, TypeOK
<1>4. CASE ClaimQuarantined(j)
  <2>1. StartRecovery(j, Operator)
    BY <1>4 DEF ClaimQuarantined
  <2>2. /\ recoveryCount' \in [Jobs -> Nat]
        /\ backingOff' \in [Jobs -> BOOLEAN]
        /\ operatorClaims' \in Nat
    BY <1>4 DEF ClaimQuarantined, TypeOK
  <2> QED
    BY <1>1, <1>2, <1>4, <2>1, <2>2 DEF ClaimQuarantined, TypeOK
<1>5. AfterRefusal \in [Jobs -> Statuses]
  BY DEF AfterRefusal, RefusalStatus, Statuses, TerminalStatuses, TypeOK
<1>6. RefuseJobs(job) \in [Jobs -> {"queued", "leased", "completed", "cancelled"}]
  BY DEF RefuseJobs, TypeOK
<1>7. RunsRefused \in SUBSET Runs
  BY OwnershipAssumption DEF RunsRefused, Refused, Selected
<1>8. CountRefusals => finishedEvents' \in [Jobs -> Nat]
  BY DEF CountRefusals, TypeOK
<1>9. CASE RefuseQueued(w)
  <2>1. runStatus' \in [Runs -> Statuses] /\ runFinishedEvents' \in [Runs -> Nat]
    <3>1. runStatus \in [Runs -> Statuses]
      BY DEF TypeOK, Statuses
    <3>2. attempt' \in [Jobs -> Statuses] /\ Reconcile(RunsRefused, runStatus, attempt', runCancel)
      BY <1>5, <1>9 DEF RefuseQueued
    <3> QED
      BY <1>7, <3>1, <3>2, ReconcileType
  <2> QED
    BY <1>5, <1>6, <1>8, <1>9, <2>1 DEF RefuseQueued, TypeOK, Statuses
<1>10. CASE w \in Workers /\ ClaimQueued(w, j)
  <2>1. attempt' \in [Jobs -> Statuses]
    BY <1>5, <1>10 DEF ClaimQueued, Statuses
  <2>2. runStatus' \in [Runs -> Statuses] /\ runFinishedEvents' \in [Runs -> Nat]
    <3>1. [runStatus EXCEPT ![RunOf[j]] = "running"] \in [Runs -> Statuses]
      BY DEF TypeOK, Statuses
    <3>2. Reconcile(RunsRefused, [runStatus EXCEPT ![RunOf[j]] = "running"], attempt', runCancel)
      BY <1>10 DEF ClaimQueued
    <3> QED
      BY <1>7, <2>1, <3>1, <3>2, ReconcileType
  <2>3. /\ job' \in [Jobs -> {"queued", "leased", "completed", "cancelled"}]
        /\ leaseOwner' \in [Jobs -> Holders \cup {NULL}]
        /\ leaseLive' \in [Jobs -> BOOLEAN]
    BY <1>1, <1>6, <1>10 DEF ClaimQueued, TypeOK
  <2>4. generation' \in [Jobs -> Nat] /\ launcherGeneration' \in [Jobs -> Nat]
    BY <1>10 DEF ClaimQueued, TypeOK
  <2>5. /\ reserved' \in [Jobs -> Nat]
        /\ launch' \in [Jobs -> {"none", "intent", "active", "recovering", "settled", "quarantined"}]
        /\ launcher' \in [Jobs -> {"idle", "claimed", "requested", "allocated", "running", "closed", "gone"}]
        /\ launcherWorker' \in [Jobs -> Workers \cup {NULL}]
    BY <1>10, PolicyAssumption DEF ClaimQueued, TypeOK
  <2> QED
    BY <1>8, <1>10, <2>1, <2>2, <2>3, <2>4, <2>5 DEF ClaimQueued, TypeOK, Statuses
<1> QED
  BY <1>3, <1>4, <1>9, <1>10

(* So does every step of a first claim, from creation to finish().         *)
LEMMA TypeLauncher ==
  ASSUME TypeOK, \A i \in Jobs : LauncherConsistent(i), NEW j \in Jobs, LauncherStep(j)
  PROVE  TypeOK'
PROOF
<1> USE DEF leaseVars, launchVars, runVars, attemptVars, ledgerVars, providerVars,
            claimVars, launcherVars, boundVars
<1>1. CASE RequestBrowser(j)
  <2>1. creations' \in [Jobs -> Nat]
    BY <1>1 DEF RequestBrowser, TypeOK
  <2> QED
    BY <1>1, <2>1 DEF RequestBrowser, TypeOK
<1>2. CASE FailBeforeRequest(j)
  <2>1. usage' \in [Jobs -> UsageRecords \cup {NULL}]
    BY <1>2 DEF FailBeforeRequest, TypeOK, UsageRecords, SecondsOrNull
  <2> QED
    BY <1>2, <2>1 DEF FailBeforeRequest, TypeOK
<1>3. CASE ReceiveReply(j)
  BY <1>3 DEF ReceiveReply, TypeOK
<1>4. CASE LoseReply(j)
  <2>1. usage' \in [Jobs -> UsageRecords \cup {NULL}]
    BY <1>4 DEF LoseReply, TypeOK, UsageRecords, SecondsOrNull
  <2> QED
    BY <1>4, <2>1 DEF LoseReply, TypeOK
<1>5. CASE SaveReference(j)
  BY <1>5 DEF SaveReference, TypeOK
<1>6. CASE FinishFenced(j)
  BY <1>6 DEF FinishFenced, TypeOK
<1>7. CASE CloseBrowser(j)
  <2>1. /\ remote' \in [Jobs -> {"none", "requested", "running", "terminal", "rejected"}]
        /\ duration' \in [Jobs -> SecondsOrNull]
    BY <1>7, InputAssumption, SMTT(60) DEF CloseBrowser, Terminate, TypeOK, SecondsOrNull
  <2>2. duration'[j] \in SecondsOrNull /\ NULL \in SecondsOrNull
    BY <2>1 DEF SecondsOrNull
  <2>3. usage' \in [Jobs -> UsageRecords \cup {NULL}]
    BY <1>7, <2>2 DEF CloseBrowser, TypeOK, UsageRecords
  <2> QED
    BY <1>7, <2>1, <2>3 DEF CloseBrowser, TypeOK
<1>8. CASE Finish(j)
  <2> DEFINE u == usage[j]
             confirmed == ~u.attempted \/ u.terminal
             seconds == IF u.attempted THEN u.seconds ELSE 0
  <2>1. u \in UsageRecords
    BY <1>8 DEF Finish, LauncherConsistent, TypeOK
  <2>2. /\ confirmed \in BOOLEAN /\ seconds \in SecondsOrNull
        /\ u.attempted \in BOOLEAN /\ u.terminal \in BOOLEAN /\ u.seconds \in SecondsOrNull
    BY <2>1 DEF UsageRecords, SecondsOrNull
  <2>3. /\ Settle(j, seconds, confirmed, 0)
        /\ \E outcome \in ResultsOf(u) : SettleLaunch(j, confirmed, outcome)
        /\ recordedAttempt' = [recordedAttempt EXCEPT ![j] = u.attempted]
        /\ observation' = [observation EXCEPT ![j] =
             IF sessionRef[j] /\ (u.seconds # NULL \/ confirmed)
             THEN Observe(j, u.seconds, u.terminal) ELSE @]
    BY <1>8 DEF Finish
  <2>4. PICK outcome \in ResultsOf(u) : SettleLaunch(j, confirmed, outcome)
    BY <2>3
  <2>5. outcome \in TerminalStatuses
    BY InputAssumption DEF ResultsOf, TerminalStatuses
  <2>6. Observe(j, u.seconds, u.terminal) \in Observations
    BY <2>2, ObserveType
  <2>7. observation' \in [Jobs -> Observations \cup {NULL}]
    BY <2>3, <2>6 DEF TypeOK
  <2>8. recordedAttempt' \in [Jobs -> BOOLEAN]
    BY <2>2, <2>3 DEF TypeOK
  <2>9. /\ reserved' \in [Jobs -> Nat]
        /\ consumed' \in [Jobs -> Nat]
        /\ released' \in [Jobs -> Nat]
    <3> HIDE DEF seconds, confirmed
    <3> QED
      BY <2>2, <2>3, SettleType
  <2>10. /\ attempt' \in [Jobs -> Statuses]
         /\ job' \in [Jobs -> {"queued", "leased", "completed", "cancelled"}]
         /\ leaseOwner' \in [Jobs -> Holders \cup {NULL}]
         /\ leaseLive' \in [Jobs -> BOOLEAN]
         /\ finishedEvents' \in [Jobs -> Nat]
         /\ runStatus' \in [Runs -> Statuses]
         /\ runFinishedEvents' \in [Runs -> Nat]
         /\ launch' \in [Jobs -> {"none", "intent", "active", "recovering", "settled", "quarantined"}]
         /\ recoveryCount' \in [Jobs -> Nat]
         /\ backingOff' \in [Jobs -> BOOLEAN]
    <3> HIDE DEF confirmed
    <3> QED
      BY <2>2, <2>4, <2>5, SettleLaunchType
  <2>11. /\ launcher' = [launcher EXCEPT ![j] = "gone"]
         /\ UNCHANGED <<jobCancel, generation, sessionRef, runCancel, providerVars,
                        claimVars, usage, recoveries, boundVars>>
    BY <1>8 DEF Finish
  <2> QED
    BY <2>7, <2>8, <2>9, <2>10, <2>11 DEF TypeOK, Statuses
<1>9. CASE FinishFenced(j)
  BY <1>9 DEF FinishFenced, TypeOK
<1> QED
  BY <1>1, <1>2, <1>3, <1>4, <1>5, <1>6, <1>7, <1>8, <1>9 DEF LauncherStep

(* So does every step of a recovery claim.                                 *)
LEMMA TypeRecovery ==
  ASSUME TypeOK, NEW t \in recoveries, RecoveryStep(t)
  PROVE  TypeOK'
PROOF
<1> USE DEF leaseVars, launchVars, runVars, attemptVars, ledgerVars, providerVars,
            claimVars, launcherVars, boundVars
<1>1. /\ t \in RecoveryClaims
      /\ t.job \in Jobs
      /\ t.result \in RecoveryResults \cup {NULL}
  BY DEF TypeOK, RecoveryClaims
<1>2. CASE QueryProvider(t)
  <2>1. /\ remote' \in [Jobs -> {"none", "requested", "running", "terminal", "rejected"}]
        /\ duration' \in [Jobs -> SecondsOrNull]
    BY <1>1, <1>2, InputAssumption, SMTT(60) DEF QueryProvider, Terminate, TypeOK, SecondsOrNull
  <2>2. duration'[t.job] \in SecondsOrNull /\ NULL \in SecondsOrNull
    BY <1>1, <2>1 DEF SecondsOrNull
  <2>3. \A found \in RecoveryResults : [t EXCEPT !.result = found] \in RecoveryClaims
    BY <1>1 DEF RecoveryClaims
  <2>4. NothingFound \in RecoveryResults
    BY DEF NothingFound, RecoveryResults, SecondsOrNull
  <2>5. \E found \in RecoveryResults :
          recoveries' = (recoveries \ {t}) \cup {[t EXCEPT !.result = found]}
    <3>1. CASE recoveries' = (recoveries \ {t}) \cup {[t EXCEPT !.result = NothingFound]}
      BY <2>4, <3>1
    <3>2. ASSUME NEW terminal \in BOOLEAN, NEW confirmed \in BOOLEAN,
                 NEW seconds \in {duration'[t.job], NULL},
                 recoveries' = (recoveries \ {t}) \cup
                   {[t EXCEPT !.result = [seen |-> TRUE, terminal |-> terminal,
                                          confirmed |-> confirmed, seconds |-> seconds]]}
          PROVE  \E found \in RecoveryResults :
                   recoveries' = (recoveries \ {t}) \cup {[t EXCEPT !.result = found]}
      <4>1. [seen |-> TRUE, terminal |-> terminal, confirmed |-> confirmed, seconds |-> seconds]
              \in RecoveryResults
        BY <2>2 DEF RecoveryResults
      <4> QED
        BY <3>2, <4>1
    <3> QED
      BY <1>2, <3>1, <3>2 DEF QueryProvider
  <2>6. recoveries' \subseteq RecoveryClaims
    BY <2>3, <2>5 DEF TypeOK
  <2> QED
    BY <1>2, <2>1, <2>6 DEF QueryProvider, TypeOK
<1>3. CASE Recover(t)
  <2> DEFINE j == t.job
             found == t.result
             observed == IF found.seen THEN Observe(j, found.seconds, found.terminal)
                         ELSE observation[j]
             confirmed == ProvenOver(found, observed)
             charge == IF observed = NULL THEN 0 ELSE observed.charged
             seconds == IF observed = NULL THEN NULL ELSE observed.actual
  <2>1. found \in RecoveryResults
    BY <1>1, <1>3 DEF Recover
  <2>2. found.seen \in BOOLEAN /\ found.terminal \in BOOLEAN /\ found.seconds \in SecondsOrNull
        /\ found.confirmed \in BOOLEAN
    BY <2>1 DEF RecoveryResults
  <2>3. Observe(j, found.seconds, found.terminal) \in Observations
    BY <1>1, <2>2, ObserveType
  <2>4. observed \in Observations \cup {NULL} /\ (found.seen => observed \in Observations)
    BY <1>1, <2>3 DEF TypeOK
  <2>5. charge \in Nat /\ seconds \in SecondsOrNull
    <3> HIDE DEF observed
    <3> QED
      BY <2>4 DEF Observations, SecondsOrNull
  <2>6. confirmed \in BOOLEAN
    BY DEF ProvenOver
  <2>7. /\ observation' = [observation EXCEPT ![j] = observed]
        /\ Settle(j, seconds, confirmed, charge)
        /\ SettleLaunch(j, confirmed, "infrastructure_failed")
        /\ recoveries' = recoveries \ {t}
        /\ UNCHANGED <<jobCancel, generation, sessionRef, runCancel, recordedAttempt, providerVars,
                       launcherVars, boundVars>>
    BY <1>3 DEF Recover
  <2> HIDE DEF j, observed, confirmed, charge, seconds
  <2>8. j \in Jobs
    BY <1>1 DEF j
  <2>9. /\ reserved' \in [Jobs -> Nat]
        /\ consumed' \in [Jobs -> Nat]
        /\ released' \in [Jobs -> Nat]
    BY <2>5, <2>6, <2>7, <2>8, SettleType
  <2>10. "infrastructure_failed" \in TerminalStatuses
    BY DEF TerminalStatuses
  <2>11. /\ attempt' \in [Jobs -> Statuses]
         /\ job' \in [Jobs -> {"queued", "leased", "completed", "cancelled"}]
         /\ leaseOwner' \in [Jobs -> Holders \cup {NULL}]
         /\ leaseLive' \in [Jobs -> BOOLEAN]
         /\ finishedEvents' \in [Jobs -> Nat]
         /\ runStatus' \in [Runs -> Statuses]
         /\ runFinishedEvents' \in [Runs -> Nat]
         /\ launch' \in [Jobs -> {"none", "intent", "active", "recovering", "settled", "quarantined"}]
         /\ recoveryCount' \in [Jobs -> Nat]
         /\ backingOff' \in [Jobs -> BOOLEAN]
    BY <2>6, <2>7, <2>8, <2>10, SettleLaunchType
  <2>12. observation' \in [Jobs -> Observations \cup {NULL}] /\ recoveries' \subseteq RecoveryClaims
    BY <2>4, <2>7 DEF TypeOK
  <2> QED
    BY <2>7, <2>9, <2>11, <2>12 DEF TypeOK, Statuses
<1>4. CASE RecoverFenced(t)
  BY <1>4 DEF RecoverFenced, TypeOK
<1> QED
  BY <1>2, <1>3, <1>4 DEF RecoveryStep

(* So do the provider, expiring leases and back-offs.                      *)
LEMMA TypeOutside ==
  ASSUME TypeOK, NEW j \in Jobs, ProviderStep(j) \/ TimeStep(j)
  PROVE  TypeOK'
PROOF
<1> USE DEF leaseVars, launchVars, runVars, attemptVars, ledgerVars, providerVars,
            claimVars, launcherVars, boundVars
<1>1. CASE ProviderCreates(j)
  BY <1>1 DEF ProviderCreates, TypeOK
<1>2. CASE ProviderRejects(j)
  BY <1>2 DEF ProviderRejects, TypeOK
<1>3. CASE ProviderStops(j)
  <2>1. duration' \in [Jobs -> SecondsOrNull]
    BY <1>3, InputAssumption DEF ProviderStops, Terminate, TypeOK, SecondsOrNull
  <2> QED
    BY <1>3, <2>1 DEF ProviderStops, Terminate, TypeOK
<1>4. CASE LeaseExpires(j)
  BY <1>4 DEF LeaseExpires, TypeOK
<1>5. CASE HolderStalls(j)
  <2>1. faults' \in Nat
    BY <1>5 DEF HolderStalls, TypeOK
  <2> QED
    BY <1>5, <2>1 DEF HolderStalls, TypeOK
<1>6. CASE BackOffEnds(j)
  BY <1>6 DEF BackOffEnds, TypeOK
<1> QED
  BY <1>1, <1>2, <1>3, <1>4, <1>5, <1>6 DEF ProviderStep, TimeStep

(* So does the crash of a worker.                                          *)
LEMMA TypeCrash ==
  ASSUME TypeOK, NEW w \in Holders, Crash(w)
  PROVE  TypeOK'
PROOF
<1> USE DEF leaseVars, launchVars, runVars, attemptVars, ledgerVars, providerVars,
            claimVars, launcherVars, boundVars
<1>1. faults' \in Nat
  BY DEF Crash, TypeOK
<1>2. launcher' \in [Jobs -> {"idle", "claimed", "requested", "allocated", "running", "closed", "gone"}]
  BY DEF Crash, TypeOK
<1> QED
  BY <1>1, <1>2 DEF Crash, TypeOK

(* So does cancelRun().                                                    *)
LEMMA TypeCancel ==
  ASSUME TypeOK, NEW r \in Runs, CancelRun(r)
  PROVE  TypeOK'
PROOF
<1> USE DEF leaseVars, launchVars, runVars, attemptVars, ledgerVars, providerVars,
            claimVars, launcherVars, boundVars
<1>1. attempt' \in [Jobs -> Statuses]
  BY DEF CancelRun, QueuedOfRun, TypeOK, Statuses, TerminalStatuses
<1>2. runStatus' \in [Runs -> Statuses] /\ runFinishedEvents' \in [Runs -> Nat]
  <2>1. {r} \in SUBSET Runs /\ runStatus \in [Runs -> Statuses]
    BY DEF TypeOK, Statuses
  <2>2. Reconcile({r}, runStatus, attempt', runCancel')
    BY DEF CancelRun, QueuedOfRun
  <2> QED
    BY <1>1, <2>1, <2>2, ReconcileType
<1>3. /\ job' \in [Jobs -> {"queued", "leased", "completed", "cancelled"}]
      /\ runCancel' \in [Runs -> BOOLEAN]
      /\ finishedEvents' \in [Jobs -> Nat]
  BY DEF CancelRun, QueuedOfRun, TypeOK
<1>4. jobCancel' \in [Jobs -> BOOLEAN]
  BY DEF CancelRun, QueuedOfRun, TypeOK
<1> QED
  BY <1>1, <1>2, <1>3, <1>4 DEF CancelRun, QueuedOfRun, TypeOK, Statuses
-----------------------------------------------------------------------------
(* The inductive invariant.                                                *)

(* What is known of a job.  The jobs of L were let go: a failing write     *)
(* settled their launch, whatever their browser does (WorkerFallback).     *)
JobConsistent(L, j) ==
  /\ RowConsistent(j)
  /\ LauncherConsistent(j)
  /\ creations[j] <= 1
  /\ job[j] = "leased" => attempt[j] \in {"running", "infrastructure_failed"}
  /\ j \in L => launch[j] = "settled" /\ ~sessionRef[j]
  /\ j \notin L => /\ MayRun(j) => launch[j] \notin {"none", "settled"}
                   /\ generation[j] > 1 => attempt[j] \in {"running", "infrastructure_failed"}

(* Consistent, but for the jobs of L. *)
ConsistentBut(L) ==
  /\ \A j \in Jobs : JobConsistent(L, j)
  /\ \A t \in recoveries : RecoveryConsistent(t)

(* In WorkerLease nothing is let go.                                       *)
LEMMA ConsistentByJob == TypeOK => (Consistent <=> ConsistentBut({}))
PROOF
  BY DEF Consistent, ConsistentBut, JobConsistent, RowConsistent, BrowserHoldsSlot, OneBrowserPerJob,
         RecoveredAttemptsFail, TypeOK

(* Hence what each of its jobs is known to be.                             *)
LEMMA ConsistentJobs ==
  ASSUME TypeOK, Consistent
  PROVE  /\ \A j \in Jobs : JobConsistent({}, j)
         /\ \A t \in recoveries : RecoveryConsistent(t)
PROOF
  BY ConsistentByJob DEF ConsistentBut

(* end() touches its own row only, keeps an outcome that is there, and     *)
(* records an infrastructure failure as one.                               *)
LEMMA EndEffect ==
  ASSUME TypeOK, NEW j \in Jobs, NEW outcome \in TerminalStatuses, End(j, outcome)
  PROVE  /\ attempt'[j] \in TerminalStatuses
         /\ attempt[j] \in TerminalStatuses => attempt'[j] = attempt[j]
         /\ attempt[j] \notin TerminalStatuses /\ outcome = "infrastructure_failed"
              => attempt'[j] = "infrastructure_failed"
         /\ job'[j] \in {"completed", "cancelled"}
         /\ \A i \in Jobs \ {j} : attempt'[i] = attempt[i] /\ job'[i] = job[i]
PROOF
<1>1. /\ attempt' = [attempt EXCEPT ![j] = EndStatus(j, outcome)]
      /\ job' = [job EXCEPT ![j] = IF EndStatus(j, outcome) = "cancelled"
                                  THEN "cancelled" ELSE "completed"]
  BY DEF End
<1>2. attempt'[j] = EndStatus(j, outcome)
  BY <1>1 DEF TypeOK
<1>3. EndStatus(j, outcome) \in TerminalStatuses
  BY DEF EndStatus, TerminalStatuses
<1>4. attempt[j] \in TerminalStatuses => EndStatus(j, outcome) = attempt[j]
  BY DEF EndStatus
<1>5. attempt[j] \notin TerminalStatuses /\ outcome = "infrastructure_failed"
        => EndStatus(j, outcome) = "infrastructure_failed"
  BY DEF EndStatus
<1>6. job'[j] \in {"completed", "cancelled"}
  BY <1>1 DEF TypeOK
<1>7. \A i \in Jobs \ {j} : attempt'[i] = attempt[i] /\ job'[i] = job[i]
  BY <1>1 DEF TypeOK
<1> QED
  BY <1>2, <1>3, <1>4, <1>5, <1>6, <1>7

(* The three ways in which finish() and recover() leave the launch.        *)
LEMMA SettleLaunchEffect ==
  ASSUME TypeOK, NEW j \in Jobs, NEW confirmed \in BOOLEAN,
         NEW outcome \in TerminalStatuses, SettleLaunch(j, confirmed, outcome)
  PROVE  /\ \/ /\ confirmed /\ launch'[j] = "settled"
               /\ job'[j] \in {"completed", "cancelled"}
               /\ attempt'[j] \in TerminalStatuses
            \/ /\ launch'[j] = "quarantined"
               /\ job'[j] \in {"completed", "cancelled"}
               /\ attempt'[j] \in TerminalStatuses
               /\ attempt[j] \notin TerminalStatuses => attempt'[j] = "infrastructure_failed"
            \/ /\ launch'[j] = "recovering"
               /\ job'[j] = job[j] /\ attempt'[j] = attempt[j]
         /\ attempt[j] \in TerminalStatuses => attempt'[j] = attempt[j]
         /\ attempt[j] \notin TerminalStatuses /\ outcome = "infrastructure_failed"
              => attempt'[j] \in {attempt[j], "infrastructure_failed"}
         /\ \A i \in Jobs \ {j} :
              attempt'[i] = attempt[i] /\ job'[i] = job[i] /\ launch'[i] = launch[i]
PROOF
<1>1. "infrastructure_failed" \in TerminalStatuses
  BY DEF TerminalStatuses
<1>2. CASE confirmed
  <2>1. End(j, outcome) /\ launch' = [launch EXCEPT ![j] = "settled"]
    BY <1>2 DEF SettleLaunch
  <2> QED
    BY <1>2, <2>1, EndEffect DEF TypeOK
<1>3. CASE ~confirmed /\ RecoveryExhausted(j)
  <2>1. End(j, "infrastructure_failed") /\ launch' = [launch EXCEPT ![j] = "quarantined"]
    BY <1>3 DEF SettleLaunch, DeferRecovery, ExhaustedState
  <2> QED
    BY <1>1, <2>1, EndEffect DEF TypeOK
<1>4. CASE ~confirmed /\ ~RecoveryExhausted(j)
  <2>1. /\ launch' = [launch EXCEPT ![j] = "recovering"]
        /\ UNCHANGED <<job, attempt>>
    BY <1>4 DEF SettleLaunch, DeferRecovery
  <2> QED
    BY <2>1 DEF TypeOK
<1> QED
  BY <1>2, <1>3, <1>4

(* Nothing is leased, launched or asked for at the start.                  *)
LEMMA ConsistentInit == Init => Consistent
PROOF
  BY DEF Init, Consistent, RowConsistent, LauncherConsistent, BrowserHoldsSlot, MayRun,
         OneBrowserPerJob, RecoveredAttemptsFail, TerminalStatuses

(* The provider, time and crashes.                                         *)
LEMMA ConsistentOutside ==
  ASSUME TypeOK, NEW L, ConsistentBut(L), NEW j \in Jobs, ProviderStep(j) \/ TimeStep(j)
  PROVE  ConsistentBut(L)'
PROOF
<1> USE DEF leaseVars, launchVars, runVars, attemptVars, ledgerVars, providerVars,
            claimVars, launcherVars, boundVars
<1>1. /\ \A i \in Jobs : JobConsistent(L, i)
      /\ \A t \in recoveries : RecoveryConsistent(t)
  BY DEF ConsistentBut
<1>2. SUFFICES /\ \A i \in Jobs : JobConsistent(L, i)'
               /\ \A t \in recoveries' : RecoveryConsistent(t)'
  BY DEF ConsistentBut
<1>3. CASE ProviderCreates(j)
  BY <1>1, <1>3 DEF ProviderCreates, JobConsistent, RowConsistent, LauncherConsistent, RecoveryConsistent, MayRun, TypeOK
<1>4. CASE ProviderRejects(j)
  BY <1>1, <1>4 DEF ProviderRejects, JobConsistent, RowConsistent, LauncherConsistent, RecoveryConsistent, MayRun, TypeOK
<1>5. CASE ProviderStops(j)
  BY <1>1, <1>5 DEF ProviderStops, Terminate, JobConsistent, RowConsistent, LauncherConsistent, RecoveryConsistent, MayRun, TypeOK
<1>6. CASE LeaseExpires(j)
  BY <1>1, <1>6 DEF LeaseExpires, JobConsistent, RowConsistent, LauncherConsistent, RecoveryConsistent, MayRun, TypeOK
<1>7. CASE HolderStalls(j)
  BY <1>1, <1>7 DEF HolderStalls, JobConsistent, RowConsistent, LauncherConsistent, RecoveryConsistent, MayRun, TypeOK
<1>8. CASE BackOffEnds(j)
  BY <1>1, <1>8 DEF BackOffEnds, JobConsistent, RowConsistent, LauncherConsistent, RecoveryConsistent, MayRun, TypeOK
<1> QED
  BY <1>3, <1>4, <1>5, <1>6, <1>7, <1>8 DEF ProviderStep, TimeStep

(* A crash forgets; it changes nothing that was written.                   *)
LEMMA ConsistentCrash ==
  ASSUME TypeOK, NEW L, ConsistentBut(L), NEW w \in Holders, Crash(w)
  PROVE  ConsistentBut(L)'
PROOF
<1> USE DEF leaseVars, launchVars, runVars, attemptVars, ledgerVars, providerVars,
            claimVars, launcherVars, boundVars
<1>1. /\ \A i \in Jobs : JobConsistent(L, i)
      /\ \A t \in recoveries : RecoveryConsistent(t)
  BY DEF ConsistentBut
<1>2. SUFFICES /\ \A i \in Jobs : JobConsistent(L, i)'
               /\ \A t \in recoveries' : RecoveryConsistent(t)'
  BY DEF ConsistentBut
<1> QED
  BY <1>1 DEF Crash, LauncherActive, JobConsistent, RowConsistent, LauncherConsistent, RecoveryConsistent, MayRun, TypeOK

(* A cancellation ends queued rows, which have no launch.                  *)
LEMMA ConsistentCancel ==
  ASSUME TypeOK, NEW L, ConsistentBut(L), NEW r \in Runs, CancelRun(r)
  PROVE  ConsistentBut(L)'
PROOF
<1> USE DEF leaseVars, launchVars, runVars, attemptVars, ledgerVars, providerVars,
            claimVars, launcherVars, boundVars
<1>1. /\ \A i \in Jobs : JobConsistent(L, i)
      /\ \A t \in recoveries : RecoveryConsistent(t)
  BY DEF ConsistentBut
<1>2. SUFFICES /\ \A i \in Jobs : JobConsistent(L, i)'
               /\ \A t \in recoveries' : RecoveryConsistent(t)'
  BY DEF ConsistentBut
<1>3. "cancelled" \in TerminalStatuses /\ "queued" \notin TerminalStatuses
  BY DEF TerminalStatuses
<1> QED
  BY <1>1, <1>3 DEF CancelRun, QueuedOfRun, JobConsistent, RowConsistent, LauncherConsistent, RecoveryConsistent, MayRun, TypeOK

(* The end of an execution, whichever way it came, with a true report.     *)
LEMMA ConsistentReport ==
  ASSUME TypeOK, NEW L, ConsistentBut(L), NEW j \in Jobs, NEW u \in UsageRecords,
         launcher[j] # "idle",
         usage' = [usage EXCEPT ![j] = u],
         launcher' = [launcher EXCEPT ![j] = "closed"],
         remote' = remote \/ (remote[j] = "running" /\ remote' = [remote EXCEPT ![j] = "terminal"]),
         ~u.attempted => remote'[j] = "none",
         u.terminal => remote'[j] = "terminal",
         UNCHANGED <<leaseVars, launchVars, runVars, attemptVars, creations, claimVars, recoveries>>
  PROVE  ConsistentBut(L)'
PROOF
<1> USE DEF leaseVars, launchVars, runVars, attemptVars, claimVars
<1>1. /\ \A i \in Jobs : JobConsistent(L, i)
      /\ \A t \in recoveries : RecoveryConsistent(t)
  BY DEF ConsistentBut
<1>2. usage'[j] = u /\ launcher'[j] = "closed" /\ u # NULL
  BY NullAssumption DEF TypeOK
<1>3. \A i \in Jobs \ {j} : usage'[i] = usage[i] /\ launcher'[i] = launcher[i] /\ remote'[i] = remote[i]
  BY DEF TypeOK
<1>4. remote'[j] = remote[j] \/ (remote[j] = "running" /\ remote'[j] = "terminal")
  BY DEF TypeOK
<1>5. JobConsistent(L, j)'
  BY <1>1, <1>2, <1>4 DEF JobConsistent, RowConsistent, LauncherConsistent, MayRun
<1>6. \A i \in Jobs \ {j} : JobConsistent(L, i)'
  BY <1>1, <1>3 DEF JobConsistent, RowConsistent, LauncherConsistent, MayRun
<1>7. \A t \in recoveries' : RecoveryConsistent(t)'
  BY <1>1, <1>3, <1>4 DEF RecoveryConsistent, TypeOK, RecoveryClaims
<1> QED
  BY <1>5, <1>6, <1>7 DEF ConsistentBut

(* The steps of a first claim before finish().                             *)
LEMMA ConsistentLaunch ==
  ASSUME TypeOK, NEW L, ConsistentBut(L), NEW j \in Jobs, LauncherStep(j), ~Finish(j)
  PROVE  ConsistentBut(L)'
PROOF
<1> USE DEF leaseVars, launchVars, runVars, attemptVars, ledgerVars, providerVars,
            claimVars, launcherVars, boundVars
<1>1. /\ \A i \in Jobs : JobConsistent(L, i)
      /\ \A t \in recoveries : RecoveryConsistent(t)
  BY DEF ConsistentBut
<1>3. CASE RequestBrowser(j)
  <2>1. /\ \A i \in Jobs : JobConsistent(L, i)'
        /\ \A t \in recoveries' : RecoveryConsistent(t)'
    BY <1>1, <1>3 DEF RequestBrowser, LauncherHolds, HoldsLease, JobConsistent, RowConsistent, LauncherConsistent, RecoveryConsistent, MayRun, TypeOK
  <2> QED
    BY <2>1 DEF ConsistentBut
<1>4. CASE FailBeforeRequest(j)
  <2> DEFINE u == [attempted |-> FALSE, terminal |-> FALSE, seconds |-> NULL]
  <2>1. u \in UsageRecords /\ ~u.attempted /\ ~u.terminal
    BY DEF UsageRecords, SecondsOrNull
  <2>2. usage' = [usage EXCEPT ![j] = u]
    BY <1>4 DEF FailBeforeRequest
  <2> HIDE DEF u
  <2>3. /\ launcher[j] # "idle" /\ remote' = remote/\ remote'[j] = "none"
        /\ launcher' = [launcher EXCEPT ![j] = "closed"]
    BY <1>1, <1>4 DEF FailBeforeRequest, JobConsistent, LauncherConsistent
  <2>4. UNCHANGED <<leaseVars, launchVars, runVars, attemptVars, creations, claimVars, recoveries>>
    BY <1>4 DEF FailBeforeRequest
  <2> QED
    BY <2>1, <2>2, <2>3, <2>4, ConsistentReport
<1>5. CASE ReceiveReply(j)
  <2>1. /\ \A i \in Jobs : JobConsistent(L, i)'
        /\ \A t \in recoveries' : RecoveryConsistent(t)'
    BY <1>1, <1>5 DEF ReceiveReply, LauncherHolds, HoldsLease, JobConsistent, RowConsistent, LauncherConsistent, RecoveryConsistent, MayRun, TypeOK
  <2> QED
    BY <2>1 DEF ConsistentBut
<1>6. CASE LoseReply(j)
  <2> DEFINE u == [attempted |-> TRUE, terminal |-> FALSE, seconds |-> NULL]
  <2>1. u \in UsageRecords /\ u.attempted /\ ~u.terminal
    BY DEF UsageRecords, SecondsOrNull
  <2>2. usage' = [usage EXCEPT ![j] = u]
    BY <1>6 DEF LoseReply
  <2> HIDE DEF u
  <2>3. /\ launcher[j] # "idle" /\ remote' = remote
        /\ launcher' = [launcher EXCEPT ![j] = "closed"]
    BY <1>1, <1>6 DEF LoseReply, JobConsistent, LauncherConsistent
  <2>4. UNCHANGED <<leaseVars, launchVars, runVars, attemptVars, creations, claimVars, recoveries>>
    BY <1>6 DEF LoseReply
  <2> QED
    BY <2>1, <2>2, <2>3, <2>4, ConsistentReport
<1>7. CASE SaveReference(j)
  <2>1. /\ \A i \in Jobs : JobConsistent(L, i)'
        /\ \A t \in recoveries' : RecoveryConsistent(t)'
    BY <1>1, <1>7 DEF SaveReference, LauncherHolds, HoldsLease, JobConsistent, RowConsistent, LauncherConsistent, RecoveryConsistent, MayRun, TypeOK
  <2> QED
    BY <2>1 DEF ConsistentBut
<1>8. CASE CloseBrowser(j)
  <2>1. PICK terminal \in BOOLEAN, seconds \in {duration'[j], NULL} :
          /\ terminal => remote'[j] = "terminal"
          /\ usage' = [usage EXCEPT ![j] =
                         [attempted |-> TRUE, terminal |-> terminal, seconds |-> seconds]]
    BY <1>8 DEF CloseBrowser
  <2> DEFINE u == [attempted |-> TRUE, terminal |-> terminal, seconds |-> seconds]
  <2>2. duration'[j] \in SecondsOrNull
    BY <1>8, InputAssumption DEF CloseBrowser, Terminate, TypeOK, SecondsOrNull
  <2>3. u \in UsageRecords /\ u.attempted /\ (u.terminal <=> terminal)
    BY <2>2 DEF UsageRecords, SecondsOrNull
  <2>4. usage' = [usage EXCEPT ![j] = u]
    BY <2>1
  <2> HIDE DEF u
  <2>5. remote' = remote \/ (remote[j] = "running" /\ remote' = [remote EXCEPT ![j] = "terminal"])
    BY <1>8 DEF CloseBrowser, Terminate
  <2>6. launcher[j] # "idle" /\ launcher' = [launcher EXCEPT ![j] = "closed"]
    BY <1>8 DEF CloseBrowser
  <2>7. UNCHANGED <<leaseVars, launchVars, runVars, attemptVars, creations, claimVars, recoveries>>
    BY <1>8 DEF CloseBrowser
  <2> QED
    BY <2>1, <2>3, <2>4, <2>5, <2>6, <2>7, ConsistentReport
<1>9. CASE FinishFenced(j)
  <2>1. /\ \A i \in Jobs : JobConsistent(L, i)'
        /\ \A t \in recoveries' : RecoveryConsistent(t)'
    BY <1>1, <1>9 DEF FinishFenced, LauncherHolds, HoldsLease, JobConsistent, RowConsistent, LauncherConsistent, RecoveryConsistent, MayRun, TypeOK
  <2> QED
    BY <2>1 DEF ConsistentBut
<1> QED
  BY <1>3, <1>4, <1>5, <1>6, <1>7, <1>8, <1>9 DEF LauncherStep

(* finish() settles only what never ran or is over.                        *)
LEMMA ConsistentFinish ==
  ASSUME TypeOK, NEW L, ConsistentBut(L), NEW j \in Jobs, Finish(j)
  PROVE  ConsistentBut(L)'
PROOF
<1> USE DEF leaseVars, launchVars, runVars, attemptVars, ledgerVars, providerVars,
            claimVars, launcherVars, boundVars
<1>1. /\ \A i \in Jobs : JobConsistent(L, i)
      /\ \A t \in recoveries : RecoveryConsistent(t)
  BY DEF ConsistentBut
<1> DEFINE u == usage[j]
           confirmed == ~u.attempted \/ u.terminal
<1>2. PICK outcome \in ResultsOf(u) : SettleLaunch(j, confirmed, outcome)
  BY DEF Finish
<1>3. outcome \in TerminalStatuses
  BY InputAssumption DEF ResultsOf, TerminalStatuses
<1>4. u \in UsageRecords
  BY <1>1 DEF Finish, JobConsistent, LauncherConsistent, TypeOK
<1>5. confirmed \in BOOLEAN /\ (confirmed => remote[j] \in {"none", "terminal"})
  BY <1>1, <1>4 DEF Finish, JobConsistent, LauncherConsistent, UsageRecords
<1> HIDE DEF confirmed
<1>6. /\ launcher[j] = "closed" /\ LauncherHolds(j)
      /\ launcher' = [launcher EXCEPT ![j] = "gone"]
      /\ UNCHANGED <<generation, providerVars, claimVars, usage, recoveries>>
  BY DEF Finish
<1>7. j \notin L /\ job[j] = "leased" /\ generation[j] = 1 /\ attempt[j] = "running"
  BY <1>1, <1>6 DEF LauncherHolds, HoldsLease, JobConsistent, LauncherConsistent, RowConsistent
<1>8. attempt[j] \notin TerminalStatuses /\ "queued" \notin TerminalStatuses
  BY <1>7 DEF TerminalStatuses
<1>9. launcher'[j] = "gone" /\ \A i \in Jobs \ {j} : launcher'[i] = launcher[i]
  BY <1>6 DEF TypeOK
<1>10. JobConsistent(L, j)'
  <2>1. LauncherConsistent(j)' /\ (creations[j] <= 1)'
    BY <1>1, <1>6, <1>9 DEF JobConsistent, RowConsistent, LauncherConsistent, MayRun
  <2>2. (MayRun(j) => launch[j] \notin {"none", "settled"})'
    BY <1>2, <1>3, <1>5, <1>6, SettleLaunchEffect DEF MayRun
  <2>3. RowConsistent(j)' /\ (generation[j] > 1 => attempt[j] \in {"running", "infrastructure_failed"})'
    BY <1>2, <1>3, <1>5, <1>6, <1>7, <1>8, <1>9, SettleLaunchEffect DEF RowConsistent
  <2>4. (job[j] = "leased" => attempt[j] \in {"running", "infrastructure_failed"})'
    BY <1>2, <1>3, <1>5, <1>7, SettleLaunchEffect
  <2> QED
    BY <1>7, <2>1, <2>2, <2>3, <2>4 DEF JobConsistent
<1>11. \A i \in Jobs \ {j} : JobConsistent(L, i)'
  <2>1. sessionRef' = sessionRef
    BY DEF Finish
  <2> QED
    BY <1>1, <1>2, <1>3, <1>5, <1>6, <1>9, <2>1, SettleLaunchEffect
       DEF JobConsistent, RowConsistent, LauncherConsistent, MayRun
<1>12. \A t \in recoveries' : RecoveryConsistent(t)'
  BY <1>1, <1>6 DEF RecoveryConsistent
<1> QED
  BY <1>10, <1>11, <1>12 DEF ConsistentBut

(* A recovery settles only what the provider reported as over.             *)
LEMMA ConsistentRecovery ==
  ASSUME TypeOK, NEW L, ConsistentBut(L), NEW t \in recoveries, RecoveryStep(t)
  PROVE  ConsistentBut(L)'
PROOF
<1> USE DEF leaseVars, launchVars, runVars, attemptVars, ledgerVars, providerVars,
            claimVars, launcherVars, boundVars
<1>1. /\ \A i \in Jobs : JobConsistent(L, i)
      /\ \A s \in recoveries : RecoveryConsistent(s)
  BY DEF ConsistentBut
<1>2. /\ t \in RecoveryClaims /\ t.job \in Jobs
      /\ t.result \in RecoveryResults \cup {NULL}
  BY DEF TypeOK, RecoveryClaims
<1>3. CASE QueryProvider(t)
  <2>1. PICK found :
          /\ found.terminal => remote'[t.job] = "terminal"
          /\ recoveries' = (recoveries \ {t}) \cup {[t EXCEPT !.result = found]}
    BY <1>3 DEF QueryProvider, NothingFound
  <2>2. remote' = remote \/ (remote[t.job] = "running" /\ remote' = [remote EXCEPT ![t.job] = "terminal"])
    BY <1>3 DEF QueryProvider, Terminate
  <2>3. UNCHANGED <<leaseVars, launchVars, runVars, attemptVars, creations, launcherVars>>
    BY <1>3 DEF QueryProvider
  <2>4. \A i \in Jobs : remote'[i] = remote[i] \/ (remote[i] = "running" /\ remote'[i] = "terminal")
    BY <1>2, <2>2 DEF TypeOK
  <2>5. \A i \in Jobs : JobConsistent(L, i)'
    BY <1>1, <2>3, <2>4 DEF JobConsistent, RowConsistent, LauncherConsistent, MayRun
  <2>6. \A s \in recoveries \ {t} : RecoveryConsistent(s)'
    BY <1>1, <2>4 DEF RecoveryConsistent, TypeOK, RecoveryClaims
  <2>7. RecoveryConsistent([t EXCEPT !.result = found])'
    <3> DEFINE s == [t EXCEPT !.result = found]
    <3>1. s.job = t.job /\ s.result = found
      BY <1>2 DEF RecoveryClaims
    <3> HIDE DEF s
    <3>2. RecoveryConsistent(s)'
      BY <2>1, <3>1 DEF RecoveryConsistent
    <3> QED
      BY <3>2 DEF s
  <2> QED
    BY <2>1, <2>5, <2>6, <2>7 DEF ConsistentBut
<1>4. CASE Recover(t)
  <2> DEFINE j == t.job
             found == t.result
             observed == IF found.seen THEN Observe(j, found.seconds, found.terminal)
                         ELSE observation[j]
             confirmed == ProvenOver(found, observed)
  <2>1. /\ SettleLaunch(j, confirmed, "infrastructure_failed")
        /\ recoveries' = recoveries \ {t}
        /\ HoldsLease(j, t.worker, t.generation)
        /\ UNCHANGED <<generation, sessionRef, providerVars, launcherVars>>
        /\ t.result # NULL
    BY <1>4 DEF Recover
  <2>2. confirmed \in BOOLEAN /\ (confirmed => remote[j] = "terminal")
    BY <1>1, <2>1 DEF ProvenOver, RecoveryConsistent
  <2> HIDE DEF confirmed, j
  <2>3. j \in Jobs /\ "infrastructure_failed" \in TerminalStatuses
    BY <1>2 DEF j, TerminalStatuses
  <2>4. /\ j \notin L /\ job[j] = "leased" /\ launch[j] # "none"
        /\ attempt[j] \in {"running", "infrastructure_failed"}
        /\ launcher[j] # "idle" /\ generation[j] # 0
    BY <1>1, <2>1, <2>3 DEF HoldsLease, JobConsistent, RowConsistent, TypeOK
  <2>5. "queued" \notin TerminalStatuses /\ "running" \notin TerminalStatuses
    BY DEF TerminalStatuses
  <2>6. JobConsistent(L, j)'
    <3>1. LauncherConsistent(j)' /\ (creations[j] <= 1)'
      BY <1>1, <2>1, <2>3 DEF JobConsistent, LauncherConsistent
    <3>2. (MayRun(j) => launch[j] \notin {"none", "settled"})'
      BY <2>1, <2>2, <2>3, SettleLaunchEffect DEF MayRun
    <3>3. RowConsistent(j)' /\ (generation[j] > 1 => attempt[j] \in {"running", "infrastructure_failed"})'
      BY <1>1, <2>1, <2>2, <2>3, <2>4, <2>5, SettleLaunchEffect DEF JobConsistent, RowConsistent
    <3>4. (job[j] = "leased" => attempt[j] \in {"running", "infrastructure_failed"})'
      BY <2>1, <2>2, <2>3, <2>4, SettleLaunchEffect
    <3> QED
      BY <2>4, <3>1, <3>2, <3>3, <3>4 DEF JobConsistent
  <2>7. \A i \in Jobs \ {j} : JobConsistent(L, i)'
    BY <1>1, <2>1, <2>2, <2>3, SettleLaunchEffect DEF JobConsistent, RowConsistent, LauncherConsistent, MayRun
  <2>8. \A s \in recoveries' : RecoveryConsistent(s)'
    BY <1>1, <2>1 DEF RecoveryConsistent
  <2> QED
    BY <2>6, <2>7, <2>8 DEF ConsistentBut
<1>5. CASE RecoverFenced(t)
  <2>1. /\ \A i \in Jobs : JobConsistent(L, i)'
        /\ \A s \in recoveries' : RecoveryConsistent(s)'
    BY <1>1, <1>5 DEF RecoverFenced, RecoveryConsistent, JobConsistent, RowConsistent, LauncherConsistent, MayRun
  <2> QED
    BY <2>1 DEF ConsistentBut
<1> QED
  BY <1>3, <1>4, <1>5 DEF RecoveryStep

(* A claim for recovery takes over an open launch with a new generation.   *)
LEMMA ConsistentTakeover ==
  ASSUME TypeOK, NEW L, ConsistentBut(L), NEW j \in Jobs, NEW w, StartRecovery(j, w),
         launch[j] \notin {"none", "settled"},
         attempt[j] \in {"running", "infrastructure_failed"},
         UNCHANGED <<attempt, sessionRef, providerVars, launcherVars>>
  PROVE  ConsistentBut(L)'
PROOF
<1> USE DEF leaseVars, launchVars, runVars, attemptVars, ledgerVars, providerVars,
            claimVars, launcherVars, boundVars
<1>1. /\ \A i \in Jobs : JobConsistent(L, i)
      /\ \A t \in recoveries : RecoveryConsistent(t)
  BY DEF ConsistentBut
<1>2. /\ \A i \in Jobs \ {j} : /\ job'[i] = job[i] /\ launch'[i] = launch[i]
                                   /\ generation'[i] = generation[i]
      /\ job'[j] = "leased" /\ launch'[j] = "recovering"
      /\ generation'[j] = generation[j] + 1 /\ generation[j] \in Nat
  BY DEF StartRecovery, Acquire, TypeOK
<1>3. JobConsistent(L, j)'
  BY <1>1, <1>2 DEF JobConsistent, RowConsistent, LauncherConsistent, MayRun, TerminalStatuses
<1>4. \A i \in Jobs \ {j} : JobConsistent(L, i)'
  BY <1>1, <1>2 DEF JobConsistent, RowConsistent, LauncherConsistent, MayRun
<1>5. \A t \in recoveries' : RecoveryConsistent(t)'
  <2>1. PICK s : recoveries' = recoveries \cup {s} /\ s.result = NULL
    <3> DEFINE claim == [job |-> j, worker |-> w, generation |-> generation[j] + 1, result |-> NULL]
    <3>1. recoveries' = recoveries \cup {claim} /\ claim.result = NULL
      BY DEF StartRecovery
    <3> HIDE DEF claim
    <3> QED
      BY <3>1
  <2>2. \A t \in recoveries : RecoveryConsistent(t)'
    BY <1>1 DEF RecoveryConsistent
  <2>3. RecoveryConsistent(s)'
    BY <2>1 DEF RecoveryConsistent
  <2> QED
    BY <2>1, <2>2, <2>3
<1> QED
  BY <1>3, <1>4, <1>5 DEF ConsistentBut

(* A claim of queued rows ends the refused ones and launches at most one.  *)
LEMMA ConsistentClaims ==
  ASSUME TypeOK, NEW L, ConsistentBut(L), NEW w \in Holders, NEW j \in Jobs,
         \/ w \in Workers /\ (ClaimExpired(w, j) \/ ClaimQueued(w, j) \/ RefuseQueued(w))
         \/ ClaimQuarantined(j)
  PROVE  ConsistentBut(L)'
PROOF
<1> USE DEF leaseVars, launchVars, runVars, attemptVars, ledgerVars, providerVars,
            claimVars, launcherVars, boundVars
<1>1. /\ \A i \in Jobs : JobConsistent(L, i)
      /\ \A t \in recoveries : RecoveryConsistent(t)
  BY DEF ConsistentBut
<1>2. CASE ClaimExpired(w, j)
  <2>1. StartRecovery(j, w) /\ launch[j] \notin {"none", "settled"} /\ job[j] = "leased"
    BY <1>2 DEF ClaimExpired, Expired
  <2>2. attempt[j] \in {"running", "infrastructure_failed"}
    BY <1>1, <2>1 DEF JobConsistent, RowConsistent, TypeOK
  <2>3. UNCHANGED <<attempt, sessionRef, providerVars, launcherVars>>
    BY <1>2 DEF ClaimExpired
  <2> QED
    BY <2>1, <2>2, <2>3, ConsistentTakeover
<1>3. CASE ClaimQuarantined(j)
  <2>1. StartRecovery(j, Operator) /\ launch[j] \notin {"none", "settled"}
    BY <1>3 DEF ClaimQuarantined
  <2>2. attempt[j] = "infrastructure_failed"
    BY <1>1, <1>3 DEF ClaimQuarantined, JobConsistent, RowConsistent
  <2>3. UNCHANGED <<attempt, sessionRef, providerVars, launcherVars>>
    BY <1>3 DEF ClaimQuarantined
  <2> QED
    BY <2>1, <2>2, <2>3, ConsistentTakeover
<1>4. /\ Refused \subseteq Selected
      /\ \A i \in Selected : job[i] = "queued"
  BY DEF Refused, Selected
<1>5. \A i \in Jobs : /\ AfterRefusal[i] = IF i \in Refused THEN RefusalStatus(i) ELSE attempt[i]
                      /\ RefuseJobs(job)[i] = IF i \in Refused THEN "completed" ELSE job[i]
  BY DEF AfterRefusal, RefuseJobs
<1>6. \A i \in Jobs : RefusalStatus(i) \notin {"queued", "running"}
  BY DEF RefusalStatus
<1>7. ASSUME NEW i \in Jobs, attempt'[i] = AfterRefusal[i], job'[i] = RefuseJobs(job)[i],
             launch'[i] = launch[i], generation'[i] = generation[i], launcher'[i] = launcher[i],
             launcherGeneration'[i] = launcherGeneration[i],
             UNCHANGED <<sessionRef, remote, creations, usage>>
      PROVE  JobConsistent(L, i)'
  BY <1>1, <1>4, <1>5, <1>6, <1>7 DEF JobConsistent, RowConsistent, LauncherConsistent, MayRun
<1>8. CASE RefuseQueued(w)
  <2>1. \A i \in Jobs : JobConsistent(L, i)'
    BY <1>7, <1>8 DEF RefuseQueued
  <2>2. \A t \in recoveries' : RecoveryConsistent(t)'
    BY <1>1, <1>8 DEF RefuseQueued, RecoveryConsistent
  <2> QED
    BY <2>1, <2>2 DEF ConsistentBut
<1>9. CASE ClaimQueued(w, j)
  <2>1. \A i \in Jobs \ {j} : JobConsistent(L, i)'
    BY <1>7, <1>9 DEF ClaimQueued, TypeOK
  <2>2. job[j] = "queued" /\ launch[j] = "none" /\ launcher[j] = "idle" /\ generation[j] = 0
    BY <1>1, <1>4, <1>9 DEF ClaimQueued, JobConsistent, RowConsistent
  <2>3. /\ job'[j] = "leased" /\ attempt'[j] = "running" /\ launch'[j] = "intent"
        /\ generation'[j] = 1 /\ launcher'[j] = "claimed" /\ launcherGeneration'[j] = 1
    BY <1>5, <1>9, <2>2 DEF ClaimQueued, TypeOK, AfterRefusal, RefuseJobs
  <2>4. UNCHANGED <<sessionRef, remote, creations, usage, recoveries>>
    BY <1>9 DEF ClaimQueued
  <2>5. JobConsistent(L, j)'
    BY <1>1, <2>2, <2>3, <2>4 DEF JobConsistent, RowConsistent, LauncherConsistent, MayRun
  <2>6. \A t \in recoveries' : RecoveryConsistent(t)'
    BY <1>1, <2>4 DEF RecoveryConsistent
  <2> QED
    BY <2>1, <2>5, <2>6 DEF ConsistentBut
<1> QED
  BY <1>2, <1>3, <1>8, <1>9
-----------------------------------------------------------------------------
(* Every step keeps the types and the invariant.                           *)
LEMMA ConsistentStep ==
  ASSUME TypeOK, NEW L, ConsistentBut(L), [Next]_vars
  PROVE  TypeOK' /\ ConsistentBut(L)'
PROOF
<1> USE DEF Holders
<1>1. ASSUME NEW w \in Workers, RefuseQueued(w)
      PROVE  TypeOK' /\ ConsistentBut(L)'
  <2>1. PICK j \in Jobs : j \in Refused
    BY <1>1 DEF RefuseQueued, Refused, Selected
  <2> QED
    BY <1>1, <2>1, TypeClaims, ConsistentClaims
<1>2. ASSUME NEW w \in Workers, NEW j \in Jobs, ClaimExpired(w, j) \/ ClaimQueued(w, j)
      PROVE  TypeOK' /\ ConsistentBut(L)'
  BY <1>2, TypeClaims, ConsistentClaims
<1>3. ASSUME NEW j \in Jobs, ClaimQuarantined(j)
      PROVE  TypeOK' /\ ConsistentBut(L)'
  <2>1. Operator \in Holders
    OBVIOUS
  <2> QED
    BY <1>3, <2>1, TypeClaims, ConsistentClaims
<1>4. ASSUME NEW j \in Jobs, LauncherStep(j)
      PROVE  TypeOK' /\ ConsistentBut(L)'
  <2>1. \A i \in Jobs : LauncherConsistent(i)
    BY DEF ConsistentBut, JobConsistent
  <2> QED
    BY <1>4, <2>1, TypeLauncher, ConsistentLaunch, ConsistentFinish
<1>5. ASSUME NEW j \in Jobs, ProviderStep(j) \/ TimeStep(j)
      PROVE  TypeOK' /\ ConsistentBut(L)'
  BY <1>5, TypeOutside, ConsistentOutside
<1>6. ASSUME NEW t \in recoveries, RecoveryStep(t)
      PROVE  TypeOK' /\ ConsistentBut(L)'
  BY <1>6, TypeRecovery, ConsistentRecovery
<1>7. ASSUME NEW r \in Runs, CancelRun(r)
      PROVE  TypeOK' /\ ConsistentBut(L)'
  BY <1>7, TypeCancel, ConsistentCancel
<1>8. ASSUME NEW w \in Holders, Crash(w)
      PROVE  TypeOK' /\ ConsistentBut(L)'
  BY <1>8, TypeCrash, ConsistentCrash
<1>9. CASE UNCHANGED vars
  <2> USE <1>9 DEF vars, leaseVars, launchVars, runVars, attemptVars, ledgerVars, providerVars,
                   claimVars, launcherVars, boundVars
  <2>1. TypeOK'
    BY DEF TypeOK
  <2>2. ConsistentBut(L)'
    BY DEF ConsistentBut, JobConsistent, RowConsistent, LauncherConsistent, RecoveryConsistent, MayRun
  <2> QED
    BY <2>1, <2>2
<1> QED
  BY <1>1, <1>2, <1>3, <1>4, <1>5, <1>6, <1>7, <1>8, <1>9 DEF Next

(* In WorkerLease nothing is let go.                                       *)
LEMMA InvariantStep == TypeOK /\ Consistent /\ [Next]_vars => TypeOK' /\ Consistent'
PROOF
<1>1. TypeOK /\ ConsistentBut({}) /\ [Next]_vars => TypeOK' /\ ConsistentBut({})'
  BY ConsistentStep
<1> QED
  BY <1>1, ConsistentByJob, PTL

(* Hence the types and the invariant hold in every reachable state.        *)
LEMMA InvariantHolds == Spec => [](TypeOK /\ Consistent)
PROOF
<1>1. Init => TypeOK /\ Consistent
  BY TypeInit, ConsistentInit
<1>2. TypeOK /\ Consistent /\ [Next]_vars => TypeOK' /\ Consistent'
  BY InvariantStep
<1> QED
  BY <1>1, <1>2, PTL DEF Spec

(* Every column of the database and every field in memory keeps its type;  *)
(* no sequence of claims, crashes and recoveries refunds a negative time.  *)
THEOREM TypeCorrect == Spec => []TypeOK
PROOF
  BY InvariantHolds, PTL

(* Rows, executions and recoveries always agree on the job's browser.      *)
THEOREM AlwaysConsistent == Spec => []Consistent
PROOF
  BY InvariantHolds, PTL

(* A browser that may be running keeps its job's slot (finish(),           *)
(* recover(), deferRecovery(), claimQuarantined()).                        *)
THEOREM BrowserKeepsSlot == Spec => []BrowserHoldsSlot
PROOF
<1>1. Consistent => BrowserHoldsSlot
  BY DEF Consistent
<1> QED
  BY <1>1, AlwaysConsistent, PTL

(* No job ever sends a second creation request (executeClaim()).           *)
THEOREM NoSecondLaunch == Spec => []OneBrowserPerJob
PROOF
<1>1. Consistent => OneBrowserPerJob
  BY DEF Consistent
<1> QED
  BY <1>1, AlwaysConsistent, PTL

(* A fenced execution cannot decide an attempt another worker took over    *)
(* (assertLease(), recover()).                                             *)
THEOREM FencedOut == Spec => []RecoveredAttemptsFail
PROOF
<1>1. Consistent => RecoveredAttemptsFail
  BY DEF Consistent
<1> QED
  BY <1>1, AlwaysConsistent, PTL
-----------------------------------------------------------------------------
(* The ledger.  A duration anybody wrote down is the one the provider      *)
(* bills: of an execution's report, of the row of observations and of what *)
(* a recovery found, none was measured before the session was over.        *)
Measured(j, seconds) == seconds # NULL => remote[j] = "terminal" /\ seconds = duration[j]

OpenLaunch(j) == launch[j] \notin {"none", "settled"}

LedgerRow(j) ==
  /\ remote[j] = "terminal" => duration[j] \in Nat
  /\ usage[j] # NULL => Measured(j, usage[j].seconds)
  /\ observation[j] # NULL => Measured(j, observation[j].actual)
  /\ launch[j] = "none" => released[j] = 0
  /\ OpenLaunch(j) => reserved[j] = SessionSeconds /\ released[j] = 0
  /\ launch[j] = "settled" /\ remote[j] = "terminal"
       => consumed[j] >= duration[j] \/ consumed[j] >= SessionSeconds

LedgerClaim(t) == t.result # NULL => Measured(t.job, t.result.seconds)

(* The jobs of L were let go (WorkerFallback). *)
LedgerBut(L) ==
  /\ \A j \in Jobs \ L : LedgerRow(j)
  /\ \A t \in recoveries : t.job \notin L => LedgerClaim(t)

(* A session that is over stays over, with the same bill, and only the     *)
(* session of an open launch ends.                                         *)
ProviderMoves(j) ==
  /\ remote[j] = "terminal" => remote'[j] = "terminal" /\ duration'[j] = duration[j]
  /\ remote'[j] = "terminal" => remote[j] = "terminal" \/ (duration'[j] \in Nat /\ OpenLaunch(j))

LEMMA ProviderMovesOn ==
  ASSUME TypeOK, NEW L, ConsistentBut(L), [Next]_vars, NEW i \in Jobs \ L
  PROVE  ProviderMoves(i)
PROOF
<1> USE DEF providerVars, launcherVars, vars
<1>1. MayRun(i) => OpenLaunch(i)
  BY DEF ConsistentBut, JobConsistent, OpenLaunch
<1>2. UNCHANGED providerVars => ProviderMoves(i)
  BY DEF ProviderMoves
<1>3. ASSUME NEW j \in Jobs, NEW d \in Durations, remote[j] = "running", Terminate(j, d)
      PROVE  ProviderMoves(i)
  <2>1. CASE i = j
    BY <1>1, <1>3, <2>1, InputAssumption DEF Terminate, ProviderMoves, MayRun, TypeOK
  <2>2. CASE i # j
    BY <1>3, <2>2 DEF Terminate, ProviderMoves, TypeOK
  <2> QED BY <2>1, <2>2
<1>4. ASSUME NEW j \in Jobs, LauncherStep(j) PROVE ProviderMoves(i)
  <2>1. CASE RequestBrowser(j)
    <3>1. remote[j] = "none"
      BY <2>1 DEF RequestBrowser, ConsistentBut, JobConsistent, LauncherConsistent
    <3> QED BY <2>1, <3>1 DEF RequestBrowser, ProviderMoves, TypeOK
  <2>2. CASE CloseBrowser(j)
    BY <1>3, <2>2 DEF CloseBrowser, ProviderMoves
  <2>3. CASE UNCHANGED providerVars
    BY <1>2, <2>3
  <2> QED
    BY <1>4, <2>1, <2>2, <2>3
       DEF LauncherStep, FailBeforeRequest, ReceiveReply, LoseReply, SaveReference, Finish, FinishFenced
<1>5. ASSUME NEW j \in Jobs, ProviderStep(j) PROVE ProviderMoves(i)
  <2>1. CASE ProviderStops(j)
    BY <1>3, <2>1 DEF ProviderStops
  <2>2. CASE ProviderCreates(j) \/ ProviderRejects(j)
    BY <2>2 DEF ProviderCreates, ProviderRejects, ProviderMoves, TypeOK
  <2> QED BY <1>5, <2>1, <2>2 DEF ProviderStep
<1>6. ASSUME NEW t \in recoveries, RecoveryStep(t) PROVE ProviderMoves(i)
  <2>1. t.job \in Jobs
    BY DEF TypeOK, RecoveryClaims
  <2>2. CASE QueryProvider(t)
    BY <1>3, <2>1, <2>2 DEF QueryProvider, ProviderMoves
  <2>3. CASE UNCHANGED providerVars
    BY <1>2, <2>3
  <2> QED BY <1>6, <2>2, <2>3 DEF RecoveryStep, Recover, RecoverFenced
<1>7. ASSUME ~\E j \in Jobs : LauncherStep(j) \/ ProviderStep(j),
             ~\E t \in recoveries : RecoveryStep(t)
      PROVE  UNCHANGED providerVars
  BY <1>7, ZenonT(60) DEF Next, ClaimExpired, ClaimQueued, RefuseQueued, ClaimQuarantined, TimeStep, LeaseExpires,
              HolderStalls, BackOffEnds, CancelRun, Crash
<1> QED BY <1>2, <1>4, <1>5, <1>6, <1>7

(* What was measured stays so. *)
LEMMA MeasuredStays ==
  ASSUME NEW j \in Jobs, NEW seconds, ProviderMoves(j), Measured(j, seconds)
  PROVE  Measured(j, seconds)'
PROOF
  BY DEF Measured, ProviderMoves

(* A step that leaves the ledger of a job alone keeps its row.             *)
LEMMA LedgerRowKept ==
  ASSUME NEW j \in Jobs, LedgerRow(j), ProviderMoves(j),
         usage'[j] = usage[j], observation'[j] = observation[j],
         reserved'[j] = reserved[j], consumed'[j] = consumed[j], released'[j] = released[j],
         launch'[j] = launch[j] \/ (OpenLaunch(j) /\ OpenLaunch(j)')
  PROVE  LedgerRow(j)'
PROOF
<1>1. (remote[j] = "terminal" => duration[j] \in Nat)'
  BY DEF LedgerRow, ProviderMoves
<1>2. (usage[j] # NULL => Measured(j, usage[j].seconds))'
  BY DEF LedgerRow, ProviderMoves, Measured
<1>3. (observation[j] # NULL => Measured(j, observation[j].actual))'
  BY DEF LedgerRow, ProviderMoves, Measured
<1>4. /\ (launch[j] = "none" => released[j] = 0)'
      /\ (OpenLaunch(j) => reserved[j] = SessionSeconds /\ released[j] = 0)'
  BY DEF LedgerRow, OpenLaunch
<1>5. (launch[j] = "settled" /\ remote[j] = "terminal"
         => consumed[j] >= duration[j] \/ consumed[j] >= SessionSeconds)'
  BY DEF LedgerRow, OpenLaunch, ProviderMoves
<1> QED BY <1>1, <1>2, <1>3, <1>4, <1>5 DEF LedgerRow

(* settle() consumes at least what was measured, or the reservation, and   *)
(* releases nothing of an unconfirmed session.                             *)
LEMMA SettleEffect ==
  ASSUME TypeOK, NEW j \in Jobs, NEW seconds \in SecondsOrNull, NEW confirmed \in BOOLEAN,
         NEW charge \in Nat, Settle(j, seconds, confirmed, charge)
  PROVE  /\ seconds # NULL => consumed'[j] >= seconds
         /\ seconds = NULL /\ confirmed => consumed'[j] >= SessionSeconds
         /\ ~confirmed => released'[j] = 0
         /\ reserved' = reserved
         /\ \A i \in Jobs \ {j} : consumed'[i] = consumed[i] /\ released'[i] = released[i]
PROOF
<1> DEFINE billed == IF seconds # NULL THEN seconds ELSE IF confirmed THEN SessionSeconds ELSE 0
           used == Larger(consumed[j], Larger(billed, charge))
<1>1. billed \in Nat /\ consumed[j] \in Nat
  BY PolicyAssumption DEF SecondsOrNull, TypeOK
<1>2. used >= billed
  <2> HIDE DEF billed
  <2> QED BY <1>1 DEF Larger
<1>3. consumed' = [consumed EXCEPT ![j] = used] /\ released' = [released EXCEPT ![j] = Refund(j, used, confirmed)]
      /\ reserved' = reserved
  BY DEF Settle
<1>4. consumed'[j] = used /\ released'[j] = Refund(j, used, confirmed)
      /\ \A i \in Jobs \ {j} : consumed'[i] = consumed[i] /\ released'[i] = released[i]
  <2> HIDE DEF used
  <2> QED BY <1>3 DEF TypeOK
<1>5. ~confirmed => Refund(j, used, confirmed) = 0
  BY DEF Refund
<1>6. (seconds # NULL => billed = seconds) /\ (seconds = NULL /\ confirmed => billed = SessionSeconds)
  OBVIOUS
<1> HIDE DEF used, billed
<1> QED BY <1>2, <1>3, <1>4, <1>5, <1>6

(* observeCharge() keeps a measured duration measured.                     *)
LEMMA ObserveMeasures ==
  ASSUME TypeOK, NEW j \in Jobs, NEW seconds \in SecondsOrNull, NEW terminal \in BOOLEAN,
         observation[j] # NULL => Measured(j, observation[j].actual), Measured(j, seconds)
  PROVE  Measured(j, Observe(j, seconds, terminal).actual)
PROOF
<1>1. observation[j] \in Observations \cup {NULL}
  BY DEF TypeOK
<1>2. CASE observation[j] = NULL
  BY <1>2 DEF Observe
<1>3. CASE observation[j] # NULL
  BY <1>3 DEF Observe, Larger, Measured
<1> QED BY <1>2, <1>3

(* finish() and recover(), of what they know of the session's end.         *)
LEMMA LedgerSettled ==
  ASSUME TypeOK, NEW j \in Jobs, LedgerRow(j),
         NEW seconds \in SecondsOrNull, NEW confirmed \in BOOLEAN, NEW charge \in Nat,
         NEW outcome \in TerminalStatuses,
         Settle(j, seconds, confirmed, charge), SettleLaunch(j, confirmed, outcome),
         confirmed /\ remote[j] = "terminal" => Measured(j, seconds), OpenLaunch(j),
         UNCHANGED <<providerVars, usage>>,
         (observation[j] # NULL => Measured(j, observation[j].actual))'
  PROVE  LedgerRow(j)'
PROOF
<1> USE DEF providerVars
<1>1. /\ launch'[j] \in {"settled", "quarantined", "recovering"}
      /\ launch'[j] = "settled" => confirmed
      /\ launch'[j] # "settled" => ~confirmed
  <2>1. CASE confirmed
    <3>1. launch' = [launch EXCEPT ![j] = "settled"]
      BY <2>1 DEF SettleLaunch
    <3> QED BY <2>1, <3>1 DEF TypeOK
  <2>2. CASE ~confirmed
    BY <2>2, SettleLaunchEffect
  <2> QED BY <2>1, <2>2
<1>2. /\ seconds # NULL => consumed'[j] >= seconds
      /\ seconds = NULL /\ confirmed => consumed'[j] >= SessionSeconds
      /\ ~confirmed => released'[j] = 0
      /\ reserved' = reserved
  BY SettleEffect
<1>3. (launch[j] = "settled" /\ remote[j] = "terminal"
         => consumed[j] >= duration[j] \/ consumed[j] >= SessionSeconds)'
  BY <1>1, <1>2 DEF Measured
<1>4. /\ (launch[j] = "none" => released[j] = 0)'
      /\ (OpenLaunch(j) => reserved[j] = SessionSeconds /\ released[j] = 0)'
  BY <1>1, <1>2 DEF OpenLaunch, LedgerRow
<1>5. (remote[j] = "terminal" => duration[j] \in Nat)' /\ (usage[j] # NULL => Measured(j, usage[j].seconds))'
  BY DEF LedgerRow, Measured
<1> QED BY <1>3, <1>4, <1>5 DEF LedgerRow

(* The steps that write nothing in the ledger.                             *)
LedgerUntouched ==
  /\ \A j \in Jobs : /\ usage'[j] = usage[j] /\ observation'[j] = observation[j]
                     /\ reserved'[j] = reserved[j] /\ consumed'[j] = consumed[j]
                     /\ released'[j] = released[j]
                     /\ launch'[j] = launch[j] \/ (OpenLaunch(j) /\ OpenLaunch(j)')
  /\ \A t \in recoveries' : t \in recoveries \/ t.result = NULL

LEMMA LedgerUntouchedKept ==
  ASSUME TypeOK, NEW L, ConsistentBut(L), [Next]_vars, LedgerBut(L), LedgerUntouched
  PROVE  LedgerBut(L)'
PROOF
<1>1. \A j \in Jobs \ L : LedgerRow(j)'
  BY ProviderMovesOn, LedgerRowKept DEF LedgerBut, LedgerUntouched
<1>2. ASSUME NEW t \in recoveries', t.job \notin L PROVE LedgerClaim(t)'
  <2>1. CASE t.result = NULL
    BY <2>1 DEF LedgerClaim
  <2>2. CASE t \in recoveries
    <3>1. t.job \in Jobs \ L /\ LedgerClaim(t)
      BY <1>2, <2>2 DEF TypeOK, RecoveryClaims, LedgerBut
    <3> QED BY <3>1, ProviderMovesOn, MeasuredStays DEF LedgerClaim
  <2> QED BY <2>1, <2>2 DEF LedgerUntouched
<1> QED BY <1>1, <1>2 DEF LedgerBut

(* Claims, cancellations, crashes, time and the provider.                  *)
LEMMA LedgerOutside ==
  ASSUME TypeOK, NEW L, ConsistentBut(L), [Next]_vars, LedgerBut(L),
         \/ \E w \in Workers : RefuseQueued(w) \/ \E j \in Jobs : ClaimExpired(w, j)
         \/ \E j \in Jobs : ProviderStep(j) \/ TimeStep(j) \/ ClaimQuarantined(j)
         \/ \E t \in recoveries : RecoverFenced(t)
         \/ \E r \in Runs : CancelRun(r)
         \/ \E w \in Holders : Crash(w)
         \/ UNCHANGED vars
  PROVE  LedgerBut(L)'
PROOF
<1> USE DEF leaseVars, launchVars, runVars, attemptVars, ledgerVars, providerVars,
            claimVars, launcherVars, boundVars, vars, LedgerUntouched
<1>1. ASSUME NEW w, NEW j \in Jobs, StartRecovery(j, w), OpenLaunch(j),
             UNCHANGED <<ledgerVars, usage>>
      PROVE  LedgerUntouched
  <2>1. /\ \A i \in Jobs \ {j} : launch'[i] = launch[i]
        /\ launch'[j] = "recovering"
    BY <1>1 DEF StartRecovery, TypeOK
  <2>2. \A i \in Jobs : launch'[i] = launch[i] \/ (OpenLaunch(i) /\ OpenLaunch(i)')
    BY <1>1, <2>1 DEF OpenLaunch
  <2> DEFINE claim == [job |-> j, worker |-> w, generation |-> generation[j] + 1, result |-> NULL]
  <2>3. recoveries' = recoveries \cup {claim} /\ claim.result = NULL
    BY <1>1 DEF StartRecovery
  <2> HIDE DEF claim
  <2>4. \A t \in recoveries' : t \in recoveries \/ t.result = NULL
    BY <2>3
  <2> QED BY <1>1, <2>2, <2>4
<1>2. ASSUME NEW w \in Workers, NEW j \in Jobs, ClaimExpired(w, j) PROVE LedgerUntouched
  <2>1. OpenLaunch(j)
    BY <1>2 DEF ClaimExpired, Expired, OpenLaunch
  <2> QED BY <1>1, <1>2, <2>1 DEF ClaimExpired
<1>3. ASSUME NEW j \in Jobs, ClaimQuarantined(j) PROVE LedgerUntouched
  <2>1. OpenLaunch(j)
    BY <1>3 DEF ClaimQuarantined, OpenLaunch
  <2> QED BY <1>1, <1>3, <2>1 DEF ClaimQuarantined
<1>4. ASSUME NEW w \in Workers, RefuseQueued(w) PROVE LedgerUntouched
  BY <1>4 DEF RefuseQueued
<1>5. ASSUME NEW j \in Jobs, ProviderStep(j) \/ TimeStep(j) PROVE LedgerUntouched
  BY <1>5 DEF ProviderStep, TimeStep, ProviderCreates, ProviderRejects, ProviderStops, LeaseExpires,
              HolderStalls, BackOffEnds
<1>6. ASSUME NEW t \in recoveries, RecoverFenced(t) PROVE LedgerUntouched
  BY <1>6 DEF RecoverFenced
<1>7. ASSUME NEW r \in Runs, CancelRun(r) PROVE LedgerUntouched
  BY <1>7 DEF CancelRun
<1>8. ASSUME NEW w \in Holders, Crash(w) PROVE LedgerUntouched
  BY <1>8 DEF Crash
<1>9. UNCHANGED vars => LedgerUntouched
  OBVIOUS
<1>10. LedgerUntouched
  BY <1>2, <1>3, <1>4, <1>5, <1>6, <1>7, <1>8, <1>9
<1> QED BY <1>10, LedgerUntouchedKept

(* The claim that reserves the time of a launch.                           *)
LEMMA LedgerClaimed ==
  ASSUME TypeOK, NEW L, ConsistentBut(L), [Next]_vars, LedgerBut(L), NEW w \in Workers, NEW j \in Jobs,
         ClaimQueued(w, j)
  PROVE  LedgerBut(L)'
PROOF
<1> USE DEF providerVars, boundVars
<1>1. /\ launch[j] = "none"
      /\ UNCHANGED <<consumed, released, observation, usage, recoveries, remote, duration>>
      /\ launch' = [launch EXCEPT ![j] = "intent"]
      /\ reserved' = [reserved EXCEPT ![j] = SessionSeconds]
  BY DEF ClaimQueued, Selected, ConsistentBut, JobConsistent, RowConsistent
<1>2. j \notin L => LedgerRow(j)'
  BY <1>1 DEF LedgerBut, LedgerRow, Measured, OpenLaunch, TypeOK
<1>3. ASSUME NEW i \in Jobs \ L, i # j PROVE LedgerRow(i)'
  BY <1>1, <1>3, ProviderMovesOn, LedgerRowKept DEF LedgerBut, TypeOK
<1>4. \A t \in recoveries' : t.job \notin L => LedgerClaim(t)'
  BY <1>1 DEF LedgerBut, LedgerClaim, Measured
<1> QED BY <1>2, <1>3, <1>4 DEF LedgerBut

(* An execution's report tells a duration only of a session that is over.  *)
LEMMA LedgerReported ==
  ASSUME TypeOK, NEW L, ConsistentBut(L), [Next]_vars, LedgerBut(L), NEW j \in Jobs, NEW u \in UsageRecords,
         usage' = [usage EXCEPT ![j] = u], Measured(j, u.seconds)',
         UNCHANGED <<ledgerVars, recoveries>>,
         \A i \in Jobs : launch'[i] = launch[i]
  PROVE  LedgerBut(L)'
PROOF
<1> USE DEF ledgerVars
<1>1. usage'[j] = u /\ \A i \in Jobs \ {j} : usage'[i] = usage[i]
  BY DEF TypeOK
<1>2. ASSUME NEW i \in Jobs \ L, i # j PROVE LedgerRow(i)'
  BY <1>1, <1>2, ProviderMovesOn, LedgerRowKept DEF LedgerBut
<1>3. ASSUME j \notin L PROVE LedgerRow(j)'
  <2>1. ProviderMoves(j) /\ LedgerRow(j)
    BY <1>3, ProviderMovesOn DEF LedgerBut
  <2>2. (observation[j] # NULL => Measured(j, observation[j].actual))'
    BY <2>1 DEF LedgerRow, ProviderMoves, Measured
  <2> QED BY <1>1, <2>1, <2>2 DEF LedgerRow, ProviderMoves, OpenLaunch
<1>4. ASSUME NEW t \in recoveries, t.job \notin L PROVE LedgerClaim(t)'
  <2>1. t.job \in Jobs \ L /\ LedgerClaim(t)
    BY <1>4 DEF TypeOK, RecoveryClaims, LedgerBut
  <2> QED BY <2>1, ProviderMovesOn, MeasuredStays DEF LedgerClaim
<1> QED BY <1>2, <1>3, <1>4 DEF LedgerBut

LEMMA LedgerLaunched ==
  ASSUME TypeOK, NEW L, ConsistentBut(L), [Next]_vars, LedgerBut(L), NEW j \in Jobs, LauncherStep(j), ~Finish(j)
  PROVE  LedgerBut(L)'
PROOF
<1> USE DEF leaseVars, launchVars, runVars, attemptVars, ledgerVars, providerVars,
            claimVars, launcherVars, boundVars
<1>1. CASE FailBeforeRequest(j) \/ LoseReply(j)
  <2>1. PICK u \in UsageRecords : u.seconds = NULL /\ usage' = [usage EXCEPT ![j] = u]
    <3>1. \A b \in BOOLEAN : LET u == [attempted |-> b, terminal |-> FALSE, seconds |-> NULL] IN
            u \in UsageRecords /\ u.seconds = NULL
      BY DEF UsageRecords, SecondsOrNull
    <3> QED BY <1>1, <3>1 DEF FailBeforeRequest, LoseReply
  <2>2. Measured(j, u.seconds)'
    BY <2>1 DEF Measured
  <2> QED BY <1>1, <2>1, <2>2, LedgerReported DEF FailBeforeRequest, LoseReply
<1>2. CASE CloseBrowser(j)
  <2>1. PICK terminal \in BOOLEAN, seconds \in {duration'[j], NULL} :
          /\ terminal => remote'[j] = "terminal"
          /\ seconds # NULL => terminal
          /\ usage' = [usage EXCEPT ![j] =
                         [attempted |-> TRUE, terminal |-> terminal, seconds |-> seconds]]
    BY <1>2 DEF CloseBrowser
  <2> DEFINE u == [attempted |-> TRUE, terminal |-> terminal, seconds |-> seconds]
  <2>2. duration'[j] \in SecondsOrNull
    BY <1>2, InputAssumption DEF CloseBrowser, Terminate, TypeOK, SecondsOrNull
  <2>3. u \in UsageRecords /\ u.seconds = seconds
    BY <2>2 DEF UsageRecords, SecondsOrNull
  <2>4. usage' = [usage EXCEPT ![j] = u]
    BY <2>1
  <2> HIDE DEF u
  <2>5. Measured(j, u.seconds)'
    BY <2>1, <2>3 DEF Measured
  <2> QED BY <1>2, <2>3, <2>4, <2>5, LedgerReported DEF CloseBrowser
<1>3. CASE RequestBrowser(j) \/ ReceiveReply(j) \/ SaveReference(j) \/ FinishFenced(j)
  <2>1. LedgerUntouched
    <3>1. CASE SaveReference(j)
      <4>1. OpenLaunch(j)
        BY <3>1 DEF SaveReference, LauncherHolds, HoldsLease, ConsistentBut, JobConsistent, RowConsistent, OpenLaunch
      <4> QED BY <3>1, <4>1 DEF SaveReference, LedgerUntouched, OpenLaunch, TypeOK
    <3>2. CASE RequestBrowser(j) \/ ReceiveReply(j) \/ FinishFenced(j)
      BY <3>2 DEF RequestBrowser, ReceiveReply, FinishFenced, LedgerUntouched
    <3> QED BY <1>3, <3>1, <3>2
  <2> QED BY <2>1, LedgerUntouchedKept
<1> QED BY <1>1, <1>2, <1>3 DEF LauncherStep

(* finish().                                                               *)
LEMMA LedgerFinished ==
  ASSUME TypeOK, NEW L, ConsistentBut(L), [Next]_vars, LedgerBut(L), NEW j \in Jobs, Finish(j)
  PROVE  LedgerBut(L)'
PROOF
<1> USE DEF providerVars
<1> DEFINE u == usage[j]
           confirmed == ~u.attempted \/ u.terminal
           seconds == IF u.attempted THEN u.seconds ELSE 0
<1>1. u \in UsageRecords /\ LedgerRow(j) /\ OpenLaunch(j) /\ u # NULL
  BY SMTT(60) DEF Finish, ConsistentBut, JobConsistent, LauncherConsistent, RowConsistent, LauncherHolds,
         HoldsLease, TypeOK, LedgerBut, OpenLaunch
<1>2. /\ u.attempted \in BOOLEAN /\ u.terminal \in BOOLEAN /\ u.seconds \in SecondsOrNull
      /\ confirmed \in BOOLEAN /\ seconds \in SecondsOrNull
  BY <1>1 DEF UsageRecords, SecondsOrNull
<1>3. /\ Settle(j, seconds, confirmed, 0)
      /\ \E outcome \in ResultsOf(u) : SettleLaunch(j, confirmed, outcome)
      /\ observation' = [observation EXCEPT ![j] =
           IF sessionRef[j] /\ (u.seconds # NULL \/ confirmed)
           THEN Observe(j, u.seconds, u.terminal) ELSE @]
      /\ UNCHANGED <<providerVars, usage, recoveries>>
  BY DEF Finish
<1>4. PICK outcome \in ResultsOf(u) : SettleLaunch(j, confirmed, outcome)
  BY <1>3
<1>5. outcome \in TerminalStatuses
  BY InputAssumption DEF ResultsOf, TerminalStatuses
<1>6. confirmed /\ remote[j] = "terminal" => Measured(j, seconds)
  <2>1. ~u.attempted => remote[j] = "none"
    BY DEF Finish, ConsistentBut, JobConsistent, LauncherConsistent
  <2> QED BY <1>1, <2>1 DEF LedgerRow
<1> DEFINE reported == IF sessionRef[j] /\ (u.seconds # NULL \/ confirmed)
                       THEN Observe(j, u.seconds, u.terminal) ELSE observation[j]
<1>7. /\ observation'[j] = reported
      /\ \A i \in Jobs \ {j} : observation'[i] = observation[i]
  <2>1. observation' = [observation EXCEPT ![j] = reported]
    BY <1>3
  <2> HIDE DEF reported
  <2> QED BY <2>1 DEF TypeOK
<1>8. (observation[j] # NULL => Measured(j, observation[j].actual))'
  <2>1. Measured(j, u.seconds) /\ (observation[j] # NULL => Measured(j, observation[j].actual))
    BY <1>1 DEF LedgerRow
  <2>2. Measured(j, Observe(j, u.seconds, u.terminal).actual)
    BY <1>2, <2>1, ObserveMeasures
  <2>3. reported # NULL => Measured(j, reported.actual)
    BY <2>1, <2>2
  <2> HIDE DEF reported
  <2> QED BY <1>3, <1>7, <2>3 DEF Measured
<1>9. 0 \in Nat
  OBVIOUS
<1> HIDE DEF confirmed, seconds, u, reported
<1>10. LedgerRow(j)'
  BY <1>1, <1>2, <1>3, <1>4, <1>5, <1>6, <1>8, <1>9, LedgerSettled
<1>11. ASSUME NEW i \in Jobs \ L, i # j PROVE LedgerRow(i)'
  <2>1. consumed'[i] = consumed[i] /\ released'[i] = released[i] /\ reserved' = reserved
    BY <1>2, <1>3, <1>9, <1>11, SettleEffect
  <2>2. launch'[i] = launch[i]
    BY <1>2, <1>4, <1>5, <1>11, SettleLaunchEffect
  <2> QED BY <1>3, <1>7, <1>11, <2>1, <2>2, ProviderMovesOn, LedgerRowKept DEF LedgerBut
<1>12. \A t \in recoveries' : t.job \notin L => LedgerClaim(t)'
  BY <1>3 DEF LedgerBut, LedgerClaim, Measured
<1> QED BY <1>10, <1>11, <1>12 DEF LedgerBut

(* What a recovery asks the provider, and recover().                       *)
LEMMA LedgerRecovered ==
  ASSUME TypeOK, NEW L, ConsistentBut(L), [Next]_vars, LedgerBut(L), NEW t \in recoveries, RecoveryStep(t),
         ~RecoverFenced(t)
  PROVE  LedgerBut(L)'
PROOF
<1> USE DEF leaseVars, launchVars, runVars, attemptVars, ledgerVars, providerVars,
            claimVars, launcherVars, boundVars
<1>1. /\ t \in RecoveryClaims /\ t.job \in Jobs
      /\ t.result \in RecoveryResults \cup {NULL} /\ (t.job \notin L => LedgerClaim(t))
  BY DEF TypeOK, RecoveryClaims, LedgerBut
<1>2. ASSUME NEW s \in recoveries, s.job \notin L PROVE LedgerClaim(s)'
  <2>1. s.job \in Jobs \ L /\ LedgerClaim(s)
    BY <1>2 DEF TypeOK, RecoveryClaims, LedgerBut
  <2> QED BY <2>1, ProviderMovesOn, MeasuredStays DEF LedgerClaim
<1>3. CASE QueryProvider(t)
  <2>1. PICK found : /\ found.seconds # NULL => /\ remote'[t.job] = "terminal"
                                                /\ found.seconds = duration'[t.job]
                     /\ recoveries' = (recoveries \ {t}) \cup {[t EXCEPT !.result = found]}
    BY <1>3 DEF QueryProvider, NothingFound
  <2>2. LedgerClaim([t EXCEPT !.result = found])'
    <3> DEFINE s == [t EXCEPT !.result = found]
    <3>1. s.job = t.job /\ s.result = found
      BY <1>1 DEF RecoveryClaims
    <3> HIDE DEF s
    <3>2. LedgerClaim(s)'
      BY <2>1, <3>1 DEF LedgerClaim, Measured
    <3> QED BY <3>2 DEF s
  <2>3. \A i \in Jobs \ L : LedgerRow(i)'
    BY <1>3, ProviderMovesOn, LedgerRowKept DEF QueryProvider, LedgerBut
  <2> QED BY <1>2, <2>1, <2>2, <2>3 DEF LedgerBut
<1>4. CASE Recover(t)
  <2> DEFINE j == t.job
             found == t.result
             observed == IF found.seen THEN Observe(j, found.seconds, found.terminal)
                         ELSE observation[j]
             confirmed == ProvenOver(found, observed)
             charge == IF observed = NULL THEN 0 ELSE observed.charged
             seconds == IF observed = NULL THEN NULL ELSE observed.actual
  <2>1. found \in RecoveryResults /\ found # NULL /\ j \notin L
    BY <1>1, <1>4 DEF Recover, HoldsLease, ConsistentBut, JobConsistent, RowConsistent
  <2>2. found.seen \in BOOLEAN /\ found.terminal \in BOOLEAN /\ found.seconds \in SecondsOrNull
    BY <2>1 DEF RecoveryResults
  <2>3. Observe(j, found.seconds, found.terminal) \in Observations
    BY <1>1, <2>2, ObserveType
  <2>4. observed \in Observations \cup {NULL} /\ (found.seen => observed # NULL)
    BY <1>1, <2>3, NullAssumption DEF TypeOK
  <2>5. observed # NULL => Measured(j, observed.actual)
    <3>1. LedgerRow(j) /\ Measured(j, found.seconds)
      BY <1>1, <2>1 DEF LedgerBut, LedgerClaim
    <3>2. Measured(j, Observe(j, found.seconds, found.terminal).actual)
      BY <1>1, <2>2, <3>1, ObserveMeasures DEF LedgerRow
    <3> QED BY <3>1, <3>2 DEF LedgerRow
  <2>6. /\ observation' = [observation EXCEPT ![j] = observed]
        /\ Settle(j, seconds, confirmed, charge)
        /\ SettleLaunch(j, confirmed, "infrastructure_failed")
        /\ recoveries' = recoveries \ {t}
        /\ HoldsLease(j, t.worker, t.generation)
        /\ UNCHANGED <<providerVars, usage>>
    BY <1>4 DEF Recover
  <2>7. confirmed \in BOOLEAN /\ (confirmed => found.seen)
    BY <2>2 DEF ProvenOver
  <2> HIDE DEF observed, confirmed
  <2>8. charge \in Nat /\ seconds \in SecondsOrNull
    BY <2>4 DEF Observations, SecondsOrNull
  <2>9. Measured(j, seconds)
    BY <2>5 DEF Measured
  <2> HIDE DEF j, charge, seconds
  <2>10. j \in Jobs \ L /\ "infrastructure_failed" \in TerminalStatuses /\ LedgerRow(j)
    BY <1>1, <2>1 DEF j, TerminalStatuses, LedgerBut
  <2>11. OpenLaunch(j)
    BY <2>6, <2>10 DEF HoldsLease, ConsistentBut, JobConsistent, RowConsistent, OpenLaunch
  <2>12. observation'[j] = observed /\ \A i \in Jobs \ {j} : observation'[i] = observation[i]
    BY <2>6, <2>10 DEF TypeOK
  <2>13. (observation[j] # NULL => Measured(j, observation[j].actual))'
    BY <2>5, <2>6, <2>12 DEF Measured
  <2>14. LedgerRow(j)'
    BY <2>6, <2>7, <2>8, <2>9, <2>10, <2>11, <2>13, LedgerSettled
  <2>15. ASSUME NEW i \in Jobs \ L, i # j PROVE LedgerRow(i)'
    <3>1. consumed'[i] = consumed[i] /\ released'[i] = released[i] /\ reserved' = reserved
      BY <2>6, <2>7, <2>8, <2>10, <2>15, SettleEffect
    <3>2. launch'[i] = launch[i]
      BY <2>6, <2>7, <2>10, <2>15, SettleLaunchEffect
    <3> QED BY <2>6, <2>12, <2>15, <3>1, <3>2, ProviderMovesOn, LedgerRowKept DEF LedgerBut
  <2> QED BY <1>2, <2>6, <2>14, <2>15 DEF LedgerBut
<1> QED BY <1>3, <1>4 DEF RecoveryStep

(* The smaller of two numbers is one of them.                              *)
LEMMA LesserIsOne ==
  ASSUME NEW a \in Nat, NEW b \in Nat, NEW c \in Nat, c >= a \/ c >= b
  PROVE  c >= Min({a, b})
PROOF
<1>1. \E x \in {a, b} : \A y \in {a, b} : x <= y
  OBVIOUS
<1>2. Min({a, b}) \in {a, b} /\ \A y \in {a, b} : Min({a, b}) <= y
  BY <1>1 DEF Min
<1> QED BY <1>2

(* Every step keeps the ledger of the jobs that were not let go.           *)
LEMMA LedgerStep ==
  ASSUME TypeOK, NEW L, ConsistentBut(L), LedgerBut(L), [Next]_vars
  PROVE  LedgerBut(L)'
PROOF
<1>1. ASSUME NEW w \in Workers, NEW j \in Jobs, ClaimQueued(w, j) PROVE LedgerBut(L)'
  BY <1>1, LedgerClaimed
<1>2. ASSUME NEW j \in Jobs, LauncherStep(j) PROVE LedgerBut(L)'
  BY <1>2, LedgerLaunched, LedgerFinished
<1>3. ASSUME NEW t \in recoveries, RecoveryStep(t) PROVE LedgerBut(L)'
  BY <1>3, LedgerRecovered, LedgerOutside
<1> QED BY <1>1, <1>2, <1>3, LedgerOutside DEF Next

(* What the row of a job says of its browser's time.                       *)
LEMMA RowCovers ==
  ASSUME TypeOK, NEW j \in Jobs, LedgerRow(j)
  PROVE  /\ launch[j] \notin {"none", "settled"} => reserved[j] = SessionSeconds /\ released[j] = 0
         /\ launch[j] = "settled" /\ remote[j] = "terminal"
              => consumed[j] >= Min({duration[j], SessionSeconds})
PROOF
<1>1. consumed[j] \in Nat /\ SessionSeconds \in Nat
  BY PolicyAssumption DEF TypeOK
<1> QED BY <1>1, LesserIsOne DEF LedgerRow, OpenLaunch

(* The ledger never undercounts: an open launch keeps its reservation, and *)
(* a settled one has consumed what was billed, or the reservation when     *)
(* nobody learned the bill (observeCharge(), settle()).                    *)
THEOREM LedgerCovers == Spec => []LedgerCoversBrowser
PROOF
<1>1. Init => LedgerBut({})
  BY DEF Init, LedgerBut, LedgerRow, LedgerClaim, OpenLaunch
<1>2. TypeOK /\ Consistent /\ LedgerBut({}) /\ [Next]_vars => LedgerBut({})'
  BY LedgerStep, ConsistentByJob
<1>3. TypeOK /\ LedgerBut({}) => LedgerCoversBrowser
  BY RowCovers DEF LedgerBut, LedgerCoversBrowser
<1> QED BY <1>1, <1>2, <1>3, InvariantHolds, PTL DEF Spec
-----------------------------------------------------------------------------
(* WorkerLease implements PaidSlot, and its browsers stay within the       *)
(* global and the owner ceilings.  Both follow from one description of     *)
(* what a step may do to slots and browsers.                               *)
Room(j) ==
  /\ Cardinality(Occupied) < GlobalConcurrency
  /\ Cardinality(OccupiedBy(OwnerOfJob(j))) < OwnerConcurrency

Keeps(i) == SlotOf(i)' = SlotOf(i) /\ BrowserOf(i)' = BrowserOf(i)
KeepOthers(j) == \A i \in Jobs \ {j} : Keeps(i)

Reserves(j) ==
  /\ SlotOf(j) = "free" /\ SlotOf(j)' = "held" /\ Room(j)
  /\ BrowserOf(j)' = BrowserOf(j)
  /\ KeepOthers(j)
Asks(j) ==
  /\ SlotOf(j) = "held" /\ SlotOf(j)' = "held"
  /\ BrowserOf(j) = "never" /\ BrowserOf(j)' = "possible"
  /\ KeepOthers(j)
Retires(j) ==
  /\ SlotOf(j)' = SlotOf(j)
  /\ BrowserOf(j) = "possible" /\ BrowserOf(j)' = "gone"
  /\ KeepOthers(j)
Releases(j) ==
  /\ SlotOf(j) = "held" /\ SlotOf(j)' = "released"
  /\ BrowserOf(j) # "possible" /\ BrowserOf(j)' = BrowserOf(j)
  /\ KeepOthers(j)

Moves(j) == Reserves(j) \/ Asks(j) \/ Retires(j) \/ Releases(j)
SlotStep == (\A i \in Jobs : Keeps(i)) \/ (\E j \in Jobs : Moves(j))
-----------------------------------------------------------------------------
(* A step that settles or defers a launch releases the slot of a browser   *)
(* that is over, or keeps it.                                              *)
LEMMA SettlingSlot ==
  ASSUME TypeOK, NEW j \in Jobs, NEW confirmed \in BOOLEAN, NEW outcome \in TerminalStatuses,
         SettleLaunch(j, confirmed, outcome),
         launch[j] \notin {"none", "settled"}, confirmed => ~MayRun(j), UNCHANGED remote
  PROVE  SlotStep
PROOF
<1>1. \A i \in Jobs : BrowserOf(i)' = BrowserOf(i)
  BY DEF BrowserOf, MayRun
<1>2. KeepOthers(j)
  BY <1>1, SettleLaunchEffect DEF KeepOthers, Keeps, SlotOf
<1>3. CASE launch'[j] = "settled"
  <2>1. confirmed
    BY <1>3, SettleLaunchEffect
  <2>2. Releases(j)
    BY <1>1, <1>2, <1>3, <2>1 DEF Releases, SlotOf, BrowserOf
  <2> QED
    BY <2>2 DEF SlotStep, Moves
<1>4. CASE launch'[j] \in {"recovering", "quarantined"}
  BY <1>1, <1>2, <1>4 DEF SlotStep, KeepOthers, Keeps, SlotOf
<1> QED
  BY <1>3, <1>4, SettleLaunchEffect

(* The provider and the workers end a browser, or leave it as it is.       *)
LEMMA EndingBrowser ==
  ASSUME TypeOK, NEW j \in Jobs, UNCHANGED launch,
         \/ remote' = remote
         \/ remote[j] \in {"requested", "running"} /\ \E s \in {"terminal", "rejected"} :
              remote' = [remote EXCEPT ![j] = s]
  PROVE  SlotStep
PROOF
<1>1. \A i \in Jobs : SlotOf(i)' = SlotOf(i)
  BY DEF SlotOf
<1>2. CASE remote' = remote
  BY <1>1, <1>2 DEF SlotStep, Keeps, BrowserOf, MayRun
<1>3. CASE remote[j] \in {"requested", "running"} /\ \E s \in {"terminal", "rejected"} :
             remote' = [remote EXCEPT ![j] = s]
  <2>1. remote'[j] \in {"terminal", "rejected"} /\ \A i \in Jobs \ {j} : remote'[i] = remote[i]
    BY <1>3 DEF TypeOK
  <2>2. Retires(j)
    BY <1>1, <1>3, <2>1 DEF Retires, KeepOthers, Keeps, BrowserOf, MayRun
  <2> QED
    BY <2>2 DEF SlotStep, Moves
<1> QED
  BY <1>2, <1>3

(* Every step keeps slots and browsers or moves those of one job.          *)
LEMMA StepMovesSlots ==
  ASSUME TypeOK, Consistent, [Next]_vars
  PROVE  SlotStep
PROOF
<1> USE DEF leaseVars, launchVars, runVars, attemptVars, ledgerVars, providerVars,
            claimVars, launcherVars, boundVars
<1>1. \A i \in Jobs : JobConsistent({}, i)
  BY ConsistentJobs
<1>2. ASSUME UNCHANGED <<launch, remote>>
      PROVE  SlotStep
  BY <1>2 DEF SlotStep, Keeps, SlotOf, BrowserOf, MayRun
<1>3. ASSUME NEW j \in Jobs, NEW w, StartRecovery(j, w), launch[j] \notin {"none", "settled"},
             UNCHANGED remote
      PROVE  SlotStep
  BY <1>3 DEF StartRecovery, TypeOK, SlotStep, Keeps, SlotOf, BrowserOf, MayRun
<1>4. ASSUME NEW w \in Workers, RefuseQueued(w)
      PROVE  SlotStep
  BY <1>2, <1>4 DEF RefuseQueued
<1>5. ASSUME NEW w \in Workers, NEW j \in Jobs, ClaimExpired(w, j)
      PROVE  SlotStep
  BY <1>3, <1>5 DEF ClaimExpired, Expired
<1>6. ASSUME NEW w \in Workers, NEW j \in Jobs, ClaimQueued(w, j)
      PROVE  SlotStep
  <2>1. launch[j] = "none" /\ remote' = remote
    BY <1>1, <1>6 DEF ClaimQueued, Selected, JobConsistent, RowConsistent
  <2>2. launch'[j] = "intent" /\ \A i \in Jobs \ {j} : launch'[i] = launch[i]
    BY <1>6 DEF ClaimQueued, TypeOK
  <2>3. Room(j)
    <3>1. IsFiniteSet(Occupied)
      BY JobsAssumption, FS_Subset DEF Occupied
    <3>2. Cardinality(Occupied) \in Nat
      BY <3>1, FS_CardinalityType
    <3> QED
      BY <1>6, <3>2, PolicyAssumption DEF Room, ClaimQueued, GlobalFull, Selected
  <2>4. Reserves(j)
    BY <2>1, <2>2, <2>3 DEF Reserves, KeepOthers, Keeps, SlotOf, BrowserOf, MayRun
  <2> QED
    BY <2>4 DEF SlotStep, Moves
<1>7. ASSUME NEW j \in Jobs, LauncherStep(j)
      PROVE  SlotStep
  <2>1. CASE RequestBrowser(j)
    <3>1. launch[j] \notin {"none", "settled"} /\ remote[j] = "none" /\ launch' = launch
      BY <1>1, <2>1 DEF RequestBrowser, LauncherHolds, HoldsLease, JobConsistent, RowConsistent,
                        LauncherConsistent
    <3>2. remote'[j] = "requested" /\ \A i \in Jobs \ {j} : remote'[i] = remote[i]
      BY <2>1 DEF RequestBrowser, TypeOK
    <3>3. Asks(j)
      BY <3>1, <3>2 DEF Asks, KeepOthers, Keeps, SlotOf, BrowserOf, MayRun
    <3> QED
      BY <3>3 DEF SlotStep, Moves
  <2>2. CASE FailBeforeRequest(j) \/ ReceiveReply(j) \/ LoseReply(j) \/ FinishFenced(j)
    BY <1>2, <2>2 DEF FailBeforeRequest, ReceiveReply, LoseReply, FinishFenced
  <2>3. CASE SaveReference(j)
    <3>1. launch[j] \notin {"none", "settled"}
      BY <1>1, <2>3 DEF SaveReference, LauncherHolds, HoldsLease, JobConsistent, RowConsistent
    <3> QED
      BY <2>3, <3>1 DEF SaveReference, TypeOK, SlotStep, Keeps, SlotOf, BrowserOf, MayRun
  <2>4. CASE CloseBrowser(j)
    BY <2>4, EndingBrowser DEF CloseBrowser, Terminate
  <2>5. CASE Finish(j)
    <3> DEFINE u == usage[j]
               confirmed == ~u.attempted \/ u.terminal
    <3>1. PICK outcome \in ResultsOf(u) : SettleLaunch(j, confirmed, outcome)
      BY <2>5 DEF Finish
    <3>2. outcome \in TerminalStatuses
      BY InputAssumption DEF ResultsOf, TerminalStatuses
    <3>3. u \in UsageRecords
      BY <1>1, <2>5 DEF Finish, JobConsistent, LauncherConsistent, TypeOK
    <3>4. confirmed \in BOOLEAN /\ (confirmed => ~MayRun(j))
      BY <1>1, <2>5, <3>3 DEF Finish, JobConsistent, LauncherConsistent, UsageRecords, MayRun
    <3>5. launch[j] \notin {"none", "settled"} /\ remote' = remote
      BY <1>1, <2>5 DEF Finish, LauncherHolds, HoldsLease, JobConsistent, RowConsistent
    <3> HIDE DEF confirmed
    <3> QED
      BY <3>1, <3>2, <3>4, <3>5, SettlingSlot
  <2> QED
    BY <1>7, <2>1, <2>2, <2>3, <2>4, <2>5 DEF LauncherStep
<1>8. ASSUME NEW j \in Jobs, ProviderStep(j)
      PROVE  SlotStep
  <2>1. CASE ProviderCreates(j)
    BY <2>1 DEF ProviderCreates, TypeOK, SlotStep, Keeps, SlotOf, BrowserOf, MayRun
  <2>2. CASE ProviderRejects(j) \/ ProviderStops(j)
    BY <2>2, EndingBrowser DEF ProviderRejects, ProviderStops, Terminate
  <2> QED
    BY <1>8, <2>1, <2>2 DEF ProviderStep
<1>9. ASSUME NEW j \in Jobs, TimeStep(j)
      PROVE  SlotStep
  BY <1>2, <1>9 DEF TimeStep, LeaseExpires, HolderStalls, BackOffEnds
<1>10. ASSUME NEW j \in Jobs, ClaimQuarantined(j)
       PROVE  SlotStep
  BY <1>3, <1>10 DEF ClaimQuarantined
<1>11. ASSUME NEW t \in recoveries, RecoveryStep(t)
       PROVE  SlotStep
  <2>1. t.job \in Jobs /\ t.result \in RecoveryResults \cup {NULL} /\ RecoveryConsistent(t)
    BY DEF TypeOK, RecoveryClaims, Consistent
  <2>2. CASE QueryProvider(t)
    BY <2>1, <2>2, EndingBrowser DEF QueryProvider, Terminate
  <2>3. CASE Recover(t)
    <3> DEFINE j == t.job
               found == t.result
               observed == IF found.seen THEN Observe(j, found.seconds, found.terminal)
                           ELSE observation[j]
               confirmed == ProvenOver(found, observed)
    <3>1. /\ SettleLaunch(j, confirmed, "infrastructure_failed")
          /\ HoldsLease(j, t.worker, t.generation)
          /\ UNCHANGED remote
          /\ t.result # NULL
      BY <2>3 DEF Recover
    <3>2. confirmed \in BOOLEAN /\ (confirmed => ~MayRun(j))
      BY <2>1, <3>1 DEF ProvenOver, RecoveryConsistent, MayRun
    <3> HIDE DEF confirmed
    <3>3. launch[j] \notin {"none", "settled"} /\ "infrastructure_failed" \in TerminalStatuses
      BY <1>1, <2>1, <3>1 DEF HoldsLease, JobConsistent, RowConsistent, TerminalStatuses
    <3> QED
      BY <2>1, <3>1, <3>2, <3>3, SettlingSlot
  <2>4. CASE RecoverFenced(t)
    BY <1>2, <2>4 DEF RecoverFenced
  <2> QED
    BY <1>11, <2>2, <2>3, <2>4 DEF RecoveryStep
<1>12. ASSUME NEW r \in Runs, CancelRun(r)
       PROVE  SlotStep
  BY <1>2, <1>12 DEF CancelRun, QueuedOfRun
<1>13. ASSUME NEW w \in Holders, Crash(w)
       PROVE  SlotStep
  BY <1>2, <1>13 DEF Crash
<1>14. CASE UNCHANGED vars
  BY <1>2, <1>14 DEF vars
<1> QED
  BY <1>4, <1>5, <1>6, <1>7, <1>8, <1>9, <1>10, <1>11, <1>12, <1>13, <1>14 DEF Next
-----------------------------------------------------------------------------
(* PaidSlot counts with the Cardinality of its own instance.               *)
LEMMA SameCardinality ==
  ASSUME NEW S
  PROVE  Slots!Cardinality(S) = Cardinality(S)
PROOF
BY DEF Slots!Cardinality, Cardinality

(* The refinement mapping takes each such step to one of PaidSlot's.       *)
LEMMA SlotStepRefines ==
  ASSUME SlotStep
  PROVE  [Slots!Next]_(Slots!vars)
PROOF
<1> DEFINE slot == [j \in Jobs |-> SlotOf(j)]
           browser == [j \in Jobs |-> BrowserOf(j)]
<1>1. CASE \A i \in Jobs : Keeps(i)
  <2>1. slot' = slot /\ browser' = browser
    BY <1>1 DEF Keeps
  <2> QED
    BY <2>1 DEF Slots!vars
<1>2. ASSUME NEW j \in Jobs, Moves(j)
      PROVE  Slots!Next
  <2>1. CASE Reserves(j)
    <3>1. slot' = [slot EXCEPT ![j] = "held"] /\ browser' = browser
      BY <2>1 DEF Reserves, KeepOthers, Keeps
    <3>2. Slots!Held = Occupied
      BY DEF Slots!Held, Occupied, SlotOf
    <3>3. Slots!Cardinality(Slots!Held) < GlobalConcurrency
      BY <2>1, <3>2, SameCardinality DEF Reserves, Room
    <3>4. slot[j] = "free"
      BY <2>1 DEF Reserves
    <3>5. Slots!Reserve(j)
      BY <3>1, <3>3, <3>4 DEF Slots!Reserve
    <3> QED
      BY <3>5 DEF Slots!Next
  <2>2. CASE Asks(j)
    <3>1. browser' = [browser EXCEPT ![j] = "possible"] /\ slot' = slot
      BY <2>2 DEF Asks, KeepOthers, Keeps
    <3>2. Slots!Ask(j)
      BY <2>2, <3>1 DEF Slots!Ask, Asks
    <3> QED
      BY <3>2 DEF Slots!Next
  <2>3. CASE Retires(j)
    <3>1. browser' = [browser EXCEPT ![j] = "gone"] /\ slot' = slot
      BY <2>3 DEF Retires, KeepOthers, Keeps
    <3>2. Slots!Retire(j)
      BY <2>3, <3>1 DEF Slots!Retire, Retires
    <3> QED
      BY <3>2 DEF Slots!Next
  <2>4. CASE Releases(j)
    <3>1. slot' = [slot EXCEPT ![j] = "released"] /\ browser' = browser
      BY <2>4 DEF Releases, KeepOthers, Keeps
    <3>2. Slots!Release(j)
      BY <2>4, <3>1 DEF Slots!Release, Releases
    <3> QED
      BY <3>2 DEF Slots!Next
  <2> QED
    BY <1>2, <2>1, <2>2, <2>3, <2>4 DEF Moves
<1> QED
  BY <1>1, <1>2 DEF SlotStep

(* The worker protocol, with its leases, crashes and retries, implements   *)
(* the slots PaidSlot promises.                                            *)
THEOREM WorkersImplementSlots == Spec => ImplementsPaidSlot
PROOF
<1>1. Init => Slots!Init
  BY DEF Init, Slots!Init, SlotOf, BrowserOf
<1>2. TypeOK /\ Consistent /\ [Next]_vars => [Slots!Next]_(Slots!vars)
  BY StepMovesSlots, SlotStepRefines
<1> QED
  BY <1>1, <1>2, InvariantHolds, PTL DEF Spec, ImplementsPaidSlot, Slots!Spec
-----------------------------------------------------------------------------
(* The ceilings of the policy, on slots instead of browsers.               *)
Ceilings ==
  /\ Cardinality(Occupied) <= GlobalConcurrency
  /\ \A o \in Owners : Cardinality(OccupiedBy(o)) <= OwnerConcurrency

(* Taking at most one more slot where there is room respects a ceiling.    *)
LEMMA OneMore ==
  ASSUME NEW S, IsFiniteSet(S), NEW T, NEW j, NEW limit \in Nat,
         T \subseteq S \cup {j}, Cardinality(S) < limit
  PROVE  Cardinality(T) <= limit
PROOF
<1>1. /\ IsFiniteSet(S \cup {j})
      /\ Cardinality(S \cup {j}) \in Nat
      /\ Cardinality(S \cup {j}) <= Cardinality(S) + 1
  BY FS_AddElement, FS_CardinalityType
<1>2. Cardinality(T) <= Cardinality(S \cup {j}) /\ Cardinality(T) \in Nat
  BY <1>1, FS_Subset, FS_CardinalityType
<1> QED
  BY <1>1, <1>2, FS_CardinalityType

(* Holding no slot that was not held before respects it too.               *)
LEMMA NoMore ==
  ASSUME NEW S, IsFiniteSet(S), NEW T, NEW limit \in Nat,
         T \subseteq S, Cardinality(S) <= limit
  PROVE  Cardinality(T) <= limit
PROOF
<1>1. IsFiniteSet(T) /\ Cardinality(T) <= Cardinality(S)
  BY FS_Subset
<1> QED
  BY <1>1, FS_CardinalityType

(* There are finitely many slots to count.                                 *)
LEMMA OccupiedFinite ==
  IsFiniteSet(Occupied) /\ \A o : IsFiniteSet(OccupiedBy(o))
PROOF
BY JobsAssumption, FS_Subset DEF Occupied, OccupiedBy

(* The rows claim() counts are the slots PaidSlot calls held.              *)
LEMMA OccupiedSlots ==
  /\ \A i \in Jobs : i \in Occupied <=> SlotOf(i) = "held"
  /\ \A i \in Jobs : i \in Occupied' <=> SlotOf(i)' = "held"
PROOF
BY DEF Occupied, SlotOf

(* Every step keeps the occupied rows within the ceilings.                 *)
LEMMA StepKeepsCeilings ==
  ASSUME Ceilings, SlotStep
  PROVE  Ceilings'
PROOF
<1> USE PolicyAssumption
<1>1. ASSUME Occupied' \subseteq Occupied
      PROVE  Ceilings'
  <2>1. \A o : OccupiedBy(o)' \subseteq OccupiedBy(o)
    BY <1>1 DEF OccupiedBy, OwnerOfJob
  <2>2. Cardinality(Occupied') <= GlobalConcurrency
    BY <1>1, OccupiedFinite, NoMore DEF Ceilings
  <2>3. ASSUME NEW o \in Owners
        PROVE  Cardinality(OccupiedBy(o)') <= OwnerConcurrency
    BY <2>1, OccupiedFinite, NoMore DEF Ceilings
  <2> QED
    BY <2>2, <2>3 DEF Ceilings
<1>2. CASE \A i \in Jobs : Keeps(i)
  <2>1. Occupied' \subseteq Occupied
    BY <1>2, OccupiedSlots DEF Keeps, Occupied
  <2> QED
    BY <1>1, <2>1
<1>3. ASSUME NEW j \in Jobs, Reserves(j)
      PROVE  Ceilings'
  <2>1. Occupied' \subseteq Occupied \cup {j}
    BY <1>3, OccupiedSlots DEF Reserves, KeepOthers, Keeps, Occupied
  <2>2. Cardinality(Occupied') <= GlobalConcurrency
    BY <1>3, <2>1, OccupiedFinite, OneMore DEF Reserves, Room
  <2>3. ASSUME NEW o \in Owners
        PROVE  Cardinality(OccupiedBy(o)') <= OwnerConcurrency
    <3>1. CASE o = OwnerOfJob(j)
      <4>1. OccupiedBy(o)' \subseteq OccupiedBy(o) \cup {j}
        BY <2>1 DEF OccupiedBy, OwnerOfJob
      <4> QED
        BY <1>3, <3>1, <4>1, OccupiedFinite, OneMore DEF Reserves, Room
    <3>2. CASE o # OwnerOfJob(j)
      <4>1. OccupiedBy(o)' \subseteq OccupiedBy(o)
        BY <2>1, <3>2 DEF OccupiedBy, OwnerOfJob
      <4> QED
        BY <4>1, OccupiedFinite, NoMore DEF Ceilings
    <3> QED
      BY <3>1, <3>2
  <2> QED
    BY <2>2, <2>3 DEF Ceilings
<1>4. ASSUME NEW j \in Jobs, Asks(j) \/ Retires(j) \/ Releases(j)
      PROVE  Ceilings'
  <2>1. Occupied' \subseteq Occupied
    BY <1>4, OccupiedSlots DEF Asks, Retires, Releases, KeepOthers, Keeps, Occupied
  <2> QED
    BY <1>1, <2>1
<1> QED
  BY <1>2, <1>3, <1>4 DEF SlotStep, Moves

(* Browsers that may be running never exceed the global and the owner      *)
(* ceilings: each holds a slot, and claim() counts the slots.              *)
THEOREM BrowsersWithinCeilings == Spec => []BrowsersBounded
PROOF
<1>1. Init => Ceilings
  <2> SUFFICES ASSUME Init
               PROVE  Ceilings
    OBVIOUS
  <2>1. Occupied = {} /\ \A o : OccupiedBy(o) = {}
    BY DEF Init, Occupied, OccupiedBy
  <2> QED
    BY <2>1, FS_EmptySet, PolicyAssumption DEF Ceilings
<1>2. TypeOK /\ Consistent /\ Ceilings /\ [Next]_vars => Ceilings'
  BY StepMovesSlots, StepKeepsCeilings
<1>3. Consistent /\ Ceilings => BrowsersBounded
  <2> SUFFICES ASSUME Consistent, Ceilings
               PROVE  BrowsersBounded
    OBVIOUS
  <2>1. /\ {j \in Jobs : MayRun(j)} \subseteq Occupied
        /\ \A o \in Owners : {j \in JobsOfOwner(o) : MayRun(j)} \subseteq OccupiedBy(o)
    BY DEF Consistent, BrowserHoldsSlot, Occupied, OccupiedBy, JobsOfOwner
  <2>2. Cardinality({j \in Jobs : MayRun(j)}) <= GlobalConcurrency
    BY <2>1, OccupiedFinite, NoMore, PolicyAssumption DEF Ceilings
  <2>3. ASSUME NEW o \in Owners
        PROVE  Cardinality({j \in JobsOfOwner(o) : MayRun(j)}) <= OwnerConcurrency
    BY <2>1, OccupiedFinite, NoMore, PolicyAssumption DEF Ceilings
  <2> QED
    BY <2>2, <2>3 DEF BrowsersBounded
<1> QED
  BY <1>1, <1>2, <1>3, InvariantHolds, PTL DEF Spec
-----------------------------------------------------------------------------
(* The records: what ended ended once and keeps its outcome, and the       *)
(* ledger only grows.  Neither needs more of the jobs that were let go     *)
(* than of the others.                                                     *)

(* What a step keeps of outcomes. *)
OutcomesKept ==
  /\ EndsOnce' /\ RunsFollowAttempts'
  /\ \A j \in Jobs : Ended(j) => attempt'[j] = attempt[j]
  /\ \A r \in Runs : RunEnded(r) => runStatus'[r] = runStatus[r] /\ runCancel'[r] = runCancel[r]

(* The outcome of a run is read from its own attempts.                     *)
LEMMA SameOutcome ==
  ASSUME NEW r, NEW a, NEW b, NEW c, NEW d,
         \A j \in Jobs : RunOf[j] = r => a[j] = b[j], c[r] = d[r]
  PROVE  RunOutcome(r, a, c) = RunOutcome(r, b, d)
PROOF
<1> DEFINE A == {a[j] : j \in {i \in Jobs : RunOf[i] = r}}
           B == {b[j] : j \in {i \in Jobs : RunOf[i] = r}}
<1>1. A = B
  OBVIOUS
<1>2. /\ RunOutcome(r, a, c) = IF c[r] /\ "infrastructure_failed" \notin A THEN "cancelled"
                              ELSE CHOOSE s \in A : \A t \in A : Rank[s] <= Rank[t]
      /\ RunOutcome(r, b, d) = IF d[r] /\ "infrastructure_failed" \notin B THEN "cancelled"
                              ELSE CHOOSE s \in B : \A t \in B : Rank[s] <= Rank[t]
  BY DEF RunOutcome
<1> HIDE DEF A, B
<1> QED BY <1>1, <1>2

(* reconcile() ends a run once, when its last attempt has.                 *)
LEMMA ReconcileKeeps ==
  ASSUME TypeOK, EndsOnce, RunsFollowAttempts,
         NEW touched \in SUBSET Runs, NEW base \in [Runs -> Statuses],
         Reconcile(touched, base, attempt', runCancel'),
         \A r \in touched : ~RunEnded(r),
         \A r \in Runs : \/ base[r] = runStatus[r]
                         \/ /\ base[r] = "running" /\ ~RunEnded(r)
                            /\ \E j \in Jobs : RunOf[j] = r /\ ~Ended(j)',
         \A r \in Runs \ touched :
            /\ runCancel'[r] = runCancel[r]
            /\ \A j \in Jobs : RunOf[j] = r /\ (Ended(j) \/ Ended(j)') => attempt'[j] = attempt[j]
  PROVE  /\ RunsFollowAttempts'
         /\ \A r \in Runs : /\ runFinishedEvents'[r] = IF RunEnded(r)' THEN 1 ELSE 0
                            /\ RunEnded(r) => runStatus'[r] = runStatus[r] /\ runCancel'[r] = runCancel[r]
PROOF
<1> DEFINE over(r) == \A j \in Jobs : RunOf[j] = r => Ended(j)'
           ends(r) == r \in touched /\ over(r)
<1>1. \A r \in Runs :
        /\ runStatus'[r] = IF ends(r) THEN RunOutcome(r, attempt', runCancel') ELSE base[r]
        /\ runFinishedEvents'[r] = runFinishedEvents[r] + (IF ends(r) THEN 1 ELSE 0)
  BY DEF Reconcile, Complete, Ended
<1>2. \A r \in Runs : over(r) => RunOutcome(r, attempt', runCancel') \in TerminalStatuses
  BY RunOutcomeType, OwnershipAssumption DEF Ended
<1>3. "running" \notin TerminalStatuses
  BY DEF TerminalStatuses
<1>4. ASSUME NEW r \in Runs
      PROVE  /\ RunEnded(r)' <=> over(r)
             /\ RunEnded(r)' => runStatus'[r] = RunOutcome(r, attempt', runCancel')
             /\ runFinishedEvents'[r] = IF RunEnded(r)' THEN 1 ELSE 0
             /\ RunEnded(r) => runStatus'[r] = runStatus[r] /\ runCancel'[r] = runCancel[r]
  <2>1. /\ RunEnded(r) <=> \A j \in Jobs : RunOf[j] = r => Ended(j)
        /\ RunEnded(r) => runStatus[r] = RunOutcome(r, attempt, runCancel)
        /\ runFinishedEvents[r] = IF RunEnded(r) THEN 1 ELSE 0
    BY DEF RunsFollowAttempts, EndsOnce
  <2>2. CASE ends(r)
    <3>1. runStatus'[r] = RunOutcome(r, attempt', runCancel') /\ over(r) /\ RunEnded(r)'
      BY <1>1, <1>2, <2>2 DEF RunEnded
    <3>2. ~RunEnded(r) /\ runFinishedEvents'[r] = 1
      BY <1>1, <2>1, <2>2
    <3> QED BY <3>1, <3>2
  <2>3. CASE r \in touched /\ ~over(r)
    <3>1. runStatus'[r] = base[r] /\ ~RunEnded(r) /\ runFinishedEvents'[r] = 0
      BY <1>1, <2>1, <2>3
    <3>2. ~RunEnded(r)'
      BY <1>3, <3>1 DEF RunEnded
    <3> QED BY <2>3, <3>1, <3>2
  <2>4. CASE r \notin touched
    <3>1. /\ runStatus'[r] = base[r] /\ runFinishedEvents'[r] = runFinishedEvents[r]
          /\ runCancel'[r] = runCancel[r]
          /\ \A j \in Jobs : RunOf[j] = r /\ (Ended(j) \/ Ended(j)') => attempt'[j] = attempt[j]
      BY <1>1, <2>1, <2>4 DEF EndsOnce, TypeOK
    <3>2. over(r) <=> \A j \in Jobs : RunOf[j] = r => Ended(j)
      BY <3>1 DEF Ended
    <3>3. CASE base[r] = runStatus[r]
      <4>1. RunEnded(r)' <=> RunEnded(r)
        BY <3>1, <3>3 DEF RunEnded
      <4>2. RunEnded(r) => RunOutcome(r, attempt', runCancel') = RunOutcome(r, attempt, runCancel)
        BY <2>1, <3>1, SameOutcome
      <4> QED BY <2>1, <3>1, <3>2, <3>3, <4>1, <4>2
    <3>4. CASE /\ base[r] = "running" /\ ~RunEnded(r)
               /\ \E j \in Jobs : RunOf[j] = r /\ ~Ended(j)'
      <4>1. ~RunEnded(r)' /\ ~over(r)
        BY <1>3, <3>1, <3>4 DEF RunEnded
      <4> QED BY <2>1, <3>1, <3>4, <4>1
    <3> QED BY <3>3, <3>4
  <2> QED BY <2>2, <2>3, <2>4
<1> QED BY <1>4 DEF RunsFollowAttempts

(* A step that touches no attempt and no run keeps every outcome.          *)
LEMMA OutcomesUntouched ==
  ASSUME EndsOnce, RunsFollowAttempts, UNCHANGED <<runVars, attemptVars>>
  PROVE  OutcomesKept
PROOF
<1>1. UNCHANGED <<runStatus, runCancel, runFinishedEvents, attempt, finishedEvents>>
  BY DEF runVars, attemptVars
<1>2. \A r \in Runs : RunOutcome(r, attempt', runCancel') = RunOutcome(r, attempt, runCancel)
  BY <1>1
<1> QED BY <1>1, <1>2 DEF OutcomesKept, EndsOnce, RunsFollowAttempts, Ended, RunEnded

(* end() appends the event of an attempt, and of its run, that had none.   *)
LEMMA OutcomesEnded ==
  ASSUME TypeOK, EndsOnce, RunsFollowAttempts, NEW j \in Jobs, NEW outcome \in TerminalStatuses,
         End(j, outcome), UNCHANGED runCancel
  PROVE  OutcomesKept
PROOF
<1>1. /\ attempt' = [attempt EXCEPT ![j] = EndStatus(j, outcome)]
      /\ EndStatus(j, outcome) \in TerminalStatuses
      /\ Ended(j) => EndStatus(j, outcome) = attempt[j]
  BY DEF End, EndStatus, Ended, TerminalStatuses
<1>2. /\ Ended(j)' /\ (Ended(j) => attempt'[j] = attempt[j])
      /\ \A i \in Jobs \ {j} : attempt'[i] = attempt[i]
  BY <1>1 DEF Ended, TypeOK
<1>3. CASE Ended(j)
  <2>1. attempt' = attempt
    BY <1>1, <1>3 DEF TypeOK
  <2>2. UNCHANGED <<finishedEvents, runStatus, runFinishedEvents>>
    BY <1>3 DEF End, EndsAttempt, Ended
  <2> QED BY <2>1, <2>2, OutcomesUntouched DEF runVars, attemptVars
<1>4. CASE ~Ended(j)
  <2>1. /\ finishedEvents' = [finishedEvents EXCEPT ![j] = @ + 1]
        /\ Reconcile({RunOf[j]}, runStatus, attempt', runCancel')
    BY <1>4 DEF End, EndsAttempt, Ended
  <2>2. \A i \in Jobs : /\ finishedEvents'[i] = IF Ended(i)' THEN 1 ELSE 0
                        /\ Ended(i) => attempt'[i] = attempt[i]
    BY <1>2, <1>4, <2>1 DEF EndsOnce, TypeOK, Ended
  <2>3. /\ {RunOf[j]} \in SUBSET Runs /\ runStatus \in [Runs -> Statuses]
        /\ \A r \in {RunOf[j]} : ~RunEnded(r)
    BY <1>4, OwnershipAssumption DEF RunsFollowAttempts, TypeOK, Statuses
  <2>4. \A r \in Runs \ {RunOf[j]} :
           /\ runCancel'[r] = runCancel[r]
           /\ \A i \in Jobs : RunOf[i] = r /\ (Ended(i) \/ Ended(i)') => attempt'[i] = attempt[i]
    BY <1>2
  <2>5. /\ RunsFollowAttempts'
        /\ \A r \in Runs : /\ runFinishedEvents'[r] = IF RunEnded(r)' THEN 1 ELSE 0
                           /\ RunEnded(r) => runStatus'[r] = runStatus[r] /\ runCancel'[r] = runCancel[r]
    BY <2>1, <2>3, <2>4, ReconcileKeeps
  <2> QED BY <2>2, <2>5 DEF OutcomesKept, EndsOnce
<1> QED BY <1>3, <1>4

(* So does whatever settle() leaves of the launch.                         *)
LEMMA OutcomesSettled ==
  ASSUME TypeOK, EndsOnce, RunsFollowAttempts, NEW j \in Jobs, NEW confirmed \in BOOLEAN,
         NEW outcome \in TerminalStatuses, SettleLaunch(j, confirmed, outcome), UNCHANGED runCancel
  PROVE  OutcomesKept
PROOF
<1>1. "infrastructure_failed" \in TerminalStatuses
  BY DEF TerminalStatuses
<1>2. CASE confirmed
  BY <1>2, OutcomesEnded DEF SettleLaunch
<1>3. CASE ~confirmed /\ RecoveryExhausted(j)
  BY <1>1, <1>3, OutcomesEnded DEF SettleLaunch, DeferRecovery
<1>4. CASE ~confirmed /\ ~RecoveryExhausted(j)
  BY <1>4, OutcomesUntouched DEF SettleLaunch, DeferRecovery, runVars, attemptVars
<1> QED BY <1>2, <1>3, <1>4

(* A scan of the queue refuses only attempts that were queued, and starts  *)
(* at most one.                                                            *)
LEMMA OutcomesClaimed ==
  ASSUME TypeOK, NEW L, ConsistentBut(L), EndsOnce, RunsFollowAttempts, NEW w, NEW j \in Jobs,
         ClaimQueued(w, j) \/ RefuseQueued(w)
  PROVE  OutcomesKept
PROOF
<1>1. /\ \A i \in Refused : i \in Jobs /\ attempt[i] = "queued"
      /\ ClaimQueued(w, j) => attempt[j] = "queued" /\ j \notin Refused
  BY JobsAssumption DEF ClaimQueued, Refused, Selected, ConsistentBut, JobConsistent, RowConsistent
<1>2. \A i \in Jobs : /\ RefusalStatus(i) \in TerminalStatuses
                      /\ AfterRefusal[i] = IF i \in Refused THEN RefusalStatus(i) ELSE attempt[i]
  BY DEF RefusalStatus, AfterRefusal, TerminalStatuses
<1>3. "queued" \notin TerminalStatuses /\ "running" \notin TerminalStatuses
  BY DEF TerminalStatuses
<1>4. /\ \A i \in Refused : Ended(i)'
      /\ \A i \in Jobs \ Refused : attempt'[i] = attempt[i] \/ (i = j /\ ClaimQueued(w, j) /\ attempt'[i] = "running")
  <2>1. AfterRefusal \in [Jobs -> Statuses]
    BY DEF AfterRefusal, RefusalStatus, Statuses, TerminalStatuses, TypeOK
  <2>2. CASE RefuseQueued(w)
    BY <1>1, <1>2, <2>2 DEF RefuseQueued, Ended
  <2>3. CASE ClaimQueued(w, j)
    <3>1. attempt' = [AfterRefusal EXCEPT ![j] = "running"]
      BY <2>3 DEF ClaimQueued
    <3>2. attempt'[j] = "running" /\ \A i \in Jobs \ {j} : attempt'[i] = AfterRefusal[i]
      BY <2>1, <3>1
    <3> QED BY <1>1, <1>2, <2>3, <3>2 DEF Ended
  <2> QED BY <2>2, <2>3
<1>5. \A i \in Jobs : /\ finishedEvents'[i] = IF Ended(i)' THEN 1 ELSE 0
                      /\ Ended(i) => attempt'[i] = attempt[i]
  <2>1. \A i \in Jobs : finishedEvents'[i] = finishedEvents[i] + (IF i \in Refused THEN 1 ELSE 0)
    BY DEF ClaimQueued, RefuseQueued, CountRefusals
  <2>2. \A i \in Refused : finishedEvents[i] = 0 /\ ~Ended(i)
    BY <1>1, <1>3 DEF EndsOnce, Ended
  <2>3. \A i \in Jobs \ Refused : finishedEvents'[i] = finishedEvents[i] /\ (Ended(i)' <=> Ended(i))
    BY <1>1, <1>3, <1>4, <2>1 DEF Ended, TypeOK
  <2> QED BY <1>1, <1>3, <1>4, <2>1, <2>2, <2>3 DEF EndsOnce, Ended
<1> DEFINE base == IF ClaimQueued(w, j) THEN [runStatus EXCEPT ![RunOf[j]] = "running"] ELSE runStatus
<1>6. /\ runCancel' = runCancel
      /\ \E b \in [Runs -> Statuses] :
           /\ Reconcile(RunsRefused, b, attempt', runCancel')
           /\ \A r \in Runs : \/ b[r] = runStatus[r]
                              \/ /\ b[r] = "running" /\ ~RunEnded(r)
                                 /\ \E i \in Jobs : RunOf[i] = r /\ ~Ended(i)'
  <2>0. runStatus \in [Runs -> Statuses] /\ RunOf[j] \in Runs
    BY OwnershipAssumption DEF TypeOK, Statuses
  <2>1. CASE RefuseQueued(w)
    BY <2>0, <2>1 DEF RefuseQueued
  <2>2. CASE ClaimQueued(w, j)
    <3> DEFINE b == [runStatus EXCEPT ![RunOf[j]] = "running"]
    <3>1. Reconcile(RunsRefused, b, attempt', runCancel') /\ runCancel' = runCancel
      BY <2>2 DEF ClaimQueued
    <3>2. b \in [Runs -> Statuses]
      BY <2>0 DEF Statuses
    <3>3. ~Ended(j) /\ ~Ended(j)'
      <4>1. attempt' = [AfterRefusal EXCEPT ![j] = "running"]
        BY <2>2 DEF ClaimQueued
      <4>2. attempt'[j] = "running"
        BY <4>1 DEF AfterRefusal
      <4> QED BY <1>1, <1>3, <2>2, <4>2 DEF Ended
    <3>4. ~RunEnded(RunOf[j])
      BY <2>0, <3>3 DEF RunsFollowAttempts
    <3>5. \A r \in Runs : \/ b[r] = runStatus[r]
                          \/ /\ b[r] = "running" /\ ~RunEnded(r)
                             /\ \E i \in Jobs : RunOf[i] = r /\ ~Ended(i)'
      BY <2>0, <3>3, <3>4
    <3> QED BY <3>1, <3>2, <3>5
  <2> QED BY <2>1, <2>2
<1>7. /\ RunsRefused \in SUBSET Runs
      /\ \A r \in RunsRefused : ~RunEnded(r)
  BY <1>1, <1>3, OwnershipAssumption DEF RunsRefused, RunsFollowAttempts, Ended
<1>8. \A r \in Runs \ RunsRefused :
         /\ runCancel'[r] = runCancel[r]
         /\ \A i \in Jobs : RunOf[i] = r /\ (Ended(i) \/ Ended(i)') => attempt'[i] = attempt[i]
  BY <1>1, <1>3, <1>4, <1>6 DEF RunsRefused, Ended
<1>9. /\ RunsFollowAttempts'
      /\ \A r \in Runs : /\ runFinishedEvents'[r] = IF RunEnded(r)' THEN 1 ELSE 0
                         /\ RunEnded(r) => runStatus'[r] = runStatus[r] /\ runCancel'[r] = runCancel[r]
  BY <1>6, <1>7, <1>8, ReconcileKeeps
<1> QED BY <1>5, <1>9 DEF OutcomesKept, EndsOnce

(* A cancellation ends the queued attempts of a run that has not ended.    *)
LEMMA OutcomesCancelled ==
  ASSUME TypeOK, EndsOnce, RunsFollowAttempts, NEW r \in Runs, CancelRun(r)
  PROVE  OutcomesKept
PROOF
<1>1. "cancelled" \in TerminalStatuses /\ "queued" \notin TerminalStatuses
  BY DEF TerminalStatuses
<1>2. /\ Reconcile({r}, runStatus, attempt', runCancel')
      /\ runCancel' = [runCancel EXCEPT ![r] = TRUE] /\ ~RunEnded(r)
      /\ \A j \in Jobs : /\ attempt'[j] = IF j \in QueuedOfRun(r) THEN "cancelled" ELSE attempt[j]
                         /\ finishedEvents'[j] = finishedEvents[j] + (IF j \in QueuedOfRun(r) THEN 1 ELSE 0)
  BY DEF CancelRun, RunEnded
<1>3. \A j \in QueuedOfRun(r) : j \in Jobs /\ RunOf[j] = r /\ attempt[j] = "queued"
  BY DEF QueuedOfRun
<1>4. \A j \in Jobs : /\ finishedEvents'[j] = IF Ended(j)' THEN 1 ELSE 0
                      /\ Ended(j) => attempt'[j] = attempt[j]
  <2>1. \A j \in Jobs \ QueuedOfRun(r) : finishedEvents'[j] = finishedEvents[j] /\ attempt'[j] = attempt[j]
    BY <1>2 DEF TypeOK
  <2>2. \A j \in QueuedOfRun(r) : finishedEvents[j] = 0 /\ ~Ended(j) /\ Ended(j)'
    BY <1>1, <1>2, <1>3 DEF EndsOnce, Ended
  <2> QED BY <1>2, <1>3, <2>1, <2>2 DEF EndsOnce, Ended
<1>5. /\ {r} \in SUBSET Runs /\ runStatus \in [Runs -> Statuses]
      /\ \A x \in {r} : ~RunEnded(x)
  BY <1>2 DEF TypeOK, Statuses
<1>6. \A x \in Runs \ {r} :
         /\ runCancel'[x] = runCancel[x]
         /\ \A j \in Jobs : RunOf[j] = x /\ (Ended(j) \/ Ended(j)') => attempt'[j] = attempt[j]
  BY <1>2, <1>3 DEF TypeOK
<1>7. /\ RunsFollowAttempts'
      /\ \A x \in Runs : /\ runFinishedEvents'[x] = IF RunEnded(x)' THEN 1 ELSE 0
                         /\ RunEnded(x) => runStatus'[x] = runStatus[x] /\ runCancel'[x] = runCancel[x]
  BY <1>2, <1>5, <1>6, ReconcileKeeps
<1> QED BY <1>4, <1>7 DEF OutcomesKept, EndsOnce

(* Every step of the protocol.                                             *)
LEMMA OutcomesStep ==
  ASSUME TypeOK, NEW L, ConsistentBut(L), EndsOnce, RunsFollowAttempts, [Next]_vars
  PROVE  OutcomesKept
PROOF
<1> USE DEF leaseVars, launchVars, ledgerVars, providerVars, claimVars, launcherVars, boundVars
<1>1. ASSUME NEW w \in Workers, RefuseQueued(w) PROVE OutcomesKept
  <2>1. PICK j \in Jobs : j \in Refused
    BY <1>1 DEF RefuseQueued, Refused, Selected
  <2> QED BY <1>1, <2>1, OutcomesClaimed
<1>2. ASSUME NEW w \in Workers, NEW j \in Jobs, ClaimQueued(w, j) PROVE OutcomesKept
  BY <1>2, OutcomesClaimed
<1>3. ASSUME NEW j \in Jobs, Finish(j) PROVE OutcomesKept
  <2> DEFINE u == usage[j]
             confirmed == ~u.attempted \/ u.terminal
  <2>1. PICK outcome \in ResultsOf(u) : SettleLaunch(j, confirmed, outcome)
    BY <1>3 DEF Finish
  <2>2. outcome \in TerminalStatuses /\ runCancel' = runCancel
    BY <1>3, InputAssumption DEF Finish, ResultsOf, TerminalStatuses
  <2>3. u \in UsageRecords
    BY <1>3 DEF Finish, ConsistentBut, JobConsistent, LauncherConsistent, TypeOK
  <2>4. confirmed \in BOOLEAN
    BY <2>3 DEF UsageRecords
  <2> HIDE DEF confirmed
  <2> QED BY <2>1, <2>2, <2>4, OutcomesSettled
<1>4. ASSUME NEW t \in recoveries, Recover(t) PROVE OutcomesKept
  <2>1. PICK confirmed \in BOOLEAN : SettleLaunch(t.job, confirmed, "infrastructure_failed")
    BY <1>4 DEF Recover, ProvenOver
  <2>2. t.job \in Jobs /\ "infrastructure_failed" \in TerminalStatuses /\ runCancel' = runCancel
    BY <1>4 DEF TypeOK, RecoveryClaims, TerminalStatuses, Recover
  <2> QED BY <2>1, <2>2, OutcomesSettled
<1>5. ASSUME NEW r \in Runs, CancelRun(r) PROVE OutcomesKept
  BY <1>5, OutcomesCancelled
<1>6. ASSUME NEW w \in Workers, NEW j \in Jobs, ClaimExpired(w, j) PROVE OutcomesKept
  BY <1>6, OutcomesUntouched DEF ClaimExpired
<1>7. ASSUME NEW j \in Jobs, ClaimQuarantined(j) \/ ProviderStep(j) \/ TimeStep(j) PROVE OutcomesKept
  BY <1>7, OutcomesUntouched
     DEF ClaimQuarantined, ProviderStep, ProviderCreates, ProviderRejects, ProviderStops,
         TimeStep, LeaseExpires, HolderStalls, BackOffEnds
<1>8. ASSUME NEW j \in Jobs, LauncherStep(j) PROVE OutcomesKept
  BY <1>3, <1>8, OutcomesUntouched
     DEF LauncherStep, RequestBrowser, FailBeforeRequest, ReceiveReply, LoseReply, SaveReference,
         CloseBrowser, FinishFenced
<1>9. ASSUME NEW t \in recoveries, RecoveryStep(t) PROVE OutcomesKept
  BY <1>4, <1>9, OutcomesUntouched DEF RecoveryStep, QueryProvider, RecoverFenced
<1>10. ASSUME NEW w \in Holders, Crash(w) PROVE OutcomesKept
  BY <1>10, OutcomesUntouched DEF Crash
<1>11. CASE UNCHANGED vars
  BY <1>11, OutcomesUntouched DEF vars
<1> QED BY <1>1, <1>2, <1>5, <1>6, <1>7, <1>8, <1>9, <1>10, <1>11 DEF Next

(* Nor does a recovery whose writes fail change an outcome.                *)
LEMMA OutcomesFailing ==
  ASSUME TypeOK, EndsOnce, RunsFollowAttempts, NEW t \in recoveries, RecoveryWriteFails(t)
  PROVE  OutcomesKept
PROOF
<1>1. t.job \in Jobs
  BY DEF TypeOK, RecoveryClaims
<1>2. CASE MaySettleUnlaunched(t)
  <2>1. PICK outcome \in ResultsOf(NeverAttempted) : SettleLaunch(t.job, TRUE, outcome)
    BY <1>2 DEF RecoveryWriteFails
  <2>2. outcome \in TerminalStatuses /\ runCancel' = runCancel
    BY <1>2 DEF RecoveryWriteFails, ResultsOf, NeverAttempted, TerminalStatuses
  <2> QED BY <1>1, <2>1, <2>2, OutcomesSettled
<1>3. CASE ~MaySettleUnlaunched(t)
  BY <1>3, OutcomesUntouched DEF RecoveryWriteFails
<1> QED BY <1>2, <1>3
-----------------------------------------------------------------------------
(* An open launch is leased; a quarantined one used up its recoveries; no  *)
(* time is refunded before the settlement.                                 *)
OpenRow(j) ==
  /\ launch[j] \in {"intent", "active", "recovering"} => job[j] = "leased"
  /\ launch[j] = "quarantined" => recoveryCount[j] >= RecoveryLimit
  /\ launch[j] # "settled" => released[j] = 0

(* LedgerOnlyGrows, of one job and one step. *)
Grows(j) ==
  /\ consumed'[j] >= consumed[j]
  /\ observation[j] # NULL =>
       observation'[j] # NULL /\ observation'[j].charged >= observation[j].charged
  /\ released'[j] # released[j] => launch'[j] = "settled"
  /\ launch[j] = "settled" =>
       /\ launch'[j] = "settled" /\ reserved'[j] = reserved[j]
       /\ consumed'[j] = consumed[j] /\ released'[j] = released[j]
       /\ observation'[j] = observation[j] /\ recordedAttempt'[j] = recordedAttempt[j]

RowKept(j) == OpenRow(j)' /\ Grows(j)

(* A step that leaves the ledger alone moves the launch only with its      *)
(* lease.                                                                  *)
LEMMA QuietRow ==
  ASSUME TypeOK, NEW j \in Jobs, OpenRow(j),
         consumed'[j] = consumed[j], released'[j] = released[j], observation'[j] = observation[j],
         launch[j] = "settled" =>
           reserved'[j] = reserved[j] /\ recordedAttempt'[j] = recordedAttempt[j],
         \/ /\ launch'[j] = launch[j] /\ recoveryCount'[j] = recoveryCount[j]
            /\ job'[j] = job[j] \/ launch[j] = "none"
         \/ /\ launch[j] # "settled" /\ job'[j] = "leased"
            /\ launch'[j] \in {"intent", "active", "recovering"}
  PROVE  RowKept(j)
PROOF
<1>1. consumed[j] \in Nat /\ (observation[j] # NULL => observation[j].charged \in Nat)
  BY DEF TypeOK, Observations
<1>2. Grows(j)
  BY <1>1 DEF Grows, OpenRow
<1>3. OpenRow(j)'
  BY DEF OpenRow
<1> QED BY <1>2, <1>3 DEF RowKept

(* observeCharge() never lowers what it recorded.                          *)
LEMMA ObserveGrows ==
  ASSUME TypeOK, NEW j \in Jobs, NEW seconds \in SecondsOrNull, NEW terminal \in BOOLEAN,
         observation[j] # NULL
  PROVE  Observe(j, seconds, terminal).charged >= observation[j].charged
PROOF
<1>1. observation[j] \in Observations /\ SessionSeconds \in Nat
  BY PolicyAssumption DEF TypeOK
<1>2. observation[j].charged \in Nat /\ observation[j].actual \in SecondsOrNull
  BY <1>1 DEF Observations
<1> DEFINE other == IF seconds = NULL /\ observation[j].actual # NULL THEN observation[j].actual
                    ELSE IF seconds = NULL THEN SessionSeconds ELSE seconds
<1>3. other \in Nat
  BY <1>1, <1>2 DEF SecondsOrNull
<1>4. Observe(j, seconds, terminal).charged = Larger(observation[j].charged, other)
  BY DEF Observe
<1> HIDE DEF other
<1> QED BY <1>2, <1>3, <1>4 DEF Larger

(* settle() consumes more or the same, and refunds only what it settles.   *)
LEMMA SettledRow ==
  ASSUME TypeOK, \A i \in Jobs : OpenRow(i), NEW j \in Jobs, job[j] = "leased",
         launch[j] \in {"intent", "active", "recovering"},
         NEW seconds \in SecondsOrNull, NEW confirmed \in BOOLEAN, NEW charge \in Nat,
         NEW outcome \in TerminalStatuses,
         Settle(j, seconds, confirmed, charge), SettleLaunch(j, confirmed, outcome),
         \A i \in Jobs \ {j} : /\ observation'[i] = observation[i]
                               /\ recordedAttempt'[i] = recordedAttempt[i],
         observation[j] # NULL =>
           observation'[j] # NULL /\ observation'[j].charged >= observation[j].charged
  PROVE  \A i \in Jobs : RowKept(i)
PROOF
<1>1. ASSUME NEW i \in Jobs \ {j} PROVE RowKept(i)
  <2>1. consumed'[i] = consumed[i] /\ released'[i] = released[i] /\ reserved' = reserved
    BY SettleEffect
  <2>2. launch'[i] = launch[i] /\ job'[i] = job[i]
    BY SettleLaunchEffect
  <2>3. recoveryCount'[i] = recoveryCount[i]
    BY DEF SettleLaunch, DeferRecovery, TypeOK
  <2> QED BY <2>1, <2>2, <2>3, QuietRow
<1>2. consumed'[j] >= consumed[j]
  <2> DEFINE billed == IF seconds # NULL THEN seconds ELSE IF confirmed THEN SessionSeconds ELSE 0
             used == Larger(consumed[j], Larger(billed, charge))
  <2>1. billed \in Nat /\ consumed[j] \in Nat
    BY PolicyAssumption DEF SecondsOrNull, TypeOK
  <2>2. used >= consumed[j]
    <3> HIDE DEF billed
    <3> QED BY <2>1 DEF Larger
  <2>3. consumed' = [consumed EXCEPT ![j] = used]
    BY DEF Settle
  <2> HIDE DEF used
  <2> QED BY <2>2, <2>3 DEF TypeOK
<1>3. ~confirmed => released'[j] = 0 /\ released[j] = 0
  BY SettleEffect DEF OpenRow
<1>4. /\ confirmed => launch'[j] = "settled"
      /\ ~confirmed => \/ launch'[j] = "quarantined" /\ recoveryCount'[j] >= RecoveryLimit
                       \/ launch'[j] = "recovering" /\ job'[j] = "leased"
  <2>1. CASE confirmed
    BY <2>1 DEF SettleLaunch, TypeOK
  <2>2. CASE ~confirmed /\ RecoveryExhausted(j)
    <3>1. /\ launch' = [launch EXCEPT ![j] = "quarantined"]
          /\ recoveryCount' = [recoveryCount EXCEPT ![j] = @ + 1]
      BY <2>2 DEF SettleLaunch, DeferRecovery, ExhaustedState
    <3>2. recoveryCount'[j] = recoveryCount[j] + 1 /\ launch'[j] = "quarantined"
      BY <3>1 DEF TypeOK
    <3> QED BY <2>2, <3>2 DEF RecoveryExhausted
  <2>3. CASE ~confirmed /\ ~RecoveryExhausted(j)
    BY <2>3 DEF SettleLaunch, DeferRecovery, TypeOK
  <2> QED BY <2>1, <2>2, <2>3
<1>5. OpenRow(j)'
  BY <1>3, <1>4 DEF OpenRow
<1>6. Grows(j)
  BY <1>2, <1>3, <1>4 DEF Grows
<1> QED BY <1>1, <1>5, <1>6 DEF RowKept

(* The two steps that settle: the report of an execution, and of a         *)
(* recovery.                                                               *)
LEMMA FinishedRow ==
  ASSUME TypeOK, NEW L, ConsistentBut(L), \A i \in Jobs : OpenRow(i), NEW j \in Jobs, Finish(j)
  PROVE  \A i \in Jobs : RowKept(i)
PROOF
<1> DEFINE u == usage[j]
           confirmed == ~u.attempted \/ u.terminal
           seconds == IF u.attempted THEN u.seconds ELSE 0
<1>1. /\ u \in UsageRecords
      /\ job[j] = "leased" /\ launch[j] \in {"intent", "active", "recovering"}
  BY DEF Finish, ConsistentBut, JobConsistent, LauncherConsistent, RowConsistent, LauncherHolds,
         HoldsLease, TypeOK
<1>2. /\ u.terminal \in BOOLEAN /\ u.seconds \in SecondsOrNull
      /\ confirmed \in BOOLEAN /\ seconds \in SecondsOrNull
  BY <1>1 DEF UsageRecords, SecondsOrNull
<1>3. PICK outcome \in ResultsOf(u) : SettleLaunch(j, confirmed, outcome)
  BY DEF Finish
<1>4. outcome \in TerminalStatuses
  BY InputAssumption DEF ResultsOf, TerminalStatuses
<1>5. Settle(j, seconds, confirmed, 0) /\ 0 \in Nat
  BY DEF Finish
<1> DEFINE reported == IF sessionRef[j] /\ (u.seconds # NULL \/ confirmed)
                       THEN Observe(j, u.seconds, u.terminal) ELSE observation[j]
<1>6. observation' = [observation EXCEPT ![j] = reported]
  BY DEF Finish
<1>7. observation[j] # NULL => reported # NULL /\ reported.charged >= observation[j].charged
  <2>1. observation[j] # NULL => observation[j].charged \in Nat
    BY DEF TypeOK, Observations
  <2>2. Observe(j, u.seconds, u.terminal) # NULL
    BY <1>2, ObserveType, NullAssumption
  <2> QED BY <1>2, <2>1, <2>2, ObserveGrows
<1> HIDE DEF reported, confirmed, seconds
<1>8. observation'[j] = reported /\ \A i \in Jobs \ {j} : observation'[i] = observation[i]
  BY <1>6 DEF TypeOK
<1>9. \A i \in Jobs \ {j} : recordedAttempt'[i] = recordedAttempt[i]
  BY DEF Finish, TypeOK
<1> QED BY <1>1, <1>2, <1>3, <1>4, <1>5, <1>7, <1>8, <1>9, SettledRow

LEMMA RecoveredRow ==
  ASSUME TypeOK, NEW L, ConsistentBut(L), \A i \in Jobs : OpenRow(i), NEW t \in recoveries, Recover(t)
  PROVE  \A i \in Jobs : RowKept(i)
PROOF
<1> DEFINE j == t.job
           found == t.result
           observed == IF found.seen THEN Observe(j, found.seconds, found.terminal)
                       ELSE observation[j]
           confirmed == ProvenOver(found, observed)
           charge == IF observed = NULL THEN 0 ELSE observed.charged
           seconds == IF observed = NULL THEN NULL ELSE observed.actual
<1>1. j \in Jobs /\ found \in RecoveryResults
  BY DEF Recover, TypeOK, RecoveryClaims
<1>2. found.seen \in BOOLEAN /\ found.terminal \in BOOLEAN /\ found.seconds \in SecondsOrNull
  BY <1>1 DEF RecoveryResults
<1>3. Observe(j, found.seconds, found.terminal) \in Observations
  BY <1>1, <1>2, ObserveType
<1>4. observed \in Observations \cup {NULL}
  BY <1>1, <1>3 DEF TypeOK
<1>5. observation[j] # NULL => observed # NULL /\ observed.charged >= observation[j].charged
  <2>1. observation[j] # NULL => observation[j].charged \in Nat
    BY <1>1 DEF TypeOK, Observations
  <2>2. Observe(j, found.seconds, found.terminal) # NULL
    BY <1>3, NullAssumption
  <2> QED BY <1>1, <1>2, <2>1, <2>2, ObserveGrows
<1>6. /\ observation' = [observation EXCEPT ![j] = observed]
      /\ Settle(j, seconds, confirmed, charge)
      /\ SettleLaunch(j, confirmed, "infrastructure_failed")
      /\ HoldsLease(j, t.worker, t.generation) /\ UNCHANGED recordedAttempt
  BY DEF Recover
<1>7. confirmed \in BOOLEAN
  BY DEF ProvenOver
<1> HIDE DEF observed, confirmed
<1>8. charge \in Nat /\ seconds \in SecondsOrNull
  BY <1>4 DEF Observations, SecondsOrNull
<1> HIDE DEF j, charge, seconds
<1>9. job[j] = "leased" /\ launch[j] \in {"intent", "active", "recovering"}
  BY <1>1, <1>6 DEF HoldsLease, ConsistentBut, JobConsistent, RowConsistent
<1>10. observation'[j] = observed /\ \A i \in Jobs \ {j} : observation'[i] = observation[i]
  BY <1>1, <1>6 DEF TypeOK
<1>11. "infrastructure_failed" \in TerminalStatuses
  BY DEF TerminalStatuses
<1> QED BY <1>1, <1>5, <1>6, <1>7, <1>8, <1>9, <1>10, <1>11, SettledRow

(* The write that fails reports a launch that never happened.              *)
LEMMA FailedRow ==
  ASSUME TypeOK, NEW L, ConsistentBut(L), \A i \in Jobs : OpenRow(i),
         NEW t \in recoveries, RecoveryWriteFails(t)
  PROVE  \A i \in Jobs : RowKept(i)
PROOF
<1>1. t.job \in Jobs
  BY DEF TypeOK, RecoveryClaims
<1>2. CASE MaySettleUnlaunched(t)
  <2>1. Settle(t.job, 0, TRUE, 0) /\ UNCHANGED observation
    BY <1>2 DEF RecoveryWriteFails
  <2>2. PICK outcome \in ResultsOf(NeverAttempted) : SettleLaunch(t.job, TRUE, outcome)
    BY <1>2 DEF RecoveryWriteFails
  <2>3. outcome \in TerminalStatuses /\ 0 \in SecondsOrNull /\ 0 \in Nat
    BY DEF ResultsOf, NeverAttempted, TerminalStatuses, SecondsOrNull
  <2>4. job[t.job] = "leased" /\ launch[t.job] \in {"intent", "active", "recovering"}
    BY <1>1, <1>2 DEF MaySettleUnlaunched, HoldsLease, ConsistentBut, JobConsistent, RowConsistent
  <2>5. observation[t.job] # NULL => observation[t.job].charged \in Nat
    BY <1>1 DEF TypeOK, Observations
  <2>6. /\ observation[t.job] # NULL =>
             observation'[t.job] # NULL /\ observation'[t.job].charged >= observation[t.job].charged
        /\ \A i \in Jobs \ {t.job} : /\ observation'[i] = observation[i]
                                   /\ recordedAttempt'[i] = recordedAttempt[i]
    BY <1>2, <2>1, <2>5 DEF RecoveryWriteFails, TypeOK
  <2> QED BY <1>1, <2>1, <2>2, <2>3, <2>4, <2>6, SettledRow
<1>3. CASE ~MaySettleUnlaunched(t)
  <2>1. UNCHANGED <<leaseVars, launchVars, ledgerVars>>
    BY <1>3 DEF RecoveryWriteFails
  <2> QED BY <2>1, QuietRow DEF leaseVars, launchVars, ledgerVars
<1> QED BY <1>2, <1>3

(* A claim reserves the time of a row that had no launch.                  *)
LEMMA ClaimedRow ==
  ASSUME TypeOK, NEW L, ConsistentBut(L), \A i \in Jobs : OpenRow(i), NEW w, NEW j \in Jobs,
         ClaimQueued(w, j) \/ RefuseQueued(w)
  PROVE  \A i \in Jobs : RowKept(i)
PROOF
<1> USE DEF launchVars, ledgerVars
<1>1. \A i \in Selected : i \in Jobs /\ launch[i] = "none"
  BY DEF Selected, ConsistentBut, JobConsistent, RowConsistent
<1>2. \A i \in Jobs : RefuseJobs(job)[i] = job[i] \/ launch[i] = "none"
  BY <1>1 DEF RefuseJobs, Refused
<1>3. UNCHANGED <<consumed, released, observation, recordedAttempt, recoveryCount>>
  BY DEF ClaimQueued, RefuseQueued
<1>4. CASE RefuseQueued(w)
  BY <1>2, <1>3, <1>4, QuietRow DEF RefuseQueued
<1>5. CASE ClaimQueued(w, j)
  <2>1. /\ launch' = [launch EXCEPT ![j] = "intent"]
        /\ reserved' = [reserved EXCEPT ![j] = SessionSeconds]
        /\ job' = [RefuseJobs(job) EXCEPT ![j] = "leased"]
        /\ launch[j] = "none"
    BY <1>1, <1>5 DEF ClaimQueued
  <2>2. RowKept(j)
    BY <1>3, <2>1, QuietRow DEF RefuseJobs, TypeOK
  <2>3. ASSUME NEW i \in Jobs \ {j} PROVE RowKept(i)
    <3>1. launch'[i] = launch[i] /\ reserved'[i] = reserved[i] /\ job'[i] = RefuseJobs(job)[i]
      BY <2>1 DEF RefuseJobs, TypeOK
    <3> QED BY <1>2, <1>3, <3>1, QuietRow
  <2> QED BY <2>2, <2>3
<1> QED BY <1>4, <1>5

(* A takeover leases the row it opens.                                     *)
LEMMA TakenRow ==
  ASSUME TypeOK, \A i \in Jobs : OpenRow(i), NEW w, NEW j \in Jobs, StartRecovery(j, w),
         launch[j] # "settled", UNCHANGED ledgerVars,
         \A i \in Jobs \ {j} : recoveryCount'[i] = recoveryCount[i]
  PROVE  \A i \in Jobs : RowKept(i)
PROOF
<1>1. /\ launch' = [launch EXCEPT ![j] = "recovering"] /\ job' = [job EXCEPT ![j] = "leased"]
      /\ UNCHANGED <<reserved, consumed, released, observation, recordedAttempt>>
  BY DEF StartRecovery, Acquire, ledgerVars
<1>2. RowKept(j)
  BY <1>1, QuietRow DEF TypeOK
<1>3. ASSUME NEW i \in Jobs \ {j} PROVE RowKept(i)
  BY <1>1, QuietRow DEF TypeOK
<1> QED BY <1>2, <1>3

LEMMA RowsStep ==
  ASSUME TypeOK, NEW L, ConsistentBut(L), \A i \in Jobs : OpenRow(i), [Next]_vars
  PROVE  \A i \in Jobs : RowKept(i)
PROOF
<1> USE DEF leaseVars, launchVars, ledgerVars
<1>1. UNCHANGED <<job, launch, recoveryCount, ledgerVars>> => \A i \in Jobs : RowKept(i)
  BY QuietRow
<1>2. ASSUME NEW w \in Workers, RefuseQueued(w) PROVE \A i \in Jobs : RowKept(i)
  BY <1>2, ClaimedRow
<1>3. ASSUME NEW w \in Workers, NEW j \in Jobs, ClaimQueued(w, j) PROVE \A i \in Jobs : RowKept(i)
  BY <1>3, ClaimedRow
<1>4. ASSUME NEW w \in Workers, NEW j \in Jobs, ClaimExpired(w, j) PROVE \A i \in Jobs : RowKept(i)
  <2>1. /\ StartRecovery(j, w) /\ launch[j] # "settled" /\ UNCHANGED ledgerVars
        /\ UNCHANGED recoveryCount
    BY <1>4 DEF ClaimExpired, Expired
  <2> QED BY <2>1, TakenRow
<1>5. ASSUME NEW j \in Jobs, ClaimQuarantined(j) PROVE \A i \in Jobs : RowKept(i)
  <2>1. /\ StartRecovery(j, Operator) /\ launch[j] # "settled" /\ UNCHANGED ledgerVars
        /\ recoveryCount' = [recoveryCount EXCEPT ![j] = 0]
    BY <1>5 DEF ClaimQuarantined
  <2>2. \A i \in Jobs \ {j} : recoveryCount'[i] = recoveryCount[i]
    BY <2>1 DEF TypeOK
  <2> QED BY <2>1, <2>2, TakenRow
<1>6. ASSUME NEW j \in Jobs, SaveReference(j) PROVE \A i \in Jobs : RowKept(i)
  <2>1. /\ launch' = [launch EXCEPT ![j] = "active"] /\ job[j] = "leased"
        /\ UNCHANGED <<job, recoveryCount, ledgerVars>>
    BY <1>6 DEF SaveReference, LauncherHolds, HoldsLease
  <2>2. launch[j] # "settled"
    BY <2>1 DEF ConsistentBut, JobConsistent, RowConsistent
  <2> QED BY <2>1, <2>2, QuietRow DEF TypeOK
<1>7. ASSUME NEW j \in Jobs, LauncherStep(j) PROVE \A i \in Jobs : RowKept(i)
  <2>1. CASE Finish(j)
    BY <2>1, FinishedRow
  <2>2. CASE ~Finish(j) /\ ~SaveReference(j)
    BY <1>1, <1>7, <2>2 DEF LauncherStep, RequestBrowser, FailBeforeRequest, ReceiveReply, LoseReply,
                            CloseBrowser, FinishFenced
  <2> QED BY <1>6, <2>1, <2>2
<1>8. ASSUME NEW t \in recoveries, RecoveryStep(t) PROVE \A i \in Jobs : RowKept(i)
  <2>1. CASE Recover(t)
    BY <2>1, RecoveredRow
  <2>2. CASE ~Recover(t)
    BY <1>1, <1>8, <2>2 DEF RecoveryStep, QueryProvider, RecoverFenced
  <2> QED BY <2>1, <2>2
<1>9. ASSUME NEW r \in Runs, CancelRun(r) PROVE \A i \in Jobs : RowKept(i)
  <2>1. /\ job' = [i \in Jobs |-> IF i \in QueuedOfRun(r) THEN "cancelled" ELSE job[i]]
        /\ UNCHANGED <<launchVars, ledgerVars>>
    BY <1>9 DEF CancelRun
  <2>2. \A i \in QueuedOfRun(r) : launch[i] = "none"
    BY DEF QueuedOfRun, ConsistentBut, JobConsistent, RowConsistent
  <2> QED BY <2>1, <2>2, QuietRow
<1>10. ASSUME NEW j \in Jobs, ProviderStep(j) \/ TimeStep(j) PROVE \A i \in Jobs : RowKept(i)
  BY <1>1, <1>10 DEF ProviderStep, ProviderCreates, ProviderRejects, ProviderStops,
                     TimeStep, LeaseExpires, HolderStalls, BackOffEnds
<1>11. ASSUME NEW w \in Holders, Crash(w) PROVE \A i \in Jobs : RowKept(i)
  BY <1>1, <1>11 DEF Crash
<1>12. CASE UNCHANGED vars
  BY <1>1, <1>12 DEF vars
<1> QED BY <1>2, <1>3, <1>4, <1>5, <1>7, <1>8, <1>9, <1>10, <1>11, <1>12 DEF Next
-----------------------------------------------------------------------------
(* What holds of outcomes and of the ledger, whatever writes fail.         *)
Lasting == EndsOnce /\ RunsFollowAttempts /\ \A j \in Jobs : OpenRow(j)

(* What a step then keeps.                                                 *)
Kept ==
  /\ Lasting'
  /\ \A j \in Jobs : Ended(j) => attempt'[j] = attempt[j]
  /\ \A r \in Runs : RunEnded(r) => runStatus'[r] = runStatus[r] /\ runCancel'[r] = runCancel[r]
  /\ \A j \in Jobs : Grows(j)

LEMMA LastingInit == Init => Lasting
PROOF
<1> SUFFICES ASSUME Init PROVE Lasting
  OBVIOUS
<1>1. "queued" \notin TerminalStatuses
  BY DEF TerminalStatuses
<1>2. \A r \in Runs : ~RunEnded(r) /\ \E j \in Jobs : RunOf[j] = r /\ ~Ended(j)
  BY <1>1, OwnershipAssumption DEF Init, RunEnded, Ended
<1> QED BY <1>1, <1>2 DEF Init, Lasting, EndsOnce, RunsFollowAttempts, OpenRow, Ended

LEMMA LastingStep ==
  ASSUME TypeOK, NEW L, ConsistentBut(L), Lasting,
         [Next]_vars \/ \E t \in recoveries : RecoveryWriteFails(t)
  PROVE  Kept
PROOF
<1>1. OutcomesKept
  BY OutcomesStep, OutcomesFailing DEF Lasting
<1>2. \A j \in Jobs : RowKept(j)
  BY RowsStep, FailedRow DEF Lasting
<1> QED BY <1>1, <1>2 DEF Kept, Lasting, OutcomesKept, RowKept

LEMMA LastingHolds == Spec => [](TypeOK /\ Consistent /\ Lasting)
PROOF
<1>1. TypeOK /\ Consistent /\ Lasting /\ [Next]_vars => Lasting'
  BY LastingStep, ConsistentByJob DEF Kept
<1> QED BY <1>1, LastingInit, InvariantHolds, PTL DEF Spec

(* Every attempt and every run that ended has exactly one event to say so  *)
(* (end(), endQueued(), reconcile()).                                      *)
THEOREM OutcomesReportedOnce == Spec => []EndsOnce
PROOF
<1>1. Lasting => EndsOnce
  BY DEF Lasting
<1> QED BY <1>1, LastingHolds, PTL

(* A run ends with its last attempt, and keeps the outcome that its        *)
(* attempts give (reconcile()).                                            *)
THEOREM RunsEndWithAttempts == Spec => []RunsFollowAttempts
PROOF
<1>1. Lasting => RunsFollowAttempts
  BY DEF Lasting
<1> QED BY <1>1, LastingHolds, PTL

(* No step changes the outcome of an attempt or of a run that has one      *)
(* (end(), cancelRun()).                                                   *)
THEOREM OutcomesNeverChange == Spec => OutcomesStand
PROOF
<1> DEFINE stand == /\ \A j \in Jobs : Ended(j) => attempt'[j] = attempt[j]
                    /\ \A r \in Runs : RunEnded(r) =>
                         runStatus'[r] = runStatus[r] /\ runCancel'[r] = runCancel[r]
<1>1. TypeOK /\ Consistent /\ Lasting /\ [Next]_vars => [stand]_vars
  BY LastingStep, ConsistentByJob DEF Kept
<1> QED BY <1>1, LastingHolds, PTL DEF Spec, OutcomesStand

(* A launch that is open is somebody's, or the next claim's; the operator  *)
(* is left only what was recovered as often as the policy allows (claim(), *)
(* deferRecovery()).                                                       *)
THEOREM NobodyLeftBehind == Spec => []NobodyIsStranded
PROOF
<1>1. TypeOK /\ Consistent /\ Lasting => NobodyIsStranded
  BY DEF Lasting, OpenRow, NobodyIsStranded, Expired, Consistent, RowConsistent, TypeOK
<1> QED BY <1>1, LastingHolds, PTL

(* No step takes back what was charged, and none changes the row of a      *)
(* settled launch (observeCharge(), settle()).                             *)
THEOREM LedgerNeverShrinks == Spec => LedgerOnlyGrows
PROOF
<1> DEFINE grows ==
      \A j \in Jobs :
        /\ consumed'[j] >= consumed[j]
        /\ observation[j] # NULL =>
             observation'[j] # NULL /\ observation'[j].charged >= observation[j].charged
        /\ released'[j] # released[j] => launch'[j] = "settled"
        /\ launch[j] = "settled" =>
             /\ launch'[j] = "settled" /\ reserved'[j] = reserved[j]
             /\ consumed'[j] = consumed[j] /\ released'[j] = released[j]
             /\ observation'[j] = observation[j] /\ recordedAttempt'[j] = recordedAttempt[j]
<1>1. TypeOK /\ Consistent /\ Lasting /\ [Next]_vars => [grows]_vars
  BY LastingStep, ConsistentByJob DEF Kept, Grows
<1> QED BY <1>1, LastingHolds, PTL DEF Spec, LedgerOnlyGrows
-----------------------------------------------------------------------------
(* The writes of a recovery that fail (WorkerFallback).  They let go of    *)
(* jobs, but only of such of which nothing had been recorded.              *)
LetGo(L) == ConsistentBut(L) /\ LedgerBut(L) /\ \A j \in L : ~Evidence(j)
FallbackInvariant == TypeOK /\ Lasting /\ \E L \in SUBSET Jobs : LetGo(L)

(* A report of "never attempted" settles the launch and ends the attempt.  *)
LEMMA WriteFailsLetsGo ==
  ASSUME TypeOK, NEW L \in SUBSET Jobs, ConsistentBut(L), NEW t \in recoveries, RecoveryWriteFails(t)
  PROVE  /\ TypeOK'
         /\ MaySettleUnlaunched(t) => ConsistentBut(L \cup {t.job})'
         /\ ~MaySettleUnlaunched(t) => ConsistentBut(L)'
PROOF
<1> USE DEF leaseVars, launchVars, runVars, attemptVars, ledgerVars, providerVars,
            claimVars, launcherVars, boundVars
<1>1. /\ \A i \in Jobs : JobConsistent(L, i)
      /\ \A s \in recoveries : RecoveryConsistent(s)
  BY DEF ConsistentBut
<1> DEFINE j == t.job
<1>2. j \in Jobs
  BY DEF TypeOK, RecoveryClaims
<1>3. /\ HoldsLease(j, t.worker, t.generation) /\ recoveries' = recoveries \ {t}
      /\ UNCHANGED <<providerVars, launcherVars, boundVars>>
  BY DEF RecoveryWriteFails
<1>4. \A s \in recoveries' : RecoveryConsistent(s)'
  BY <1>1, <1>3 DEF RecoveryConsistent
<1>5. CASE MaySettleUnlaunched(t)
  <2>1. /\ Settle(j, 0, TRUE, 0)
        /\ recordedAttempt' = [recordedAttempt EXCEPT ![j] = FALSE]
        /\ UNCHANGED <<jobCancel, generation, sessionRef, runCancel, observation>>
    BY <1>5 DEF RecoveryWriteFails
  <2>2. PICK outcome \in ResultsOf(NeverAttempted) : SettleLaunch(j, TRUE, outcome)
    BY <1>5 DEF RecoveryWriteFails
  <2>3. outcome \in TerminalStatuses
    BY DEF ResultsOf, NeverAttempted, TerminalStatuses
  <2>4. ~sessionRef[j]
    BY <1>5 DEF MaySettleUnlaunched, Evidence
  <2> HIDE DEF j
  <2>5. /\ launch'[j] = "settled" /\ job'[j] \in {"completed", "cancelled"}
        /\ attempt'[j] \in TerminalStatuses
        /\ \A i \in Jobs \ {j} : attempt'[i] = attempt[i] /\ job'[i] = job[i] /\ launch'[i] = launch[i]
    <3>1. launch'[j] = "settled"
      BY <1>2, <2>2 DEF SettleLaunch, TypeOK
    <3> QED
      BY <1>2, <2>2, <2>3, <3>1, SettleLaunchEffect
  <2>6. reserved' \in [Jobs -> Nat] /\ consumed' \in [Jobs -> Nat] /\ released' \in [Jobs -> Nat]
    <3>1. 0 \in SecondsOrNull /\ 0 \in Nat
      BY DEF SecondsOrNull
    <3> QED
      BY <1>2, <2>1, <3>1, SettleType
  <2>7. TypeOK'
    BY <1>2, <1>3, <2>1, <2>2, <2>3, <2>6, SettleLaunchType DEF TypeOK, Statuses
  <2>8. JobConsistent(L \cup {j}, j)'
    <3>1. /\ generation[j] # 0 /\ launcher[j] # "idle" /\ generation[j] \in Nat
      BY <1>1, <1>2, <1>3, SMTT(60) DEF HoldsLease, JobConsistent, RowConsistent, TypeOK
    <3>2. RowConsistent(j)'
      BY <1>3, <2>1, <2>5, <3>1 DEF RowConsistent, TerminalStatuses
    <3>3. LauncherConsistent(j)' /\ (creations[j] <= 1)'
      BY <1>1, <1>2, <1>3 DEF JobConsistent, LauncherConsistent
    <3> QED
      BY <2>1, <2>4, <2>5, <3>2, <3>3 DEF JobConsistent
  <2>9. \A i \in Jobs \ {j} : JobConsistent(L \cup {j}, i)'
    BY <1>1, <1>3, <2>1, <2>5 DEF JobConsistent, RowConsistent, LauncherConsistent, MayRun
  <2>10. ConsistentBut(L \cup {j})'
    BY <1>4, <2>8, <2>9 DEF ConsistentBut
  <2> QED
    BY <1>5, <2>7, <2>10 DEF j
<1>6. CASE ~MaySettleUnlaunched(t)
  <2>1. UNCHANGED <<leaseVars, launchVars, runVars, attemptVars, ledgerVars>>
    BY <1>6 DEF RecoveryWriteFails
  <2>2. TypeOK'
    BY <1>3, <2>1 DEF TypeOK
  <2>3. \A i \in Jobs : JobConsistent(L, i)'
    BY <1>1, <1>3, <2>1 DEF JobConsistent, RowConsistent, LauncherConsistent, MayRun
  <2> QED
    BY <1>4, <1>6, <2>2, <2>3 DEF ConsistentBut
<1> QED
  BY <1>5, <1>6

(* Of a job it lets go, nothing is on record afterwards either; the        *)
(* account of any other stays as it was.                                   *)
LEMMA WriteFailsKeepsLedger ==
  ASSUME TypeOK, NEW L \in SUBSET Jobs, LetGo(L), \A j \in Jobs : OpenRow(j),
         NEW t \in recoveries, RecoveryWriteFails(t)
  PROVE  /\ MaySettleUnlaunched(t) => LetGo(L \cup {t.job})'
         /\ ~MaySettleUnlaunched(t) => LetGo(L)'
PROOF
<1> USE DEF LetGo
<1>1. t.job \in Jobs
  BY DEF TypeOK, RecoveryClaims
<1>2. /\ recoveries' = recoveries \ {t} /\ UNCHANGED <<providerVars, usage>>
      /\ \A i \in Jobs : ProviderMoves(i)
  BY DEF RecoveryWriteFails, launcherVars, providerVars, ProviderMoves
<1>3. \A s \in recoveries' : s.job \notin L => LedgerClaim(s)'
  BY <1>2 DEF LedgerBut, LedgerClaim, Measured, providerVars
<1>4. CASE MaySettleUnlaunched(t)
  <2> DEFINE j == t.job
  <2>1. /\ Settle(j, 0, TRUE, 0)
        /\ recordedAttempt' = [recordedAttempt EXCEPT ![j] = FALSE]
        /\ UNCHANGED <<sessionRef, observation>>
    BY <1>4 DEF RecoveryWriteFails
  <2>2. PICK outcome \in ResultsOf(NeverAttempted) : SettleLaunch(j, TRUE, outcome)
    BY <1>4 DEF RecoveryWriteFails
  <2>3. outcome \in TerminalStatuses /\ 0 \in SecondsOrNull /\ 0 \in Nat
    BY DEF ResultsOf, NeverAttempted, TerminalStatuses, SecondsOrNull
  <2>4. ~Evidence(j)
    BY <1>4 DEF MaySettleUnlaunched
  <2>5. consumed' = [consumed EXCEPT ![j] = 0]
    <3>1. consumed[j] = 0
      BY <1>1, <2>4 DEF Evidence, TypeOK
    <3>2. 0 # NULL
      BY NullAssumption
    <3> QED BY <2>1, <3>1, <3>2 DEF Settle, Larger
  <2> HIDE DEF j
  <2>6. j \in Jobs
    BY <1>1 DEF j
  <2>7. ~Evidence(j)'
    BY <2>1, <2>4, <2>5, <2>6 DEF Evidence, TypeOK
  <2>8. ASSUME NEW i \in Jobs \ {j}
        PROVE  /\ consumed'[i] = consumed[i] /\ released'[i] = released[i] /\ reserved'[i] = reserved[i]
               /\ recordedAttempt'[i] = recordedAttempt[i] /\ launch'[i] = launch[i]
    <3>1. consumed'[i] = consumed[i] /\ released'[i] = released[i] /\ reserved' = reserved
      BY <2>1, <2>3, <2>6, SettleEffect
    <3>2. launch'[i] = launch[i]
      BY <2>2, <2>3, <2>6, SettleLaunchEffect
    <3> QED BY <2>1, <2>6, <3>1, <3>2 DEF TypeOK
  <2>9. \A i \in L \ {j} : ~Evidence(i)'
    BY <2>1, <2>8 DEF Evidence
  <2>10. \A i \in Jobs \ (L \cup {j}) : LedgerRow(i)'
    BY <1>2, <2>1, <2>8, LedgerRowKept DEF LedgerBut
  <2>11. ConsistentBut(L \cup {j})'
    BY <1>4, WriteFailsLetsGo DEF j
  <2>12. LetGo(L \cup {j})'
    BY <1>3, <2>7, <2>9, <2>10, <2>11 DEF LedgerBut
  <2> QED BY <1>4, <2>12 DEF j
<1>5. CASE ~MaySettleUnlaunched(t)
  <2>1. UNCHANGED <<launchVars, ledgerVars>>
    BY <1>5 DEF RecoveryWriteFails
  <2>2. /\ \A i \in Jobs \ L : LedgerRow(i)'
        /\ \A i \in L : ~Evidence(i)'
    BY <1>2, <2>1, LedgerRowKept DEF LedgerBut, Evidence, launchVars, ledgerVars
  <2> QED BY <1>3, <1>5, <2>2, WriteFailsLetsGo DEF LedgerBut
<1> QED BY <1>4, <1>5

(* A settled launch is closed: nothing comes on record of a job let go.    *)
LEMMA LetGoKept ==
  ASSUME TypeOK, NEW L \in SUBSET Jobs, LetGo(L), \A j \in Jobs : OpenRow(j), [Next]_vars
  PROVE  LetGo(L)'
PROOF
<1> USE DEF LetGo
<1>1. ConsistentBut(L)' /\ LedgerBut(L)'
  BY ConsistentStep, LedgerStep
<1>2. ASSUME NEW j \in L PROVE ~Evidence(j)'
  <2>1. launch[j] = "settled" /\ ~Evidence(j) /\ ~sessionRef'[j]
    BY <1>1 DEF ConsistentBut, JobConsistent
  <2>2. Grows(j)
    BY RowsStep DEF RowKept
  <2> QED BY <2>1, <2>2 DEF Grows, Evidence
<1> QED BY <1>1, <1>2

(* Every step of the protocol with failing writes.                         *)
LEMMA FallbackStep ==
  ASSUME FallbackInvariant, [FallbackNext]_fallbackVars
  PROVE  FallbackInvariant' /\ Kept
PROOF
<1>1. PICK L \in SUBSET Jobs : LetGo(L)
  BY DEF FallbackInvariant
<1>2. TypeOK /\ ConsistentBut(L) /\ Lasting /\ \A j \in Jobs : OpenRow(j)
  BY <1>1 DEF FallbackInvariant, LetGo, Lasting
<1>3. CASE [Next]_vars
  <2>1. TypeOK' /\ LetGo(L)'
    BY <1>1, <1>2, <1>3, ConsistentStep, LetGoKept
  <2>2. Kept
    BY <1>2, <1>3, LastingStep
  <2> QED BY <2>1, <2>2 DEF FallbackInvariant, Kept
<1>4. ASSUME NEW t \in recoveries, RecoveryWriteFails(t) PROVE FallbackInvariant' /\ Kept
  <2>1. TypeOK'
    BY <1>2, <1>4, WriteFailsLetsGo
  <2>2. \E K \in SUBSET Jobs : LetGo(K)'
    <3>1. t.job \in Jobs
      BY <1>2 DEF TypeOK, RecoveryClaims
    <3> QED BY <1>1, <1>2, <1>4, <3>1, WriteFailsKeepsLedger, ZenonT(60)
  <2>3. Kept
    BY <1>2, <1>4, LastingStep
  <2> QED BY <2>1, <2>2, <2>3 DEF FallbackInvariant, Kept
<1> QED BY <1>3, <1>4 DEF FallbackNext, fallbackVars

LEMMA FallbackHolds == FallbackSpec => []FallbackInvariant
PROOF
<1>1. FallbackInit => FallbackInvariant
  <2> SUFFICES ASSUME Init PROVE FallbackInvariant
    BY DEF FallbackInit
  <2>1. TypeOK /\ ConsistentBut({}) /\ Lasting
    BY TypeInit, ConsistentInit, ConsistentByJob, LastingInit
  <2>2. LedgerBut({})
    BY DEF Init, LedgerBut, LedgerRow, LedgerClaim, OpenLaunch
  <2> QED BY <2>1, <2>2 DEF FallbackInvariant, LetGo
<1>2. FallbackInvariant /\ [FallbackNext]_fallbackVars => FallbackInvariant'
  BY FallbackStep
<1> QED BY <1>1, <1>2, PTL DEF FallbackSpec

(* A failing write never frees the slot of a browser whose session id was  *)
(* stored (finish(): "never attempted" is checked against the row).        *)
THEOREM StoredSessionKeepsSlot == FallbackSpec => []StoredSessionHoldsSlot
PROOF
<1>1. FallbackInvariant => StoredSessionHoldsSlot
  BY DEF FallbackInvariant, LetGo, ConsistentBut, JobConsistent, StoredSessionHoldsSlot
<1> QED BY <1>1, FallbackHolds, PTL

(* Nor of any job of which something was recorded, and the account of such *)
(* a job covers its browser as without failing writes (finish()).          *)
THEOREM RecordedJobsAreCovered == FallbackSpec => []EvidenceHolds
PROOF
<1>1. FallbackInvariant => EvidenceHolds
  <2> SUFFICES ASSUME FallbackInvariant, NEW j \in Jobs, Evidence(j)
               PROVE  /\ MayRun(j) => launch[j] \notin {"none", "settled"}
                      /\ launch[j] \notin {"none", "settled"} => reserved[j] = SessionSeconds /\ released[j] = 0
                      /\ launch[j] = "settled" /\ remote[j] = "terminal"
                           => consumed[j] >= Min({duration[j], SessionSeconds})
    BY DEF EvidenceHolds
  <2>1. PICK L \in SUBSET Jobs : LetGo(L)
    BY DEF FallbackInvariant
  <2>2. TypeOK /\ LedgerRow(j) /\ JobConsistent(L, j) /\ j \notin L
    BY <2>1 DEF FallbackInvariant, LetGo, LedgerBut, ConsistentBut
  <2> QED BY <2>2, RowCovers DEF JobConsistent
<1> QED BY <1>1, FallbackHolds, PTL

(* Nor does it make any job ask for a second browser (executeClaim()).     *)
THEOREM NoSecondLaunchEver == FallbackSpec => []OneBrowserPerJob
PROOF
<1>1. FallbackInvariant => OneBrowserPerJob
  BY DEF FallbackInvariant, LetGo, ConsistentBut, JobConsistent, OneBrowserPerJob
<1> QED BY <1>1, FallbackHolds, PTL

(* What a failing write lets go of is a browser: it has no outcome         *)
(* reported twice or changed, strands no launch and takes no charge back   *)
(* (executeClaim()).                                                       *)
THEOREM FailingWritesKeepRecords ==
  FallbackSpec => /\ [](EndsOnce /\ RunsFollowAttempts /\ NobodyIsStranded)
                  /\ OutcomesStand /\ LedgerOnlyGrows
PROOF
<1> DEFINE stand == /\ \A j \in Jobs : Ended(j) => attempt'[j] = attempt[j]
                    /\ \A r \in Runs : RunEnded(r) =>
                         runStatus'[r] = runStatus[r] /\ runCancel'[r] = runCancel[r]
           grows ==
      \A j \in Jobs :
        /\ consumed'[j] >= consumed[j]
        /\ observation[j] # NULL =>
             observation'[j] # NULL /\ observation'[j].charged >= observation[j].charged
        /\ released'[j] # released[j] => launch'[j] = "settled"
        /\ launch[j] = "settled" =>
             /\ launch'[j] = "settled" /\ reserved'[j] = reserved[j]
             /\ consumed'[j] = consumed[j] /\ released'[j] = released[j]
             /\ observation'[j] = observation[j] /\ recordedAttempt'[j] = recordedAttempt[j]
<1>1. FallbackInvariant => EndsOnce /\ RunsFollowAttempts /\ NobodyIsStranded
  BY DEF FallbackInvariant, LetGo, ConsistentBut, JobConsistent, RowConsistent, TypeOK,
         Lasting, OpenRow, NobodyIsStranded, Expired
<1>2. FallbackInvariant /\ [FallbackNext]_fallbackVars => [stand]_vars /\ [grows]_vars
  BY FallbackStep DEF Kept, Grows
<1> QED BY <1>1, <1>2, FallbackHolds, PTL DEF FallbackSpec, OutcomesStand, LedgerOnlyGrows
=============================================================================
