-------------------------- MODULE ManagedAttempts --------------------------
(***************************************************************************)
(* The managed-agent worker of src/server/managed: attempts handed to the  *)
(* provider's hosted agents.  The store keeps the rows (store.ts), one     *)
(* executeManagedAgent per lease drives the remote run (runner.ts), and    *)
(* the slots and budgets are shared with the ordinary jobs of              *)
(* WorkerLease.                                                            *)
(*                                                                         *)
(* A store method is one transaction, hence one action.  The runner awaits *)
(* the provider between them; a reply is handled in one synchronous turn,  *)
(* which first asks whether the lease still holds.  A lease generation has *)
(* one task, so the worker's id adds nothing to it and is left out.  Time  *)
(* is abstracted to the comparisons the code makes, and the cleanup's      *)
(* polls (CLEANUP_POLLS, CLEANUP_MS) to giving up at any of them.          *)
(***************************************************************************)
EXTENDS Integers, FiniteSets, FiniteSetsExt

CONSTANTS
  Attempts,           (* rowids of managed_attempts, so a set of numbers   *)
  Runs, Owners,
  RunOf,              (* [Attempts -> Runs]                                *)
  OwnerOf,            (* [Runs -> Owners]                                  *)
  NULL,
  GlobalConcurrency, OwnerConcurrency, RecoveryLimit,
  SessionSeconds,     (* reserved for each attempt                         *)
  DevelopmentBudget, OwnerBudget, LifetimeLimit, Baseline,
  Durations,          (* billed durations the provider may measure         *)
  MaxJobs,            (* bound: ordinary jobs each owner launches          *)
  MaxFaults           (* bound: crashes, stalls and failed lease checks    *)

FinalStates == {"completed", "failed", "cancelled"}

ASSUME AttemptsAssumption == Attempts \subseteq Nat /\ IsFiniteSet(Attempts)
ASSUME OwnershipAssumption == RunOf \in [Attempts -> Runs] /\ OwnerOf \in [Runs -> Owners]
ASSUME OwnersAssumption == IsFiniteSet(Owners)
ASSUME NullAssumption == NULL \notin Nat \cup FinalStates
ASSUME PolicyAssumption ==
  /\ GlobalConcurrency \in Nat \ {0} /\ OwnerConcurrency \in Nat \ {0}
  /\ RecoveryLimit \in Nat \ {0} /\ SessionSeconds \in Nat \ {0}
  /\ DevelopmentBudget \in Nat /\ OwnerBudget \in Nat
  /\ LifetimeLimit \in Nat /\ Baseline \in Nat
ASSUME InputAssumption == Durations \subseteq Nat
ASSUME BoundAssumption == MaxJobs \in Nat /\ MaxFaults \in Nat

VARIABLES
  row,      (* the managed_attempts rows                                   *)
  jobs,     (* ordinary jobs of each owner that were launched: how many    *)
            (* hold a slot, and how many have settled                      *)
  remote,   (* the provider: the agent run an attempt leads to, its        *)
            (* browser session, the billed seconds, the requests sent      *)
  tasks,    (* executions of executeManagedAgent in the workers' memory    *)
  faults

vars == <<row, jobs, remote, tasks, faults>>
-----------------------------------------------------------------------------
Larger(a, b) == IF a >= b THEN a ELSE b
Known(seconds) == IF seconds = NULL THEN 0 ELSE seconds

OwnerOfAttempt(a) == OwnerOf[RunOf[a]]
AttemptsOf(o) == {a \in Attempts : OwnerOfAttempt(a) = o}

Occupied == {a \in Attempts : row[a].state \notin {"queued", "settled"}}

(* A SUM over rows.                                                        *)
Total(amounts, S) == MapThenSumSet(LAMBDA x : amounts[x], S)

(* occupancy() and accounting() count ordinary jobs and managed attempts   *)
(* alike.  Faulty variant: managed attempts only.                          *)
OccupancyOfManaged(O) == Cardinality({a \in Occupied : OwnerOfAttempt(a) \in O})
Occupancy(O) ==
  Cardinality({a \in Occupied : OwnerOfAttempt(a) \in O})
    + Total([o \in Owners |-> jobs[o].open], O)

JobSeconds(O) ==
  Total([o \in Owners |-> SessionSeconds * (jobs[o].open + jobs[o].settled)], O)
Charge(a) == Larger(row[a].reserved - row[a].released, row[a].consumed)
Committed(O) ==
  JobSeconds(O) +
    Total([a \in Attempts |-> Charge(a)], {a \in Attempts : OwnerOfAttempt(a) \in O})
Reserved == JobSeconds(Owners) + Total([a \in Attempts |-> row[a].reserved], Attempts)

GlobalFull == Occupancy(Owners) >= GlobalConcurrency
OwnerFull(o) == Occupancy({o}) >= OwnerConcurrency
BudgetExhausted(o) ==
  \/ Committed(Owners) + Baseline + SessionSeconds > DevelopmentBudget
  \/ Committed({o}) + SessionSeconds > OwnerBudget
  \/ Reserved + SessionSeconds > LifetimeLimit

(* The row assertLease() looks up.                                         *)
Holds(t) == row[t.attempt].leaseLive /\ row[t.attempt].generation = t.generation

HolderAlive(a) == \E t \in tasks : t.attempt = a /\ t.generation = row[a].generation

(* What tasks have in common: one of them moves on.                        *)
Becomes(t, u) == tasks' = (tasks \ {t}) \cup {u}
-----------------------------------------------------------------------------
(* executeManagedAgent() takes a dispatch marker or any stored id for an   *)
(* allocation.                                                             *)
AllocationPossible(a) == row[a].dispatched \/ row[a].runKnown \/ row[a].sessionKnown

(* claim() and acquire().  The task starts from what the row says.         *)
Acquire(a, r) ==
  /\ row' = [r EXCEPT ![a].generation = @ + 1, ![a].leaseLive = TRUE]
  /\ tasks' = tasks \cup
       {[attempt |-> a, generation |-> row[a].generation + 1, at |-> "start",
         allocated |-> AllocationPossible(a),
         run |-> IF row[a].runKnown THEN "named" ELSE "unknown", session |-> row[a].sessionKnown,
         verified |-> NULL, closed |-> FALSE, seconds |-> NULL,
         stopped |-> FALSE, released |-> FALSE, error |-> NULL]}

(* Faulty variant: an unconfirmed cleanup is not retried.                  *)
ExpiredOnce == {a \in Occupied : ~row[a].leaseLive /\ row[a].state # "quarantined"}
Expired ==
  {a \in Occupied : /\ ~row[a].leaseLive /\ ~row[a].backingOff
                    /\ row[a].recoveries < RecoveryLimit}

(* The oldest expired lease first; its slot is already counted.            *)
ClaimExpired(a) ==
  /\ a \in Expired
  /\ \A b \in Expired : a <= b
  /\ Acquire(a, [row EXCEPT ![a].recoveries = @ + 1, ![a].state = "quarantined",
                            ![a].status = "cleanup_required"])
  /\ UNCHANGED <<jobs, remote, faults>>

(* The queued rows the claim looks at, oldest first: it skips the owners   *)
(* at their ceiling, fails what the budgets refuse, and takes the first    *)
(* of the others.                                                          *)
Queued ==
  {a \in Attempts : row[a].state = "queued" /\ ~row[a].cancelled /\ ~OwnerFull(OwnerOfAttempt(a))}
Grantable == {a \in Queued : ~BudgetExhausted(OwnerOfAttempt(a))}
Refused == {a \in Queued \ Grantable : \A b \in Grantable : a < b}
AfterRefusal ==
  [a \in Attempts |->
     IF a \in Refused THEN [row[a] EXCEPT !.state = "settled", !.status = "failed", !.actual = 0]
     ELSE row[a]]

ClaimQueued(a) ==
  /\ Expired = {} /\ ~GlobalFull
  /\ a \in Grantable
  /\ \A b \in Grantable : a <= b
  /\ Acquire(a, [AfterRefusal EXCEPT ![a].state = "reserved", ![a].status = "running",
                                     ![a].reserved = SessionSeconds])
  /\ UNCHANGED <<jobs, remote, faults>>

RefuseQueued ==
  /\ Expired = {} /\ ~GlobalFull
  /\ Grantable = {} /\ Refused # {}
  /\ row' = AfterRefusal
  /\ UNCHANGED <<jobs, remote, tasks, faults>>

(* The claim of an ordinary job goes by the same ceilings and budgets.     *)
JobStarts(o) ==
  /\ jobs[o].open + jobs[o].settled < MaxJobs
  /\ ~GlobalFull /\ ~OwnerFull(o) /\ ~BudgetExhausted(o)
  /\ jobs' = [jobs EXCEPT ![o].open = @ + 1]
  /\ UNCHANGED <<row, remote, tasks, faults>>

JobSettles(o) ==
  /\ jobs[o].open > 0
  /\ jobs' = [jobs EXCEPT ![o].open = @ - 1, ![o].settled = @ + 1]
  /\ UNCHANGED <<row, remote, tasks, faults>>
-----------------------------------------------------------------------------
(* The first lease: dispatch, create, poll.                                *)
MayDispatch(t) ==
  /\ ~row[t.attempt].cancelled
  /\ t.generation = 1 /\ row[t.attempt].recoveries = 0
  /\ ~row[t.attempt].dispatched /\ row[t.attempt].state = "reserved"

(* dispatch() commits the marker before the request may leave.             *)
Dispatch(t) ==
  /\ t.at = "start" /\ ~t.allocated
  /\ Holds(t) /\ MayDispatch(t)
  /\ row' = [row EXCEPT ![t.attempt].state = "dispatched", ![t.attempt].dispatched = TRUE]
  /\ Becomes(t, [t EXCEPT !.at = "dispatched", !.allocated = TRUE])
  /\ UNCHANGED <<jobs, remote, faults>>

(* Cancelled, too late, rejected, or a recovery of an attempt that was     *)
(* never dispatched: nothing can exist at the provider.                    *)
EndUnallocated(t) ==
  /\ t.at = "start" /\ ~t.allocated /\ Holds(t)
  /\ \E error \in {"failed", "cancelled"} :
       Becomes(t, [t EXCEPT !.at = "report", !.closed = TRUE, !.error = error])
  /\ UNCHANGED <<row, jobs, remote, faults>>

(* createRun leaves the process in the turn of its lease check.            *)
Create(t) ==
  /\ t.at = "dispatched"
  /\ Holds(t) /\ ~row[t.attempt].cancelled
  /\ remote' = [remote EXCEPT ![t.attempt].run = "asked", ![t.attempt].requests = @ + 1]
  /\ Becomes(t, [t EXCEPT !.at = "created"])
  /\ UNCHANGED <<row, jobs, faults>>

Exists(a) == remote[a].run \in {"running", "completed", "failed"}
Verdict(a) == IF remote[a].run \in {"completed", "failed"} THEN remote[a].run ELSE NULL

(* observeRun(): the ids are saved whatever became of the attempt.  A      *)
(* record that is terminal names its session, an earlier one may not yet.  *)
Learns(t, named, u) ==
  /\ named => remote[t.attempt].session # "none"
  /\ u.verified # NULL => (remote[t.attempt].session # "none" => named)
  /\ row' = [row EXCEPT ![t.attempt].runKnown = TRUE,
                        ![t.attempt].sessionKnown = @ \/ named]
  /\ Becomes(t, [u EXCEPT !.run = "owned", !.session = @ \/ named])

(* A reply handled after a cancellation turns the task to its cleanup.     *)
Proceeds(t, u) ==
  IF row[t.attempt].cancelled THEN [u EXCEPT !.at = "cleanup", !.error = "cancelled"] ELSE u

ReceiveRun(t) ==
  /\ t.at = "created" /\ Holds(t) /\ Exists(t.attempt)
  /\ \E named \in BOOLEAN : Learns(t, named, Proceeds(t, [t EXCEPT !.at = "polling"]))
  /\ UNCHANGED <<jobs, remote, faults>>

PollRun(t) ==
  /\ t.at = "polling" /\ Holds(t)
  /\ \E named \in BOOLEAN :
       Learns(t, named, Proceeds(t, [t EXCEPT !.at = "watching", !.verified = Verdict(t.attempt)]))
  /\ UNCHANGED <<jobs, remote, faults>>

(* observeSession(): closed by a COMPLETED session of a terminal run.      *)
(* Faulty variant: the run's own end is enough.                            *)
ClosedByRun(t) == t.verified # NULL
Closed(t) == t.verified # NULL /\ t.session /\ remote[t.attempt].session = "over"
SeesSession(t, u) ==
  IF Closed(t)
  THEN \E seconds \in {remote[t.attempt].seconds, NULL} :
         Becomes(t, [u EXCEPT !.closed = TRUE, !.seconds = seconds])
  ELSE Becomes(t, u)

(* readSession() and readMessages() of one round.                          *)
WatchSession(t) ==
  /\ t.at = "watching" /\ Holds(t)
  /\ SeesSession(t, Proceeds(t, [t EXCEPT !.at = IF t.verified # NULL THEN "cleanup" ELSE "polling"]))
  /\ UNCHANGED <<row, jobs, remote, faults>>
-----------------------------------------------------------------------------
(* A recovery: find the run of the dispatch, and stop it.                  *)
BeginRecovery(t) ==
  /\ t.at = "start" /\ t.allocated /\ Holds(t)
  /\ Becomes(t, [t EXCEPT !.at = IF t.run = "unknown" THEN "discovering" ELSE "verifying"])
  /\ UNCHANGED <<row, jobs, remote, faults>>

(* discover(): the one run with the task of the dispatch.  The status      *)
(* event of a cancelled attempt is refused, which the runner reports as a  *)
(* provider failure.                                                       *)
Discover(t) ==
  /\ t.at = "discovering" /\ Holds(t) /\ Exists(t.attempt)
  /\ \E named \in BOOLEAN :
       Learns(t, named, IF row[t.attempt].cancelled
                        THEN [t EXCEPT !.at = "cleanup", !.error = "failed"]
                        ELSE [t EXCEPT !.at = "verifying"])
  /\ UNCHANGED <<jobs, remote, faults>>

Verify(t) ==
  /\ t.at = "verifying" /\ Holds(t)
  /\ \E named \in BOOLEAN, error \in {"failed", "cancelled"} :
       LET verified == Verdict(t.attempt)
       IN  Learns(t, named,
             [t EXCEPT !.at = "cleanup", !.verified = verified,
                       !.error = IF row[t.attempt].cancelled THEN "failed"
                                 ELSE IF verified = NULL THEN error ELSE NULL])
  /\ UNCHANGED <<jobs, remote, faults>>
-----------------------------------------------------------------------------
(* A call fails, finds nothing or is too late, or the signal is aborted by *)
(* a cancellation, a failed heartbeat or a shutdown.  After a failed       *)
(* recovery read and without an answer to the creation the run may exist.  *)
Interrupted(t) ==
  /\ t.at \in {"dispatched", "created", "polling", "watching", "discovering", "verifying"}
  /\ Holds(t)
  /\ \E error \in IF t.at \in {"discovering", "verifying"} THEN {"failed"}
                  ELSE {"failed", "cancelled"} :
       Becomes(t, [t EXCEPT !.at = "cleanup", !.error = error])
  /\ UNCHANGED <<row, jobs, remote, faults>>

StopsRun(a) ==
  remote' = [remote EXCEPT ![a].run = IF @ = "running" THEN "failed" ELSE @]

(* A read contradicts an earlier one: nothing is believed any more, and    *)
(* the run is asked to stop.                                               *)
Contradicted(t) ==
  /\ t.at \in {"created", "polling", "watching", "verifying", "cleanup"}
  /\ Holds(t)
  /\ \/ t.run = "owned" /\ t.verified = NULL /\ ~t.stopped /\ StopsRun(t.attempt)
     \/ UNCHANGED remote
  /\ Becomes(t, [t EXCEPT !.at = "report", !.closed = FALSE, !.seconds = NULL, !.error = "failed"])
  /\ UNCHANGED <<row, jobs, faults>>

(* The lease is gone, for good: the next check throws, no cleanup is       *)
(* attempted and finish() refuses whatever the task would report.          *)
LeaseLost(t) ==
  /\ ~Holds(t)
  /\ tasks' = tasks \ {t}
  /\ UNCHANGED <<row, jobs, remote, faults>>

(* The lease check throws because the database does: the runner takes the  *)
(* lease for lost and skips the cleanup, and finish() may succeed again.   *)
FenceThrows(t) ==
  /\ faults < MaxFaults /\ faults' = faults + 1
  /\ t.at # "report" /\ Holds(t)
  /\ Becomes(t, [t EXCEPT !.at = "report", !.error = "failed"])
  /\ UNCHANGED <<row, jobs, remote>>

(* requestStop(): once, and its answer proves nothing.                     *)
RequestStop(t) ==
  /\ t.at = "cleanup" /\ t.run = "owned" /\ t.verified = NULL /\ ~t.stopped
  /\ Holds(t)
  /\ StopsRun(t.attempt) \/ UNCHANGED remote
  /\ \E named \in BOOLEAN : Learns(t, named, [t EXCEPT !.stopped = TRUE])
  /\ UNCHANGED <<jobs, faults>>

CleanupRun(t) ==
  /\ t.at = "cleanup" /\ t.run # "unknown" /\ t.verified = NULL
  /\ t.run = "owned" => t.stopped
  /\ Holds(t)
  /\ \E named \in BOOLEAN : Learns(t, named, [t EXCEPT !.verified = Verdict(t.attempt)])
  /\ UNCHANGED <<jobs, remote, faults>>

(* A terminal run without a session has nothing to close; a session that   *)
(* runs is asked to end, once.                                             *)
CleanupSession(t) ==
  /\ t.at = "cleanup" /\ t.verified # NULL
  /\ Holds(t)
  /\ \/ /\ ~t.session
        /\ Becomes(t, [t EXCEPT !.at = "publish", !.closed = TRUE])
        /\ UNCHANGED remote
     \/ /\ t.session /\ Closed(t)
        /\ SeesSession(t, [t EXCEPT !.at = "publish"])
        /\ UNCHANGED remote
     \/ /\ t.session /\ ~Closed(t) /\ ~t.released
        /\ remote[t.attempt].session = "running"
        /\ Becomes(t, [t EXCEPT !.released = TRUE])
        /\ \/ \E d \in Durations :
                remote' = [remote EXCEPT ![t.attempt].session = "over", ![t.attempt].seconds = d]
           \/ UNCHANGED remote
  /\ UNCHANGED <<row, jobs, faults>>

GiveUpCleanup(t) ==
  /\ t.at = "cleanup" /\ Holds(t)
  /\ Becomes(t, [t EXCEPT !.at = "publish",
                          !.error = IF ~t.closed /\ @ = NULL THEN "failed" ELSE @])
  /\ UNCHANGED <<row, jobs, remote, faults>>

(* readResult(): only a run that completed, with a browser, has a result,  *)
(* and it may still be rejected.  Faulty variant: any closed run has one.  *)
ResultsOfAnyRun(t) == IF t.closed THEN {NULL, "failed"} ELSE {"failed"}
Results(t) == IF t.verified = "completed" /\ t.session THEN {NULL, "failed"} ELSE {"failed"}

(* publishReplay() and readResult().  The replay of a cancelled attempt is *)
(* refused, and so is the event that would say so: the runner's error is   *)
(* then that of a provider failure.                                        *)
Publish(t) ==
  LET replay == t.closed /\ t.session
  IN  /\ t.at = "publish" /\ Holds(t)
      /\ row' = [row EXCEPT ![t.attempt].replay = @ \/ (replay /\ ~row[t.attempt].cancelled)]
      /\ \E result \in Results(t) :
           Becomes(t, [t EXCEPT !.at = "report",
                                !.error = IF replay /\ row[t.attempt].cancelled THEN "failed"
                                          ELSE IF @ = NULL THEN result ELSE @])
      /\ UNCHANGED <<jobs, remote, faults>>
-----------------------------------------------------------------------------
Status(t) ==
  IF ~t.closed THEN "cleanup_required"
  ELSE IF row[t.attempt].cancelled THEN "cancelled"
  ELSE IF t.error = NULL THEN "completed" ELSE t.error

Consumed(t, actual) ==
  LET r == row[t.attempt]
      allocated == r.dispatched \/ r.runKnown \/ t.allocated
  IN  Larger(r.consumed,
             Larger(Known(actual), IF t.closed /\ allocated /\ t.seconds = NULL
                                   THEN r.reserved ELSE 0))

Refund(t, consumed) == IF t.closed THEN Larger(0, row[t.attempt].reserved - consumed) ELSE 0

(* finish(): the attempt settles when its cleanup is proven, and otherwise *)
(* keeps its slot and its reservation for a later recovery.                *)
Finish(t) ==
  LET r == row[t.attempt]
      allocated == r.dispatched \/ r.runKnown \/ t.allocated
      actual == IF t.seconds = NULL THEN r.actual ELSE Larger(Known(r.actual), t.seconds)
      consumed == Consumed(t, actual)
  IN  /\ t.at = "report" /\ Holds(t)
      /\ row' = [row EXCEPT ![t.attempt] =
           [r EXCEPT !.state = IF t.closed THEN "settled" ELSE "quarantined",
                     !.status = Status(t),
                     !.actual = IF actual = NULL /\ t.closed /\ ~allocated THEN 0 ELSE actual,
                     !.consumed = consumed,
                     !.released = Refund(t, consumed),
                     !.leaseLive = FALSE, !.backingOff = ~t.closed]]
      /\ tasks' = tasks \ {t}
      /\ UNCHANGED <<jobs, remote, faults>>

(* The attempts a cancellation reaches.                                    *)
OpenOfRun(r) == {a \in Attempts : RunOf[a] = r /\ row[a].state # "settled"}

(* cancel(): queued attempts end at once, the others are told.             *)
Cancel(r) ==
  LET open == OpenOfRun(r)
      cancelled(a) ==
        IF row[a].state = "queued"
        THEN [row[a] EXCEPT !.cancelled = TRUE, !.state = "settled", !.status = "cancelled",
                            !.actual = 0]
        ELSE [row[a] EXCEPT !.cancelled = TRUE]
  IN  /\ \E a \in open : ~row[a].cancelled
      /\ row' = [a \in Attempts |-> IF a \in open THEN cancelled(a) ELSE row[a]]
      /\ UNCHANGED <<jobs, remote, tasks, faults>>
-----------------------------------------------------------------------------
(* The provider, crashes and the passage of time.                          *)
ProviderRuns(a) ==
  /\ remote[a].run = "asked"
  /\ \E run \in {"running", "refused"} : remote' = [remote EXCEPT ![a].run = run]
  /\ UNCHANGED <<row, jobs, tasks, faults>>

ProviderOpensSession(a) ==
  /\ remote[a].run = "running" /\ remote[a].session = "none"
  /\ remote' = [remote EXCEPT ![a].session = "running"]
  /\ UNCHANGED <<row, jobs, tasks, faults>>

ProviderEndsRun(a) ==
  /\ remote[a].run = "running"
  /\ \E run \in {"completed", "failed"} : remote' = [remote EXCEPT ![a].run = run]
  /\ UNCHANGED <<row, jobs, tasks, faults>>

(* A session ends as COMPLETED or, "errored", as ERROR or TIMED_OUT.       *)
ProviderEndsSession(a) ==
  /\ remote[a].session = "running"
  /\ \E session \in {"over", "errored"}, d \in Durations :
       remote' = [remote EXCEPT ![a].session = session, ![a].seconds = d]
  /\ UNCHANGED <<row, jobs, tasks, faults>>

(* The task of a process that dies.                                        *)
Crash(t) ==
  /\ faults < MaxFaults
  /\ faults' = faults + 1
  /\ tasks' = tasks \ {t}
  /\ UNCHANGED <<row, jobs, remote>>

(* A lease nobody renews runs out.                                         *)
LeaseExpires(a) ==
  /\ row[a].leaseLive /\ ~HolderAlive(a)
  /\ row' = [row EXCEPT ![a].leaseLive = FALSE]
  /\ UNCHANGED <<jobs, remote, tasks, faults>>

(* The holder stalls for longer than its lease, and then goes on.          *)
HolderStalls(a) ==
  /\ row[a].leaseLive /\ HolderAlive(a)
  /\ faults < MaxFaults /\ faults' = faults + 1
  /\ row' = [row EXCEPT ![a].leaseLive = FALSE]
  /\ UNCHANGED <<jobs, remote, tasks>>

BackOffEnds(a) ==
  /\ row[a].backingOff
  /\ row' = [row EXCEPT ![a].backingOff = FALSE]
  /\ UNCHANGED <<jobs, remote, tasks, faults>>
-----------------------------------------------------------------------------
Init ==
  /\ row = [a \in Attempts |->
       [state |-> "queued", status |-> "queued", cancelled |-> FALSE, generation |-> 0,
        leaseLive |-> FALSE, backingOff |-> FALSE, recoveries |-> 0, dispatched |-> FALSE,
        runKnown |-> FALSE, sessionKnown |-> FALSE, replay |-> FALSE, actual |-> NULL,
        reserved |-> 0, consumed |-> 0, released |-> 0]]
  /\ jobs = [o \in Owners |-> [open |-> 0, settled |-> 0]]
  /\ remote = [a \in Attempts |->
       [run |-> "none", session |-> "none", seconds |-> NULL, requests |-> 0]]
  /\ tasks = {}
  /\ faults = 0

TaskStep(t) ==
  \/ Dispatch(t) \/ EndUnallocated(t) \/ Create(t) \/ ReceiveRun(t) \/ PollRun(t)
  \/ WatchSession(t) \/ BeginRecovery(t) \/ Discover(t) \/ Verify(t) \/ Interrupted(t)
  \/ Contradicted(t) \/ FenceThrows(t) \/ LeaseLost(t) \/ RequestStop(t) \/ CleanupRun(t)
  \/ CleanupSession(t) \/ GiveUpCleanup(t) \/ Publish(t) \/ Finish(t)
ProviderStep(a) ==
  ProviderRuns(a) \/ ProviderOpensSession(a) \/ ProviderEndsRun(a) \/ ProviderEndsSession(a)

Next ==
  \/ \E a \in Attempts : ClaimExpired(a) \/ ClaimQueued(a) \/ ProviderStep(a)
                         \/ LeaseExpires(a) \/ HolderStalls(a) \/ BackOffEnds(a)
  \/ RefuseQueued
  \/ \E t \in tasks : TaskStep(t) \/ Crash(t)
  \/ \E r \in Runs : Cancel(r)
  \/ \E o \in Owners : JobStarts(o) \/ JobSettles(o)

Spec == Init /\ [][Next]_vars

(* Workers keep claiming; every await ends, polling at the deadline and    *)
(* cleanup at its own.  Nothing is assumed of the provider.                *)
Fairness ==
  \A a \in Attempts :
    /\ WF_vars(ClaimExpired(a))
    /\ WF_vars(LeaseExpires(a))
    /\ WF_vars(BackOffEnds(a))
    /\ WF_vars(\E t \in tasks : t.attempt = a /\ TaskStep(t))
    /\ WF_vars(\E t \in tasks : t.attempt = a /\ Interrupted(t))
    /\ WF_vars(\E t \in tasks : t.attempt = a /\ GiveUpCleanup(t))

FairSpec == Spec /\ Fairness
-----------------------------------------------------------------------------
MayRun(a) == remote[a].run \in {"asked", "running"} \/ remote[a].session = "running"

OpenSlots(o) ==
  jobs[o].open + Cardinality({a \in AttemptsOf(o) : row[a].state \notin {"queued", "settled"}})
Covered(a) == IF Charge(a) <= row[a].reserved THEN Charge(a) ELSE row[a].reserved

(* Managed attempts and ordinary jobs together stay within the ceilings,   *)
(* and their reservations within the budgets (occupancy(), accounting()).  *)
SharedLimits ==
  LET total == JobSeconds(Owners) + Total([a \in Attempts |-> Covered(a)], Attempts)
  IN  /\ Total([o \in Owners |-> OpenSlots(o)], Owners) <= GlobalConcurrency
      /\ \A o \in Owners : OpenSlots(o) <= OwnerConcurrency
      /\ total > 0 => total + Baseline <= DevelopmentBudget
      /\ Reserved <= LifetimeLimit

(* An attempt is reported completed only when its agent run completed, its *)
(* browser session ended, and nobody had cancelled it (observeSession(),   *)
(* readResult(), finish()).                                                *)
CompletedIsVerified ==
  \A a \in Attempts : row[a].status = "completed" =>
    remote[a].run = "completed" /\ remote[a].session = "over" /\ ~row[a].cancelled

(* What an attempt costs.  While it holds a slot it is charged its         *)
(* reservation, whatever its executions, their crashes and their retries   *)
(* have found out; once it has settled it is charged what the provider     *)
(* billed, and the reservation when the bill could not be read.  What is   *)
(* shown as its browser time is the provider's figure (finish(),           *)
(* accounting(), observeSession()).                                        *)
ChargedAsBilled ==
  \A a \in Attempts :
    /\ row[a].state \notin {"queued", "settled"} =>
         Charge(a) = SessionSeconds /\ row[a].actual = NULL
    /\ row[a].state = "settled" =>
         Charge(a) = IF row[a].actual = NULL THEN SessionSeconds ELSE Known(remote[a].seconds)
    /\ row[a].actual # NULL => row[a].actual = Known(remote[a].seconds)

(* Nothing of a settled attempt changes any more: an execution that lost   *)
(* its lease writes no row, asks the provider for nothing, and leaves      *)
(* nothing there that could still move (assertLease(), finish()).          *)
SettledIsFinal ==
  [][\A a \in Attempts :
       row[a].state = "settled" => row'[a] = row[a] /\ remote'[a] = remote[a]]_vars

SlotOf(a) ==
  IF row[a].generation = 0 THEN "free"
  ELSE IF row[a].state = "settled" THEN "released" ELSE "held"
BrowserOf(a) ==
  IF remote[a].run = "none" THEN "never" ELSE IF MayRun(a) THEN "possible" ELSE "gone"
Slots ==
  INSTANCE PaidSlot WITH Jobs <- Attempts,
                         slot <- [a \in Attempts |-> SlotOf(a)],
                         browser <- [a \in Attempts |-> BrowserOf(a)]

(* The attempts implement PaidSlot: an agent or a browser that may still   *)
(* be running keeps its slot, whatever crashes, lost replies, expired      *)
(* leases and unproven cleanups come between (finish(), cleanup()), and    *)
(* an attempt leads to one agent at most (dispatch()).                     *)
ImplementsPaidSlot == Slots!Spec

(* Every claimed attempt settles or uses up its recoveries; there is no    *)
(* operator command for what is then left (claim(), finish()).             *)
AttemptsResolve ==
  \A a \in Attempts :
    row[a].state \notin {"queued", "settled"} ~>
      row[a].state = "settled" \/ row[a].recoveries = RecoveryLimit

(* An execution that knows it was cancelled reports so, unless a lease     *)
(* check or an identity failed (executeManagedAgent(); runner.test.ts      *)
(* expects it of a cancellation during the creation).                      *)
CancellationReported ==
  [][\A t \in tasks :
       t.at = "publish" /\ t.error = "cancelled" /\ Holds(t) /\ faults' = faults
         => \A u \in tasks' : u.attempt = t.attempt /\ u.generation = t.generation
                                => u.error = "cancelled"]_vars
=============================================================================
