---------------------------- MODULE Reproduction ----------------------------
(***************************************************************************)
(* The search for the shortest reproduction of a recorded failure          *)
(* (src/server/workflows/reproduction.ts).  A search tries one candidate   *)
(* at a time; each candidate is charged to the limits of the search, then  *)
(* becomes a child job of the worker queue, whose result comes back        *)
(* through the database (pumpReproductions() in worker/repository.ts).     *)
(*                                                                         *)
(* One search is modelled, with every worker process that pumps it and the *)
(* children it starts.  Each action is one SQLite transaction or one read; *)
(* pumps of different processes interleave between them.                   *)
(***************************************************************************)
EXTENDS Integers, SequencesExt, FiniteSetsExt

CONSTANTS
  Pumps,           (* worker processes                                     *)
  Recipe,          (* the grounded steps                                   *)
  SessionsOf(_),   (* provider sessions a candidate may turn out to get    *)
  CandidateLimit,  (* limits.candidates: with a fixed charge per candidate *)
                   (* it stands for reservedSeconds and durationMs as well *)
  StepLimit,       (* limits.steps                                         *)
  SetupSteps,      (* REPRODUCTION_SETUP_STEPS                             *)
  NULL,
  MaxFaults        (* bound: pumps that stop, children reclaimed or        *)
                   (* cancelled by hand                                    *)

ASSUME ReproductionAssumption ==
  /\ Recipe \in Seq({Recipe[i] : i \in 1..Len(Recipe)}) /\ Recipe # <<>> /\ SetupSteps \in Nat
  /\ CandidateLimit \in Nat \ {0} /\ StepLimit \in Nat /\ MaxFaults \in Nat

VARIABLES
  (* reproductions *)
  search, cancelRequested, best, cursor, active, count, stepsCharged,
  deadlinePassed,  (* clock() >= deadline of the active candidate          *)
  timeUp,          (* the search has no time left for another candidate    *)
  (* reproduction_candidates *)
  candidate, steps, sessionHash,
  (* child jobs: jobs, launches, reproduction_worker_jobs *)
  children,        (* child jobs made for a candidate                      *)
  job, jobCancel, launch, result,
  task,            (* the first claim's position                           *)
  session, saw,    (* its session, and what its replay observed            *)
  (* pumps *)
  pump, faults

searchVars == <<search, cancelRequested, best, cursor, active, count, stepsCharged,
                deadlinePassed, timeUp>>
candidateVars == <<candidate, steps, sessionHash>>
childVars == <<children, job, jobCancel, launch, result, task, session, saw>>
reproductionVars == <<searchVars, candidateVars, childVars, pump, faults>>

Candidates == 1..CandidateLimit
Outcomes == {"reproduced", "not_reproduced", "unknown"}
Unsettled == {"open", "recovering", "quarantined"}
-----------------------------------------------------------------------------
(* finish(): the search leaves its candidate. *)
EndSearch(status) == search' = status /\ active' = 0 /\ deadlinePassed' = FALSE

(* candidateDispatch() *)
Dispatchable(c) ==
  /\ candidate[c] = "running" /\ search = "running" /\ active = c
  /\ ~cancelRequested /\ ~deadlinePassed

(* prepare(): a repeated POST finds the row and changes nothing. *)
Prepare ==
  /\ search = "absent"
  /\ search' \in {"queued", "unsupported"}
  /\ UNCHANGED <<cancelRequested, best, cursor, active, count, stepsCharged, deadlinePassed,
                 timeUp, candidateVars, childVars, pump, faults>>

(* cancel() *)
CancelSearch ==
  /\ search \in {"queued", "running"} /\ ~cancelRequested
  /\ cancelRequested' = TRUE
  /\ search' = IF search = "queued" THEN "cancelled" ELSE search
  /\ UNCHANGED <<best, cursor, active, count, stepsCharged, deadlinePassed, timeUp,
                 candidateVars, childVars, pump, faults>>

(* recoverExpired().  Faulty variant: nothing expires. *)
NoneExpired == FALSE
Expired == search = "running" /\ deadlinePassed

RecoverExpired ==
  IF Expired
  THEN /\ search' = "unknown_cleanup"
       /\ candidate' = [candidate EXCEPT ![active] = "unknown"]
  ELSE UNCHANGED <<search, candidate>>

(* The steps the next candidate tries: the best path without one of them.  *)
Shortened == IF best = NULL THEN Recipe ELSE RemoveAt(best, cursor + 1)

Charge(tried) == Len(tried) + SetupSteps

Exhausted(tried) ==
  \/ count + 1 > CandidateLimit
  \/ stepsCharged + Charge(tried) > StepLimit
  \/ timeUp

(* dispatchNext(), after its recoverExpired(): the search ends, or its     *)
(* next candidate is charged before any work is done for it.               *)
DispatchNext ==
  IF search # "queued" THEN UNCHANGED <<searchVars, candidateVars>>
  ELSE IF cancelRequested
  THEN /\ EndSearch("cancelled")
       /\ UNCHANGED <<cancelRequested, best, cursor, count, stepsCharged, timeUp, candidateVars>>
  ELSE IF best # NULL /\ (cursor >= Len(best) \/ Len(best) = 1)
  THEN /\ EndSearch("found")
       /\ UNCHANGED <<cancelRequested, best, cursor, count, stepsCharged, timeUp, candidateVars>>
  ELSE IF Exhausted(Shortened)
  THEN /\ EndSearch("limit_reached")
       /\ UNCHANGED <<cancelRequested, best, cursor, count, stepsCharged, timeUp, candidateVars>>
  ELSE /\ search' = "running" /\ active' = count + 1 /\ deadlinePassed' = FALSE
       /\ count' = count + 1
       /\ stepsCharged' = stepsCharged + Charge(Shortened)
       /\ candidate' = [candidate EXCEPT ![count + 1] = "running"]
       /\ steps' = [steps EXCEPT ![count + 1] = Shortened]
       /\ UNCHANGED <<cancelRequested, best, cursor, timeUp, sessionHash>>

(* What completeCandidate() does not trust.  Faulty variant: a late result *)
(* is accepted.                                                            *)
UntrustedUnlessLate(c, r) ==
  \/ r.session = NULL \/ r.outcome = "unknown"
  \/ \E d \in Candidates \ {c} : sessionHash[d] = r.session
Untrusted(c, r) ==
  \/ r.session = NULL \/ r.outcome = "unknown"
  \/ \E d \in Candidates \ {c} : sessionHash[d] = r.session
  \/ deadlinePassed

Verdict(c, r, cancelled) ==
  IF r.cleanup # "confirmed" THEN "unknown_cleanup"
  ELSE IF cancelRequested \/ cancelled THEN "cancelled"
  ELSE IF Untrusted(c, r) THEN "uncertain_environment"
  ELSE IF best = NULL /\ r.outcome # "reproduced" THEN "not_reproduced"
  ELSE "queued"

(* The path found is the new best, and the scan starts over.  Faulty       *)
(* variant: it continues where it was.                                     *)
AdvanceInPlace(c, reproduced) ==
  IF reproduced THEN best' = steps[c] /\ UNCHANGED cursor
  ELSE cursor' = cursor + 1 /\ UNCHANGED best
Advance(c, reproduced) ==
  IF reproduced THEN best' = steps[c] /\ cursor' = 0
  ELSE cursor' = cursor + 1 /\ UNCHANGED best

Awaited(c) == search = "running" /\ active = c

(* completeCandidate(): stale and repeated results change nothing. *)
Complete(c, r, cancelled) ==
  IF ~Awaited(c) THEN UNCHANGED <<searchVars, candidateVars>>
  ELSE LET verdict == Verdict(c, r, cancelled) IN
       /\ candidate' = [candidate EXCEPT ![c] = IF Untrusted(c, r) THEN "unknown" ELSE r.outcome]
       /\ sessionHash' = [sessionHash EXCEPT ![c] = r.session]
       /\ EndSearch(verdict)
       /\ IF verdict = "queued" THEN Advance(c, r.outcome = "reproduced")
          ELSE UNCHANGED <<best, cursor>>
       /\ UNCHANGED <<cancelRequested, count, stepsCharged, timeUp, steps>>

(* stopUnallocatedReproduction(); it refuses a candidate with a launch.    *)
StopUnallocated(c) ==
  IF search = "running" /\ active = c
  THEN /\ candidate' = [candidate EXCEPT ![c] = "not_started"]
       /\ EndSearch("limit_reached")
       /\ UNCHANGED <<cancelRequested, best, cursor, count, stepsCharged, timeUp, steps,
                      sessionHash>>
  ELSE UNCHANGED <<searchVars, candidateVars>>
-----------------------------------------------------------------------------
(* pumpReproductions(), a step at a time, in the worker process w.         *)
Idle == [at |-> "idle", candidate |-> 0, result |-> NULL, cancelled |-> FALSE]
At(w, position) == pump[w].at = position
Goto(w, position) == pump' = [pump EXCEPT ![w] = [Idle EXCEPT !.at = position]]
Carry(w, position, c) ==
  pump' = [pump EXCEPT ![w] = [Idle EXCEPT !.at = position, !.candidate = c]]

(* What the rows read say of the active candidate: its stored result once  *)
(* the launch is settled, or that nothing certain will come of it.         *)
Unknown(c) == [outcome |-> "unknown", session |-> NULL,
               cleanup |-> IF launch[c] = "none" THEN "confirmed" ELSE "unknown"]
Reported(c) ==
  IF result[c] # NULL /\ launch[c] = "settled" THEN result[c]
  ELSE IF launch[c] \in {"recovering", "quarantined"} \/ job[c] \in {"completed", "cancelled"}
  THEN Unknown(c)
  ELSE NULL

(* recoverExpired(), and the rows.  Whatever may come between the two may  *)
(* as well come before their use.                                          *)
PumpReads(w) ==
  /\ At(w, "idle")
  /\ RecoverExpired
  /\ IF search' = "running" /\ job[active] # "none" /\ Reported(active) # NULL
     THEN pump' = [pump EXCEPT ![w] = [at |-> "completing", candidate |-> active,
                     result |-> Reported(active), cancelled |-> job[active] = "cancelled"]]
     ELSE Goto(w, "dispatching")
  /\ UNCHANGED <<cancelRequested, best, cursor, active, count, stepsCharged, deadlinePassed,
                 timeUp, steps, sessionHash, childVars, faults>>

PumpCompletes(w) ==
  /\ At(w, "completing")
  /\ Complete(pump[w].candidate, pump[w].result, pump[w].cancelled)
  /\ Goto(w, "dispatching")
  /\ UNCHANGED <<childVars, faults>>

(* dispatchNext() with its recoverExpired(), then pendingCandidates().     *)
PumpDispatches(w) ==
  /\ At(w, "dispatching")
  /\ IF Expired
     THEN /\ RecoverExpired /\ Goto(w, "idle")
          /\ UNCHANGED <<cancelRequested, best, cursor, active, count, stepsCharged,
                         deadlinePassed, timeUp, steps, sessionHash>>
     ELSE /\ DispatchNext
          /\ IF search' = "running" /\ ~cancelRequested THEN Carry(w, "inserting", active')
             ELSE Goto(w, "idle")
  /\ UNCHANGED <<childVars, faults>>

(* Faulty variant: the mapping is not looked up in the transaction. *)
NeverMapped(c) == FALSE
Mapped(c) == job[c] # "none"

(* The child run and job are inserted with the mapping, or the limits on   *)
(* runs refuse them.                                                       *)
PumpInserts(w) ==
  /\ At(w, "inserting")
  /\ LET c == pump[w].candidate IN
     IF Mapped(c) \/ ~Dispatchable(c) THEN Goto(w, "idle") /\ UNCHANGED childVars
     ELSE \/ /\ job' = [job EXCEPT ![c] = "queued"]
             /\ children' = [children EXCEPT ![c] = @ + 1]
             /\ Goto(w, "idle")
             /\ UNCHANGED <<jobCancel, launch, result, task, session, saw>>
          \/ Carry(w, "refused", c) /\ UNCHANGED childVars
  /\ UNCHANGED <<searchVars, candidateVars, faults>>

PumpStops(w) ==
  /\ At(w, "refused")
  /\ LET c == pump[w].candidate IN
     IF launch[c] = "none" THEN StopUnallocated(c) ELSE UNCHANGED <<searchVars, candidateVars>>
  /\ Goto(w, "idle")
  /\ UNCHANGED <<childVars, faults>>

(* The process stops, or a statement of its pump fails. *)
PumpFails(w) ==
  /\ faults < MaxFaults /\ ~At(w, "idle")
  /\ Goto(w, "idle")
  /\ faults' = faults + 1
  /\ UNCHANGED <<searchVars, candidateVars, childVars>>
-----------------------------------------------------------------------------
(* claim() of the child: a stopped candidate ends its job, and so does a   *)
(* spent budget, which also stops the candidate.                           *)
ClaimChild(c) ==
  /\ job[c] = "queued" /\ ~jobCancel[c]
  /\ \/ /\ ~Dispatchable(c)
        /\ job' = [job EXCEPT ![c] = "completed"]
        /\ UNCHANGED <<searchVars, candidateVars, launch, task>>
     \/ /\ Dispatchable(c)
        /\ StopUnallocated(c)
        /\ job' = [job EXCEPT ![c] = "completed"]
        /\ UNCHANGED <<launch, task>>
     \/ /\ Dispatchable(c)
        /\ job' = [job EXCEPT ![c] = "leased"]
        /\ launch' = [launch EXCEPT ![c] = "open"]
        /\ task' = [task EXCEPT ![c] = "starting"]
        /\ UNCHANGED <<searchVars, candidateVars>>
  /\ UNCHANGED <<children, jobCancel, result, session, saw, pump, faults>>

HoldsChild(c) == job[c] = "leased" /\ launch[c] = "open"

(* A browser is there: reproductionDispatch(), then the replay. *)
StartReplay(c) ==
  /\ task[c] = "starting" /\ HoldsChild(c) /\ ~jobCancel[c] /\ Dispatchable(c)
  /\ \E s \in SessionsOf(c) : session' = [session EXCEPT ![c] = s]
  /\ task' = [task EXCEPT ![c] = "replaying"]
  /\ UNCHANGED <<searchVars, candidateVars, children, job, jobCancel, launch, result, saw, pump,
                 faults>>

(* The job ends: as cancelled when its cancellation got that far.          *)
EndJob(c) ==
  \E status \in {"completed"} \cup (IF jobCancel[c] THEN {"cancelled"} ELSE {}) :
    job' = [job EXCEPT ![c] = status]

(* The task ends: runCouponWithWorkerDriver() returns what the fixture     *)
(* showed, and finish() stores it while the lease is held; without result  *)
(* when the replay never started.  An unconfirmed release leaves the       *)
(* launch to a recovery.                                                   *)
FinishChild(c) ==
  /\ task[c] \in {"starting", "replaying"}
  /\ task' = [task EXCEPT ![c] = "done"]
  /\ IF task[c] = "starting" THEN UNCHANGED saw
     ELSE \E outcome \in Outcomes : saw' = [saw EXCEPT ![c] = outcome]
  /\ IF ~HoldsChild(c) THEN UNCHANGED <<job, launch, result>>
     ELSE \E confirmed \in BOOLEAN :
       /\ \E clean \in BOOLEAN :
            result' = IF task[c] = "starting" THEN result
                      ELSE [result EXCEPT ![c] = [outcome |-> saw'[c], session |-> session[c],
                              cleanup |-> IF confirmed /\ clean THEN "confirmed" ELSE "unknown"]]
       /\ IF confirmed
          THEN launch' = [launch EXCEPT ![c] = "settled"] /\ EndJob(c)
          ELSE launch' = [launch EXCEPT ![c] = "recovering"] /\ UNCHANGED job
  /\ UNCHANGED <<searchVars, candidateVars, children, jobCancel, session, pump, faults>>

(* heartbeat(): a child whose candidate stopped is cancelled. *)
HeartbeatChild(c) ==
  /\ HoldsChild(c) /\ ~Dispatchable(c) /\ ~jobCancel[c]
  /\ jobCancel' = [jobCancel EXCEPT ![c] = TRUE]
  /\ UNCHANGED <<searchVars, candidateVars, children, job, launch, result, task, session, saw,
                 pump, faults>>

(* cancelRun() of the child's run. *)
CancelChild(c) ==
  /\ job[c] \in {"queued", "leased"} /\ ~jobCancel[c]
  /\ faults < MaxFaults /\ faults' = faults + 1
  /\ jobCancel' = [jobCancel EXCEPT ![c] = TRUE]
  /\ job' = IF job[c] = "queued" THEN [job EXCEPT ![c] = "cancelled"] ELSE job
  /\ UNCHANGED <<searchVars, candidateVars, children, launch, result, task, session, saw, pump>>

(* The lease of the child runs out and another worker claims it. *)
ReclaimChild(c) ==
  /\ faults < MaxFaults
  /\ job[c] = "leased" /\ launch[c] = "open"
  /\ launch' = [launch EXCEPT ![c] = "recovering"]
  /\ faults' = faults + 1
  /\ UNCHANGED <<searchVars, candidateVars, children, job, jobCancel, result, task, session, saw,
                 pump>>

(* recover(): settled, or given up for an operator. *)
RecoverChild(c) ==
  /\ job[c] = "leased" /\ launch[c] = "recovering"
  /\ \/ launch' = [launch EXCEPT ![c] = "settled"] /\ job' = [job EXCEPT ![c] = "completed"]
     \/ launch' = [launch EXCEPT ![c] = "quarantined"] /\ UNCHANGED job
  /\ UNCHANGED <<searchVars, candidateVars, children, jobCancel, result, task, session, saw, pump,
                 faults>>

(* Time passes: the candidate's deadline, then the time of the search.     *)
DeadlinePasses ==
  /\ search = "running" /\ ~deadlinePassed
  /\ deadlinePassed' = TRUE
  /\ UNCHANGED <<search, cancelRequested, best, cursor, active, count, stepsCharged, timeUp,
                 candidateVars, childVars, pump, faults>>
TimeRunsOut ==
  /\ search = "queued" /\ ~timeUp
  /\ timeUp' = TRUE
  /\ UNCHANGED <<search, cancelRequested, best, cursor, active, count, stepsCharged,
                 deadlinePassed, candidateVars, childVars, pump, faults>>
-----------------------------------------------------------------------------
Init ==
  /\ search = "absent" /\ cancelRequested = FALSE /\ best = NULL /\ cursor = 0 /\ active = 0
  /\ count = 0 /\ stepsCharged = 0 /\ deadlinePassed = FALSE /\ timeUp = FALSE
  /\ candidate = [c \in Candidates |-> "none"]
  /\ steps = [c \in Candidates |-> <<>>]
  /\ sessionHash = [c \in Candidates |-> NULL]
  /\ children = [c \in Candidates |-> 0]
  /\ job = [c \in Candidates |-> "none"]
  /\ jobCancel = [c \in Candidates |-> FALSE]
  /\ launch = [c \in Candidates |-> "none"]
  /\ result = [c \in Candidates |-> NULL]
  /\ task = [c \in Candidates |-> "none"]
  /\ session = [c \in Candidates |-> NULL]
  /\ saw = [c \in Candidates |-> NULL]
  /\ pump = [w \in Pumps |-> Idle]
  /\ faults = 0

PumpStep(w) ==
  \/ PumpReads(w) \/ PumpCompletes(w) \/ PumpDispatches(w) \/ PumpInserts(w) \/ PumpStops(w)
ChildStep(c) ==
  \/ ClaimChild(c) \/ StartReplay(c) \/ FinishChild(c) \/ HeartbeatChild(c)
  \/ CancelChild(c) \/ ReclaimChild(c) \/ RecoverChild(c)

Next ==
  \/ Prepare \/ CancelSearch \/ DeadlinePasses \/ TimeRunsOut
  \/ \E w \in Pumps : PumpStep(w) \/ PumpFails(w)
  \/ \E c \in Candidates : ChildStep(c)

Spec == Init /\ [][Next]_reproductionVars

(* Every worker process pumps at each round, and time passes.  Nothing is  *)
(* asked of the children: they may be starved or hang.                     *)
Fairness ==
  /\ \A w \in Pumps : WF_reproductionVars(PumpStep(w))
  /\ WF_reproductionVars(DeadlinePasses)

FairSpec == Spec /\ Fairness
-----------------------------------------------------------------------------
HasEnded ==
  search \in {"found", "not_reproduced", "limit_reached", "cancelled", "unsupported",
              "uncertain_environment", "unknown_cleanup"}

(* The search takes a path as its best only from the candidate it waits    *)
(* for, in time, when that candidate's own settled browser really showed   *)
(* the failure in a session no other candidate had (completeCandidate()).  *)
BestIsProven ==
  [][best' # best =>
       /\ search = "running" /\ ~deadlinePassed /\ ~cancelRequested
       /\ saw[active] = "reproduced" /\ launch[active] = "settled"
       /\ best' = steps[active] /\ (best # NULL => Len(best') = Len(best) - 1)
       /\ \A d \in 1..(active - 1) : session[d] # session[active]]_reproductionVars

(* What is called the shortest path found is minimal: every path with one  *)
(* step less was tried, and did not show the failure (dispatchNext()).     *)
FoundIsMinimal ==
  search = "found" => \A i \in 1..Len(best) :
    Len(best) = 1 \/ \E c \in Candidates : steps[c] = RemoveAt(best, i) /\ saw[c] = "not_reproduced"

(* Delivered again after a crash or by another process, a candidate still  *)
(* becomes at most one child job (pumpReproductions()).                    *)
OneChildPerCandidate == \A c \in Candidates : children[c] <= 1

(* Every search comes to an end, even when its children never do.          *)
SearchesEnd == search = "queued" ~> HasEnded
=============================================================================
