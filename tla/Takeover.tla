------------------------------ MODULE Takeover ------------------------------
(***************************************************************************)
(* Human takeover of a running attempt: the durable control row that       *)
(* src/server/workflows/takeover.ts keeps for it, the persona loop that    *)
(* pauses for it (execution/loop.ts), and the browser tabs that ask for it *)
(* and renew their viewer grants (components/run-wall.tsx).                *)
(*                                                                         *)
(* Tabs, the worker and a recovering worker meet only in the database,     *)
(* where each operation is one transaction.  Every instant the code        *)
(* compares with its clock is kept as the time left until it, which a tick *)
(* lowers.  The job holds a saved session reference from the start: before *)
(* it, no command is accepted and no viewer exists.                        *)
(***************************************************************************)
EXTENDS Integers

CONSTANTS
  Tabs,            (* controller ids: one per open viewer                  *)
  NULL,
  HumanTimeout,    (* HUMAN_TIMEOUT_MS                                     *)
  ViewerGrant,     (* VIEWER_GRANT_MS                                      *)
  LeaseTime,       (* leaseMs                                              *)
  BackOff,         (* delay of the first recovery after a failed cleanup   *)
  MaxRequests,     (* bound: accepted requests for control                 *)
  MaxReclaims      (* bound: recovery claims                               *)

ASSUME TabsAssumption == NULL \notin Tabs \cup Int
ASSUME OutcomeAssumption ==
  NULL \notin {"finished", "infrastructure_failed", "limit_reached", "cancelled"}
ASSUME TimeAssumption ==
  /\ HumanTimeout \in Nat \ {0} /\ ViewerGrant \in Nat \ {0} /\ LeaseTime \in Nat \ {0}
  /\ BackOff \in Nat /\ ViewerGrant <= BackOff
ASSUME TakeoverBounds == MaxRequests \in Nat /\ MaxReclaims \in Nat

VARIABLES
  (* takeover_controls; rowGeneration is NULL while there is no row        *)
  phase, version, controller, rowGeneration,
  humanLeft,       (* deadline                                             *)
  viewerLeft,      (* viewer_until                                         *)
  (* takeover_intervals *)
  intervals,       (* intervals opened so far                              *)
  intervalOpen,    (* the last of them has no ended_at                     *)
  (* jobs and launches *)
  launch,          (* "active", "recovering", or "ended" with the attempt  *)
  generation, leaseLeft,
  backOffLeft,     (* recovery_after                                       *)
  cancelled,       (* cancel_requested_at of the run and its job           *)
  (* the persona loop of the first claim *)
  agent,           (* where it is                                          *)
  captured,        (* version read before the operation in flight          *)
  observed,        (* intervals opened before the current observation      *)
  late,            (* an aborted operation may still reach the browser     *)
  outcome,         (* why it ended                                         *)
  timeoutSeen,     (* a control operation found the deadline passed        *)
  (* the tabs *)
  grantLeft,       (* how long each tab's frame stays interactive          *)
  requests         (* accepted requests                                    *)

rowVars == <<phase, version, controller, rowGeneration, humanLeft, viewerLeft>>
intervalVars == <<intervals, intervalOpen>>
leaseVars == <<launch, generation, leaseLeft, backOffLeft, cancelled>>
agentVars == <<agent, captured, observed, late, outcome, timeoutSeen>>
tabVars == <<grantLeft, requests>>
vars == <<rowVars, intervalVars, leaseVars, agentVars, tabVars>>

Operations == {"observing", "thinking", "acting"}
FirstGeneration == 1
Least(S) == CHOOSE a \in S : \A b \in S : a <= b
Larger(a, b) == IF a >= b THEN a ELSE b
Sooner(t) == IF t = NULL \/ t = 0 THEN t ELSE t - 1
-----------------------------------------------------------------------------
(* active(): the attempt still runs under a live lease.                    *)
Active == launch = "active" /\ ~cancelled /\ leaseLeft > 0

LeaseHeld(g) == launch # "ended" /\ generation = g /\ leaseLeft > 0

(* Faulty variant: the deadline of a human who does not hand back is       *)
(* ignored.                                                                *)
TimedOutBeforeControl == phase \in {"requested", "quiescing"} /\ humanLeft = 0
TimedOut == phase # "agent" /\ humanLeft = 0

Transition(next) == phase' = next /\ version' = version + 1

Close ==
  IF phase = "closed" THEN UNCHANGED <<phase, version, intervalOpen>>
  ELSE Transition("closed") /\ intervalOpen' = FALSE

GrantTime == Least({ViewerGrant, humanLeft, leaseLeft})
MayView(c) == phase = "human" /\ controller = c

(* status(): a poll of a tab, or a repeated command, which is answered     *)
(* like a poll.  It closes a control that lost its worker or its time, and *)
(* renews the grant of the tab in control.                                 *)
Status(c) ==
  /\ IF rowGeneration # NULL /\ (~Active \/ rowGeneration # generation \/ TimedOut)
     THEN Close /\ UNCHANGED <<viewerLeft, grantLeft>>
     ELSE /\ MayView(c)
          /\ viewerLeft' = Larger(viewerLeft, GrantTime)
          /\ grantLeft' = [grantLeft EXCEPT ![c] = Larger(@, GrantTime)]
          /\ UNCHANGED <<phase, version, intervalOpen>>
  /\ UNCHANGED <<controller, rowGeneration, humanLeft, intervals, leaseVars, agentVars, requests>>

(* command(request), with the current version: any other is a conflict.    *)
RequestControl(c) ==
  /\ requests < MaxRequests
  /\ Active
  /\ rowGeneration \in {NULL, generation}
  /\ phase = "agent"
  /\ Transition("requested")
  /\ controller' = c
  /\ rowGeneration' = generation
  /\ humanLeft' = HumanTimeout
  /\ viewerLeft' = 0
  /\ requests' = requests + 1
  /\ UNCHANGED <<intervalVars, leaseVars, agentVars, grantLeft>>

(* command(handback).                                                      *)
HandBack(c) ==
  /\ Active
  /\ rowGeneration = generation
  /\ phase = "human" /\ controller = c /\ humanLeft > 0
  /\ Transition("handback")
  /\ UNCHANGED <<controller, rowGeneration, humanLeft, viewerLeft, intervalVars, leaseVars,
                 agentVars, tabVars>>
-----------------------------------------------------------------------------
(* The persona loop.  Each of its control operations begins with read(),   *)
(* which throws unless MayRead holds.                                      *)
MayRead ==
  /\ LeaseHeld(FirstGeneration) /\ ~cancelled
  /\ rowGeneration \in {NULL, FirstGeneration}
  /\ ~TimedOut
  /\ phase # "closed"

Goes(state) == agent' = state /\ UNCHANGED <<late, outcome, timeoutSeen>>

(* A TakeoverInterrupted: the loop forgets its observation and waits.      *)
(* Faulty variant: it keeps the observation.                               *)
KeepObservation == UNCHANGED observed
ForgetObservation == observed' = NULL
Interrupt == Goes("await") /\ ForgetObservation /\ UNCHANGED captured

(* awaitAgent() returns, and the loop observes unless it has to hand.      *)
AgentProceeds ==
  /\ agent = "await" /\ MayRead /\ phase = "agent"
  /\ Goes(IF observed = NULL THEN "observing" ELSE "observed")
  /\ captured' = version
  /\ UNCHANGED <<observed, rowVars, intervalVars, leaseVars, tabVars>>

(* The next operation is dispatched: agentOperation() up to run().         *)
Dispatch(from, operation) ==
  /\ agent = from /\ MayRead
  /\ IF phase = "agent"
     THEN Goes(operation) /\ captured' = version /\ UNCHANGED observed
     ELSE Interrupt
  /\ UNCHANGED <<rowVars, intervalVars, leaseVars, tabVars>>

Think == Dispatch("observed", "thinking")
Act == Dispatch("decided", "acting")

(* An operation ends, and its result is used only if nothing has happened  *)
(* to the control meanwhile.                                               *)
Complete(operation, next) ==
  /\ agent = operation /\ MayRead
  /\ IF version = captured
     THEN /\ Goes(next)
          /\ observed' = IF operation = "observing" THEN intervals
                         ELSE IF operation = "acting" THEN NULL ELSE observed
          /\ UNCHANGED captured
     ELSE Interrupt
  /\ UNCHANGED <<rowVars, intervalVars, leaseVars, tabVars>>

ObservationEnds == Complete("observing", "observed")
ThoughtEnds == Complete("thinking", "decided")
ActionEnds == Complete("acting", "await")

Ends(result) ==
  /\ agent' = "closing" /\ outcome' = result /\ UNCHANGED <<captured, observed>>

(* The loop ends with a verdict on its observation, or an operation fails. *)
(* The failure of a model call counts only for an unchanged control.       *)
AgentStops ==
  /\ \/ /\ agent \in {"observed", "decided"}
        /\ MayRead /\ phase = "agent"
        /\ Ends("finished")
     \/ agent \in {"observing", "acting"} /\ Ends("infrastructure_failed")
     \/ /\ agent = "thinking"
        /\ MayRead /\ version = captured
        /\ Ends("infrastructure_failed")
  /\ UNCHANGED <<late, timeoutSeen, rowVars, intervalVars, leaseVars, tabVars>>

(* quiesce(), in the same turn as the read() that found the request.       *)
Quiesce ==
  /\ agent = "await" /\ MayRead /\ phase = "requested"
  /\ Transition("quiescing")
  /\ Goes("draining")
  /\ UNCHANGED <<captured, observed, controller, rowGeneration, humanLeft, viewerLeft,
                 intervalVars, leaseVars, tabVars>>

(* acknowledge(), once the model adapters have drained.                    *)
Acknowledge ==
  /\ agent = "draining" /\ MayRead /\ phase = "quiescing"
  /\ Transition("human")
  /\ intervals' = intervals + 1
  /\ intervalOpen' = TRUE
  /\ Goes("await")
  /\ UNCHANGED <<captured, observed, controller, rowGeneration, humanLeft, viewerLeft,
                 leaseVars, tabVars>>

(* resume(): the grants handed out must have run out.  Faulty variant:     *)
(* they are not awaited.                                                   *)
ResumesAtOnce == TRUE
GrantsExpired == viewerLeft = 0

StartResume ==
  /\ agent = "await" /\ MayRead /\ phase = "handback"
  /\ Transition("resuming")
  /\ UNCHANGED <<controller, rowGeneration, humanLeft, viewerLeft, intervalVars, leaseVars,
                 agentVars, tabVars>>

ReleaseControl == controller' = NULL /\ humanLeft' = NULL

Resume ==
  /\ agent = "await" /\ MayRead /\ phase = "resuming" /\ GrantsExpired
  /\ Transition("agent")
  /\ intervalOpen' = FALSE
  /\ ReleaseControl
  /\ UNCHANGED <<rowGeneration, viewerLeft, intervals, leaseVars, agentVars, tabVars>>

(* read() throws.  A passed deadline closes the control, in a transaction  *)
(* of its own: inside acknowledge(), which has begun one, that cannot      *)
(* start, and the loop ends with that error instead of the timeout.        *)
ReadThrows ==
  /\ agent \in {"await", "draining", "observed", "decided"} \cup Operations
  /\ ~MayRead
  /\ late' = late
  /\ IF ~LeaseHeld(FirstGeneration) \/ cancelled
     THEN Ends("cancelled") /\ UNCHANGED <<timeoutSeen, phase, version, intervalOpen>>
     ELSE IF TimedOut
     THEN /\ timeoutSeen' = TRUE
          /\ IF agent = "draining"
             THEN Ends("infrastructure_failed") /\ UNCHANGED <<phase, version, intervalOpen>>
             ELSE Ends("limit_reached") /\ Close
     ELSE Ends("infrastructure_failed") /\ UNCHANGED <<timeoutSeen, phase, version, intervalOpen>>
  /\ UNCHANGED <<controller, rowGeneration, humanLeft, viewerLeft, intervals, leaseVars, tabVars>>

(* The signal fires: a heartbeat found a cancellation or the lease gone,   *)
(* or the attempt used up its duration.  The operation in flight is left.  *)
Abort ==
  /\ agent \in {"await", "draining", "observed", "decided"} \cup Operations
  /\ \/ Ends("limit_reached")
     \/ (cancelled \/ ~LeaseHeld(FirstGeneration)) /\ Ends("cancelled")
  /\ late' = (agent \in Operations)
  /\ UNCHANGED <<timeoutSeen, rowVars, intervalVars, leaseVars, tabVars>>

(* control.finish(), after driver.close() has fenced the browser.           *)
FinishControl ==
  /\ agent = "closing"
  /\ agent' = "closed" /\ late' = FALSE
  /\ IF LeaseHeld(FirstGeneration) /\ rowGeneration # NULL THEN Close
     ELSE UNCHANGED <<phase, version, intervalOpen>>
  /\ UNCHANGED <<captured, observed, outcome, timeoutSeen, controller, rowGeneration, humanLeft,
                 viewerLeft, intervals, leaseVars, tabVars>>

(* The repository's finish(), after the last events are written: the       *)
(* attempt ends, or its browser is left to a recovery after a back-off.    *)
Finish ==
  /\ agent = "closed"
  /\ agent' = "done"
  /\ IF LeaseHeld(FirstGeneration)
     THEN \/ launch' = "ended" /\ UNCHANGED <<leaseLeft, backOffLeft>>
          \/ launch' = "recovering" /\ leaseLeft' = 0 /\ backOffLeft' = BackOff
     ELSE UNCHANGED <<launch, leaseLeft, backOffLeft>>
  /\ UNCHANGED <<captured, observed, late, outcome, timeoutSeen, rowVars, intervalVars, generation,
                 cancelled, tabVars>>
-----------------------------------------------------------------------------
Heartbeat ==
  /\ agent \notin {"done", "gone"} /\ LeaseHeld(FirstGeneration)
  /\ leaseLeft' = LeaseTime
  /\ UNCHANGED <<rowVars, intervalVars, launch, generation, backOffLeft, cancelled, agentVars,
                 tabVars>>

Crash ==
  /\ agent \notin {"done", "gone"}
  /\ agent' = "gone"
  /\ UNCHANGED <<captured, observed, late, outcome, timeoutSeen, rowVars, intervalVars, leaseVars,
                 tabVars>>

Cancel ==
  /\ ~cancelled /\ launch # "ended"
  /\ cancelled' = TRUE
  /\ UNCHANGED <<rowVars, intervalVars, launch, generation, leaseLeft, backOffLeft, agentVars,
                 tabVars>>

(* claim() of the expired lease by a worker that recovers.                 *)
Reclaim ==
  /\ launch # "ended" /\ leaseLeft = 0 /\ backOffLeft = 0
  /\ generation <= MaxReclaims
  /\ launch' = "recovering"
  /\ generation' = generation + 1
  /\ leaseLeft' = LeaseTime
  /\ UNCHANGED <<rowVars, intervalVars, backOffLeft, cancelled, agentVars, tabVars>>

(* The recovery finishes the control, then settles or quarantines.         *)
RecoveryEnds ==
  /\ launch = "recovering" /\ leaseLeft > 0
  /\ launch' = "ended"
  /\ IF rowGeneration # NULL THEN Close ELSE UNCHANGED <<phase, version, intervalOpen>>
  /\ UNCHANGED <<controller, rowGeneration, humanLeft, viewerLeft, intervals, generation,
                 leaseLeft, backOffLeft, cancelled, agentVars, tabVars>>

(* Time passes.  The last recovery the bound allows renews its lease.      *)
Tick ==
  /\ leaseLeft' = IF generation > MaxReclaims /\ launch = "recovering" THEN leaseLeft
                  ELSE Sooner(leaseLeft)
  /\ backOffLeft' = Sooner(backOffLeft)
  /\ humanLeft' = Sooner(humanLeft)
  /\ viewerLeft' = Sooner(viewerLeft)
  /\ grantLeft' = [c \in Tabs |-> Sooner(grantLeft[c])]
  /\ UNCHANGED <<phase, version, controller, rowGeneration, intervalVars, launch, generation,
                 cancelled, agentVars, requests>>
-----------------------------------------------------------------------------
Init ==
  /\ phase = "agent" /\ version = 0 /\ controller = NULL /\ rowGeneration = NULL
  /\ humanLeft = NULL /\ viewerLeft = 0
  /\ intervals = 0 /\ intervalOpen = FALSE
  /\ launch = "active" /\ generation = FirstGeneration /\ leaseLeft = LeaseTime
  /\ backOffLeft = 0
  /\ cancelled = FALSE
  /\ agent = "await" /\ captured = 0 /\ observed = NULL /\ late = FALSE
  /\ outcome = NULL /\ timeoutSeen = FALSE
  /\ grantLeft = [c \in Tabs |-> 0]
  /\ requests = 0

AgentStep ==
  \/ AgentProceeds \/ Think \/ Act \/ ObservationEnds \/ ThoughtEnds \/ ActionEnds \/ AgentStops
  \/ Quiesce \/ Acknowledge \/ StartResume \/ Resume \/ ReadThrows \/ FinishControl
  \/ Finish
TabStep == \E c \in Tabs : Status(c) \/ RequestControl(c) \/ HandBack(c)

Next ==
  \/ AgentStep \/ TabStep \/ Abort \/ Heartbeat \/ Crash \/ Cancel
  \/ Reclaim \/ RecoveryEnds \/ Tick

Spec == Init /\ [][Next]_vars

(* The loop polls every 50 ms and its operations are bounded, a worker     *)
(* claims expired leases, and time passes.  Tabs may fall silent.          *)
Fairness ==
  WF_vars(AgentStep) /\ WF_vars(Reclaim) /\ WF_vars(RecoveryEnds) /\ WF_vars(Tick)

FairSpec == Spec /\ Fairness
-----------------------------------------------------------------------------
Interactive(c) == grantLeft[c] > 0
AgentAtWork == agent \in Operations \/ late

(* While an operation of the agent may reach the browser no tab's frame is *)
(* interactive (assertDispatch(), acknowledge(), resume()).                *)
Exclusive == AgentAtWork => \A c \in Tabs : ~Interactive(c)

(* What the agent does, and its verdict, rest on an observation made since *)
(* the last human interval (the catch block of executePersona()).          *)
FreshDecisions ==
  agent \in {"thinking", "acting"} \/ outcome = "finished" => observed = intervals

(* Control always comes back to the agent, or the attempt ends, however    *)
(* silent the tab and whatever becomes of the worker (read(), claim()).    *)
ControlReturns == phase # "agent" ~> phase = "agent" \/ launch = "ended"

(* An execution that meets the deadline of human control reports it as a   *)
(* limit, as read() says ("Human control timeout").                        *)
TimeoutsAreLimits == timeoutSeen => outcome = "limit_reached"
=============================================================================
