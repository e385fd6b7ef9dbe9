--------------------------- MODULE AttendedProofs ---------------------------
(***************************************************************************)
(* Proofs about an attended run: that the agent and a human never hold the *)
(* browser together, and that the agent decides on what it has seen since  *)
(* (Takeover); that a persona succeeds only on verdicts of observations of *)
(* its own (PersonaLoop).                                                  *)
(***************************************************************************)
EXTENDS Takeover, PersonaLoop, TLAPS

TimeLeft == Nat \cup {NULL}

TakeoverTypes ==
  /\ phase \in {"agent", "requested", "quiescing", "human", "handback", "resuming", "closed"}
  /\ rowGeneration \in Nat \cup {NULL}
  /\ humanLeft \in TimeLeft /\ viewerLeft \in Nat /\ leaseLeft \in Nat
  /\ grantLeft \in [Tabs -> Nat]
  /\ agent \in {"await", "draining", "observed", "decided", "closing", "closed", "done", "gone"}
               \cup Operations
  /\ late \in BOOLEAN

NoneInteractive == \A c \in Tabs : grantLeft[c] = 0

(* A human in control has a deadline and a row.                            *)
ControlHasDeadline ==
  phase \notin {"agent", "closed"} => humanLeft \in Nat /\ rowGeneration # NULL

(* The row remembers when the last of the grants runs out, and none is     *)
(* left where no human has been let in since the agent had the browser.    *)
GrantsCovered == \A c \in Tabs : grantLeft[c] <= viewerLeft
GrantsComeWithControl == phase \in {"agent", "requested", "quiescing"} => NoneInteractive

(* An operation in flight, or one left behind by an aborted loop, began    *)
(* when the agent had the browser; nobody can have been let in since.      *)
WorkKeepsHumansOut ==
  AgentAtWork => phase \in {"agent", "requested", "closed"} /\ NoneInteractive
LateMeansClosing == late => agent \in {"closing", "gone"}

ExclusionInvariant ==
  /\ TakeoverTypes /\ ControlHasDeadline /\ GrantsCovered /\ GrantsComeWithControl
  /\ WorkKeepsHumansOut /\ LateMeansClosing

(* The loop holds an observation from its end until the action it led to   *)
(* ends, and no interval opens meanwhile; it waits for control without one.*)
ObservationInvariant ==
  /\ agent \in {"observed", "thinking", "decided", "acting"} => observed = intervals
  /\ agent \in {"await", "draining"} => observed = NULL
  /\ outcome = "finished" =>
       agent \in {"closing", "closed", "done", "gone"} /\ observed = intervals
-----------------------------------------------------------------------------
(* What GrantTime is: the least of three times.                            *)
LEMMA LeastOfThree ==
  ASSUME NEW a \in Nat, NEW b \in Nat, NEW c \in Nat
  PROVE  /\ Least({a, b, c}) \in {a, b, c}
         /\ Least({a, b, c}) <= a /\ Least({a, b, c}) <= b /\ Least({a, b, c}) <= c
<1>1. \E m \in {a, b, c} : \A x \in {a, b, c} : m <= x
  <2>1. CASE a <= b /\ a <= c BY <2>1
  <2>2. CASE b <= a /\ b <= c BY <2>2
  <2>3. CASE c <= a /\ c <= b BY <2>3
  <2> QED BY <2>1, <2>2, <2>3
<1> QED BY <1>1 DEF Least

LEMMA SoonerIsLess ==
  ASSUME NEW t \in TimeLeft
  PROVE  /\ Sooner(t) \in TimeLeft
         /\ t \in Nat => Sooner(t) \in Nat /\ Sooner(t) <= t
         /\ t = 0 => Sooner(t) = 0
BY TabsAssumption DEF Sooner, TimeLeft

LEMMA ExclusionStep == ExclusionInvariant /\ [Next]_vars => ExclusionInvariant'
<1> SUFFICES ASSUME ExclusionInvariant, [Next]_vars PROVE ExclusionInvariant'
  OBVIOUS
<1> USE TabsAssumption, TimeAssumption DEF ExclusionInvariant, TakeoverTypes, TimeLeft, ControlHasDeadline, GrantsCovered, GrantsComeWithControl, NoneInteractive, WorkKeepsHumansOut, LateMeansClosing, AgentAtWork, Operations, rowVars, intervalVars, leaseVars, agentVars, tabVars
<1>1. CASE AgentProceeds
  BY <1>1 DEF AgentProceeds, Goes
<1>2. CASE Think
  BY <1>2 DEF Think, Dispatch, Goes, Interrupt, ForgetObservation
<1>3. CASE Act
  BY <1>3 DEF Act, Dispatch, Goes, Interrupt, ForgetObservation
<1>4. CASE ObservationEnds
  BY <1>4 DEF ObservationEnds, Complete, Goes, Interrupt, ForgetObservation
<1>5. CASE ThoughtEnds
  BY <1>5 DEF ThoughtEnds, Complete, Goes, Interrupt, ForgetObservation
<1>6. CASE ActionEnds
  BY <1>6 DEF ActionEnds, Complete, Goes, Interrupt, ForgetObservation
<1>7. CASE AgentStops
  BY <1>7 DEF AgentStops, Ends
<1>8. CASE Quiesce
  BY <1>8 DEF Quiesce, Transition, Goes
<1>9. CASE Acknowledge
  BY <1>9 DEF Acknowledge, Transition, Goes
<1>10. CASE StartResume
  BY <1>10 DEF StartResume, Transition
<1>11. CASE Resume
  BY <1>11 DEF Resume, Transition, GrantsExpired, ReleaseControl, MayRead
<1>12. CASE ReadThrows
  BY <1>12 DEF ReadThrows, Ends, Close, Transition
<1>13. CASE FinishControl
  BY <1>13 DEF FinishControl, Close, Transition
<1>14. CASE Finish
  BY <1>14 DEF Finish
<1>15. CASE Abort
  BY <1>15 DEF Abort, Ends
<1>16. CASE Heartbeat
  BY <1>16 DEF Heartbeat
<1>17. CASE Crash
  BY <1>17 DEF Crash
<1>18. CASE Cancel
  BY <1>18 DEF Cancel
<1>19. CASE Reclaim
  BY <1>19 DEF Reclaim
<1>20. CASE RecoveryEnds
  BY <1>20 DEF RecoveryEnds, Close, Transition
<1>21. ASSUME NEW c \in Tabs, Status(c) PROVE ExclusionInvariant'
  <2>1. CASE rowGeneration # NULL /\ (~Active \/ rowGeneration # generation \/ TimedOut)
    BY <1>21, <2>1 DEF Status, Close, Transition
  <2>2. CASE ~(rowGeneration # NULL /\ (~Active \/ rowGeneration # generation \/ TimedOut))
    <3>1. MayView(c) /\ phase = "human" /\ humanLeft \in Nat
      BY <1>21, <2>2 DEF Status, MayView
    <3>2. GrantTime \in Nat
      BY <3>1, LeastOfThree DEF GrantTime
    <3>3. /\ viewerLeft' \in Nat /\ viewerLeft <= viewerLeft' /\ GrantTime <= viewerLeft'
          /\ viewerLeft' = Larger(viewerLeft, GrantTime)
      BY <1>21, <2>2, <3>2 DEF Status, Larger
    <3>4. /\ grantLeft' \in [Tabs -> Nat]
          /\ \A d \in Tabs : grantLeft'[d] <= viewerLeft'
      BY <1>21, <2>2, <3>2, <3>3 DEF Status, Larger
    <3> QED BY <1>21, <2>2, <3>1, <3>3, <3>4 DEF Status
  <2> QED BY <2>1, <2>2
<1>22. ASSUME NEW c \in Tabs, RequestControl(c) PROVE ExclusionInvariant'
  BY <1>22 DEF RequestControl, Transition, Active, LeaseHeld
<1>23. ASSUME NEW c \in Tabs, HandBack(c) PROVE ExclusionInvariant'
  BY <1>23 DEF HandBack, Transition
<1>24. CASE Tick
  <2>1. leaseLeft' \in Nat /\ humanLeft' \in TimeLeft /\ viewerLeft' \in Nat
        /\ (humanLeft \in Nat => humanLeft' \in Nat)
    BY <1>24, SoonerIsLess DEF Tick
  <2>2. grantLeft' \in [Tabs -> Nat] /\ (NoneInteractive => NoneInteractive')
    BY <1>24, SoonerIsLess DEF Tick
  <2>3. GrantsCovered'
    BY <1>24 DEF Tick, Sooner
  <2> QED BY <1>24, <2>1, <2>2, <2>3 DEF Tick
<1>25. CASE UNCHANGED vars
  BY <1>25 DEF vars
<1> QED BY <1>1, <1>2, <1>3, <1>4, <1>5, <1>6, <1>7, <1>8, <1>9, <1>10, <1>11, <1>12, <1>13, <1>14, <1>15, <1>16, <1>17, <1>18, <1>19, <1>20, <1>21, <1>22, <1>23, <1>24, <1>25 DEF Next, AgentStep, TabStep

(* While an operation of the agent may reach the browser, no tab's frame   *)
(* is interactive: Exclusive, whatever the order of the agent's steps, the *)
(* tabs' requests and polls, recoveries and the clock.                     *)
THEOREM BrowserIsExclusive == Spec => []Exclusive
<1>1. Init => ExclusionInvariant
  <2> SUFFICES ASSUME Init PROVE ExclusionInvariant
    OBVIOUS
  <2>1. TakeoverTypes
    BY TabsAssumption, TimeAssumption DEF Init, TakeoverTypes, TimeLeft, FirstGeneration
  <2>2. NoneInteractive /\ GrantsCovered
    BY DEF Init, NoneInteractive, GrantsCovered
  <2>3. ControlHasDeadline /\ ~AgentAtWork /\ ~late
    BY DEF Init, ControlHasDeadline, AgentAtWork, Operations
  <2> QED BY <2>1, <2>2, <2>3
      DEF ExclusionInvariant, GrantsComeWithControl, WorkKeepsHumansOut, LateMeansClosing
<1>2. ASSUME ExclusionInvariant PROVE Exclusive
  <2> SUFFICES ASSUME AgentAtWork, NEW c \in Tabs PROVE ~Interactive(c)
    BY DEF Exclusive
  <2>1. grantLeft[c] = 0
    BY <1>2 DEF ExclusionInvariant, WorkKeepsHumansOut, NoneInteractive
  <2> QED BY <2>1 DEF Interactive
<1> QED BY <1>1, <1>2, ExclusionStep, PTL DEF Spec-----------------------------------------------------------------------------
LEMMA ObservationStep == ObservationInvariant /\ [Next]_vars => ObservationInvariant'
<1> SUFFICES ASSUME ObservationInvariant, [Next]_vars PROVE ObservationInvariant'
  OBVIOUS
<1> USE OutcomeAssumption DEF ObservationInvariant, Operations, intervalVars, agentVars
<1>1. CASE AgentProceeds
  BY <1>1 DEF AgentProceeds, Goes
<1>2. CASE Think
  BY <1>2 DEF Think, Dispatch, Goes, Interrupt, ForgetObservation
<1>3. CASE Act
  BY <1>3 DEF Act, Dispatch, Goes, Interrupt, ForgetObservation
<1>4. CASE ObservationEnds
  BY <1>4 DEF ObservationEnds, Complete, Goes, Interrupt, ForgetObservation
<1>5. CASE ThoughtEnds
  BY <1>5 DEF ThoughtEnds, Complete, Goes, Interrupt, ForgetObservation
<1>6. CASE ActionEnds
  BY <1>6 DEF ActionEnds, Complete, Goes, Interrupt, ForgetObservation
<1>7. CASE AgentStops
  BY <1>7 DEF AgentStops, Ends
<1>8. CASE Quiesce
  BY <1>8 DEF Quiesce, Goes
<1>9. CASE Acknowledge
  BY <1>9 DEF Acknowledge, Goes
<1>10. CASE StartResume
  BY <1>10 DEF StartResume
<1>11. CASE Resume
  BY <1>11 DEF Resume
<1>12. CASE ReadThrows
  BY <1>12 DEF ReadThrows, Ends
<1>13. CASE FinishControl
  BY <1>13 DEF FinishControl
<1>14. CASE Finish
  BY <1>14 DEF Finish
<1>15. CASE Abort
  BY <1>15 DEF Abort, Ends
<1>16. CASE Heartbeat
  BY <1>16 DEF Heartbeat
<1>17. CASE Crash
  BY <1>17 DEF Crash
<1>18. CASE Cancel
  BY <1>18 DEF Cancel
<1>19. CASE Reclaim
  BY <1>19 DEF Reclaim
<1>20. CASE RecoveryEnds
  BY <1>20 DEF RecoveryEnds
<1>21. CASE Tick
  BY <1>21 DEF Tick
<1>22. ASSUME NEW c \in Tabs, Status(c) PROVE ObservationInvariant'
  BY <1>22 DEF Status
<1>23. ASSUME NEW c \in Tabs, RequestControl(c) PROVE ObservationInvariant'
  BY <1>23 DEF RequestControl
<1>24. ASSUME NEW c \in Tabs, HandBack(c) PROVE ObservationInvariant'
  BY <1>24 DEF HandBack
<1>25. CASE UNCHANGED vars
  BY <1>25 DEF vars
<1> QED BY <1>1, <1>2, <1>3, <1>4, <1>5, <1>6, <1>7, <1>8, <1>9, <1>10, <1>11, <1>12, <1>13, <1>14, <1>15, <1>16, <1>17, <1>18, <1>19, <1>20, <1>21, <1>22, <1>23, <1>24, <1>25 DEF Next, AgentStep, TabStep

(* What the agent decides, does and finally says of the page rests on an   *)
(* observation made after the last human interval: FreshDecisions.         *)
THEOREM AgentDecidesAfresh == Spec => []FreshDecisions
<1>1. Init => ObservationInvariant
  BY OutcomeAssumption DEF Init, ObservationInvariant
<1>2. ObservationInvariant => FreshDecisions
  BY DEF ObservationInvariant, FreshDecisions
<1> QED BY <1>1, <1>2, ObservationStep, PTL DEF Spec-----------------------------------------------------------------------------
(* The persona loop.                                                       *)
Sighted == Verdicts \cup {"unread"}

LoopTypes ==
  /\ checks \in [Criteria -> Verdicts] /\ previousChecks \in [Criteria -> Verdicts]
  /\ view \in [Criteria -> Sighted] /\ kept \in [Criteria -> Sighted]
  /\ at \in Awaits \cup {"closing", "releasing", "finishing", "done"}

(* What stands behind a criterion that passed.                             *)
Supported(c) ==
  view[c] = "met" \/ (c \in Milestones /\ view[c] = "unseen" /\ kept[c] = "met")

(* A milestone the last iteration ended with was kept, and an iteration a  *)
(* human interrupted leaves no trace in the checks.                        *)
MilestonesKept == \A c \in Milestones : previousChecks[c] = "met" => kept[c] = "met"
IterationsRestart == at \in {"starting", "waiting", "observing"} => checks = previousChecks

(* A check that passed is supported, but for those the model still has to  *)
(* judge; once the observation is judged there are none of these.          *)
JudgedStates == {"thinking", "announcing", "pausing", "acting", "recording"}
ChecksSupported ==
  /\ at = "evaluating" =>
       \A c \in Criteria : checks[c] = "met" => view[c] = "unread" \/ Supported(c)
  /\ (at = "reporting" /\ failure # "target") \/ at \in JudgedStates =>
       \A c \in Criteria : view[c] # "unread" /\ (checks[c] = "met" => Supported(c))
VerdictStands ==
  terminal = "succeeded" => at \notin Awaits /\ \A c \in Criteria : Supported(c)

LoopInvariant ==
  /\ LoopTypes /\ MilestonesKept /\ IterationsRestart /\ ChecksSupported /\ VerdictStands

(* mergeCriterionCheck() passes a criterion that is met now, or a milestone*)
(* that was met before and that the page says nothing about.               *)
LEMMA MergeSupports ==
  ASSUME NEW seen \in [Criteria -> Sighted], LoopTypes
  PROVE  /\ Merged(seen) \in [Criteria -> Verdicts]
         /\ \A c \in Criteria : Merged(seen)[c] = "met" =>
              \/ seen[c] = "met"
              \/ seen[c] = "unread" /\ checks[c] = "met"
              \/ c \in Milestones /\ checks[c] = "met" /\ seen[c] = "unseen"
BY DEF Merged, Merge, LoopTypes, Sighted, Verdicts

LEMMA UnjudgedIsSettled ==
  ASSUME NEW seen \in [Criteria -> Sighted]
  PROVE  /\ Unjudged(seen) \in [Criteria -> Verdicts]
         /\ \A c \in Criteria : Unjudged(seen)[c] =
              IF seen[c] = "unread" THEN "unmet" ELSE seen[c]
BY DEF Unjudged, Sighted, Verdicts

(* A report made when the observation arrived.                             *)
LEMMA FirstReport ==
  ASSUME LoopInvariant, at = "observing", NEW seen \in [Criteria -> Sighted], NEW then,
         Report(seen, then), then = "target" \/ \A c \in Criteria : seen[c] # "unread",
         UNCHANGED terminal
  PROVE  LoopInvariant'
<1>1. /\ checks' = Merged(seen) /\ view' = seen /\ failure' = then /\ at' = "reporting"
      /\ UNCHANGED <<previousChecks, kept, emitted>>
  BY DEF Report
<1>2. checks = previousChecks
  BY DEF LoopInvariant, IterationsRestart
<1>3. LoopTypes'
  BY <1>1, MergeSupports DEF LoopInvariant, LoopTypes, Awaits
<1>4. MilestonesKept'
  BY <1>1 DEF LoopInvariant, MilestonesKept
<1>5. ChecksSupported'
  <2> SUFFICES ASSUME then # "target", NEW c \in Criteria
               PROVE  view'[c] # "unread" /\ (checks'[c] = "met" => Supported(c)')
    BY <1>1 DEF ChecksSupported, JudgedStates
  <2> QED BY <1>1, <1>2, MergeSupports DEF LoopInvariant, MilestonesKept, Supported
<1>6. VerdictStands'
  BY <1>1 DEF LoopInvariant, VerdictStands, Awaits
<1> QED BY <1>1, <1>3, <1>4, <1>5, <1>6 DEF LoopInvariant, IterationsRestart

LEMMA ObservedKeeps ==
  ASSUME LoopInvariant, NEW seen \in Judgements, Observed(seen)
  PROVE  LoopInvariant'
<1>1. at = "observing" /\ seen \in [Criteria -> Sighted] /\ checks = previousChecks
  BY DEF Observed, Judgements, Sighted, LoopInvariant, IterationsRestart
<1>2. CASE Discard
  BY <1>1, <1>2
  DEF Discard, RestoreChecks, Blank, LoopInvariant, LoopTypes, Sighted, Verdicts, MilestonesKept,
      IterationsRestart, ChecksSupported, JudgedStates, VerdictStands, Awaits
<1>3. CASE UNCHANGED terminal /\ Report(seen, "target")
  BY <1>1, <1>3, FirstReport
<1>4. CASE UNCHANGED terminal /\ Unread(seen) = {} /\ Report(seen, "none")
  BY <1>1, <1>4, FirstReport DEF Unread
<1>5. CASE UNCHANGED terminal /\ Report(Unjudged(seen), "limit")
  <2>1. /\ Unjudged(seen) \in [Criteria -> Sighted]
        /\ \A c \in Criteria : Unjudged(seen)[c] # "unread"
    BY <1>1, UnjudgedIsSettled DEF Sighted, Verdicts
  <2> QED BY <1>1, <1>5, <2>1, FirstReport
<1>6. CASE /\ UNCHANGED terminal
           /\ at' = "evaluating" /\ view' = seen /\ checks' = Merged(seen)
           /\ UNCHANGED <<previousChecks, failure, kept, emitted>>
  <2>1. LoopTypes' /\ MilestonesKept'
    BY <1>1, <1>6, MergeSupports DEF LoopInvariant, LoopTypes, MilestonesKept, Awaits
  <2>2. ASSUME NEW c \in Criteria, checks'[c] = "met"
        PROVE  view'[c] = "unread" \/ Supported(c)'
    BY <1>1, <1>6, <2>2, MergeSupports DEF LoopInvariant, MilestonesKept, Supported
  <2>3. ChecksSupported' /\ VerdictStands'
    BY <1>1, <1>6, <2>2 DEF LoopInvariant, ChecksSupported, JudgedStates, VerdictStands, Awaits
  <2> QED BY <1>6, <2>1, <2>3 DEF LoopInvariant, IterationsRestart
<1> QED BY <1>2, <1>3, <1>4, <1>5, <1>6 DEF Observed, StartExtraction

LEMMA EvaluatedKeeps ==
  ASSUME LoopInvariant, Evaluated
  PROVE  LoopInvariant'
<1>1. at = "evaluating"
  BY DEF Evaluated
<1>2. CASE Discard
  BY <1>1, <1>2
  DEF Discard, RestoreChecks, Blank, LoopInvariant, LoopTypes, Sighted, Verdicts, MilestonesKept,
      IterationsRestart, ChecksSupported, JudgedStates, VerdictStands, Awaits
<1>3. ASSUME UNCHANGED terminal, NEW now \in [Criteria -> Verdicts], NEW then, Report(now, then),
             \A c \in Criteria : view[c] # "unread" => now[c] = view[c],
             \A c \in Criteria : view[c] = "unread" => now[c] \in {"met", "unmet"}
      PROVE  LoopInvariant'
  <2>1. /\ checks' = Merged(now) /\ view' = now /\ failure' = then /\ at' = "reporting"
        /\ UNCHANGED <<previousChecks, kept, emitted>>
    BY <1>3 DEF Report
  <2>2. LoopTypes' /\ MilestonesKept' /\ now \in [Criteria -> Sighted]
    BY <1>1, <1>3, <2>1, MergeSupports
    DEF LoopInvariant, LoopTypes, MilestonesKept, Awaits, Sighted
  <2>3. ASSUME NEW c \in Criteria PROVE view'[c] # "unread" /\ (checks'[c] = "met" => Supported(c)')
    <3>1. view'[c] # "unread"
      BY <1>3, <2>1 DEF Verdicts
    <3>2. CASE now[c] = "met"
      BY <2>1, <3>1, <3>2 DEF Supported
    <3>3. CASE now[c] # "met" /\ checks'[c] = "met"
      <4>1. c \in Milestones /\ checks[c] = "met" /\ now[c] = "unseen"
        BY <2>1, <2>2, <3>1, <3>3, MergeSupports DEF LoopInvariant
      <4>2. view[c] = "unseen" /\ kept[c] = "met"
        BY <1>1, <1>3, <4>1 DEF LoopInvariant, ChecksSupported, Supported
      <4> QED BY <2>1, <4>1, <4>2 DEF Supported
    <3> QED BY <3>1, <3>2, <3>3
  <2> QED BY <1>1, <1>3, <2>1, <2>2, <2>3
      DEF LoopInvariant, ChecksSupported, JudgedStates, VerdictStands, IterationsRestart, Awaits
<1>4. Unjudged(view) \in [Criteria -> Verdicts]
  BY UnjudgedIsSettled DEF LoopInvariant, LoopTypes
<1>5. ASSUME UNCHANGED terminal, NEW good \in SUBSET Unread(view),
             Report([c \in Criteria |-> IF c \in good THEN "met" ELSE Unjudged(view)[c]], "none")
      PROVE  LoopInvariant'
  <2> DEFINE now == [c \in Criteria |-> IF c \in good THEN "met" ELSE Unjudged(view)[c]]
  <2>1. /\ now \in [Criteria -> Verdicts]
        /\ \A c \in Criteria : view[c] # "unread" => now[c] = view[c]
        /\ \A c \in Criteria : view[c] = "unread" => now[c] \in {"met", "unmet"}
    BY <1>4, <1>5, UnjudgedIsSettled DEF Unread, Verdicts, LoopInvariant, LoopTypes
  <2> HIDE DEF now
  <2>2. Report(now, "none")
    BY <1>5 DEF now
  <2> QED BY <1>3, <1>5, <2>1, <2>2
<1>6. ASSUME UNCHANGED terminal, NEW then, Report(Unjudged(view), then)
      PROVE  LoopInvariant'
  <2>1. /\ \A c \in Criteria : view[c] # "unread" => Unjudged(view)[c] = view[c]
        /\ \A c \in Criteria : view[c] = "unread" => Unjudged(view)[c] \in {"met", "unmet"}
    BY UnjudgedIsSettled, SMTT(60) DEF LoopInvariant, LoopTypes
  <2> QED BY <1>3, <1>4, <1>6, <2>1
<1> QED BY <1>2, <1>5, <1>6 DEF Evaluated

LEMMA LoopStepKeeps == LoopInvariant /\ [LoopNext]_loopVars => LoopInvariant'
<1> SUFFICES ASSUME LoopInvariant, [LoopNext]_loopVars PROVE LoopInvariant'
  OBVIOUS
<1> USE DEF LoopInvariant, LoopTypes, MilestonesKept, IterationsRestart, ChecksSupported, JudgedStates,
            VerdictStands, Supported, Awaits, verdictVars, resultVars
<1>1. CASE Started
  BY <1>1 DEF Started
<1>2. CASE HandOver
  BY <1>2 DEF HandOver
<1>3. CASE Observe
  BY <1>3 DEF Observe
<1>4. CASE Reported
  BY <1>4 DEF Reported, Terminates, Passed, RestoreChecks, Blank, Sighted, Verdicts
<1>5. CASE Decided
  BY <1>5 DEF Decided, Discard, RestoreChecks, Blank, Sighted, Verdicts, Terminates
<1>6. CASE Announced
  BY <1>6 DEF Announced, Discard, RestoreChecks, Blank, Sighted, Verdicts, Terminates
<1>7. CASE ActInBrowser
  BY <1>7 DEF ActInBrowser, Discard, RestoreChecks, Blank, Sighted, Verdicts
<1>8. CASE Acted
  BY <1>8 DEF Acted, Discard, RestoreChecks, Blank, Sighted, Verdicts
<1>9. CASE Recorded
  <2>1. \A c \in Criteria : checks[c] = "met" => Supported(c)
    BY <1>9 DEF Recorded
  <2>2. /\ kept' \in [Criteria -> Sighted] /\ view' \in [Criteria -> Sighted] /\ at' = "waiting"
        /\ \A c \in Criteria : kept'[c] = IF view[c] = "unseen" THEN kept[c] ELSE view[c]
        /\ previousChecks' = checks /\ UNCHANGED <<checks, terminal>>
    BY <1>9 DEF Recorded, Blank, Sighted, Verdicts
  <2>3. MilestonesKept'
    BY <2>1, <2>2, CriteriaAssumption
  <2> QED BY <1>9, <2>2, <2>3 DEF Recorded
<1>10. CASE EmitFails
  BY <1>10 DEF EmitFails, Terminates
<1>11. CASE DriverFails
  BY <1>11 DEF DriverFails, Terminates
<1>12. CASE Abandon
  BY <1>12 DEF Abandon, Terminates
<1>13. CASE Drain
  BY <1>13 DEF Drain
<1>14. CASE Release
  BY <1>14 DEF Release
<1>15. CASE FinishLoop
  BY <1>15 DEF FinishLoop
<1>16. CASE SendRequest
  BY <1>16 DEF SendRequest
<1>17. CASE LateExtraction
  BY <1>17 DEF LateExtraction
<1>18. CASE CancelExecution
  BY <1>18 DEF CancelExecution, Stop
<1>19. CASE Expire
  BY <1>19 DEF Expire, Stop
<1>20. CASE AskForControl
  BY <1>20 DEF AskForControl
<1>21. CASE GiveBack
  BY <1>21 DEF GiveBack
<1>22. CASE Evaluated
  BY <1>22, EvaluatedKeeps
<1>23. ASSUME NEW seen \in Judgements, Observed(seen) PROVE LoopInvariant'
  BY <1>23, ObservedKeeps
<1>24. CASE UNCHANGED loopVars
  BY <1>24 DEF loopVars
<1> QED BY <1>1, <1>2, <1>3, <1>4, <1>5, <1>6, <1>7, <1>8, <1>9, <1>10, <1>11, <1>12, <1>13, <1>14, <1>15, <1>16, <1>17, <1>18, <1>19, <1>20, <1>21, <1>22, <1>23, <1>24 DEF LoopNext, LoopStep, Unwind

(* A persona succeeds only on verdicts of the agent's own observations:    *)
(* SuccessIsVerified, whatever humans, the model and the page do.          *)
THEOREM SuccessRestsOnObservations == LoopSpec => []SuccessIsVerified
<1>1. LoopInit => LoopInvariant
  BY DEF LoopInit, LoopInvariant, LoopTypes, Sighted, Verdicts, Blank, Awaits, MilestonesKept,
         IterationsRestart, ChecksSupported, JudgedStates, VerdictStands
<1>2. LoopInvariant => SuccessIsVerified
  BY DEF LoopInvariant, VerdictStands, Supported, SuccessIsVerified
<1> QED BY <1>1, <1>2, LoopStepKeeps, PTL DEF LoopSpec
=============================================================================
