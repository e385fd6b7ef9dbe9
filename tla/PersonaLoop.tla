---------------------------- MODULE PersonaLoop ----------------------------
(***************************************************************************)
(* The loop of a persona (executePersona() in execution/loop.ts), the      *)
(* verdicts on its criteria (execution/evaluator.ts), its model budget     *)
(* (execution/budget.ts) and the gateway its model calls go through        *)
(* (execution/gateway.ts).                                                 *)
(*                                                                         *)
(* The loop is one thread of control; between two awaits of it a human may *)
(* ask for the browser, the deadline may pass, the execution may be        *)
(* cancelled, and the SDK behind the gateway may send one more request.    *)
(* The durable row of the control is module Takeover; here it is only who  *)
(* has the browser.  The page is whatever it is at each observation.       *)
(***************************************************************************)
EXTENDS Integers

CONSTANTS
  Criteria,
  Milestones,      (* criteria that outlive the page they were met on      *)
  Semantic,        (* criteria a model judges; code judges the others      *)
  MaxSteps, MaxModelCalls, Patience, StallThreshold,
  MaxTakeovers     (* bound: requests for control                          *)

ASSUME CriteriaAssumption == Milestones \subseteq Criteria /\ Semantic \subseteq Criteria
ASSUME LoopLimits ==
  /\ {MaxSteps, MaxModelCalls, Patience, StallThreshold} \subseteq Nat \ {0}
  /\ MaxTakeovers \in Nat

VARIABLES
  at,              (* the await the loop is in                             *)
  checks,          (* a verdict per criterion                              *)
  previousChecks,  (* checks at the start of the iteration                 *)
  view,            (* what the current observation says of each criterion  *)
  failure,         (* what becomes of the observation once it is emitted   *)
  steps, streak,   (* actions; decisions of one state in a row             *)
  hold,            (* who has the browser                                  *)
  takeovers,
  stops,           (* "cancelled", "expired"                               *)
  calls,           (* ModelBudget.total                                    *)
  sdk,             (* an extraction is pending                             *)
  wireRequests, denied,   (* the gateway's wireOperation                   *)
  sent,            (* requests that left for the model                     *)
  terminal,        (* originalTerminal                                     *)
  status,          (* of the result                                        *)
  reported,        (* modelCalls of the result                             *)
  kept, emitted      (* last verdict of a completed iteration; last one in   *)
                   (* an observation event                                 *)

verdictVars == <<checks, previousChecks, view, failure, kept, emitted>>
modelVars == <<calls, sdk, wireRequests, denied, sent>>
resultVars == <<terminal, status, reported>>
paceVars == <<steps, streak>>
humanVars == <<hold, takeovers>>
loopVars == <<at, verdictVars, paceVars, humanVars, stops, modelVars, resultVars>>

(* "unmet" stands for not_met, inconclusive and unsupported: the loop only *)
(* tells a criterion that passed, and one the page says nothing about.  A  *)
(* semantic criterion is "unread" until the model has judged it.           *)
Verdicts == {"met", "unmet", "unseen"}
Blank == [c \in Criteria |-> "unseen"]

Aborted == stops # {}
(* Faulty variant: the deadline does not end the wait for a human. *)
AwaitsButTheHuman ==
  {"starting", "observing", "evaluating", "reporting", "thinking", "announcing", "pausing", "acting",
   "recording"}
Awaits ==
  {"starting", "waiting", "observing", "evaluating", "reporting", "thinking", "announcing",
   "pausing", "acting", "recording"}
-----------------------------------------------------------------------------
(* ModelBudget.charge() and the gateway.                                   *)
Remaining == MaxModelCalls - calls

(* extract() up to the call of the SDK.                                    *)
StartExtraction ==
  /\ calls' = calls + 1
  /\ sdk' = TRUE /\ wireRequests' = 0 /\ denied' = "no"
  /\ UNCHANGED sent

Price == IF wireRequests > 0 THEN 1 ELSE 0

(* authorizeGatewayRequest(), just before the transport sends.  The SDK    *)
(* repeats requests as it likes, also after its caller gave up.            *)
Refuse(why) == denied' = why /\ UNCHANGED <<calls, wireRequests, sent>>
SendRequest ==
  /\ sdk /\ denied = "no"
  /\ IF Aborted \/ at \notin Awaits THEN Refuse("closed")
     ELSE IF Price > Remaining THEN Refuse("limit")
     ELSE /\ calls' = calls + Price
          /\ wireRequests' = wireRequests + 1 /\ sent' = sent + 1
          /\ UNCHANGED denied
  /\ UNCHANGED <<at, verdictVars, paceVars, humanVars, stops, sdk, resultVars>>

ExtractionEnds == sdk /\ sdk' = FALSE /\ UNCHANGED <<calls, wireRequests, denied, sent>>
HasData == denied = "no" /\ wireRequests > 0

(* The answer of an extraction nobody waits for any more. *)
LateExtraction ==
  /\ Aborted \/ at \notin Awaits
  /\ ExtractionEnds
  /\ UNCHANGED <<at, verdictVars, paceVars, humanVars, stops, resultVars>>
-----------------------------------------------------------------------------
(* mergeCriterionCheck().                                                  *)
Merge(c, before, now) ==
  IF c \in Milestones /\ before = "met" /\ now = "unseen" THEN before ELSE now

Merged(now) ==
  [c \in Criteria |-> IF now[c] = "unread" THEN checks[c] ELSE Merge(c, checks[c], now[c])]
Passed == \A c \in Criteria : checks[c] = "met"

Terminates(outcome) == at' = "closing" /\ terminal' = outcome

(* catch (TakeoverInterrupted).  Faulty variant: the checks stay.          *)
KeepChecks == UNCHANGED checks
RestoreChecks == checks' = previousChecks
Discard ==
  /\ at' = "waiting"
  /\ RestoreChecks
  /\ view' = Blank /\ failure' = "none" /\ streak' = 0
  /\ UNCHANGED <<previousChecks, kept, emitted, terminal>>

(* emit() fails.                                                           *)
EmitFails ==
  /\ ~Aborted /\ at \in {"starting", "reporting", "announcing", "recording"}
  /\ Terminates("infrastructure_failed")
  /\ UNCHANGED <<verdictVars, paceVars, humanVars, stops, modelVars, status, reported>>

Started ==
  /\ ~Aborted /\ at = "starting" /\ at' = "waiting"
  /\ UNCHANGED <<verdictVars, paceVars, humanVars, stops, modelVars, resultVars>>

(* awaitAgent(): the browser is handed to the human and taken back.        *)
HandOver ==
  /\ ~Aborted /\ at = "waiting"
  /\ \/ hold = "requested" /\ hold' = "human"
     \/ hold = "handback" /\ hold' = "agent"
  /\ UNCHANGED <<at, verdictVars, paceVars, takeovers, stops, modelVars, resultVars>>

Observe ==
  /\ ~Aborted /\ at = "waiting" /\ hold = "agent"
  /\ at' = "observing"
  /\ UNCHANGED <<verdictVars, paceVars, humanVars, stops, modelVars, resultVars>>

(* The observation is there: code judges what it can, and the model is     *)
(* asked for the rest while the budget lasts.                              *)
Judgements == [Criteria -> Verdicts \cup {"unread"}]
Possible(seen) == \A c \in Criteria : seen[c] \in (IF c \in Semantic THEN {"unseen", "unread"} ELSE Verdicts)
Unread(seen) == {c \in Criteria : seen[c] = "unread"}
Unjudged(seen) == [c \in Criteria |-> IF seen[c] = "unread" THEN "unmet" ELSE seen[c]]

Report(seen, then) ==
  /\ at' = "reporting" /\ view' = seen /\ failure' = then
  /\ checks' = Merged(seen)
  /\ UNCHANGED <<previousChecks, kept, emitted>>

Observed(seen) ==
  /\ ~Aborted /\ at = "observing"
  /\ \/ hold # "agent" /\ Discard /\ UNCHANGED <<steps, modelVars>>
     \/ /\ hold = "agent" /\ UNCHANGED <<paceVars, terminal>>
        /\ \/ Report(seen, "target") /\ UNCHANGED modelVars
           \/ Unread(seen) = {} /\ Report(seen, "none") /\ UNCHANGED modelVars
           \/ /\ Unread(seen) # {} /\ Remaining = 0
              /\ Report(Unjudged(seen), "limit") /\ UNCHANGED modelVars
           \/ /\ Unread(seen) # {} /\ Remaining > 0
              /\ at' = "evaluating" /\ view' = seen /\ checks' = Merged(seen)
              /\ StartExtraction
              /\ UNCHANGED <<previousChecks, failure, kept, emitted>>
  /\ UNCHANGED <<humanVars, stops, status, reported>>

(* The evaluation answers: validated verdicts on a relevant page are never *)
(* "unseen".  One that fails is only held against the observation.         *)
Evaluated ==
  /\ ~Aborted /\ at = "evaluating" /\ ExtractionEnds
  /\ \/ hold # "agent" /\ Discard /\ UNCHANGED steps
     \/ /\ hold = "agent"
        /\ \/ HasData /\ \E good \in SUBSET Unread(view) :
                Report([c \in Criteria |-> IF c \in good THEN "met" ELSE Unjudged(view)[c]], "none")
           \/ Report(Unjudged(view), IF denied = "limit" THEN "limit" ELSE "evaluator")
        /\ UNCHANGED <<paceVars, terminal>>
  /\ UNCHANGED <<humanVars, stops, status, reported>>

(* The observation was emitted; the loop judges its checks and goes on.    *)
Reported ==
  /\ ~Aborted /\ at = "reporting"
  /\ emitted' = [c \in Criteria |-> IF view[c] \in {"met", "unmet"} THEN view[c] ELSE emitted[c]]
  /\ IF failure = "target"
     THEN Terminates("target_failed") /\ UNCHANGED <<checks, previousChecks, view, failure, kept,
                                                     paceVars, modelVars>>
     ELSE IF hold # "agent"
     THEN /\ at' = "waiting" /\ RestoreChecks
          /\ view' = Blank /\ failure' = "none" /\ streak' = 0
          /\ UNCHANGED <<previousChecks, kept, steps, terminal, modelVars>>
     ELSE /\ UNCHANGED <<checks, previousChecks, view, failure, kept, paceVars>>
          /\ IF failure = "evaluator" THEN Terminates("infrastructure_failed") /\ UNCHANGED modelVars
             ELSE IF failure = "limit" THEN Terminates("limit_reached") /\ UNCHANGED modelVars
             ELSE IF Passed THEN Terminates("succeeded") /\ UNCHANGED modelVars
             ELSE IF steps >= MaxSteps \/ Remaining = 0
                  THEN Terminates("limit_reached") /\ UNCHANGED modelVars
             ELSE IF steps >= Patience THEN Terminates("gave_up") /\ UNCHANGED modelVars
             ELSE at' = "thinking" /\ StartExtraction /\ UNCHANGED terminal
  /\ UNCHANGED <<humanVars, stops, status, reported>>

(* decide() answers, and validateDecision() judges the decision.           *)
Decided ==
  /\ ~Aborted /\ at = "thinking" /\ ExtractionEnds
  /\ \/ hold # "agent" /\ Discard /\ UNCHANGED steps
     \/ /\ hold = "agent" /\ UNCHANGED <<verdictVars, paceVars>>
        /\ \/ HasData /\ at' = "announcing" /\ UNCHANGED terminal
           \/ HasData /\ Terminates("blocked")
           \/ Terminates(IF denied = "limit" THEN "limit_reached" ELSE "infrastructure_failed")
  /\ UNCHANGED <<humanVars, stops, status, reported>>

(* The decision was emitted.  It may be to stop; the same decision in the  *)
(* same state too often is a stall.                                        *)
Announced ==
  /\ ~Aborted /\ at = "announcing"
  /\ \/ hold # "agent" /\ Discard /\ UNCHANGED steps
     \/ /\ hold = "agent" /\ UNCHANGED <<verdictVars, steps>>
        /\ \/ Terminates("gave_up") /\ UNCHANGED streak
           \/ /\ streak' \in {1, streak + 1}
              /\ IF streak' > StallThreshold THEN Terminates("gave_up")
                 ELSE at' = "pausing" /\ UNCHANGED terminal
  /\ UNCHANGED <<humanVars, stops, modelVars, status, reported>>

ActInBrowser ==
  /\ ~Aborted /\ at = "pausing"
  /\ \/ hold # "agent" /\ Discard /\ UNCHANGED steps
     \/ /\ hold = "agent" /\ at' = "acting" /\ steps' = steps + 1
        /\ UNCHANGED <<verdictVars, streak, terminal>>
  /\ UNCHANGED <<humanVars, stops, modelVars, status, reported>>

Acted ==
  /\ ~Aborted /\ at = "acting"
  /\ \/ hold # "agent" /\ Discard /\ UNCHANGED steps
     \/ hold = "agent" /\ at' = "recording" /\ UNCHANGED <<verdictVars, paceVars, terminal>>
  /\ UNCHANGED <<humanVars, stops, modelVars, status, reported>>

(* observe() or act() fails: their failures count even after a takeover.   *)
DriverFails ==
  /\ ~Aborted /\ at \in {"observing", "acting"}
  /\ \E outcome \in {"blocked", "target_failed", "infrastructure_failed"} : Terminates(outcome)
  /\ UNCHANGED <<verdictVars, paceVars, humanVars, stops, modelVars, status, reported>>

(* The action was emitted: the iteration is over.                          *)
Recorded ==
  /\ ~Aborted /\ at = "recording" /\ at' = "waiting"
  /\ previousChecks' = checks
  /\ kept' = [c \in Criteria |-> IF view[c] = "unseen" THEN kept[c] ELSE view[c]]
  /\ view' = Blank
  /\ UNCHANGED <<checks, failure, emitted, paceVars, humanVars, stops, modelVars, resultVars>>
-----------------------------------------------------------------------------
(* The signal aborts the operation in flight, and the loop with it.        *)
Abandon ==
  /\ Aborted /\ at \in Awaits
  /\ Terminates(IF "cancelled" \in stops THEN "cancelled" ELSE "limit_reached")
  /\ UNCHANGED <<verdictVars, paceVars, humanVars, stops, modelVars, status, reported>>

(* The finally block: the gateway drains, then the browser is closed.      *)
Drain ==
  /\ at = "closing" /\ ~sdk /\ at' = "releasing"
  /\ UNCHANGED <<verdictVars, paceVars, humanVars, stops, modelVars, resultVars>>

Release ==
  /\ at = "releasing" /\ at' = "finishing"
  /\ status' \in {terminal, "infrastructure_failed"}
  /\ reported' = calls
  /\ UNCHANGED <<verdictVars, paceVars, humanVars, stops, modelVars, terminal>>

(* The last event, which the sink has a second to store.                   *)
FinishLoop ==
  /\ at = "finishing" /\ at' = "done"
  /\ status' \in {status, "infrastructure_failed"}
  /\ UNCHANGED <<verdictVars, paceVars, humanVars, stops, modelVars, terminal, reported>>

Stop(why) ==
  /\ at \in Awaits /\ why \notin stops
  /\ stops' = stops \cup {why}
  /\ UNCHANGED <<at, verdictVars, paceVars, humanVars, modelVars, resultVars>>
CancelExecution == Stop("cancelled")
Expire == Stop("expired")

AskForControl ==
  /\ at \in Awaits /\ hold = "agent" /\ takeovers < MaxTakeovers
  /\ hold' = "requested" /\ takeovers' = takeovers + 1
  /\ UNCHANGED <<at, verdictVars, paceVars, stops, modelVars, resultVars>>

GiveBack ==
  /\ hold = "human" /\ hold' = "handback"
  /\ UNCHANGED <<at, verdictVars, paceVars, takeovers, stops, modelVars, resultVars>>
-----------------------------------------------------------------------------
LoopInit ==
  /\ at = "starting"
  /\ checks = Blank /\ previousChecks = Blank /\ view = Blank /\ failure = "none"
  /\ kept = Blank /\ emitted = Blank
  /\ steps = 0 /\ streak = 0
  /\ hold = "agent" /\ takeovers = 0
  /\ stops = {}
  /\ calls = 0 /\ sdk = FALSE /\ wireRequests = 0 /\ denied = "no" /\ sent = 0
  /\ terminal = "none" /\ status = "none" /\ reported = 0

LoopStep ==
  \/ Started \/ HandOver \/ Observe \/ Evaluated \/ Reported \/ Decided \/ Announced
  \/ ActInBrowser \/ Acted \/ Recorded \/ EmitFails \/ DriverFails
  \/ \E seen \in Judgements : Possible(seen) /\ Observed(seen)
Unwind == Abandon \/ Drain \/ Release \/ FinishLoop
LoopNext ==
  \/ LoopStep \/ Unwind \/ SendRequest \/ LateExtraction
  \/ CancelExecution \/ Expire \/ AskForControl \/ GiveBack

LoopSpec == LoopInit /\ [][LoopNext]_loopVars

(* The deadline is a timer, an extraction has a timeout of its own, and    *)
(* driver.close() returns.  Nothing else needs to answer.                  *)
LoopFairness == WF_loopVars(Expire) /\ WF_loopVars(Unwind) /\ WF_loopVars(LateExtraction)
-----------------------------------------------------------------------------
(* A persona succeeds only on verdicts of the agent's own observations: a  *)
(* criterion is met on the last one, or it is a milestone that was met in  *)
(* an iteration no human interrupted and that no later one of these        *)
(* contradicted (mergeCriterionCheck(), the catch of executePersona()).    *)
SuccessIsVerified ==
  terminal = "succeeded" =>
    \A c \in Criteria :
      view[c] = "met" \/ (c \in Milestones /\ view[c] = "unseen" /\ kept[c] = "met")

(* An execution ends though no observation, model, action, event sink or   *)
(* human ever answers (operation(), the finally block).                    *)
LoopEnds == <>(at = "done")

(* A relevant contradiction invalidates a milestone: no persona succeeds   *)
(* whose last observation event about a criterion says that it is not met  *)
(* (docs/EXECUTION.md, lib/criteria.ts).                                   *)
ContradictionsInvalidate ==
  terminal = "succeeded" => \A c \in Criteria : emitted[c] = "met"
=============================================================================
