----------------------------- MODULE Comparison -----------------------------
(***************************************************************************)
(* What a rerun proves: the reports of a parent run and of its rerun       *)
(* (reports/aggregate.ts) and their comparison (workflows/comparison.ts),  *)
(* which anyone may ask for at any time, while attempts of either run are  *)
(* still running, in recovery or taken over.  Nothing of it is stored that *)
(* is used again: a report is a function of the rows, and so is here.      *)
(*                                                                         *)
(* One criterion, asked of some pairs, and the defect that the store's     *)
(* oracle knows.  Left out: text, other diagnostics (they have no oracle), *)
(* citations that are missing, files that were lost, and runs that cannot  *)
(* be compared for their scope or their version.                           *)
(***************************************************************************)
EXTENDS Integers, FiniteSets

CONSTANT Pairs     (* selected attempts of the parent, each with its rerun *)

VARIABLES
  attempt,         (* of [run, pair]: its rows, see Rows                   *)
  asksCriterion    (* pairs whose assignment has the criterion             *)

comparisonVars == <<attempt, asksCriterion>>

Runs == {"parent", "child"}
Pages == {"cart", "other"}

(* What a finished attempt stored.  "ended" is cancelled, blocked or a     *)
(* failure of the infrastructure.  Those that differ in what follows:      *)
Outcome(status, cleanup, check, cited) ==
  [status |-> status, cleanup |-> cleanup, check |-> check, cited |-> cited]
Outcomes ==
  {Outcome("completed", "closed", "met", page) : page \in Pages} \cup
  {Outcome("completed", "failed", "met", "cart"), Outcome("ended", "closed", "unknown", "other"),
   Outcome("gave_up", "closed", "not_met", "cart"),
   Outcome("target_failed", "closed", "unknown", "other")}
NoOutcome == Outcome("running", "unknown", "unknown", "other")

(* The launch of an attempt, and whether a human took part in it. *)
Fresh == [launch |-> "running", outcome |-> NoOutcome, assisted |-> FALSE]
-----------------------------------------------------------------------------
Finality(a) ==
  CASE a.launch = "recovering" -> "uncertain"
    [] a.outcome.status = "running" -> "in_progress"
    [] OTHER -> "final"

(* aggregateReport(): attempts that can show a finding at all. *)
Counts(a) == Finality(a) = "final" /\ a.outcome.status # "ended"

At(run, pair) == attempt[<<run, pair>>]

(* An unmet criterion is a finding of the page it is cited on, the defect  *)
(* one of the cart, where it is seen.                                      *)
Findings == {"unmet on cart", "defect"}

Shows(a, pair, finding) ==
  /\ Counts(a)
  /\ IF finding = "defect" THEN a.outcome.status = "target_failed"
     ELSE pair \in asksCriterion /\ a.outcome.check = "not_met" /\ a.outcome.cited = "cart"

Affected(run, finding) == {p \in Pairs : Shows(At(run, p), p, finding)}
-----------------------------------------------------------------------------
(* compareReports(). *)
Settled(a) == Counts(a) /\ a.outcome.cleanup = "closed"
Assisted(pair) == \E run \in Runs : At(run, pair).assisted

Eligible(finding) == IF finding = "defect" THEN Pairs ELSE Pairs \cap asksCriterion

(* An attempt of the rerun tests the repair when it was on the page of the *)
(* finding, with its criterion decided there, and confirms it when the     *)
(* criterion was met.                                                      *)
Tested(finding) ==
  {p \in Eligible(finding) :
     LET a == At("child", p) IN
     /\ Settled(a) /\ ~Assisted(p)
     /\ a.outcome.cited = "cart" \/ Shows(a, p, finding)
     /\ finding # "defect" => a.outcome.check # "unknown"}
Confirmed(finding) ==
  {p \in Tested(finding) : p \in asksCriterion /\ At("child", p).outcome.check = "met"}

(* Every eligible attempt has to confirm it.  Faulty variant: every one    *)
(* that has tested it so far.                                              *)
SoFar(finding) == Tested(finding)
EveryEligible(finding) == Eligible(finding)
MustConfirm(finding) == EveryEligible(finding)

FindingState(finding) ==
  IF Affected("parent", finding) \cup Affected("child", finding) = {} THEN "absent"
  ELSE IF Eligible(finding) = {} \/ (\E p \in Eligible(finding) : Assisted(p)) THEN "not_comparable"
  ELSE IF Affected("child", finding) # {}
  THEN IF Affected("parent", finding) # {} THEN "persists" ELSE "new"
  ELSE IF Confirmed(finding) = MustConfirm(finding) THEN "confirmed_fixed" ELSE "not_observed"
-----------------------------------------------------------------------------
(* The runs go on: an attempt is taken over, ends with or without a proof  *)
(* that its browser is gone, is lost with its worker, and is recovered.    *)
Change(a, from, to) == attempt[a] = from /\ attempt' = [attempt EXCEPT ![a] = to]

TakeOver(a) ==
  /\ attempt[a].launch = "running" /\ ~attempt[a].assisted
  /\ Change(a, attempt[a], [attempt[a] EXCEPT !.assisted = TRUE])
  /\ UNCHANGED asksCriterion

FinishAttempt(a, o) ==
  /\ attempt[a].launch = "running"
  /\ Change(a, attempt[a], [attempt[a] EXCEPT !.outcome = o,
       !.launch = IF o.cleanup = "closed" THEN "settled" ELSE "recovering"])
  /\ UNCHANGED asksCriterion

LoseWorker(a) ==
  /\ attempt[a].launch = "running"
  /\ Change(a, attempt[a], [attempt[a] EXCEPT !.launch = "recovering"])
  /\ UNCHANGED asksCriterion

(* An outcome that was stored is kept, otherwise the attempt has failed. *)
RecoverAttempt(a) ==
  /\ attempt[a].launch = "recovering"
  /\ Change(a, attempt[a], [attempt[a] EXCEPT !.launch = "settled",
       !.outcome = IF @ = NoOutcome THEN [@ EXCEPT !.status = "ended"] ELSE @])
  /\ UNCHANGED asksCriterion
-----------------------------------------------------------------------------
ComparisonInit ==
  /\ attempt = [a \in Runs \X Pairs |-> Fresh]
  /\ asksCriterion \in (SUBSET Pairs) \ {{}}

ComparisonNext ==
  \E a \in Runs \X Pairs :
    \/ TakeOver(a) \/ LoseWorker(a) \/ RecoverAttempt(a)
    \/ \E o \in Outcomes : FinishAttempt(a, o)

ComparisonSpec == ComparisonInit /\ [][ComparisonNext]_comparisonVars
-----------------------------------------------------------------------------
(* A fix that was confirmed is not taken back while the rerun goes on to   *)
(* settle, once the selected attempts of the parent are over: it was       *)
(* confirmed by outcomes that can no longer change (compareReports()).     *)
ParentsOver == \A p \in Pairs : At("parent", p).launch = "settled"
Fixed == {f \in Findings : FindingState(f) = "confirmed_fixed"}
FixIsFinal == [][ParentsOver => Fixed \subseteq Fixed']_comparisonVars
=============================================================================
