------------------------------ MODULE PaidSlot ------------------------------
(***************************************************************************)
(* What the durable worker promises about paid browsers, without leases,   *)
(* retries or bookkeeping.  Every job owns at most one slot.  A slot is    *)
(* reserved before a browser may be asked for, at most one browser is ever *)
(* asked for per job, and the slot is given back only when that browser    *)
(* can no longer be running.                                               *)
(***************************************************************************)
EXTENDS Naturals, FiniteSets

CONSTANTS
  Jobs,               (* queued pieces of work                             *)
  GlobalConcurrency   (* slots that may be held at the same time           *)

VARIABLES
  slot,      (* Jobs -> "free" | "held" | "released"                       *)
  browser    (* Jobs -> "never" | "possible" | "gone"                      *)

vars == <<slot, browser>>

Held == {j \in Jobs : slot[j] = "held"}

Init ==
  /\ slot = [j \in Jobs |-> "free"]
  /\ browser = [j \in Jobs |-> "never"]

Reserve(j) ==
  /\ slot[j] = "free"
  /\ Cardinality(Held) < GlobalConcurrency
  /\ slot' = [slot EXCEPT ![j] = "held"]
  /\ UNCHANGED browser

(* The creation request leaves the worker: from here a browser may exist.  *)
Ask(j) ==
  /\ slot[j] = "held"
  /\ browser[j] = "never"
  /\ browser' = [browser EXCEPT ![j] = "possible"]
  /\ UNCHANGED slot

(* The provider rejected the request, or the browser reached a terminal    *)
(* status.                                                                 *)
Retire(j) ==
  /\ browser[j] = "possible"
  /\ browser' = [browser EXCEPT ![j] = "gone"]
  /\ UNCHANGED slot

Release(j) ==
  /\ slot[j] = "held"
  /\ browser[j] # "possible"
  /\ slot' = [slot EXCEPT ![j] = "released"]
  /\ UNCHANGED browser

Next == \E j \in Jobs : Reserve(j) \/ Ask(j) \/ Retire(j) \/ Release(j)

Spec == Init /\ [][Next]_vars
=============================================================================
