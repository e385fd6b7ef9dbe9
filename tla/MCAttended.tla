----------------------------- MODULE MCAttended -----------------------------
(***************************************************************************)
(* Two views of one attended run, side by side: the control of its browser *)
(* (Takeover) and the loop of its persona (PersonaLoop).  They share no    *)
(* variables: a behaviour follows the one in focus, and the other stays as *)
(* it began.                                                               *)
(***************************************************************************)
EXTENDS Takeover, PersonaLoop

VARIABLE focus

attendedVars == <<vars, loopVars, focus>>

AttendedInit == focus \in {"control", "loop"} /\ Init /\ LoopInit

ControlStep == focus = "control" /\ Next /\ UNCHANGED <<loopVars, focus>>
PersonaStep == focus = "loop" /\ LoopNext /\ UNCHANGED <<vars, focus>>

AttendedSpec ==
  /\ AttendedInit
  /\ [][ControlStep \/ PersonaStep]_attendedVars
  /\ focus = "control" => Fairness
  /\ focus = "loop" => LoopFairness

AttendedControlReturns == focus = "control" => ControlReturns
AttendedLoopEnds == focus = "loop" => LoopEnds
=============================================================================
