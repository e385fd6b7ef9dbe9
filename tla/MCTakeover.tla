----------------------------- MODULE MCTakeover -----------------------------
(***************************************************************************)
(* A small instance of Takeover: one tab or two, given in the cfg.  A run  *)
(* that checks liveness cannot use the symmetry of the tabs.               *)
(***************************************************************************)
EXTENDS Takeover
=============================================================================
