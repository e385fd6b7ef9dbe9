--------------------------- MODULE MCReproduction ---------------------------
EXTENDS Reproduction
Three == <<1, 2, 3>>
(* The second browser may turn out to be the first one's session. *)
MayReuse(c) == IF c = 2 THEN {1, 2} ELSE {c}
=============================================================================
