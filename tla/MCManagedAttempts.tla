------------------------- MODULE MCManagedAttempts -------------------------
(***************************************************************************)
(* Small instances of ManagedAttempts.  Attempts are numbers because       *)
(* claims scan them in rowid order.                                        *)
(***************************************************************************)
EXTENDS ManagedAttempts

CONSTANTS r1, r2, o1, o2

RunPerAttempt == [a \in Attempts |-> IF a = 1 THEN r1 ELSE r2]
OneOwner == [r \in Runs |-> o1]
=============================================================================
