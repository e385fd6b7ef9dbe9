--------------------------- MODULE MCPersonaLoop ---------------------------
EXTENDS PersonaLoop
FairLoopSpec == LoopSpec /\ LoopFairness
=============================================================================
