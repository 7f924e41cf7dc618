--------------------------- MODULE MCRepeaterTRX ---------------------------
(* The instance of DStarRepeater that TLC checks.                           *)
EXTENDS DStarRepeater

RunFrames == [kind \in Kinds |-> IF kind = "network" THEN 2 ELSE 1]
=============================================================================
