------------------------------- MODULE MCReflectors -------------------------------
(* Two modules of the far gateway and one it does not serve, two ports.     *)
EXTENDS ReflectorLinks

CONSTANTS a, b, c, nocall

(* Three troubles let a link be made, changed or taken down, and one of     *)
(* their datagrams be lost; D-Plus, whose log-in has more of them, has two. *)
TroubleBudget == [p \in Protocols |-> IF p = "DPLUS" THEN 2 ELSE 3]
===============================================================================
