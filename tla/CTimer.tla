-------------------------------- MODULE CTimer --------------------------------
(***************************************************************************)
(* The millisecond counter every handler uses (Common/Timer.h).  A timer   *)
(* is the value of m_timer; the timeout is passed in.  Time is counted in  *)
(* abstract ticks.  Tick saturates at the timeout, where the code goes on  *)
(* counting: the two are told apart by no operation except the wrap of the *)
(* 32-bit counter after 49 days, which is left out.                        *)
(***************************************************************************)
EXTENDS Naturals

Stopped == 0
Started == 1

IsRunning(t) == t > 0

HasExpired(t, timeout) == t >= timeout /\ t > 0

Tick(t, timeout) == IF IsRunning(t) /\ t < timeout THEN t + 1 ELSE t
===============================================================================
