------------------------------- MODULE MCWire -------------------------------
(* Two invocations at once and two failures: enough for a cut, the restore   *)
(* that races it and the tick that comes late.                               *)
EXTENDS Wire
=============================================================================
