------------------------------- MODULE MCQueue ------------------------------
(* Two workers during a replacement, two tickets: entries of the same ticket *)
(* behind one another, a reset between two steps, one fault.                 *)
EXTENDS TicketQueue, TLC

\* The workers are alike.
Symmetry == Permutations(Workers)
=============================================================================
