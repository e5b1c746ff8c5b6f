------------------------------ MODULE MCPuller ------------------------------
(* A tick and a nudge at once, and documents enough for one pass to overtake *)
(* another.                                                                  *)
EXTENDS Puller
=============================================================================
