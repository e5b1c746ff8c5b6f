------------------------------ MODULE Delivery ------------------------------
(* What the telemetry of a host without a route out is promised: every      *)
(* closed segment is in the end settled, once and for good, as delivered to *)
(* AirPrompter or as given up (refused by the platform, or expired in the   *)
(* bucket).  How often it is uploaded on the way is nobody's business here. *)
CONSTANTS Segments

VARIABLES
  closed,     \* segments the host has closed
  delivered,  \* settled as delivered
  givenUp     \* settled as given up

vars == <<closed, delivered, givenUp>>

Open == closed \ (delivered \cup givenUp)

Init == closed = {} /\ delivered = {} /\ givenUp = {}

Close == \E s \in Segments \ closed : closed' = closed \cup {s} /\ UNCHANGED <<delivered, givenUp>>

\* Segments settle together: those of one export.
Deliver ==
  /\ \E S \in SUBSET Open : S # {} /\ delivered' = delivered \cup S
  /\ UNCHANGED <<closed, givenUp>>

GiveUp ==
  /\ \E S \in SUBSET Open : S # {} /\ givenUp' = givenUp \cup S
  /\ UNCHANGED <<closed, delivered>>

Next == Close \/ Deliver \/ GiveUp

Spec == Init /\ [][Next]_vars /\ WF_vars(Deliver \/ GiveUp)
=============================================================================
