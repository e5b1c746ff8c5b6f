--------------------------- MODULE MCProviderSwitch -------------------------
(* Two containers, both doors.                                               *)
EXTENDS ProviderSwitch, TLC

\* Containers are alike, and so are the doors.
Symmetry == Permutations(Containers) \cup Permutations(Providers)
=============================================================================
