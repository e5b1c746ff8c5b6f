-------------------------------- MODULE MCRuns ------------------------------
(* Two requests at once, a cap that one replay can exhaust, one midnight.    *)
EXTENDS Runs, TLC

\* Requests are alike.
Symmetry == Permutations(Requests)
=============================================================================
