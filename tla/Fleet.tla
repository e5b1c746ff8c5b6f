-------------------------------- MODULE Fleet --------------------------------
(* What the drivers of a session (scripts/demo-reset.mjs, demo-dryrun.mjs)  *)
(* see of the fleet: the generation AirPrompter has published, the one its  *)
(* edge pointer names, and the hosts' status rows, each with the generation *)
(* it was written at.  A person promotes, the hosts follow when they do.    *)
(* Both drivers share lib/demo.mjs and lib/desk.mjs.                        *)
EXTENDS Naturals, FiniteSets

CONSTANTS
  Hosts,          \* rows: "east", "eu", and of "puller" and "airgap" what there is
  MaxGeneration   \* bound: releases, numbered as they are published

\* Assumed wherever the constants get their values.
FleetAssumption == {"east", "eu"} \subseteq Hosts /\ IsFiniteSet(Hosts) /\ MaxGeneration \in Nat \ {0}

VARIABLES
  published,  \* the newest release
  pointer,    \* what the edge pointer names: a cached document
  row,        \* the generation of a host's row
  fresh       \* the row is younger than fifteen minutes

fleet == <<published, pointer, row, fresh>>

Generations == 1 .. MaxGeneration

\* What Number() makes of nothing.
NaN == 0

FleetTypeOK ==
  /\ published \in Generations /\ pointer \in 1 .. published
  /\ row \in [Hosts -> 1 .. published] /\ fresh \in [Hosts -> BOOLEAN]

FleetInit ==
  /\ published = 1 /\ pointer = 1
  /\ row = [h \in Hosts |-> 1]
  /\ fresh \in [Hosts -> BOOLEAN] /\ \A h \in Hosts \ {"eu", "airgap"} : fresh[h]

\* A person's act in the console: a version, an experiment, a freeze, each is a generation.
Promote ==
  /\ published + 1 \in Generations /\ published' = published + 1
  /\ UNCHANGED <<pointer, row, fresh>>

\* The cached document is renewed.
Renew == pointer # published /\ pointer' = published /\ UNCHANGED <<published, row, fresh>>

\* A host activates the newest release and says so in its row.
Take(h) ==
  /\ row[h] < published
  /\ row' = [row EXCEPT ![h] = published]
  /\ fresh' = [fresh EXCEPT ![h] = TRUE]
  /\ UNCHANGED <<published, pointer>>

\* A host goes down, and its row grows old.
Fade(h) ==
  /\ h \in {"eu", "airgap"} /\ fresh[h] /\ fresh' = [fresh EXCEPT ![h] = FALSE]
  /\ UNCHANGED <<published, pointer, row>>

Others == Promote \/ Renew \/ \E h \in Hosts : Take(h) \/ Fade(h)

-----------------------------------------------------------------------------
(* What the drivers ask.                                                   *)

\* The pointer, if it can be read; otherwise what us-east serves after a sync, which
\* may fail to get the newest, or fail to answer.
currentGeneration(g) ==
  \/ g = pointer /\ UNCHANGED fleet
  \/ /\ g \in {published, row["east"], NaN}
     /\ row' = IF g = published THEN [row EXCEPT !["east"] = g] ELSE row
     /\ UNCHANGED <<published, pointer, fresh>>

\* Every row is at generation g, but for an optional one that is old.
fleetAgreement(g, optional) ==
  LET considered == {h \in Hosts : h \in optional => fresh[h]}
  IN considered # {} /\ \A h \in considered : row[h] = g
=============================================================================
