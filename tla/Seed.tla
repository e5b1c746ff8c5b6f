-------------------------------- MODULE Seed --------------------------------
(* The seed of a developer's prompt registry (scripts/prompts-seed.mjs,     *)
(* lib/seed.mjs): the promoted release is pulled and planned, and then      *)
(* written over what the directory holds, file by file.  A write may fail   *)
(* part-way, the process may be stopped, and the seed is run again, for     *)
(* the same release or a later one.                                         *)
EXTENDS Naturals, FiniteSets

CONSTANTS
  Slots,        \* prompt slots; a golden set is written as a file of its own and is one too
  MaxReleases,  \* bound: releases
  MaxFaults     \* bound: runs that fail part-way

\* Assumed wherever the constants get their values.
SeedAssumption == IsFiniteSet(Slots) /\ Slots # {} /\ MaxReleases \in Nat \ {0} /\ MaxFaults \in Nat

VARIABLES
  release,  \* of AirPrompter: its number, and the slots it names
  file,     \* a slot's file: the release it is of, NoFile, or Torn
  json,     \* release.json, likewise
  keep,     \* .gitkeep is there
  foreign,  \* a file is there that no registry holds
  pc,       \* of the run, "idle" outside one
  plan,     \* the release it writes
  written,  \* the slots it has written
  before,   \* the files it found
  faults

vars == <<release, file, json, keep, foreign, pc, plan, written, before, faults>>

NoFile == 0
Torn == MaxReleases + 1
Contents == 0 .. Torn
Releases == [n : 1 .. MaxReleases, slots : SUBSET Slots]

TypeOK ==
  /\ release \in Releases /\ file \in [Slots -> Contents] /\ json \in Contents
  /\ keep \in BOOLEAN /\ foreign \in BOOLEAN
  /\ pc \in {"idle", "check", "write", "release", "stale", "done"}
  /\ plan \in Releases /\ written \subseteq Slots /\ before \in [Slots -> Contents] /\ faults \in 0 .. MaxFaults

\* A directory that is not there yet is an empty one.
Init ==
  /\ release \in {r \in Releases : r.n = 1}
  /\ file = [s \in Slots |-> NoFile] /\ json = NoFile /\ keep \in BOOLEAN /\ foreign = FALSE
  /\ pc = "idle" /\ plan = release /\ written = {} /\ before = file /\ faults = 0

-----------------------------------------------------------------------------
(* What others do.                                                         *)

Promote ==
  /\ release.n < MaxReleases
  /\ release' \in {r \in Releases : r.n = release.n + 1}
  /\ UNCHANGED <<file, json, keep, foreign, pc, plan, written, before, faults>>

\* Somebody leaves a README.md in the directory, or takes it out.
Person ==
  /\ foreign' = ~ foreign
  /\ UNCHANGED <<release, file, json, keep, pc, plan, written, before, faults>>

-----------------------------------------------------------------------------
(* The seed.                                                               *)

\* A pull that gives no bundle, or a plan that cannot be made of it, ends the run here.
\* A release that names no prompt slot gives no plan.
planSeed ==
  /\ pc = "idle" /\ release.slots # {}
  /\ pc' = "check" /\ plan' = release /\ written' = {} /\ before' = file
  /\ UNCHANGED <<release, file, json, keep, foreign, faults>>

Whole(content) == content \in 1 .. MaxReleases

\* A torn release.json is nobody's marker.
marked == keep \/ Whole(json)
entries == (\E s \in Slots : file[s] # NoFile) \/ json # NoFile \/ foreign

\* Mutant: what the directory holds goes first.
writeSeedAfterRemoval ==
  /\ pc = "check"
  /\ IF (entries /\ ~ marked) \/ foreign
     THEN pc' = "idle" /\ UNCHANGED file ELSE pc' = "write" /\ file' = [s \in Slots |-> NoFile]
  /\ UNCHANGED <<release, json, keep, foreign, plan, written, before, faults>>

\* Only a registry is replaced, and only one that holds nothing else.
writeSeed ==
  /\ pc = "check"
  /\ IF (entries /\ ~ marked) \/ foreign
     THEN pc' = "idle" ELSE pc' = "write"
  /\ UNCHANGED <<release, file, json, keep, foreign, plan, written, before, faults>>

\* A write that fails leaves the file torn, as it may when the process is stopped.
Fault == faults < MaxFaults /\ faults' = faults + 1 /\ pc' = "idle"

\* The manifest's order is anybody's.
writeFile ==
  /\ pc = "write"
  /\ \E s \in plan.slots \ written :
       \/ /\ file' = [file EXCEPT ![s] = plan.n] /\ written' = written \cup {s}
          /\ pc' = (IF written' = plan.slots THEN "release" ELSE "write") /\ UNCHANGED faults
       \/ file' = [file EXCEPT ![s] = Torn] /\ written' = written \cup {s} /\ Fault
  /\ UNCHANGED <<release, json, keep, foreign, plan, before>>

writeRelease ==
  /\ pc = "release"
  /\ \/ json' = plan.n /\ pc' = "stale" /\ UNCHANGED faults
     \/ json' = Torn /\ Fault
  /\ UNCHANGED <<release, file, keep, foreign, plan, written, before>>

\* What the run did not write goes, whatever it is.
stale == {s \in Slots \ written : file[s] # NoFile}

removeStale ==
  /\ pc = "stale"
  /\ \/ \E s \in stale : file' = [file EXCEPT ![s] = NoFile] /\ UNCHANGED <<foreign, pc>>
     \/ foreign /\ foreign' = FALSE /\ UNCHANGED <<file, pc>>
     \/ stale = {} /\ ~ foreign /\ pc' = "done" /\ UNCHANGED <<file, foreign>>
  /\ UNCHANGED <<release, json, keep, plan, written, before, faults>>

Stop ==
  /\ pc \in {"write", "release", "stale"} /\ Fault
  /\ UNCHANGED <<release, file, json, keep, foreign, plan, written, before>>

Exit ==
  /\ pc = "done" /\ pc' = "idle"
  /\ UNCHANGED <<release, file, json, keep, foreign, plan, written, before, faults>>

Next ==
  \/ Promote \/ Person \/ planSeed \/ writeSeed \/ writeFile \/ writeRelease \/ removeStale \/ Stop \/ Exit

Spec == Init /\ [][Next]_vars
-----------------------------------------------------------------------------
(* Properties.                                                             *)

\* "A failure part-way leaves old and new side by side, never neither" (lib/seed.mjs:16): but
\* for the one file it was writing, the directory holds every slot that the run found whole,
\* or every slot of the release it writes; and a run that ends well leaves that release and
\* nothing else.
NeverNeither ==
  /\ \E broken \in {{}} \cup {{s} : s \in Slots} :
       \/ \A s \in Slots \ broken : Whole(before[s]) => Whole(file[s])
       \/ \A s \in plan.slots : file[s] = plan.n
  /\ pc = "done" =>
       /\ \A s \in Slots : file[s] = IF s \in plan.slots THEN plan.n ELSE NoFile
       /\ json = plan.n
=============================================================================
