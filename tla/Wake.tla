-------------------------------- MODULE Wake --------------------------------
(* `npm run host:wake -- --wait` (scripts/power.mjs): the power function    *)
(* starts the eu-west host or says that it runs, and the script reads the   *)
(* host's status row until both workers have written it since.  One row has *)
(* two writers: the Node worker with its own fields and the row's time, the *)
(* Python worker with a part and a time of its own.                         *)
(*                                                                          *)
(* Time is the number of starts, boots and stops there have been.  The      *)
(* power function itself is in Power: here it reads and writes the marker   *)
(* in one step.  A stop and a start between two of its looks, which only    *)
(* EC2's console can do, are left out.                                      *)
EXTENDS Naturals

CONSTANT MaxTime  \* bound: starts, boots and stops

\* Assumed wherever the constants get their values.
WakeAssumption == MaxTime \in Nat /\ MaxTime >= 2

Workers == {"node", "python"}

VARIABLES
  time,
  ec2,       \* the instance: "stopped", "pending", "running" or "stopping"
  marker,    \* the row's power marker: EC2's state as last seen, and since when
  attached,  \* the workers whose SDK serves a release
  up,        \* the workers that run
  row,       \* of a worker's part of the row: when it was written, and if attached
  pc,        \* of the script: "wake", "wait", or what it said
  since,     \* the instant it waits for a row past
  started,   \* history: the last start
  asked      \* history: the last start when the script was answered

host == <<time, ec2, marker, started>>
script == <<pc, since, asked>>
vars == <<host, attached, up, row, script>>

Times == 0 .. MaxTime

TypeOK ==
  /\ time \in Times /\ started \in Times /\ since \in Times /\ asked \in Times
  /\ ec2 \in {"stopped", "pending", "running", "stopping"}
  /\ marker \in [state : {"stopped", "pending", "running", "stopping"}, since : Times]
  /\ attached \subseteq up /\ up \subseteq Workers
  /\ row \in [Workers -> [writtenAt : Times, attached : BOOLEAN]]
  /\ pc \in {"wake", "wait", "refused", "awake", "threw"}

\* The host ran, and both workers wrote, before; it may be asleep by now.
Init ==
  /\ time = 2 /\ ec2 \in {"stopped", "running"}
  /\ marker = [state |-> ec2, since |-> IF ec2 = "stopped" THEN 2 ELSE 0]
  /\ up = {} /\ attached = {}
  /\ row = [w \in Workers |-> [writtenAt |-> 1, attached |-> TRUE]]
  /\ pc = "wake" /\ since = 0 /\ started = 0 /\ asked = 0

Passes == time < MaxTime /\ time' = time + 1

-----------------------------------------------------------------------------
(* The host, and everybody else who acts on it.                            *)

Begin == ec2' = "pending" /\ Passes /\ started' = time + 1

\* In EC2's console: the marker is for the next look of the power function.
StartOutside ==
  /\ ec2 = "stopped" /\ marker.state = "stopped" /\ Begin
  /\ UNCHANGED <<marker, attached, up, row, script>>

\* The host boots, and the units of the workers start.
Boot ==
  /\ ec2 = "pending" /\ ec2' = "running" /\ Passes
  /\ UNCHANGED <<marker, started, attached, up, row, script>>

\* A tick: what EC2 says, kept apart from the act's own marker.
reconciledMarker ==
  LET continues == [stopping |-> "stopped", pending |-> "running"] IN
  IF marker.state = ec2 THEN marker
  ELSE [state |-> ec2,
        since |-> IF marker.state \in DOMAIN continues /\ continues[marker.state] = ec2 THEN marker.since
                  ELSE IF ec2 = "running" THEN started ELSE time]

Look ==
  /\ marker # reconciledMarker /\ marker' = reconciledMarker
  /\ UNCHANGED <<time, ec2, started, attached, up, row, script>>

Tick == Look

\* A poll of the desk has the function look, when the marker is in transition.
needsReconcile == marker.state \in {"stopping", "pending"}
state == needsReconcile /\ Look

Sleep ==
  /\ ec2 = "running" /\ ec2' = "stopping" /\ Passes
  /\ marker' = [state |-> "stopping", since |-> time + 1]
  /\ UNCHANGED <<started, attached, up, row, script>>

Stopped ==
  /\ ec2 = "stopping" /\ ec2' = "stopped" /\ up' = {} /\ attached' = {}
  /\ UNCHANGED <<time, marker, started, row, script>>

\* The unit starts the process, or restarts it.
worker(w) ==
  /\ ec2 = "running" /\ w \notin up /\ up' = up \cup {w}
  /\ UNCHANGED <<host, attached, row, script>>

Crash(w) ==
  /\ w \in up /\ up' = up \ {w} /\ attached' = attached \ {w}
  /\ UNCHANGED <<host, row, script>>

\* Every five seconds, until the SDK has a verified release.
attach(w) ==
  /\ w \in up \ attached /\ attached' = attached \cup {w}
  /\ UNCHANGED <<host, up, row, script>>

\* Every thirty seconds: the Node worker from its start, the Python worker once attached.
writeStatus(w) ==
  /\ w \in (IF w = "node" THEN up ELSE attached)
  /\ row' = [row EXCEPT ![w] = [writtenAt |-> time, attached |-> w \in attached]]
  /\ UNCHANGED <<host, attached, up, script>>

-----------------------------------------------------------------------------
(* The desk's card, and the script.                                        *)

\* Mutant: what runs is awake.
powerViewOfMarker == [stopping |-> "going to sleep", stopped |-> "asleep", pending |-> "waking", running |-> "awake"][marker.state]

\* What the card says of the host, by the marker and the row's own time.
powerView ==
  [stopping |-> "going to sleep", stopped |-> "asleep", pending |-> "waking",
   running |-> IF row["node"].writtenAt > marker.since THEN "awake" ELSE "started"][marker.state]

Answered(m) == pc' = "wait" /\ since' = m.since /\ asked' = started'

\* The power function looks first, and starts what is stopped; what runs is answered with
\* the marker that stands.
wake ==
  /\ pc = "wake"
  /\ \/ /\ ec2 = "stopped" /\ Begin
        /\ marker' = [state |-> "pending", since |-> time + 1] /\ Answered(marker')
     \/ /\ ec2 \in {"pending", "running"} /\ UNCHANGED <<time, ec2, started>>
        /\ marker' = reconciledMarker /\ Answered(marker')
     \/ /\ ec2 = "stopping" /\ UNCHANGED <<time, ec2, started>>
        /\ marker' = reconciledMarker /\ pc' = "refused" /\ UNCHANGED <<since, asked>>
  /\ UNCHANGED <<attached, up, row>>

\* Mutant: whatever the Python worker last wrote.
reportedEver(w) == row[w].attached /\ (w = "node" => row[w].writtenAt > since)

\* The row is newer, and says attached.
reported(w) == row[w].attached /\ row[w].writtenAt > since

\* Every ten seconds for eight minutes.
waitAwake ==
  /\ pc = "wait"
  /\ IF \A w \in Workers : reported(w) THEN pc' = "awake" ELSE pc' = "threw"
  /\ UNCHANGED <<host, attached, up, row, since, asked>>

Next ==
  \/ pc \in {"wake", "wait"}
     /\ (StartOutside \/ Boot \/ Tick \/ state \/ Sleep \/ Stopped
         \/ \E w \in Workers : worker(w) \/ Crash(w) \/ attach(w) \/ writeStatus(w))
  \/ wake \/ waitAwake

Spec == Init /\ [][Next]_vars

-----------------------------------------------------------------------------
(* Properties.                                                             *)

\* "returns when the eu-west row is fresh and both workers report" (power.mjs:15): "awake"
\* is said when both workers attached and wrote after the start the script asked for, or
\* the one that was under way when it asked.
AwakeMeansBoth ==
  pc = "awake" => \A w \in Workers : row[w].attached /\ row[w].writtenAt > asked

\* "awake once the workers have written a row since the start began" (hostPower.ts:79): the
\* card of a host that runs says so only if its Node worker wrote after the last start, whoever
\* started it; one that sleeps and was seen asleep never does.
CardTellsTheHost ==
  marker.state = ec2 => (powerView = "awake" => ec2 = "running" /\ row["node"].writtenAt > started)

AwakeIsTold == AwakeMeansBoth /\ CardTellsTheHost
=============================================================================
