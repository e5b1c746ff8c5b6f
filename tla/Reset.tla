-------------------------------- MODULE Reset --------------------------------
(* The reset after a session (scripts/demo-reset.mjs): wait for a replay in *)
(* flight, purge the nudge queue, restore the wire, wait for a person to    *)
(* promote a fresh release, clear the desk's records, replace its           *)
(* containers, and say "complete" when every row is at that release.        *)
(*                                                                          *)
(* A wait may run out whenever what it waits for is not there.  Nothing in  *)
(* the desk writes an approval any more (its route answers 409), so what    *)
(* the script waits for on eu-west is the row alone.                        *)
EXTENDS Fleet, FiniteSetsExt

CONSTANTS
  Replays,   \* replays queued before or while the reset looks for them
  MaxFaults  \* bound: calls that throw

\* Assumed wherever the constants get their values.
ResetAssumption == FleetAssumption /\ IsFiniteSet(Replays) /\ MaxFaults \in Nat

VARIABLES
  mode,      \* "full", "no-wait" or "dry-run": fixed
  pc,        \* the step the script is at, or how it ended
  start,     \* the generation it started from
  promoted,  \* the one it waited for, NaN when it did not come
  euWest,    \* eu-west's row was too old to wait for
  target,    \* the generation the fleet is to agree on
  wire,      \* of the eu-west host
  queuedAt,  \* of a replay: its place among the rows of the timeline, 0 when it has none
  doneAt,    \* the same, of its replay_done
  edge,      \* rows older than this are out of the script's window
  over,      \* history: no replay was being written when the records' turn came
  named,     \* history: what the pointer named when the script began its last look
  faults

replays == <<queuedAt, doneAt, edge>>
progress == <<start, promoted, euWest, target>>
history == <<over, named>>
vars == <<fleet, mode, pc, progress, wire, replays, history, faults>>

Steps == {"host", "environment", "replays", "replay", "purge", "wire", "instruct", "promotion", "nudge",
          "eu", "records", "epoch", "sync", "target", "look", "state"}
Ends == {"asleep", "unreadable", "dry", "no-wait", "complete", "incomplete", "threw"}
Rows == 0 .. 2 * Cardinality(Replays)

TypeOK ==
  /\ FleetTypeOK /\ mode \in {"full", "no-wait", "dry-run"} /\ pc \in Steps \cup Ends
  /\ {start, promoted, target} \subseteq Generations \cup {NaN} /\ euWest \in BOOLEAN
  /\ wire \in {"connected", "cut"}
  /\ queuedAt \in [Replays -> Rows] /\ doneAt \in [Replays -> Rows] /\ edge \in Rows
  /\ over \in {"unknown", "yes", "no", "gave up"} /\ named \in 0 .. MaxGeneration
  /\ faults \in 0 .. MaxFaults

Init ==
  /\ FleetInit /\ mode \in {"full", "no-wait", "dry-run"} /\ pc = "host"
  /\ start = NaN /\ promoted = NaN /\ euWest = FALSE /\ target = NaN
  /\ wire \in {"connected", "cut"}
  /\ queuedAt = [p \in Replays |-> 0] /\ doneAt = [p \in Replays |-> 0] /\ edge = 0
  /\ over = "unknown" /\ named = 0 /\ faults = 0

Fault == faults < MaxFaults /\ faults' = faults + 1

-----------------------------------------------------------------------------
(* 0 and 1: the host, and the generation every later wait must pass.       *)

\* Asleep, says the host's card, or awake or on its way.
host ==
  /\ pc = "host" /\ pc' \in {"asleep", "environment"}
  /\ UNCHANGED <<fleet, mode, progress, wire, replays, history, faults>>

environment ==
  /\ pc = "environment"
  /\ \E g \in 0 .. MaxGeneration :
       /\ currentGeneration(g) /\ start' = g
       /\ pc' = IF g = NaN THEN "unreadable" ELSE "replays"
  /\ UNCHANGED <<mode, promoted, euWest, target, wire, replays, history, faults>>

-----------------------------------------------------------------------------
(* 3b: a replay in flight.                                                 *)

Last == Max({0} \cup {queuedAt[p] : p \in Replays} \cup {doneAt[p] : p \in Replays})
InFlight == {p \in Replays : queuedAt[p] > 0 /\ doneAt[p] = 0}

\* The presenter's click and the job's last row.  The window moves with the time, and
\* is longer than a replay.
replay(p) ==
  /\ pc \in {"replays", "replay"}
  /\ \/ queuedAt[p] = 0 /\ queuedAt' = [queuedAt EXCEPT ![p] = Last + 1] /\ UNCHANGED <<doneAt, edge>>
     \/ p \in InFlight /\ doneAt' = [doneAt EXCEPT ![p] = Last + 1] /\ UNCHANGED <<queuedAt, edge>>
     \/ /\ pc # "replay" /\ edge' \in edge + 1 .. Last
        /\ \A q \in InFlight : queuedAt[q] > edge'
        /\ UNCHANGED <<queuedAt, doneAt>>
  /\ UNCHANGED <<fleet, mode, pc, progress, wire, history, faults>>

queued == {p \in Replays : queuedAt[p] > edge}
done == {p \in Replays : doneAt[p] > edge}
newestQueuedAt == Max({0} \cup {queuedAt[p] : p \in queued})
doneAfter == {p \in Replays : newestQueuedAt # 0 /\ doneAt[p] > newestQueuedAt}

\* The timeline is not looked at again.
GoOn(how) ==
  /\ pc' = "purge" /\ over' = (IF InFlight = {} THEN "yes" ELSE how)
  /\ LET none == [p \in Replays |-> 0] IN queuedAt' = none /\ doneAt' = none /\ edge' = 0

\* Two counts, and a done row after the newest queued one.
inFlight ==
  /\ pc = "replays"
  /\ IF Cardinality(queued) <= Cardinality(done) \/ doneAfter # {} THEN GoOn("no")
     ELSE IF mode = "dry-run" THEN GoOn("gave up")
     ELSE pc' = "replay" /\ UNCHANGED <<replays, over>>
  /\ UNCHANGED <<fleet, mode, progress, wire, named, faults>>

\* The wait: that done row, or five and a half minutes.
waitForReplay ==
  /\ pc = "replay" /\ GoOn(IF doneAfter # {} THEN "no" ELSE "gave up")
  /\ UNCHANGED <<fleet, mode, progress, wire, named, faults>>

-----------------------------------------------------------------------------
(* 4 to 7.                                                                 *)

\* Purged, or being purged; anything else SQS answers is thrown.
purge ==
  /\ pc = "purge"
  /\ \/ pc' = "wire" /\ UNCHANGED faults
     \/ pc' = "threw" /\ Fault /\ mode # "dry-run"
  /\ UNCHANGED <<fleet, mode, progress, wire, replays, history>>

restoreWire ==
  /\ pc = "wire" /\ pc' = "instruct"
  /\ wire' \in IF mode = "dry-run" THEN {wire} ELSE {wire, "connected"}
  /\ UNCHANGED <<fleet, mode, progress, replays, history, faults>>

\* The person is told what to promote.
instruct ==
  /\ pc = "instruct" /\ pc' = IF mode = "full" THEN "promotion" ELSE "records"
  /\ UNCHANGED <<fleet, mode, progress, wire, replays, history, faults>>

\* A look every ten seconds, for fifteen minutes.
waitForPromotion ==
  /\ pc = "promotion"
  /\ \E g \in 0 .. MaxGeneration :
       /\ currentGeneration(g)
       /\ \/ g > start /\ promoted' = g /\ pc' = "nudge"
          \/ g <= start /\ promoted' = NaN /\ pc' \in {"promotion", "records"}
  /\ UNCHANGED <<mode, start, euWest, target, wire, replays, history, faults>>

\* The nudge and the sync: hosts take the release by themselves, us-east now.
nudge ==
  /\ pc = "nudge" /\ pc' = "eu"
  /\ row' \in {row, [row EXCEPT !["east"] = published]}
  /\ UNCHANGED <<published, pointer, fresh, mode, progress, wire, replays, history, faults>>

\* eu-west's row is too old, at the release, or late.
approveOnEuWest ==
  /\ pc = "eu" /\ pc' = "records"
  /\ euWest' = ~ fresh["eu"]
  /\ UNCHANGED <<fleet, mode, start, promoted, target, wire, replays, history, faults>>

\* The records are cleared, or the script ends there; then new containers, each with an
\* empty store.
records ==
  /\ pc = "records"
  /\ \/ pc' = "epoch" /\ UNCHANGED faults
     \/ pc' = "incomplete" /\ Fault /\ mode # "dry-run"
  /\ UNCHANGED <<fleet, mode, progress, wire, replays, history>>

epoch ==
  /\ pc = "epoch"
  /\ \/ pc' = (IF mode = "dry-run" THEN "dry" ELSE "sync") /\ UNCHANGED faults
     \/ pc' = "threw" /\ Fault
  /\ UNCHANGED <<fleet, mode, progress, wire, replays, history>>

-----------------------------------------------------------------------------
(* 8: every row agrees.                                                    *)

sync ==
  /\ pc = "sync"
  /\ row' \in {row, [row EXCEPT !["east"] = published]}
  /\ pc' = IF mode = "no-wait" THEN "no-wait" ELSE IF promoted = NaN THEN "incomplete" ELSE "target"
  /\ UNCHANGED <<published, pointer, fresh, mode, progress, wire, replays, history, faults>>

\* Math.max: not a number, once one is not.
Newer(a, b) == IF NaN \in {a, b} THEN NaN ELSE Max({a, b})

firstTarget ==
  /\ pc = "target" /\ pc' = "look"
  /\ \E g \in 0 .. MaxGeneration : currentGeneration(g) /\ target' = Newer(promoted, g)
  /\ UNCHANGED <<mode, start, promoted, euWest, wire, replays, history, faults>>

\* Mutant: the first target stands.
retargetNever(g) == target' = target

\* "the newest generation the pointer names now".
retarget(g) == target' = Newer(target, g)

look ==
  /\ pc = "look" /\ pc' = "state"
  /\ \E g \in 0 .. MaxGeneration : currentGeneration(g) /\ retarget(g) /\ named' = IF g = pointer THEN g ELSE 0
  /\ UNCHANGED <<mode, start, promoted, euWest, wire, replays, over, faults>>

optional == IF euWest THEN {"airgap", "eu"} ELSE {"airgap"}

\* Every ten seconds, for seven minutes.
agreed ==
  /\ pc = "state"
  /\ IF fleetAgreement(target, optional) THEN pc' = "complete" ELSE pc' \in {"look", "incomplete"}
  /\ UNCHANGED <<fleet, mode, progress, wire, replays, history, faults>>

\* The steps that look at the fleet: what happens to it in between is seen at the next.
Looks == {"environment", "promotion", "eu", "target", "look", "state"}

Next ==
  \/ host \/ environment \/ inFlight \/ waitForReplay \/ purge \/ restoreWire \/ instruct
  \/ waitForPromotion \/ nudge \/ approveOnEuWest \/ records \/ epoch \/ sync \/ firstTarget
  \/ look \/ agreed
  \/ \E p \in Replays : replay(p)
  \/ pc \in Looks /\ Others /\ UNCHANGED <<mode, pc, progress, wire, replays, history, faults>>

Spec == Init /\ [][Next]_vars

-----------------------------------------------------------------------------
(* Properties.                                                             *)

\* "a person may have promoted more than once ..., and every host must reach the last of
\* them" (demo-reset.mjs:243): a reset that says "complete" has seen every row it may not
\* excuse at what the pointer named when it last looked, and past where it started.
EveryHostAtTheLast ==
  pc = "complete" =>
    /\ target >= named /\ target > start
    /\ \A h \in Hosts \ optional : row[h] >= target

\* "a done row from an earlier replay must not stand in for the one still writing"
\* (demo-reset.mjs:94), which it does: by the counts, when its queued row is out of the
\* window, and by coming after the newest queued one.
ReplaysAreOver == over # "no"
=============================================================================
