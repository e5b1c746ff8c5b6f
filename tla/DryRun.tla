------------------------------- MODULE DryRun -------------------------------
(* The scripts that try the deployed system: the dry run of a session       *)
(* (scripts/demo-dryrun.mjs), ten beats, each a few claims about what the   *)
(* desk shows, acts of a person in the console that it waits for, and the   *)
(* drills it runs itself, the cut of the wire among them; and the proofs of *)
(* the desk, of the eu-west host and of the fleet (desk-proof.mjs,          *)
(* eu-host-proof.mjs, fleet-proof.mjs), whose flags add drills.             *)
(*                                                                          *)
(* A step is a "claim", which may fail; a "look", a bounded wait that       *)
(* becomes a claim; a "must", a claim without which the script ends; a      *)
(* "seen", a claim without which what depends on it is passed over; a       *)
(* "wait", which throws when it runs out; an "exact" wait, for a host to be *)
(* at the generation the script knows; or one with an action of its own     *)
(* below.  A wait may run out whenever what it waits for is not there.      *)
EXTENDS Fleet, Sequences

CONSTANT MaxFaults  \* bound: calls that throw

\* Assumed wherever the constants get their values.
DryRunAssumption == FleetAssumption /\ {"puller", "airgap"} \subseteq Hosts /\ MaxFaults \in Nat

VARIABLES
  program,  \* which script: fixed
  flags,    \* the command line's: fixed
  rest,     \* the steps to come, the present one first
  known,    \* the generation the next console act must pass, or the fleet be at
  failures, \* a claim failed
  wire,     \* of the eu-west host
  verdict,  \* "running", "ok", "failed", "timed out" or "threw"
  faults

run == <<program, flags>>
vars == <<fleet, run, rest, known, failures, wire, verdict, faults>>

\* "deployed" stands for the air-gapped stack, "cap" for a drill of the cap.
Flags ==
  [dryrun |-> {"skip-console-beats", "skip-wire", "airgap", "UNSAFE"},
   desk |-> {"expect-cap"},
   eu |-> {"approve", "enqueue", "cli", "wire"},
   fleet |-> {"deployed", "nudge", "airgap", "wait-generation", "import"}]

Step(kind) == [kind |-> kind, host |-> "none", over |-> 0]
claim == <<Step("claim")>>
look == <<Step("look")>>
must == <<Step("must")>>
wait == <<Step("wait")>>
sync == <<Step("sync")>>
now == <<Step("now")>>
exact(h) == <<[kind |-> "exact", host |-> h, over |-> 0]>>

\* The act, and what is done only once its effect was seen.
inConsole(what, then) == <<[kind |-> what, host |-> "none", over |-> Len(then)]>> \o then
newGeneration(then) == inConsole("generation", then)
seen(then) == inConsole("seen", then)
If(flag, f, steps) == IF flag \in f THEN steps ELSE <<>>

waitForEuWest == exact("eu")

\* The nudge is a claim; the air-gapped host's row is waited for when it is expected.
landEverywhere(f) ==
  sync \o claim \o waitForEuWest \o claim \o exact("puller") \o (IF "airgap" \in f THEN exact("airgap") ELSE <<>>)

Beat0 == wait \o claim
Beat1(f) == newGeneration(landEverywhere(f) \o claim) \o claim
Beat2 == claim
Beat3 == inConsole("freeze", claim \o look \o inConsole("freeze", claim \o look) \o claim)

\* The experiment, the second one, the dial and the winner, with a replay after each but
\* the last.
Beat4 ==
  now \o newGeneration(
    sync \o claim \o waitForEuWest \o claim \o wait \o look \o claim
    \o newGeneration(sync \o waitForEuWest \o wait \o claim)
    \o newGeneration(sync \o waitForEuWest \o wait \o claim)
    \o newGeneration(sync \o waitForEuWest \o claim))

\* The model drill on the hosts, the golden set, and a command on the host.
Beat5(f) ==
  claim
  \o (IF "UNSAFE" \in f THEN now \o newGeneration(sync \o claim \o look \o newGeneration(landEverywhere(f))) ELSE <<>>)
  \o now \o inConsole("golden", claim \o newGeneration(landEverywhere(f) \o claim))
  \o wait \o claim

Beat6 == claim

\* Mutant: the wait for eu-west to degrade is not caught.
Beat7Uncaught(f) ==
  IF "skip-wire" \in f THEN <<>>
  ELSE <<Step("cut")>> \o wait \o <<Step("restore")>> \o look

Beat7(f) ==
  IF "skip-wire" \in f THEN <<>>
  ELSE <<Step("cut")>> \o look \o <<Step("restore")>> \o look

Beat8 == claim
Beat9 == claim

Beats(f) ==
  Beat0 \o Beat1(f) \o Beat2 \o Beat3 \o Beat4 \o Beat5(f) \o Beat6 \o Beat7(f) \o Beat8 \o Beat9

\* The desk's: who has no token is refused; then the cap's drill, a run too many, or the
\* state, a seed, a run with its feedback, the rows after it and the metrics.
DeskRun == seen(claim \o claim)
DeskAfter == claim \o claim \o look
DeskProof(f) ==
  claim \o (IF "expect-cap" \in f THEN claim \o look ELSE must \o claim \o claim \o DeskRun \o DeskAfter)

\* eu-west's: without a row there is nothing to prove; the CLI answers on the host; and the
\* drills.  A ticket that was not run has no record to look at.
EuRow == must \o claim
EuCli == claim \o claim
EuApprove(f) == If("approve", f, <<Step("throw")>>)
EuEnqueue(f) == If("enqueue", f, claim \o seen(claim \o look))
EuCommand(f) == If("cli", f, claim)
EuWire(f) == If("wire", f, <<Step("cut")>> \o look \o <<Step("restore")>> \o look)
EuProof(f) == EuRow \o EuCli \o EuApprove(f) \o EuEnqueue(f) \o EuCommand(f) \o EuWire(f)

\* The fleet's: the puller by its row, the datastore and its log; a nudge, the air-gapped
\* host from outside and within, a generation's way to both, the exports.
FleetPuller == must \o seen(claim)
FleetNudge(f) == If("nudge", f, claim \o look \o claim)
FleetAirgap(f) == If("airgap", f, claim \o seen(claim) \o If("deployed", f, claim \o claim))
FleetReach(f) == If("wait-generation", f, <<Step("reach")>>)
FleetImport(f) == If("import", f, claim)
FleetProof(f) == FleetPuller \o FleetNudge(f) \o FleetAirgap(f) \o FleetReach(f) \o FleetImport(f)

Script(p, f) ==
  CASE p = "dryrun" -> Beats(f) [] p = "desk" -> DeskProof(f) [] p = "eu" -> EuProof(f) [] p = "fleet" -> FleetProof(f)

TypeOK ==
  /\ FleetTypeOK /\ program \in DOMAIN Flags /\ flags \subseteq Flags[program] /\ Len(rest) <= Len(Script(program, flags))
  /\ known \in Generations \cup {NaN} /\ failures \in BOOLEAN
  /\ wire \in {"connected", "cut"} /\ verdict \in {"running", "ok", "failed", "timed out", "threw"}
  /\ faults \in 0 .. MaxFaults

Init ==
  /\ FleetInit /\ (\A h \in Hosts : fresh[h])
  /\ program \in DOMAIN Flags /\ flags \in SUBSET Flags[program] /\ rest = Script(program, flags) /\ known = 1 /\ failures = FALSE
  /\ wire = "connected" /\ verdict = "running" /\ faults = 0

-----------------------------------------------------------------------------
(* The steps.                                                              *)

Is(kind) == verdict = "running" /\ rest # <<>> /\ Head(rest).kind = kind
GoOn == rest' = Tail(rest) /\ UNCHANGED verdict
TimeOut == verdict' = "timed out" /\ UNCHANGED rest

check ==
  /\ Is("claim") \/ Is("look")
  /\ GoOn /\ failures' \in {failures, TRUE}
  /\ UNCHANGED <<fleet, run, known, wire, faults>>

\* What the script has no use without.
require ==
  /\ Is("must")
  /\ \/ GoOn /\ UNCHANGED failures
     \/ verdict' = "failed" /\ failures' = TRUE /\ UNCHANGED rest
  /\ UNCHANGED <<fleet, run, known, wire, faults>>

refuse == Is("throw") /\ verdict' = "threw" /\ UNCHANGED <<fleet, run, rest, known, failures, wire, faults>>

waitFor ==
  /\ Is("wait") /\ (GoOn \/ TimeOut)
  /\ UNCHANGED <<fleet, run, known, failures, wire, faults>>

\* The rows may pass the generation by, and the wait is over only at its time.
waitForRow ==
  /\ Is("exact") /\ (IF row[Head(rest).host] = known THEN GoOn ELSE TimeOut)
  /\ UNCHANGED <<fleet, run, known, failures, wire, faults>>

\* us-east serves the newest after a sync, unless the sync fails.
syncEast ==
  /\ Is("sync") /\ GoOn
  /\ row' \in {row, [row EXCEPT !["east"] = published]}
  /\ UNCHANGED <<published, pointer, fresh, run, known, failures, wire, faults>>

readNow ==
  /\ Is("now") /\ GoOn
  /\ \E g \in 0 .. MaxGeneration : currentGeneration(g) /\ known' = g
  /\ UNCHANGED <<run, failures, wire, faults>>

\* "Null when skipped or not seen in time — the latter a failed claim": what depends on
\* the act is passed over.
passOver(failed) == rest' = SubSeq(rest, 2 + Head(rest).over, Len(rest)) /\ failures' = failed /\ UNCHANGED <<known, verdict>>

observe ==
  /\ Is("seen")
  /\ \/ GoOn /\ UNCHANGED <<known, failures>>
     \/ passOver(TRUE)
  /\ UNCHANGED <<fleet, run, wire, faults>>

\* Both rows are looked at until each was at the generation, or past it, and not for longer
\* than fifteen minutes.
reach ==
  LET target == MaxGeneration
      sought == {"puller"} \cup {h \in {"airgap"} : "deployed" \in flags}
  IN  /\ Is("reach") /\ GoOn
      /\ IF \A h \in sought : row[h] >= target THEN UNCHANGED failures ELSE failures' = TRUE
      /\ UNCHANGED <<fleet, run, known, wire, faults>>

Skipped == "skip-console-beats" \in flags

\* Nothing is newer than what is not a number.
observeGeneration ==
  /\ Is("generation")
  /\ IF Skipped THEN passOver(failures) /\ UNCHANGED fleet
     ELSE \E g \in 0 .. MaxGeneration :
            /\ currentGeneration(g)
            /\ IF known # NaN /\ g > known THEN known' = g /\ GoOn /\ UNCHANGED failures
               ELSE passOver(TRUE)
  /\ UNCHANGED <<run, wire, faults>>

\* A freeze and its end, as us-east reports them after a sync.
observeFreeze ==
  /\ Is("freeze")
  /\ IF Skipped THEN passOver(failures) /\ UNCHANGED fleet
     ELSE /\ row' \in {row, [row EXCEPT !["east"] = published]} /\ UNCHANGED <<published, pointer, fresh>>
          /\ \/ GoOn /\ UNCHANGED <<known, failures>>
             \/ passOver(TRUE)
  /\ UNCHANGED <<run, wire, faults>>

\* The release us-east serves or holds back, once it is newer.
observeGolden ==
  /\ Is("golden")
  /\ IF Skipped THEN passOver(failures) /\ UNCHANGED fleet
     ELSE /\ row' \in {row, [row EXCEPT !["east"] = published]} /\ UNCHANGED <<published, pointer, fresh>>
          /\ IF known # NaN /\ published > known THEN known' = published /\ GoOn /\ UNCHANGED failures
             ELSE passOver(TRUE)
  /\ UNCHANGED <<run, wire, faults>>

\* The call answers, or refuses, which is a failed claim.
cut_wire ==
  /\ Is("cut") /\ GoOn
  /\ \/ wire' = "cut" /\ UNCHANGED failures
     \/ UNCHANGED wire /\ failures' = TRUE
  /\ UNCHANGED <<fleet, run, known, faults>>

restore_wire ==
  /\ Is("restore") /\ GoOn
  /\ \/ wire' = "connected" /\ UNCHANGED failures
     \/ UNCHANGED wire /\ failures' = TRUE
  /\ UNCHANGED <<fleet, run, known, faults>>

\* A call that does not answer ends the script where it is.
Throw ==
  /\ verdict = "running" /\ verdict' = "threw"
  /\ faults < MaxFaults /\ faults' = faults + 1
  /\ UNCHANGED <<fleet, run, rest, known, failures, wire>>

summary ==
  /\ verdict = "running" /\ rest = <<>>
  /\ verdict' = (IF failures THEN "failed" ELSE "ok")
  /\ UNCHANGED <<fleet, run, rest, known, failures, wire, faults>>

\* The person acts, and may act again, and the hosts follow, while the script waits for
\* either: in between it looks at neither.
World ==
  /\ \/ (Is("generation") \/ Is("golden")) /\ ~ Skipped /\ (Promote \/ Renew \/ \E h \in Hosts \ {"east"} : Take(h))
     \/ Is("reach") /\ (Promote \/ Take("puller") \/ Take("airgap"))
     \/ Is("exact") /\ (Promote \/ Take(Head(rest).host))
  /\ UNCHANGED <<run, rest, known, failures, wire, verdict, faults>>

Next ==
  \/ check \/ require \/ refuse \/ waitFor \/ waitForRow \/ observe \/ reach \/ syncEast \/ readNow \/ observeGeneration \/ observeFreeze
  \/ observeGolden \/ cut_wire \/ restore_wire \/ Throw \/ summary \/ World

Spec == Init /\ [][Next]_vars

-----------------------------------------------------------------------------
(* Properties.                                                             *)

\* What a script cuts it gives back: whatever its waits come to, it ends with the wire
\* connected, unless the restore was refused, a failed claim, or a call threw
\* (demo-dryrun.mjs:391-396: every wait of the drill is caught, those before it are not;
\* eu-host-proof.mjs:176-200: its waits run out and it goes on).
WireGivenBack == verdict \in {"ok", "timed out"} => wire = "connected"
=============================================================================
