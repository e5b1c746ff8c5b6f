------------------------------- MODULE MCParts -------------------------------
(* The smaller parts of the system, one in each behaviour: `part` says      *)
(* which.  They share no state, and take turns on the same variables, s1 to *)
(* s17; the modules name them, in the order of their WITH.                  *)
EXTENDS Integers, Sequences, FiniteSets

CONSTANTS
  LIFE, SLACK, POLL, IDLE, DEMO, FIRST, MaxRun,  \* Cadence
  MaxTexts, MaxChunk,                            \* Walk
  MaxTime,                                       \* Wake
  ResetHosts, DryRunHosts, MaxGeneration, Replays,  \* Reset and DryRun
  WEEK, LONG, MaxPages,                          \* Costs
  Containers, MaxKey,                            \* Keys
  Callable, MaxSteps,                            \* Steps
  Prompts, MaxReleases,                          \* Seed
  Reads, Acts, Slots, RETRIES,                   \* Session
  ArmsHosts, CUSTOMERS, MaxRuns, MaxFeedback,    \* Arms
  MaxFaults

VARIABLES part, s1, s2, s3, s4, s5, s6, s7, s8, s9, s10, s11, s12, s13, s14, s15, s16, s17

\* Three months of a few days; every sum of days tells which days they were.
Year == <<1, 5, 8, 11>>
ChargeOf == [d \in 1 .. 10 |-> [fixed |-> 2 ^ d, variable |-> d % 3, tax |-> 2 ^ (d % 4)]]

C == INSTANCE Cadence WITH
  reader <- s1, lag <- s2, parameter <- s3, mode <- s4, cached <- s5, asked <- s6, poll <- s7,
  next <- s8, busy <- s9, since <- s10, age <- s11, unread <- s12
L == INSTANCE Walk WITH
  script <- s1, step <- s2, shown <- s3, waiting <- s4, line <- s5, notes <- s6, from <- s7,
  generation <- s8, promoted <- s9, typed <- s10
W == INSTANCE Wake WITH
  time <- s1, ec2 <- s2, marker <- s3, attached <- s4, up <- s5, row <- s6, pc <- s7, since <- s8,
  started <- s9, asked <- s10
S == INSTANCE Stacks WITH
  stacks <- s1, ci <- s2, command <- s3, rest <- s4, bucket <- s5, tools <- s6, host <- s7, key <- s8
R == INSTANCE Reset WITH Hosts <- ResetHosts,
  published <- s1, pointer <- s2, row <- s3, fresh <- s4, mode <- s5, pc <- s6, start <- s7,
  promoted <- s8, euWest <- s9, target <- s10, wire <- s11, queuedAt <- s12, doneAt <- s13,
  edge <- s14, over <- s15, named <- s16, faults <- s17
D == INSTANCE DryRun WITH Hosts <- DryRunHosts,
  published <- s1, pointer <- s2, row <- s3, fresh <- s4, program <- s5, flags <- s6, rest <- s7,
  known <- s8, failures <- s9, wire <- s10, verdict <- s11, faults <- s12
M == INSTANCE Costs WITH MonthStart <- Year, Charge <- ChargeOf,
  pc <- s1, ask <- s2, query <- s3, faults <- s4, document <- s5
K == INSTANCE Keys WITH
  route <- s1, parameter <- s2, live <- s3, rotation <- s4, key <- s5, client <- s6, old <- s7,
  call <- s8, record <- s9, failed <- s10, faults <- s11
T == INSTANCE Session WITH
  page <- s1, tokens <- s2, pkce <- s3, call <- s4, activeReads <- s5, waitingReads <- s6

N == INSTANCE Steps WITH MaxGeneration <- MaxReleases,
  runtime <- s1, generation <- s2, made <- s3, kind <- s4, pc <- s5, plan <- s6, step <- s7,
  answer <- s8, calls <- s9, late <- s10, captured <- s11, last <- s12, steps <- s13, record <- s14,
  row <- s15, feedback <- s16
P == INSTANCE Seed WITH Slots <- Prompts,
  release <- s1, file <- s2, json <- s3, keep <- s4, foreign <- s5, pc <- s6, plan <- s7,
  written <- s8, before <- s9, faults <- s10
A == INSTANCE Arms WITH Hosts <- ArmsHosts, MaxGeneration <- MaxReleases,
  dial <- s1, serves <- s2, runs <- s3, feedback <- s4, strays <- s5

ASSUME ConstantsAssumption ==
  /\ C!CadenceAssumption /\ L!WalkAssumption /\ W!WakeAssumption /\ R!ResetAssumption
  /\ D!DryRunAssumption /\ M!CostsAssumption /\ K!KeysAssumption /\ T!SessionAssumption
  /\ N!StepsAssumption /\ P!SeedAssumption /\ A!ArmsAssumption

\* Of a part with n variables, the ones it leaves alone.
After16 == <<s17>>
After12 == <<s13, s14, s15, s16, After16>>
After11 == <<s12, After12>>
After10 == <<s11, After11>>
After8 == <<s9, s10, After10>>
After6 == <<s7, s8, After8>>
After5 == <<s6, After6>>

Unused16 == s17 = 0
Unused12 == s13 = 0 /\ s14 = 0 /\ s15 = 0 /\ s16 = 0 /\ Unused16
Unused11 == s12 = 0 /\ Unused12
Unused10 == s11 = 0 /\ Unused11
Unused8 == s9 = 0 /\ s10 = 0 /\ Unused10
Unused6 == s7 = 0 /\ s8 = 0 /\ Unused8
Unused5 == s6 = 0 /\ Unused6

Init ==
  \/ part = "cadence" /\ C!Init /\ Unused12
  \/ part = "walk" /\ L!Init /\ Unused10
  \/ part = "wake" /\ W!Init /\ Unused10
  \/ part = "stacks" /\ S!Init /\ Unused8
  \/ part = "reset" /\ R!Init
  \/ part = "dryrun" /\ D!Init /\ Unused12
  \/ part = "costs" /\ M!Init /\ Unused5
  \/ part = "keys" /\ K!Init /\ Unused11
  \/ part = "session" /\ T!Init /\ Unused6
  \/ part = "steps" /\ N!Init /\ Unused16
  \/ part = "seed" /\ P!Init /\ Unused10
  \/ part = "arms" /\ A!Init /\ Unused5

CadenceStep == part = "cadence" /\ C!Next /\ UNCHANGED <<part, After12>>
WalkStep == part = "walk" /\ L!Next /\ UNCHANGED <<part, After10>>
WakeStep == part = "wake" /\ W!Next /\ UNCHANGED <<part, After10>>
StacksStep == part = "stacks" /\ S!Next /\ UNCHANGED <<part, After8>>
ResetStep == part = "reset" /\ R!Next /\ UNCHANGED part
DryRunStep == part = "dryrun" /\ D!Next /\ UNCHANGED <<part, After12>>
CostsStep == part = "costs" /\ M!Next /\ UNCHANGED <<part, After5>>
KeysStep == part = "keys" /\ K!Next /\ UNCHANGED <<part, After11>>
SessionStep == part = "session" /\ T!Next /\ UNCHANGED <<part, After6>>

StepsStep == part = "steps" /\ N!Next /\ UNCHANGED <<part, After16>>
SeedStep == part = "seed" /\ P!Next /\ UNCHANGED <<part, After10>>
ArmsStep == part = "arms" /\ A!Next /\ UNCHANGED <<part, After5>>

Next ==
  \/ CadenceStep \/ WalkStep \/ WakeStep \/ StacksStep \/ ResetStep \/ DryRunStep
  \/ CostsStep \/ KeysStep \/ SessionStep \/ StepsStep \/ SeedStep \/ ArmsStep

Spec == Init /\ [][Next]_<<part, s1, s2, s3, s4, s5, s6, s7, s8, s9, s10, s11, After11>>

-----------------------------------------------------------------------------
(* Properties, as the modules state them, each of its part.                *)

\* Every part keeps to its types.
TypeOK ==
  CASE part = "cadence" -> C!TypeOK
    [] part = "walk" -> L!TypeOK
    [] part = "wake" -> W!TypeOK
    [] part = "stacks" -> S!TypeOK
    [] part = "reset" -> R!TypeOK
    [] part = "dryrun" -> D!TypeOK
    [] part = "costs" -> M!TypeOK
    [] part = "keys" -> K!TypeOK
    [] part = "session" -> T!TypeOK
    [] part = "steps" -> N!TypeOK
    [] part = "seed" -> P!TypeOK
    [] part = "arms" -> A!TypeOK

\* Cadence: the mode in force is the one the document has had, and the next ticket an
\* interval of it away at most (demoMode.ts:14, eu-host/src/demoMode.ts:8).
CadenceFollows == part = "cadence" => C!ReadingCurrent /\ C!TicketsComeInTime

\* Walk: what is entered is under the step it was entered at (walk.ts:40).
EnteredIsKept == part = "walk" => L!EnteredIsKept

\* Wake: "awake" means the workers wrote since the start (power.mjs:15, hostPower.ts:79).
AwakeIsTold == part = "wake" => W!AwakeIsTold

\* Stacks: nothing is deployed without what it names (lib/teardown.mjs:10).
NothingOrphaned == part = "stacks" => S!NothingOrphaned

\* Reset: "complete" means every host is at the last release (demo-reset.mjs:243).
EveryHostAtTheLast == part = "reset" => R!EveryHostAtTheLast

\* DryRun: the wire is given back (demo-dryrun.mjs:391, eu-host-proof.mjs:189).
WireGivenBack == part = "dryrun" => D!WireGivenBack

\* Costs: every day is charged once (cost.mjs:73).
EveryDayOnce == part = "costs" => M!EveryDayOnce

\* Keys: a run is refused only for what failed in it (hosted.ts:113).
RefusedForItsOwn == part = "keys" => K!RefusedForItsOwn

\* Session: the slots of the reads are neither lost nor doubled (api.ts:136).
SlotsPassOn == part = "session" => T!SlotsPassOn

\* Steps: a run's record tells what happened in it (observe.ts:38, run.ts:215).
RunTellsWhatHappened == part = "steps" => N!RunTellsWhatHappened

\* Seed: a registry is never left without the old or the new (lib/seed.mjs:16).
NeverNeither == part = "seed" => P!NeverNeither

\* Arms: the panel's sums are those of the records, and hosts disagree only under one
\* release (arms.ts:11).
ArmsAreTold == part = "arms" => A!ArmsAreTold
=============================================================================
