# Zudocs in TLA+

Zudocs is a demonstration of a prompt-delivery SDK: a support desk that answers seeded tickets with prompts pulled
from AirPrompter, on three hosts that could hardly be more different. These modules model the parts of it where the
order of events decides whether it is right; TLC checks them on small instances, and TLAPS proves the safety
properties that matter most for every value of the constants.

Paths below are relative to the repository. `tlc -workers 2 -config X.cfg M` runs a check, `tlapm M.tla` checks the
proofs of a module. `PROJECT.json` lists the components, the runs, the lines each definition stands for, the hazards
with the properties that cover them, and the theorems.

## 1. The system

| Part | Where | State it keeps |
|---|---|---|
| Desk | us-east-1, one Lambda function, up to five containers (`infra/lib/desk-stack.ts:241`) | DynamoDB tables: tickets, runs, events, status, counters, queue; an SSM parameter for the provider doors, one for demo mode; in each container an SDK, a `/tmp` store, memoised keys |
| Daemon host | eu-west-1, EC2: a Node worker, a Python worker, a telemetry import | its security group (the wire), the instance itself (power), the workers' cadence, the import's attempts |
| Wire and power functions | eu-west-1, Lambda | nothing of their own: EC2 and the `power` attribute of the host's status row |
| Puller | ap-southeast-1, Lambda | `puller/state.json`, conditioned on its ETag |
| Air-gapped host | ap-southeast-1, EC2 without a route out | its datastore, its spool, and `status/airgap.json` and exports in the exchange bucket |
| Desk app | the browser | its tokens, what it last polled |
| Drivers | an operator's terminal | the session's script; what outlives them is what they deployed, cut, purged or wrote |

They meet in shared storage, never in memory: every host writes runs, events and status rows into the desk's tables,
the presenter's clicks arrive as Lambda invocations, queue items and SQS messages, and schedules (a tick every five
minutes, the nightly sleep at 10:00, 10:20 and 10:40 UTC) run beside the clicks. AWS calls fail one by one, are
retried by the AWS client after their answer was lost, and any process may stop between two of them.

### Components

| Component | State | What is hard | Right when |
|---|---|---|---|
| Wire (`eu-host/src/wire.ts`) | egress rules and cut tag of a security group | invocations interleave and fail at any call; EC2's refusal of a duplicate rule is the only mutual exclusion | the host always reaches the tables, a forgotten cut is restored, sequential drills end clean |
| Power (`eu-host/src/power.ts`) | EC2's state and the marker in the status row | a copy kept up to date by a describe, a read, an act and a conditional write, while ticks, clicks and the console interleave | a presenter's act keeps its date and name, the marker ends up saying what EC2 says |
| Host power card (`desk-api/src/hostPower.ts`, `scripts/power.mjs`) | the marker, one row with two writers | the rows of the host that slept still stand when the next one starts | "awake" means the workers wrote since the start |
| Ticket queue (`store.ts`, `worker.ts`) | one item per host, an inbox, each worker's cursor and flag | read-then-remove under a condition, lost answers, a reset in the middle | nothing run twice or lost without a fault, the queue drains, every ticket comes up |
| Desk runs and counters (`handler.ts`, `run.ts`, `store.ts`, `pyworker.py`) | counters per UTC day, runs, events, last runs | one run is five calls; midnight; six writers on one counter; a reset table by table; a release activated between two steps of a run | caps hold for whoever counts, every slot is a run, a record tells what happened |
| Provider doors (`providerGuard.ts`) | one parameter with two doors, a 30 s cache per container | stale caches, and a write composed from one | closing takes effect within the window, nothing opens by itself |
| Hosted runs, direct providers (`hosted.ts`, `providers.ts`) | a memoised key and client per container | the key is rotated under containers that hold it | a run is refused only for what failed in it |
| Desk runtime (`runtime.ts`, `observe.ts`, `tee.ts`) | the memoised SDK, its `/tmp` store, one status row of all containers | concurrent requests share one start; references mean something in one container only; uploads repeat | a failed start is not remembered, feedback lands on the version that served, a window is one metric |
| Demo mode, cadence (`demoMode.ts` twice, `worker.ts`, `pyworker.py`) | a document with an end, each reader's last reading, a timer | it is replaced, expires and fails to be read while a ticket is due | the mode in force is the document's, tickets come an interval apart at most |
| Host CLI (`hostCli.ts`) | an asynchronous job, Run Command's own state | the host sleeps, answers late or never; Lambda runs the job again | an accepted job's answer lands on the timeline |
| Experiment panel (`arms.ts`) | a fold over run records and feedback | hosts lag a release; weights change between two runs of one customer | agreement of hosts is judged under one release |
| Puller (`services/puller/src`) | the state object, the datastore, what it mirrored | passes overlap, lose the ETag race after half their effects, messages come twice | a nudge is counted once and honoured, a generation announced once, the mirror loses nothing |
| Air-gapped host (`services/airgap/src`) | the SDK, the status document | timers overlap across awaits, puts are answered in any order | one SDK on one directory; what is stored is served and shown |
| Telemetry (`zudocs-airgap-export`, `importTelemetry.ts`) | spool, documents, exports, markers, attempts | two processes that may end between any two calls, a bucket that expires | no segment is lost, each is settled once |
| Desk app (`App.tsx`, `api.ts`, `auth.ts`) | timeline and cursor, a ticket's panel; tokens; read slots | rows stamped by several clocks, answers out of order, a reset during a poll; slots freed on every path | no row is passed by, the panel shows the selected ticket, no slot is lost |
| LangChain agent (`langchain-agent/src/walk.ts`) | the script's step, typed notes | lines arrive while it waits for a release | what is entered is kept under its step |
| Cost check and report (`cost-check`, `scripts/lib/cost.mjs`) | a month's document | windows end before their last day, rows come in pages, one query serves two windows | each day counts once |
| Scripts (`scripts/*.mjs`) | what they leave in the account and in a directory | waits that run out, a person's acts in between, a stop after any step, a second terminal | "complete" is true, the wire is given back, nothing is orphaned, a registry is old or new but never neither |
| Infrastructure (`infra/lib`) | stacks and what they name in each other | deploys, teardowns, a retained bucket | nothing is deployed without what it names |
| Model callers | none | | |
| Landing page | none | | |

## 2. The modules

| Module | Models | Status |
|---|---|---|
| `Wire` | the wire function, each EC2 call a step | complete; all safety proved |
| `Power`, `PowerProofs` | the power function | complete; all safety proved |
| `Wake` | `powerView`, the row's two writers, `host:wake --wait`, the state poll that asks for a reconcile | complete; proved |
| `FifoQueue` | what the presenter's queue promises: an at-most-once FIFO queue | abstract |
| `TicketQueue`, `TicketQueueProofs` | the queue item, the inbox, the workers; implements `FifoQueue` | complete; safety and refinement proved |
| `Runs`, `RunsProofs` | clicks, provider runs, replays and workers' runs, with counters, records and reset | without approvals; all safety proved |
| `Steps` | a run from its slot to its record: render, call, observation, checks, judge, in Node and in Python | complete; proved |
| `ProviderSwitch`, `ProviderSwitchProofs` | the parameter, the containers' caches, calls in flight | complete; all safety proved |
| `Keys` | the memoised key and client of a hosted run and of a provider, under the runbook's rotation | complete; proved |
| `Containers` | the desk's containers: start, sync, runs, feedback, upload, the shared row | complete; safety proved |
| `Cadence` | the demo-mode document, its four readers, the timers that follow | complete; proved |
| `HostCli` | click, job, Run Command, poll, row | complete; the safety of its answers proved |
| `Arms` | the panel's fold over records of hosts that lag | complete; proved |
| `Puller`, `PullerProofs` | the puller's pass, its queue, the mirror; the air-gapped host's document | without the rows that decide nothing; all safety proved |
| `Airgap` | the air-gapped runtime's timers | complete; safety proved |
| `Delivery` | what telemetry is promised: every segment settled once, and in the end | abstract |
| `Telemetry` | spool, export, bucket, import; implements `Delivery` | complete; safety of the refinement proved |
| `DeskApp` | a tab's timeline, panel, clicks and resets | without panels that are read whole; safety proved |
| `Session` | sign-in, tokens, boot, read slots and retries | complete; slots proved |
| `Walk` | the outside customer's walk | complete; proved |
| `Fleet`, `Reset`, `DryRun` | what a driver sees of the fleet; the reset after a session; the dry run and the three proof scripts | complete; proved |
| `Stacks` | stacks, CI, `airgap up` and `down`, `teardown` | the resources are left out; proved |
| `Costs` | report and monthly check over windows and pages | complete; proved |
| `Seed` | the prompts' seed, written over a registry in use | complete; proved |

The MC modules are what TLC runs. `MCWire` (for `wire_dark`), `MCPower`, `MCQueue`, `MCRuns`, `MCProviderSwitch`
and `MCPuller` extend their module and add symmetry or nothing; `reset_replay` and `python_observation` run `Reset`
and `Steps` themselves. `MCHosts`, `MCDesk` and `MCParts` put several modules side by side: parts that
share no state, one of which moves in a behaviour; a variable `part` says which, and each part's fairness is its
own. So one run asks several questions without their product of states. Their proofs are laid out the same way:
`HostsProofs` is of `MCHosts`, `DeskProofs` of `MCDesk`, `PartsProofs` of `MCParts`.

Definitions named "Mutant" above a definition are the variants the properties are tested against: each is a plausible
bug, is used nowhere in `Next`, and makes one property fail.

### How state and actions correspond to the code

*Wire.* `egress` is the set of rule kinds on the group, `tag` the cut's instant by age. Each invocation keeps `pc`, the
EC2 call it makes next, and `saw`, what it described first. `BeginCut`, `BeginRestore` and `BeginTick` are the describe
with the branch the code takes on it; `CutAuthorizeNarrow` to `CutReport` and `RestoreAuthorizeOpen` to
`RestoreReport` are the calls in the code's order; `Fail` stops an invocation at any of them; `CutAges` is time.

*Power.* `ec2` maps instances to EC2's state, `marker` is the row's attribute, `pc`, `request` and `seen` are each
invocation's. `current` holds the invocations whose last read of the marker is still the marker: the condition of the
conditional write. The act, the marker, the second try and the signature are separate steps.

*Wake.* Time is the number of starts, boots and stops so far. The power function, a module of its own, reads and writes
the marker here in one step; `row` is written by each worker with its own instant; `powerView` is the desk's view.

*TicketQueue.* `queue` is the item's list with an identity on each entry, `head` what a worker read, `held` what it
took; `pc` follows `nextTicket`'s get and conditional remove, the lookup, the slot, the run. An update the client
retries after a lost answer takes effect twice or is refused: both are actions.

*Runs.* `asked` is the request as the dispatch parsed it with the day it read, `pc` the next call; `runs` and `spent`
are the counters by day; `table`, `timeline` and `lastRun` the records. A replay is a loop of runs over the tickets it
read at its start, with the day read again for each (`handler.ts:608`). Worker runs (`runOne`, also the Python
worker's `run_one`) take a slot directly.

*Steps.* Between slot and record: `plan` is the steps left, `step` the one being made, `late` the calls whose observation
is not filed yet, `captured` what the run's observer holds, `last` the Python callback's single field. A release is
promoted between any two.

*ProviderSwitch.* `parameter` is the text, `cached` each container's copy with its age, `text` and `waited` the call in
flight. `read` uses a fresh copy or starts a get; `write` composes the document from the copy and starts a put; the
store answers at any moment within the latency. The owner's word for each door is history.

*Keys.* A key is its number; `live` are the ones the service accepts; the owner mints, puts, bumps the epoch and revokes
in the order of the runbook, and `old` are containers the bump has retired.

*Containers.* `memo` is the start (none, under way, done), `mints` the references a container can resolve, `spool` what
it has not uploaded; `emitted` counts metrics, `platform` is what AirPrompter accepted. The container is replaced at any
point, with its `/tmp`.

*Cadence.* A behaviour has one reader. `parameter` is what the document says and for how long; `mode`, `cached` and
`unread` are the last reading; `next` and `since` are the ticket timer. Time passes in ticks, and not while something
is due.

*HostCli.* `job` is the Lambda job, `command` Run Command's own state, `waited` the loops of each; the host's power and
the row's word for it change on their own.

*Puller.* A pass's `pc` is its next call: the read, the count and its row, the pull and its row, the save, the look at
the document, the host's row, one step per timeline row, the last save, its own row. `fresh` is the set of passes
whose ETag still matches; a put of other bytes takes everyone else out of it, a put of the same bytes does not (an
ETag is of the content). `RaceLost` is `runOnce`'s catch. The queue delivers, delivers again, gives up.

*Airgap.* A tick's place is `idle`, `start`, `hydrate`, `write`; `puts` are documents it has sent and not seen answered.
`hydrating` is the flag, `startFailure` the cooldown. A restart keeps the local store only.

*Telemetry.* A segment is a value, an export the set of its segments. `spool`, `files`, `bucket`, `markers` are where they
are; `export` and `import` are the two processes' next calls; `attempts` is the import's own memory, `refusals` the
truth about it.

*DeskApp.* `table` and `timeline` are the desk's, `events`, `cursor` and `runs` the tab's; `poll` is the call in flight
with the cursor it was asked for with, `reads` the panel's calls, each with its ticket. `excused` names the rows the
design lets go: a row that lands behind a later one, a burst longer than a page, a poll in flight at a reset.

*Session.* `tokens` and `pkce` are storage; `call` is each call's place (`wait` in the line, `sent`, `sleep` between two
tries); `activeReads` and `waitingReads` are `api.ts`'s own.

*Fleet, Reset, DryRun.* `published` and `pointer` are what AirPrompter has and shows, `row` the generation each status
row names and `fresh` whether it was written since. A script is a sequence of steps by kind (a claim, a wait that
throws, a wait that becomes a claim, ...), so that every path through them is a sequence of choices.

*Stacks, Seed, Costs, Walk, Arms.* A command is the list of steps left, and may stop after any; a seed is its plan and
what it has written of it; a query its window, rows and pages; a walk its script and the lines typed; a run its record
with ticket, arm, host and release.

## 3. The runs

| Run | Shows | Instance |
|---|---|---|
| `hosts` | wire: `TablesKept`, `DrillsAreWhole`, `NeverStranded`; air-gapped host: `OneAgent`, `ServesNewest`; telemetry: `SegmentsAccounted`, refinement `IsDelivery`; host CLI: `JobsSettle`; one worker: `QueueServed` | two invocations and two failures; two overlapping ticks, two releases, three faults; two segments, three faults; one job with one retry; two tickets, two entries, a reset, one fault |
| `desk` | containers: `AnsweredRightly`, `RowConverges`; app: `EveryRowShown`, `PanelConverges` | two containers, three releases of two versions, one replaced or failing; two runs of two tickets, a page of one, an act of the presenter, one fault |
| `parts` | `CadenceFollows`, `EnteredIsKept`, `AwakeIsTold`, `NothingOrphaned`, `EveryHostAtTheLast`, `WireGivenBack`, `EveryDayOnce`, `RefusedForItsOwn`, `SlotsPassOn`, `RunTellsWhatHappened`, `NeverNeither`, `ArmsAreTold`, one for each of twelve parts | see below |
| `power` | `ClickStandsUnlessStale`, `ActsAreSigned`; `MarkerConverges` under fairness | two instances, two invocations, one failure |
| `queue` | `EntriesAccounted`; refinement `IsFifo` | two workers, two tickets, three entries, a reset, a fault |
| `runs` | `CapHolds`, `CarriedOverMidnight`, `LedgerHolds` | two requests, two days, cap two, a line of one, one trouble |
| `provider` | `KillSwitchHolds`, `CachesAgree`, `OpensOnlyByOwner` | two containers, two doors, edits by hand |
| `puller` | `NudgesAccounted`, `BundleAnnounced`, `RowHolds`, `AppliesShown` | a tick and a nudge, one message received twice, two documents, three applies, one fault |
| `wire_dark` | refutes `NeverDark` | two invocations |
| `provider_door` | refutes `KillSwitchTakesEffect` | two containers, no edits by hand |
| `reset_replay` | refutes `ReplaysAreOver` | two replays, no fault |
| `python_observation` | refutes `ShowsItsOwn` | two steps, two releases |

The types of each module (`TypeOK`) were checked with its runs; most are theorems, or parts of `PartsKept`.

### Why the bounds are enough

*Wire*: nothing in the state counts, so more invocations only add a third party to races that need two; two failures
allow a failed cut and a failed restore of it. *Power*: a replacement needs two instances; every race here is between
one reader and one writer. *Queue*: three entries let one wait behind two that are held; the refinement needs an
entry in front that changes between a read and its removal. With one fault any single call of any actor is lost or
left unanswered. Liveness has one worker, whose timer and poll compete for one flag. *Runs*: a cap of two with three
runs in a day reaches the cap from both sides, a line of one makes the provider's refusal and the day's meet, two days
and a replay of two put midnight between any two steps. *Provider*: two containers and two doors are the whole of a
stale composition; the window and the latency are one tick each, which keeps their order relative to each other. What
TLC checks of this at one tick the proof shows for every length. *Puller*: two passes can overtake each other in both
directions; three applies over two documents leave one in the middle to lose, with a document that keeps two.

*Air-gapped host*: two ticks overlap; two releases make a put that is overtaken; three faults stop the process, fail a
start, and leave one call over. *Telemetry*: two segments give exports that overlap; an export is given up after two
attempts, so one can be forgotten in between. *Host CLI*: a poll longer than the delivery, and a command longer than
the poll less its margin, meet in every order. *Containers*: three releases of which the third has the first's
version tell a version from a generation. *App*: a page of one row is shorter than two runs' burst, so the cursor has
something to pass by; two tickets make an answer for the one just left.

*Parts.* Cadence: the document lives for three ticks with slack one, a reading is good for two, idle and demo
intervals are five and two: the end of the document falls before, at and after a due ticket, and inside a reading.
Walk: two texts, chunks of two lines. Wake: seven starts, boots and stops, enough for a host that ran, slept, and is
woken by somebody else while the script waits. Reset and dry run: three generations, so that a promotion can come
between a reading and a wait twice; with and without the two hosts that may have no row. Costs: months of few days,
windows of two and four days, three pages. Keys: two rotations over two containers. Steps: two steps of two releases,
of which one has a model Python can call. Seed: three files, two releases that differ in one, one fault. Session: two
slots, three reads and an act, one retry. Arms: two hosts, two customers, two runs, a row of feedback, a run that
strays.

Every bound is a constant of its module (`MaxFaults`, `MaxEntries`, `MaxRuns`, `MaxTime`, ...), and appears in a guard.
`CHECK_DEADLOCK FALSE` is set where those bounds, or the end of a script, end every behaviour (`runs`, `provider`,
`puller`, `parts`, `reset_replay`, `python_observation`).

### Fairness, and why the code justifies it

*Wire*: a Lambda invocation that runs does its next step or fails; time passes; a tick comes every five minutes
(`infra/lib/shared-host-stack.ts:196,230`). Nobody has to cut or restore. *Power*: the same, EC2 completes its
transitions, and the workers write a status row. *Queue*: a started worker takes its next step, and attaches again
when it is off. Poll and timer are strongly fair: both are intervals (10 s, and minutes), and each finds the running
flag in turn free and taken; since the timers come due in order, neither starves the other. *Air-gapped host*: its
intervals (30 s, one minute) go on firing, calls are answered, the cooldown passes. *Telemetry*: both systemd timers
fire every five minutes, and what they started goes on. *Host CLI*: Lambda runs a job it accepted, and Run Command ends
what it began. *Containers*: the schedule ticks every five minutes, and what was begun is answered. *App*: the
five-second interval, and an answer to every call. Nothing is assumed of a person, of a fault, or of the parts.

### Assumptions worth knowing

EC2 takes at least as long over a transition as a Lambda function's 30 s timeout (`hostPower.ts:61`), so no invocation
sees two of them. EC2 refuses a rule that exists. A Lambda container handles one request at a time. A get of a
parameter returns a value it had during the call. The puller's passes overlap as `infra/lib/fleet-stack.ts:106-107`
says they may. What the SDK does in `pullToDatastore` is external: it stores a generation at most once and answers
anything otherwise. `Puller` does not reorder two puts of the air-gapped host's document; `Airgap` does. An export in
the bucket expires long after any pass that read it. `Wake` leaves out a stop and a start between two looks of the
power function, which only EC2's console can do. The owner gives one command at a time in `Stacks`.

## 4. What was found

* `wire_dark`: "the status writer never loses the tables" (`wire.ts:155`) fails when a restore describes a group that a
  cut has half done: it finds the open rule, skips its authorize, revokes the narrow rules while the cut revokes the
  open one. Under the exception that no restore did so, the property is proved (`TablesStayReachable`).
* `provider_door`: closing one door may reopen the other, closed elsewhere within the last 30 s
  (`providerGuard.ts:108`), and it stays open.
* `reset_replay`: the reset waits for replays in flight by counting rows, and a done row of an earlier replay stands in
  for the one still writing (`demo-reset.mjs:101`), which its comment rules out.
* `python_observation`: the Python worker's callback keeps the last call's observation; a run refused before its own
  call shows that one's numbers (`pyworker.py:385`).

Smaller things were met on the way. They are not claims of a run; the models either contain them as an exception a
property names, or leave them out, and say so.

* *Wire and power.* A cut that failed after its authorize cannot be repeated until a restore. An invocation that
  described the host before a click and read the marker after it overwrites the click's marker: the exception in
  `ClickStandsUnlessStale`. A sleep that passed its checks stops the host although a cut begins meanwhile
  (`power.ts:249`).
* *Workers.* One whose reading keeps failing stays in demo mode past the four hours (`eu-host/src/worker.ts:154`): the
  exception `unread` in `ReadingCurrent`.
* *Power card.* It goes by the text it keeps, read again at the present time (`hostPower.ts:118-134`): a renewal of the
  switch shortly before its end reaches the card only when it reads again, and until then the card shows "off". In
  `Cadence` a document is therefore as old, for the desk, as its last change of text (`Write`).
* *Desk.* A run whose start was refused has a record and no timeline row. After a key is revoked without a bump of the
  epoch the memo stays stale, though `hosted.ts:113` says a refused start is retried. A row on the timeline may pair a
  newer generation with a version rendered under an older one; an empty answer counts as ok and is not judged, and an
  escalation with an empty summary is ok with no handoff.
* *Host CLI.* A poll that fails says "could not be sent" of a command that ran, "TimedOut" may still run, and a job is
  lost without a row when its container's start fails (`handler.ts:124-127`).
* *App.* A poll in flight when a reset clears the timeline hides rows it had already seen; a seed empties the panel
  although the runs are still there (`App.tsx:249`); a tab idle over two midnights reads only the cursor's day and
  today. A sign-out during a refresh is undone by the refreshed tokens (`auth.ts:100`).
* *Puller and air-gapped host.* A pass that lost the race has already overwritten the host's row, possibly with an
  older document, so the row may show an older one than before; `RowHolds` says that it has shown what the state calls
  mirrored; a nudge that was counted and whose row then failed is never
  announced. A start that fails at its last event leaves a started SDK that nobody holds (`runtime.ts:221`).
* *Scripts.* One unreadable look makes the reset's target NaN, and it never completes; a purge already in progress skips
  its wait. A dry run's exact wait can be passed by, and it ends although line 59 says it goes on. `host:wake` may say
  "awake" after somebody else put the host to sleep. A teardown leaves the air-gapped host's key in the retained bucket,
  and `up` during `down` can delete the new host's key. `fleet-proof --nudge` may pass on an earlier nudge's row,
  `eu-host-proof --enqueue` on another run of the same ticket, and `--wire` cuts without a `finally`. A seed's failed
  write tears the file it was writing; a first seed that fails before `release.json` leaves a directory every later
  seed refuses.
* *Walk.* The second line of a paste is lost where a single Enter was waited for, although `walk.ts:6` says anything
  typed is kept.

## 5. What is proved

All theorems hold for any set of actors and any bounds that satisfy the modules' assumptions. Where a module is also run
side by side with others its assumption is a hypothesis of the theorem, and TLC evaluates it in the MC module.

| Theorems | The argument |
|---|---|
| `HostsProofs`: `WireTypeCorrect`, `MutualExclusion`, `TablesStayReachable`, `DrillsEndWhole` | The wire's invariant is `HalfwayIsExclusive` with `TypeOK` and `TablesKept`: exclusion alone is not inductive, for the authorize that grants it has to find a group that is not half-done. For `DrillsEndWhole`: with one invocation and no failure so far, group, tag and timeline agree on how far the drill under way has come. |
| `HostsProofs`: `TypeCorrect`, `WireOfTheHost`, `OneAgentHolds`, `SegmentsAccountedHolds`, `Delivers`, `AnswersTellHolds` | Of the hosts side by side. *Air-gapped host*: a tick that begins looks at the flag and not at other ticks, so the invariant ties the two: the flag is up exactly while one tick is under way, and a tick that starts the SDK found it down. *Telemetry*: no segment is in the spool and in a document, or in two documents (`Apart`); a marker's export is in the bucket; the import's verdict stands while it writes the marker; and it remembers no more refusals than there were. *Delivery*: delivered is what a marked document holds, given up what a failed or expired one does; only a marker that is written, or a document that expires, is a step of it. *Host CLI*: a loop that has seen nothing of its command has waited no longer than the command has, and the command waits at most `DELIVERY < TIMEOUT + MARGIN`; so what says that the host never took it says so only of a command that is nowhere, and an answer is ready only when what became of the command is settled. |
| `PowerProofs`: `TypeCorrect`, `ClickStandsTheorem`, `ActsSigned` | To `TypeOK` it adds one part about the dated marker (EC2 is in the same sleep or wake and not behind it) and four about each invocation: what it may have read (`Reading`), what holds before and after its act, and that its reconcile moves a dated marker on (`Onward`). The signature needs three more: a transition somebody described goes on, is complete or gave way to the opposite one (`Since`); a marker ahead of what an invocation described is where EC2 is (`Ahead`); and while one tries to sign again nobody holds a read to reconcile, so only an act overtakes it (`Signing`). |
| `TicketQueueProofs`: `TypeCorrect`, `EntriesAccountedHolds`, `ImplementsFifo` | Line and hands hold each entry once, by identity; nobody holds one between runs; what was never put has no fate. The refinement maps the item's list to the line, what workers hold to their hands and the count of puts to itself: a conditional removal is a take, one whose answer was lost loses the front, a reset clears, and every other step stutters. |
| `RunsProofs`: `TypeCorrect`, `TheCapHolds`, `MidnightPasses`, `LastRunsExist`, `DoorsHoldTheorem`, `LedgerKept` | The cap needs only that a run begins with its increment; midnight needs that a request that begins one on an old day has just read that day (`CarriedOnce`); the types need that run numbers are handed out in order (`Numbered`); the last runs need that a request about to name one has put it; the doors need the calls counted together with the requests that hold a provider's slot and wait for the day's. The slots that become runs need every number to be charged, on the table and on the timeline together, but for the run a request has in hand. |
| `ProviderSwitchProofs`: `TypeCorrect`, `Coherent`, `KillSwitch`, `FailClosed` | A copy is either the parameter's text or older than its last change, latency allowed for (`Dated`); for a closed door the same of that door alone (`Closes`); every text anywhere opens only what the owner once opened (`ByOwner`). |
| `PullerProofs`: `TypeCorrect`, `NudgesAccountedHolds`, `AnnouncedOnce`, `RowHoldsAlways`, `AppliesShownHolds` | What a pass knows of the state holds while its ETag matches, and says nothing once it has lost the race: each part of the invariant is about `fresh` passes. A count is in the list of ids once, and told by the pass that saved it; a pass past its pull has honoured its message; a generation is with the one pass that stored it until it is announced; and a pass that will save what it mirrored has the row and the timeline at least as far. |
| `DeskProofs`: `TypeCorrect`, `AnsweredRightlyHolds`, `TabTypeCorrect`, `RowsAheadHolds`, `PanelIsReadHolds` | *Containers*: a start is tried again only after the race, which a store has once; a run is asked for by one request at a time and never again once it has a record, so feedback under way has one container and one version; an observation is in one spool or accepted, so it is counted once. *Rows*: stamps are distinct and in the table's order; the cursor and the start of a session are instants of rows; a poll under way was asked with the cursor there is, or with one a reset has taken back, and its answer ends behind every row it left out. *Panel*: one read is the newest, and of the ticket selected; it brings every row the effect has acted on; a read asked since the panel was emptied knows only what the panel has; and a click's run has a record before it has an instant. |
| `PartsProofs`: `PartsKept` and one theorem for each property | Each part has an invariant of its own, `PartsKept` says that the part that runs keeps it. *Wake*: the marker of a host that starts or runs is never older than its last start, and the script waits for rows past it. *Session*: a read stands in the line once, so whoever is given a slot leaves the line with it. *Cadence*: what a reader keeps is the document as it was, shortened as the document was since; age and poll together bound how old a reading is. *Walk*: what was entered alone is in the line or under its step, and only the step of the key takes what is not kept. *Stacks*: what a teardown has left to do includes all that stands, and an up has its tools. *Reset*: the target is at least what was named, past the start, and a complete reset has every row there. *Dry run*: while the wire is cut, what is left of the script has its restore ahead, past steps that catch what they wait for. *Costs*: the pages a query has read and has left are its window, each day once. *Keys*: a container that is not retired holds a key the service takes. *Steps*: a step's call is not later than the calls made, what is late is filed under its own call, and the plan's steps come in the order of the record. *Arms*: by the records, each folded into what the ones before it gave; a first record after which the sums or the rows were not those of the steps so far would have one before it that refutes it. *Seed*: at most one file is neither what it was nor what the plan says. |

Every invariant was checked by TLC before it was proved. Properties of a part are seen through the instance that the
module which sets the parts side by side makes of it.

What the proofs assume of the constants is what the modules' assumptions say. Four of them bind: Run Command gives up a
command that no host took before its poller gives up (`DELIVERY < TIMEOUT + MARGIN`: 60 s, `hostCli.ts:70`, against a
deadline 30 s beyond the command's own, `hostCli.ts:97`); a ticket takes the Python worker less than a demo interval
(`MaxRun < DEMO`: its one call ends after 45 s, `pyworker.py:371`, and the interval is five minutes,
`pyworker.py:243`); the week is no longer than the long window (`Costs`); and `EveryDayOnce` is of the year of days and
charges that `MCParts` defines, for any windows, pages and faults. Attempts to prove changed six things in the models:
`Puller` now says of each delivery, and not of each message, that it made a pull, and of the row what it has shown; the
reading of the power card above, which a longer poll showed; `Stacks` now keeps the set of what a command has left,
with its order; the fold of `Arms` is a recursive function over its records; and `JobsSettle`, `EveryRowShown` and
`PanelConverges` each name the safety they rest on (`AnswersTell`, `RowsAhead`, `PanelIsRead`) beside what happens in
the end.

### Only model-checked

All liveness (`NeverStranded`, `ServesNewest`, `JobsSettle`, `QueueServed`, `RowConverges`, `EveryRowShown`,
`PanelConverges`, `MarkerConverges`, and of `IsDelivery` that every segment is settled in the end), which with `ENABLED`
is beyond the prover here. Three of them have a safety half that is proved: of `JobsSettle` that an answer tells what
became of the command, of `EveryRowShown` that the cursor passes no row the tab has not got, of `PanelConverges` that
what the panel shows was read of the ticket selected; that the answer, the row and the panel come in the end is checked
by TLC alone. Of every property of the passing runs that is safety, a theorem says the same for all constants. No module
declares a `RECURSIVE` operator; the one induction over data, of `Arms`, is by a least counterexample
(`WellFoundedInduction`'s `WFMin`), which takes no operator as a parameter.

## 6. What is not modelled, and why

Formatting, logging, HTML and React rendering, prices, request bodies, the catalogue of models and redaction decide none
of the properties. The SDK is not in this repository; what the code relies on is an external action. By component:

* *Landing page*: static.
* *Model callers, direct providers*: a call answers, answers nothing, or fails (`Steps`); what is sent is data.
* *Desk store, approvals*: the approvals' tables are dead code (`store.ts:348-396`): the route answers 409 and nothing
  calls them.
* *Puller*: its own row with streaks and health, and rows for failed pulls, starts, keys, exports and health, are
  written best effort and decide nothing.
* *Power*: its timeline rows, best effort.
* *Workers*: the health event, the verification of the root document, the marshalling of table rows.
* *Desk app*: panels that are read whole at each poll, with no cursor and no state of their own.
* *Infrastructure*: resources are declarations; their numbers are the assumptions above.
* *Scripts*: the publishing of the static site, the asset builds and the configuration readers run once, alone.

One hazard stays with a note instead of a property: the sleep race at `power.ts:249`, between two functions that the
models keep apart. Index reads that are eventually consistent are taken to be current: the code promises nothing else.

## 7. What is left

1. To compose: the nightly sleep (`Wire`, `Power` and `Cadence` with its three attempts): the host is asleep by the last
   one unless it was told to stay awake. And `Airgap` with `Puller` at one release more, through one document.
2. To check on larger instances, outside a few minutes: three invocations of `Wire`, three workers of `TicketQueue`,
   two messages of `Puller`.
