-------------------------------- MODULE Runs --------------------------------
(***************************************************************************)
(* Runs and the counters that bound them.  A click on the desk (a run, an  *)
(* escalation, a run through a provider's own door: handler.ts:177-230), a *)
(* replay job (handler.ts:599-629) and the workers on the eu-west host     *)
(* (worker.ts:195-211, pyworker.py:337-400) share one counter item a day   *)
(* and the tables a run is written to (run.ts:127-225), and the presenter  *)
(* may reset them all (store.ts:399-411).  Every table call is one step.   *)
(*                                                                         *)
(* What another module or the SDK decides is free here: whether a door is  *)
(* open, whether the release the SDK has just synced freezes the agent.    *)
(***************************************************************************)
EXTENDS Naturals, FiniteSets

CONSTANTS
  Requests,     \* the requests, jobs and workers that may be in flight together
  Tickets,
  Providers,
  NoProvider,   \* the release's own model
  Cap,          \* runs a day (ZUDOCS_DAILY_RUN_CAP)
  ProviderCap,  \* calls a day through one provider's door
  ReplayMax,    \* runs a replay may ask for
  LastDay,      \* bound: days the model runs for
  MaxRuns,      \* bound: runs that get a slot
  MaxTroubles   \* bound: resets and failed or unanswered table calls, together

ASSUME CapsAssumption ==
  Cap \in Nat /\ ProviderCap \in Nat /\ ReplayMax \in Nat \ {0} /\ LastDay \in Nat \ {0}
ASSUME BoundsAssumption == MaxRuns \in Nat /\ MaxTroubles \in Nat
ASSUME NoProviderAssumption == NoProvider \notin Providers
ASSUME TicketsAssumption == Tickets # {}

VARIABLES
  today,       \* the UTC day
  runs,        \* the day items' `runs`
  spent,       \* the day items' `provider_<name>`
  table,       \* the runs table
  lastRun,     \* lastRun of each ticket, 0 for none
  inbox,       \* the tickets the table holds
  timeline,    \* the runs the timeline reports
  reset,       \* the next call of the reset
  pc,          \* the next call of each request
  asked,       \* what each request is running, and the day it counts for
  run,         \* the run each request has begun, 0 before its slot
  left,        \* the runs a replay has left, this one included
  begun,       \* runs that ever got a slot
  charged,     \* history: the runs with a slot of each day, since its counter was deleted
  called,      \* history: how many of them through each provider's door
  carried,     \* history: runs each request began today under an earlier day's slot
  disturbed,   \* history: a reset failed, or a request was in flight with it
  faults,
  resets

counters == <<runs, spent>>
records == <<table, lastRun, timeline>>
request == <<pc, asked, run, left, carried>>
history == <<charged, called>>
bounds == <<faults, resets>>
vars == <<today, counters, records, inbox, reset, request, begun, history, disturbed, bounds>>

Days == 1 .. LastDay
RunIds == 1 .. MaxRuns
Kinds == {"run", "escalate"}
Asked == [kind : Kinds, ticket : Tickets, provider : Providers \cup {NoProvider}, day : Days]
PCs == {"idle", "door", "invoke", "providerSlot", "runSlot", "putRun", "lastRun", "report"}

TypeOK ==
  /\ today \in Days
  /\ runs \in [Days -> 0 .. Cap]
  /\ spent \in [Days -> [Providers -> Nat]]
  /\ table \in SUBSET [run : RunIds, ticket : Tickets, kind : Kinds]
  /\ lastRun \in [Tickets -> {0} \cup RunIds]
  /\ inbox \in SUBSET Tickets
  /\ timeline \in SUBSET RunIds
  /\ reset \in {"idle", "runs", "events", "counters", "tickets", "seed"}
  /\ pc \in [Requests -> PCs]
  /\ asked \in [Requests -> Asked]
  /\ run \in [Requests -> {0} \cup RunIds]
  /\ left \in [Requests -> 0 .. ReplayMax]
  /\ begun \in 0 .. MaxRuns
  /\ charged \in [Days -> SUBSET RunIds]
  /\ called \in [Days -> [Providers -> Nat]]
  /\ carried \in [Requests -> Nat]
  /\ disturbed \in BOOLEAN
  /\ faults \in Nat /\ resets \in Nat /\ faults + resets <= MaxTroubles

SomeTicket == CHOOSE t \in Tickets : TRUE
Nothing == [kind |-> "run", ticket |-> SomeTicket, provider |-> NoProvider, day |-> 1]
InFlight == {r \in Requests : pc[r] # "idle"}

Init ==
  /\ today = 1
  /\ runs = [d \in Days |-> 0]
  /\ spent = [d \in Days |-> [p \in Providers |-> 0]]
  /\ table = {} /\ timeline = {}
  /\ lastRun = [t \in Tickets |-> 0]
  /\ inbox = Tickets
  /\ reset = "idle"
  /\ pc = [r \in Requests |-> "idle"]
  /\ asked = [r \in Requests |-> Nothing]
  /\ run = [r \in Requests |-> 0]
  /\ left = [r \in Requests |-> 0]
  /\ begun = 0
  /\ charged = [d \in Days |-> {}]
  /\ called = spent
  /\ carried = run
  /\ disturbed = FALSE
  /\ faults = 0 /\ resets = 0

Goto(r, next) == pc' = [pc EXCEPT ![r] = next]

\* A request is over: refused, failed or done.
End(r) ==
  /\ Goto(r, "idle")
  /\ asked' = [asked EXCEPT ![r] = Nothing]
  /\ run' = [run EXCEPT ![r] = 0]
  /\ left' = [left EXCEPT ![r] = 0]
  /\ carried' = [carried EXCEPT ![r] = 0]

Fault == faults + resets < MaxTroubles /\ faults' = faults + 1 /\ UNCHANGED resets

-----------------------------------------------------------------------------
(* A request arrives.  The day it counts for is read before the SDK's sync *)
(* (handler.ts:201), for a replay before each of its runs.                 *)

Ask(r, kind, t, p, next, n) ==
  /\ pc[r] = "idle"
  /\ begun < MaxRuns
  /\ t \in inbox
  /\ asked' = [asked EXCEPT ![r] = [kind |-> kind, ticket |-> t, provider |-> p, day |-> today]]
  /\ left' = [left EXCEPT ![r] = n]
  /\ Goto(r, next)
  /\ disturbed' = (disturbed \/ reset # "idle")
  /\ UNCHANGED <<today, counters, records, inbox, reset, run, carried, begun, history, bounds>>

run_ticket(r, t) == Ask(r, "run", t, NoProvider, "invoke", 1)
escalate_ticket(r, t) == Ask(r, "escalate", t, NoProvider, "invoke", 1)
run_provider(r, t, p) == Ask(r, "run", t, p, "door", 1)
replay(r, t, n) == Ask(r, "run", t, NoProvider, "invoke", n)
runOne(r, t) == Ask(r, "run", t, NoProvider, "runSlot", 1)

\* The owner's switch is read first, and takes no slot.
ReadDoor(r) ==
  /\ pc[r] = "door"
  /\ \/ /\ Goto(r, "invoke")
        /\ asked' = [asked EXCEPT ![r].day = today]
        /\ UNCHANGED <<run, left, carried>>
     \/ End(r)
  /\ UNCHANGED <<today, counters, records, inbox, reset, begun, history, disturbed, bounds>>

\* Mutant: a provider's run takes the day's slot only.
SyncedRunSlot(r) == "runSlot"

SyncedSlot(r) == IF asked[r].provider = NoProvider THEN "runSlot" ELSE "providerSlot"

\* The invoke's sync pass, then the freeze it verified, before any slot.
Invoke(r) ==
  /\ pc[r] = "invoke"
  /\ \/ Goto(r, SyncedSlot(r)) /\ UNCHANGED <<asked, run, left, carried>>
     \/ End(r)
  /\ UNCHANGED <<today, counters, records, inbox, reset, begun, history, disturbed, bounds>>

-----------------------------------------------------------------------------
(* The slots: conditional increments, counted once more when the answer is *)
(* lost and the client retries.                                            *)

takeProviderSlot(r) ==
  LET d == asked[r].day
      p == asked[r].provider
  IN  /\ pc[r] = "providerSlot"
      /\ IF spent[d][p] < ProviderCap
         THEN /\ spent' = [spent EXCEPT ![d][p] = @ + 1]
              /\ Goto(r, "runSlot")
              /\ UNCHANGED <<asked, run, left, carried>>
         ELSE End(r) /\ UNCHANGED spent
      /\ UNCHANGED <<today, runs, records, inbox, reset, begun, history, disturbed, bounds>>

ProviderSlotUnanswered(r) ==
  /\ pc[r] = "providerSlot"
  /\ spent[asked[r].day][asked[r].provider] < ProviderCap
  /\ spent' = [spent EXCEPT ![asked[r].day][asked[r].provider] = @ + 1]
  /\ Fault
  /\ UNCHANGED <<today, runs, records, inbox, reset, request, begun, history, disturbed>>

\* A run begins.
Begin(r) ==
  LET d == asked[r].day
      p == asked[r].provider
  IN  /\ begun < MaxRuns
      /\ begun' = begun + 1
      /\ run' = [run EXCEPT ![r] = begun']
      /\ Goto(r, "putRun")
      /\ charged' = [charged EXCEPT ![d] = @ \cup {begun'}]
      /\ called' = IF p = NoProvider THEN called ELSE [called EXCEPT ![d][p] = @ + 1]
      /\ carried' = IF d = today THEN carried ELSE [carried EXCEPT ![r] = @ + 1]
      /\ UNCHANGED <<asked, left>>

TakeRunSlot(r, free) ==
  /\ pc[r] = "runSlot"
  /\ IF free
     THEN runs' = [runs EXCEPT ![asked[r].day] = @ + 1] /\ Begin(r)
     ELSE End(r) /\ UNCHANGED <<runs, begun, history>>
  /\ UNCHANGED <<today, spent, records, inbox, reset, disturbed, bounds>>

\* Mutant: the slot of one day is taken for a free one of another.
TakeRunSlotOfToday(r) == TakeRunSlot(r, runs[today] < Cap)

takeRunSlot(r) == TakeRunSlot(r, runs[asked[r].day] < Cap)

RunSlotUnanswered(r) ==
  /\ pc[r] = "runSlot"
  /\ runs[asked[r].day] < Cap
  /\ runs' = [runs EXCEPT ![asked[r].day] = @ + 1]
  /\ Fault
  /\ UNCHANGED <<today, spent, records, inbox, reset, request, begun, history, disturbed>>

-----------------------------------------------------------------------------
(* The run itself (models and judges are called; a step that fails is part *)
(* of the record), then its records in this order.                         *)

PutRun(r, next) ==
  /\ pc[r] = "putRun"
  /\ table' = table \cup {[run |-> run[r], ticket |-> asked[r].ticket, kind |-> asked[r].kind]}
  /\ Goto(r, next)
  /\ UNCHANGED <<today, counters, lastRun, timeline, inbox, reset, asked, run, left, carried, begun,
                 history, disturbed, bounds>>

\* An escalation is not the ticket's last run.
putRun(r) == PutRun(r, IF asked[r].kind = "escalate" THEN "report" ELSE "lastRun")

\* A ticket that is gone makes the update throw, and the request fails.
updateTicketLastRun(r) ==
  /\ pc[r] = "lastRun"
  /\ IF asked[r].ticket \in inbox
     THEN /\ lastRun' = [lastRun EXCEPT ![asked[r].ticket] = run[r]]
          /\ Goto(r, "report")
          /\ UNCHANGED <<asked, run, left, carried>>
     ELSE End(r) /\ UNCHANGED lastRun
  /\ UNCHANGED <<today, counters, table, timeline, inbox, reset, begun, history, disturbed, bounds>>

\* The next run of a replay (its tickets round-robin), or the end.
Finish(r, day) ==
  IF left[r] > 1 /\ begun < MaxRuns
  THEN /\ Goto(r, "invoke")
       /\ \E t \in Tickets : asked' = [asked EXCEPT ![r].ticket = t, ![r].day = day]
       /\ left' = [left EXCEPT ![r] = @ - 1]
       /\ run' = [run EXCEPT ![r] = 0]
       /\ UNCHANGED carried
  ELSE End(r)

Report(r, day) ==
  /\ pc[r] = "report"
  /\ timeline' = timeline \cup {run[r]}
  /\ Finish(r, day)
  /\ UNCHANGED <<today, counters, table, lastRun, inbox, reset, begun, history, disturbed, bounds>>

\* Mutant: a replay reads the day once, before its loop.
appendEventOfFirstDay(r) == Report(r, asked[r].day)

appendEvent(r) == Report(r, today)

\* A table call throws; the request ends where it is.
Throw(r) ==
  /\ pc[r] # "idle"
  /\ End(r)
  /\ Fault
  /\ UNCHANGED <<today, counters, records, inbox, reset, begun, history, disturbed>>

-----------------------------------------------------------------------------
(* The presenter's reset: runs, timeline, counters, tickets, then the seed,*)
(* one after the other; and the seed by itself.                            *)

resetOnly == <<today, request, begun>>

StartReset ==
  /\ reset = "idle" /\ faults + resets < MaxTroubles
  /\ resets' = resets + 1
  /\ reset' \in {"runs", "seed"}
  /\ disturbed' = (disturbed \/ InFlight # {})
  /\ UNCHANGED <<counters, records, inbox, resetOnly, charged, called, faults>>

DeleteRuns ==
  /\ reset = "runs"
  /\ reset' = "events"
  /\ table' = {}
  /\ UNCHANGED <<counters, lastRun, timeline, inbox, resetOnly, charged, called, disturbed, bounds>>

DeleteEvents ==
  /\ reset = "events"
  /\ reset' = "counters"
  /\ timeline' = {}
  /\ UNCHANGED <<counters, table, lastRun, inbox, resetOnly, charged, called, disturbed, bounds>>

DeleteCounters ==
  /\ reset = "counters"
  /\ reset' = "tickets"
  /\ runs' = [d \in Days |-> 0] /\ charged' = [d \in Days |-> {}]
  /\ spent' = [d \in Days |-> [p \in Providers |-> 0]] /\ called' = spent'
  /\ UNCHANGED <<records, inbox, resetOnly, disturbed, bounds>>

DeleteTickets ==
  /\ reset = "tickets"
  /\ reset' = "seed"
  /\ inbox' = {}
  /\ lastRun' = [t \in Tickets |-> 0]
  /\ UNCHANGED <<counters, table, timeline, resetOnly, charged, called, disturbed, bounds>>

Seed ==
  /\ reset = "seed"
  /\ reset' = "idle"
  /\ inbox' = Tickets
  /\ lastRun' = [t \in Tickets |-> 0]
  /\ UNCHANGED <<counters, table, timeline, resetOnly, charged, called, disturbed, bounds>>

ResetFails ==
  /\ reset # "idle"
  /\ reset' = "idle"
  /\ disturbed' = TRUE
  /\ UNCHANGED <<counters, records, inbox, resetOnly, charged, called, bounds>>

Midnight ==
  /\ today < LastDay
  /\ today' = today + 1
  /\ carried' = [r \in Requests |-> 0]
  /\ UNCHANGED <<counters, records, inbox, reset, pc, asked, run, left, begun, history, disturbed,
                 bounds>>

Arrive(r) ==
  \E t \in Tickets :
    \/ run_ticket(r, t) \/ escalate_ticket(r, t) \/ runOne(r, t)
    \/ \E p \in Providers : run_provider(r, t, p)
    \/ \E n \in 1 .. ReplayMax : replay(r, t, n)

Next ==
  \/ \E r \in Requests :
       \/ Arrive(r) \/ ReadDoor(r) \/ Invoke(r)
       \/ takeProviderSlot(r) \/ ProviderSlotUnanswered(r)
       \/ takeRunSlot(r) \/ RunSlotUnanswered(r)
       \/ putRun(r) \/ updateTicketLastRun(r) \/ appendEvent(r) \/ Throw(r)
  \/ StartReset \/ DeleteRuns \/ DeleteEvents \/ DeleteCounters \/ DeleteTickets \/ Seed \/ ResetFails
  \/ Midnight

Spec == Init /\ [][Next]_vars

-----------------------------------------------------------------------------
(* Properties.                                                             *)

\* "This host refuses past N runs per UTC day" (handler.ts:226), whoever takes
\* the slots and whatever is retried or reset: every run that began since the
\* counters were last deleted is in its day's count, and the count stops at the
\* cap.
CapHolds == \A d \in Days : Cardinality(charged[d]) <= runs[d] /\ runs[d] <= Cap

\* What the cap's day leaves open: the slot is of the day the request came in
\* (handler.ts:201), so midnight may pass before it is taken.  After a midnight a
\* request begins at most one run on an old day's count; a replay does not carry
\* the old day along (handler.ts:608).
CarriedOverMidnight == \A r \in Requests : carried[r] <= 1

\* No provider is called past its own line, and every call through its door
\* has spent one of the line's slots (handler.ts:206-209), unless a reset
\* deleted the counters under a run.
DoorsHold ==
  \A d \in Days, p \in Providers :
    /\ spent[d][p] <= ProviderCap
    /\ ~ disturbed => called[d][p] <= spent[d][p]

\* The ticket's last run is a run of that ticket that the table holds, and not
\* an escalation (run.ts:217-221), unless a reset met a run or broke off.
LastRunExists ==
  ~ disturbed /\ reset = "idle" =>
    \A t \in Tickets : lastRun[t] # 0 =>
      \E x \in table : x.run = lastRun[t] /\ x.ticket = t /\ x.kind # "escalate"

\* Without failures and a reset in the way, when nothing is in flight every slot
\* taken became one run, and those on the table and on the timeline are these: a refusal
\* (the door, the freeze, the provider's line) takes no slot of the day.
SlotsBecomeRuns ==
  faults = 0 /\ ~ disturbed /\ reset = "idle" /\ InFlight = {} =>
    /\ \A d \in Days : runs[d] = Cardinality(charged[d])
    /\ timeline = {x.run : x \in table}
    /\ timeline = UNION {charged[d] : d \in Days}

\* What is counted, what is recorded and what was run agree (handler.ts:201-217,
\* run.ts:194-224): the doors' lines, the tickets' last runs and the day's slots.
LedgerHolds == DoorsHold /\ LastRunExists /\ SlotsBecomeRuns
=============================================================================
