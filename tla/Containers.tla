----------------------------- MODULE Containers -----------------------------
(* The desk's host: one Lambda function whose containers each start an      *)
(* agent SDK of their own on first use and keep it                          *)
(* (services/desk-api/src/runtime.ts), answer one request at a time         *)
(* (handler.ts), and write one status row between them.  Every container    *)
(* has its own store under /tmp: a run's reference means something only     *)
(* where it was minted, and what is not yet uploaded goes when the          *)
(* container goes.  Uploads pass the tee (tee.ts), which writes what was    *)
(* accepted as CloudWatch metrics too.                                      *)
(*                                                                          *)
(* The slots, caps and doors a run passes first are in Runs and             *)
(* ProviderSwitch; a request here is what is left of it: a run, feedback on *)
(* one, or the status tick (the state poll takes the same steps).           *)
EXTENDS Naturals

CONSTANTS
  Containers,
  Runs,
  MaxGeneration, \* bound: releases, numbered as they are published
  VersionOf,     \* the version, arm and model a release serves a customer
  MaxFaults      \* bound: calls that fail, and containers that are replaced

\* Assumed wherever the constants get their values.
ContainersAssumption == MaxGeneration \in Nat \ {0} /\ MaxFaults \in Nat

Generations == 1 .. MaxGeneration

Versions == {VersionOf[g] : g \in Generations}

NoneAssumption == "none" \notin Runs \cup Versions

\* What a window counts: a run, or feedback on one, under the version it landed on.
Observations == [run : Runs, kind : {"run", "feedback"}, version : Versions]

VARIABLES
  published,  \* the newest release in AirPrompter
  freshStore, \* the store has yet to accept the newer root document
  memo,       \* the memoised start: none, a host, or a rejected promise
  generation, \* the release it serves
  mints,      \* runs whose reference this container can parse
  spool,      \* observations not yet accepted
  request,    \* the request it answers and where that stands
  version,    \* of a run: as its record has it
  told,       \* of a run: what became of the feedback on it
  platform,   \* observations AirPrompter has
  emitted,    \* of an observation: how often it was written as a metric
  row,        \* the generation on the status row
  faults      \* failures so far

container == <<freshStore, memo, generation, mints, spool>>
records == <<version, told>>
vars == <<published, container, request, records, platform, emitted, row, faults>>

\* A request that was answered leaves nothing behind, but for a 503.
Requests ==
  [kind : {"run", "feedback", "tick"}, run : Runs \cup {"none"},
   at : {"idle", "start", "sync", "work", "flush", "tell", "row", "put", "unavailable"},
   retried : BOOLEAN,    \* the start was tried a second time
   failed : BOOLEAN,     \* a call of its start failed
   filed : BOOLEAN,      \* the feedback landed
   put : 0 .. MaxGeneration]

TypeOK ==
  /\ published \in Generations
  /\ freshStore \in [Containers -> BOOLEAN] 
  /\ memo \in [Containers -> {"none", "host", "rejected"}]
  /\ generation \in [Containers -> Generations]
  /\ mints \in [Containers -> SUBSET Runs]
  /\ spool \in [Containers -> SUBSET Observations]
  /\ request \in [Containers -> Requests]
  /\ version \in [Runs -> Versions \cup {"none"}]
  /\ told \in [Runs -> {"nothing", "asked", "filed", "refused"}]
  /\ platform \subseteq Observations
  /\ emitted \in [Observations -> 0 .. 2]
  /\ row \in 0 .. MaxGeneration
  /\ faults \in 0 .. MaxFaults

Idle == [kind |-> "tick", run |-> "none", at |-> "idle", retried |-> FALSE, failed |-> FALSE,
         filed |-> FALSE, put |-> 0]

Init ==
  /\ published = 1
  /\ freshStore = [c \in Containers |-> TRUE] /\ memo = [c \in Containers |-> "none"]
  /\ generation = [c \in Containers |-> 1]
  /\ mints = [c \in Containers |-> {}] /\ spool = [c \in Containers |-> {}]
  /\ request = [c \in Containers |-> Idle]
  /\ version = [r \in Runs |-> "none"] /\ told = [r \in Runs |-> "nothing"]
  /\ platform = {} /\ emitted = [o \in Observations |-> 0]
  /\ row = 0 /\ faults = 0

Fault == faults < MaxFaults /\ faults' = faults + 1

At(c, pc) == request[c].at = pc
Goto(c, pc) == request' = [request EXCEPT ![c].at = pc]
Answer(c) == request' = [request EXCEPT ![c] = Idle]
Unavailable(c, why) == request' = [request EXCEPT ![c] = [Idle EXCEPT !.at = "unavailable", !.failed = why]]

-----------------------------------------------------------------------------
(* A request comes to a container that answers none.                       *)

createHandler(c, kind, r) ==
  /\ At(c, "idle") \/ At(c, "unavailable")
  /\ IF memo[c] = "rejected" THEN Unavailable(c, FALSE)
     ELSE request' = [request EXCEPT ![c] =
            [Idle EXCEPT !.kind = kind, !.run = r, !.at = IF memo[c] = "host" THEN "sync" ELSE "start"]]
  /\ UNCHANGED <<published, container, version, platform, emitted, row, faults>>

StatusTick(c) == createHandler(c, "tick", "none") /\ UNCHANGED told

\* A run, or feedback on a run that has a record; each is asked for once.
Click(c) ==
  \E r \in Runs :
    \/ /\ version[r] = "none" /\ \A d \in Containers : request[d].run # r
       /\ createHandler(c, "run", r) /\ UNCHANGED told
    \/ /\ version[r] # "none" /\ told[r] = "nothing"
       /\ createHandler(c, "feedback", r) /\ told' = [told EXCEPT ![r] = "asked"]

\* Mutant: the rejected promise stays.
getHostMemoised(c) ==
  /\ memo' = [memo EXCEPT ![c] = "rejected"]
  /\ Unavailable(c, TRUE)

\* A start that fails is not kept: `pending` is null again when the 503 is answered.
getHost(c) ==
  /\ memo' = [memo EXCEPT ![c] = "none"]
  /\ Unavailable(c, TRUE)

\* The SDK's fresh-store root race (#52): the store has the root now, and the start is
\* tried once more; a second failure is thrown whatever it is.
startWithRetry(c) ==
  /\ freshStore' = [freshStore EXCEPT ![c] = FALSE]
  /\ IF request[c].retried THEN Unavailable(c, FALSE) ELSE request' = [request EXCEPT ![c].retried = TRUE]
  /\ UNCHANGED memo

\* The key is read, the SDK starts on the newest release, the timeline gets its
\* host_started row: any of these may fail.
startHost(c) ==
  /\ At(c, "start")
  /\ \/ /\ memo' = [memo EXCEPT ![c] = "host"] /\ generation' = [generation EXCEPT ![c] = published]
        /\ freshStore' = [freshStore EXCEPT ![c] = FALSE] /\ UNCHANGED faults
        /\ request' = [request EXCEPT ![c].at = "sync", ![c].retried = FALSE]
     \/ freshStore[c] /\ startWithRetry(c) /\ UNCHANGED <<generation, faults>>
     \/ getHost(c) /\ Fault /\ UNCHANGED <<generation, freshStore>>
  /\ UNCHANGED <<published, mints, spool, records, platform, emitted, row>>

-----------------------------------------------------------------------------
(* Inside ap.invoke: a sync pass, the request's own work, the flush.       *)

\* A pull that fails leaves the release that is served.
Sync(c) ==
  /\ At(c, "sync")
  /\ \/ generation' = [generation EXCEPT ![c] = published] /\ UNCHANGED faults
     \/ Fault /\ UNCHANGED generation
  /\ Goto(c, IF request[c].kind = "tick" THEN "flush" ELSE "work")
  /\ UNCHANGED <<published, freshStore, memo, mints, spool, records, platform, emitted, row>>

Observe(c, kind, v) ==
  spool' = [spool EXCEPT ![c] = @ \cup {[run |-> request[c].run, kind |-> kind, version |-> v]}]

runTicket(c) ==
  /\ At(c, "work") /\ request[c].kind = "run"
  /\ LET v == VersionOf[generation[c]] IN
       /\ Observe(c, "run", v)
       /\ version' = [version EXCEPT ![request[c].run] = v]
  /\ mints' = [mints EXCEPT ![c] = @ \cup {request[c].run}]
  /\ Goto(c, "flush")
  /\ UNCHANGED <<published, freshStore, memo, generation, told, platform, emitted, row, faults>>

\* The version feedback on run r would land on here: the one its reference names where
\* it parses; otherwise the one this container renders for the same customer, if that
\* is the run's.
ReDerived(c, r) ==
  IF r \in mints[c] \/ VersionOf[generation[c]] = version[r] THEN version[r] ELSE "none"

\* A render that fails is a refusal too.
fileFeedback(c) ==
  /\ At(c, "work") /\ request[c].kind = "feedback"
  /\ LET r == request[c].run
         v == ReDerived(c, r)
     IN \/ /\ v # "none"
           /\ Observe(c, "feedback", v)
           /\ request' = [request EXCEPT ![c].at = "flush", ![c].filed = TRUE]
           /\ UNCHANGED faults
        \/ /\ r \notin mints[c]
           /\ IF v = "none" THEN UNCHANGED faults ELSE Fault
           /\ Goto(c, "flush") /\ UNCHANGED spool
  /\ UNCHANGED <<published, freshStore, memo, generation, mints, records, platform, emitted, row>>

\* Mutant: the metrics are written before the answer is known.
emfLinesOfAttempt(c, accepted) == [o \in Observations |-> emitted[o] + (IF o \in spool[c] THEN 1 ELSE 0)]

\* What the tee writes of an upload: its rows, if AirPrompter accepted it.
emfLinesOf(c, accepted) ==
  [o \in Observations |-> emitted[o] + (IF accepted /\ o \in spool[c] THEN 1 ELSE 0)]

\* The upload is accepted; refused, and its rows are kept for the next; or accepted
\* and not answered, and kept as well.
teeFetch(c) ==
  \/ /\ platform' = platform \cup spool[c] /\ emitted' = emfLinesOf(c, TRUE)
     /\ spool' = [spool EXCEPT ![c] = {}] /\ UNCHANGED faults
  \/ /\ platform' \in {platform, platform \cup spool[c]} /\ emitted' = emfLinesOf(c, FALSE)
     /\ Fault /\ UNCHANGED spool

Flush(c) ==
  /\ At(c, "flush")
  /\ IF spool[c] = {} THEN UNCHANGED <<platform, emitted, spool, faults>> ELSE teeFetch(c)
  /\ Goto(c, IF request[c].kind = "feedback" THEN "tell" ELSE "row")
  /\ UNCHANGED <<published, freshStore, memo, generation, mints, records, row>>

-----------------------------------------------------------------------------
(* After the invoke: what is recorded of it.                               *)

\* The feedback row says what became of it.  The call may fail: a 500, and no row.
putFeedback(c) ==
  /\ At(c, "tell")
  /\ \/ /\ told' = [told EXCEPT ![request[c].run] = IF request[c].filed THEN "filed" ELSE "refused"]
        /\ Goto(c, "row") /\ UNCHANGED faults
     \/ Fault /\ Answer(c) /\ UNCHANGED told
  /\ UNCHANGED <<published, container, version, platform, emitted, row>>

\* Mutant: the row of a container that just started is written.
writeStatusOfStart(c) ==
  /\ At(c, "row") /\ row = 0
  /\ request' = [request EXCEPT ![c].at = "put", ![c].put = generation[c]]
  /\ UNCHANGED <<published, container, records, platform, emitted, row, faults>>

\* The status document is composed of what the SDK says now and replaces the row.
writeStatus(c) ==
  /\ At(c, "row")
  /\ request' = [request EXCEPT ![c].at = "put", ![c].put = generation[c]]
  /\ UNCHANGED <<published, container, records, platform, emitted, row, faults>>

putStatus(c) ==
  /\ At(c, "put")
  /\ \/ row' = request[c].put /\ Answer(c) /\ UNCHANGED faults
     \/ row' \in {row, request[c].put} /\ Answer(c) /\ Fault
  /\ UNCHANGED <<published, container, records, platform, emitted>>

-----------------------------------------------------------------------------
(* Around the containers.                                                  *)

Publish ==
  /\ published + 1 \in Generations
  /\ published' = published + 1
  /\ UNCHANGED <<container, request, records, platform, emitted, row, faults>>

\* Lambda replaces a container between requests or at its timeout; /tmp and what was
\* being answered go with it.
Recycle(c) ==
  /\ Fault
  /\ freshStore' = [freshStore EXCEPT ![c] = TRUE] /\ memo' = [memo EXCEPT ![c] = "none"]
  /\ mints' = [mints EXCEPT ![c] = {}] /\ spool' = [spool EXCEPT ![c] = {}]
  /\ request' = [request EXCEPT ![c] = Idle]
  /\ generation' = [generation EXCEPT ![c] = 1]
  /\ UNCHANGED <<published, records, platform, emitted, row>>

Work(c) ==
  \/ startHost(c) \/ Sync(c) \/ runTicket(c) \/ fileFeedback(c) \/ Flush(c)
  \/ putFeedback(c) \/ writeStatus(c) \/ putStatus(c)

Next == (\E c \in Containers : StatusTick(c) \/ Click(c) \/ Work(c) \/ Recycle(c)) \/ Publish

Spec == Init /\ [][Next]_vars

\* EventBridge ticks every five minutes, and a request that was begun is answered.
Fairness == WF_vars(\E c \in Containers : StatusTick(c)) /\ WF_vars(\E c \in Containers : Work(c))

FairSpec == Spec /\ Fairness

-----------------------------------------------------------------------------
(* Properties.                                                             *)

\* "memoised; a failed start is retried by the next invocation (SDK #52's fresh-store
\* race: once, at once)" (runtime.ts:19): a request is answered 503 only when a call
\* of its own start failed, never for an earlier one's failure nor for the race.
RefusedForAReason == \A c \in Containers : At(c, "unavailable") => request[c].failed

\* "feedback would land on the wrong version, so it is refused" (handler.ts:373):
\* wherever it is given, and whatever was published in between, feedback lands on the
\* version the run was served by.
FeedbackLandsRight ==
  LET landed == {o \in platform \cup UNION {spool[c] : c \in Containers} : o.kind = "feedback"}
  IN \A o \in landed : o.version = version[o.run]

\* "A window reaches CloudWatch exactly when it reaches AirPrompter" (tee.ts:11): never
\* before, and once, though an upload is repeated; what was accepted without an answer
\* and then lost with its container is missing there.
MetricsFollow == \A o \in Observations : emitted[o] <= 1 /\ (emitted[o] = 1 => o \in platform)

\* The row is all containers', and a slow one may put an older release back
\* (runtime.ts:205); the ticks see to it that it is in the end the newest's:
\* "so the card never goes stale between runs" (handler.ts:9).
RowConverges == <>[](row = published)
=============================================================================
