------------------------------- MODULE Puller -------------------------------
(***************************************************************************)
(* The puller (services/puller/src): a Lambda function that a schedule (a  *)
(* tick) or a message of the nudge queue wakes.  A pass reads its state    *)
(* object, pulls the release into the datastore, and mirrors the air-gapped*)
(* host's status document on the desk.  Passes overlap: a write of the     *)
(* state object is conditioned on its ETag, everything else is not.        *)
(*                                                                         *)
(* A pass is fresh as long as the object is still the one it read.  A      *)
(* fresh pass's copy is the object, so only what a pass uses after it may  *)
(* have lost the race is kept: what it mirrored last, and the document.    *)
(* The applies of the air-gapped host are numbered as they come.           *)
(*                                                                         *)
(* What is not here decides nothing: the puller's own row, the rows for    *)
(* failed pulls, starts, keys, exports and health.                         *)
(***************************************************************************)
EXTENDS Naturals, SequencesExt, FiniteSetsExt

CONSTANTS
  Ticks,        \* passes the schedule may have in flight together
  Nudges,       \* passes the queue may have in flight together
  Messages,
  NoMessage,    \* a tick's
  NudgeIdsKept, \* NUDGE_IDS_KEPT
  MaxReceive,   \* times a message is received before the dead-letter queue
  Skips,        \* ticks the SDK's nextPullDelayMs may stretch an interval by
  AppliesKept,  \* STATUS_APPLIES_KEPT
  MaxGeneration,\* bound: generations AirPrompter serves
  MaxDocs,      \* bound: documents the air-gapped host writes
  MaxApplies,   \* bound: applies it makes, numbered as they come
  MaxFaults     \* bound: calls that fail or are not answered, duplicate deliveries

ASSUME PassesAssumption == Ticks \cap Nudges = {} /\ NoMessage \notin Messages
ASSUME KeptAssumption == NudgeIdsKept \in Nat \ {0} /\ AppliesKept \in Nat \ {0} /\ MaxReceive \in Nat \ {0}
ASSUME SkipsAssumption == Skips # {} /\ Skips \subseteq Nat
ASSUME BoundsAssumption ==
  MaxGeneration \in Nat /\ MaxDocs \in Nat /\ MaxApplies \in Nat /\ MaxFaults \in Nat

VARIABLES
  state,     \* puller/state.json
  fresh,     \* the passes whose version is still the object's
  pc,        \* the next call of each pass
  message,   \* the message that woke it
  again,     \* the passes that run once more after a lost race
  plan,      \* what the pass does about the release, then what came of it
  generation,\* what it stored and has to announce
  previous,  \* what had been mirrored when it last wrote its state
  mirror,    \* the document it mirrors, and the applies it has left to show
  queue,     \* where each message is
  received,  \* times each was received
  stored,    \* the generations the datastore holds
  doc,       \* status/airgap.json: when written, the first and the last apply it holds
  row,       \* the document the desk's row of that host shows
  shown,     \* the applies on the timeline
  announced, \* rows bundle_pulled of each generation
  told,      \* rows nudged of each message
  history,   \* the passes whose delivery made a pull, the newest document the row has shown
  faults

pass == <<fresh, pc, message, again, plan, generation, previous, mirror>>
nudge == <<queue, received>>
release == <<stored, announced>>
desk == <<row, shown>>
vars == <<state, pass, nudge, release, doc, desk, told, history, faults>>

Passes == Ticks \cup Nudges
Applies == 1 .. MaxApplies
Generations == 1 .. MaxGeneration
Mirrored == [written : 0 .. MaxDocs, applied : 0 .. MaxApplies]
Plans == {"none", "backoff", "pull", "ok", "held up"}
PCs == {"idle", "read", "count", "nudged", "pull", "announce", "save", "look", "row", "show", "keep", "done"}
Newest(S) == Max(S \cup {0})
Never == [written |-> 0, applied |-> 0]
NoDoc == [written |-> 0, applied |-> 0, show |-> {}]

TypeOK ==
  /\ state \in [nudges : Nat, nudgeIds : Seq(Messages), skip : Nat, mirrored : Mirrored]
  /\ Len(state.nudgeIds) <= NudgeIdsKept
  /\ fresh \in SUBSET Passes
  /\ pc \in [Passes -> PCs]
  /\ message \in [Passes -> Messages \cup {NoMessage}]
  /\ again \in SUBSET Nudges
  /\ plan \in [Passes -> Plans]
  /\ generation \in [Passes -> 0 .. MaxGeneration]
  /\ previous \in [Passes -> Mirrored]
  /\ mirror \in [Passes -> [written : 0 .. MaxDocs, applied : 0 .. MaxApplies, show : SUBSET Applies]]
  /\ queue \in [Messages -> {"unsent", "queued", "taken", "done", "dropped", "gone"}]
  /\ received \in [Messages -> 0 .. MaxReceive]
  /\ stored \in SUBSET Generations
  /\ doc \in [written : 0 .. MaxDocs, from : 1 .. MaxApplies + 1, to : 0 .. MaxApplies]
  /\ doc.to < doc.from + AppliesKept
  /\ row \in 0 .. MaxDocs
  /\ shown \in SUBSET Applies
  /\ announced \in [Generations -> Nat]
  /\ told \in [Messages -> Nat]
  /\ history \in [served : SUBSET Nudges, newest : 0 .. MaxDocs]
  /\ faults \in 0 .. MaxFaults

\* EMPTY_STATE; a seeded exchange without a document.
Init ==
  /\ state = [nudges |-> 0, nudgeIds |-> <<>>, skip |-> 0, mirrored |-> Never]
  /\ fresh = {} /\ again = {}
  /\ pc = [p \in Passes |-> "idle"]
  /\ message = [p \in Passes |-> NoMessage]
  /\ plan = [p \in Passes |-> "none"]
  /\ generation = [p \in Passes |-> 0]
  /\ previous = [p \in Passes |-> Never]
  /\ mirror = [p \in Passes |-> NoDoc]
  /\ queue = [m \in Messages |-> "unsent"]
  /\ received = [m \in Messages |-> 0]
  /\ stored = {}
  /\ doc = [written |-> 0, from |-> 1, to |-> 0]
  /\ row = 0 /\ shown = {}
  /\ announced = [g \in Generations |-> 0]
  /\ told = [m \in Messages |-> 0]
  /\ history = [served |-> {}, newest |-> 0]
  /\ faults = 0

Goto(p, next) == pc' = [pc EXCEPT ![p] = next]
Fault == faults < MaxFaults /\ faults' = faults + 1

-----------------------------------------------------------------------------
(* Waking and ending.                                                      *)

\* The pass forgets everything; its message goes where `where` says.
Leave(p, where) ==
  /\ Goto(p, "idle")
  /\ again' = again \ {p}
  /\ message' = [message EXCEPT ![p] = NoMessage]
  /\ generation' = [generation EXCEPT ![p] = 0]
  /\ plan' = [plan EXCEPT ![p] = "none"]
  /\ previous' = [previous EXCEPT ![p] = Never]
  /\ mirror' = [mirror EXCEPT ![p] = NoDoc]
  /\ queue' = IF p \in Ticks THEN queue ELSE [queue EXCEPT ![message[p]] = where]
  /\ UNCHANGED received

\* The message is handled; it was dropped if this delivery never made a pull.
Return(p) == Leave(p, IF p \in history.served THEN "done" ELSE "dropped")

\* The pass throws: the queue delivers its message again, or gives it up.
Throws(p) ==
  LET m == message[p]
  IN  Leave(p, IF p \in Ticks \/ queue[m] # "taken" THEN queue[m]
               ELSE IF received[m] < MaxReceive THEN "queued" ELSE "gone")

tick(p) ==
  /\ p \in Ticks /\ pc[p] = "idle"
  /\ Goto(p, "read")
  /\ UNCHANGED <<state, fresh, message, again, plan, generation, previous, mirror, nudge, release,
                 doc, desk, told, history, faults>>

Receive(p, m) ==
  /\ p \in Nudges /\ pc[p] = "idle"
  /\ received[m] < MaxReceive
  /\ received' = [received EXCEPT ![m] = @ + 1]
  /\ queue' = [queue EXCEPT ![m] = "taken"]
  /\ message' = [message EXCEPT ![p] = m]
  /\ Goto(p, "read")
  /\ history' = [history EXCEPT !.served = @ \ {p}]
  /\ UNCHANGED <<state, fresh, again, plan, generation, previous, mirror, release, doc, desk, told>>

Deliver(p, m) == queue[m] = "queued" /\ Receive(p, m) /\ UNCHANGED faults

\* The queue may deliver a message twice, once it was handled or while it is.
DeliverAgain(p, m) == queue[m] \in {"taken", "done", "dropped"} /\ Receive(p, m) /\ Fault

\* The desk posts a message; one that expires in the queue is one that is never
\* delivered.
Send(m) ==
  /\ queue[m] = "unsent"
  /\ queue' = [queue EXCEPT ![m] = "queued"]
  /\ UNCHANGED <<state, pass, received, release, doc, desk, told, history, faults>>

-----------------------------------------------------------------------------
(* The state object.                                                       *)

\* A write of other bytes: every other pass's version is an old one now.
Put(p, value) == state' = value /\ fresh' = fresh \cap {p}

\* A lost race: a tick stops, a nudge runs once more, and then throws.
RaceLost(p) ==
  IF p \in Ticks THEN Return(p)
  ELSE IF p \in again THEN Throws(p)
  ELSE /\ Goto(p, "read")
       /\ again' = again \cup {p}
       /\ plan' = [plan EXCEPT ![p] = "none"]
       /\ previous' = [previous EXCEPT ![p] = Never]
       /\ mirror' = [mirror EXCEPT ![p] = NoDoc]
       /\ UNCHANGED <<message, generation, nudge>>

\* If-Match holds.
CanPut(p) == p \in fresh

\* Mutant: every delivery counts.
countNudgeAgain(m) == TRUE

countNudge(m) == m \notin Range(state.nudgeIds)

planPull(p, key) ==
  IF key = "malformed" THEN "none"
  ELSE IF p \in Ticks /\ state.skip > 0 THEN "backoff"
  ELSE IF key = "unreadable" THEN "none" ELSE "pull"

Planned(what) == IF what = "pull" THEN "pull" ELSE "save"

\* The read, and what it finds of the keys: usable, malformed or unreadable.
\* A nudge that cannot be honoured throws.
Read(p, key) ==
  /\ pc[p] = "read"
  /\ IF key = "unreadable" /\ p \in Nudges
     THEN Throws(p) /\ UNCHANGED <<fresh, history>>
     ELSE /\ plan' = [plan EXCEPT ![p] = planPull(p, key)]
          /\ fresh' = fresh \cup {p}
          /\ Goto(p, IF p \in Nudges /\ countNudge(message[p]) THEN "count" ELSE Planned(plan'[p]))
          /\ history' = IF key = "malformed" /\ p \in Nudges
                        THEN [history EXCEPT !.served = @ \cup {p}] ELSE history
          /\ UNCHANGED <<message, again, generation, previous, mirror, nudge>>
  /\ UNCHANGED <<state, release, doc, desk, told, faults>>

\* Only the newest ids are kept.
Counted(m) ==
  [state EXCEPT !.nudges = @ + 1,
                !.nudgeIds = IF Len(@) = NudgeIdsKept THEN Append(Tail(@), m) ELSE Append(@, m)]

CountNudge(p) ==
  /\ pc[p] = "count"
  /\ IF CanPut(p)
     THEN /\ Put(p, Counted(message[p]))
          /\ Goto(p, "nudged")
          /\ UNCHANGED <<message, again, plan, generation, previous, mirror, nudge>>
     ELSE RaceLost(p) /\ UNCHANGED <<state, fresh>>
  /\ UNCHANGED <<release, doc, desk, told, history, faults>>

Nudged(p) ==
  /\ pc[p] = "nudged"
  /\ told' = [told EXCEPT ![message[p]] = @ + 1]
  /\ Goto(p, Planned(plan[p]))
  /\ UNCHANGED <<state, fresh, message, again, plan, generation, previous, mirror, nudge, release,
                 doc, desk, history, faults>>

-----------------------------------------------------------------------------
(* pullToDatastore, the SDK's: a generation is stored once; what it answers*)
(* of one that is held is free.  "Held up" stands for every answer without *)
(* a generation: unchanged, refused, unavailable, nothing promoted.        *)

Answers(p, outcome, g) ==
  /\ plan' = [plan EXCEPT ![p] = outcome]
  /\ generation' = [generation EXCEPT ![p] = g]
  /\ Goto(p, IF g = 0 THEN "save" ELSE "announce")
  /\ history' = IF p \in Nudges THEN [history EXCEPT !.served = @ \cup {p}] ELSE history
  /\ UNCHANGED <<state, fresh, message, again, previous, mirror, nudge, announced, doc,
                 desk, told>>

\* A generation newer than any the datastore holds.
Stores(g) == g > Newest(stored) /\ stored' = stored \cup {g}

pullToDatastore(p, held) ==
  /\ pc[p] = "pull"
  /\ \/ \E g \in Generations : Stores(g) /\ Answers(p, "ok", g)
     \/ stored # {} /\ Answers(p, "ok", held) /\ UNCHANGED stored
     \/ Answers(p, "held up", 0) /\ UNCHANGED stored
  /\ UNCHANGED faults

\* Mutant: a generation that was held is announced again.
PullAndAnnounce(p) == pullToDatastore(p, Newest(stored))

Pull(p) == pullToDatastore(p, 0)

\* The generation is stored, and then the datastore fails.
PullHalf(p) ==
  /\ pc[p] = "pull"
  /\ \E g \in Generations : Stores(g)
  /\ Fault
  /\ Goto(p, "save")
  /\ plan' = [plan EXCEPT ![p] = "held up"]
  /\ history' = IF p \in Nudges THEN [history EXCEPT !.served = @ \cup {p}] ELSE history
  /\ UNCHANGED <<state, fresh, message, again, generation, previous, mirror, nudge, announced,
                 doc, desk, told>>

\* bundle_pulled, of the generation this pass has stored.
Announce(p) ==
  /\ pc[p] = "announce"
  /\ announced' = [announced EXCEPT ![generation[p]] = @ + 1]
  /\ generation' = [generation EXCEPT ![p] = 0]
  /\ Goto(p, "save")
  /\ UNCHANGED <<state, fresh, message, again, plan, previous, mirror, nudge, stored, doc,
                 desk, told, history, faults>>

\* The ticks to skip after a tick that changed nothing, or a failure; a change
\* and a nudge take up the schedule again.
advance(p) ==
  {[state EXCEPT !.skip = n] : n \in IF plan[p] = "ok" \/ p \in Nudges THEN {0} ELSE Skips}

\* What the pass leaves in its state about the release.
Saved(p) ==
  CASE plan[p] = "backoff" -> {[state EXCEPT !.skip = @ - 1]}
    [] plan[p] = "none" -> {state}
    [] OTHER -> advance(p)

Save(p) ==
  /\ pc[p] = "save"
  /\ IF CanPut(p)
     THEN /\ state' \in Saved(p)
          /\ fresh' = IF plan[p] = "none" THEN fresh ELSE fresh \cap {p}
          /\ plan' = [plan EXCEPT ![p] = "none"]
          /\ previous' = [previous EXCEPT ![p] = state.mirrored]
          /\ Goto(p, "look")
          /\ UNCHANGED <<message, again, generation, mirror, nudge>>
     ELSE RaceLost(p) /\ UNCHANGED <<state, fresh>>
  /\ UNCHANGED <<release, doc, desk, told, history, faults>>

-----------------------------------------------------------------------------
(* The mirror: the row, then the timeline, then the state.                 *)

\* Mutant: one row for each document.
SinceNewest(applies, applied) == {a \in applies : a > applied /\ a = Max(applies)}

\* The applies newer than the last one mirrored; at first the newest only.
Since(applies, applied) ==
  {a \in applies : IF applied # 0 THEN a > applied ELSE a = Max(applies)}

\* What is new is mirrored; nothing is when the document is the one mirrored
\* last, or cannot be read: refused, removed, not a document.
Look(p, next) ==
  /\ pc[p] = "look"
  /\ \/ /\ doc.written # previous[p].written
        /\ mirror' = [mirror EXCEPT ![p] =
                        [written |-> doc.written,
                         applied |-> Newest((doc.from .. doc.to) \cup {previous[p].applied}),
                         show |-> Since(doc.from .. doc.to, previous[p].applied)]]
        /\ Goto(p, next)
     \/ Goto(p, "done") /\ UNCHANGED mirror
  /\ previous' = [previous EXCEPT ![p] = Never]
  /\ UNCHANGED <<state, fresh, message, again, plan, generation, nudge, release, doc, desk,
                 told, history, faults>>

\* Mutant: the state is written before the row and the timeline.
LookKeepingFirst(p) == Look(p, "keep")

readStatusDoc(p) == Look(p, "row")

updateStatus(p) ==
  /\ pc[p] = "row"
  /\ row' = mirror[p].written
  /\ history' = [history EXCEPT !.newest = IF row' > @ THEN row' ELSE @]
  /\ Goto(p, IF mirror[p].show = {} THEN "keep" ELSE "show")
  /\ UNCHANGED <<state, fresh, message, again, plan, generation, previous, mirror, nudge, release,
                 doc, shown, told, faults>>

appendEvent(p) ==
  LET left == mirror[p].show
  IN  /\ pc[p] = "show"
      /\ shown' = shown \cup {Min(left)}
      /\ mirror' = [mirror EXCEPT ![p].show = left \ {Min(left)}]
      /\ Goto(p, IF Cardinality(left) = 1 THEN "keep" ELSE "show")
      /\ UNCHANGED <<state, fresh, message, again, plan, generation, previous, nudge, release, doc,
                     row, told, history, faults>>

Kept(p) ==
  [state EXCEPT !.mirrored = [written |-> mirror[p].written, applied |-> mirror[p].applied]]

Keep(p) ==
  /\ pc[p] = "keep"
  /\ IF CanPut(p)
     THEN /\ Put(p, Kept(p))
          /\ mirror' = [mirror EXCEPT ![p] = NoDoc]
          /\ Goto(p, "done")
          /\ UNCHANGED <<message, again, plan, generation, previous, nudge>>
     ELSE RaceLost(p) /\ UNCHANGED <<state, fresh>>
  /\ UNCHANGED <<release, doc, desk, told, history, faults>>

\* The puller's own row, and the pass is over.
writePullerRow(p) ==
  /\ pc[p] = "done"
  /\ Return(p)
  /\ fresh' = fresh \ {p}
  /\ UNCHANGED <<state, release, doc, desk, told, history, faults>>

-----------------------------------------------------------------------------
(* Failures.                                                               *)

\* The object was written, but the answer was lost: the client's second try is
\* refused, and the pass takes itself for the loser.
WrittenUnanswered(p) ==
  /\ p \in fresh /\ Fault
  /\ \/ pc[p] = "count" /\ state' = Counted(message[p])
     \/ pc[p] = "save" /\ plan[p] # "none" /\ state' \in Saved(p)
     \/ pc[p] = "keep" /\ state' = Kept(p)
  /\ fresh' = {}
  /\ RaceLost(p)
  /\ UNCHANGED <<release, doc, desk, told, history>>

\* A call throws, or the function times out.
Fail(p) ==
  /\ pc[p] # "idle" /\ Fault
  /\ Throws(p)
  /\ fresh' = fresh \ {p}
  /\ UNCHANGED <<state, release, doc, desk, told, history>>

-----------------------------------------------------------------------------
(* Around the puller.                                                      *)

\* The air-gapped host writes its document, after an apply or without; a put
\* that was refused shows in the next.  It holds the newest applies of its
\* process, and after a start only those made since.  (An apply that was in no
\* document before a start, nobody outside has seen: it has no number.)
writeStatus(to, start) ==
  /\ doc.written < MaxDocs
  /\ doc' = [written |-> doc.written + 1, to |-> to, from |-> Max({start, to + 1 - AppliesKept})]
  /\ UNCHANGED <<state, pass, nudge, release, desk, told, history, faults>>

buildStatusDoc == \E to \in doc.to .. MaxApplies, start \in {doc.from, doc.to + 1} : writeStatus(to, start)

Step(p) ==
  \/ \E key \in {"usable", "malformed", "unreadable"} : Read(p, key)
  \/ CountNudge(p) \/ Nudged(p)
  \/ Pull(p) \/ Announce(p) \/ Save(p)
  \/ readStatusDoc(p) \/ updateStatus(p) \/ appendEvent(p) \/ Keep(p) \/ writePullerRow(p)

\* The schedule and the queue invoke it, and its concurrency is not limited to one.
Next ==
  \/ \E p \in Passes :
       \/ tick(p) \/ Step(p) \/ PullHalf(p) \/ WrittenUnanswered(p) \/ Fail(p)
       \/ \E m \in Messages : Deliver(p, m) \/ DeliverAgain(p, m)
  \/ \E m \in Messages : Send(m)
  \/ buildStatusDoc

Spec == Init /\ [][Next]_vars

-----------------------------------------------------------------------------
(* Properties.                                                             *)

\* "A nudge is counted and announced once per message id" (docs/FLEET.md:47),
\* whatever brings the message back, as long as its id is among those kept.
NudgeCountedOnce ==
  LET ids == state.nudgeIds
  IN  /\ IsInjective(ids)
      /\ state.nudges <= NudgeIdsKept =>
           /\ state.nudges = Len(ids)
           /\ \A m \in Messages : told[m] <= IF m \in Range(ids) THEN 1 ELSE 0

\* "What a person asked for is never dropped" (handler.ts:235): a delivery only takes
\* its message off the queue as handled once it has made a pull itself, or was
\* stopped by a malformed key, whatever other deliveries of it did.
NudgeHonoured == \A m \in Messages : queue[m] # "dropped"

\* A nudge counts once and is not dropped, both at once: what guards against the one
\* is what could cause the other (handler.ts:116-131, plan.ts:99).
NudgesAccounted == NudgeCountedOnce /\ NudgeHonoured

\* A generation is announced at most once, and without failures as soon as the
\* pass that stored it is past it.
BundleAnnounced ==
  \A g \in Generations :
    /\ announced[g] <= 1
    /\ faults = 0 /\ g \in stored /\ (\A p \in Passes : generation[p] # g) => announced[g] = 1

\* The applies a step takes for mirrored are on the timeline, as far as the
\* document still holds them.
Shows(since) ==
  \A a \in since + 1 .. state'.mirrored.applied : a \in shown \/ a < doc.from

\* "Every apply newer than the last one mirrored" is on the timeline before the
\* state says so, and "never the newest" is lost (mirror.ts:34-36), whoever
\* failed and whoever lost the race.
AppliesShown ==
  [][/\ state.mirrored.applied # 0 => Shows(state.mirrored.applied)
     /\ state'.mirrored.applied \in shown \cup {state.mirrored.applied}]_vars

\* What the state says was mirrored has been on the desk's row of the host: the row
\* is as new as that, or a pass that looked earlier has written an older document
\* over a newer one.
RowHolds == state.mirrored.written <= history.newest
=============================================================================
