----------------------------- MODULE TicketQueue ----------------------------
(***************************************************************************)
(* Tickets for the eu-west host: the queue the presenter appends to and    *)
(* the workers take from (store.ts:322-347), the inbox the timer walks     *)
(* (worker.ts:60-79), the reset that clears one and re-seeds the other     *)
(* (store.ts:399-411), and runOne, one ticket at a time (worker.ts:183).   *)
(* While an instance is replaced two workers share the host id, so the     *)
(* queue has several readers.  Every call to a table is one step.          *)
(*                                                                         *)
(* A queue item is only a ticket id in the table; `id` tells apart two     *)
(* entries of the same ticket.  An update whose answer is lost is retried  *)
(* by the AWS client: it is applied and the caller asks again.             *)
(***************************************************************************)
EXTENDS Naturals, Sequences, FiniteSetsExt

CONSTANTS
  Tickets,     \* ticket ids, in their sorting order
  Workers,     \* worker processes of the host, old instance and new
  Attempts,    \* entries one pass may take off the queue (worker.ts:71)
  MaxEntries,  \* bound: entries ever put on the queue
  MaxResets,   \* bound: resets of the tables
  MaxFaults    \* bound: failed calls, lost answers and crashes

ASSUME TicketsAssumption == Tickets \subseteq Nat \ {0} /\ Tickets # {}
ASSUME BoundsAssumption ==
  Attempts \in Nat \ {0} /\ MaxEntries \in Nat /\ MaxResets \in Nat /\ MaxFaults \in Nat

VARIABLES
  queue,   \* the host's queue item, oldest entry first
  placed,  \* entries put on the queue so far
  fate,    \* history: what became of each entry
  inbox,   \* the tickets the table holds
  desk,    \* the ticket an enqueue is about to append, 0 when none
  reset,   \* the next call of the reset
  pc,      \* the next call of each worker; "off": not serving
  head,    \* the ticket each worker read off the queue or the inbox
  held,    \* the entry each worker took off the queue
  misses,  \* entries of this pass the inbox no longer held
  cursor,  \* the ticket each timer ran last, 0 before the first
  faults,
  resets

bounds == <<faults, resets>>
worker == <<pc, head, held, misses, cursor>>
vars == <<queue, placed, fate, inbox, desk, reset, worker, bounds>>

Ids == 1 .. MaxEntries
Entry == [id : Ids, ticket : Tickets]
Fates == {"none", "waiting", "held", "ran", "refused", "unknown", "failed", "cleared"}
PCs == {"off", "idle", "get", "remove", "lookup", "slot", "run"}

TypeOK ==
  /\ queue \in Seq(Entry)
  /\ placed \in 0 .. MaxEntries
  /\ fate \in [Ids -> Fates]
  /\ inbox \in SUBSET Tickets
  /\ desk \in Tickets \cup {0}
  /\ reset \in {"idle", "clear", "delete", "seed"}
  /\ pc \in [Workers -> PCs]
  /\ head \in [Workers -> Tickets \cup {0}]
  /\ held \in [Workers -> SUBSET Entry]
  /\ misses \in [Workers -> 0 .. Attempts - 1]
  /\ cursor \in [Workers -> Tickets \cup {0}]
  /\ faults \in 0 .. MaxFaults
  /\ resets \in 0 .. MaxResets

Init ==
  /\ queue = <<>>
  /\ placed = 0
  /\ fate = [e \in Ids |-> "none"]
  /\ inbox = Tickets
  /\ desk = 0
  /\ reset = "idle"
  /\ pc = [w \in Workers |-> "off"]
  /\ head = [w \in Workers |-> 0]
  /\ held = [w \in Workers |-> {}]
  /\ misses = [w \in Workers |-> 0]
  /\ cursor = [w \in Workers |-> 0]
  /\ faults = 0
  /\ resets = 0

Fault == faults < MaxFaults /\ faults' = faults + 1 /\ UNCHANGED resets

\* The entries of S have met `what`.
Meet(S, what) == fate' = [e \in Ids |-> IF \E x \in S : x.id = e THEN what ELSE fate[e]]

-----------------------------------------------------------------------------
(* The desk: enqueue looks the ticket up, then appends it (handler.ts:432). *)

deskOnly == <<inbox, reset, worker>>

AskEnqueue(t) ==
  /\ desk = 0 /\ placed < MaxEntries
  /\ t \in inbox
  /\ desk' = t
  /\ UNCHANGED <<queue, placed, fate, deskOnly, bounds>>

enqueueTicket ==
  /\ desk # 0 /\ placed < MaxEntries
  /\ placed' = placed + 1
  /\ queue' = Append(queue, [id |-> placed', ticket |-> desk])
  /\ fate' = [fate EXCEPT ![placed'] = "waiting"]

\* Mutant: the new entry goes to the front of the list.
EnqueueInFront ==
  /\ desk # 0 /\ placed < MaxEntries
  /\ placed' = placed + 1
  /\ queue' = <<[id |-> placed', ticket |-> desk]>> \o queue
  /\ fate' = [fate EXCEPT ![placed'] = "waiting"]
  /\ desk' = 0
  /\ UNCHANGED <<deskOnly, bounds>>

Enqueue == enqueueTicket /\ desk' = 0 /\ UNCHANGED <<deskOnly, bounds>>
EnqueueUnanswered == enqueueTicket /\ Fault /\ UNCHANGED <<desk, deskOnly>>
EnqueueFails ==
  /\ desk # 0
  /\ desk' = 0
  /\ Fault
  /\ UNCHANGED <<queue, placed, fate, deskOnly>>

-----------------------------------------------------------------------------
(* The desk: reset scans the counters and deletes what it saw, then deletes *)
(* the inbox and seeds it again, in batches (store.ts:399-411).             *)

resetOnly == <<placed, desk, worker>>

\* A host without a queue item had nothing for the scan to see.
StartReset ==
  /\ reset = "idle" /\ resets < MaxResets
  /\ \/ reset' = "clear"
     \/ queue = <<>> /\ reset' = "delete"
  /\ resets' = resets + 1
  /\ UNCHANGED <<queue, fate, inbox, resetOnly, faults>>

ClearQueue ==
  /\ reset = "clear"
  /\ reset' = "delete"
  /\ queue' = <<>>
  /\ Meet({queue[k] : k \in DOMAIN queue}, "cleared")
  /\ UNCHANGED <<inbox, resetOnly, bounds>>

DeleteTickets ==
  /\ reset = "delete"
  /\ inbox' \in SUBSET inbox
  /\ reset' = IF inbox' = {} THEN "seed" ELSE "delete"
  /\ UNCHANGED <<queue, fate, resetOnly, bounds>>

SeedTickets ==
  /\ reset = "seed"
  /\ inbox' \in {S \in SUBSET Tickets : inbox \subseteq S}
  /\ reset' = IF inbox' = Tickets THEN "idle" ELSE "seed"
  /\ UNCHANGED <<queue, fate, resetOnly, bounds>>

ResetFails ==
  /\ reset # "idle"
  /\ reset' = "idle"
  /\ Fault
  /\ UNCHANGED <<queue, fate, inbox, resetOnly>>

-----------------------------------------------------------------------------
(* The worker.                                                             *)

workerOnly == <<placed, inbox, desk, reset>>

\* runOne's `finally`: the worker is free, whatever it held has met `what`.
\* `next` is "off" when the process itself is gone.
EndRun(w, what, next) ==
  /\ pc' = [pc EXCEPT ![w] = next]
  /\ Meet(held[w], what)
  /\ held' = [held EXCEPT ![w] = {}]
  /\ head' = [head EXCEPT ![w] = 0]
  /\ misses' = [misses EXCEPT ![w] = 0]

Goto(w, next) == pc' = [pc EXCEPT ![w] = next]

\* The SDK serves a verified release.
attach(w) ==
  /\ pc[w] = "off"
  /\ Goto(w, "idle")
  /\ UNCHANGED <<queue, fate, head, held, misses, cursor, workerOnly, bounds>>

ReadQueue(w) ==
  /\ IF queue = <<>>
     THEN EndRun(w, "none", "idle")
     ELSE /\ Goto(w, "remove")
          /\ head' = [head EXCEPT ![w] = Head(queue).ticket]
          /\ UNCHANGED <<fate, held, misses>>
  /\ UNCHANGED <<queue, cursor, workerOnly, bounds>>

\* Mutant: the poll does not look at `running`.
PollAnytime(w) == pc[w] # "off" /\ ReadQueue(w)

\* The queue poll, or the next attempt of its pass: read the head.
PollQueue(w) == pc[w] \in {"idle", "get"} /\ ReadQueue(w)

HeadStands(w) == queue # <<>> /\ Head(queue).ticket = head[w]

TakeHead(w) ==
  /\ Goto(w, "lookup")
  /\ queue' = Tail(queue)
  /\ held' = [held EXCEPT ![w] = {Head(queue)}]
  /\ Meet({Head(queue)}, "held")
  /\ UNCHANGED <<head, misses>>

\* Mutant: an entry is taken only once its ticket is known.
RemoveKnown(w) ==
  /\ pc[w] = "remove"
  /\ IF HeadStands(w) /\ head[w] \in inbox
     THEN TakeHead(w)
     ELSE EndRun(w, "none", "idle") /\ UNCHANGED queue
  /\ UNCHANGED <<cursor, workerOnly, bounds>>

\* Only the head this reader saw is removed; otherwise the pass is over.
dequeueTicket(w) ==
  /\ pc[w] = "remove"
  /\ IF HeadStands(w) THEN TakeHead(w) ELSE EndRun(w, "none", "idle") /\ UNCHANGED queue
  /\ UNCHANGED <<cursor, workerOnly, bounds>>

DequeueUnanswered(w) ==
  /\ pc[w] = "remove"
  /\ HeadStands(w)
  /\ queue' = Tail(queue)
  /\ Meet({Head(queue)}, "failed")
  /\ Fault
  /\ UNCHANGED <<worker, workerOnly>>

\* An id the inbox no longer holds is dropped and the next one tried.
LookUpTrying(w, attempts) ==
  /\ pc[w] = "lookup"
  /\ IF head[w] \in inbox
     THEN Goto(w, "slot") /\ UNCHANGED <<fate, head, held, misses>>
     ELSE IF misses[w] + 1 = attempts
     THEN EndRun(w, "unknown", "idle")
     ELSE /\ Goto(w, "get")
          /\ Meet(held[w], "unknown")
          /\ held' = [held EXCEPT ![w] = {}]
          /\ misses' = [misses EXCEPT ![w] = @ + 1]
          /\ UNCHANGED head
  /\ UNCHANGED <<queue, cursor, workerOnly, bounds>>

LookUp(w) == LookUpTrying(w, Attempts)

\* Mutant: the round starts over every time.
FirstInboxTicket(w) == Min(inbox)

\* Round-robin by id; from the start when the last one is no longer there.
nextInboxTicket(w) ==
  LET later == {t \in inbox : t > cursor[w]}
  IN  IF cursor[w] \in inbox /\ later # {} THEN Min(later) ELSE Min(inbox)

TimerTicket(w) ==
  /\ pc[w] = "idle"
  /\ inbox # {}
  /\ Goto(w, "slot")
  /\ head' = [head EXCEPT ![w] = nextInboxTicket(w)]
  /\ cursor' = [cursor EXCEPT ![w] = nextInboxTicket(w)]
  /\ UNCHANGED <<queue, fate, held, misses, workerOnly, bounds>>

\* The daily cap is the counters' business: here it may or may not refuse.
takeRunSlot(w) ==
  /\ pc[w] = "slot"
  /\ \/ Goto(w, "run") /\ UNCHANGED <<fate, head, held, misses>>
     \/ EndRun(w, "refused", "idle")
  /\ UNCHANGED <<queue, cursor, workerOnly, bounds>>

runTicket(w) ==
  /\ pc[w] = "run"
  /\ EndRun(w, "ran", "idle")
  /\ UNCHANGED <<queue, cursor, workerOnly, bounds>>

Step(w) == dequeueTicket(w) \/ LookUp(w) \/ takeRunSlot(w) \/ runTicket(w)

\* A call throws: the ticket in hand is gone.
Throw(w) ==
  /\ pc[w] \notin {"off", "idle"}
  /\ EndRun(w, "failed", "idle")
  /\ Fault
  /\ UNCHANGED <<queue, cursor, workerOnly>>

\* SIGTERM, a crash or the end of the instance: nothing waits for the run.
Stop(w) ==
  /\ pc[w] # "off"
  /\ EndRun(w, "failed", "off")
  /\ cursor' = [cursor EXCEPT ![w] = 0]
  /\ Fault
  /\ UNCHANGED <<queue, workerOnly>>

-----------------------------------------------------------------------------

Next ==
  \/ \E t \in Tickets : AskEnqueue(t)
  \/ Enqueue \/ EnqueueUnanswered \/ EnqueueFails
  \/ StartReset \/ ClearQueue \/ DeleteTickets \/ SeedTickets \/ ResetFails
  \/ \E w \in Workers :
       \/ attach(w) \/ PollQueue(w) \/ TimerTicket(w)
       \/ Step(w) \/ DequeueUnanswered(w) \/ Throw(w) \/ Stop(w)

Spec == Init /\ [][Next]_vars

\* A release can be verified, calls return, and neither the poll nor the timer
\* is shut out for ever by the other: the timer is due once an interval of
\* minutes, the poll comes every ten seconds.
Fairness ==
  \A w \in Workers :
    /\ WF_vars(attach(w)) /\ WF_vars(Step(w))
    /\ SF_vars(PollQueue(w)) /\ SF_vars(TimerTicket(w))

FairSpec == Spec /\ Fairness

-----------------------------------------------------------------------------
(* Properties.                                                             *)

\* Every entry is accounted for: it waits in the queue, once, or is in the
\* hand of one worker, or has met its end; and without a fault that end is a
\* run, the cap's refusal, a ticket the inbox no longer held, or the reset.
\* Two workers never hold one entry ("two workers on one queue never take the
\* same ticket twice", store.ts:340), no run forgets the one it took, and it runs
\* the ticket of that entry, not one it had read there before (store.ts:335-342).
EntriesAccounted ==
  /\ \A e \in Ids :
       LET places == {k \in DOMAIN queue : queue[k].id = e}
           hands == {w \in Workers : \E x \in held[w] : x.id = e}
       IN  /\ Cardinality(places) = IF fate[e] = "waiting" THEN 1 ELSE 0
           /\ Cardinality(hands) = IF fate[e] = "held" THEN 1 ELSE 0
           /\ fate[e] = "failed" => faults > 0
  /\ \A w \in Workers : \A x \in held[w] : x.ticket = head[w]

\* The line moves: an entry does not wait for ever, even behind ids that a
\* reset has removed from the inbox (worker.ts:76).
Drains == \A e \in Ids : fate[e] = "waiting" ~> fate[e] # "waiting"

\* A ticket that stays in the inbox comes up on some worker's timer again and
\* again, whatever is queued in between (worker.ts:59).
EveryTicketComesUp ==
  \A t \in Tickets :
    <>[](t \in inbox) => []<>(\E w \in Workers : pc[w] = "slot" /\ held[w] = {} /\ head[w] = t)

\* The table, the retries and the workers together are an at-most-once FIFO
\* queue.
Fifo == INSTANCE FifoQueue WITH waiting <- queue, hands <- held, put <- placed
IsFifo == Fifo!Spec
=============================================================================
