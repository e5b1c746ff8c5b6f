------------------------------ MODULE DeskApp -------------------------------
(* One tab of the desk's web app (apps/desk/src/App.tsx): the timeline it   *)
(* polls with a cursor, the panel with the runs of the selected ticket, the *)
(* acts of whoever sits in front of it; and of the desk behind it what they *)
(* read, the runs and the timeline's rows, which hosts write one after the  *)
(* other, stamp by their own clocks, and the network delivers in any order. *)
(* Runs of other kinds pass the cursor as a run's does, and no more.        *)
(*                                                                          *)
(* Tickets, state, arms and approvals are read whole, with no cursor and    *)
(* nothing that depends on an earlier answer: they are left out.  A GET is  *)
(* tried three times (api.ts): a fault here is one that failed three times. *)
EXTENDS Naturals, FiniteSets, FiniteSetsExt

CONSTANTS
  Runs,          \* runs, each with a record and a row
  Tickets, First, \* the inbox, and its first ticket
  TicketOf,      \* the ticket of a run
  LIMIT,         \* rows of one answer
  MaxActs,       \* bound: selections, and acts that clear the inbox
  MaxFaults      \* bound: calls that fail

\* Assumed wherever the constants get their values.
DeskAppAssumption ==
  /\ TicketOf \in [Runs -> Tickets] /\ First \in Tickets /\ IsFiniteSet(Runs)
  /\ LIMIT \in Nat \ {0} /\ MaxActs \in Nat /\ MaxFaults \in Nat
  /\ {"none", "seed", "reset", "rows", "reload", "clear"} \cap Runs = {}

VARIABLES
  table,       \* runs that have a record
  stamp,       \* a row's instant, 0 before its host has looked at the clock
  written,     \* rows that have arrived on the timeline, or never will
  timeline,    \* rows the desk has
  poll,        \* the timeline poll: idle, asked, answered
  since,       \* the cursor it was asked with
  fresh,       \* its answer
  cursor,      \* lastEventAt, 0 when null
  events,      \* rows the tab shows
  selected,    \* the ticket of the panel
  reads,       \* reads of a ticket's runs under way
  runs,        \* runs the tab holds
  unavailable, \* "Saved replies could not be loaded"
  newestSeen,  \* seenForeignRun: the newest run's row the tab has acted on
  busy,        \* the act under way
  awaited,     \* the act waits for the poll it started
  excused,     \* history: rows the tab may miss
  disturbed,   \* history: the panel was emptied and not read since
  acts, faults \* acts and failures so far

desk == <<table, stamp, written, timeline>>
polling == <<poll, since, fresh>>
panel == <<selected, reads, runs, unavailable, disturbed>>
vars == <<desk, polling, cursor, events, panel, newestSeen, busy, awaited, excused, acts, faults>>

\* `newest` stands for request === runsRequest.current; `clean` is history: it was
\* asked after the panel was last emptied.
Reads == [ticket : Tickets, answered : BOOLEAN, seen : SUBSET Runs, newest : BOOLEAN, clean : BOOLEAN]

TypeOK ==
  /\ table \subseteq Runs /\ written \subseteq Runs /\ timeline \subseteq written
  /\ stamp \in [Runs -> 0 .. Cardinality(Runs)]
  /\ poll \in {"idle", "asked", "answered"} /\ since \in 0 .. Cardinality(Runs) /\ fresh \subseteq Runs
  /\ cursor \in 0 .. Cardinality(Runs) /\ events \subseteq Runs
  /\ selected \in Tickets /\ reads \subseteq Reads /\ runs \subseteq Runs
  /\ unavailable \in BOOLEAN /\ disturbed \in BOOLEAN
  /\ newestSeen \in Runs \cup {"none"}
  /\ busy \in Runs \cup {"none", "seed", "reset", "rows", "reload", "clear"} /\ awaited \in BOOLEAN
  /\ excused \subseteq Runs /\ acts \in 0 .. MaxActs /\ faults \in 0 .. MaxFaults

Fault == faults < MaxFaults /\ faults' = faults + 1
Act == acts < MaxActs /\ acts' = acts + 1

StampOf(S) == {stamp[r] : r \in S}
OfTicket(t, S) == {r \in S : TicketOf[r] = t}

Asked(t) == [ticket |-> t, answered |-> FALSE, seen |-> {}, newest |-> TRUE, clean |-> TRUE]

\* A tab that was just opened: the first ticket is selected and its runs are asked for.
Init ==
  /\ table = {} /\ stamp = [r \in Runs |-> 0] /\ written = {} /\ timeline = {}
  /\ poll = "idle" /\ since = 0 /\ fresh = {} /\ cursor = 0 /\ events = {}
  /\ selected = First /\ reads = {Asked(First)} /\ runs = {}
  /\ unavailable = FALSE /\ disturbed = FALSE
  /\ newestSeen = "none" /\ busy = "none" /\ awaited = FALSE
  /\ excused = {} /\ acts = 0 /\ faults = 0

-----------------------------------------------------------------------------
(* The hosts: a record, then a row; a row alone for everything else.       *)

Instant(r) == [stamp EXCEPT ![r] = Cardinality({q \in Runs : stamp[q] # 0}) + 1]

\* A run of the click under way, or another host's: the record is put, then the row's
\* instant is read and its put begins.
putRun(r) ==
  /\ r \notin written /\ stamp[r] = 0
  /\ table' = table \cup {r} /\ stamp' = Instant(r)
  /\ UNCHANGED <<written, timeline, polling, cursor, events, panel, newestSeen, busy, awaited,
                 excused, acts, faults>>

\* A row that lands behind one with a later instant may be missed: the cursor may be past it.
appendEvent(r) ==
  /\ stamp[r] # 0 /\ r \notin written
  /\ written' = written \cup {r} /\ timeline' = timeline \cup {r}
  /\ excused' = IF \E q \in written : stamp[q] > stamp[r] THEN excused \cup {r} ELSE excused
  /\ UNCHANGED <<table, stamp, polling, cursor, events, panel, newestSeen, busy, awaited, acts, faults>>

\* The put fails, and with it the answer to the click.
appendEventFails(r) ==
  /\ stamp[r] # 0 /\ r \notin written /\ Fault
  /\ written' = written \cup {r} /\ excused' = excused \cup {r}
  /\ busy' = IF busy = r THEN "none" ELSE busy
  /\ UNCHANGED <<table, stamp, timeline, polling, cursor, events, panel, newestSeen, awaited, acts>>

-----------------------------------------------------------------------------
(* The timeline.                                                           *)

\* The timer, or an act that was answered; not while an earlier poll is under way.
startPoll == IF poll = "idle" THEN poll' = "asked" /\ since' = cursor ELSE UNCHANGED <<poll, since>>

loadEvents ==
  /\ poll = "idle" /\ startPoll
  /\ UNCHANGED <<desk, fresh, cursor, events, panel, newestSeen, busy, awaited, excused, acts, faults>>

\* The newest LIMIT rows after `since`; what else there was is missed.
listEvents ==
  /\ poll = "asked"
  /\ LET later == {r \in timeline : stamp[r] > since}
         page == {r \in later : Cardinality({q \in later : stamp[q] > stamp[r]}) < LIMIT}
     IN fresh' = page /\ excused' = excused \cup (later \ page)
  /\ poll' = "answered"
  /\ UNCHANGED <<desk, since, cursor, events, panel, newestSeen, busy, awaited, acts, faults>>

\* A read of ticket t's runs replaces those under way.
loadRuns(t) == reads' = {[q EXCEPT !.newest = FALSE] : q \in reads} \cup {Asked(t)}

\* The effect on the events: a newer run's row, whoever's, reads the panel again.
seenForeignRun ==
  LET ran == events'
      newest == {r \in ran : stamp[r] = Max(StampOf(ran))}
  IN IF newest \subseteq {newestSeen} THEN UNCHANGED <<reads, newestSeen>>
     ELSE newestSeen' \in newest /\ loadRuns(selected)

\* Runs are merged by their id; the cursor is the last one's instant.
mergeEvents ==
  /\ fresh # {}
  /\ cursor' = Max(StampOf(fresh)) /\ events' = events \cup fresh

\* Mutant: an answer with nothing in it returns before the guard is down.
pollAnsweredGuarded ==
  /\ poll = "answered"
  /\ IF fresh = {} THEN UNCHANGED <<polling, cursor, events, reads, newestSeen, awaited>>
     ELSE /\ mergeEvents /\ seenForeignRun
          /\ poll' = "idle" /\ since' = 0 /\ fresh' = {} /\ awaited' = FALSE
  /\ UNCHANGED <<desk, selected, runs, unavailable, disturbed, busy, excused, acts, faults>>

pollAnswered ==
  /\ poll = "answered"
  /\ \/ mergeEvents /\ seenForeignRun
     \/ fresh = {} /\ UNCHANGED <<cursor, events, reads, newestSeen>>
  /\ poll' = "idle" /\ since' = 0 /\ fresh' = {} /\ awaited' = FALSE
  /\ UNCHANGED <<desk, selected, runs, unavailable, disturbed, busy, excused, acts, faults>>

pollFailed ==
  /\ poll # "idle" /\ Fault
  /\ poll' = "idle" /\ since' = 0 /\ fresh' = {} /\ awaited' = FALSE
  /\ UNCHANGED <<desk, cursor, events, panel, newestSeen, busy, excused, acts>>

-----------------------------------------------------------------------------
(* The panel.                                                              *)

selectTicket(t) ==
  /\ t # selected /\ Act
  /\ selected' = t /\ loadRuns(t)
  /\ UNCHANGED <<desk, polling, cursor, events, runs, unavailable, disturbed, newestSeen, busy, awaited,
                 excused, faults>>

listRunsForTicket(q) ==
  /\ q \in reads /\ ~ q.answered
  /\ reads' = (reads \ {q}) \cup {[q EXCEPT !.answered = TRUE, !.seen = OfTicket(q.ticket, table)]}
  /\ UNCHANGED <<desk, polling, cursor, events, selected, runs, unavailable, disturbed, newestSeen, busy,
                 awaited, excused, acts, faults>>

\* Mutant: whichever answer comes last is shown.
IsCurrent(q) == TRUE

\* An answer to anything but the newest request is dropped.
Current(q) == q.newest

runsAnswered(q) ==
  /\ q \in reads /\ q.answered
  /\ reads' = reads \ {q}
  /\ IF Current(q) THEN runs' = q.seen /\ unavailable' = FALSE /\ disturbed' = (disturbed /\ ~ q.clean)
     ELSE UNCHANGED <<runs, unavailable, disturbed>>
  /\ UNCHANGED <<desk, polling, cursor, events, selected, newestSeen, busy, awaited, excused, acts, faults>>

runsFailed(q) ==
  /\ q \in reads /\ Fault
  /\ reads' = reads \ {q}
  /\ unavailable' = (unavailable \/ Current(q))
  /\ UNCHANGED <<desk, polling, cursor, events, selected, runs, disturbed, newestSeen, busy, awaited, excused,
                 acts>>

-----------------------------------------------------------------------------
(* Acts, one at a time: a button is disabled while one is under way.  The   *)
(* ticket can be changed meanwhile.                                         *)

runTicket(r) ==
  /\ busy = "none" /\ stamp[r] = 0 /\ TicketOf[r] = selected
  /\ busy' = r
  /\ UNCHANGED <<desk, polling, cursor, events, panel, newestSeen, awaited, excused, acts, faults>>

\* The record goes in front of what the panel holds, whichever ticket it shows by now;
\* an answer the gateway gave up on says nothing of the run.
runAnswered ==
  /\ busy \in Runs
  /\ \/ busy \in written /\ runs' = runs \cup {busy} /\ startPoll /\ UNCHANGED faults
     \/ Fault /\ UNCHANGED <<runs, poll, since>>
  /\ busy' = "none"
  /\ UNCHANGED <<desk, fresh, cursor, events, selected, reads, unavailable, disturbed, newestSeen, awaited,
                 excused, acts>>

presenter ==
  /\ busy = "none" /\ Act /\ busy' \in {"seed", "reset"}
  /\ UNCHANGED <<desk, polling, cursor, events, panel, newestSeen, awaited, excused, faults>>

\* The desk's reset: the runs go first, then the timeline; a seed touches neither.
reset ==
  \/ /\ busy = "reset" /\ busy' = "rows" /\ table' = {} /\ UNCHANGED timeline
  \/ /\ busy = "rows" /\ busy' = "reload" /\ timeline' = {} /\ UNCHANGED table

storeReset ==
  /\ reset
  /\ UNCHANGED <<stamp, written, polling, cursor, events, panel, newestSeen, awaited, excused, acts, faults>>

\* It is answered, and the timeline asked for once more.  A seed shows the new inbox
\* and empties the panel, though the runs are still there.
presenterAnswered ==
  /\ busy \in {"seed", "reload"}
  /\ startPoll
  /\ \/ /\ busy = "reload" /\ busy' = "clear" /\ awaited' = (poll = "idle")
        /\ UNCHANGED <<runs, reads, disturbed>>
     \/ /\ busy = "seed" /\ busy' = "none" /\ UNCHANGED awaited
        /\ runs' = {} /\ disturbed' = TRUE
        /\ reads' = {[q EXCEPT !.clean = FALSE] : q \in reads}
  /\ UNCHANGED <<desk, fresh, cursor, events, selected, unavailable, newestSeen, excused, acts, faults>>

\* After that poll, if it could start one.  One that is under way still was asked for
\* with the old cursor, and moves the new one past what it did not bring.
setEvents ==
  /\ busy = "clear" /\ ~ awaited
  /\ events' = {} /\ cursor' = 0 /\ runs' = {} /\ disturbed' = TRUE
  /\ reads' = {[q EXCEPT !.clean = FALSE] : q \in reads}
  /\ excused' = IF poll = "idle" THEN excused ELSE excused \cup {r \in Runs : stamp[r] \in 1 .. since}
  /\ busy' = "none"
  /\ UNCHANGED <<desk, polling, selected, unavailable, newestSeen, awaited, acts, faults>>

-----------------------------------------------------------------------------

Poll == loadEvents \/ listEvents \/ pollAnswered
Panel == \E q \in reads : listRunsForTicket(q) \/ runsAnswered(q)
Presenter == storeReset \/ presenterAnswered \/ setEvents

Next ==
  \/ Poll \/ pollFailed \/ Panel \/ (\E q \in reads : runsFailed(q))
  \/ \E r \in Runs : putRun(r) \/ appendEvent(r) \/ appendEventFails(r) \/ runTicket(r)
  \/ \E t \in Tickets : selectTicket(t)
  \/ runAnswered \/ presenter \/ Presenter

Spec == Init /\ [][Next]_vars

\* The five-second timer, and a call that was begun is answered in the end.
Fairness == WF_vars(Poll) /\ WF_vars(Panel) /\ WF_vars(Presenter)

FairSpec == Spec /\ Fairness

-----------------------------------------------------------------------------
(* Properties.                                                             *)

\* The cursor passes no row by (App.tsx:167-172): whatever the tab did meanwhile, a row the
\* desk has is shown or still ahead of it, and in the end shown, but for one that landed
\* behind a later one, one of a burst longer than a page, and what a poll under way at a
\* reset had seen before.
RowsAhead == \A r \in timeline \ excused : r \in events \/ stamp[r] > cursor
EveryRowShown == []RowsAhead /\ <>[](timeline \ excused \subseteq events)

\* The panel has every announced run of the selected ticket, and none the desk does not
\* have, or says it could not read them, in whatever order clicks, selections, other
\* hosts' runs and answers came (App.tsx:136-154, 207-218, 233-237): as soon as no read of
\* them is under way, of the runs the tab was told of, and in the end of all; a seed or
\* reset empties it until it is read again.
PanelIsRead ==
  unavailable \/ disturbed \/ busy \in {"rows", "reload", "clear"} \/ (\E q \in reads : q.newest)
  \/ LET shown == OfTicket(selected, runs)
     IN  shown \subseteq table /\ OfTicket(selected, table \cap timeline \cap events) \ excused \subseteq shown

PanelConverges ==
  LET shown == OfTicket(selected, runs)
      announced == OfTicket(selected, table \cap timeline) \ excused
  IN []PanelIsRead /\ <>[](unavailable \/ disturbed \/ (announced \subseteq shown /\ shown \subseteq table))
=============================================================================
