------------------------------- MODULE Cadence -------------------------------
(* Demo mode: one document in SSM that says how often the eu-west workers   *)
(* run a ticket (desk-api/src/demoMode.ts).  The desk writes it, on for     *)
(* four hours or off; whoever reads it applies the same fail-closed rules:  *)
(* the Node worker's timer (eu-host/src/worker.ts, TicketCadence), the      *)
(* Python worker's loop (host/pyworker.py) and the desk's own card, through *)
(* a short cache (hostPower.ts).                                            *)
(*                                                                          *)
(* The readers do not meet, so a behaviour has one of them.  Time passes in *)
(* ticks, and not while something is due.  The runs of a ticket are in      *)
(* TicketQueue and Runs.                                                    *)
EXTENDS Integers

CONSTANTS
  LIFE,     \* DEMO_MODE_MAX_HOURS
  SLACK,    \* how much longer a document may say, and how far a reader's clock is behind
  POLL,     \* between two readings: a minute, or the desk's cache
  IDLE, DEMO, FIRST,  \* between tickets, idle and in demo mode, and before the first
  MaxRun    \* bound: what one ticket takes the Python worker, which calls for 45 s at most

\* Assumed wherever the constants get their values.
CadenceAssumption ==
  /\ {LIFE, POLL, IDLE, DEMO, FIRST} \subseteq Nat \ {0} /\ {SLACK, MaxRun} \subseteq Nat
  /\ SLACK < LIFE /\ DEMO < IDLE /\ FIRST <= DEMO /\ MaxRun < DEMO

VARIABLES
  reader,     \* "node", "python" or "desk": fixed
  lag,        \* its clock is behind the desk's by as much: fixed
  parameter,  \* the document in SSM
  mode,       \* the mode in force for the reader
  cached,     \* of the desk: the text it keeps
  asked,      \* the text a reading under way got, or none
  poll,       \* ticks to its next reading
  next,       \* ticks to the next ticket
  busy,       \* of the Python worker: ticks its run may take still
  since,      \* history: ticks since the last ticket was due, or since the start
  age,        \* history: ticks since the document last began to say something else (Write)
  unread      \* history: nothing was read since the start, or since a reading failed

world == <<reader, lag>>
timer == <<next, busy, since>>
reading == <<mode, cached, asked, poll, unread>>
vars == <<world, parameter, timer, reading, age>>

\* What the text says; `left` is what is left of an expiry by the desk's clock.
Texts == [mode : {"absent", "unparseable", "unknown_mode", "off", "no_expiry"}, left : {0}]
           \cup [mode : {"on"}, left : -SLACK .. LIFE + SLACK + 1]
None == [mode |-> "none", left |-> 0]

Late == POLL + POLL + SLACK + MaxRun

TypeOK ==
  /\ reader \in {"node", "python", "desk"} /\ lag \in 0 .. SLACK
  /\ parameter \in Texts /\ mode \in {"on", "off"}
  /\ cached \in Texts \cup {None} /\ asked \in Texts \cup {None} /\ poll \in 0 .. POLL
  /\ next \in 0 .. IDLE /\ busy \in 0 .. MaxRun /\ since \in 0 .. IDLE + MaxRun
  /\ age \in 0 .. Late + 1 /\ unread \in BOOLEAN

-----------------------------------------------------------------------------
(* The rules, and what they make of a clock that is behind.                *)

\* Mutant: an expiry is looked for, and not looked at.
parseUntil(text) == IF text.mode = "on" THEN "on" ELSE "off"

\* On only when the text parses, says on, and names an expiry that is ahead and no
\* further than the longest the desk writes, give or take a minute.
parseDemoMode(text) ==
  IF text.mode = "on" /\ text.left + lag \in 1 .. LIFE + SLACK THEN "on" ELSE "off"

\* What the desk writes.
demoModeDocument(m) == [mode |-> m, left |-> IF m = "on" THEN LIFE ELSE 0]

Shorter(text) == IF text.mode = "on" /\ text.left > -SLACK THEN [text EXCEPT !.left = @ - 1] ELSE text

\* Every reader starts off and not having read; the desk has no timer.
Init ==
  /\ reader \in {"node", "python", "desk"} /\ lag \in 0 .. SLACK
  /\ parameter \in {demoModeDocument("on"), demoModeDocument("off"), [mode |-> "absent", left |-> 0]}
  /\ mode = "off" /\ cached = None /\ asked = None /\ poll = 0 /\ unread = TRUE
  /\ next = FIRST /\ busy = 0 /\ since = 0
  /\ age = 0

Interval(m) == IF m = "on" THEN DEMO ELSE IDLE

-----------------------------------------------------------------------------
(* The document.                                                           *)

\* What a text says: at either edge, one thing or the other.
Says(text) ==
  IF text.mode # "on" \/ text.left \notin 1 - SLACK .. LIFE + SLACK THEN "off"
  ELSE IF text.left \in 1 .. LIFE THEN "on" ELSE "either"

\* The desk goes by the text it keeps as long as that lasts: there, another text counts.
Write(text) ==
  /\ parameter' = text
  /\ age' = IF text = parameter \/ (reader # "desk" /\ Says(text) = Says(parameter)) THEN age ELSE 0

\* The presenter's click, answered by the container at hand, which keeps what it wrote,
\* or by another.
demo_mode ==
  /\ \E m \in {"on", "off"} :
       /\ Write(demoModeDocument(m))
       /\ \/ UNCHANGED reading
          \/ /\ reader = "desk" /\ asked = None
             /\ cached' = demoModeDocument(m) /\ poll' = POLL
             /\ mode' = parseDemoMode(cached') /\ unread' = FALSE
             /\ UNCHANGED asked
  /\ UNCHANGED <<world, timer>>

\* The owner's, from a terminal.
PutByHand ==
  /\ \E text \in Texts : Write(text)
  /\ UNCHANGED <<world, timer, reading>>

-----------------------------------------------------------------------------
(* A reading.                                                              *)

\* Mutant: the timer starts afresh.
setModeAfresh(m) == next' = IF m = mode THEN next ELSE Interval(m)

\* A change of mode pulls the next ticket forward, and never further out.
setMode(m) ==
  next' = IF m = mode \/ next <= Interval(m) THEN next ELSE Interval(m)

\* The reading begins: the text as it is now.  The Python worker does nothing else
\* meanwhile, and nothing while a ticket runs.
ask ==
  /\ asked = None /\ poll = 0 /\ busy = 0
  /\ asked' = parameter
  /\ UNCHANGED <<world, parameter, timer, mode, cached, poll, unread, age>>

\* A worker's: the mode, and the timer under it.  The loop of the Python worker counts
\* from before the run it may have just done.
readDemoMode ==
  /\ reader # "desk" /\ asked # None
  /\ setMode(parseDemoMode(asked)) /\ mode' = parseDemoMode(asked)
  /\ unread' = FALSE /\ asked' = None
  /\ poll' \in IF reader = "python" THEN 1 .. POLL ELSE {POLL}
  /\ UNCHANGED <<world, parameter, cached, busy, since, age>>

\* A failed one leaves the last reading in force.
readDemoModeFails ==
  /\ reader # "desk" /\ asked # None
  /\ unread' = TRUE /\ asked' = None /\ poll' = POLL
  /\ UNCHANGED <<world, parameter, timer, mode, cached, age>>

\* The desk's card: the text through its cache, as it reads now.
read ==
  /\ reader = "desk"
  /\ \/ /\ asked = None /\ poll > 0
        /\ mode' = parseDemoMode(cached)
        /\ UNCHANGED <<cached, poll, unread, asked>>
     \/ /\ asked # None
        /\ cached' = asked /\ mode' = parseDemoMode(asked) /\ poll' = POLL
        /\ unread' = FALSE /\ asked' = None
  /\ UNCHANGED <<world, parameter, timer, age>>

\* Unreadable: off, says the card, and the next poll asks again.
readFails ==
  /\ reader = "desk" /\ asked # None
  /\ mode' = "off" /\ unread' = TRUE /\ asked' = None
  /\ UNCHANGED <<world, parameter, timer, cached, poll, age>>

-----------------------------------------------------------------------------
(* The timer.                                                              *)

\* A ticket is due, and the next one counted from now; the Python worker is busy with
\* it for a while.
due ==
  /\ reader # "desk" /\ next = 0 /\ busy = 0
  /\ reader = "python" => asked = None
  /\ next' = Interval(mode) /\ since' = 0
  /\ busy' \in IF reader = "python" THEN 0 .. MaxRun ELSE {0}
  /\ UNCHANGED <<world, parameter, reading, age>>

\* systemd starts the worker again, Lambda the desk.
Restart ==
  /\ mode' = "off" /\ cached' = None /\ asked' = None /\ poll' = 0 /\ unread' = TRUE
  /\ next' = FIRST /\ busy' = 0 /\ since' = 0
  /\ UNCHANGED <<world, parameter, age>>

Less(n) == IF n > 0 THEN n - 1 ELSE 0

\* Nothing that is due waits for a tick, but for the Python worker's run; the desk is
\* asked by somebody's poll.
Tick ==
  /\ asked = None
  /\ busy > 0 \/ (poll > 0 /\ (reader = "desk" \/ next > 0))
  /\ parameter' = Shorter(parameter) /\ cached' = IF cached = None THEN None ELSE Shorter(cached)
  /\ age' = IF Says(parameter') # Says(parameter) THEN 0 ELSE IF age > Late THEN age ELSE age + 1
  /\ poll' = Less(poll) /\ busy' = Less(busy)
  /\ IF reader = "desk" THEN UNCHANGED <<next, since>> ELSE next' = Less(next) /\ since' = since + 1
  /\ UNCHANGED <<world, mode, asked, unread>>

Next ==
  \/ demo_mode \/ PutByHand \/ ask \/ readDemoMode \/ readDemoModeFails \/ read \/ readFails
  \/ due \/ Restart \/ Tick

Spec == Init /\ [][Next]_vars

-----------------------------------------------------------------------------
(* Properties.                                                             *)

\* "the workers read it within a minute" (handler.ts:528) and a forgotten switch "costs
\* at most four hours of demo cadence" (demoMode.ts:14): whatever it said before, and
\* whoever wrote it, a reader is in the mode the document has had for two polls and the
\* Python worker's run, unless its last reading failed.
ReadingCurrent ==
  age > Late /\ ~ unread /\ Says(parameter) # "either" => mode = Says(parameter)

\* "a mode change pulls the next ticket forward to at most one new interval away and
\* never further out" (eu-host/src/demoMode.ts:8): tickets come an idle interval apart at
\* the latest, however often the switch is turned, and within one interval in force.
TicketsComeInTime == since + next <= IDLE + MaxRun /\ next <= Interval(mode)
=============================================================================
