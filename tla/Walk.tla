-------------------------------- MODULE Walk --------------------------------
(* The walk through the outside-customer path                               *)
(* (services/langchain-agent/src/walk.ts): the script names one act in      *)
(* AirPrompter after the other and waits for the person's Enter, or for the *)
(* act's effect in its own runtime; what the person types meanwhile goes    *)
(* into walk-notes.md with the step it belongs to.                          *)
(*                                                                          *)
(* A step is an "act" (Enter ends it), a "watch" (a generation does), a     *)
(* "key" (a line is the answer) or "work" (requests to the agent).  A line  *)
(* is blank or a text, told apart by its number.  The terminal hands over   *)
(* what was entered or pasted at once, a chunk of lines, and nothing else   *)
(* runs in between.                                                         *)
EXTENDS Naturals, Sequences

CONSTANTS
  MaxTexts,   \* bound: texts typed
  MaxChunk    \* bound: lines pasted at once

\* Assumed wherever the constants get their values.
WalkAssumption == MaxTexts \in Nat /\ MaxChunk \in Nat \ {0}

VARIABLES
  script,      \* the steps of this stage: fixed
  step,        \* which of them, beyond the last when it is over
  shown,       \* its instruction is on the screen
  waiting,     \* somebody waits for a line
  line,        \* the line that was handed over and not looked at yet
  notes,       \* walk-notes.md: texts and the step each is under
  from,        \* the generation a watch started from
  generation,  \* the runtime's: the SDK's last sync
  promoted,    \* AirPrompter's
  typed        \* history: the texts typed, the step on the screen, and if by themselves

terminal == <<waiting, line, notes>>
release == <<from, generation, promoted>>
vars == <<script, step, shown, terminal, release, typed>>

Act(name) == [name |-> name, kind |-> "act"]
Watch(name) == [name |-> name, kind |-> "watch"]
Work(name) == [name |-> name, kind |-> "work"]

\* Before there is a key, for a new customer or for an agent that is there already.
setup(existing) ==
  IF existing THEN <<Act("prompt-v1"), Act("provider-key")>>
  ELSE <<Act("sign-up"), Act("workspace"), Act("prompt-v1"), Act("agent"), Act("key"), Act("env"), Act("provider-key")>>

\* With the key, to the end.
run == <<Work("own-prompt"), Watch("promote-v1"), [name |-> "slot-key", kind |-> "key"],
         Work("run-v1"), Watch("ramp-v2"), Work("traffic"), Act("board")>>

Over == step > Len(script)
Name == script[step].name
Is(kind) == ~ Over /\ script[step].kind = kind

Blank == 0
Lines == 0 .. MaxTexts   \* Blank, or a text
None == MaxTexts + 1

TypeOK ==
  /\ script \in {setup(TRUE), setup(FALSE), run} /\ step \in 1 .. Len(script) + 1
  /\ {shown, waiting} \subseteq BOOLEAN /\ line \in Lines \cup {None}
  /\ {from, generation, promoted} \subseteq 0 .. 2
  /\ \A n \in notes \cup typed : n.text \in Lines \ {Blank}

Init ==
  /\ script \in {setup(TRUE), setup(FALSE), run} /\ step = 1 /\ shown = FALSE
  /\ waiting = FALSE /\ line = None /\ notes = {} /\ typed = {}
  /\ from = 0 /\ generation = 0 /\ promoted = 0

Done == step' = step + 1 /\ shown' = FALSE

-----------------------------------------------------------------------------
(* The script.                                                             *)

\* The instruction, and the line it waits for.
act ==
  /\ Is("act") \/ Is("key")
  /\ ~ shown /\ shown' = TRUE /\ waiting' = TRUE
  /\ UNCHANGED <<script, step, line, notes, release, typed>>

\* Mutant: somebody waits still.
doneStillWaiting == Done /\ UNCHANGED waiting

\* The step is over, and a line is nobody's answer.
done == Done /\ waiting' = FALSE

\* Blank is Enter, and done; a text is a note, and the step stays open.  At the key, the
\* line is the key in code, or the one configured.
answered ==
  /\ line # None /\ line' = None
  /\ IF line = Blank \/ Is("key") THEN done /\ UNCHANGED notes
     ELSE notes' = notes \cup {[text |-> line, step |-> Name]} /\ UNCHANGED <<step, shown, waiting>>
  /\ UNCHANGED <<script, release, typed>>

\* The generation to get past is read, and then the instruction shown.
actUntil == shown' = TRUE /\ from' = generation

watch ==
  /\ Is("watch") /\ ~ shown /\ actUntil
  /\ UNCHANGED <<script, step, terminal, generation, promoted, typed>>

\* A look every five seconds.
seen ==
  /\ Is("watch") /\ shown /\ generation > from
  /\ Done
  /\ UNCHANGED <<script, terminal, release, typed>>

\* Requests to the agent, one after the other, and their totals.
ask ==
  /\ Is("work") /\ Done
  /\ UNCHANGED <<script, terminal, release, typed>>

-----------------------------------------------------------------------------
(* The person, and the release.                                            *)

\* Each line of a chunk: the one that is waited for takes it, the first is what counts;
\* when nobody waits, a text is noted where the script is.
lines(chunk) ==
  IF waiting THEN line' = chunk[1] /\ UNCHANGED notes
  ELSE /\ notes' = notes \cup {[text |-> chunk[i], step |-> Name] : i \in {j \in DOMAIN chunk : chunk[j] # Blank}}
       /\ UNCHANGED line

\* The person enters a line, or pastes several; the texts are new ones.
Type ==
  /\ shown \/ Is("work")
  /\ line = None
  /\ \E n \in 1 .. MaxChunk : \E chunk \in [1 .. n -> Lines] :
       LET texts == {chunk[i] : i \in 1 .. n} \ {Blank} IN
       /\ \A i, j \in 1 .. n : chunk[i] = chunk[j] => i = j \/ chunk[i] = Blank
       /\ \A t \in typed : t.text \notin texts
       /\ lines(chunk)
       /\ typed' = typed \cup [text : texts, step : {Name}, alone : {n = 1}]
  /\ UNCHANGED <<script, step, shown, waiting, release>>

\* In the console, after the instruction.
Promote ==
  /\ Is("watch") /\ shown /\ promoted = from /\ promoted' = promoted + 1
  /\ UNCHANGED <<script, step, shown, terminal, from, generation, typed>>

\* Every fifteen seconds.
syncNow ==
  /\ generation < promoted /\ generation' = promoted
  /\ UNCHANGED <<script, step, shown, terminal, from, promoted, typed>>

Next == act \/ answered \/ watch \/ seen \/ ask \/ Type \/ Promote \/ syncNow

Spec == Init /\ [][Next]_vars

-----------------------------------------------------------------------------
(* Properties.                                                             *)

Kept(t) ==
  \/ [text |-> t.text, step |-> t.step] \in notes
  \/ line = t.text
  \/ t.step = "slot-key"

\* "Any text is kept as a note and the step stays open" (walk.ts:40): what is entered by
\* itself, at a prompt or while the script watches, is under the step it was entered at.
EnteredIsKept == \A t \in typed : t.alone => Kept(t)
=============================================================================
