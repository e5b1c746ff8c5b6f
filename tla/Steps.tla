-------------------------------- MODULE Steps --------------------------------
(* What a run does between its slot and its record: it renders a prompt of  *)
(* the release the SDK serves, calls the model, waits for the observation   *)
(* the SDK files of the call, checks and judges the answer, and does so for *)
(* each of its steps (services/desk-api/src/run.ts, which the Node worker   *)
(* shares; the Python worker has a step of its own, pyworker.py:337-403).   *)
(* A release may be activated between any two of these.                     *)
(*                                                                          *)
(* The slot, and the order of the calls that record the run, are in Runs.   *)
EXTENDS Naturals, Sequences, Functions

CONSTANTS
  Callable,       \* the releases whose reply model the Python worker can call
  MaxGeneration,  \* bound: releases
  MaxSteps        \* bound: no run begins after as many steps

\* Assumed wherever the constants get their values.
StepsAssumption == MaxGeneration \in Nat \ {0} /\ MaxSteps \in Nat

VARIABLES
  runtime,     \* "node" or "python": fixed
  generation,  \* the release the SDK serves
  made,        \* steps made so far
  kind,        \* of the run: "run", "direct" when a provider writes its reply, or "escalate"
  pc,
  plan,        \* the steps to come, the present one first
  step,        \* the record of the present step
  answer,      \* what the model said: "text", "empty", or "none" when the call failed
  calls,       \* model calls so far; a call's number is the observation filed of it
  late,        \* calls whose observation is still to be filed
  captured,    \* Node: the observations collected for the present call
  last,        \* Python: the callback's last observation, 0 for none
  steps,       \* the records of the run's steps
  record,      \* the run that was put last, until the next begins
  row,         \* its row on the timeline: the release, and the reply's version by the release it is of
  feedback     \* what was filed of the reply's checks

sdk == <<runtime, generation>>
process == <<calls, late, captured, last>>
written == <<record, row, feedback>>
vars == <<sdk, made, kind, pc, plan, step, answer, process, steps, written>>

Names == {"triage", "reply", "summary", "handoff"}
Outputs == {"none", "empty", "text"}
CallIds == 0 .. MaxSteps + 1
StepRecord ==
  [step : Names, generation : 0 .. MaxGeneration, call : CallIds, observation : CallIds,
   output : Outputs, checks : {"none", "pass", "fail"}, judged : BOOLEAN, error : BOOLEAN]
Kinds == {"run", "direct", "escalate"}
RunRecord == [kind : Kinds, generation : 0 .. MaxGeneration, steps : Seq(StepRecord), ok : BOOLEAN]

TypeOK ==
  /\ runtime \in {"node", "python"} /\ generation \in 1 .. MaxGeneration /\ made \in 0 .. MaxSteps + 1
  /\ kind \in Kinds /\ pc \in {"idle", "render", "call", "wait", "checks", "judge", "record"}
  /\ plan \in Seq(Names) /\ step \in StepRecord /\ answer \in Outputs
  /\ calls \in CallIds /\ late \subseteq CallIds /\ captured \in Seq(CallIds) /\ last \in CallIds
  /\ steps \in Seq(StepRecord) /\ record \in RunRecord
  /\ row \in [generation : 0 .. MaxGeneration, version : 0 .. MaxGeneration]
  /\ feedback \in {"none", "accepted", "refused"}

emptyStep(name) ==
  [step |-> name, generation |-> 0, call |-> 0, observation |-> 0, output |-> "none",
   checks |-> "none", judged |-> FALSE, error |-> FALSE]
Nothing == emptyStep("reply")
NoRecord == [kind |-> "run", generation |-> 0, steps |-> <<>>, ok |-> FALSE]
NoRow == [generation |-> 0, version |-> 0]

Init ==
  /\ runtime \in {"node", "python"} /\ generation = 1 /\ made = 0
  /\ kind = "run" /\ pc = "idle" /\ plan = <<>> /\ step = Nothing /\ answer = "none"
  /\ calls = 0 /\ late = {} /\ captured = <<>> /\ last = 0
  /\ steps = <<>> /\ record = NoRecord /\ row = NoRow /\ feedback = "none"

-----------------------------------------------------------------------------
(* The run.                                                                *)

\* Python's runs are minutes apart (pyworker.py:410), and what was filed of the last
\* one's calls is filed by then.
runTicket ==
  /\ pc = "idle" /\ made < MaxSteps
  /\ runtime = "python" => late = {}
  /\ kind' \in (IF runtime = "python" THEN {"run"} ELSE Kinds)
  /\ plan' = CASE runtime = "python" -> <<"reply">>
               [] kind' = "escalate" -> <<"summary">>
               [] OTHER -> <<"triage", "reply">>
  /\ step' = emptyStep(Head(plan')) /\ pc' = "render"
  /\ record' = NoRecord /\ row' = NoRow /\ feedback' = "none"
  /\ UNCHANGED <<sdk, made, answer, steps, process>>

\* The step is over, well or not: the reply is tried whatever triage came to, the handoff
\* only for a summary that says something.
Over(s) ==
  LET rest == IF s.step = "summary" /\ s.output = "text" THEN <<"handoff">> ELSE Tail(plan) IN
  /\ made' = made + 1 /\ steps' = Append(steps, s) /\ plan' = rest
  /\ pc' = (IF rest = <<>> THEN "record" ELSE "render")
  /\ step' = (IF rest = <<>> THEN Nothing ELSE emptyStep(Head(rest)))

\* What a step throws is its error; Python then looks once more for the observation.
Failed(s) ==
  Over([s EXCEPT !.error = TRUE,
          !.observation = IF runtime = "python" /\ s.observation = 0 THEN last ELSE s.observation])

\* The prompt of the release that serves now; the render may be refused.
render ==
  /\ pc = "render"
  /\ \/ /\ step' = [step EXCEPT !.generation = generation] /\ pc' = "call"
        /\ UNCHANGED <<made, plan, steps>>
     \/ Failed(step)
  /\ UNCHANGED <<sdk, kind, answer, process, written>>

\* Only the reply goes to the provider.
ViaDirect == kind = "direct" /\ step.step = "reply"

\* The model is called and answers; the SDK files the observation when it does, if it can
\* tell whose call it was.
Call ==
  /\ calls' = calls + 1 /\ late' \in {late, late \cup {calls'}}
  /\ step' = [step EXCEPT !.call = calls'] /\ answer' \in Outputs
  /\ captured' = <<>> /\ last' = 0 /\ pc' = "wait"
  /\ UNCHANGED <<made, plan, steps>>

\* Bedrock, by the model the release names.
complete ==
  /\ pc = "call" /\ runtime = "node" /\ ~ ViaDirect /\ Call
  /\ UNCHANGED <<sdk, kind, written>>

\* The provider, by the model the deployment names, once its key could be read.
completeDirect ==
  /\ pc = "call" /\ ViaDirect
  /\ Call \/ (Failed(step) /\ UNCHANGED <<answer, process>>)
  /\ UNCHANGED <<sdk, kind, written>>

\* Python does not call every model, and forgets the last observation only before a call
\* it makes.
completion ==
  /\ pc = "call" /\ runtime = "python"
  /\ IF step.generation \in Callable THEN Call ELSE (Failed(step) /\ UNCHANGED <<answer, process>>)
  /\ UNCHANGED <<sdk, kind, written>>

\* Mutant: one list for whoever waits, not one for each call.
collectorOfAll(c) == step.call

\* Whose list an observation is pushed to: that of the call it was filed in.
collector(c) == c

observe(c) ==
  /\ c \in late /\ late' = late \ {c}
  /\ IF runtime = "python" THEN last' = c /\ UNCHANGED captured
     ELSE /\ captured' = IF pc = "wait" /\ collector(c) = step.call THEN Append(captured, c) ELSE captured
          /\ UNCHANGED last
  /\ UNCHANGED <<sdk, made, kind, pc, plan, step, answer, calls, steps, written>>

\* The observation is waited for, but not for longer than half a second; Python does not
\* wait for that of a call that failed.
collectObservations ==
  LET seen == IF runtime = "python" THEN last ELSE IF captured = <<>> THEN 0 ELSE Head(captured)
      s == [step EXCEPT !.observation = seen, !.output = answer]
  IN  /\ pc = "wait"
      /\ IF answer = "none" THEN Failed(s)
         ELSE step' = s /\ pc' = "checks" /\ UNCHANGED <<made, plan, steps>>
      /\ UNCHANGED <<sdk, kind, answer, process, written>>

checks ==
  /\ pc = "checks"
  /\ \/ \E verdict \in {"none", "pass", "fail"} :
          LET s == [step EXCEPT !.checks = verdict] IN
          IF runtime = "node" /\ s.step = "reply" /\ s.output = "text"
          THEN step' = s /\ pc' = "judge" /\ UNCHANGED <<made, plan, steps>>
          ELSE Over(s)
     \/ Failed(step)
  /\ UNCHANGED <<sdk, kind, answer, process, written>>

\* A judge that fails is the step's error; the answer stands.
judge ==
  /\ pc = "judge"
  /\ Over([step EXCEPT !.judged = TRUE]) \/ Over([step EXCEPT !.error = TRUE])
  /\ UNCHANGED <<sdk, kind, answer, process, written>>

\* The step the row on the timeline is about.
eventStep ==
  LET replies == {i \in DOMAIN steps : steps[i].step = "reply"}
  IN  IF replies # {} THEN steps[CHOOSE i \in replies : \A j \in replies : i <= j] ELSE steps[Len(steps)]

\* A worker files what the checks say of a reply.
feedbackFromChecks(s) ==
  IF s.step # "reply" \/ s.output # "text" \/ s.checks = "none" THEN "none"
  ELSE IF s.checks = "pass" THEN "accepted" ELSE "refused"

\* The record and the row, under the release that serves by then.
putRun ==
  /\ pc = "record" /\ pc' = "idle" /\ steps' = <<>> /\ answer' = "none" /\ captured' = <<>>
  /\ record' = [kind |-> kind, generation |-> generation, steps |-> steps,
                ok |-> \A s \in Range(steps) : ~ s.error /\ s.output # "none"]
  /\ row' = [generation |-> generation, version |-> eventStep.generation]
  /\ feedback' = feedbackFromChecks(eventStep)
  /\ UNCHANGED <<sdk, made, kind, plan, step, calls, late, last>>

\* AirPrompter publishes, and the SDK activates.
Promote ==
  /\ generation < MaxGeneration /\ generation' = generation + 1
  /\ UNCHANGED <<runtime, made, kind, pc, plan, step, answer, process, steps, written>>

Next ==
  \/ runTicket \/ render \/ complete \/ completeDirect \/ completion \/ (\E c \in late : observe(c)) \/ collectObservations \/ checks
  \/ judge \/ putRun \/ Promote

Spec == Init /\ [][Next]_vars

-----------------------------------------------------------------------------
(* Properties.                                                             *)

\* "The observation is also handed to the run that made the call" (pyworker.py:182), and to
\* no other: a step that shows latency and tokens shows those of the call it made.
ShowsItsOwn == \A s \in Range(steps) : s.observation \in {0, s.call}

\* The run's record tells what happened in it.  A step that made its call shows that call's
\* numbers or none (observe.ts:38-40), however late those of another are filed, and a Node
\* step that made none shows none.  A run is "ok" only if every step was answered and no judge
\* failed (run.ts:215), an escalation without its handoff only if the summary said nothing
\* (run.ts:192); no step is of a newer release than its run (run.ts:197), and the row names
\* none newer than itself.  Feedback stands on an answer the record holds (worker.ts:83).
RunTellsWhatHappened ==
  /\ \A s \in Range(steps) : s.call # 0 \/ runtime = "node" => s.observation \in {0, s.call}
  /\ record.ok =>
       /\ \A s \in Range(record.steps) : s.generation # 0 /\ s.call # 0
       /\ record.kind # "escalate" /\ runtime = "node" =>
            /\ Len(record.steps) = 2
            /\ record.steps[2].judged \/ record.steps[2].output = "empty"
       /\ record.kind = "escalate" => Len(record.steps) = 2 \/ record.steps[1].output = "empty"
  /\ \A s \in Range(record.steps) : s.generation <= record.generation
  /\ row.version <= row.generation
  /\ feedback # "none" => \E s \in Range(record.steps) : s.step = "reply" /\ s.output = "text"
=============================================================================
