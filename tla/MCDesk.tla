------------------------------- MODULE MCDesk -------------------------------
(* The desk's own parts side by side: the containers of its function, and a *)
(* tab of its app.  Neither depends on the other's order of steps, so in    *)
(* one behaviour only one of them moves; `part` says which.                 *)
EXTENDS Naturals, FiniteSets

CONSTANTS
  Containers, MaxGeneration, VersionOf, Served,
  Runs, Tickets, First, TicketOf, LIMIT, MaxActs, MaxFaults,
  r1, r2, t1, t2

VARIABLES
  part, faults,
  published, freshStore, memo, generation, mints, spool, request, version, told, platform, emitted, row,
  table, stamp, written, timeline, poll, since, fresh, cursor, events, selected, reads, runs, unavailable,
  newestSeen, busy, awaited, excused, disturbed, acts

\* The third release goes back to the first one's versions.
ThreeReleases == <<"v1", "v2", "v1">>

\* Each run has a ticket of its own.
TwoTickets == [r \in {r1, r2} |-> IF r = r1 THEN t1 ELSE t2]

\* One run is enough for the containers.
C == INSTANCE Containers WITH Runs <- Served
A == INSTANCE DeskApp

ASSUME ConstantsAssumption == C!ContainersAssumption /\ C!NoneAssumption /\ A!DeskAppAssumption

functionVars == <<published, freshStore, memo, generation, mints, spool, request, version, told, platform,
                  emitted, row>>
appVars == <<table, stamp, written, timeline, poll, since, fresh, cursor, events, selected, reads, runs,
             unavailable, newestSeen, busy, awaited, excused, disturbed, acts>>
vars == <<part, faults, functionVars, appVars>>

Init == C!Init /\ A!Init /\ part \in {"function", "app"}

FunctionStep == part = "function" /\ C!Next /\ UNCHANGED <<part, appVars>>
AppStep == part = "app" /\ A!Next /\ UNCHANGED <<part, functionVars>>

Next == FunctionStep \/ AppStep

InFunction == part = "function" /\ UNCHANGED <<part, appVars>>
InApp == part = "app" /\ UNCHANGED <<part, functionVars>>

\* The modules' fairness, each for its own part.
Fairness ==
  /\ WF_vars(InFunction /\ \E c \in Containers : C!StatusTick(c))
  /\ WF_vars(InFunction /\ \E c \in Containers : C!Work(c))
  /\ WF_vars(InApp /\ A!Poll)
  /\ WF_vars(InApp /\ A!Panel)
  /\ WF_vars(InApp /\ A!Presenter)

Spec == Init /\ [][Next]_vars /\ Fairness

-----------------------------------------------------------------------------
(* Properties, as the modules state them.                                  *)

\* Containers: a 503 is for a failure of the request's own start (runtime.ts:19), feedback
\* never lands on another version (handler.ts:373), and a window is a metric exactly when
\* AirPrompter has it (tee.ts:11).
AnsweredRightly == C!RefusedForAReason /\ C!FeedbackLandsRight /\ C!MetricsFollow

\* Containers: the row the containers share is in the end the newest release's.
RowConverges == part = "function" => C!RowConverges

\* DeskApp: the cursor of the timeline passes no row by (App.tsx:167).
EveryRowShown == A!EveryRowShown

\* DeskApp: the panel shows the selected ticket's runs (App.tsx:136).
PanelConverges == A!PanelConverges
=============================================================================
