------------------------------- MODULE Airgap -------------------------------
(* The runtime of the air-gapped host (services/airgap/src/runtime.ts): the *)
(* agent SDK offline on a host with no route out.  Three timers run over    *)
(* awaits: the tick that starts the SDK or hydrates it from the datastore   *)
(* the puller fills, the render probe, and the status document, whose puts  *)
(* to the exchange bucket may be answered in any order.                     *)
(*                                                                          *)
(* A tick is longer than its interval when a call is slow: every timer may  *)
(* fire while an earlier tick is still waiting.  The process may stop at    *)
(* any step; its local store survives it.                                   *)
EXTENDS Naturals, FiniteSets

CONSTANTS
  Ticks,          \* hydrate ticks that may overlap
  MaxGeneration,  \* bound: releases the puller stores, numbered as they come
  MaxFaults       \* bound: calls that fail, and times the process stops

\* Assumed wherever the constants get their values.
AirgapAssumption ==
  /\ MaxGeneration \in Nat \ {0} /\ MaxFaults \in Nat
  /\ "timer" \notin Ticks

VARIABLES
  datastore,   \* newest generation in the exchange's datastore, 0 when empty
  local,       \* generation in the local store
  up,          \* the SDK is started (`agent` is not null)
  generation,  \* the generation it serves
  startFailure,\* why the last start failed; "due" once the cooldown has passed
  hydrating,   \* the flag of hydrateTick
  tick,        \* what each tick waits for
  puts,        \* generation in the document each writer is putting, if any
  document,    \* generation in the document in the exchange
  faults       \* failures so far

sdk == <<local, up, generation, startFailure>>
vars == <<datastore, sdk, hydrating, tick, puts, document, faults>>

Writers == Ticks \cup {"timer"}

TypeOK ==
  /\ datastore \in 0 .. MaxGeneration /\ local \in 0 .. MaxGeneration
  /\ up \in BOOLEAN /\ generation \in 0 .. MaxGeneration
  /\ startFailure \in {"none", "no_verified_release", "refused", "due"}
  /\ hydrating \in BOOLEAN
  /\ tick \in [Ticks -> {"idle", "start", "hydrate", "write"}]
  /\ puts \in [Writers -> SUBSET (0 .. MaxGeneration)]
  /\ document \in 0 .. MaxGeneration
  /\ faults \in 0 .. MaxFaults

\* A process that was just started; boot() has yet to start the SDK.
Init ==
  /\ datastore = 0 /\ local = 0
  /\ up = FALSE /\ generation = 0 /\ startFailure = "due"
  /\ hydrating = FALSE /\ tick = [t \in Ticks |-> "idle"]
  /\ puts = [w \in Writers |-> {}] /\ document = 0
  /\ faults = 0

Fault == faults < MaxFaults /\ faults' = faults + 1
Goto(t, next) == tick' = [tick EXCEPT ![t] = next]

-----------------------------------------------------------------------------
(* The hydrate tick.                                                       *)

\* Mutant: a start that found the datastore empty is not tried again.
BeginOnce(t) ==
  /\ tick[t] = "idle"
  /\ up \/ startFailure = "due"
  /\ hydrating' = TRUE
  /\ Goto(t, IF up THEN "hydrate" ELSE "start")
  /\ UNCHANGED <<datastore, sdk, puts, document, faults>>

\* A tick goes on to start the SDK unless the last start was refused less than
\* START_RETRY_MS ago; with the SDK up it hydrates.  (boot(), before the timers,
\* starts the SDK the same way.)
Begin(t) ==
  /\ tick[t] = "idle"
  /\ up \/ startFailure # "refused"
  /\ hydrating' = TRUE
  /\ Goto(t, IF up THEN "hydrate" ELSE "start")
  /\ UNCHANGED <<datastore, sdk, puts, document, faults>>

\* Mutant: every timer's tick goes on.
hydrateTickUnguarded(t) == Begin(t)

hydrateTick(t) == ~ hydrating /\ Begin(t)

\* Starting or hydrating leaves the SDK on the newest release it knows: the
\* local store's, or the datastore's when that answers.
Serve(g) == g # 0 /\ local' = g /\ generation' = g /\ up' = TRUE
Newest == IF datastore > local THEN datastore ELSE local

startAgent(t) ==
  /\ tick[t] = "start"
  /\ \/ Serve(Newest) /\ startFailure' = "none" /\ UNCHANGED faults
     \/ Serve(local) /\ startFailure' = "none" /\ Fault
     \/ /\ local = 0
        /\ startFailure' = "no_verified_release"
        /\ IF datastore = 0 THEN UNCHANGED faults ELSE Fault
        /\ UNCHANGED <<local, up, generation>>
     \/ startFailure' = "refused" /\ Fault /\ UNCHANGED <<local, up, generation>>
  /\ Goto(t, "write")
  /\ UNCHANGED <<datastore, hydrating, puts, document>>

\* Applied or unchanged; refused or unavailable; a call that throws ends the
\* tick without a document.
hydrate(t) ==
  /\ tick[t] = "hydrate"
  /\ \/ Serve(Newest) /\ Goto(t, "write") /\ UNCHANGED <<startFailure, hydrating, faults>>
     \/ Goto(t, "write") /\ Fault /\ UNCHANGED <<sdk, hydrating>>
     \/ Goto(t, "idle") /\ hydrating' = FALSE /\ Fault /\ UNCHANGED sdk
  /\ UNCHANGED <<datastore, puts, document>>

\* Ten minutes after a refused start.
Cooldown ==
  /\ startFailure = "refused" /\ startFailure' = "due"
  /\ UNCHANGED <<datastore, local, up, generation, hydrating, tick, puts, document, faults>>

-----------------------------------------------------------------------------
(* The status document: of every tick, and of a timer of its own.          *)

\* It says what is served as the put begins; 0 without an agent.
Served == IF up THEN generation ELSE 0

writeStatus(w) ==
  /\ puts[w] = {}
  /\ w \in Ticks => tick[w] = "write"
  /\ puts' = [puts EXCEPT ![w] = {Served}]
  /\ UNCHANGED <<datastore, sdk, hydrating, tick, document, faults>>

\* The put is answered, or fails, which is logged and nothing else; the tick
\* that waited for it is over.
putStatus(w) ==
  /\ \/ document' \in puts[w] /\ UNCHANGED faults
     \/ puts[w] # {} /\ Fault /\ UNCHANGED document
  /\ puts' = [puts EXCEPT ![w] = {}]
  /\ IF w \in Ticks THEN Goto(w, "idle") /\ hydrating' = FALSE ELSE UNCHANGED <<hydrating, tick>>
  /\ UNCHANGED <<datastore, sdk>>

-----------------------------------------------------------------------------
(* Around the timers.                                                      *)

\* The process stops, on a signal after one last document, or at any step; what
\* was being put may have arrived.  systemd starts it again, and boot() begins
\* without what the last one knew.
stop ==
  /\ Fault
  /\ document' \in {document, Served} \cup UNION {puts[w] : w \in Writers}
  /\ up' = FALSE /\ generation' = 0 /\ startFailure' = "due"
  /\ hydrating' = FALSE
  /\ tick' = [t \in Ticks |-> "idle"]
  /\ puts' = [w \in Writers |-> {}]
  /\ UNCHANGED <<datastore, local>>

\* The puller stores the next release.
Store ==
  /\ datastore < MaxGeneration
  /\ datastore' = datastore + 1
  /\ UNCHANGED <<sdk, hydrating, tick, puts, document, faults>>

Next ==
  \/ \E t \in Ticks : hydrateTick(t) \/ startAgent(t) \/ hydrate(t)
  \/ \E w \in Writers : writeStatus(w) \/ putStatus(w)
  \/ Cooldown \/ stop \/ Store

Spec == Init /\ [][Next]_vars

\* The timers go on firing, every call is answered, and ten minutes pass.
Fairness ==
  /\ WF_vars(\E t \in Ticks : hydrateTick(t))
  /\ WF_vars(\E t \in Ticks : startAgent(t) \/ hydrate(t))
  /\ WF_vars(\E t \in Ticks : writeStatus(t) \/ putStatus(t))
  /\ WF_vars(writeStatus("timer")) /\ WF_vars(putStatus("timer"))
  /\ WF_vars(Cooldown)

FairSpec == Spec /\ Fairness

-----------------------------------------------------------------------------
(* Properties.                                                             *)

\* One SDK on one state directory: "if (hydrating) return" (runtime.ts:199) keeps
\* a tick from starting a second while the first, or one another tick started, is
\* there.
OneAgent == \A t \in Ticks : tick[t] = "start" => ~ up /\ \A u \in Ticks \ {t} : tick[u] = "idle"

\* "An empty datastore is `no_verified_release` and is tried again on the next
\* interval" (runtime.ts:7): a stored release is in the end served, and from some
\* point on the document says so, in whatever order the puts were answered before.
ServesNewest == \A g \in 1 .. MaxGeneration : datastore >= g ~> [](document >= g)
=============================================================================
