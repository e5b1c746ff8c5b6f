------------------------------- MODULE MCHosts -------------------------------
(* What the hosts do by themselves, side by side: the drill of the wire on  *)
(* the eu-west host, its worker's queue, and the command that a presenter's *)
(* click runs there; on the air-gapped host its runtime and the way of its  *)
(* telemetry.                                                               *)
(* They share nothing the models see, so in one behaviour only one of them  *)
(* moves; `part` says which.                                                *)
(*                                                                          *)
(* The wire with two invocations at once and two failures: a cut, the       *)
(* restore that races it and the tick that comes late.  The queue with one  *)
(* worker, whose poll and timer compete for one `running` flag.             *)
EXTENDS Wire, FiniteSets

CONSTANTS
  Ticks, MaxGeneration, Segments, IMPORT_MAX_ATTEMPTS,
  TIMEOUT, MARGIN, DELIVERY, RETRIES,
  Tickets, Workers, Attempts, MaxEntries, MaxResets

VARIABLES
  part,
  datastore, local, up, generation, startFailure, hydrating, tick, puts, document,
  closed, spool, files, export, left, bucket, expired, markers, attempts, import, pending,
  current, outcome, platform, refusals,
  row, running, request, job, retries, command, waited, last, rows, lost,
  queue, placed, fate, inbox, desk, reset, busy, head, held, misses, cursor, resets

R == INSTANCE Airgap WITH MaxFaults <- MaxFaults + 1
T == INSTANCE Telemetry WITH MaxFaults <- MaxFaults + 1
H == INSTANCE HostCli
Q == INSTANCE TicketQueue WITH pc <- busy, MaxFaults <- MaxFaults - 1

ASSUME ConstantsAssumption == R!AirgapAssumption /\ T!TelemetryAssumption /\ H!HostCliAssumption

wireVars == <<egress, tag, timeline, pc, saw, overlapped, bypassed>>
runtimeVars == <<datastore, local, up, generation, startFailure, hydrating, tick, puts, document>>
telemetryVars == <<closed, spool, files, export, left, bucket, expired, markers, attempts,
                   import, pending, current, outcome, platform, refusals>>
commandVars == <<row, running, request, job, retries, command, waited, last, rows, lost>>
queueVars == <<queue, placed, fate, inbox, desk, reset, busy, head, held, misses, cursor, resets>>
hostsVars == <<part, faults, wireVars, runtimeVars, telemetryVars, commandVars, queueVars>>

HostsInit ==
  /\ part \in {"wire", "runtime", "telemetry", "command", "queue"}
  /\ Init /\ R!Init /\ T!Init /\ H!Init /\ Q!Init
  /\ part # "command" => running /\ row = "awake"

InWire == part = "wire" /\ UNCHANGED <<part, runtimeVars, telemetryVars, commandVars, queueVars>>
InRuntime == part = "runtime" /\ UNCHANGED <<part, wireVars, telemetryVars, commandVars, queueVars>>
InTelemetry == part = "telemetry" /\ UNCHANGED <<part, wireVars, runtimeVars, commandVars, queueVars>>
InCommand == part = "command" /\ UNCHANGED <<part, wireVars, runtimeVars, telemetryVars, queueVars>>
InQueue == part = "queue" /\ UNCHANGED <<part, wireVars, runtimeVars, telemetryVars, commandVars>>

WireStep == InWire /\ Next
RuntimeStep == InRuntime /\ R!Next
TelemetryStep == InTelemetry /\ T!Next
CommandStep == InCommand /\ H!Next
QueueStep == InQueue /\ Q!Next

HostsNext == WireStep \/ RuntimeStep \/ TelemetryStep \/ CommandStep \/ QueueStep

\* The modules' fairness, each for its own part.
HostsFairness ==
  /\ \A i \in Invocations : WF_hostsVars(InWire /\ Runs(i))
  /\ WF_hostsVars(InWire /\ CutAges)
  /\ WF_hostsVars(InWire /\ \E i \in Invocations : BeginTick(i))
  /\ WF_hostsVars(InRuntime /\ \E t \in Ticks : R!hydrateTick(t))
  /\ WF_hostsVars(InRuntime /\ \E t \in Ticks : R!startAgent(t) \/ R!hydrate(t))
  /\ WF_hostsVars(InRuntime /\ \E t \in Ticks : R!writeStatus(t) \/ R!putStatus(t))
  /\ WF_hostsVars(InRuntime /\ R!writeStatus("timer"))
  /\ WF_hostsVars(InRuntime /\ R!putStatus("timer"))
  /\ WF_hostsVars(InRuntime /\ R!Cooldown)
  /\ WF_hostsVars(InTelemetry /\ (T!ExportTimer \/ T!Upload \/ T!Pack))
  /\ WF_hostsVars(InTelemetry /\ (T!importPass \/ T!getObject \/ T!runCli \/ T!putMarker))
  /\ WF_hostsVars(InCommand /\ (H!createHandler \/ H!send \/ H!runHostCli \/ H!deadline \/ H!appendHostCli))
  /\ WF_hostsVars(InCommand /\ (H!Deliver \/ H!End))
  /\ \A w \in Workers :
       /\ WF_hostsVars(InQueue /\ Q!attach(w))
       /\ WF_hostsVars(InQueue /\ Q!Step(w))
       /\ SF_hostsVars(InQueue /\ Q!PollQueue(w))
       /\ SF_hostsVars(InQueue /\ Q!TimerTicket(w))

HostsSpec == HostsInit /\ [][HostsNext]_hostsVars /\ HostsFairness

-----------------------------------------------------------------------------
(* Properties, as the modules state them; TablesKept, DrillsAreWhole and    *)
(* NeverStranded are Wire's own.                                            *)

\* Airgap: one SDK on one state directory (runtime.ts:199).
OneAgent == R!OneAgent

\* Airgap: a stored release is in the end served and shown (runtime.ts:7).
ServesNewest == R!ServesNewest

\* Telemetry: no segment is lost on its way, and a marker tells the truth about its
\* export (zudocs-airgap-export:21, importTelemetry.ts:98).
SegmentsAccounted == T!NothingLost /\ T!SettledRightly

\* Telemetry: every segment is settled once, and in the end (importTelemetry.ts:4).
IsDelivery == T!IsDelivery

\* HostCli: an accepted job's answer lands on the timeline (hostCli.ts:17).
JobsSettle == H!JobsSettle

\* TicketQueue: no entry waits for ever, and no ticket of the inbox is passed over for ever
\* (worker.ts:59, 76).
QueueServed == part = "queue" => Q!Drains /\ Q!EveryTicketComesUp
=============================================================================
