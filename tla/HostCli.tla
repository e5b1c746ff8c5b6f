------------------------------- MODULE HostCli -------------------------------
(* The operator's CLI, one click from the desk: the presenter's host_cli    *)
(* action (desk-api/src/handler.ts) checks that the eu-west host is awake,  *)
(* hands the desk's function a job by an asynchronous invocation and tells  *)
(* the timeline; the job (hostCliJob) has runHostCli (hostCli.ts) send the  *)
(* command through Run Command, poll it to a deadline and put its answer on *)
(* the timeline.                                                            *)
(*                                                                          *)
(* One request and its job.  Time passes in iterations of the polling loop; *)
(* which of the three commands it is only says how long it may run.         *)
EXTENDS Naturals

CONSTANTS
  TIMEOUT,   \* timeoutSeconds, in iterations
  MARGIN,    \* how much longer the loop waits
  DELIVERY,  \* TimeoutSeconds of SendCommand: how long a command may wait for the host
  RETRIES,   \* of an asynchronous invocation that crashed
  MaxFaults  \* bound: calls that fail and containers that end

\* Assumed wherever the constants get their values.
HostCliAssumption ==
  /\ {TIMEOUT, MARGIN, DELIVERY} \subseteq Nat \ {0} /\ {RETRIES, MaxFaults} \subseteq Nat
  /\ DELIVERY < TIMEOUT + MARGIN

VARIABLES
  row,       \* what the host's status row says of its power
  running,   \* the instance is there for Run Command
  request,   \* the click: what is next, or how it was answered
  job,       \* the job: what is next
  retries,   \* times Lambda ran it again
  command,   \* what becomes of the command at Run Command
  waited,    \* iterations so far: of the loop, of the command's wait, of its run
  last,      \* the last poll
  rows,      \* host_cli rows: what each says, and what had become of the command
  lost,      \* history: the job ended with its container, its start or its last put
  faults

world == <<row, running>>
loop == <<command, waited, last>>
vars == <<world, request, job, retries, loop, rows, lost, faults>>

Final == {"Success", "Failed", "TimedOut"}
Commands == {"none", "nowhere", "pending", "running", "undelivered"} \cup Final
Zero == [loop |-> 0, pending |-> 0, running |-> 0]

TypeOK ==
  /\ row \in {"awake", "asleep"} /\ running \in BOOLEAN
  /\ request \in {"none", "invoke", "row", "202", "409", "500"}
  /\ job \in {"none", "queued", "send", "poll", "append", "ended"} /\ retries \in 0 .. RETRIES
  /\ command \in Commands
  /\ waited \in [loop : 0 .. TIMEOUT + MARGIN, pending : 0 .. DELIVERY, running : 0 .. TIMEOUT]
  /\ last \in {"null", "none", "Pending", "NoInstance", "unsent"} \cup Final
  /\ rows \subseteq [says : Final \cup {"NoInstance", "unsent"}, was : Commands]
  /\ lost \in BOOLEAN /\ faults \in 0 .. MaxFaults

Init ==
  /\ row \in {"awake", "asleep"} /\ running \in BOOLEAN
  /\ request = "none" /\ job = "none" /\ retries = 0
  /\ command = "none" /\ waited = Zero /\ last = "none"
  /\ rows = {} /\ lost = FALSE /\ faults = 0

Fault == faults < MaxFaults /\ faults' = faults + 1

-----------------------------------------------------------------------------
(* The click.                                                              *)

\* Only one of the allowlist gets here; the host is asleep if its row says so, whatever
\* it is now.
host_cli ==
  /\ request = "none"
  /\ request' = IF row = "asleep" THEN "409" ELSE "invoke"
  /\ UNCHANGED <<world, job, retries, loop, rows, lost, faults>>

\* The job is accepted, or not, or it was and the click is not told.
invoke ==
  /\ request = "invoke"
  /\ \/ request' = "row" /\ job' = "queued" /\ UNCHANGED faults
     \/ request' = "500" /\ job' \in {"none", "queued"} /\ Fault
  /\ UNCHANGED <<world, retries, loop, rows, lost>>

\* The presenter's row, after the job was handed over.
appendPresenter ==
  /\ request = "row"
  /\ \/ request' = "202" /\ UNCHANGED faults
     \/ request' = "500" /\ Fault
  /\ UNCHANGED <<world, job, retries, loop, rows, lost>>

-----------------------------------------------------------------------------
(* The job.                                                                *)

\* A container whose host does not start answers a job nothing, and Lambda takes that
\* for done.
createHandler ==
  /\ job = "queued"
  /\ \/ job' = "send" /\ UNCHANGED <<lost, faults>>
     \/ job' = "ended" /\ lost' = TRUE /\ Fault
  /\ UNCHANGED <<world, request, retries, loop, rows>>

\* What is thrown on the way becomes the answer.
hostCliJob == job' = "append" /\ last' = "unsent"

\* The command, for whatever instance carries the Name tag and is there.
send ==
  /\ job = "send"
  /\ \/ /\ command' = IF running THEN "pending" ELSE "nowhere"
        /\ waited' = Zero /\ last' = "null" /\ job' = "poll"
        /\ UNCHANGED faults
     \/ hostCliJob /\ Fault /\ UNCHANGED <<command, waited>>
  /\ UNCHANGED <<world, request, retries, rows, lost>>

\* What a poll sees of the command; the list may not show a new one yet.
Seen ==
  CASE command \in Final -> {command}
    [] command = "undelivered" -> {"TimedOut"}
    [] command = "nowhere" -> {"null"}
    [] command = "pending" -> {"null", "Pending"}
    [] command = "running" -> {"Pending"}

\* Two seconds and a poll, until it has ended or the deadline has passed: the command
\* may wait and then run for longer than that.
runHostCli ==
  /\ job = "poll" /\ waited.loop < TIMEOUT + MARGIN
  /\ command = "pending" => waited.pending < DELIVERY
  /\ command = "running" => waited.running < TIMEOUT
  /\ waited' = [loop |-> waited.loop + 1,
                pending |-> waited.pending + (IF command = "pending" THEN 1 ELSE 0),
                running |-> waited.running + (IF command = "running" THEN 1 ELSE 0)]
  /\ \/ last' \in Seen /\ job' = (IF last' \in Final THEN "append" ELSE "poll") /\ UNCHANGED faults
     \/ hostCliJob /\ Fault
  /\ UNCHANGED <<world, request, retries, command, rows, lost>>

\* Mutant: the loop goes on for as long as it has seen no instance.
deadlineOfSeen ==
  /\ job = "poll" /\ waited.loop = TIMEOUT + MARGIN /\ last # "null"
  /\ last' = "TimedOut" /\ job' = "append"
  /\ UNCHANGED <<world, request, retries, command, waited, rows, lost, faults>>

\* No poll saw an instance, or the last one saw no end.
deadline ==
  /\ job = "poll" /\ waited.loop = TIMEOUT + MARGIN
  /\ last' = (IF last = "null" THEN "NoInstance" ELSE "TimedOut") /\ job' = "append"
  /\ UNCHANGED <<world, request, retries, command, waited, rows, lost, faults>>

\* The answer on the timeline; a put that fails is logged, and the job is done.
appendHostCli ==
  /\ job = "append" /\ job' = "ended"
  /\ \/ rows' = rows \cup {[says |-> last, was |-> command]} /\ UNCHANGED <<lost, faults>>
     \/ lost' = TRUE /\ Fault /\ UNCHANGED rows
  /\ UNCHANGED <<world, request, retries, loop>>

\* The container ends with the job, which Lambda runs again from the beginning.
Crash ==
  /\ job \in {"send", "poll", "append"} /\ Fault
  /\ IF retries < RETRIES THEN job' = "queued" /\ retries' = retries + 1 /\ UNCHANGED lost
     ELSE job' = "ended" /\ lost' = TRUE /\ UNCHANGED retries
  /\ UNCHANGED <<world, request, loop, rows>>

-----------------------------------------------------------------------------
(* Run Command and the host.                                               *)

Deliver ==
  /\ command = "pending"
  /\ \/ running /\ command' = "running"
     \/ waited.pending = DELIVERY /\ command' = "undelivered"
  /\ UNCHANGED <<world, request, job, retries, waited, last, rows, lost, faults>>

End ==
  /\ command = "running"
  /\ command' \in IF waited.running = TIMEOUT THEN {"TimedOut"} ELSE {"Success", "Failed"}
  /\ UNCHANGED <<world, request, job, retries, waited, last, rows, lost, faults>>

\* The host sleeps or wakes, and its row says so some time later.
Power ==
  /\ \/ running' = ~ running /\ UNCHANGED row
     \/ row' = (IF running THEN "awake" ELSE "asleep") /\ row' # row /\ UNCHANGED running
  /\ UNCHANGED <<request, job, retries, loop, rows, lost, faults>>

Next ==
  \/ host_cli \/ invoke \/ appendPresenter
  \/ createHandler \/ send \/ runHostCli \/ deadline \/ appendHostCli \/ Crash
  \/ Deliver \/ End \/ Power

\* Lambda runs what it accepted, and Run Command ends what it began.
Fairness ==
  /\ WF_vars(createHandler \/ send \/ runHostCli \/ deadline \/ appendHostCli)
  /\ WF_vars(Deliver \/ End)

Spec == Init /\ [][Next]_vars /\ Fairness

-----------------------------------------------------------------------------
(* Properties.                                                             *)

\* What a row says is what became of the command: one that "TimedOut" may still run.
Truthful(r) ==
  CASE r.says \in {"Success", "Failed"} -> r.was = r.says
    [] r.says = "NoInstance" -> r.was = "nowhere"
    [] r.says = "TimedOut" -> r.was # "nowhere"
    [] OTHER -> TRUE

\* Every row is the command's own answer, whatever was slow, failed or was run again, and
\* no job ends without one, unless it went with its container, its start or its last put.
AnswersTell ==
  /\ \A r \in rows : Truthful(r)
  /\ job = "ended" => lost \/ rows # {}

\* "the answer lands on the timeline" (hostCli.ts:17), and in the end it does.
JobsSettle == []AnswersTell /\ (job = "queued" ~> lost \/ rows # {})
=============================================================================
