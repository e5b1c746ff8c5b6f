----------------------------- MODULE Telemetry ------------------------------
(* The telemetry of the air-gapped host on its way to AirPrompter.  The     *)
(* render probe of its runtime (services/airgap/src/runtime.ts) files       *)
(* observations, the SDK closes them into segments of a spool; the export   *)
(* timer (services/airgap/host/bin/zudocs-airgap-export) packs the spool    *)
(* into a document and uploads it to the exchange bucket; the import timer  *)
(* of the eu-west host (services/eu-host/src/importTelemetry.ts) hands      *)
(* every export without a marker to the CLI, which uploads the segments,    *)
(* and settles it with a marker.                                            *)
(*                                                                          *)
(* Each timer starts one process, never two at a time; each process may end *)
(* at any step and is started again.  An export is the set of its segments. *)
(* What a pass reports besides (timeline rows, the counts in the host's     *)
(* status row, the last result for the status document) repeats these steps *)
(* as best it can and decides nothing: it is not here.                      *)
EXTENDS Naturals, FiniteSets

CONSTANTS
  Segments,
  IMPORT_MAX_ATTEMPTS,  \* counted refusals before an export is given up
  MaxFaults             \* bound: calls that fail, processes that end, hosts replaced

\* Assumed wherever the constants get their values.
TelemetryAssumption == IMPORT_MAX_ATTEMPTS \in Nat \ {0} /\ MaxFaults \in Nat

Exports == (SUBSET Segments) \ {{}}

VARIABLES
  closed,    \* segments the SDK has closed
  spool,     \* those not packed yet
  files,     \* packed documents still on the air-gapped host
  export,    \* what the export script does
  left,      \* files it has yet to try in this run
  bucket,    \* exports in the exchange bucket
  expired,   \* exports that expired there unsettled
  markers,   \* the ledger: how an export was settled
  attempts,  \* counted refusals of an export, kept on the importing host
  import,    \* what the import pass does
  pending,   \* exports the pass found without a marker and has not handled
  current,   \* the one it handles, if any
  outcome,   \* the verdict on it
  platform,  \* segments AirPrompter has
  refusals,  \* refusals of an export, whoever remembers them
  faults     \* failures so far

exporting == <<spool, files, export, left>>
pass == <<import, pending, current, outcome>>
importing == <<markers, attempts, pass, platform, refusals>>
vars == <<closed, exporting, bucket, expired, importing, faults>>

TypeOK ==
  /\ closed \subseteq Segments /\ spool \subseteq closed
  /\ files \subseteq Exports /\ left \subseteq files
  /\ export \in {"idle", "leftovers", "last"}
  /\ bucket \subseteq Exports /\ expired \subseteq Exports
  /\ markers \in [Exports -> {"none", "imported", "failed"}]
  /\ attempts \in [Exports -> 0 .. IMPORT_MAX_ATTEMPTS - 1]
  /\ import \in {"idle", "next", "cli", "settle"}
  /\ pending \subseteq Exports /\ current \in SUBSET Segments
  /\ outcome \in {"imported", "held", "failed"}
  /\ platform \subseteq Segments
  /\ refusals \in [Exports -> 0 .. IMPORT_MAX_ATTEMPTS]
  /\ faults \in 0 .. MaxFaults

Init ==
  /\ closed = {} /\ spool = {}
  /\ files = {} /\ export = "idle" /\ left = {}
  /\ bucket = {} /\ expired = {}
  /\ markers = [e \in Exports |-> "none"]
  /\ attempts = [e \in Exports |-> 0]
  /\ import = "idle" /\ pending = {} /\ current = {} /\ outcome = "held"
  /\ platform = {}
  /\ refusals = [e \in Exports |-> 0]
  /\ faults = 0

Fault == faults < MaxFaults /\ faults' = faults + 1

-----------------------------------------------------------------------------
(* The air-gapped host.                                                    *)

\* A render files its refused observation; a segment closes.
renderTick ==
  /\ \E s \in Segments \ closed : closed' = closed \cup {s} /\ spool' = spool \cup {s}
  /\ UNCHANGED <<files, export, left, bucket, expired, importing, faults>>

ExportTimer ==
  /\ export = "idle"
  /\ export' = "leftovers" /\ left' = files
  /\ UNCHANGED <<closed, spool, files, bucket, expired, importing, faults>>

\* Mutant: the file goes whether or not the upload succeeded.
CpCareless(f, next) ==
  /\ files' = files \ {f} /\ left' = left \ {f} /\ export' = next
  /\ \/ bucket' = bucket \cup {f} /\ UNCHANGED faults
     \/ UNCHANGED bucket /\ Fault

\* One `aws s3 cp`: the file is removed once it is there, kept when the upload
\* failed, and kept though it is there when the script ends in between.
Cp(f, next) ==
  \/ /\ bucket' = bucket \cup {f} /\ UNCHANGED faults
     /\ files' = files \ {f} /\ left' = left \ {f} /\ export' = next
  \/ /\ Fault /\ UNCHANGED <<bucket, files>>
     /\ left' = left \ {f} /\ export' = next
  \/ /\ Fault /\ bucket' = bucket \cup {f} /\ UNCHANGED files
     /\ left' = {} /\ export' = "idle"

\* The documents left behind by a failed upload go first; then the new one.
Upload ==
  /\ \E f \in left : Cp(f, IF export = "last" THEN "idle" ELSE export)
  /\ UNCHANGED <<closed, spool, expired, importing>>

\* `airprompter export-telemetry` moves the whole spool into one document.
\* Without a readable report of the CLI the script ends; the document stays.
Pack ==
  /\ export = "leftovers" /\ left = {}
  /\ \/ /\ spool = {}
        /\ export' = "idle" /\ UNCHANGED <<spool, files, left, faults>>
     \/ /\ spool # {}
        /\ files' = files \cup {spool} /\ spool' = {}
        /\ \/ left' = {spool} /\ export' = "last" /\ UNCHANGED faults
           \/ left' = {} /\ export' = "idle" /\ Fault
     \/ export' = "idle" /\ Fault /\ UNCHANGED <<spool, files, left>>
  /\ UNCHANGED <<closed, bucket, expired, importing>>

-----------------------------------------------------------------------------
(* The import pass.                                                        *)

\* Mutant: the ledger is not consulted.
ListExports == bucket

\* The exports in the bucket that have no marker.
Pending == {e \in bucket : markers[e] = "none"}

importPass ==
  /\ import = "idle"
  /\ pending' = Pending
  /\ import' = "next"
  /\ UNCHANGED <<closed, exporting, bucket, expired, markers, attempts, current, outcome,
                 platform, refusals, faults>>

EndPass == import' = "idle" /\ pending' = {} /\ current' = {} /\ outcome' = "held"

\* The next export in the order of their keys, whichever that is.  One that
\* cannot be read ends the pass, and the others wait for the next.
getObject ==
  /\ import = "next"
  /\ \/ pending = {} /\ EndPass /\ UNCHANGED faults
     \/ pending # {} /\ EndPass /\ Fault
     \/ /\ \E e \in pending : current' = e /\ pending' = pending \ {e}
        /\ import' = "cli" /\ UNCHANGED <<outcome, faults>>
  /\ UNCHANGED <<closed, exporting, bucket, expired, markers, attempts, platform, refusals>>

\* The verdict on one run of the CLI.  A refusal counts; an outage, a "retry
\* later" and a CLI that did not run are held without counting.
GivesUp(answer) ==
  \/ answer = "usage"
  \/ answer = "refused" /\ attempts[current] + 1 >= IMPORT_MAX_ATTEMPTS

outcomeOf(answer) ==
  IF answer = "clean" THEN "imported" ELSE IF GivesUp(answer) THEN "failed" ELSE "held"

\* What the CLI has uploaded when it answers: all of an export, nothing of a
\* document it does not take, otherwise any part.
Uploaded(answer) ==
  CASE answer = "clean" -> {current} [] answer = "usage" -> {{}} [] OTHER -> SUBSET current

\* Every answer but a clean one is a failure somewhere; what was refused once may
\* be refused every time.
runCli ==
  /\ import = "cli"
  /\ \E answer \in {"clean", "usage", "refused", "transient"} :
       /\ \/ answer = "clean" /\ UNCHANGED faults
          \/ answer = "refused" /\ refusals[current] > 0 /\ UNCHANGED faults
          \/ answer # "clean" /\ Fault
       /\ \E S \in Uploaded(answer) : platform' = platform \cup S
       /\ outcome' = outcomeOf(answer)
       /\ refusals' = [refusals EXCEPT ![current] =
            CASE answer = "usage" -> IMPORT_MAX_ATTEMPTS
              [] answer = "refused" /\ @ < IMPORT_MAX_ATTEMPTS -> @ + 1
              [] OTHER -> @]
       /\ attempts' = [attempts EXCEPT ![current] =
            IF answer = "refused" /\ ~ GivesUp(answer) THEN @ + 1 ELSE @]
       /\ IF outcome' = "held" THEN import' = "next" /\ current' = {}
          ELSE import' = "settle" /\ UNCHANGED current
  /\ UNCHANGED <<closed, exporting, bucket, expired, markers, pending>>

\* The marker, and the attempts are forgotten; the put may be refused, or end the
\* pass though it was made.
putMarker ==
  /\ import = "settle"
  /\ \/ /\ markers' = [markers EXCEPT ![current] = outcome]
        /\ attempts' = [attempts EXCEPT ![current] = 0]
        /\ import' = "next" /\ current' = {} /\ outcome' = "held"
        /\ UNCHANGED <<pending, faults>>
     \/ /\ markers' \in {markers, [markers EXCEPT ![current] = outcome]}
        /\ EndPass /\ Fault /\ UNCHANGED attempts
  /\ UNCHANGED <<closed, exporting, bucket, expired, platform, refusals>>

\* The host sleeps, or the pass is killed; or the host is replaced, and the
\* attempts with it.
Interrupt ==
  /\ import # "idle" /\ EndPass /\ Fault
  /\ attempts' \in {attempts, [e \in Exports |-> 0]}
  /\ UNCHANGED <<closed, exporting, bucket, expired, markers, platform, refusals>>

\* An unsettled export expires thirty days after it was written, long after any
\* pass that read it and any file it came from; a marker outlives its export
\* (infra/lib/fleet-stack.ts), and a settled export that expires changes nothing.
Expire ==
  /\ import = "idle" /\ Fault
  /\ \E e \in bucket \ files :
       /\ markers[e] = "none"
       /\ bucket' = bucket \ {e} /\ expired' = expired \cup {e}
  /\ UNCHANGED <<closed, exporting, importing>>

Next ==
  \/ renderTick \/ ExportTimer \/ Upload \/ Pack
  \/ importPass \/ getObject \/ runCli \/ putMarker \/ Interrupt \/ Expire

Spec == Init /\ [][Next]_vars

\* Both timers go on firing, and what they started goes on.
Fairness ==
  /\ WF_vars(ExportTimer \/ Upload \/ Pack)
  /\ WF_vars(importPass \/ getObject \/ runCli \/ putMarker)

FairSpec == Spec /\ Fairness

-----------------------------------------------------------------------------
(* Properties.                                                             *)

Marked(how) == UNION {e \in Exports : markers[e] = how}

\* A segment the spool has given away is in a document on the host, in the bucket,
\* or settled: "nothing packed is ever lost to one failed cp"
\* (zudocs-airgap-export:21), nor to a script, a pass or a host that ends between
\* two steps.
NothingLost ==
  closed = spool \cup (UNION (files \cup bucket \cup expired))
                 \cup Marked("imported") \cup Marked("failed")

\* The marker is written after the verdict and never instead of it: an imported
\* export is on the platform whole, and one recorded as failed was refused for
\* good or IMPORT_MAX_ATTEMPTS times, whoever forgot the attempts in between
\* (importTelemetry.ts:98-109).
SettledRightly ==
  \A e \in Exports :
    /\ markers[e] = "imported" => e \subseteq platform
    /\ markers[e] = "failed" => refusals[e] >= IMPORT_MAX_ATTEMPTS

\* Seen from outside: every segment is settled once, and in the end
\* (importTelemetry.ts:4-12).
D == INSTANCE Delivery WITH
  delivered <- Marked("imported"),
  givenUp <- Marked("failed") \cup UNION expired

IsDelivery == D!Spec
=============================================================================
