-------------------------------- MODULE Keys --------------------------------
(* The keys the desk's containers hold for the routes that are not their    *)
(* own: the staging run key of the hosted client (desk-api/src/hosted.ts)   *)
(* and a provider's key (providers.ts).  A container reads a key from its   *)
(* parameter when a request first needs it and keeps it, and the client     *)
(* made with it, for good.  The owner rotates a key by the runbook's order  *)
(* (RUNBOOK.md:14-15): mint, put, bump STATE_EPOCH, revoke.                 *)
(*                                                                          *)
(* One key and the runs that need it.  Both clients are memoised the same   *)
(* way; a hosted run starts its agent over the network, makes three calls   *)
(* and records what each was answered, a provider's makes one.              *)
EXTENDS Naturals

CONSTANTS
  Containers,
  MaxKey,     \* bound: keys minted, numbered as they are
  MaxFaults   \* bound: reads and calls that fail

\* Assumed wherever the constants get their values.
KeysAssumption == MaxKey \in Nat \ {0} /\ MaxFaults \in Nat

VARIABLES
  route,      \* which of the two this is: fixed
  parameter,  \* the key in SSM, 0 before the owner has written one
  live,       \* keys the platform or provider takes
  rotation,   \* what the owner did last: "none", "minted", "put", "bumped"
  key,        \* the key a container holds, 0 when none
  client,     \* the key its client was made with, 0 when there is none
  old,        \* it was there before the last bump: no new request comes to it
  call,       \* what its request does next
  record,     \* what was refused so far in the run it records
  failed,     \* history: a read or call of this request failed by itself
  faults

owner == <<parameter, live, rotation>>
container == <<key, client, old, call, record, failed>>
vars == <<route, owner, container, faults>>

Steps == {"idle", "key", "start", "stream", "feedback", "compat", "record", "event"}

TypeOK ==
  /\ route \in {"hosted", "provider"}
  /\ parameter \in 0 .. MaxKey /\ live \subseteq 1 .. MaxKey /\ rotation \in {"none", "minted", "put", "bumped"}
  /\ key \in [Containers -> 0 .. MaxKey] /\ client \in [Containers -> 0 .. MaxKey]
  /\ old \in [Containers -> BOOLEAN] /\ call \in [Containers -> Steps]
  /\ record \in [Containers -> SUBSET {"start", "stream", "feedback", "compat"}]
  /\ failed \in [Containers -> BOOLEAN] /\ faults \in 0 .. MaxFaults

\* The first key is in place, or the owner has yet to write one.
Init ==
  /\ route \in {"hosted", "provider"}
  /\ parameter \in {0, 1} /\ live = {1} /\ rotation = "none"
  /\ key = [c \in Containers |-> 0] /\ client = [c \in Containers |-> 0]
  /\ old = [c \in Containers |-> FALSE] /\ call = [c \in Containers |-> "idle"]
  /\ record = [c \in Containers |-> {}] /\ failed = [c \in Containers |-> FALSE]
  /\ faults = 0

Fault == faults < MaxFaults /\ faults' = faults + 1
At(c, step) == call[c] = step
Goto(c, step) == call' = [call EXCEPT ![c] = step]
Refused(c, what) == record' = [record EXCEPT ![c] = @ \cup {what}]
FailedHere(c) == failed' = [failed EXCEPT ![c] = TRUE]

-----------------------------------------------------------------------------
(* A run of this route.                                                    *)

\* With the client there, the first call; otherwise the key, and the client from it.
hostedRun(c) ==
  /\ At(c, "idle") /\ ~ old[c]
  /\ Goto(c, IF client[c] # 0 THEN "stream" ELSE IF key[c] # 0 THEN "start" ELSE "key")
  /\ record' = [record EXCEPT ![c] = {}] /\ failed' = [failed EXCEPT ![c] = FALSE]
  /\ UNCHANGED <<route, owner, key, client, old, faults>>

\* Mutant: the rejected read is kept, a key that nobody takes.
keepRejected(c) == key' = [key EXCEPT ![c] = MaxKey + 1]

\* A read that is refused is forgotten, and the next run reads again.
forgetRejected(c) == UNCHANGED key

\* No client without a key: the run is over, and recorded so.
keyOf(c) ==
  /\ At(c, "key")
  /\ \/ /\ parameter # 0
        /\ key' = [key EXCEPT ![c] = parameter] /\ Goto(c, "start")
        /\ UNCHANGED <<record, failed, faults>>
     \/ /\ forgetRejected(c) /\ FailedHere(c)
        /\ Refused(c, "start") /\ Goto(c, "record")
        /\ IF parameter = 0 THEN UNCHANGED faults ELSE Fault
  /\ UNCHANGED <<route, owner, client, old>>

\* A hosted agent starts with a call; it is kept only if that was answered.  A
\* provider's client is an object.
start(c) ==
  /\ At(c, "start")
  /\ \/ /\ route = "provider" \/ key[c] \in live
        /\ client' = [client EXCEPT ![c] = key[c]] /\ Goto(c, "stream")
        /\ UNCHANGED <<record, failed, faults>>
     \/ /\ route = "hosted" /\ UNCHANGED client
        /\ Refused(c, "start") /\ Goto(c, "record")
        /\ IF key[c] \notin live THEN UNCHANGED <<failed, faults>> ELSE Fault /\ FailedHere(c)
  /\ UNCHANGED <<route, owner, key, old>>

\* One call with key k, answered or refused, and on to the next step: a refusal is
\* recorded and the run goes on.
Call(c, what, k, next) ==
  /\ \/ k \in live /\ UNCHANGED <<record, failed, faults>>
     \/ k \notin live /\ Refused(c, what) /\ UNCHANGED <<failed, faults>>
     \/ k \in live /\ Refused(c, what) /\ Fault /\ FailedHere(c)
  /\ Goto(c, next)
  /\ UNCHANGED <<route, owner, key, client, old>>

stream(c) == At(c, "stream") /\ Call(c, "stream", client[c], IF route = "hosted" THEN "feedback" ELSE "record")

\* Feedback on the run's reference, if there is one.
feedback(c) ==
  /\ At(c, "feedback")
  /\ IF "stream" \in record[c] THEN Goto(c, "compat") /\ UNCHANGED <<route, owner, key, client, old, record, failed, faults>>
     ELSE Call(c, "feedback", client[c], "compat")

\* The compatible endpoint is called with the memoised key itself.
compat(c) == At(c, "compat") /\ Call(c, "compat", key[c], "record")

\* The record, then its row; a run that could not start has no row.  Either put may
\* fail, and the request is over.
putRun(c) ==
  /\ At(c, "record")
  /\ \/ Goto(c, IF "start" \in record[c] THEN "idle" ELSE "event") /\ UNCHANGED faults
     \/ Goto(c, "idle") /\ Fault
  /\ UNCHANGED <<route, owner, key, client, old, record, failed>>

appendEvent(c) ==
  /\ At(c, "event") /\ Goto(c, "idle")
  /\ UNCHANGED <<route, owner, key, client, old, record, failed, faults>>

-----------------------------------------------------------------------------
(* The owner, in the runbook's order, and the function's containers.       *)

mint ==
  /\ rotation = "none" /\ rotation' = "minted"
  /\ parameter \in 1 .. MaxKey - 1 /\ live' = live \cup {parameter + 1}
  /\ UNCHANGED <<route, parameter, container, faults>>

\* The first key, which was minted before all this, or the newly minted one.
put ==
  /\ \/ rotation = "none" /\ parameter = 0 /\ UNCHANGED rotation
     \/ rotation = "minted" /\ rotation' = "put"
  /\ parameter' = parameter + 1
  /\ UNCHANGED <<route, live, container, faults>>

\* Containers that were there finish their request and get no other.
bump ==
  /\ rotation = "put" /\ rotation' = "bumped"
  /\ old' = [c \in Containers |-> TRUE]
  /\ UNCHANGED <<route, parameter, live, key, client, call, record, failed, faults>>

revoke ==
  /\ rotation = "bumped" /\ rotation' = "none"
  /\ live' = {parameter}
  /\ UNCHANGED <<route, parameter, container, faults>>

\* A new container in the place of one that answers nothing.
Replace(c) ==
  /\ At(c, "idle")
  /\ key' = [key EXCEPT ![c] = 0] /\ client' = [client EXCEPT ![c] = 0]
  /\ old' = [old EXCEPT ![c] = FALSE]
  /\ record' = [record EXCEPT ![c] = {}] /\ failed' = [failed EXCEPT ![c] = FALSE]
  /\ UNCHANGED <<route, owner, call, faults>>

Next ==
  \/ \E c \in Containers :
       hostedRun(c) \/ keyOf(c) \/ start(c) \/ stream(c) \/ feedback(c) \/ compat(c)
         \/ putRun(c) \/ appendEvent(c) \/ Replace(c)
  \/ mint \/ put \/ bump \/ revoke

Spec == Init /\ [][Next]_vars

-----------------------------------------------------------------------------
(* Properties.                                                             *)

\* "A refused start or read is retried next time" (hosted.ts:113), and a rotation in the
\* runbook's order is not noticed: a run is refused only for what failed while it went
\* on, or when its container is one the bump has already retired.
RefusedForItsOwn == \A c \in Containers : record[c] # {} => failed[c] \/ old[c]
=============================================================================
