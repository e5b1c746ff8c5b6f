------------------------------- MODULE Power --------------------------------
(***************************************************************************)
(* The power function of the eu-west host: services/eu-host/src/power.ts.  *)
(* Invocations (the presenter's sleep and wake, the nightly schedule, the  *)
(* tick and the desk's polls) run concurrently; each describes EC2, then   *)
(* reads the marker on the host's status row, reconciles it, acts, and     *)
(* writes it under a condition.  Every call is one step.                   *)
(*                                                                         *)
(* The write's condition compares the marker's `at`, the instant it was    *)
(* written.  Instants are unique here, so "the marker still carries the at *)
(* I read" is `current`: nobody has written it since the invocation read   *)
(* it, and while that holds `previous` and `known` are the marker itself.  *)
(* A marker's `since` is kept by where the date comes from: the act        *)
(* itself, EC2's launch time, or the instant somebody found the state.     *)
(*                                                                         *)
(* EC2 takes half a minute or more to stop or start an instance            *)
(* (hostPower.ts:61) and an invocation has thirty seconds: one that was in *)
(* flight when a transition began is over before the transition is.        *)
(***************************************************************************)
EXTENDS Naturals

CONSTANTS
  Instances,    \* EC2 instances that may carry the Name tag, old and new
  Invocations,  \* the invocations that may be in flight together
  MaxFaults,    \* how many invocations may fail for a reason of their own
  Nobody        \* nothing described, no marker

ASSUME FaultsAssumption == MaxFaults \in Nat

VARIABLES
  ec2,          \* what EC2 does with each instance
  row,          \* the host's status row exists
  marker,       \* the power attribute of that row
  pc,           \* the next call of each invocation
  request,      \* what each invocation was asked
  seen,         \* the instance and state each invocation described
  current,      \* the invocations whose last read or write of the marker still stands
  began,        \* the invocations in flight when EC2's present transition began
  faults,       \* failures so far
  dated,        \* history: EC2's present sleep or wake was dated by its act
  stale         \* history: EC2 had moved between a describe and the read after it

local == <<request, seen>>
vars == <<ec2, row, marker, pc, request, seen, current, began, faults, dated, stale>>

LIVE_STATES == {"pending", "running", "stopping", "stopped"}
Asleep == {"stopping", "stopped"}
Awake == {"pending", "running"}
PowerAction == {"sleep", "wake", "tick"}  \* "tick": and the desk's status
PowerMarker ==
  [state : LIVE_STATES, instance : Instances,
   since : {"act", "launch", "found"},
   by : {"caller", "observer"}]           \* caller: the presenter, the schedule
Description == [instance : Instances, state : LIVE_STATES]
ASSUME NobodyAssumption == Nobody \notin PowerMarker \cup Description

PCs == {"idle", "read", "reconcile", "reread", "act", "settle", "resettle", "sign"}

TypeOK ==
  /\ ec2 \in [Instances -> LIVE_STATES \cup {"unborn", "gone"}]
  /\ row \in BOOLEAN
  /\ marker \in PowerMarker \cup {Nobody}
  /\ pc \in [Invocations -> PCs]
  /\ request \in [Invocations -> PowerAction]
  /\ seen \in [Invocations -> Description \cup {Nobody}]
  /\ current \in SUBSET Invocations
  /\ began \in SUBSET Invocations
  /\ faults \in 0 .. MaxFaults
  /\ dated \in {"no", "sleep", "wake"}
  /\ stale \in BOOLEAN

First == CHOOSE x \in Instances : TRUE   \* no instance is special
InFlight == {i \in Invocations : pc[i] # "idle"}

Init ==
  /\ ec2 = [x \in Instances |-> IF x = First THEN "running" ELSE "unborn"]
  /\ row = FALSE
  /\ marker = Nobody
  /\ pc = [i \in Invocations |-> "idle"]
  /\ request = [i \in Invocations |-> "tick"]
  /\ seen = [i \in Invocations |-> Nobody]
  /\ current = {}
  /\ began = {}
  /\ faults = 0
  /\ dated = "no"
  /\ stale = FALSE

-----------------------------------------------------------------------------
(* Reading.                                                                *)

\* The one live instance carrying the tag; none when there are several.
liveInstanceOf ==
  LET live == {x \in Instances : ec2[x] \in LIVE_STATES}
  IN  IF \E x \in live : live = {x}
      THEN LET x == CHOOSE x \in live : TRUE IN [instance |-> x, state |-> ec2[x]]
      ELSE Nobody

Goto(i, next) == pc' = [pc EXCEPT ![i] = next]

\* An invocation that ends forgets what it read; `readers` are the invocations
\* whose last read is still current.
EndWith(i, readers) ==
  /\ Goto(i, "idle")
  /\ request' = [request EXCEPT ![i] = "tick"]
  /\ seen' = [seen EXCEPT ![i] = Nobody]
  /\ current' = readers \ {i}
  /\ began' = began \ {i}
Continue(i, next, readers) ==
  /\ Goto(i, next)
  /\ current' = readers
  /\ UNCHANGED <<local, began>>

End(i) == EndWith(i, current)

Invoke(i, asked) ==
  /\ pc[i] = "idle"
  /\ request' = [request EXCEPT ![i] = asked]
  /\ seen' = [seen EXCEPT ![i] = liveInstanceOf]
  /\ Goto(i, "read")
  /\ UNCHANGED <<ec2, row, marker, current, began, faults, dated, stale>>

\* The marker is there, for this instance and in this state: nothing to write.
Agrees(m, description) ==
  m # Nobody /\ m.state = description.state /\ m.instance = description.instance

\* The same sleep or wake, one step on.
Continues(m, description) ==
  /\ m # Nobody /\ m.instance = description.instance
  /\ <<m.state, description.state>> \in {<<"stopping", "stopped">>, <<"pending", "running">>}

reconciledMarker(m, description) ==
  [state |-> description.state,
   since |-> IF Continues(m, description) THEN m.since
             ELSE IF description.state = "running" THEN "launch" ELSE "found",
   by |-> IF Continues(m, description) THEN m.by ELSE "observer",
   instance |-> description.instance]

\* With the marker reconciled the invocation acts or ends.  A sleep of a
\* running host goes on to StopInstances unless its wire is cut or, for the
\* schedule, demo mode is on: what these two reads say may be anything.  A wake
\* of a stopped host goes on to StartInstances.  Every other request is refused,
\* already so, or only a look.
Proceed(i, readers) ==
  LET asked == <<request[i], seen[i].state>>
  IN  \/ /\ asked \in {<<"sleep", "running">>, <<"wake", "stopped">>}
         /\ Continue(i, "act", readers)
      \/ asked # <<"wake", "stopped">> /\ EndWith(i, readers)

\* Without a live instance the invocation refuses and ends.
Read(i) ==
  /\ pc[i] = "read"
  /\ stale' = (stale \/ seen[i] # liveInstanceOf)
  /\ IF seen[i] = Nobody THEN End(i)
     ELSE IF Agrees(marker, seen[i]) THEN Proceed(i, current \cup {i})
     ELSE Continue(i, "reconcile", current \cup {i})
  /\ UNCHANGED <<ec2, row, marker, faults, dated>>

-----------------------------------------------------------------------------
(* Writing.  writeMarker succeeds when the row exists and the marker is    *)
(* the one read.  The timeline's row for a written marker (and for a       *)
(* refused act) is appended right after, best effort, and decides nothing: *)
(* it repeats the marker, and is not a variable here.                      *)

\* Mutants: without the comparison with the marker read; and with it also where
\* there is no marker yet.
CanOverwrite(i) == row
CanReplace(i) == row /\ i \in current /\ marker # Nobody

CanWrite(i) == row /\ i \in current

record(i, m) == CanWrite(i) /\ marker' = m

Refused(i) == ~ CanWrite(i) /\ UNCHANGED <<marker, dated>>

\* A write leaves its own invocation alone with a current read.
Reconcile(i) ==
  /\ pc[i] = "reconcile"
  /\ \/ /\ record(i, reconciledMarker(marker, seen[i]))
        /\ Proceed(i, {i})
        /\ UNCHANGED dated
     \/ Refused(i) /\ Continue(i, "reread", current)
  /\ UNCHANGED <<ec2, row, faults, stale>>

Reread(i) ==
  /\ pc[i] = "reread"
  /\ Proceed(i, current \cup {i})
  /\ UNCHANGED <<ec2, row, marker, faults, dated, stale>>

-----------------------------------------------------------------------------
(* Acting: on the state described at the start.                            *)

\* StopInstances and StartInstances: EC2 accepts a call that changes nothing
\* and refuses one that comes in the middle of the opposite transition.
Transition(action) == IF action = "sleep" THEN "stopping" ELSE "pending"
From(action) == IF action = "sleep" THEN "running" ELSE "stopped"
Already(action) == IF action = "sleep" THEN Asleep ELSE Awake

Act(i) ==
  /\ pc[i] = "act"
  /\ LET x == seen[i].instance
         action == request[i]
     IN  \/ /\ ec2[x] = From(action)
            /\ ec2' = [ec2 EXCEPT ![x] = Transition(action)]
            /\ began' = InFlight
            /\ dated' = "no"
            /\ Goto(i, "settle")
            /\ UNCHANGED <<request, seen, current>>
         \/ /\ ec2[x] \in Already(action)
            /\ Continue(i, "settle", current)
            /\ UNCHANGED <<ec2, dated>>
         \/ /\ ec2[x] \notin Already(action) \cup {From(action)}
            /\ End(i)
            /\ UNCHANGED <<ec2, dated>>
  /\ UNCHANGED <<row, marker, faults, stale>>

\* The act's own marker: the transition, dated now, with the caller's name.
Signed(i) ==
  [state |-> Transition(request[i]), since |-> "act", by |-> "caller",
   instance |-> seen[i].instance]

\* EC2 is still in the sleep or wake the act began.
InRun(i) == ec2[seen[i].instance] \in Already(request[i])

WriteSigned(i) ==
  /\ record(i, Signed(i))
  /\ dated' = IF InRun(i) THEN request[i] ELSE dated
  /\ EndWith(i, {})

Settle(i) ==
  /\ pc[i] = "settle"
  /\ \/ WriteSigned(i)
     \/ Refused(i) /\ Continue(i, "resettle", current)
  /\ UNCHANGED <<ec2, row, faults, stale>>

\* Mutant: a lost race is lost.
ResettleNever(i) ==
  /\ pc[i] = "resettle"
  /\ End(i)
  /\ UNCHANGED <<ec2, row, marker, faults, dated, stale>>

\* A lost race is tried again when somebody else wrote the same transition.
Resettle(i) ==
  /\ pc[i] = "resettle"
  /\ IF Agrees(marker, Signed(i)) THEN Continue(i, "sign", current \cup {i})
     ELSE End(i)
  /\ UNCHANGED <<ec2, row, marker, faults, dated, stale>>

Sign(i) ==
  /\ pc[i] = "sign"
  /\ WriteSigned(i) \/ (Refused(i) /\ End(i))
  /\ UNCHANGED <<ec2, row, faults, stale>>

Step(i) ==
  \/ Read(i) \/ Reconcile(i) \/ Reread(i)
  \/ Act(i) \/ Settle(i) \/ Resettle(i) \/ Sign(i)

\* A call fails, or the Lambda times out.
Fail(i) ==
  /\ pc[i] # "idle"
  /\ faults < MaxFaults
  /\ faults' = faults + 1
  /\ End(i)
  /\ UNCHANGED <<ec2, row, marker, dated, stale>>

-----------------------------------------------------------------------------
(* Around the function: EC2 completes its transitions, somebody stops or   *)
(* starts the host in the console, CloudFormation replaces it, the workers *)
(* write the first status row.                                             *)

Ec2Moves(x, before, after) ==
  /\ ec2[x] = before
  /\ ec2' = [ec2 EXCEPT ![x] = after]
  /\ UNCHANGED <<row, marker, pc, local, current, faults>>

Ec2Completes(x) ==
  /\ began = {}
  /\ Ec2Moves(x, "stopping", "stopped") \/ Ec2Moves(x, "pending", "running")
  /\ UNCHANGED <<began, dated, stale>>

OutsideAct(x) ==
  /\ Ec2Moves(x, "running", "stopping") \/ Ec2Moves(x, "stopped", "pending")
  /\ began' = InFlight
  /\ dated' = "no"
  /\ UNCHANGED stale

\* A new instance never has the id of an old one.
Launch(x) ==
  /\ Ec2Moves(x, "unborn", "pending")
  /\ began' = InFlight
  /\ UNCHANGED <<dated, stale>>

\* The dated run is the one of the marker's instance.
Terminate(x) ==
  /\ \E s \in {"running", "stopped"} : Ec2Moves(x, s, "gone")
  /\ dated' = IF marker # Nobody /\ marker.instance = x THEN "no" ELSE dated
  /\ UNCHANGED <<began, stale>>

RowAppears ==
  /\ ~ row
  /\ row' = TRUE
  /\ UNCHANGED <<ec2, marker, pc, local, current, began, faults, dated, stale>>

Next ==
  \/ \E i \in Invocations : Step(i) \/ Fail(i) \/ \E asked \in PowerAction : Invoke(i, asked)
  \/ \E x \in Instances : Ec2Completes(x) \/ OutsideAct(x) \/ Launch(x) \/ Terminate(x)
  \/ RowAppears

Spec == Init /\ [][Next]_vars

\* EventBridge's tick comes every five minutes, Lambda runs what it started,
\* EC2 completes its transitions and the workers write a row.
Fairness ==
  /\ \A i \in Invocations : WF_vars(Step(i))
  /\ WF_vars(\E i \in Invocations : Invoke(i, "tick"))
  /\ \A x \in Instances : WF_vars(Ec2Completes(x))
  /\ WF_vars(RowAppears)

FairSpec == Spec /\ Fairness

-----------------------------------------------------------------------------
(* Properties.                                                             *)

\* What the card owes the presenter: once a sleep or a wake has dated the
\* marker, the marker stays in that sleep or wake and keeps the act's date for
\* as long as EC2 does ("asleep since is when the sleep began"; "a tick that
\* lost the race to the presenter's own click drops its write",
\* power.ts:17-23).
ClickStands ==
  dated # "no" => /\ marker # Nobody
                  /\ marker.state \in Already(dated)
                  /\ marker.since = "act"

\* The same, as long as no invocation read the marker after EC2 had left the
\* state it described.
ClickStandsUnlessStale == ~ stale => ClickStands

\* The act happened, and the card says who did it (power.ts:202-206): an act
\* that ends without failing never leaves its own transition on the card dated
\* and named by somebody who only observed it.
Ends(i) == pc[i] \in {"settle", "resettle", "sign"} /\ pc'[i] = "idle" /\ faults' = faults
ActsAreSigned ==
  [][\A i \in Invocations :
       Ends(i) /\ ~ stale /\ Agrees(marker', Signed(i)) => marker'.since = "act"]_vars

\* Whatever was lost or raced, once EC2 leaves the host alone the card in the
\* end shows the host as EC2 does, under its own instance id ("whatever the
\* action, the marker says what EC2 says", power.ts:231).
Shown == liveInstanceOf # Nobody => Agrees(marker, liveInstanceOf)
MarkerConverges == <>[][ec2' = ec2]_ec2 => <>[]Shown
=============================================================================
