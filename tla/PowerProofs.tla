----------------------------- MODULE PowerProofs ----------------------------
(***************************************************************************)
(* For any number of invocations, instances and failures: what the power   *)
(* function's condition on the marker keeps.                               *)
(***************************************************************************)
EXTENDS Power, TLAPS

(* What an invocation has read by each of its calls. *)
Acted == {"settle", "resettle", "sign"}
Reading(i) ==
  /\ pc[i] \in {"reconcile", "reread", "act"} \cup Acted => seen[i] # Nobody
  /\ pc[i] \in {"act"} \cup Acted => seen[i] # Nobody
                                    /\ request[i] \in {"sleep", "wake"}
                                    /\ seen[i].state = From(request[i])

(* While an invocation has not acted, EC2 has the instance where it was     *)
(* described, or in the transition that began since, or no longer at all.   *)
Before(i) ==
  pc[i] \in {"read", "reconcile", "reread", "act"} /\ seen[i] # Nobody =>
    \A action \in {"sleep", "wake"} : seen[i].state = From(action) =>
      LET now == ec2[seen[i].instance]
      IN  now \in {From(action), "gone"} \/ (now = Transition(action) /\ i \in began)

(* Once it has acted, the transition it asked for is going on. *)
After(i) ==
  pc[i] \in Acted => i \in began /\ ec2[seen[i].instance] = Transition(request[i])

(* A dated marker is the act's, is where EC2 is, and is never ahead of EC2. *)
Dated ==
  ~ stale /\ dated # "no" =>
    /\ marker # Nobody
    /\ marker.since = "act"
    /\ marker.state \in Already(dated)
    /\ ec2[marker.instance] \in Already(dated)
    /\ marker.state # Transition(dated) => ec2[marker.instance] = marker.state

(* An invocation about to reconcile a dated marker takes the sleep or the   *)
(* wake one step on: the state it described is the end of the transition.   *)
Onward(i) ==
  ~ stale /\ dated # "no" /\ pc[i] = "reconcile" /\ i \in current =>
    /\ Continues(marker, seen[i])
    /\ seen[i].state \in Already(dated) \ {Transition(dated)}
    /\ ec2[seen[i].instance] = seen[i].state

IInv ==
  /\ TypeOK
  /\ Dated
  /\ \A i \in Invocations : Reading(i) /\ Before(i) /\ After(i) /\ Onward(i)

-----------------------------------------------------------------------------
(* Lemmas about the operators.                                             *)

(* The one live instance is described as EC2 has it, and is the only one. *)
LEMMA LiveInstance ==
  ASSUME TypeOK
  PROVE  /\ liveInstanceOf \in Description \cup {Nobody}
         /\ liveInstanceOf # Nobody =>
              /\ liveInstanceOf.instance \in Instances
              /\ ec2[liveInstanceOf.instance] = liveInstanceOf.state
              /\ \A x \in Instances : ec2[x] \in LIVE_STATES => x = liveInstanceOf.instance
<1> DEFINE live == {x \in Instances : ec2[x] \in LIVE_STATES}
<1>1. CASE \E x \in live : live = {x}
  <2>1. PICK x \in live : live = {x}
    BY <1>1
  <2>2. (CHOOSE y \in live : TRUE) = x
    BY <2>1
  <2>3. liveInstanceOf = [instance |-> x, state |-> ec2[x]]
    BY <1>1, <2>2 DEF liveInstanceOf
  <2>4. x \in Instances /\ ec2[x] \in LIVE_STATES
    BY <2>1
  <2>5. \A y \in Instances : ec2[y] \in LIVE_STATES => y = x
    BY <2>1
  <2>6. QED
    BY <2>3, <2>4, <2>5 DEF Description
<1>2. CASE ~ \E x \in live : live = {x}
  <2>1. liveInstanceOf = Nobody
    BY <1>2 DEF liveInstanceOf
  <2>2. QED
    BY <2>1
<1>3. QED
  BY <1>1, <1>2

(* The part of the type invariant that an invocation's own step touches. *)
LocalOK ==
  /\ pc \in [Invocations -> PCs]
  /\ request \in [Invocations -> PowerAction]
  /\ seen \in [Invocations -> Description \cup {Nobody}]
  /\ current \in SUBSET Invocations
  /\ began \in SUBSET Invocations

LEMMA EndType ==
  ASSUME TypeOK, NEW i \in Invocations, NEW readers \in SUBSET Invocations,
         EndWith(i, readers)
  PROVE  LocalOK'
BY DEF TypeOK, LocalOK, EndWith, Goto, PCs, PowerAction

LEMMA ContinueType ==
  ASSUME TypeOK, NEW i \in Invocations, NEW readers \in SUBSET Invocations,
         NEW next \in PCs, Continue(i, next, readers)
  PROVE  LocalOK'
BY DEF TypeOK, LocalOK, Continue, Goto, local

LEMMA ProceedType ==
  ASSUME TypeOK, NEW i \in Invocations, NEW readers \in SUBSET Invocations,
         Proceed(i, readers)
  PROVE  LocalOK'
<1>1. "act" \in PCs
  BY DEF PCs
<1>2. Continue(i, "act", readers) \/ EndWith(i, readers)
  BY DEF Proceed
<1>3. QED
  BY <1>1, <1>2, EndType, ContinueType

(* What an invocation writes is a marker. *)
LEMMA MarkerType ==
  ASSUME TypeOK, NEW i \in Invocations, seen[i] # Nobody
  PROVE  /\ seen[i] \in Description
         /\ reconciledMarker(marker, seen[i]) \in PowerMarker
         /\ Signed(i) \in PowerMarker
<1>1. seen[i] \in Description
  BY DEF TypeOK
<1>2. seen[i].instance \in Instances /\ seen[i].state \in LIVE_STATES
  BY <1>1 DEF Description
<1>3. marker # Nobody => marker.since \in {"act", "launch", "found"} /\ marker.by \in {"caller", "observer"}
  BY DEF TypeOK, PowerMarker
<1>4. reconciledMarker(marker, seen[i]) \in PowerMarker
  BY <1>2, <1>3 DEF reconciledMarker, Continues, PowerMarker
<1>5. Signed(i) \in PowerMarker
  BY <1>2 DEF Signed, PowerMarker, Transition, LIVE_STATES
<1>6. QED
  BY <1>1, <1>4, <1>5

-----------------------------------------------------------------------------
(* The type invariant.  Reading is needed with it: what an invocation       *)
(* writes is a marker only because it found an instance.                    *)

LEMMA TypeStep ==
  ASSUME TypeOK, \A i \in Invocations : Reading(i), [Next]_vars
  PROVE  TypeOK'
<1> USE DEF LocalOK
<1>1. ASSUME NEW i \in Invocations, NEW asked \in PowerAction, Invoke(i, asked)
      PROVE  TypeOK'
  BY <1>1, LiveInstance DEF Invoke, Goto, TypeOK, PCs
<1>2. ASSUME NEW i \in Invocations, Read(i) PROVE TypeOK'
  <2>1. current \in SUBSET Invocations /\ current \cup {i} \in SUBSET Invocations
    BY DEF TypeOK
  <2>2. "reconcile" \in PCs
    BY DEF PCs
  <2>3. LocalOK'
    BY <1>2, <2>1, <2>2, EndType, ProceedType, ContinueType DEF Read, End
  <2>4. stale' \in BOOLEAN /\ UNCHANGED <<ec2, row, marker, faults, dated>>
    BY <1>2 DEF Read
  <2>5. QED
    BY <2>3, <2>4 DEF TypeOK
<1>3. ASSUME NEW i \in Invocations, Reconcile(i) PROVE TypeOK'
  <2>1. current \in SUBSET Invocations /\ {i} \in SUBSET Invocations /\ "reread" \in PCs
    BY DEF TypeOK, PCs
  <2>2. LocalOK'
    BY <1>3, <2>1, ProceedType, ContinueType DEF Reconcile
  <2>3. seen[i] # Nobody
    BY <1>3 DEF Reconcile, Reading
  <2>4. marker' \in PowerMarker \cup {Nobody} /\ UNCHANGED dated
    BY <1>3, <2>3, MarkerType DEF Reconcile, record, Refused, TypeOK
  <2>5. QED
    BY <1>3, <2>2, <2>4 DEF Reconcile, TypeOK
<1>4. ASSUME NEW i \in Invocations, Reread(i) PROVE TypeOK'
  <2>1. current \cup {i} \in SUBSET Invocations
    BY DEF TypeOK
  <2>2. LocalOK'
    BY <1>4, <2>1, ProceedType DEF Reread
  <2>3. QED
    BY <1>4, <2>2 DEF Reread, TypeOK
<1>5. ASSUME NEW i \in Invocations, Act(i) PROVE TypeOK'
  <2>1. current \in SUBSET Invocations /\ "settle" \in PCs
    BY DEF TypeOK, PCs
  <2>2. LocalOK'
    <3>1. CASE Continue(i, "settle", current) \/ End(i)
      BY <2>1, <3>1, EndType, ContinueType DEF End
    <3>2. CASE /\ began' = InFlight
               /\ Goto(i, "settle")
               /\ UNCHANGED <<request, seen, current>>
      BY <2>1, <3>2 DEF TypeOK, Goto, InFlight
    <3>3. QED
      BY <1>5, <3>1, <3>2 DEF Act
  <2>3. ec2' \in [Instances -> LIVE_STATES \cup {"unborn", "gone"}]
    BY <1>5 DEF Act, TypeOK, Transition, LIVE_STATES
  <2>4. dated' \in {"no", "sleep", "wake"} /\ UNCHANGED <<row, marker, faults, stale>>
    BY <1>5 DEF Act, TypeOK
  <2>5. QED
    BY <2>2, <2>3, <2>4 DEF TypeOK
<1>6. ASSUME NEW i \in Invocations, WriteSigned(i), pc[i] \in Acted,
             UNCHANGED <<ec2, row, faults, stale>>
      PROVE  TypeOK'
  <2>1. LocalOK'
    BY <1>6, EndType DEF WriteSigned
  <2>2. seen[i] # Nobody /\ request[i] \in {"sleep", "wake"}
    BY <1>6 DEF Reading
  <2>3. marker' \in PowerMarker
    BY <1>6, <2>2, MarkerType DEF WriteSigned, record
  <2>4. dated' \in {"no", "sleep", "wake"}
    BY <1>6, <2>2 DEF WriteSigned, TypeOK
  <2>5. QED
    BY <1>6, <2>1, <2>3, <2>4 DEF TypeOK
<1>7. ASSUME NEW i \in Invocations, Settle(i) PROVE TypeOK'
  <2>1. CASE WriteSigned(i)
    BY <1>6, <1>7, <2>1 DEF Settle, Acted
  <2>2. CASE Refused(i) /\ Continue(i, "resettle", current)
    <3>1. LocalOK'
      BY <2>2, ContinueType DEF TypeOK, PCs
    <3>2. QED
      BY <1>7, <2>2, <3>1 DEF Settle, Refused, TypeOK
  <2>3. QED
    BY <1>7, <2>1, <2>2 DEF Settle
<1>8. ASSUME NEW i \in Invocations, Resettle(i) PROVE TypeOK'
  <2>1. current \in SUBSET Invocations /\ current \cup {i} \in SUBSET Invocations /\ "sign" \in PCs
    BY DEF TypeOK, PCs
  <2>2. LocalOK'
    BY <1>8, <2>1, EndType, ContinueType DEF Resettle, End
  <2>3. QED
    BY <1>8, <2>2 DEF Resettle, TypeOK
<1>9. ASSUME NEW i \in Invocations, Sign(i) PROVE TypeOK'
  <2>1. CASE WriteSigned(i)
    BY <1>6, <1>9, <2>1 DEF Sign, Acted
  <2>2. CASE Refused(i) /\ End(i)
    <3>1. LocalOK'
      BY <2>2, EndType DEF End, TypeOK
    <3>2. QED
      BY <1>9, <2>2, <3>1 DEF Sign, Refused, TypeOK
  <2>3. QED
    BY <1>9, <2>1, <2>2 DEF Sign
<1>10. ASSUME NEW i \in Invocations, Fail(i) PROVE TypeOK'
  <2>1. LocalOK'
    BY <1>10, EndType DEF Fail, End, TypeOK
  <2>2. faults' \in 0 .. MaxFaults
    BY <1>10, FaultsAssumption DEF Fail, TypeOK
  <2>3. QED
    BY <1>10, <2>1, <2>2 DEF Fail, TypeOK
<1>11. ASSUME NEW x \in Instances, Ec2Completes(x) \/ OutsideAct(x) \/ Launch(x) \/ Terminate(x)
       PROVE  TypeOK'
  <2>1. UNCHANGED <<row, marker, pc, local, current, faults, stale>>
    BY <1>11 DEF Ec2Completes, OutsideAct, Launch, Terminate, Ec2Moves
  <2>2. ec2' \in [Instances -> LIVE_STATES \cup {"unborn", "gone"}]
    BY <1>11 DEF Ec2Completes, OutsideAct, Launch, Terminate, Ec2Moves, TypeOK, LIVE_STATES
  <2>3. began' \in SUBSET Invocations /\ dated' \in {"no", "sleep", "wake"}
    BY <1>11 DEF Ec2Completes, OutsideAct, Launch, Terminate, TypeOK, InFlight
  <2>4. QED
    BY <2>1, <2>2, <2>3 DEF TypeOK, local
<1>12. ASSUME RowAppears PROVE TypeOK'
  BY <1>12 DEF RowAppears, TypeOK, local
<1>13. ASSUME UNCHANGED vars PROVE TypeOK'
  BY <1>13 DEF vars, TypeOK
<1>14. QED
  BY <1>1, <1>2, <1>3, <1>4, <1>5, <1>7, <1>8, <1>9, <1>10, <1>11, <1>12, <1>13
     DEF Next, Step

-----------------------------------------------------------------------------
(* What an invocation knows of EC2 while it runs.                           *)

Tracks(i) == Reading(i) /\ Before(i) /\ After(i)

(* Nothing an invocation does touches another one's bookkeeping. *)
Aside(j) ==
  /\ pc'[j] = pc[j]
  /\ request'[j] = request[j]
  /\ seen'[j] = seen[j]
  /\ j \in began /\ pc[j] # "idle" => j \in began'

LEMMA TracksAside ==
  ASSUME NEW j \in Invocations, Tracks(j), Aside(j),
         pc[j] # "idle" /\ seen[j] # Nobody =>
           ec2'[seen[j].instance] = ec2[seen[j].instance]
  PROVE  Tracks(j)'
<1>1. Reading(j)'
  BY DEF Tracks, Reading, Aside
<1>2. Before(j)'
  BY DEF Tracks, Before, Aside
<1>3. After(j)'
  BY DEF Tracks, Reading, After, Aside, Acted
<1>4. QED
  BY <1>1, <1>2, <1>3 DEF Tracks

(* The steps of EC2 itself: a transition that begins takes in everyone in   *)
(* flight, and one that completes waits until nobody of them is left; an    *)
(* instance may also appear or be terminated.                               *)
Begins(x) ==
  /\ \E action \in {"sleep", "wake"} :
       ec2[x] = From(action) /\ ec2' = [ec2 EXCEPT ![x] = Transition(action)]
  /\ began' = InFlight
Arrives(x) ==
  \/ /\ began = {}
     /\ ec2[x] \in {"stopping", "pending"}
     /\ ec2' = [ec2 EXCEPT ![x] = IF ec2[x] = "stopping" THEN "stopped" ELSE "running"]
     /\ UNCHANGED began
  \/ /\ ec2[x] = "unborn"
     /\ ec2' = [ec2 EXCEPT ![x] = "pending"]
     /\ began' = InFlight
  \/ /\ ec2[x] \in {"running", "stopped"}
     /\ ec2' = [ec2 EXCEPT ![x] = "gone"]
     /\ UNCHANGED began

LEMMA TracksEc2 ==
  ASSUME TypeOK, NEW x \in Instances, Begins(x) \/ Arrives(x),
         NEW j \in Invocations, Tracks(j),
         pc'[j] = pc[j], request'[j] = request[j], seen'[j] = seen[j]
  PROVE  Tracks(j)'
<1>1. CASE pc[j] = "idle"
  BY <1>1 DEF Tracks, Reading, Before, After, Acted
<1>2. CASE pc[j] # "idle" /\ seen[j] = Nobody
  BY <1>2 DEF Tracks, Reading, Before, After, Acted
<1>3. CASE pc[j] # "idle" /\ seen[j] # Nobody /\ seen[j].instance # x
  <2>1. j \in began => j \in began'
    BY <1>3 DEF Begins, Arrives, InFlight
  <2>2. seen[j].instance \in Instances
    BY <1>3 DEF TypeOK, Description
  <2>3. ec2'[seen[j].instance] = ec2[seen[j].instance]
    BY <1>3, <2>2 DEF Begins, Arrives, TypeOK
  <2>4. QED
    BY <2>1, <2>3, TracksAside DEF Aside
<1>4. CASE pc[j] # "idle" /\ seen[j] # Nobody /\ seen[j].instance = x
  <2>1. ec2'[x] # ec2[x] /\ ec2 \in [Instances -> LIVE_STATES \cup {"unborn", "gone"}]
    BY DEF Begins, Arrives, TypeOK, From, Transition
  <2>2. pc[j] \notin Acted
    BY <1>4 DEF Tracks, Reading, After, Begins, Arrives, From, Transition, Acted
  <2>3. Before(j)'
    <3>1. SUFFICES ASSUME pc[j] \in {"read", "reconcile", "reread", "act"},
                          NEW action \in {"sleep", "wake"}, seen[j].state = From(action)
                   PROVE  \/ ec2'[x] \in {From(action), "gone"}
                          \/ ec2'[x] = Transition(action) /\ j \in began'
      BY <1>4 DEF Before
    <3>2. ec2[x] \in {From(action), "gone"} \/ (ec2[x] = Transition(action) /\ j \in began)
      BY <1>4, <3>1 DEF Tracks, Before
    <3>3. CASE Begins(x)
      BY <1>4, <2>1, <3>2, <3>3 DEF Begins, From, Transition, InFlight
    <3>4. CASE Arrives(x)
      BY <1>4, <2>1, <3>2, <3>4 DEF Arrives, From, Transition
    <3>5. QED
      BY <3>3, <3>4
  <2>4. QED
    BY <2>2, <2>3 DEF Tracks, Reading, After, Acted
<1>5. QED
  BY <1>1, <1>2, <1>3, <1>4

LEMMA EnvironmentSteps ==
  ASSUME NEW x \in Instances, Ec2Completes(x) \/ OutsideAct(x) \/ Launch(x) \/ Terminate(x)
  PROVE  /\ Begins(x) \/ Arrives(x)
         /\ UNCHANGED <<marker, pc, request, seen, current>>
BY DEF Ec2Completes, OutsideAct, Launch, Terminate, Ec2Moves, Begins, Arrives, From,
       Transition, local

(* An invocation's own step, when it moves on or ends. *)
LEMMA OthersAside ==
  ASSUME TypeOK, NEW i \in Invocations, NEW readers, NEW next,
         EndWith(i, readers) \/ Continue(i, next, readers)
  PROVE  \A j \in Invocations \ {i} : Aside(j)
BY DEF EndWith, Continue, Goto, Aside, TypeOK, local

LEMMA EndTracks ==
  ASSUME TypeOK, NEW i \in Invocations, NEW readers, EndWith(i, readers)
  PROVE  Tracks(i)'
BY DEF EndWith, Goto, TypeOK, Tracks, Reading, Before, After, Acted

LEMMA ProceedTracks ==
  ASSUME TypeOK, NEW i \in Invocations, NEW readers, Proceed(i, readers), Tracks(i),
         pc[i] \in {"read", "reconcile", "reread"}, seen[i] # Nobody, UNCHANGED ec2
  PROVE  Tracks(i)' /\ \A j \in Invocations \ {i} : Aside(j)
<1>1. CASE EndWith(i, readers)
  BY <1>1, EndTracks, OthersAside
<1>2. CASE Continue(i, "act", readers) /\
           <<request[i], seen[i].state>> \in {<<"sleep", "running">>, <<"wake", "stopped">>}
  <2>1. pc'[i] = "act" /\ UNCHANGED <<request, seen, began>>
    BY <1>2 DEF Continue, Goto, TypeOK, local
  <2>2. request[i] \in {"sleep", "wake"} /\ seen[i].state = From(request[i])
    BY <1>2 DEF From
  <2>3. Reading(i)'
    BY <2>1, <2>2 DEF Reading
  <2>4. Before(i)'
    BY <2>1 DEF Tracks, Before
  <2>5. QED
    BY <1>2, <2>1, <2>3, <2>4, OthersAside DEF Tracks, After, Acted
<1>3. QED
  BY <1>1, <1>2 DEF Proceed

LEMMA TracksStep ==
  ASSUME TypeOK, \A i \in Invocations : Tracks(i), [Next]_vars
  PROVE  \A i \in Invocations : Tracks(i)'
<1>a. ASSUME NEW i \in Invocations, Tracks(i)',
             \A j \in Invocations \ {i} : Aside(j), UNCHANGED ec2
      PROVE  \A j \in Invocations : Tracks(j)'
  BY <1>a, TracksAside
<1>b. ASSUME NEW i \in Invocations, NEW readers, EndWith(i, readers), UNCHANGED ec2
      PROVE  \A j \in Invocations : Tracks(j)'
  BY <1>a, <1>b, EndTracks, OthersAside
<1>c. ASSUME NEW i \in Invocations, NEW readers, NEW next, Continue(i, next, readers),
             UNCHANGED ec2, seen[i] # Nobody,
             \/ pc[i] = "read" /\ next = "reconcile"
             \/ pc[i] = "reconcile" /\ next = "reread"
             \/ pc[i] \in Acted /\ next \in Acted
             \/ /\ pc[i] = "act" /\ next = "settle"
                /\ ec2[seen[i].instance] = Transition(request[i]) /\ i \in began
      PROVE  \A j \in Invocations : Tracks(j)'
  <2>1. pc'[i] = next /\ UNCHANGED <<request, seen, began>>
    BY <1>c DEF Continue, Goto, TypeOK, local
  <2>2. Tracks(i)'
    BY <1>c, <2>1 DEF Tracks, Reading, Before, After, Acted
  <2>3. QED
    BY <1>a, <1>c, <2>2, OthersAside
<1>1. ASSUME NEW i \in Invocations, NEW asked \in PowerAction, Invoke(i, asked)
      PROVE  \A j \in Invocations : Tracks(j)'
  <2>1. /\ pc'[i] = "read" /\ seen'[i] = liveInstanceOf
        /\ UNCHANGED <<ec2, began>>
        /\ \A j \in Invocations \ {i} : Aside(j)
    BY <1>1 DEF Invoke, Goto, Aside, TypeOK
  <2>2. Tracks(i)'
    BY <2>1, LiveInstance DEF Tracks, Reading, Before, After, Acted
  <2>3. QED
    BY <1>a, <2>1, <2>2
<1>2. ASSUME NEW i \in Invocations, Read(i) PROVE \A j \in Invocations : Tracks(j)'
  <2>1. CASE End(i)
    BY <1>2, <1>b, <2>1 DEF Read, End
  <2>2. CASE seen[i] # Nobody /\ Proceed(i, current \cup {i})
    BY <1>2, <1>a, <2>2, ProceedTracks DEF Read
  <2>3. CASE seen[i] # Nobody /\ Continue(i, "reconcile", current \cup {i})
    BY <1>2, <1>c, <2>3 DEF Read
  <2>4. QED
    BY <1>2, <2>1, <2>2, <2>3 DEF Read
<1>3. ASSUME NEW i \in Invocations, Reconcile(i) PROVE \A j \in Invocations : Tracks(j)'
  <2>1. pc[i] = "reconcile" /\ seen[i] # Nobody /\ UNCHANGED ec2
    BY <1>3 DEF Reconcile, Tracks, Reading
  <2>2. CASE Proceed(i, {i})
    BY <1>a, <2>1, <2>2, ProceedTracks
  <2>3. CASE Continue(i, "reread", current)
    BY <1>c, <2>1, <2>3
  <2>4. QED
    BY <1>3, <2>2, <2>3 DEF Reconcile
<1>4. ASSUME NEW i \in Invocations, Reread(i) PROVE \A j \in Invocations : Tracks(j)'
  <2>1. pc[i] = "reread" /\ seen[i] # Nobody /\ UNCHANGED ec2
    BY <1>4 DEF Reread, Tracks, Reading
  <2>2. QED
    BY <1>4, <1>a, <2>1, ProceedTracks DEF Reread
<1>5. ASSUME NEW i \in Invocations, Act(i) PROVE \A j \in Invocations : Tracks(j)'
  <2> DEFINE x == seen[i].instance
  <2>1. /\ pc[i] = "act" /\ seen[i] # Nobody /\ x \in Instances
        /\ request[i] \in {"sleep", "wake"} /\ seen[i].state = From(request[i])
    BY <1>5 DEF Act, Tracks, Reading, TypeOK, Description
  <2>2. CASE /\ ec2[x] = From(request[i])
             /\ ec2' = [ec2 EXCEPT ![x] = Transition(request[i])]
             /\ began' = InFlight
             /\ Goto(i, "settle")
             /\ UNCHANGED <<request, seen, current>>
    <3>1. Begins(x)
      BY <2>1, <2>2 DEF Begins
    <3>2. \A j \in Invocations \ {i} : Tracks(j)'
      BY <2>1, <2>2, <3>1, TracksEc2 DEF Goto, TypeOK
    <3>3. pc'[i] = "settle" /\ i \in began' /\ ec2'[x] = Transition(request[i])
      BY <2>1, <2>2 DEF Goto, InFlight, TypeOK
    <3>4. Tracks(i)'
      BY <2>1, <2>2, <3>3 DEF Tracks, Reading, Before, After, Acted
    <3>5. QED
      BY <3>2, <3>4
  <2>3. CASE ec2[x] \in Already(request[i]) /\ Continue(i, "settle", current) /\ UNCHANGED ec2
    <3>1. ec2[x] = Transition(request[i]) /\ i \in began
      BY <2>1, <2>3 DEF Tracks, Before, From, Transition, Already, Asleep, Awake
    <3>2. QED
      BY <1>c, <2>1, <2>3, <3>1
  <2>4. CASE End(i) /\ UNCHANGED ec2
    BY <1>b, <2>4 DEF End
  <2>5. QED
    BY <1>5, <2>2, <2>3, <2>4 DEF Act
<1>6. ASSUME NEW i \in Invocations, Settle(i) \/ Resettle(i) \/ Sign(i)
      PROVE  \A j \in Invocations : Tracks(j)'
  <2>1. pc[i] \in Acted /\ seen[i] # Nobody /\ UNCHANGED ec2
    BY <1>6 DEF Settle, Resettle, Sign, Acted, Tracks, Reading
  <2>2. \/ \E readers : EndWith(i, readers)
        \/ \E next \in Acted : \E readers : Continue(i, next, readers)
    BY <1>6 DEF Settle, Resettle, Sign, Acted, WriteSigned, End
  <2>3. QED
    BY <1>b, <1>c, <2>1, <2>2
<1>7. ASSUME NEW i \in Invocations, Fail(i) PROVE \A j \in Invocations : Tracks(j)'
  BY <1>7, <1>b DEF Fail, End
<1>8. ASSUME NEW x \in Instances, Ec2Completes(x) \/ OutsideAct(x) \/ Launch(x) \/ Terminate(x)
      PROVE  \A j \in Invocations : Tracks(j)'
  BY <1>8, EnvironmentSteps, TracksEc2
<1>9. ASSUME RowAppears \/ UNCHANGED vars PROVE \A j \in Invocations : Tracks(j)'
  BY <1>9 DEF RowAppears, vars, local, Tracks, Reading, Before, After
<1>10. QED
  BY <1>1, <1>2, <1>3, <1>4, <1>5, <1>6, <1>7, <1>8, <1>9 DEF Next, Step

-----------------------------------------------------------------------------
(* The dated marker.                                                        *)

LEMMA DatedStep ==
  ASSUME IInv, [Next]_vars
  PROVE  Dated'
<1>0. TypeOK /\ Dated
  BY DEF IInv
<1>a. ASSUME UNCHANGED <<ec2, marker, dated>>, stale => stale' PROVE Dated'
  BY <1>0, <1>a DEF Dated
<1>1. ASSUME NEW i \in Invocations, Read(i) \/ Reread(i) \/ Resettle(i) \/ Fail(i)
      PROVE  Dated'
  <2>1. UNCHANGED <<ec2, marker, dated>>
    BY <1>1 DEF Read, Reread, Resettle, Fail
  <2>2. stale => stale'
    BY <1>1 DEF Read, Reread, Resettle, Fail
  <2>3. QED
    BY <1>a, <2>1, <2>2
<1>2. ASSUME NEW i \in Invocations, NEW asked \in PowerAction, Invoke(i, asked) PROVE Dated'
  BY <1>2, <1>a DEF Invoke
<1>3. ASSUME NEW i \in Invocations, Reconcile(i) PROVE Dated'
  <2>1. CASE Refused(i)
    BY <1>3, <1>a, <2>1 DEF Reconcile, Refused
  <2>2. CASE record(i, reconciledMarker(marker, seen[i])) /\ UNCHANGED dated
    <3>1. SUFFICES ASSUME ~ stale, dated # "no" PROVE Dated'
      BY <1>3, <2>2 DEF Reconcile, Dated
    <3>2. /\ Continues(marker, seen[i])
          /\ seen[i].state \in Already(dated) \ {Transition(dated)}
          /\ ec2[seen[i].instance] = seen[i].state
      BY <1>3, <2>2, <3>1 DEF Reconcile, record, CanWrite, IInv, Onward
    <3>3. marker'.state = seen[i].state /\ marker'.instance = seen[i].instance /\ marker'.since = "act"
      BY <1>0, <2>2, <3>1, <3>2 DEF record, reconciledMarker, Dated
    <3>4. marker' # Nobody
      BY <1>0, <1>3, <2>2, MarkerType, NobodyAssumption DEF Reconcile, record, IInv, Reading
    <3>5. QED
      BY <1>3, <2>2, <3>2, <3>3, <3>4 DEF Reconcile, Dated
  <2>3. QED
    BY <1>3, <2>1, <2>2 DEF Reconcile
<1>4. ASSUME NEW i \in Invocations, Act(i) PROVE Dated'
  BY <1>4, <1>a DEF Act, Dated
<1>5. ASSUME NEW i \in Invocations, Settle(i) \/ Sign(i) PROVE Dated'
  <2>1. /\ seen[i] # Nobody /\ request[i] \in {"sleep", "wake"}
        /\ ec2[seen[i].instance] = Transition(request[i]) /\ UNCHANGED <<ec2, stale>>
    BY <1>5 DEF Settle, Sign, IInv, Reading, After, Acted
  <2>2. CASE WriteSigned(i)
    <3>1. marker' = Signed(i) /\ marker' # Nobody
      BY <1>0, <2>1, <2>2, MarkerType, NobodyAssumption DEF WriteSigned, record
    <3>2. Transition(request[i]) \in Already(request[i])
      BY <2>1 DEF Transition, Already, Asleep, Awake
    <3>3. dated' = request[i]
      BY <2>1, <2>2, <3>2 DEF WriteSigned, InRun
    <3>4. QED
      BY <2>1, <3>1, <3>2, <3>3 DEF Signed, Dated
  <2>3. CASE Refused(i)
    BY <1>a, <2>1, <2>3 DEF Refused
  <2>4. QED
    BY <1>5, <2>2, <2>3 DEF Settle, Sign
<1>6. ASSUME NEW x \in Instances, Ec2Completes(x) \/ OutsideAct(x) \/ Launch(x) \/ Terminate(x)
      PROVE  Dated'
  <2>1. SUFFICES ASSUME ~ stale', dated' # "no" PROVE Dated'
    BY DEF Dated
  <2>2. ~ stale /\ dated # "no" /\ dated' = dated /\ UNCHANGED marker
    BY <1>6, <2>1 DEF Ec2Completes, OutsideAct, Launch, Terminate, Ec2Moves
  <2>3. /\ marker # Nobody /\ marker.since = "act" /\ marker.instance \in Instances
        /\ marker.state \in Already(dated) /\ ec2[marker.instance] \in Already(dated)
        /\ marker.state # Transition(dated) => ec2[marker.instance] = marker.state
    BY <1>0, <2>2 DEF Dated, TypeOK, PowerMarker
  <2>4. dated \in {"sleep", "wake"} /\ ec2 \in [Instances -> LIVE_STATES \cup {"unborn", "gone"}]
    BY <1>0, <2>2 DEF TypeOK
  <2>5. CASE marker.instance # x
    <3>1. ec2'[marker.instance] = ec2[marker.instance]
      BY <1>6, <2>3, <2>4, <2>5 DEF Ec2Completes, OutsideAct, Launch, Terminate, Ec2Moves
    <3>2. QED
      BY <2>2, <2>3, <3>1 DEF Dated
  <2>6. CASE marker.instance = x
    <3>1. Ec2Completes(x)
      BY <1>6, <2>1, <2>2, <2>3, <2>4, <2>6
         DEF OutsideAct, Launch, Terminate, Ec2Moves, Already, Asleep, Awake
    <3>2. /\ ec2[x] = Transition(dated) /\ marker.state = Transition(dated)
          /\ ec2'[x] \in Already(dated)
      BY <2>3, <2>4, <2>6, <3>1 DEF Ec2Completes, Ec2Moves, Already, Asleep, Awake, Transition
    <3>3. QED
      BY <2>2, <2>3, <2>6, <3>2 DEF Dated
  <2>7. QED
    BY <2>5, <2>6
<1>7. ASSUME RowAppears \/ UNCHANGED vars PROVE Dated'
  BY <1>7, <1>a DEF RowAppears, vars
<1>8. QED
  BY <1>1, <1>2, <1>3, <1>4, <1>5, <1>6, <1>7 DEF Next, Step

LEMMA OnwardStep ==
  ASSUME IInv, [Next]_vars, NEW j \in Invocations
  PROVE  Onward(j)'
<1>0. TypeOK /\ Dated /\ Onward(j)
  BY DEF IInv
<1>a. ASSUME UNCHANGED <<ec2, marker, dated>>, stale => stale',
             pc'[j] = "reconcile" => pc[j] = "reconcile" /\ seen'[j] = seen[j],
             j \in current' => j \in current
      PROVE  Onward(j)'
  BY <1>0, <1>a DEF Onward, Continues
<1>b. ASSUME pc'[j] # "reconcile" \/ j \notin current' \/ dated' = "no" PROVE Onward(j)'
  BY <1>b DEF Onward
<1>c. ASSUME NEW i \in Invocations, NEW readers, NEW next,
             EndWith(i, readers) \/ Continue(i, next, readers)
      PROVE  /\ j # i => pc'[j] = pc[j] /\ seen'[j] = seen[j]
             /\ j \in current' => j \in readers
             /\ pc'[i] \in {"idle", next}
  BY <1>0, <1>c, OthersAside DEF EndWith, Continue, Goto, Aside, TypeOK
<1>d. ASSUME NEW i \in Invocations, NEW readers, NEW next,
             EndWith(i, readers) \/ Continue(i, next, readers),
             next # "reconcile", readers \in {current, current \cup {i}},
             UNCHANGED <<ec2, marker, dated>>, stale => stale'
      PROVE  Onward(j)'
  <2>1. CASE j = i
    BY <1>b, <1>c, <1>d, <2>1
  <2>2. CASE j # i
    BY <1>a, <1>c, <1>d, <2>2
  <2>3. QED
    BY <2>1, <2>2
<1>1. ASSUME NEW i \in Invocations, NEW asked \in PowerAction, Invoke(i, asked)
      PROVE  Onward(j)'
  <2>1. CASE j = i
    BY <1>0, <1>1, <1>b, <2>1 DEF Invoke, Goto, TypeOK
  <2>2. CASE j # i
    BY <1>0, <1>1, <1>a, <2>2 DEF Invoke, Goto, TypeOK
  <2>3. QED
    BY <2>1, <2>2
<1>2. ASSUME NEW i \in Invocations, Read(i) PROVE Onward(j)'
  <2>1. UNCHANGED <<ec2, marker, dated>>
    BY <1>2 DEF Read
  <2>2. stale => stale'
    BY <1>2 DEF Read
  <2>3. CASE End(i)
    BY <1>d, <2>1, <2>2, <2>3 DEF End
  <2>4. CASE Proceed(i, current \cup {i})
    BY <1>d, <2>1, <2>2, <2>4 DEF Proceed
  <2>5. CASE seen[i] # Nobody /\ ~ Agrees(marker, seen[i]) /\ Continue(i, "reconcile", current \cup {i})
    <3>1. CASE j # i
      BY <1>a, <1>c, <2>1, <2>2, <2>5, <3>1
    <3>2. CASE j = i
      <4>1. SUFFICES ASSUME ~ stale', dated' # "no" PROVE Onward(i)'
        BY <3>2 DEF Onward
      <4>2. ~ stale /\ seen[i] = liveInstanceOf /\ dated # "no" /\ seen'[i] = seen[i]
        BY <1>2, <2>1, <2>5, <4>1 DEF Read, Continue, local
      <4>3. /\ marker # Nobody /\ marker.instance \in Instances
            /\ marker.state \in Already(dated) /\ ec2[marker.instance] \in Already(dated)
            /\ marker.state # Transition(dated) => ec2[marker.instance] = marker.state
        BY <1>0, <4>2 DEF Dated, TypeOK, PowerMarker
      <4>4. seen[i].instance = marker.instance /\ ec2[marker.instance] = seen[i].state
        BY <1>0, <2>5, <4>2, <4>3, LiveInstance DEF Already, Asleep, Awake, LIVE_STATES
      <4>5. marker.state = Transition(dated) /\ seen[i].state # marker.state
        BY <2>5, <4>3, <4>4 DEF Agrees
      <4>6. dated \in {"sleep", "wake"}
        BY <1>0, <4>2 DEF TypeOK
      <4>7. Continues(marker, seen[i])
        BY <4>3, <4>4, <4>5, <4>6 DEF Continues, Already, Asleep, Awake, Transition
      <4>8. QED
        BY <2>1, <4>2, <4>3, <4>4, <4>5, <4>7 DEF Onward, Continues
    <3>3. QED
      BY <3>1, <3>2
  <2>6. QED
    BY <1>2, <2>3, <2>4, <2>5 DEF Read
<1>3. ASSUME NEW i \in Invocations, Reconcile(i) PROVE Onward(j)'
  <2>1. CASE Proceed(i, {i})
    <3>1. EndWith(i, {i}) \/ Continue(i, "act", {i})
      BY <2>1 DEF Proceed
    <3>2. j \in current' => j = i /\ pc'[i] # "reconcile"
      BY <1>c, <3>1
    <3>3. QED
      BY <1>b, <3>2
  <2>2. CASE Refused(i) /\ Continue(i, "reread", current)
    BY <1>3, <1>d, <2>2 DEF Reconcile, Refused
  <2>3. QED
    BY <1>3, <2>1, <2>2 DEF Reconcile
<1>4. ASSUME NEW i \in Invocations, Reread(i) PROVE Onward(j)'
  BY <1>4, <1>d DEF Reread, Proceed
<1>5. ASSUME NEW i \in Invocations, Act(i) PROVE Onward(j)'
  <2>1. CASE dated' = "no"
    BY <1>b, <2>1
  <2>2. CASE (Continue(i, "settle", current) \/ End(i)) /\ UNCHANGED <<ec2, dated>>
    BY <1>5, <1>d, <2>2 DEF Act, End
  <2>3. QED
    BY <1>5, <2>1, <2>2 DEF Act
<1>6. ASSUME NEW i \in Invocations, Settle(i) \/ Resettle(i) \/ Sign(i) PROVE Onward(j)'
  <2>1. CASE WriteSigned(i)
    BY <1>b, <1>c, <2>1 DEF WriteSigned
  <2>2. CASE /\ UNCHANGED <<ec2, marker, dated, stale>>
             /\ \/ EndWith(i, current)
                \/ Continue(i, "resettle", current)
                \/ Continue(i, "sign", current \cup {i})
    BY <1>d, <2>2
  <2>3. QED
    BY <1>6, <2>1, <2>2 DEF Settle, Resettle, Sign, Refused, End
<1>7. ASSUME NEW i \in Invocations, Fail(i) PROVE Onward(j)'
  BY <1>7, <1>d DEF Fail, End
<1>8. ASSUME NEW x \in Instances, Ec2Completes(x) \/ OutsideAct(x) \/ Launch(x) \/ Terminate(x)
      PROVE  Onward(j)'
  <2>1. SUFFICES ASSUME ~ stale', dated' # "no", pc'[j] = "reconcile", j \in current'
                 PROVE  Onward(j)'
    BY DEF Onward
  <2>2. UNCHANGED <<marker, pc, seen, current>>
    BY <1>8, EnvironmentSteps
  <2>3. ~ stale /\ dated # "no" /\ dated' = dated
    BY <1>8, <2>1 DEF Ec2Completes, OutsideAct, Launch, Terminate
  <2>4. dated \in {"sleep", "wake"} /\ ec2 \in [Instances -> LIVE_STATES \cup {"unborn", "gone"}]
    BY <1>0, <2>3 DEF TypeOK
  <2>5. /\ Continues(marker, seen[j])
        /\ seen[j].state \in Already(dated) \ {Transition(dated)}
        /\ ec2[seen[j].instance] = seen[j].state
    BY <1>0, <2>1, <2>2, <2>3 DEF Onward
  <2>6. ec2[seen[j].instance] \in {"running", "stopped"} /\ marker # Nobody
        /\ marker.instance = seen[j].instance /\ marker.instance \in Instances
    BY <1>0, <2>4, <2>5 DEF TypeOK, PowerMarker, Continues, Already, Asleep, Awake, Transition
  <2>7. x # seen[j].instance
    BY <1>8, <2>1, <2>6 DEF Ec2Completes, OutsideAct, Launch, Terminate, Ec2Moves
  <2>8. ec2'[seen[j].instance] = ec2[seen[j].instance]
    BY <1>8, <2>4, <2>6, <2>7 DEF Ec2Completes, OutsideAct, Launch, Terminate, Ec2Moves
  <2>9. QED
    BY <2>2, <2>3, <2>5, <2>8 DEF Onward, Continues
<1>9. ASSUME RowAppears \/ UNCHANGED vars PROVE Onward(j)'
  BY <1>9, <1>a DEF RowAppears, vars, local
<1>10. QED
  BY <1>1, <1>2, <1>3, <1>4, <1>5, <1>6, <1>7, <1>8, <1>9 DEF Next, Step

-----------------------------------------------------------------------------
(* The theorems.                                                            *)

LEMMA InitIInv == Init => IInv
<1> SUFFICES ASSUME Init PROVE IInv
  OBVIOUS
<1>1. TypeOK
  <2>1. ec2 \in [Instances -> LIVE_STATES \cup {"unborn", "gone"}]
    BY DEF Init, LIVE_STATES
  <2>2. faults \in 0 .. MaxFaults
    BY FaultsAssumption DEF Init
  <2>3. pc \in [Invocations -> PCs] /\ request \in [Invocations -> PowerAction]
    BY DEF Init, PCs, PowerAction
  <2>4. QED
    BY <2>1, <2>2, <2>3 DEF Init, TypeOK
<1>2. \A i \in Invocations : Reading(i) /\ Before(i) /\ After(i) /\ Onward(i)
  BY DEF Init, Reading, Before, After, Onward, Acted
<1>3. QED
  BY <1>1, <1>2 DEF Init, IInv, Dated

LEMMA IInvStep == IInv /\ [Next]_vars => IInv'
<1> SUFFICES ASSUME IInv, [Next]_vars PROVE IInv'
  OBVIOUS
<1>1. TypeOK /\ \A i \in Invocations : Tracks(i) /\ Reading(i)
  BY DEF IInv, Tracks
<1>2. TypeOK'
  BY <1>1, TypeStep
<1>3. \A i \in Invocations : Tracks(i)'
  BY <1>1, TracksStep
<1>4. Dated'
  BY DatedStep
<1>5. \A i \in Invocations : Onward(i)'
  BY OnwardStep
<1>6. QED
  BY <1>2, <1>3, <1>4, <1>5 DEF IInv, Tracks

(* Every variable keeps its type: in particular whatever is written on the  *)
(* status row is a marker of an instance that was found (power.ts:225-235). *)
THEOREM TypeCorrect == Spec => []TypeOK
<1>1. IInv => TypeOK
  BY DEF IInv
<1>2. QED
  BY InitIInv, IInvStep, <1>1, PTL DEF Spec

(* Whatever the number of invocations, and whatever fails: no tick, poll or *)
(* second click takes the date and the state of a sleep or a wake off the   *)
(* card while EC2 is in it, as long as nobody read the marker after EC2 had *)
(* left the state he described (power.ts:17-23, 178-179, 233-239).          *)
THEOREM ClickStandsTheorem == Spec => []ClickStandsUnlessStale
<1>1. IInv => ClickStandsUnlessStale
  BY DEF IInv, Dated, ClickStandsUnlessStale, ClickStands
<1>2. QED
  BY InitIInv, IInvStep, <1>1, PTL DEF Spec

-----------------------------------------------------------------------------
(* The signature.  An invocation that lost the race to a marker of its own  *)
(* transition tries once more.  What it has to know is that nobody holds a  *)
(* current read that he would reconcile: then whoever overtakes it has      *)
(* acted too, and dates the marker himself.                                 *)

(* There is no marker before the row it is part of. *)
RowFirst == ~ row => marker = Nobody

(* A transition an invocation described goes on, is complete, or has been   *)
(* left for the opposite one that began with the invocation in flight.      *)
Since(k) ==
  pc[k] \in {"read", "reconcile"} /\ seen[k] # Nobody =>
    \A a, b \in {"sleep", "wake"} : a # b /\ seen[k].state = Transition(a) =>
      LET now == ec2[seen[k].instance]
      IN  now \in {Transition(a), From(b), "gone"} \/ (now = Transition(b) /\ k \in began)

(* Nobody is about to reconcile the marker with a write that succeeds. *)
Settled == \A k \in current : pc[k] # "reconcile"

(* An invocation that is not about to write what it found. *)
Late(i) == (pc[i] = "reconcile" /\ i \notin current) \/ pc[i] \in {"reread", "act"} \cup Acted

(* When the marker has the transition from the state it described, so has   *)
(* EC2, and everyone who reads the marker agrees with it.                   *)
Ahead(i) ==
  ~ stale /\ seen[i] # Nobody /\ marker # Nobody /\ Late(i) =>
    \A a \in {"sleep", "wake"} :
      seen[i].state = From(a) /\ marker.instance = seen[i].instance /\ marker.state = Transition(a) =>
        \/ ec2[marker.instance] = "gone"
        \/ ec2[marker.instance] = Transition(a) /\ Settled

(* At the second try the marker is of a transition that goes on, and is the *)
(* one it read or one that an act has dated.                                *)
Signing(i) ==
  ~ stale /\ pc[i] = "sign" =>
    /\ marker # Nobody /\ Settled
    /\ i \in current \/ marker.since = "act"
    /\ ec2[marker.instance] = marker.state /\ marker.state \in {"stopping", "pending"}

SInv == IInv /\ RowFirst /\ \A i \in Invocations : Since(i) /\ Ahead(i) /\ Signing(i)

(* A step that writes no marker, and the two that do. *)
NoWrite == UNCHANGED marker /\ \A j \in current : j \in current' \/ pc'[j] = "idle"
WritesFound(k) ==
  /\ pc[k] = "reconcile" /\ k \in current /\ row
  /\ seen[k] # Nobody /\ marker' = reconciledMarker(marker, seen[k])
  /\ current' \subseteq {k} /\ pc'[k] # "reconcile"
WritesAct(k) ==
  /\ pc[k] \in Acted /\ k \in current /\ row
  /\ seen[k] # Nobody /\ marker' = Signed(k)
  /\ current' = {}

LEMMA ReadersKept ==
  ASSUME TypeOK, NEW i \in Invocations, NEW next, NEW readers,
         EndWith(i, readers) \/ Continue(i, next, readers), current \subseteq readers
  PROVE  \A j \in current : j \in current' \/ pc'[j] = "idle"
BY DEF EndWith, Continue, Goto, TypeOK

LEMMA Writes ==
  ASSUME IInv, [Next]_vars
  PROVE  \/ NoWrite
         \/ \E k \in Invocations : (WritesFound(k) \/ WritesAct(k)) /\ UNCHANGED <<ec2, stale, row>>
<1>0. TypeOK
  BY DEF IInv
<1>1. ASSUME NEW i \in Invocations, Read(i) \/ Reread(i) \/ Resettle(i) \/ Fail(i) PROVE NoWrite
  <2>1. /\ UNCHANGED marker
        /\ \E readers, next : current \subseteq readers /\ (EndWith(i, readers) \/ Continue(i, next, readers))
    BY <1>1 DEF Read, Reread, Resettle, Fail, Proceed, End
  <2>2. QED
    BY <1>0, <2>1, ReadersKept DEF NoWrite
<1>2. ASSUME NEW i \in Invocations, Reconcile(i)
      PROVE  NoWrite \/ (WritesFound(i) /\ UNCHANGED <<ec2, stale, row>>)
  <2>1. CASE Refused(i) /\ Continue(i, "reread", current)
    BY <1>0, <2>1, ReadersKept DEF Refused, NoWrite
  <2>2. CASE record(i, reconciledMarker(marker, seen[i])) /\ Proceed(i, {i})
    <3>1. current' \subseteq {i} /\ pc'[i] # "reconcile"
      BY <1>0, <2>2 DEF Proceed, EndWith, Continue, Goto, TypeOK
    <3>2. QED
      BY <1>2, <2>2, <3>1 DEF Reconcile, record, CanWrite, WritesFound, IInv, Reading
  <2>3. QED
    BY <1>2, <2>1, <2>2 DEF Reconcile
<1>3. ASSUME NEW i \in Invocations, Settle(i) \/ Sign(i)
      PROVE  NoWrite \/ (WritesAct(i) /\ UNCHANGED <<ec2, stale, row>>)
  <2>1. CASE Refused(i) /\ (Continue(i, "resettle", current) \/ End(i))
    BY <1>0, <2>1, ReadersKept DEF Refused, NoWrite, End
  <2>2. CASE WriteSigned(i)
    BY <1>3, <2>2
       DEF Settle, Sign, WriteSigned, record, CanWrite, EndWith, WritesAct, IInv, Reading, Acted
  <2>3. QED
    BY <1>3, <2>1, <2>2 DEF Settle, Sign
<1>4. ASSUME NEW i \in Invocations, Act(i) PROVE NoWrite
  <2>1. CASE UNCHANGED current
    BY <1>4, <2>1 DEF Act, NoWrite
  <2>2. CASE Continue(i, "settle", current) \/ End(i)
    BY <1>0, <1>4, <2>2, ReadersKept DEF Act, NoWrite, End
  <2>3. QED
    BY <1>4, <2>1, <2>2 DEF Act
<1>5. ASSUME NEW i \in Invocations, NEW asked \in PowerAction, Invoke(i, asked) PROVE NoWrite
  BY <1>5 DEF Invoke, NoWrite
<1>6. ASSUME NEW x \in Instances, Ec2Completes(x) \/ OutsideAct(x) \/ Launch(x) \/ Terminate(x) PROVE NoWrite
  BY <1>6, EnvironmentSteps DEF NoWrite
<1>7. ASSUME RowAppears \/ UNCHANGED vars PROVE NoWrite
  BY <1>7 DEF RowAppears, vars, NoWrite
<1>8. QED
  BY <1>1, <1>2, <1>3, <1>4, <1>5, <1>6, <1>7 DEF Next, Step

LEMMA RowFirstStep == IInv /\ RowFirst /\ [Next]_vars => RowFirst'
<1> SUFFICES ASSUME IInv, RowFirst, [Next]_vars PROVE RowFirst'
  OBVIOUS
<1>1. ~ row' => ~ row
  BY DEF Next, Step, Invoke, Read, Reconcile, Reread, Act, Settle, Resettle, Sign, Fail, Ec2Completes,
         OutsideAct, Launch, Terminate, Ec2Moves, RowAppears, vars
<1>2. QED
  BY <1>1, Writes DEF RowFirst, NoWrite, WritesFound, WritesAct

(* While an invocation is in flight with a transition, EC2 completes none,  *)
(* and a terminated instance is gone for good.                              *)
LEMMA Ec2Stays ==
  ASSUME IInv, [Next]_vars, NEW z \in Instances,
         ec2[z] = "gone" \/ (ec2[z] \in {"stopping", "pending"} /\ began # {})
  PROVE  ec2'[z] = ec2[z]
<1>0. ec2 \in [Instances -> LIVE_STATES \cup {"unborn", "gone"}]
  BY DEF IInv, TypeOK
<1>1. ASSUME NEW i \in Invocations, Act(i) PROVE ec2'[z] = ec2[z]
  <2>1. CASE UNCHANGED ec2
    BY <2>1
  <2>2. CASE /\ ec2[seen[i].instance] = From(request[i])
             /\ ec2' = [ec2 EXCEPT ![seen[i].instance] = Transition(request[i])]
    BY <1>0, <2>2 DEF From
  <2>3. QED
    BY <1>1, <2>1, <2>2 DEF Act
<1>2. ASSUME NEW i \in Invocations,
             \/ \E asked \in PowerAction : Invoke(i, asked)
             \/ Read(i) \/ Reconcile(i) \/ Reread(i) \/ Settle(i) \/ Resettle(i) \/ Sign(i) \/ Fail(i)
      PROVE  UNCHANGED ec2
  BY <1>2 DEF Invoke, Read, Reconcile, Reread, Settle, Resettle, Sign, Fail
<1>3. ASSUME NEW x \in Instances, Ec2Completes(x) \/ OutsideAct(x) \/ Launch(x) \/ Terminate(x)
      PROVE  ec2'[z] = ec2[z]
  BY <1>0, <1>3 DEF Ec2Completes, OutsideAct, Launch, Terminate, Ec2Moves
<1>4. ASSUME RowAppears \/ UNCHANGED vars PROVE UNCHANGED ec2
  BY <1>4 DEF RowAppears, vars
<1>5. QED
  BY <1>1, <1>2, <1>3, <1>4 DEF Next, Step

(* A marker that says what EC2 says is not read by anyone who would         *)
(* reconcile it.                                                            *)
LEMMA SettledStep ==
  ASSUME IInv, [Next]_vars, Settled, UNCHANGED marker, ~ stale',
         marker # Nobody, ec2[marker.instance] = marker.state
  PROVE  Settled'
<1>0. TypeOK /\ current \subseteq Invocations
  BY DEF IInv, TypeOK
<1>b. current' \subseteq Invocations
  BY IInvStep DEF IInv, TypeOK
<1> SUFFICES ASSUME NEW j \in Invocations, j \in current', pc'[j] = "reconcile" PROVE FALSE
  BY <1>b DEF Settled
<1>a. pc[j] = "reconcile" => j \notin current
  BY DEF Settled
<1>1. ASSUME Read(j) PROVE FALSE
  <2>1. seen[j] = liveInstanceOf /\ seen[j] # Nobody /\ ~ Agrees(marker, seen[j])
    BY <1>0, <1>1 DEF Read, Proceed, End, EndWith, Continue, Goto, TypeOK
  <2>2. marker.instance \in Instances /\ marker.state \in LIVE_STATES
    BY <1>0 DEF TypeOK, PowerMarker
  <2>3. marker.instance = seen[j].instance /\ marker.state = seen[j].state
    BY <1>0, <2>1, <2>2, LiveInstance
  <2>4. QED
    BY <2>1, <2>3 DEF Agrees
<1>2. ASSUME NEW i \in Invocations, i # j, Step(i) \/ Fail(i) \/ \E asked \in PowerAction : Invoke(i, asked)
      PROVE  FALSE
  <2>1. /\ pc'[j] = pc[j]
    BY <1>0, <1>2 DEF Step, Read, Reconcile, Reread, Act, Settle, Resettle, Sign, Fail, Invoke, Proceed,
         WriteSigned, End, EndWith, Continue, Goto, TypeOK
  <2>2. j \in current' => j \in current
    BY <1>2 DEF Step, Read, Reconcile, Reread, Act, Settle, Resettle, Sign, Fail, Invoke, Proceed,
         WriteSigned, End, EndWith, Continue
  <2>3. QED
    BY <1>a, <2>1, <2>2
<1>3. ASSUME Step(j) \/ Fail(j) \/ \E asked \in PowerAction : Invoke(j, asked) PROVE Read(j)
  BY <1>0, <1>3 DEF Step, Reconcile, Reread, Act, Settle, Resettle, Sign, Fail, Invoke, Proceed,
       WriteSigned, End, EndWith, Continue, Goto, TypeOK
<1>4. ASSUME NEW x \in Instances, Ec2Completes(x) \/ OutsideAct(x) \/ Launch(x) \/ Terminate(x) PROVE FALSE
  BY <1>4, <1>a, EnvironmentSteps
<1>5. ASSUME RowAppears \/ UNCHANGED vars PROVE FALSE
  BY <1>5, <1>a DEF RowAppears, vars
<1>6. QED
  BY <1>1, <1>2, <1>3, <1>4, <1>5 DEF Next

LEMMA SinceEc2 ==
  ASSUME TypeOK, NEW x \in Instances, Begins(x) \/ Arrives(x),
         NEW j \in Invocations, Since(j), pc'[j] = pc[j], seen'[j] = seen[j]
  PROVE  Since(j)'
<1> SUFFICES ASSUME pc[j] \in {"read", "reconcile"}, seen[j] # Nobody,
                    NEW a \in {"sleep", "wake"}, NEW b \in {"sleep", "wake"}, a # b,
                    seen[j].state = Transition(a)
             PROVE  \/ ec2'[seen[j].instance] \in {Transition(a), From(b), "gone"}
                    \/ ec2'[seen[j].instance] = Transition(b) /\ j \in began'
  BY DEF Since
<1> DEFINE z == seen[j].instance
<1>1. ec2[z] \in {Transition(a), From(b), "gone"} \/ (ec2[z] = Transition(b) /\ j \in began)
  BY DEF Since
<1>2. z \in Instances /\ ec2 \in [Instances -> LIVE_STATES \cup {"unborn", "gone"}]
  BY DEF TypeOK, Description
<1>3. j \in began => j \in began'
  BY DEF Begins, Arrives, InFlight
<1>4. CASE z # x
  <2>1. ec2'[z] = ec2[z]
    BY <1>2, <1>4 DEF Begins, Arrives
  <2>2. QED
    BY <1>1, <1>3, <2>1
<1>5. CASE z = x /\ Begins(x)
  BY <1>1, <1>2, <1>5 DEF Begins, From, Transition, InFlight
<1>6. CASE z = x /\ Arrives(x)
  BY <1>1, <1>2, <1>6 DEF Arrives, From, Transition
<1>7. QED
  BY <1>4, <1>5, <1>6

LEMMA SinceStep ==
  ASSUME IInv, \A i \in Invocations : Since(i), [Next]_vars
  PROVE  \A j \in Invocations : Since(j)'
<1>0. TypeOK
  BY DEF IInv
<1>a. ASSUME NEW i \in Invocations, NEW readers, EndWith(i, readers), UNCHANGED ec2
      PROVE  \A j \in Invocations : Since(j)'
  <2>1. ASSUME NEW j \in Invocations \ {i} PROVE Since(j)'
    <3>1. Aside(j)
      BY <1>0, <1>a, OthersAside
    <3>2. QED
      BY <1>a, <3>1 DEF Since, Aside
  <2>2. Since(i)'
    BY <1>0, <1>a DEF Since, EndWith, Goto, TypeOK
  <2>3. QED
    BY <2>1, <2>2
<1>b. ASSUME NEW i \in Invocations, NEW readers, NEW next, Continue(i, next, readers), UNCHANGED ec2,
             next \notin {"read", "reconcile"} \/ pc[i] = "read"
      PROVE  \A j \in Invocations : Since(j)'
  <2>1. ASSUME NEW j \in Invocations \ {i} PROVE Since(j)'
    <3>1. Aside(j)
      BY <1>0, <1>b, OthersAside
    <3>2. QED
      BY <1>b, <3>1 DEF Since, Aside
  <2>2. Since(i)'
    BY <1>0, <1>b DEF Since, Continue, Goto, TypeOK, local
  <2>3. QED
    BY <2>1, <2>2
<1>1. ASSUME NEW i \in Invocations, NEW asked \in PowerAction, Invoke(i, asked)
      PROVE  \A j \in Invocations : Since(j)'
  <2>1. /\ UNCHANGED <<ec2, began>> /\ seen'[i] = liveInstanceOf
        /\ \A j \in Invocations \ {i} : Aside(j)
    BY <1>0, <1>1 DEF Invoke, Goto, Aside, TypeOK
  <2>2. Since(i)'
    BY <1>0, <2>1, LiveInstance DEF Since
  <2>3. \A j \in Invocations \ {i} : Since(j)'
    BY <2>1 DEF Since, Aside
  <2>4. QED
    BY <2>2, <2>3
<1>2. ASSUME NEW i \in Invocations, Read(i) \/ Reconcile(i) \/ Reread(i) \/ Settle(i) \/ Resettle(i) \/ Sign(i) \/ Fail(i)
      PROVE  \A j \in Invocations : Since(j)'
  <2>1. /\ UNCHANGED ec2
        /\ \/ \E readers : EndWith(i, readers)
           \/ \E readers, next : /\ Continue(i, next, readers)
                                 /\ next \notin {"read", "reconcile"} \/ pc[i] = "read"
    BY <1>2 DEF Read, Reconcile, Reread, Settle, Resettle, Sign, Fail, Proceed, WriteSigned, End
  <2>2. QED
    BY <1>a, <1>b, <2>1
<1>3. ASSUME NEW i \in Invocations, Act(i) PROVE \A j \in Invocations : Since(j)'
  <2>1. CASE UNCHANGED ec2 /\ (Continue(i, "settle", current) \/ EndWith(i, current))
    BY <1>a, <1>b, <2>1
  <2>2. CASE /\ ec2[seen[i].instance] = From(request[i])
             /\ ec2' = [ec2 EXCEPT ![seen[i].instance] = Transition(request[i])]
             /\ began' = InFlight
             /\ Goto(i, "settle")
             /\ UNCHANGED <<request, seen, current>>
    <3>1. seen[i].instance \in Instances /\ request[i] \in {"sleep", "wake"} /\ pc'[i] = "settle"
      BY <1>0, <1>3, <2>2 DEF IInv, Reading, Act, TypeOK, Description, Goto
    <3>2. Begins(seen[i].instance)
      BY <2>2, <3>1 DEF Begins
    <3>3. \A j \in Invocations \ {i} : pc'[j] = pc[j] /\ seen'[j] = seen[j]
      BY <1>0, <2>2 DEF Goto, TypeOK
    <3>4. \A j \in Invocations \ {i} : Since(j)'
      BY <1>0, <3>1, <3>2, <3>3, SinceEc2
    <3>5. Since(i)'
      BY <3>1 DEF Since
    <3>6. QED
      BY <3>4, <3>5
  <2>3. QED
    BY <1>3, <2>1, <2>2 DEF Act, End
<1>4. ASSUME NEW x \in Instances, Ec2Completes(x) \/ OutsideAct(x) \/ Launch(x) \/ Terminate(x)
      PROVE  \A j \in Invocations : Since(j)'
  BY <1>0, <1>4, EnvironmentSteps, SinceEc2
<1>5. ASSUME RowAppears \/ UNCHANGED vars PROVE \A j \in Invocations : Since(j)'
  BY <1>5 DEF RowAppears, vars, local, Since
<1>6. QED
  BY <1>1, <1>2, <1>3, <1>4, <1>5 DEF Next, Step

(* How an invocation comes to be late. *)
LEMMA LateStep ==
  ASSUME IInv, [Next]_vars, NEW i \in Invocations, Late(i)'
  PROVE  /\ seen'[i] = seen[i] /\ request'[i] = request[i]
         /\ ~ stale' => ~ stale
         /\ \/ Late(i)
            \/ Read(i) /\ Agrees(marker, seen[i])
            \/ pc[i] = "reconcile" /\ i \in current
<1>0. TypeOK
  BY DEF IInv
<1>1. ~ stale' => ~ stale
  BY DEF Next, Step, Invoke, Read, Reconcile, Reread, Act, Settle, Resettle, Sign, Fail, Ec2Completes,
         OutsideAct, Launch, Terminate, RowAppears, vars
<1>2. ASSUME NEW k \in Invocations, k # i, Step(k) \/ Fail(k) \/ \E asked \in PowerAction : Invoke(k, asked)
      PROVE  /\ pc'[i] = pc[i] /\ seen'[i] = seen[i] /\ request'[i] = request[i]
  BY <1>0, <1>2 DEF Step, Read, Reconcile, Reread, Act, Settle, Resettle, Sign, Fail, Invoke, Proceed,
       WriteSigned, End, EndWith, Continue, Goto, TypeOK, local
<1>3. ASSUME Step(i) \/ Fail(i) \/ \E asked \in PowerAction : Invoke(i, asked)
      PROVE  /\ seen'[i] = seen[i] /\ request'[i] = request[i]
             /\ Late(i) \/ (Read(i) /\ Agrees(marker, seen[i])) \/ (pc[i] = "reconcile" /\ i \in current)
  <2>1. ~ Fail(i) /\ ~ \E asked \in PowerAction : Invoke(i, asked)
    BY <1>0 DEF Late, Fail, Invoke, End, EndWith, Goto, TypeOK, Acted
  <2>2. CASE Read(i)
    BY <1>0, <2>2 DEF Late, Read, Proceed, End, EndWith, Continue, Goto, TypeOK, local, Acted
  <2>3. CASE Reconcile(i) \/ Reread(i) \/ Act(i) \/ Settle(i) \/ Resettle(i) \/ Sign(i)
    <3>1. pc[i] \in {"reconcile", "reread", "act"} \cup Acted
      BY <2>3 DEF Reconcile, Reread, Act, Settle, Resettle, Sign, Acted
    <3>2. seen'[i] = seen[i] /\ request'[i] = request[i]
      BY <1>0, <2>3 DEF Late, Reconcile, Reread, Act, Settle, Resettle, Sign, Proceed, WriteSigned, End,
           EndWith, Continue, Goto, TypeOK, local, Acted
    <3>3. QED
      BY <3>1, <3>2 DEF Late
  <2>4. QED
    BY <1>3, <2>1, <2>2, <2>3 DEF Step
<1>4. ASSUME NEW x \in Instances, Ec2Completes(x) \/ OutsideAct(x) \/ Launch(x) \/ Terminate(x)
      PROVE  UNCHANGED <<pc, seen, request, current>>
  BY <1>4, EnvironmentSteps
<1>5. ASSUME RowAppears \/ UNCHANGED vars PROVE UNCHANGED <<pc, seen, request, current>>
  BY <1>5 DEF RowAppears, vars, local
<1>6. QED
  BY <1>1, <1>2, <1>3, <1>4, <1>5 DEF Next, Late

LEMMA AheadStep ==
  ASSUME SInv, [Next]_vars, NEW i \in Invocations
  PROVE  Ahead(i)'
<1>0. IInv /\ TypeOK /\ \A j \in Invocations : Tracks(j) /\ Since(j)
  BY DEF SInv, IInv, Tracks
<1>a. \A j \in Invocations : Tracks(j)'
  BY <1>0, TracksStep
<1> SUFFICES ASSUME ~ stale', seen'[i] # Nobody, marker' # Nobody, Late(i)',
                    NEW a \in {"sleep", "wake"}, seen'[i].state = From(a),
                    marker'.instance = seen'[i].instance, marker'.state = Transition(a)
             PROVE  \/ ec2'[marker'.instance] = "gone"
                    \/ ec2'[marker'.instance] = Transition(a) /\ Settled'
  BY DEF Ahead
<1> DEFINE z == seen[i].instance
<1>1. /\ seen'[i] = seen[i] /\ request'[i] = request[i] /\ ~ stale
      /\ Late(i) \/ (Read(i) /\ Agrees(marker, seen[i])) \/ (pc[i] = "reconcile" /\ i \in current)
  BY <1>0, LateStep
<1>2. z \in Instances /\ marker'.instance = z
  BY <1>0, <1>1 DEF TypeOK, Description
<1>3. CASE NoWrite
  <2>1. CASE Late(i)
    <3>1. ec2[z] = "gone" \/ (ec2[z] = Transition(a) /\ Settled)
      BY <1>1, <1>3, <2>1 DEF SInv, Ahead, NoWrite
    <3>2. ec2[z] = Transition(a) => i \in began
      <4>1. CASE pc[i] \in Acted
        BY <1>0, <4>1 DEF Tracks, After
      <4>2. CASE pc[i] \in {"reconcile", "reread", "act"}
        BY <1>0, <1>1, <4>2 DEF Tracks, Before, From, Transition
      <4>3. QED
        BY <2>1, <4>1, <4>2 DEF Late
    <3>3. ec2'[z] = ec2[z]
      BY <1>0, <1>2, <3>1, <3>2, Ec2Stays DEF Transition
    <3>4. ec2[z] = Transition(a) => Settled'
      BY <1>0, <1>2, <1>3, <3>1, SettledStep DEF NoWrite, Transition
    <3>5. QED
      BY <1>2, <3>1, <3>3, <3>4
  <2>2. CASE Read(i) /\ Agrees(marker, seen[i])
    BY <1>1, <1>3, <2>2 DEF NoWrite, Agrees, From, Transition
  <2>3. CASE pc[i] = "reconcile" /\ i \in current
    <3>1. pc'[i] # "reconcile"
      BY <1>3, <2>3 DEF NoWrite, Late, Acted
    <3>2. Reconcile(i)
      <4>1. ASSUME NEW k \in Invocations, k # i, Step(k) \/ Fail(k) \/ \E asked \in PowerAction : Invoke(k, asked)
            PROVE  pc'[i] = pc[i]
        BY <1>0, <4>1 DEF Step, Read, Reconcile, Reread, Act, Settle, Resettle, Sign, Fail, Invoke, Proceed,
             WriteSigned, End, EndWith, Continue, Goto, TypeOK
      <4>2. ~ Fail(i)
        BY <1>0 DEF Late, Fail, End, EndWith, Goto, TypeOK, Acted
      <4>3. ASSUME NEW x \in Instances, Ec2Completes(x) \/ OutsideAct(x) \/ Launch(x) \/ Terminate(x)
            PROVE  UNCHANGED pc
        BY <4>3, EnvironmentSteps
      <4>4. ASSUME RowAppears \/ UNCHANGED vars PROVE UNCHANGED pc
        BY <4>4 DEF RowAppears, vars
      <4>5. ~ Read(i) /\ ~ Reread(i) /\ ~ Act(i) /\ ~ Settle(i) /\ ~ Resettle(i) /\ ~ Sign(i)
            /\ ~ \E asked \in PowerAction : Invoke(i, asked)
        BY <2>3 DEF Read, Reread, Act, Settle, Resettle, Sign, Invoke
      <4>6. QED
        BY <2>3, <3>1, <4>1, <4>2, <4>3, <4>4, <4>5 DEF Next, Step
    <3>3. CASE record(i, reconciledMarker(marker, seen[i]))
      BY <1>1, <3>3 DEF record, reconciledMarker, From, Transition
    <3>4. CASE Refused(i)
      BY <2>3, <3>4 DEF Refused, CanWrite, SInv, RowFirst
    <3>5. QED
      BY <3>2, <3>3, <3>4 DEF Reconcile
  <2>4. QED
    BY <1>1, <2>1, <2>2, <2>3
<1>4. ASSUME NEW k \in Invocations, WritesFound(k), UNCHANGED ec2
      PROVE  (ec2'[z] = "gone" \/ ec2'[z] = Transition(a)) /\ Settled'
  <2>1. seen[k].state = Transition(a) /\ seen[k].instance = z
    BY <1>2, <1>4 DEF WritesFound, reconciledMarker
  <2>2. \A b \in {"sleep", "wake"} \ {a} : ec2[z] \in {Transition(a), From(b), "gone", Transition(b)}
    BY <1>0, <1>4, <2>1 DEF WritesFound, Since
  <2>3. ec2[z] \in {From(a), Transition(a), "gone"}
    <3>1. CASE pc'[i] \in Acted
      BY <1>a, <1>1, <1>4, <3>1 DEF Tracks, Reading, After, From, Transition
    <3>2. CASE pc'[i] \in {"reconcile", "reread", "act"}
      BY <1>a, <1>1, <1>4, <3>2 DEF Tracks, Before
    <3>3. QED
      BY <3>1, <3>2 DEF Late
  <2>4. ec2[z] \in {Transition(a), "gone"}
    BY <2>2, <2>3 DEF From, Transition
  <2>5. QED
    BY <1>4, <2>4 DEF WritesFound, Settled
<1>5. ASSUME NEW k \in Invocations, WritesAct(k), UNCHANGED ec2
      PROVE  ec2'[z] = Transition(a) /\ Settled'
  BY <1>0, <1>2, <1>5 DEF WritesAct, Signed, Settled, Tracks, After
<1>6. QED
  BY <1>0, <1>2, <1>3, <1>4, <1>5, Writes

LEMMA SigningStep ==
  ASSUME SInv, [Next]_vars, NEW i \in Invocations
  PROVE  Signing(i)'
<1>0. IInv /\ TypeOK /\ \A j \in Invocations : Tracks(j)
  BY DEF SInv, IInv, Tracks
<1> SUFFICES ASSUME ~ stale', pc'[i] = "sign" PROVE Signing(i)'
  BY DEF Signing
<1>1. ~ stale
  BY <1>0, LateStep DEF Late, Acted
<1>2. pc[i] = "sign" \/ (Resettle(i) /\ Agrees(marker, Signed(i)) /\ Continue(i, "sign", current \cup {i}))
  <2>1. ASSUME NEW k \in Invocations, k # i, Step(k) \/ Fail(k) \/ \E asked \in PowerAction : Invoke(k, asked)
        PROVE  pc'[i] = pc[i]
    BY <1>0, <2>1 DEF Step, Read, Reconcile, Reread, Act, Settle, Resettle, Sign, Fail, Invoke, Proceed,
         WriteSigned, End, EndWith, Continue, Goto, TypeOK
  <2>2. ASSUME Step(i) \/ Fail(i) \/ \E asked \in PowerAction : Invoke(i, asked)
        PROVE  Resettle(i)
    BY <1>0, <2>2 DEF Step, Read, Reconcile, Reread, Act, Settle, Sign, Fail, Invoke, Proceed,
         WriteSigned, End, EndWith, Continue, Goto, TypeOK
  <2>3. Resettle(i) => Agrees(marker, Signed(i)) /\ Continue(i, "sign", current \cup {i})
    BY <1>0 DEF Resettle, End, EndWith, Goto, TypeOK
  <2>4. ASSUME NEW x \in Instances, Ec2Completes(x) \/ OutsideAct(x) \/ Launch(x) \/ Terminate(x)
        PROVE  UNCHANGED pc
    BY <2>4, EnvironmentSteps
  <2>5. ASSUME RowAppears \/ UNCHANGED vars PROVE UNCHANGED pc
    BY <2>5 DEF RowAppears, vars
  <2>6. QED
    BY <2>1, <2>2, <2>3, <2>4, <2>5 DEF Next
<1>3. CASE Resettle(i) /\ Agrees(marker, Signed(i)) /\ Continue(i, "sign", current \cup {i})
  <2>1. /\ pc[i] = "resettle" /\ UNCHANGED <<ec2, marker>> /\ current' = current \cup {i}
        /\ marker # Nobody /\ marker.state = Transition(request[i]) /\ marker.instance = seen[i].instance
    BY <1>3 DEF Resettle, Continue, Agrees, Signed
  <2>2. /\ seen[i] # Nobody /\ request[i] \in {"sleep", "wake"} /\ seen[i].state = From(request[i])
        /\ ec2[seen[i].instance] = Transition(request[i])
    BY <1>0, <2>1 DEF Tracks, Reading, After, Acted
  <2>3. Settled
    BY <1>1, <2>1, <2>2 DEF SInv, Ahead, Late, Acted, Transition
  <2>4. Settled'
    BY <1>0, <1>3, <2>1, <2>3 DEF Settled, Continue, Goto, TypeOK
  <2>5. QED
    BY <2>1, <2>2, <2>4 DEF Signing, Transition
<1>4. CASE pc[i] = "sign"
  <2>1. /\ marker # Nobody /\ Settled
        /\ i \in current \/ marker.since = "act"
        /\ ec2[marker.instance] = marker.state /\ marker.state \in {"stopping", "pending"}
        /\ marker.instance \in Instances /\ i \in began
    BY <1>0, <1>1, <1>4 DEF SInv, Signing, TypeOK, PowerMarker, Tracks, After, Acted
  <2>2. CASE NoWrite
    <3>1. ec2'[marker.instance] = ec2[marker.instance]
      BY <1>0, <2>1, Ec2Stays
    <3>2. Settled'
      BY <1>0, <2>1, <2>2, SettledStep DEF NoWrite
    <3>3. QED
      BY <2>1, <2>2, <3>1, <3>2 DEF Signing, NoWrite
  <2>3. ASSUME NEW k \in Invocations, WritesFound(k) PROVE FALSE
    BY <2>1, <2>3 DEF WritesFound, Settled
  <2>4. ASSUME NEW k \in Invocations, WritesAct(k), UNCHANGED ec2 PROVE Signing(i)'
    <3>1. request[k] \in {"sleep", "wake"} /\ ec2[seen[k].instance] = Transition(request[k])
      BY <1>0, <2>4 DEF WritesAct, Tracks, Reading, After
    <3>2. marker' # Nobody
      BY <1>0, <2>4, MarkerType, NobodyAssumption DEF WritesAct
    <3>3. QED
      BY <2>4, <3>1, <3>2 DEF WritesAct, Signed, Signing, Settled, Transition
  <2>5. QED
    BY <1>0, <2>2, <2>3, <2>4, Writes
<1>5. QED
  BY <1>2, <1>3, <1>4

LEMMA SInvInit == Init => SInv
<1>1. Init => IInv
  BY InitIInv
<1>2. Init => RowFirst /\ \A i \in Invocations : Since(i) /\ Ahead(i) /\ Signing(i)
  BY DEF Init, RowFirst, Since, Ahead, Signing
<1>3. QED
  BY <1>1, <1>2 DEF SInv

LEMMA SInvStep == SInv /\ [Next]_vars => SInv'
<1> SUFFICES ASSUME SInv, [Next]_vars PROVE SInv'
  OBVIOUS
<1>1. IInv' /\ RowFirst'
  BY IInvStep, RowFirstStep DEF SInv
<1>2. \A i \in Invocations : Since(i)'
  BY SinceStep DEF SInv
<1>3. \A i \in Invocations : Ahead(i)' /\ Signing(i)'
  BY AheadStep, SigningStep
<1>4. QED
  BY <1>1, <1>2, <1>3 DEF SInv

(* Whoever wins the race for the card: a sleep or a wake that happened and  *)
(* ended without failing leaves the card with its transition only under the *)
(* name and the date of an act, its own or the one that overtook it         *)
(* (power.ts:202-206).                                                      *)
THEOREM ActsSigned == Spec => ActsAreSigned
<1>1. ASSUME SInv, [Next]_vars, NEW i \in Invocations,
             Ends(i), ~ stale, Agrees(marker', Signed(i))
      PROVE  marker'.since = "act"
  <2>0. TypeOK
    BY <1>1 DEF SInv, IInv
  <2>1. CASE WriteSigned(i)
    BY <2>1 DEF WriteSigned, record, Signed
  <2>2. CASE Resettle(i)
    BY <1>1, <2>0, <2>2 DEF Resettle, Ends, Continue, Goto, TypeOK
  <2>3. CASE Sign(i) /\ Refused(i)
    <3>1. pc[i] = "sign" /\ UNCHANGED marker /\ (~ row \/ i \notin current)
      BY <2>3 DEF Sign, Refused, CanWrite
    <3>2. marker # Nobody
      BY <1>1, <3>1 DEF Agrees
    <3>3. QED
      BY <1>1, <3>1, <3>2 DEF SInv, RowFirst, Signing
  <2>4. CASE Settle(i) /\ ~ WriteSigned(i)
    BY <1>1, <2>0, <2>4 DEF Settle, Ends, Continue, Goto, TypeOK
  <2>5. ASSUME NEW k \in Invocations, k # i, Step(k) \/ Fail(k) \/ \E asked \in PowerAction : Invoke(k, asked)
        PROVE  pc'[i] = pc[i]
    BY <2>0, <2>5 DEF Step, Read, Reconcile, Reread, Act, Settle, Resettle, Sign, Fail, Invoke, Proceed,
         WriteSigned, End, EndWith, Continue, Goto, TypeOK
  <2>6. ~ Fail(i)
    BY <1>1, <2>0, FaultsAssumption DEF Ends, Fail, TypeOK
  <2>7. ~ Read(i) /\ ~ Reconcile(i) /\ ~ Reread(i) /\ ~ Act(i) /\ ~ \E asked \in PowerAction : Invoke(i, asked)
    BY <1>1 DEF Ends, Read, Reconcile, Reread, Act, Invoke
  <2>8. ASSUME NEW x \in Instances, Ec2Completes(x) \/ OutsideAct(x) \/ Launch(x) \/ Terminate(x)
        PROVE  UNCHANGED pc
    BY <2>8, EnvironmentSteps
  <2>9. ASSUME RowAppears \/ UNCHANGED vars PROVE UNCHANGED pc
    BY <2>9 DEF RowAppears, vars
  <2>10. pc'[i] # pc[i]
    BY <1>1 DEF Ends
  <2>11. Settle(i) \/ Resettle(i) \/ Sign(i)
    BY <1>1, <2>5, <2>6, <2>7, <2>8, <2>9, <2>10 DEF Next, Step
  <2>12. QED
    BY <2>1, <2>2, <2>3, <2>4, <2>11 DEF Sign
<1>2. SInv /\ [Next]_vars =>
        [\A i \in Invocations : Ends(i) /\ ~ stale /\ Agrees(marker', Signed(i)) => marker'.since = "act"]_vars
  BY <1>1
<1>3. QED
  BY SInvInit, SInvStep, <1>2, PTL DEF Spec, ActsAreSigned
=============================================================================
