----------------------------- MODULE PartsProofs -----------------------------
(* What is proved of the smaller parts: the part that runs keeps its own     *)
(* invariant, and the others are not there.  Each section names the          *)
(* variables s1 to s17 as its part does, states the invariant the part needs *)
(* to keep, and shows that it starts with it, keeps it and so tells what     *)
(* MCParts states of it; the theorems at the end are of MCParts' behaviours. *)
EXTENDS MCParts, FiniteSetTheorems, SequenceTheorems, WellFoundedInduction, TLAPS

-----------------------------------------------------------------------------
(* The wake.                                                               *)

time == s1
ec2 == s2
marker == s3
attached == s4
up == s5
wakeRow == s6
wakePc == s7
wakeSince == s8
started == s9
wakeAsked == s10
USE DEF time, ec2, marker, attached, up, wakeRow, wakePc, wakeSince, started, wakeAsked

LEMMA WakeConstants == MaxTime \in Nat /\ MaxTime >= 2
BY ConstantsAssumption DEF W!WakeAssumption

\* The marker names the start under way, or the last one.
MarkerTells ==
  /\ marker.state = "pending" => ec2 \in {"pending", "running"} /\ marker.since >= started
  /\ marker.state = "running" => ec2 = "running" /\ marker.since >= started
  /\ started <= time

\* What the script waits for is past the start it was answered with.
WaitsPastStart == wakePc = "wait" => wakeSince >= wakeAsked

WakeInv == W!TypeOK /\ MarkerTells /\ WaitsPastStart /\ W!AwakeMeansBoth

Waits == wakePc \in {"wake", "wait"}

-----------------------------------------------------------------------------
(* Lemmas.                                                                 *)

Marker == [state : {"stopped", "pending", "running", "stopping"}, since : W!Times]

LEMMA PassesType ==
  ASSUME W!TypeOK, W!Passes
  PROVE  time' \in W!Times /\ time' = time + 1 /\ time' > time
<1> QED BY WakeConstants DEF W!TypeOK, W!Passes, W!Times

\* What the power function takes EC2 to be keeps the marker's word.
LEMMA ReconciledTells ==
  ASSUME W!TypeOK, MarkerTells
  PROVE  /\ W!reconciledMarker \in Marker
         /\ W!reconciledMarker.state = ec2
         /\ ec2 \in {"pending", "running"} => W!reconciledMarker.since >= started
<1> DEFINE continues == [stopping |-> "stopped", pending |-> "running"]
<1>1. marker \in Marker /\ time \in W!Times /\ started \in W!Times /\ ec2 \in {"stopped", "pending", "running", "stopping"}
  BY DEF W!TypeOK, Marker
<1>2. CASE marker.state = ec2
  BY <1>1, <1>2 DEF W!reconciledMarker, MarkerTells, Marker
<1>3. CASE marker.state # ec2
  <2> DEFINE continued == marker.state \in DOMAIN continues /\ continues[marker.state] = ec2
             instant == IF continued THEN marker.since ELSE IF ec2 = "running" THEN started ELSE time
  <2>1. W!reconciledMarker = [state |-> ec2, since |-> instant]
    BY <1>3 DEF W!reconciledMarker
  <2>2. instant \in W!Times
    BY <1>1 DEF Marker
  <2>3. continued => marker.state \in {"stopping", "pending"} /\ (marker.state = "stopping" => ec2 = "stopped")
    BY DEF Marker
  <2>4. ec2 \in {"pending", "running"} => instant >= started
    BY <1>1, <2>3 DEF MarkerTells, W!Times, Marker
  <2> HIDE DEF instant
  <2> QED BY <1>1, <2>1, <2>2, <2>4 DEF Marker
<1> QED BY <1>2, <1>3

LEMMA WakeStarts == ASSUME W!Init PROVE WakeInv
<1> USE DEF W!Init
<1>1. wakeRow \in [W!Workers -> [writtenAt : W!Times, attached : BOOLEAN]]
  BY WakeConstants DEF W!Times
<1>2. marker \in Marker
  BY WakeConstants DEF W!Times, Marker
<1>3. W!TypeOK BY <1>1, <1>2, WakeConstants DEF W!TypeOK, W!Times, Marker
<1>4. MarkerTells BY DEF MarkerTells
<1> QED BY <1>3, <1>4 DEF WakeInv, WaitsPastStart, W!AwakeMeansBoth

-----------------------------------------------------------------------------
(* A step per action.                                                      *)

\* The start of a host that was asleep, and known to be.
LEMMA WakeStartOutsideStep ==
  ASSUME WakeInv, Waits, W!StartOutside
  PROVE  WakeInv'
<1> USE DEF WakeInv, W!StartOutside, W!Begin
<1>1. time' \in W!Times /\ time' = time + 1 BY PassesType
<1>2. W!TypeOK' BY <1>1, PassesType DEF W!TypeOK, W!script
<1>3. MarkerTells' BY <1>1 DEF MarkerTells, W!TypeOK, W!Times
<1>4. WaitsPastStart' BY DEF WaitsPastStart, W!script
<1>5. W!AwakeMeansBoth' BY DEF W!AwakeMeansBoth, W!script
<1> QED BY <1>2, <1>3, <1>4, <1>5

LEMMA WakeBootStep ==
  ASSUME WakeInv, Waits, W!Boot
  PROVE  WakeInv'
<1> USE DEF WakeInv, W!Boot
<1>1. time' \in W!Times /\ time' = time + 1 BY PassesType
<1>2. W!TypeOK' BY <1>1 DEF W!TypeOK, W!script
<1>3. MarkerTells' BY <1>1 DEF MarkerTells, W!TypeOK, W!Times
<1>4. WaitsPastStart' BY DEF WaitsPastStart, W!script
<1>5. W!AwakeMeansBoth' BY DEF W!AwakeMeansBoth, W!script
<1> QED BY <1>2, <1>3, <1>4, <1>5

\* A tick, or the look a poll of the desk asks for.
LEMMA WakeLookStep ==
  ASSUME WakeInv, Waits, W!Look
  PROVE  WakeInv'
<1> USE DEF WakeInv, W!Look
<1>1. /\ marker' \in Marker /\ marker'.state = ec2
      /\ ec2 \in {"pending", "running"} => marker'.since >= started
  BY ReconciledTells
<1>2. W!TypeOK' BY <1>1 DEF W!TypeOK, W!script, Marker
<1>3. MarkerTells' BY <1>1 DEF MarkerTells
<1>4. WaitsPastStart' BY DEF WaitsPastStart, W!script
<1>5. W!AwakeMeansBoth' BY DEF W!AwakeMeansBoth, W!script
<1> QED BY <1>2, <1>3, <1>4, <1>5

LEMMA WakeSleepStep ==
  ASSUME WakeInv, Waits, W!Sleep
  PROVE  WakeInv'
<1> USE DEF WakeInv, W!Sleep
<1>1. time' \in W!Times /\ time' = time + 1 BY PassesType
<1>2. W!TypeOK' BY <1>1 DEF W!TypeOK, W!script
<1>3. MarkerTells' BY <1>1 DEF MarkerTells, W!TypeOK, W!Times
<1>4. WaitsPastStart' BY DEF WaitsPastStart, W!script
<1>5. W!AwakeMeansBoth' BY DEF W!AwakeMeansBoth, W!script
<1> QED BY <1>2, <1>3, <1>4, <1>5

LEMMA WakeStoppedStep ==
  ASSUME WakeInv, Waits, W!Stopped
  PROVE  WakeInv'
<1> USE DEF WakeInv, W!Stopped
<1>1. W!TypeOK' BY DEF W!TypeOK, W!script
<1>2. MarkerTells' BY DEF MarkerTells
<1>3. WaitsPastStart' BY DEF WaitsPastStart, W!script
<1>4. W!AwakeMeansBoth' BY DEF W!AwakeMeansBoth, W!script
<1> QED BY <1>1, <1>2, <1>3, <1>4

\* A worker starts, attaches, ends or writes its part of the row: while the script
\* waits, nothing it has said depends on it.
LEMMA WakeWorkerStep ==
  ASSUME WakeInv, Waits, NEW w \in W!Workers,
         W!worker(w) \/ W!Crash(w) \/ W!attach(w) \/ W!writeStatus(w)
  PROVE  WakeInv'
<1> USE DEF WakeInv
<1>1. UNCHANGED <<W!host, W!script>> BY DEF W!worker, W!Crash, W!attach, W!writeStatus
<1>2. attached' \subseteq up' /\ up' \subseteq W!Workers
  BY DEF W!worker, W!Crash, W!attach, W!writeStatus, W!TypeOK
<1>3. wakeRow' \in [W!Workers -> [writtenAt : W!Times, attached : BOOLEAN]]
  <2>1. CASE W!writeStatus(w) BY <2>1 DEF W!writeStatus, W!TypeOK
  <2>2. CASE ~ W!writeStatus(w) BY <2>2 DEF W!worker, W!Crash, W!attach, W!TypeOK
  <2> QED BY <2>1, <2>2
<1>4. W!TypeOK' BY <1>1, <1>2, <1>3 DEF W!TypeOK, W!host, W!script
<1>5. MarkerTells' BY <1>1 DEF MarkerTells, W!host
<1>6. WaitsPastStart' BY <1>1 DEF WaitsPastStart, W!script
<1>7. W!AwakeMeansBoth' BY <1>1 DEF W!AwakeMeansBoth, W!script, Waits
<1> QED BY <1>4, <1>5, <1>6, <1>7

\* The script is answered with a marker that is not older than the start.
LEMMA WakeAskedStep ==
  ASSUME WakeInv, W!wake
  PROVE  WakeInv'
<1> USE DEF WakeInv
<1>1. wakePc = "wake" /\ UNCHANGED <<attached, up, wakeRow>> BY DEF W!wake
<1>2. CASE ec2 = "stopped" /\ W!Begin /\ marker' = [state |-> "pending", since |-> time + 1] /\ W!Answered(marker')
  <2>1. time' \in W!Times /\ time' = time + 1 /\ started' = time' /\ ec2' = "pending"
    BY <1>2, PassesType DEF W!Begin
  <2>2. marker' \in Marker /\ marker'.state = "pending" /\ marker'.since = started'
    BY <1>2, <2>1 DEF Marker
  <2>3. wakePc' = "wait" /\ wakeSince' = started' /\ wakeAsked' = started'
    BY <1>2, <2>2 DEF W!Answered
  <2>4. W!TypeOK' BY <1>1, <2>1, <2>2, <2>3 DEF W!TypeOK, Marker
  <2>5. MarkerTells' BY <2>1, <2>2 DEF MarkerTells, W!Times
  <2>6. WaitsPastStart' BY <2>1, <2>3 DEF WaitsPastStart, W!Times
  <2>7. W!AwakeMeansBoth' BY <2>3 DEF W!AwakeMeansBoth
  <2> QED BY <2>4, <2>5, <2>6, <2>7
<1>3. CASE /\ ec2 \in {"pending", "running", "stopping"} /\ UNCHANGED <<time, ec2, started>>
           /\ marker' = W!reconciledMarker
           /\ \/ ec2 # "stopping" /\ W!Answered(marker')
              \/ wakePc' = "refused" /\ UNCHANGED <<wakeSince, wakeAsked>>
  <2>1. /\ marker' \in Marker /\ marker'.state = ec2
        /\ ec2 \in {"pending", "running"} => marker'.since >= started
    BY <1>3, ReconciledTells
  <2>2. \/ wakePc' = "wait" /\ wakeSince' = marker'.since /\ wakeAsked' = started /\ ec2 # "stopping"
        \/ wakePc' = "refused" /\ UNCHANGED <<wakeSince, wakeAsked>>
    BY <1>3 DEF W!Answered
  <2>3. W!TypeOK' BY <1>1, <1>3, <2>1, <2>2 DEF W!TypeOK, Marker
  <2>4. MarkerTells' BY <1>3, <2>1 DEF MarkerTells
  <2>5. WaitsPastStart' BY <1>3, <2>1, <2>2 DEF WaitsPastStart
  <2>6. W!AwakeMeansBoth' BY <2>2 DEF W!AwakeMeansBoth
  <2> QED BY <2>3, <2>4, <2>5, <2>6
<1> QED BY <1>2, <1>3 DEF W!wake

LEMMA WakeWaitAwakeStep ==
  ASSUME WakeInv, W!waitAwake
  PROVE  WakeInv'
<1> USE DEF WakeInv, W!waitAwake
<1>1. W!TypeOK' BY DEF W!TypeOK, W!host
<1>2. MarkerTells' BY DEF MarkerTells, W!host
<1>3. WaitsPastStart' BY DEF WaitsPastStart
<1>4. W!AwakeMeansBoth'
  <2> SUFFICES ASSUME wakePc' = "awake", NEW w \in W!Workers
               PROVE  wakeRow[w].attached /\ wakeRow[w].writtenAt > wakeAsked
    BY DEF W!AwakeMeansBoth
  <2>1. W!reported(w) BY DEF W!Workers
  <2>2. wakeSince >= wakeAsked BY DEF WaitsPastStart
  <2>3. wakeRow[w].writtenAt \in Nat /\ wakeSince \in Nat /\ wakeAsked \in Nat BY DEF W!TypeOK, W!Times
  <2> QED BY <2>1, <2>2, <2>3 DEF W!reported
<1> QED BY <1>1, <1>2, <1>3, <1>4

LEMMA WakeKeeps == ASSUME WakeInv, [W!Next]_W!vars PROVE WakeInv'
<1>1. ASSUME Waits,
             W!StartOutside \/ W!Boot \/ W!Tick \/ W!state \/ W!Sleep \/ W!Stopped
             \/ \E w \in W!Workers : W!worker(w) \/ W!Crash(w) \/ W!attach(w) \/ W!writeStatus(w)
      PROVE  WakeInv'
  BY <1>1, WakeStartOutsideStep, WakeBootStep, WakeLookStep, WakeSleepStep, WakeStoppedStep, WakeWorkerStep DEF W!Tick, W!state
<1>2. CASE W!wake BY <1>2, WakeAskedStep
<1>3. CASE W!waitAwake BY <1>3, WakeWaitAwakeStep
<1>4. CASE UNCHANGED W!vars
  BY <1>4 DEF WakeInv, W!vars, W!host, W!script, W!TypeOK, MarkerTells, WaitsPastStart, W!AwakeMeansBoth
<1> QED BY <1>1, <1>2, <1>3, <1>4 DEF W!Next, Waits

\* What the card shows follows from the marker.
LEMMA MarkerGivesCard == WakeInv => W!CardTellsTheHost
<1> SUFFICES ASSUME WakeInv, marker.state = ec2, W!powerView = "awake"
             PROVE  ec2 = "running" /\ wakeRow["node"].writtenAt > started
  BY DEF W!CardTellsTheHost
<1>1. marker.state \in {"stopped", "pending", "running", "stopping"} BY DEF WakeInv, W!TypeOK
<1>2. marker.state = "running" /\ wakeRow["node"].writtenAt > marker.since
  <2> DEFINE said == IF wakeRow["node"].writtenAt > marker.since THEN "awake" ELSE "started"
             view == [stopping |-> "going to sleep", stopped |-> "asleep", pending |-> "waking", running |-> said]
  <2>1. W!powerView = view[marker.state] BY DEF W!powerView
  <2>2. /\ view["stopping"] = "going to sleep" /\ view["stopped"] = "asleep"
        /\ view["pending"] = "waking" /\ view["running"] = said
    BY DEF view
  <2> HIDE DEF view
  <2>3. marker.state = "running" /\ said = "awake" BY <1>1, <2>1, <2>2
  <2> QED BY <2>3
<1>3. marker.since >= started BY <1>2 DEF WakeInv, MarkerTells
<1>4. wakeRow["node"].writtenAt \in Nat /\ marker.since \in Nat /\ started \in Nat
  BY DEF WakeInv, W!TypeOK, W!Times, W!Workers
<1> QED BY <1>2, <1>3, <1>4

-----------------------------------------------------------------------------
(* The session.                                                            *)

page == s1
tokens == s2
pkce == s3
sessionCall == s4
activeReads == s5
waitingReads == s6
USE DEF page, tokens, pkce, sessionCall, activeReads, waitingReads

(* What the instances take from FiniteSets is what FiniteSets says.         *)
LEMMA SameFiniteSets ==
  /\ \A set : T!IsFiniteSet(set) <=> IsFiniteSet(set)
  /\ \A set : T!Cardinality(set) = Cardinality(set)
BY DEF T!Cardinality, Cardinality, T!IsFiniteSet, IsFiniteSet

LEMMA SessionConstants == IsFiniteSet(Reads) /\ Reads \cap Acts = {} /\ Slots \in Nat \ {0} /\ RETRIES \in Nat
BY ConstantsAssumption, SameFiniteSets DEF T!SessionAssumption

Ats == {"idle", "refresh", "wait", "sent", "sleep"}
Position == {r \in [at : Ats, attempt : 0 .. RETRIES] : r.at = "sleep" => r.attempt < RETRIES}
CallType == [T!Calls -> Position]

Holders == {c \in Reads : sessionCall[c].at \in {"sent", "sleep"}}
Line == {c \in Reads : sessionCall[c].at = "wait"}

StandsOnce == \A i, j \in DOMAIN waitingReads : waitingReads[i] = waitingReads[j] => i = j

SlotsTold ==
  /\ activeReads = Cardinality(Holders) /\ activeReads <= Slots
  /\ Line = T!Range(waitingReads)
  /\ waitingReads # <<>> => activeReads = Slots

SessionInv == T!TypeOK /\ sessionCall \in CallType /\ T!SlotsPassOn /\ StandsOnce

-----------------------------------------------------------------------------
(* Lemmas.                                                                 *)

LEMMA SlotsSaid == (T!SlotsPassOn <=> SlotsTold) /\ (T!SlotsPassOn' <=> SlotsTold')
BY SameFiniteSets DEF T!SlotsPassOn, SlotsTold, Holders, Line

LEMMA HoldersFinite == IsFiniteSet(Holders) /\ Cardinality(Holders) \in 0 .. Cardinality(Reads)
<1>1. Holders \subseteq Reads /\ IsFiniteSet(Reads) BY SessionConstants DEF Holders
<1> QED BY <1>1, FS_Subset, FS_CardinalityType

\* A call that moves on leaves the others where they are.
LEMMA GoesMoves ==
  ASSUME sessionCall \in CallType, NEW c \in T!Calls, NEW at \in Ats, T!Goes(c, at),
         at = "sleep" => sessionCall[c].attempt < RETRIES
  PROVE  /\ sessionCall' \in CallType
         /\ sessionCall'[c].at = at
         /\ \A d \in T!Calls \ {c} : sessionCall'[d] = sessionCall[d]
<1> QED BY DEF T!Goes, CallType, Position, Ats

\* A line longer by its last.
LEMMA AppendedLine ==
  ASSUME NEW E, NEW s \in Seq(E), NEW e \in E
  PROVE  /\ Append(s, e) \in Seq(E) /\ Append(s, e) # <<>>
         /\ T!Range(Append(s, e)) = T!Range(s) \cup {e}
         /\ (e \notin T!Range(s) /\ \A i, j \in DOMAIN s : s[i] = s[j] => i = j)
            => \A i, j \in DOMAIN Append(s, e) : Append(s, e)[i] = Append(s, e)[j] => i = j
<1> DEFINE t == Append(s, e)
<1>1. /\ t \in Seq(E) /\ Len(t) = Len(s) + 1 /\ DOMAIN t = 1 .. Len(s) + 1 /\ DOMAIN s = 1 .. Len(s)
      /\ t[Len(s) + 1] = e /\ \A i \in 1 .. Len(s) : t[i] = s[i]
      /\ Len(s) \in Nat
  OBVIOUS
<1>2. T!Range(t) = T!Range(s) \cup {e}
  BY <1>1 DEF T!Range
<1>3. ASSUME e \notin T!Range(s), \A i, j \in DOMAIN s : s[i] = s[j] => i = j,
             NEW i \in DOMAIN t, NEW j \in DOMAIN t, t[i] = t[j]
      PROVE  i = j
  <2>1. \A k \in 1 .. Len(s) : s[k] # e BY <1>1, <1>3 DEF T!Range
  <2> QED BY <1>1, <1>3, <2>1
<1> QED BY <1>1, <1>2, <1>3

\* A line without its first.
LEMMA ShorterLine ==
  ASSUME NEW E, NEW s \in Seq(E), s # <<>>, \A i, j \in DOMAIN s : s[i] = s[j] => i = j
  PROVE  /\ Tail(s) \in Seq(E) /\ Head(s) \in E /\ Head(s) \in T!Range(s)
         /\ T!Range(Tail(s)) = T!Range(s) \ {Head(s)}
         /\ \A i, j \in DOMAIN Tail(s) : Tail(s)[i] = Tail(s)[j] => i = j
<1> DEFINE t == Tail(s)
<1>1. /\ t \in Seq(E) /\ Len(t) = Len(s) - 1 /\ DOMAIN t = 1 .. Len(s) - 1 /\ DOMAIN s = 1 .. Len(s)
      /\ Head(s) = s[1] /\ \A i \in 1 .. Len(s) - 1 : t[i] = s[i + 1]
      /\ Len(s) \in Nat \ {0}
  OBVIOUS
<1>2. Head(s) \in E /\ Head(s) \in T!Range(s)
  BY <1>1 DEF T!Range
<1>3. T!Range(t) \subseteq T!Range(s) \ {Head(s)}
  <2> SUFFICES ASSUME NEW i \in 1 .. Len(s) - 1
               PROVE  t[i] \in T!Range(s) /\ t[i] # Head(s)
    BY <1>1 DEF T!Range
  <2>1. t[i] = s[i + 1] /\ i + 1 \in DOMAIN s /\ 1 \in DOMAIN s /\ i + 1 # 1
    BY <1>1
  <2> QED BY <1>1, <2>1 DEF T!Range
<1>4. T!Range(s) \ {Head(s)} \subseteq T!Range(t)
  <2> SUFFICES ASSUME NEW k \in DOMAIN s, s[k] # s[1]
               PROVE  \E i \in DOMAIN t : t[i] = s[k]
    BY <1>1 DEF T!Range
  <2>1. k - 1 \in DOMAIN t /\ t[k - 1] = s[k]
    BY <1>1
  <2> QED BY <2>1
<1>5. \A i, j \in DOMAIN t : t[i] = t[j] => i = j
  <2> SUFFICES ASSUME NEW i \in DOMAIN t, NEW j \in DOMAIN t, t[i] = t[j]
               PROVE  i = j
    OBVIOUS
  <2>1. i + 1 \in DOMAIN s /\ j + 1 \in DOMAIN s /\ s[i + 1] = s[j + 1]
    BY <1>1
  <2>2. i + 1 = j + 1 BY <2>1
  <2> QED BY <1>1, <2>2
<1> QED BY <1>1, <1>2, <1>3, <1>4, <1>5

\* What no slot and no place in the line depends on.
LEMMA SameReads ==
  ASSUME SessionInv, sessionCall' \in CallType, UNCHANGED T!slots,
         \A c \in Reads : \/ sessionCall'[c].at = sessionCall[c].at
                          \/ {sessionCall'[c].at, sessionCall[c].at} \subseteq {"sent", "sleep"}
                          \/ {sessionCall'[c].at, sessionCall[c].at} \subseteq {"idle", "refresh"}
  PROVE  T!SlotsPassOn' /\ StandsOnce'
<1>1. Holders' = Holders /\ Line' = Line
  BY DEF Holders, Line
<1> QED BY <1>1, SlotsSaid DEF SessionInv, StandsOnce, T!slots, T!SlotsPassOn, Holders, Line

\* The line and the slots keep their types.
LEMMA SlotsTyped ==
  ASSUME T!SlotsPassOn', waitingReads' \in Seq(Reads), sessionCall' \in CallType,
         page' \in {"boot", "callback", "hosted", "public", "problem", "app", "leaving"},
         tokens' \in {"none", "valid", "expired", "last"}, pkce' \in BOOLEAN
  PROVE  T!TypeOK' /\ (StandsOnce' => SessionInv')
<1>1. Holders' \subseteq Reads /\ IsFiniteSet(Reads) BY SessionConstants DEF Holders
<1>2. Cardinality(Holders') \in 0 .. Cardinality(Reads) BY <1>1, FS_Subset, FS_CardinalityType
<1>3. activeReads' = Cardinality(Holders') BY SlotsSaid DEF SlotsTold
<1> QED BY <1>2, <1>3, SameFiniteSets DEF SessionInv, T!TypeOK, CallType, Position, Ats

LEMMA EmptySlots ==
  ASSUME sessionCall = [c \in T!Calls |-> T!Idle], activeReads = 0, waitingReads = <<>>
  PROVE  sessionCall \in CallType /\ waitingReads \in Seq(Reads) /\ T!SlotsPassOn /\ StandsOnce
<1>1. sessionCall \in CallType BY SessionConstants DEF CallType, Position, T!Idle, Ats
<1>2. Holders = {} /\ Line = {} BY DEF Holders, Line, T!Idle, T!Calls
<1>3. T!Range(waitingReads) = {} BY DEF T!Range
<1>4. T!SlotsPassOn BY <1>2, <1>3, FS_EmptySet, SlotsSaid, SessionConstants DEF SlotsTold
<1> QED BY <1>1, <1>4 DEF StandsOnce

LEMMA SessionStarts == ASSUME T!Init PROVE SessionInv
<1>1. sessionCall \in CallType /\ waitingReads \in Seq(Reads) /\ T!SlotsPassOn /\ StandsOnce
  BY EmptySlots DEF T!Init
<1>2. 0 \in 0 .. Cardinality(Reads) BY FS_CardinalityType, SessionConstants
<1> QED BY <1>1, <1>2, SameFiniteSets DEF T!Init, SessionInv, T!TypeOK, CallType, Position, Ats

-----------------------------------------------------------------------------
(* A slot is taken, or a place in the line; a slot is given up, or passed   *)
(* on.                                                                      *)

LEMMA AcquireStep ==
  ASSUME SessionInv, NEW c \in Reads, sessionCall[c].at \in {"idle", "refresh"}, T!acquireRead(c)
  PROVE  sessionCall' \in CallType /\ waitingReads' \in Seq(Reads) /\ T!SlotsPassOn' /\ StandsOnce'
<1>1. c \in T!Calls /\ Reads \subseteq T!Calls BY DEF T!Calls
<1>2. /\ activeReads = Cardinality(Holders) /\ activeReads <= Slots /\ Line = T!Range(waitingReads)
      /\ waitingReads # <<>> => activeReads = Slots
  BY SlotsSaid DEF SessionInv, SlotsTold
<1>3. c \notin Holders /\ c \notin Line BY DEF Holders, Line
<1>4. Slots \in Nat \ {0} /\ activeReads \in Nat /\ IsFiniteSet(Holders) /\ waitingReads \in Seq(Reads)
  BY <1>2, HoldersFinite, FS_CardinalityType, SessionConstants DEF SessionInv, T!TypeOK
<1>5. CASE activeReads < Slots
  <2>1. activeReads' = activeReads + 1 /\ T!Goes(c, "sent") /\ UNCHANGED waitingReads
    BY <1>5 DEF T!acquireRead
  <2>2. /\ sessionCall' \in CallType /\ sessionCall'[c].at = "sent" /\ \A d \in T!Calls \ {c} : sessionCall'[d] = sessionCall[d]
    BY <1>1, <2>1, GoesMoves DEF SessionInv, Ats
  <2>3. Holders' = Holders \cup {c} /\ Line' = Line
    BY <1>1, <1>3, <2>2 DEF Holders, Line
  <2>4. Cardinality(Holders') = Cardinality(Holders) + 1
    BY <1>3, <1>4, <2>3, FS_AddElement
  <2>5. waitingReads = <<>> BY <1>2, <1>4, <1>5
  <2>6. T!SlotsPassOn' BY <1>2, <1>4, <1>5, <2>1, <2>3, <2>4, <2>5, SlotsSaid DEF SlotsTold, Holders, Line
  <2> QED BY <1>4, <2>1, <2>2, <2>6 DEF SessionInv, StandsOnce
<1>6. CASE ~ (activeReads < Slots)
  <2>1. waitingReads' = Append(waitingReads, c) /\ T!Goes(c, "wait") /\ UNCHANGED activeReads
    BY <1>6 DEF T!acquireRead
  <2>2. /\ sessionCall' \in CallType /\ sessionCall'[c].at = "wait" /\ \A d \in T!Calls \ {c} : sessionCall'[d] = sessionCall[d]
    BY <1>1, <2>1, GoesMoves DEF SessionInv, Ats
  <2>3. Holders' = Holders /\ Line' = Line \cup {c}
    BY <1>1, <1>3, <2>2 DEF Holders, Line
  <2>4. waitingReads' \in Seq(Reads) /\ T!Range(waitingReads') = Line' /\ StandsOnce'
    BY <1>2, <1>3, <1>4, <2>1, <2>3, AppendedLine DEF SessionInv, StandsOnce
  <2>5. activeReads = Slots BY <1>2, <1>4, <1>6
  <2>6. T!SlotsPassOn' BY <1>2, <2>1, <2>3, <2>4, <2>5, SlotsSaid DEF SlotsTold, Holders, Line
  <2> QED BY <2>2, <2>4, <2>6
<1> QED BY <1>5, <1>6

LEMMA ReleaseStep ==
  ASSUME SessionInv, NEW c \in Reads, sessionCall[c].at = "sent", T!Ends(c), T!releaseRead
  PROVE  sessionCall' \in CallType /\ waitingReads' \in Seq(Reads) /\ T!SlotsPassOn' /\ StandsOnce'
<1>1. c \in T!Calls /\ Reads \subseteq T!Calls BY DEF T!Calls
<1>2. /\ activeReads = Cardinality(Holders) /\ activeReads <= Slots /\ Line = T!Range(waitingReads)
      /\ waitingReads # <<>> => activeReads = Slots
  BY SlotsSaid DEF SessionInv, SlotsTold
<1>3. c \in Holders /\ c \notin Line BY DEF Holders, Line
<1>4. /\ Slots \in Nat \ {0} /\ activeReads \in Nat /\ IsFiniteSet(Holders) /\ waitingReads \in Seq(Reads)
      /\ sessionCall \in CallType
  BY <1>2, HoldersFinite, FS_CardinalityType, SessionConstants DEF SessionInv, T!TypeOK
<1>5. T!Idle \in Position BY SessionConstants DEF T!Idle, Position, Ats
<1>6. CASE waitingReads = <<>>
  <2>1. activeReads' = activeReads - 1 /\ UNCHANGED waitingReads BY <1>6 DEF T!releaseRead
  <2>2. sessionCall' = [d \in T!Calls |-> IF d = c THEN T!Idle ELSE sessionCall[d]] BY <1>6 DEF T!Ends
  <2>3. sessionCall' \in CallType BY <1>4, <1>5, <2>2 DEF CallType
  <2>4. Holders' = Holders \ {c} /\ Line' = Line
    BY <1>1, <1>3, <2>2 DEF Holders, Line, T!Idle
  <2>5. Cardinality(Holders') = Cardinality(Holders) - 1
    BY <1>3, <1>4, <2>4, FS_RemoveElement
  <2>6. T!SlotsPassOn' BY <1>2, <1>4, <1>6, <2>1, <2>4, <2>5, SlotsSaid DEF SlotsTold, Holders, Line
  <2> QED BY <1>4, <2>1, <2>3, <2>6 DEF SessionInv, StandsOnce
<1>7. CASE waitingReads # <<>>
  <2> DEFINE h == Head(waitingReads)
  <2>1. waitingReads' = Tail(waitingReads) /\ UNCHANGED activeReads BY <1>7 DEF T!releaseRead
  <2>2. sessionCall' = [d \in T!Calls |-> IF d = c THEN T!Idle ELSE IF d = h THEN [sessionCall[d] EXCEPT !.at = "sent"] ELSE sessionCall[d]]
    BY <1>7 DEF T!Ends
  <2>3. /\ waitingReads' \in Seq(Reads) /\ h \in Reads /\ h \in Line
        /\ T!Range(waitingReads') = Line \ {h} /\ StandsOnce'
    BY <1>2, <1>4, <1>7, <2>1, ShorterLine DEF SessionInv, StandsOnce
  <2>4. h # c /\ h \notin Holders BY <1>3, <2>3 DEF Holders, Line
  <2> HIDE DEF h
  <2>5. [sessionCall[h] EXCEPT !.at = "sent"] \in Position
        /\ [sessionCall[h] EXCEPT !.at = "sent"].at = "sent"
    BY <1>1, <1>4, <2>3 DEF CallType, Position, Ats
  <2>6. sessionCall' \in CallType BY <1>4, <1>5, <2>2, <2>5 DEF CallType
  <2>7. sessionCall'[c].at = "idle" /\ sessionCall'[h].at = "sent" /\ \A d \in T!Calls \ {c, h} : sessionCall'[d] = sessionCall[d]
    BY <1>1, <2>2, <2>3, <2>4, <2>5 DEF T!Idle
  <2>8. Holders' = (Holders \ {c}) \cup {h} /\ Line' = Line \ {h}
    BY <1>1, <1>3, <2>3, <2>4, <2>7 DEF Holders, Line
  <2>9. Cardinality(Holders') = Cardinality(Holders)
    <3>1. IsFiniteSet(Holders \ {c}) /\ Cardinality(Holders \ {c}) = Cardinality(Holders) - 1
      BY <1>3, <1>4, FS_RemoveElement
    <3>2. h \notin Holders \ {c} BY <2>4
    <3>3. Cardinality((Holders \ {c}) \cup {h}) = Cardinality(Holders \ {c}) + 1
      BY <3>1, <3>2, FS_AddElement
    <3> QED BY <1>2, <1>4, <2>8, <3>1, <3>3
  <2>10. T!SlotsPassOn' BY <1>2, <1>7, <2>1, <2>3, <2>8, <2>9, SlotsSaid DEF SlotsTold, Holders, Line
  <2> QED BY <2>3, <2>6, <2>10
<1> QED BY <1>6, <1>7

-----------------------------------------------------------------------------
(* A step per action.                                                      *)

Pages == {"boot", "callback", "hosted", "public", "problem", "app", "leaving"}
Tokens == {"none", "valid", "expired", "last"}

\* What touches the page and the storage only.
LEMMA SignInStep ==
  ASSUME SessionInv,
         T!completeSignIn \/ T!boot \/ T!beginSignIn \/ T!signOut \/ T!Expire \/ UNCHANGED T!vars
  PROVE  SessionInv'
<1>1. UNCHANGED <<sessionCall, T!slots>>
  BY DEF T!completeSignIn, T!boot, T!beginSignIn, T!signOut, T!Expire, T!vars
<1>2. page' \in Pages /\ tokens' \in Tokens /\ pkce' \in BOOLEAN
  BY DEF T!completeSignIn, T!boot, T!beginSignIn, T!signOut, T!Expire, T!vars, T!storage, SessionInv, T!TypeOK, Pages, Tokens
<1> QED BY <1>1, <1>2 DEF SessionInv, T!TypeOK, T!SlotsPassOn, StandsOnce, T!slots, Pages, Tokens

LEMMA ReturnStep == ASSUME SessionInv, T!Return PROVE SessionInv'
<1>1. sessionCall' \in CallType /\ waitingReads' \in Seq(Reads) /\ T!SlotsPassOn' /\ StandsOnce'
  <2>1. sessionCall' = [c \in T!Calls |-> T!Idle] /\ activeReads' = 0 /\ waitingReads' = <<>> BY DEF T!Return
  <2>2. sessionCall' \in CallType BY <2>1, SessionConstants DEF CallType, Position, T!Idle, Ats
  <2>3. /\ {c \in Reads : sessionCall'[c].at \in {"sent", "sleep"}} = {}
        /\ {c \in Reads : sessionCall'[c].at = "wait"} = {}
    BY <2>1 DEF T!Idle, T!Calls
  <2>4. T!Range(waitingReads') = {} BY <2>1 DEF T!Range
  <2>5. Cardinality({}) = 0 BY FS_EmptySet
  <2>6. T!SlotsPassOn'
    <3>1. Holders' = {} /\ Line' = {} BY <2>3 DEF Holders, Line
    <3> QED BY <2>1, <2>4, <2>5, <3>1, SlotsSaid, SessionConstants DEF SlotsTold
  <2> QED BY <2>1, <2>2, <2>6 DEF StandsOnce
<1>2. page' \in Pages /\ tokens' \in Tokens /\ pkce' \in BOOLEAN
  BY DEF T!Return, T!storage, SessionInv, T!TypeOK, Pages, Tokens
<1> QED BY <1>1, <1>2, SlotsTyped DEF SessionInv, Pages, Tokens

\* An act, or a read, whose token is there is sent, or stands in the line.
LEMMA SendStep ==
  ASSUME SessionInv, NEW c \in T!Calls, sessionCall[c].at \in {"idle", "refresh"}, T!Send(c)
  PROVE  sessionCall' \in CallType /\ waitingReads' \in Seq(Reads) /\ T!SlotsPassOn' /\ StandsOnce'
<1>1. CASE c \in Reads
  BY <1>1, AcquireStep DEF T!Send
<1>2. CASE c \notin Reads
  <2>1. T!Goes(c, "sent") /\ UNCHANGED T!slots BY <1>2 DEF T!Send
  <2>2. sessionCall' \in CallType /\ \A d \in T!Calls \ {c} : sessionCall'[d] = sessionCall[d]
    BY <2>1, GoesMoves DEF SessionInv, Ats
  <2>3. \A d \in Reads : sessionCall'[d].at = sessionCall[d].at BY <1>2, <2>2 DEF T!Calls
  <2>4. T!SlotsPassOn' /\ StandsOnce' BY <2>1, <2>2, <2>3, SameReads
  <2> QED BY <2>1, <2>2, <2>4 DEF T!slots, SessionInv, T!TypeOK
<1> QED BY <1>1, <1>2

LEMMA IdTokenStep ==
  ASSUME SessionInv, NEW c \in T!Calls, T!idToken(c)
  PROVE  SessionInv'
<1>1. sessionCall[c].at = "idle" BY DEF T!idToken, T!Idle
<1>2. page' \in Pages /\ tokens' \in Tokens /\ pkce' \in BOOLEAN
  BY DEF T!idToken, SessionInv, T!TypeOK, Pages, Tokens
<1>3. sessionCall' \in CallType /\ waitingReads' \in Seq(Reads) /\ T!SlotsPassOn' /\ StandsOnce'
  <2>1. CASE T!Send(c) BY <1>1, <2>1, SendStep
  <2>2. CASE T!Goes(c, "refresh") /\ UNCHANGED T!slots
    <3>1. sessionCall' \in CallType /\ sessionCall'[c].at = "refresh" /\ \A d \in T!Calls \ {c} : sessionCall'[d] = sessionCall[d]
      BY <2>2, GoesMoves DEF SessionInv, Ats
    <3>2. T!SlotsPassOn' /\ StandsOnce' BY <1>1, <2>2, <3>1, SameReads DEF T!Calls
    <3> QED BY <2>2, <3>1, <3>2 DEF T!slots, SessionInv, T!TypeOK
  <2>3. CASE UNCHANGED <<sessionCall, T!slots>>
    BY <2>3 DEF SessionInv, T!TypeOK, T!SlotsPassOn, StandsOnce, T!slots, CallType, Ats
  <2> QED BY <2>1, <2>2, <2>3 DEF T!idToken
<1> QED BY <1>2, <1>3, SlotsTyped DEF SessionInv, Pages, Tokens

LEMMA RefreshedStep ==
  ASSUME SessionInv, NEW c \in T!Calls, T!refreshed(c)
  PROVE  SessionInv'
<1>1. sessionCall[c].at = "refresh" BY DEF T!refreshed
<1>2. page' \in Pages /\ tokens' \in Tokens /\ pkce' \in BOOLEAN
  BY DEF T!refreshed, SessionInv, T!TypeOK, Pages, Tokens
<1>3. sessionCall' \in CallType /\ waitingReads' \in Seq(Reads) /\ T!SlotsPassOn' /\ StandsOnce'
  <2>1. CASE T!Send(c) BY <1>1, <2>1, SendStep
  <2>2. CASE T!Goes(c, "idle") /\ UNCHANGED T!slots
    <3>1. sessionCall' \in CallType /\ sessionCall'[c].at = "idle" /\ \A d \in T!Calls \ {c} : sessionCall'[d] = sessionCall[d]
      BY <2>2, GoesMoves DEF SessionInv, Ats
    <3>2. T!SlotsPassOn' /\ StandsOnce' BY <1>1, <2>2, <3>1, SameReads DEF T!Calls
    <3> QED BY <2>2, <3>1, <3>2 DEF T!slots, SessionInv, T!TypeOK
  <2> QED BY <2>1, <2>2 DEF T!refreshed
<1> QED BY <1>2, <1>3, SlotsTyped DEF SessionInv, Pages, Tokens

LEMMA AnsweredStep ==
  ASSUME SessionInv, NEW c \in T!Calls, T!answered(c)
  PROVE  SessionInv'
<1>1. sessionCall[c].at = "sent" /\ T!Ends(c) /\ UNCHANGED <<page, T!storage>> BY DEF T!answered
<1>2. sessionCall' \in CallType /\ waitingReads' \in Seq(Reads) /\ T!SlotsPassOn' /\ StandsOnce'
  <2>1. CASE c \in Reads BY <1>1, <2>1, ReleaseStep DEF T!answered
  <2>2. CASE c \notin Reads
    <3>1. UNCHANGED T!slots /\ sessionCall' = [d \in T!Calls |-> IF d = c THEN T!Idle ELSE sessionCall[d]]
      BY <1>1, <2>2 DEF T!answered, T!Ends
    <3>2. sessionCall' \in CallType
      BY <3>1, SessionConstants DEF SessionInv, CallType, Position, Ats, T!Idle
    <3>3. \A d \in Reads : sessionCall'[d].at = sessionCall[d].at BY <2>2, <3>1 DEF T!Calls
    <3>4. T!SlotsPassOn' /\ StandsOnce' BY <3>1, <3>2, <3>3, SameReads
    <3> QED BY <3>1, <3>2, <3>4 DEF T!slots, SessionInv, T!TypeOK
  <2> QED BY <2>1, <2>2
<1> QED BY <1>1, <1>2, SlotsTyped DEF SessionInv, T!TypeOK, T!storage

\* A read that sleeps keeps its slot.
LEMMA SleepStep ==
  ASSUME SessionInv, NEW c \in T!Calls, T!unavailable(c) \/ T!retry(c)
  PROVE  SessionInv'
<1>1. UNCHANGED <<page, T!storage, T!slots>> BY DEF T!unavailable, T!retry
<1>2. sessionCall' \in CallType /\ \A d \in T!Calls \ {c} : sessionCall'[d] = sessionCall[d]
  <2>1. CASE T!unavailable(c) BY <2>1, GoesMoves DEF T!unavailable, SessionInv, Ats
  <2>2. CASE T!retry(c)
    <3>1. sessionCall' = [sessionCall EXCEPT ![c] = [at |-> "sent", attempt |-> @.attempt + 1]] BY <2>2 DEF T!retry
    <3>2. [at |-> "sent", attempt |-> sessionCall[c].attempt + 1] \in Position
      BY <2>2, SessionConstants DEF T!retry, SessionInv, CallType, Position, Ats
    <3> QED BY <3>1, <3>2 DEF SessionInv, CallType
  <2> QED BY <2>1, <2>2
<1>3. {sessionCall'[c].at, sessionCall[c].at} \subseteq {"sent", "sleep"}
  BY DEF T!unavailable, T!retry, T!Goes, SessionInv, CallType, Position, Ats
<1>4. T!SlotsPassOn' /\ StandsOnce' BY <1>1, <1>2, <1>3, SameReads DEF T!Calls
<1> QED BY <1>1, <1>2, <1>4, SlotsTyped DEF SessionInv, T!TypeOK, T!storage, T!slots

LEMMA SessionKeeps == ASSUME SessionInv, [T!Next]_T!vars PROVE SessionInv'
<1>1. CASE T!completeSignIn \/ T!boot \/ T!beginSignIn \/ T!signOut \/ T!Expire \/ UNCHANGED T!vars
  BY <1>1, SignInStep
<1>2. CASE T!Return BY <1>2, ReturnStep
<1>3. ASSUME NEW c \in T!Calls, T!idToken(c) \/ T!refreshed(c) \/ T!answered(c) \/ T!unavailable(c) \/ T!retry(c)
      PROVE  SessionInv'
  BY <1>3, IdTokenStep, RefreshedStep, AnsweredStep, SleepStep
<1> QED BY <1>1, <1>2, <1>3 DEF T!Next

-----------------------------------------------------------------------------
(* Cadence.                                                                *)

reader == s1
lag == s2
parameter == s3
demoMode == s4
cached == s5
textAsked == s6
poll == s7
nextTicket == s8
busy == s9
sinceTicket == s10
age == s11
unread == s12

USE DEF reader, lag, parameter, demoMode, cached, textAsked, poll, nextTicket, busy, sinceTicket, age, unread

LEMMA CadenceConstants ==
  /\ LIFE \in Nat /\ POLL \in Nat /\ IDLE \in Nat /\ DEMO \in Nat /\ FIRST \in Nat
  /\ LIFE >= 1 /\ POLL >= 1 /\ DEMO >= 1 /\ FIRST >= 1
  /\ SLACK \in Nat /\ MaxRun \in Nat /\ SLACK < LIFE /\ DEMO < IDLE /\ FIRST <= DEMO /\ MaxRun < DEMO
  /\ C!Late = POLL + POLL + SLACK + MaxRun /\ C!Late \in Nat
<1>1. C!CadenceAssumption
  BY ConstantsAssumption
<1>2. /\ LIFE \in Nat \ {0} /\ POLL \in Nat \ {0} /\ IDLE \in Nat \ {0} /\ DEMO \in Nat \ {0} /\ FIRST \in Nat \ {0}
      /\ SLACK \in Nat /\ MaxRun \in Nat
  BY <1>1 DEF C!CadenceAssumption
<1> QED
  BY <1>1, <1>2 DEF C!CadenceAssumption, C!Late

\* The mode in force is what the document says, where it says one thing.
Agrees == C!Says(parameter) = "either" \/ demoMode = C!Says(parameter)

\* What a reading got is what the document says, unless it was written to since, and time
\* does not pass under a reading.
AskedIsSaid ==
  textAsked # C!None =>
    /\ busy = 0
    /\ age = 0 \/ (C!Says(textAsked) = C!Says(parameter) /\ (reader = "desk" => textAsked = parameter))

\* The text the desk keeps is the document's, or the document is as new as that text.
KeptIsDocument ==
  reader = "desk" =>
    /\ nextTicket = FIRST /\ sinceTicket = 0 /\ busy = 0
    /\ poll > 0 => cached # C!None
    /\ cached # C!None => cached = parameter \/ age + poll <= POLL

\* Only the Python worker is busy, and it is free again before the next ticket is due.
FreeBeforeDue ==
  /\ busy > 0 => reader = "python" /\ nextTicket > busy /\ sinceTicket + busy <= MaxRun

\* A mode that is not the document's is as old as the reading, or the run that keeps the
\* Python worker from the next.
ReadInTime ==
  ~ unread /\ ~ Agrees =>
    \/ age + poll <= POLL
    \/ poll = 0 /\ nextTicket > busy /\ age + busy <= POLL + MaxRun

CadenceInv ==
  /\ C!TypeOK /\ AskedIsSaid /\ KeptIsDocument /\ FreeBeforeDue /\ ReadInTime
  /\ C!TicketsComeInTime

-----------------------------------------------------------------------------

LEMMA CadenceTells ==
  ASSUME CadenceInv
  PROVE  C!ReadingCurrent /\ C!TicketsComeInTime
BY CadenceConstants
DEF CadenceInv, ReadInTime, Agrees, C!ReadingCurrent, C!TypeOK

\* What a text says is how it is read, by a clock that is as far behind as one may be.
LEMMA ReadAsSaid ==
  ASSUME NEW text \in C!Texts, lag \in 0 .. SLACK
  PROVE  /\ C!parseDemoMode(text) \in {"on", "off"}
         /\ C!Says(text) = "either" \/ C!parseDemoMode(text) = C!Says(text)
<1>1. text.left \in Int
  BY CadenceConstants DEF C!Texts
<1> QED
  BY <1>1, CadenceConstants DEF C!parseDemoMode, C!Says

\* Texts stay texts.
LEMMA TextsAre ==
  /\ C!None \notin C!Texts
  /\ \A m \in {"on", "off"} : C!demoModeDocument(m) \in C!Texts
  /\ \A text \in C!Texts : C!Shorter(text) \in C!Texts /\ C!Shorter(text) # C!None
<1>1. C!None \notin C!Texts
  BY DEF C!None, C!Texts
<1>2. \A m \in {"on", "off"} : C!demoModeDocument(m) \in C!Texts
  BY CadenceConstants DEF C!demoModeDocument, C!Texts
<1>3. ASSUME NEW text \in C!Texts
      PROVE  C!Shorter(text) \in C!Texts
  <2>1. CASE text.mode = "on" /\ text.left > -SLACK
    <3>1. text \in [mode : {"on"}, left : -SLACK .. LIFE + SLACK + 1] \/ text.left = 0
      BY DEF C!Texts
    <3>2. text.left \in Int /\ text.left <= LIFE + SLACK + 1
      BY <3>1, CadenceConstants
    <3>3. text.left - 1 \in -SLACK .. LIFE + SLACK + 1
      BY <2>1, <3>2, CadenceConstants
    <3>4. text = [mode |-> text.mode, left |-> text.left]
      BY DEF C!Texts
    <3>5. [text EXCEPT !.left = @ - 1] = [mode |-> "on", left |-> text.left - 1]
      BY <2>1, <3>4
    <3> QED
      BY <2>1, <3>3, <3>5 DEF C!Shorter, C!Texts
  <2>2. CASE ~ (text.mode = "on" /\ text.left > -SLACK)
    BY <2>2 DEF C!Shorter
  <2> QED
    BY <2>1, <2>2
<1> QED
  BY <1>1, <1>2, <1>3

-----------------------------------------------------------------------------
(* The steps.                                                              *)

LEMMA CadenceStarts ==
  ASSUME C!Init
  PROVE  CadenceInv
<1> USE CadenceConstants DEF C!Init
<1>1. parameter \in C!Texts
  BY TextsAre DEF C!Texts
<1>2. C!TypeOK
  BY <1>1 DEF C!TypeOK
<1>3. C!TicketsComeInTime
  BY CadenceConstants DEF C!TicketsComeInTime, C!Interval
<1> QED
  BY <1>2, <1>3 DEF CadenceInv, AskedIsSaid, KeptIsDocument, FreeBeforeDue, ReadInTime

\* The document is written, and begins to say something else or does not.
LEMMA WritingIs ==
  ASSUME C!TypeOK, NEW text \in C!Texts, C!Write(text)
  PROVE  /\ parameter' \in C!Texts /\ age' \in {0, age} /\ age' \in 0 .. C!Late + 1
         /\ age' # 0 => C!Says(parameter') = C!Says(parameter) /\ (reader = "desk" => parameter' = parameter)
BY CadenceConstants DEF C!TypeOK, C!Write

\* What is written by somebody else.
LEMMA WritingKeeps ==
  ASSUME CadenceInv, NEW text \in C!Texts, C!Write(text),
         UNCHANGED <<reader, lag, demoMode, cached, textAsked, poll, nextTicket, busy, sinceTicket, unread>>
  PROVE  CadenceInv'
<1>0. /\ parameter' \in C!Texts /\ age' \in {0, age} /\ age' \in 0 .. C!Late + 1
      /\ age' # 0 => C!Says(parameter') = C!Says(parameter) /\ (reader = "desk" => parameter' = parameter)
  BY WritingIs DEF CadenceInv
<1>1. C!TypeOK' /\ age \in Nat /\ poll \in 0 .. POLL
  BY <1>0 DEF CadenceInv, C!TypeOK
<1>2. AskedIsSaid'
  BY <1>0 DEF CadenceInv, AskedIsSaid
<1>3. KeptIsDocument'
  <2>1. CASE age' = 0
    BY <2>1, <1>1, CadenceConstants DEF CadenceInv, KeptIsDocument
  <2>2. CASE age' # 0
    BY <2>2, <1>0 DEF CadenceInv, KeptIsDocument
  <2> QED
    BY <2>1, <2>2
<1>4. ReadInTime'
  <2>1. CASE age' = 0
    BY <2>1, <1>1, CadenceConstants DEF ReadInTime
  <2>2. CASE age' # 0
    BY <2>2, <1>0 DEF CadenceInv, ReadInTime, Agrees
  <2> QED
    BY <2>1, <2>2
<1> QED
  BY <1>1, <1>2, <1>3, <1>4 DEF CadenceInv, FreeBeforeDue, C!TicketsComeInTime, C!Interval

LEMMA DocumentKeeps ==
  ASSUME CadenceInv, C!demo_mode \/ C!PutByHand
  PROVE  CadenceInv'
<1> USE DEF C!world, C!timer, C!reading
<1>1. CASE C!PutByHand
  <2>1. PICK text \in C!Texts : C!Write(text)
    BY <1>1 DEF C!PutByHand
  <2> QED
    BY <1>1, <2>1, WritingKeeps DEF C!PutByHand
<1>2. CASE C!demo_mode
  <2>1. PICK m \in {"on", "off"} :
          /\ C!Write(C!demoModeDocument(m))
          /\ \/ UNCHANGED <<demoMode, cached, textAsked, poll, unread>>
             \/ /\ reader = "desk" /\ textAsked = C!None
                /\ cached' = C!demoModeDocument(m) /\ poll' = POLL
                /\ demoMode' = C!parseDemoMode(cached') /\ unread' = FALSE
                /\ UNCHANGED textAsked
    BY <1>2 DEF C!demo_mode
  <2>2. UNCHANGED <<reader, lag, nextTicket, busy, sinceTicket>> /\ C!demoModeDocument(m) \in C!Texts
    BY <1>2, TextsAre DEF C!demo_mode
  <2>3. CASE UNCHANGED <<demoMode, cached, textAsked, poll, unread>>
    BY <2>1, <2>2, <2>3, WritingKeeps
  <2>4. CASE /\ reader = "desk" /\ textAsked = C!None
             /\ cached' = C!demoModeDocument(m) /\ poll' = POLL
             /\ demoMode' = C!parseDemoMode(cached') /\ unread' = FALSE
             /\ UNCHANGED textAsked
    <3>1. /\ parameter' = cached' /\ parameter' \in C!Texts /\ age' \in 0 .. C!Late + 1 /\ cached' # C!None
      BY <2>1, <2>2, <2>4, WritingIs, TextsAre DEF C!Write, CadenceInv
    <3>2. demoMode' \in {"on", "off"} /\ Agrees'
      BY <2>2, <2>4, <3>1, ReadAsSaid DEF Agrees, CadenceInv, C!TypeOK
    <3>3. C!TypeOK'
      <4>1. cached' \in C!Texts \cup {C!None} /\ unread' \in BOOLEAN
        BY <2>4, <3>1
      <4>2. poll' \in 0 .. POLL
        BY <2>4, CadenceConstants
      <4> QED
        BY <2>2, <2>4, <3>1, <3>2, <4>1, <4>2 DEF CadenceInv, C!TypeOK
    <3>4. AskedIsSaid' /\ KeptIsDocument' /\ ReadInTime' /\ FreeBeforeDue'
      BY <2>2, <2>4, <3>1, <3>2 DEF CadenceInv, AskedIsSaid, KeptIsDocument, ReadInTime, FreeBeforeDue
    <3>5. C!TicketsComeInTime'
      BY <2>2, <2>4, CadenceConstants DEF CadenceInv, C!TicketsComeInTime, C!Interval, KeptIsDocument
    <3> QED
      BY <3>3, <3>4, <3>5 DEF CadenceInv
  <2> QED
    BY <2>1, <2>3, <2>4
<1> QED
  BY <1>1, <1>2

LEMMA AskingKeeps ==
  ASSUME CadenceInv, C!ask
  PROVE  CadenceInv'
<1>1. /\ textAsked = C!None /\ busy = 0 /\ textAsked' = parameter /\ parameter \in C!Texts
      /\ UNCHANGED <<reader, lag, parameter, demoMode, cached, poll, nextTicket, busy, sinceTicket, unread, age>>
  BY DEF C!ask, C!world, C!timer, CadenceInv, C!TypeOK
<1>2. C!TypeOK'
  BY <1>1 DEF CadenceInv, C!TypeOK
<1> QED
  BY <1>1, <1>2
  DEF CadenceInv, AskedIsSaid, KeptIsDocument, FreeBeforeDue, ReadInTime, Agrees, C!TicketsComeInTime, C!Interval

\* A mode that was read just now is the document's, or the document is as new.
LEMMA JustRead ==
  ASSUME CadenceInv, textAsked # C!None, demoMode' = C!parseDemoMode(textAsked), UNCHANGED <<parameter, age>>
  PROVE  demoMode' \in {"on", "off"} /\ (Agrees' \/ age' = 0)
<1>1. textAsked \in C!Texts /\ lag \in 0 .. SLACK
  BY DEF CadenceInv, C!TypeOK
<1> QED
  BY <1>1, ReadAsSaid DEF CadenceInv, AskedIsSaid, Agrees

LEMMA WorkerReads ==
  ASSUME CadenceInv, C!readDemoMode
  PROVE  CadenceInv'
<1>1. /\ reader # "desk" /\ textAsked # C!None /\ textAsked' = C!None /\ unread' = FALSE /\ poll' \in 0 .. POLL
      /\ demoMode' = C!parseDemoMode(textAsked) /\ C!setMode(C!parseDemoMode(textAsked))
      /\ UNCHANGED <<reader, lag, parameter, cached, busy, sinceTicket, age>>
  BY CadenceConstants DEF C!readDemoMode, C!world
<1>2. demoMode' \in {"on", "off"} /\ (Agrees' \/ age' = 0)
  BY <1>1, JustRead
<1>3. /\ nextTicket \in Nat /\ sinceTicket \in Nat /\ nextTicket' \in Nat
      /\ nextTicket' <= nextTicket /\ nextTicket' <= C!Interval(demoMode')
  <2>1. /\ nextTicket \in Nat /\ sinceTicket \in Nat /\ nextTicket <= C!Interval(demoMode)
    BY CadenceConstants DEF CadenceInv, C!TypeOK, C!TicketsComeInTime, C!Interval
  <2>2. C!Interval(demoMode') \in Nat
    BY CadenceConstants DEF C!Interval
  <2> QED
    BY <1>1, <2>1, <2>2 DEF C!setMode
<1>4. C!TypeOK'
  <2>1. textAsked' \in C!Texts \cup {C!None} /\ unread' \in BOOLEAN
    BY <1>1
  <2>2. nextTicket' \in 0 .. IDLE
    BY <1>3, CadenceConstants DEF CadenceInv, C!TypeOK
  <2> QED
    BY <1>1, <1>2, <2>1, <2>2 DEF CadenceInv, C!TypeOK
<1>5. busy = 0
  BY <1>1 DEF CadenceInv, AskedIsSaid
<1>6. ReadInTime'
  BY <1>1, <1>2, CadenceConstants DEF ReadInTime
<1>7. C!TicketsComeInTime'
  <2>1. PICK n \in Nat : nextTicket' = n
    BY <1>3
  <2>2. sinceTicket + nextTicket <= IDLE + MaxRun
    BY DEF CadenceInv, C!TicketsComeInTime
  <2>3. sinceTicket + n <= IDLE + MaxRun
    BY <1>3, <2>1, <2>2, CadenceConstants
  <2> QED
    BY <1>1, <1>3, <2>1, <2>3 DEF C!TicketsComeInTime
<1> QED
  BY <1>1, <1>4, <1>5, <1>6, <1>7 DEF CadenceInv, AskedIsSaid, KeptIsDocument, FreeBeforeDue

LEMMA DeskReads ==
  ASSUME CadenceInv, C!read
  PROVE  CadenceInv'
<1>0. reader = "desk" /\ UNCHANGED <<reader, lag, parameter, nextTicket, busy, sinceTicket, age>>
  BY DEF C!read, C!world, C!timer
<1>1. /\ lag \in 0 .. SLACK /\ poll \in 0 .. POLL /\ age \in Nat /\ busy = 0 /\ nextTicket = FIRST /\ sinceTicket = 0
  BY <1>0, CadenceConstants DEF CadenceInv, C!TypeOK, KeptIsDocument
<1>2. CASE /\ textAsked = C!None /\ poll > 0 /\ demoMode' = C!parseDemoMode(cached)
           /\ UNCHANGED <<cached, poll, unread, textAsked>>
  <2>1. cached \in C!Texts /\ (cached = parameter \/ age + poll <= POLL)
    BY <1>0, <1>2 DEF CadenceInv, C!TypeOK, KeptIsDocument
  <2>2. demoMode' \in {"on", "off"} /\ (Agrees' \/ age + poll <= POLL)
    BY <1>0, <1>1, <1>2, <2>1, ReadAsSaid DEF Agrees
  <2>3. C!TypeOK'
    BY <1>0, <1>2, <2>2 DEF CadenceInv, C!TypeOK
  <2>4. ReadInTime'
    BY <1>0, <1>2, <2>2 DEF ReadInTime
  <2>5. C!TicketsComeInTime'
    BY <1>0, <1>1, CadenceConstants DEF C!TicketsComeInTime, C!Interval
  <2> QED
    BY <1>0, <1>2, <2>3, <2>4, <2>5 DEF CadenceInv, AskedIsSaid, KeptIsDocument, FreeBeforeDue
<1>3. CASE /\ textAsked # C!None /\ cached' = textAsked /\ demoMode' = C!parseDemoMode(textAsked)
           /\ poll' = POLL /\ unread' = FALSE /\ textAsked' = C!None
  <2>1. textAsked \in C!Texts /\ (textAsked = parameter \/ age = 0)
    BY <1>0, <1>3 DEF CadenceInv, C!TypeOK, AskedIsSaid
  <2>2. demoMode' \in {"on", "off"} /\ (Agrees' \/ age' = 0)
    BY <1>0, <1>3, JustRead
  <2>3. C!TypeOK'
    <3>1. cached' \in C!Texts \cup {C!None} /\ textAsked' \in C!Texts \cup {C!None} /\ unread' \in BOOLEAN
      BY <1>3, <2>1
    <3>2. poll' \in 0 .. POLL
      BY <1>3, CadenceConstants
    <3> QED
      BY <1>0, <2>2, <3>1, <3>2 DEF CadenceInv, C!TypeOK
  <2>4. ReadInTime'
    BY <1>0, <1>3, <2>2, CadenceConstants DEF ReadInTime
  <2>5. C!TicketsComeInTime'
    BY <1>0, <1>1, CadenceConstants DEF C!TicketsComeInTime, C!Interval
  <2>6. KeptIsDocument'
    BY <1>0, <1>1, <1>3, <2>1, CadenceConstants DEF KeptIsDocument
  <2> QED
    BY <1>0, <1>3, <2>3, <2>4, <2>5, <2>6 DEF CadenceInv, AskedIsSaid, FreeBeforeDue
<1> QED
  BY <1>2, <1>3 DEF C!read

LEMMA ReadingFails ==
  ASSUME CadenceInv, C!readDemoModeFails \/ C!readFails
  PROVE  CadenceInv'
<1>1. CASE C!readDemoModeFails
  <2>1. /\ textAsked' = C!None /\ unread' = TRUE /\ poll' \in 0 .. POLL /\ reader # "desk"
        /\ UNCHANGED <<reader, lag, parameter, demoMode, cached, nextTicket, busy, sinceTicket, age>>
    BY <1>1, CadenceConstants DEF C!readDemoModeFails, C!world, C!timer
  <2>2. C!TypeOK'
    BY <2>1 DEF CadenceInv, C!TypeOK
  <2> QED
    BY <2>1, <2>2 DEF CadenceInv, AskedIsSaid, KeptIsDocument, FreeBeforeDue, ReadInTime, C!TicketsComeInTime, C!Interval
<1>2. CASE C!readFails
  <2>1. /\ textAsked' = C!None /\ unread' = TRUE /\ demoMode' = "off" /\ reader = "desk"
        /\ UNCHANGED <<reader, lag, parameter, cached, poll, nextTicket, busy, sinceTicket, age>>
    BY <1>2 DEF C!readFails, C!world, C!timer
  <2>2. C!TypeOK'
    BY <2>1 DEF CadenceInv, C!TypeOK
  <2>3. C!TicketsComeInTime'
    BY <2>1, CadenceConstants DEF CadenceInv, KeptIsDocument, C!TicketsComeInTime, C!Interval
  <2> QED
    BY <2>1, <2>2, <2>3 DEF CadenceInv, AskedIsSaid, KeptIsDocument, FreeBeforeDue, ReadInTime
<1> QED
  BY <1>1, <1>2

LEMMA DueKeeps ==
  ASSUME CadenceInv, C!due
  PROVE  CadenceInv'
<1>1. /\ reader # "desk" /\ nextTicket = 0 /\ busy = 0 /\ (reader = "python" => textAsked = C!None)
      /\ nextTicket' = C!Interval(demoMode) /\ sinceTicket' = 0 /\ busy' \in 0 .. MaxRun
      /\ busy' > 0 => reader = "python"
      /\ UNCHANGED <<reader, lag, parameter, demoMode, cached, textAsked, poll, unread, age>>
  BY CadenceConstants DEF C!due, C!world, C!reading
<1>2. C!Interval(demoMode) \in DEMO .. IDLE /\ C!Interval(demoMode) \in Nat
  BY CadenceConstants DEF C!Interval
<1>3. C!TypeOK'
  BY <1>1, <1>2, CadenceConstants DEF CadenceInv, C!TypeOK
<1>4. FreeBeforeDue' /\ C!TicketsComeInTime'
  <2>1. PICK b \in 0 .. MaxRun, n \in DEMO .. IDLE : busy' = b /\ nextTicket' = n
    BY <1>1, <1>2
  <2>2. n > b /\ 0 + b <= MaxRun /\ 0 + n <= IDLE + MaxRun
    BY <2>1, CadenceConstants
  <2>3. nextTicket' <= C!Interval(demoMode')
    BY <1>1, <1>2
  <2> QED
    BY <1>1, <2>1, <2>2, <2>3 DEF FreeBeforeDue, C!TicketsComeInTime
<1>5. AskedIsSaid' /\ KeptIsDocument'
  BY <1>1, CadenceConstants DEF CadenceInv, AskedIsSaid, KeptIsDocument
<1>6. ReadInTime'
  BY <1>1, CadenceConstants DEF CadenceInv, ReadInTime, Agrees
<1> QED
  BY <1>3, <1>4, <1>5, <1>6 DEF CadenceInv

LEMMA RestartKeeps ==
  ASSUME CadenceInv, C!Restart
  PROVE  CadenceInv'
<1>1. /\ demoMode' = "off" /\ cached' = C!None /\ textAsked' = C!None /\ poll' = 0 /\ unread' = TRUE
      /\ nextTicket' = FIRST /\ busy' = 0 /\ sinceTicket' = 0 /\ UNCHANGED <<reader, lag, parameter, age>>
  BY DEF C!Restart, C!world
<1>2. C!TypeOK'
  BY <1>1, CadenceConstants DEF CadenceInv, C!TypeOK
<1>3. C!TicketsComeInTime'
  BY <1>1, CadenceConstants DEF C!TicketsComeInTime, C!Interval
<1> QED
  BY <1>1, <1>2, <1>3 DEF CadenceInv, AskedIsSaid, KeptIsDocument, FreeBeforeDue, ReadInTime

\* Time.
LEMMA TickKeeps ==
  ASSUME CadenceInv, C!Tick
  PROVE  CadenceInv'
<1>1. /\ textAsked = C!None
      /\ busy > 0 \/ (poll > 0 /\ (reader = "desk" \/ nextTicket > 0))
      /\ parameter' = C!Shorter(parameter) /\ cached' = IF cached = C!None THEN C!None ELSE C!Shorter(cached)
      /\ age' = IF C!Says(parameter') # C!Says(parameter) THEN 0 ELSE IF age > C!Late THEN age ELSE age + 1
      /\ poll' = C!Less(poll) /\ busy' = C!Less(busy)
      /\ reader = "desk" => UNCHANGED <<nextTicket, sinceTicket>>
      /\ reader # "desk" => nextTicket' = C!Less(nextTicket) /\ sinceTicket' = sinceTicket + 1
      /\ UNCHANGED <<reader, lag, demoMode, textAsked, unread>>
  BY DEF C!Tick, C!world
<1>2. /\ poll \in 0 .. POLL /\ busy \in 0 .. MaxRun /\ nextTicket \in 0 .. IDLE /\ sinceTicket \in Nat
      /\ age \in 0 .. C!Late + 1 /\ parameter \in C!Texts /\ cached \in C!Texts \cup {C!None}
  BY CadenceConstants DEF CadenceInv, C!TypeOK
<1>3. /\ poll' \in 0 .. POLL /\ busy' \in 0 .. MaxRun /\ age' \in 0 .. C!Late + 1
      /\ parameter' \in C!Texts /\ cached' \in C!Texts \cup {C!None}
  BY <1>1, <1>2, TextsAre, CadenceConstants DEF C!Less
<1>4. /\ nextTicket' \in 0 .. IDLE /\ sinceTicket' \in Nat /\ C!TicketsComeInTime'
  <2>1. C!Interval(demoMode) \in Nat
    BY CadenceConstants DEF C!Interval
  <2>2. CASE reader = "desk"
    BY <1>1, <1>2, <2>2 DEF CadenceInv, C!TicketsComeInTime, C!Interval
  <2>3. CASE reader # "desk"
    <3>1. nextTicket > 0 \/ (nextTicket = 0 /\ busy > 0)
      BY <1>1, <1>2, <2>3
    <3>2. sinceTicket' + nextTicket' <= IDLE + MaxRun
      BY <1>1, <1>2, <2>3, <3>1, CadenceConstants DEF CadenceInv, C!TicketsComeInTime, C!Interval, FreeBeforeDue, C!Less
    <3> QED
      BY <1>1, <1>2, <2>1, <2>3, <3>2, CadenceConstants DEF CadenceInv, C!TicketsComeInTime, C!Interval, C!Less
  <2> QED
    BY <2>2, <2>3
<1>5. C!TypeOK'
  <2>1. sinceTicket' \in 0 .. IDLE + MaxRun
    <3>1. PICK n \in Nat, t \in Nat : nextTicket' = n /\ sinceTicket' = t
      BY <1>4, CadenceConstants
    <3>2. t + n <= IDLE + MaxRun
      BY <1>4, <3>1 DEF C!TicketsComeInTime
    <3> QED
      BY <3>1, <3>2, CadenceConstants
  <2> QED
    BY <1>1, <1>3, <1>4, <2>1 DEF CadenceInv, C!TypeOK
<1>6. AskedIsSaid'
  BY <1>1 DEF AskedIsSaid
<1>7. KeptIsDocument'
  <2> SUFFICES ASSUME reader = "desk"
               PROVE  /\ nextTicket' = FIRST /\ sinceTicket' = 0 /\ busy' = 0
                      /\ poll' > 0 => cached' # C!None
                      /\ cached' # C!None => cached' = parameter' \/ age' + poll' <= POLL
    BY <1>1 DEF KeptIsDocument
  <2>1. nextTicket = FIRST /\ sinceTicket = 0 /\ busy = 0 /\ poll > 0 /\ cached # C!None
    BY <1>1, <1>2 DEF CadenceInv, KeptIsDocument
  <2>2. cached' # C!None
    BY <1>1, <1>2, <2>1, TextsAre
  <2>3. poll' = poll - 1 /\ busy' = 0 /\ (age' = 0 \/ age' <= age + 1)
    BY <1>1, <1>2, <2>1, CadenceConstants DEF C!Less
  <2>4. cached = parameter \/ age + poll <= POLL
    BY <2>1 DEF CadenceInv, KeptIsDocument
  <2>5. CASE cached = parameter
    BY <1>1, <2>1, <2>2, <2>3, <2>5
  <2>6. CASE age + poll <= POLL
    BY <1>1, <1>2, <1>3, <2>1, <2>2, <2>3, <2>6, CadenceConstants
  <2> QED
    BY <2>4, <2>5, <2>6
<1>8. FreeBeforeDue'
  BY <1>1, <1>2, CadenceConstants DEF CadenceInv, FreeBeforeDue, C!Less
<1>9. ReadInTime'
  <2>1. CASE age' = 0
    <3>1. PICK p \in Nat : poll' = p /\ 0 + p <= POLL
      BY <1>3, CadenceConstants
    <3> QED
      BY <2>1, <3>1 DEF ReadInTime
  <2>2. CASE unread' \/ Agrees'
    BY <2>2 DEF ReadInTime
  <2>3. CASE age' # 0 /\ ~ unread' /\ ~ Agrees'
    <3>1. PICK a \in Nat, p \in Nat : age' = a /\ poll' = p
      BY <1>3, CadenceConstants
    <3>2. C!Says(parameter') = C!Says(parameter) /\ a <= age + 1
      BY <1>1, <1>2, <2>3, <3>1, CadenceConstants
    <3>3. \/ age + poll <= POLL
          \/ poll = 0 /\ nextTicket > busy /\ age + busy <= POLL + MaxRun
      BY <1>1, <2>3, <3>2 DEF CadenceInv, ReadInTime, Agrees
    <3>4. CASE poll > 0
      <4>1. p = poll - 1
        BY <1>1, <1>2, <3>1, <3>4 DEF C!Less
      <4>2. a + p <= POLL
        BY <1>2, <3>2, <3>3, <3>4, <4>1, CadenceConstants
      <4> QED
        BY <3>1, <4>2 DEF ReadInTime
    <3>5. CASE poll = 0
      <4>1. busy > 0 /\ reader = "python" /\ nextTicket > busy
        BY <1>1, <1>2, <3>5 DEF CadenceInv, FreeBeforeDue
      <4>2. p = 0 /\ busy' = busy - 1 /\ nextTicket' = nextTicket - 1
        BY <1>1, <1>2, <3>1, <3>5, <4>1 DEF C!Less
      <4>3. a + (busy - 1) <= POLL + MaxRun /\ nextTicket - 1 > busy - 1
        BY <1>2, <3>2, <3>3, <3>5, <4>1, CadenceConstants
      <4> QED
        BY <3>1, <4>2, <4>3 DEF ReadInTime
    <3> QED
      BY <1>2, <3>4, <3>5
  <2> QED
    BY <2>1, <2>2, <2>3
<1> QED
  BY <1>4, <1>5, <1>6, <1>7, <1>8, <1>9 DEF CadenceInv

LEMMA CadenceKeeps ==
  ASSUME CadenceInv, [C!Next]_(C!vars)
  PROVE  CadenceInv'
<1>1. CASE UNCHANGED C!vars
  <2>1. UNCHANGED <<reader, lag, parameter, demoMode, cached, textAsked, poll, nextTicket, busy, sinceTicket,
                    age, unread>>
    BY <1>1 DEF C!vars, C!world, C!timer, C!reading
  <2> QED
    BY <2>1
    DEF CadenceInv, C!TypeOK, AskedIsSaid, KeptIsDocument, FreeBeforeDue, ReadInTime, Agrees, C!TicketsComeInTime, C!Interval
<1> QED
  BY <1>1, DocumentKeeps, AskingKeeps, WorkerReads, DeskReads, ReadingFails, DueKeeps, RestartKeeps, TickKeeps
  DEF C!Next

-----------------------------------------------------------------------------
(* The walk.                                                               *)
script == s1
step == s2
shown == s3
waiting == s4
lineOf == s5
notes == s6
typed == s10
USE DEF script, step, shown, waiting, lineOf, notes, typed

\* An alone text is a note, or an answer at the key, or it is the line that is looked at
\* next, and the script is where the text was entered.
UnderItsStep ==
  \A t \in typed : t.alone =>
    \/ [text |-> t.text, step |-> t.step] \in notes
    \/ t.step = "slot-key"
    \/ lineOf = t.text /\ t.step = L!Name

\* The script stays at a prompt until its line came and was looked at.
PromptStays ==
  /\ waiting => shown /\ (L!Is("act") \/ L!Is("key"))
  /\ lineOf # L!None => waiting

WalkInv ==
  /\ script \in {L!setup(TRUE), L!setup(FALSE), L!run}
  /\ step \in Nat \ {0} /\ lineOf \in L!Lines \cup {L!None}
  /\ \A t \in typed : t.text # L!Blank /\ t.text # L!None
  /\ PromptStays
  /\ UnderItsStep

\* The one step that asks for a key is "slot-key".
LEMMA OneKey ==
  ASSUME NEW s \in {L!setup(TRUE), L!setup(FALSE), L!run}, NEW i \in Nat,
         i \in 1 .. Len(s), s[i].kind = "key"
  PROVE  s[i].name = "slot-key"
<1>1. CASE s = L!run
  <2>1. Len(s) = 7
    BY <1>1 DEF L!run
  <2>2. i \in {1, 2, 3, 4, 5, 6, 7}
    BY <2>1
  <2>3. /\ s[1] = L!Work("own-prompt") /\ s[2] = L!Watch("promote-v1")
        /\ s[3] = [name |-> "slot-key", kind |-> "key"]
        /\ s[4] = L!Work("run-v1") /\ s[5] = L!Watch("ramp-v2") /\ s[6] = L!Work("traffic")
        /\ s[7] = L!Act("board")
    BY <1>1 DEF L!run
  <2> QED BY <2>2, <2>3 DEF L!Work, L!Watch, L!Act
<1>2. CASE s = L!setup(TRUE)
  <2>1. s = <<L!Act("prompt-v1"), L!Act("provider-key")>>
    BY <1>2 DEF L!setup
  <2>2. i \in {1, 2}
    BY <2>1
  <2> QED BY <2>1, <2>2 DEF L!Act
<1>3. CASE s = L!setup(FALSE)
  <2>1. s = <<L!Act("sign-up"), L!Act("workspace"), L!Act("prompt-v1"), L!Act("agent"), L!Act("key"),
              L!Act("env"), L!Act("provider-key")>>
    BY <1>3 DEF L!setup
  <2>2. i \in {1, 2, 3, 4, 5, 6, 7}
    BY <2>1
  <2> QED BY <2>1, <2>2 DEF L!Act
<1> QED BY <1>1, <1>2, <1>3

LEMMA WalkConstants == MaxTexts \in Nat /\ MaxChunk \in Nat \ {0}
BY ConstantsAssumption DEF L!WalkAssumption

LEMMA WalkStarts == ASSUME L!Init PROVE WalkInv
<1>1. step = 1 /\ script \in {L!setup(TRUE), L!setup(FALSE), L!run} /\ waiting = FALSE /\ lineOf = L!None /\ typed = {}
  BY DEF L!Init
<1>2. step \in Nat \ {0} /\ lineOf \in L!Lines \cup {L!None}
  BY <1>1
<1>3. PromptStays /\ UnderItsStep
  BY <1>1 DEF PromptStays, UnderItsStep
<1> QED BY <1>1, <1>2, <1>3 DEF WalkInv

LEMMA WalkTells == WalkInv => L!EnteredIsKept
BY DEF WalkInv, UnderItsStep, L!EnteredIsKept, L!Kept

LEMMA WalkKeeps == ASSUME WalkInv, [L!Next]_(L!vars) PROVE WalkInv'
<1> USE WalkConstants
<1>1. ASSUME L!act PROVE WalkInv'
  <2>1. /\ UNCHANGED <<script, step, lineOf, notes, typed>> /\ shown' = TRUE /\ waiting' = TRUE
        /\ L!Is("act") \/ L!Is("key")
    BY <1>1 DEF L!act
  <2>2. L!Name' = L!Name /\ L!None' = L!None /\ L!Lines' = L!Lines
    BY <2>1 DEF L!Name, L!None, L!Lines
  <2>3. L!Is("act")' = L!Is("act") /\ L!Is("key")' = L!Is("key")
    BY <2>1 DEF L!Is, L!Over
  <2>4. PromptStays'
    BY <2>1, <2>2, <2>3 DEF PromptStays
  <2>5. UnderItsStep'
    BY <2>1, <2>2 DEF WalkInv, UnderItsStep
  <2> QED BY <2>1, <2>2, <2>4, <2>5 DEF WalkInv
<1>2. ASSUME L!answered PROVE WalkInv'
  <2>1. /\ lineOf # L!None /\ lineOf' = L!None /\ UNCHANGED <<script, typed>>
    BY <1>2 DEF L!answered
  <2>2. waiting /\ shown /\ (L!Is("act") \/ L!Is("key"))
    BY <2>1 DEF WalkInv, PromptStays
  <2>3. CASE lineOf = L!Blank \/ L!Is("key")
    <3>1. step' = step + 1 /\ waiting' = FALSE /\ notes' = notes
      BY <1>2, <2>3 DEF L!answered, L!done, L!Done
    <3>2. PromptStays'
      BY <2>1, <3>1 DEF PromptStays, L!None
    <3>3. ASSUME NEW t \in typed, t.alone
          PROVE  [text |-> t.text, step |-> t.step] \in notes \/ t.step = "slot-key"
      <4>1. CASE lineOf = t.text /\ t.step = L!Name
        <5>1. L!Is("key")
          BY <4>1, <2>3 DEF WalkInv
        <5>2. step \in 1 .. Len(script) /\ script[step].kind = "key"
          <6>1. ~ (step > Len(script)) /\ script[step].kind = "key"
            BY <5>1 DEF L!Is, L!Over
          <6>2. step \in Nat /\ step # 0 /\ Len(script) \in Nat
            <7>1. Len(L!setup(TRUE)) = 2 /\ Len(L!setup(FALSE)) = 7 /\ Len(L!run) = 7
              BY DEF L!setup, L!run
            <7> QED BY <7>1 DEF WalkInv
          <6> QED BY <6>1, <6>2
        <5>3. script[step].name = "slot-key"
          BY <5>2, OneKey DEF WalkInv
        <5> QED BY <4>1, <5>3 DEF L!Name
      <4> QED BY <3>3, <4>1 DEF WalkInv, UnderItsStep
    <3>4. UnderItsStep'
      BY <2>1, <3>1, <3>3 DEF UnderItsStep
    <3>5. step' \in Nat \ {0} /\ L!None' = L!None /\ L!Lines' = L!Lines
      BY <3>1 DEF WalkInv, L!None, L!Lines
    <3> QED BY <2>1, <3>1, <3>2, <3>4, <3>5 DEF WalkInv
  <2>4. CASE ~ (lineOf = L!Blank \/ L!Is("key"))
    <3>1. notes' = notes \cup {[text |-> lineOf, step |-> L!Name]} /\ UNCHANGED <<step, shown, waiting>>
      BY <1>2, <2>4 DEF L!answered
    <3>2. L!Is("act")' = L!Is("act") /\ L!Is("key")' = L!Is("key") /\ L!None' = L!None
      BY <2>1, <3>1 DEF L!Is, L!Over, L!None
    <3>3. PromptStays'
      BY <2>1, <2>2, <3>1, <3>2 DEF PromptStays
    <3>4. UnderItsStep'
      BY <2>1, <3>1 DEF WalkInv, UnderItsStep
    <3> QED BY <2>1, <3>1, <3>2, <3>3, <3>4 DEF WalkInv, L!Lines
  <2> QED BY <2>3, <2>4
<1>3. ASSUME L!watch \/ L!seen \/ L!ask PROVE WalkInv'
  <2>1. /\ UNCHANGED <<script, waiting, lineOf, notes, typed>> /\ step' \in {step, step + 1}
        /\ L!Is("watch") \/ L!Is("work")
    BY <1>3 DEF L!watch, L!seen, L!ask, L!Done, L!terminal
  <2>2. ~ waiting /\ lineOf = L!None
    BY <2>1 DEF WalkInv, PromptStays, L!Is
  <2>3. L!None' = L!None /\ L!Lines' = L!Lines
    BY DEF L!None, L!Lines
  <2>4. PromptStays'
    BY <2>1, <2>2, <2>3 DEF PromptStays
  <2>5. UnderItsStep'
    BY <2>1, <2>2 DEF WalkInv, UnderItsStep
  <2>6. step' \in Nat \ {0}
    BY <2>1 DEF WalkInv
  <2> QED BY <2>1, <2>3, <2>4, <2>5, <2>6 DEF WalkInv
<1>4. ASSUME L!Type PROVE WalkInv'
  <2>0. PICK n \in 1 .. MaxChunk : \E chunk \in [1 .. n -> L!Lines] :
          /\ L!lines(chunk)
          /\ typed' = typed \cup [text : {chunk[i] : i \in 1 .. n} \ {L!Blank}, step : {L!Name}, alone : {n = 1}]
    BY <1>4 DEF L!Type
  <2>1. PICK chunk \in [1 .. n -> L!Lines] :
          /\ L!lines(chunk)
          /\ typed' = typed \cup [text : {chunk[i] : i \in 1 .. n} \ {L!Blank}, step : {L!Name}, alone : {n = 1}]
    BY <2>0
  <2>2. lineOf = L!None /\ UNCHANGED <<script, step, shown, waiting>>
    BY <1>4 DEF L!Type
  <2>3. L!Name' = L!Name /\ L!None' = L!None /\ L!Is("act")' = L!Is("act") /\ L!Is("key")' = L!Is("key")
    BY <2>2 DEF L!Name, L!None, L!Is, L!Over
  <2>4. n \in Nat /\ n # 0 /\ DOMAIN chunk = 1 .. n /\ chunk[1] \in L!Lines
    BY <2>1
  <2>5. lineOf' \in L!Lines \cup {L!None} /\ (lineOf' # L!None => waiting)
    BY <2>1, <2>2, <2>4 DEF L!lines
  <2>6. ASSUME NEW t \in typed' PROVE t.text # L!Blank /\ t.text # L!None
    <3>1. \A i \in 1 .. n : chunk[i] \in L!Lines /\ chunk[i] # L!None
      BY <2>1 DEF L!Lines, L!None
    <3> QED BY <2>1, <2>6, <3>1 DEF WalkInv
  <2>7. PromptStays'
    BY <2>2, <2>3, <2>5 DEF WalkInv, PromptStays
  <2>8. ASSUME NEW t \in typed', t.alone
        PROVE  \/ [text |-> t.text, step |-> t.step] \in notes'
               \/ t.step = "slot-key"
               \/ lineOf' = t.text /\ t.step = L!Name
    <3>1. CASE t \in typed
      <4>1. t.text # lineOf
        BY <2>2, <3>1 DEF WalkInv
      <4>2. notes \subseteq notes'
        BY <2>1 DEF L!lines
      <4> QED BY <2>8, <3>1, <4>1, <4>2 DEF WalkInv, UnderItsStep
    <3>2. CASE t \notin typed
      <4>1. /\ t \in [text : {chunk[i] : i \in 1 .. n} \ {L!Blank}, step : {L!Name}, alone : {n = 1}]
        BY <2>1, <3>2
      <4>2. t.step = L!Name /\ (t.alone <=> n = 1) /\ t.text \in {chunk[i] : i \in 1 .. n} /\ t.text # L!Blank
        BY <4>1
      <4>3. n = 1 /\ t.text = chunk[1]
        BY <2>8, <4>2
      <4>4. CASE waiting
        BY <2>1, <4>2, <4>3, <4>4 DEF L!lines
      <4>5. CASE ~ waiting
        BY <2>1, <2>4, <4>2, <4>3, <4>5 DEF L!lines
      <4> QED BY <4>4, <4>5
    <3> QED BY <3>1, <3>2
  <2>9. UnderItsStep'
    BY <2>3, <2>8 DEF UnderItsStep
  <2> QED BY <2>2, <2>3, <2>5, <2>6, <2>7, <2>9 DEF WalkInv, L!Lines
<1>5. ASSUME L!Promote \/ L!syncNow \/ UNCHANGED L!vars PROVE WalkInv'
  <2>1. UNCHANGED <<script, step, shown, waiting, lineOf, notes, typed>>
    BY <1>5 DEF L!Promote, L!syncNow, L!vars, L!terminal
  <2> QED BY <2>1 DEF WalkInv, PromptStays, UnderItsStep, L!Is, L!Over, L!Name, L!None, L!Lines
<1> QED BY <1>1, <1>2, <1>3, <1>4, <1>5 DEF L!Next

-----------------------------------------------------------------------------
(* The stacks.                                                             *)
stacks == s1
ci == s2
command == s3
toDo == s4
host == s7
sealKey == s8
USE DEF stacks, ci, command, toDo, host, sealKey

\* Nothing is there without what it needs.
Whole == \A s \in stacks : S!needs[s] \subseteq stacks

\* A deployment has what it has passed; a command of the owner's, the fleet.
Deployed ==
  /\ ci # {} => S!fromMain \ ci \subseteq stacks
  /\ command \in {"up", "down"} => "Fleet" \in stacks

\* A teardown has still to delete just what is there, with no deployment beside it.
TeardownGoesOn == command = "teardown" => ci = {} /\ toDo = stacks

\* A host is one of its stack; and a `down` has the stack still to delete, if it is there,
\* and after it the key.
DownGoesOn ==
  /\ host => "Airgap" \in stacks
  /\ command = "down" => toDo \subseteq {"Airgap", "key"} /\ ("Airgap" \in stacks => "Airgap" \in toDo)
  /\ command = "down" /\ "key" \notin toDo => toDo = {} /\ sealKey = "none"

StacksInv ==
  /\ stacks \subseteq S!Ids /\ ci \subseteq S!fromMain
  /\ Whole /\ Deployed /\ TeardownGoesOn /\ DownGoesOn

\* What goes first is not what the other needs.
LEMMA OrderOfDeletion ==
  ASSUME NEW x \in S!Ids, NEW y \in S!Ids, S!Before(x, y)
  PROVE  x \notin S!needs[y]
<1>1. PICK i, j \in DOMAIN S!TEARDOWN_ORDER : i < j /\ x = S!TEARDOWN_ORDER[i] /\ y = S!TEARDOWN_ORDER[j]
  BY DEF S!Before, S!Ids
<1>2. i \in 1 .. 7 /\ j \in 1 .. 7
  BY <1>1 DEF S!TEARDOWN_ORDER
<1>3. /\ S!TEARDOWN_ORDER[1] = "Airgap" /\ S!TEARDOWN_ORDER[2] = "Desk" /\ S!TEARDOWN_ORDER[3] = "Fleet"
      /\ S!TEARDOWN_ORDER[4] = "SharedHost" /\ S!TEARDOWN_ORDER[5] = "Site" /\ S!TEARDOWN_ORDER[6] = "Dns"
      /\ S!TEARDOWN_ORDER[7] = "Ci"
  BY DEF S!TEARDOWN_ORDER
<1>4. /\ S!needs["Ci"] = {} /\ S!needs["Dns"] = {} /\ S!needs["Site"] = {"Dns"}
      /\ S!needs["SharedHost"] = {} /\ S!needs["Fleet"] = {}
      /\ S!needs["Desk"] = {"Site", "Dns", "SharedHost", "Fleet"} /\ S!needs["Airgap"] = {"Fleet"}
  BY DEF S!needs
<1>5. i \in {1, 2, 3, 4, 5, 6, 7} /\ j \in {1, 2, 3, 4, 5, 6, 7}
  BY <1>2
<1>6. CASE j \in {1, 2, 5}
  <2> QED BY <1>1, <1>3, <1>4, <1>5, <1>6
<1>7. CASE j \in {3, 4, 6, 7}
  <2>1. S!needs[y] = {}
    BY <1>1, <1>3, <1>4, <1>7
  <2> QED BY <2>1
<1> QED BY <1>5, <1>6, <1>7

\* What a stack that CI deploys needs, CI deploys; and the air-gapped host's needs the fleet.
LEMMA NeedsOf ==
  /\ \A s \in S!fromMain : S!needs[s] \subseteq S!fromMain
  /\ S!needs["Airgap"] = {"Fleet"}
  /\ \A s \in S!Ids : "Airgap" \notin S!needs[s]
BY DEF S!needs, S!fromMain, S!Ids

LEMMA StacksStart == ASSUME S!Init PROVE StacksInv
BY DEF S!Init, StacksInv, Whole, Deployed, TeardownGoesOn, DownGoesOn, S!Ids, S!needs

LEMMA StacksTell == StacksInv => S!NothingOrphaned
<1> SUFFICES ASSUME StacksInv PROVE S!NothingOrphaned
  OBVIOUS
<1>1. ASSUME command = "down", toDo = {} PROVE sealKey = "none" /\ ~ host
  BY <1>1 DEF StacksInv, DownGoesOn
<1> QED BY <1>1 DEF StacksInv, Whole, S!NothingOrphaned

LEMMA StacksKeep == ASSUME StacksInv, [S!Next]_(S!vars) PROVE StacksInv'
<1>1. ASSUME S!Push PROVE StacksInv'
  <2>1. ci' = S!fromMain /\ command # "teardown" /\ UNCHANGED <<stacks, command, toDo, host, sealKey>>
    BY <1>1 DEF S!Push
  <2> QED BY <2>1 DEF StacksInv, Whole, Deployed, TeardownGoesOn, DownGoesOn, S!fromMain
<1>2. ASSUME NEW s \in S!fromMain, S!deploy(s) PROVE StacksInv'
  <2>1. /\ s \in ci /\ S!needs[s] \cap ci = {} /\ ci' = ci \ {s} /\ stacks' = stacks \cup {s}
        /\ UNCHANGED <<command, toDo, host, sealKey>>
    BY <1>2 DEF S!deploy
  <2>2. S!fromMain \ ci \subseteq stacks /\ command # "teardown"
    BY <2>1 DEF StacksInv, Deployed, TeardownGoesOn
  <2>3. S!needs[s] \subseteq stacks
    BY <2>1, <2>2, NeedsOf
  <2>4. Whole'
    BY <2>1, <2>3 DEF StacksInv, Whole
  <2>5. Deployed' /\ TeardownGoesOn'
    BY <2>1, <2>2 DEF StacksInv, Deployed, TeardownGoesOn
  <2>6. DownGoesOn'
    BY <2>1 DEF StacksInv, DownGoesOn, S!fromMain
  <2> QED BY <2>1, <2>4, <2>5, <2>6 DEF StacksInv, S!fromMain, S!Ids
<1>3. ASSUME S!Fail PROVE StacksInv'
  <2>1. ci' = {} /\ UNCHANGED <<stacks, command, toDo, host, sealKey>>
    BY <1>3 DEF S!Fail
  <2> QED BY <2>1 DEF StacksInv, Whole, Deployed, TeardownGoesOn, DownGoesOn
<1>4. ASSUME S!give PROVE StacksInv'
  <2>1. UNCHANGED <<stacks, ci, host, sealKey>>
    BY <1>4 DEF S!give
  <2>2. \/ command' = "up" /\ "Fleet" \in stacks
        \/ command' = "down" /\ "Fleet" \in stacks /\ toDo' = (stacks \cap {"Airgap"}) \cup {"key"}
        \/ command' = "teardown" /\ ci = {} /\ toDo' = stacks
    BY <1>4 DEF S!give
  <2>3. Whole' /\ Deployed'
    BY <2>1, <2>2 DEF StacksInv, Whole, Deployed
  <2>4. TeardownGoesOn' /\ DownGoesOn'
    BY <2>1, <2>2 DEF StacksInv, TeardownGoesOn, DownGoesOn
  <2> QED BY <2>1, <2>3, <2>4 DEF StacksInv
<1>5. ASSUME S!staged PROVE StacksInv'
  <2>1. command = "up" /\ UNCHANGED <<stacks, ci, command, host, sealKey>>
    BY <1>5 DEF S!staged
  <2> QED BY <2>1 DEF StacksInv, Whole, Deployed, TeardownGoesOn, DownGoesOn
<1>6. ASSUME S!up PROVE StacksInv'
  <2>1. command = "up" /\ stacks' = stacks \cup {"Airgap"} /\ UNCHANGED <<ci, command, host, sealKey>>
    BY <1>6 DEF S!up
  <2>2. "Fleet" \in stacks
    BY <2>1 DEF StacksInv, Deployed
  <2>3. Whole'
    BY <2>1, <2>2, NeedsOf DEF StacksInv, Whole
  <2> QED BY <2>1, <2>3 DEF StacksInv, Deployed, TeardownGoesOn, DownGoesOn, S!Ids
<1>7. ASSUME S!down PROVE StacksInv'
  <2>1. command = "down" /\ command' = "down" /\ ci' = ci
    BY <1>7 DEF S!down
  <2>2. CASE S!next("Airgap") /\ S!delete("Airgap")
    <3>1. /\ stacks' = stacks \ {"Airgap"} /\ host' = FALSE /\ toDo' = toDo \ {"Airgap"} /\ "Airgap" \in toDo
      BY <2>2 DEF S!delete, S!next
    <3>2. Whole'
      BY <3>1, NeedsOf DEF StacksInv, Whole
    <3>3. Deployed' /\ TeardownGoesOn'
      BY <2>1, <3>1 DEF StacksInv, Deployed, TeardownGoesOn, S!fromMain
    <3>4. DownGoesOn'
      BY <2>1, <3>1 DEF StacksInv, DownGoesOn
    <3> QED BY <2>1, <3>1, <3>2, <3>3, <3>4 DEF StacksInv
  <2>3. CASE S!next("key") /\ UNCHANGED <<stacks, host>> /\ sealKey' = "none"
    <3>1. toDo' = toDo \ {"key"} /\ (\A y \in toDo \ {"key"} : S!Before("key", y))
      BY <2>3 DEF S!next
    <3>2. toDo' = {}
      <4>1. ~ S!Before("key", "Airgap")
        BY DEF S!Before, S!TEARDOWN_ORDER
      <4> QED BY <2>1, <3>1, <4>1 DEF StacksInv, DownGoesOn
    <3>3. Whole' /\ Deployed' /\ TeardownGoesOn'
      BY <2>1, <2>3, <3>2 DEF StacksInv, Whole, Deployed, TeardownGoesOn
    <3>4. DownGoesOn'
      BY <2>1, <2>3, <3>1, <3>2 DEF StacksInv, DownGoesOn
    <3> QED BY <2>1, <2>3, <3>3, <3>4 DEF StacksInv
  <2> QED BY <1>7, <2>2, <2>3 DEF S!down
<1>8. ASSUME S!teardown PROVE StacksInv'
  <2>1. PICK s \in S!Ids : S!next(s) /\ S!delete(s)
    BY <1>8 DEF S!teardown
  <2>2. command = "teardown" /\ UNCHANGED <<ci, command>>
    BY <1>8 DEF S!teardown
  <2>3. /\ stacks' = stacks \ {s} /\ toDo' = toDo \ {s} /\ (\A y \in toDo \ {s} : S!Before(s, y))
        /\ ci = {} /\ toDo = stacks /\ (host' => host /\ s # "Airgap")
    BY <2>1, <2>2 DEF S!next, S!delete, StacksInv, TeardownGoesOn
  <2>4. Whole'
    BY <2>3, OrderOfDeletion DEF StacksInv, Whole
  <2>5. DownGoesOn'
    BY <2>2, <2>3 DEF StacksInv, DownGoesOn
  <2> QED BY <2>2, <2>3, <2>4, <2>5 DEF StacksInv, Deployed, TeardownGoesOn
<1>9. ASSUME S!done \/ S!Interrupt PROVE StacksInv'
  <2>1. command' = "none" /\ UNCHANGED <<stacks, ci, host, sealKey>>
    BY <1>9 DEF S!done, S!Interrupt
  <2> QED BY <2>1 DEF StacksInv, Whole, Deployed, TeardownGoesOn, DownGoesOn
<1>10. ASSUME S!Boot PROVE StacksInv'
  <2>1. "Airgap" \in stacks /\ UNCHANGED <<stacks, ci, command, toDo>>
    BY <1>10 DEF S!Boot
  <2> QED BY <2>1 DEF StacksInv, Whole, Deployed, TeardownGoesOn, DownGoesOn
<1>11. CASE UNCHANGED S!vars
  <2>1. UNCHANGED <<stacks, ci, command, toDo, host, sealKey>>
    BY <1>11 DEF S!vars
  <2> QED BY <2>1 DEF StacksInv, Whole, Deployed, TeardownGoesOn, DownGoesOn
<1> QED BY <1>1, <1>2, <1>3, <1>4, <1>5, <1>6, <1>7, <1>8, <1>9, <1>10, <1>11 DEF S!Next

-----------------------------------------------------------------------------
(* Reset.                                                                  *)

published == s1
pointer == s2
fleetRow == s3
freshRow == s4
resetMode == s5
resetPc == s6
startedFrom == s7
promotedTo == s8
euWest == s9
target == s10
resetWire == s11
queuedAt == s12
doneAt == s13
edge == s14
over == s15
named == s16
resetFaults == s17

USE DEF published, pointer, fleetRow, freshRow, resetMode, resetPc, startedFrom, promotedTo, euWest, target,
        resetWire, queuedAt, doneAt, edge, over, named, resetFaults

LEMMA ResetConstants ==
  "east" \in ResetHosts /\ MaxGeneration \in Nat /\ MaxGeneration >= 1
BY ConstantsAssumption DEF R!ResetAssumption, R!FleetAssumption

Read == 0 .. MaxGeneration

\* What the rows and what the script holds of them are; the timeline is not among it.
ResetTypes ==
  /\ published \in 1 .. MaxGeneration /\ pointer \in 1 .. published
  /\ fleetRow \in [ResetHosts -> 1 .. published]
  /\ startedFrom \in Read /\ promotedTo \in Read /\ target \in Read /\ named \in Read

\* What came is past where the script started, or it did not come.
PromotedPastStart ==
  /\ resetPc \in {"nudge", "eu"} => promotedTo > startedFrom
  /\ resetPc \in {"instruct", "promotion", "records", "epoch", "sync", "target"} =>
       promotedTo = 0 \/ promotedTo > startedFrom
  /\ resetPc \in {"host", "environment", "replays", "replay", "purge", "wire"} => promotedTo = 0
  /\ resetPc = "target" => promotedTo # 0

\* The target is the last the script has read, or not a number.
TargetIsLast ==
  /\ resetPc \in {"look", "state", "complete"} => target = 0 \/ target > startedFrom
  /\ resetPc \in {"state", "complete"} => target = 0 \/ target >= named

\* "Complete" is said of rows at the target.
CompleteIsAgreed ==
  resetPc = "complete" => \A h \in ResetHosts \ R!optional : fleetRow[h] = target

ResetInv == ResetTypes /\ PromotedPastStart /\ TargetIsLast /\ CompleteIsAgreed

-----------------------------------------------------------------------------

LEMMA ResetTells ==
  ASSUME ResetInv
  PROVE  R!EveryHostAtTheLast
<1> SUFFICES ASSUME resetPc = "complete"
             PROVE  /\ target >= named /\ target > startedFrom
                    /\ \A h \in ResetHosts \ R!optional : fleetRow[h] >= target
  BY DEF R!EveryHostAtTheLast
<1>1. "east" \in ResetHosts \ R!optional
  BY ResetConstants DEF R!optional
<1>2. target \in Nat /\ target # 0
  BY <1>1 DEF ResetInv, ResetTypes, CompleteIsAgreed, Read
<1> QED
  BY <1>2 DEF ResetInv, TargetIsLast, CompleteIsAgreed

\* Math.max of what was read.
LEMMA NewerIs ==
  ASSUME NEW a \in Read, NEW b \in Read
  PROVE  /\ R!Newer(a, b) \in Read
         /\ R!Newer(a, b) = 0 \/ (a # 0 /\ R!Newer(a, b) >= a /\ R!Newer(a, b) >= b)
<1>1. CASE a = 0 \/ b = 0
  BY <1>1, ResetConstants DEF R!Newer, R!NaN, Read
<1>2. CASE a # 0 /\ b # 0
  <2>1. R!Newer(a, b) = R!Max({a, b})
    BY <1>2 DEF R!Newer, R!NaN
  <2>2. \E x \in {a, b} : \A y \in {a, b} : x >= y
    BY DEF Read
  <2>3. R!Max({a, b}) \in {a, b} /\ \A y \in {a, b} : R!Max({a, b}) >= y
    BY <2>2 DEF R!Max
  <2> QED
    BY <1>2, <2>1, <2>3
<1> QED
  BY <1>1, <1>2

\* A look at the pointer, or a sync, leaves rows that can be.
LEMMA ReadingKeeps ==
  ASSUME ResetTypes, NEW g \in Read, R!currentGeneration(g)
  PROVE  /\ published' = published /\ pointer' = pointer
         /\ fleetRow' \in [ResetHosts -> 1 .. published]
BY ResetConstants DEF ResetTypes, R!currentGeneration, R!fleet, R!NaN

\* What the fleet does by itself, likewise.
LEMMA OthersKeep ==
  ASSUME ResetTypes, R!Others
  PROVE  /\ published' \in 1 .. MaxGeneration /\ pointer' \in 1 .. published'
         /\ fleetRow' \in [ResetHosts -> 1 .. published']
<1>1. CASE R!Promote
  BY <1>1, ResetConstants DEF ResetTypes, R!Promote, R!Generations
<1>2. CASE R!Renew
  BY <1>2, ResetConstants DEF ResetTypes, R!Renew
<1>3. ASSUME NEW h \in ResetHosts, R!Take(h) \/ R!Fade(h)
      PROVE  /\ published' \in 1 .. MaxGeneration /\ pointer' \in 1 .. published'
             /\ fleetRow' \in [ResetHosts -> 1 .. published']
  BY <1>3, ResetConstants DEF ResetTypes, R!Take, R!Fade
<1> QED
  BY <1>1, <1>2, <1>3 DEF R!Others

LEMMA ResetStarts ==
  ASSUME R!Init
  PROVE  ResetInv
BY ResetConstants
DEF R!Init, R!FleetInit, R!NaN, ResetInv, ResetTypes, PromotedPastStart, TargetIsLast, CompleteIsAgreed, Read

LEMMA ResetKeeps ==
  ASSUME ResetInv, [R!Next]_(R!vars)
  PROVE  ResetInv'
<1> USE ResetConstants
    DEF ResetInv, R!NaN, R!fleet, R!progress, R!replays, R!history
<1>1. CASE R!host
  BY <1>1 DEF R!host, ResetTypes, PromotedPastStart, TargetIsLast, CompleteIsAgreed
<1>2. CASE R!environment
  <2>1. PICK g \in Read : R!currentGeneration(g) /\ startedFrom' = g
    BY <1>2 DEF R!environment, Read
  <2>2. ResetTypes'
    BY <1>2, <2>1, ReadingKeeps DEF R!environment, ResetTypes
  <2> QED
    BY <1>2, <2>2 DEF R!environment, PromotedPastStart, TargetIsLast, CompleteIsAgreed
<1>3. CASE R!inFlight
  <2>1. UNCHANGED <<published, pointer, fleetRow, startedFrom, promotedTo, target, named>>
    BY <1>3 DEF R!inFlight
  <2>2. resetPc = "replays" /\ resetPc' \in {"purge", "replay"}
    BY <1>3 DEF R!inFlight, R!GoOn
  <2> QED
    BY <2>1, <2>2 DEF ResetTypes, PromotedPastStart, TargetIsLast, CompleteIsAgreed
<1>4. CASE R!waitForReplay
  <2>1. UNCHANGED <<published, pointer, fleetRow, startedFrom, promotedTo, target, named>>
    BY <1>4 DEF R!waitForReplay
  <2>2. resetPc = "replay" /\ resetPc' = "purge"
    BY <1>4 DEF R!waitForReplay, R!GoOn
  <2> QED
    BY <2>1, <2>2 DEF ResetTypes, PromotedPastStart, TargetIsLast, CompleteIsAgreed
<1>5. CASE R!purge
  BY <1>5 DEF R!purge, ResetTypes, PromotedPastStart, TargetIsLast, CompleteIsAgreed
<1>6. CASE R!restoreWire
  BY <1>6 DEF R!restoreWire, ResetTypes, PromotedPastStart, TargetIsLast, CompleteIsAgreed
<1>7. CASE R!instruct
  BY <1>7 DEF R!instruct, ResetTypes, PromotedPastStart, TargetIsLast, CompleteIsAgreed
<1>8. CASE R!waitForPromotion
  <2>1. PICK g \in Read :
          /\ R!currentGeneration(g)
          /\ \/ g > startedFrom /\ promotedTo' = g /\ resetPc' = "nudge"
             \/ g <= startedFrom /\ promotedTo' = 0 /\ resetPc' \in {"promotion", "records"}
    BY <1>8 DEF R!waitForPromotion, Read
  <2>2. UNCHANGED <<startedFrom, target, named>>
    BY <1>8 DEF R!waitForPromotion
  <2>3. ResetTypes'
    BY <2>1, <2>2, ReadingKeeps DEF ResetTypes, Read
  <2> QED
    BY <2>1, <2>2, <2>3 DEF PromotedPastStart, TargetIsLast, CompleteIsAgreed
<1>9. CASE R!nudge
  BY <1>9 DEF R!nudge, ResetTypes, PromotedPastStart, TargetIsLast, CompleteIsAgreed
<1>10. CASE R!approveOnEuWest
  BY <1>10 DEF R!approveOnEuWest, ResetTypes, PromotedPastStart, TargetIsLast, CompleteIsAgreed
<1>11. CASE R!records
  BY <1>11 DEF R!records, ResetTypes, PromotedPastStart, TargetIsLast, CompleteIsAgreed
<1>12. CASE R!epoch
  BY <1>12 DEF R!epoch, ResetTypes, PromotedPastStart, TargetIsLast, CompleteIsAgreed
<1>13. CASE R!sync
  BY <1>13 DEF R!sync, ResetTypes, PromotedPastStart, TargetIsLast, CompleteIsAgreed
<1>14. CASE R!firstTarget
  <2>1. PICK g \in Read : R!currentGeneration(g) /\ target' = R!Newer(promotedTo, g)
    BY <1>14 DEF R!firstTarget, Read
  <2>2. resetPc = "target" /\ resetPc' = "look" /\ UNCHANGED <<startedFrom, promotedTo, named>>
    BY <1>14 DEF R!firstTarget
  <2>3. target' \in Read /\ (target' = 0 \/ target' >= promotedTo)
    BY <2>1, NewerIs DEF ResetTypes
  <2>4. ResetTypes'
    BY <2>1, <2>2, <2>3, ReadingKeeps DEF ResetTypes
  <2> QED
    BY <2>2, <2>3, <2>4 DEF ResetTypes, Read, PromotedPastStart, TargetIsLast, CompleteIsAgreed
<1>15. CASE R!look
  <2>1. PICK g \in Read : /\ R!currentGeneration(g) /\ target' = R!Newer(target, g)
                          /\ named' = IF g = pointer THEN g ELSE 0
    BY <1>15 DEF R!look, R!retarget, Read
  <2>2. resetPc = "look" /\ resetPc' = "state" /\ UNCHANGED <<startedFrom, promotedTo>>
    BY <1>15 DEF R!look
  <2>3. target' \in Read /\ (target' = 0 \/ (target # 0 /\ target' >= target /\ target' >= g))
    BY <2>1, NewerIs DEF ResetTypes
  <2>4. ResetTypes'
    BY <2>1, <2>2, <2>3, ReadingKeeps DEF ResetTypes, Read
  <2>5. target' = 0 \/ (target' > startedFrom /\ target' >= named')
    BY <2>1, <2>2, <2>3 DEF ResetTypes, Read, TargetIsLast
  <2> QED
    BY <2>2, <2>4, <2>5 DEF PromotedPastStart, TargetIsLast, CompleteIsAgreed
<1>16. CASE R!agreed
  <2>1. /\ resetPc = "state" /\ resetPc' \in {"complete", "look", "incomplete"}
        /\ UNCHANGED <<published, pointer, fleetRow, startedFrom, promotedTo, target, named, euWest>>
    BY <1>16 DEF R!agreed
  <2>2. resetPc' = "complete" => \A h \in ResetHosts \ R!optional : fleetRow[h] = target
    BY <1>16 DEF R!agreed, R!fleetAgreement
  <2>3. R!optional' = R!optional
    BY <2>1 DEF R!optional
  <2> QED
    BY <2>1, <2>2, <2>3 DEF ResetTypes, PromotedPastStart, TargetIsLast, CompleteIsAgreed
<1>17. ASSUME NEW p \in Replays, R!replay(p)
       PROVE  ResetInv'
  <2>1. /\ resetPc' = resetPc /\ resetPc \in {"replays", "replay"}
        /\ UNCHANGED <<published, pointer, fleetRow, startedFrom, promotedTo, target, named, euWest>>
    BY <1>17 DEF R!replay
  <2> QED
    BY <2>1 DEF ResetTypes, PromotedPastStart, TargetIsLast, CompleteIsAgreed
<1>18. CASE resetPc \in R!Looks /\ R!Others /\ UNCHANGED <<resetMode, resetPc, R!progress, resetWire,
                                                         R!replays, R!history, resetFaults>>
  <2>1. resetPc # "complete" /\ UNCHANGED <<resetPc, startedFrom, promotedTo, target, named>>
    BY <1>18 DEF R!Looks
  <2>2. ResetTypes'
    BY <1>18, <2>1, OthersKeep DEF ResetTypes
  <2> QED
    BY <2>1, <2>2 DEF PromotedPastStart, TargetIsLast, CompleteIsAgreed
<1>19. CASE UNCHANGED R!vars
  <2>1. UNCHANGED <<published, pointer, fleetRow, resetPc, startedFrom, promotedTo, target, named, euWest>>
    BY <1>19 DEF R!vars
  <2>2. R!optional' = R!optional
    BY <2>1 DEF R!optional
  <2> QED
    BY <2>1, <2>2 DEF ResetTypes, PromotedPastStart, TargetIsLast, CompleteIsAgreed
<1> QED
  BY <1>1, <1>2, <1>3, <1>4, <1>5, <1>6, <1>7, <1>8, <1>9, <1>10, <1>11, <1>12, <1>13, <1>14, <1>15, <1>16,
     <1>17, <1>18, <1>19 DEF R!Next

-----------------------------------------------------------------------------
(* The dry run and the proofs.                                             *)
program == s5
flags == s6
scriptLeft == s7
failures == s9
dryWire == s10
verdict == s11
USE DEF program, flags, scriptLeft, failures, dryWire, verdict

\* Steps, and those that do not cut the wire.
StepKinds ==
  {"claim", "look", "must", "seen", "wait", "exact", "sync", "now", "generation", "freeze", "golden",
   "throw", "reach", "cut", "restore"}
ScriptSteps == [kind : StepKinds, host : {"none", "eu", "puller", "airgap"}, over : Nat]
Uncut == {x \in ScriptSteps : x.kind # "cut"}
UncutScripts == Seq(Uncut)

\* A cut is followed by a look and the restore, and then by nothing that may end the script.
GivesBack(s) ==
  \A i \in 1 .. Len(s) : s[i].kind = "cut" =>
    /\ i + 2 <= Len(s) /\ s[i + 1].kind = "look" /\ s[i + 2].kind = "restore"
    /\ \A j \in 1 .. Len(s) : j > i + 2 => s[j].kind \in {"look", "claim"}

\* With the wire cut, the look and the restore are next, or the restore was refused.
RestoreIsAhead ==
  verdict = "running" /\ dryWire = "cut" =>
    \E k \in {0, 1, 2} :
      /\ k = 0 => failures
      /\ k = 1 => Len(scriptLeft) >= 1 /\ scriptLeft[1].kind = "restore"
      /\ k = 2 => Len(scriptLeft) >= 2 /\ scriptLeft[1].kind = "look" /\ scriptLeft[2].kind = "restore"
      /\ \A j \in 1 .. Len(scriptLeft) : j > k => scriptLeft[j].kind \in {"look", "claim"}

DryRunInv ==
  /\ scriptLeft \in Seq(ScriptSteps) /\ GivesBack(scriptLeft)
  /\ failures \in BOOLEAN /\ dryWire \in {"connected", "cut"}
  /\ RestoreIsAhead
  /\ verdict \in {"ok", "timed out"} => dryWire = "connected"

LEMMA DryRunTells == DryRunInv => D!WireGivenBack
BY DEF DryRunInv, D!WireGivenBack

\* No cut, nothing to give back.
LEMMA UncutGivesBack == ASSUME NEW s \in UncutScripts PROVE s \in Seq(ScriptSteps) /\ GivesBack(s)
<1>1. \A i \in 1 .. Len(s) : s[i] \in Uncut
  BY DEF UncutScripts
<1>2. s \in Seq(ScriptSteps)
  BY DEF UncutScripts, Uncut
<1> QED BY <1>1, <1>2 DEF GivesBack, Uncut

LEMMA UncutJoined == \A s, t \in UncutScripts : s \o t \in UncutScripts
BY DEF UncutScripts

\* What is put before a script that gives back does not change it.
LEMMA JoinedGivesBack ==
  ASSUME NEW s \in UncutScripts, NEW t \in Seq(ScriptSteps), GivesBack(t)
  PROVE  s \o t \in Seq(ScriptSteps) /\ GivesBack(s \o t)
<1>1. s \in Seq(ScriptSteps)
  BY UncutGivesBack
<1>2. s \o t \in Seq(ScriptSteps) /\ Len(s \o t) = Len(s) + Len(t) /\ Len(s) \in Nat /\ Len(t) \in Nat
  BY <1>1
<1>3. \A i \in 1 .. Len(s) : (s \o t)[i] \in Uncut
  BY <1>1 DEF UncutScripts
<1>4. ASSUME NEW i \in 1 .. Len(s \o t), i > Len(s)
      PROVE  i - Len(s) \in 1 .. Len(t) /\ (s \o t)[i] = t[i - Len(s)]
  BY <1>1, <1>2, <1>4
<1>5. SUFFICES ASSUME NEW i \in 1 .. Len(s \o t), (s \o t)[i].kind = "cut"
      PROVE  /\ i + 2 <= Len(s \o t) /\ (s \o t)[i + 1].kind = "look" /\ (s \o t)[i + 2].kind = "restore"
             /\ \A j \in 1 .. Len(s \o t) : j > i + 2 => (s \o t)[j].kind \in {"look", "claim"}
  BY <1>2 DEF GivesBack
<1>6. i > Len(s)
  BY <1>2, <1>3, <1>5 DEF Uncut
<1>7. PICK k \in Nat : k = i - Len(s)
  BY <1>2, <1>6
<1>8. k \in 1 .. Len(t) /\ t[k].kind = "cut" /\ i = k + Len(s)
  BY <1>2, <1>4, <1>5, <1>6, <1>7
<1>9. /\ k + 2 <= Len(t) /\ t[k + 1].kind = "look" /\ t[k + 2].kind = "restore"
      /\ \A j \in 1 .. Len(t) : j > k + 2 => t[j].kind \in {"look", "claim"}
  BY <1>8 DEF GivesBack
<1>10. i + 1 \in 1 .. Len(s \o t) /\ i + 2 \in 1 .. Len(s \o t)
  BY <1>2, <1>8, <1>9
<1>11. (s \o t)[i + 1] = t[k + 1] /\ (s \o t)[i + 2] = t[k + 2]
  <2>1. (i + 1) - Len(s) = k + 1 /\ (i + 2) - Len(s) = k + 2
    BY <1>2, <1>8
  <2> QED BY <1>2, <1>4, <1>6, <1>10, <2>1
<1>12. ASSUME NEW j \in 1 .. Len(s \o t), j > i + 2 PROVE (s \o t)[j].kind \in {"look", "claim"}
  <2>1. (s \o t)[j] = t[j - Len(s)] /\ j - Len(s) \in 1 .. Len(t)
    BY <1>2, <1>4, <1>6, <1>12
  <2>2. j - Len(s) > k + 2
    BY <1>2, <1>8, <1>12
  <2> QED BY <1>9, <2>1, <2>2
<1> QED BY <1>2, <1>8, <1>9, <1>10, <1>11, <1>12

\* The steps and the acts that do not cut.
LEMMA Words ==
  /\ D!claim \in UncutScripts /\ D!look \in UncutScripts /\ D!must \in UncutScripts
  /\ D!wait \in UncutScripts /\ D!sync \in UncutScripts /\ D!now \in UncutScripts
  /\ D!exact("eu") \in UncutScripts /\ D!exact("puller") \in UncutScripts /\ D!exact("airgap") \in UncutScripts
  /\ <<>> \in UncutScripts
  /\ <<D!Step("throw")>> \in UncutScripts /\ <<D!Step("reach")>> \in UncutScripts
<1>1. \A k \in StepKinds \ {"cut"} : D!Step(k) \in Uncut
  BY DEF D!Step, Uncut, ScriptSteps
<1>2. \A h \in {"eu", "puller", "airgap"} : [kind |-> "exact", host |-> h, over |-> 0] \in Uncut
  BY DEF Uncut, ScriptSteps, StepKinds
<1>3. \A x \in Uncut : <<x>> \in UncutScripts
  BY DEF UncutScripts
<1>4. D!claim \in UncutScripts /\ D!look \in UncutScripts /\ D!must \in UncutScripts /\ D!wait \in UncutScripts
  BY <1>1, <1>3 DEF D!claim, D!look, D!must, D!wait, StepKinds
<1>5. D!sync \in UncutScripts /\ D!now \in UncutScripts
  BY <1>1, <1>3 DEF D!sync, D!now, StepKinds
<1>6. <<D!Step("throw")>> \in UncutScripts /\ <<D!Step("reach")>> \in UncutScripts
  BY <1>1, <1>3 DEF StepKinds
<1>7. D!exact("eu") \in UncutScripts /\ D!exact("puller") \in UncutScripts /\ D!exact("airgap") \in UncutScripts
  BY <1>2, <1>3 DEF D!exact
<1>8. <<>> \in UncutScripts
  BY DEF UncutScripts
<1> QED BY <1>4, <1>5, <1>6, <1>7, <1>8

LEMMA InConsole ==
  ASSUME NEW what \in {"generation", "seen", "freeze", "golden"}, NEW then \in UncutScripts
  PROVE  D!inConsole(what, then) \in UncutScripts
<1>1. Len(then) \in Nat
  BY DEF UncutScripts
<1>2. [kind |-> what, host |-> "none", over |-> Len(then)] \in Uncut
  BY <1>1 DEF Uncut, ScriptSteps, StepKinds
<1>3. <<[kind |-> what, host |-> "none", over |-> Len(then)]>> \in UncutScripts
  BY <1>2 DEF UncutScripts
<1> QED BY <1>3, UncutJoined DEF D!inConsole

LEMMA ActsOfAPerson ==
  ASSUME NEW then \in UncutScripts
  PROVE  /\ D!newGeneration(then) \in UncutScripts /\ D!seen(then) \in UncutScripts
         /\ D!inConsole("freeze", then) \in UncutScripts /\ D!inConsole("golden", then) \in UncutScripts
BY InConsole DEF D!newGeneration, D!seen

LEMMA Ifs ==
  \A flag, f : \A then \in UncutScripts :
    D!If(flag, f, then) \in UncutScripts /\ (IF flag \in f THEN then ELSE <<>>) \in UncutScripts
BY Words DEF D!If

LEMMA Landed == ASSUME NEW f PROVE D!landEverywhere(f) \in UncutScripts
<1>1. (IF "airgap" \in f THEN D!exact("airgap") ELSE <<>>) \in UncutScripts
  BY Words
<1> QED BY <1>1, Words, UncutJoined DEF D!landEverywhere, D!waitForEuWest

\* The beats before the drill of the wire.
BeatsBefore(f) == D!Beat0 \o D!Beat1(f) \o D!Beat2 \o D!Beat3 \o D!Beat4 \o D!Beat5(f) \o D!Beat6

LEMMA BeatsBeforeUncut == ASSUME NEW f PROVE BeatsBefore(f) \in UncutScripts
<1> USE Words, UncutJoined, ActsOfAPerson, Landed
<1>1. D!Beat0 \in UncutScripts /\ D!Beat2 \in UncutScripts /\ D!Beat6 \in UncutScripts
  BY DEF D!Beat0, D!Beat2, D!Beat6
<1>2. D!Beat1(f) \in UncutScripts
  BY DEF D!Beat1
<1>3. D!Beat3 \in UncutScripts
  BY DEF D!Beat3
<1>4. D!Beat4 \in UncutScripts
  BY DEF D!Beat4, D!waitForEuWest
<1>5. D!Beat5(f) \in UncutScripts
  BY DEF D!Beat5
<1> QED BY <1>1, <1>2, <1>3, <1>4, <1>5 DEF BeatsBefore

\* The drill of the wire, and what the dry run does after it.
WireDrill == <<D!Step("cut")>> \o D!look \o <<D!Step("restore")>> \o D!look

LEMMA JoinedIs ==
  ASSUME NEW a \in Seq(ScriptSteps), NEW b \in Seq(ScriptSteps)
  PROVE  /\ a \o b \in Seq(ScriptSteps) /\ Len(a \o b) = Len(a) + Len(b)
         /\ \A i \in 1 .. Len(a) : (a \o b)[i] = a[i]
         /\ \A i \in Nat : Len(b) = 1 /\ i = Len(a) + 1 => (a \o b)[i] = b[1]
<1>1. a \o b \in Seq(ScriptSteps) /\ Len(a \o b) = Len(a) + Len(b) /\ Len(a) \in Nat
  OBVIOUS
<1>2. \A i \in 1 .. Len(a) : (a \o b)[i] = a[i]
  OBVIOUS
<1>3. ASSUME NEW i \in Nat, Len(b) = 1, i = Len(a) + 1 PROVE (a \o b)[i] = b[1]
  <2>1. i \in 1 .. Len(a \o b) /\ i > Len(a) /\ i - Len(a) = 1
    BY <1>1, <1>3
  <2>2. (a \o b)[i] = b[i - Len(a)]
    BY <2>1
  <2> QED BY <2>1, <2>2
<1> QED BY <1>1, <1>2, <1>3

LEMMA WireDrillGivesBack == WireDrill \in Seq(ScriptSteps) /\ GivesBack(WireDrill)
<1>1. D!Step("cut") \in ScriptSteps /\ D!Step("look") \in ScriptSteps /\ D!Step("restore") \in ScriptSteps
  BY DEF D!Step, ScriptSteps, StepKinds
<1> DEFINE one == <<D!Step("cut")>>
           l == D!look
           r == <<D!Step("restore")>>
           two == one \o l
           three == two \o r
           four == three \o l
<1>2. one \in Seq(ScriptSteps) /\ Len(one) = 1 /\ one[1] = D!Step("cut")
  BY <1>1
<1>3. l \in Seq(ScriptSteps) /\ Len(l) = 1 /\ l[1] = D!Step("look")
  BY <1>1 DEF D!look
<1>4. r \in Seq(ScriptSteps) /\ Len(r) = 1 /\ r[1] = D!Step("restore")
  BY <1>1
<1>5. WireDrill = four
  BY DEF WireDrill
<1> HIDE DEF one, l, r
<1>6. two \in Seq(ScriptSteps) /\ Len(two) = 2 /\ two[1] = one[1] /\ two[2] = l[1]
  <2>1. /\ two \in Seq(ScriptSteps) /\ Len(two) = Len(one) + 1
        /\ (\A i \in 1 .. Len(one) : two[i] = one[i])
        /\ (\A i \in Nat : i = Len(one) + 1 => two[i] = l[1])
    BY ZenonT(40), <1>2, <1>3, JoinedIs DEF two
  <2>2. 2 \in Nat /\ 2 = Len(one) + 1 /\ 1 \in 1 .. Len(one)
    BY <1>2, <1>3
  <2> QED BY <2>1, <2>2
<1> HIDE DEF two
<1>7. three \in Seq(ScriptSteps) /\ Len(three) = 3 /\ three[1] = two[1] /\ three[2] = two[2] /\ three[3] = r[1]
  <2>1. /\ three \in Seq(ScriptSteps) /\ Len(three) = Len(two) + 1
        /\ (\A i \in 1 .. Len(two) : three[i] = two[i])
        /\ (\A i \in Nat : i = Len(two) + 1 => three[i] = r[1])
    BY ZenonT(40), <1>4, <1>6, JoinedIs DEF three
  <2>2. 3 \in Nat /\ 3 = Len(two) + 1 /\ 1 \in 1 .. Len(two) /\ 2 \in 1 .. Len(two)
    BY <1>4, <1>6
  <2> QED BY <2>1, <2>2
<1> HIDE DEF three
<1>8. /\ four \in Seq(ScriptSteps) /\ Len(four) = 4 /\ four[1] = three[1] /\ four[2] = three[2]
      /\ four[3] = three[3] /\ four[4] = l[1]
  <2>1. /\ four \in Seq(ScriptSteps) /\ Len(four) = Len(three) + 1
        /\ (\A i \in 1 .. Len(three) : four[i] = three[i])
        /\ (\A i \in Nat : i = Len(three) + 1 => four[i] = l[1])
    BY ZenonT(40), <1>3, <1>7, JoinedIs DEF four
  <2>2. 4 \in Nat /\ 4 = Len(three) + 1 /\ 1 \in 1 .. Len(three) /\ 2 \in 1 .. Len(three) /\ 3 \in 1 .. Len(three)
    BY <1>3, <1>7
  <2> QED BY <2>1, <2>2
<1> HIDE DEF four
<1>10. four[1].kind = "cut" /\ four[2].kind = "look" /\ four[3].kind = "restore" /\ four[4].kind = "look"
  BY <1>2, <1>3, <1>4, <1>6, <1>7, <1>8 DEF D!Step
<1>11. \A i \in 1 .. 4 : i \in {1, 2, 3, 4}
  OBVIOUS
<1>12. GivesBack(four)
  BY <1>8, <1>10, <1>11 DEF GivesBack
<1> QED BY <1>5, <1>8, <1>12

\* A claim may always follow.
LEMMA ClaimedGivesBack ==
  ASSUME NEW s \in Seq(ScriptSteps), GivesBack(s)
  PROVE  s \o D!claim \in Seq(ScriptSteps) /\ GivesBack(s \o D!claim)
<1>1. D!Step("claim") \in ScriptSteps /\ D!Step("claim").kind = "claim"
  BY DEF D!Step, ScriptSteps, StepKinds
<1> DEFINE t == s \o D!claim
<1>2. D!claim \in Seq(ScriptSteps) /\ Len(D!claim) = 1 /\ D!claim[1].kind = "claim"
  BY <1>1 DEF D!claim
<1>3. /\ t \in Seq(ScriptSteps) /\ Len(t) = Len(s) + 1 /\ (\A i \in 1 .. Len(s) : t[i] = s[i])
      /\ (\A i \in Nat : i = Len(s) + 1 => t[i] = D!claim[1])
  BY ZenonT(40), <1>2, JoinedIs
<1> HIDE DEF t
<1>4. Len(s) \in Nat /\ \A i \in 1 .. Len(t) : i \in 1 .. Len(s) \/ i = Len(s) + 1
  BY <1>3
<1>5. ASSUME NEW i \in 1 .. Len(t), t[i].kind = "cut"
      PROVE  /\ i + 2 <= Len(t) /\ t[i + 1].kind = "look" /\ t[i + 2].kind = "restore"
             /\ \A j \in 1 .. Len(t) : j > i + 2 => t[j].kind \in {"look", "claim"}
  <2>1. i \in 1 .. Len(s) /\ s[i].kind = "cut"
    BY <1>2, <1>3, <1>4, <1>5
  <2>2. /\ i + 2 <= Len(s) /\ s[i + 1].kind = "look" /\ s[i + 2].kind = "restore"
        /\ \A j \in 1 .. Len(s) : j > i + 2 => s[j].kind \in {"look", "claim"}
    BY <2>1 DEF GivesBack
  <2>3. i + 1 \in 1 .. Len(s) /\ i + 2 \in 1 .. Len(s)
    BY <1>4, <2>1, <2>2
  <2>4. \A j \in 1 .. Len(t) : j > i + 2 => t[j].kind \in {"look", "claim"}
    BY <1>2, <1>3, <1>4, <2>2
  <2> QED BY <1>3, <1>4, <2>2, <2>3, <2>4
<1> QED BY <1>3, <1>5 DEF GivesBack, t

\* The steps of a dry run, of a proof of the desk, of eu-west and of the fleet.
LEMMA BeatsGiveBack == ASSUME NEW f PROVE D!Beats(f) \in Seq(ScriptSteps) /\ GivesBack(D!Beats(f))
<1>1. D!Beats(f) = ((BeatsBefore(f) \o D!Beat7(f)) \o D!claim) \o D!claim
  BY DEF D!Beats, BeatsBefore, D!Beat8, D!Beat9
<1>2. CASE "skip-wire" \in f
  <2>1. D!Beat7(f) = <<>>
    BY <1>2 DEF D!Beat7
  <2>2. D!Beats(f) \in UncutScripts
    BY <1>1, <2>1, BeatsBeforeUncut, Words, UncutJoined
  <2> QED BY <2>2, UncutGivesBack
<1>3. CASE "skip-wire" \notin f
  <2>1. D!Beat7(f) = WireDrill
    BY <1>3 DEF D!Beat7, WireDrill
  <2>2. BeatsBefore(f) \o WireDrill \in Seq(ScriptSteps) /\ GivesBack(BeatsBefore(f) \o WireDrill)
    BY BeatsBeforeUncut, WireDrillGivesBack, JoinedGivesBack
  <2>3. (BeatsBefore(f) \o WireDrill) \o D!claim \in Seq(ScriptSteps) /\ GivesBack((BeatsBefore(f) \o WireDrill) \o D!claim)
    BY <2>2, ClaimedGivesBack
  <2> QED BY <1>1, <2>1, <2>3, ClaimedGivesBack
<1> QED BY <1>2, <1>3

LEMMA DeskGivesBack == ASSUME NEW f PROVE D!DeskProof(f) \in UncutScripts
<1>1. D!DeskRun \in UncutScripts /\ D!DeskAfter \in UncutScripts
  BY Words, UncutJoined, ActsOfAPerson DEF D!DeskRun, D!DeskAfter
<1>2. (IF "expect-cap" \in f THEN D!claim \o D!look
       ELSE D!must \o D!claim \o D!claim \o D!DeskRun \o D!DeskAfter) \in UncutScripts
  BY <1>1, Words, UncutJoined
<1> QED BY <1>2, Words, UncutJoined DEF D!DeskProof

LEMMA EuGivesBack == ASSUME NEW f PROVE D!EuProof(f) \in Seq(ScriptSteps) /\ GivesBack(D!EuProof(f))
<1> DEFINE before == D!EuRow \o D!EuCli \o D!EuApprove(f) \o D!EuEnqueue(f) \o D!EuCommand(f)
<1>1. D!EuRow \in UncutScripts /\ D!EuCli \in UncutScripts /\ D!EuCommand(f) \in UncutScripts
  BY Words, UncutJoined, Ifs DEF D!EuRow, D!EuCli, D!EuCommand
<1>2. D!EuApprove(f) \in UncutScripts /\ D!EuEnqueue(f) \in UncutScripts
  BY Words, UncutJoined, Ifs, ActsOfAPerson DEF D!EuApprove, D!EuEnqueue
<1>3. before \in UncutScripts
  BY <1>1, <1>2, UncutJoined
<1>4. D!EuWire(f) = WireDrill \/ D!EuWire(f) = <<>>
  BY DEF D!EuWire, D!If, WireDrill
<1>5. D!EuWire(f) \in Seq(ScriptSteps) /\ GivesBack(D!EuWire(f))
  BY <1>4, Words, UncutGivesBack, WireDrillGivesBack
<1>6. D!EuProof(f) = before \o D!EuWire(f)
  BY DEF D!EuProof
<1> HIDE DEF before
<1> QED BY <1>3, <1>5, <1>6, JoinedGivesBack

LEMMA FleetGivesBack == ASSUME NEW f PROVE D!FleetProof(f) \in UncutScripts
<1> USE Words, UncutJoined, Ifs, ActsOfAPerson
<1>1. D!FleetPuller \in UncutScripts /\ D!FleetNudge(f) \in UncutScripts
  BY DEF D!FleetPuller, D!FleetNudge
<1>2. D!FleetAirgap(f) \in UncutScripts
  <2>1. D!If("deployed", f, D!claim \o D!claim) \in UncutScripts
    OBVIOUS
  <2> QED BY <2>1 DEF D!FleetAirgap
<1>3. D!FleetReach(f) \in UncutScripts /\ D!FleetImport(f) \in UncutScripts
  BY DEF D!FleetReach, D!FleetImport
<1> QED BY <1>1, <1>2, <1>3 DEF D!FleetProof

LEMMA ScriptsGiveBack ==
  ASSUME NEW p \in DOMAIN D!Flags, NEW f
  PROVE  D!Script(p, f) \in Seq(ScriptSteps) /\ GivesBack(D!Script(p, f))
<1>1. p \in {"dryrun", "desk", "eu", "fleet"}
  BY DEF D!Flags
<1> QED BY <1>1, BeatsGiveBack, DeskGivesBack, EuGivesBack, FleetGivesBack, UncutGivesBack DEF D!Script

-----------------------------------------------------------------------------

LEMMA DryRunStarts == ASSUME D!Init PROVE DryRunInv
<1>1. /\ program \in DOMAIN D!Flags /\ scriptLeft = D!Script(program, flags) /\ failures = FALSE
      /\ dryWire = "connected" /\ verdict = "running"
  BY DEF D!Init
<1> QED BY <1>1, ScriptsGiveBack DEF DryRunInv, RestoreIsAhead

\* What is left after the step, and after what depends on it, gives back, too.
LEMMA LeftGivesBack ==
  ASSUME NEW s \in Seq(ScriptSteps), GivesBack(s), NEW n \in Nat, n >= 2
  PROVE  SubSeq(s, n, Len(s)) \in Seq(ScriptSteps) /\ GivesBack(SubSeq(s, n, Len(s)))
<1> DEFINE t == SubSeq(s, n, Len(s))
<1>1. t \in Seq(ScriptSteps) /\ Len(s) \in Nat /\ Len(t) \in Nat
  OBVIOUS
<1>2. n <= Len(s) => Len(t) = Len(s) - n + 1 /\ \A i \in 1 .. Len(t) : t[i] = s[i + n - 1]
  BY <1>1
<1>3. n > Len(s) => Len(t) = 0
  BY <1>1
<1> HIDE DEF t
<1>4. GivesBack(t)
  <2>1. SUFFICES ASSUME NEW i \in 1 .. Len(t), t[i].kind = "cut"
        PROVE  /\ i + 2 <= Len(t) /\ t[i + 1].kind = "look" /\ t[i + 2].kind = "restore"
               /\ \A j \in 1 .. Len(t) : j > i + 2 => t[j].kind \in {"look", "claim"}
    BY DEF GivesBack
  <2>2. n <= Len(s)
    BY <1>1, <1>3, <2>1
  <2>3. PICK k \in Nat : k = i + n - 1
    BY <1>1, <2>1
  <2>4. k \in 1 .. Len(s) /\ s[k].kind = "cut"
    BY <1>1, <1>2, <2>1, <2>2, <2>3
  <2>5. /\ k + 2 <= Len(s) /\ s[k + 1].kind = "look" /\ s[k + 2].kind = "restore"
        /\ \A j \in 1 .. Len(s) : j > k + 2 => s[j].kind \in {"look", "claim"}
    BY <2>4 DEF GivesBack
  <2>6. i + 1 \in 1 .. Len(t) /\ i + 2 \in 1 .. Len(t)
    BY <1>1, <1>2, <2>1, <2>2, <2>3, <2>5
  <2>7. t[i + 1] = s[k + 1] /\ t[i + 2] = s[k + 2]
    <3>1. (i + 1) + n - 1 = k + 1 /\ (i + 2) + n - 1 = k + 2
      BY <2>1, <2>3
    <3> QED BY SMTT(30), <1>2, <2>2, <2>6, <3>1
  <2>8. ASSUME NEW j \in 1 .. Len(t), j > i + 2 PROVE t[j].kind \in {"look", "claim"}
    <3>1. t[j] = s[j + n - 1] /\ j + n - 1 \in 1 .. Len(s) /\ j + n - 1 > k + 2
      BY <1>1, <1>2, <2>1, <2>2, <2>3, <2>8
    <3> QED BY <2>5, <3>1
  <2> QED BY <1>1, <2>5, <2>6, <2>7, <2>8
<1> QED BY <1>1, <1>4 DEF t

LEMMA Heads ==
  ASSUME NEW s \in Seq(ScriptSteps), s # <<>>
  PROVE  /\ Head(s) \in ScriptSteps /\ Head(s) = s[1] /\ Len(s) \in Nat /\ Len(s) >= 1
         /\ Tail(s) \in Seq(ScriptSteps) /\ Len(Tail(s)) = Len(s) - 1
         /\ \A i \in 1 .. Len(s) - 1 : Tail(s)[i] = s[i + 1]
OBVIOUS

\* The step is over: what is left gives back, and a restore comes no later than it came.
LEMMA GoneOn ==
  ASSUME NEW s \in Seq(ScriptSteps), s # <<>>, GivesBack(s)
  PROVE  Tail(s) \in Seq(ScriptSteps) /\ GivesBack(Tail(s))
<1> DEFINE t == Tail(s)
<1>1. t \in Seq(ScriptSteps) /\ Len(s) \in Nat /\ Len(t) = Len(s) - 1 /\ \A i \in 1 .. Len(t) : t[i] = s[i + 1]
  BY Heads
<1> HIDE DEF t
<1>2. ASSUME NEW i \in 1 .. Len(t), t[i].kind = "cut"
      PROVE  /\ i + 2 <= Len(t) /\ t[i + 1].kind = "look" /\ t[i + 2].kind = "restore"
             /\ \A j \in 1 .. Len(t) : j > i + 2 => t[j].kind \in {"look", "claim"}
  <2>1. PICK k \in Nat : k = i + 1
    BY <1>1
  <2>2. k \in 1 .. Len(s) /\ s[k].kind = "cut"
    BY <1>1, <1>2, <2>1
  <2>3. /\ k + 2 <= Len(s) /\ s[k + 1].kind = "look" /\ s[k + 2].kind = "restore"
        /\ \A j \in 1 .. Len(s) : j > k + 2 => s[j].kind \in {"look", "claim"}
    BY <2>2 DEF GivesBack
  <2>4. i + 1 \in 1 .. Len(t) /\ i + 2 \in 1 .. Len(t) /\ i + 2 <= Len(t)
    BY <1>1, <2>1, <2>3
  <2>5. t[i + 1] = s[k + 1] /\ t[i + 2] = s[k + 2]
    <3>1. (i + 1) + 1 = k + 1 /\ (i + 2) + 1 = k + 2
      BY <1>1, <2>1
    <3> QED BY <1>1, <2>4, <3>1
  <2>6. ASSUME NEW j \in 1 .. Len(t), j > i + 2 PROVE t[j].kind \in {"look", "claim"}
    <3>1. t[j] = s[j + 1] /\ j + 1 \in 1 .. Len(s) /\ j + 1 > k + 2
      BY <1>1, <2>1, <2>6
    <3> QED BY <2>3, <3>1
  <2> QED BY <2>3, <2>4, <2>5, <2>6
<1>3. GivesBack(t)
  BY <1>2 DEF GivesBack
<1> QED BY <1>1, <1>3 DEF t

\* With the wire cut the script is at a look, a claim or the restore, or through.
LEMMA CutGoesOn ==
  ASSUME DryRunInv, verdict = "running", dryWire = "cut", scriptLeft # <<>>
  PROVE  /\ Head(scriptLeft).kind \in {"look", "claim", "restore"}
         /\ \E k \in {0, 1, 2} :
              /\ k = 0 => failures \/ Head(scriptLeft).kind = "restore"
              /\ k = 1 => Len(Tail(scriptLeft)) >= 1 /\ Tail(scriptLeft)[1].kind = "restore"
              /\ k # 2
              /\ \A j \in 1 .. Len(Tail(scriptLeft)) : j > k => Tail(scriptLeft)[j].kind \in {"look", "claim"}
              /\ Head(scriptLeft).kind = "restore" => k = 0
<1>1. PICK k \in {0, 1, 2} :
        /\ k = 0 => failures
        /\ k = 1 => Len(scriptLeft) >= 1 /\ scriptLeft[1].kind = "restore"
        /\ k = 2 => Len(scriptLeft) >= 2 /\ scriptLeft[1].kind = "look" /\ scriptLeft[2].kind = "restore"
        /\ \A j \in 1 .. Len(scriptLeft) : j > k => scriptLeft[j].kind \in {"look", "claim"}
  BY DEF DryRunInv, RestoreIsAhead
<1>2. /\ Head(scriptLeft) = scriptLeft[1] /\ Len(scriptLeft) \in Nat /\ Len(scriptLeft) >= 1
      /\ Len(Tail(scriptLeft)) = Len(scriptLeft) - 1
      /\ \A i \in 1 .. Len(scriptLeft) - 1 : Tail(scriptLeft)[i] = scriptLeft[i + 1]
  BY Heads DEF DryRunInv
<1>3. \A j \in 1 .. Len(Tail(scriptLeft)) : j + 1 > k => Tail(scriptLeft)[j].kind \in {"look", "claim"}
  BY <1>1, <1>2
<1>4. CASE k = 0
  <2>1. Head(scriptLeft).kind \in {"look", "claim"}
    BY <1>1, <1>2, <1>4
  <2>2. \A j \in 1 .. Len(Tail(scriptLeft)) : j > 0 => Tail(scriptLeft)[j].kind \in {"look", "claim"}
    BY <1>2, <1>3, <1>4
  <2> QED BY <1>1, <1>4, <2>1, <2>2
<1>5. CASE k = 1
  <2>1. Head(scriptLeft).kind = "restore"
    BY <1>1, <1>2, <1>5
  <2>2. \A j \in 1 .. Len(Tail(scriptLeft)) : j > 0 => Tail(scriptLeft)[j].kind \in {"look", "claim"}
    BY <1>2, <1>3, <1>5
  <2> QED BY <2>1, <2>2
<1>6. CASE k = 2
  <2>1. Head(scriptLeft).kind = "look"
    BY <1>1, <1>2, <1>6
  <2>2. Len(Tail(scriptLeft)) >= 1 /\ Tail(scriptLeft)[1].kind = "restore"
    <3>1. Tail(scriptLeft)[1] = scriptLeft[1 + 1] /\ 1 + 1 = 2
      BY <1>1, <1>2, <1>6
    <3> QED BY <1>1, <1>2, <1>6, <3>1
  <2>3. \A j \in 1 .. Len(Tail(scriptLeft)) : j > 1 => Tail(scriptLeft)[j].kind \in {"look", "claim"}
    BY <1>2, <1>3, <1>6
  <2> QED BY <2>1, <2>2, <2>3
<1> QED BY <1>4, <1>5, <1>6

\* A step that leaves the wire alone, and the script goes on with the next.
LEMMA OrdinaryStep ==
  ASSUME DryRunInv, verdict = "running", scriptLeft # <<>>, Head(scriptLeft).kind \notin {"restore", "cut"},
         scriptLeft' = Tail(scriptLeft), verdict' = verdict, dryWire' = dryWire,
         failures' \in BOOLEAN, failures => failures'
  PROVE  DryRunInv'
<1>1. scriptLeft' \in Seq(ScriptSteps) /\ GivesBack(scriptLeft')
  BY GoneOn DEF DryRunInv
<1>2. RestoreIsAhead'
  <2>1. SUFFICES ASSUME dryWire = "cut" PROVE RestoreIsAhead'
    BY DEF RestoreIsAhead
  <2>2. PICK k \in {0, 1, 2} :
          /\ k = 0 => failures \/ Head(scriptLeft).kind = "restore"
          /\ k = 1 => Len(Tail(scriptLeft)) >= 1 /\ Tail(scriptLeft)[1].kind = "restore"
          /\ k # 2
          /\ \A j \in 1 .. Len(Tail(scriptLeft)) : j > k => Tail(scriptLeft)[j].kind \in {"look", "claim"}
          /\ Head(scriptLeft).kind = "restore" => k = 0
    BY <2>1, CutGoesOn
  <2>3. /\ k = 0 => failures'
        /\ k = 1 => Len(scriptLeft') >= 1 /\ scriptLeft'[1].kind = "restore"
        /\ k = 2 => FALSE
        /\ \A j \in 1 .. Len(scriptLeft') : j > k => scriptLeft'[j].kind \in {"look", "claim"}
    BY <2>2
  <2> QED BY <2>3 DEF RestoreIsAhead
<1>3. verdict' \notin {"ok", "timed out"}
  OBVIOUS
<1>4. dryWire' \in {"connected", "cut"}
  BY DEF DryRunInv
<1> QED BY <1>1, <1>2, <1>3, <1>4 DEF DryRunInv

\* What depends on an act that was not seen is passed over: the wire is not cut.
LEMMA PassedOver ==
  ASSUME DryRunInv, verdict = "running", scriptLeft # <<>>, Head(scriptLeft).kind \notin {"look", "claim", "restore"},
         scriptLeft' = SubSeq(scriptLeft, 2 + Head(scriptLeft).over, Len(scriptLeft)), verdict' = verdict,
         dryWire' = dryWire, failures' \in BOOLEAN
  PROVE  DryRunInv'
<1>1. dryWire = "connected"
  BY CutGoesOn DEF DryRunInv
<1>2. scriptLeft \in Seq(ScriptSteps) /\ GivesBack(scriptLeft)
  BY DEF DryRunInv
<1>3. Head(scriptLeft).over \in Nat
  BY <1>2, Heads DEF ScriptSteps
<1>4. PICK n \in Nat : n = 2 + Head(scriptLeft).over /\ n >= 2
  BY <1>3
<1>5. scriptLeft' \in Seq(ScriptSteps) /\ GivesBack(scriptLeft')
  BY <1>2, <1>4, LeftGivesBack
<1> QED BY <1>1, <1>5 DEF DryRunInv, RestoreIsAhead

LEMMA DryRunKeeps == ASSUME DryRunInv, [D!Next]_(D!vars) PROVE DryRunInv'
<1>0. failures \in BOOLEAN /\ \A e : D!Is(e) => verdict = "running" /\ scriptLeft # <<>> /\ Head(scriptLeft).kind = e
  BY DEF DryRunInv, D!Is
\* The script goes on, or is over.
<1>1. ASSUME D!check PROVE DryRunInv'
  <2>1. /\ scriptLeft' = Tail(scriptLeft) /\ verdict' = verdict /\ failures' \in {failures, TRUE} /\ dryWire' = dryWire
        /\ verdict = "running" /\ scriptLeft # <<>> /\ Head(scriptLeft).kind \in {"claim", "look"}
    BY <1>0, <1>1 DEF D!check, D!GoOn
  <2>2. failures' \in BOOLEAN /\ (failures => failures')
    <3>1. CASE failures' = failures
      BY <1>0, <3>1
    <3>2. CASE failures' = TRUE
      BY <3>2
    <3> QED BY <2>1, <3>1, <3>2
  <2> QED BY <2>1, <2>2, OrdinaryStep
<1>2. ASSUME D!require PROVE DryRunInv'
  <2>1. verdict = "running" /\ scriptLeft # <<>> /\ Head(scriptLeft).kind = "must" /\ dryWire' = dryWire
    BY <1>0, <1>2 DEF D!require
  <2>2. CASE D!GoOn /\ UNCHANGED failures
    BY <1>0, <2>1, <2>2, OrdinaryStep DEF D!GoOn
  <2>3. CASE verdict' = "failed" /\ failures' = TRUE /\ UNCHANGED scriptLeft
    BY <2>1, <2>3 DEF DryRunInv, RestoreIsAhead
  <2> QED BY <1>2, <2>2, <2>3 DEF D!require
<1>3. ASSUME D!refuse \/ D!Throw PROVE DryRunInv'
  <2>1. verdict' = "threw" /\ UNCHANGED <<scriptLeft, failures, dryWire>>
    BY <1>3 DEF D!refuse, D!Throw
  <2> QED BY <2>1 DEF DryRunInv, RestoreIsAhead
<1>4. ASSUME D!waitFor \/ D!waitForRow PROVE DryRunInv'
  <2>1. /\ verdict = "running" /\ scriptLeft # <<>> /\ Head(scriptLeft).kind \in {"wait", "exact"}
        /\ UNCHANGED <<failures, dryWire>> /\ (D!GoOn \/ D!TimeOut)
    BY <1>0, <1>4 DEF D!waitFor, D!waitForRow
  <2>2. CASE D!GoOn
    BY <1>0, <2>1, <2>2, OrdinaryStep DEF D!GoOn
  <2>3. CASE D!TimeOut
    <3>1. dryWire = "connected"
      BY <2>1, CutGoesOn DEF DryRunInv
    <3> QED BY <2>1, <2>3, <3>1 DEF D!TimeOut, DryRunInv, RestoreIsAhead
  <2> QED BY <2>1, <2>2, <2>3
<1>5. ASSUME D!syncEast \/ D!readNow PROVE DryRunInv'
  <2>1. /\ verdict = "running" /\ scriptLeft # <<>> /\ Head(scriptLeft).kind \in {"sync", "now"}
        /\ UNCHANGED <<failures, dryWire>> /\ scriptLeft' = Tail(scriptLeft) /\ verdict' = verdict
    BY <1>0, <1>5 DEF D!syncEast, D!readNow, D!GoOn
  <2> QED BY <1>0, <2>1, OrdinaryStep
<1>6. ASSUME D!reach PROVE DryRunInv'
  <2>1. /\ verdict = "running" /\ scriptLeft # <<>> /\ Head(scriptLeft).kind = "reach"
        /\ dryWire' = dryWire /\ scriptLeft' = Tail(scriptLeft) /\ verdict' = verdict
        /\ failures' = failures \/ failures' = TRUE
    BY <1>0, <1>6 DEF D!reach, D!GoOn
  <2>2. failures' \in BOOLEAN /\ (failures => failures')
    <3>1. CASE failures' = failures
      BY <1>0, <3>1
    <3>2. CASE failures' = TRUE
      BY <3>2
    <3> QED BY <2>1, <3>1, <3>2
  <2> QED BY <2>1, <2>2, OrdinaryStep
\* An act of a person, seen or not.
<1>7. ASSUME D!observe \/ D!observeGeneration \/ D!observeFreeze \/ D!observeGolden PROVE DryRunInv'
  <2>1. /\ verdict = "running" /\ scriptLeft # <<>> /\ Head(scriptLeft).kind \in {"seen", "generation", "freeze", "golden"}
        /\ dryWire' = dryWire
    BY <1>0, <1>7 DEF D!observe, D!observeGeneration, D!observeFreeze, D!observeGolden
  <2>2. (D!GoOn /\ UNCHANGED failures) \/ D!passOver(failures) \/ D!passOver(TRUE)
    <3>1. CASE D!observe
      BY <3>1 DEF D!observe
    <3>2. CASE D!observeGeneration
      BY <3>2 DEF D!observeGeneration
    <3>3. CASE D!observeFreeze
      BY <3>3 DEF D!observeFreeze
    <3>4. CASE D!observeGolden
      BY <3>4 DEF D!observeGolden
    <3> QED BY <1>7, <3>1, <3>2, <3>3, <3>4
  <2>3. CASE D!GoOn /\ UNCHANGED failures
    BY <1>0, <2>1, <2>3, OrdinaryStep DEF D!GoOn
  <2>4. CASE D!passOver(failures) \/ D!passOver(TRUE)
    BY <1>0, <2>1, <2>4, PassedOver DEF D!passOver
  <2> QED BY <2>2, <2>3, <2>4
\* The drill.
<1>8. ASSUME D!cut_wire PROVE DryRunInv'
  <2>1. /\ verdict = "running" /\ scriptLeft # <<>> /\ Head(scriptLeft).kind = "cut"
        /\ scriptLeft' = Tail(scriptLeft) /\ verdict' = verdict
        /\ \/ dryWire' = "cut" /\ failures' = failures
           \/ dryWire' = dryWire /\ failures' = TRUE
    BY <1>0, <1>8 DEF D!cut_wire, D!GoOn
  <2>2. dryWire = "connected"
    BY <2>1, CutGoesOn DEF DryRunInv
  <2>3. scriptLeft' \in Seq(ScriptSteps) /\ GivesBack(scriptLeft')
    BY <2>1, GoneOn DEF DryRunInv
  <2>4. /\ Len(scriptLeft') >= 2 /\ scriptLeft'[1].kind = "look" /\ scriptLeft'[2].kind = "restore"
        /\ \A j \in 1 .. Len(scriptLeft') : j > 2 => scriptLeft'[j].kind \in {"look", "claim"}
    <3>1. /\ scriptLeft[1].kind = "cut" /\ Len(scriptLeft) \in Nat /\ Len(scriptLeft) >= 1
          /\ Len(scriptLeft') = Len(scriptLeft) - 1
          /\ \A i \in 1 .. Len(scriptLeft) - 1 : scriptLeft'[i] = scriptLeft[i + 1]
      BY <2>1, Heads DEF DryRunInv
    <3>2. /\ 3 <= Len(scriptLeft) /\ scriptLeft[2].kind = "look" /\ scriptLeft[3].kind = "restore"
          /\ \A j \in 1 .. Len(scriptLeft) : j > 3 => scriptLeft[j].kind \in {"look", "claim"}
      <4>1. 1 \in 1 .. Len(scriptLeft) /\ 1 + 1 = 2 /\ 1 + 2 = 3
        BY <3>1
      <4> QED BY <3>1, <4>1 DEF DryRunInv, GivesBack
    <3>3. scriptLeft'[1] = scriptLeft[2] /\ scriptLeft'[2] = scriptLeft[3]
      <4>1. 1 \in 1 .. Len(scriptLeft) - 1 /\ 2 \in 1 .. Len(scriptLeft) - 1 /\ 1 + 1 = 2 /\ 2 + 1 = 3
        BY <3>1, <3>2
      <4> QED BY <3>1, <4>1
    <3>4. ASSUME NEW j \in 1 .. Len(scriptLeft'), j > 2 PROVE scriptLeft'[j].kind \in {"look", "claim"}
      <4>1. scriptLeft'[j] = scriptLeft[j + 1] /\ j + 1 \in 1 .. Len(scriptLeft) /\ j + 1 > 3
        BY <3>1, <3>4
      <4> QED BY <3>2, <4>1
    <3> QED BY <3>1, <3>2, <3>3, <3>4
  <2>5. RestoreIsAhead'
    BY <2>4 DEF RestoreIsAhead
  <2>6. failures' \in BOOLEAN
    BY <1>0, <2>1
  <2> QED BY <2>1, <2>2, <2>3, <2>5, <2>6 DEF DryRunInv
<1>9. ASSUME D!restore_wire PROVE DryRunInv'
  <2>1. /\ verdict = "running" /\ scriptLeft # <<>> /\ Head(scriptLeft).kind = "restore"
        /\ scriptLeft' = Tail(scriptLeft) /\ verdict' = verdict
        /\ \/ dryWire' = "connected" /\ failures' = failures
           \/ dryWire' = dryWire /\ failures' = TRUE
    BY <1>0, <1>9 DEF D!restore_wire, D!GoOn
  <2>2. scriptLeft' \in Seq(ScriptSteps) /\ GivesBack(scriptLeft')
    BY <2>1, GoneOn DEF DryRunInv
  <2>3. RestoreIsAhead'
    <3>1. SUFFICES ASSUME dryWire' = "cut" PROVE RestoreIsAhead'
      BY DEF RestoreIsAhead
    <3>2. dryWire = "cut" /\ failures'
      BY <2>1, <3>1
    <3>3. \A j \in 1 .. Len(scriptLeft') : j > 0 => scriptLeft'[j].kind \in {"look", "claim"}
      BY <2>1, <3>2, CutGoesOn
    <3> QED BY <3>2, <3>3 DEF RestoreIsAhead
  <2>4. failures' \in BOOLEAN /\ dryWire' \in {"connected", "cut"}
    BY <1>0, <2>1 DEF DryRunInv
  <2> QED BY <2>1, <2>2, <2>3, <2>4 DEF DryRunInv
\* The end, and what the script does not do.
<1>10. ASSUME D!summary PROVE DryRunInv'
  <2>1. /\ verdict = "running" /\ scriptLeft = <<>> /\ UNCHANGED <<scriptLeft, failures, dryWire>>
        /\ verdict' = IF failures THEN "failed" ELSE "ok"
    BY <1>10 DEF D!summary
  <2>2. dryWire = "cut" => failures
    BY <2>1 DEF DryRunInv, RestoreIsAhead
  <2> QED BY <2>1, <2>2 DEF DryRunInv, RestoreIsAhead
<1>11. ASSUME D!World \/ UNCHANGED D!vars PROVE DryRunInv'
  <2>1. UNCHANGED <<scriptLeft, failures, dryWire, verdict>>
    BY <1>11 DEF D!World, D!vars
  <2> QED BY <2>1 DEF DryRunInv, RestoreIsAhead
<1> QED BY <1>1, <1>2, <1>3, <1>4, <1>5, <1>6, <1>7, <1>8, <1>9, <1>10, <1>11 DEF D!Next

-----------------------------------------------------------------------------
(* Costs.                                                                  *)

costPc == s1
costAsk == s2
costQuery == s3
costFaults == s4
document == s5

USE DEF costPc, costAsk, costQuery, costFaults, document

\* The days of the example are these.
LEMMA CostConstants ==
  /\ M!Months = 1 .. 3 /\ M!Days = 1 .. 10
  /\ \A m \in 1 .. 3 : Year[m] \in 1 .. 10 /\ Year[m + 1] \in 1 .. 11 /\ Year[m] < Year[m + 1]
  /\ WEEK \in Nat /\ LONG \in Nat /\ 1 <= WEEK /\ WEEK <= LONG /\ MaxPages \in Nat /\ MaxPages >= 1 /\ MaxFaults \in Nat
<1>1. Len(Year) = 4 /\ Year[1] = 1 /\ Year[2] = 5 /\ Year[3] = 8 /\ Year[4] = 11
  BY DEF Year
<1>2. M!Months = 1 .. 3 /\ M!Days = 1 .. 10
  BY <1>1 DEF M!Months, M!Days
<1>3. \A m \in 1 .. 3 : Year[m] \in 1 .. 10 /\ Year[m + 1] \in 1 .. 11 /\ Year[m] < Year[m + 1]
  BY <1>1
<1>4. WEEK \in Nat /\ LONG \in Nat /\ 1 <= WEEK /\ WEEK <= LONG /\ MaxPages \in Nat /\ MaxPages >= 1 /\ MaxFaults \in Nat
  <2>1. M!CostsAssumption
    BY ConstantsAssumption
  <2> QED
    BY <2>1 DEF M!CostsAssumption
<1> QED
  BY <1>2, <1>3, <1>4

\* Months, WEEK and LONG before any day that is asked about.
AskedInYear ==
  /\ costAsk \in [what : {"month", "report"}, month : M!Months, now : M!Days]
  /\ costAsk.now - LONG \in M!Days

\* The window a query is for.
WindowOf(n) ==
  IF n = "week" THEN M!week
  ELSE IF costAsk.what = "report" THEN M!costWindow(costAsk.now, LONG) ELSE M!effective

Names == IF costAsk.what = "report" \/ M!weekInside THEN {"wide"} ELSE {"wide", "week"}

\* A query has the days of its window up to its next page.
RowsUpToNext(q) ==
  /\ q \in [window : [start : Int, end : Int], rows : SUBSET M!Days, next : Int, calls : 0 .. MaxPages]
  /\ q.window.start <= q.next /\ q.next <= q.window.end
  /\ q.rows = q.window.start .. q.next - 1

QueriesAreAsked ==
  costPc \in {"query", "file", "metrics", "filed", "shown"} =>
    /\ costAsk.what = "month" => M!effective.start < M!effective.end
    /\ costQuery = [n \in Names |-> costQuery[n]]
    /\ \A n \in Names : RowsUpToNext(costQuery[n]) /\ costQuery[n].window = WindowOf(n)

\* There is a page to read yet as long as there is one.
PagesLeft ==
  costPc = "query" => \A n \in Names : M!Pending(costQuery[n]) => costQuery[n].calls < MaxPages

AllRead ==
  costPc \in {"file", "metrics", "filed", "shown"} => \A n \in Names : ~ M!Pending(costQuery[n])

NoneYet == costPc \in {"asked", "query", "file"} => document = <<>>

CostsInv ==
  /\ M!TypeOK /\ AskedInYear /\ QueriesAreAsked /\ PagesLeft /\ AllRead /\ NoneYet /\ M!EveryDayOnce
  /\ costPc = "asked" => costQuery = <<>>

-----------------------------------------------------------------------------
(* Lemmas.                                                                 *)

\* What the windows are.
LEMMA WindowsAre ==
  ASSUME AskedInYear
  PROVE  /\ Year[costAsk.month] \in 1 .. 10 /\ Year[costAsk.month + 1] \in 1 .. 11
         /\ costAsk.now \in 1 .. 10 /\ costAsk.now - LONG \in 1 .. 10
         /\ costAsk.now - WEEK \in 1 .. 10 /\ costAsk.now - LONG <= costAsk.now - WEEK
         /\ M!effective = [start |-> Year[costAsk.month],
                           end |-> IF Year[costAsk.month + 1] > costAsk.now THEN costAsk.now
                                   ELSE Year[costAsk.month + 1]]
         /\ M!week = [start |-> costAsk.now - WEEK, end |-> costAsk.now]
         /\ M!costWindow(costAsk.now, LONG) = [start |-> costAsk.now - LONG, end |-> costAsk.now]
         /\ M!partial <=> Year[costAsk.month + 1] > costAsk.now
<1>1. costAsk.month \in 1 .. 3 /\ costAsk.now \in 1 .. 10 /\ costAsk.now - LONG \in 1 .. 10
  BY CostConstants DEF AskedInYear
<1>2. costAsk.now - WEEK \in 1 .. 10 /\ costAsk.now - LONG <= costAsk.now - WEEK
  BY <1>1, CostConstants
<1>3. M!monthWindow(costAsk.month) = [start |-> Year[costAsk.month], end |-> Year[costAsk.month + 1]]
  BY DEF M!monthWindow
<1>4. M!partial <=> Year[costAsk.month + 1] > costAsk.now
  BY <1>3 DEF M!partial
<1>5. M!effective = [start |-> Year[costAsk.month],
                     end |-> IF Year[costAsk.month + 1] > costAsk.now THEN costAsk.now
                             ELSE Year[costAsk.month + 1]]
  BY <1>3, <1>4 DEF M!effective
<1>6. M!week = [start |-> costAsk.now - WEEK, end |-> costAsk.now]
  BY DEF M!week, M!costWindow
<1> QED
  BY <1>1, <1>2, <1>4, <1>5, <1>6, CostConstants DEF M!costWindow

\* The window of a query that is made is of days, and not empty.
LEMMA WindowsAreOfDays ==
  ASSUME AskedInYear, costAsk.what = "month" => M!effective.start < M!effective.end, NEW n \in Names
  PROVE  /\ WindowOf(n) \in [start : Int, end : Int]
         /\ 1 <= WindowOf(n).start /\ WindowOf(n).start < WindowOf(n).end /\ WindowOf(n).end <= 11
BY WindowsAre, CostConstants DEF WindowOf, Names, AskedInYear

\* The steps leave the question alone, and with it what the windows are.
LEMMA SameQuestion ==
  ASSUME UNCHANGED costAsk
  PROVE  /\ AskedInYear' <=> AskedInYear
         /\ M!effective' = M!effective /\ Names' = Names
         /\ \A n : WindowOf(n)' = WindowOf(n)
BY DEF AskedInYear, M!effective, M!partial, Names, M!weekInside, M!week, WindowOf

-----------------------------------------------------------------------------
(* The invariant.                                                          *)

LEMMA CostsStarts ==
  ASSUME M!Init
  PROVE  CostsInv
<1>1. AskedInYear
  BY CostConstants DEF M!Init, AskedInYear
<1>2. M!TypeOK
  BY CostConstants DEF M!Init, M!TypeOK
<1> QED
  BY <1>1, <1>2 DEF M!Init, CostsInv, QueriesAreAsked, PagesLeft, AllRead, NoneYet, M!EveryDayOnce

\* A month that has had no day is refused; otherwise nothing is read yet.
LEMMA AskingMakesQueries ==
  ASSUME CostsInv, M!costCheck
  PROVE  CostsInv'
<1> USE DEF M!costCheck
<1>0. /\ AskedInYear /\ UNCHANGED costAsk /\ UNCHANGED document /\ document = <<>> /\ costQuery = <<>>
      /\ M!TypeOK
  BY DEF CostsInv, NoneYet
<1>1. AskedInYear' /\ M!EveryDayOnce' /\ NoneYet'
  BY <1>0, SameQuestion DEF M!EveryDayOnce, NoneYet
<1>2. CASE costPc' = "threw" /\ UNCHANGED costQuery
  BY <1>0, <1>1, <1>2 DEF CostsInv, QueriesAreAsked, PagesLeft, AllRead, M!TypeOK
<1>3. CASE costPc' # "threw"
  <2>1. /\ costPc' = "query"
        /\ costAsk.what = "month" => M!effective.start < M!effective.end
    BY <1>3, <1>0, WindowsAre DEF AskedInYear
  <2>2. costQuery' = [n \in Names |-> M!costQuery(WindowOf(n))]
    <3>1. CASE costAsk.what = "report"
      BY <1>3, <3>1 DEF Names, WindowOf
    <3>2. CASE costAsk.what # "report"
      BY <1>3, <3>2 DEF Names, WindowOf
    <3> QED
      BY <3>1, <3>2
  <2>3. ASSUME NEW n \in Names
        PROVE  /\ RowsUpToNext(costQuery'[n]) /\ costQuery'[n].window = WindowOf(n)
               /\ costQuery'[n].calls = 0 /\ costQuery'[n].rows = {}
    <3>1. costQuery'[n] = [window |-> WindowOf(n), rows |-> {}, next |-> WindowOf(n).start, calls |-> 0]
      BY <2>2 DEF M!costQuery
    <3>2. WindowOf(n) \in [start : Int, end : Int] /\ WindowOf(n).start < WindowOf(n).end
      BY <1>0, <2>1, WindowsAreOfDays
    <3> QED
      BY <3>1, <3>2, CostConstants DEF RowsUpToNext
  <2>4. QueriesAreAsked' /\ PagesLeft' /\ AllRead'
    BY <1>0, <2>1, <2>2, <2>3, SameQuestion, CostConstants DEF QueriesAreAsked, PagesLeft, AllRead
  <2>5. M!TypeOK'
    <3>1. DOMAIN costQuery' = Names /\ Names \subseteq M!Names
      BY <2>2 DEF Names, M!Names
    <3> QED
      BY <1>0, <2>1, <2>3, <3>1, CostConstants DEF M!TypeOK
  <2> QED
    BY <1>1, <2>1, <2>4, <2>5 DEF CostsInv
<1> QED
  BY <1>2, <1>3

\* A page is days more, and none twice.
LEMMA PageReads ==
  ASSUME CostsInv, NEW n \in M!Names, M!costAndUsagePages(n)
  PROVE  CostsInv'
<1>0. /\ AskedInYear /\ UNCHANGED costAsk /\ UNCHANGED document /\ document = <<>>
      /\ UNCHANGED costFaults /\ M!TypeOK /\ costPc = "query" /\ QueriesAreAsked /\ PagesLeft
  BY DEF CostsInv, NoneYet, M!costAndUsagePages
<1>1. AskedInYear' /\ M!EveryDayOnce' /\ NoneYet' /\ costPc' \in {"threw", "file", "query"}
  BY <1>0, SameQuestion DEF M!EveryDayOnce, NoneYet, M!costAndUsagePages
<1>2. n \in Names /\ DOMAIN costQuery = Names
  BY <1>0 DEF QueriesAreAsked, M!costAndUsagePages
<1>3. RowsUpToNext(costQuery[n]) /\ costQuery[n].window = WindowOf(n) /\ costQuery[n].calls < MaxPages
  BY <1>0, <1>2 DEF QueriesAreAsked, PagesLeft, M!costAndUsagePages
<1>4. PICK to \in costQuery[n].next + 1 .. costQuery[n].window.end :
        LET q == [costQuery[n] EXCEPT !.rows = @ \cup costQuery[n].next .. to - 1, !.next = to, !.calls = @ + 1] IN
          /\ costQuery' = [costQuery EXCEPT ![n] = q]
          /\ costPc' = IF M!Pending(q) /\ q.calls >= MaxPages THEN "threw"
                       ELSE IF \A m \in DOMAIN costQuery : ~ M!Pending(costQuery'[m]) THEN "file" ELSE "query"
  BY DEF M!costAndUsagePages
<1> DEFINE q == [costQuery[n] EXCEPT !.rows = @ \cup costQuery[n].next .. to - 1, !.next = to, !.calls = @ + 1]
<1>5. /\ costQuery' = [costQuery EXCEPT ![n] = q]
      /\ costPc' = IF M!Pending(q) /\ q.calls >= MaxPages THEN "threw"
                   ELSE IF \A m \in DOMAIN costQuery : ~ M!Pending(costQuery'[m]) THEN "file" ELSE "query"
  BY <1>4
<1>6. RowsUpToNext(q) /\ q.window = WindowOf(n) /\ q.rows \subseteq M!Days /\ q.calls \in 0 .. MaxPages
  <2>1. 1 <= WindowOf(n).start /\ WindowOf(n).start < WindowOf(n).end /\ WindowOf(n).end <= 11
    BY <1>0, <1>2, WindowsAreOfDays DEF QueriesAreAsked
  <2>2. PICK ws \in Int, we \in Int, nx \in Int, c \in 0 .. MaxPages :
          /\ costQuery[n] = [window |-> [start |-> ws, end |-> we], rows |-> ws .. nx - 1, next |-> nx, calls |-> c]
          /\ ws <= nx
    <3>1. /\ costQuery[n].window.start \in Int /\ costQuery[n].window.end \in Int /\ costQuery[n].next \in Int
          /\ costQuery[n].window \in [start : Int, end : Int] /\ costQuery[n].calls \in 0 .. MaxPages
          /\ costQuery[n].window.start <= costQuery[n].next
          /\ costQuery[n].rows = costQuery[n].window.start .. costQuery[n].next - 1
          /\ costQuery[n] = [window |-> costQuery[n].window, rows |-> costQuery[n].rows,
                             next |-> costQuery[n].next, calls |-> costQuery[n].calls]
      BY <1>3 DEF RowsUpToNext
    <3>2. costQuery[n].window = [start |-> costQuery[n].window.start, end |-> costQuery[n].window.end]
      BY <3>1
    <3> QED
      BY <3>1, <3>2
  <2>3. to \in Int /\ nx < to /\ to <= we /\ 1 <= ws /\ to <= 11 /\ c < MaxPages
    BY SMTT(30), <1>3, <2>1, <2>2, CostConstants
  <2>4. ws .. nx - 1 \cup nx .. to - 1 = ws .. to - 1
    BY <2>2, <2>3
  <2>5. /\ q.window = [start |-> ws, end |-> we] /\ q.next = to /\ q.calls = c + 1
        /\ q.rows = ws .. nx - 1 \cup nx .. to - 1
    BY <2>2, <2>3
  <2>6. q \in [window : [start : Int, end : Int], rows : SUBSET Int, next : Int, calls : Int]
    <3>1. costQuery[n] \in [window : [start : Int, end : Int], rows : SUBSET Int, next : Int, calls : Int]
      BY <1>3, CostConstants DEF RowsUpToNext
    <3>2. costQuery[n].rows \cup costQuery[n].next .. to - 1 \in SUBSET Int
      BY <3>1
    <3>3. to \in Int /\ costQuery[n].calls + 1 \in Int
      BY <2>3, <3>1
    <3> QED
      BY <3>1, <3>2, <3>3
  <2> HIDE DEF q
  <2>7. ws .. to - 1 \subseteq M!Days /\ c + 1 \in 0 .. MaxPages
    BY <2>3, CostConstants
  <2>8. q.rows = ws .. to - 1 /\ q.rows \subseteq M!Days /\ q.calls \in 0 .. MaxPages
    BY <2>4, <2>5, <2>7
  <2>9. q \in [window : [start : Int, end : Int], rows : SUBSET M!Days, next : Int, calls : 0 .. MaxPages]
    BY <2>6, <2>8
  <2>10. q.window.start <= q.next /\ q.next <= q.window.end /\ q.rows = q.window.start .. q.next - 1
    BY <2>2, <2>3, <2>5, <2>8
  <2> QED
    BY <1>3, <2>2, <2>5, <2>8, <2>9, <2>10 DEF RowsUpToNext
<1> HIDE DEF q
<1>7. ASSUME NEW m \in Names
      PROVE  /\ RowsUpToNext(costQuery'[m]) /\ costQuery'[m].window = WindowOf(m)
             /\ costPc' = "query" => (M!Pending(costQuery'[m]) => costQuery'[m].calls < MaxPages)
  <2>1. CASE m = n
    <3>1. costQuery'[n] = q
      BY <1>2, <1>5
    <3> QED
      BY <2>1, <3>1, <1>5, <1>6, CostConstants DEF RowsUpToNext
  <2>2. CASE m # n
    BY <2>2, <1>0, <1>2, <1>5 DEF QueriesAreAsked, PagesLeft
  <2> QED
    BY <2>1, <2>2
<1>8. costQuery' = [m \in Names |-> costQuery'[m]] /\ DOMAIN costQuery' = Names
  BY <1>2, <1>5
<1>9. QueriesAreAsked' /\ PagesLeft'
  BY <1>0, <1>7, <1>8, SameQuestion DEF QueriesAreAsked, PagesLeft
<1>10. AllRead'
  BY <1>0, <1>1, <1>2, <1>5, SameQuestion DEF AllRead
<1>11. M!TypeOK'
  BY <1>0, <1>1, <1>2, <1>5, <1>6, <1>8 DEF M!TypeOK
<1> QED
  BY <1>0, <1>1, <1>9, <1>10, <1>11 DEF CostsInv

\* The sums are of the days, however they are said.
LEMMA SumsAreOfDays ==
  ASSUME NEW rows, NEW days, rows = days
  PROVE  M!summarise(rows) = M!CostOf(days)
BY DEF M!summarise, M!CostOf

\* When all pages are read a query has the days of its window.
LEMMA AllReadIsWindow ==
  ASSUME CostsInv, costPc = "file", NEW n \in Names
  PROVE  costQuery[n].rows = {d \in M!Days : WindowOf(n).start <= d /\ d < WindowOf(n).end}
<1>1. RowsUpToNext(costQuery[n]) /\ costQuery[n].window = WindowOf(n) /\ ~ M!Pending(costQuery[n])
  BY DEF CostsInv, QueriesAreAsked, AllRead
<1>2. /\ WindowOf(n).start \in Int /\ WindowOf(n).end \in Int
      /\ 1 <= WindowOf(n).start /\ WindowOf(n).start < WindowOf(n).end /\ WindowOf(n).end <= 11
  BY WindowsAreOfDays DEF CostsInv, QueriesAreAsked
<1>3. costQuery[n].rows = WindowOf(n).start .. WindowOf(n).end - 1
  BY <1>1, <1>2 DEF RowsUpToNext, M!Pending
<1>4. ASSUME NEW a \in Int, NEW b \in Int, 1 <= a, b <= 11
      PROVE  a .. b - 1 = {d \in M!Days : a <= d /\ d < b}
  BY <1>4, CostConstants
<1> QED
  BY <1>2, <1>3, <1>4

\* What is filed is every day, once.
LEMMA FilingIsRight ==
  ASSUME CostsInv, M!monthlyDocument
  PROVE  CostsInv'
<1>0. /\ AskedInYear /\ UNCHANGED <<costAsk, costQuery, costFaults>> /\ costPc = "file"
      /\ costPc' \in {"metrics", "shown"} /\ M!TypeOK /\ QueriesAreAsked /\ AllRead
      /\ document' = [wide |-> M!summarise(costQuery["wide"].rows), last7 |-> M!summarise(M!last7),
                      partial |-> costAsk.what = "month" /\ M!partial]
  BY DEF CostsInv, M!monthlyDocument
<1>1. AskedInYear' /\ NoneYet' /\ M!TypeOK' /\ QueriesAreAsked' /\ AllRead' /\ PagesLeft'
  BY <1>0, SameQuestion DEF NoneYet, QueriesAreAsked, AllRead, PagesLeft, M!TypeOK
<1>2. M!EveryDayOnce'
  <2> DEFINE full == {d \in M!Days : d < costAsk.now}
             wide == IF costAsk.what = "month"
                     THEN {d \in full : Year[costAsk.month] <= d /\ d < Year[costAsk.month + 1]}
                     ELSE {d \in full : d >= costAsk.now - LONG}
             last == {d \in full : d >= costAsk.now - WEEK}
  <2>1. DOMAIN costQuery = Names /\ "wide" \in Names
    BY <1>0 DEF QueriesAreAsked, Names
  <2>2. costQuery["wide"].rows = wide
    <3>1. costQuery["wide"].rows = {d \in M!Days : WindowOf("wide").start <= d /\ d < WindowOf("wide").end}
      BY <1>0, <2>1, AllReadIsWindow
    <3>2. CASE costAsk.what = "month"
      BY <1>0, <3>1, <3>2, WindowsAre, CostConstants DEF WindowOf
    <3>3. CASE costAsk.what = "report"
      BY <1>0, <3>1, <3>3, WindowsAre, CostConstants DEF WindowOf
    <3> QED
      BY <1>0, <3>2, <3>3 DEF AskedInYear
  <2>3. M!last7 = last
    <3>1. CASE "week" \in Names
      <4>1. costQuery["week"].rows = {d \in M!Days : M!week.start <= d /\ d < M!week.end}
        BY <1>0, <3>1, AllReadIsWindow DEF WindowOf
      <4>2. costQuery["week"].rows = last
        BY <1>0, <4>1, WindowsAre, CostConstants
      <4> QED
        BY <2>1, <3>1, <4>2 DEF M!last7
    <3>2. CASE "week" \notin Names
      <4>1. M!last7 = {d \in wide : costAsk.now - WEEK <= d /\ d < costAsk.now}
        BY <1>0, <2>1, <2>2, <3>2, WindowsAre DEF M!last7, M!within
      <4>2. CASE costAsk.what = "report"
        BY <1>0, <4>1, <4>2, WindowsAre, CostConstants
      <4>3. CASE costAsk.what = "month"
        <5>1. M!weekInside
          BY <3>2, <4>3 DEF Names
        <5>2. costAsk.now - WEEK >= Year[costAsk.month] /\ costAsk.now <= Year[costAsk.month + 1]
          BY <1>0, <5>1, WindowsAre DEF M!weekInside
        <5> QED
          BY <1>0, <4>1, <4>3, <5>2, WindowsAre, CostConstants
      <4> QED
        BY <1>0, <4>2, <4>3 DEF AskedInYear
    <3> QED
      BY <3>1, <3>2
  <2>4. /\ document'.wide = M!CostOf(wide) /\ document'.last7 = M!CostOf(last)
        /\ document'.partial = (costAsk.what = "month" /\ Year[costAsk.month + 1] > costAsk.now)
    BY <1>0, <2>2, <2>3, SumsAreOfDays, WindowsAre
  <2> QED
    BY <1>0, <2>4 DEF M!EveryDayOnce
<1> QED
  BY <1>0, <1>1, <1>2 DEF CostsInv

LEMMA CostsKeep ==
  ASSUME CostsInv, [M!Next]_(M!vars)
  PROVE  CostsInv'
<1>1. CASE M!costCheck
  BY <1>1, AskingMakesQueries
<1>2. CASE \E n \in M!Names : M!costAndUsagePages(n)
  BY <1>2, PageReads
<1>3. CASE M!Throw
  <2>1. /\ UNCHANGED <<costAsk, costQuery, document>> /\ costPc' = "threw" /\ costFaults' \in 0 .. MaxFaults
    BY <1>3, CostConstants DEF M!Throw, M!Fault, CostsInv, M!TypeOK
  <2> QED
    BY <2>1, SameQuestion
    DEF CostsInv, M!TypeOK, QueriesAreAsked, PagesLeft, AllRead, NoneYet, M!EveryDayOnce
<1>4. CASE M!monthlyDocument
  BY <1>4, FilingIsRight
<1>5. CASE M!putMetrics
  <2>1. UNCHANGED <<costAsk, costQuery, costFaults, document>> /\ costPc = "metrics" /\ costPc' = "filed"
    BY <1>5 DEF M!putMetrics
  <2> QED
    BY <2>1, SameQuestion
    DEF CostsInv, M!TypeOK, QueriesAreAsked, PagesLeft, AllRead, NoneYet, M!EveryDayOnce
<1>6. CASE UNCHANGED M!vars
  <2>1. UNCHANGED <<costPc, costAsk, costQuery, costFaults, document>>
    BY <1>6 DEF M!vars
  <2> QED
    BY <2>1, SameQuestion
    DEF CostsInv, M!TypeOK, QueriesAreAsked, PagesLeft, AllRead, NoneYet, M!EveryDayOnce
<1> QED
  BY <1>1, <1>2, <1>3, <1>4, <1>5, <1>6 DEF M!Next

-----------------------------------------------------------------------------
(* Keys.                                                                   *)

keyRoute == s1
keyParameter == s2
liveKeys == s3
rotation == s4
heldKey == s5
heldClient == s6
retired == s7
keyCall == s8
refusals == s9
failedHere == s10
keyFaults == s11

USE DEF keyRoute, keyParameter, liveKeys, rotation, heldKey, heldClient, retired, keyCall, refusals,
        failedHere, keyFaults

LEMMA KeyConstants == MaxKey \in Nat /\ MaxKey >= 1 /\ MaxFaults \in Nat
BY ConstantsAssumption DEF K!KeysAssumption

\* What the parameter says, and what it says next, is taken.
ParameterLives ==
  /\ keyParameter # 0 => keyParameter \in liveKeys
  /\ keyParameter = 0 => 1 \in liveKeys /\ rotation = "none"
  /\ rotation = "minted" => keyParameter + 1 \in liveKeys /\ keyParameter + 1 <= MaxKey

\* A container has its client from its key, and both when a call needs them.
ClientOfItsKey ==
  \A c \in Containers :
    /\ heldClient[c] \in {0, heldKey[c]}
    /\ keyCall[c] = "key" => heldClient[c] = 0 /\ heldKey[c] = 0
    /\ keyCall[c] = "start" => heldClient[c] = 0 /\ heldKey[c] # 0
    /\ keyCall[c] \in {"stream", "feedback", "compat"} => heldClient[c] # 0

\* A container that gets new requests holds a key that is taken, and after the bump the
\* new one: the others go with their containers.
HoldsLiveKey ==
  \A c \in Containers :
    ~ retired[c] /\ heldKey[c] # 0 =>
      heldKey[c] \in liveKeys /\ (rotation = "bumped" => heldKey[c] = keyParameter)

KeysInv == K!TypeOK /\ ParameterLives /\ ClientOfItsKey /\ HoldsLiveKey /\ K!RefusedForItsOwn

LEMMA KeysStart ==
  ASSUME K!Init
  PROVE  KeysInv
BY KeyConstants
DEF K!Init, KeysInv, K!TypeOK, K!Steps, ParameterLives, ClientOfItsKey, HoldsLiveKey, K!RefusedForItsOwn

\* A call that is answered, or refused because the key is not taken or for itself.
LEMMA CallKeeps ==
  ASSUME KeysInv, NEW c \in Containers, keyCall[c] \in {"stream", "feedback", "compat"},
         NEW what \in {"stream", "feedback", "compat"}, NEW k \in {heldKey[c], heldClient[c]},
         NEW next \in {"feedback", "compat", "record"}, K!Call(c, what, k, next)
  PROVE  KeysInv'
<1> USE KeyConstants DEF KeysInv, K!Goto, K!Refused, K!FailedHere, K!Fault, K!owner, K!Steps, K!TypeOK, K!Call
<1>1. k # 0 /\ k \in 0 .. MaxKey /\ (~ retired[c] => k \in liveKeys)
  BY DEF ClientOfItsKey, HoldsLiveKey
<1>2. K!TypeOK' /\ ParameterLives'
  <2>1. keyCall' \in [Containers -> K!Steps] /\ keyFaults' \in 0 .. MaxFaults
    OBVIOUS
  <2>2. refusals' \in [Containers -> SUBSET {"start", "stream", "feedback", "compat"}]
    OBVIOUS
  <2>3. failedHere' \in [Containers -> BOOLEAN]
    OBVIOUS
  <2>4. heldKey' \in [Containers -> 0 .. MaxKey] /\ heldClient' \in [Containers -> 0 .. MaxKey]
    OBVIOUS
  <2>5. ParameterLives' /\ UNCHANGED <<keyRoute, keyParameter, liveKeys, rotation, retired>>
    BY DEF ParameterLives
  <2> QED
    BY <2>1, <2>2, <2>3, <2>4, <2>5
<1>3. ClientOfItsKey'
  BY DEF ClientOfItsKey
<1>4. HoldsLiveKey'
  BY DEF HoldsLiveKey
<1>5. K!RefusedForItsOwn'
  <2> SUFFICES ASSUME NEW d \in Containers, refusals'[d] # {}
               PROVE  failedHere'[d] \/ retired[d]
    BY DEF K!RefusedForItsOwn
  <2>1. CASE d # c
    BY <2>1 DEF K!RefusedForItsOwn
  <2>2. CASE d = c
    BY <2>2, <1>1 DEF K!RefusedForItsOwn
  <2> QED
    BY <2>1, <2>2
<1> QED
  BY <1>2, <1>3, <1>4, <1>5

\* What a request does leaves the owner's side alone, and other containers.
LEMMA RequestsKeep ==
  ASSUME KeysInv, NEW c \in Containers,
         K!hostedRun(c) \/ K!keyOf(c) \/ K!start(c) \/ K!stream(c) \/ K!feedback(c) \/ K!compat(c)
           \/ K!putRun(c) \/ K!appendEvent(c) \/ K!Replace(c)
  PROVE  KeysInv'
<1> USE KeyConstants DEF KeysInv, K!At, K!Goto, K!Refused, K!FailedHere, K!Fault, K!owner, K!Steps, K!TypeOK
<1>1. CASE K!hostedRun(c)
  <2>1. ParameterLives' /\ K!TypeOK'
    BY <1>1 DEF K!hostedRun, ParameterLives
  <2>2. ClientOfItsKey'
    BY <1>1 DEF K!hostedRun, ClientOfItsKey
  <2>3. HoldsLiveKey'
    BY <1>1 DEF K!hostedRun, ClientOfItsKey, HoldsLiveKey, ParameterLives
  <2>4. K!RefusedForItsOwn'
    BY <1>1 DEF K!hostedRun, ClientOfItsKey, HoldsLiveKey, K!RefusedForItsOwn
  <2> QED
    BY <2>1, <2>2, <2>3, <2>4
<1>2. CASE K!keyOf(c)
  <2>1. ParameterLives' /\ K!TypeOK'
    <3>1. keyCall' \in [Containers -> K!Steps] /\ keyFaults' \in 0 .. MaxFaults
      BY <1>2 DEF K!keyOf, K!forgetRejected
    <3>2. refusals' \in [Containers -> SUBSET {"start", "stream", "feedback", "compat"}]
      BY <1>2 DEF K!keyOf, K!forgetRejected
    <3>3. failedHere' \in [Containers -> BOOLEAN]
      BY <1>2 DEF K!keyOf, K!forgetRejected
    <3>4. heldKey' \in [Containers -> 0 .. MaxKey] /\ heldClient' \in [Containers -> 0 .. MaxKey]
      BY <1>2 DEF K!keyOf, K!forgetRejected
    <3>5. ParameterLives' /\ UNCHANGED <<keyRoute, keyParameter, liveKeys, rotation, retired>>
      BY <1>2 DEF K!keyOf, K!forgetRejected, ParameterLives
    <3> QED
      BY <3>1, <3>2, <3>3, <3>4, <3>5
  <2>2. ClientOfItsKey'
    BY <1>2 DEF K!keyOf, K!forgetRejected, ClientOfItsKey
  <2>3. HoldsLiveKey'
    BY <1>2 DEF K!keyOf, K!forgetRejected, ClientOfItsKey, HoldsLiveKey, ParameterLives
  <2>4. K!RefusedForItsOwn'
    BY <1>2 DEF K!keyOf, K!forgetRejected, ClientOfItsKey, HoldsLiveKey, K!RefusedForItsOwn
  <2> QED
    BY <2>1, <2>2, <2>3, <2>4
<1>3. CASE K!start(c)
  <2>1. ParameterLives' /\ K!TypeOK'
    <3>1. keyCall' \in [Containers -> K!Steps] /\ keyFaults' \in 0 .. MaxFaults
      BY <1>3 DEF K!start
    <3>2. refusals' \in [Containers -> SUBSET {"start", "stream", "feedback", "compat"}]
      BY <1>3 DEF K!start
    <3>3. failedHere' \in [Containers -> BOOLEAN]
      BY <1>3 DEF K!start
    <3>4. heldKey' \in [Containers -> 0 .. MaxKey] /\ heldClient' \in [Containers -> 0 .. MaxKey]
      BY <1>3 DEF K!start
    <3>5. ParameterLives' /\ UNCHANGED <<keyRoute, keyParameter, liveKeys, rotation, retired>>
      BY <1>3 DEF K!start, ParameterLives
    <3> QED
      BY <3>1, <3>2, <3>3, <3>4, <3>5
  <2>2. ClientOfItsKey'
    BY <1>3 DEF K!start, ClientOfItsKey
  <2>3. HoldsLiveKey'
    BY <1>3 DEF K!start, ClientOfItsKey, HoldsLiveKey, ParameterLives
  <2>4. K!RefusedForItsOwn'
    BY <1>3 DEF K!start, ClientOfItsKey, HoldsLiveKey, K!RefusedForItsOwn
  <2> QED
    BY <2>1, <2>2, <2>3, <2>4
<1>4. CASE K!stream(c)
  BY <1>4, CallKeeps DEF K!stream
<1>5. CASE K!feedback(c)
  <2>1. CASE "stream" \notin refusals[c]
    BY <1>5, <2>1, CallKeeps DEF K!feedback
  <2>2. CASE "stream" \in refusals[c]
    <3>1. keyCall' = [keyCall EXCEPT ![c] = "compat"] /\ keyCall[c] = "feedback"
          /\ UNCHANGED <<keyRoute, keyParameter, liveKeys, rotation, heldKey, heldClient, retired, refusals,
                        failedHere, keyFaults>>
      BY <1>5, <2>2 DEF K!feedback
    <3>2. K!TypeOK' /\ ParameterLives' /\ HoldsLiveKey' /\ K!RefusedForItsOwn'
      BY <3>1 DEF ParameterLives, HoldsLiveKey, K!RefusedForItsOwn
    <3>3. ClientOfItsKey'
      BY <3>1 DEF ClientOfItsKey
    <3> QED
      BY <3>2, <3>3
  <2> QED
    BY <2>1, <2>2
<1>6. CASE K!compat(c)
  BY <1>6, CallKeeps DEF K!compat
<1>7. CASE K!putRun(c)
  <2>1. ParameterLives' /\ K!TypeOK'
    BY <1>7 DEF K!putRun, ParameterLives
  <2>2. ClientOfItsKey'
    BY <1>7 DEF K!putRun, ClientOfItsKey
  <2>3. HoldsLiveKey'
    BY <1>7 DEF K!putRun, ClientOfItsKey, HoldsLiveKey, ParameterLives
  <2>4. K!RefusedForItsOwn'
    BY <1>7 DEF K!putRun, ClientOfItsKey, HoldsLiveKey, K!RefusedForItsOwn
  <2> QED
    BY <2>1, <2>2, <2>3, <2>4
<1>8. CASE K!appendEvent(c)
  <2>1. ParameterLives' /\ K!TypeOK'
    BY <1>8 DEF K!appendEvent, ParameterLives
  <2>2. ClientOfItsKey'
    BY <1>8 DEF K!appendEvent, ClientOfItsKey
  <2>3. HoldsLiveKey'
    BY <1>8 DEF K!appendEvent, ClientOfItsKey, HoldsLiveKey, ParameterLives
  <2>4. K!RefusedForItsOwn'
    BY <1>8 DEF K!appendEvent, ClientOfItsKey, HoldsLiveKey, K!RefusedForItsOwn
  <2> QED
    BY <2>1, <2>2, <2>3, <2>4
<1>9. CASE K!Replace(c)
  <2>1. ParameterLives' /\ K!TypeOK'
    BY <1>9 DEF K!Replace, ParameterLives
  <2>2. ClientOfItsKey'
    BY <1>9 DEF K!Replace, ClientOfItsKey
  <2>3. HoldsLiveKey'
    BY <1>9 DEF K!Replace, ClientOfItsKey, HoldsLiveKey, ParameterLives
  <2>4. K!RefusedForItsOwn'
    BY <1>9 DEF K!Replace, ClientOfItsKey, HoldsLiveKey, K!RefusedForItsOwn
  <2> QED
    BY <2>1, <2>2, <2>3, <2>4
<1> QED
  BY <1>1, <1>2, <1>3, <1>4, <1>5, <1>6, <1>7, <1>8, <1>9

LEMMA KeysKeep ==
  ASSUME KeysInv, [K!Next]_(K!vars)
  PROVE  KeysInv'
<1> USE KeyConstants DEF KeysInv, K!container, K!TypeOK
<1>1. ASSUME NEW c \in Containers,
             K!hostedRun(c) \/ K!keyOf(c) \/ K!start(c) \/ K!stream(c) \/ K!feedback(c) \/ K!compat(c)
               \/ K!putRun(c) \/ K!appendEvent(c) \/ K!Replace(c)
      PROVE  KeysInv'
  BY <1>1, RequestsKeep
<1>2. CASE K!mint
  BY <1>2 DEF K!mint, ParameterLives, ClientOfItsKey, HoldsLiveKey, K!RefusedForItsOwn
<1>3. CASE K!put
  BY <1>3 DEF K!put, ParameterLives, ClientOfItsKey, HoldsLiveKey, K!RefusedForItsOwn
<1>4. CASE K!bump
  BY <1>4 DEF K!bump, ParameterLives, ClientOfItsKey, HoldsLiveKey, K!RefusedForItsOwn
<1>5. CASE K!revoke
  BY <1>5 DEF K!revoke, ParameterLives, ClientOfItsKey, HoldsLiveKey, K!RefusedForItsOwn
<1>6. CASE UNCHANGED K!vars
  BY <1>6 DEF K!vars, K!owner, ParameterLives, ClientOfItsKey, HoldsLiveKey, K!RefusedForItsOwn
<1> QED
  BY <1>1, <1>2, <1>3, <1>4, <1>5, <1>6 DEF K!Next

-----------------------------------------------------------------------------
(* The steps of a run.                                                     *)
runtime == s1
served == s2
runKind == s4
stepPc == s5
plan == s6
present == s7
said == s8
calls == s9
late == s10
captured == s11
lastSeen == s12
stepsMade == s13
record == s14
timelineRow == s15
filed == s16
USE DEF runtime, served, runKind, stepPc, plan, present, said, calls, late, captured, lastSeen, stepsMade,
        record, timelineRow, filed

StepNames == {"triage", "reply", "summary", "handoff"}
Said == {"none", "empty", "text"}
StepRecords ==
  [step : StepNames, generation : Nat, call : Nat, observation : Nat, output : Said,
   checks : {"none", "pass", "fail"}, judged : BOOLEAN, error : BOOLEAN]

AtWork == {"render", "call", "wait", "checks", "judge"}

StepsTypes ==
  /\ runtime \in {"node", "python"} /\ served \in Nat \ {0}
  /\ stepPc \in AtWork \cup {"idle", "record"}
  /\ plan \in Seq(StepNames) /\ present \in StepRecords /\ said \in Said
  /\ calls \in Nat /\ late \subseteq Nat /\ captured \in Seq(Nat) /\ lastSeen \in Nat
  /\ stepsMade \in Seq(StepRecords)

\* Which steps are behind the run and which before it.
PlanGoesOn ==
  /\ stepPc = "idle" => Len(stepsMade) = 0
  /\ stepPc \in AtWork =>
       /\ Len(plan) > 0 /\ present.step = plan[1]
       /\ \/ /\ runtime = "python" /\ runKind = "run"
             /\ Len(plan) = 1 /\ plan[1] = "reply" /\ Len(stepsMade) = 0
          \/ /\ runtime = "node" /\ runKind # "escalate"
             /\ Len(plan) = 2 /\ plan[1] = "triage" /\ plan[2] = "reply" /\ Len(stepsMade) = 0
          \/ /\ runtime = "node" /\ runKind # "escalate"
             /\ Len(plan) = 1 /\ plan[1] = "reply" /\ Len(stepsMade) = 1
          \/ /\ runtime = "node" /\ runKind = "escalate"
             /\ Len(plan) = 1 /\ plan[1] = "summary" /\ Len(stepsMade) = 0
          \/ /\ runtime = "node" /\ runKind = "escalate"
             /\ Len(plan) = 1 /\ plan[1] = "handoff" /\ Len(stepsMade) = 1
  /\ stepPc = "record" =>
       \/ runtime = "python" /\ runKind = "run" /\ Len(stepsMade) = 1
       \/ runtime = "node" /\ runKind # "escalate" /\ Len(stepsMade) = 2 /\ stepsMade[2].step = "reply"
       \/ runtime = "node" /\ runKind = "escalate" /\ Len(stepsMade) = 2
       \/ runtime = "node" /\ runKind = "escalate" /\ Len(stepsMade) = 1 /\ stepsMade[1].output # "text"

\* What may be said of a step that is over, by the worker's runtime, while a release is served.
StepTold(s, by, release) ==
  /\ s.call # 0 \/ by = "node" => s.observation \in {0, s.call}
  /\ s.generation <= release
  /\ ~ s.error /\ s.output # "none" =>
       /\ s.generation # 0 /\ s.call # 0
       /\ by = "node" /\ s.step = "reply" => s.judged \/ s.output = "empty"

StepsTold == \A i \in 1 .. Len(stepsMade) : StepTold(stepsMade[i], runtime, served)

\* The present step, and whose observations are collected.
PresentTold ==
  /\ stepPc \in AtWork => present.generation <= served
  /\ stepPc = "render" => present.call = 0 /\ present.observation = 0 /\ present.output = "none"
  /\ stepPc = "call" =>
       present.generation # 0 /\ present.call = 0 /\ present.observation = 0 /\ present.output = "none"
  /\ stepPc = "wait" =>
       /\ present.generation # 0 /\ present.call # 0 /\ present.observation = 0 /\ present.output = "none"
       /\ \A i \in 1 .. Len(captured) : captured[i] = present.call
  /\ stepPc \in {"checks", "judge"} =>
       present.generation # 0 /\ present.call # 0 /\ present.observation \in {0, present.call}
  /\ stepPc = "judge" => runtime = "node"
  /\ runtime = "python" /\ stepPc \in {"render", "call"} => late = {}
  /\ runtime = "python" /\ stepPc \in {"wait", "checks"} =>
       late \subseteq {present.call} /\ lastSeen \in {0, present.call}

\* What was put of the last run.
RecordTold ==
  /\ record.ok =>
       /\ \A s \in N!Range(record.steps) : s.generation # 0 /\ s.call # 0
       /\ record.kind # "escalate" /\ runtime = "node" =>
            /\ Len(record.steps) = 2
            /\ record.steps[2].judged \/ record.steps[2].output = "empty"
       /\ record.kind = "escalate" => Len(record.steps) = 2 \/ record.steps[1].output = "empty"
  /\ \A s \in N!Range(record.steps) : s.generation <= record.generation
  /\ timelineRow.version <= timelineRow.generation
  /\ filed # "none" => \E s \in N!Range(record.steps) : s.step = "reply" /\ s.output = "text"

StepsInv == StepsTypes /\ PlanGoesOn /\ StepsTold /\ PresentTold /\ RecordTold

LEMMA StepsConstants == MaxReleases \in Nat \ {0} /\ MaxSteps \in Nat
BY ConstantsAssumption DEF N!StepsAssumption

LEMMA StepsTell == StepsInv => N!RunTellsWhatHappened
<1> SUFFICES ASSUME StepsInv PROVE N!RunTellsWhatHappened
  OBVIOUS
<1>1. ASSUME NEW s \in N!Range(stepsMade) PROVE s.call # 0 \/ runtime = "node" => s.observation \in {0, s.call}
  <2>1. PICK i \in 1 .. Len(stepsMade) : s = stepsMade[i]
    BY <1>1 DEF N!Range, StepsInv, StepsTypes
  <2> QED BY <2>1 DEF StepsInv, StepsTold, StepTold
<1> QED BY <1>1 DEF StepsInv, RecordTold, N!RunTellsWhatHappened

LEMMA EmptyStep ==
  ASSUME NEW n \in StepNames
  PROVE  /\ N!emptyStep(n) \in StepRecords /\ N!emptyStep(n).step = n /\ N!emptyStep(n).generation = 0
         /\ N!emptyStep(n).call = 0 /\ N!emptyStep(n).observation = 0 /\ N!emptyStep(n).output = "none"
BY DEF N!emptyStep, StepRecords, Said

LEMMA StepsStart == ASSUME N!Init PROVE StepsInv
<1>1. /\ runtime \in {"node", "python"} /\ served = 1 /\ runKind = "run" /\ stepPc = "idle" /\ plan = <<>>
      /\ present = N!Nothing /\ said = "none" /\ calls = 0 /\ late = {} /\ captured = <<>> /\ lastSeen = 0
      /\ stepsMade = <<>> /\ record = N!NoRecord /\ timelineRow = N!NoRow /\ filed = "none"
  BY DEF N!Init
<1>2. present \in StepRecords
  BY <1>1, EmptyStep DEF N!Nothing, StepNames
<1>3. StepsTypes
  BY <1>1, <1>2 DEF StepsTypes, Said
<1>4. PlanGoesOn /\ StepsTold /\ PresentTold
  BY <1>1 DEF PlanGoesOn, StepsTold, PresentTold, AtWork
<1>5. RecordTold
  <2>1. record.ok = FALSE /\ record.steps = <<>> /\ timelineRow.version = 0 /\ timelineRow.generation = 0
    BY <1>1 DEF N!NoRecord, N!NoRow
  <2>2. N!Range(record.steps) = {}
    BY <2>1 DEF N!Range
  <2> QED BY <1>1, <2>1, <2>2 DEF RecordTold
<1> QED BY <1>3, <1>4, <1>5 DEF StepsInv

LEMMA TailOfPlan ==
  ASSUME NEW p \in Seq(StepNames), Len(p) > 0
  PROVE  /\ Tail(p) \in Seq(StepNames)
         /\ Len(p) = 1 => Tail(p) = <<>>
         /\ Len(p) = 2 => Len(Tail(p)) = 1 /\ Tail(p)[1] = p[2] /\ Head(Tail(p)) = p[2] /\ Tail(p) # <<>>
<1> DEFINE t == Tail(p)
<1>1. /\ t \in Seq(StepNames) /\ Len(p) \in Nat /\ Len(t) = Len(p) - 1
      /\ \A i \in 1 .. Len(t) : t[i] = p[i + 1]
  OBVIOUS
<1> HIDE DEF t
<1>2. Len(p) = 1 => t = <<>>
  BY <1>1
<1>3. ASSUME Len(p) = 2 PROVE Len(t) = 1 /\ t[1] = p[2] /\ Head(t) = p[2] /\ t # <<>>
  <2>1. Len(t) = 1 /\ 1 \in 1 .. Len(t) /\ 1 + 1 = 2
    BY <1>1, <1>3
  <2>2. t[1] = p[2]
    BY <1>1, <2>1
  <2>3. t # <<>>
    <3>1. SUFFICES ASSUME t = <<>> PROVE FALSE
      OBVIOUS
    <3>2. Len(t) = 0
      BY <3>1
    <3> QED BY <2>1, <3>2
  <2>4. Head(t) = t[1]
    BY <1>1, <2>3
  <2> QED BY <2>1, <2>2, <2>3, <2>4
<1> QED BY <1>1, <1>2, <1>3 DEF t

\* A step is over and told: the next one of the plan begins, or the run is to be recorded.
LEMMA StepOver ==
  ASSUME StepsInv, stepPc \in AtWork, NEW s \in StepRecords, s.step = plan[1], StepTold(s, runtime, served), N!Over(s),
         UNCHANGED <<runtime, served, runKind, said, calls, late, captured, lastSeen, record, timelineRow, filed>>
  PROVE  StepsInv'
<1> DEFINE rest == IF s.step = "summary" /\ s.output = "text" THEN <<"handoff">> ELSE Tail(plan)
<1>1. /\ stepsMade' = Append(stepsMade, s) /\ plan' = rest
      /\ stepPc' = (IF rest = <<>> THEN "record" ELSE "render")
      /\ present' = (IF rest = <<>> THEN N!Nothing ELSE N!emptyStep(Head(rest)))
  BY DEF N!Over
<1>2. /\ stepsMade' \in Seq(StepRecords) /\ Len(stepsMade') = Len(stepsMade) + 1 /\ Len(stepsMade) \in Nat
      /\ \A i \in 1 .. Len(stepsMade) : stepsMade'[i] = stepsMade[i]
      /\ \A i \in Nat : i = Len(stepsMade) + 1 => stepsMade'[i] = s
  BY <1>1 DEF StepsInv, StepsTypes
<1>3. StepsTold'
  <2>1. ASSUME NEW i \in 1 .. Len(stepsMade') PROVE StepTold(stepsMade'[i], runtime, served)
    <3>1. i \in 1 .. Len(stepsMade) \/ i = Len(stepsMade) + 1
      BY <1>2
    <3> QED BY <1>2, <3>1 DEF StepsInv, StepsTold
  <2> QED BY <2>1 DEF StepsTold
<1>4. plan \in Seq(StepNames) /\ Len(plan) \in Nat /\ Len(plan) > 0
  BY DEF StepsInv, StepsTypes, PlanGoesOn
<1>5. CASE s.step = "summary" /\ s.output = "text"
  <2>1. plan' = <<"handoff">> /\ stepPc' = "render" /\ present' = N!emptyStep("handoff")
    BY <1>1, <1>5
  <2>2. plan' \in Seq(StepNames) /\ Len(plan') = 1 /\ plan'[1] = "handoff"
    BY <2>1 DEF StepNames
  <2>3. present' \in StepRecords /\ present'.step = "handoff" /\ present'.generation = 0 /\ present'.call = 0
        /\ present'.observation = 0 /\ present'.output = "none"
    BY <2>1, EmptyStep DEF StepNames
  <2>4. runtime = "node" /\ runKind = "escalate" /\ Len(stepsMade) = 0
    BY <1>5 DEF StepsInv, PlanGoesOn
  <2>5. StepsTypes'
    BY <1>2, <2>1, <2>2, <2>3 DEF StepsInv, StepsTypes, AtWork
  <2>6. PlanGoesOn'
    BY <1>2, <2>1, <2>2, <2>3, <2>4 DEF PlanGoesOn
  <2>7. PresentTold'
    BY <2>1, <2>3, <2>4 DEF PresentTold, StepsInv, StepsTypes
  <2>8. RecordTold'
    BY DEF StepsInv, RecordTold
  <2> QED BY <1>3, <2>5, <2>6, <2>7, <2>8 DEF StepsInv
<1>6. CASE ~ (s.step = "summary" /\ s.output = "text") /\ Len(plan) = 1
  <2>1. plan' = Tail(plan) /\ plan' \in Seq(StepNames) /\ plan' = <<>>
    BY <1>1, <1>4, <1>6, TailOfPlan
  <2>2. stepPc' = "record" /\ present' = N!Nothing
    BY <1>1, <1>6, <2>1
  <2>3. present' \in StepRecords
    BY <2>2, EmptyStep DEF N!Nothing, StepNames
  <2>4. StepsTypes'
    BY <1>2, <2>1, <2>2, <2>3 DEF StepsInv, StepsTypes, AtWork
  <2>5. PlanGoesOn'
    <3>1. \/ runtime = "python" /\ runKind = "run" /\ Len(stepsMade) = 0
          \/ runtime = "node" /\ runKind # "escalate" /\ Len(stepsMade) = 1 /\ s.step = "reply"
          \/ runtime = "node" /\ runKind = "escalate" /\ Len(stepsMade) = 1
          \/ runtime = "node" /\ runKind = "escalate" /\ Len(stepsMade) = 0 /\ s.output # "text"
      BY <1>6 DEF StepsInv, PlanGoesOn
    <3>2. Len(stepsMade) = 0 => Len(stepsMade') = 1
      BY <1>2
    <3>3. Len(stepsMade) = 0 => stepsMade'[1] = s
      BY <1>2
    <3>4. Len(stepsMade) = 1 => Len(stepsMade') = 2
      BY <1>2
    <3>5. Len(stepsMade) = 1 => stepsMade'[2] = s
      BY <1>2
    <3> QED BY <2>2, <3>1, <3>2, <3>3, <3>4, <3>5 DEF PlanGoesOn, AtWork
  <2>6. PresentTold'
    BY <2>2 DEF PresentTold, AtWork
  <2>7. RecordTold'
    BY DEF StepsInv, RecordTold
  <2> QED BY <1>3, <2>4, <2>5, <2>6, <2>7 DEF StepsInv
<1>7. CASE Len(plan) = 2
  <2>1. /\ runtime = "node" /\ runKind # "escalate" /\ plan[1] = "triage" /\ plan[2] = "reply" /\ Len(stepsMade) = 0
    BY <1>7 DEF StepsInv, PlanGoesOn
  <2>2. plan' = Tail(plan)
    BY <1>1, <2>1
  <2>3. plan' \in Seq(StepNames) /\ Len(plan') = 1 /\ plan'[1] = "reply" /\ Head(plan') = "reply" /\ plan' # <<>>
    BY <1>4, <1>7, <2>1, <2>2, TailOfPlan
  <2>4. stepPc' = "render" /\ present' = N!emptyStep("reply")
    BY <1>1, <2>3
  <2>5. present' \in StepRecords /\ present'.step = "reply" /\ present'.generation = 0 /\ present'.call = 0
        /\ present'.observation = 0 /\ present'.output = "none"
    BY <2>4, EmptyStep DEF StepNames
  <2>6. StepsTypes'
    BY <1>2, <2>3, <2>4, <2>5 DEF StepsInv, StepsTypes, AtWork
  <2>7. PlanGoesOn'
    BY <1>2, <2>1, <2>3, <2>4, <2>5 DEF PlanGoesOn
  <2>8. PresentTold'
    BY <2>1, <2>4, <2>5 DEF PresentTold, StepsInv, StepsTypes
  <2>9. RecordTold'
    BY DEF StepsInv, RecordTold
  <2> QED BY <1>3, <2>6, <2>7, <2>8, <2>9 DEF StepsInv
<1>8. Len(plan) \in {1, 2}
  BY DEF StepsInv, PlanGoesOn
<1> QED BY <1>5, <1>6, <1>7, <1>8

\* What fails is over, and told: Python's look for the observation finds that of this call.
LEMMA StepFails ==
  ASSUME StepsInv, stepPc \in AtWork, NEW s \in StepRecords, s.step = plan[1], s.generation <= served,
         s.call # 0 \/ runtime = "node" => s.observation \in {0, s.call},
         s.call # 0 /\ runtime = "python" => lastSeen \in {0, s.call},
         N!Failed(s),
         UNCHANGED <<runtime, served, runKind, said, calls, late, captured, lastSeen, record, timelineRow, filed>>
  PROVE  StepsInv'
<1> DEFINE f == [s EXCEPT !.error = TRUE,
                          !.observation = IF runtime = "python" /\ s.observation = 0 THEN lastSeen ELSE s.observation]
<1>1. N!Over(f)
  BY DEF N!Failed
<1>2. /\ f.step = s.step /\ f.generation = s.generation /\ f.call = s.call /\ f.output = s.output /\ f.error = TRUE
      /\ f.observation = IF runtime = "python" /\ s.observation = 0 THEN lastSeen ELSE s.observation
  BY DEF StepRecords
<1>3. f \in StepRecords
  <2>1. lastSeen \in Nat
    BY DEF StepsInv, StepsTypes
  <2> QED BY <2>1 DEF StepRecords
<1> HIDE DEF f
<1>4. runtime \in {"node", "python"}
  BY DEF StepsInv, StepsTypes
<1>5. StepTold(f, runtime, served)
  BY <1>2, <1>4 DEF StepTold
<1> QED BY <1>1, <1>2, <1>3, <1>5, StepOver

LEMMA StepsKeep == ASSUME StepsInv, [N!Next]_(N!vars) PROVE StepsInv'
<1>1. ASSUME N!runTicket PROVE StepsInv'
  <2>1. /\ stepPc = "idle" /\ (runtime = "python" => late = {})
        /\ runKind' \in (IF runtime = "python" THEN {"run"} ELSE {"run", "direct", "escalate"})
        /\ plan' = CASE runtime = "python" -> <<"reply">>
                     [] runKind' = "escalate" -> <<"summary">>
                     [] OTHER -> <<"triage", "reply">>
        /\ present' = N!emptyStep(Head(plan')) /\ stepPc' = "render"
        /\ record' = N!NoRecord /\ timelineRow' = N!NoRow /\ filed' = "none"
        /\ UNCHANGED <<runtime, served, said, stepsMade, calls, late, captured, lastSeen>>
    BY <1>1 DEF N!runTicket, N!Kinds, N!sdk, N!process
  <2>2. \/ runtime = "python" /\ runKind' = "run" /\ plan' = <<"reply">>
        \/ runtime = "node" /\ runKind' = "escalate" /\ plan' = <<"summary">>
        \/ runtime = "node" /\ runKind' # "escalate" /\ plan' = <<"triage", "reply">>
    BY <2>1 DEF StepsInv, StepsTypes
  <2>3. plan' \in Seq(StepNames) /\ Len(plan') > 0 /\ Head(plan') = plan'[1] /\ plan'[1] \in StepNames
    <3>1. CASE plan' = <<"reply">>
      BY <3>1 DEF StepNames
    <3>2. CASE plan' = <<"summary">>
      BY <3>2 DEF StepNames
    <3>3. CASE plan' = <<"triage", "reply">>
      BY <3>3 DEF StepNames
    <3> QED BY <2>2, <3>1, <3>2, <3>3
  <2>4. present' \in StepRecords /\ present'.step = plan'[1] /\ present'.generation = 0 /\ present'.call = 0
        /\ present'.observation = 0 /\ present'.output = "none"
    BY <2>1, <2>3, EmptyStep
  <2>5. StepsTypes'
    BY <2>1, <2>3, <2>4 DEF StepsInv, StepsTypes, AtWork
  <2>6. PlanGoesOn'
    BY <2>1, <2>2, <2>3, <2>4 DEF StepsInv, PlanGoesOn, AtWork
  <2>7. StepsTold'
    BY <2>1 DEF StepsInv, StepsTold
  <2>8. PresentTold'
    BY <2>1, <2>4 DEF PresentTold, StepsInv, StepsTypes
  <2>9. RecordTold'
    <3>1. record'.ok = FALSE /\ record'.steps = <<>> /\ timelineRow'.version = 0 /\ timelineRow'.generation = 0
      BY <2>1 DEF N!NoRecord, N!NoRow
    <3>2. N!Range(record'.steps) = {}
      BY <3>1 DEF N!Range
    <3> QED BY <2>1, <3>1, <3>2 DEF RecordTold
  <2> QED BY <2>5, <2>6, <2>7, <2>8, <2>9 DEF StepsInv
<1>2. ASSUME N!render PROVE StepsInv'
  <2>1. /\ stepPc = "render"
        /\ UNCHANGED <<runtime, served, runKind, said, calls, late, captured, lastSeen, record, timelineRow, filed>>
    BY <1>2 DEF N!render, N!sdk, N!process, N!written
  <2>2. /\ present \in StepRecords /\ present.step = plan[1] /\ present.generation <= served
        /\ present.call = 0 /\ present.observation = 0 /\ present.output = "none"
        /\ served \in Nat \ {0}
    BY <2>1 DEF StepsInv, StepsTypes, PlanGoesOn, PresentTold, AtWork
  <2>3. CASE present' = [present EXCEPT !.generation = served] /\ stepPc' = "call" /\ UNCHANGED <<plan, stepsMade>>
    <3>1. present' \in StepRecords /\ present'.step = present.step /\ present'.generation = served
          /\ present'.call = 0 /\ present'.observation = 0 /\ present'.output = "none"
      BY <2>2, <2>3 DEF StepRecords
    <3>2. StepsTypes'
      BY <2>1, <2>3, <3>1 DEF StepsInv, StepsTypes, AtWork
    <3>3. PlanGoesOn'
      BY <2>1, <2>3, <3>1 DEF StepsInv, PlanGoesOn, AtWork
    <3>4. PresentTold'
      BY <2>1, <2>2, <2>3, <3>1 DEF StepsInv, PresentTold
    <3>5. StepsTold' /\ RecordTold'
      BY <2>1, <2>3 DEF StepsInv, StepsTold, RecordTold
    <3> QED BY <3>2, <3>3, <3>4, <3>5 DEF StepsInv
  <2>4. CASE N!Failed(present)
    BY <2>1, <2>2, <2>4, StepFails DEF AtWork
  <2> QED BY <1>2, <2>3, <2>4 DEF N!render
\* The call is made.
<1>3. ASSUME stepPc = "call", N!Call, UNCHANGED <<runtime, served, runKind, record, timelineRow, filed>>
      PROVE  StepsInv'
  <2>1. /\ calls' = calls + 1 /\ late' \in {late, late \cup {calls'}}
        /\ present' = [present EXCEPT !.call = calls'] /\ said' \in {"none", "empty", "text"}
        /\ captured' = <<>> /\ lastSeen' = 0 /\ stepPc' = "wait" /\ UNCHANGED <<plan, stepsMade>>
    BY <1>3 DEF N!Call, N!Outputs
  <2>2. /\ present \in StepRecords /\ present.generation # 0 /\ present.generation <= served
        /\ present.observation = 0 /\ present.output = "none" /\ (runtime = "python" => late = {})
    BY <1>3 DEF StepsInv, StepsTypes, PresentTold, AtWork
  <2>3. PICK c \in Nat : calls' = c /\ c # 0
    BY <2>1 DEF StepsInv, StepsTypes
  <2>4. present' \in StepRecords /\ present'.step = present.step /\ present'.generation = present.generation
        /\ present'.call = c /\ present'.observation = 0 /\ present'.output = "none"
    BY <2>1, <2>2, <2>3 DEF StepRecords
  <2>5. captured' \in Seq(Nat) /\ Len(captured') = 0
    BY <2>1
  <2>6. StepsTypes'
    BY <1>3, <2>1, <2>3, <2>4, <2>5 DEF StepsInv, StepsTypes, AtWork, Said
  <2>7. PlanGoesOn'
    BY <1>3, <2>1, <2>4 DEF StepsInv, PlanGoesOn, AtWork
  <2>8. PresentTold'
    BY <1>3, <2>1, <2>2, <2>3, <2>4, <2>5 DEF PresentTold
  <2>9. StepsTold' /\ RecordTold'
    BY <1>3, <2>1 DEF StepsInv, StepsTold, RecordTold
  <2> QED BY <2>6, <2>7, <2>8, <2>9 DEF StepsInv
\* It cannot be made.
<1>4. ASSUME stepPc = "call", N!Failed(present),
             UNCHANGED <<runtime, served, runKind, said, calls, late, captured, lastSeen, record, timelineRow, filed>>
      PROVE  StepsInv'
  <2>1. present \in StepRecords /\ present.step = plan[1] /\ present.generation <= served
        /\ present.call = 0 /\ present.observation = 0
    BY <1>4 DEF StepsInv, StepsTypes, PlanGoesOn, PresentTold, AtWork
  <2> QED BY <1>4, <2>1, StepFails DEF AtWork
<1>5. ASSUME N!complete \/ N!completeDirect \/ N!completion PROVE StepsInv'
  <2>1. stepPc = "call" /\ UNCHANGED <<runtime, served, runKind, record, timelineRow, filed>>
    BY <1>5 DEF N!complete, N!completeDirect, N!completion, N!sdk, N!written
  <2>2. N!Call \/ (N!Failed(present) /\ UNCHANGED <<said, calls, late, captured, lastSeen>>)
    BY <1>5 DEF N!complete, N!completeDirect, N!completion, N!process
  <2> QED BY <1>3, <1>4, <2>1, <2>2
<1>6. ASSUME NEW c \in late, N!observe(c) PROVE StepsInv'
  <2>1. /\ late' = late \ {c}
        /\ \/ runtime = "python" /\ lastSeen' = c /\ captured' = captured
           \/ /\ runtime # "python" /\ lastSeen' = lastSeen
              /\ \/ stepPc = "wait" /\ c = present.call /\ captured' = Append(captured, c)
                 \/ captured' = captured
        /\ UNCHANGED <<runtime, served, runKind, stepPc, plan, present, said, calls, stepsMade, record, timelineRow, filed>>
    BY <1>6 DEF N!observe, N!collector, N!sdk, N!written
  <2>2. c \in Nat
    BY <1>6 DEF StepsInv, StepsTypes
  <2>3. captured \in Seq(Nat) /\ Append(captured, c) \in Seq(Nat) /\ Len(Append(captured, c)) = Len(captured) + 1
        /\ \A i \in 1 .. Len(captured) + 1 : Append(captured, c)[i] = IF i = Len(captured) + 1 THEN c ELSE captured[i]
    BY <2>2 DEF StepsInv, StepsTypes
  <2>4. StepsTypes'
    BY <2>1, <2>2, <2>3 DEF StepsInv, StepsTypes
  <2>5. PlanGoesOn'
    BY <2>1 DEF StepsInv, PlanGoesOn
  <2>6. PresentTold'
    <3>1. ASSUME stepPc = "wait", NEW i \in 1 .. Len(captured') PROVE captured'[i] = present.call
      <4>1. CASE captured' = captured
        BY <3>1, <4>1 DEF StepsInv, PresentTold
      <4>2. CASE c = present.call /\ captured' = Append(captured, c)
        <5>1. i \in 1 .. Len(captured) + 1 /\ Len(captured) \in Nat
          BY <2>3, <3>1, <4>2
        <5>2. i = Len(captured) + 1 \/ i \in 1 .. Len(captured)
          BY <5>1
        <5> QED BY <2>3, <3>1, <4>2, <5>1, <5>2 DEF StepsInv, PresentTold
      <4> QED BY <2>1, <4>1, <4>2
    <3>2. runtime = "python" /\ stepPc \in {"wait", "checks"} => lastSeen' \in {0, present.call}
      BY <1>6, <2>1 DEF StepsInv, PresentTold
    <3>3. late' \subseteq late
      BY <2>1
    <3> QED BY <2>1, <3>1, <3>2, <3>3 DEF StepsInv, PresentTold
  <2>7. StepsTold' /\ RecordTold'
    BY <2>1 DEF StepsInv, StepsTold, RecordTold
  <2> QED BY <2>4, <2>5, <2>6, <2>7 DEF StepsInv
<1>7. ASSUME N!collectObservations PROVE StepsInv'
  <2> DEFINE seen == IF runtime = "python" THEN lastSeen ELSE IF captured = <<>> THEN 0 ELSE Head(captured)
             s == [present EXCEPT !.observation = seen, !.output = said]
  <2>1. /\ stepPc = "wait"
        /\ IF said = "none" THEN N!Failed(s)
           ELSE present' = s /\ stepPc' = "checks" /\ UNCHANGED <<plan, stepsMade>>
        /\ UNCHANGED <<runtime, served, runKind, said, calls, late, captured, lastSeen, record, timelineRow, filed>>
    BY <1>7 DEF N!collectObservations, N!sdk, N!process, N!written
  <2>2. /\ present \in StepRecords /\ present.step = plan[1] /\ present.generation <= served
        /\ present.generation # 0 /\ present.call # 0 /\ captured \in Seq(Nat)
        /\ \A i \in 1 .. Len(captured) : captured[i] = present.call
        /\ runtime = "python" => late \subseteq {present.call} /\ lastSeen \in {0, present.call}
        /\ said \in Said /\ lastSeen \in Nat /\ present.call \in Nat
    BY <2>1 DEF StepsInv, StepsTypes, PlanGoesOn, PresentTold, AtWork, StepRecords
  <2>3. seen \in {0, present.call}
    <3>1. ASSUME captured # <<>> PROVE Head(captured) = present.call
      <4>1. Head(captured) = captured[1] /\ 1 \in 1 .. Len(captured)
        BY <2>2, <3>1
      <4> QED BY <2>2, <4>1
    <3> QED BY <2>2, <3>1
  <2> HIDE DEF seen
  <2>4. seen \in Nat
    BY <2>2, <2>3
  <2>5. s \in StepRecords
    BY <2>2, <2>4 DEF StepRecords
  <2>6. s.step = present.step /\ s.generation = present.generation /\ s.call = present.call
        /\ s.observation = seen /\ s.output = said /\ s.judged = present.judged
    BY <2>2 DEF StepRecords
  <2> HIDE DEF s
  <2>7. CASE said = "none"
    <3>1. s.call # 0 \/ runtime = "node" => s.observation \in {0, s.call}
      BY <2>3, <2>6
    <3>2. s.call # 0 /\ runtime = "python" => lastSeen \in {0, s.call}
      BY <2>2, <2>6
    <3> QED BY <2>1, <2>2, <2>5, <2>6, <2>7, <3>1, <3>2, StepFails DEF AtWork
  <2>8. CASE said # "none"
    <3>1. present' = s /\ stepPc' = "checks" /\ UNCHANGED <<plan, stepsMade>>
      BY <2>1, <2>8
    <3>2. StepsTypes'
      BY <2>1, <2>5, <3>1 DEF StepsInv, StepsTypes, AtWork
    <3>3. PlanGoesOn'
      BY <2>1, <2>6, <3>1 DEF StepsInv, PlanGoesOn, AtWork
    <3>4. PresentTold'
      BY <2>1, <2>2, <2>3, <2>6, <3>1 DEF PresentTold, AtWork
    <3>5. StepsTold' /\ RecordTold'
      BY <2>1, <3>1 DEF StepsInv, StepsTold, RecordTold
    <3> QED BY <3>2, <3>3, <3>4, <3>5 DEF StepsInv
  <2> QED BY <2>7, <2>8
<1>8. ASSUME N!checks PROVE StepsInv'
  <2>1. /\ stepPc = "checks"
        /\ UNCHANGED <<runtime, served, runKind, said, calls, late, captured, lastSeen, record, timelineRow, filed>>
    BY <1>8 DEF N!checks, N!sdk, N!process, N!written
  <2>2. /\ present \in StepRecords /\ present.step = plan[1] /\ present.generation <= served
        /\ present.generation # 0 /\ present.call # 0 /\ present.observation \in {0, present.call}
        /\ runtime = "python" => late \subseteq {present.call} /\ lastSeen \in {0, present.call}
        /\ runtime \in {"node", "python"}
    BY <2>1 DEF StepsInv, StepsTypes, PlanGoesOn, PresentTold, AtWork
  <2>3. ASSUME NEW result \in {"none", "pass", "fail"},
               LET s == [present EXCEPT !.checks = result] IN
               IF runtime = "node" /\ s.step = "reply" /\ s.output = "text"
               THEN present' = s /\ stepPc' = "judge" /\ UNCHANGED <<plan, stepsMade>>
               ELSE N!Over(s)
        PROVE  StepsInv'
    <3> DEFINE s == [present EXCEPT !.checks = result]
    <3>1. s \in StepRecords
      BY <2>2 DEF StepRecords
    <3>2. s.step = present.step /\ s.generation = present.generation /\ s.call = present.call
          /\ s.observation = present.observation /\ s.output = present.output
      BY <2>2 DEF StepRecords
    <3>3. IF runtime = "node" /\ s.step = "reply" /\ s.output = "text"
          THEN present' = s /\ stepPc' = "judge" /\ UNCHANGED <<plan, stepsMade>>
          ELSE N!Over(s)
      BY <2>3
    <3> HIDE DEF s
    <3>4. CASE runtime = "node" /\ s.step = "reply" /\ s.output = "text"
      <4>1. present' = s /\ stepPc' = "judge" /\ UNCHANGED <<plan, stepsMade>>
        BY <3>3, <3>4
      <4>2. StepsTypes'
        BY <2>1, <3>1, <4>1 DEF StepsInv, StepsTypes, AtWork
      <4>3. PlanGoesOn'
        BY <2>1, <3>2, <4>1 DEF StepsInv, PlanGoesOn, AtWork
      <4>4. PresentTold'
        BY <2>1, <2>2, <3>2, <3>4, <4>1 DEF PresentTold, AtWork
      <4>5. StepsTold' /\ RecordTold'
        BY <2>1, <4>1 DEF StepsInv, StepsTold, RecordTold
      <4> QED BY <4>2, <4>3, <4>4, <4>5 DEF StepsInv
    <3>5. CASE ~ (runtime = "node" /\ s.step = "reply" /\ s.output = "text")
      <4>1. N!Over(s)
        BY <3>3, <3>5
      <4>2. s.output \in {"none", "empty", "text"}
        BY <3>1 DEF StepRecords, Said
      <4>3. StepTold(s, runtime, served)
        BY <2>2, <3>2, <3>5, <4>2 DEF StepTold
      <4> QED BY <2>1, <2>2, <3>1, <3>2, <4>1, <4>3, StepOver DEF AtWork
    <3> QED BY <3>4, <3>5
  <2>4. CASE N!Failed(present)
    BY <2>1, <2>2, <2>4, StepFails DEF AtWork
  <2> QED BY <1>8, <2>3, <2>4 DEF N!checks
<1>9. ASSUME N!judge PROVE StepsInv'
  <2>1. /\ stepPc = "judge"
        /\ UNCHANGED <<runtime, served, runKind, said, calls, late, captured, lastSeen, record, timelineRow, filed>>
    BY <1>9 DEF N!judge, N!sdk, N!process, N!written
  <2>2. /\ present \in StepRecords /\ present.step = plan[1] /\ present.generation <= served
        /\ present.generation # 0 /\ present.call # 0 /\ present.observation \in {0, present.call}
    BY <2>1 DEF StepsInv, StepsTypes, PlanGoesOn, PresentTold, AtWork
  <2>3. ASSUME NEW s \in {[present EXCEPT !.judged = TRUE], [present EXCEPT !.error = TRUE]}, N!Over(s) PROVE StepsInv'
    <3>1. s \in StepRecords
      BY <2>2, <2>3 DEF StepRecords
    <3>2. s.step = present.step /\ s.generation = present.generation /\ s.call = present.call
          /\ s.observation = present.observation /\ (s.judged = TRUE \/ s.error = TRUE)
      BY <2>2, <2>3 DEF StepRecords
    <3>3. StepTold(s, runtime, served)
      BY <2>2, <3>2 DEF StepTold
    <3> QED BY <2>1, <2>2, <2>3, <3>1, <3>2, <3>3, StepOver DEF AtWork
  <2> QED BY <1>9, <2>3 DEF N!judge
<1>10. ASSUME N!putRun PROVE StepsInv'
  <2>1. /\ stepPc = "record" /\ stepPc' = "idle" /\ stepsMade' = <<>> /\ said' = "none" /\ captured' = <<>>
        /\ record' = [kind |-> runKind, generation |-> served, steps |-> stepsMade,
                      ok |-> \A s \in N!Range(stepsMade) : ~ s.error /\ s.output # "none"]
        /\ timelineRow' = [generation |-> served, version |-> N!eventStep.generation]
        /\ filed' = N!feedbackFromChecks(N!eventStep)
        /\ UNCHANGED <<runtime, served, runKind, plan, present, calls, late, lastSeen>>
    BY <1>10 DEF N!putRun, N!sdk
  <2>2. StepsTypes'
    BY <2>1 DEF StepsInv, StepsTypes, Said
  <2>3. PlanGoesOn' /\ StepsTold' /\ PresentTold'
    BY <2>1 DEF PlanGoesOn, StepsTold, PresentTold, AtWork
  <2>4. stepsMade \in Seq(StepRecords) /\ Len(stepsMade) \in {1, 2}
    BY <2>1 DEF StepsInv, StepsTypes, PlanGoesOn
  <2>5. /\ N!Range(stepsMade) = {stepsMade[i] : i \in 1 .. Len(stepsMade)}
        /\ \A s \in N!Range(stepsMade) : s \in StepRecords /\ StepTold(s, runtime, served)
    BY <2>4 DEF N!Range, StepsInv, StepsTold
  <2>6. N!eventStep \in N!Range(stepsMade)
    <3> DEFINE replies == {i \in DOMAIN stepsMade : stepsMade[i].step = "reply"}
               first == CHOOSE i \in replies : \A j \in replies : i <= j
    <3>1. replies \subseteq {1, 2} /\ replies \subseteq 1 .. Len(stepsMade)
      BY <2>4
    <3>2. ASSUME replies # {} PROVE first \in replies
      <4>1. \E i \in replies : \A j \in replies : i <= j
        BY <3>1, <3>2
      <4> QED BY <4>1
    <3>3. Len(stepsMade) \in 1 .. Len(stepsMade)
      BY <2>4
    <3>4. N!eventStep = IF replies # {} THEN stepsMade[first] ELSE stepsMade[Len(stepsMade)]
      BY DEF N!eventStep
    <3> HIDE DEF first, replies
    <3> QED BY <2>5, <3>1, <3>2, <3>3, <3>4
  <2>7. RecordTold'
    <3>1. record'.kind = runKind /\ record'.generation = served /\ record'.steps = stepsMade
          /\ (record'.ok <=> \A s \in N!Range(stepsMade) : ~ s.error /\ s.output # "none")
          /\ timelineRow'.generation = served /\ timelineRow'.version = N!eventStep.generation
      BY <2>1
    <3>2. \A s \in N!Range(stepsMade) : s.generation <= served
      BY <2>5 DEF StepTold
    <3>3. ASSUME filed' # "none" PROVE \E s \in N!Range(stepsMade) : s.step = "reply" /\ s.output = "text"
      BY <2>1, <2>6, <3>3 DEF N!feedbackFromChecks
    <3>4. ASSUME \A s \in N!Range(stepsMade) : ~ s.error /\ s.output # "none"
          PROVE  /\ \A s \in N!Range(stepsMade) : s.generation # 0 /\ s.call # 0
                 /\ runKind # "escalate" /\ runtime = "node" =>
                      Len(stepsMade) = 2 /\ (stepsMade[2].judged \/ stepsMade[2].output = "empty")
                 /\ runKind = "escalate" => Len(stepsMade) = 2 \/ stepsMade[1].output = "empty"
      <4>1. \A s \in N!Range(stepsMade) : s.generation # 0 /\ s.call # 0
        BY <2>5, <3>4 DEF StepTold
      <4>2. ASSUME runKind # "escalate", runtime = "node"
            PROVE  Len(stepsMade) = 2 /\ (stepsMade[2].judged \/ stepsMade[2].output = "empty")
        <5>1. Len(stepsMade) = 2 /\ stepsMade[2].step = "reply"
          BY <2>1, <4>2 DEF StepsInv, PlanGoesOn, AtWork
        <5>2. stepsMade[2] \in N!Range(stepsMade)
          BY <2>5, <5>1
        <5> QED BY <2>5, <3>4, <4>2, <5>1, <5>2 DEF StepTold
      <4>3. ASSUME runKind = "escalate" PROVE Len(stepsMade) = 2 \/ stepsMade[1].output = "empty"
        <5>1. Len(stepsMade) = 2 \/ (Len(stepsMade) = 1 /\ stepsMade[1].output # "text")
          BY <2>1, <4>3 DEF StepsInv, PlanGoesOn, AtWork
        <5>2. stepsMade[1] \in N!Range(stepsMade)
          BY <2>4, <2>5
        <5>3. stepsMade[1].output \in {"none", "empty", "text"}
          BY <2>5, <5>2 DEF StepRecords, Said
        <5> QED BY <3>4, <5>1, <5>2, <5>3
      <4> QED BY <4>1, <4>2, <4>3
    <3>5. N!eventStep.generation <= served
      BY <2>6, <3>2
    <3> QED BY <2>1, <3>1, <3>2, <3>3, <3>4, <3>5 DEF RecordTold
  <2> QED BY <2>2, <2>3, <2>7 DEF StepsInv
<1>11. ASSUME N!Promote PROVE StepsInv'
  <2>1. /\ served' = served + 1
        /\ UNCHANGED <<runtime, runKind, stepPc, plan, present, said, calls, late, captured, lastSeen, stepsMade, record,
                       timelineRow, filed>>
    BY <1>11 DEF N!Promote, N!process, N!written
  <2>2. PICK g \in Nat : served' = g /\ g # 0 /\ served \in Nat /\ served <= g
    BY <2>1 DEF StepsInv, StepsTypes
  <2>3. StepsTypes' /\ PlanGoesOn' /\ RecordTold'
    BY <2>1, <2>2 DEF StepsInv, StepsTypes, PlanGoesOn, RecordTold
  <2>4. PresentTold'
    <3>1. present.generation \in Nat
      BY DEF StepsInv, StepsTypes, StepRecords
    <3> QED BY <2>1, <2>2, <3>1 DEF StepsInv, PresentTold
  <2>5. StepsTold'
    <3>1. \A i \in 1 .. Len(stepsMade) : stepsMade[i].generation \in Nat
      <4>1. \A i \in 1 .. Len(stepsMade) : stepsMade[i] \in StepRecords
        BY DEF StepsInv, StepsTypes
      <4> QED BY <4>1 DEF StepRecords
    <3> QED BY <2>1, <2>2, <3>1 DEF StepsInv, StepsTold, StepTold
  <2> QED BY <2>3, <2>4, <2>5 DEF StepsInv
<1>12. CASE UNCHANGED N!vars
  <2>1. UNCHANGED <<runtime, served, runKind, stepPc, plan, present, said, calls, late, captured, lastSeen, stepsMade,
                    record, timelineRow, filed>>
    BY <1>12 DEF N!vars, N!sdk, N!process, N!written
  <2> QED BY <2>1 DEF StepsInv, StepsTypes, PlanGoesOn, StepsTold, PresentTold, RecordTold
<1> QED BY <1>1, <1>2, <1>5, <1>6, <1>7, <1>8, <1>9, <1>10, <1>11, <1>12 DEF N!Next

-----------------------------------------------------------------------------
(* Seed.                                                                   *)

seedRelease == s1
slotFile == s2
releaseJson == s3
gitkeep == s4
foreignFile == s5
seedPc == s6
seedPlan == s7
writtenSlots == s8
filesBefore == s9
seedFaults == s10

USE DEF seedRelease, slotFile, releaseJson, gitkeep, foreignFile, seedPc, seedPlan, writtenSlots, filesBefore,
        seedFaults

LEMMA SeedConstants == MaxReleases \in Nat /\ MaxReleases >= 1 /\ MaxFaults \in Nat
BY ConstantsAssumption DEF P!SeedAssumption

\* What the run has written so far lies over what it found.
WrittenOverFound ==
  /\ seedPc = "check" => slotFile = filesBefore /\ writtenSlots = {}
  /\ seedPc \in {"write", "release"} =>
       slotFile = [s \in Prompts |-> IF s \in writtenSlots THEN seedPlan.n ELSE filesBefore[s]]
  /\ seedPc = "write" => writtenSlots \subseteq seedPlan.slots

\* When all is written, what remains to do is to take away.
AllWritten ==
  /\ seedPc \in {"release", "stale", "done"} => writtenSlots = seedPlan.slots
  /\ seedPc \in {"stale", "done"} => releaseJson = seedPlan.n /\ \A s \in seedPlan.slots : slotFile[s] = seedPlan.n
  /\ seedPc = "done" => \A s \in Prompts \ seedPlan.slots : slotFile[s] = P!NoFile

\* But for one file, the old ones or the new ones.
OldOrNew ==
  \E broken \in {{}} \cup {{s} : s \in Prompts} :
    \/ \A s \in Prompts \ broken : P!Whole(filesBefore[s]) => P!Whole(slotFile[s])
    \/ \A s \in seedPlan.slots : slotFile[s] = seedPlan.n

SeedInv == P!TypeOK /\ WrittenOverFound /\ AllWritten /\ OldOrNew

-----------------------------------------------------------------------------

LEMMA SeedIsWhole ==
  ASSUME SeedInv
  PROVE  P!NeverNeither
<1>1. seedPc = "done" =>
        /\ \A s \in Prompts : slotFile[s] = IF s \in seedPlan.slots THEN seedPlan.n ELSE P!NoFile
        /\ releaseJson = seedPlan.n
  BY DEF SeedInv, AllWritten
<1> QED
  BY <1>1 DEF SeedInv, OldOrNew, P!NeverNeither

\* With no file broken, and with one.
LEMMA NoneBroken ==
  ASSUME \A s \in Prompts : P!Whole(filesBefore[s]) => P!Whole(slotFile[s])
  PROVE  OldOrNew
BY DEF OldOrNew

LEMMA OneBroken ==
  ASSUME NEW b \in Prompts, \A s \in Prompts \ {b} : P!Whole(filesBefore[s]) => P!Whole(slotFile[s])
  PROVE  OldOrNew
BY {b} \in {{s} : s \in Prompts} DEF OldOrNew

LEMMA NewOnes ==
  ASSUME \A s \in seedPlan.slots : slotFile[s] = seedPlan.n
  PROVE  OldOrNew
BY DEF OldOrNew

LEMMA SeedStarts ==
  ASSUME P!Init
  PROVE  SeedInv
<1>1. P!TypeOK
  <2>1. seedRelease \in P!Releases /\ seedPlan \in P!Releases
    BY DEF P!Init
  <2>2. 0 \in P!Contents /\ P!NoFile = 0
    BY SeedConstants DEF P!Contents, P!Torn, P!NoFile
  <2>3. slotFile \in [Prompts -> P!Contents] /\ filesBefore = slotFile
    BY <2>2 DEF P!Init
  <2>4. /\ releaseJson \in P!Contents /\ seedFaults \in 0 .. MaxFaults /\ seedPc = "idle" /\ writtenSlots = {}
    BY <2>2, SeedConstants DEF P!Init
  <2>5. gitkeep \in BOOLEAN /\ foreignFile \in BOOLEAN
    BY DEF P!Init
  <2> QED
    BY <2>1, <2>3, <2>4, <2>5 DEF P!TypeOK
<1>2. OldOrNew
  BY NoneBroken DEF P!Init, P!Whole
<1> QED
  BY <1>1, <1>2 DEF P!Init, SeedInv, WrittenOverFound, AllWritten

LEMMA SeedKeeps ==
  ASSUME SeedInv, [P!Next]_(P!vars)
  PROVE  SeedInv'
<1> USE SeedConstants DEF SeedInv, P!TypeOK, P!Releases, P!Contents, P!Torn, P!NoFile
<1>1. CASE P!Promote
  BY <1>1 DEF P!Promote, WrittenOverFound, AllWritten, OldOrNew
<1>2. CASE P!Person
  BY <1>2 DEF P!Person, WrittenOverFound, AllWritten, OldOrNew
<1>3. CASE P!planSeed
  <2>1. OldOrNew'
    BY <1>3 DEF P!planSeed, OldOrNew, P!Whole
  <2> QED
    BY <1>3, <2>1 DEF P!planSeed, WrittenOverFound, AllWritten
<1>4. CASE P!writeSeed
  <2>1. /\ UNCHANGED <<seedRelease, slotFile, releaseJson, gitkeep, foreignFile, seedPlan, writtenSlots,
                      filesBefore, seedFaults>>
        /\ seedPc' \in {"idle", "write"} /\ seedPc = "check"
    BY <1>4 DEF P!writeSeed
  <2>2. OldOrNew'
    BY <2>1 DEF OldOrNew
  <2> QED
    BY <2>1, <2>2 DEF WrittenOverFound, AllWritten
<1>5. CASE P!writeFile
  <2>1. /\ UNCHANGED <<seedRelease, releaseJson, gitkeep, foreignFile, seedPlan, filesBefore>> /\ seedPc = "write"
        /\ writtenSlots \subseteq seedPlan.slots
        /\ slotFile = [s \in Prompts |-> IF s \in writtenSlots THEN seedPlan.n ELSE filesBefore[s]]
    BY <1>5 DEF P!writeFile, WrittenOverFound
  <2>2. PICK s \in seedPlan.slots \ writtenSlots :
          \/ /\ slotFile' = [slotFile EXCEPT ![s] = seedPlan.n] /\ writtenSlots' = writtenSlots \cup {s}
             /\ seedPc' = (IF writtenSlots' = seedPlan.slots THEN "release" ELSE "write") /\ UNCHANGED seedFaults
          \/ slotFile' = [slotFile EXCEPT ![s] = P!Torn] /\ writtenSlots' = writtenSlots \cup {s} /\ P!Fault
    BY <1>5 DEF P!writeFile
  <2>3. s \in Prompts /\ seedPlan.n \in 1 .. MaxReleases
    OBVIOUS
  <2>4. CASE P!Fault
    <3>1. seedPc' = "idle" /\ seedFaults' \in 0 .. MaxFaults
      BY <2>4 DEF P!Fault
    <3>2. ASSUME NEW t \in Prompts \ {s}, P!Whole(filesBefore'[t])
          PROVE  P!Whole(slotFile'[t])
      BY <2>1, <2>2, <2>3, <3>2 DEF P!Whole
    <3>3. OldOrNew'
      BY ZenonT(40), <2>3, <3>2, OneBroken DEF OldOrNew
    <3> QED
      BY <2>1, <2>2, <2>3, <3>1, <3>3 DEF WrittenOverFound, AllWritten
  <2>5. CASE ~ P!Fault
    <3>1. slotFile' = [slotFile EXCEPT ![s] = seedPlan.n] /\ writtenSlots' = writtenSlots \cup {s}
          /\ seedPc' = (IF writtenSlots' = seedPlan.slots THEN "release" ELSE "write") /\ UNCHANGED seedFaults
      BY <2>2, <2>5
    <3>2. slotFile' = [t \in Prompts |-> IF t \in writtenSlots' THEN seedPlan.n ELSE filesBefore[t]]
      BY <2>1, <2>3, <3>1
    <3>3. OldOrNew'
      BY <2>1, <2>3, <3>2 DEF OldOrNew, P!Whole
    <3> QED
      BY <2>1, <2>3, <3>1, <3>2, <3>3 DEF WrittenOverFound, AllWritten
  <2> QED
    BY <2>4, <2>5
<1>6. CASE P!writeRelease
  <2>1. /\ UNCHANGED <<seedRelease, slotFile, gitkeep, foreignFile, seedPlan, writtenSlots, filesBefore>>
        /\ seedPc = "release" /\ seedPc' \in {"stale", "idle"} /\ seedFaults' \in 0 .. MaxFaults
        /\ seedPc' = "stale" => releaseJson' = seedPlan.n
        /\ releaseJson' \in P!Contents
    BY <1>6 DEF P!writeRelease, P!Fault
  <2>2. OldOrNew'
    BY <2>1 DEF OldOrNew
  <2> QED
    BY <2>1, <2>2 DEF WrittenOverFound, AllWritten
<1>7. CASE P!removeStale
  <2>1. /\ UNCHANGED <<seedRelease, releaseJson, gitkeep, seedPlan, writtenSlots, filesBefore, seedFaults>>
        /\ seedPc = "stale" /\ writtenSlots = seedPlan.slots /\ releaseJson = seedPlan.n
        /\ \A s \in seedPlan.slots : slotFile[s] = seedPlan.n
    BY <1>7 DEF P!removeStale, AllWritten
  <2>2. CASE \E s \in P!stale : slotFile' = [slotFile EXCEPT ![s] = P!NoFile] /\ UNCHANGED <<foreignFile, seedPc>>
    <3>1. PICK s \in P!stale : slotFile' = [slotFile EXCEPT ![s] = P!NoFile] /\ UNCHANGED <<foreignFile, seedPc>>
      BY <2>2
    <3>2. \A t \in seedPlan.slots : slotFile'[t] = seedPlan.n
      BY <2>1, <3>1 DEF P!stale
    <3>3. OldOrNew'
      BY <2>1, <3>2 DEF OldOrNew
    <3> QED
      BY <2>1, <3>1, <3>2, <3>3 DEF WrittenOverFound, AllWritten, P!stale
  <2>3. CASE foreignFile' = FALSE /\ UNCHANGED <<slotFile, seedPc>>
    BY <2>1, <2>3 DEF WrittenOverFound, AllWritten, OldOrNew
  <2>4. CASE P!stale = {} /\ seedPc' = "done" /\ UNCHANGED <<slotFile, foreignFile>>
    <3>1. \A s \in Prompts \ seedPlan.slots : slotFile[s] = P!NoFile
      BY <2>1, <2>4 DEF P!stale
    <3> QED
      BY <2>1, <2>4, <3>1 DEF WrittenOverFound, AllWritten, OldOrNew
  <2> QED
    BY <1>7, <2>2, <2>3, <2>4 DEF P!removeStale
<1>8. CASE P!Stop
  <2>1. /\ UNCHANGED <<seedRelease, slotFile, releaseJson, gitkeep, foreignFile, seedPlan, writtenSlots,
                      filesBefore>>
        /\ seedPc' = "idle" /\ seedFaults' \in 0 .. MaxFaults
    BY <1>8 DEF P!Stop, P!Fault
  <2>2. OldOrNew'
    BY <2>1 DEF OldOrNew
  <2> QED
    BY <2>1, <2>2 DEF WrittenOverFound, AllWritten
<1>9. CASE P!Exit
  BY <1>9 DEF P!Exit, WrittenOverFound, AllWritten, OldOrNew
<1>10. CASE UNCHANGED P!vars
  BY <1>10 DEF P!vars, WrittenOverFound, AllWritten, OldOrNew
<1> QED
  BY <1>1, <1>2, <1>3, <1>4, <1>5, <1>6, <1>7, <1>8, <1>9, <1>10 DEF P!Next

-----------------------------------------------------------------------------
(* The experiment panel.                                                   *)

dial == s1
armServes == s2
armRuns == s3
armFeedback == s4
strays == s5
USE DEF dial, armServes, armRuns, armFeedback, strays

ReplyArms == {"control", "candidate", "unserved"}

RunRows ==
  [kind : {"run", "hosted"}, host : ArmsHosts, customer : 1 .. CUSTOMERS,
   steps : {A!Steps(g, arm) : g \in Nat, arm \in ReplyArms}]

\* A run is of a customer and a release, lands on an arm of it, and unless some run strayed
\* on the one the release's weights give.
RunTold(run) ==
  /\ run.kind \in {"run", "hosted"} /\ run.host \in ArmsHosts /\ run.customer \in 1 .. CUSTOMERS
  /\ \E g \in 1 .. Len(dial), arm \in ReplyArms :
       /\ run.steps = A!Steps(g, arm)
       /\ strays = 0 /\ run.kind = "run" => arm \in {"unserved", A!Lands(run.customer, g)}

ArmsInv ==
  /\ dial \in Seq(0 .. CUSTOMERS) /\ Len(dial) >= 1 /\ strays \in Nat
  /\ armServes \in [ArmsHosts -> 1 .. Len(dial)]
  /\ armRuns \in Seq(RunRows) /\ \A i \in 1 .. Len(armRuns) : RunTold(armRuns[i])
  /\ armFeedback \in Seq([run : Nat, filed : BOOLEAN])

\* The instance's own copies of the counting.
LEMMA ArmsCounting ==
  /\ \A set : A!IsFiniteSet(set) <=> IsFiniteSet(set)
  /\ \A set : A!Cardinality(set) = Cardinality(set)
BY DEF A!Cardinality, Cardinality, A!IsFiniteSet, IsFiniteSet

LEMMA ArmsConstants == IsFiniteSet(ArmsHosts) /\ CUSTOMERS \in Nat \ {0}
BY ConstantsAssumption, ArmsCounting DEF A!ArmsAssumption

\* Two steps: the triage, in no experiment, and the reply.
LEMMA TwoSteps ==
  ASSUME NEW g, NEW arm
  PROVE  /\ Len(A!Steps(g, arm)) = 2
         /\ A!Steps(g, arm)[1] = [tag |-> "triage", generation |-> g, arm |-> "none", judged |-> FALSE]
         /\ A!Steps(g, arm)[2] = [tag |-> "reply", generation |-> g, arm |-> arm, judged |-> arm # "unserved"]
BY DEF A!Steps

-----------------------------------------------------------------------------
(* What the fold comes to, of any set of steps: the sums, and who landed    *)
(* where.  A step is known by its run and its place in it.                  *)

StepAt(x) == armRuns[x[1]].steps[x[2]]
HostOf(x) == armRuns[x[1]].host
RowOf(x) == <<armRuns[x[1]].customer, StepAt(x).tag, StepAt(x).generation>>
KeyOf(x) == A!armKey(StepAt(x))

OfKey(steps, key) == {x \in steps : KeyOf(x) = key}
AcceptedIn(steps, key) == {i \in DOMAIN armFeedback : armFeedback[i].filed /\ <<armFeedback[i].run, 2>> \in OfKey(steps, key)}
SumOf(steps, key) ==
  [runs |-> Cardinality(OfKey(steps, key)),
   hosts |-> [h \in ArmsHosts |-> Cardinality({x \in OfKey(steps, key) : HostOf(x) = h})],
   judged |-> Cardinality({x \in OfKey(steps, key) : StepAt(x).judged}),
   accepted |-> Cardinality(AcceptedIn(steps, key))]

RepliesIn(steps) == {x \in steps : StepAt(x).arm \in {"control", "candidate"}}
LandedAt(steps, key, h) == {x \in RepliesIn(steps) : RowOf(x) = key /\ HostOf(x) = h}
WhoOf(steps, key) == [h \in ArmsHosts |-> {StepAt(x).arm : x \in LandedAt(steps, key, h)}]

SumsOf(steps) ==
  [arms |-> [key \in {KeyOf(x) : x \in steps} |-> SumOf(steps, key)],
   seen |-> [key \in {RowOf(x) : x \in RepliesIn(steps)} |-> WhoOf(steps, key)]]

\* A place of the records.
Places == (1 .. Len(armRuns)) \X (1 .. 2)

LEMMA StepIs ==
  ASSUME ArmsInv, NEW x \in Places
  PROVE  /\ StepAt(x).arm \in {"none", "control", "candidate", "unserved"} /\ StepAt(x).judged \in BOOLEAN
         /\ x[2] = 1 => StepAt(x).tag = "triage" /\ StepAt(x).arm = "none"
         /\ x[2] = 2 => StepAt(x).tag = "reply" /\ StepAt(x).arm # "none"
         /\ HostOf(x) \in ArmsHosts /\ x[1] \in 1 .. Len(armRuns) /\ x[2] \in {1, 2} /\ x = <<x[1], x[2]>>
<1>1. x[1] \in 1 .. Len(armRuns) /\ x[2] \in {1, 2} /\ x = <<x[1], x[2]>>
  BY DEF Places
<1>2. RunTold(armRuns[x[1]])
  BY <1>1 DEF ArmsInv
<1>3. PICK g \in 1 .. Len(dial), arm \in ReplyArms : armRuns[x[1]].steps = A!Steps(g, arm)
  BY <1>2 DEF RunTold
<1>4. CASE x[2] = 1
  <2>1. StepAt(x) = [tag |-> "triage", generation |-> g, arm |-> "none", judged |-> FALSE]
    BY <1>3, <1>4, TwoSteps DEF StepAt
  <2> QED BY <1>1, <1>2, <1>4, <2>1 DEF RunTold, HostOf
<1>5. CASE x[2] = 2
  <2>1. StepAt(x) = [tag |-> "reply", generation |-> g, arm |-> arm, judged |-> arm # "unserved"]
    BY <1>3, <1>5, TwoSteps DEF StepAt
  <2> QED BY <1>1, <1>2, <1>5, <2>1 DEF RunTold, HostOf, ReplyArms
<1> QED BY <1>1, <1>4, <1>5

LEMMA SetsAreFinite ==
  ASSUME ArmsInv, NEW steps, IsFiniteSet(steps), NEW key
  PROVE  /\ IsFiniteSet(OfKey(steps, key)) /\ IsFiniteSet(AcceptedIn(steps, key))
         /\ \A h \in ArmsHosts : IsFiniteSet({x \in OfKey(steps, key) : HostOf(x) = h})
         /\ IsFiniteSet({x \in OfKey(steps, key) : StepAt(x).judged})
<1>1. IsFiniteSet(OfKey(steps, key))
  BY FS_Subset DEF OfKey
<1>2. IsFiniteSet(DOMAIN armFeedback)
  <2>1. DOMAIN armFeedback = 1 .. Len(armFeedback) /\ Len(armFeedback) \in Int
    BY DEF ArmsInv
  <2> QED BY <2>1, FS_Interval
<1>3. IsFiniteSet(AcceptedIn(steps, key))
  <2>1. AcceptedIn(steps, key) \in SUBSET (DOMAIN armFeedback)
    BY DEF AcceptedIn
  <2> QED BY <1>2, <2>1, FS_Subset
<1>4. ASSUME NEW h \in ArmsHosts
      PROVE  IsFiniteSet({x \in OfKey(steps, key) : HostOf(x) = h})
  BY <1>1, FS_Subset
<1>5. IsFiniteSet({x \in OfKey(steps, key) : StepAt(x).judged})
  BY <1>1, FS_Subset
<1> QED BY <1>1, <1>3, <1>4, <1>5

LEMMA SumsAre ==
  ASSUME NEW steps
  PROVE  /\ DOMAIN SumsOf(steps).arms = {KeyOf(x) : x \in steps}
         /\ \A key \in {KeyOf(x) : x \in steps} : SumsOf(steps).arms[key] = SumOf(steps, key)
         /\ DOMAIN SumsOf(steps).seen = {RowOf(x) : x \in RepliesIn(steps)}
         /\ \A key \in {RowOf(x) : x \in RepliesIn(steps)} : SumsOf(steps).seen[key] = WhoOf(steps, key)
BY DEF SumsOf

\* What has no entry yet starts from the sums of nothing.
LEMMA EntryIsSum ==
  ASSUME ArmsInv, NEW steps, NEW key
  PROVE  /\ A!Entry(SumsOf(steps).arms, key, A!NoArm) = SumOf(steps, key)
         /\ A!Entry(SumsOf(steps).seen, key, A!NoOne) = WhoOf(steps, key)
<1>1. ASSUME key \in {KeyOf(x) : x \in steps}
      PROVE  A!Entry(SumsOf(steps).arms, key, A!NoArm) = SumOf(steps, key)
  BY <1>1, SumsAre DEF A!Entry
<1>2. ASSUME key \notin {KeyOf(x) : x \in steps}
      PROVE  A!Entry(SumsOf(steps).arms, key, A!NoArm) = SumOf(steps, key)
  <2>1. OfKey(steps, key) = {}
    BY <1>2 DEF OfKey
  <2>2. AcceptedIn(steps, key) = {}
    BY <2>1 DEF AcceptedIn
  <2>3. Cardinality({}) = 0
    BY FS_EmptySet
  <2>4. [h \in ArmsHosts |-> Cardinality({x \in OfKey(steps, key) : HostOf(x) = h})] = [h \in ArmsHosts |-> 0]
    <3>1. ASSUME NEW h \in ArmsHosts
          PROVE  {x \in OfKey(steps, key) : HostOf(x) = h} = {}
      BY <2>1
    <3> QED BY <2>3, <3>1
  <2>5. {x \in OfKey(steps, key) : StepAt(x).judged} = {}
    BY <2>1
  <2>6. SumOf(steps, key) = A!NoArm
    BY <2>1, <2>2, <2>3, <2>4, <2>5 DEF SumOf, A!NoArm
  <2>7. A!Entry(SumsOf(steps).arms, key, A!NoArm) = A!NoArm
    BY <1>2, SumsAre DEF A!Entry
  <2> QED BY <2>6, <2>7
<1>3. ASSUME key \in {RowOf(x) : x \in RepliesIn(steps)}
      PROVE  A!Entry(SumsOf(steps).seen, key, A!NoOne) = WhoOf(steps, key)
  BY <1>3, SumsAre DEF A!Entry
<1>4. ASSUME key \notin {RowOf(x) : x \in RepliesIn(steps)}
      PROVE  A!Entry(SumsOf(steps).seen, key, A!NoOne) = WhoOf(steps, key)
  <2>1. ASSUME NEW h \in ArmsHosts
        PROVE  {StepAt(x).arm : x \in LandedAt(steps, key, h)} = {}
    BY <1>4 DEF LandedAt
  <2>2. WhoOf(steps, key) = A!NoOne
    BY <2>1 DEF WhoOf, A!NoOne
  <2>3. A!Entry(SumsOf(steps).seen, key, A!NoOne) = A!NoOne
    BY <1>4, SumsAre DEF A!Entry
  <2> QED BY <2>2, <2>3
<1> QED BY <1>1, <1>2, <1>3, <1>4

\* One more step counts once, in the sum of its key and in no other.
LEMMA SumGrows ==
  ASSUME ArmsInv, NEW steps \in SUBSET Places, IsFiniteSet(steps), NEW x \in Places, x \notin steps
  PROVE  /\ SumOf(steps \cup {x}, KeyOf(x)) =
              [runs |-> SumOf(steps, KeyOf(x)).runs + 1,
               hosts |-> [SumOf(steps, KeyOf(x)).hosts EXCEPT ![HostOf(x)] = @ + 1],
               judged |-> SumOf(steps, KeyOf(x)).judged + (IF StepAt(x).judged THEN 1 ELSE 0),
               accepted |-> SumOf(steps, KeyOf(x)).accepted
                            + (IF StepAt(x).tag = "reply" THEN A!AcceptedOf(x[1]) ELSE 0)]
         /\ \A key : key # KeyOf(x) => SumOf(steps \cup {x}, key) = SumOf(steps, key)
<1> DEFINE key == KeyOf(x)
           more == steps \cup {x}
           of == OfKey(steps, key)
<1>1. OfKey(more, key) = of \cup {x} /\ x \notin of
  BY DEF OfKey
<1>2. IsFiniteSet(of)
  BY SetsAreFinite
<1>3. Cardinality(OfKey(more, key)) = Cardinality(of) + 1
  BY <1>1, <1>2, FS_AddElement
<1>4. ASSUME NEW h \in ArmsHosts
      PROVE  Cardinality({y \in OfKey(more, key) : HostOf(y) = h})
             = Cardinality({y \in of : HostOf(y) = h}) + (IF h = HostOf(x) THEN 1 ELSE 0)
  <2> DEFINE at == {y \in of : HostOf(y) = h}
             atMore == {y \in OfKey(more, key) : HostOf(y) = h}
  <2> SUFFICES Cardinality(atMore) = Cardinality(at) + (IF h = HostOf(x) THEN 1 ELSE 0)
    OBVIOUS
  <2>1. IsFiniteSet(at) /\ Cardinality(at) \in Nat
    BY SetsAreFinite, FS_CardinalityType
  <2>2. CASE h = HostOf(x)
    <3>1. atMore = at \cup {x} /\ x \notin at
      BY <1>1, <2>2
    <3> HIDE DEF at, atMore
    <3> QED BY <2>1, <2>2, <3>1, FS_AddElement
  <2>3. CASE h # HostOf(x)
    <3>1. atMore = at
      BY <1>1, <2>3
    <3> HIDE DEF at, atMore
    <3> QED BY <2>1, <2>3, <3>1
  <2> QED BY <2>2, <2>3
<1>5. Cardinality({y \in OfKey(more, key) : StepAt(y).judged})
      = Cardinality({y \in of : StepAt(y).judged}) + (IF StepAt(x).judged THEN 1 ELSE 0)
  <2> DEFINE judged == {y \in of : StepAt(y).judged}
             judgedMore == {y \in OfKey(more, key) : StepAt(y).judged}
  <2> SUFFICES Cardinality(judgedMore) = Cardinality(judged) + (IF StepAt(x).judged THEN 1 ELSE 0)
    OBVIOUS
  <2>1. IsFiniteSet(judged) /\ Cardinality(judged) \in Nat
    BY SetsAreFinite, FS_CardinalityType
  <2>2. CASE StepAt(x).judged
    <3>1. judgedMore = judged \cup {x} /\ x \notin judged
      BY <1>1, <2>2
    <3> HIDE DEF judged, judgedMore
    <3> QED BY <2>1, <2>2, <3>1, FS_AddElement
  <2>3. CASE ~StepAt(x).judged
    <3>1. judgedMore = judged
      BY <1>1, <2>3
    <3> HIDE DEF judged, judgedMore
    <3> QED BY <2>1, <2>3, <3>1
  <2> QED BY <2>2, <2>3
<1>6. Cardinality(AcceptedIn(more, key))
      = Cardinality(AcceptedIn(steps, key)) + (IF StepAt(x).tag = "reply" THEN A!AcceptedOf(x[1]) ELSE 0)
  <2> DEFINE old == AcceptedIn(steps, key)
             its == {i \in DOMAIN armFeedback : armFeedback[i].run = x[1] /\ armFeedback[i].filed}
  <2>1. IsFiniteSet(old) /\ Cardinality(old) \in Nat
    BY SetsAreFinite, FS_CardinalityType
  <2>2. x = <<x[1], x[2]>> /\ x[2] \in {1, 2} /\ (StepAt(x).tag = "reply" <=> x[2] = 2)
    BY StepIs
  <2>3. CASE x[2] = 2
    <3>1. A!AcceptedOf(x[1]) = Cardinality(its)
      BY ArmsCounting DEF A!AcceptedOf
    <3>2. IsFiniteSet(its)
      <4>1. DOMAIN armFeedback = 1 .. Len(armFeedback) /\ Len(armFeedback) \in Int
        BY DEF ArmsInv
      <4>2. its \in SUBSET (1 .. Len(armFeedback))
        BY <4>1
      <4> QED BY <4>1, <4>2, FS_Interval, FS_Subset
    <3>3. ASSUME NEW i \in DOMAIN armFeedback
          PROVE  <<armFeedback[i].run, 2>> \in OfKey(more, key)
                 <=> <<armFeedback[i].run, 2>> \in of \/ armFeedback[i].run = x[1]
      BY SMTT(30), <1>1, <2>2, <2>3
    <3>4. AcceptedIn(more, key) = old \cup its
      BY <3>3 DEF AcceptedIn
    <3>5. old \cap its = {}
      BY <1>1, <2>2, <2>3 DEF AcceptedIn
    <3>6. Cardinality(old \cup its) = Cardinality(old) + Cardinality(its)
      <4>1. Cardinality(old \cup its) = Cardinality(old) + Cardinality(its) - Cardinality({})
        BY <2>1, <3>2, <3>5, FS_Union
      <4>2. Cardinality(its) \in Nat /\ Cardinality({}) = 0
        BY <3>2, FS_CardinalityType, FS_EmptySet
      <4> QED BY <2>1, <4>1, <4>2
    <3> QED BY <2>2, <2>3, <3>1, <3>4, <3>6
  <2>4. CASE x[2] # 2
    <3>1. AcceptedIn(more, key) = old
      BY SMTT(30), <1>1, <2>2, <2>4 DEF AcceptedIn
    <3> QED BY <2>1, <2>2, <2>4, <3>1
  <2> QED BY <2>3, <2>4
<1>7. [h \in ArmsHosts |-> Cardinality({y \in OfKey(more, key) : HostOf(y) = h})]
      = [SumOf(steps, key).hosts EXCEPT ![HostOf(x)] = @ + 1]
  <2> DEFINE at == [h \in ArmsHosts |-> Cardinality({y \in of : HostOf(y) = h})]
             atMore == [h \in ArmsHosts |-> Cardinality({y \in OfKey(more, key) : HostOf(y) = h})]
  <2>1. SumOf(steps, key).hosts = at
    BY DEF SumOf
  <2>2. ASSUME NEW h \in ArmsHosts
        PROVE  atMore[h] = at[h] + (IF h = HostOf(x) THEN 1 ELSE 0) /\ at[h] \in Nat
    <3>1. Cardinality({y \in of : HostOf(y) = h}) \in Nat
      BY SetsAreFinite, FS_CardinalityType
    <3> QED BY <1>4, <3>1
  <2>3. DOMAIN at = ArmsHosts /\ at = [h \in ArmsHosts |-> at[h]] /\ atMore = [h \in ArmsHosts |-> atMore[h]]
    OBVIOUS
  <2>4. HostOf(x) \in ArmsHosts
    BY StepIs
  <2> HIDE DEF at, atMore
  <2>5. atMore = [at EXCEPT ![HostOf(x)] = @ + 1]
    BY <2>2, <2>3, <2>4
  <2> QED BY <2>1, <2>5 DEF atMore
<1>8. SumOf(more, key) =
        [runs |-> SumOf(steps, key).runs + 1,
         hosts |-> [SumOf(steps, key).hosts EXCEPT ![HostOf(x)] = @ + 1],
         judged |-> SumOf(steps, key).judged + (IF StepAt(x).judged THEN 1 ELSE 0),
         accepted |-> SumOf(steps, key).accepted + (IF StepAt(x).tag = "reply" THEN A!AcceptedOf(x[1]) ELSE 0)]
  <2>1. /\ SumOf(steps, key).runs = Cardinality(of)
        /\ SumOf(steps, key).judged = Cardinality({y \in of : StepAt(y).judged})
        /\ SumOf(steps, key).accepted = Cardinality(AcceptedIn(steps, key))
    BY DEF SumOf
  <2>2. SumOf(more, key) =
          [runs |-> Cardinality(OfKey(more, key)),
           hosts |-> [h \in ArmsHosts |-> Cardinality({y \in OfKey(more, key) : HostOf(y) = h})],
           judged |-> Cardinality({y \in OfKey(more, key) : StepAt(y).judged}),
           accepted |-> Cardinality(AcceptedIn(more, key))]
    BY DEF SumOf
  <2> HIDE DEF of, more, key
  <2> QED BY <1>3, <1>5, <1>6, <1>7, <2>1, <2>2
<1>9. ASSUME NEW other, other # key
      PROVE  SumOf(more, other) = SumOf(steps, other)
  <2>1. OfKey(more, other) = OfKey(steps, other)
    BY <1>9 DEF OfKey
  <2> QED BY <2>1 DEF SumOf, AcceptedIn
<1> QED BY <1>8, <1>9

\* A reply that was served lands where it did, and nowhere else.
LEMMA WhoGrows ==
  ASSUME ArmsInv, NEW steps \in SUBSET Places, NEW x \in Places, StepAt(x).arm # "unserved"
  PROVE  /\ StepAt(x).arm # "none" =>
              /\ WhoOf(steps \cup {x}, RowOf(x)) = [WhoOf(steps, RowOf(x)) EXCEPT ![HostOf(x)] = @ \cup {StepAt(x).arm}]
              /\ RepliesIn(steps \cup {x}) = RepliesIn(steps) \cup {x}
              /\ \A row : row # RowOf(x) => WhoOf(steps \cup {x}, row) = WhoOf(steps, row)
         /\ StepAt(x).arm = "none" => RepliesIn(steps \cup {x}) = RepliesIn(steps)
<1> DEFINE row == RowOf(x)
           more == steps \cup {x}
<1>1. StepAt(x).arm \in {"none", "control", "candidate", "unserved"} /\ HostOf(x) \in ArmsHosts
  BY StepIs
<1>2. StepAt(x).arm # "none" => RepliesIn(more) = RepliesIn(steps) \cup {x}
  BY <1>1 DEF RepliesIn
<1>3. StepAt(x).arm = "none" => RepliesIn(more) = RepliesIn(steps)
  BY <1>1 DEF RepliesIn
<1>4. ASSUME StepAt(x).arm # "none", NEW other, other # row
      PROVE  WhoOf(more, other) = WhoOf(steps, other)
  <2>1. \A h \in ArmsHosts : LandedAt(more, other, h) = LandedAt(steps, other, h)
    BY <1>2, <1>4 DEF LandedAt
  <2> QED BY <2>1 DEF WhoOf
<1>5. ASSUME StepAt(x).arm # "none"
      PROVE  WhoOf(more, row) = [WhoOf(steps, row) EXCEPT ![HostOf(x)] = @ \cup {StepAt(x).arm}]
  <2>1. ASSUME NEW h \in ArmsHosts
        PROVE  WhoOf(more, row)[h] = IF h = HostOf(x) THEN WhoOf(steps, row)[h] \cup {StepAt(x).arm} ELSE WhoOf(steps, row)[h]
    <3>1. WhoOf(more, row)[h] = {StepAt(y).arm : y \in LandedAt(more, row, h)}
      BY DEF WhoOf
    <3>2. WhoOf(steps, row)[h] = {StepAt(y).arm : y \in LandedAt(steps, row, h)}
      BY DEF WhoOf
    <3>3. LandedAt(more, row, h) = IF h = HostOf(x) THEN LandedAt(steps, row, h) \cup {x} ELSE LandedAt(steps, row, h)
      BY <1>2, <1>5 DEF LandedAt
    <3> HIDE DEF row, more
    <3> QED BY <3>1, <3>2, <3>3
  <2>2. WhoOf(more, row) = [h \in ArmsHosts |-> WhoOf(more, row)[h]] /\ DOMAIN WhoOf(steps, row) = ArmsHosts
        /\ WhoOf(steps, row) = [h \in ArmsHosts |-> WhoOf(steps, row)[h]]
    BY DEF WhoOf
  <2> HIDE DEF row, more
  <2> QED BY <2>1, <2>2, <1>1
<1> QED BY <1>2, <1>3, <1>4, <1>5

\* A step of the fold takes the sums of some steps to the sums with one more.
LEMMA FoldStepAdds ==
  ASSUME ArmsInv, NEW steps \in SUBSET Places, IsFiniteSet(steps), NEW x \in Places, x \notin steps
  PROVE  A!foldStep(SumsOf(steps), x[1], StepAt(x))
         = IF StepAt(x).arm = "unserved" THEN SumsOf(steps) ELSE SumsOf(steps \cup {x})
<1> DEFINE sums == SumsOf(steps)
           more == SumsOf(steps \cup {x})
<1>1. CASE StepAt(x).arm = "unserved"
  BY <1>1 DEF A!foldStep
<1>2. CASE StepAt(x).arm # "unserved"
  <2> DEFINE sum == SumOf(steps, KeyOf(x))
             who == WhoOf(steps, RowOf(x))
             newSum == [runs |-> sum.runs + 1,
                        hosts |-> [sum.hosts EXCEPT ![HostOf(x)] = @ + 1],
                        judged |-> sum.judged + (IF StepAt(x).judged THEN 1 ELSE 0),
                        accepted |-> sum.accepted + (IF StepAt(x).tag = "reply" THEN A!AcceptedOf(x[1]) ELSE 0)]
             newWho == [who EXCEPT ![HostOf(x)] = @ \cup {StepAt(x).arm}]
  <2>1. A!Entry(sums.arms, KeyOf(x), A!NoArm) = sum /\ A!Entry(sums.seen, RowOf(x), A!NoOne) = who
    BY EntryIsSum
  <2>2. A!foldStep(sums, x[1], StepAt(x))
        = [arms |-> A!Put(sums.arms, KeyOf(x), newSum),
           seen |-> IF StepAt(x).arm = "none" THEN sums.seen ELSE A!Put(sums.seen, RowOf(x), newWho)]
    BY <1>2, <2>1 DEF A!foldStep, KeyOf, RowOf, HostOf, A!stickyKey
  <2>3. A!Put(sums.arms, KeyOf(x), newSum) = more.arms
    <3>1. (DOMAIN sums.arms) \cup {KeyOf(x)} = {KeyOf(y) : y \in steps \cup {x}}
      BY SumsAre
    <3>2. more.arms = [key \in {KeyOf(y) : y \in steps \cup {x}} |-> SumOf(steps \cup {x}, key)]
      BY DEF SumsOf
    <3>3. SumOf(steps \cup {x}, KeyOf(x)) = newSum
      BY SumGrows
    <3>4. ASSUME NEW key \in (DOMAIN sums.arms) \cup {KeyOf(x)}, key # KeyOf(x)
          PROVE  sums.arms[key] = SumOf(steps \cup {x}, key)
      <4>1. key \in {KeyOf(y) : y \in steps}
        BY <3>4, SumsAre
      <4>2. sums.arms[key] = SumOf(steps, key)
        BY <4>1, SumsAre
      <4>3. SumOf(steps \cup {x}, key) = SumOf(steps, key)
        BY <3>4, SumGrows
      <4> QED BY <4>2, <4>3
    <3> HIDE DEF sums, more, newSum
    <3> QED BY <3>1, <3>2, <3>3, <3>4 DEF A!Put
  <2>4. CASE StepAt(x).arm = "none"
    <3>1. RepliesIn(steps \cup {x}) = RepliesIn(steps)
      BY <1>2, <2>4, WhoGrows
    <3>2. sums.seen = more.seen
      BY <3>1 DEF SumsOf, WhoOf, LandedAt
    <3>3. more = [arms |-> more.arms, seen |-> more.seen]
      BY DEF SumsOf
    <3> HIDE DEF sums, more, newSum, newWho
    <3>4. A!foldStep(sums, x[1], StepAt(x)) = [arms |-> more.arms, seen |-> more.seen]
      BY <2>2, <2>3, <2>4, <3>2
    <3> QED BY <1>2, <3>3, <3>4 DEF sums, more
  <2>5. CASE StepAt(x).arm # "none"
    <3>1. (DOMAIN sums.seen) \cup {RowOf(x)} = {RowOf(y) : y \in RepliesIn(steps \cup {x})}
      <4>1. RepliesIn(steps \cup {x}) = RepliesIn(steps) \cup {x}
        BY <1>2, <2>5, WhoGrows
      <4> QED BY <4>1, SumsAre
    <3>2. more.seen = [row \in {RowOf(y) : y \in RepliesIn(steps \cup {x})} |-> WhoOf(steps \cup {x}, row)]
      BY DEF SumsOf
    <3>3. WhoOf(steps \cup {x}, RowOf(x)) = newWho
      BY <1>2, <2>5, WhoGrows
    <3>4. ASSUME NEW row \in (DOMAIN sums.seen) \cup {RowOf(x)}, row # RowOf(x)
          PROVE  sums.seen[row] = WhoOf(steps \cup {x}, row)
      <4>1. row \in {RowOf(y) : y \in RepliesIn(steps)}
        BY <3>4, SumsAre
      <4>2. sums.seen[row] = WhoOf(steps, row)
        BY <4>1, SumsAre
      <4>3. WhoOf(steps \cup {x}, row) = WhoOf(steps, row)
        BY <1>2, <2>5, <3>4, WhoGrows
      <4> QED BY <4>2, <4>3
    <3>5. A!Put(sums.seen, RowOf(x), newWho) = more.seen
      <4> HIDE DEF sums, more, newWho
      <4> QED BY <3>1, <3>2, <3>3, <3>4 DEF A!Put
    <3>6. more = [arms |-> more.arms, seen |-> more.seen]
      BY DEF SumsOf
    <3> HIDE DEF sums, more, newSum, newWho
    <3>7. A!foldStep(sums, x[1], StepAt(x)) = [arms |-> more.arms, seen |-> more.seen]
      BY <2>2, <2>3, <2>5, <3>5
    <3> QED BY <1>2, <3>6, <3>7 DEF sums, more
  <2> QED BY <2>4, <2>5
<1> QED BY <1>1, <1>2

-----------------------------------------------------------------------------
(* The fold itself.  TLA+ defines a recursive function as some function     *)
(* that satisfies its equation: one does, and no other.                     *)

\* A set of numbers has a least.
LEMMA LeastOf ==
  ASSUME NEW numbers \in SUBSET Nat, numbers # {}
  PROVE  \E n \in numbers : \A m \in numbers : n <= m
<1> DEFINE below == OpToRel(<, Nat)
<1>1. IsWellFoundedOn(below, Nat)
  BY NatLessThanWellFounded
<1>2. \A m, n \in Nat : <<m, n>> \in below <=> m < n
  BY DEF OpToRel
<1> HIDE DEF below
<1>3. PICK n \in numbers : \A m \in numbers : ~(<<m, n>> \in below)
  BY <1>1, WFMin
<1>4. ASSUME NEW m \in numbers
      PROVE  n <= m
  <2>1. m \in Nat /\ n \in Nat /\ ~(m < n)
    BY <1>2, <1>3
  <2> QED BY <2>1
<1> QED BY <1>4

\* The steps the panel shows, of the runs from one to another.
Shown(from, r) ==
  {x \in Places : from <= x[1] /\ x[1] <= r /\ armRuns[x[1]].kind = "run" /\ StepAt(x).arm # "unserved"}

LEMMA ShownIsFinite == ASSUME ArmsInv, NEW from, NEW r PROVE Shown(from, r) \in SUBSET Places /\ IsFiniteSet(Shown(from, r))
<1>1. IsFiniteSet(Places)
  <2>1. Len(armRuns) \in Int /\ 1 \in Int /\ 2 \in Int
    BY DEF ArmsInv
  <2>2. IsFiniteSet(1 .. Len(armRuns)) /\ IsFiniteSet(1 .. 2)
    BY <2>1, FS_Interval
  <2> QED BY <2>2, FS_Product DEF Places
<1>2. Shown(from, r) \in SUBSET Places
  BY DEF Shown
<1> QED BY <1>1, <1>2, FS_Subset

LEMMA FoldRunAdds ==
  ASSUME ArmsInv, NEW from \in Nat, NEW r \in 1 .. Len(armRuns), from <= r, armRuns[r].kind = "run"
  PROVE  A!foldRun(SumsOf(Shown(from, r - 1)), r) = SumsOf(Shown(from, r))
<1> DEFINE acc == SumsOf(Shown(from, r - 1))
           triage == armRuns[r].steps[1]
           reply == armRuns[r].steps[2]
           once == A!foldStep(acc, r, triage)
           twice == A!foldStep(once, r, reply)
<1>1. Len(armRuns[r].steps) = 2
  <2>1. RunTold(armRuns[r])
    BY DEF ArmsInv
  <2>2. PICK g \in 1 .. Len(dial), arm \in ReplyArms : armRuns[r].steps = A!Steps(g, arm)
    BY <2>1 DEF RunTold
  <2>3. Len(A!Steps(g, arm)) = 2
    BY TwoSteps
  <2> HIDE DEF A!Steps
  <2> QED BY <2>2, <2>3
<1>2. A!foldRun(acc, r) = twice
  <2> DEFINE g == [i \in 0 .. 2 |-> IF i = 0 THEN acc ELSE IF i = 1 THEN once ELSE twice]
             after == CHOOSE f : f = [i \in 0 .. Len(armRuns[r].steps) |->
                                        IF i = 0 THEN acc ELSE A!foldStep(f[i - 1], r, armRuns[r].steps[i])]
  <2>1. g = [i \in 0 .. Len(armRuns[r].steps) |->
               IF i = 0 THEN acc ELSE A!foldStep(g[i - 1], r, armRuns[r].steps[i])]
    <3>1. g[0] = acc /\ g[1] = once /\ g[2] = twice
      OBVIOUS
    <3>2. \A i \in 0 .. 2 : i \in {0, 1, 2}
      OBVIOUS
    <3> HIDE DEF acc, once, twice
    <3>3. ASSUME NEW i \in 0 .. 2
          PROVE  g[i] = IF i = 0 THEN acc ELSE A!foldStep(g[i - 1], r, armRuns[r].steps[i])
      <4>1. CASE i = 0
        BY <3>1, <4>1
      <4>2. CASE i = 1
        BY <3>1, <4>2 DEF once
      <4>3. CASE i = 2
        BY <3>1, <4>3 DEF twice
      <4> QED BY <3>2, <4>1, <4>2, <4>3
    <3>4. g = [i \in 0 .. 2 |-> g[i]]
      OBVIOUS
    <3> HIDE DEF g
    <3> QED BY <1>1, <3>3, <3>4
  <2> HIDE DEF acc, triage, reply, once, twice, g
  <2>2. after = [i \in 0 .. Len(armRuns[r].steps) |->
                   IF i = 0 THEN acc ELSE A!foldStep(after[i - 1], r, armRuns[r].steps[i])]
    BY <2>1, Zenon
  <2>3. A!foldRun(acc, r) = after[Len(armRuns[r].steps)]
    BY Zenon DEF A!foldRun
  <2> HIDE DEF after
  <2>4. after[0] = acc /\ after[1] = A!foldStep(after[0], r, triage) /\ after[2] = A!foldStep(after[1], r, reply)
    BY <1>1, <2>2 DEF triage, reply
  <2> QED BY <1>1, <2>3, <2>4 DEF once, twice
<1> DEFINE before == Shown(from, r - 1)
<1>3. before \in SUBSET Places /\ IsFiniteSet(before) /\ <<r, 1>> \in Places /\ <<r, 2>> \in Places
  BY ShownIsFinite DEF Places
<1>4. <<r, 1>> \notin before /\ <<r, 2>> \notin before
  BY DEF Shown
<1>5. StepAt(<<r, 1>>) = triage /\ StepAt(<<r, 2>>) = reply
  BY DEF StepAt
<1>6. triage.arm # "unserved"
  BY <1>3, <1>5, StepIs
<1>7. once = SumsOf(before \cup {<<r, 1>>})
  BY <1>3, <1>4, <1>5, <1>6, FoldStepAdds
<1>8. twice = IF reply.arm = "unserved" THEN SumsOf(before \cup {<<r, 1>>}) ELSE SumsOf(before \cup {<<r, 1>>} \cup {<<r, 2>>})
  <2>1. before \cup {<<r, 1>>} \in SUBSET Places /\ IsFiniteSet(before \cup {<<r, 1>>}) /\ <<r, 2>> \notin before \cup {<<r, 1>>}
    BY <1>3, <1>4, FS_AddElement
  <2> HIDE DEF before, once, triage, reply
  <2> QED BY <1>3, <1>5, <1>7, <2>1, FoldStepAdds
<1>9. Shown(from, r) = IF reply.arm = "unserved" THEN before \cup {<<r, 1>>} ELSE before \cup {<<r, 1>>} \cup {<<r, 2>>}
  <2>1. ASSUME NEW x \in Places
        PROVE  x \in Shown(from, r) <=> x \in before \/ x = <<r, 1>> \/ (x = <<r, 2>> /\ reply.arm # "unserved")
    <3>1. x[1] \in 1 .. Len(armRuns) /\ x[2] \in {1, 2} /\ x = <<x[1], x[2]>>
      BY StepIs
    <3>2. x[1] <= r <=> x[1] <= r - 1 \/ x[1] = r
      BY <3>1
    <3>3. x[1] = r <=> x = <<r, 1>> \/ x = <<r, 2>>
      BY <3>1
    <3> HIDE DEF triage, reply
    <3> QED BY <1>5, <1>6, <3>2, <3>3 DEF Shown
  <2> QED BY <1>3, <2>1 DEF Shown
<1> QED BY <1>2, <1>8, <1>9

LEMMA FoldIsSums ==
  ASSUME ArmsInv, NEW from \in 1 .. Len(armRuns) + 1
  PROVE  A!foldArms(from) = SumsOf(Shown(from, Len(armRuns)))
<1> DEFINE empty == [arms |-> A!NoEntries, seen |-> A!NoEntries]
           g == [r \in 0 .. Len(armRuns) |-> SumsOf(Shown(from, r))]
           upTo == CHOOSE f : f = [r \in 0 .. Len(armRuns) |->
                     IF r < from THEN empty
                     ELSE IF armRuns[r].kind = "hosted" THEN f[r - 1] ELSE A!foldRun(f[r - 1], r)]
<1>1. Len(armRuns) \in Nat /\ from \in Nat
  BY DEF ArmsInv
<1>2. SumsOf({}) = empty
  BY DEF SumsOf, RepliesIn, A!NoEntries
<1>3. ASSUME NEW r \in 0 .. Len(armRuns)
      PROVE  g[r] = IF r < from THEN empty
                    ELSE IF armRuns[r].kind = "hosted" THEN g[r - 1] ELSE A!foldRun(g[r - 1], r)
  <2>1. CASE r < from
    <3>1. Shown(from, r) = {}
      BY <1>1, <2>1 DEF Shown, Places
    <3> QED BY <1>2, <2>1, <3>1
  <2>2. CASE ~(r < from)
    <3>1. r \in 1 .. Len(armRuns) /\ from <= r /\ r - 1 \in 0 .. Len(armRuns)
      BY <1>1, <2>2
    <3>2. g[r] = SumsOf(Shown(from, r)) /\ g[r - 1] = SumsOf(Shown(from, r - 1))
      BY <3>1
    <3>3. CASE armRuns[r].kind = "hosted"
      <4>1. Shown(from, r) = Shown(from, r - 1)
        BY <1>1, <3>1, <3>3 DEF Shown, Places
      <4> QED BY <2>2, <3>2, <3>3, <4>1
    <3>4. CASE armRuns[r].kind # "hosted"
      <4>1. armRuns[r].kind = "run"
        BY <3>1, <3>4 DEF ArmsInv, RunTold
      <4>2. A!foldRun(SumsOf(Shown(from, r - 1)), r) = SumsOf(Shown(from, r))
        BY <1>1, <3>1, <4>1, FoldRunAdds
      <4> HIDE DEF g
      <4> QED BY <2>2, <3>2, <3>4, <4>2
    <3> QED BY <3>3, <3>4
  <2> QED BY <2>1, <2>2
<1>4. g = [r \in 0 .. Len(armRuns) |->
             IF r < from THEN empty
             ELSE IF armRuns[r].kind = "hosted" THEN g[r - 1] ELSE A!foldRun(g[r - 1], r)]
  <2>1. g = [r \in 0 .. Len(armRuns) |-> g[r]]
    OBVIOUS
  <2> HIDE DEF g, empty
  <2> QED BY <1>3, <2>1
<1> HIDE DEF g, empty
<1>5. upTo = [r \in 0 .. Len(armRuns) |->
                IF r < from THEN empty
                ELSE IF armRuns[r].kind = "hosted" THEN upTo[r - 1] ELSE A!foldRun(upTo[r - 1], r)]
  BY <1>4, Zenon
<1>6. A!foldArms(from) = upTo[Len(armRuns)]
  BY Zenon DEF A!foldArms, empty
<1> HIDE DEF upTo
<1>7. ASSUME NEW r \in 0 .. Len(armRuns)
      PROVE  upTo[r] = g[r]
  <2> DEFINE differ == {n \in 0 .. Len(armRuns) : upTo[n] # g[n]}
  <2> SUFFICES ASSUME differ # {} PROVE FALSE
    OBVIOUS
  <2>1. PICK n \in differ : \A m \in differ : n <= m
    <3>1. differ \in SUBSET Nat
      BY <1>1
    <3> HIDE DEF differ
    <3> QED BY <3>1, LeastOf
  <2>2. CASE n < from
    BY <1>3, <1>5, <2>1, <2>2
  <2>3. CASE ~(n < from)
    <3>1. n - 1 \in 0 .. Len(armRuns) /\ n \in 0 .. Len(armRuns)
      BY <1>1, <2>3
    <3>2. upTo[n - 1] = g[n - 1]
      BY <1>1, <2>1, <3>1
    <3> QED BY <1>3, <1>5, <2>1, <2>3, <3>1, <3>2
  <2> QED BY <2>2, <2>3
<1> QED BY <1>1, <1>6, <1>7 DEF g

-----------------------------------------------------------------------------
(* What the sums say.                                                      *)

\* A row is consistent when all its replies landed on one arm, and only then.
LEMMA ConsistentIsAgreed ==
  ASSUME ArmsInv, NEW steps \in SUBSET Places, NEW row \in {RowOf(x) : x \in RepliesIn(steps)}
  PROVE  A!consistent(WhoOf(steps, row))
         <=> \A x, y \in RepliesIn(steps) : RowOf(x) = row /\ RowOf(y) = row => StepAt(x).arm = StepAt(y).arm
<1> DEFINE who == WhoOf(steps, row)
           hosts == {h \in ArmsHosts : who[h] # {}}
           distinct == {who[h] : h \in hosts}
           its == {x \in RepliesIn(steps) : RowOf(x) = row}
<1>1. A!consistent(who) <=> Cardinality(distinct) = 1 /\ \A arms \in distinct : Cardinality(arms) = 1
  BY ArmsCounting DEF A!consistent
<1>2. ASSUME NEW h \in ArmsHosts
      PROVE  who[h] = {StepAt(x).arm : x \in {y \in its : HostOf(y) = h}} /\ who[h] \in SUBSET {"control", "candidate"}
  <2>1. LandedAt(steps, row, h) = {y \in its : HostOf(y) = h}
    BY DEF LandedAt
  <2>2. who[h] = {StepAt(x).arm : x \in LandedAt(steps, row, h)}
    BY DEF WhoOf
  <2> QED BY <2>1, <2>2 DEF RepliesIn
<1>3. \A x \in its : HostOf(x) \in ArmsHosts
  BY StepIs DEF RepliesIn
<1>4. PICK z : z \in its
  OBVIOUS
<1> HIDE DEF who, its
<1>5. \A x \in its : StepAt(x).arm \in who[HostOf(x)] /\ who[HostOf(x)] \in distinct /\ HostOf(x) \in hosts
  BY <1>2, <1>3
<1>6. ASSUME \A x, y \in its : StepAt(x).arm = StepAt(y).arm
      PROVE  A!consistent(who)
  <2> DEFINE a == StepAt(z).arm
  <2>1. ASSUME NEW h \in hosts
        PROVE  who[h] = {a}
    BY <1>2, <1>4, <1>6
  <2>2. distinct = {{a}}
    BY <1>4, <1>5, <2>1
  <2>3. Cardinality({{a}}) = 1 /\ Cardinality({a}) = 1
    BY FS_Singleton
  <2> HIDE DEF a, distinct
  <2> QED BY <1>1, <2>2, <2>3
<1>7. ASSUME A!consistent(who), NEW x \in its, NEW y \in its
      PROVE  StepAt(x).arm = StepAt(y).arm
  <2>1. IsFiniteSet(distinct)
    <3>1. IsFiniteSet(SUBSET {"control", "candidate"})
      <4>1. IsFiniteSet({"control"})
        BY FS_Singleton
      <4>2. IsFiniteSet({"control"} \cup {"candidate"})
        BY <4>1, FS_AddElement
      <4>3. {"control"} \cup {"candidate"} = {"control", "candidate"}
        OBVIOUS
      <4> QED BY <4>2, <4>3, FS_SUBSET
    <3>2. distinct \in SUBSET SUBSET {"control", "candidate"}
      BY <1>2
    <3> QED BY <3>1, <3>2, FS_Subset
  <2>2. PICK arms : distinct = {arms}
    BY <1>1, <1>7, <2>1, FS_Singleton
  <2>3. arms \in distinct
    BY <2>2
  <2>4. IsFiniteSet(arms)
    <3>1. IsFiniteSet({"control"})
      BY FS_Singleton
    <3>2. IsFiniteSet({"control"} \cup {"candidate"})
      BY <3>1, FS_AddElement
    <3>3. arms \in SUBSET ({"control"} \cup {"candidate"})
      BY <1>2, <2>3
    <3> QED BY <3>2, <3>3, FS_Subset
  <2>5. PICK arm : arms = {arm}
    BY <1>1, <1>7, <2>3, <2>4, FS_Singleton
  <2>6. StepAt(x).arm \in arms /\ StepAt(y).arm \in arms
    BY <1>5, <1>7, <2>2
  <2> QED BY <2>5, <2>6
<1> QED BY <1>6, <1>7 DEF its, who

\* With no host astray a customer's replies under one release are of one arm.
LEMMA NoneStrays ==
  ASSUME ArmsInv, strays = 0, NEW x \in Places, NEW y \in Places, RowOf(x) = RowOf(y),
         armRuns[x[1]].kind = "run", armRuns[y[1]].kind = "run",
         StepAt(x).arm \in {"control", "candidate"}, StepAt(y).arm \in {"control", "candidate"}
  PROVE  StepAt(x).arm = StepAt(y).arm
<1>1. ASSUME NEW z \in Places, armRuns[z[1]].kind = "run", StepAt(z).arm \in {"control", "candidate"}
      PROVE  StepAt(z).arm = A!Lands(armRuns[z[1]].customer, StepAt(z).generation)
  <2>1. z[1] \in 1 .. Len(armRuns) /\ z[2] \in {1, 2} /\ (z[2] = 1 => StepAt(z).arm = "none")
    BY StepIs
  <2>2. z[2] = 2
    BY <1>1, <2>1
  <2>3. RunTold(armRuns[z[1]])
    BY <2>1 DEF ArmsInv
  <2>4. PICK g \in 1 .. Len(dial), arm \in ReplyArms :
           armRuns[z[1]].steps = A!Steps(g, arm) /\ arm \in {"unserved", A!Lands(armRuns[z[1]].customer, g)}
    BY <1>1, <2>3 DEF RunTold
  <2>5. StepAt(z) = [tag |-> "reply", generation |-> g, arm |-> arm, judged |-> arm # "unserved"]
    <3>1. StepAt(z) = A!Steps(g, arm)[2]
      BY <2>2, <2>4 DEF StepAt
    <3> QED BY <3>1, TwoSteps
  <2>6. StepAt(z).arm = arm /\ StepAt(z).generation = g
    BY <2>5
  <2> QED BY <1>1, <2>4, <2>6
<1>2. armRuns[x[1]].customer = armRuns[y[1]].customer /\ StepAt(x).generation = StepAt(y).generation
  BY DEF RowOf
<1>3. /\ StepAt(x).arm = A!Lands(armRuns[x[1]].customer, StepAt(x).generation)
      /\ StepAt(y).arm = A!Lands(armRuns[y[1]].customer, StepAt(y).generation)
  BY <1>1
<1> QED BY <1>2, <1>3

LEMMA ArmsTell == ASSUME ArmsInv PROVE A!ArmsAreTold
<1> SUFFICES ASSUME NEW from \in 1 .. Len(armRuns) + 1
    PROVE  LET folded == A!foldArms(from)
               stepOf(x) == armRuns[x[1]].steps[x[2]]
               counted == {x \in (from .. Len(armRuns)) \X (1 .. 2) : armRuns[x[1]].kind = "run" /\ stepOf(x).arm # "unserved"}
               of(key) == {x \in counted : A!armKey(stepOf(x)) = key}
               replies == {x \in counted : stepOf(x).arm \in {"control", "candidate"}}
               row(x) == <<armRuns[x[1]].customer, stepOf(x).tag, stepOf(x).generation>>
           IN  /\ DOMAIN folded.arms = {A!armKey(stepOf(x)) : x \in counted}
               /\ \A key \in DOMAIN folded.arms :
                    LET arm == folded.arms[key] IN
                    /\ arm.runs = A!Cardinality(of(key)) /\ arm.judged = A!Cardinality({x \in of(key) : stepOf(x).judged})
                    /\ \A h \in ArmsHosts : arm.hosts[h] = A!Cardinality({x \in of(key) : armRuns[x[1]].host = h})
                    /\ arm.accepted = A!Cardinality({i \in DOMAIN armFeedback : armFeedback[i].filed /\ <<armFeedback[i].run, 2>> \in of(key)})
               /\ DOMAIN folded.seen = {row(x) : x \in replies}
               /\ \A key \in DOMAIN folded.seen :
                    A!consistent(folded.seen[key]) <=> \A x, y \in replies : row(x) = key /\ row(y) = key => stepOf(x).arm = stepOf(y).arm
               /\ strays = 0 => \A key \in DOMAIN folded.seen : A!consistent(folded.seen[key])
  BY DEF A!ArmsAreTold
<1> DEFINE folded == A!foldArms(from)
           counted == {x \in (from .. Len(armRuns)) \X (1 .. 2) : armRuns[x[1]].kind = "run" /\ StepAt(x).arm # "unserved"}
<1>1. counted = Shown(from, Len(armRuns)) /\ counted \in SUBSET Places
  <2>1. Len(armRuns) \in Nat /\ from \in Nat /\ from >= 1
    BY DEF ArmsInv
  <2>2. ASSUME NEW x
        PROVE  x \in counted <=> x \in Shown(from, Len(armRuns))
    BY <2>1 DEF Shown, Places
  <2> QED BY <2>2, ShownIsFinite
<1>2. folded = SumsOf(counted)
  BY <1>1, FoldIsSums
<1> HIDE DEF counted, folded
<1>3. DOMAIN folded.arms = {KeyOf(x) : x \in counted}
  BY <1>2, SumsAre
<1>4. ASSUME NEW key \in DOMAIN folded.arms
      PROVE  /\ folded.arms[key].runs = Cardinality(OfKey(counted, key))
             /\ folded.arms[key].judged = Cardinality({x \in OfKey(counted, key) : StepAt(x).judged})
             /\ \A h \in ArmsHosts : folded.arms[key].hosts[h] = Cardinality({x \in OfKey(counted, key) : HostOf(x) = h})
             /\ folded.arms[key].accepted = Cardinality(AcceptedIn(counted, key))
  <2>1. folded.arms[key] = SumOf(counted, key)
    BY <1>2, <1>3, SumsAre
  <2> QED BY <2>1 DEF SumOf
<1>5. DOMAIN folded.seen = {RowOf(x) : x \in RepliesIn(counted)}
  BY <1>2, SumsAre
<1>6. ASSUME NEW key \in DOMAIN folded.seen
      PROVE  A!consistent(folded.seen[key])
             <=> \A x, y \in RepliesIn(counted) : RowOf(x) = key /\ RowOf(y) = key => StepAt(x).arm = StepAt(y).arm
  <2>1. folded.seen[key] = WhoOf(counted, key)
    BY <1>2, <1>5, SumsAre
  <2> QED BY <1>1, <1>5, <2>1, ConsistentIsAgreed
<1>7. ASSUME strays = 0, NEW key \in DOMAIN folded.seen
      PROVE  A!consistent(folded.seen[key])
  <2>1. ASSUME NEW x \in RepliesIn(counted), NEW y \in RepliesIn(counted), RowOf(x) = key, RowOf(y) = key
        PROVE  StepAt(x).arm = StepAt(y).arm
    <3>1. x \in Places /\ y \in Places /\ armRuns[x[1]].kind = "run" /\ armRuns[y[1]].kind = "run"
      BY <1>1, <2>1 DEF RepliesIn, counted
    <3>2. StepAt(x).arm \in {"control", "candidate"} /\ StepAt(y).arm \in {"control", "candidate"}
      BY <2>1 DEF RepliesIn
    <3> QED BY <1>7, <2>1, <3>1, <3>2, NoneStrays
  <2> QED BY <1>6, <2>1
<1> QED BY <1>3, <1>4, <1>5, <1>6, <1>7, ArmsCounting DEF folded, counted, KeyOf, OfKey, StepAt, HostOf, AcceptedIn, RowOf, RepliesIn

-----------------------------------------------------------------------------
(* A step per action.                                                      *)

LEMMA ArmsStart == ASSUME A!Init PROVE ArmsInv
<1>1. Len(dial) \in Nat /\ Len(dial) >= 1 /\ dial \in Seq(0 .. CUSTOMERS)
  <2>1. dial \in [1 .. 1 -> 0 .. CUSTOMERS] /\ 1 \in Nat
    BY DEF A!Init
  <2>2. dial \in UNION {[1 .. n -> 0 .. CUSTOMERS] : n \in Nat}
    BY <2>1
  <2>3. dial \in Seq(0 .. CUSTOMERS)
    BY <2>2, SeqDef
  <2>4. DOMAIN dial = 1 .. Len(dial) /\ Len(dial) \in Nat
    BY <2>3, LenProperties
  <2>5. DOMAIN dial = 1 .. 1
    BY <2>1
  <2>6. 1 \in DOMAIN dial
    BY <2>5
  <2>7. Len(dial) >= 1
    BY <2>4, <2>6
  <2> QED BY <2>3, <2>4, <2>7
<1>2. armServes = [h \in ArmsHosts |-> 1] /\ armRuns = <<>> /\ armFeedback = <<>> /\ strays = 0
  BY DEF A!Init
<1>3. armServes \in [ArmsHosts -> 1 .. Len(dial)]
  BY <1>1, <1>2
<1> QED BY <1>1, <1>2, <1>3 DEF ArmsInv

\* The release a run was served is one of those there are, and stays as it was.
LEMMA OldRunsStay ==
  ASSUME ArmsInv, NEW run, RunTold(run), strays' \in Nat, strays' >= strays, Len(dial)' >= Len(dial), Len(dial)' \in Nat,
         \A g \in 1 .. Len(dial) : dial'[g] = dial[g]
  PROVE  RunTold(run)'
<1>1. PICK g \in 1 .. Len(dial), arm \in ReplyArms :
        /\ run.steps = A!Steps(g, arm)
        /\ strays = 0 /\ run.kind = "run" => arm \in {"unserved", A!Lands(run.customer, g)}
  BY DEF RunTold
<1>2. g \in 1 .. Len(dial)'
  BY DEF ArmsInv
<1>3. A!Lands(run.customer, g)' = A!Lands(run.customer, g)
  BY DEF A!Lands
<1>4. strays' = 0 => strays = 0
  BY DEF ArmsInv
<1>5. A!Steps(g, arm)' = A!Steps(g, arm)
  BY DEF A!Steps
<1> QED BY <1>1, <1>2, <1>3, <1>4, <1>5 DEF RunTold

LEMMA SameRunsStay ==
  ASSUME ArmsInv, UNCHANGED <<armRuns, strays>>, Len(dial)' >= Len(dial), Len(dial)' \in Nat,
         \A g \in 1 .. Len(dial) : dial'[g] = dial[g]
  PROVE  (\A i \in 1 .. Len(armRuns) : RunTold(armRuns[i]))'
<1> SUFFICES ASSUME NEW i \in 1 .. Len(armRuns')
             PROVE  RunTold(armRuns[i])'
  OBVIOUS
<1>1. PICK run : run = armRuns[i]
  OBVIOUS
<1>2. RunTold(run)'
  BY <1>1, OldRunsStay DEF ArmsInv
<1>3. armRuns'[i] = run
  BY <1>1
<1> QED BY <1>2, <1>3 DEF RunTold

\* One run more.
LEMMA RecordKeeps ==
  ASSUME ArmsInv, NEW h \in ArmsHosts, NEW kind \in {"run", "hosted"}, NEW c \in 1 .. CUSTOMERS, NEW arm \in ReplyArms,
         A!Record(h, kind, c, arm), UNCHANGED <<dial, armServes, armFeedback>>, strays' \in Nat, strays' >= strays,
         strays' = 0 /\ kind = "run" => arm \in {"unserved", A!Lands(c, armServes[h])}
  PROVE  ArmsInv'
<1> DEFINE new == [kind |-> kind, host |-> h, customer |-> c, steps |-> A!Steps(armServes[h], arm)]
<1>1. armRuns' = Append(armRuns, new)
  BY DEF A!Record
<1>2. armRuns \in Seq(RunRows) /\ new \in RunRows
  <2>1. armServes[h] \in Nat
    BY DEF ArmsInv
  <2> HIDE DEF A!Steps
  <2> QED BY <2>1 DEF ArmsInv, RunRows
<1>3. /\ armRuns' \in Seq(RunRows) /\ Len(armRuns') = Len(armRuns) + 1
      /\ \A i \in 1 .. Len(armRuns) : armRuns'[i] = armRuns[i]
      /\ \A i \in Nat : i = Len(armRuns) + 1 => armRuns'[i] = new
  <2> HIDE DEF new
  <2> QED BY <1>1, <1>2
<1>4. ASSUME NEW i \in 1 .. Len(armRuns)
      PROVE  RunTold(armRuns[i])'
  <2>1. PICK run : run = armRuns[i]
    OBVIOUS
  <2>2. RunTold(run)'
    BY <2>1, OldRunsStay DEF ArmsInv
  <2>3. armRuns'[i] = run
    BY <1>3, <2>1
  <2> QED BY <2>2, <2>3 DEF RunTold
<1>5. RunTold(new)'
  <2>1. armServes[h] \in 1 .. Len(dial)
    BY DEF ArmsInv
  <2> QED BY <2>1 DEF RunTold, A!Lands, A!Steps
<1> QED BY <1>1, <1>3, <1>4, <1>5 DEF ArmsInv

LEMMA ArmsKeep == ASSUME ArmsInv, [A!Next]_(A!vars) PROVE ArmsInv'
<1>1. CASE A!Dial
  <2>1. PICK buckets \in 0 .. CUSTOMERS : dial' = Append(dial, buckets)
    BY <1>1 DEF A!Dial
  <2>2. /\ dial' \in Seq(0 .. CUSTOMERS) /\ Len(dial') = Len(dial) + 1
        /\ \A g \in 1 .. Len(dial) : dial'[g] = dial[g]
    BY <2>1 DEF ArmsInv
  <2>3. armServes' \in [ArmsHosts -> 1 .. Len(dial')]
    BY <1>1, <2>2 DEF ArmsInv, A!Dial
  <2>4. (\A i \in 1 .. Len(armRuns) : RunTold(armRuns[i]))'
    BY <1>1, <2>2, SameRunsStay DEF ArmsInv, A!Dial
  <2>5. UNCHANGED <<armServes, armRuns, armFeedback, strays>>
    BY <1>1 DEF A!Dial
  <2>6. Len(dial') >= 1
    BY <2>2 DEF ArmsInv
  <2> QED BY <2>2, <2>3, <2>4, <2>5, <2>6 DEF ArmsInv
<1>2. CASE A!Feedback
  <2>1. PICK r \in DOMAIN armRuns, sent \in BOOLEAN : armFeedback' = Append(armFeedback, [run |-> r, filed |-> sent])
    BY <1>2 DEF A!Feedback
  <2>2. [run |-> r, filed |-> sent] \in [run : Nat, filed : BOOLEAN]
    BY DEF ArmsInv
  <2>3. armFeedback' \in Seq([run : Nat, filed : BOOLEAN])
    BY <2>1, <2>2 DEF ArmsInv
  <2>4. (\A i \in 1 .. Len(armRuns) : RunTold(armRuns[i]))'
    BY <1>2, SameRunsStay DEF ArmsInv, A!Feedback
  <2> QED BY <1>2, <2>3, <2>4 DEF ArmsInv, A!Feedback
<1>3. ASSUME NEW h \in ArmsHosts, A!Take(h)
      PROVE  ArmsInv'
  <2>1. (\A i \in 1 .. Len(armRuns) : RunTold(armRuns[i]))'
    BY <1>3, SameRunsStay DEF ArmsInv, A!Take
  <2>2. armServes' \in [ArmsHosts -> 1 .. Len(dial')]
    BY <1>3 DEF ArmsInv, A!Take
  <2> QED BY <1>3, <2>1, <2>2 DEF ArmsInv, A!Take
<1>4. ASSUME NEW h \in ArmsHosts, A!Run(h)
      PROVE  ArmsInv'
  <2>1. PICK c \in 1 .. CUSTOMERS, arm \in ReplyArms :
          /\ A!Record(h, "run", c, arm)
          /\ strays' = strays + (IF arm \in {"unserved", A!Lands(c, armServes[h])} THEN 0 ELSE 1)
    BY <1>4 DEF A!Run, A!Customers, ReplyArms
  <2>2. strays' \in Nat /\ strays' >= strays /\ (strays' = 0 => arm \in {"unserved", A!Lands(c, armServes[h])})
    BY <2>1 DEF ArmsInv
  <2> QED BY <1>4, <2>1, <2>2, RecordKeeps DEF A!Run
<1>5. ASSUME NEW h \in ArmsHosts, A!Hosted(h)
      PROVE  ArmsInv'
  <2>1. A!Lands(1, armServes[h]) \in ReplyArms /\ 1 \in 1 .. CUSTOMERS
    BY ArmsConstants DEF A!Lands, ReplyArms
  <2> QED BY <1>5, <2>1, RecordKeeps DEF A!Hosted, ArmsInv
<1>6. CASE UNCHANGED A!vars
  <2>1. (\A i \in 1 .. Len(armRuns) : RunTold(armRuns[i]))'
    BY <1>6, SameRunsStay DEF ArmsInv, A!vars
  <2> QED BY <1>6, <2>1 DEF ArmsInv, A!vars
<1> QED BY <1>1, <1>2, <1>3, <1>4, <1>5, <1>6 DEF A!Next

-----------------------------------------------------------------------------
(* All of them.                                                            *)

PartsInv ==
  /\ part = "wake" => WakeInv
  /\ part = "session" => SessionInv
  /\ part = "cadence" => CadenceInv
  /\ part = "walk" => WalkInv
  /\ part = "stacks" => StacksInv
  /\ part = "reset" => ResetInv
  /\ part = "dryrun" => DryRunInv
  /\ part = "costs" => CostsInv
  /\ part = "keys" => KeysInv
  /\ part = "steps" => StepsInv
  /\ part = "seed" => SeedInv
  /\ part = "arms" => ArmsInv

LEMMA PartsStart == Init => PartsInv
<1> SUFFICES ASSUME Init PROVE PartsInv
  OBVIOUS
<1>1. CASE part = "wake"
  <2>1. W!Init
    BY <1>1 DEF Init
  <2> QED BY <1>1, <2>1, WakeStarts DEF PartsInv
<1>2. CASE part = "session"
  <2>1. T!Init
    BY <1>2 DEF Init
  <2> QED BY <1>2, <2>1, SessionStarts DEF PartsInv
<1>3. CASE part = "cadence"
  <2>1. C!Init
    BY <1>3 DEF Init
  <2> QED BY <1>3, <2>1, CadenceStarts DEF PartsInv
<1>4. CASE part = "walk"
  <2>1. L!Init
    BY <1>4 DEF Init
  <2> QED BY <1>4, <2>1, WalkStarts DEF PartsInv
<1>5. CASE part = "stacks"
  <2>1. S!Init
    BY <1>5 DEF Init
  <2> QED BY <1>5, <2>1, StacksStart DEF PartsInv
<1>6. CASE part = "reset"
  <2>1. R!Init
    BY <1>6 DEF Init
  <2> QED BY <1>6, <2>1, ResetStarts DEF PartsInv
<1>7. CASE part = "dryrun"
  <2>1. D!Init
    BY <1>7 DEF Init
  <2> QED BY <1>7, <2>1, DryRunStarts DEF PartsInv
<1>8. CASE part = "costs"
  <2>1. M!Init
    BY <1>8 DEF Init
  <2> QED BY <1>8, <2>1, CostsStarts DEF PartsInv
<1>9. CASE part = "keys"
  <2>1. K!Init
    BY <1>9 DEF Init
  <2> QED BY <1>9, <2>1, KeysStart DEF PartsInv
<1>10. CASE part = "steps"
  <2>1. N!Init
    BY <1>10 DEF Init
  <2> QED BY <1>10, <2>1, StepsStart DEF PartsInv
<1>11. CASE part = "seed"
  <2>1. P!Init
    BY <1>11 DEF Init
  <2> QED BY <1>11, <2>1, SeedStarts DEF PartsInv
<1>12. CASE part = "arms"
  <2>1. A!Init
    BY <1>12 DEF Init
  <2> QED BY <1>12, <2>1, ArmsStart DEF PartsInv
<1> QED BY <1>1, <1>2, <1>3, <1>4, <1>5, <1>6, <1>7, <1>8, <1>9, <1>10, <1>11, <1>12 DEF Init

\* A step is one of the part that runs, or none.
LEMMA PartsKeep == PartsInv /\ [Next]_<<part, s1, s2, s3, s4, s5, s6, s7, s8, s9, s10, s11, After11>> => PartsInv'
<1> SUFFICES ASSUME PartsInv, [Next]_<<part, s1, s2, s3, s4, s5, s6, s7, s8, s9, s10, s11, After11>> PROVE PartsInv'
  OBVIOUS
<1>1. UNCHANGED part
  BY DEF Next, CadenceStep, WalkStep, WakeStep, StacksStep, ResetStep, DryRunStep, CostsStep, KeysStep, SessionStep,
         StepsStep, SeedStep, ArmsStep
<1>2. UNCHANGED <<s1, s2, s3, s4, s5, s6, s7, s8, s9, s10, s11, s12, s13, s14, s15, s16, s17>> \/ Next
  BY DEF After11, After12, After16
<1>3. CASE part = "wake"
  <2>1. [W!Next]_(W!vars)
    <3>1. CASE Next
      BY <1>3, <3>1 DEF Next, CadenceStep, WalkStep, WakeStep, StacksStep, ResetStep, DryRunStep, CostsStep, KeysStep,
         SessionStep, StepsStep, SeedStep, ArmsStep
    <3>2. CASE UNCHANGED <<s1, s2, s3, s4, s5, s6, s7, s8, s9, s10, s11, s12, s13, s14, s15, s16, s17>>
      BY <3>2 DEF W!vars, W!host, W!script
    <3> QED BY <1>2, <3>1, <3>2
  <2> QED BY <1>1, <1>3, <2>1, WakeKeeps DEF PartsInv
<1>4. CASE part = "session"
  <2>1. [T!Next]_(T!vars)
    <3>1. CASE Next
      BY <1>4, <3>1 DEF Next, CadenceStep, WalkStep, WakeStep, StacksStep, ResetStep, DryRunStep, CostsStep, KeysStep,
         SessionStep, StepsStep, SeedStep, ArmsStep
    <3>2. CASE UNCHANGED <<s1, s2, s3, s4, s5, s6, s7, s8, s9, s10, s11, s12, s13, s14, s15, s16, s17>>
      BY <3>2 DEF T!vars, T!storage, T!slots
    <3> QED BY <1>2, <3>1, <3>2
  <2> QED BY <1>1, <1>4, <2>1, SessionKeeps DEF PartsInv
<1>5. CASE part = "cadence"
  <2>1. [C!Next]_(C!vars)
    <3>1. CASE Next
      BY <1>5, <3>1 DEF Next, CadenceStep, WalkStep, WakeStep, StacksStep, ResetStep, DryRunStep, CostsStep, KeysStep,
         SessionStep, StepsStep, SeedStep, ArmsStep
    <3>2. CASE UNCHANGED <<s1, s2, s3, s4, s5, s6, s7, s8, s9, s10, s11, s12, s13, s14, s15, s16, s17>>
      BY <3>2 DEF C!vars, C!world, C!timer, C!reading
    <3> QED BY <1>2, <3>1, <3>2
  <2> QED BY <1>1, <1>5, <2>1, CadenceKeeps DEF PartsInv
<1>6. CASE part = "walk"
  <2>1. [L!Next]_(L!vars)
    <3>1. CASE Next
      BY <1>6, <3>1 DEF Next, CadenceStep, WalkStep, WakeStep, StacksStep, ResetStep, DryRunStep, CostsStep, KeysStep,
         SessionStep, StepsStep, SeedStep, ArmsStep
    <3>2. CASE UNCHANGED <<s1, s2, s3, s4, s5, s6, s7, s8, s9, s10, s11, s12, s13, s14, s15, s16, s17>>
      BY <3>2 DEF L!vars, L!terminal, L!release
    <3> QED BY <1>2, <3>1, <3>2
  <2> QED BY <1>1, <1>6, <2>1, WalkKeeps DEF PartsInv
<1>7. CASE part = "stacks"
  <2>1. [S!Next]_(S!vars)
    <3>1. CASE Next
      BY <1>7, <3>1 DEF Next, CadenceStep, WalkStep, WakeStep, StacksStep, ResetStep, DryRunStep, CostsStep, KeysStep,
         SessionStep, StepsStep, SeedStep, ArmsStep
    <3>2. CASE UNCHANGED <<s1, s2, s3, s4, s5, s6, s7, s8, s9, s10, s11, s12, s13, s14, s15, s16, s17>>
      BY <3>2 DEF S!vars
    <3> QED BY <1>2, <3>1, <3>2
  <2> QED BY <1>1, <1>7, <2>1, StacksKeep DEF PartsInv
<1>8. CASE part = "reset"
  <2>1. [R!Next]_(R!vars)
    <3>1. CASE Next
      BY <1>8, <3>1 DEF Next, CadenceStep, WalkStep, WakeStep, StacksStep, ResetStep, DryRunStep, CostsStep, KeysStep,
         SessionStep, StepsStep, SeedStep, ArmsStep
    <3>2. CASE UNCHANGED <<s1, s2, s3, s4, s5, s6, s7, s8, s9, s10, s11, s12, s13, s14, s15, s16, s17>>
      BY <3>2 DEF R!vars, R!fleet, R!replays, R!progress, R!history
    <3> QED BY <1>2, <3>1, <3>2
  <2> QED BY <1>1, <1>8, <2>1, ResetKeeps DEF PartsInv
<1>9. CASE part = "dryrun"
  <2>1. [D!Next]_(D!vars)
    <3>1. CASE Next
      BY <1>9, <3>1 DEF Next, CadenceStep, WalkStep, WakeStep, StacksStep, ResetStep, DryRunStep, CostsStep, KeysStep,
         SessionStep, StepsStep, SeedStep, ArmsStep
    <3>2. CASE UNCHANGED <<s1, s2, s3, s4, s5, s6, s7, s8, s9, s10, s11, s12, s13, s14, s15, s16, s17>>
      BY <3>2 DEF D!vars, D!fleet, D!run
    <3> QED BY <1>2, <3>1, <3>2
  <2> QED BY <1>1, <1>9, <2>1, DryRunKeeps DEF PartsInv
<1>10. CASE part = "costs"
  <2>1. [M!Next]_(M!vars)
    <3>1. CASE Next
      BY <1>10, <3>1 DEF Next, CadenceStep, WalkStep, WakeStep, StacksStep, ResetStep, DryRunStep, CostsStep, KeysStep,
         SessionStep, StepsStep, SeedStep, ArmsStep
    <3>2. CASE UNCHANGED <<s1, s2, s3, s4, s5, s6, s7, s8, s9, s10, s11, s12, s13, s14, s15, s16, s17>>
      BY <3>2 DEF M!vars
    <3> QED BY <1>2, <3>1, <3>2
  <2> QED BY <1>1, <1>10, <2>1, CostsKeep DEF PartsInv
<1>11. CASE part = "keys"
  <2>1. [K!Next]_(K!vars)
    <3>1. CASE Next
      BY <1>11, <3>1 DEF Next, CadenceStep, WalkStep, WakeStep, StacksStep, ResetStep, DryRunStep, CostsStep, KeysStep,
         SessionStep, StepsStep, SeedStep, ArmsStep
    <3>2. CASE UNCHANGED <<s1, s2, s3, s4, s5, s6, s7, s8, s9, s10, s11, s12, s13, s14, s15, s16, s17>>
      BY <3>2 DEF K!vars, K!owner, K!container
    <3> QED BY <1>2, <3>1, <3>2
  <2> QED BY <1>1, <1>11, <2>1, KeysKeep DEF PartsInv
<1>12. CASE part = "steps"
  <2>1. [N!Next]_(N!vars)
    <3>1. CASE Next
      BY <1>12, <3>1 DEF Next, CadenceStep, WalkStep, WakeStep, StacksStep, ResetStep, DryRunStep, CostsStep, KeysStep,
         SessionStep, StepsStep, SeedStep, ArmsStep
    <3>2. CASE UNCHANGED <<s1, s2, s3, s4, s5, s6, s7, s8, s9, s10, s11, s12, s13, s14, s15, s16, s17>>
      BY <3>2 DEF N!vars, N!sdk, N!process, N!written
    <3> QED BY <1>2, <3>1, <3>2
  <2> QED BY <1>1, <1>12, <2>1, StepsKeep DEF PartsInv
<1>13. CASE part = "seed"
  <2>1. [P!Next]_(P!vars)
    <3>1. CASE Next
      BY <1>13, <3>1 DEF Next, CadenceStep, WalkStep, WakeStep, StacksStep, ResetStep, DryRunStep, CostsStep, KeysStep,
         SessionStep, StepsStep, SeedStep, ArmsStep
    <3>2. CASE UNCHANGED <<s1, s2, s3, s4, s5, s6, s7, s8, s9, s10, s11, s12, s13, s14, s15, s16, s17>>
      BY <3>2 DEF P!vars
    <3> QED BY <1>2, <3>1, <3>2
  <2> QED BY <1>1, <1>13, <2>1, SeedKeeps DEF PartsInv
<1>14. CASE part = "arms"
  <2>1. [A!Next]_(A!vars)
    <3>1. CASE Next
      BY <1>14, <3>1 DEF Next, CadenceStep, WalkStep, WakeStep, StacksStep, ResetStep, DryRunStep, CostsStep, KeysStep,
         SessionStep, StepsStep, SeedStep, ArmsStep
    <3>2. CASE UNCHANGED <<s1, s2, s3, s4, s5, s6, s7, s8, s9, s10, s11, s12, s13, s14, s15, s16, s17>>
      BY <3>2 DEF A!vars
    <3> QED BY <1>2, <3>1, <3>2
  <2> QED BY <1>1, <1>14, <2>1, ArmsKeep DEF PartsInv
<1>15. CASE \A p \in {"wake", "session", "cadence", "walk", "stacks", "reset", "dryrun", "costs", "keys", "steps", "seed",
                      "arms"} : part # p
  BY <1>1, <1>15 DEF PartsInv
<1> QED BY <1>3, <1>4, <1>5, <1>6, <1>7, <1>8, <1>9, <1>10, <1>11, <1>12, <1>13, <1>14, <1>15

\* Each part keeps its own invariant in every behaviour, whatever the constants.
THEOREM PartsKept == Spec => []PartsInv
<1> QED BY PartsStart, PartsKeep, PTL DEF Spec

-----------------------------------------------------------------------------
(* What it comes to.                                                       *)

\* "returns when the eu-west row is fresh and both workers report" (power.mjs:15), and the
\* card says "awake" of no host whose Node worker has yet to write (hostPower.ts:79), however
\* often the host is started, put to sleep and seen in between.
THEOREM AwakeHolds == Spec => []AwakeIsTold
<1>1. PartsInv => AwakeIsTold
  BY MarkerGivesCard DEF PartsInv, AwakeIsTold, WakeInv, W!AwakeIsTold
<1> QED BY <1>1, PartsKept, PTL

\* "leave capacity for model actions on the five-concurrency host" (api.ts:136): never more
\* reads than slots, no slot lost by an answer, a failure or a page that comes back, and no
\* read left in the line beside a free one.
THEOREM SlotsPassOnHolds == Spec => []SlotsPassOn
<1>1. PartsInv => SlotsPassOn
  BY DEF PartsInv, SlotsPassOn, SessionInv
<1> QED BY <1>1, PartsKept, PTL

\* The mode in force is the one the document has had for as long as a cached text may live
\* and a host be late to look, and the next ticket is no further away than an interval of that
\* mode (demoMode.ts:14, eu-host/src/demoMode.ts:8), however the document is written and read.
THEOREM CadenceFollowsHolds == Spec => []CadenceFollows
<1>1. PartsInv => CadenceFollows
  BY CadenceTells DEF PartsInv, CadenceFollows
<1> QED BY <1>1, PartsKept, PTL

\* "Any text is kept as a note and the step stays open" (walk.ts:40): what is entered by
\* itself is a note under the step it was entered at, the answer at the key, or about to be.
THEOREM EnteredIsKeptHolds == Spec => []EnteredIsKept
<1>1. PartsInv => EnteredIsKept
  BY WalkTells DEF PartsInv, EnteredIsKept
<1> QED BY <1>1, PartsKept, PTL

\* "the thing that names them goes before the things it names" (lib/teardown.mjs:10),
\* wherever a deployment, a teardown or an airgap command stops; and a `down` that is through
\* leaves no key that nobody holds (airgap.mjs:164).
THEOREM NothingOrphanedHolds == Spec => []NothingOrphaned
<1>1. PartsInv => NothingOrphaned
  BY StacksTell DEF PartsInv, NothingOrphaned
<1> QED BY <1>1, PartsKept, PTL

\* The reset says "complete" only when every host that counts is at the last release it has
\* read of (demo-reset.mjs:243), whatever the pointer and the rows showed on the way.
THEOREM EveryHostAtTheLastHolds == Spec => []EveryHostAtTheLast
<1>1. PartsInv => EveryHostAtTheLast
  BY ResetTells DEF PartsInv, EveryHostAtTheLast
<1> QED BY <1>1, PartsKept, PTL

\* Whatever its waits come to, a script that cut the wire ends with it connected, unless the
\* restore was refused or a call threw (demo-dryrun.mjs:391, eu-host-proof.mjs:189): no script
\* can run out of time between the two.
THEOREM WireGivenBackHolds == Spec => []WireGivenBack
<1>1. PartsInv => WireGivenBack
  BY DryRunTells DEF PartsInv, WireGivenBack
<1> QED BY <1>1, PartsKept, PTL

\* Every day of a month or a report is charged once, by one page of one query (cost.mjs:73).
THEOREM EveryDayOnceHolds == Spec => []EveryDayOnce
<1>1. PartsInv => EveryDayOnce
  BY DEF PartsInv, EveryDayOnce, CostsInv
<1> QED BY <1>1, PartsKept, PTL

\* A run is refused for what failed in it, and for nothing else, while keys are rotated
\* and revoked around it (hosted.ts:113).
THEOREM RefusedForItsOwnHolds == Spec => []RefusedForItsOwn
<1>1. PartsInv => RefusedForItsOwn
  BY DEF PartsInv, RefusedForItsOwn, KeysInv
<1> QED BY <1>1, PartsKept, PTL

\* The record of a run tells what happened in it (observe.ts:38, run.ts:215): the numbers
\* a step shows are its own call's, "ok" means every step was answered, and nothing in the
\* record or the row is of a newer release than the run.
THEOREM RunTellsWhatHappenedHolds == Spec => []RunTellsWhatHappened
<1>1. PartsInv => RunTellsWhatHappened
  BY StepsTell DEF PartsInv, RunTellsWhatHappened
<1> QED BY <1>1, PartsKept, PTL

\* Wherever the seed is interrupted, the registry holds the old release or the new one but
\* for the file that is being written (lib/seed.mjs:16).
THEOREM NeverNeitherHolds == Spec => []NeverNeither
<1>1. PartsInv => NeverNeither
  BY SeedIsWhole DEF PartsInv, NeverNeither
<1> QED BY <1>1, PartsKept, PTL

\* "Two hosts disagree only when they served the same customer different arms under the same
\* release" (arms.ts:11): whatever part of the records the panel reads, its sums count every
\* step that was served once, with the feedback of its run, a row is inconsistent exactly when
\* two of its replies landed on different arms, and none is while no host strays.
THEOREM ArmsAreToldHolds == Spec => []ArmsAreTold
<1>1. PartsInv => ArmsAreTold
  BY ArmsTell DEF PartsInv, ArmsAreTold
<1> QED BY <1>1, PartsKept, PTL
=============================================================================
