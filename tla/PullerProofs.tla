---------------------------- MODULE PullerProofs ----------------------------
(***************************************************************************)
(* For any number of passes, messages, generations, documents and faults:  *)
(* a nudge counts once and is not dropped, a generation is announced once, *)
(* and what the state says was mirrored has been on the desk.              *)
(***************************************************************************)
EXTENDS Puller, FiniteSetTheorems, WellFoundedInduction, TLAPS

(* The least and the greatest of a set of numbers: the initial segments    *)
(* below its members are finite, and strict inclusion of those is          *)
(* well-founded.                                                           *)
LEMMA Least ==
  ASSUME NEW S \in SUBSET Nat, S # {}
  PROVE  Min(S) \in S /\ \A y \in S : Min(S) <= y
<1> DEFINE R == StrictSubsetOrdering(Nat)
           F == FiniteSubsetsOf(Nat)
           T == {0 .. x : x \in S}
<1>1. T \subseteq F /\ T # {}
  <2>1. \A x \in S : IsFiniteSet(0 .. x) /\ 0 .. x \subseteq Nat
    BY FS_Interval
  <2>2. QED
    BY <2>1 DEF FiniteSubsetsOf
<1>2. PICK I \in T : \A J \in T : ~ (<<J, I>> \in R)
  <2>1. IsWellFoundedOn(R, F)
    BY FS_StrictSubsetOrderingWellFounded
  <2> HIDE DEF R, F, T
  <2>2. QED
    BY <1>1, <2>1, WFMin
<1>3. PICK x \in S : I = 0 .. x
  OBVIOUS
<1>4. ASSUME NEW y \in S PROVE x <= y
  <2>1. ~ (<<0 .. y, 0 .. x>> \in R)
    BY <1>2, <1>3
  <2>2. ~ (0 .. y \subseteq 0 .. x /\ 0 .. y # 0 .. x)
    <3>1. 0 .. y \in SUBSET Nat /\ 0 .. x \in SUBSET Nat
      OBVIOUS
    <3>2. QED
      BY <2>1, <3>1 DEF StrictSubsetOrdering
  <2>3. y < x => x \notin 0 .. y /\ x \in 0 .. x /\ 0 .. y \subseteq 0 .. x
    OBVIOUS
  <2>4. QED
    BY <2>2, <2>3
<1>5. QED
  BY <1>4 DEF Min

LEMMA Greatest ==
  ASSUME NEW n \in Nat, NEW S \in SUBSET (0 .. n), S # {}
  PROVE  Max(S) \in S /\ \A y \in S : Max(S) >= y
<1> DEFINE T == {n - x : x \in S}
<1>1. T \in SUBSET Nat /\ T # {}
  <2>1. \A x \in S : n - x \in Nat
    OBVIOUS
  <2>2. QED
    BY <2>1
<1>2. Min(T) \in T /\ \A y \in T : Min(T) <= y
  <2> HIDE DEF T
  <2>1. QED
    BY <1>1, Least
<1>3. PICK x \in S : Min(T) = n - x
  BY <1>2
<1>4. \A y \in S : x >= y
  <2>1. ASSUME NEW y \in S PROVE x >= y
    <3>1. n - y \in T
      OBVIOUS
    <3>2. n - x <= n - y
      BY <3>1, <1>2, <1>3
    <3>3. QED
      BY <3>2
  <2>2. QED
    BY <2>1
<1>5. QED
  BY <1>4 DEF Max

LEMMA NewestOf ==
  ASSUME NEW n \in Nat, NEW S \in SUBSET (0 .. n)
  PROVE  Newest(S) \in S \cup {0} /\ \A y \in S \cup {0} : Newest(S) >= y
<1>1. S \cup {0} \in SUBSET (0 .. n) /\ S \cup {0} # {}
  OBVIOUS
<1>2. QED
  BY <1>1, Greatest DEF Newest

LEMMA Constants ==
  /\ NudgeIdsKept \in Nat \ {0} /\ AppliesKept \in Nat \ {0} /\ MaxReceive \in Nat \ {0}
  /\ Skips \subseteq Nat
  /\ MaxGeneration \in Nat /\ MaxDocs \in Nat /\ MaxApplies \in Nat /\ MaxFaults \in Nat
  /\ Ticks \cap Nudges = {} /\ NoMessage \notin Messages
  /\ Never \in Mirrored
BY PassesAssumption, KeptAssumption, SkipsAssumption, BoundsAssumption DEF Never, Mirrored

-----------------------------------------------------------------------------
(* Types.                                                                  *)

(* A pass of the queue has its message from its delivery to its end.       *)
MessageHeld == \A p \in Nudges : pc[p] # "idle" => message[p] \in Messages

(* A tick only skips what the object it read let it skip.                  *)
SkipsLeft == \A p \in fresh : plan[p] = "backoff" => state.skip > 0

ShowLeft == \A p \in Passes : pc[p] = "show" => mirror[p].show # {}
DocInOrder == doc.from <= doc.to + 1

TypeInv == TypeOK /\ MessageHeld /\ SkipsLeft /\ ShowLeft /\ DocInOrder

(* The variables of the passes, which every way to end a pass sets.        *)
PassesOK ==
  /\ pc \in [Passes -> PCs]
  /\ message \in [Passes -> Messages \cup {NoMessage}]
  /\ again \in SUBSET Nudges
  /\ plan \in [Passes -> Plans]
  /\ generation \in [Passes -> 0 .. MaxGeneration]
  /\ previous \in [Passes -> Mirrored]
  /\ mirror \in [Passes -> [written : 0 .. MaxDocs, applied : 0 .. MaxApplies, show : SUBSET Applies]]
  /\ queue \in [Messages -> {"unsent", "queued", "taken", "done", "dropped", "gone"}]
  /\ received \in [Messages -> 0 .. MaxReceive]

(* A pass that ends or runs again has forgotten what it was doing.         *)
Forgets(p) ==
  /\ pc'[p] \in {"idle", "read"}
  /\ plan'[p] = "none"
  /\ previous'[p] = Never
  /\ mirror'[p] = NoDoc
  /\ pc'[p] = "idle" => generation'[p] = 0
  /\ pc'[p] = "read" => generation'[p] = generation[p] /\ message'[p] = message[p]

(* What no step of a pass does: touch another.                             *)
OthersAside(p) ==
  \A q \in Passes \ {p} :
    /\ pc'[q] = pc[q] /\ message'[q] = message[q] /\ plan'[q] = plan[q]
    /\ generation'[q] = generation[q] /\ previous'[q] = previous[q] /\ mirror'[q] = mirror[q]

LEMMA LeaveEnds ==
  ASSUME TypeOK, NEW p \in Passes, NEW where, Leave(p, where),
         where \in {"queued", "gone", "done", "dropped"} \/ p \in Ticks
                  \/ where = queue[message[p]]
  PROVE  PassesOK' /\ Forgets(p) /\ OthersAside(p) /\ pc'[p] = "idle"
<1>1. queue' \in [Messages -> {"unsent", "queued", "taken", "done", "dropped", "gone"}]
  BY DEF Leave, TypeOK
<1>2. NoDoc \in [written : 0 .. MaxDocs, applied : 0 .. MaxApplies, show : SUBSET Applies]
  BY Constants DEF NoDoc
<1>3. /\ pc' \in [Passes -> PCs] /\ pc'[p] = "idle" /\ \A q \in Passes \ {p} : pc'[q] = pc[q]
      /\ received' \in [Messages -> 0 .. MaxReceive]
  BY DEF Leave, Goto, TypeOK, PCs
<1>4. /\ message' \in [Passes -> Messages \cup {NoMessage}]
      /\ \A q \in Passes \ {p} : message'[q] = message[q]
      /\ again' \in SUBSET Nudges
  BY DEF Leave, TypeOK
<1>5. /\ generation' \in [Passes -> 0 .. MaxGeneration] /\ generation'[p] = 0
      /\ \A q \in Passes \ {p} : generation'[q] = generation[q]
  BY Constants DEF Leave, TypeOK
<1>5a. /\ plan' \in [Passes -> Plans] /\ plan'[p] = "none"
       /\ \A q \in Passes \ {p} : plan'[q] = plan[q]
  BY DEF Leave, TypeOK, Plans
<1>6. /\ previous' \in [Passes -> Mirrored] /\ previous'[p] = Never
      /\ \A q \in Passes \ {p} : previous'[q] = previous[q]
      /\ mirror' \in [Passes -> [written : 0 .. MaxDocs, applied : 0 .. MaxApplies, show : SUBSET Applies]]
      /\ mirror'[p] = NoDoc
      /\ \A q \in Passes \ {p} : mirror'[q] = mirror[q]
  BY <1>2, Constants DEF Leave, TypeOK
<1>7. QED
  BY <1>1, <1>3, <1>4, <1>5, <1>5a, <1>6 DEF PassesOK, Forgets, OthersAside

LEMMA ReturnEnds ==
  ASSUME TypeOK, NEW p \in Passes, Return(p)
  PROVE  PassesOK' /\ Forgets(p) /\ OthersAside(p) /\ pc'[p] = "idle"
<1>1. PICK where \in {"done", "dropped"} : Leave(p, where)
  BY DEF Return
<1>2. QED
  BY <1>1, LeaveEnds

LEMMA ThrowsEnds ==
  ASSUME TypeOK, NEW p \in Passes, Throws(p)
  PROVE  PassesOK' /\ Forgets(p) /\ OthersAside(p) /\ pc'[p] = "idle"
<1> DEFINE m == message[p]
           where == IF p \in Ticks \/ queue[m] # "taken" THEN queue[m]
                    ELSE IF received[m] < MaxReceive THEN "queued" ELSE "gone"
<1>1. Leave(p, where)
  BY DEF Throws
<1>2. where \in {"queued", "gone"} \/ where = queue[message[p]]
  OBVIOUS
<1>3. QED
  <2> HIDE DEF where
  <2>1. QED
    BY <1>1, <1>2, LeaveEnds

LEMMA RaceLostEnds ==
  ASSUME TypeOK, NEW p \in Passes, RaceLost(p)
  PROVE  PassesOK' /\ Forgets(p) /\ OthersAside(p)
<1>1. CASE p \in Ticks
  BY <1>1, ReturnEnds DEF RaceLost
<1>2. CASE p \notin Ticks /\ p \in again
  BY <1>2, ThrowsEnds DEF RaceLost
<1>3. CASE p \notin Ticks /\ p \notin again
  <2>1. /\ Goto(p, "read") /\ again' = again \cup {p} /\ plan' = [plan EXCEPT ![p] = "none"]
        /\ previous' = [previous EXCEPT ![p] = Never] /\ mirror' = [mirror EXCEPT ![p] = NoDoc]
        /\ UNCHANGED <<message, generation, nudge>>
    BY <1>3 DEF RaceLost
  <2>2. NoDoc \in [written : 0 .. MaxDocs, applied : 0 .. MaxApplies, show : SUBSET Applies]
    BY Constants DEF NoDoc
  <2>3. p \in Nudges
    BY <1>3 DEF Passes
  <2>4. /\ pc' \in [Passes -> PCs] /\ pc'[p] = "read" /\ \A q \in Passes \ {p} : pc'[q] = pc[q]
        /\ plan' \in [Passes -> Plans] /\ plan'[p] = "none"
        /\ \A q \in Passes \ {p} : plan'[q] = plan[q]
    BY <2>1 DEF Goto, TypeOK, PCs, Plans
  <2>5. /\ previous' \in [Passes -> Mirrored] /\ previous'[p] = Never
        /\ \A q \in Passes \ {p} : previous'[q] = previous[q]
        /\ mirror' \in [Passes -> [written : 0 .. MaxDocs, applied : 0 .. MaxApplies, show : SUBSET Applies]]
        /\ mirror'[p] = NoDoc
        /\ \A q \in Passes \ {p} : mirror'[q] = mirror[q]
    BY <2>1, <2>2, Constants DEF TypeOK
  <2>6. QED
    BY <2>1, <2>3, <2>4, <2>5 DEF TypeOK, PassesOK, Forgets, OthersAside, nudge
<1>4. QED
  BY <1>1, <1>2, <1>3

LEMMA WithIds ==
  ASSUME NEW N, NEW S, NEW M, NEW n \in N, NEW ids \in S,
         NEW s \in [nudges : N, nudgeIds : S, skip : N, mirrored : M],
         NEW more, more = [s EXCEPT !.nudges = n, !.nudgeIds = ids]
  PROVE  /\ more \in [nudges : N, nudgeIds : S, skip : N, mirrored : M]
         /\ more.nudges = n /\ more.nudgeIds = ids
         /\ more.skip = s.skip /\ more.mirrored = s.mirrored
OBVIOUS

(* A sequence that ends in what the first did not hold, and is otherwise   *)
(* the first, shifted.                                                     *)
LEMMA ShiftedInjective ==
  ASSUME NEW S, NEW old \in Seq(S), NEW ids \in Seq(S), NEW m, NEW k \in {0, 1},
         IsInjective(old), m \notin Range(old),
         Len(ids) >= 1, ids[Len(ids)] = m, Len(ids) - 1 + k <= Len(old),
         \A i \in 1 .. Len(ids) - 1 : ids[i] = old[i + k]
  PROVE  IsInjective(ids)
<1>1. \A i \in DOMAIN old : old[i] # m
  BY DEF Range
<1>2. DOMAIN ids = 1 .. Len(ids) /\ DOMAIN old = 1 .. Len(old)
  OBVIOUS
<1>3. ASSUME NEW a \in DOMAIN ids, NEW b \in DOMAIN ids, ids[a] = ids[b]
      PROVE  a = b
  <2>1. ASSUME NEW i \in DOMAIN ids, i # Len(ids)
        PROVE  i + k \in DOMAIN old /\ ids[i] = old[i + k] /\ ids[i] # m
    <3>1. i \in 1 .. Len(ids) - 1 /\ i + k \in DOMAIN old
      BY <1>2, <2>1
    <3>2. QED
      BY <1>1, <3>1
  <2>2. CASE a # Len(ids) /\ b # Len(ids)
    <3>1. a + k = b + k
      BY <1>3, <2>1, <2>2 DEF IsInjective
    <3>2. QED
      BY <3>1, <1>2
  <2>3. CASE a = Len(ids) \/ b = Len(ids)
    BY <1>3, <2>1, <2>3
  <2>4. QED
    BY <2>2, <2>3
<1>4. QED
  BY <1>3 DEF IsInjective

(* The ids after one more: the newest, without the oldest once they are    *)
(* full.                                                                   *)
LEMMA CountedIds ==
  ASSUME TypeOK, NEW m \in Messages
  PROVE  LET ids == Counted(m).nudgeIds
         IN  /\ Counted(m) \in [nudges : Nat, nudgeIds : Seq(Messages), skip : Nat, mirrored : Mirrored]
             /\ Counted(m).nudges = state.nudges + 1
             /\ Counted(m).skip = state.skip /\ Counted(m).mirrored = state.mirrored
             /\ Len(ids) <= NudgeIdsKept
             /\ m \in Range(ids)
             /\ Len(state.nudgeIds) < NudgeIdsKept =>
                  Len(ids) = Len(state.nudgeIds) + 1 /\ Range(ids) = Range(state.nudgeIds) \cup {m}
             /\ IsInjective(state.nudgeIds) /\ m \notin Range(state.nudgeIds) => IsInjective(ids)
<1> DEFINE old == state.nudgeIds
           ids == IF Len(old) = NudgeIdsKept THEN Append(Tail(old), m) ELSE Append(old, m)
<1>1. old \in Seq(Messages) /\ Len(old) <= NudgeIdsKept /\ Len(old) \in Nat
  BY DEF TypeOK
<1>2. Counted(m) = [state EXCEPT !.nudges = @ + 1, !.nudgeIds = ids]
  BY DEF Counted
<1>3. ids \in Seq(Messages) /\ Len(ids) <= NudgeIdsKept
  BY <1>1, Constants
<1>4. /\ Counted(m) \in [nudges : Nat, nudgeIds : Seq(Messages), skip : Nat, mirrored : Mirrored]
      /\ Counted(m).nudges = state.nudges + 1 /\ Counted(m).nudgeIds = ids
      /\ Counted(m).skip = state.skip /\ Counted(m).mirrored = state.mirrored
  <2>1. state \in [nudges : Nat, nudgeIds : Seq(Messages), skip : Nat, mirrored : Mirrored]
    BY DEF TypeOK
  <2>2. state.nudges + 1 \in Nat
    BY <2>1
  <2>3. Counted(m) = [state EXCEPT !.nudges = state.nudges + 1, !.nudgeIds = ids]
    BY <1>2
  <2> HIDE DEF ids
  <2>4. QED
    BY <1>3, <2>1, <2>2, <2>3, WithIds
<1>5. m \in Range(ids)
  <2>1. Len(ids) \in DOMAIN ids /\ ids[Len(ids)] = m
    BY <1>1, Constants
  <2>2. QED
    BY <2>1 DEF Range
<1>6. ASSUME Len(old) < NudgeIdsKept
      PROVE  Len(ids) = Len(old) + 1 /\ Range(ids) = Range(old) \cup {m}
  <2>1. ids = Append(old, m)
    BY <1>1, <1>6
  <2>2. /\ DOMAIN ids = DOMAIN old \cup {Len(old) + 1}
        /\ ids[Len(old) + 1] = m /\ \A i \in DOMAIN old : ids[i] = old[i]
    BY <2>1, <1>1
  <2>3. QED
    BY <2>1, <2>2, <1>1 DEF Range
<1>7. ASSUME IsInjective(old), m \notin Range(old)
      PROVE  IsInjective(ids)
  <2>1. CASE Len(old) = NudgeIdsKept
    <3>1. /\ Len(ids) >= 1 /\ ids[Len(ids)] = m /\ Len(ids) - 1 + 1 <= Len(old) /\ 1 \in {0, 1}
          /\ \A i \in 1 .. Len(ids) - 1 : ids[i] = old[i + 1]
      BY <2>1, <1>1, Constants
    <3> HIDE DEF ids, old
    <3>2. QED
      BY <3>1, <1>1, <1>3, <1>7, ShiftedInjective
  <2>2. CASE Len(old) # NudgeIdsKept
    <3>1. /\ Len(ids) >= 1 /\ ids[Len(ids)] = m /\ Len(ids) - 1 + 0 <= Len(old) /\ 0 \in {0, 1}
          /\ \A i \in 1 .. Len(ids) - 1 : ids[i] = old[i + 0]
      BY <2>2, <1>1, Constants
    <3> HIDE DEF ids, old
    <3>2. QED
      BY <3>1, <1>1, <1>3, <1>7, ShiftedInjective
  <2>3. QED
    BY <2>1, <2>2
<1>8. QED
  <2> HIDE DEF ids
  <2>1. QED
    BY <1>3, <1>4, <1>5, <1>6, <1>7

(* What a pass saves about the release, or keeps of the mirror.            *)
LEMMA SavedIs ==
  ASSUME TypeInv, NEW p \in fresh, pc[p] = "save", state' \in Saved(p)
  PROVE  /\ state' \in [nudges : Nat, nudgeIds : Seq(Messages), skip : Nat, mirrored : Mirrored]
         /\ state'.nudges = state.nudges /\ state'.nudgeIds = state.nudgeIds
         /\ state'.mirrored = state.mirrored
         /\ plan[p] = "none" => state' = state
<1>1. CASE plan[p] = "backoff"
  <2>1. state.skip - 1 \in Nat
    BY <1>1 DEF TypeInv, TypeOK, SkipsLeft
  <2>2. state' = [state EXCEPT !.skip = @ - 1]
    BY <1>1 DEF Saved
  <2>3. QED
    BY <1>1, <2>1, <2>2 DEF TypeInv, TypeOK
<1>2. CASE plan[p] = "none"
  BY <1>2 DEF Saved, TypeInv, TypeOK
<1>3. CASE plan[p] \notin {"backoff", "none"}
  <2>1. PICK n \in Nat : state' = [state EXCEPT !.skip = n]
    BY <1>3, Constants DEF Saved, advance
  <2>2. QED
    BY <1>3, <2>1 DEF TypeInv, TypeOK
<1>4. QED
  BY <1>1, <1>2, <1>3

LEMMA KeptIs ==
  ASSUME TypeOK, NEW p \in Passes
  PROVE  /\ Kept(p) \in [nudges : Nat, nudgeIds : Seq(Messages), skip : Nat, mirrored : Mirrored]
         /\ Kept(p).nudges = state.nudges /\ Kept(p).nudgeIds = state.nudgeIds
         /\ Kept(p).skip = state.skip
         /\ Kept(p).mirrored.written = mirror[p].written
         /\ Kept(p).mirrored.applied = mirror[p].applied
<1>1. [written |-> mirror[p].written, applied |-> mirror[p].applied] \in Mirrored
  BY DEF TypeOK, Mirrored
<1>2. QED
  BY <1>1 DEF Kept, TypeOK

(* The end of a pass that changes nothing else.                            *)
LEMMA TypeAfterEnd ==
  ASSUME TypeInv, NEW p \in Passes, pc[p] # "idle", PassesOK', Forgets(p), OthersAside(p),
         state'.skip = state.skip \/ fresh' = {},
         state' \in [nudges : Nat, nudgeIds : Seq(Messages), skip : Nat, mirrored : Mirrored],
         Len(state'.nudgeIds) <= NudgeIdsKept, fresh' \subseteq fresh,
         UNCHANGED release, UNCHANGED <<doc, desk, told, history>>, faults' \in 0 .. MaxFaults
  PROVE  TypeInv'
<1>1. TypeOK'
  BY DEF TypeInv, TypeOK, PassesOK, release, desk
<1>2. MessageHeld' /\ ShowLeft'
  BY DEF TypeInv, MessageHeld, ShowLeft, Forgets, OthersAside, Passes
<1>3. SkipsLeft'
  BY ZenonT(40) DEF TypeInv, TypeOK, SkipsLeft, Forgets, OthersAside
<1>4. QED
  BY <1>1, <1>2, <1>3 DEF TypeInv, DocInOrder

LEMMA FaultType ==
  ASSUME TypeOK, Fault
  PROVE  faults' \in 0 .. MaxFaults
BY Constants DEF Fault, TypeOK

(* One more at a point, whether or not it is in the domain.                *)
LEMMA Incremented ==
  ASSUME NEW S, NEW f \in [S -> Nat], NEW x
  PROVE  [f EXCEPT ![x] = @ + 1] \in [S -> Nat]
<1>1. CASE x \in S
  <2>1. f[x] + 1 \in Nat
    BY <1>1
  <2>2. QED
    BY <1>1, <2>1
<1>2. CASE x \notin S
  <2>1. [f EXCEPT ![x] = @ + 1] = f
    BY <1>2
  <2>2. QED
    BY <2>1
<1>3. QED
  BY <1>1, <1>2

LEMMA TickType ==
  ASSUME TypeInv, NEW p \in Passes, tick(p)
  PROVE  TypeInv'
<1>1. TypeOK'
  BY DEF tick, Goto, TypeInv, TypeOK, PCs, nudge, release, desk
<1>2. p \notin Nudges
  BY Constants DEF tick
<1>3. QED
  BY <1>1, <1>2 DEF tick, Goto, TypeInv, TypeOK, MessageHeld, SkipsLeft, ShowLeft, DocInOrder, Passes

LEMMA ReceiveType ==
  ASSUME TypeInv, NEW p \in Passes, NEW m \in Messages, Receive(p, m), faults' \in 0 .. MaxFaults
  PROVE  TypeInv'
<1>1. received' \in [Messages -> 0 .. MaxReceive]
  <2>1. received[m] \in 0 .. MaxReceive /\ received[m] < MaxReceive
    BY DEF Receive, TypeInv, TypeOK
  <2>1a. received[m] + 1 \in 0 .. MaxReceive
    BY <2>1, Constants
  <2>2. QED
    BY <2>1a DEF Receive, TypeInv, TypeOK
<1>2. TypeOK'
  BY <1>1 DEF Receive, Goto, TypeInv, TypeOK, PCs, release, desk
<1>3. QED
  BY <1>2 DEF Receive, Goto, TypeInv, TypeOK, MessageHeld, SkipsLeft, ShowLeft, DocInOrder, Passes

LEMMA SendType ==
  ASSUME TypeInv, NEW m \in Messages, Send(m)
  PROVE  TypeInv'
<1>1. TypeOK'
  BY DEF Send, TypeInv, TypeOK, pass, release, desk
<1>2. QED
  BY <1>1 DEF Send, TypeInv, MessageHeld, SkipsLeft, ShowLeft, DocInOrder, pass

LEMMA PlannedPC ==
  ASSUME NEW what
  PROVE  Planned(what) \in {"pull", "save"}
BY DEF Planned

LEMMA ReadType ==
  ASSUME TypeInv, NEW p \in Passes, NEW key \in {"usable", "malformed", "unreadable"}, Read(p, key)
  PROVE  TypeInv'
<1>1. CASE key = "unreadable" /\ p \in Nudges
  <2>1. PassesOK' /\ Forgets(p) /\ OthersAside(p)
    BY <1>1, ThrowsEnds DEF Read, TypeInv
  <2>2. /\ pc[p] = "read" /\ state' = state /\ fresh' = fresh
        /\ UNCHANGED release /\ UNCHANGED <<doc, desk, told, history>> /\ faults' = faults
    BY <1>1 DEF Read
  <2>3. /\ state' \in [nudges : Nat, nudgeIds : Seq(Messages), skip : Nat, mirrored : Mirrored]
        /\ Len(state'.nudgeIds) <= NudgeIdsKept /\ faults' \in 0 .. MaxFaults
        /\ state'.skip = state.skip /\ fresh' \subseteq fresh
    BY <2>2 DEF TypeInv, TypeOK
  <2>4. QED
    BY <2>1, <2>2, <2>3, TypeAfterEnd
<1>2. CASE ~ (key = "unreadable" /\ p \in Nudges)
  <2>1. /\ plan' = [plan EXCEPT ![p] = planPull(p, key)]
        /\ fresh' = fresh \cup {p}
        /\ Goto(p, IF p \in Nudges /\ countNudge(message[p]) THEN "count" ELSE Planned(plan'[p]))
        /\ history' = IF key = "malformed" /\ p \in Nudges
                      THEN [history EXCEPT !.served = @ \cup {p}] ELSE history
        /\ UNCHANGED <<message, again, generation, previous, mirror, nudge>>
        /\ UNCHANGED <<state, release, doc, desk, told, faults>>
        /\ pc[p] = "read"
    BY <1>2 DEF Read
  <2>2. planPull(p, key) \in Plans /\ (planPull(p, key) = "backoff" => state.skip > 0)
    BY DEF planPull, Plans
  <2>3. plan' \in [Passes -> Plans] /\ plan'[p] = planPull(p, key)
        /\ \A q \in Passes \ {p} : plan'[q] = plan[q]
    BY <2>1, <2>2 DEF TypeInv, TypeOK
  <2>4. pc' \in [Passes -> PCs] /\ pc'[p] \in {"count", "pull", "save"}
        /\ \A q \in Passes \ {p} : pc'[q] = pc[q]
    BY <2>1, PlannedPC DEF Goto, TypeInv, TypeOK, PCs
  <2>5. history' \in [served : SUBSET Nudges, newest : 0 .. MaxDocs]
    BY <2>1 DEF TypeInv, TypeOK
  <2>6. TypeOK'
    BY <2>1, <2>3, <2>4, <2>5 DEF TypeInv, TypeOK, nudge, release, desk
  <2>7. MessageHeld' /\ ShowLeft' /\ DocInOrder'
    BY <2>1, <2>4 DEF TypeInv, MessageHeld, ShowLeft, DocInOrder, Passes
  <2>8. SkipsLeft'
    BY <2>1, <2>2, <2>3 DEF TypeInv, TypeOK, SkipsLeft
  <2>9. QED
    BY <2>6, <2>7, <2>8 DEF TypeInv
<1>3. QED
  BY <1>1, <1>2

(* A race lost on the way.                                                 *)
LEMMA RaceLostType ==
  ASSUME TypeInv, NEW p \in Passes, pc[p] # "idle", RaceLost(p), UNCHANGED <<state, fresh>>,
         UNCHANGED <<release, doc, desk, told, history, faults>>
  PROVE  TypeInv'
<1>1. TypeOK
  BY DEF TypeInv
<1>2. PassesOK' /\ Forgets(p) /\ OthersAside(p)
  BY <1>1, RaceLostEnds
<1>3. /\ state' \in [nudges : Nat, nudgeIds : Seq(Messages), skip : Nat, mirrored : Mirrored]
      /\ Len(state'.nudgeIds) <= NudgeIdsKept /\ faults' \in 0 .. MaxFaults
      /\ state'.skip = state.skip /\ fresh' \subseteq fresh
      /\ UNCHANGED release /\ UNCHANGED <<doc, desk, told, history>>
  BY DEF TypeInv, TypeOK
<1>4. QED
  BY <1>2, <1>3, TypeAfterEnd

LEMMA CountNudgeType ==
  ASSUME TypeInv, NEW p \in Passes, p \in Nudges, CountNudge(p)
  PROVE  TypeInv'
<1>1. CASE CanPut(p)
  <2>1. /\ state' = Counted(message[p]) /\ fresh' = fresh \cap {p}
        /\ Goto(p, "nudged") /\ pc[p] = "count"
        /\ UNCHANGED <<message, again, plan, generation, previous, mirror, nudge>>
        /\ UNCHANGED <<release, doc, desk, told, history, faults>>
    BY <1>1 DEF CountNudge, Put
  <2>2. message[p] \in Messages
    BY <2>1 DEF TypeInv, MessageHeld
  <2>3. /\ state' \in [nudges : Nat, nudgeIds : Seq(Messages), skip : Nat, mirrored : Mirrored]
        /\ Len(state'.nudgeIds) <= NudgeIdsKept /\ state'.skip = state.skip
    BY <2>1, <2>2, CountedIds DEF TypeInv
  <2>4. TypeOK'
    BY <2>1, <2>3 DEF Goto, TypeInv, TypeOK, PCs, nudge, release, desk
  <2>5. QED
    BY <2>1, <2>3, <2>4
       DEF Goto, TypeInv, TypeOK, MessageHeld, SkipsLeft, ShowLeft, DocInOrder, Passes
<1>2. CASE ~ CanPut(p)
  BY <1>2, RaceLostType DEF CountNudge
<1>3. QED
  BY <1>1, <1>2

LEMMA NudgedType ==
  ASSUME TypeInv, NEW p \in Passes, Nudged(p)
  PROVE  TypeInv'
<1>1. pc' \in [Passes -> PCs] /\ pc'[p] \in {"pull", "save"}
      /\ \A q \in Passes \ {p} : pc'[q] = pc[q]
  BY PlannedPC DEF Nudged, Goto, TypeInv, TypeOK, PCs
<1>2. told' \in [Messages -> Nat]
  BY Incremented DEF Nudged, TypeInv, TypeOK
<1>3. TypeOK'
  BY <1>1, <1>2 DEF Nudged, TypeInv, TypeOK, nudge, release, desk
<1>4. QED
  BY <1>1, <1>3 DEF Nudged, TypeInv, MessageHeld, SkipsLeft, ShowLeft, DocInOrder, Passes

(* The steps of a pass that stay with it.                                  *)
LEMMA PullType ==
  ASSUME TypeInv, NEW p \in Passes, Pull(p)
  PROVE  TypeInv'
<1>1. PICK outcome \in {"ok", "held up"}, g \in 0 .. MaxGeneration :
        Answers(p, outcome, g) /\ stored' \in SUBSET Generations /\ UNCHANGED faults
  <2>1. 0 \in 0 .. MaxGeneration /\ \A g \in Generations : g \in 0 .. MaxGeneration
    BY Constants DEF Generations
  <2>2. stored \in SUBSET Generations /\ UNCHANGED faults
    BY DEF Pull, pullToDatastore, TypeInv, TypeOK
  <2>3. CASE \E g \in Generations : Stores(g) /\ Answers(p, "ok", g)
    BY <2>1, <2>2, <2>3 DEF Stores
  <2>4. CASE Answers(p, "ok", 0) /\ UNCHANGED stored
    BY <2>1, <2>2, <2>4
  <2>5. CASE Answers(p, "held up", 0) /\ UNCHANGED stored
    BY <2>1, <2>2, <2>5
  <2>6. QED
    BY <2>3, <2>4, <2>5 DEF Pull, pullToDatastore
<1>2. pc' \in [Passes -> PCs] /\ pc'[p] \in {"save", "announce"}
      /\ \A q \in Passes \ {p} : pc'[q] = pc[q]
  BY <1>1 DEF Answers, Goto, TypeInv, TypeOK, PCs
<1>3. plan' \in [Passes -> Plans] /\ plan'[p] \in {"ok", "held up"}
      /\ \A q \in Passes \ {p} : plan'[q] = plan[q]
  BY <1>1 DEF Answers, TypeInv, TypeOK, Plans
<1>4. generation' \in [Passes -> 0 .. MaxGeneration]
  BY <1>1 DEF Answers, TypeInv, TypeOK
<1>5. history' \in [served : SUBSET Nudges, newest : 0 .. MaxDocs]
  BY <1>1 DEF Answers, TypeInv, TypeOK
<1>6. TypeOK'
  BY <1>1, <1>2, <1>3, <1>4, <1>5 DEF Answers, TypeInv, TypeOK, nudge, desk
<1>7. MessageHeld' /\ ShowLeft' /\ DocInOrder'
  BY <1>1, <1>2 DEF Answers, Pull, pullToDatastore, TypeInv, MessageHeld, ShowLeft, DocInOrder, Passes
<1>8. SkipsLeft'
  BY <1>1, <1>3 DEF Answers, TypeInv, TypeOK, SkipsLeft
<1>9. QED
  BY <1>6, <1>7, <1>8 DEF TypeInv

LEMMA PullHalfType ==
  ASSUME TypeInv, NEW p \in Passes, PullHalf(p)
  PROVE  TypeInv'
<1>1. pc' \in [Passes -> PCs] /\ pc'[p] = "save" /\ \A q \in Passes \ {p} : pc'[q] = pc[q]
  BY DEF PullHalf, Goto, TypeInv, TypeOK, PCs
<1>2. plan' \in [Passes -> Plans] /\ plan'[p] = "held up"
      /\ \A q \in Passes \ {p} : plan'[q] = plan[q]
  BY DEF PullHalf, TypeInv, TypeOK, Plans
<1>3. history' \in [served : SUBSET Nudges, newest : 0 .. MaxDocs]
  BY DEF PullHalf, TypeInv, TypeOK
<1>4. stored' \in SUBSET Generations /\ faults' \in 0 .. MaxFaults
  BY FaultType DEF PullHalf, Stores, TypeInv, TypeOK
<1>5. TypeOK'
  BY <1>1, <1>2, <1>3, <1>4 DEF PullHalf, TypeInv, TypeOK, nudge, desk
<1>6. MessageHeld' /\ ShowLeft' /\ DocInOrder'
  BY <1>1 DEF PullHalf, TypeInv, MessageHeld, ShowLeft, DocInOrder, Passes
<1>7. SkipsLeft'
  BY <1>2 DEF PullHalf, TypeInv, TypeOK, SkipsLeft
<1>8. QED
  BY <1>5, <1>6, <1>7 DEF TypeInv

LEMMA AnnounceType ==
  ASSUME TypeInv, NEW p \in Passes, Announce(p)
  PROVE  TypeInv'
<1>1. pc' \in [Passes -> PCs] /\ pc'[p] = "save" /\ \A q \in Passes \ {p} : pc'[q] = pc[q]
  BY DEF Announce, Goto, TypeInv, TypeOK, PCs
<1>2. generation' \in [Passes -> 0 .. MaxGeneration]
  BY Constants DEF Announce, TypeInv, TypeOK
<1>2a. announced' \in [Generations -> Nat]
  BY Incremented DEF Announce, TypeInv, TypeOK
<1>3. TypeOK'
  BY <1>1, <1>2, <1>2a DEF Announce, TypeInv, TypeOK, nudge, desk
<1>4. QED
  BY <1>1, <1>3 DEF Announce, TypeInv, MessageHeld, SkipsLeft, ShowLeft, DocInOrder, Passes

LEMMA SaveType ==
  ASSUME TypeInv, NEW p \in Passes, Save(p)
  PROVE  TypeInv'
<1>1. CASE CanPut(p)
  <2>1. /\ state' \in Saved(p)
        /\ fresh' = IF plan[p] = "none" THEN fresh ELSE fresh \cap {p}
        /\ plan' = [plan EXCEPT ![p] = "none"]
        /\ previous' = [previous EXCEPT ![p] = state.mirrored]
        /\ Goto(p, "look") /\ pc[p] = "save"
        /\ UNCHANGED <<message, again, generation, mirror, nudge>>
        /\ UNCHANGED <<release, doc, desk, told, history, faults>>
    BY <1>1 DEF Save
  <2>2. /\ state' \in [nudges : Nat, nudgeIds : Seq(Messages), skip : Nat, mirrored : Mirrored]
        /\ state'.nudgeIds = state.nudgeIds /\ (plan[p] = "none" => state' = state)
    BY <1>1, <2>1, SavedIs DEF CanPut
  <2>3. state.mirrored \in Mirrored
    BY DEF TypeInv, TypeOK
  <2>4. pc' \in [Passes -> PCs] /\ pc'[p] = "look" /\ \A q \in Passes \ {p} : pc'[q] = pc[q]
    BY <2>1 DEF Goto, TypeInv, TypeOK, PCs
  <2>5. plan' \in [Passes -> Plans] /\ plan'[p] = "none"
        /\ \A q \in Passes \ {p} : plan'[q] = plan[q]
    BY <2>1 DEF TypeInv, TypeOK, Plans
  <2>6. previous' \in [Passes -> Mirrored]
    BY <2>1, <2>3 DEF TypeInv, TypeOK
  <2>7. TypeOK'
    BY <2>1, <2>2, <2>4, <2>5, <2>6 DEF TypeInv, TypeOK, nudge, release, desk
  <2>8. MessageHeld' /\ ShowLeft' /\ DocInOrder'
    BY <2>1, <2>4 DEF TypeInv, MessageHeld, ShowLeft, DocInOrder, Passes
  <2>9. SkipsLeft'
    BY <2>1, <2>2, <2>5 DEF TypeInv, TypeOK, SkipsLeft
  <2>10. QED
    BY <2>7, <2>8, <2>9 DEF TypeInv
<1>2. CASE ~ CanPut(p)
  BY <1>2, RaceLostType DEF Save
<1>3. QED
  BY <1>1, <1>2

(* What a pass finds in the document, when it is a newer one.              *)
Found(p) ==
  [written |-> doc.written,
   applied |-> Newest((doc.from .. doc.to) \cup {previous[p].applied}),
   show |-> Since(doc.from .. doc.to, previous[p].applied)]

LEMMA FoundIs ==
  ASSUME TypeOK, NEW p \in Passes
  PROVE  LET before == previous[p].applied
             applies == doc.from .. doc.to
         IN  /\ Found(p) \in [written : 0 .. MaxDocs, applied : 0 .. MaxApplies, show : SUBSET Applies]
             /\ before \in 0 .. MaxApplies
             /\ Found(p).applied \in applies \cup {before}
             /\ \A a \in applies : a <= Found(p).applied
             /\ before <= Found(p).applied
             /\ before # 0 => Found(p).show = {a \in applies : a > before}
             /\ before = 0 /\ applies # {} => Found(p).applied \in Found(p).show
<1> DEFINE before == previous[p].applied
           applies == doc.from .. doc.to
<1>1. before \in 0 .. MaxApplies
  BY DEF TypeOK, Mirrored
<1>2. applies \in SUBSET Applies /\ applies \in SUBSET (0 .. MaxApplies)
  <2>1. doc.from \in 1 .. MaxApplies + 1 /\ doc.to \in 0 .. MaxApplies
    BY DEF TypeOK
  <2>2. QED
    BY <2>1, Constants DEF Applies
<1>3. /\ Newest(applies \cup {before}) \in applies \cup {before} \cup {0}
      /\ \A y \in applies \cup {before} \cup {0} : Newest(applies \cup {before}) >= y
  <2>1. applies \cup {before} \in SUBSET (0 .. MaxApplies)
    BY <1>1, <1>2
  <2> HIDE DEF applies, before
  <2>2. QED
    BY <2>1, NewestOf, Constants
<1>4. Newest(applies \cup {before}) \in applies \cup {before}
  <2>1. ASSUME Newest(applies \cup {before}) = 0 PROVE before = 0
    BY <1>1, <1>3, <2>1
  <2>2. QED
    BY <1>3, <2>1
<1>5. Since(applies, before) \in SUBSET Applies
  BY <1>2 DEF Since
<1>6. before # 0 => Since(applies, before) = {a \in applies : a > before}
  BY DEF Since
<1>7. ASSUME before = 0, applies # {}
      PROVE  Newest(applies \cup {before}) \in Since(applies, before)
  <2>1. Max(applies) \in applies /\ \A y \in applies : Max(applies) >= y
    <3> HIDE DEF applies
    <3>1. QED
      BY <1>2, <1>7, Greatest, Constants
  <2>2. Since(applies, before) = {Max(applies)}
    BY <1>7, <2>1 DEF Since
  <2> DEFINE n == Newest(applies \cup {before})
             m == Max(applies)
  <2>3. m \in Applies /\ n >= m
    BY <1>2, <1>3, <2>1
  <2>4. n \in applies
    <3> HIDE DEF applies, n, m
    <3>1. m >= 1 /\ m \in Nat
      BY <2>3, Constants DEF Applies
    <3>2. n # before
      BY <2>3, <3>1, <1>7
    <3>3. QED
      BY <1>4, <3>2 DEF n
  <2>5. m >= n /\ n \in Applies
    BY <1>2, <2>1, <2>4
  <2>6. n = m
    <3> HIDE DEF n, m
    <3>1. QED
      BY <2>3, <2>5, Constants DEF Applies
  <2>7. QED
    BY <2>2, <2>6
<1>8. doc.written \in 0 .. MaxDocs
  BY DEF TypeOK
<1>9. Newest(applies \cup {before}) \in 0 .. MaxApplies
  BY <1>1, <1>2, <1>4
<1>10. QED
  <2>1. /\ Found(p).applied = Newest(applies \cup {before}) /\ Found(p).show = Since(applies, before)
        /\ Found(p).written = doc.written
        /\ Found(p) \in [written : 0 .. MaxDocs, applied : 0 .. MaxApplies, show : SUBSET Applies]
    BY <1>5, <1>8, <1>9 DEF Found
  <2> HIDE DEF applies, before
  <2>2. QED
    BY <2>1, <1>1, <1>2, <1>3, <1>4, <1>6, <1>7 DEF applies, before

LEMMA LookType ==
  ASSUME TypeInv, NEW p \in Passes, readStatusDoc(p)
  PROVE  TypeInv'
<1>1. mirror' \in [Passes -> [written : 0 .. MaxDocs, applied : 0 .. MaxApplies, show : SUBSET Applies]]
  <2>1. mirror' = [mirror EXCEPT ![p] = Found(p)] \/ mirror' = mirror
    BY DEF readStatusDoc, Look, Found
  <2>2. Found(p) \in [written : 0 .. MaxDocs, applied : 0 .. MaxApplies, show : SUBSET Applies]
    BY FoundIs DEF TypeInv
  <2>3. QED
    BY <2>1, <2>2 DEF TypeInv, TypeOK
<1>2. pc' \in [Passes -> PCs] /\ pc'[p] \in {"row", "done"} /\ \A q \in Passes \ {p} : pc'[q] = pc[q]
  BY DEF readStatusDoc, Look, Goto, TypeInv, TypeOK, PCs
<1>3. previous' \in [Passes -> Mirrored]
  BY Constants DEF readStatusDoc, Look, TypeInv, TypeOK
<1>4. \A q \in Passes \ {p} : mirror'[q] = mirror[q]
  BY DEF readStatusDoc, Look, TypeInv, TypeOK
<1>5. TypeOK'
  BY <1>1, <1>2, <1>3 DEF readStatusDoc, Look, TypeInv, TypeOK, nudge, release, desk
<1>6. pc[p] = "look"
  BY DEF readStatusDoc, Look
<1>7. MessageHeld' /\ ShowLeft'
  BY <1>2, <1>4, <1>6 DEF readStatusDoc, Look, TypeInv, MessageHeld, ShowLeft, Passes
<1>8. SkipsLeft' /\ DocInOrder'
  BY DEF readStatusDoc, Look, TypeInv, SkipsLeft, DocInOrder
<1>9. QED
  BY <1>5, <1>7, <1>8 DEF TypeInv

LEMMA RowType ==
  ASSUME TypeInv, NEW p \in Passes, updateStatus(p)
  PROVE  TypeInv'
<1>1. pc' \in [Passes -> PCs] /\ \A q \in Passes \ {p} : pc'[q] = pc[q]
  BY DEF updateStatus, Goto, TypeInv, TypeOK, PCs
<1>2. pc'[p] \in {"show", "keep"} /\ (pc'[p] = "show" => mirror[p].show # {})
  BY DEF updateStatus, Goto, TypeInv, TypeOK
<1>3. row' \in 0 .. MaxDocs
  BY DEF updateStatus, TypeInv, TypeOK
<1>4. history' \in [served : SUBSET Nudges, newest : 0 .. MaxDocs]
  BY <1>3 DEF updateStatus, TypeInv, TypeOK
<1>5. TypeOK'
  BY <1>1, <1>3, <1>4 DEF updateStatus, TypeInv, TypeOK, nudge, release
<1>6. MessageHeld' /\ ShowLeft' /\ SkipsLeft' /\ DocInOrder'
  BY <1>1, <1>2 DEF updateStatus, TypeInv, MessageHeld, ShowLeft, SkipsLeft, DocInOrder, Passes
<1>7. QED
  BY <1>5, <1>6 DEF TypeInv

(* One more is shown, and the last one of them leaves nothing.             *)
LEMMA ShowIs ==
  ASSUME TypeInv, NEW p \in Passes, appendEvent(p)
  PROVE  LET left == mirror[p].show
         IN  /\ Min(left) \in left /\ left \in SUBSET Applies
             /\ shown' = shown \cup {Min(left)}
             /\ mirror'[p] = [mirror[p] EXCEPT !.show = left \ {Min(left)}]
             /\ mirror'[p].show = left \ {Min(left)}
             /\ mirror'[p].written = mirror[p].written /\ mirror'[p].applied = mirror[p].applied
             /\ pc'[p] = "keep" => mirror'[p].show = {}
             /\ pc'[p] = "show" => mirror'[p].show # {}
             /\ pc'[p] \in {"keep", "show"}
<1> DEFINE left == mirror[p].show
<1>1. left \in SUBSET Applies /\ left # {}
  BY DEF appendEvent, TypeInv, TypeOK, ShowLeft
<1>2. left \in SUBSET Nat
  BY <1>1, Constants DEF Applies
<1>3. Min(left) \in left
  <2> HIDE DEF left
  <2>1. QED
    BY <1>1, <1>2, Least
<1>4. /\ mirror'[p] = [mirror[p] EXCEPT !.show = left \ {Min(left)}]
      /\ mirror'[p].show = left \ {Min(left)}
      /\ mirror'[p].written = mirror[p].written /\ mirror'[p].applied = mirror[p].applied
      /\ shown' = shown \cup {Min(left)}
  BY DEF appendEvent, TypeInv, TypeOK
<1>5. IsFiniteSet(left)
  <2>1. IsFiniteSet(Applies)
    BY Constants, FS_Interval DEF Applies
  <2>2. QED
    BY <1>1, <2>1, FS_Subset
<1>6. Cardinality(left) = 1 <=> left \ {Min(left)} = {}
  <2> DEFINE x == Min(left)
  <2> HIDE DEF left, x
  <2>1. (Cardinality(left) = 1) <=> \E y : left = {y}
    BY <1>5, FS_Singleton
  <2>2. QED
    BY <1>3, <2>1 DEF x
<1>7. pc'[p] = IF Cardinality(left) = 1 THEN "keep" ELSE "show"
  BY DEF appendEvent, Goto, TypeInv, TypeOK
<1>8. QED
  BY <1>1, <1>3, <1>4, <1>6, <1>7

LEMMA Replaced ==
  ASSUME NEW W, NEW A, NEW S, NEW r \in [written : W, applied : A, show : S], NEW s \in S
  PROVE  [r EXCEPT !.show = s] \in [written : W, applied : A, show : S]
OBVIOUS

LEMMA ShowType ==
  ASSUME TypeInv, NEW p \in Passes, appendEvent(p)
  PROVE  TypeInv'
<1>1. pc' \in [Passes -> PCs] /\ \A q \in Passes \ {p} : pc'[q] = pc[q]
  BY DEF appendEvent, Goto, TypeInv, TypeOK, PCs
<1>2. shown' \in SUBSET Applies
  <2>1. shown \in SUBSET Applies
    BY DEF TypeInv, TypeOK
  <2>2. shown' = shown \cup {Min(mirror[p].show)} /\ Min(mirror[p].show) \in Applies
    BY ShowIs
  <2>3. QED
    BY <2>1, <2>2
<1>3. mirror' \in [Passes -> [written : 0 .. MaxDocs, applied : 0 .. MaxApplies, show : SUBSET Applies]]
      /\ \A q \in Passes \ {p} : mirror'[q] = mirror[q]
  <2>1. mirror' = [mirror EXCEPT ![p] = [mirror[p] EXCEPT !.show = mirror[p].show \ {Min(mirror[p].show)}]]
    BY DEF appendEvent
  <2>2. [mirror[p] EXCEPT !.show = mirror[p].show \ {Min(mirror[p].show)}]
          \in [written : 0 .. MaxDocs, applied : 0 .. MaxApplies, show : SUBSET Applies]
    <3>1. mirror[p] \in [written : 0 .. MaxDocs, applied : 0 .. MaxApplies, show : SUBSET Applies]
      BY DEF TypeInv, TypeOK
    <3>2. mirror[p].show \ {Min(mirror[p].show)} \in SUBSET Applies
      BY <3>1
    <3>3. QED
      BY <3>1, <3>2, Replaced
  <2>3. QED
    BY <2>1, <2>2 DEF TypeInv, TypeOK
<1>4. TypeOK'
  BY <1>1, <1>2, <1>3 DEF appendEvent, TypeInv, TypeOK, nudge, release
<1>5. ShowLeft'
  BY <1>1, <1>3, ShowIs DEF TypeInv, ShowLeft
<1>6. pc[p] = "show"
  BY DEF appendEvent
<1>7. MessageHeld' /\ SkipsLeft' /\ DocInOrder'
  BY <1>1, <1>6 DEF appendEvent, TypeInv, MessageHeld, SkipsLeft, DocInOrder, Passes
<1>8. QED
  BY <1>4, <1>5, <1>7 DEF TypeInv

LEMMA KeepType ==
  ASSUME TypeInv, NEW p \in Passes, Keep(p)
  PROVE  TypeInv'
<1>1. CASE CanPut(p)
  <2>1. /\ state' = Kept(p) /\ fresh' = fresh \cap {p}
        /\ mirror' = [mirror EXCEPT ![p] = NoDoc]
        /\ Goto(p, "done") /\ pc[p] = "keep"
        /\ UNCHANGED <<message, again, plan, generation, previous, nudge>>
        /\ UNCHANGED <<release, doc, desk, told, history, faults>>
    BY <1>1 DEF Keep, Put
  <2>2. /\ state' \in [nudges : Nat, nudgeIds : Seq(Messages), skip : Nat, mirrored : Mirrored]
        /\ state'.nudgeIds = state.nudgeIds /\ state'.skip = state.skip
    BY <2>1, KeptIs DEF TypeInv
  <2>3. pc' \in [Passes -> PCs] /\ pc'[p] = "done" /\ \A q \in Passes \ {p} : pc'[q] = pc[q]
    BY <2>1 DEF Goto, TypeInv, TypeOK, PCs
  <2>4. mirror' \in [Passes -> [written : 0 .. MaxDocs, applied : 0 .. MaxApplies, show : SUBSET Applies]]
        /\ \A q \in Passes \ {p} : mirror'[q] = mirror[q]
    <3>1. NoDoc \in [written : 0 .. MaxDocs, applied : 0 .. MaxApplies, show : SUBSET Applies]
      BY Constants DEF NoDoc
    <3>2. QED
      BY <2>1, <3>1 DEF TypeInv, TypeOK
  <2>5. TypeOK'
    BY <2>1, <2>2, <2>3, <2>4 DEF TypeInv, TypeOK, nudge, release, desk
  <2>6. MessageHeld' /\ ShowLeft' /\ DocInOrder'
    BY <2>1, <2>3, <2>4 DEF TypeInv, MessageHeld, ShowLeft, DocInOrder, Passes
  <2>7. SkipsLeft'
    BY <2>1, <2>2 DEF TypeInv, SkipsLeft
  <2>8. QED
    BY <2>5, <2>6, <2>7 DEF TypeInv
<1>2. CASE ~ CanPut(p)
  BY <1>2, RaceLostType DEF Keep
<1>3. QED
  BY <1>1, <1>2

LEMMA EndType ==
  ASSUME TypeInv, NEW p \in Passes, writePullerRow(p) \/ Fail(p)
  PROVE  TypeInv'
<1>1. pc[p] # "idle" /\ faults' \in 0 .. MaxFaults
  BY FaultType DEF writePullerRow, Fail, TypeInv, TypeOK
<1>2. PassesOK' /\ Forgets(p) /\ OthersAside(p)
  BY ReturnEnds, ThrowsEnds DEF writePullerRow, Fail, TypeInv
<1>3. /\ state' \in [nudges : Nat, nudgeIds : Seq(Messages), skip : Nat, mirrored : Mirrored]
      /\ Len(state'.nudgeIds) <= NudgeIdsKept
      /\ state'.skip = state.skip /\ fresh' \subseteq fresh
      /\ UNCHANGED release /\ UNCHANGED <<doc, desk, told, history>>
  BY DEF writePullerRow, Fail, TypeInv, TypeOK
<1>4. QED
  BY <1>1, <1>2, <1>3, TypeAfterEnd

LEMMA WrittenUnansweredIs ==
  ASSUME TypeInv, NEW p \in Passes, WrittenUnanswered(p), pc[p] = "count" => p \in Nudges
  PROVE  /\ state' \in [nudges : Nat, nudgeIds : Seq(Messages), skip : Nat, mirrored : Mirrored]
         /\ Len(state'.nudgeIds) <= NudgeIdsKept
<1>1. CASE pc[p] = "count" /\ state' = Counted(message[p])
  <2>1. message[p] \in Messages
    BY <1>1 DEF TypeInv, MessageHeld
  <2>2. QED
    BY <1>1, <2>1, CountedIds DEF TypeInv
<1>2. CASE pc[p] = "save" /\ state' \in Saved(p)
  BY <1>2, SavedIs DEF WrittenUnanswered, TypeInv, TypeOK
<1>3. CASE pc[p] = "keep" /\ state' = Kept(p)
  BY <1>3, KeptIs DEF TypeInv, TypeOK
<1>4. QED
  BY <1>1, <1>2, <1>3 DEF WrittenUnanswered

LEMMA WrittenUnansweredType ==
  ASSUME TypeInv, NEW p \in Passes, WrittenUnanswered(p), pc[p] = "count" => p \in Nudges
  PROVE  TypeInv'
<1>1. pc[p] # "idle" /\ faults' \in 0 .. MaxFaults
  BY FaultType DEF WrittenUnanswered, TypeInv
<1>2. PassesOK' /\ Forgets(p) /\ OthersAside(p)
  BY RaceLostEnds DEF WrittenUnanswered, TypeInv
<1>3. fresh' = {} /\ fresh' \subseteq fresh
      /\ UNCHANGED release /\ UNCHANGED <<doc, desk, told, history>>
  BY DEF WrittenUnanswered
<1>4. QED
  BY <1>1, <1>2, <1>3, WrittenUnansweredIs, TypeAfterEnd

LEMMA DocType ==
  ASSUME TypeInv, NEW to \in doc.to .. MaxApplies, NEW start \in {doc.from, doc.to + 1},
         writeStatus(to, start)
  PROVE  /\ TypeInv' /\ doc'.from >= doc.from
<1> DEFINE first == to + 1 - AppliesKept
           from == Max({start, first})
<1>1. /\ doc.from \in 1 .. MaxApplies + 1 /\ doc.to \in 0 .. MaxApplies /\ doc.from <= doc.to + 1
      /\ doc.written \in 0 .. MaxDocs
  BY DEF TypeInv, TypeOK, DocInOrder
<1>2. to \in 0 .. MaxApplies /\ start \in 1 .. to + 1 /\ doc.from <= start /\ first <= to
  BY <1>1, Constants
<1>3. from \in {start, first} /\ from >= start /\ from >= first
  <2>1. start \in Int /\ first \in Int
    BY <1>2, Constants
  <2>2. \E x \in {start, first} : \A y \in {start, first} : x >= y
    BY <2>1
  <2>3. QED
    BY <2>2 DEF Max
<1>4. from \in 1 .. to + 1
  <2> HIDE DEF from
  <2>1. QED
    BY <1>2, <1>3, Constants
<1>5. doc' = [written |-> doc.written + 1, to |-> to, from |-> from]
  BY DEF writeStatus
<1>6. /\ doc'.to = to /\ doc'.from = from
      /\ doc' \in [written : 0 .. MaxDocs, from : 1 .. MaxApplies + 1, to : 0 .. MaxApplies]
  <2>1. doc.written + 1 \in 0 .. MaxDocs
    BY <1>1, Constants DEF writeStatus
  <2> HIDE DEF from
  <2>2. from \in 1 .. MaxApplies + 1
    BY <1>2, <1>4, Constants
  <2>3. QED
    BY <1>2, <1>5, <2>1, <2>2
<1>7. from >= doc.from /\ to < from + AppliesKept /\ from <= to + 1
  <2> HIDE DEF from
  <2>1. QED
    BY <1>1, <1>2, <1>3, <1>4, Constants
<1>8. TypeOK'
  <2> HIDE DEF from
  <2>1. QED
    BY <1>6, <1>7 DEF writeStatus, TypeInv, TypeOK, pass, nudge, release, desk
<1>9. MessageHeld' /\ SkipsLeft' /\ ShowLeft'
  BY DEF writeStatus, TypeInv, MessageHeld, SkipsLeft, ShowLeft, pass
<1>10. QED
  BY <1>6, <1>7, <1>8, <1>9 DEF TypeInv, DocInOrder

-----------------------------------------------------------------------------
(* Only a nudge is counted.                                                *)

OnlyNudgesCount == \A p \in Passes : pc[p] \in {"count", "nudged"} => p \in Nudges
Typed == TypeInv /\ OnlyNudgesCount

(* Every step of the puller is one pass's.                                 *)
PassStep(p) ==
  \/ tick(p) \/ Step(p) \/ PullHalf(p) \/ WrittenUnanswered(p) \/ Fail(p)
  \/ \E m \in Messages : Deliver(p, m) \/ DeliverAgain(p, m)

LEMMA OthersStandAside ==
  ASSUME TypeOK, NEW p \in Passes, PassStep(p)
  PROVE  OthersAside(p)
<1>1. CASE tick(p)
  BY <1>1 DEF tick, Goto, TypeOK, OthersAside
<1>2. ASSUME NEW key \in {"usable", "malformed", "unreadable"}, Read(p, key)
      PROVE  OthersAside(p)
  BY <1>2, ThrowsEnds DEF Read, Goto, TypeOK, OthersAside
<1>3. CASE CountNudge(p)
  <2>1. CASE CanPut(p)
    BY <1>3, <2>1 DEF CountNudge, Goto, TypeOK, OthersAside
  <2>2. CASE ~ CanPut(p)
    BY <1>3, <2>2, RaceLostEnds DEF CountNudge
  <2>3. QED
    BY <2>1, <2>2
<1>4. CASE Nudged(p)
  BY <1>4 DEF Nudged, Goto, TypeOK, OthersAside
<1>5. CASE Pull(p)
  <2>1. PICK outcome, g : Answers(p, outcome, g)
    BY <1>5 DEF Pull, pullToDatastore
  <2>2. QED
    BY <2>1 DEF Answers, Goto, TypeOK, OthersAside
<1>6. CASE Announce(p)
  BY <1>6 DEF Announce, Goto, TypeOK, OthersAside
<1>7. CASE Save(p)
  <2>1. CASE CanPut(p)
    BY <1>7, <2>1 DEF Save, Goto, TypeOK, OthersAside
  <2>2. CASE ~ CanPut(p)
    BY <1>7, <2>2, RaceLostEnds DEF Save
  <2>3. QED
    BY <2>1, <2>2
<1>8. CASE readStatusDoc(p)
  BY <1>8 DEF readStatusDoc, Look, Goto, TypeOK, OthersAside
<1>9. CASE updateStatus(p)
  BY <1>9 DEF updateStatus, Goto, TypeOK, OthersAside
<1>10. CASE appendEvent(p)
  BY <1>10 DEF appendEvent, Goto, TypeOK, OthersAside
<1>11. CASE Keep(p)
  <2>1. CASE CanPut(p)
    BY <1>11, <2>1 DEF Keep, Goto, TypeOK, OthersAside
  <2>2. CASE ~ CanPut(p)
    BY <1>11, <2>2, RaceLostEnds DEF Keep
  <2>3. QED
    BY <2>1, <2>2
<1>12. CASE writePullerRow(p) \/ Fail(p)
  BY <1>12, ReturnEnds, ThrowsEnds DEF writePullerRow, Fail
<1>13. CASE PullHalf(p)
  BY <1>13 DEF PullHalf, Goto, TypeOK, OthersAside
<1>14. CASE WrittenUnanswered(p)
  BY <1>14, RaceLostEnds DEF WrittenUnanswered
<1>15. ASSUME NEW m \in Messages, Deliver(p, m) \/ DeliverAgain(p, m)
       PROVE  OthersAside(p)
  BY <1>15 DEF Deliver, DeliverAgain, Receive, Goto, TypeOK, OthersAside
<1>16. QED
  BY <1>1, <1>2, <1>3, <1>4, <1>5, <1>6, <1>7, <1>8, <1>9, <1>10, <1>11, <1>12, <1>13, <1>14,
     <1>15 DEF PassStep, Step

LEMMA NextIs ==
  [Next]_vars => \/ \E p \in Passes : PassStep(p)
                 \/ \E m \in Messages : Send(m)
                 \/ \E to \in doc.to .. MaxApplies, start \in {doc.from, doc.to + 1} : writeStatus(to, start)
                 \/ UNCHANGED vars
BY DEF Next, PassStep, buildStatusDoc

LEMMA OnlyNudgesStep ==
  ASSUME Typed, [Next]_vars
  PROVE  OnlyNudgesCount'
<1>1. ASSUME NEW p \in Passes, PassStep(p) PROVE OnlyNudgesCount'
  <2>1. OthersAside(p) /\ pc \in [Passes -> PCs] /\ TypeOK
    BY <1>1, OthersStandAside DEF Typed, TypeInv, TypeOK
  <2>2. pc'[p] \in {"count", "nudged"} => p \in Nudges
    <3>1. ASSUME NEW key \in {"usable", "malformed", "unreadable"}, Read(p, key)
          PROVE  pc'[p] \in {"count", "nudged"} => p \in Nudges
      BY <3>1, <2>1, ThrowsEnds, PlannedPC DEF Read, Goto
    <3>2. CASE CountNudge(p)
      BY <3>2, <2>1, RaceLostEnds DEF CountNudge, Goto, Forgets, Typed, OnlyNudgesCount
    <3>3. CASE Nudged(p)
      BY <3>3, <2>1, PlannedPC DEF Nudged, Goto
    <3>4. CASE Pull(p)
      <4>1. PICK outcome, g : Answers(p, outcome, g)
        BY <3>4 DEF Pull, pullToDatastore
      <4>2. QED
        BY <4>1, <2>1 DEF Answers, Goto
    <3>5. CASE Announce(p) \/ PullHalf(p) \/ tick(p)
      BY <3>5, <2>1 DEF Announce, PullHalf, tick, Goto
    <3>6. CASE Save(p)
      BY <3>6, <2>1, RaceLostEnds DEF Save, Goto, Forgets
    <3>7. CASE readStatusDoc(p) \/ updateStatus(p) \/ appendEvent(p)
      BY <3>7, <2>1 DEF readStatusDoc, Look, updateStatus, appendEvent, Goto
    <3>8. CASE Keep(p)
      BY <3>8, <2>1, RaceLostEnds DEF Keep, Goto, Forgets
    <3>9. CASE writePullerRow(p) \/ Fail(p)
      BY <3>9, <2>1, ReturnEnds, ThrowsEnds DEF writePullerRow, Fail
    <3>10. CASE WrittenUnanswered(p)
      BY <3>10, <2>1, RaceLostEnds DEF WrittenUnanswered, Forgets
    <3>11. ASSUME NEW m \in Messages, Deliver(p, m) \/ DeliverAgain(p, m)
           PROVE  pc'[p] \in {"count", "nudged"} => p \in Nudges
      BY <3>11, <2>1 DEF Deliver, DeliverAgain, Receive, Goto
    <3>12. QED
      BY <1>1, <3>1, <3>2, <3>3, <3>4, <3>5, <3>6, <3>7, <3>8, <3>9, <3>10, <3>11
         DEF PassStep, Step
  <2>3. QED
    BY <2>1, <2>2 DEF OthersAside, Typed, OnlyNudgesCount
<1>2. ASSUME UNCHANGED pc PROVE OnlyNudgesCount'
  BY <1>2 DEF Typed, OnlyNudgesCount
<1>3. QED
  BY <1>1, <1>2, NextIs DEF Send, writeStatus, pass, vars

LEMMA TypeStep == Typed /\ [Next]_vars => Typed'
<1> SUFFICES ASSUME Typed, [Next]_vars PROVE Typed'
  OBVIOUS
<1>1. ASSUME NEW p \in Passes, PassStep(p) PROVE TypeInv'
  <2>1. TypeInv /\ (pc[p] = "count" => p \in Nudges)
    BY DEF Typed, OnlyNudgesCount
  <2>2. ASSUME NEW m \in Messages, Deliver(p, m) \/ DeliverAgain(p, m) PROVE TypeInv'
    <3>1. faults' \in 0 .. MaxFaults
      BY <2>1, <2>2, FaultType DEF Deliver, DeliverAgain, TypeInv, TypeOK
    <3>2. QED
      BY <2>1, <2>2, <3>1, ReceiveType DEF Deliver, DeliverAgain
  <2>3. CASE CountNudge(p)
    BY <2>1, <2>3, CountNudgeType DEF CountNudge
  <2>4. CASE tick(p) \/ Nudged(p) \/ Pull(p) \/ Announce(p) \/ Save(p) \/ readStatusDoc(p)
    BY <2>1, <2>4, TickType, NudgedType, PullType, AnnounceType, SaveType, LookType
  <2>5. CASE updateStatus(p) \/ appendEvent(p) \/ Keep(p) \/ writePullerRow(p) \/ Fail(p)
             \/ PullHalf(p) \/ WrittenUnanswered(p)
    BY <2>1, <2>5, RowType, ShowType, KeepType, EndType, PullHalfType, WrittenUnansweredType
  <2>6. ASSUME NEW key \in {"usable", "malformed", "unreadable"}, Read(p, key) PROVE TypeInv'
    BY <2>1, <2>6, ReadType
  <2>7. QED
    BY <1>1, <2>2, <2>3, <2>4, <2>5, <2>6 DEF PassStep, Step
<1>2. ASSUME NEW m \in Messages, Send(m) PROVE TypeInv'
  BY <1>2, SendType DEF Typed
<1>3. ASSUME NEW to \in doc.to .. MaxApplies, NEW start \in {doc.from, doc.to + 1},
             writeStatus(to, start)
      PROVE  TypeInv'
  BY <1>3, DocType DEF Typed
<1>4. ASSUME UNCHANGED vars PROVE TypeInv'
  BY <1>4 DEF Typed, TypeInv, TypeOK, MessageHeld, SkipsLeft, ShowLeft, DocInOrder, vars, pass, nudge,
              release, desk
<1>5. QED
  BY <1>1, <1>2, <1>3, <1>4, NextIs, OnlyNudgesStep DEF Typed

LEMMA TypeInit == Init => Typed
<1> SUFFICES ASSUME Init PROVE Typed
  OBVIOUS
<1>1. NoDoc \in [written : 0 .. MaxDocs, applied : 0 .. MaxApplies, show : SUBSET Applies]
  BY Constants DEF NoDoc
<1>2. state \in [nudges : Nat, nudgeIds : Seq(Messages), skip : Nat, mirrored : Mirrored]
      /\ Len(state.nudgeIds) <= NudgeIdsKept
  BY Constants DEF Init
<1>3. pc \in [Passes -> PCs] /\ plan \in [Passes -> Plans] /\ previous \in [Passes -> Mirrored]
      /\ \A p \in Passes : pc[p] = "idle"
  BY Constants DEF Init, PCs, Plans
<1>4. /\ message \in [Passes -> Messages \cup {NoMessage}] /\ generation \in [Passes -> 0 .. MaxGeneration]
      /\ mirror \in [Passes -> [written : 0 .. MaxDocs, applied : 0 .. MaxApplies, show : SUBSET Applies]]
      /\ queue \in [Messages -> {"unsent", "queued", "taken", "done", "dropped", "gone"}]
      /\ received \in [Messages -> 0 .. MaxReceive] /\ told \in [Messages -> Nat]
      /\ announced \in [Generations -> Nat]
  BY <1>1, Constants DEF Init
<1>5. /\ doc \in [written : 0 .. MaxDocs, from : 1 .. MaxApplies + 1, to : 0 .. MaxApplies]
      /\ doc.to < doc.from + AppliesKept /\ doc.from <= doc.to + 1
      /\ row \in 0 .. MaxDocs /\ faults \in 0 .. MaxFaults
      /\ history \in [served : SUBSET Nudges, newest : 0 .. MaxDocs]
  BY Constants DEF Init
<1>6. TypeOK
  BY <1>2, <1>3, <1>4, <1>5 DEF Init, TypeOK
<1>7. QED
  BY <1>3, <1>5, <1>6
     DEF Init, Typed, TypeInv, OnlyNudgesCount, MessageHeld, SkipsLeft, ShowLeft, DocInOrder, Passes

LEMMA AlwaysTyped == Spec => []Typed
BY TypeInit, TypeStep, PTL DEF Spec

(* For any passes, messages and bounds: the object keeps at most the newest*)
(* ids, an interval is never negative, and every pass of the queue knows   *)
(* its message.                                                            *)
THEOREM TypeCorrect == Spec => []TypeOK
<1>1. Typed => TypeOK
  BY DEF Typed, TypeInv
<1>2. QED
  BY <1>1, AlwaysTyped, PTL

-----------------------------------------------------------------------------
(* A nudge is counted once.  A pass that is about to count, and would win, *)
(* has not seen the id; as long as no id was dropped, a message whose id is*)
(* kept has a row or one pass that is about to write it, and not both.     *)

Ids == state.nudgeIds
AtNudged(p, m) == pc[p] = "nudged" /\ message[p] = m

CountedOnce(m) ==
  /\ told[m] <= IF m \in Range(Ids) THEN 1 ELSE 0
  /\ \A p \in Passes : AtNudged(p, m) =>
       /\ m \in Range(Ids) /\ told[m] = 0
       /\ \A q \in Passes : AtNudged(q, m) => q = p

Uncounted(p) == pc[p] = "count" => message[p] \notin Range(Ids)

CountInv ==
  /\ IsInjective(Ids)
  /\ \A p \in fresh : Uncounted(p)
  /\ state.nudges <= NudgeIdsKept =>
       state.nudges = Len(Ids) /\ \A m \in Messages : CountedOnce(m)

(* A step that neither counts nor tells.                                   *)
LEMMA CountKept ==
  ASSUME Typed, CountInv, NEW p \in Passes, OthersAside(p), UNCHANGED told,
         state'.nudges = state.nudges, state'.nudgeIds = state.nudgeIds,
         fresh' \subseteq fresh \cup {p}, pc'[p] # "nudged",
         p \in fresh' => Uncounted(p)'
  PROVE  CountInv'
<1>1. \A q \in fresh' : Uncounted(q)'
  BY DEF CountInv, Uncounted, OthersAside, Ids, Typed, TypeInv, TypeOK
<1>2. ASSUME NEW m \in Messages, CountedOnce(m) PROVE CountedOnce(m)'
  BY <1>2 DEF CountedOnce, AtNudged, OthersAside, Ids
<1>3. QED
  BY <1>1, <1>2 DEF CountInv, Ids

(* A count that was written: of what no pass has told yet.                 *)
LEMMA CountMade ==
  ASSUME Typed, CountInv, NEW p \in fresh, pc[p] = "count", OthersAside(p),
         state' = Counted(message[p]), UNCHANGED told, fresh' \subseteq {p},
         \/ pc'[p] = "nudged" /\ message'[p] = message[p]
         \/ pc'[p] \in {"idle", "read"}
  PROVE  CountInv'
<1>1. PICK m \in Messages : p \in Passes /\ m = message[p]
  BY DEF Typed, TypeInv, TypeOK, OnlyNudgesCount, MessageHeld
<1>2. m \notin Range(Ids) /\ IsInjective(Ids)
  BY <1>1 DEF CountInv, Uncounted
<1>3. /\ state'.nudges = state.nudges + 1 /\ state.nudges \in Nat /\ Len(Ids) \in Nat
      /\ Len(Ids) < NudgeIdsKept => Len(Ids') = Len(Ids) + 1 /\ Range(Ids') = Range(Ids) \cup {m}
      /\ IsInjective(Ids')
  <2>1. TypeOK
    BY DEF Typed, TypeInv
  <2>2. state.nudges \in Nat /\ Len(state.nudgeIds) \in Nat
    BY <2>1 DEF TypeOK
  <2>3. state' = Counted(m)
    BY <1>1
  <2>4. QED
    BY <1>2, <2>1, <2>2, <2>3, CountedIds DEF Ids
<1>4. \A q \in fresh' : Uncounted(q)'
  BY DEF Uncounted
<1>5. ASSUME state'.nudges <= NudgeIdsKept
      PROVE  state'.nudges = Len(Ids') /\ \A n \in Messages : CountedOnce(n)'
  <2>1. state.nudges <= NudgeIdsKept /\ Len(Ids) < NudgeIdsKept
        /\ state.nudges = Len(Ids) /\ \A n \in Messages : CountedOnce(n)
    BY <1>3, <1>5, Constants DEF CountInv
  <2>2. Range(Ids') = Range(Ids) \cup {m} /\ Len(Ids') = Len(Ids) + 1
    BY <1>3, <2>1
  <2>3. told[m] = 0 /\ \A q \in Passes : ~ AtNudged(q, m)
    BY <1>1, <1>2, <2>1 DEF CountedOnce, Typed, TypeInv, TypeOK
  <2>4. CountedOnce(m)'
    <3>1. told'[m] <= 1 /\ told'[m] = 0
      BY <2>3
    <3>2. \A q \in Passes : AtNudged(q, m)' => q = p
      BY <1>1, <2>3 DEF AtNudged, OthersAside
    <3>3. m \in Range(Ids')
      BY <2>2
    <3>4. QED
      BY <3>1, <3>2, <3>3 DEF CountedOnce
  <2>5. ASSUME NEW n \in Messages, n # m PROVE CountedOnce(n)'
    <3>1. n \in Range(Ids') <=> n \in Range(Ids)
      BY <2>2, <2>5
    <3>2. \A q \in Passes : AtNudged(q, n)' => AtNudged(q, n)
      BY <1>1, <2>5 DEF AtNudged, OthersAside
    <3>3. QED
      BY <2>1, <3>1, <3>2 DEF CountedOnce
  <2>6. QED
    BY <1>3, <2>1, <2>2, <2>4, <2>5
<1>6. QED
  BY <1>3, <1>4, <1>5 DEF CountInv

LEMMA ToldOnce ==
  ASSUME Typed, CountInv, NEW p \in Passes, Nudged(p)
  PROVE  CountInv'
<1>0. PICK m \in Messages : m = message[p]
  BY DEF Nudged, Typed, TypeInv, OnlyNudgesCount, MessageHeld
<1>1. /\ pc[p] = "nudged" /\ told' = [told EXCEPT ![m] = @ + 1] /\ pc'[p] \notin {"nudged", "count"}
      /\ UNCHANGED <<state, fresh, message>>
      /\ \A q \in Passes \ {p} : pc'[q] = pc[q]
  BY <1>0, PlannedPC DEF Nudged, Goto, Typed, TypeInv, TypeOK
<1>3. told'[m] = told[m] + 1 /\ \A n \in Messages \ {m} : told'[n] = told[n]
  BY <1>1 DEF Typed, TypeInv, TypeOK
<1>4. \A q \in fresh' : Uncounted(q)'
  BY <1>1 DEF CountInv, Uncounted, Ids, Typed, TypeInv, TypeOK
<1>5. ASSUME CountedOnce(m) PROVE CountedOnce(m)'
  <2>1. m \in Range(Ids) /\ told[m] = 0 /\ \A q \in Passes : AtNudged(q, m) => q = p
    BY <1>0, <1>1, <1>5 DEF CountedOnce, AtNudged
  <2>2. \A q \in Passes : ~ AtNudged(q, m)'
    BY <1>1, <2>1 DEF AtNudged
  <2>3. told'[m] = 1 /\ m \in Range(Ids')
    BY <1>1, <1>3, <2>1 DEF Ids
  <2>4. QED
    BY <2>2, <2>3 DEF CountedOnce
<1>6. ASSUME NEW n \in Messages \ {m}, CountedOnce(n) PROVE CountedOnce(n)'
  BY <1>1, <1>3, <1>6 DEF CountedOnce, AtNudged, Ids
<1>7. QED
  BY <1>1, <1>4, <1>5, <1>6 DEF CountInv, Ids

LEMMA CountStep == Typed /\ CountInv /\ [Next]_vars => CountInv'
<1> SUFFICES ASSUME Typed, CountInv, [Next]_vars PROVE CountInv'
  OBVIOUS
<1>1. ASSUME NEW p \in Passes, PassStep(p) PROVE CountInv'
  <2>1. OthersAside(p) /\ pc \in [Passes -> PCs] /\ TypeOK /\ TypeInv
    BY <1>1, OthersStandAside DEF Typed, TypeInv, TypeOK
  <2>2. ASSUME NEW key \in {"usable", "malformed", "unreadable"}, Read(p, key)
        PROVE  CountInv'
    <3>1. CASE key = "unreadable" /\ p \in Nudges
      <4>1. Forgets(p) /\ UNCHANGED <<state, fresh, told>>
        BY <2>1, <2>2, <3>1, ThrowsEnds DEF Read
      <4>2. QED
        BY <2>1, <4>1, CountKept DEF Forgets, Uncounted
    <3>2. CASE ~ (key = "unreadable" /\ p \in Nudges)
      <4>1. /\ fresh' = fresh \cup {p} /\ UNCHANGED <<state, told, message>>
            /\ pc'[p] = IF p \in Nudges /\ countNudge(message[p]) THEN "count" ELSE Planned(plan'[p])
        BY <2>1, <2>2, <3>2 DEF Read, Goto
      <4>2. Uncounted(p)' /\ pc'[p] # "nudged"
        BY <4>1, PlannedPC DEF Uncounted, countNudge, Ids
      <4>3. QED
        BY <2>1, <4>1, <4>2, CountKept
    <3>3. QED
      BY <3>1, <3>2
  <2>3. CASE CountNudge(p)
    <3>1. CASE CanPut(p)
      BY <2>1, <2>3, <3>1, CountMade DEF CountNudge, CanPut, Put, Goto
    <3>2. CASE ~ CanPut(p)
      <4>1. Forgets(p) /\ UNCHANGED <<state, fresh, told>>
        BY <2>1, <2>3, <3>2, RaceLostEnds DEF CountNudge
      <4>2. QED
        BY <2>1, <4>1, CountKept DEF Forgets, Uncounted
    <3>3. QED
      BY <3>1, <3>2
  <2>4. CASE Nudged(p)
    BY <2>4, ToldOnce
  <2>5. CASE Pull(p) \/ PullHalf(p) \/ Announce(p) \/ tick(p)
    <3>1. UNCHANGED <<state, fresh, told>> /\ pc'[p] \notin {"count", "nudged"}
      <4>1. CASE Pull(p)
        <5>1. PICK outcome, g : Answers(p, outcome, g)
          BY <4>1 DEF Pull, pullToDatastore
        <5>2. QED
          BY <2>1, <5>1 DEF Answers, Goto
      <4>2. CASE PullHalf(p) \/ Announce(p) \/ tick(p)
        BY <2>1, <4>2 DEF PullHalf, Announce, tick, Goto
      <4>3. QED
        BY <2>5, <4>1, <4>2
    <3>2. QED
      BY <2>1, <3>1, CountKept DEF Uncounted
  <2>6. CASE Save(p)
    <3>1. CASE CanPut(p)
      <4>1. /\ state'.nudges = state.nudges /\ state'.nudgeIds = state.nudgeIds
            /\ fresh' \subseteq fresh /\ pc'[p] = "look" /\ told' = told
        BY <2>1, <2>6, <3>1, SavedIs DEF Save, CanPut, Goto
      <4>2. QED
        BY <2>1, <4>1, CountKept DEF Uncounted
    <3>2. CASE ~ CanPut(p)
      <4>1. Forgets(p) /\ UNCHANGED <<state, fresh, told>>
        BY <2>1, <2>6, <3>2, RaceLostEnds DEF Save
      <4>2. QED
        BY <2>1, <4>1, CountKept DEF Forgets, Uncounted
    <3>3. QED
      BY <3>1, <3>2
  <2>7. CASE readStatusDoc(p) \/ updateStatus(p) \/ appendEvent(p)
    <3>1. UNCHANGED <<state, fresh, told>> /\ pc'[p] \notin {"count", "nudged"}
      BY <2>1, <2>7 DEF readStatusDoc, Look, updateStatus, appendEvent, Goto
    <3>2. QED
      BY <2>1, <3>1, CountKept DEF Uncounted
  <2>8. CASE Keep(p)
    <3>1. CASE CanPut(p)
      <4>1. /\ state'.nudges = state.nudges /\ state'.nudgeIds = state.nudgeIds
            /\ fresh' \subseteq fresh /\ pc'[p] = "done" /\ told' = told
        BY <2>1, <2>8, <3>1, KeptIs DEF Keep, Put, Goto
      <4>2. QED
        BY <2>1, <4>1, CountKept DEF Uncounted
    <3>2. CASE ~ CanPut(p)
      <4>1. Forgets(p) /\ UNCHANGED <<state, fresh, told>>
        BY <2>1, <2>8, <3>2, RaceLostEnds DEF Keep
      <4>2. QED
        BY <2>1, <4>1, CountKept DEF Forgets, Uncounted
    <3>3. QED
      BY <3>1, <3>2
  <2>9. CASE writePullerRow(p) \/ Fail(p)
    <3>1. Forgets(p) /\ UNCHANGED <<state, told>> /\ fresh' \subseteq fresh
      BY <2>1, <2>9, ReturnEnds, ThrowsEnds DEF writePullerRow, Fail
    <3>2. QED
      BY <2>1, <3>1, CountKept DEF Forgets, Uncounted
  <2>10. CASE WrittenUnanswered(p)
    <3>1. Forgets(p) /\ told' = told /\ fresh' = {} /\ p \in fresh
      BY <2>1, <2>10, RaceLostEnds DEF WrittenUnanswered
    <3>2. CASE pc[p] = "count" /\ state' = Counted(message[p])
      BY <2>1, <3>1, <3>2, CountMade DEF Forgets
    <3>3. CASE pc[p] = "save" /\ state' \in Saved(p)
      <4>1. state'.nudges = state.nudges /\ state'.nudgeIds = state.nudgeIds
        BY <2>1, <3>1, <3>3, SavedIs
      <4>2. QED
        BY <2>1, <3>1, <4>1, CountKept DEF Forgets
    <3>4. CASE pc[p] = "keep" /\ state' = Kept(p)
      <4>1. state'.nudges = state.nudges /\ state'.nudgeIds = state.nudgeIds
        BY <2>1, <3>4, KeptIs
      <4>2. QED
        BY <2>1, <3>1, <4>1, CountKept DEF Forgets
    <3>5. QED
      BY <2>10, <3>2, <3>3, <3>4 DEF WrittenUnanswered
  <2>11. ASSUME NEW m \in Messages, Deliver(p, m) \/ DeliverAgain(p, m)
         PROVE  CountInv'
    <3>1. UNCHANGED <<state, fresh, told>> /\ pc'[p] = "read"
      BY <2>1, <2>11 DEF Deliver, DeliverAgain, Receive, Goto
    <3>2. QED
      BY <2>1, <3>1, CountKept DEF Uncounted
  <2>12. QED
    BY <1>1, <2>2, <2>3, <2>4, <2>5, <2>6, <2>7, <2>8, <2>9, <2>10, <2>11 DEF PassStep, Step
<1>2. ASSUME UNCHANGED <<state, fresh, pc, message, told>> PROVE CountInv'
  BY <1>2 DEF CountInv, Uncounted, CountedOnce, AtNudged, Ids
<1>3. QED
  BY <1>1, <1>2, NextIs DEF Send, writeStatus, pass, nudge, vars

-----------------------------------------------------------------------------
(* No nudge is dropped.  A pass of the queue that is past the pull has made*)
(* it, and one that is not yet there is bound for it, or was stopped by a  *)
(* malformed key.                                                          *)

PastPull == {"announce", "save", "look", "row", "show", "keep", "done"}

Honours(p) ==
  p \in Nudges =>
    /\ pc[p] \in {"count", "nudged"} => plan[p] = "pull" \/ (plan[p] = "none" /\ p \in history.served)
    /\ pc[p] \in PastPull => p \in history.served

HonourInv == NudgeHonoured /\ \A p \in Passes : Honours(p)

LEMMA HonourKept ==
  ASSUME HonourInv, NEW p \in Passes, OthersAside(p), NudgeHonoured', Honours(p)',
         history.served \ {p} \subseteq history'.served
  PROVE  HonourInv'
BY DEF HonourInv, Honours, OthersAside

(* Ending otherwise than at the end gives a message back or up, or leaves  *)
(* it where it is.                                                         *)
LEMMA ThrowsHonours ==
  ASSUME TypeOK, NudgeHonoured, NEW p \in Passes, Throws(p)
  PROVE  NudgeHonoured'
<1>1. CASE p \in Ticks
  BY <1>1 DEF Throws, Leave, NudgeHonoured
<1>2. CASE p \notin Ticks
  <2> DEFINE m == message[p]
             where == IF queue[m] # "taken" THEN queue[m]
                      ELSE IF received[m] < MaxReceive THEN "queued" ELSE "gone"
  <2>1. queue' = [queue EXCEPT ![m] = where]
    BY <1>2 DEF Throws, Leave
  <2>2. m \in Messages => where # "dropped"
    BY DEF NudgeHonoured
  <2> HIDE DEF where
  <2>3. QED
    BY <2>1, <2>2 DEF NudgeHonoured, TypeOK
<1>3. QED
  BY <1>1, <1>2

LEMMA ReturnHonours ==
  ASSUME TypeOK, NudgeHonoured, NEW p \in Passes, Return(p), p \in Nudges => p \in history.served
  PROVE  NudgeHonoured'
<1>1. CASE p \in Ticks
  BY <1>1 DEF Return, Leave, NudgeHonoured
<1>2. CASE p \notin Ticks
  <2>1. queue' = [queue EXCEPT ![message[p]] = "done"]
    BY <1>2 DEF Return, Leave, Passes
  <2>2. QED
    BY <2>1 DEF NudgeHonoured, TypeOK
<1>3. QED
  BY <1>1, <1>2

LEMMA RaceLostHonours ==
  ASSUME TypeOK, NudgeHonoured, NEW p \in Passes, RaceLost(p)
  PROVE  NudgeHonoured'
<1>1. CASE p \in Ticks
  BY <1>1, ReturnHonours, Constants DEF RaceLost
<1>2. CASE p \notin Ticks /\ p \in again
  BY <1>2, ThrowsHonours DEF RaceLost
<1>3. CASE p \notin Ticks /\ p \notin again
  BY <1>3 DEF RaceLost, nudge, NudgeHonoured
<1>4. QED
  BY <1>1, <1>2, <1>3

(* A pass that ends early or runs again.                                   *)
LEMMA HonourAfterEnd ==
  ASSUME HonourInv, NEW p \in Passes, OthersAside(p), Forgets(p), NudgeHonoured', UNCHANGED history
  PROVE  HonourInv'
<1>1. Honours(p)'
  BY DEF Forgets, Honours, PastPull
<1>2. QED
  BY <1>1, HonourKept

LEMMA HonourStep == Typed /\ HonourInv /\ [Next]_vars => HonourInv'
<1> SUFFICES ASSUME Typed, HonourInv, [Next]_vars PROVE HonourInv'
  OBVIOUS
<1>1. ASSUME NEW p \in Passes, PassStep(p) PROVE HonourInv'
  <2>1. OthersAside(p) /\ pc \in [Passes -> PCs] /\ TypeOK /\ NudgeHonoured /\ Honours(p)
    BY <1>1, OthersStandAside DEF Typed, TypeInv, TypeOK, HonourInv
  <2>2. ASSUME NEW key \in {"usable", "malformed", "unreadable"}, Read(p, key)
        PROVE  HonourInv'
    <3>1. CASE key = "unreadable" /\ p \in Nudges
      <4>1. Throws(p) /\ UNCHANGED history
        BY <2>2, <3>1 DEF Read
      <4>2. QED
        BY <2>1, <4>1, ThrowsEnds, ThrowsHonours, HonourAfterEnd
    <3>2. CASE ~ (key = "unreadable" /\ p \in Nudges)
      <4>1. /\ plan'[p] = planPull(p, key) /\ queue' = queue
            /\ pc'[p] = IF p \in Nudges /\ countNudge(message[p]) THEN "count" ELSE Planned(plan'[p])
            /\ history' = IF key = "malformed" /\ p \in Nudges
                          THEN [history EXCEPT !.served = @ \cup {p}] ELSE history
        BY <2>1, <2>2, <3>2 DEF Read, Goto, nudge, TypeOK
      <4>2. history.served \subseteq history'.served /\ (key = "malformed" /\ p \in Nudges => p \in history'.served)
        BY <2>1, <4>1 DEF TypeOK
      <4>3. p \in Nudges => IF key = "malformed" THEN plan'[p] = "none" ELSE plan'[p] = "pull"
        BY <3>2, <4>1, Constants DEF planPull
      <4>4. Honours(p)'
        BY <4>1, <4>2, <4>3 DEF Honours, Planned, PastPull
      <4>5. QED
        BY <2>1, <4>1, <4>2, <4>4, HonourKept DEF NudgeHonoured
    <3>3. QED
      BY <3>1, <3>2
  <2>3. CASE CountNudge(p)
    <3>1. CASE CanPut(p)
      <4>1. pc[p] = "count" /\ pc'[p] = "nudged" /\ UNCHANGED <<plan, queue, history>>
        BY <2>1, <2>3, <3>1 DEF CountNudge, Goto, nudge
      <4>2. Honours(p)'
        BY <2>1, <4>1 DEF Honours, PastPull
      <4>3. QED
        BY <2>1, <4>1, <4>2, HonourKept DEF NudgeHonoured
    <3>2. CASE ~ CanPut(p)
      <4>1. RaceLost(p) /\ UNCHANGED history
        BY <2>3, <3>2 DEF CountNudge
      <4>2. QED
        BY <2>1, <4>1, RaceLostEnds, RaceLostHonours, HonourAfterEnd
    <3>3. QED
      BY <3>1, <3>2
  <2>4. CASE Nudged(p)
    <3>1. pc[p] = "nudged" /\ pc'[p] = Planned(plan[p]) /\ UNCHANGED <<plan, queue, history>>
      BY <2>1, <2>4 DEF Nudged, Goto, nudge
    <3>2. Honours(p)'
      BY <2>1, <3>1 DEF Honours, Planned, PastPull
    <3>3. QED
      BY <2>1, <3>1, <3>2, HonourKept DEF NudgeHonoured
  <2>5. CASE Pull(p) \/ PullHalf(p)
    <3>1. /\ queue' = queue
          /\ history' = IF p \in Nudges THEN [history EXCEPT !.served = @ \cup {p}] ELSE history
          /\ pc'[p] \in PastPull
      <4>1. CASE Pull(p)
        <5>1. PICK outcome, g : Answers(p, outcome, g)
          BY <4>1 DEF Pull, pullToDatastore
        <5>2. QED
          BY <2>1, <5>1 DEF Answers, Goto, nudge, PastPull
      <4>2. CASE PullHalf(p)
        BY <2>1, <4>2 DEF PullHalf, Goto, nudge, PastPull
      <4>3. QED
        BY <2>5, <4>1, <4>2
    <3>2. history.served \subseteq history'.served /\ (p \in Nudges => p \in history'.served)
      BY <2>1, <3>1 DEF TypeOK
    <3>3. Honours(p)'
      BY <3>1, <3>2 DEF Honours, PastPull
    <3>4. QED
      BY <2>1, <3>1, <3>2, <3>3, HonourKept DEF NudgeHonoured
  <2>6. CASE Announce(p) \/ readStatusDoc(p) \/ updateStatus(p) \/ appendEvent(p)
    <3>1. pc[p] \in PastPull /\ pc'[p] \in PastPull /\ queue' = queue /\ history'.served = history.served
      BY <2>1, <2>6 DEF Announce, readStatusDoc, Look, updateStatus, appendEvent, Goto, nudge, PastPull, TypeOK
    <3>2. Honours(p)'
      BY <2>1, <3>1 DEF Honours, PastPull
    <3>3. QED
      BY <2>1, <3>1, <3>2, HonourKept DEF NudgeHonoured
  <2>7. CASE Save(p) \/ Keep(p)
    <3>1. CASE CanPut(p)
      <4>1. pc[p] \in PastPull /\ pc'[p] \in PastPull /\ UNCHANGED <<queue, history>>
        BY <2>1, <2>7, <3>1 DEF Save, Keep, Goto, nudge, PastPull
      <4>2. Honours(p)'
        BY <2>1, <4>1 DEF Honours, PastPull
      <4>3. QED
        BY <2>1, <4>1, <4>2, HonourKept DEF NudgeHonoured
    <3>2. CASE ~ CanPut(p)
      <4>1. RaceLost(p) /\ UNCHANGED history
        BY <2>7, <3>2 DEF Save, Keep
      <4>2. QED
        BY <2>1, <4>1, RaceLostEnds, RaceLostHonours, HonourAfterEnd
    <3>3. QED
      BY <3>1, <3>2
  <2>8. CASE writePullerRow(p)
    <3>1. Return(p) /\ UNCHANGED history /\ (p \in Nudges => p \in history.served)
      BY <2>1, <2>8 DEF writePullerRow, Honours, PastPull
    <3>2. QED
      BY <2>1, <3>1, ReturnEnds, ReturnHonours, HonourAfterEnd
  <2>9. CASE Fail(p)
    <3>1. Throws(p) /\ UNCHANGED history
      BY <2>9 DEF Fail
    <3>2. QED
      BY <2>1, <3>1, ThrowsEnds, ThrowsHonours, HonourAfterEnd
  <2>10. CASE WrittenUnanswered(p)
    <3>1. RaceLost(p) /\ UNCHANGED history
      BY <2>10 DEF WrittenUnanswered
    <3>2. QED
      BY <2>1, <3>1, RaceLostEnds, RaceLostHonours, HonourAfterEnd
  <2>11. CASE tick(p)
    <3>1. pc'[p] = "read" /\ UNCHANGED <<queue, history>>
      BY <2>1, <2>11 DEF tick, Goto, nudge
    <3>2. QED
      BY <2>1, <3>1, HonourKept DEF Honours, NudgeHonoured, PastPull
  <2>12. ASSUME NEW m \in Messages, Deliver(p, m) \/ DeliverAgain(p, m)
         PROVE  HonourInv'
    <3>1. /\ pc'[p] = "read" /\ queue' = [queue EXCEPT ![m] = "taken"]
          /\ history.served \ {p} \subseteq history'.served
      BY <2>1, <2>12 DEF Deliver, DeliverAgain, Receive, Goto, TypeOK
    <3>2. NudgeHonoured'
      BY <2>1, <3>1 DEF NudgeHonoured, TypeOK
    <3>3. QED
      BY <2>1, <3>1, <3>2, HonourKept DEF Honours, PastPull
  <2>13. QED
    BY <1>1, <2>2, <2>3, <2>4, <2>5, <2>6, <2>7, <2>8, <2>9, <2>10, <2>11, <2>12 DEF PassStep, Step
<1>2. ASSUME NEW m \in Messages, Send(m) PROVE HonourInv'
  <2>1. queue' = [queue EXCEPT ![m] = "queued"] /\ UNCHANGED <<pc, plan, history>>
    BY <1>2 DEF Send, pass
  <2>2. QED
    BY <2>1 DEF HonourInv, Honours, NudgeHonoured, Typed, TypeInv, TypeOK
<1>3. ASSUME UNCHANGED <<queue, pc, plan, history>> PROVE HonourInv'
  BY <1>3 DEF HonourInv, Honours, NudgeHonoured
<1>4. QED
  BY <1>1, <1>2, <1>3, NextIs DEF writeStatus, pass, nudge, vars

(* For any schedule of ticks, deliveries and redeliveries, lost races and  *)
(* failures: a nudge is counted and announced once as long as its id is    *)
(* among those kept, and no delivery takes it off the queue without having *)
(* made a pull.                                                            *)
THEOREM NudgesAccountedHolds == Spec => []NudgesAccounted
<1>1. Init => CountInv /\ HonourInv
  <2> SUFFICES ASSUME Init PROVE CountInv /\ HonourInv
    OBVIOUS
  <2>1. Ids = <<>> /\ state.nudges = 0
    BY DEF Init, Ids
  <2>2. IsInjective(Ids) /\ state.nudges = Len(Ids)
    BY <2>1 DEF IsInjective
  <2>3. \A p \in Passes : pc[p] = "idle"
    BY DEF Init
  <2>4. \A m \in Messages : told[m] = 0 /\ queue[m] = "unsent"
    BY DEF Init
  <2>5. CountInv
    BY <2>2, <2>3, <2>4 DEF Init, CountInv, CountedOnce, AtNudged
  <2>6. HonourInv
    BY <2>3, <2>4 DEF HonourInv, Honours, NudgeHonoured, PastPull
  <2>7. QED
    BY <2>5, <2>6
<1>2. CountInv /\ HonourInv => NudgesAccounted
  BY DEF CountInv, CountedOnce, HonourInv, NudgesAccounted, NudgeCountedOnce, Ids
<1>3. QED
  BY <1>1, <1>2, AlwaysTyped, CountStep, HonourStep, PTL DEF Spec

-----------------------------------------------------------------------------
(* A generation is announced once.  Whoever has stored one and not yet     *)
(* announced it is the only one, and before it is stored nobody has.       *)

AnnounceInv ==
  /\ \A p \in Passes : generation[p] # 0 <=> pc[p] = "announce"
  /\ \A p \in Passes : generation[p] # 0 => generation[p] \in stored /\ announced[generation[p]] = 0
  /\ \A p, q \in Passes : generation[p] = generation[q] /\ generation[p] # 0 => p = q
  /\ \A g \in Generations : announced[g] <= 1 /\ (g \notin stored => announced[g] = 0)
  /\ BundleAnnounced

(* A step of a pass without a generation, or none.                         *)
LEMMA AnnounceKept ==
  ASSUME Typed, AnnounceInv, NEW p \in Passes, OthersAside(p),
         pc[p] # "announce", pc'[p] # "announce", generation'[p] \in {0, generation[p]},
         UNCHANGED <<stored, announced>>, faults' = faults \/ faults' # 0
  PROVE  AnnounceInv'
<1>1. generation[p] = 0 /\ generation'[p] = 0
  BY DEF AnnounceInv
<1>2. \A q \in Passes : generation'[q] = generation[q]
  BY <1>1 DEF OthersAside
<1>3. QED
  BY <1>1, <1>2 DEF AnnounceInv, BundleAnnounced, OthersAside

LEMMA FaultIsOne ==
  ASSUME TypeOK, Fault
  PROVE  faults' # 0
BY Constants DEF Fault, TypeOK

(* A generation that is stored is one that never was.                      *)
LEMMA StoresNew ==
  ASSUME TypeOK, NEW g \in Generations, Stores(g)
  PROVE  g \notin stored /\ g # 0 /\ stored' = stored \cup {g} /\ g \in Nat
<1>1. stored \in SUBSET (0 .. MaxGeneration) /\ g \in Nat /\ g # 0
  BY SMTT(30), Constants DEF TypeOK, Generations
<1>2. Newest(stored) \in stored \cup {0} /\ \A y \in stored \cup {0} : Newest(stored) >= y
  BY <1>1, NewestOf, Constants
<1>3. g > Newest(stored) /\ stored' = stored \cup {g}
  BY DEF Stores
<1>4. Newest(stored) \in Nat
  <2>1. stored \cup {0} \subseteq Nat
    BY <1>1, Constants
  <2>2. QED
    BY <1>2, <2>1
<1>5. QED
  BY <1>1, <1>2, <1>3, <1>4

LEMMA AnnounceStored ==
  ASSUME Typed, AnnounceInv, NEW p \in Passes, OthersAside(p), pc[p] = "pull",
         NEW g \in Generations, Stores(g), announced' = announced,
         \/ pc'[p] = "announce" /\ generation'[p] = g /\ faults' = faults
         \/ pc'[p] = "save" /\ generation'[p] = generation[p] /\ faults' # 0
  PROVE  AnnounceInv'
<1>1. g \notin stored /\ g # 0 /\ stored' = stored \cup {g}
  BY StoresNew DEF Typed, TypeInv
<1>2. generation[p] = 0 /\ announced[g] = 0
  BY <1>1 DEF AnnounceInv
<1>3. \A q \in Passes : generation[q] # g
  BY <1>1 DEF AnnounceInv
<1>4. CASE pc'[p] = "announce" /\ generation'[p] = g /\ faults' = faults
  <2>1. \A q \in Passes \ {p} : generation'[q] = generation[q] /\ pc'[q] = pc[q]
    BY DEF OthersAside
  <2>2. \A q \in Passes : generation'[q] # 0 <=> pc'[q] = "announce"
    BY <1>1, <1>4, <2>1 DEF AnnounceInv
  <2>3. \A q \in Passes : generation'[q] # 0 => generation'[q] \in stored' /\ announced'[generation'[q]] = 0
    BY <1>1, <1>2, <1>4, <2>1 DEF AnnounceInv
  <2>4. \A q, r \in Passes : generation'[q] = generation'[r] /\ generation'[q] # 0 => q = r
    BY <1>3, <1>4, <2>1 DEF AnnounceInv
  <2>5. \A h \in Generations : announced'[h] <= 1 /\ (h \notin stored' => announced'[h] = 0)
    BY <1>1 DEF AnnounceInv
  <2>6. ASSUME NEW h \in Generations, faults' = 0, h \in stored', \A q \in Passes : generation'[q] # h
        PROVE  announced'[h] = 1
    <3>1. h # g
      BY <1>4, <2>6
    <3>2. \A q \in Passes : generation[q] # h
      <4>1. h # 0
        BY Constants DEF Generations
      <4>2. QED
        BY <1>2, <2>1, <2>6, <4>1
    <3>3. QED
      BY <1>1, <1>4, <2>6, <3>1, <3>2 DEF AnnounceInv, BundleAnnounced
  <2>7. BundleAnnounced'
    BY <2>5, <2>6 DEF BundleAnnounced
  <2>8. QED
    BY <2>2, <2>3, <2>4, <2>5, <2>7 DEF AnnounceInv
<1>5. CASE pc'[p] = "save" /\ generation'[p] = generation[p] /\ faults' # 0
  <2>1. \A q \in Passes : generation'[q] = generation[q]
    BY <1>5 DEF OthersAside
  <2>2. QED
    BY <1>1, <1>2, <1>5, <2>1 DEF AnnounceInv, BundleAnnounced, OthersAside
<1>6. QED
  BY <1>4, <1>5

LEMMA AnnounceMade ==
  ASSUME Typed, AnnounceInv, NEW p \in Passes, OthersAside(p), Announce(p)
  PROVE  AnnounceInv'
<1>1. PICK g \in Generations : g = generation[p] /\ g # 0 /\ g \in stored /\ announced[g] = 0
  BY DEF Announce, AnnounceInv, Typed, TypeInv, TypeOK
<1>2. /\ announced'[g] = 1 /\ \A h \in Generations \ {g} : announced'[h] = announced[h]
      /\ stored' = stored /\ faults' = faults
  BY <1>1 DEF Announce, Typed, TypeInv, TypeOK
<1>3. pc'[p] = "save" /\ generation'[p] = 0
  BY DEF Announce, Goto, Typed, TypeInv, TypeOK
<1>4. \A q \in Passes \ {p} : generation'[q] = generation[q] /\ pc'[q] = pc[q]
  BY DEF OthersAside
<1>5. \A q \in Passes \ {p} : generation[q] # g
  BY <1>1 DEF AnnounceInv
<1>6. \A q \in Passes : generation'[q] # 0 <=> pc'[q] = "announce"
  BY <1>3, <1>4 DEF AnnounceInv
<1>7. \A q \in Passes : generation'[q] # 0 => generation'[q] \in stored' /\ announced'[generation'[q]] = 0
  <2>1. \A q \in Passes : generation'[q] # 0 => generation'[q] \in Generations \ {g}
    BY <1>3, <1>4, <1>5 DEF AnnounceInv, Typed, TypeInv, TypeOK
  <2>2. QED
    BY <1>2, <1>3, <1>4, <2>1 DEF AnnounceInv
<1>8. \A q, r \in Passes : generation'[q] = generation'[r] /\ generation'[q] # 0 => q = r
  BY <1>3, <1>4 DEF AnnounceInv
<1>9. \A h \in Generations : announced'[h] <= 1 /\ (h \notin stored' => announced'[h] = 0)
  BY <1>1, <1>2 DEF AnnounceInv
<1>10. ASSUME NEW h \in Generations, faults' = 0, h \in stored', \A q \in Passes : generation'[q] # h
       PROVE  announced'[h] = 1
  <2>1. CASE h = g
    BY <1>2, <2>1
  <2>2. CASE h # g
    <3>1. \A q \in Passes : generation[q] # h
      BY <1>1, <1>4, <1>10, <2>2
    <3>2. announced[h] = 1
      BY <1>2, <1>10, <3>1 DEF AnnounceInv, BundleAnnounced
    <3>3. QED
      BY <1>2, <2>2, <3>2
  <2>3. QED
    BY <2>1, <2>2
<1>11. BundleAnnounced'
  BY <1>9, <1>10 DEF BundleAnnounced
<1>12. QED
  BY <1>6, <1>7, <1>8, <1>9, <1>11 DEF AnnounceInv

LEMMA AnnounceStep == Typed /\ AnnounceInv /\ [Next]_vars => AnnounceInv'
<1> SUFFICES ASSUME Typed, AnnounceInv, [Next]_vars PROVE AnnounceInv'
  OBVIOUS
<1>1. ASSUME NEW p \in Passes, PassStep(p) PROVE AnnounceInv'
  <2>1. OthersAside(p) /\ pc \in [Passes -> PCs] /\ TypeOK
    BY <1>1, OthersStandAside DEF Typed, TypeInv, TypeOK
  <2>2. ASSUME Forgets(p), pc[p] # "announce", UNCHANGED <<stored, announced>>, faults' = faults \/ faults' # 0
        PROVE  AnnounceInv'
    BY <2>1, <2>2, AnnounceKept DEF Forgets
  <2>3. ASSUME pc[p] # "announce", pc'[p] # "announce",
               UNCHANGED <<generation, stored, announced, faults>>
        PROVE  AnnounceInv'
    BY <2>1, <2>3, AnnounceKept
  <2>4. ASSUME NEW key \in {"usable", "malformed", "unreadable"}, Read(p, key)
        PROVE  AnnounceInv'
    <3>1. CASE key = "unreadable" /\ p \in Nudges
      BY <2>1, <2>2, <2>4, <3>1, ThrowsEnds DEF Read, release
    <3>2. CASE ~ (key = "unreadable" /\ p \in Nudges)
      BY <2>1, <2>3, <2>4, <3>2, PlannedPC DEF Read, Goto, release
    <3>3. QED
      BY <3>1, <3>2
  <2>5. CASE Nudged(p) \/ tick(p) \/ readStatusDoc(p) \/ updateStatus(p) \/ appendEvent(p)
    BY <2>1, <2>3, <2>5, PlannedPC
       DEF Nudged, tick, readStatusDoc, Look, updateStatus, appendEvent, Goto, release
  <2>6. CASE Pull(p)
    <3>1. CASE \E g \in Generations : Stores(g) /\ Answers(p, "ok", g)
      <4>1. PICK g \in Generations : Stores(g) /\ Answers(p, "ok", g)
        BY <3>1
      <4>2. pc[p] = "pull" /\ announced' = announced /\ faults' = faults
        BY <2>6, <4>1 DEF Pull, pullToDatastore, Answers
      <4>3. pc'[p] = "announce" /\ generation'[p] = g
        BY <2>1, <4>1, StoresNew DEF Answers, Goto, TypeOK
      <4>4. QED
        BY <2>1, <4>1, <4>2, <4>3, AnnounceStored
    <3>2. ASSUME NEW outcome, Answers(p, outcome, 0), UNCHANGED stored
          PROVE  AnnounceInv'
      <4>1. pc[p] = "pull" /\ pc'[p] = "save" /\ generation'[p] = 0 /\ announced' = announced /\ faults' = faults
        BY <2>1, <2>6, <3>2 DEF Pull, pullToDatastore, Answers, Goto, TypeOK
      <4>2. QED
        BY <2>1, <3>2, <4>1, AnnounceKept
    <3>3. QED
      BY <2>6, <3>1, <3>2 DEF Pull, pullToDatastore
  <2>7. CASE PullHalf(p)
    <3>1. PICK g \in Generations : Stores(g)
      BY <2>7 DEF PullHalf
    <3>2. pc[p] = "pull" /\ pc'[p] = "save" /\ generation' = generation /\ announced' = announced /\ faults' # 0
      BY <2>1, <2>7, FaultIsOne DEF PullHalf, Goto
    <3>3. QED
      BY <2>1, <3>1, <3>2, AnnounceStored
  <2>8. CASE Announce(p)
    BY <2>1, <2>8, AnnounceMade
  <2>9. CASE CountNudge(p) \/ Save(p) \/ Keep(p)
    <3>1. CASE CanPut(p)
      BY <2>1, <2>3, <2>9, <3>1 DEF CountNudge, Save, Keep, Goto, release
    <3>2. CASE ~ CanPut(p)
      <4>1. RaceLost(p) /\ pc[p] # "announce" /\ UNCHANGED <<stored, announced, faults>>
        BY <2>9, <3>2 DEF CountNudge, Save, Keep, release
      <4>2. QED
        BY <2>1, <2>2, <4>1, RaceLostEnds
    <3>3. QED
      BY <3>1, <3>2
  <2>10. CASE writePullerRow(p)
    BY <2>1, <2>2, <2>10, ReturnEnds DEF writePullerRow, release
  <2>11. CASE WrittenUnanswered(p)
    <3>1. RaceLost(p) /\ pc[p] # "announce" /\ UNCHANGED <<stored, announced>> /\ faults' # 0
      BY <2>1, <2>11, FaultIsOne DEF WrittenUnanswered, release
    <3>2. QED
      BY <2>1, <2>2, <3>1, RaceLostEnds
  <2>12. CASE Fail(p)
    <3>1. /\ pc'[p] = "idle" /\ generation'[p] = 0 /\ UNCHANGED <<stored, announced>> /\ faults' # 0
      BY <2>1, <2>12, FaultIsOne, ThrowsEnds DEF Fail, Forgets, release
    <3>2. QED
      BY <2>1, <3>1 DEF AnnounceInv, BundleAnnounced, OthersAside
  <2>13. ASSUME NEW m \in Messages, Deliver(p, m) \/ DeliverAgain(p, m)
         PROVE  AnnounceInv'
    <3>1. pc[p] = "idle" /\ pc'[p] = "read" /\ UNCHANGED <<generation, stored, announced>>
          /\ (faults' = faults \/ faults' # 0)
      BY <2>1, <2>13, FaultIsOne DEF Deliver, DeliverAgain, Receive, Goto, release
    <3>2. QED
      BY <2>1, <3>1, AnnounceKept
  <2>14. QED
    BY <1>1, <2>4, <2>5, <2>6, <2>7, <2>8, <2>9, <2>10, <2>11, <2>12, <2>13 DEF PassStep, Step
<1>2. ASSUME UNCHANGED <<pc, generation, stored, announced, faults>> PROVE AnnounceInv'
  BY <1>2 DEF AnnounceInv, BundleAnnounced
<1>3. QED
  BY <1>1, <1>2, NextIs DEF Send, writeStatus, pass, nudge, release, vars

(* For any number of overlapping passes: no generation is announced twice, *)
(* and without failures every one that was stored has been, or is with the *)
(* pass that will.                                                         *)
THEOREM AnnouncedOnce == Spec => []BundleAnnounced
<1>1. Init => AnnounceInv
  <2> SUFFICES ASSUME Init PROVE AnnounceInv
    OBVIOUS
  <2>1. stored = {} /\ (\A g \in Generations : announced[g] = 0)
        /\ \A p \in Passes : generation[p] = 0 /\ pc[p] = "idle"
    BY DEF Init
  <2>2. QED
    BY <2>1 DEF AnnounceInv, BundleAnnounced
<1>2. AnnounceInv => BundleAnnounced
  BY DEF AnnounceInv
<1>3. QED
  BY <1>1, <1>2, AlwaysTyped, AnnounceStep, PTL DEF Spec

-----------------------------------------------------------------------------
(* The row, then the timeline, then the state.                             *)

(* What a pass is about to keep, the row has shown.                        *)
RowInv ==
  /\ RowHolds
  /\ \A p \in Passes : pc[p] \in {"show", "keep"} => mirror[p].written <= history.newest

LEMMA RowKept ==
  ASSUME Typed, RowInv, NEW p \in Passes, OthersAside(p), history'.newest = history.newest,
         state'.mirrored.written <= history.newest,
         pc'[p] \in {"show", "keep"} => mirror'[p].written <= history.newest
  PROVE  RowInv'
BY DEF RowInv, RowHolds, OthersAside

(* An apply is on the timeline, still to be shown, or in the document no   *)
(* more.                                                                   *)
There(p) == shown \cup mirror[p].show

(* What a pass that would win is about to keep: every apply newer than the *)
(* last one mirrored that the document holds, and at least the newest.     *)
Mirrors(p) ==
  LET since == state.mirrored.applied
  IN  /\ since # 0 => \A a \in since + 1 .. mirror[p].applied : a \in There(p) \/ a < doc.from
      /\ mirror[p].applied \in There(p) \cup {since}

ShownInv ==
  /\ \A p \in fresh : pc[p] = "look" => previous[p] = state.mirrored
  /\ \A p \in fresh : pc[p] \in {"row", "show", "keep"} => Mirrors(p)
  /\ \A p \in Passes : pc[p] = "keep" => mirror[p].show = {}

(* A step that leaves the mirrored document alone, and the desk.           *)
LEMMA ShownKept ==
  ASSUME Typed, ShownInv, NEW p \in Passes, OthersAside(p), UNCHANGED <<shown, doc>>,
         state'.mirrored = state.mirrored \/ fresh' \subseteq {p},
         fresh' \subseteq fresh \cup {p},
         pc'[p] = "look" => previous'[p] = state'.mirrored,
         pc'[p] \in {"row", "show", "keep"} => (p \in fresh' => Mirrors(p)'),
         pc'[p] = "keep" => mirror'[p].show = {}
  PROVE  ShownInv'
<1>1. \A q \in fresh' : q \in Passes
  BY DEF Typed, TypeInv, TypeOK
<1>2. ASSUME NEW q \in fresh', q # p
      PROVE  /\ pc'[q] = "look" => previous'[q] = state'.mirrored
             /\ pc'[q] \in {"row", "show", "keep"} => Mirrors(q)'
  <2>1. q \in fresh /\ state'.mirrored = state.mirrored
    BY <1>2
  <2>2. /\ pc'[q] = pc[q] /\ previous'[q] = previous[q] /\ mirror'[q] = mirror[q]
    BY <1>1, <1>2 DEF OthersAside
  <2>3. QED
    BY <2>1, <2>2 DEF ShownInv, Mirrors, There
<1>3. \A q \in Passes \ {p} : pc'[q] = "keep" => mirror'[q].show = {}
  BY DEF ShownInv, OthersAside
<1>4. QED
  BY <1>2, <1>3 DEF ShownInv

LEMMA ShownAfterEnd ==
  ASSUME Typed, ShownInv, NEW p \in Passes, OthersAside(p), Forgets(p), UNCHANGED <<shown, doc>>,
         state'.mirrored = state.mirrored \/ fresh' = {}, fresh' \subseteq fresh
  PROVE  ShownInv'
BY ShownKept DEF Forgets

LEMMA RowAfterEnd ==
  ASSUME Typed, RowInv, NEW p \in Passes, OthersAside(p), Forgets(p), UNCHANGED history,
         state'.mirrored = state.mirrored
  PROVE  RowInv'
BY RowKept DEF Forgets, RowInv, RowHolds

(* The document is looked at.                                              *)
LEMMA LookShows ==
  ASSUME Typed, ShownInv, NEW p \in Passes, OthersAside(p), readStatusDoc(p)
  PROVE  ShownInv'
<1>1. /\ pc[p] = "look" /\ pc'[p] \in {"row", "done"} /\ UNCHANGED <<state, fresh, shown, doc>>
      /\ pc'[p] = "row" => mirror'[p] = Found(p)
  BY DEF readStatusDoc, Look, Found, Goto, desk, Typed, TypeInv, TypeOK
<1>2. ASSUME p \in fresh, pc'[p] = "row" PROVE Mirrors(p)'
  <2> DEFINE since == state.mirrored.applied
             applies == doc.from .. doc.to
  <2>1. previous[p].applied = since
    BY <1>1, <1>2 DEF ShownInv
  <2>2. mirror'[p] = Found(p) /\ since \in 0 .. MaxApplies /\ doc.from \in Nat /\ doc.to \in Nat
    BY SMTT(30), <1>1, <1>2 DEF Typed, TypeInv, TypeOK, Mirrored
  <2>3. /\ Found(p).applied \in applies \cup {since}
        /\ since # 0 => Found(p).show = {a \in applies : a > since}
        /\ since = 0 /\ applies # {} => Found(p).applied \in Found(p).show
        /\ since <= Found(p).applied
    BY <2>1, FoundIs DEF Typed, TypeInv
  <2>4. Found(p).applied \in Nat /\ since \in Nat
    BY <2>2, <2>3, Constants
  <2>5. ASSUME since # 0, NEW a \in since + 1 .. Found(p).applied
        PROVE  a \in Found(p).show \/ a < doc.from
    <3>1. a > since /\ a <= Found(p).applied /\ a \in Nat
      BY <2>4, <2>5
    <3>2. a <= doc.to
      BY <2>2, <2>3, <2>4, <3>1
    <3>3. QED
      BY <2>2, <2>3, <2>5, <3>1, <3>2
  <2>6. Found(p).applied \in Found(p).show \cup {since}
    <3>1. CASE since = 0
      BY <2>3, <3>1
    <3>2. CASE since # 0
      BY <2>2, <2>3, <2>4, <3>2
    <3>3. QED
      BY <3>1, <3>2
  <2>7. QED
    BY <1>1, <2>2, <2>5, <2>6 DEF Mirrors, There
<1>3. QED
  BY <1>1, <1>2, ShownKept

LEMMA ShowShows ==
  ASSUME Typed, ShownInv, NEW p \in Passes, OthersAside(p), appendEvent(p)
  PROVE  ShownInv'
<1>1. /\ pc[p] = "show" /\ UNCHANGED <<state, fresh, doc>>
      /\ shown' \cup mirror'[p].show = shown \cup mirror[p].show
      /\ mirror'[p].applied = mirror[p].applied /\ shown \subseteq shown'
      /\ pc'[p] = "keep" => mirror'[p].show = {}
      /\ pc'[p] \in {"show", "keep"}
  <2>1. TypeInv
    BY DEF Typed
  <2>2. QED
    BY <2>1, ShowIs DEF appendEvent
<1>2. \A q \in Passes \ {p} : pc'[q] = pc[q] /\ previous'[q] = previous[q] /\ mirror'[q] = mirror[q]
  BY DEF OthersAside
<1>3. ASSUME NEW q \in fresh, Mirrors(q) PROVE Mirrors(q)'
  <2>1. q \in Passes
    BY DEF Typed, TypeInv, TypeOK
  <2>2. There(q) \subseteq There(q)' /\ mirror'[q].applied = mirror[q].applied
    BY <1>1, <1>2, <2>1 DEF There
  <2>3. QED
    BY <1>1, <1>3, <2>2 DEF Mirrors
<1>4. \A q \in fresh' : q \in fresh /\ q \in Passes
  BY <1>1 DEF Typed, TypeInv, TypeOK
<1>5. \A q \in fresh' : pc'[q] = "look" => previous'[q] = state'.mirrored
  BY <1>1, <1>2, <1>4 DEF ShownInv
<1>6. \A q \in fresh' : pc'[q] \in {"row", "show", "keep"} => Mirrors(q)'
  <2>1. ASSUME NEW q \in fresh, pc'[q] \in {"row", "show", "keep"} PROVE Mirrors(q)
    BY <1>1, <1>2, <1>4, <2>1 DEF ShownInv
  <2>2. QED
    BY <1>3, <1>4, <2>1
<1>7. \A q \in Passes : pc'[q] = "keep" => mirror'[q].show = {}
  BY <1>1, <1>2 DEF ShownInv
<1>8. QED
  BY <1>5, <1>6, <1>7 DEF ShownInv

(* The document changes: what it held, it may hold no more.                *)
LEMMA DocShows ==
  ASSUME Typed, ShownInv, NEW to \in doc.to .. MaxApplies, NEW start \in {doc.from, doc.to + 1},
         writeStatus(to, start)
  PROVE  ShownInv'
<1>1. doc'.from >= doc.from /\ doc'.from \in Nat /\ doc.from \in Nat
  <2>1. TypeInv' /\ doc'.from >= doc.from /\ TypeInv
    BY DocType DEF Typed
  <2>2. TypeOK' /\ TypeOK
    BY <2>1 DEF TypeInv
  <2>3. doc'.from \in Nat /\ doc.from \in Nat
    <3>1. doc'.from \in 1 .. MaxApplies + 1 /\ doc.from \in 1 .. MaxApplies + 1
      BY <2>2 DEF TypeOK
    <3>2. QED
      BY <3>1, Constants
  <2>4. QED
    BY <2>1, <2>3
<1>2. UNCHANGED <<state, fresh, pc, previous, mirror, shown>>
  BY DEF writeStatus, pass, desk
<1>3. ASSUME NEW q \in fresh, Mirrors(q) PROVE Mirrors(q)'
  <2>1. state.mirrored.applied \in Nat
    BY DEF Typed, TypeInv, TypeOK, Mirrored
  <2>2. mirror[q].applied \in Nat
    BY Constants DEF Typed, TypeInv, TypeOK
  <2>3. \A a \in state.mirrored.applied + 1 .. mirror[q].applied : a < doc.from => a < doc'.from
    BY <1>1, <2>1, <2>2
  <2>4. QED
    BY <1>2, <1>3, <2>3 DEF Mirrors, There
<1>4. QED
  BY <1>2, <1>3 DEF ShownInv

LEMMA MirrorStep ==
  Typed /\ RowInv /\ ShownInv /\ [Next]_vars => RowInv' /\ ShownInv'
<1> SUFFICES ASSUME Typed, RowInv, ShownInv, [Next]_vars PROVE RowInv' /\ ShownInv'
  OBVIOUS
<1>1. ASSUME NEW p \in Passes, PassStep(p) PROVE RowInv' /\ ShownInv'
  <2>1. OthersAside(p) /\ pc \in [Passes -> PCs] /\ TypeOK /\ TypeInv
    BY <1>1, OthersStandAside DEF Typed, TypeInv, TypeOK
  <2>2. ASSUME Forgets(p), UNCHANGED <<shown, doc, history>>, state'.mirrored = state.mirrored,
               fresh' \subseteq fresh
        PROVE  RowInv' /\ ShownInv'
    BY <2>1, <2>2, RowAfterEnd, ShownAfterEnd
  <2>3. ASSUME state'.mirrored = state.mirrored, UNCHANGED <<shown, doc>>,
               history'.newest = history.newest, fresh' \subseteq fresh \cup {p},
               pc'[p] \notin {"look", "row", "show", "keep"}
        PROVE  RowInv' /\ ShownInv'
    <3>1. RowInv'
      BY <2>1, <2>3, RowKept DEF RowInv, RowHolds
    <3>2. ShownInv'
      BY <2>1, <2>3, ShownKept
    <3>3. QED
      BY <3>1, <3>2
  <2>4. ASSUME NEW key \in {"usable", "malformed", "unreadable"}, Read(p, key)
        PROVE  RowInv' /\ ShownInv'
    <3>1. CASE key = "unreadable" /\ p \in Nudges
      BY <2>1, <2>2, <2>4, <3>1, ThrowsEnds DEF Read, desk
    <3>2. CASE ~ (key = "unreadable" /\ p \in Nudges)
      <4>1. /\ UNCHANGED <<state, shown, doc>> /\ fresh' = fresh \cup {p}
            /\ history'.newest = history.newest
            /\ pc'[p] \in {"count", "pull", "save"}
        BY <2>1, <2>4, <3>2, PlannedPC DEF Read, Goto, desk, TypeOK
      <4>2. QED
        BY <2>3, <4>1
    <3>3. QED
      BY <3>1, <3>2
  <2>5. CASE Nudged(p) \/ tick(p) \/ PullHalf(p) \/ Announce(p)
    <3>1. /\ UNCHANGED <<state, fresh, shown, doc>> /\ history'.newest = history.newest
          /\ pc'[p] \in {"read", "pull", "save"}
      <4>1. CASE Nudged(p)
        BY <2>1, <4>1, PlannedPC DEF Nudged, Goto, desk
      <4>2. CASE tick(p)
        BY <2>1, <4>2 DEF tick, Goto, desk
      <4>3. CASE Announce(p)
        BY <2>1, <4>3 DEF Announce, Goto, desk
      <4>4. CASE PullHalf(p)
        <5>1. UNCHANGED <<state, fresh, shown, doc>> /\ pc'[p] = "save"
          BY <2>1, <4>4 DEF PullHalf, Goto, desk
        <5>2. history'.newest = history.newest
          BY <2>1, <4>4 DEF PullHalf, TypeOK
        <5>3. QED
          BY <5>1, <5>2
      <4>5. QED
        BY <2>5, <4>1, <4>2, <4>3, <4>4
    <3>2. QED
      BY <2>3, <3>1
  <2>6. CASE Pull(p)
    <3>1. PICK outcome, g : Answers(p, outcome, g)
      BY <2>6 DEF Pull, pullToDatastore
    <3>2. /\ UNCHANGED <<state, fresh, shown, doc>> /\ history'.newest = history.newest
          /\ pc'[p] \in {"announce", "save"}
      BY <2>1, <3>1 DEF Answers, Goto, desk, TypeOK
    <3>3. QED
      BY <2>3, <3>2
  <2>7. CASE CountNudge(p)
    <3>1. CASE CanPut(p)
      <4>1. /\ state' = Counted(message[p]) /\ fresh' \subseteq fresh /\ UNCHANGED <<shown, doc, history>>
            /\ pc'[p] = "nudged" /\ pc[p] = "count"
        BY <2>1, <2>7, <3>1 DEF CountNudge, Put, Goto, desk
      <4>2. message[p] \in Messages
        BY <4>1 DEF Typed, TypeInv, OnlyNudgesCount, MessageHeld
      <4>3. state'.mirrored = state.mirrored
        BY <2>1, <4>1, <4>2, CountedIds
      <4>4. QED
        BY <2>3, <4>1, <4>3
    <3>2. CASE ~ CanPut(p)
      BY <2>1, <2>2, <2>7, <3>2, RaceLostEnds DEF CountNudge, desk
    <3>3. QED
      BY <3>1, <3>2
  <2>8. CASE Save(p)
    <3>1. CASE CanPut(p)
      <4>1. /\ state'.mirrored = state.mirrored /\ fresh' \subseteq fresh
            /\ UNCHANGED <<shown, doc, history>>
            /\ pc'[p] = "look" /\ previous'[p] = state.mirrored
        BY <2>1, <2>8, <3>1, SavedIs DEF Save, CanPut, Goto, desk, TypeOK
      <4>2. RowInv'
        BY <2>1, <4>1, RowKept DEF RowInv, RowHolds
      <4>3. ShownInv'
        BY <2>1, <4>1, ShownKept
      <4>4. QED
        BY <4>2, <4>3
    <3>2. CASE ~ CanPut(p)
      BY <2>1, <2>2, <2>8, <3>2, RaceLostEnds DEF Save, desk
    <3>3. QED
      BY <3>1, <3>2
  <2>9. CASE readStatusDoc(p)
    <3>1. state' = state /\ history' = history /\ pc'[p] \in {"row", "done"}
      BY <2>1, <2>9 DEF readStatusDoc, Look, Goto
    <3>2. RowInv'
      BY <2>1, <3>1, RowKept DEF RowInv, RowHolds
    <3>3. QED
      BY <2>1, <2>9, <3>2, LookShows
  <2>10. CASE updateStatus(p)
    <3>1. /\ UNCHANGED <<state, fresh, shown, doc, mirror, previous>>
          /\ pc[p] = "row" /\ pc'[p] = IF mirror[p].show = {} THEN "keep" ELSE "show"
          /\ row' = mirror[p].written /\ row' \in 0 .. MaxDocs /\ history.newest \in 0 .. MaxDocs
      BY <2>1, <2>10 DEF updateStatus, Goto, TypeOK
    <3>2. history'.newest = IF row' > history.newest THEN row' ELSE history.newest
      BY <2>1, <2>10 DEF updateStatus, TypeOK
    <3>3. history'.newest >= history.newest /\ history'.newest >= mirror[p].written
          /\ history'.newest \in Nat /\ history.newest \in Nat
      BY <3>1, <3>2, Constants
    <3>4. RowInv'
      <4>1. state.mirrored.written \in Nat /\ \A q \in Passes : mirror[q].written \in Nat
        <5>1. state.mirrored.written \in 0 .. MaxDocs
          BY <2>1 DEF TypeOK, Mirrored
        <5>2. \A q \in Passes : mirror[q].written \in 0 .. MaxDocs
          BY <2>1 DEF TypeOK
        <5>3. QED
          BY <5>1, <5>2, Constants
      <4>2. \A q \in Passes \ {p} : pc'[q] = pc[q]
        BY <2>1 DEF OthersAside
      <4>3. QED
        BY <3>1, <3>3, <4>1, <4>2 DEF RowInv, RowHolds
    <3>5. ShownInv'
      <4>1. p \in fresh => Mirrors(p)
        BY <3>1 DEF ShownInv
      <4>2. p \in fresh' => Mirrors(p)'
        BY <3>1, <4>1 DEF Mirrors, There
      <4>3. QED
        BY <2>1, <3>1, <4>2, ShownKept
    <3>6. QED
      BY <3>4, <3>5
  <2>11. CASE appendEvent(p)
    <3>1. state' = state /\ history' = history /\ pc[p] = "show"
      BY <2>11 DEF appendEvent
    <3>2. mirror'[p].written = mirror[p].written
      BY <2>1, <2>11, ShowIs
    <3>3. RowInv'
      BY <2>1, <3>1, <3>2, RowKept DEF RowInv, RowHolds
    <3>4. QED
      BY <2>1, <2>11, <3>3, ShowShows
  <2>12. CASE Keep(p)
    <3>1. CASE CanPut(p)
      <4>1. /\ state'.mirrored.written = mirror[p].written /\ fresh' \subseteq {p}
            /\ UNCHANGED <<shown, doc, history>> /\ pc'[p] = "done" /\ pc[p] = "keep"
            /\ fresh' \subseteq fresh
        BY <2>1, <2>12, <3>1, KeptIs DEF Keep, Put, Goto, desk
      <4>2. RowInv'
        BY <2>1, <4>1, RowKept DEF RowInv
      <4>3. ShownInv'
        BY <2>1, <4>1, ShownKept
      <4>4. QED
        BY <4>2, <4>3
    <3>2. CASE ~ CanPut(p)
      BY <2>1, <2>2, <2>12, <3>2, RaceLostEnds DEF Keep, desk
    <3>3. QED
      BY <3>1, <3>2
  <2>13. CASE writePullerRow(p) \/ Fail(p)
    BY <2>1, <2>2, <2>13, ReturnEnds, ThrowsEnds DEF writePullerRow, Fail, desk
  <2>14. CASE WrittenUnanswered(p)
    <3>1. Forgets(p) /\ fresh' = {} /\ p \in fresh /\ UNCHANGED <<shown, doc, history>>
      BY <2>1, <2>14, RaceLostEnds DEF WrittenUnanswered, desk
    <3>2. ShownInv'
      BY <2>1, <3>1, ShownAfterEnd
    <3>3. CASE pc[p] = "keep" /\ state' = Kept(p)
      <4>1. state'.mirrored.written <= history.newest
        BY <2>1, <3>3, KeptIs DEF RowInv
      <4>2. QED
        BY <2>1, <3>1, <3>2, <4>1, RowKept DEF Forgets
    <3>4. CASE (pc[p] = "count" /\ state' = Counted(message[p])) \/ (pc[p] = "save" /\ state' \in Saved(p))
      <4>1. pc[p] = "count" => message[p] \in Messages
        BY DEF Typed, TypeInv, OnlyNudgesCount, MessageHeld
      <4>2. state'.mirrored = state.mirrored
        BY <2>1, <3>1, <3>4, <4>1, CountedIds, SavedIs
      <4>3. QED
        BY <2>1, <3>1, <3>2, <4>2, RowAfterEnd
    <3>5. QED
      BY <2>14, <3>3, <3>4 DEF WrittenUnanswered
  <2>15. ASSUME NEW m \in Messages, Deliver(p, m) \/ DeliverAgain(p, m)
         PROVE  RowInv' /\ ShownInv'
    <3>1. /\ UNCHANGED <<state, fresh, shown, doc>> /\ history'.newest = history.newest
          /\ pc'[p] = "read"
      BY <2>1, <2>15 DEF Deliver, DeliverAgain, Receive, Goto, desk, TypeOK
    <3>2. QED
      BY <2>3, <3>1
  <2>16. QED
    BY <1>1, <2>4, <2>5, <2>6, <2>7, <2>8, <2>9, <2>10, <2>11, <2>12, <2>13, <2>14, <2>15
       DEF PassStep, Step
<1>2. ASSUME UNCHANGED <<state, fresh, pc, previous, mirror, shown, doc, history>>
      PROVE  RowInv' /\ ShownInv'
  BY <1>2 DEF RowInv, RowHolds, ShownInv, Mirrors, There
<1>3. ASSUME NEW to \in doc.to .. MaxApplies, NEW start \in {doc.from, doc.to + 1},
             writeStatus(to, start)
      PROVE  RowInv' /\ ShownInv'
  <2>1. RowInv'
    BY <1>3 DEF writeStatus, pass, desk, RowInv, RowHolds
  <2>2. QED
    BY <1>3, <2>1, DocShows
<1>4. QED
  BY <1>1, <1>2, <1>3, NextIs DEF Send, pass, nudge, release, desk, vars

(* Only a pass that would win, with nothing left to show, writes what was  *)
(* mirrored.                                                               *)
LEMMA AppliesStep ==
  ASSUME Typed, ShownInv, [Next]_vars
  PROVE  /\ state.mirrored.applied # 0 => Shows(state.mirrored.applied)
         /\ state'.mirrored.applied \in shown \cup {state.mirrored.applied}
<1> DEFINE Goal == /\ state.mirrored.applied # 0 => Shows(state.mirrored.applied)
                   /\ state'.mirrored.applied \in shown \cup {state.mirrored.applied}
<1>1. ASSUME state'.mirrored = state.mirrored PROVE Goal
  <2>1. state.mirrored.applied \in Nat
    BY Constants DEF Typed, TypeInv, TypeOK, Mirrored
  <2>2. QED
    BY <1>1, <2>1 DEF Shows
<1>2. ASSUME NEW p \in fresh, pc[p] = "keep", state' = Kept(p) PROVE Goal
  <2>1. p \in Passes /\ TypeOK
    BY DEF Typed, TypeInv, TypeOK
  <2>2. state'.mirrored.applied = mirror[p].applied
    BY <1>2, <2>1, KeptIs
  <2>3. Mirrors(p) /\ mirror[p].show = {}
    BY <1>2, <2>1 DEF ShownInv
  <2>4. QED
    BY <2>2, <2>3 DEF Mirrors, There, Shows
<1>3. ASSUME NEW p \in Passes, PassStep(p) PROVE Goal
  <2>1. TypeOK /\ TypeInv
    BY DEF Typed, TypeInv
  <2>2. CASE Keep(p)
    BY <1>1, <1>2, <2>2 DEF Keep, Put, CanPut
  <2>3. CASE Save(p)
    BY <1>1, <2>1, <2>3, SavedIs DEF Save, CanPut
  <2>4. CASE CountNudge(p)
    <3>1. CASE CanPut(p)
      <4>1. message[p] \in Messages /\ state' = Counted(message[p])
        BY <2>4, <3>1 DEF CountNudge, Put, Typed, TypeInv, OnlyNudgesCount, MessageHeld
      <4>2. QED
        BY <1>1, <2>1, <4>1, CountedIds
    <3>2. CASE ~ CanPut(p)
      BY <1>1, <2>4, <3>2 DEF CountNudge
    <3>3. QED
      BY <3>1, <3>2
  <2>5. CASE WrittenUnanswered(p)
    <3>1. p \in fresh /\ (pc[p] = "count" => message[p] \in Messages)
      BY <2>5 DEF WrittenUnanswered, Typed, TypeInv, OnlyNudgesCount, MessageHeld
    <3>2. CASE pc[p] = "keep" /\ state' = Kept(p)
      BY <1>2, <3>1, <3>2
    <3>3. CASE (pc[p] = "count" /\ state' = Counted(message[p])) \/ (pc[p] = "save" /\ state' \in Saved(p))
      <4>1. state'.mirrored = state.mirrored
        BY <2>1, <3>1, <3>3, CountedIds, SavedIs
      <4>2. QED
        BY <1>1, <4>1
    <3>4. QED
      BY <2>5, <3>2, <3>3 DEF WrittenUnanswered
  <2>6. ASSUME NEW key \in {"usable", "malformed", "unreadable"}, Read(p, key) PROVE Goal
    BY <1>1, <2>6 DEF Read
  <2>7. CASE Pull(p)
    <3>1. PICK outcome, g : Answers(p, outcome, g)
      BY <2>7 DEF Pull, pullToDatastore
    <3>2. QED
      BY <1>1, <3>1 DEF Answers
  <2>8. CASE Nudged(p) \/ tick(p) \/ PullHalf(p) \/ Announce(p) \/ readStatusDoc(p)
    BY <1>1, <2>8 DEF Nudged, tick, PullHalf, Announce, readStatusDoc, Look
  <2>9. CASE updateStatus(p) \/ appendEvent(p) \/ writePullerRow(p) \/ Fail(p)
    BY <1>1, <2>9 DEF updateStatus, appendEvent, writePullerRow, Fail
  <2>10. ASSUME NEW m \in Messages, Deliver(p, m) \/ DeliverAgain(p, m) PROVE Goal
    BY <1>1, <2>10 DEF Deliver, DeliverAgain, Receive
  <2>11. QED
    BY <1>3, <2>2, <2>3, <2>4, <2>5, <2>6, <2>7, <2>8, <2>9, <2>10 DEF PassStep, Step
<1>4. ASSUME state' = state PROVE Goal
  BY <1>1, <1>4
<1>5. QED
  BY <1>3, <1>4, NextIs DEF Send, writeStatus, vars

LEMMA MirrorInit == Init => RowInv /\ ShownInv
BY DEF Init, RowInv, RowHolds, ShownInv, Never

(* Whoever overtakes whom: the state never says that a document was        *)
(* mirrored which the row has not shown.                                   *)
THEOREM RowHoldsAlways == Spec => []RowHolds
<1>1. RowInv => RowHolds
  BY DEF RowInv
<1>2. QED
  BY <1>1, MirrorInit, AlwaysTyped, MirrorStep, PTL DEF Spec

(* A step that moves the last apply mirrored has every newer one that the  *)
(* document still holds on the timeline, for any number of applies between *)
(* two looks, any start of the air-gapped host and any lost race.          *)
THEOREM AppliesShownHolds == Spec => AppliesShown
<1>1. Typed /\ ShownInv /\ [Next]_vars =>
        [/\ state.mirrored.applied # 0 => Shows(state.mirrored.applied)
         /\ state'.mirrored.applied \in shown \cup {state.mirrored.applied}]_vars
  BY AppliesStep
<1>2. QED
  BY <1>1, MirrorInit, AlwaysTyped, MirrorStep, PTL DEF Spec, AppliesShown
=============================================================================
