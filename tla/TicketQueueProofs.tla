-------------------------- MODULE TicketQueueProofs -------------------------
(* Proofs about the queue of the eu-west host, for any number of tickets,   *)
(* workers, entries, resets and faults: every entry put on the queue is     *)
(* accounted for.                                                           *)
(*                                                                          *)
(* EntriesAccounted counts; its strengthening says where an entry is: the   *)
(* line and the hands hold each entry once, nobody holds one between runs,  *)
(* and an entry that was never put has no fate.                             *)
EXTENDS TicketQueue, FiniteSetTheorems, WellFoundedInduction, TLAPS

InLine ==
  /\ \A k \in DOMAIN queue : fate[queue[k].id] = "waiting"
  /\ \A j, k \in DOMAIN queue : queue[j].id = queue[k].id => j = k
  /\ \A e \in Ids : fate[e] = "waiting" => \E k \in DOMAIN queue : queue[k].id = e

InHand ==
  /\ \A w \in Workers : \A x \in held[w] : fate[x.id] = "held" /\ x.ticket = head[w]
  /\ \A v, w \in Workers : \A x \in held[v], y \in held[w] : x.id = y.id => v = w
  /\ \A e \in Ids : fate[e] = "held" => \E w \in Workers : \E x \in held[w] : x.id = e

\* A worker between runs holds nothing.
HandsFree == \A w \in Workers : pc[w] \in {"off", "idle", "get", "remove"} => held[w] = {}

NotYet == \A e \in Ids : e > placed => fate[e] = "none"

Excused == \A e \in Ids : fate[e] = "failed" => faults > 0

Parts == InLine /\ InHand /\ HandsFree /\ NotYet /\ Excused
IInv == TypeOK /\ Parts

-----------------------------------------------------------------------------
(* Lemmas.                                                                 *)

LEMMA Constants ==
  /\ Tickets \subseteq Nat \ {0} /\ Tickets # {}
  /\ Attempts \in Nat \ {0} /\ MaxEntries \in Nat /\ MaxResets \in Nat /\ MaxFaults \in Nat
<1> QED BY TicketsAssumption, BoundsAssumption

\* There is a first ticket.
LEMMA MinIsThere ==
  ASSUME NEW S \in SUBSET Nat, S # {}
  PROVE  Min(S) \in S
<1>1. IsWellFoundedOn(OpToRel(<, Nat), Nat) BY NatLessThanWellFounded, Zenon
<1>2. PICK x \in S : \A y \in S : ~ (<<y, x>> \in OpToRel(<, Nat)) BY <1>1, WFMin, Zenon
<1>3. \A y \in S : ~ (y < x) BY <1>2, Zenon DEF OpToRel
<1>4. \A y \in S : x <= y BY <1>3
<1> QED BY <1>4 DEF Min

LEMMA NextTicketType ==
  ASSUME TypeOK, NEW w \in Workers, inbox # {}
  PROVE  nextInboxTicket(w) \in Tickets
<1> DEFINE later == {t \in inbox : t > cursor[w]}
<1>1. inbox \in SUBSET Nat /\ later \in SUBSET Nat BY Constants DEF TypeOK
<1>2. Min(inbox) \in Tickets BY <1>1, MinIsThere DEF TypeOK
<1>3. later # {} => Min(later) \in Tickets BY <1>1, MinIsThere DEF TypeOK
<1> QED BY <1>2, <1>3 DEF nextInboxTicket

LEMMA FaultType ==
  ASSUME TypeOK, Fault
  PROVE  faults' \in 0 .. MaxFaults /\ faults' > 0 /\ faults' >= faults /\ resets' = resets
<1> QED BY Constants DEF TypeOK, Fault

\* Who is met changes, and nobody else.
LEMMA MeetType ==
  ASSUME TypeOK, NEW S \in SUBSET Entry, NEW what \in Fates, Meet(S, what)
  PROVE  /\ fate' \in [Ids -> Fates]
         /\ \A x \in S : fate'[x.id] = what
         /\ \A e \in Ids : (\A x \in S : x.id # e) => fate'[e] = fate[e]
         /\ \A e \in Ids : fate'[e] # fate[e] => fate'[e] = what /\ \E x \in S : x.id = e
<1> QED BY DEF TypeOK, Meet, Entry

\* The line without its first.
LEMMA LineTail ==
  ASSUME TypeOK, InLine, queue # <<>>
  PROVE  /\ Head(queue) \in Entry /\ Tail(queue) \in Seq(Entry)
         /\ fate[Head(queue).id] = "waiting"
         /\ \A k \in DOMAIN Tail(queue) :
              fate[Tail(queue)[k].id] = "waiting" /\ Tail(queue)[k].id # Head(queue).id
              /\ Tail(queue)[k].id \in Ids
         /\ \A j, k \in DOMAIN Tail(queue) : Tail(queue)[j].id = Tail(queue)[k].id => j = k
         /\ \A e \in Ids : fate[e] = "waiting" /\ e # Head(queue).id =>
              \E k \in DOMAIN Tail(queue) : Tail(queue)[k].id = e
<1> DEFINE t == Tail(queue)
<1>1. /\ queue \in Seq(Entry) /\ t \in Seq(Entry) /\ Head(queue) \in Entry /\ Head(queue) = queue[1]
      /\ DOMAIN queue = 1 .. Len(queue) /\ Len(queue) \in Nat \ {0}
      /\ DOMAIN t = 1 .. Len(queue) - 1
      /\ \A k \in DOMAIN t : t[k] = queue[k + 1] /\ k + 1 \in DOMAIN queue
      /\ \A k \in DOMAIN queue : queue[k] \in Entry
      /\ 1 \in DOMAIN queue
  BY DEF TypeOK
<1>2. fate[Head(queue).id] = "waiting"
  BY <1>1 DEF InLine
<1>3. ASSUME NEW k \in DOMAIN t
      PROVE  fate[t[k].id] = "waiting" /\ t[k].id # Head(queue).id /\ t[k].id \in Ids
  <2>1. k \in Nat /\ k + 1 # 1 BY <1>1
  <2>2. queue[k + 1].id # queue[1].id BY <1>1, <2>1 DEF InLine
  <2> QED BY <1>1, <2>2 DEF InLine, Entry
<1>4. ASSUME NEW j \in DOMAIN t, NEW k \in DOMAIN t, t[j].id = t[k].id
      PROVE  j = k
  <2>1. j + 1 = k + 1 BY <1>1, <1>4 DEF InLine
  <2> QED BY <1>1, <2>1
<1>5. ASSUME NEW e \in Ids, fate[e] = "waiting", e # Head(queue).id
      PROVE  \E k \in DOMAIN t : t[k].id = e
  <2>1. PICK k \in DOMAIN queue : queue[k].id = e BY <1>5 DEF InLine
  <2>2. k # 1 BY <1>1, <1>5, <2>1
  <2>3. k - 1 \in DOMAIN t /\ (k - 1) + 1 = k BY <1>1, <2>2
  <2>4. t[k - 1] = queue[k] BY <1>1, <2>3
  <2> QED BY <2>1, <2>3, <2>4
<1> QED BY <1>1, <1>2, <1>3, <1>4, <1>5

LEMMA InitInvariant == ASSUME Init PROVE IInv
<1> USE DEF Init
<1>1. TypeOK
  <2>1. queue \in Seq(Entry) /\ fate \in [Ids -> Fates] /\ pc \in [Workers -> PCs] BY DEF Fates, PCs
  <2>2. head \in [Workers -> Tickets \cup {0}] /\ cursor \in [Workers -> Tickets \cup {0}]
    OBVIOUS
  <2>3. held \in [Workers -> SUBSET Entry] OBVIOUS
  <2>4. misses \in [Workers -> 0 .. Attempts - 1] BY Constants
  <2> QED BY <2>1, <2>2, <2>3, <2>4, Constants DEF TypeOK
<1>2. InLine BY DEF InLine
<1>3. InHand BY DEF InHand
<1>4. HandsFree /\ NotYet /\ Excused BY DEF HandsFree, NotYet, Excused
<1> QED BY <1>1, <1>2, <1>3, <1>4 DEF IInv, Parts

-----------------------------------------------------------------------------
(* What a step may do to the entries: nothing, put one, take the first into *)
(* a hand or drop it, clear the line, let go of what a hand holds.          *)

LEMMA SameEntries ==
  ASSUME IInv, UNCHANGED <<queue, fate, held, placed>>,
         faults' \in Nat, faults' >= faults,
         \A w \in Workers : held[w] # {} => head'[w] = head[w] /\ pc'[w] \in {"lookup", "slot", "run"}
  PROVE  Parts'
<1>1. InLine' BY DEF IInv, Parts, InLine
<1>2. InHand' BY DEF IInv, Parts, InHand
<1>3. HandsFree' BY DEF HandsFree
<1>4. NotYet' BY DEF IInv, Parts, NotYet
<1>5. Excused' BY Constants DEF IInv, Parts, Excused, TypeOK
<1> QED BY <1>1, <1>2, <1>3, <1>4, <1>5 DEF Parts

LEMMA EntryPut ==
  ASSUME IInv, enqueueTicket, UNCHANGED <<held, head, pc>>, faults' \in Nat, faults' >= faults
  PROVE  /\ Parts'
         /\ queue' \in Seq(Entry) /\ placed' \in 0 .. MaxEntries /\ fate' \in [Ids -> Fates]
<1> DEFINE e == placed + 1
           entry == [id |-> e, ticket |-> desk]
<1>1. /\ placed' = e /\ queue' = Append(queue, entry) /\ fate' = [fate EXCEPT ![e] = "waiting"]
      /\ desk # 0 /\ placed < MaxEntries
  BY DEF enqueueTicket
<1>2. e \in Ids /\ placed \in Nat /\ e > placed /\ placed' \in 0 .. MaxEntries
  BY <1>1, Constants DEF IInv, TypeOK, Ids
<1>3. entry \in Entry BY <1>1, <1>2 DEF IInv, TypeOK, Entry
<1>4. fate[e] = "none" BY <1>2 DEF IInv, Parts, NotYet
<1>5. /\ fate' \in [Ids -> Fates] /\ fate'[e] = "waiting"
      /\ \A d \in Ids \ {e} : fate'[d] = fate[d]
  BY <1>1, <1>2 DEF IInv, TypeOK, Fates
<1>6. /\ queue \in Seq(Entry) /\ queue' \in Seq(Entry)
      /\ Len(queue) \in Nat /\ DOMAIN queue = 1 .. Len(queue) /\ DOMAIN queue' = 1 .. Len(queue) + 1
      /\ queue'[Len(queue) + 1] = entry /\ \A k \in DOMAIN queue : queue'[k] = queue[k] /\ queue[k] \in Entry
  BY <1>1, <1>3 DEF IInv, TypeOK
<1>7. entry.id = e OBVIOUS
<1>8. \A k \in DOMAIN queue : queue[k].id \in Ids \ {e}
  BY <1>4, <1>6 DEF IInv, Parts, InLine, Entry
<1> HIDE DEF entry, e
<1>9. InLine'
  <2>1. \A k \in DOMAIN queue' : fate'[queue'[k].id] = "waiting"
    <3> SUFFICES ASSUME NEW k \in DOMAIN queue' PROVE fate'[queue'[k].id] = "waiting"
      OBVIOUS
    <3>1. CASE k \in DOMAIN queue BY <1>5, <1>6, <1>8, <3>1 DEF IInv, Parts, InLine
    <3>2. CASE k = Len(queue) + 1 BY <1>5, <1>6, <1>7, <3>2
    <3> QED BY <1>6, <3>1, <3>2
  <2>2. \A j, k \in DOMAIN queue' : queue'[j].id = queue'[k].id => j = k
    <3> SUFFICES ASSUME NEW j \in DOMAIN queue', NEW k \in DOMAIN queue', queue'[j].id = queue'[k].id
                 PROVE  j = k
      OBVIOUS
    <3>1. (j \in DOMAIN queue \/ j = Len(queue) + 1) /\ (k \in DOMAIN queue \/ k = Len(queue) + 1)
      BY <1>6
    <3>2. CASE j \in DOMAIN queue /\ k \in DOMAIN queue BY <1>6, <3>2 DEF IInv, Parts, InLine
    <3>3. CASE j = Len(queue) + 1 /\ k = Len(queue) + 1 BY <3>3
    <3>4. CASE j \in DOMAIN queue /\ k = Len(queue) + 1 BY <1>6, <1>7, <1>8, <3>4
    <3>5. CASE j = Len(queue) + 1 /\ k \in DOMAIN queue BY <1>6, <1>7, <1>8, <3>5
    <3> QED BY <3>1, <3>2, <3>3, <3>4, <3>5
  <2>3. ASSUME NEW d \in Ids, fate'[d] = "waiting"
        PROVE  \E k \in DOMAIN queue' : queue'[k].id = d
    <3>1. CASE d = e
      <4>1. Len(queue) + 1 \in DOMAIN queue' BY <1>6
      <4> QED BY <1>6, <1>7, <3>1, <4>1
    <3>2. CASE d # e
      <4>1. PICK k \in DOMAIN queue : queue[k].id = d BY <1>5, <2>3, <3>2 DEF IInv, Parts, InLine
      <4>2. k \in DOMAIN queue' BY <1>6
      <4> QED BY <1>6, <4>1, <4>2
    <3> QED BY <3>1, <3>2
  <2> QED BY <2>1, <2>2, <2>3 DEF InLine
<1>10. InHand'
  <2>1. \A w \in Workers : \A x \in held[w] : x.id \in Ids \ {e}
    BY <1>4 DEF IInv, TypeOK, Parts, InHand, Entry
  <2> QED BY <1>5, <2>1 DEF IInv, Parts, InHand
<1>11. HandsFree' BY DEF IInv, Parts, HandsFree
<1>12. NotYet' BY <1>1, <1>2, <1>5 DEF IInv, Parts, NotYet, Ids
<1>13. Excused'
  <2> SUFFICES ASSUME NEW d \in Ids, fate'[d] = "failed" PROVE faults' > 0
    BY DEF Excused
  <2>1. fate[d] = "failed" BY <1>5
  <2>2. faults > 0 /\ faults \in Nat BY <2>1, Constants DEF IInv, Parts, Excused, TypeOK
  <2> QED BY <2>2
<1> QED BY <1>2, <1>5, <1>6, <1>9, <1>10, <1>11, <1>12, <1>13 DEF Parts

LEMMA LineCleared ==
  ASSUME IInv, queue' = <<>>, Meet({queue[k] : k \in DOMAIN queue}, "cleared"),
         UNCHANGED <<held, head, pc, placed, faults>>
  PROVE  Parts' /\ queue' \in Seq(Entry) /\ fate' \in [Ids -> Fates]
<1> DEFINE S == {queue[k] : k \in DOMAIN queue}
<1>1. S \in SUBSET Entry BY DEF IInv, TypeOK
<1>2. \A e \in Ids : (\E x \in S : x.id = e) <=> fate[e] = "waiting"
  BY DEF IInv, Parts, InLine
<1>3. "cleared" \in Fates /\ Meet(S, "cleared") BY DEF Fates
<1> HIDE DEF S
<1>4. /\ fate' \in [Ids -> Fates]
      /\ \A x \in S : fate'[x.id] = "cleared"
      /\ \A e \in Ids : fate[e] # "waiting" => fate'[e] = fate[e]
      /\ \A e \in Ids : fate'[e] # fate[e] => fate'[e] = "cleared" /\ fate[e] = "waiting"
  <2>1. /\ fate' \in [Ids -> Fates]
        /\ \A x \in S : fate'[x.id] = "cleared"
        /\ \A e \in Ids : (\A x \in S : x.id # e) => fate'[e] = fate[e]
        /\ \A e \in Ids : fate'[e] # fate[e] => fate'[e] = "cleared" /\ \E x \in S : x.id = e
    BY <1>1, <1>3, MeetType DEF IInv
  <2> QED BY <1>2, <2>1
<1>5. InLine'
  <2>1. \A e \in Ids : fate'[e] # "waiting" BY <1>2, <1>4
  <2>2. DOMAIN queue' = {} OBVIOUS
  <2> QED BY <2>1, <2>2 DEF InLine
<1>6. InHand' BY <1>4 DEF IInv, TypeOK, Parts, InHand, Entry
<1>7. HandsFree' BY DEF IInv, Parts, HandsFree
<1>8. NotYet' BY <1>4 DEF IInv, Parts, NotYet
<1>9. Excused' BY <1>4 DEF IInv, Parts, Excused
<1> QED BY <1>4, <1>5, <1>6, <1>7, <1>8, <1>9 DEF Parts

LEMMA HeadTaken ==
  ASSUME IInv, NEW w \in Workers, pc[w] = "remove", HeadStands(w), TakeHead(w),
         UNCHANGED <<placed, faults>>
  PROVE  /\ Parts'
         /\ queue' \in Seq(Entry) /\ fate' \in [Ids -> Fates] /\ pc' \in [Workers -> PCs]
         /\ held' \in [Workers -> SUBSET Entry]
<1> DEFINE h == Head(queue)
<1>1. /\ pc' = [pc EXCEPT ![w] = "lookup"] /\ queue' = Tail(queue)
      /\ held' = [held EXCEPT ![w] = {h}] /\ Meet({h}, "held") /\ UNCHANGED head
      /\ queue # <<>> /\ h.ticket = head[w]
  BY DEF TakeHead, HeadStands, Goto
<1>2. /\ h \in Entry /\ queue' \in Seq(Entry) /\ fate[h.id] = "waiting"
      /\ \A k \in DOMAIN queue' : fate[queue'[k].id] = "waiting" /\ queue'[k].id # h.id /\ queue'[k].id \in Ids
      /\ \A j, k \in DOMAIN queue' : queue'[j].id = queue'[k].id => j = k
      /\ \A e \in Ids : fate[e] = "waiting" /\ e # h.id => \E k \in DOMAIN queue' : queue'[k].id = e
  BY <1>1, LineTail DEF IInv, Parts
<1> HIDE DEF h
<1>3. h.id \in Ids /\ {h} \in SUBSET Entry BY <1>2 DEF Entry
<1>4. /\ fate' \in [Ids -> Fates] /\ fate'[h.id] = "held"
      /\ \A e \in Ids \ {h.id} : fate'[e] = fate[e]
  <2> DEFINE S == {h}
  <2>1. "held" \in Fates /\ Meet(S, "held") /\ S \in SUBSET Entry BY <1>1, <1>3 DEF Fates
  <2>2. h \in S /\ \A x \in S : x = h OBVIOUS
  <2> HIDE DEF S
  <2>3. /\ fate' \in [Ids -> Fates] /\ \A x \in S : fate'[x.id] = "held"
        /\ \A e \in Ids : (\A x \in S : x.id # e) => fate'[e] = fate[e]
    BY <2>1, MeetType DEF IInv
  <2> QED BY <2>2, <2>3
<1>5. /\ pc' \in [Workers -> PCs] /\ held' \in [Workers -> SUBSET Entry]
      /\ held[w] = {} /\ held'[w] = {h} /\ \A v \in Workers \ {w} : held'[v] = held[v] /\ pc'[v] = pc[v]
  BY <1>1, <1>3 DEF IInv, TypeOK, PCs, Parts, HandsFree
<1>6. InLine' BY <1>2, <1>4 DEF InLine
<1>7. \A v \in Workers : \A x \in held[v] : x.id \in Ids \ {h.id}
  BY <1>2 DEF IInv, TypeOK, Parts, InHand, Entry
<1>8. InHand'
  <2>1. \A v \in Workers : \A x \in held'[v] : fate'[x.id] = "held" /\ x.ticket = head'[v]
    BY <1>1, <1>4, <1>5, <1>7 DEF IInv, Parts, InHand
  <2>2. \A u, v \in Workers : \A x \in held'[u], y \in held'[v] : x.id = y.id => u = v
    BY <1>5, <1>7 DEF IInv, Parts, InHand
  <2>3. ASSUME NEW e \in Ids, fate'[e] = "held"
        PROVE  \E v \in Workers : \E x \in held'[v] : x.id = e
    <3>1. CASE e = h.id BY <1>5, <3>1
    <3>2. CASE e # h.id
      <4>1. PICK v \in Workers : \E x \in held[v] : x.id = e BY <1>4, <2>3, <3>2 DEF IInv, Parts, InHand
      <4> QED BY <1>5, <4>1
    <3> QED BY <3>1, <3>2
  <2> QED BY <2>1, <2>2, <2>3 DEF InHand
<1>9. HandsFree'
  <2>1. pc'[w] = "lookup" BY <1>1 DEF IInv, TypeOK
  <2> QED BY <1>5, <2>1 DEF IInv, Parts, HandsFree
<1>10. NotYet' BY <1>2, <1>3, <1>4 DEF IInv, Parts, NotYet
<1>11. Excused' BY <1>4 DEF IInv, Parts, Excused
<1> QED BY <1>2, <1>4, <1>5, <1>6, <1>8, <1>9, <1>10, <1>11 DEF Parts

LEMMA HeadDropped ==
  ASSUME IInv, queue # <<>>, queue' = Tail(queue), Meet({Head(queue)}, "failed"),
         UNCHANGED <<held, head, pc, placed>>, faults' \in Nat, faults' > 0
  PROVE  Parts' /\ queue' \in Seq(Entry) /\ fate' \in [Ids -> Fates]
<1> DEFINE h == Head(queue)
<1>1. /\ h \in Entry /\ queue' \in Seq(Entry) /\ fate[h.id] = "waiting"
      /\ \A k \in DOMAIN queue' : fate[queue'[k].id] = "waiting" /\ queue'[k].id # h.id /\ queue'[k].id \in Ids
      /\ \A j, k \in DOMAIN queue' : queue'[j].id = queue'[k].id => j = k
      /\ \A e \in Ids : fate[e] = "waiting" /\ e # h.id => \E k \in DOMAIN queue' : queue'[k].id = e
  BY LineTail DEF IInv, Parts
<1>2. Meet({h}, "failed") OBVIOUS
<1> HIDE DEF h
<1>3. h.id \in Ids /\ {h} \in SUBSET Entry BY <1>1 DEF Entry
<1>4. /\ fate' \in [Ids -> Fates] /\ fate'[h.id] = "failed"
      /\ \A e \in Ids \ {h.id} : fate'[e] = fate[e]
  <2> DEFINE S == {h}
  <2>1. "failed" \in Fates /\ Meet(S, "failed") /\ S \in SUBSET Entry BY <1>2, <1>3 DEF Fates
  <2>2. h \in S /\ \A x \in S : x = h OBVIOUS
  <2> HIDE DEF S
  <2>3. /\ fate' \in [Ids -> Fates] /\ \A x \in S : fate'[x.id] = "failed"
        /\ \A e \in Ids : (\A x \in S : x.id # e) => fate'[e] = fate[e]
    BY <2>1, MeetType DEF IInv
  <2> QED BY <2>2, <2>3
<1>5. InLine' BY <1>1, <1>4 DEF InLine
<1>6. InHand'
  <2>1. \A v \in Workers : \A x \in held[v] : x.id \in Ids \ {h.id}
    BY <1>1 DEF IInv, TypeOK, Parts, InHand, Entry
  <2> QED BY <1>4, <2>1 DEF IInv, Parts, InHand
<1>7. HandsFree' BY DEF IInv, Parts, HandsFree
<1>8. NotYet' BY <1>1, <1>3, <1>4 DEF IInv, Parts, NotYet
<1>9. Excused' BY DEF Excused
<1> QED BY <1>1, <1>4, <1>5, <1>6, <1>7, <1>8, <1>9 DEF Parts

LEMMA LetGo ==
  ASSUME IInv, NEW w \in Workers, NEW what \in Fates \ {"waiting", "held"},
         Meet(held[w], what), held' = [held EXCEPT ![w] = {}],
         UNCHANGED <<queue, placed>>,
         \A v \in Workers \ {w} : head'[v] = head[v] /\ pc'[v] = pc[v],
         faults' \in Nat, faults' >= faults, what = "failed" => faults' > 0
  PROVE  Parts' /\ fate' \in [Ids -> Fates] /\ held' \in [Workers -> SUBSET Entry]
<1>1. held \in [Workers -> SUBSET Entry] BY DEF IInv, TypeOK
<1>2. /\ held' \in [Workers -> SUBSET Entry] /\ held'[w] = {}
      /\ \A v \in Workers \ {w} : held'[v] = held[v]
  BY <1>1
<1>3. /\ fate' \in [Ids -> Fates]
      /\ \A x \in held[w] : fate'[x.id] = what
      /\ \A e \in Ids : (\A x \in held[w] : x.id # e) => fate'[e] = fate[e]
      /\ \A e \in Ids : fate'[e] # fate[e] => fate'[e] = what /\ fate[e] = "held"
  <2>1. held[w] \in SUBSET Entry BY <1>1
  <2>2. \A x \in held[w] : fate[x.id] = "held" BY DEF IInv, Parts, InHand
  <2> QED BY <2>1, <2>2, MeetType DEF IInv
<1>4. InLine'
  <2>1. \A k \in DOMAIN queue : queue[k].id \in Ids
    <3>1. \A k \in DOMAIN queue : queue[k] \in Entry BY DEF IInv, TypeOK
    <3> QED BY <3>1 DEF Entry
  <2>2. \A e \in Ids : fate'[e] = "waiting" <=> fate[e] = "waiting" BY <1>3
  <2> QED BY <2>1, <2>2 DEF IInv, Parts, InLine
<1>5. InHand'
  <2>1. \A v \in Workers : \A x \in held'[v] : fate'[x.id] = "held" /\ x.ticket = head'[v]
    <3> SUFFICES ASSUME NEW v \in Workers \ {w}, NEW x \in held[v]
                 PROVE  fate'[x.id] = "held" /\ x.ticket = head'[v]
      BY <1>2
    <3>1. x.id \in Ids BY <1>1 DEF Entry
    <3>2. \A y \in held[w] : y.id # x.id BY DEF IInv, Parts, InHand
    <3> QED BY <1>3, <3>1, <3>2 DEF IInv, Parts, InHand
  <2>2. \A u, v \in Workers : \A x \in held'[u], y \in held'[v] : x.id = y.id => u = v
    BY <1>2 DEF IInv, Parts, InHand
  <2>3. ASSUME NEW e \in Ids, fate'[e] = "held"
        PROVE  \E v \in Workers : \E x \in held'[v] : x.id = e
    <3>1. fate[e] = "held" BY <1>3, <2>3
    <3>2. PICK v \in Workers : \E x \in held[v] : x.id = e BY <3>1 DEF IInv, Parts, InHand
    <3>3. v # w BY <1>3, <2>3, <3>2
    <3> QED BY <1>2, <3>2, <3>3
  <2> QED BY <2>1, <2>2, <2>3 DEF InHand
<1>6. HandsFree' BY <1>2 DEF IInv, Parts, HandsFree
<1>7. NotYet' BY <1>3 DEF IInv, Parts, NotYet
<1>8. Excused' BY <1>3, Constants DEF IInv, TypeOK, Parts, Excused
<1> QED BY <1>2, <1>3, <1>4, <1>5, <1>6, <1>7, <1>8 DEF Parts

\* runOne's `finally` lets go, and frees the worker.
LEMMA RunEnds ==
  ASSUME IInv, NEW w \in Workers, NEW what \in Fates \ {"waiting", "held"}, NEW next \in PCs,
         EndRun(w, what, next), UNCHANGED <<queue, placed>>,
         faults' \in Nat, faults' >= faults, what = "failed" => faults' > 0
  PROVE  /\ Parts' /\ fate' \in [Ids -> Fates] /\ held' \in [Workers -> SUBSET Entry]
         /\ pc' \in [Workers -> PCs] /\ head' \in [Workers -> Tickets \cup {0}]
         /\ misses' \in [Workers -> 0 .. Attempts - 1]
<1>1. /\ pc' \in [Workers -> PCs] /\ head' \in [Workers -> Tickets \cup {0}]
      /\ misses' \in [Workers -> 0 .. Attempts - 1]
      /\ \A v \in Workers \ {w} : head'[v] = head[v] /\ pc'[v] = pc[v]
  BY Constants DEF EndRun, IInv, TypeOK
<1> QED BY <1>1, LetGo DEF EndRun

-----------------------------------------------------------------------------
(* A step per action: the desk.                                            *)

\* What leaves the entries and the workers alone.
LEMMA DeskStep ==
  ASSUME IInv,
         \/ \E t \in Tickets : AskEnqueue(t)
         \/ EnqueueFails \/ StartReset \/ DeleteTickets \/ SeedTickets \/ ResetFails \/ UNCHANGED vars
  PROVE  IInv'
<1>1. /\ UNCHANGED <<queue, fate, worker, placed>>
  BY DEF AskEnqueue, EnqueueFails, StartReset, DeleteTickets, SeedTickets, ResetFails, vars, deskOnly, resetOnly
<1>2. /\ faults' \in 0 .. MaxFaults /\ faults' >= faults /\ resets' \in 0 .. MaxResets
      /\ desk' \in Tickets \cup {0} /\ reset' \in {"idle", "clear", "delete", "seed"}
      /\ inbox' \in SUBSET Tickets
  <2> USE Constants DEF IInv, TypeOK, deskOnly, resetOnly, bounds, Fault
  <2>1. CASE \E t \in Tickets : AskEnqueue(t) BY <2>1 DEF AskEnqueue
  <2>2. CASE EnqueueFails BY <2>2 DEF EnqueueFails
  <2>3. CASE StartReset BY <2>3 DEF StartReset
  <2>4. CASE DeleteTickets BY <2>4 DEF DeleteTickets
  <2>5. CASE SeedTickets BY <2>5 DEF SeedTickets
  <2>6. CASE ResetFails BY <2>6 DEF ResetFails
  <2>7. CASE UNCHANGED vars BY <2>7 DEF vars
  <2> QED BY <2>1, <2>2, <2>3, <2>4, <2>5, <2>6, <2>7
<1>3. Parts'
  <2>1. \A w \in Workers : held[w] # {} => pc[w] \in {"lookup", "slot", "run"}
    BY DEF IInv, TypeOK, PCs, Parts, HandsFree
  <2> QED BY <1>1, <1>2, <2>1, SameEntries DEF worker
<1> QED BY <1>1, <1>2, <1>3 DEF IInv, TypeOK, worker

LEMMA EnqueueStep ==
  ASSUME IInv, Enqueue \/ EnqueueUnanswered
  PROVE  IInv'
<1>1. enqueueTicket /\ UNCHANGED deskOnly /\ desk' \in Tickets \cup {0}
  BY DEF Enqueue, EnqueueUnanswered, IInv, TypeOK
<1>2. faults' \in 0 .. MaxFaults /\ faults' >= faults /\ resets' \in 0 .. MaxResets
  BY Constants DEF Enqueue, EnqueueUnanswered, Fault, bounds, IInv, TypeOK
<1>3. /\ Parts' /\ queue' \in Seq(Entry) /\ placed' \in 0 .. MaxEntries /\ fate' \in [Ids -> Fates]
  BY <1>1, <1>2, EntryPut DEF deskOnly, worker
<1> QED BY <1>1, <1>2, <1>3 DEF IInv, TypeOK, deskOnly, worker

LEMMA ClearQueueStep == ASSUME IInv, ClearQueue PROVE IInv'
<1>1. UNCHANGED <<inbox, resetOnly, bounds>> /\ reset' = "delete" BY DEF ClearQueue
<1>2. Parts' /\ queue' \in Seq(Entry) /\ fate' \in [Ids -> Fates]
  BY <1>1, LineCleared DEF ClearQueue, resetOnly, worker, bounds
<1> QED BY <1>1, <1>2 DEF IInv, TypeOK, resetOnly, worker, bounds

-----------------------------------------------------------------------------
(* A step per action: the worker.                                          *)

\* What none of them touches.
LEMMA WorkerTyped ==
  ASSUME IInv, Parts', UNCHANGED workerOnly,
         faults' \in 0 .. MaxFaults, resets' \in 0 .. MaxResets,
         queue' \in Seq(Entry), fate' \in [Ids -> Fates], pc' \in [Workers -> PCs],
         head' \in [Workers -> Tickets \cup {0}], held' \in [Workers -> SUBSET Entry],
         misses' \in [Workers -> 0 .. Attempts - 1], cursor' \in [Workers -> Tickets \cup {0}]
  PROVE  IInv'
<1> QED BY DEF IInv, TypeOK, workerOnly

LEMMA SameBounds ==
  ASSUME IInv, UNCHANGED bounds
  PROVE  faults' \in 0 .. MaxFaults /\ faults' \in Nat /\ faults' >= faults /\ resets' \in 0 .. MaxResets
<1> QED BY Constants DEF IInv, TypeOK, bounds

LEMMA AttachStep == ASSUME IInv, NEW w \in Workers, attach(w) PROVE IInv'
<1>1. /\ pc[w] = "off" /\ pc' = [pc EXCEPT ![w] = "idle"]
      /\ UNCHANGED <<queue, fate, head, held, misses, cursor, workerOnly, bounds>>
  BY DEF attach, Goto
<1>2. pc' \in [Workers -> PCs] BY <1>1 DEF IInv, TypeOK, PCs
<1>3. Parts'
  <2>1. \A v \in Workers : held[v] # {} => pc'[v] \in {"lookup", "slot", "run"}
    BY <1>1 DEF IInv, TypeOK, PCs, Parts, HandsFree
  <2> QED BY <1>1, <2>1, SameBounds, SameEntries DEF workerOnly
<1> QED BY <1>1, <1>2, <1>3, SameBounds, WorkerTyped DEF IInv, TypeOK

LEMMA PollQueueStep == ASSUME IInv, NEW w \in Workers, PollQueue(w) PROVE IInv'
<1>1. /\ pc[w] \in {"idle", "get"} /\ UNCHANGED <<queue, cursor, workerOnly, bounds>>
  BY DEF PollQueue, ReadQueue
<1>2. CASE queue = <<>>
  <2>1. EndRun(w, "none", "idle") BY <1>2 DEF PollQueue, ReadQueue
  <2>2. "none" \in Fates \ {"waiting", "held"} /\ "idle" \in PCs BY DEF Fates, PCs
  <2>3. /\ Parts' /\ fate' \in [Ids -> Fates] /\ held' \in [Workers -> SUBSET Entry]
        /\ pc' \in [Workers -> PCs] /\ head' \in [Workers -> Tickets \cup {0}]
        /\ misses' \in [Workers -> 0 .. Attempts - 1]
    BY <1>1, <2>1, <2>2, SameBounds, RunEnds DEF workerOnly
  <2> QED BY <1>1, <2>3, SameBounds, WorkerTyped DEF IInv, TypeOK
<1>3. CASE queue # <<>>
  <2>1. /\ pc' = [pc EXCEPT ![w] = "remove"] /\ head' = [head EXCEPT ![w] = Head(queue).ticket]
        /\ UNCHANGED <<fate, held, misses>>
    BY <1>3 DEF PollQueue, ReadQueue, Goto
  <2>2. Head(queue).ticket \in Tickets
    <3>1. Head(queue) \in Entry BY <1>3 DEF IInv, TypeOK
    <3> QED BY <3>1 DEF Entry
  <2>3. pc' \in [Workers -> PCs] /\ head' \in [Workers -> Tickets \cup {0}]
    BY <2>1, <2>2 DEF IInv, TypeOK, PCs
  <2>4. Parts'
    <3>1. \A v \in Workers : held[v] # {} => head'[v] = head[v] /\ pc'[v] \in {"lookup", "slot", "run"}
      BY <1>1, <2>1 DEF IInv, TypeOK, PCs, Parts, HandsFree
    <3> QED BY <1>1, <2>1, <3>1, SameBounds, SameEntries DEF workerOnly
  <2> QED BY <1>1, <2>1, <2>3, <2>4, SameBounds, WorkerTyped DEF IInv, TypeOK
<1> QED BY <1>2, <1>3

LEMMA TimerTicketStep == ASSUME IInv, NEW w \in Workers, TimerTicket(w) PROVE IInv'
<1>1. /\ pc[w] = "idle" /\ pc' = [pc EXCEPT ![w] = "slot"]
      /\ head' = [head EXCEPT ![w] = nextInboxTicket(w)] /\ cursor' = [cursor EXCEPT ![w] = nextInboxTicket(w)]
      /\ UNCHANGED <<queue, fate, held, misses, workerOnly, bounds>>
  BY DEF TimerTicket, Goto
<1>2. nextInboxTicket(w) \in Tickets BY NextTicketType DEF TimerTicket, IInv
<1>3. /\ pc' \in [Workers -> PCs] /\ head' \in [Workers -> Tickets \cup {0}]
      /\ cursor' \in [Workers -> Tickets \cup {0}]
  BY <1>1, <1>2 DEF IInv, TypeOK, PCs
<1>4. Parts'
  <2>1. \A v \in Workers : held[v] # {} => head'[v] = head[v] /\ pc'[v] \in {"lookup", "slot", "run"}
    BY <1>1 DEF IInv, TypeOK, PCs, Parts, HandsFree
  <2> QED BY <1>1, <2>1, SameBounds, SameEntries DEF workerOnly
<1> QED BY <1>1, <1>3, <1>4, SameBounds, WorkerTyped DEF IInv, TypeOK

LEMMA DequeueStep == ASSUME IInv, NEW w \in Workers, dequeueTicket(w) PROVE IInv'
<1>1. pc[w] = "remove" /\ UNCHANGED <<cursor, workerOnly, bounds>> BY DEF dequeueTicket
<1>2. CASE HeadStands(w)
  <2>1. TakeHead(w) BY <1>2 DEF dequeueTicket
  <2>2. UNCHANGED <<head, misses>> BY <2>1 DEF TakeHead
  <2>3. /\ Parts' /\ queue' \in Seq(Entry) /\ fate' \in [Ids -> Fates] /\ pc' \in [Workers -> PCs]
        /\ held' \in [Workers -> SUBSET Entry]
    BY <1>1, <1>2, <2>1, HeadTaken DEF workerOnly, bounds
  <2> QED BY <1>1, <2>2, <2>3, SameBounds, WorkerTyped DEF IInv, TypeOK
<1>3. CASE ~ HeadStands(w)
  <2>1. EndRun(w, "none", "idle") /\ UNCHANGED queue BY <1>3 DEF dequeueTicket
  <2>2. "none" \in Fates \ {"waiting", "held"} /\ "idle" \in PCs BY DEF Fates, PCs
  <2>3. /\ Parts' /\ fate' \in [Ids -> Fates] /\ held' \in [Workers -> SUBSET Entry]
        /\ pc' \in [Workers -> PCs] /\ head' \in [Workers -> Tickets \cup {0}]
        /\ misses' \in [Workers -> 0 .. Attempts - 1]
    BY <1>1, <2>1, <2>2, SameBounds, RunEnds DEF workerOnly
  <2> QED BY <1>1, <2>1, <2>3, SameBounds, WorkerTyped DEF IInv, TypeOK
<1> QED BY <1>2, <1>3

LEMMA DequeueUnansweredStep == ASSUME IInv, NEW w \in Workers, DequeueUnanswered(w) PROVE IInv'
<1>1. /\ queue # <<>> /\ queue' = Tail(queue) /\ Meet({Head(queue)}, "failed") /\ Fault
      /\ UNCHANGED <<worker, workerOnly>>
  BY DEF DequeueUnanswered, HeadStands
<1>2. faults' \in 0 .. MaxFaults /\ faults' \in Nat /\ faults' > 0 /\ resets' \in 0 .. MaxResets
  BY <1>1, FaultType, Constants DEF IInv, TypeOK
<1>3. Parts' /\ queue' \in Seq(Entry) /\ fate' \in [Ids -> Fates]
  BY <1>1, <1>2, HeadDropped DEF worker, workerOnly
<1> QED BY <1>1, <1>2, <1>3, WorkerTyped DEF IInv, TypeOK, worker

LEMMA LookUpStep == ASSUME IInv, NEW w \in Workers, LookUp(w) PROVE IInv'
<1>1. pc[w] = "lookup" /\ UNCHANGED <<queue, cursor, workerOnly, bounds>> BY DEF LookUp, LookUpTrying
<1>2. CASE head[w] \in inbox
  <2>1. pc' = [pc EXCEPT ![w] = "slot"] /\ UNCHANGED <<fate, head, held, misses>>
    BY <1>2 DEF LookUp, LookUpTrying, Goto
  <2>2. pc' \in [Workers -> PCs] BY <2>1 DEF IInv, TypeOK, PCs
  <2>3. Parts'
    <3>1. \A v \in Workers : held[v] # {} => pc'[v] \in {"lookup", "slot", "run"}
      BY <2>1 DEF IInv, TypeOK, PCs, Parts, HandsFree
    <3> QED BY <1>1, <2>1, <3>1, SameBounds, SameEntries DEF workerOnly
  <2> QED BY <1>1, <2>1, <2>2, <2>3, SameBounds, WorkerTyped DEF IInv, TypeOK
<1>3. CASE head[w] \notin inbox /\ misses[w] + 1 = Attempts
  <2>1. EndRun(w, "unknown", "idle") BY <1>3 DEF LookUp, LookUpTrying
  <2>2. "unknown" \in Fates \ {"waiting", "held"} /\ "idle" \in PCs BY DEF Fates, PCs
  <2>3. /\ Parts' /\ fate' \in [Ids -> Fates] /\ held' \in [Workers -> SUBSET Entry]
        /\ pc' \in [Workers -> PCs] /\ head' \in [Workers -> Tickets \cup {0}]
        /\ misses' \in [Workers -> 0 .. Attempts - 1]
    BY <1>1, <2>1, <2>2, SameBounds, RunEnds DEF workerOnly
  <2> QED BY <1>1, <2>3, SameBounds, WorkerTyped DEF IInv, TypeOK
<1>4. CASE head[w] \notin inbox /\ misses[w] + 1 # Attempts
  <2>1. /\ pc' = [pc EXCEPT ![w] = "get"] /\ Meet(held[w], "unknown")
        /\ held' = [held EXCEPT ![w] = {}] /\ misses' = [misses EXCEPT ![w] = @ + 1] /\ UNCHANGED head
    BY <1>4 DEF LookUp, LookUpTrying, Goto
  <2>2. misses[w] + 1 \in 0 .. Attempts - 1 BY <1>4, Constants DEF IInv, TypeOK
  <2>3. /\ pc' \in [Workers -> PCs] /\ misses' \in [Workers -> 0 .. Attempts - 1]
        /\ \A v \in Workers \ {w} : head'[v] = head[v] /\ pc'[v] = pc[v]
    BY <2>1, <2>2 DEF IInv, TypeOK, PCs
  <2>4. "unknown" \in Fates \ {"waiting", "held"} BY DEF Fates
  <2>5. Parts' /\ fate' \in [Ids -> Fates] /\ held' \in [Workers -> SUBSET Entry]
    BY <1>1, <2>1, <2>3, <2>4, SameBounds, LetGo DEF workerOnly
  <2> QED BY <1>1, <2>1, <2>3, <2>5, SameBounds, WorkerTyped DEF IInv, TypeOK
<1> QED BY <1>2, <1>3, <1>4

LEMMA TakeRunSlotStep == ASSUME IInv, NEW w \in Workers, takeRunSlot(w) PROVE IInv'
<1>1. pc[w] = "slot" /\ UNCHANGED <<queue, cursor, workerOnly, bounds>> BY DEF takeRunSlot
<1>2. CASE pc' = [pc EXCEPT ![w] = "run"] /\ UNCHANGED <<fate, head, held, misses>>
  <2>1. pc' \in [Workers -> PCs] BY <1>2 DEF IInv, TypeOK, PCs
  <2>2. Parts'
    <3>1. \A v \in Workers : held[v] # {} => pc'[v] \in {"lookup", "slot", "run"}
      BY <1>2 DEF IInv, TypeOK, PCs, Parts, HandsFree
    <3> QED BY <1>1, <1>2, <3>1, SameBounds, SameEntries DEF workerOnly
  <2> QED BY <1>1, <1>2, <2>1, <2>2, SameBounds, WorkerTyped DEF IInv, TypeOK
<1>3. CASE EndRun(w, "refused", "idle")
  <2>1. "refused" \in Fates \ {"waiting", "held"} /\ "idle" \in PCs BY DEF Fates, PCs
  <2>2. /\ Parts' /\ fate' \in [Ids -> Fates] /\ held' \in [Workers -> SUBSET Entry]
        /\ pc' \in [Workers -> PCs] /\ head' \in [Workers -> Tickets \cup {0}]
        /\ misses' \in [Workers -> 0 .. Attempts - 1]
    BY <1>1, <1>3, <2>1, SameBounds, RunEnds DEF workerOnly
  <2> QED BY <1>1, <2>2, SameBounds, WorkerTyped DEF IInv, TypeOK
<1> QED BY <1>2, <1>3 DEF takeRunSlot, Goto

\* A run, a call that throws, a process that stops.
LEMMA EndStep ==
  ASSUME IInv, NEW w \in Workers, runTicket(w) \/ Throw(w) \/ Stop(w)
  PROVE  IInv'
<1>1. PICK what \in {"ran", "failed"}, next \in {"idle", "off"} :
        EndRun(w, what, next) /\ (what = "failed" => Fault) /\ (what # "failed" => UNCHANGED bounds)
  BY DEF runTicket, Throw, Stop
<1>2. UNCHANGED <<queue, workerOnly>> /\ cursor' \in [Workers -> Tickets \cup {0}]
  BY DEF runTicket, Throw, Stop, IInv, TypeOK
<1>3. /\ faults' \in 0 .. MaxFaults /\ faults' \in Nat /\ faults' >= faults /\ resets' \in 0 .. MaxResets
      /\ what = "failed" => faults' > 0
  BY <1>1, FaultType, SameBounds, Constants DEF IInv, TypeOK
<1>4. what \in Fates \ {"waiting", "held"} /\ next \in PCs BY DEF Fates, PCs
<1>5. /\ Parts' /\ fate' \in [Ids -> Fates] /\ held' \in [Workers -> SUBSET Entry]
      /\ pc' \in [Workers -> PCs] /\ head' \in [Workers -> Tickets \cup {0}]
      /\ misses' \in [Workers -> 0 .. Attempts - 1]
  BY <1>1, <1>2, <1>3, <1>4, RunEnds DEF workerOnly
<1> QED BY <1>2, <1>3, <1>5, WorkerTyped DEF IInv, TypeOK

LEMMA NextInvariant == ASSUME IInv, [Next]_vars PROVE IInv'
<1>1. CASE \/ \E t \in Tickets : AskEnqueue(t)
           \/ EnqueueFails \/ StartReset \/ DeleteTickets \/ SeedTickets \/ ResetFails \/ UNCHANGED vars
  BY <1>1, DeskStep
<1>2. CASE Enqueue \/ EnqueueUnanswered BY <1>2, EnqueueStep
<1>3. CASE ClearQueue BY <1>3, ClearQueueStep
<1>4. ASSUME NEW w \in Workers, attach(w) \/ PollQueue(w) \/ TimerTicket(w) PROVE IInv'
  BY <1>4, AttachStep, PollQueueStep, TimerTicketStep
<1>5. ASSUME NEW w \in Workers, Step(w) \/ DequeueUnanswered(w) \/ Throw(w) \/ Stop(w) PROVE IInv'
  BY <1>5, DequeueStep, LookUpStep, TakeRunSlotStep, EndStep, DequeueUnansweredStep DEF Step
<1> QED BY <1>1, <1>2, <1>3, <1>4, <1>5 DEF Next

-----------------------------------------------------------------------------
(* What the property counts.                                               *)

LEMMA OneOrNone ==
  ASSUME NEW S, NEW P, (\A a, b \in S : a = b), P <=> S # {}
  PROVE  Cardinality(S) = IF P THEN 1 ELSE 0
<1>1. CASE S = {} BY <1>1, FS_EmptySet
<1>2. CASE S # {}
  <2>1. PICK a \in S : S = {a} BY <1>2
  <2> QED BY <1>2, <2>1, FS_Singleton
<1> QED BY <1>1, <1>2

LEMMA InvariantGivesEntriesAccounted == IInv => EntriesAccounted
<1> SUFFICES ASSUME IInv PROVE EntriesAccounted
  OBVIOUS
<1>1. ASSUME NEW e \in Ids
      PROVE  /\ Cardinality({k \in DOMAIN queue : queue[k].id = e}) = IF fate[e] = "waiting" THEN 1 ELSE 0
             /\ Cardinality({w \in Workers : \E x \in held[w] : x.id = e}) = IF fate[e] = "held" THEN 1 ELSE 0
             /\ fate[e] = "failed" => faults > 0
  <2> DEFINE places == {k \in DOMAIN queue : queue[k].id = e}
             hands == {w \in Workers : \E x \in held[w] : x.id = e}
  <2>1. (\A a, b \in places : a = b) /\ (fate[e] = "waiting" <=> places # {})
    BY DEF IInv, Parts, InLine
  <2>2. (\A a, b \in hands : a = b) /\ (fate[e] = "held" <=> hands # {})
    BY DEF IInv, Parts, InHand
  <2>3. fate[e] = "failed" => faults > 0
    BY DEF IInv, Parts, Excused
  <2> HIDE DEF places, hands
  <2>4. Cardinality(places) = IF fate[e] = "waiting" THEN 1 ELSE 0
    BY <2>1, OneOrNone
  <2>5. Cardinality(hands) = IF fate[e] = "held" THEN 1 ELSE 0
    BY <2>2, OneOrNone
  <2> QED BY <2>3, <2>4, <2>5 DEF places, hands
<1>2. \A w \in Workers : \A x \in held[w] : x.ticket = head[w]
  BY DEF IInv, Parts, InHand
<1> QED BY <1>1, <1>2 DEF EntriesAccounted

-----------------------------------------------------------------------------
(* The refinement: the line, the hands and the number of entries put are    *)
(* the abstract queue's.                                                    *)

\* What the desk does, and a round of the timer, happens to no entry.
LEMMA UnseenStep ==
  ASSUME UNCHANGED <<queue, held, placed>>
  PROVE  UNCHANGED Fifo!vars
<1> QED BY DEF Fifo!vars

LEMMA PutStep == ASSUME IInv, enqueueTicket, UNCHANGED held PROVE Fifo!Next
<1>1. desk \in Tickets BY DEF enqueueTicket, IInv, TypeOK
<1>2. Fifo!Put(desk) BY DEF enqueueTicket, Fifo!Put
<1> QED BY <1>1, <1>2 DEF Fifo!Next

LEMMA FinishStep ==
  ASSUME NEW w \in Workers, held' = [held EXCEPT ![w] = {}], UNCHANGED <<queue, placed>>
  PROVE  Fifo!Next
<1>1. Fifo!Finish(w) BY DEF Fifo!Finish
<1> QED BY <1>1 DEF Fifo!Next

LEMMA WorkerImplements ==
  ASSUME IInv, NEW w \in Workers,
         attach(w) \/ PollQueue(w) \/ TimerTicket(w) \/ Step(w) \/ DequeueUnanswered(w) \/ Throw(w) \/ Stop(w)
  PROVE  [Fifo!Next]_(Fifo!vars)
<1>1. CASE attach(w) \/ TimerTicket(w)
  BY <1>1, UnseenStep DEF attach, TimerTicket, workerOnly
<1>2. CASE PollQueue(w)
  <2>1. CASE queue = <<>> BY <1>2, <2>1, FinishStep DEF PollQueue, ReadQueue, EndRun, workerOnly
  <2>2. CASE queue # <<>> BY <1>2, <2>2, UnseenStep DEF PollQueue, ReadQueue, workerOnly
  <2> QED BY <2>1, <2>2
<1>3. CASE dequeueTicket(w)
  <2>1. CASE HeadStands(w)
    <3>1. TakeHead(w) /\ queue # <<>> /\ UNCHANGED placed
      BY <1>3, <2>1 DEF dequeueTicket, HeadStands, workerOnly
    <3>2. held[w] = {} BY <1>3 DEF dequeueTicket, IInv, Parts, HandsFree
    <3>3. Fifo!Take(w) BY <3>1, <3>2 DEF TakeHead, Fifo!Take
    <3> QED BY <3>3 DEF Fifo!Next
  <2>2. CASE ~ HeadStands(w) BY <1>3, <2>2, FinishStep DEF dequeueTicket, EndRun, workerOnly
  <2> QED BY <2>1, <2>2
<1>4. CASE LookUp(w)
  <2>1. CASE head[w] \in inbox
    BY <1>4, <2>1, UnseenStep DEF LookUp, LookUpTrying, workerOnly
  <2>2. CASE head[w] \notin inbox
    BY <1>4, <2>2, FinishStep DEF LookUp, LookUpTrying, EndRun, workerOnly
  <2> QED BY <2>1, <2>2
<1>5. CASE takeRunSlot(w)
  BY <1>5, UnseenStep, FinishStep DEF takeRunSlot, EndRun, workerOnly
<1>6. CASE runTicket(w) \/ Throw(w) \/ Stop(w)
  BY <1>6, FinishStep DEF runTicket, Throw, Stop, EndRun, workerOnly
<1>7. CASE DequeueUnanswered(w)
  <2>1. Fifo!LoseFront
    BY <1>7 DEF DequeueUnanswered, HeadStands, worker, workerOnly, Fifo!LoseFront
  <2> QED BY <2>1 DEF Fifo!Next
<1> QED BY <1>1, <1>2, <1>3, <1>4, <1>5, <1>6, <1>7 DEF Step

LEMMA NextImplements == ASSUME IInv, [Next]_vars PROVE [Fifo!Next]_(Fifo!vars)
<1>1. CASE \/ \E t \in Tickets : AskEnqueue(t)
           \/ EnqueueFails \/ StartReset \/ DeleteTickets \/ SeedTickets \/ ResetFails \/ UNCHANGED vars
  <2>1. UNCHANGED <<queue, held, placed>>
    BY <1>1 DEF AskEnqueue, EnqueueFails, StartReset, DeleteTickets, SeedTickets, ResetFails, vars,
                deskOnly, resetOnly, worker
  <2> QED BY <2>1, UnseenStep
<1>2. CASE Enqueue \/ EnqueueUnanswered
  BY <1>2, PutStep DEF Enqueue, EnqueueUnanswered, deskOnly, worker
<1>3. CASE ClearQueue
  <2>1. Fifo!Clear BY <1>3 DEF ClearQueue, resetOnly, worker, Fifo!Clear
  <2> QED BY <2>1 DEF Fifo!Next
<1>4. ASSUME NEW w \in Workers,
             attach(w) \/ PollQueue(w) \/ TimerTicket(w) \/ Step(w) \/ DequeueUnanswered(w) \/ Throw(w) \/ Stop(w)
      PROVE  [Fifo!Next]_(Fifo!vars)
  BY <1>4, WorkerImplements
<1> QED BY <1>1, <1>2, <1>3, <1>4 DEF Next

-----------------------------------------------------------------------------
(* Theorems.                                                               *)

\* Every variable keeps its type; the timer's round finds a ticket in every inbox that
\* holds one.
THEOREM TypeCorrect == Spec => []TypeOK
<1>1. Init => IInv BY InitInvariant
<1>2. IInv /\ [Next]_vars => IInv' BY NextInvariant
<1>3. IInv => TypeOK BY DEF IInv
<1> QED BY <1>1, <1>2, <1>3, PTL DEF Spec

\* "two workers on one queue never take the same ticket twice" (store.ts:340): every entry
\* is in the line once, in one hand, or over, however many workers, resets, lost answers
\* and crashes there are.
THEOREM EntriesAccountedHolds == Spec => []EntriesAccounted
<1>1. Init => IInv BY InitInvariant
<1>2. IInv /\ [Next]_vars => IInv' BY NextInvariant
<1>3. IInv => EntriesAccounted BY InvariantGivesEntriesAccounted
<1> QED BY <1>1, <1>2, <1>3, PTL DEF Spec

\* The table, the conditional removal, the SDK's retries and the workers together are an
\* at-most-once FIFO queue (store.ts:322-347, worker.ts:60-79).
THEOREM ImplementsFifo == Spec => IsFifo
<1>1. Init => IInv BY InitInvariant
<1>2. IInv /\ [Next]_vars => IInv' BY NextInvariant
<1>3. Init => Fifo!Init BY DEF Init, Fifo!Init
<1>4. IInv /\ [Next]_vars => [Fifo!Next]_(Fifo!vars) BY NextImplements
<1> QED BY <1>1, <1>2, <1>3, <1>4, PTL DEF Spec, IsFifo, Fifo!Spec
=============================================================================
