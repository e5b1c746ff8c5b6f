----------------------------- MODULE RunsProofs -----------------------------
(***************************************************************************)
(* For any number of requests, runs, days, resets and failures: the daily  *)
(* cap and the doors' lines hold, midnight lets at most one run of a       *)
(* request through, and the inbox links to runs that are there.            *)
(***************************************************************************)
EXTENDS Runs, FiniteSetTheorems, TLAPS

LEMMA Constants ==
  /\ Cap \in Nat /\ ReplayMax \in Nat \ {0} /\ LastDay \in Nat \ {0} /\ MaxRuns \in Nat
  /\ MaxTroubles \in Nat
  /\ 1 \in Days
  /\ SomeTicket \in Tickets
  /\ Nothing \in Asked
<1>1. SomeTicket \in Tickets
  BY TicketsAssumption DEF SomeTicket
<1>2. 1 \in Days
  BY CapsAssumption DEF Days
<1>3. Nothing \in Asked
  BY <1>1, <1>2 DEF Nothing, Asked, Kinds
<1>4. QED
  BY <1>1, <1>2, <1>3, CapsAssumption, BoundsAssumption

(* One more at a point, whether or not it is in the domain. *)
LEMMA Incremented ==
  ASSUME NEW S, NEW f \in [S -> Nat], NEW x
  PROVE  [f EXCEPT ![x] = @ + 1] \in [S -> Nat]
<1>1. CASE x \in S
  <2>1. f[x] + 1 \in Nat
    BY <1>1
  <2>2. QED
    BY <1>1, <2>1
<1>2. CASE x \notin S
  <2>1. [f EXCEPT ![x] = @ + 1] = f
    BY <1>2
  <2>2. QED
    BY <2>1
<1>3. QED
  BY <1>1, <1>2

(* Another ticket, another day: still a request. *)
LEMMA AskedUpdate ==
  ASSUME NEW a \in Asked, NEW t \in Tickets, NEW d \in Days
  PROVE  /\ [a EXCEPT !.day = d] \in Asked
         /\ [a EXCEPT !.ticket = t, !.day = d] \in Asked
<1>1. [a EXCEPT !.day = d] \in Asked
  BY DEF Asked
<1>2. [a EXCEPT !.ticket = t, !.day = d] \in Asked
  BY DEF Asked
<1>3. QED
  BY <1>1, <1>2

(* What a request's own step leaves in type: ending it, moving it on,      *)
(* spending a fault.                                                       *)
RequestTypeOK ==
  /\ pc \in [Requests -> PCs]
  /\ asked \in [Requests -> Asked]
  /\ run \in [Requests -> {0} \cup RunIds]
  /\ left \in [Requests -> 0 .. ReplayMax]
  /\ carried \in [Requests -> Nat]

LEMMA EndType ==
  ASSUME TypeOK, NEW r \in Requests, End(r)
  PROVE  RequestTypeOK'
BY Constants DEF End, Goto, TypeOK, PCs, RequestTypeOK

LEMMA GotoType ==
  ASSUME TypeOK, NEW r \in Requests, NEW next \in PCs, Goto(r, next)
  PROVE  pc' \in [Requests -> PCs]
BY DEF Goto, TypeOK

LEMMA FaultType ==
  ASSUME TypeOK, Fault
  PROVE  faults' \in Nat /\ resets' \in Nat /\ faults' + resets' <= MaxTroubles
BY Constants DEF Fault, TypeOK

LEMMA AskType ==
  ASSUME TypeOK, NEW r \in Requests, NEW kind \in Kinds, NEW t \in Tickets,
         NEW p \in Providers \cup {NoProvider}, NEW next \in PCs, NEW n \in 1 .. ReplayMax,
         Ask(r, kind, t, p, next, n)
  PROVE  TypeOK'
<1>1. [kind |-> kind, ticket |-> t, provider |-> p, day |-> today] \in Asked
  BY DEF Asked, TypeOK
<1>2. asked' \in [Requests -> Asked]
  BY <1>1 DEF Ask, TypeOK
<1>3. left' \in [Requests -> 0 .. ReplayMax]
  BY Constants DEF Ask, TypeOK
<1>4. pc' \in [Requests -> PCs] /\ disturbed' \in BOOLEAN
  BY DEF Ask, Goto, TypeOK
<1>5. QED
  BY <1>2, <1>3, <1>4 DEF Ask, TypeOK, counters, records, history, bounds

LEMMA ArriveType ==
  ASSUME TypeOK, NEW r \in Requests, Arrive(r)
  PROVE  TypeOK'
<1>1. 1 \in 1 .. ReplayMax
  BY Constants
<1>2. PICK t \in Tickets :
        \/ run_ticket(r, t) \/ escalate_ticket(r, t) \/ runOne(r, t)
        \/ \E p \in Providers : run_provider(r, t, p)
        \/ \E n \in 1 .. ReplayMax : replay(r, t, n)
  BY DEF Arrive
<1>3. {"run", "escalate"} = Kinds /\ {"invoke", "runSlot", "door"} \subseteq PCs
  BY DEF Kinds, PCs
<1>4. QED
  BY <1>1, <1>2, <1>3, AskType
     DEF run_ticket, escalate_ticket, runOne, run_provider, replay

-----------------------------------------------------------------------------
(* A request that has begun a run holds its number until it is over.       *)

Begun(r) == pc[r] \in {"putRun", "lastRun", "report"}

Numbered == \A r \in Requests : Begun(r) => run[r] # 0

LEMMA SlotType ==
  ASSUME TypeOK, NEW r \in Requests, takeRunSlot(r)
  PROVE  TypeOK'
<1> DEFINE d == asked[r].day
           p == asked[r].provider
<1>1. d \in Days /\ runs[d] \in 0 .. Cap
  BY DEF TypeOK, Asked
<1>2. CASE runs[d] < Cap
  <2>1. Begin(r) /\ runs' = [runs EXCEPT ![d] = @ + 1]
    BY <1>2 DEF takeRunSlot, TakeRunSlot
  <2>2. runs' \in [Days -> 0 .. Cap]
    BY <1>1, <1>2, <2>1, Constants DEF TypeOK
  <2>3. begun' \in 0 .. MaxRuns /\ begun' \in RunIds
    BY <2>1, Constants DEF Begin, TypeOK, RunIds
  <2>4. run' \in [Requests -> {0} \cup RunIds]
    BY <2>1, <2>3 DEF Begin, TypeOK
  <2>5. charged' \in [Days -> SUBSET RunIds] /\ carried' \in [Requests -> Nat]
    BY <2>1, <2>3, <1>1 DEF Begin, TypeOK
  <2>6. called' \in [Days -> [Providers -> Nat]]
    <3>1. [called[d] EXCEPT ![p] = @ + 1] \in [Providers -> Nat]
      <4>1. called[d] \in [Providers -> Nat]
        BY <1>1 DEF TypeOK
      <4>2. QED
        BY <4>1, Incremented
    <3>2. called' = called \/ called' = [called EXCEPT ![d] = [called[d] EXCEPT ![p] = @ + 1]]
      BY <2>1 DEF Begin
    <3>3. QED
      BY <3>1, <3>2, <1>1 DEF TypeOK
  <2>7. pc' \in [Requests -> PCs] /\ asked' = asked /\ left' = left
    BY <2>1 DEF Begin, Goto, TypeOK, PCs
  <2>8. QED
    BY <2>2, <2>3, <2>4, <2>5, <2>6, <2>7
       DEF takeRunSlot, TakeRunSlot, TypeOK, records, bounds
<1>3. CASE ~ (runs[d] < Cap)
  BY <1>3, EndType DEF takeRunSlot, TakeRunSlot, RequestTypeOK, TypeOK, records, history, bounds
<1>4. QED
  BY <1>2, <1>3

LEMMA ProviderSlotType ==
  ASSUME TypeOK, NEW d \in Days, NEW p, spent' = [spent EXCEPT ![d][p] = @ + 1]
  PROVE  spent' \in [Days -> [Providers -> Nat]]
<1>1. [spent[d] EXCEPT ![p] = @ + 1] \in [Providers -> Nat]
  <2>1. spent[d] \in [Providers -> Nat]
    BY DEF TypeOK
  <2>2. QED
    BY <2>1, Incremented
<1>2. QED
  BY <1>1 DEF TypeOK

LEMMA ReportType ==
  ASSUME TypeOK, Numbered, NEW r \in Requests, appendEvent(r)
  PROVE  TypeOK'
<1>1. timeline' \in SUBSET RunIds
  BY DEF appendEvent, Report, Numbered, Begun, TypeOK
<1>2. RequestTypeOK'
  <2>1. CASE left[r] > 1 /\ begun < MaxRuns
    <3>1. PICK t \in Tickets : asked' = [asked EXCEPT ![r].ticket = t, ![r].day = today]
      BY <2>1 DEF appendEvent, Report, Finish
    <3>2. [asked[r] EXCEPT !.ticket = t, !.day = today] \in Asked
      BY AskedUpdate DEF TypeOK
    <3>3. asked' \in [Requests -> Asked]
      BY <3>1, <3>2 DEF TypeOK
    <3>4. left[r] - 1 \in 0 .. ReplayMax
      BY <2>1, Constants DEF TypeOK
    <3>5. QED
      BY <2>1, <3>3, <3>4 DEF appendEvent, Report, Finish, Goto, TypeOK, PCs, RequestTypeOK
  <2>2. CASE ~ (left[r] > 1 /\ begun < MaxRuns)
    BY <2>2, EndType DEF appendEvent, Report, Finish
  <2>3. QED
    BY <2>1, <2>2
<1>3. QED
  BY <1>1, <1>2
     DEF appendEvent, Report, RequestTypeOK, TypeOK, counters, history, bounds

LEMMA TypeStep == TypeOK /\ Numbered /\ [Next]_vars => TypeOK'
<1> SUFFICES ASSUME TypeOK, Numbered, [Next]_vars PROVE TypeOK'
  OBVIOUS
<1>1. ASSUME NEW r \in Requests, ReadDoor(r) PROVE TypeOK'
  <2>1. RequestTypeOK'
    <3>1. CASE Goto(r, "invoke") /\ asked' = [asked EXCEPT ![r].day = today]
               /\ UNCHANGED <<run, left, carried>>
      <4>1. [asked[r] EXCEPT !.day = today] \in Asked
        BY Constants, AskedUpdate DEF TypeOK
      <4>2. QED
        BY <3>1, <4>1 DEF Goto, TypeOK, PCs, RequestTypeOK
    <3>2. QED
      BY <1>1, <3>1, EndType DEF ReadDoor
  <2>2. QED
    BY <1>1, <2>1 DEF ReadDoor, RequestTypeOK, TypeOK, counters, records, history, bounds
<1>2. ASSUME NEW r \in Requests, Invoke(r) PROVE TypeOK'
  <2>1. SyncedSlot(r) \in PCs
    BY DEF SyncedSlot, PCs
  <2>2. RequestTypeOK'
    BY <1>2, <2>1, EndType, GotoType DEF Invoke, RequestTypeOK, TypeOK
  <2>3. QED
    BY <1>2, <2>2 DEF Invoke, RequestTypeOK, TypeOK, counters, records, history, bounds
<1>3. ASSUME NEW r \in Requests, takeProviderSlot(r) PROVE TypeOK'
  <2>1. asked[r].day \in Days
    BY DEF TypeOK, Asked
  <2>2. RequestTypeOK'
    BY <1>3, EndType DEF takeProviderSlot, Goto, PCs, RequestTypeOK, TypeOK
  <2>3. spent' \in [Days -> [Providers -> Nat]]
    <3>1. spent' = spent \/ spent' = [spent EXCEPT ![asked[r].day][asked[r].provider] = @ + 1]
      BY <1>3 DEF takeProviderSlot
    <3>2. QED
      BY <2>1, <3>1, ProviderSlotType DEF TypeOK
  <2>4. QED
    BY <1>3, <2>2, <2>3 DEF takeProviderSlot, RequestTypeOK, TypeOK, records, history, bounds
<1>4. ASSUME NEW r \in Requests, ProviderSlotUnanswered(r) PROVE TypeOK'
  <2>1. asked[r].day \in Days
    BY DEF TypeOK, Asked
  <2>2. spent' \in [Days -> [Providers -> Nat]]
    BY <1>4, <2>1, ProviderSlotType DEF ProviderSlotUnanswered
  <2>3. QED
    BY <1>4, <2>2, FaultType
       DEF ProviderSlotUnanswered, TypeOK, records, request, history
<1>5. ASSUME NEW r \in Requests, takeRunSlot(r) PROVE TypeOK'
  BY <1>5, SlotType
<1>6. ASSUME NEW r \in Requests, RunSlotUnanswered(r) PROVE TypeOK'
  <2>1. runs' \in [Days -> 0 .. Cap]
    BY <1>6, Constants DEF RunSlotUnanswered, TypeOK, Asked
  <2>2. QED
    BY <1>6, <2>1, FaultType DEF RunSlotUnanswered, TypeOK, records, request, history
<1>7. ASSUME NEW r \in Requests, putRun(r) PROVE TypeOK'
  <2>1. [run |-> run[r], ticket |-> asked[r].ticket, kind |-> asked[r].kind] \in
          [run : RunIds, ticket : Tickets, kind : Kinds]
    BY <1>7 DEF putRun, PutRun, Numbered, Begun, TypeOK, Asked
  <2>2. table' \in SUBSET [run : RunIds, ticket : Tickets, kind : Kinds]
    BY <1>7, <2>1 DEF putRun, PutRun, TypeOK
  <2>3. pc' \in [Requests -> PCs]
    BY <1>7, GotoType DEF putRun, PutRun, PCs
  <2>4. QED
    BY <1>7, <2>2, <2>3 DEF putRun, PutRun, TypeOK, counters, history, bounds
<1>8. ASSUME NEW r \in Requests, updateTicketLastRun(r) PROVE TypeOK'
  <2>1. RequestTypeOK'
    BY <1>8, EndType DEF updateTicketLastRun, Goto, PCs, RequestTypeOK, TypeOK
  <2>2. lastRun' \in [Tickets -> {0} \cup RunIds]
    BY <1>8 DEF updateTicketLastRun, TypeOK
  <2>3. QED
    BY <1>8, <2>1, <2>2
       DEF updateTicketLastRun, RequestTypeOK, TypeOK, counters, history, bounds
<1>9. ASSUME NEW r \in Requests, appendEvent(r) PROVE TypeOK'
  BY <1>9, ReportType
<1>10. ASSUME NEW r \in Requests, Throw(r) PROVE TypeOK'
  BY <1>10, EndType, FaultType
     DEF Throw, RequestTypeOK, TypeOK, counters, records, history
<1>11. ASSUME NEW r \in Requests, Arrive(r) PROVE TypeOK'
  BY <1>11, ArriveType
<1>12. ASSUME StartReset PROVE TypeOK'
  BY <1>12, Constants
     DEF StartReset, TypeOK, counters, records, resetOnly, request
<1>13. ASSUME DeleteRuns \/ DeleteEvents PROVE TypeOK'
  BY <1>13 DEF DeleteRuns, DeleteEvents, TypeOK, counters, resetOnly, request, bounds
<1>14. ASSUME DeleteCounters PROVE TypeOK'
  BY <1>14, Constants DEF DeleteCounters, TypeOK, records, resetOnly, request, bounds
<1>15. ASSUME DeleteTickets \/ Seed PROVE TypeOK'
  BY <1>15 DEF DeleteTickets, Seed, TypeOK, counters, resetOnly, request, bounds
<1>16. ASSUME ResetFails PROVE TypeOK'
  BY <1>16 DEF ResetFails, TypeOK, counters, records, resetOnly, request, bounds
<1>17. ASSUME Midnight PROVE TypeOK'
  <2>1. today' \in Days
    BY <1>17, Constants DEF Midnight, TypeOK, Days
  <2>2. QED
    BY <1>17, <2>1 DEF Midnight, TypeOK, counters, records, history, bounds
<1>18. CASE UNCHANGED vars
  BY <1>18 DEF vars, TypeOK, counters, records, request, history, bounds
<1>19. QED
  BY <1>1, <1>2, <1>3, <1>4, <1>5, <1>6, <1>7, <1>8, <1>9, <1>10, <1>11, <1>12, <1>13,
     <1>14, <1>15, <1>16, <1>17, <1>18 DEF Next

LEMMA TypeInit == Init => TypeOK /\ Numbered
<1> SUFFICES ASSUME Init PROVE TypeOK /\ Numbered
  OBVIOUS
<1>a. /\ runs \in [Days -> 0 .. Cap] /\ spent \in [Days -> [Providers -> Nat]]
      /\ charged \in [Days -> SUBSET RunIds] /\ called \in [Days -> [Providers -> Nat]]
  BY Constants DEF Init
<1>b. RequestTypeOK
  BY Constants DEF Init, RequestTypeOK, PCs
<1>c. begun \in 0 .. MaxRuns /\ faults \in Nat /\ resets \in Nat /\ faults + resets <= MaxTroubles
  BY Constants DEF Init
<1>1. TypeOK
  BY <1>a, <1>b, <1>c, Constants DEF Init, TypeOK, RequestTypeOK
<1>2. Numbered
  BY DEF Init, Numbered, Begun
<1>3. QED
  BY <1>1, <1>2

LEMMA NumberedStep == TypeOK /\ Numbered /\ [Next]_vars => Numbered'
<1> SUFFICES ASSUME TypeOK, Numbered, [Next]_vars, NEW x \in Requests, Begun(x)'
             PROVE  run'[x] # 0
  BY DEF Numbered
<1> USE DEF Begun, Goto, TypeOK, PCs
<1>a. Begun(x) => run[x] # 0
  BY DEF Numbered
<1>1. ASSUME NEW r \in Requests, End(r) PROVE run'[x] # 0
  BY <1>1, <1>a DEF End
<1>2. ASSUME NEW r \in Requests, takeRunSlot(r) PROVE run'[x] # 0
  <2>1. CASE Begin(r)
    BY <2>1, <1>a DEF Begin
  <2>2. QED
    BY <1>2, <2>1, <1>1 DEF takeRunSlot, TakeRunSlot
<1>3. ASSUME NEW r \in Requests, appendEvent(r) PROVE run'[x] # 0
  BY <1>3, <1>1, <1>a DEF appendEvent, Report, Finish
<1>4. ASSUME NEW r \in Requests, putRun(r) PROVE run'[x] # 0
  BY <1>4, <1>a DEF putRun, PutRun
<1>5. ASSUME NEW r \in Requests, updateTicketLastRun(r) PROVE run'[x] # 0
  BY <1>5, <1>1, <1>a DEF updateTicketLastRun
<1>6. ASSUME NEW r \in Requests, ReadDoor(r) \/ Invoke(r) \/ takeProviderSlot(r) PROVE run'[x] # 0
  BY <1>6, <1>1, <1>a DEF ReadDoor, Invoke, SyncedSlot, takeProviderSlot
<1>7. ASSUME NEW r \in Requests, ProviderSlotUnanswered(r) \/ RunSlotUnanswered(r)
      PROVE  run'[x] # 0
  BY <1>7, <1>a DEF ProviderSlotUnanswered, RunSlotUnanswered, request
<1>8. ASSUME NEW r \in Requests, Throw(r) PROVE run'[x] # 0
  BY <1>8, <1>1 DEF Throw
<1>9. ASSUME NEW r \in Requests, Arrive(r) PROVE run'[x] # 0
  BY <1>9, <1>a
     DEF Arrive, Ask, run_ticket, escalate_ticket, runOne, run_provider, replay
<1>10. ASSUME \/ StartReset \/ DeleteRuns \/ DeleteEvents \/ DeleteCounters
              \/ DeleteTickets \/ Seed \/ ResetFails \/ Midnight
       PROVE  run'[x] # 0
  BY <1>10, <1>a
     DEF StartReset, DeleteRuns, DeleteEvents, DeleteCounters, DeleteTickets, Seed, ResetFails,
         Midnight, resetOnly, request
<1>11. CASE UNCHANGED vars
  BY <1>11, <1>a DEF vars, request
<1>12. QED
  BY <1>2, <1>3, <1>4, <1>5, <1>6, <1>7, <1>8, <1>9, <1>10, <1>11 DEF Next

\* The tables, the counters and the requests keep their types whatever is in
\* flight, fails or is reset.
THEOREM TypeCorrect == Spec => []TypeOK
<1>1. TypeOK /\ Numbered /\ [Next]_vars => TypeOK' /\ Numbered'
  BY TypeStep, NumberedStep
<1>2. QED
  BY TypeInit, <1>1, PTL DEF Spec

-----------------------------------------------------------------------------
(* The cap.                                                                *)

\* The runs charged to a day are counted by its item, and by nothing else as
\* long as no answer is lost.
DayCounted(d) ==
  /\ charged[d] \subseteq 1 .. begun
  /\ Cardinality(charged[d]) <= runs[d]
  /\ faults = 0 => runs[d] = Cardinality(charged[d])

SlotsCounted == \A d \in Days : DayCounted(d)

LEMMA ChargedFinite ==
  ASSUME TypeOK, NEW d \in Days
  PROVE  IsFiniteSet(charged[d]) /\ Cardinality(charged[d]) \in Nat
<1>1. IsFiniteSet(RunIds)
  <2>1. 1 \in Int /\ MaxRuns \in Int
    BY Constants
  <2>2. QED
    BY <2>1, FS_Interval DEF RunIds
<1>2. charged[d] \in SUBSET RunIds
  BY DEF TypeOK
<1>3. QED
  BY <1>1, <1>2, FS_Subset, FS_CardinalityType

LEMMA CapStep == TypeOK /\ SlotsCounted /\ [Next]_vars => SlotsCounted'
<1> SUFFICES ASSUME TypeOK, SlotsCounted, [Next]_vars, NEW d \in Days
             PROVE  DayCounted(d)'
  BY DEF SlotsCounted
<1> USE DEF DayCounted
<1>a. /\ DayCounted(d) /\ runs[d] \in 0 .. Cap /\ begun \in Nat /\ faults \in Nat
      /\ IsFiniteSet(charged[d]) /\ Cardinality(charged[d]) \in Nat
  BY ChargedFinite, Constants DEF SlotsCounted, TypeOK
<1>1. ASSUME UNCHANGED <<runs, charged, begun>>, faults' = 0 => faults = 0 PROVE DayCounted(d)'
  BY <1>1, <1>a
<1>2. ASSUME NEW r \in Requests, takeRunSlot(r) PROVE DayCounted(d)'
  <2>1. faults' = faults
    BY <1>2 DEF takeRunSlot, TakeRunSlot, bounds
  <2>2. CASE UNCHANGED <<runs, charged, begun>>
    BY <2>1, <2>2, <1>1
  <2>3. CASE runs' = [runs EXCEPT ![asked[r].day] = @ + 1] /\ Begin(r)
    <3>1. charged' = [charged EXCEPT ![asked[r].day] = @ \cup {begun + 1}] /\ begun' = begun + 1
      BY <2>3 DEF Begin
    <3>2. CASE d = asked[r].day
      <4>1. runs'[d] = runs[d] + 1 /\ charged'[d] = charged[d] \cup {begun + 1}
        BY <2>3, <3>1, <3>2 DEF TypeOK
      <4>2. begun + 1 \notin charged[d]
        BY <1>a
      <4>3. Cardinality(charged'[d]) = Cardinality(charged[d]) + 1
        BY ZenonT(40), <4>1, <4>2, <1>a, FS_AddElement
      <4>4. charged'[d] \subseteq 1 .. begun'
        BY <3>1, <4>1, <1>a
      <4>5. QED
        BY <2>1, <4>1, <4>3, <4>4, <1>a, Constants
    <3>3. CASE d # asked[r].day
      <4>1. runs'[d] = runs[d] /\ charged'[d] = charged[d]
        BY <2>3, <3>1, <3>3 DEF TypeOK
      <4>2. QED
        BY <2>1, <3>1, <4>1, <1>a
    <3>4. QED
      BY <3>2, <3>3
  <2>4. QED
    BY <1>2, <2>2, <2>3 DEF takeRunSlot, TakeRunSlot, history
<1>3. ASSUME NEW r \in Requests, RunSlotUnanswered(r) PROVE DayCounted(d)'
  <2>1. runs'[d] \in {runs[d], runs[d] + 1} /\ UNCHANGED <<charged, begun>> /\ faults' = faults + 1
    BY <1>3 DEF RunSlotUnanswered, TypeOK, history, Fault
  <2>2. QED
    BY <2>1, <1>a, Constants
<1>4. ASSUME DeleteCounters PROVE DayCounted(d)'
  <2>1. runs'[d] = 0 /\ charged'[d] = {}
    BY <1>4 DEF DeleteCounters
  <2>2. QED
    BY <2>1, FS_EmptySet
<1>5. ASSUME NEW r \in Requests,
             \/ Arrive(r) \/ ReadDoor(r) \/ Invoke(r) \/ takeProviderSlot(r)
             \/ putRun(r) \/ updateTicketLastRun(r) \/ appendEvent(r)
      PROVE  UNCHANGED <<runs, charged, begun, faults>>
  BY <1>5
     DEF Arrive, Ask, run_ticket, escalate_ticket, runOne, run_provider, replay, ReadDoor, Invoke,
         takeProviderSlot, putRun, PutRun, updateTicketLastRun, appendEvent, Report, counters, history,
         bounds
<1>6. ASSUME NEW r \in Requests, ProviderSlotUnanswered(r) \/ Throw(r)
      PROVE  UNCHANGED <<runs, charged, begun>> /\ faults' = faults + 1
  BY <1>6 DEF ProviderSlotUnanswered, Throw, Fault, counters, history
<1>7. ASSUME \/ StartReset \/ DeleteRuns \/ DeleteEvents \/ DeleteTickets \/ Seed
             \/ ResetFails \/ Midnight
      PROVE  UNCHANGED <<runs, charged, begun, faults>>
  BY <1>7
     DEF StartReset, DeleteRuns, DeleteEvents, DeleteTickets, Seed, ResetFails, Midnight,
         counters, history, resetOnly, bounds
<1>8. CASE UNCHANGED vars
  BY <1>8, <1>1 DEF vars, counters, history, bounds
<1>9. QED
  BY <1>1, <1>2, <1>3, <1>4, <1>5, <1>6, <1>7, <1>8, <1>a DEF Next

LEMMA SlotsInit == Init => TypeOK /\ Numbered /\ SlotsCounted
<1> SUFFICES ASSUME Init PROVE SlotsCounted
  BY TypeInit
<1>1. QED
  BY FS_EmptySet DEF Init, SlotsCounted, DayCounted

\* However many requests, workers and retries share the day's counter, and
\* whatever is reset: no day begins more runs than the cap allows.
THEOREM TheCapHolds == Spec => []CapHolds
<1>1. TypeOK /\ Numbered /\ SlotsCounted /\ [Next]_vars => TypeOK' /\ Numbered' /\ SlotsCounted'
  BY TypeStep, NumberedStep, CapStep
<1>2. TypeOK /\ SlotsCounted => CapHolds
  BY Constants DEF TypeOK, SlotsCounted, DayCounted, CapHolds
<1>3. QED
  BY SlotsInit, <1>1, <1>2, PTL DEF Spec

-----------------------------------------------------------------------------
(* Midnight.  A request that has begun a run under an old day's count      *)
(* either still records that run, or has read today's date since.          *)

CarriedOnce ==
  \A r \in Requests :
    carried[r] <= 1 /\ (carried[r] = 1 => Begun(r) \/ asked[r].day = today)

LEMMA CarriedStep == TypeOK /\ CarriedOnce /\ [Next]_vars => CarriedOnce'
<1> SUFFICES ASSUME TypeOK, CarriedOnce, [Next]_vars, NEW x \in Requests
             PROVE  carried'[x] <= 1 /\ (carried'[x] = 1 => Begun(x)' \/ asked'[x].day = today')
  BY DEF CarriedOnce
<1> DEFINE Kept == carried'[x] <= 1 /\ (carried'[x] = 1 => Begun(x)' \/ asked'[x].day = today')
<1> SUFFICES Kept
  OBVIOUS
<1>b. carried[x] \in {0, 1}
  <2>1. carried[x] \in Nat /\ carried[x] <= 1
    BY DEF CarriedOnce, TypeOK
  <2>2. QED
    BY <2>1
<1> USE DEF Begun, Goto, TypeOK, PCs
<1>a. /\ carried[x] <= 1 /\ carried[x] \in Nat
      /\ carried[x] = 1 => Begun(x) \/ asked[x].day = today
  BY DEF CarriedOnce
<1>1. ASSUME NEW r \in Requests, End(r), today' = today PROVE Kept
  BY <1>1, <1>a DEF End
<1>2. ASSUME NEW r \in Requests, takeRunSlot(r) PROVE Kept
  <2>1. today' = today /\ pc[r] = "runSlot"
    BY <1>2 DEF takeRunSlot, TakeRunSlot
  <2>2. CASE Begin(r)
    <3>1. pc' = [pc EXCEPT ![r] = "putRun"] /\ asked' = asked
      BY <2>2 DEF Begin
    <3>2. CASE x = r
      <4>1. carried[r] = 1 => asked[r].day = today
        BY <2>1, <3>2, <1>a
      <4>2. carried'[r] = carried[r] \/ (asked[r].day # today /\ carried'[r] = carried[r] + 1)
        BY <2>2 DEF Begin
      <4>a. carried[r] \in {0, 1}
        BY <3>2, <1>b
      <4>3. carried'[r] <= 1
        <5>1. CASE asked[r].day = today
          BY <5>1, <4>2, <4>a
        <5>2. CASE asked[r].day # today
          <6>1. carried[r] = 0
            BY <5>2, <4>1, <4>a
          <6>2. QED
            BY <6>1, <4>2
        <5>3. QED
          BY <5>1, <5>2
      <4>4. QED
        BY <3>1, <3>2, <4>3
    <3>3. CASE x # r
      BY <2>1, <2>2, <3>1, <3>3, <1>a DEF Begin
    <3>4. QED
      BY <3>2, <3>3
  <2>3. QED
    BY <1>2, <2>1, <2>2, <1>1 DEF takeRunSlot, TakeRunSlot
<1>3. ASSUME NEW r \in Requests, appendEvent(r) PROVE Kept
  <2>1. today' = today /\ pc[r] = "report"
    BY <1>3 DEF appendEvent, Report
  <2>2. CASE left[r] > 1 /\ begun < MaxRuns
    <3>1. PICK t \in Tickets : asked' = [asked EXCEPT ![r].ticket = t, ![r].day = today]
      BY <1>3, <2>2 DEF appendEvent, Report, Finish
    <3>2. /\ asked'[r].day = today
          /\ \A y \in Requests \ {r} : asked'[y] = asked[y]
      <4>1. asked' = [asked EXCEPT ![r] = [asked[r] EXCEPT !.ticket = t, !.day = today]]
        BY <3>1
      <4>2. [asked[r] EXCEPT !.ticket = t, !.day = today].day = today
        BY DEF Asked
      <4>3. QED
        BY <4>1, <4>2
    <3>3. carried' = carried /\ pc' = [pc EXCEPT ![r] = "invoke"]
      BY <1>3, <2>2 DEF appendEvent, Report, Finish
    <3>4. QED
      BY <2>1, <3>2, <3>3, <1>a
  <2>3. QED
    BY <1>3, <2>1, <2>2, <1>1 DEF appendEvent, Report, Finish
<1>4. ASSUME NEW r \in Requests, putRun(r) PROVE Kept
  BY <1>4, <1>a DEF putRun, PutRun
<1>5. ASSUME NEW r \in Requests, updateTicketLastRun(r) PROVE Kept
  BY <1>5, <1>1, <1>a DEF updateTicketLastRun
<1>6. ASSUME NEW r \in Requests, ReadDoor(r) PROVE Kept
  <2>1. today' = today
    BY <1>6 DEF ReadDoor
  <2>2. CASE /\ Goto(r, "invoke") /\ asked' = [asked EXCEPT ![r].day = today]
             /\ UNCHANGED <<run, left, carried>>
    <3>1. asked'[r].day = today /\ \A y \in Requests \ {r} : asked'[y] = asked[y]
      BY <2>2 DEF Asked
    <3>2. QED
      BY <2>1, <2>2, <3>1, <1>a
  <2>3. QED
    BY <1>6, <2>1, <2>2, <1>1 DEF ReadDoor
<1>7. ASSUME NEW r \in Requests, Invoke(r) \/ takeProviderSlot(r) PROVE Kept
  BY <1>7, <1>1, <1>a DEF Invoke, SyncedSlot, takeProviderSlot
<1>8. ASSUME NEW r \in Requests, ProviderSlotUnanswered(r) \/ RunSlotUnanswered(r) PROVE Kept
  BY <1>8, <1>a DEF ProviderSlotUnanswered, RunSlotUnanswered, request
<1>9. ASSUME NEW r \in Requests, Throw(r) PROVE Kept
  BY <1>9, <1>1 DEF Throw
<1>10. ASSUME NEW r \in Requests, Arrive(r) PROVE Kept
  <2>1. PICK kind, t, p, next, n : Ask(r, kind, t, p, next, n)
    BY <1>10 DEF Arrive, run_ticket, escalate_ticket, runOne, run_provider, replay
  <2>2. QED
    BY <2>1, <1>a DEF Ask
<1>11. ASSUME \/ StartReset \/ DeleteRuns \/ DeleteEvents \/ DeleteCounters
              \/ DeleteTickets \/ Seed \/ ResetFails
       PROVE  Kept
  BY <1>11, <1>a
     DEF StartReset, DeleteRuns, DeleteEvents, DeleteCounters, DeleteTickets, Seed, ResetFails,
         resetOnly, request
<1>12. ASSUME Midnight PROVE Kept
  BY <1>12 DEF Midnight
<1>13. CASE UNCHANGED vars
  BY <1>13, <1>a DEF vars, request
<1>14. QED
  BY <1>2, <1>3, <1>4, <1>5, <1>6, <1>7, <1>8, <1>9, <1>10, <1>11, <1>12, <1>13 DEF Next

\* After a midnight a request begins at most one run on an old day's count,
\* however long its replay is.
THEOREM MidnightPasses == Spec => []CarriedOverMidnight
<1>1. Init => TypeOK /\ Numbered /\ CarriedOnce
  <2> SUFFICES ASSUME Init PROVE CarriedOnce
    BY TypeInit
  <2>1. QED
    BY DEF Init, CarriedOnce
<1>2. TypeOK /\ Numbered /\ CarriedOnce /\ [Next]_vars => TypeOK' /\ Numbered' /\ CarriedOnce'
  BY TypeStep, NumberedStep, CarriedStep
<1>3. CarriedOnce => CarriedOverMidnight
  BY DEF CarriedOnce, CarriedOverMidnight
<1>4. QED
  BY <1>1, <1>2, <1>3, PTL DEF Spec

-----------------------------------------------------------------------------
(* The ticket's last run.  Without a reset in the way, a request about to  *)
(* update it has its record on the table, and what is there stays.         *)

ResetAlone == ~ disturbed /\ reset # "idle" => \A r \in Requests : pc[r] = "idle"

RecordFirst ==
  ~ disturbed => \A r \in Requests : pc[r] = "lastRun" =>
    [run |-> run[r], ticket |-> asked[r].ticket, kind |-> "run"] \in table

Linked(t) ==
  lastRun[t] # 0 => \E x \in table : x.run = lastRun[t] /\ x.ticket = t /\ x.kind # "escalate"

\* Between the runs and the tickets the reset has only deleted one of the two.
LinksKept == ~ disturbed /\ reset \in {"idle", "runs", "seed"} => \A t \in Tickets : Linked(t)

LastRunInv == ResetAlone /\ RecordFirst /\ LinksKept

\* A request takes a step that is not about its record.
LEMMA OtherRequestStep ==
  ASSUME TypeOK, LastRunInv, NEW r \in Requests,
         pc[r] # "idle", pc'[r] # "lastRun",
         \A s \in Requests \ {r} : pc'[s] = pc[s] /\ run'[s] = run[s] /\ asked'[s] = asked[s],
         UNCHANGED <<table, lastRun, reset, disturbed>>
  PROVE  LastRunInv'
<1>1. ResetAlone'
  BY DEF LastRunInv, ResetAlone
<1>2. RecordFirst'
  BY DEF LastRunInv, RecordFirst
<1>3. LinksKept'
  BY DEF LastRunInv, LinksKept, Linked
<1>4. QED
  BY <1>1, <1>2, <1>3 DEF LastRunInv

LEMMA LastRunStep == TypeOK /\ LastRunInv /\ [Next]_vars => LastRunInv'
<1> SUFFICES ASSUME TypeOK, LastRunInv, [Next]_vars PROVE LastRunInv'
  OBVIOUS
<1>a. ASSUME NEW r \in Requests, pc[r] # "idle", End(r), UNCHANGED <<table, lastRun, reset, disturbed>>
      PROVE  LastRunInv'
  <2>1. /\ pc'[r] # "lastRun"
        /\ \A s \in Requests \ {r} : pc'[s] = pc[s] /\ run'[s] = run[s] /\ asked'[s] = asked[s]
    BY <1>a DEF End, Goto, TypeOK
  <2>2. QED
    BY <1>a, <2>1, OtherRequestStep
<1>1. ASSUME NEW r \in Requests, Arrive(r) PROVE LastRunInv'
  <2>1. PICK kind, t, p, next, n : next \in {"invoke", "runSlot", "door"} /\ Ask(r, kind, t, p, next, n)
    BY <1>1 DEF Arrive, run_ticket, escalate_ticket, runOne, run_provider, replay
  <2>2. /\ pc'[r] # "lastRun" /\ disturbed' = (disturbed \/ reset # "idle") /\ run' = run
        /\ \A s \in Requests \ {r} : pc'[s] = pc[s] /\ asked'[s] = asked[s]
        /\ UNCHANGED <<table, lastRun, reset>>
    BY <2>1 DEF Ask, Goto, TypeOK, records
  <2>3. ResetAlone'
    BY <2>2 DEF ResetAlone
  <2>4. RecordFirst'
    BY <2>2 DEF LastRunInv, RecordFirst
  <2>5. LinksKept'
    BY <2>2 DEF LastRunInv, LinksKept, Linked
  <2>6. QED
    BY <2>3, <2>4, <2>5 DEF LastRunInv
<1>2. ASSUME NEW r \in Requests, ReadDoor(r) PROVE LastRunInv'
  <2>1. pc[r] # "idle" /\ UNCHANGED <<table, lastRun, reset, disturbed>>
    BY <1>2 DEF ReadDoor, records
  <2>2. CASE End(r)
    BY <2>1, <2>2, <1>a
  <2>3. CASE Goto(r, "invoke") /\ asked' = [asked EXCEPT ![r].day = today] /\ UNCHANGED run
    <3>1. /\ pc'[r] # "lastRun"
          /\ \A s \in Requests \ {r} : pc'[s] = pc[s] /\ run'[s] = run[s] /\ asked'[s] = asked[s]
      BY <2>3 DEF Goto, TypeOK
    <3>2. QED
      BY <2>1, <3>1, OtherRequestStep
  <2>4. QED
    BY <1>2, <2>2, <2>3 DEF ReadDoor
<1>3. ASSUME NEW r \in Requests, Invoke(r) \/ takeProviderSlot(r) PROVE LastRunInv'
  <2>1. pc[r] # "idle" /\ UNCHANGED <<table, lastRun, reset, disturbed>>
    BY <1>3 DEF Invoke, takeProviderSlot, records
  <2>2. CASE End(r)
    BY <2>1, <2>2, <1>a
  <2>3. CASE \E next \in {"runSlot", "providerSlot"} : Goto(r, next) /\ UNCHANGED <<asked, run>>
    <3>1. /\ pc'[r] # "lastRun"
          /\ \A s \in Requests \ {r} : pc'[s] = pc[s] /\ run'[s] = run[s] /\ asked'[s] = asked[s]
      BY <2>3 DEF Goto, TypeOK
    <3>2. QED
      BY <2>1, <3>1, OtherRequestStep
  <2>4. QED
    BY <1>3, <2>2, <2>3 DEF Invoke, SyncedSlot, takeProviderSlot
<1>4. ASSUME NEW r \in Requests, ProviderSlotUnanswered(r) \/ RunSlotUnanswered(r) PROVE LastRunInv'
  BY <1>4
     DEF ProviderSlotUnanswered, RunSlotUnanswered, request, records, LastRunInv, ResetAlone, RecordFirst,
         LinksKept, Linked
<1>5. ASSUME NEW r \in Requests, takeRunSlot(r) PROVE LastRunInv'
  <2>1. pc[r] # "idle" /\ UNCHANGED <<table, lastRun, reset, disturbed>>
    BY <1>5 DEF takeRunSlot, TakeRunSlot, records
  <2>2. CASE End(r)
    BY <2>1, <2>2, <1>a
  <2>3. CASE Begin(r)
    <3>1. /\ pc'[r] # "lastRun"
          /\ \A s \in Requests \ {r} : pc'[s] = pc[s] /\ run'[s] = run[s] /\ asked'[s] = asked[s]
      BY <2>3 DEF Begin, Goto, TypeOK
    <3>2. QED
      BY <2>1, <3>1, OtherRequestStep
  <2>4. QED
    BY <1>5, <2>2, <2>3 DEF takeRunSlot, TakeRunSlot
<1>6. ASSUME NEW r \in Requests, putRun(r) PROVE LastRunInv'
  <2> DEFINE record == [run |-> run[r], ticket |-> asked[r].ticket, kind |-> asked[r].kind]
  <2>1. /\ pc[r] = "putRun" /\ table' = table \cup {record}
        /\ pc' = [pc EXCEPT ![r] = IF asked[r].kind = "escalate" THEN "report" ELSE "lastRun"]
        /\ UNCHANGED <<lastRun, reset, asked, run, disturbed>>
    BY <1>6 DEF putRun, PutRun, Goto
  <2>2. asked[r].kind # "escalate" => record.kind = "run"
    BY DEF TypeOK, Asked, Kinds
  <2>3. ResetAlone'
    BY <2>1 DEF LastRunInv, ResetAlone, TypeOK
  <2>4. RecordFirst'
    <3> SUFFICES ASSUME ~ disturbed, NEW s \in Requests, pc'[s] = "lastRun"
                 PROVE  [run |-> run[s], ticket |-> asked[s].ticket, kind |-> "run"] \in table'
      BY <2>1 DEF RecordFirst
    <3>1. CASE s = r
      BY <2>1, <2>2, <3>1 DEF TypeOK
    <3>2. CASE s # r
      BY <2>1, <3>2 DEF LastRunInv, RecordFirst, TypeOK
    <3>3. QED
      BY <3>1, <3>2
  <2>5. LinksKept'
    BY <2>1 DEF LastRunInv, LinksKept, Linked
  <2>6. QED
    BY <2>3, <2>4, <2>5 DEF LastRunInv
<1>7. ASSUME NEW r \in Requests, updateTicketLastRun(r) PROVE LastRunInv'
  <2>1. pc[r] = "lastRun" /\ UNCHANGED <<table, reset, disturbed>>
    BY <1>7 DEF updateTicketLastRun
  <2>2. CASE End(r) /\ UNCHANGED lastRun
    BY <2>1, <2>2, <1>a
  <2>3. CASE /\ lastRun' = [lastRun EXCEPT ![asked[r].ticket] = run[r]]
             /\ Goto(r, "report") /\ UNCHANGED <<asked, run>>
    <3>1. ResetAlone'
      BY <2>1, <2>3 DEF LastRunInv, ResetAlone
    <3>2. RecordFirst'
      BY <2>1, <2>3 DEF LastRunInv, RecordFirst, Goto, TypeOK
    <3>3. LinksKept'
      <4> SUFFICES ASSUME ~ disturbed, reset \in {"idle", "runs", "seed"}, NEW t \in Tickets
                   PROVE  Linked(t)'
        BY <2>1 DEF LinksKept
      <4> DEFINE record == [run |-> run[r], ticket |-> asked[r].ticket, kind |-> "run"]
      <4>1. record \in table
        BY <2>1 DEF LastRunInv, RecordFirst
      <4>2. CASE t = asked[r].ticket
        <5>1. lastRun'[t] = run[r]
          BY <2>3, <4>2 DEF TypeOK
        <5>2. record.run = lastRun'[t] /\ record.ticket = t /\ record.kind # "escalate"
          BY <4>2, <5>1
        <5>3. QED
          BY <2>1, <4>1, <5>2 DEF Linked
      <4>3. CASE t # asked[r].ticket
        <5>1. lastRun'[t] = lastRun[t]
          BY <2>3, <4>3 DEF TypeOK
        <5>2. QED
          BY <2>1, <5>1 DEF LastRunInv, LinksKept, Linked
      <4>4. QED
        BY <4>2, <4>3
    <3>4. QED
      BY <3>1, <3>2, <3>3 DEF LastRunInv
  <2>4. QED
    BY <1>7, <2>2, <2>3 DEF updateTicketLastRun
<1>8. ASSUME NEW r \in Requests, appendEvent(r) PROVE LastRunInv'
  <2>1. pc[r] # "idle" /\ UNCHANGED <<table, lastRun, reset, disturbed>>
    BY <1>8 DEF appendEvent, Report
  <2>2. CASE left[r] > 1 /\ begun < MaxRuns
    <3>1. PICK t \in Tickets : asked' = [asked EXCEPT ![r].ticket = t, ![r].day = today]
      BY <1>8, <2>2 DEF appendEvent, Report, Finish
    <3>2. pc' = [pc EXCEPT ![r] = "invoke"] /\ run' = [run EXCEPT ![r] = 0]
      BY <1>8, <2>2 DEF appendEvent, Report, Finish, Goto
    <3>3. /\ pc'[r] # "lastRun"
          /\ \A s \in Requests \ {r} : pc'[s] = pc[s] /\ run'[s] = run[s] /\ asked'[s] = asked[s]
      BY <3>1, <3>2 DEF TypeOK
    <3>4. QED
      BY <2>1, <3>3, OtherRequestStep
  <2>3. CASE ~ (left[r] > 1 /\ begun < MaxRuns)
    BY <1>8, <2>1, <2>3, <1>a DEF appendEvent, Report, Finish
  <2>4. QED
    BY <2>2, <2>3
<1>9. ASSUME NEW r \in Requests, Throw(r) PROVE LastRunInv'
  BY <1>9, <1>a DEF Throw, records
<1>10. CASE StartReset
  <2>1. /\ disturbed' = (disturbed \/ InFlight # {}) /\ reset = "idle" /\ reset' \in {"runs", "seed"}
        /\ UNCHANGED <<table, lastRun, pc, run, asked>>
    BY <1>10 DEF StartReset, records, resetOnly, request
  <2>2. QED
    BY <2>1 DEF LastRunInv, ResetAlone, RecordFirst, LinksKept, Linked, InFlight
<1>11. CASE DeleteRuns
  <2>1. /\ reset = "runs" /\ reset' = "events" /\ UNCHANGED <<pc, disturbed>>
    BY <1>11 DEF DeleteRuns, resetOnly, request
  <2>2. QED
    BY <2>1 DEF LastRunInv, ResetAlone, RecordFirst, LinksKept
<1>12. CASE DeleteEvents \/ DeleteCounters
  <2>1. /\ reset' \in {"counters", "tickets"} /\ reset # "idle"
        /\ UNCHANGED <<table, pc, run, asked, disturbed>>
    BY <1>12 DEF DeleteEvents, DeleteCounters, resetOnly, request, records
  <2>2. QED
    BY <2>1 DEF LastRunInv, ResetAlone, RecordFirst, LinksKept
<1>13. CASE DeleteTickets \/ Seed
  <2>1. /\ lastRun' = [t \in Tickets |-> 0] /\ reset # "idle" /\ reset' \in {"seed", "idle"}
        /\ UNCHANGED <<table, pc, run, asked, disturbed>>
    BY <1>13 DEF DeleteTickets, Seed, resetOnly, request
  <2>2. QED
    BY <2>1 DEF LastRunInv, ResetAlone, RecordFirst, LinksKept, Linked
<1>14. CASE ResetFails
  BY <1>14 DEF ResetFails, LastRunInv, ResetAlone, RecordFirst, LinksKept
<1>15. CASE Midnight
  BY <1>15 DEF Midnight, records, LastRunInv, ResetAlone, RecordFirst, LinksKept, Linked
<1>16. CASE UNCHANGED vars
  BY <1>16 DEF vars, records, request, LastRunInv, ResetAlone, RecordFirst, LinksKept, Linked
<1>17. QED
  BY <1>1, <1>2, <1>3, <1>4, <1>5, <1>6, <1>7, <1>8, <1>9, <1>10, <1>11, <1>12, <1>13, <1>14, <1>15,
     <1>16 DEF Next

LEMMA LastRunInit == Init => LastRunInv
<1> SUFFICES ASSUME Init PROVE LastRunInv
  OBVIOUS
<1>1. QED
  BY DEF Init, LastRunInv, ResetAlone, RecordFirst, LinksKept, Linked

\* The inbox never links to a run that is not there, is of another ticket, or is
\* an escalation (run.ts:217-221), however many runs of a ticket end in whatever
\* order, unless a reset met a run or broke off.
THEOREM LastRunsExist == Spec => []LastRunExists
<1>1. Init => TypeOK /\ Numbered /\ LastRunInv
  BY TypeInit, LastRunInit
<1>2. TypeOK /\ Numbered /\ LastRunInv /\ [Next]_vars => TypeOK' /\ Numbered' /\ LastRunInv'
  BY TypeStep, NumberedStep, LastRunStep
<1>3. LastRunInv => LastRunExists
  BY DEF LastRunInv, LinksKept, Linked, LastRunExists
<1>4. QED
  BY <1>1, <1>2, <1>3, PTL DEF Spec

-----------------------------------------------------------------------------
(* The doors' lines.  A request between its provider's slot and the day's  *)
(* has spent one of the line and is not called yet: those who stand there  *)
(* are counted with the calls.                                             *)

Waiting(d, p) ==
  {r \in Requests : pc[r] = "runSlot" /\ asked[r].provider = p /\ asked[r].day = d}

Line(d, p) ==
  /\ spent[d][p] <= ProviderCap
  /\ ~ disturbed =>
       /\ IsFiniteSet(Waiting(d, p))
       /\ called[d][p] + Cardinality(Waiting(d, p)) <= spent[d][p]

\* Nobody joins, and the line is spent no less.
LEMMA LineKept ==
  ASSUME TypeOK, TypeOK', NEW d \in Days, NEW p \in Providers, Line(d, p),
         Waiting(d, p)' \subseteq Waiting(d, p), called'[d][p] = called[d][p],
         spent'[d][p] \in {spent[d][p]} \cup spent[d][p] .. ProviderCap,
         ~ disturbed' => ~ disturbed
  PROVE  Line(d, p)'
<1>1. spent[d][p] \in Nat /\ spent'[d][p] \in Nat /\ called[d][p] \in Nat
  BY DEF TypeOK
<1>2. spent'[d][p] <= ProviderCap /\ spent[d][p] <= spent'[d][p]
  BY <1>1, CapsAssumption DEF Line
<1>3. ASSUME ~ disturbed'
      PROVE  /\ IsFiniteSet(Waiting(d, p)')
             /\ called'[d][p] + Cardinality(Waiting(d, p)') <= spent'[d][p]
  <2>1. IsFiniteSet(Waiting(d, p)) /\ called[d][p] + Cardinality(Waiting(d, p)) <= spent[d][p]
    BY <1>3 DEF Line
  <2>2. /\ IsFiniteSet(Waiting(d, p)') /\ Cardinality(Waiting(d, p)') <= Cardinality(Waiting(d, p))
    BY <2>1, FS_Subset
  <2>3. Cardinality(Waiting(d, p)) \in Nat /\ Cardinality(Waiting(d, p)') \in Nat
    BY <2>1, <2>2, FS_CardinalityType
  <2>4. QED
    BY <1>1, <1>2, <2>1, <2>2, <2>3
<1>4. QED
  BY <1>2, <1>3 DEF Line

\* A request moves, and joins no line.
LEMMA NoneJoins ==
  ASSUME TypeOK, NEW r \in Requests, NEW d \in Days, NEW p \in Providers,
         \A s \in Requests \ {r} : pc'[s] = pc[s] /\ asked'[s] = asked[s],
         pc'[r] # "runSlot" \/ asked'[r].provider = NoProvider
  PROVE  Waiting(d, p)' \subseteq Waiting(d, p)
BY NoProviderAssumption DEF Waiting

LEMMA LineStep ==
  ASSUME TypeOK, TypeOK', ResetAlone, [Next]_vars,
         NEW d \in Days, NEW p \in Providers, Line(d, p)
  PROVE  Line(d, p)'
<1>0. spent[d][p] \in Nat /\ called[d][p] \in Nat
  BY DEF TypeOK
<1>a. ASSUME NEW r \in Requests, UNCHANGED <<spent, called>>, ~ disturbed' => ~ disturbed,
             \A s \in Requests \ {r} : pc'[s] = pc[s] /\ asked'[s] = asked[s],
             pc'[r] # "runSlot" \/ asked'[r].provider = NoProvider
      PROVE  Line(d, p)'
  BY <1>a, NoneJoins, LineKept
<1>b. ASSUME NEW r \in Requests, End(r), UNCHANGED <<spent, called, disturbed>> PROVE Line(d, p)'
  <2>1. pc'[r] # "runSlot" /\ \A s \in Requests \ {r} : pc'[s] = pc[s] /\ asked'[s] = asked[s]
    BY <1>b DEF End, Goto, TypeOK
  <2>2. QED
    BY <1>a, <1>b, <2>1
<1>c. ASSUME UNCHANGED <<spent, called, pc, asked>>, ~ disturbed' => ~ disturbed PROVE Line(d, p)'
  <2>1. Waiting(d, p)' \subseteq Waiting(d, p)
    BY <1>c DEF Waiting
  <2>2. QED
    BY <1>c, <2>1, LineKept
<1>1. ASSUME NEW r \in Requests, Arrive(r) PROVE Line(d, p)'
  <2>1. PICK kind, t, q, next, n : Ask(r, kind, t, q, next, n) /\ (next # "runSlot" \/ q = NoProvider)
    BY <1>1 DEF Arrive, run_ticket, escalate_ticket, runOne, run_provider, replay
  <2>2. /\ pc'[r] = next /\ asked'[r].provider = q
        /\ \A s \in Requests \ {r} : pc'[s] = pc[s] /\ asked'[s] = asked[s]
        /\ UNCHANGED <<spent, called>> /\ disturbed' = (disturbed \/ reset # "idle")
    BY <2>1 DEF Ask, Goto, TypeOK, counters, history
  <2>3. QED
    BY <1>a, <2>1, <2>2
<1>2. ASSUME NEW r \in Requests, ReadDoor(r) PROVE Line(d, p)'
  <2>1. UNCHANGED <<spent, called, disturbed>>
    BY <1>2 DEF ReadDoor, counters, history
  <2>2. CASE Goto(r, "invoke") /\ asked' = [asked EXCEPT ![r].day = today]
    <3>1. pc'[r] # "runSlot" /\ \A s \in Requests \ {r} : pc'[s] = pc[s] /\ asked'[s] = asked[s]
      BY <2>2 DEF Goto, TypeOK
    <3>2. QED
      BY <1>a, <2>1, <3>1
  <2>3. QED
    BY <1>2, <1>b, <2>1, <2>2 DEF ReadDoor
<1>3. ASSUME NEW r \in Requests, Invoke(r) PROVE Line(d, p)'
  <2>1. UNCHANGED <<spent, called, disturbed>>
    BY <1>3 DEF Invoke, counters, history
  <2>2. CASE Goto(r, SyncedSlot(r)) /\ UNCHANGED asked
    <3>1. /\ pc'[r] # "runSlot" \/ asked'[r].provider = NoProvider
          /\ \A s \in Requests \ {r} : pc'[s] = pc[s] /\ asked'[s] = asked[s]
      BY <2>2 DEF Goto, SyncedSlot, TypeOK
    <3>2. QED
      BY <1>a, <2>1, <3>1
  <2>3. QED
    BY <1>3, <1>b, <2>1, <2>2 DEF Invoke
<1>4. ASSUME NEW r \in Requests, takeProviderSlot(r) PROVE Line(d, p)'
  <2> DEFINE e == asked[r].day
             q == asked[r].provider
  <2>1. UNCHANGED <<called, disturbed>> /\ pc[r] = "providerSlot" /\ e \in Days
    BY <1>4 DEF takeProviderSlot, history, TypeOK, Asked
  <2>2. CASE End(r) /\ UNCHANGED spent
    BY <1>b, <2>1, <2>2
  <2>3. CASE /\ spent[e][q] < ProviderCap
             /\ spent' = [spent EXCEPT ![e][q] = @ + 1]
             /\ Goto(r, "runSlot") /\ UNCHANGED asked
    <3>1. /\ pc'[r] = "runSlot" /\ asked'[r] = asked[r]
          /\ \A s \in Requests \ {r} : pc'[s] = pc[s] /\ asked'[s] = asked[s]
      BY <2>3 DEF Goto, TypeOK
    <3>2. CASE d = e /\ p = q
      <4>1. Waiting(d, p)' = Waiting(d, p) \cup {r} /\ r \notin Waiting(d, p)
        BY <2>1, <3>1, <3>2 DEF Waiting
      <4>2. spent'[d][p] = spent[d][p] + 1 /\ spent'[d][p] <= ProviderCap
        BY <1>0, <2>3, <3>2, CapsAssumption DEF TypeOK
      <4>3. ASSUME ~ disturbed'
            PROVE  /\ IsFiniteSet(Waiting(d, p)')
                   /\ called'[d][p] + Cardinality(Waiting(d, p)') <= spent'[d][p]
        <5>1. IsFiniteSet(Waiting(d, p)) /\ called[d][p] + Cardinality(Waiting(d, p)) <= spent[d][p]
          BY <2>1, <4>3 DEF Line
        <5>2. /\ IsFiniteSet(Waiting(d, p)')
              /\ Cardinality(Waiting(d, p)') = Cardinality(Waiting(d, p)) + 1
          BY <4>1, <5>1, FS_AddElement
        <5>3. Cardinality(Waiting(d, p)) \in Nat
          BY <5>1, FS_CardinalityType
        <5>4. QED
          BY <1>0, <2>1, <4>2, <5>1, <5>2, <5>3
      <4>4. QED
        BY <4>2, <4>3 DEF Line
    <3>3. CASE ~ (d = e /\ p = q)
      <4>1. Waiting(d, p)' \subseteq Waiting(d, p)
        BY <3>1, <3>3 DEF Waiting
      <4>2. spent'[d][p] = spent[d][p]
        BY <2>1, <2>3, <3>3 DEF TypeOK
      <4>3. QED
        BY <2>1, <4>1, <4>2, LineKept
    <3>4. QED
      BY <3>2, <3>3
  <2>4. QED
    BY <1>4, <2>2, <2>3 DEF takeProviderSlot
<1>5. ASSUME NEW r \in Requests, ProviderSlotUnanswered(r) PROVE Line(d, p)'
  <2> DEFINE e == asked[r].day
             q == asked[r].provider
  <2>1. /\ UNCHANGED <<called, disturbed, pc, asked>> /\ e \in Days
        /\ spent[e][q] < ProviderCap /\ spent' = [spent EXCEPT ![e][q] = @ + 1]
    BY <1>5 DEF ProviderSlotUnanswered, history, request, TypeOK, Asked
  <2>2. spent'[d][p] = spent[d][p] \/ (spent'[d][p] = spent[d][p] + 1 /\ spent[d][p] < ProviderCap)
    <3>1. CASE d = e /\ p = q
      BY <1>0, <2>1, <3>1 DEF TypeOK
    <3>2. CASE ~ (d = e /\ p = q)
      BY <2>1, <3>2 DEF TypeOK
    <3>3. QED
      BY <3>1, <3>2
  <2>3. spent'[d][p] \in {spent[d][p]} \cup spent[d][p] .. ProviderCap
    BY <1>0, <2>2, CapsAssumption
  <2>4. Waiting(d, p)' \subseteq Waiting(d, p)
    BY <2>1 DEF Waiting
  <2>5. QED
    BY <2>1, <2>3, <2>4, LineKept
<1>6. ASSUME NEW r \in Requests, takeRunSlot(r) PROVE Line(d, p)'
  <2> DEFINE e == asked[r].day
             q == asked[r].provider
  <2>1. UNCHANGED <<spent, disturbed>> /\ pc[r] = "runSlot" /\ e \in Days
    BY <1>6 DEF takeRunSlot, TakeRunSlot, TypeOK, Asked
  <2>2. CASE End(r) /\ UNCHANGED called
    BY <1>b, <2>1, <2>2
  <2>3. CASE Begin(r)
    <3>1. /\ pc'[r] = "putRun" /\ asked' = asked /\ \A s \in Requests \ {r} : pc'[s] = pc[s]
          /\ called' = IF q = NoProvider THEN called ELSE [called EXCEPT ![e][q] = @ + 1]
      BY <2>3 DEF Begin, Goto, TypeOK
    <3>2. CASE d = e /\ p = q
      <4>1. Waiting(d, p)' = Waiting(d, p) \ {r} /\ r \in Waiting(d, p)
        BY <2>1, <3>1, <3>2 DEF Waiting
      <4>2. called'[d][p] = called[d][p] + 1
        BY <2>1, <3>1, <3>2, NoProviderAssumption DEF TypeOK
      <4>3. ASSUME ~ disturbed'
            PROVE  /\ IsFiniteSet(Waiting(d, p)')
                   /\ called'[d][p] + Cardinality(Waiting(d, p)') <= spent'[d][p]
        <5>1. IsFiniteSet(Waiting(d, p)) /\ called[d][p] + Cardinality(Waiting(d, p)) <= spent[d][p]
          BY <2>1, <4>3 DEF Line
        <5>2. /\ IsFiniteSet(Waiting(d, p)')
              /\ Cardinality(Waiting(d, p)') = Cardinality(Waiting(d, p)) - 1
          BY <4>1, <5>1, FS_RemoveElement
        <5>3. Cardinality(Waiting(d, p)) \in Nat
          BY <5>1, FS_CardinalityType
        <5>4. QED
          BY <1>0, <2>1, <4>2, <5>1, <5>2, <5>3
      <4>4. QED
        BY <2>1, <4>3 DEF Line
    <3>3. CASE ~ (d = e /\ p = q)
      <4>1. Waiting(d, p)' \subseteq Waiting(d, p)
        BY <3>1 DEF Waiting
      <4>2. called'[d][p] = called[d][p]
        BY <2>1, <3>1, <3>3 DEF TypeOK
      <4>3. QED
        BY <2>1, <4>1, <4>2, LineKept
    <3>4. QED
      BY <3>2, <3>3
  <2>4. QED
    BY <1>6, <2>2, <2>3 DEF takeRunSlot, TakeRunSlot, history
<1>7. ASSUME NEW r \in Requests, RunSlotUnanswered(r) PROVE Line(d, p)'
  BY <1>7, <1>c DEF RunSlotUnanswered, request, history
<1>8. ASSUME NEW r \in Requests, putRun(r) PROVE Line(d, p)'
  <2>1. /\ pc'[r] # "runSlot" /\ \A s \in Requests \ {r} : pc'[s] = pc[s] /\ asked'[s] = asked[s]
        /\ UNCHANGED <<spent, called, disturbed>>
    BY <1>8 DEF putRun, PutRun, Goto, TypeOK, counters, history
  <2>2. QED
    BY <1>a, <2>1
<1>9. ASSUME NEW r \in Requests, updateTicketLastRun(r) PROVE Line(d, p)'
  <2>1. UNCHANGED <<spent, called, disturbed>>
    BY <1>9 DEF updateTicketLastRun, counters, history
  <2>2. CASE Goto(r, "report") /\ UNCHANGED asked
    <3>1. pc'[r] # "runSlot" /\ \A s \in Requests \ {r} : pc'[s] = pc[s] /\ asked'[s] = asked[s]
      BY <2>2 DEF Goto, TypeOK
    <3>2. QED
      BY <1>a, <2>1, <3>1
  <2>3. QED
    BY <1>9, <1>b, <2>1, <2>2 DEF updateTicketLastRun
<1>10. ASSUME NEW r \in Requests, appendEvent(r) PROVE Line(d, p)'
  <2>1. UNCHANGED <<spent, called, disturbed>>
    BY <1>10 DEF appendEvent, Report, counters, history
  <2>2. CASE left[r] > 1 /\ begun < MaxRuns
    <3>1. PICK t \in Tickets : asked' = [asked EXCEPT ![r].ticket = t, ![r].day = today]
      BY <1>10, <2>2 DEF appendEvent, Report, Finish
    <3>2. pc'[r] # "runSlot" /\ \A s \in Requests \ {r} : pc'[s] = pc[s] /\ asked'[s] = asked[s]
      BY <1>10, <2>2, <3>1 DEF appendEvent, Report, Finish, Goto, TypeOK
    <3>3. QED
      BY <1>a, <2>1, <3>2
  <2>3. QED
    BY <1>10, <1>b, <2>1, <2>2 DEF appendEvent, Report, Finish
<1>11. ASSUME NEW r \in Requests, Throw(r) PROVE Line(d, p)'
  BY <1>11, <1>b DEF Throw, counters, history
<1>12. CASE DeleteCounters
  <2>1. /\ reset # "idle" /\ UNCHANGED <<pc, disturbed>>
        /\ spent'[d][p] = 0 /\ called'[d][p] = 0
    BY <1>12 DEF DeleteCounters, resetOnly, request
  <2>2. ~ disturbed' => Waiting(d, p)' = {}
    BY <2>1 DEF ResetAlone, Waiting
  <2>3. QED
    BY <2>1, <2>2, FS_EmptySet, CapsAssumption DEF Line
<1>13. ASSUME StartReset \/ DeleteRuns \/ DeleteEvents \/ DeleteTickets \/ Seed \/ ResetFails \/ Midnight
       PROVE  Line(d, p)'
  <2>1. ~ disturbed' => ~ disturbed
    BY <1>13 DEF StartReset, DeleteRuns, DeleteEvents, DeleteTickets, Seed, ResetFails, Midnight
  <2>2. UNCHANGED <<spent, called, pc, asked>>
    BY <1>13
       DEF StartReset, DeleteRuns, DeleteEvents, DeleteTickets, Seed, ResetFails, Midnight, resetOnly,
           request, counters, history
  <2>3. QED
    BY <1>c, <2>1, <2>2
<1>14. CASE UNCHANGED vars
  BY <1>14, <1>c DEF vars, request, counters, history
<1>15. QED
  BY <1>1, <1>2, <1>3, <1>4, <1>5, <1>6, <1>7, <1>8, <1>9, <1>10, <1>11, <1>12, <1>13, <1>14 DEF Next

\* However many clicks race for a provider's door, and however often a slot is
\* counted twice for a lost answer, no line goes past its cap and nobody is called
\* who has not spent one of it (handler.ts:206-209), unless a reset met a run.
THEOREM DoorsHoldTheorem == Spec => []DoorsHold
<1> DEFINE Lines == \A d \in Days, p \in Providers : Line(d, p)
<1>1. Init => TypeOK /\ Numbered /\ LastRunInv /\ Lines
  <2> SUFFICES ASSUME Init PROVE Lines
    BY TypeInit, LastRunInit
  <2>1. ASSUME NEW d \in Days, NEW p \in Providers PROVE Line(d, p)
    <3>1. spent[d][p] = 0 /\ called[d][p] = 0 /\ Waiting(d, p) = {}
      BY DEF Init, Waiting
    <3>2. QED
      BY <3>1, FS_EmptySet, CapsAssumption DEF Line
  <2>2. QED
    BY <2>1
<1>2. TypeOK /\ Numbered /\ LastRunInv /\ Lines /\ [Next]_vars =>
        TypeOK' /\ Numbered' /\ LastRunInv' /\ Lines'
  <2> SUFFICES ASSUME TypeOK, Numbered, LastRunInv, Lines, [Next]_vars
               PROVE  TypeOK' /\ Numbered' /\ LastRunInv' /\ Lines'
    OBVIOUS
  <2>1. TypeOK' /\ Numbered' /\ LastRunInv'
    BY TypeStep, NumberedStep, LastRunStep
  <2>2. Lines'
    BY <2>1, LineStep DEF LastRunInv
  <2>3. QED
    BY <2>1, <2>2
<1>3. TypeOK /\ Lines => DoorsHold
  <2> SUFFICES ASSUME TypeOK, NEW d \in Days, NEW p \in Providers, Line(d, p)
               PROVE  spent[d][p] <= ProviderCap /\ (~ disturbed => called[d][p] <= spent[d][p])
    BY DEF DoorsHold
  <2>1. spent[d][p] \in Nat /\ called[d][p] \in Nat
    BY DEF TypeOK
  <2>2. ~ disturbed => Cardinality(Waiting(d, p)) \in Nat
    BY FS_CardinalityType DEF Line
  <2>3. QED
    BY <2>1, <2>2 DEF Line
<1>4. QED
  BY <1>1, <1>2, <1>3, PTL DEF Spec

-----------------------------------------------------------------------------
(* Every slot becomes a run.  While nothing failed and no reset met a run, *)
(* a run with a slot is on the timeline or in a request's hand, and so is  *)
(* one on the table; a reset finds nothing in flight and empties all.      *)

InHand(k, where) == \E r \in Requests : pc[r] \in where /\ run[r] = k
IsCharged(k) == \E d \in Days : k \in charged[d]
OnTable(k) == \E x \in table : x.run = k

Told(k) ==
  /\ IsCharged(k) <=> k \in timeline \/ InHand(k, {"putRun", "lastRun", "report"})
  /\ OnTable(k) <=> k \in timeline \/ InHand(k, {"lastRun", "report"})

Untroubled == faults = 0 /\ ~ disturbed

BooksInv ==
  Untroubled =>
    /\ reset # "seed" => inbox = Tickets
    /\ reset \in {"events", "counters"} => table = {}
    /\ reset = "counters" => timeline = {}
    /\ reset \notin {"events", "counters"} => \A k \in RunIds : Told(k)

\* A request moves on, and the books stay as they are.
LEMMA BooksKept ==
  ASSUME BooksInv, Untroubled' => Untroubled, UNCHANGED <<table, timeline, inbox, reset, charged>>,
         \A k \in RunIds, where \in {{"putRun", "lastRun", "report"}, {"lastRun", "report"}} :
           InHand(k, where)' <=> InHand(k, where)
  PROVE  BooksInv'
BY DEF BooksInv, Told, IsCharged, OnTable

\* It does so outside the three calls that record its run.
LEMMA HandKept ==
  ASSUME NEW r \in Requests, pc[r] \notin {"putRun", "lastRun", "report"},
         pc'[r] \notin {"putRun", "lastRun", "report"},
         \A s \in Requests \ {r} : pc'[s] = pc[s] /\ run'[s] = run[s]
  PROVE  \A k \in RunIds, where \in {{"putRun", "lastRun", "report"}, {"lastRun", "report"}} :
           InHand(k, where)' <=> InHand(k, where)
BY DEF InHand

LEMMA BooksStep == TypeOK /\ TypeOK' /\ ResetAlone /\ Numbered /\ BooksInv /\ [Next]_vars => BooksInv'
<1> SUFFICES ASSUME TypeOK, TypeOK', ResetAlone, Numbered, BooksInv, [Next]_vars PROVE BooksInv'
  OBVIOUS
<1>a. ASSUME NEW r \in Requests, End(r) \/ (\E next : Goto(r, next) /\ run' = run),
             pc[r] \notin {"putRun", "lastRun", "report"}, pc'[r] \notin {"putRun", "lastRun", "report"},
             UNCHANGED <<table, timeline, inbox, reset, charged, faults>>, ~ disturbed' => ~ disturbed
      PROVE  BooksInv'
  <2>1. \A s \in Requests \ {r} : pc'[s] = pc[s] /\ run'[s] = run[s]
    BY <1>a DEF End, Goto, TypeOK
  <2>2. QED
    BY <1>a, <2>1, HandKept, BooksKept DEF Untroubled
<1>1. ASSUME NEW r \in Requests, Arrive(r) PROVE BooksInv'
  <2>1. PICK kind, t, p, next, n : next \in {"invoke", "runSlot", "door"} /\ Ask(r, kind, t, p, next, n)
    BY <1>1 DEF Arrive, run_ticket, escalate_ticket, runOne, run_provider, replay
  <2>2. /\ Goto(r, next) /\ run' = run /\ pc[r] = "idle" /\ pc'[r] = next
        /\ UNCHANGED <<table, timeline, inbox, reset, charged, faults>>
        /\ disturbed' = (disturbed \/ reset # "idle")
    BY <2>1 DEF Ask, Goto, TypeOK, records, history, bounds
  <2>3. QED
    BY <1>a, <2>1, <2>2
<1>2. ASSUME NEW r \in Requests, ReadDoor(r) \/ Invoke(r) \/ takeProviderSlot(r) PROVE BooksInv'
  <2>1. /\ pc[r] \in {"door", "invoke", "providerSlot"}
        /\ UNCHANGED <<table, timeline, inbox, reset, charged, faults, disturbed>>
    BY <1>2 DEF ReadDoor, Invoke, takeProviderSlot, records, history, bounds
  <2>2. End(r) \/ \E next : Goto(r, next) /\ run' = run
    BY <1>2 DEF ReadDoor, Invoke, takeProviderSlot
  <2>3. pc'[r] \notin {"putRun", "lastRun", "report"}
    BY <1>2 DEF ReadDoor, Invoke, SyncedSlot, takeProviderSlot, End, Goto, TypeOK
  <2>4. QED
    BY <1>a, <2>1, <2>2, <2>3
<1>3. ASSUME NEW r \in Requests, ProviderSlotUnanswered(r) \/ RunSlotUnanswered(r) \/ Throw(r)
      PROVE  BooksInv'
  <2>1. faults' # 0
    BY <1>3 DEF ProviderSlotUnanswered, RunSlotUnanswered, Throw, Fault, TypeOK
  <2>2. QED
    BY <2>1 DEF BooksInv, Untroubled
<1>4. ASSUME NEW r \in Requests, takeRunSlot(r) PROVE BooksInv'
  <2>1. pc[r] = "runSlot" /\ UNCHANGED <<table, timeline, inbox, reset, faults, disturbed>>
    BY <1>4 DEF takeRunSlot, TakeRunSlot, records, bounds
  <2>2. CASE End(r) /\ UNCHANGED charged
    <3>1. pc'[r] = "idle"
      BY <2>2 DEF End, Goto, TypeOK
    <3>2. QED
      BY <1>a, <2>1, <2>2, <3>1
  <2>3. CASE Begin(r)
    <3>1. /\ pc'[r] = "putRun" /\ run'[r] = begun + 1
          /\ \A s \in Requests \ {r} : pc'[s] = pc[s] /\ run'[s] = run[s]
          /\ charged' = [charged EXCEPT ![asked[r].day] = @ \cup {begun + 1}]
      BY <2>3 DEF Begin, Goto, TypeOK
    <3>2. \A k \in RunIds : IsCharged(k)' <=> IsCharged(k) \/ k = begun + 1
      <4>1. asked[r].day \in Days
        BY DEF TypeOK, Asked
      <4>2. \A d \in Days : charged'[d] = IF d = asked[r].day THEN charged[d] \cup {begun + 1} ELSE charged[d]
        BY <3>1 DEF TypeOK
      <4>3. QED
        BY <4>1, <4>2 DEF IsCharged
    <3>3. \A k \in RunIds : InHand(k, {"putRun", "lastRun", "report"})' <=>
                              InHand(k, {"putRun", "lastRun", "report"}) \/ k = begun + 1
      BY <2>1, <3>1 DEF InHand
    <3>4. \A k \in RunIds : InHand(k, {"lastRun", "report"})' <=> InHand(k, {"lastRun", "report"})
      BY <2>1, <3>1 DEF InHand
    <3>5. QED
      BY <2>1, <3>2, <3>3, <3>4 DEF BooksInv, Untroubled, Told, OnTable
  <2>4. QED
    BY <1>4, <2>2, <2>3 DEF takeRunSlot, TakeRunSlot, history
<1>5. ASSUME NEW r \in Requests, putRun(r) PROVE BooksInv'
  <2> DEFINE record == [run |-> run[r], ticket |-> asked[r].ticket, kind |-> asked[r].kind]
  <2>1. /\ pc[r] = "putRun" /\ table' = table \cup {record} /\ record.run = run[r]
        /\ pc'[r] \in {"report", "lastRun"} /\ \A s \in Requests \ {r} : pc'[s] = pc[s]
        /\ UNCHANGED <<timeline, inbox, reset, run, charged, faults, disturbed>>
    BY <1>5 DEF putRun, PutRun, Goto, TypeOK, history, bounds
  <2>2. Untroubled => reset = "idle"
    BY <2>1 DEF ResetAlone, Untroubled
  <2>3. \A k \in RunIds : InHand(k, {"putRun", "lastRun", "report"})' <=> InHand(k, {"putRun", "lastRun", "report"})
    BY <2>1 DEF InHand
  <2>4. \A k \in RunIds : InHand(k, {"lastRun", "report"})' <=> InHand(k, {"lastRun", "report"}) \/ k = run[r]
    BY <2>1 DEF InHand
  <2>5. \A k \in RunIds : OnTable(k)' <=> OnTable(k) \/ k = run[r]
    BY <2>1 DEF OnTable
  <2>6. \A k \in RunIds : IsCharged(k)' <=> IsCharged(k)
    BY <2>1 DEF IsCharged
  <2>7. QED
    BY <2>1, <2>2, <2>3, <2>4, <2>5, <2>6 DEF BooksInv, Untroubled, Told
<1>6. ASSUME NEW r \in Requests, updateTicketLastRun(r) PROVE BooksInv'
  <2>1. pc[r] = "lastRun" /\ UNCHANGED <<table, timeline, inbox, reset, charged, faults, disturbed>>
    BY <1>6 DEF updateTicketLastRun, history, bounds
  <2>2. CASE ~ Untroubled
    BY <2>1, <2>2 DEF BooksInv, Untroubled
  <2>3. CASE Untroubled
    <3>1. asked[r].ticket \in inbox
      BY <2>1, <2>3 DEF BooksInv, ResetAlone, Untroubled, TypeOK, Asked
    <3>2. pc'[r] = "report" /\ run' = run /\ \A s \in Requests \ {r} : pc'[s] = pc[s]
      BY <1>6, <3>1 DEF updateTicketLastRun, Goto, TypeOK
    <3>3. \A k \in RunIds, where \in {{"putRun", "lastRun", "report"}, {"lastRun", "report"}} :
            InHand(k, where)' <=> InHand(k, where)
      BY <2>1, <3>2 DEF InHand
    <3>4. QED
      BY <2>1, <3>3, BooksKept DEF Untroubled
  <2>4. QED
    BY <2>2, <2>3
<1>7. ASSUME NEW r \in Requests, appendEvent(r) PROVE BooksInv'
  <2>1. /\ pc[r] = "report" /\ timeline' = timeline \cup {run[r]}
        /\ UNCHANGED <<table, inbox, reset, charged, faults, disturbed>>
    BY <1>7 DEF appendEvent, Report, history, bounds
  <2>2. /\ pc'[r] \in {"idle", "invoke"}
        /\ \A s \in Requests \ {r} : pc'[s] = pc[s] /\ run'[s] = run[s]
    BY <1>7 DEF appendEvent, Report, Finish, End, Goto, TypeOK
  <2>3. Untroubled => reset = "idle"
    BY <2>1 DEF ResetAlone, Untroubled
  <2>4. \A k \in RunIds, where \in {{"putRun", "lastRun", "report"}, {"lastRun", "report"}} :
          InHand(k, where) <=> InHand(k, where)' \/ k = run[r]
    BY <2>1, <2>2 DEF InHand
  <2>5. \A k \in RunIds : (IsCharged(k)' <=> IsCharged(k)) /\ (OnTable(k)' <=> OnTable(k))
    BY <2>1 DEF IsCharged, OnTable
  <2>6. QED
    BY <2>1, <2>3, <2>4, <2>5 DEF BooksInv, Untroubled, Told
<1>8. CASE StartReset
  <2>1. /\ reset = "idle" /\ reset' \in {"runs", "seed"} /\ disturbed' = (disturbed \/ InFlight # {})
        /\ UNCHANGED <<table, timeline, inbox, charged, faults, pc, run>>
    BY <1>8 DEF StartReset, records, resetOnly, request
  <2>2. QED
    BY ZenonT(40), <2>1 DEF BooksInv, Untroubled, Told, IsCharged, OnTable, InHand
<1>9. CASE DeleteRuns \/ DeleteEvents
  <2>1. /\ reset' \in {"events", "counters"}
        /\ table' = {} \/ (table' = table /\ reset = "events")
        /\ reset' = "counters" => timeline' = {}
        /\ UNCHANGED <<inbox, disturbed, faults>>
        /\ reset \in {"runs", "events"}
    BY <1>9 DEF DeleteRuns, DeleteEvents, bounds
  <2>2. QED
    BY <2>1 DEF BooksInv, Untroubled
<1>10. CASE DeleteCounters
  <2>1. /\ reset = "counters" /\ reset' = "tickets" /\ charged' = [d \in Days |-> {}]
        /\ UNCHANGED <<table, timeline, inbox, disturbed, faults, pc, run>>
    BY <1>10 DEF DeleteCounters, records, resetOnly, request, bounds
  <2>2. Untroubled' => table' = {} /\ timeline' = {} /\ \A r \in Requests : pc'[r] = "idle"
    BY <2>1 DEF BooksInv, Untroubled, ResetAlone
  <2>3. QED
    BY <2>1, <2>2 DEF BooksInv, Untroubled, Told, IsCharged, OnTable, InHand
<1>11. CASE DeleteTickets \/ Seed
  <2>1. /\ reset \in {"tickets", "seed"} /\ reset' \in {"seed", "idle"}
        /\ reset' = "idle" => inbox' = Tickets
        /\ UNCHANGED <<table, timeline, charged, disturbed, faults, pc, run>>
    BY <1>11 DEF DeleteTickets, Seed, resetOnly, request, bounds
  <2>2. QED
    BY <2>1 DEF BooksInv, Untroubled, Told, IsCharged, OnTable, InHand
<1>12. CASE ResetFails
  BY <1>12 DEF ResetFails, BooksInv, Untroubled
<1>13. CASE Midnight
  BY <1>13 DEF Midnight, records, history, bounds, BooksInv, Untroubled, Told, IsCharged, OnTable, InHand
<1>14. CASE UNCHANGED vars
  BY <1>14
     DEF vars, records, history, bounds, request, BooksInv, Untroubled, Told, IsCharged, OnTable, InHand
<1>15. QED
  BY <1>1, <1>2, <1>3, <1>4, <1>5, <1>6, <1>7, <1>8, <1>9, <1>10, <1>11, <1>12, <1>13, <1>14 DEF Next

\* With nothing in flight, what was taken, what is recorded and what the timeline
\* tells are the same runs.
LEMMA BooksClose == TypeOK /\ SlotsCounted /\ BooksInv => SlotsBecomeRuns
<1> SUFFICES ASSUME TypeOK, SlotsCounted, BooksInv, Untroubled, reset = "idle", InFlight = {}
             PROVE  /\ \A d \in Days : runs[d] = Cardinality(charged[d])
                    /\ timeline = {x.run : x \in table}
                    /\ timeline = UNION {charged[d] : d \in Days}
  BY DEF SlotsBecomeRuns, Untroubled
<1>1. \A d \in Days : runs[d] = Cardinality(charged[d])
  BY DEF SlotsCounted, DayCounted, Untroubled
<1>2. \A k \in RunIds, where \in {{"putRun", "lastRun", "report"}, {"lastRun", "report"}} : ~ InHand(k, where)
  BY DEF InFlight, InHand
<1>3. \A k \in RunIds : (k \in timeline <=> OnTable(k)) /\ (k \in timeline <=> IsCharged(k))
  BY <1>2 DEF BooksInv, Told
<1>4. timeline \subseteq RunIds /\ (\A x \in table : x.run \in RunIds) /\ \A d \in Days : charged[d] \subseteq RunIds
  BY DEF TypeOK
<1>5. timeline = {x.run : x \in table}
  BY <1>3, <1>4 DEF OnTable
<1>6. timeline = UNION {charged[d] : d \in Days}
  BY <1>3, <1>4 DEF IsCharged
<1>7. QED
  BY <1>1, <1>5, <1>6

\* The ledger is kept, whoever is in flight and whatever fails or is reset: the
\* doors' lines, the tickets' last runs, and the slots that became runs
\* (handler.ts:201-217, run.ts:194-224).
THEOREM LedgerKept == Spec => []LedgerHolds
<1>1. Init => BooksInv
  <2> SUFFICES ASSUME Init PROVE BooksInv
    OBVIOUS
  <2>1. QED
    BY DEF Init, BooksInv, Told, IsCharged, OnTable, InHand
<1>2. TypeOK /\ Numbered /\ SlotsCounted /\ LastRunInv /\ BooksInv /\ [Next]_vars =>
        TypeOK' /\ Numbered' /\ SlotsCounted' /\ LastRunInv' /\ BooksInv'
  BY TypeStep, NumberedStep, CapStep, LastRunStep, BooksStep DEF LastRunInv
<1>3. Init => TypeOK /\ Numbered /\ SlotsCounted /\ LastRunInv
  BY SlotsInit, LastRunInit
<1>4. Spec => []SlotsBecomeRuns
  BY <1>1, <1>2, <1>3, BooksClose, PTL DEF Spec
<1>5. DoorsHold /\ LastRunExists /\ SlotsBecomeRuns => LedgerHolds
  BY DEF LedgerHolds
<1>6. QED
  BY <1>4, <1>5, DoorsHoldTheorem, LastRunsExist, PTL
=============================================================================
