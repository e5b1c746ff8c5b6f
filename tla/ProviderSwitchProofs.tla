------------------------- MODULE ProviderSwitchProofs -----------------------
(***************************************************************************)
(* For any containers, doors, window and latency: what the kill switch     *)
(* promises however the containers' reads and writes interleave and fail.  *)
(***************************************************************************)
EXTENDS ProviderSwitch, TLAPS

(* Ages stay in their range. *)
LEMMA OlderRange ==
  ASSUME NEW last \in Nat, NEW age \in 0 .. last
  PROVE  Older(age, last) \in 0 .. last
BY DEF Older

LEMMA Bounds == Expired \in Nat /\ Settled \in Nat /\ Latency \in Nat /\ Cache \in Nat
BY CacheAssumption DEF Expired, Settled

(* A composed document is a document. *)
LEMMA withDoorType ==
  ASSUME NEW document \in Documents, NEW doors \in Flips
  PROVE  withDoor(document, doors) \in Documents
<1>1. PICK S \in SUBSET Providers : doors \in [S -> {"on", "off"}]
  BY DEF Flips
<1>2. QED
  BY <1>1 DEF withDoor, Documents, DoorStates

LEMMA Constants ==
  /\ Empty \in Documents
  /\ Look \in Flips
  /\ Cold \in [text : Documents, age : 0 .. Expired]
<1>1. Empty \in Documents
  BY DEF Empty, Documents, DoorStates
<1>2. Look \in [{} -> {"on", "off"}]
  BY DEF Look
<1>3. Look \in Flips
  BY <1>2 DEF Flips
<1>4. QED
  BY <1>1, <1>3, Bounds DEF Cold

(* What the three kinds of step do to the variables they share. *)
LEMMA EndType ==
  ASSUME TypeOK, NEW c \in Containers, End(c)
  PROVE  /\ pc' \in [Containers -> {"idle", "get", "got", "put", "written"}]
         /\ flip' \in [Containers -> Flips]
         /\ text' \in [Containers -> Documents]
         /\ waited' \in [Containers -> 0 .. Latency]
BY Constants, Bounds DEF End, Goto, TypeOK

LEMMA KeepType ==
  ASSUME TypeOK, NEW c \in Containers, NEW document \in Documents, Keep(c, document)
  PROVE  /\ holding' \in SUBSET Containers
         /\ cached' \in [Containers -> [text : Documents, age : 0 .. Expired]]
BY Bounds DEF Keep, TypeOK

LEMMA ChangeType ==
  ASSUME TypeOK, NEW document \in Documents, NEW flipped \in SUBSET Providers,
         Change(document, flipped)
  PROVE  /\ parameter' \in Documents
         /\ word' \in [Providers -> {"on", "off"}]
         /\ since' \in [Providers -> 0 .. Settled]
         /\ overwritten' \in SUBSET Providers
         /\ opened' \in SUBSET Providers
         /\ changed' \in 0 .. Settled
         /\ changes' \in 0 .. MaxChanges
<1>1. changes' \in 0 .. MaxChanges
  BY BoundAssumption DEF Change, TypeOK
<1>2. Said(document) \in [Providers -> {"on", "off"}]
  BY DEF Said
<1>3. word' \in [Providers -> {"on", "off"}]
  BY <1>2 DEF Change, TypeOK
<1>4. changed' \in 0 .. Settled /\ since' \in [Providers -> 0 .. Settled]
  BY Bounds DEF Change, TypeOK
<1>5. QED
  BY <1>1, <1>3, <1>4 DEF Change, TypeOK

LEMMA FlipDomain ==
  ASSUME NEW doors \in Flips
  PROVE  DOMAIN doors \in SUBSET Providers
BY DEF Flips

(* The type invariant, one action at a time. *)
LEMMA TypeInit == Init => TypeOK
<1> SUFFICES ASSUME Init PROVE TypeOK
  OBVIOUS
<1>1. parameter \in Documents
  BY DEF Init, Documents, DoorStates
<1>2. word \in [Providers -> {"on", "off"}]
  BY DEF Init, Said
<1>3. changes \in 0 .. MaxChanges /\ changed \in 0 .. Settled
  BY Bounds, BoundAssumption DEF Init
<1>4. since \in [Providers -> 0 .. Settled] /\ waited \in [Containers -> 0 .. Latency]
  BY Bounds DEF Init
<1>5. QED
  BY <1>1, <1>2, <1>3, <1>4, Constants DEF Init, TypeOK

LEMMA TypeStep == TypeOK /\ [Next]_vars => TypeOK'
<1> SUFFICES ASSUME TypeOK, [Next]_vars PROVE TypeOK'
  OBVIOUS
<1>1. ASSUME NEW c \in Containers, read(c) PROVE TypeOK'
  BY <1>1 DEF read, Goto, TypeOK, owner
<1>2. ASSUME NEW c \in Containers, NEW p \in Providers, NEW state \in {"on", "off"},
             write(c, [q \in {p} |-> state])
      PROVE TypeOK'
  <2> DEFINE doors == [q \in {p} |-> state]
  <2>1. doors \in Flips
    <3>1. doors \in [{p} -> {"on", "off"}] /\ {p} \in SUBSET Providers
      OBVIOUS
    <3>2. QED
      BY <3>1 DEF Flips
  <2>2. withDoor(cached[c].text, doors) \in Documents
    BY <2>1, withDoorType DEF TypeOK
  <2>3. text' \in [Containers -> Documents]
    BY <1>2, <2>2 DEF write, TypeOK
  <2>4. flip' \in [Containers -> Flips]
    BY <1>2, <2>1 DEF write, TypeOK
  <2>5. pc' \in [Containers -> {"idle", "get", "got", "put", "written"}]
    BY <1>2 DEF write, Goto, TypeOK
  <2>6. QED
    BY <1>2, <2>3, <2>4, <2>5 DEF write, TypeOK, owner
<1>3. ASSUME NEW c \in Containers, GetParameter(c) PROVE TypeOK'
  BY <1>3 DEF GetParameter, Goto, TypeOK, owner
<1>4. ASSUME NEW c \in Containers, Fetched(c) PROVE TypeOK'
  <2>1. text[c] \in Documents /\ flip[c] \in Flips
    BY DEF TypeOK
  <2>2. /\ holding' \in SUBSET Containers
        /\ cached' \in [Containers -> [text : Documents, age : 0 .. Expired]]
    BY <1>4, <2>1, KeepType DEF Fetched
  <2>3. CASE flip[c] = Look
    BY <1>4, <2>2, <2>3, EndType DEF Fetched, TypeOK, owner
  <2>4. CASE flip[c] # Look
    <3>1. text' \in [Containers -> Documents]
      <4>1. withDoor(text[c], flip[c]) \in Documents
        BY <2>1, withDoorType
      <4>2. QED
        BY <1>4, <2>4, <4>1 DEF Fetched, TypeOK
    <3>2. waited' \in [Containers -> 0 .. Latency] /\ flip' = flip
      BY <1>4, <2>4, Bounds DEF Fetched, TypeOK
    <3>3. pc' \in [Containers -> {"idle", "get", "got", "put", "written"}]
      BY <1>4, <2>4 DEF Fetched, Goto, TypeOK
    <3>4. QED
      BY <1>4, <2>2, <3>1, <3>2, <3>3 DEF Fetched, TypeOK, owner
  <2>5. QED
    BY <2>3, <2>4
<1>5. ASSUME NEW c \in Containers, PutParameter(c) PROVE TypeOK'
  <2>1. text[c] \in Documents /\ DOMAIN flip[c] \in SUBSET Providers
    BY FlipDomain DEF TypeOK
  <2>2. Change(text[c], DOMAIN flip[c])
    BY <1>5 DEF PutParameter
  <2>3. QED
    BY <1>5, <2>1, <2>2, ChangeType DEF PutParameter, Goto, TypeOK
<1>6. ASSUME NEW c \in Containers, Written(c) PROVE TypeOK'
  <2>1. text[c] \in Documents
    BY DEF TypeOK
  <2>2. QED
    BY <1>6, <2>1, KeepType, EndType DEF Written, TypeOK, owner
<1>7. ASSUME NEW c \in Containers, Throw(c) PROVE TypeOK'
  BY <1>7, EndType DEF Throw, TypeOK, owner
<1>8. ASSUME NEW c \in Containers, Recycle(c) PROVE TypeOK'
  BY <1>8, Constants DEF Recycle, TypeOK, owner, request
<1>9. ASSUME NEW document \in Documents, Edit(document) PROVE TypeOK'
  BY <1>9, ChangeType DEF Edit, TypeOK, container, request
<1>10. ASSUME Tick PROVE TypeOK'
  <2>1. waited' \in [Containers -> 0 .. Latency]
    BY <1>10, Bounds DEF Tick, TypeOK, InFlight
  <2>2. \A c \in Containers : [cached[c] EXCEPT !.age = Older(@, Expired)] \in
                              [text : Documents, age : 0 .. Expired]
    BY OlderRange, Bounds DEF TypeOK
  <2>3. cached' \in [Containers -> [text : Documents, age : 0 .. Expired]]
    BY <1>10, <2>2 DEF Tick, TypeOK
  <2>4. since' \in [Providers -> 0 .. Settled] /\ changed' \in 0 .. Settled
    BY <1>10, OlderRange, Bounds DEF Tick, TypeOK
  <2>5. QED
    BY <1>10, <2>1, <2>3, <2>4 DEF Tick, TypeOK
<1>11. CASE UNCHANGED vars
  BY <1>11 DEF vars, container, request, owner, TypeOK
<1>12. QED
  BY <1>1, <1>2, <1>3, <1>4, <1>5, <1>6, <1>7, <1>8, <1>9, <1>10, <1>11 DEF Next

\* The switch's variables keep their types whatever the containers do.
THEOREM TypeCorrect == Spec => []TypeOK
<1>1. QED
  BY TypeInit, TypeStep, PTL DEF Spec

-----------------------------------------------------------------------------
(* The caches.  What a container keeps was the parameter's text when the   *)
(* store answered: since then the parameter either stayed, or changed no   *)
(* longer ago than the answer can be old.                                  *)

Answered(c) == pc[c] \in {"got", "written"}

CacheDated ==
  \A c \in Containers :
    Fresh(c) => cached[c].text = parameter \/ changed <= cached[c].age + Latency

AnswerDated ==
  \A c \in Containers : Answered(c) => text[c] = parameter \/ changed <= waited[c]

Dated == CacheDated /\ AnswerDated

LEMMA DatedStep == TypeOK /\ Dated /\ [Next]_vars => Dated'
<1> SUFFICES ASSUME TypeOK, Dated, [Next]_vars PROVE Dated'
  OBVIOUS
<1> USE DEF Dated, CacheDated, AnswerDated, Answered, Fresh
<1>a. /\ changed \in Nat
      /\ \A c \in Containers : cached[c].age \in Nat /\ waited[c] \in 0 .. Latency
  BY Bounds DEF TypeOK
<1>1. ASSUME NEW c \in Containers, read(c) PROVE Dated'
  BY <1>1 DEF read, Goto, TypeOK, owner
<1>2. ASSUME NEW c \in Containers, NEW p \in Providers, NEW state \in {"on", "off"},
             write(c, [q \in {p} |-> state])
      PROVE Dated'
  <2>1. CacheDated'
    BY <1>2 DEF write, owner
  <2>2. pc' = [pc EXCEPT ![c] = pc'[c]] /\ pc'[c] \in {"put", "get"}
    BY <1>2 DEF write, Goto, TypeOK
  <2>3. \A x \in Containers \ {c} : text'[x] = text[x]
    BY <1>2 DEF write, TypeOK
  <2>4. parameter' = parameter /\ changed' = changed /\ waited' = waited
    BY <1>2 DEF write
  <2>5. AnswerDated'
    BY <2>2, <2>3, <2>4 DEF TypeOK
  <2>6. QED
    BY <2>1, <2>5
<1>3. ASSUME NEW c \in Containers, GetParameter(c) PROVE Dated'
  BY <1>3 DEF GetParameter, Goto, TypeOK, owner
<1>4. ASSUME NEW c \in Containers, Fetched(c) PROVE Dated'
  <2>1. text[c] = parameter \/ changed <= waited[c]
    BY <1>4 DEF Fetched
  <2>2. CacheDated'
    BY <1>4, <2>1, <1>a, Bounds DEF Fetched, Keep, TypeOK
  <2>3. pc' = [pc EXCEPT ![c] = pc'[c]] /\ pc'[c] \in {"put", "idle"}
    BY <1>4 DEF Fetched, End, Goto, TypeOK
  <2>4. \A x \in Containers \ {c} : text'[x] = text[x] /\ waited'[x] = waited[x]
    BY <1>4 DEF Fetched, End, TypeOK
  <2>5. parameter' = parameter /\ changed' = changed
    BY <1>4 DEF Fetched
  <2>6. AnswerDated'
    BY <2>3, <2>4, <2>5 DEF TypeOK
  <2>7. QED
    BY <2>2, <2>6
<1>5. ASSUME NEW c \in Containers, PutParameter(c) PROVE Dated'
  <2>1. changed' = 0 /\ cached' = cached /\ waited' = waited
    BY <1>5 DEF PutParameter, Change
  <2>2. QED
    BY <2>1, <1>a, Bounds
<1>6. ASSUME NEW c \in Containers, Written(c) PROVE Dated'
  <2>1. text[c] = parameter \/ changed <= waited[c]
    BY <1>6 DEF Written
  <2>2. CacheDated'
    BY <1>6, <2>1, <1>a, Bounds DEF Written, Keep, TypeOK
  <2>3. AnswerDated'
    BY <1>6 DEF Written, End, Goto, TypeOK
  <2>4. QED
    BY <2>2, <2>3
<1>7. ASSUME NEW c \in Containers, Throw(c) PROVE Dated'
  BY <1>7 DEF Throw, End, Goto, TypeOK
<1>8. ASSUME NEW c \in Containers, Recycle(c) PROVE Dated'
  BY <1>8 DEF Recycle, request, TypeOK
<1>9. ASSUME NEW document \in Documents, Edit(document) PROVE Dated'
  <2>1. changed' = 0 /\ cached' = cached /\ waited' = waited
    BY <1>9 DEF Edit, Change, container, request
  <2>2. QED
    BY <2>1, <1>a, Bounds
<1>10. ASSUME Tick PROVE Dated'
  <2>1. changed' <= changed + 1 /\ changed' \in Nat
    BY <1>10, <1>a, Bounds DEF Tick, Older
  <2>2. \A c \in Containers : Fresh(c)' =>
          Fresh(c) /\ cached'[c].age = cached[c].age + 1 /\ cached'[c].text = cached[c].text
    BY <1>10, Bounds DEF Tick, Older, TypeOK, Expired
  <2>3. \A c \in Containers : Answered(c) => waited'[c] = waited[c] + 1
    BY <1>10 DEF Tick, InFlight
  <2>4. parameter' = parameter /\ text' = text /\ pc' = pc
    BY <1>10 DEF Tick
  <2>5. CacheDated'
    BY <2>1, <2>2, <2>4, <1>a, Bounds
  <2>6. AnswerDated'
    BY <2>1, <2>3, <2>4, <1>a, Bounds
  <2>7. QED
    BY <2>5, <2>6
<1>11. CASE UNCHANGED vars
  BY <1>11 DEF vars, container, request, owner
<1>12. QED
  BY <1>1, <1>2, <1>3, <1>4, <1>5, <1>6, <1>7, <1>8, <1>9, <1>10, <1>11 DEF Next

\* Once the parameter has not changed for the window and a call's time, every
\* container that answers from its cache answers with the parameter's text.
THEOREM Coherent == Spec => []CachesAgree
<1>1. Init => TypeOK /\ Dated
  BY TypeInit DEF Init, Dated, CacheDated, AnswerDated, Answered, Fresh
<1>2. TypeOK /\ Dated /\ [Next]_vars => TypeOK' /\ Dated'
  BY TypeStep, DatedStep
<1>3. TypeOK /\ Dated => CachesAgree
  <2> SUFFICES ASSUME TypeOK, Dated, Late(changed), NEW c \in Containers, Fresh(c)
               PROVE  cached[c].text = parameter
    BY DEF CachesAgree
  <2>1. cached[c].age \in Nat /\ cached[c].age <= Cache
    BY Bounds DEF TypeOK, Fresh
  <2>2. QED
    BY <2>1, Bounds DEF Dated, CacheDated, Late, Settled
<1>4. QED
  BY <1>1, <1>2, <1>3, PTL DEF Spec

-----------------------------------------------------------------------------
(* The closed doors.  A door the owner closed, and no other write has put  *)
(* back, is closed in the parameter; a container that still holds it open  *)
(* was answered before the closing.                                        *)

Closed(p) == word[p] = "off" /\ p \notin overwritten

ParameterCloses == \A p \in Providers : Closed(p) => ~ Open(parameter, p)

CacheCloses ==
  \A p \in Providers, c \in Containers :
    Closed(p) /\ Fresh(c) /\ Open(cached[c].text, p) => since[p] <= cached[c].age + Latency

AnswerCloses ==
  \A p \in Providers, c \in Containers :
    Closed(p) /\ Answered(c) /\ Open(text[c], p) => since[p] <= waited[c]

Closes == ParameterCloses /\ CacheCloses /\ AnswerCloses

(* A change of the parameter leaves a door it does not open as it was. *)
LEMMA ChangeCloses ==
  ASSUME TypeOK, ParameterCloses, NEW document \in Documents, NEW flipped \in SUBSET Providers,
         Change(document, flipped), NEW p \in Providers, Closed(p)'
  PROVE  /\ ~ Open(document, p)
         /\ since'[p] = 0 \/ (Closed(p) /\ since'[p] = since[p])
<1>1. CASE p \in flipped
  <2>1. word'[p] = Said(document)[p]
    BY <1>1 DEF Change
  <2>2. ~ Open(document, p)
    BY <2>1 DEF Closed, Said
  <2>3. since'[p] = 0
    BY <1>1 DEF Change
  <2>4. QED
    BY <2>2, <2>3
<1>2. CASE p \notin flipped
  <2>1. word'[p] = word[p] /\ since'[p] = since[p]
    BY <1>2 DEF Change
  <2>2. ~ (Open(document, p) /\ word[p] = "off") /\ p \notin overwritten
    BY <1>2 DEF Change, Closed
  <2>3. QED
    BY <2>1, <2>2 DEF Closed
<1>3. QED
  BY <1>1, <1>2

LEMMA ClosesStep == TypeOK /\ Closes /\ [Next]_vars => Closes'
<1> SUFFICES ASSUME TypeOK, Closes, [Next]_vars PROVE Closes'
  OBVIOUS
<1> USE DEF Closes, ParameterCloses, CacheCloses, AnswerCloses, Answered, Fresh
<1>a. /\ \A p \in Providers : since[p] \in Nat
      /\ \A c \in Containers : cached[c].age \in Nat /\ waited[c] \in 0 .. Latency
  BY Bounds DEF TypeOK
<1>1. ASSUME NEW c \in Containers, read(c) PROVE Closes'
  BY <1>1 DEF read, Goto, TypeOK, owner, Closed
<1>2. ASSUME NEW c \in Containers, NEW p \in Providers, NEW state \in {"on", "off"},
             write(c, [q \in {p} |-> state])
      PROVE Closes'
  <2>1. ParameterCloses' /\ CacheCloses'
    BY <1>2 DEF write, owner, Closed
  <2>2. pc' = [pc EXCEPT ![c] = pc'[c]] /\ pc'[c] \in {"put", "get"}
    BY <1>2 DEF write, Goto, TypeOK
  <2>3. \A x \in Containers \ {c} : text'[x] = text[x]
    BY <1>2 DEF write, TypeOK
  <2>4. waited' = waited /\ since' = since /\ word' = word /\ overwritten' = overwritten
    BY <1>2 DEF write, owner
  <2>5. AnswerCloses'
    BY <2>2, <2>3, <2>4 DEF TypeOK, Closed
  <2>6. QED
    BY <2>1, <2>5
<1>3. ASSUME NEW c \in Containers, GetParameter(c) PROVE Closes'
  <2>1. ParameterCloses' /\ CacheCloses'
    BY <1>3 DEF GetParameter, owner, Closed
  <2>2. AnswerCloses'
    BY <1>3 DEF GetParameter, Goto, TypeOK, owner, Closed
  <2>3. QED
    BY <2>1, <2>2
<1>4. ASSUME NEW c \in Containers, Fetched(c) PROVE Closes'
  <2>1. Answered(c)
    BY <1>4 DEF Fetched
  <2>2. /\ parameter' = parameter /\ since' = since
        /\ word' = word /\ overwritten' = overwritten
    BY <1>4 DEF Fetched, owner
  <2>3. /\ cached'[c].text = text[c] /\ cached'[c].age = 0
        /\ \A x \in Containers \ {c} : cached'[x] = cached[x] /\ (x \in holding' <=> x \in holding)
    BY <1>4 DEF Fetched, Keep, TypeOK
  <2>4. CacheCloses'
    BY <2>1, <2>2, <2>3, <1>a, Bounds DEF Closed
  <2>5. pc' = [pc EXCEPT ![c] = pc'[c]] /\ pc'[c] \in {"put", "idle"}
    BY <1>4 DEF Fetched, End, Goto, TypeOK
  <2>6. \A x \in Containers \ {c} : text'[x] = text[x] /\ waited'[x] = waited[x]
    BY <1>4 DEF Fetched, End, TypeOK
  <2>7. AnswerCloses'
    BY <2>2, <2>5, <2>6 DEF TypeOK, Closed
  <2>8. QED
    BY <2>2, <2>4, <2>7 DEF Closed
<1>5. ASSUME NEW c \in Containers, PutParameter(c) PROVE Closes'
  <2>1. text[c] \in Documents /\ DOMAIN flip[c] \in SUBSET Providers
    BY FlipDomain DEF TypeOK
  <2>2. Change(text[c], DOMAIN flip[c])
    BY <1>5 DEF PutParameter
  <2>3. \A p \in Providers : Closed(p)' =>
          ~ Open(text[c], p) /\ (since'[p] = 0 \/ (Closed(p) /\ since'[p] = since[p]))
    BY <2>1, <2>2, ChangeCloses
  <2>4. parameter' = text[c]
    BY <2>2 DEF Change
  <2>5. /\ cached' = cached /\ holding' = holding /\ text' = text /\ waited' = waited
        /\ pc' = [pc EXCEPT ![c] = "written"]
    BY <1>5 DEF PutParameter, Goto
  <2>6. CacheCloses'
    BY <2>3, <2>5, <1>a, Bounds
  <2>7. AnswerCloses'
    BY <2>3, <2>5, <1>a, Bounds DEF TypeOK
  <2>8. QED
    BY <2>3, <2>4, <2>6, <2>7
<1>6. ASSUME NEW c \in Containers, Written(c) PROVE Closes'
  <2>1. Answered(c)
    BY <1>6 DEF Written
  <2>2. /\ parameter' = parameter /\ since' = since
        /\ word' = word /\ overwritten' = overwritten
    BY <1>6 DEF Written, owner
  <2>3. /\ cached'[c].text = text[c] /\ cached'[c].age = 0
        /\ \A x \in Containers \ {c} : cached'[x] = cached[x] /\ (x \in holding' <=> x \in holding)
    BY <1>6 DEF Written, Keep, TypeOK
  <2>4. CacheCloses'
    BY <2>1, <2>2, <2>3, <1>a, Bounds DEF Closed
  <2>5. pc' = [pc EXCEPT ![c] = "idle"]
    BY <1>6 DEF Written, End, Goto
  <2>6. \A x \in Containers \ {c} : text'[x] = text[x] /\ waited'[x] = waited[x]
    BY <1>6 DEF Written, End, TypeOK
  <2>7. AnswerCloses'
    BY <2>2, <2>5, <2>6 DEF TypeOK, Closed
  <2>8. QED
    BY <2>2, <2>4, <2>7 DEF Closed
<1>7. ASSUME NEW c \in Containers, Throw(c) PROVE Closes'
  BY <1>7 DEF Throw, End, Goto, TypeOK, owner, Closed
<1>8. ASSUME NEW c \in Containers, Recycle(c) PROVE Closes'
  BY <1>8 DEF Recycle, request, owner, TypeOK, Closed
<1>9. ASSUME NEW document \in Documents, Edit(document) PROVE Closes'
  <2>1. Change(document, Providers)
    BY <1>9 DEF Edit
  <2>2. \A p \in Providers : Closed(p)' => ~ Open(document, p) /\ since'[p] = 0
    BY <2>1, ChangeCloses DEF Change
  <2>3. parameter' = document
    BY <2>1 DEF Change
  <2>4. cached' = cached /\ waited' = waited
    BY <1>9 DEF Edit, container, request
  <2>5. QED
    BY <2>2, <2>3, <2>4, <1>a, Bounds
<1>10. ASSUME Tick PROVE Closes'
  <2>1. \A p \in Providers : since'[p] <= since[p] + 1 /\ since'[p] \in Nat
    BY <1>10, <1>a, Bounds DEF Tick, Older
  <2>2. \A c \in Containers : Fresh(c)' =>
          Fresh(c) /\ cached'[c].age = cached[c].age + 1 /\ cached'[c].text = cached[c].text
    BY <1>10, Bounds DEF Tick, Older, TypeOK, Expired
  <2>3. \A c \in Containers : Answered(c) => waited'[c] = waited[c] + 1
    BY <1>10 DEF Tick, InFlight
  <2>4. /\ parameter' = parameter /\ text' = text /\ pc' = pc
        /\ word' = word /\ overwritten' = overwritten
    BY <1>10 DEF Tick
  <2>5. CacheCloses'
    BY <2>1, <2>2, <2>4, <1>a, Bounds DEF Closed
  <2>6. AnswerCloses'
    BY <2>1, <2>3, <2>4, <1>a, Bounds DEF Closed
  <2>7. QED
    BY <2>4, <2>5, <2>6 DEF Closed
<1>11. CASE UNCHANGED vars
  BY <1>11 DEF vars, container, request, owner, Closed
<1>12. QED
  BY <1>1, <1>2, <1>3, <1>4, <1>5, <1>6, <1>7, <1>8, <1>9, <1>10, <1>11 DEF Next

\* A door the owner closed longer ago than the window and a call's time is found
\* closed by every container, unless another door's write put it back.
THEOREM KillSwitch == Spec => []KillSwitchHolds
<1>1. Init => TypeOK /\ Closes
  <2> SUFFICES ASSUME Init PROVE Closes
    BY TypeInit
  <2>1. ParameterCloses
    BY DEF Init, ParameterCloses, Closed, Said
  <2>2. CacheCloses /\ AnswerCloses
    BY DEF Init, CacheCloses, AnswerCloses, Answered, Fresh
  <2>3. QED
    BY <2>1, <2>2 DEF Closes
<1>2. TypeOK /\ Closes /\ [Next]_vars => TypeOK' /\ Closes'
  BY TypeStep, ClosesStep
<1>3. TypeOK /\ Closes => KillSwitchHolds
  <2> SUFFICES ASSUME TypeOK, Closes, NEW p \in Providers, Closed(p), Late(since[p])
               PROVE  ~ FoundOpen(p)
    BY DEF KillSwitchHolds, Closed
  <2>1. ~ Open(parameter, p)
    BY DEF Closes, ParameterCloses
  <2>2. ASSUME NEW c \in Containers, Fresh(c), Open(cached[c].text, p) PROVE FALSE
    <3>1. cached[c].age \in Nat /\ cached[c].age <= Cache
      BY <2>2, Bounds DEF TypeOK, Fresh
    <3>2. since[p] <= cached[c].age + Latency
      BY <2>2 DEF Closes, CacheCloses
    <3>3. QED
      BY <3>1, <3>2, Bounds DEF Late, Settled
  <2>3. QED
    BY <2>1, <2>2 DEF FoundOpen
<1>4. QED
  BY <1>1, <1>2, <1>3, PTL DEF Spec

-----------------------------------------------------------------------------
(* Fail-closed.  Every text in the system opens only doors the owner has   *)
(* opened, a text about to be written also the door it flips.              *)

ParameterByOwner == \A p \in Providers : Open(parameter, p) => p \in opened

CacheByOwner == \A c \in holding, p \in Providers : Open(cached[c].text, p) => p \in opened

TextByOwner ==
  \A c \in Containers, p \in Providers :
    Open(text[c], p) => p \in opened \/ (pc[c] = "put" /\ p \in DOMAIN flip[c])

ByOwner == ParameterByOwner /\ CacheByOwner /\ TextByOwner

(* A composed document opens what its text opened, and the door it flips.  *)
LEMMA withDoorOpens ==
  ASSUME NEW document, NEW doors, NEW p \in Providers, Open(withDoor(document, doors), p)
  PROVE  p \in DOMAIN doors \/ Open(document, p)
BY DEF Open, withDoor

LEMMA EmptyCloses == \A p \in Providers : ~ Open(Empty, p)
BY DEF Open, Empty

LEMMA EndByOwner ==
  ASSUME TypeOK, TextByOwner, NEW c \in Containers, End(c), opened' = opened
  PROVE  TextByOwner'
BY EmptyCloses DEF TextByOwner, End, Goto, TypeOK

LEMMA ByOwnerStep == TypeOK /\ ByOwner /\ [Next]_vars => ByOwner'
<1> SUFFICES ASSUME TypeOK, ByOwner, [Next]_vars PROVE ByOwner'
  OBVIOUS
<1> USE DEF ByOwner, ParameterByOwner, CacheByOwner
<1>0. TextByOwner
  OBVIOUS
<1>1. ASSUME NEW c \in Containers, read(c) PROVE ByOwner'
  BY <1>1 DEF read, Goto, TypeOK, owner, TextByOwner
<1>2. ASSUME NEW c \in Containers, NEW p \in Providers, NEW state \in {"on", "off"},
             write(c, [q \in {p} |-> state])
      PROVE ByOwner'
  <2> DEFINE doors == [q \in {p} |-> state]
  <2>1. opened' = opened /\ parameter' = parameter /\ cached' = cached /\ holding' = holding
    BY <1>2 DEF write, owner
  <2>2. flip'[c] = doors /\ \A x \in Containers \ {c} :
          flip'[x] = flip[x] /\ pc'[x] = pc[x] /\ text'[x] = text[x]
    BY <1>2 DEF write, Goto, TypeOK
  <2>3. CASE Fresh(c)
    <3>1. text'[c] = withDoor(cached[c].text, doors) /\ pc'[c] = "put"
      BY <1>2, <2>3 DEF write, Goto, TypeOK
    <3>2. \A q \in Providers : Open(text'[c], q) => q \in DOMAIN doors \/ q \in opened
      BY <2>3, <3>1, withDoorOpens DEF Fresh
    <3>3. TextByOwner'
      BY <2>1, <2>2, <3>1, <3>2 DEF TextByOwner
    <3>4. QED
      BY <2>1, <3>3
  <2>4. CASE ~ Fresh(c)
    <3>1. text'[c] = text[c] /\ pc[c] = "idle"
      BY <1>2, <2>4 DEF write
    <3>2. \A q \in Providers : Open(text'[c], q) => q \in opened
      BY <3>1 DEF TextByOwner
    <3>3. TextByOwner'
      BY <2>1, <2>2, <3>2 DEF TextByOwner
    <3>4. QED
      BY <2>1, <3>3
  <2>5. QED
    BY <2>3, <2>4
<1>3. ASSUME NEW c \in Containers, GetParameter(c) PROVE ByOwner'
  BY <1>3 DEF GetParameter, Goto, TypeOK, owner, TextByOwner
<1>4. ASSUME NEW c \in Containers, Fetched(c) PROVE ByOwner'
  <2>1. opened' = opened /\ parameter' = parameter /\ pc[c] = "got"
    BY <1>4 DEF Fetched, owner
  <2>2. \A q \in Providers : Open(text[c], q) => q \in opened
    BY <2>1 DEF TextByOwner
  <2>3. CacheByOwner'
    BY <1>4, <2>1, <2>2 DEF Fetched, Keep, TypeOK
  <2>4. CASE flip[c] = Look
    BY <1>4, <1>0, <2>1, <2>3, <2>4, EndByOwner DEF Fetched
  <2>5. CASE flip[c] # Look
    <3>1. text'[c] = withDoor(text[c], flip[c]) /\ pc'[c] = "put" /\ flip' = flip
      BY <1>4, <2>5 DEF Fetched, Goto, TypeOK
    <3>2. \A x \in Containers \ {c} : pc'[x] = pc[x] /\ text'[x] = text[x]
      BY <1>4, <2>5 DEF Fetched, Goto, TypeOK
    <3>3. \A q \in Providers : Open(text'[c], q) => q \in DOMAIN flip[c] \/ q \in opened
      BY <2>2, <3>1, withDoorOpens
    <3>4. TextByOwner'
      BY <2>1, <3>1, <3>2, <3>3 DEF TextByOwner
    <3>5. QED
      BY <2>1, <2>3, <3>4
  <2>6. QED
    BY <2>4, <2>5
<1>5. ASSUME NEW c \in Containers, PutParameter(c) PROVE ByOwner'
  <2>1. /\ parameter' = text[c] /\ opened \subseteq opened'
        /\ \A q \in DOMAIN flip[c] : Open(text[c], q) => q \in opened'
    BY <1>5 DEF PutParameter, Change
  <2>2. /\ cached' = cached /\ holding' = holding /\ text' = text /\ flip' = flip
        /\ pc' = [pc EXCEPT ![c] = "written"]
    BY <1>5 DEF PutParameter, Goto
  <2>3. \A q \in Providers : Open(text[c], q) => q \in opened'
    BY <2>1 DEF TextByOwner
  <2>4. TextByOwner'
    BY <2>1, <2>2, <2>3 DEF TextByOwner, TypeOK
  <2>5. QED
    BY <2>1, <2>2, <2>3, <2>4
<1>6. ASSUME NEW c \in Containers, Written(c) PROVE ByOwner'
  <2>1. opened' = opened /\ parameter' = parameter /\ pc[c] = "written" /\ End(c)
    BY <1>6 DEF Written, owner
  <2>2. \A q \in Providers : Open(text[c], q) => q \in opened
    BY <2>1 DEF TextByOwner
  <2>3. CacheByOwner'
    BY <1>6, <2>1, <2>2 DEF Written, Keep, TypeOK
  <2>4. QED
    BY <1>0, <2>1, <2>3, EndByOwner
<1>7. ASSUME NEW c \in Containers, Throw(c) PROVE ByOwner'
  BY <1>7, <1>0, EndByOwner DEF Throw, owner
<1>8. ASSUME NEW c \in Containers, Recycle(c) PROVE ByOwner'
  BY <1>8 DEF Recycle, request, owner, TypeOK, TextByOwner
<1>9. ASSUME NEW document \in Documents, Edit(document) PROVE ByOwner'
  <2>1. /\ parameter' = document /\ opened \subseteq opened'
        /\ \A q \in Providers : Open(document, q) => q \in opened'
    BY <1>9 DEF Edit, Change
  <2>2. UNCHANGED <<holding, cached, pc, flip, text>>
    BY <1>9 DEF Edit, container, request
  <2>3. QED
    BY <2>1, <2>2 DEF TextByOwner
<1>10. ASSUME Tick PROVE ByOwner'
  <2>1. \A c \in holding : cached'[c].text = cached[c].text
    BY <1>10 DEF Tick, TypeOK
  <2>2. QED
    BY <1>10, <2>1 DEF Tick, TextByOwner
<1>11. CASE UNCHANGED vars
  BY <1>11 DEF vars, container, request, owner, TextByOwner
<1>12. QED
  BY <1>1, <1>2, <1>3, <1>4, <1>5, <1>6, <1>7, <1>8, <1>9, <1>10, <1>11 DEF Next

\* A door the owner never opened is never found open: a text that lacks it, or
\* none at all, closes it for every reader and every writer.
THEOREM FailClosed == Spec => []OpensOnlyByOwner
<1>1. Init => TypeOK /\ ByOwner
  <2> SUFFICES ASSUME Init PROVE ByOwner
    BY TypeInit
  <2>1. TextByOwner
    BY EmptyCloses DEF Init, TextByOwner
  <2>2. QED
    BY <2>1 DEF Init, ByOwner, ParameterByOwner, CacheByOwner
<1>2. TypeOK /\ ByOwner /\ [Next]_vars => TypeOK' /\ ByOwner'
  BY TypeStep, ByOwnerStep
<1>3. ByOwner => OpensOnlyByOwner
  BY DEF ByOwner, ParameterByOwner, CacheByOwner, OpensOnlyByOwner, FoundOpen, Fresh
<1>4. QED
  BY <1>1, <1>2, <1>3, PTL DEF Spec
=============================================================================
