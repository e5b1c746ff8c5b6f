--------------------------- MODULE ProviderSwitch ---------------------------
(***************************************************************************)
(* The kill switch on the direct providers (providerGuard.ts): one         *)
(* parameter names every door, each container of the desk keeps what it    *)
(* read of it for Cache, and the presenter's click writes the whole        *)
(* document from what the container that answers it holds.                 *)
(*                                                                         *)
(* A container answers one request at a time.  A call to the parameter     *)
(* store is a request and an answer: others may write in between, and the  *)
(* cache is dated when the answer arrives, at most Latency later.  Instants*)
(* are kept as ages, in ticks of the clock, up to the age that matters.    *)
(***************************************************************************)
EXTENDS Naturals

CONSTANTS
  Containers,
  Providers,
  Cache,       \* SWITCH_CACHE_SECONDS, in ticks of the clock
  Latency,     \* the longest a call to the store takes, in ticks
  ByHand,      \* whether the parameter is also edited by hand
  MaxChanges   \* bound: documents written to the parameter

ASSUME CacheAssumption == Cache \in Nat /\ Latency \in Nat /\ ByHand \in BOOLEAN
ASSUME BoundAssumption == MaxChanges \in Nat

VARIABLES
  parameter,  \* the document, each door as it names it
  holding,    \* the containers whose `cached` is not null
  cached,     \* `cached.text` and the age of `cached.at`
  pc,         \* the next step of each container
  flip,       \* the door its request flips, and to what; none for a read
  text,       \* the document it was answered, or is about to write
  waited,     \* ticks since it sent its call to the store
  word,       \* history: what the owner last said of each door
  since,      \* history: and how long ago
  overwritten,\* history: doors a write has opened since, that the owner closed
  opened,     \* history: doors the owner ever opened
  changed,    \* history: ticks since the parameter last changed
  changes

request == <<pc, flip, text, waited>>
container == <<holding, cached, request>>
owner == <<word, since, overwritten, opened>>
vars == <<parameter, container, owner, changed, changes>>

\* "missing": no such door in the text, or no text to be read at all.
DoorStates == {"on", "off", "missing"}
Documents == [Providers -> DoorStates]

\* Past the first age a cached text is looked up again; by the second everyone
\* has the answer.
Expired == Cache + 1
Settled == Cache + Latency + 1
Older(age, last) == IF age = last THEN age ELSE age + 1
Late(age) == age = Settled
Flips == UNION {[S -> {"on", "off"}] : S \in SUBSET Providers}
Look == [p \in {} |-> "off"]

TypeOK ==
  /\ parameter \in Documents
  /\ holding \in SUBSET Containers
  /\ cached \in [Containers -> [text : Documents, age : 0 .. Expired]]
  /\ pc \in [Containers -> {"idle", "get", "got", "put", "written"}]
  /\ flip \in [Containers -> Flips]
  /\ text \in [Containers -> Documents]
  /\ waited \in [Containers -> 0 .. Latency]
  /\ word \in [Providers -> {"on", "off"}]
  /\ since \in [Providers -> 0 .. Settled]
  /\ overwritten \in SUBSET Providers
  /\ opened \in SUBSET Providers
  /\ changed \in 0 .. Settled
  /\ changes \in 0 .. MaxChanges

Empty == [p \in Providers |-> "missing"]
Cold == [text |-> Empty, age |-> 0]

\* parseProviderSwitch: open only when the document says so.
Open(document, p) == document[p] = "on"

\* Mutant: the other doors are taken for open.
withDoorOpen(document, doors) ==
  [p \in Providers |-> IF p \in DOMAIN doors THEN doors[p] ELSE "on"]

withDoor(document, doors) ==
  [p \in Providers |-> IF p \in DOMAIN doors THEN doors[p] ELSE IF Open(document, p) THEN "on" ELSE "off"]

\* Mutant: a container never asks again.
NeverExpired(c) == c \in holding

Fresh(c) == c \in holding /\ cached[c].age <= Cache

Said(document) == [p \in Providers |-> IF Open(document, p) THEN "on" ELSE "off"]

\* A deployed stack's parameter names every door; no container is warm.
Init ==
  /\ changes = 0 /\ changed = 0
  /\ parameter \in [Providers -> {"on", "off"}]
  /\ holding = {}
  /\ cached = [c \in Containers |-> Cold]
  /\ pc = [c \in Containers |-> "idle"]
  /\ flip = [c \in Containers |-> Look]
  /\ text = [c \in Containers |-> Empty]
  /\ waited = [c \in Containers |-> 0]
  /\ word = Said(parameter)
  /\ since = [p \in Providers |-> 0]
  /\ overwritten = {}
  /\ opened = {p \in Providers : Open(parameter, p)}

-----------------------------------------------------------------------------
(* A container's requests.                                                 *)

Goto(c, next) == pc' = [pc EXCEPT ![c] = next]

Keep(c, document) ==
  /\ holding' = holding \cup {c}
  /\ cached' = [cached EXCEPT ![c] = [text |-> document, age |-> 0]]

\* The request is over.
End(c) ==
  /\ Goto(c, "idle")
  /\ flip' = [flip EXCEPT ![c] = Look]
  /\ text' = [text EXCEPT ![c] = Empty]
  /\ waited' = [waited EXCEPT ![c] = 0]

\* Within the window a read asks nobody, and leaves no trace.
read(c) ==
  /\ pc[c] = "idle" /\ ~ Fresh(c)
  /\ Goto(c, "get")
  /\ UNCHANGED <<parameter, holding, cached, flip, text, waited, owner, changed, changes>>

write(c, doors) ==
  /\ pc[c] = "idle"
  /\ flip' = [flip EXCEPT ![c] = doors]
  /\ IF Fresh(c)
     THEN Goto(c, "put") /\ text' = [text EXCEPT ![c] = withDoor(cached[c].text, doors)]
     ELSE Goto(c, "get") /\ UNCHANGED text
  /\ UNCHANGED <<parameter, holding, cached, waited, owner, changed, changes>>

GetParameter(c) ==
  /\ pc[c] = "get"
  /\ Goto(c, "got")
  /\ text' = [text EXCEPT ![c] = parameter]
  /\ UNCHANGED <<parameter, holding, cached, flip, waited, owner, changed, changes>>

\* The answer is kept; a write composes its document from it at once.
Fetched(c) ==
  /\ pc[c] = "got"
  /\ Keep(c, text[c])
  /\ IF flip[c] = Look
     THEN End(c)
     ELSE /\ Goto(c, "put")
          /\ text' = [text EXCEPT ![c] = withDoor(@, flip[c])]
          /\ waited' = [waited EXCEPT ![c] = 0]
          /\ UNCHANGED flip
  /\ UNCHANGED <<parameter, owner, changed, changes>>

\* The parameter changes; `flipped` are the doors the owner had in mind.
Change(document, flipped) ==
  /\ changes < MaxChanges
  /\ changes' = changes + 1
  /\ changed' = 0
  /\ parameter' = document
  /\ word' = [p \in Providers |-> IF p \in flipped THEN Said(document)[p] ELSE word[p]]
  /\ since' = [p \in Providers |-> IF p \in flipped THEN 0 ELSE since[p]]
  /\ opened' = opened \cup {p \in flipped : Open(document, p)}
  /\ overwritten' = (overwritten \ flipped) \cup
                    {p \in Providers \ flipped : Open(document, p) /\ word[p] = "off"}

\* The document is written whatever the parameter says by now.
PutParameter(c) ==
  /\ pc[c] = "put"
  /\ Change(text[c], DOMAIN flip[c])
  /\ Goto(c, "written")
  /\ UNCHANGED <<holding, cached, flip, text, waited>>

Written(c) ==
  /\ pc[c] = "written"
  /\ Keep(c, text[c])
  /\ End(c)
  /\ UNCHANGED <<parameter, owner, changed, changes>>

\* Mutant: the cache is seeded before the write is answered.
ThrowKept(c) ==
  /\ pc[c] = "put"
  /\ Keep(c, text[c])
  /\ End(c)
  /\ UNCHANGED <<parameter, owner, changed, changes>>

\* A call throws, or its answer is lost: the request fails, the cache stays.
Throw(c) ==
  /\ pc[c] \in {"get", "put", "written"}
  /\ End(c)
  /\ UNCHANGED <<parameter, holding, cached, owner, changed, changes>>

\* Lambda starts another container in its place.
Recycle(c) ==
  /\ pc[c] = "idle" /\ c \in holding
  /\ holding' = holding \ {c}
  /\ cached' = [cached EXCEPT ![c] = Cold]
  /\ UNCHANGED <<parameter, request, owner, changed, changes>>

-----------------------------------------------------------------------------
(* Around the containers.                                                  *)

\* The owner writes or deletes the parameter by hand, or the stack does.
Edit(document) ==
  /\ ByHand
  /\ Change(document, Providers)
  /\ UNCHANGED container

InFlight == {c \in Containers : pc[c] # "idle"}

\* No call takes longer than Latency.
Tick ==
  /\ \A c \in InFlight : waited[c] < Latency
  /\ waited' = [c \in Containers |-> IF c \in InFlight THEN waited[c] + 1 ELSE 0]
  /\ cached' = [c \in Containers |-> IF c \in holding THEN [cached[c] EXCEPT !.age = Older(@, Expired)] ELSE cached[c]]
  /\ since' = [p \in Providers |-> Older(since[p], Settled)]
  /\ changed' = Older(changed, Settled)
  /\ UNCHANGED <<parameter, holding, pc, flip, text, word, overwritten, opened, changes>>

Next ==
  \/ \E c \in Containers :
       \/ read(c)
       \/ \E p \in Providers, state \in {"on", "off"} : write(c, [q \in {p} |-> state])
       \/ GetParameter(c) \/ Fetched(c)
       \/ PutParameter(c) \/ Written(c) \/ Throw(c) \/ Recycle(c)
  \/ \E document \in Documents : Edit(document)
  \/ Tick

Spec == Init /\ [][Next]_vars

-----------------------------------------------------------------------------
(* Properties.                                                             *)

\* A run finds the door open: in its container's cache, or at the store.
FoundOpen(p) ==
  \/ Open(parameter, p)
  \/ \E c \in Containers : Fresh(c) /\ Open(cached[c].text, p)

\* "How long a container holds the switch before reading it again: a kill
\* switch takes effect within this" (providerGuard.ts:28), the store's answer
\* allowed for: a door the owner closed that long ago is found closed.
KillSwitchTakesEffect ==
  \A p \in Providers : word[p] = "off" /\ Late(since[p]) => ~ FoundOpen(p)

\* What the code keeps of it: the same, as long as no write for another door
\* put the closed one back from a document that was older than the closing.
KillSwitchHolds ==
  \A p \in Providers :
    word[p] = "off" /\ p \notin overwritten /\ Late(since[p]) => ~ FoundOpen(p)

\* The containers agree with the parameter, whoever wrote it and whatever
\* failed, once it has not changed for that long.
CachesAgree ==
  Late(changed) => \A c \in Containers : Fresh(c) => cached[c].text = parameter

\* Fail-closed (providerGuard.ts:13-18): a door the owner never opened is never
\* found open, whatever the text lacks and whoever rewrites it.
OpensOnlyByOwner == \A p \in Providers : FoundOpen(p) => p \in opened
=============================================================================
