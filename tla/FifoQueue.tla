------------------------------ MODULE FifoQueue -----------------------------
(***************************************************************************)
(* What the presenter's queue promises (store.ts:322-347): tickets are     *)
(* taken oldest first, an entry is in one worker's hand at a time and is   *)
(* never put back.  The front entry may be lost on its way to a worker and *)
(* the queue may be cleared: delivery is at most once, in order.           *)
(***************************************************************************)
EXTENDS Naturals, Sequences

CONSTANTS Workers, Tickets

VARIABLES
  waiting,  \* the entries in line, oldest first
  hands,    \* the entry each worker has taken, if any
  put       \* how many entries were ever put in line

vars == <<waiting, hands, put>>

Init ==
  /\ waiting = <<>>
  /\ hands = [w \in Workers |-> {}]
  /\ put = 0

Put(t) ==
  /\ put' = put + 1
  /\ waiting' = Append(waiting, [id |-> put + 1, ticket |-> t])
  /\ UNCHANGED hands

Take(w) ==
  /\ waiting # <<>>
  /\ hands[w] = {}
  /\ hands' = [hands EXCEPT ![w] = {Head(waiting)}]
  /\ waiting' = Tail(waiting)
  /\ UNCHANGED put

Finish(w) ==
  /\ hands' = [hands EXCEPT ![w] = {}]
  /\ UNCHANGED <<waiting, put>>

LoseFront ==
  /\ waiting # <<>>
  /\ waiting' = Tail(waiting)
  /\ UNCHANGED <<hands, put>>

Clear ==
  /\ waiting' = <<>>
  /\ UNCHANGED <<hands, put>>

Next ==
  \/ \E t \in Tickets : Put(t)
  \/ \E w \in Workers : Take(w) \/ Finish(w)
  \/ LoseFront
  \/ Clear

Spec == Init /\ [][Next]_vars
=============================================================================
