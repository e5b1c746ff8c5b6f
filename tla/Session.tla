------------------------------- MODULE Session -------------------------------
(* A tab of the desk as it signs in and calls the API: the hosted sign-in   *)
(* over PKCE and the tokens in the tab's storage (apps/desk/src/auth.ts),   *)
(* the boot that needs them (main.tsx), and the client whose reads share a  *)
(* few slots and are tried again while the desk starts (api.ts).  What the  *)
(* app does with the answers is in DeskApp.                                 *)
(*                                                                          *)
(* Time is what happens: a token expires, an answer comes, a page unloads.  *)
EXTENDS Naturals, Sequences, FiniteSets, Functions

CONSTANTS
  Reads, Acts,  \* calls: GETs, and POSTs
  Slots,        \* reads at once
  RETRIES       \* how often a read that got a 503 is tried again

\* Assumed wherever the constants get their values.
SessionAssumption == IsFiniteSet(Reads) /\ Reads \cap Acts = {} /\ Slots \in Nat \ {0} /\ RETRIES \in Nat

Calls == Reads \cup Acts

VARIABLES
  page,         \* what the tab shows
  tokens,       \* in the storage: "none", "valid", "expired" or "last": expired, and no refresh token
  pkce,         \* in the storage: the state of the sign-in this tab started is kept
  call,         \* of a call: where it stands, and how often it was tried
  activeReads,
  waitingReads  \* reads in the order they asked for a slot

storage == <<tokens, pkce>>
slots == <<activeReads, waitingReads>>
vars == <<page, storage, call, slots>>

TypeOK ==
  /\ page \in {"boot", "callback", "hosted", "public", "problem", "app", "leaving"}
  /\ tokens \in {"none", "valid", "expired", "last"} /\ pkce \in BOOLEAN
  /\ call \in [Calls -> [at : {"idle", "refresh", "wait", "sent", "sleep"}, attempt : 0 .. RETRIES]]
  /\ activeReads \in 0 .. Cardinality(Reads) /\ waitingReads \in Seq(Reads)

Idle == [at |-> "idle", attempt |-> 0]

\* The tab was opened, or reloaded, or comes back from the hosted page.
Init ==
  /\ page \in {"boot", "callback"} /\ tokens \in {"none", "valid", "expired", "last"} /\ pkce \in BOOLEAN
  /\ call = [c \in Calls |-> Idle] /\ activeReads = 0 /\ waitingReads = <<>>

Goes(c, at) == call' = [call EXCEPT ![c].at = at]

-----------------------------------------------------------------------------
(* Sign-in.                                                                *)

\* The state is this tab's and is used up, whatever comes of it.
completeSignIn ==
  /\ page = "callback" /\ pkce' = FALSE
  /\ \/ pkce /\ page' = "boot" /\ tokens' = "valid"
     \/ page' = "problem" /\ UNCHANGED tokens
  /\ UNCHANGED <<call, slots>>

\* The app, when there is a token or one can be had; otherwise the public page.
boot ==
  /\ page = "boot"
  /\ \/ tokens = "valid" /\ page' = "app" /\ UNCHANGED tokens
     \/ tokens = "expired" /\ \/ page' = "app" /\ tokens' = "valid"
                              \/ page' = "public" /\ tokens' = "none"
     \/ tokens \in {"none", "last"} /\ page' = "public" /\ tokens' = "none"
  /\ UNCHANGED <<pkce, call, slots>>

beginSignIn ==
  /\ page = "public" /\ page' = "hosted" /\ pkce' = TRUE
  /\ UNCHANGED <<tokens, call, slots>>

\* From the public page's problem, the root again; from the hosted page, the callback, or
\* somebody else's, or the root; after a sign-out the hosted page comes back to the root.
Return ==
  /\ \/ page = "problem" /\ page' = "boot"
     \/ page = "hosted" /\ page' \in {"callback", "boot"}
     \/ page = "leaving" /\ page' = "boot"
  /\ call' = [c \in Calls |-> Idle] /\ activeReads' = 0 /\ waitingReads' = <<>>
  /\ UNCHANGED storage

\* The storage is cleared at once; the page goes on until it unloads.
signOut ==
  /\ page = "app" /\ page' = "leaving" /\ tokens' = "none"
  /\ UNCHANGED <<pkce, call, slots>>

\* An hour, less a minute; a token response need not bring a refresh token.
Expire ==
  /\ tokens = "valid" /\ tokens' \in {"expired", "last"}
  /\ UNCHANGED <<page, pkce, call, slots>>

-----------------------------------------------------------------------------
(* A call: its token, its slot, its request.                               *)

Alive == page \in {"app", "leaving"}

\* A slot, or a place in the line.
acquireRead(c) ==
  IF activeReads < Slots THEN activeReads' = activeReads + 1 /\ Goes(c, "sent") /\ UNCHANGED waitingReads
  ELSE waitingReads' = Append(waitingReads, c) /\ Goes(c, "wait") /\ UNCHANGED activeReads

Send(c) == IF c \in Reads THEN acquireRead(c) ELSE Goes(c, "sent") /\ UNCHANGED slots

\* Without a token the call ends here, signed out; one that expired is refreshed first.
idToken(c) ==
  /\ page = "app" /\ call[c] = Idle
  /\ \/ tokens = "valid" /\ Send(c) /\ UNCHANGED tokens
     \/ tokens = "expired" /\ Goes(c, "refresh") /\ UNCHANGED <<tokens, slots>>
     \/ tokens \in {"none", "last"} /\ tokens' = "none" /\ UNCHANGED <<call, slots>>
  /\ UNCHANGED <<page, pkce>>

\* What comes back is written whatever the storage holds by now; a refusal clears it.
refreshed(c) ==
  /\ Alive /\ call[c].at = "refresh"
  /\ \/ tokens' = "valid" /\ Send(c)
     \/ tokens' = "none" /\ Goes(c, "idle") /\ UNCHANGED slots
  /\ UNCHANGED <<page, pkce>>

\* Mutant: the slot is given up, and handed on too.
releaseReadTwice ==
  /\ activeReads' = activeReads - 1
  /\ waitingReads' = IF waitingReads = <<>> THEN <<>> ELSE Tail(waitingReads)

\* The first of the line gets the slot; without one it is free.
releaseRead ==
  IF waitingReads = <<>> THEN activeReads' = activeReads - 1 /\ UNCHANGED waitingReads
  ELSE waitingReads' = Tail(waitingReads) /\ UNCHANGED activeReads

\* The call is over; the next read's promise resolves.
Ends(c) ==
  LET next == IF c \in Reads /\ waitingReads # <<>> THEN {Head(waitingReads)} ELSE {} IN
  call' = [d \in Calls |-> IF d = c THEN Idle ELSE IF d \in next THEN [call[d] EXCEPT !.at = "sent"] ELSE call[d]]

\* Answered for good, or the request threw: a read gives its slot back either way.
answered(c) ==
  /\ Alive /\ call[c].at = "sent" /\ Ends(c)
  /\ IF c \in Reads THEN releaseRead ELSE UNCHANGED slots
  /\ UNCHANGED <<page, storage>>

\* A 503: a read keeps its slot, waits a little and asks again.
unavailable(c) ==
  /\ Alive /\ c \in Reads /\ call[c].at = "sent" /\ call[c].attempt < RETRIES /\ Goes(c, "sleep")
  /\ UNCHANGED <<page, storage, slots>>

retry(c) ==
  /\ Alive /\ call[c].at = "sleep"
  /\ call' = [call EXCEPT ![c] = [at |-> "sent", attempt |-> @.attempt + 1]]
  /\ UNCHANGED <<page, storage, slots>>

Next ==
  \/ completeSignIn \/ boot \/ beginSignIn \/ Return \/ signOut \/ Expire
  \/ \E c \in Calls : idToken(c) \/ refreshed(c) \/ answered(c) \/ unavailable(c) \/ retry(c)

Spec == Init /\ [][Next]_vars

-----------------------------------------------------------------------------
(* Properties.                                                             *)

\* "leave capacity for model actions on the five-concurrency host" (api.ts:136): the reads
\* on their way are the slots taken and never more than there are, and no read waits
\* beside a slot that is free.
SlotsPassOn ==
  LET holders == {c \in Reads : call[c].at \in {"sent", "sleep"}} IN
  /\ activeReads = Cardinality(holders) /\ activeReads <= Slots
  /\ {c \in Reads : call[c].at = "wait"} = Range(waitingReads)
  /\ waitingReads # <<>> => activeReads = Slots
=============================================================================
