------------------------------- MODULE Stacks -------------------------------
(* What is deployed: the seven stacks of the app (infra/lib/app.ts), which  *)
(* CI deploys from main but for its own and the air-gapped host's; the      *)
(* owner's commands `airgap up` and `airgap down` (scripts/airgap.mjs) and  *)
(* `teardown` (scripts/teardown.mjs), each a sequence of steps that may     *)
(* stop after any of them and be given again; and what outlives a stack in  *)
(* the retained exchange bucket, the first boot's tools and the public key  *)
(* the puller seals to.                                                     *)
(*                                                                          *)
(* The owner gives one command at a time, and no teardown while CI deploys. *)
EXTENDS Naturals, Sequences

VARIABLES
  stacks,   \* the stacks there are
  ci,       \* stacks a deployment has yet to come to
  command,  \* the owner's: "none", "up", "down" or "teardown"
  rest,     \* what it has still to do
  bucket,   \* the exchange bucket was made, and is retained
  tools,    \* tools/ of the bucket: what the first boot needs
  host,     \* the air-gapped host runs
  key       \* keys/ of the bucket: "none", the "host"'s or a "dead" host's

vars == <<stacks, ci, command, rest, bucket, tools, host, key>>

Ids == {"Ci", "Dns", "Site", "SharedHost", "Fleet", "Desk", "Airgap"}

\* What a stack imports or names: references between stacks, and the dependencies that are
\* said because only fixed names show them.
needs ==
  [Ci |-> {}, Dns |-> {}, Site |-> {"Dns"}, SharedHost |-> {}, Fleet |-> {},
   Desk |-> {"Site", "Dns", "SharedHost", "Fleet"}, Airgap |-> {"Fleet"}]

\* Mutant: the regions one after the other.
TEARDOWN_ORDER_ByRegion == <<"Airgap", "Fleet", "SharedHost", "Desk", "Site", "Dns", "Ci">>

TEARDOWN_ORDER == <<"Airgap", "Desk", "Fleet", "SharedHost", "Site", "Dns", "Ci">>

\* What CI deploys.
fromMain == {"Dns", "Site", "SharedHost", "Fleet", "Desk"}

TypeOK ==
  /\ stacks \subseteq Ids /\ ci \subseteq fromMain
  /\ command \in {"none", "up", "down", "teardown"} /\ rest \subseteq Ids \cup {"tools", "key"}
  /\ {bucket, tools, host} \subseteq BOOLEAN /\ key \in {"none", "host", "dead"}

\* The owner has deployed the role CI deploys with.
Init ==
  /\ stacks = {"Ci"} /\ ci = {} /\ command = "none" /\ rest = {}
  /\ bucket = FALSE /\ tools = FALSE /\ host = FALSE /\ key = "none"

-----------------------------------------------------------------------------
(* CI.                                                                     *)

\* A push to main; one deployment at a time.
Push ==
  /\ "Ci" \in stacks /\ ci = {} /\ command # "teardown" /\ ci' = fromMain
  /\ UNCHANGED <<stacks, command, rest, bucket, tools, host, key>>

\* Stack after stack in the order of what they need; the exchange bucket with the fleet's.
deploy(s) ==
  /\ s \in ci /\ needs[s] \cap ci = {} /\ ci' = ci \ {s}
  /\ stacks' = stacks \cup {s} /\ bucket' = (bucket \/ s = "Fleet")
  /\ UNCHANGED <<command, rest, tools, host, key>>

\* A stack that fails ends the deployment.
Fail ==
  /\ ci # {} /\ ci' = {}
  /\ UNCHANGED <<stacks, command, rest, bucket, tools, host, key>>

-----------------------------------------------------------------------------
(* The owner.                                                              *)

\* Both airgap commands need the fleet's outputs; `down` skips a stack that is not there,
\* and a teardown lists what it found once, before the owner confirms it.
give ==
  /\ command = "none"
  /\ \/ command' = "up" /\ "Fleet" \in stacks /\ rest' = {"tools", "Airgap"}
     \/ /\ command' = "down" /\ "Fleet" \in stacks
        /\ rest' = (stacks \cap {"Airgap"}) \cup {"key"}
     \/ /\ command' = "teardown" /\ ci = {} /\ stacks # {}
        /\ rest' = stacks
  /\ UNCHANGED <<stacks, ci, bucket, tools, host, key>>

\* A command does what it has to do in one order: first the tools, last the key.
Before(x, y) ==
  \/ x = "tools" \/ y = "key"
  \/ \E i, j \in DOMAIN TEARDOWN_ORDER : i < j /\ x = TEARDOWN_ORDER[i] /\ y = TEARDOWN_ORDER[j]

next(x) == x \in rest /\ (\A y \in rest \ {x} : Before(x, y)) /\ rest' = rest \ {x}

\* Each tool, against its pin.
staged ==
  /\ command = "up" /\ next("tools") /\ tools' = TRUE
  /\ UNCHANGED <<stacks, ci, command, bucket, host, key>>

up ==
  /\ command = "up" /\ next("Airgap") /\ stacks' = stacks \cup {"Airgap"}
  /\ UNCHANGED <<ci, command, bucket, tools, host, key>>

\* CloudFormation deletes the stack, the host with its own.
delete(s) ==
  /\ stacks' = stacks \ {s}
  /\ IF s = "Airgap" THEN host' = FALSE /\ key' = (IF key = "host" THEN "dead" ELSE key)
     ELSE UNCHANGED <<host, key>>

\* The stack, if it is there, and the public half whose private half died with the host.
down ==
  /\ command = "down"
  /\ \/ next("Airgap") /\ delete("Airgap")
     \/ next("key") /\ UNCHANGED <<stacks, host>> /\ key' = "none"
  /\ UNCHANGED <<ci, command, bucket, tools>>

teardown ==
  /\ command = "teardown" /\ \E s \in Ids : next(s) /\ delete(s)
  /\ UNCHANGED <<ci, command, bucket, tools>>

done ==
  /\ command # "none" /\ rest = {} /\ command' = "none"
  /\ UNCHANGED <<stacks, ci, rest, bucket, tools, host, key>>

\* The terminal closes, a call fails, a deletion does not end in its time.
Interrupt ==
  /\ rest # {} /\ command' = "none" /\ rest' = {}
  /\ UNCHANGED <<stacks, ci, bucket, tools, host, key>>

\* The host boots with the tools, and publishes the half of the key it made.
Boot ==
  /\ "Airgap" \in stacks /\ tools /\ ~ host /\ host' = TRUE /\ key' = "host"
  /\ UNCHANGED <<stacks, ci, command, rest, bucket, tools>>

Next ==
  \/ Push \/ (\E s \in fromMain : deploy(s)) \/ Fail
  \/ give \/ staged \/ up \/ down \/ teardown \/ done \/ Interrupt \/ Boot

Spec == Init /\ [][Next]_vars

-----------------------------------------------------------------------------
(* Properties.                                                             *)

\* "the thing that names them goes before the things it names" (lib/teardown.mjs:10),
\* wherever a deployment or a teardown stops; and once a `down` is through, "a key nobody
\* holds" (airgap.mjs:164) is not there, given again after an interruption, too.
NothingOrphaned ==
  /\ \A s \in stacks : needs[s] \subseteq stacks
  /\ command = "down" /\ rest = {} => key = "none" /\ ~ host
=============================================================================
