-------------------------------- MODULE Wire --------------------------------
(***************************************************************************)
(* The wire function of the eu-west host: services/eu-host/src/wire.ts.    *)
(*                                                                         *)
(* Several invocations (the desk's cut and restore, EventBridge's tick)    *)
(* may run at once: the Lambda reserves no concurrency and nothing locks   *)
(* the security group.  Every EC2 call is one step; between two of them    *)
(* anything may happen, and an invocation may end at any call (an AWS      *)
(* error, an unreadable ip-ranges.json, the 30 s timeout).                 *)
(*                                                                         *)
(* Invocations that find nothing to do (status, a tick on a connected wire *)
(* or a fresh cut, a cut of a cut wire, a restore of a clean group) change *)
(* nothing and are stuttering steps.                                       *)
(***************************************************************************)
EXTENDS Naturals

CONSTANTS
  Invocations,  \* the invocations that may be in flight together
  MaxFaults     \* how many invocations may fail for a reason of their own

ASSUME FaultsAssumption == MaxFaults \in Nat

VARIABLES
  egress,       \* the kinds of egress rules on the group
  tag,          \* the cut's instant on the group, by its age
  timeline,     \* the last wire event on the desk's timeline
  pc,           \* the call each invocation makes next
  saw,          \* the group as each invocation described it
  faults,       \* invocations that failed so far
  overlapped,   \* history: two invocations ran at once, or one failed
  bypassed      \* history: a restore found the open rule and narrow rules

group == <<egress, tag>>
history == <<overlapped, bypassed>>
vars == <<egress, tag, timeline, pc, saw, faults, overlapped, bypassed>>

Rules == {"open", "dynamo"}
Tags == {"none", "fresh", "old"}  \* "old": past WIRE_CUT_MAX_MINUTES, or unreadable
CutPCs == {"authorizeNarrow", "createTag", "revokeOpen", "reportCut"}
RestorePCs == {"authorizeOpen", "revokeNarrow", "deleteTag", "reportRestore"}
PCs == {"idle"} \cup CutPCs \cup RestorePCs
Described == [egress : SUBSET Rules, tag : Tags]
Clean == [egress |-> {"open"}, tag |-> "none"]

TypeOK ==
  /\ egress \in SUBSET Rules
  /\ tag \in Tags
  /\ timeline \in {"none", "cut", "restore"}
  /\ pc \in [Invocations -> PCs]
  /\ saw \in [Invocations -> Described]
  /\ faults \in 0 .. MaxFaults
  /\ overlapped \in BOOLEAN
  /\ bypassed \in BOOLEAN

Connected(rules) == "open" \in rules
shouldRestore(t) == t # "fresh"
InFlight == {i \in Invocations : pc[i] # "idle"}

Init ==
  /\ egress = {"open"}
  /\ tag = "none"
  /\ timeline = "none"
  /\ pc = [i \in Invocations |-> "idle"]
  /\ saw = [i \in Invocations |-> Clean]
  /\ faults = 0
  /\ overlapped = FALSE
  /\ bypassed = FALSE

-----------------------------------------------------------------------------
(* An invocation starts by describing the group, and decides from that.    *)

describe(i, next, found) ==
  /\ pc[i] = "idle"
  /\ saw' = [saw EXCEPT ![i] = found]
  /\ pc' = [pc EXCEPT ![i] = next]
  /\ overlapped' = (overlapped \/ InFlight # {})
  /\ UNCHANGED <<egress, tag, timeline, faults>>

Current == [egress |-> egress, tag |-> tag]

\* An invocation that ends forgets the group it described.
Goto(i, next) ==
  /\ pc' = [pc EXCEPT ![i] = next]
  /\ saw' = IF next = "idle" THEN [saw EXCEPT ![i] = Clean] ELSE saw

\* After the open rule: the calls the described group asks for, in order.
AfterOpen(rules) == IF "dynamo" \in rules THEN "revokeNarrow" ELSE "deleteTag"

\* Mutant: the open rule is revoked before the narrow one is there.
BeginCutRevokingFirst(i) ==
  /\ Connected(egress)
  /\ describe(i, "revokeOpen", Clean)
  /\ UNCHANGED bypassed

BeginCut(i) ==
  /\ Connected(egress)
  /\ describe(i, "authorizeNarrow", Clean)
  /\ UNCHANGED bypassed

BeginRestore(i) ==
  /\ ~ (egress = {"open"} /\ tag = "none")
  /\ describe(i, IF Connected(egress) THEN AfterOpen(egress) ELSE "authorizeOpen", Current)
  /\ bypassed' = (bypassed \/ egress = Rules)

\* Mutant: the rule waits for a tag that says when the cut was.
BeginTickNeedingTag(i) ==
  /\ ~ Connected(egress)
  /\ tag = "old"
  /\ describe(i, "authorizeOpen", Current)
  /\ UNCHANGED bypassed

BeginTick(i) ==
  /\ ~ Connected(egress)
  /\ shouldRestore(tag)
  /\ describe(i, "authorizeOpen", Current)
  /\ UNCHANGED bypassed

-----------------------------------------------------------------------------
(* The calls.  EC2 refuses to authorize a rule the group already has       *)
(* (InvalidPermission.Duplicate), which ends the invocation; it answers    *)
(* the revocation of an absent rule with or without an error.              *)

Authorize(i, rule, next) ==
  \/ /\ rule \notin egress
     /\ egress' = egress \cup {rule}
     /\ Goto(i, next)
  \/ /\ rule \in egress
     /\ Goto(i, "idle")
     /\ UNCHANGED egress

Revoke(i, rule, next) ==
  /\ egress' = egress \ {rule}
  /\ \/ Goto(i, next)
     \/ rule \notin egress /\ Goto(i, "idle")

CutAuthorizeNarrow(i) ==
  /\ pc[i] = "authorizeNarrow"
  /\ Authorize(i, "dynamo", "createTag")
  /\ UNCHANGED <<tag, timeline, faults, history>>

CutCreateTag(i) ==
  /\ pc[i] = "createTag"
  /\ tag' = "fresh"
  /\ Goto(i, "revokeOpen")
  /\ UNCHANGED <<egress, timeline, faults, history>>

CutRevokeOpen(i) ==
  /\ pc[i] = "revokeOpen"
  /\ Revoke(i, "open", "reportCut")
  /\ UNCHANGED <<tag, timeline, faults, history>>

CutReport(i) ==
  /\ pc[i] = "reportCut"
  /\ timeline' = "cut"
  /\ Goto(i, "idle")
  /\ UNCHANGED <<group, faults, history>>

RestoreAuthorizeOpen(i) ==
  /\ pc[i] = "authorizeOpen"
  /\ Authorize(i, "open", AfterOpen(saw[i].egress))
  /\ UNCHANGED <<tag, timeline, faults, history>>

RestoreRevokeNarrow(i) ==
  /\ pc[i] = "revokeNarrow"
  /\ Revoke(i, "dynamo", "deleteTag")
  /\ UNCHANGED <<tag, timeline, faults, history>>

\* Mutant: the restore leaves the tag.
RestoreKeepingTag(i) ==
  /\ pc[i] = "deleteTag"
  /\ Goto(i, IF saw[i].egress = {"open"} THEN "idle" ELSE "reportRestore")
  /\ UNCHANGED <<group, timeline, faults, history>>

\* The tag goes only when the described group had one.  A restore that only
\* removed a tag changed no rule and reports nothing.
RestoreDeleteTag(i) ==
  /\ pc[i] = "deleteTag"
  /\ tag' = IF saw[i].tag # "none" THEN "none" ELSE tag
  /\ Goto(i, IF saw[i].egress = {"open"} THEN "idle" ELSE "reportRestore")
  /\ UNCHANGED <<egress, timeline, faults, history>>

RestoreReport(i) ==
  /\ pc[i] = "reportRestore"
  /\ timeline' = "restore"
  /\ Goto(i, "idle")
  /\ UNCHANGED <<group, faults, history>>

-----------------------------------------------------------------------------
(* What happens around the function.                                       *)

\* The invocation ends at its next call: the call fails, or the Lambda times
\* out.  At a report this is also the best-effort event that is lost.
Fail(i) ==
  /\ pc[i] # "idle"
  /\ faults < MaxFaults
  /\ faults' = faults + 1
  /\ Goto(i, "idle")
  /\ overlapped' = TRUE
  /\ UNCHANGED <<group, timeline, bypassed>>

\* WIRE_CUT_MAX_MINUTES pass since the cut.
CutAges ==
  /\ tag = "fresh"
  /\ tag' = "old"
  /\ UNCHANGED <<egress, timeline, pc, saw, faults, history>>

\* A stack update rewrites the group's tags, or somebody removes this one.
TagIsLost ==
  /\ tag # "none"
  /\ tag' = "none"
  /\ UNCHANGED <<egress, timeline, pc, saw, faults, history>>

Cut(i) ==
  BeginCut(i) \/ CutAuthorizeNarrow(i) \/ CutCreateTag(i) \/ CutRevokeOpen(i) \/ CutReport(i)
Restoring(i) ==
  \/ RestoreAuthorizeOpen(i) \/ RestoreRevokeNarrow(i)
  \/ RestoreDeleteTag(i) \/ RestoreReport(i)

Next ==
  \/ \E i \in Invocations :
       Cut(i) \/ BeginRestore(i) \/ BeginTick(i) \/ Restoring(i) \/ Fail(i)
  \/ CutAges
  \/ TagIsLost

Spec == Init /\ [][Next]_vars

\* Lambda runs an invocation it has started, time passes, and EventBridge
\* delivers a tick every five minutes.  Nobody has to cut or restore.
Runs(i) == CutAuthorizeNarrow(i) \/ CutCreateTag(i) \/ CutRevokeOpen(i) \/ CutReport(i) \/ Restoring(i)
Fairness ==
  /\ \A i \in Invocations : WF_vars(Runs(i))
  /\ WF_vars(CutAges)
  /\ WF_vars(\E i \in Invocations : BeginTick(i))

FairSpec == Spec /\ Fairness

-----------------------------------------------------------------------------
(* Properties.                                                             *)

\* An invocation between its authorize and its last revocation: it found the
\* rule it added absent, and the group now has both kinds.
Halfway(i) == pc[i] \in {"createTag", "revokeOpen", "revokeNarrow"}

\* EC2's refusal of a duplicate rule is the only lock there is: as long as no
\* restore skipped its authorize, at most one invocation is between adding a
\* rule and revoking the other, and the group has both kinds meanwhile.
HalfwayIsExclusive ==
  ~ bypassed => \A i \in Invocations : Halfway(i) =>
                  /\ egress = Rules
                  /\ \A j \in Invocations : Halfway(j) => j = i

\* "The status writer never loses the tables" (wire.ts:155) under any interleaving of cuts,
\* ticks, restores and failures in which no restore found a half-cut group.
TablesKept == ~ bypassed => egress # {}

\* The same promise without the exception, as wire.ts:155 and the head of the
\* test state it: the host always reaches the tables.
NeverDark == egress # {}

\* Invocations one at a time and without a failure leave no half-done drill
\* behind: the group is open and untagged, or narrow, and the timeline's last
\* word says which.
DrillsAreWhole ==
  ~ overlapped /\ InFlight = {} =>
    \/ egress = {"open"} /\ tag = "none" /\ timeline # "cut"
    \/ egress = {"dynamo"} /\ timeline = "cut"

\* A drill nobody finished cannot strand the host (wire.ts:9-12): however it
\* was cut, and whoever failed on the way, the open rule comes back.
NeverStranded == ~ Connected(egress) ~> Connected(egress)
=============================================================================
