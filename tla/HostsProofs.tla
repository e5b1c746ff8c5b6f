----------------------------- MODULE HostsProofs -----------------------------
(***************************************************************************)
(* Proofs about what the hosts do by themselves: the drill of the wire on  *)
(* the eu-west host, the command a presenter's click runs there, the       *)
(* runtime of the air-gapped host and the way of its telemetry; each in a  *)
(* part of its own, and then for the hosts together.                       *)
(***************************************************************************)
EXTENDS MCHosts, TLAPS

(***************************************************************************)
(* The wire.  For any number of concurrent invocations and failures: what  *)
(* the wire function keeps as long as no restore skipped its authorize.    *)
(***************************************************************************)

(* Moving an invocation on, or ending it, keeps its bookkeeping in type. *)
LEMMA GotoType ==
  ASSUME TypeOK, NEW i \in Invocations, NEW next \in PCs, Goto(i, next)
  PROVE  pc' \in [Invocations -> PCs] /\ saw' \in [Invocations -> Described]
<1>1. Clean \in Described
  BY DEF Clean, Described, Rules, Tags
<1>2. QED
  BY <1>1 DEF Goto, TypeOK

LEMMA DescribeType ==
  ASSUME TypeOK, NEW i \in Invocations, NEW next \in PCs,
         NEW found \in Described, describe(i, next, found),
         bypassed' \in BOOLEAN
  PROVE  TypeOK'
BY DEF TypeOK, describe

(* The type invariant, one action at a time. *)
LEMMA WireTypeStep == TypeOK /\ [Next]_vars => TypeOK'
<1> SUFFICES ASSUME TypeOK, [Next]_vars PROVE TypeOK'
  OBVIOUS
<1> USE DEF PCs, CutPCs, RestorePCs
<1>a. Clean \in Described /\ Current \in Described
  BY DEF Clean, Current, Described, Rules, Tags, TypeOK
<1>b. bypassed \in BOOLEAN
  BY DEF TypeOK
<1>c. {"open", "dynamo"} = Rules
  BY DEF Rules
<1>1. ASSUME NEW i \in Invocations, BeginCut(i) PROVE TypeOK'
  BY <1>1, <1>a, <1>b, DescribeType DEF BeginCut
<1>2. ASSUME NEW i \in Invocations, BeginRestore(i) PROVE TypeOK'
  <2> DEFINE next == IF Connected(egress) THEN AfterOpen(egress) ELSE "authorizeOpen"
  <2>1. next \in PCs
    BY DEF AfterOpen
  <2>2. bypassed' \in BOOLEAN
    BY <1>2, <1>b DEF BeginRestore
  <2>3. describe(i, next, Current)
    BY <1>2 DEF BeginRestore
  <2>4. QED
    BY <2>1, <2>2, <2>3, <1>a, DescribeType
<1>3. ASSUME NEW i \in Invocations, BeginTick(i) PROVE TypeOK'
  BY <1>3, <1>a, <1>b, DescribeType DEF BeginTick
<1>4. ASSUME NEW i \in Invocations, CutAuthorizeNarrow(i) PROVE TypeOK'
  <2>1. \E next \in PCs : Goto(i, next)
    BY <1>4 DEF CutAuthorizeNarrow, Authorize
  <2>2. egress' \in SUBSET Rules
    BY <1>4 DEF CutAuthorizeNarrow, Authorize, TypeOK, Rules
  <2>3. QED
    BY <1>4, <2>1, <2>2, GotoType DEF CutAuthorizeNarrow, TypeOK, history
<1>5. ASSUME NEW i \in Invocations, CutCreateTag(i) PROVE TypeOK'
  BY <1>5, GotoType DEF CutCreateTag, TypeOK, Tags, history
<1>6. ASSUME NEW i \in Invocations, CutRevokeOpen(i) PROVE TypeOK'
  <2>1. \E next \in PCs : Goto(i, next)
    BY <1>6 DEF CutRevokeOpen, Revoke
  <2>2. QED
    BY <1>6, <2>1, GotoType DEF CutRevokeOpen, Revoke, TypeOK, history
<1>7. ASSUME NEW i \in Invocations, CutReport(i) PROVE TypeOK'
  BY <1>7, GotoType DEF CutReport, TypeOK, group, history
<1>8. ASSUME NEW i \in Invocations, RestoreAuthorizeOpen(i) PROVE TypeOK'
  <2>1. \E next \in PCs : Goto(i, next)
    BY <1>8 DEF RestoreAuthorizeOpen, Authorize, AfterOpen
  <2>2. egress' \in SUBSET Rules
    BY <1>8 DEF RestoreAuthorizeOpen, Authorize, TypeOK, Rules
  <2>3. QED
    BY <1>8, <2>1, <2>2, GotoType DEF RestoreAuthorizeOpen, TypeOK, history
<1>9. ASSUME NEW i \in Invocations, RestoreRevokeNarrow(i) PROVE TypeOK'
  <2>1. \E next \in PCs : Goto(i, next)
    BY <1>9 DEF RestoreRevokeNarrow, Revoke
  <2>2. QED
    BY <1>9, <2>1, GotoType DEF RestoreRevokeNarrow, Revoke, TypeOK, history
<1>10. ASSUME NEW i \in Invocations, RestoreDeleteTag(i) PROVE TypeOK'
  <2>1. \E next \in PCs : Goto(i, next)
    BY <1>10 DEF RestoreDeleteTag
  <2>2. QED
    BY <1>10, <2>1, GotoType DEF RestoreDeleteTag, TypeOK, Tags, history
<1>11. ASSUME NEW i \in Invocations, RestoreReport(i) PROVE TypeOK'
  BY <1>11, GotoType DEF RestoreReport, TypeOK, group, history
<1>12. ASSUME NEW i \in Invocations, Fail(i) PROVE TypeOK'
  BY <1>12, GotoType, FaultsAssumption DEF Fail, TypeOK, group
<1>13. CASE CutAges
  BY <1>13 DEF CutAges, TypeOK, Tags, history
<1>14. CASE TagIsLost
  BY <1>14 DEF TagIsLost, TypeOK, Tags, history
<1>15. CASE UNCHANGED vars
  BY <1>15 DEF vars, TypeOK
<1>16. QED
  BY <1>1, <1>2, <1>3, <1>4, <1>5, <1>6, <1>7, <1>8, <1>9, <1>10, <1>11, <1>12,
     <1>13, <1>14, <1>15 DEF Next, Cut, Restoring

LEMMA WireTypeInit == Init => TypeOK
<1> SUFFICES ASSUME Init PROVE TypeOK
  OBVIOUS
<1>1. Clean \in Described
  BY DEF Clean, Described, Rules, Tags
<1>2. pc \in [Invocations -> PCs] /\ saw \in [Invocations -> Described]
  BY <1>1 DEF Init, PCs
<1>3. egress \in SUBSET Rules /\ tag \in Tags
  BY DEF Init, Rules, Tags
<1>4. faults \in 0 .. MaxFaults
  BY FaultsAssumption DEF Init
<1>5. QED
  BY <1>2, <1>3, <1>4 DEF Init, TypeOK

(* The program counters, the rules and the fault count stay in their types *)
(* (wire.ts:104-189).                                                      *)
THEOREM WireTypeCorrect == Spec => []TypeOK
  BY WireTypeInit, WireTypeStep, PTL DEF Spec

-----------------------------------------------------------------------------
(* The inductive invariant.  While no restore bypassed its authorize, the  *)
(* invocation between an authorize and the revocation that follows it      *)
(* holds the group: it has both kinds of rule, which makes EC2 refuse the  *)
(* authorize of every other invocation.  A restore about to revoke the     *)
(* narrow rules has itself just added the open one; one about to authorize *)
(* the open rule described a group without it.                             *)
WireInv ==
  /\ TypeOK
  /\ HalfwayIsExclusive
  /\ TablesKept

(* A step that moves no rule and puts no invocation between its calls      *)
(* keeps the invariant.                                                    *)
LEMMA QuietStep ==
  ASSUME WireInv, TypeOK', egress' = egress, bypassed' = bypassed,
         \A i \in Invocations : Halfway(i)' => Halfway(i)
  PROVE  WireInv'
BY DEF WireInv, HalfwayIsExclusive, TablesKept

(* An invocation that adds a rule it found absent becomes the only one     *)
(* between its calls; one that is refused gives up.                        *)
LEMMA AuthorizeStep ==
  ASSUME WireInv, TypeOK', bypassed' = bypassed,
         NEW i \in Invocations, NEW rule \in Rules, NEW next \in PCs,
         Authorize(i, rule, next), ~ Halfway(i),
         ~ bypassed => egress # {},
         next \in {"createTag", "revokeNarrow", "deleteTag"},
         next = "deleteTag" => rule = "open"
  PROVE  WireInv'
<1>1. CASE bypassed
  BY <1>1 DEF WireInv, HalfwayIsExclusive, TablesKept
<1>2. CASE ~ bypassed /\ rule \in egress
  <2>1. egress' = egress /\ pc' = [pc EXCEPT ![i] = "idle"]
    BY <1>2 DEF Authorize, Goto
  <2>2. \A j \in Invocations : Halfway(j)' => Halfway(j)
    BY <2>1 DEF Halfway, WireInv, TypeOK
  <2>3. QED
    BY <2>1, <2>2, QuietStep
<1>3. CASE ~ bypassed /\ rule \notin egress
  <2>1. egress' = egress \cup {rule} /\ pc' = [pc EXCEPT ![i] = next]
    BY <1>3 DEF Authorize, Goto
  <2>2. egress' = Rules
    BY <1>3, <2>1 DEF WireInv, TypeOK, Rules
  <2>3. \A j \in Invocations : ~ Halfway(j)
    BY <1>3 DEF WireInv, HalfwayIsExclusive
  <2>4. \A j \in Invocations : Halfway(j)' => j = i
    BY <2>1, <2>3 DEF Halfway, WireInv, TypeOK
  <2>5. QED
    BY <2>2, <2>4 DEF WireInv, HalfwayIsExclusive, TablesKept, Rules
<1>4. QED
  BY <1>1, <1>2, <1>3

(* The invocation between its calls is alone there: after its revocation   *)
(* the rule it added is left, and nobody is between calls.                 *)
LEMMA RevokeStep ==
  ASSUME WireInv, TypeOK', bypassed' = bypassed,
         NEW i \in Invocations, NEW rule \in Rules,
         NEW next \in {"reportCut", "deleteTag"},
         Revoke(i, rule, next), Halfway(i)
  PROVE  WireInv'
<1>1. CASE bypassed
  BY <1>1 DEF WireInv, HalfwayIsExclusive, TablesKept
<1>2. CASE ~ bypassed
  <2>1. egress = Rules /\ \A j \in Invocations : Halfway(j) => j = i
    BY <1>2 DEF WireInv, HalfwayIsExclusive
  <2>2. egress' = Rules \ {rule} /\ pc' = [pc EXCEPT ![i] = next]
    BY <2>1 DEF Revoke, Goto
  <2>3. \A j \in Invocations : ~ Halfway(j)'
    BY <2>1, <2>2 DEF Halfway, WireInv, TypeOK
  <2>4. egress' # {}
    BY <2>2 DEF Rules
  <2>5. QED
    BY <2>3, <2>4 DEF WireInv, HalfwayIsExclusive, TablesKept
<1>3. QED
  BY <1>1, <1>2

LEMMA WireStepKeeps == WireInv /\ [Next]_vars => WireInv'
<1> SUFFICES ASSUME WireInv, [Next]_vars PROVE WireInv'
  OBVIOUS
<1>a. TypeOK /\ TypeOK'
  BY WireTypeStep DEF WireInv
<1>b. {"open", "dynamo"} = Rules
  BY DEF Rules
<1>c. {"createTag", "revokeNarrow", "deleteTag"} \subseteq PCs
  BY DEF PCs, CutPCs, RestorePCs
<1>d. ~ bypassed => egress # {}
  BY DEF WireInv, TablesKept
<1>1. ASSUME NEW i \in Invocations, BeginCut(i) PROVE WireInv'
  BY <1>1, <1>a, QuietStep DEF BeginCut, describe, Halfway, TypeOK
<1>2. ASSUME NEW i \in Invocations, BeginRestore(i) PROVE WireInv'
  <2>1. CASE bypassed'
    BY <1>a, <2>1 DEF WireInv, HalfwayIsExclusive, TablesKept
  <2>2. CASE ~ bypassed'
    <3>1. ~ bypassed /\ bypassed' = bypassed /\ egress # Rules /\ egress' = egress
      BY <1>2, <1>a, <2>2 DEF BeginRestore, describe, TypeOK
    <3>2. Connected(egress) => AfterOpen(egress) = "deleteTag"
      BY <1>a, <3>1 DEF Connected, AfterOpen, TypeOK, Rules
    <3>3. pc' = [pc EXCEPT ![i] = "deleteTag"] \/ pc' = [pc EXCEPT ![i] = "authorizeOpen"]
      BY <1>2, <3>2 DEF BeginRestore, describe
    <3>4. \A j \in Invocations : Halfway(j)' => Halfway(j)
      BY <1>a, <3>3 DEF Halfway, TypeOK
    <3>5. QED
      BY <1>a, <3>1, <3>4, QuietStep
  <2>3. QED
    BY <2>1, <2>2
<1>3. ASSUME NEW i \in Invocations, BeginTick(i) PROVE WireInv'
  BY <1>3, <1>a, QuietStep DEF BeginTick, describe, Halfway, TypeOK
<1>4. ASSUME NEW i \in Invocations, CutAuthorizeNarrow(i) PROVE WireInv'
  BY <1>4, <1>a, <1>b, <1>c, <1>d, AuthorizeStep DEF CutAuthorizeNarrow, Halfway, history
<1>5. ASSUME NEW i \in Invocations, CutCreateTag(i) PROVE WireInv'
  BY <1>5, <1>a, QuietStep DEF CutCreateTag, Goto, Halfway, TypeOK, history
<1>6. ASSUME NEW i \in Invocations, CutRevokeOpen(i) PROVE WireInv'
  BY <1>6, <1>a, <1>b, RevokeStep DEF CutRevokeOpen, Halfway, history
<1>7. ASSUME NEW i \in Invocations, CutReport(i) PROVE WireInv'
  BY <1>7, <1>a, QuietStep DEF CutReport, Goto, Halfway, TypeOK, group, history
<1>8. ASSUME NEW i \in Invocations, RestoreAuthorizeOpen(i) PROVE WireInv'
  <2>1. AfterOpen(saw[i].egress) \in {"revokeNarrow", "deleteTag"}
    BY DEF AfterOpen
  <2>2. QED
    BY <1>8, <2>1, <1>a, <1>b, <1>c, <1>d, AuthorizeStep
    DEF RestoreAuthorizeOpen, Halfway, history
<1>9. ASSUME NEW i \in Invocations, RestoreRevokeNarrow(i) PROVE WireInv'
  BY <1>9, <1>a, <1>b, RevokeStep DEF RestoreRevokeNarrow, Halfway, history
<1>10. ASSUME NEW i \in Invocations, RestoreDeleteTag(i) PROVE WireInv'
  BY <1>10, <1>a, QuietStep DEF RestoreDeleteTag, Goto, Halfway, TypeOK, history
<1>11. ASSUME NEW i \in Invocations, RestoreReport(i) PROVE WireInv'
  BY <1>11, <1>a, QuietStep DEF RestoreReport, Goto, Halfway, TypeOK, group, history
<1>12. ASSUME NEW i \in Invocations, Fail(i) PROVE WireInv'
  BY <1>12, <1>a, QuietStep DEF Fail, Goto, Halfway, TypeOK, group
<1>13. CASE CutAges
  BY <1>13, <1>a, QuietStep DEF CutAges, Halfway, history
<1>14. CASE TagIsLost
  BY <1>14, <1>a, QuietStep DEF TagIsLost, Halfway, history
<1>15. CASE UNCHANGED vars
  BY <1>15, <1>a, QuietStep DEF vars, Halfway
<1>16. QED
  BY <1>1, <1>2, <1>3, <1>4, <1>5, <1>6, <1>7, <1>8, <1>9, <1>10, <1>11, <1>12,
     <1>13, <1>14, <1>15 DEF Next, Cut, Restoring

LEMMA WireStarts == Init => WireInv
BY WireTypeInit DEF Init, WireInv, HalfwayIsExclusive, TablesKept, Halfway

LEMMA WireInvariant == Spec => []WireInv
BY WireStarts, WireStepKeeps, PTL DEF Spec

(* Any number of cuts, restores and ticks at once, with any number of      *)
(* failures: at most one of them is between adding a rule and revoking the *)
(* other (wire.ts:121-127, 156-159), unless a restore found both kinds.    *)
THEOREM MutualExclusion == Spec => []HalfwayIsExclusive
<1>1. WireInv => HalfwayIsExclusive
  BY DEF WireInv
<1>2. QED
  BY <1>1, WireInvariant, PTL

(* ... and then the host always has a rule left to reach the tables by     *)
(* (wire.ts:155).                                                          *)
THEOREM TablesStayReachable == Spec => []TablesKept
<1>1. WireInv => TablesKept
  BY DEF WireInv
<1>2. QED
  BY <1>1, WireInvariant, PTL

-----------------------------------------------------------------------------
(* One drill at a time.  What an invocation that is alone has found and    *)
(* done by each of its calls: a cut starts from an open, untagged group; a *)
(* restore from a narrow one, whose tag can only go away meanwhile.        *)
Narrowed(i) == saw[i].egress = {"dynamo"} /\ (saw[i].tag = "none" => tag = "none")

Stands(i) ==
  /\ pc[i] = "authorizeNarrow" => egress = {"open"} /\ tag = "none" /\ timeline # "cut"
  /\ pc[i] \in {"createTag", "revokeOpen"} => egress = Rules
  /\ pc[i] = "reportCut" => egress = {"dynamo"}
  /\ pc[i] = "authorizeOpen" => egress = {"dynamo"} /\ Narrowed(i)
  /\ pc[i] = "revokeNarrow" => egress = Rules /\ Narrowed(i)
  /\ pc[i] = "deleteTag" => egress = {"open"} /\ Narrowed(i)
  /\ pc[i] = "reportRestore" => egress = {"open"} /\ tag = "none"

Alone ==
  ~ overlapped =>
    /\ \A i, j \in Invocations : pc[i] # "idle" /\ pc[j] # "idle" => i = j
    /\ \A i \in Invocations : Stands(i)

DrillInv == TypeOK /\ Alone /\ DrillsAreWhole

(* The only invocation takes a call: the others stay idle, so that what is *)
(* left to show is where it stands, and the group when it ends.            *)
LEMMA OneMoves ==
  ASSUME DrillInv, ~ overlapped', overlapped' = overlapped,
         NEW i \in Invocations, pc[i] # "idle", NEW next \in PCs, pc' = [pc EXCEPT ![i] = next],
         Stands(i)', next = "idle" => \/ egress' = {"open"} /\ tag' = "none" /\ timeline' # "cut"
                                      \/ egress' = {"dynamo"} /\ timeline' = "cut"
  PROVE  Alone' /\ DrillsAreWhole'
<1>1. \A j \in Invocations \ {i} : pc[j] = "idle" /\ pc'[j] = "idle"
  BY DEF DrillInv, Alone, TypeOK
<1>2. pc'[i] = next
  BY DEF DrillInv, TypeOK
<1>3. Alone'
  BY <1>1 DEF Alone, Stands
<1>4. DrillsAreWhole'
  BY <1>1, <1>2 DEF DrillsAreWhole, InFlight
<1>5. QED
  BY <1>3, <1>4

(* An invocation that starts finds nobody in flight, and a whole group.    *)
LEMMA OneStarts ==
  ASSUME DrillInv, ~ overlapped',
         NEW i \in Invocations, NEW next \in PCs \ {"idle"}, NEW found, describe(i, next, found)
  PROVE  /\ \A j \in Invocations : pc[j] = "idle"
         /\ \/ egress = {"open"} /\ tag = "none" /\ timeline # "cut"
            \/ egress = {"dynamo"} /\ timeline = "cut"
         /\ pc'[i] = next /\ saw'[i] = found /\ UNCHANGED <<egress, tag, timeline>>
         /\ Stands(i)' => Alone' /\ DrillsAreWhole'
<1>1. ~ overlapped /\ InFlight = {} /\ UNCHANGED <<egress, tag, timeline>>
  BY DEF describe
<1>2. pc'[i] = next /\ saw'[i] = found /\ \A j \in Invocations \ {i} : pc'[j] = pc[j]
  BY DEF describe, DrillInv, TypeOK
<1>3. \A j \in Invocations : pc[j] = "idle"
  BY <1>1 DEF InFlight
<1>4. Stands(i)' => Alone'
  BY <1>2, <1>3 DEF Alone, Stands
<1>5. i \in InFlight'
  BY <1>2 DEF InFlight
<1>6. QED
  BY <1>1, <1>2, <1>3, <1>4, <1>5 DEF DrillsAreWhole, DrillInv

LEMMA DrillStep == DrillInv /\ [Next]_vars => DrillInv'
<1> SUFFICES ASSUME DrillInv, [Next]_vars PROVE DrillInv'
  OBVIOUS
<1>a. TypeOK /\ TypeOK'
  BY WireTypeStep DEF DrillInv
<1>b. {"open", "dynamo"} = Rules /\ {"open"} # Rules /\ {"dynamo"} # Rules /\ {"open"} # {"dynamo"}
      /\ Rules \ {"open"} = {"dynamo"} /\ Rules \ {"dynamo"} = {"open"}
      /\ "open" \notin {"dynamo"} /\ "dynamo" \notin {"open"}
  BY DEF Rules
<1>c. CASE overlapped'
  BY <1>a, <1>c DEF DrillInv, Alone, DrillsAreWhole
<1>d. CASE ~ overlapped'
  <2> USE <1>d DEF PCs, CutPCs, RestorePCs
  <2>z. SUFFICES Alone' /\ DrillsAreWhole'
    BY <1>a DEF DrillInv
  <2>a. ASSUME NEW i \in Invocations, pc[i] # "idle", overlapped' = overlapped PROVE Stands(i)
    BY <2>a DEF DrillInv, Alone
  <2>1. ASSUME NEW i \in Invocations, BeginCut(i) PROVE Alone' /\ DrillsAreWhole'
    <3>1. describe(i, "authorizeNarrow", Clean) /\ "open" \in egress
      BY <2>1 DEF BeginCut, Connected
    <3>2. /\ egress = {"open"} /\ tag = "none" /\ timeline # "cut"
          /\ pc'[i] = "authorizeNarrow" /\ UNCHANGED <<egress, tag, timeline>>
          /\ Stands(i)' => Alone' /\ DrillsAreWhole'
      BY <3>1, <1>b, OneStarts
    <3>3. QED
      BY <3>2 DEF Stands
  <2>2. ASSUME NEW i \in Invocations, BeginRestore(i) \/ BeginTick(i) PROVE Alone' /\ DrillsAreWhole'
    <3>1. PICK next \in PCs \ {"idle"} :
            /\ describe(i, next, Current) /\ ~ (egress = {"open"} /\ tag = "none")
            /\ egress = {"dynamo"} => next = "authorizeOpen"
      BY <2>2, <1>b DEF BeginRestore, BeginTick, Connected, AfterOpen
    <3>2. /\ egress = {"dynamo"} /\ pc'[i] = next /\ saw'[i] = Current /\ UNCHANGED <<egress, tag, timeline>>
          /\ Stands(i)' => Alone' /\ DrillsAreWhole'
      BY <3>1, OneStarts
    <3>3. QED
      BY <3>1, <3>2 DEF Stands, Narrowed, Current
  <2>3. ASSUME NEW i \in Invocations, CutAuthorizeNarrow(i) PROVE Alone' /\ DrillsAreWhole'
    <3>1. egress = {"open"} /\ overlapped' = overlapped /\ pc[i] = "authorizeNarrow"
      BY <2>3, <2>a DEF CutAuthorizeNarrow, history, Stands
    <3>2. egress' = Rules /\ pc' = [pc EXCEPT ![i] = "createTag"]
      BY <2>3, <3>1, <1>b DEF CutAuthorizeNarrow, Authorize, Goto
    <3>3. Stands(i)'
      BY <3>2, <1>a DEF Stands, TypeOK
    <3>4. QED
      BY <3>1, <3>2, <3>3, OneMoves
  <2>4. ASSUME NEW i \in Invocations, CutCreateTag(i) PROVE Alone' /\ DrillsAreWhole'
    <3>1. egress = Rules /\ overlapped' = overlapped /\ pc[i] = "createTag" /\ egress' = egress
          /\ pc' = [pc EXCEPT ![i] = "revokeOpen"]
      BY <2>4, <2>a DEF CutCreateTag, history, Stands, Goto
    <3>2. Stands(i)'
      BY <3>1, <1>a DEF Stands, TypeOK
    <3>3. QED
      BY <3>1, <3>2, OneMoves
  <2>5. ASSUME NEW i \in Invocations, CutRevokeOpen(i) PROVE Alone' /\ DrillsAreWhole'
    <3>1. egress = Rules /\ overlapped' = overlapped /\ pc[i] = "revokeOpen"
      BY <2>5, <2>a DEF CutRevokeOpen, history, Stands
    <3>2. egress' = {"dynamo"} /\ pc' = [pc EXCEPT ![i] = "reportCut"]
      BY <2>5, <3>1, <1>b DEF CutRevokeOpen, Revoke, Goto
    <3>3. Stands(i)'
      BY <3>2, <1>a DEF Stands, TypeOK
    <3>4. QED
      BY <3>1, <3>2, <3>3, OneMoves
  <2>6. ASSUME NEW i \in Invocations, CutReport(i) PROVE Alone' /\ DrillsAreWhole'
    <3>1. /\ egress = {"dynamo"} /\ overlapped' = overlapped /\ pc[i] = "reportCut" /\ egress' = egress
          /\ timeline' = "cut" /\ pc' = [pc EXCEPT ![i] = "idle"]
      BY <2>6, <2>a DEF CutReport, history, group, Stands, Goto
    <3>2. Stands(i)'
      BY <3>1, <1>a DEF Stands, TypeOK
    <3>3. QED
      BY <3>1, <3>2, OneMoves
  <2>7. ASSUME NEW i \in Invocations, RestoreAuthorizeOpen(i) PROVE Alone' /\ DrillsAreWhole'
    <3>1. egress = {"dynamo"} /\ Narrowed(i) /\ overlapped' = overlapped /\ pc[i] = "authorizeOpen"
      BY <2>7, <2>a DEF RestoreAuthorizeOpen, history, Stands
    <3>2. /\ egress' = Rules /\ tag' = tag /\ saw' = saw
          /\ pc' = [pc EXCEPT ![i] = "revokeNarrow"]
      BY <2>7, <3>1, <1>b DEF RestoreAuthorizeOpen, Authorize, Goto, AfterOpen, Narrowed
    <3>3. Stands(i)'
      BY <3>1, <3>2, <1>a DEF Stands, Narrowed, TypeOK
    <3>4. QED
      BY <3>1, <3>2, <3>3, OneMoves
  <2>8. ASSUME NEW i \in Invocations, RestoreRevokeNarrow(i) PROVE Alone' /\ DrillsAreWhole'
    <3>1. egress = Rules /\ Narrowed(i) /\ overlapped' = overlapped /\ pc[i] = "revokeNarrow"
      BY <2>8, <2>a DEF RestoreRevokeNarrow, history, Stands
    <3>2. egress' = {"open"} /\ tag' = tag /\ saw' = saw /\ pc' = [pc EXCEPT ![i] = "deleteTag"]
      BY <2>8, <3>1, <1>b DEF RestoreRevokeNarrow, Revoke, Goto
    <3>3. Stands(i)'
      BY <3>1, <3>2, <1>a DEF Stands, Narrowed, TypeOK
    <3>4. QED
      BY <3>1, <3>2, <3>3, OneMoves
  <2>9. ASSUME NEW i \in Invocations, RestoreDeleteTag(i) PROVE Alone' /\ DrillsAreWhole'
    <3>1. egress = {"open"} /\ Narrowed(i) /\ overlapped' = overlapped /\ pc[i] = "deleteTag"
      BY <2>9, <2>a DEF RestoreDeleteTag, history, Stands
    <3>2. egress' = egress /\ tag' = "none" /\ pc' = [pc EXCEPT ![i] = "reportRestore"]
      BY <2>9, <3>1, <1>b DEF RestoreDeleteTag, Goto, Narrowed
    <3>3. Stands(i)'
      BY <3>1, <3>2, <1>a DEF Stands, TypeOK
    <3>4. QED
      BY <3>1, <3>2, <3>3, OneMoves
  <2>10. ASSUME NEW i \in Invocations, RestoreReport(i) PROVE Alone' /\ DrillsAreWhole'
    <3>1. /\ egress = {"open"} /\ tag = "none" /\ overlapped' = overlapped /\ pc[i] = "reportRestore"
          /\ egress' = egress /\ tag' = tag /\ timeline' = "restore" /\ pc' = [pc EXCEPT ![i] = "idle"]
      BY <2>10, <2>a DEF RestoreReport, history, group, Stands, Goto
    <3>2. Stands(i)'
      BY <3>1, <1>a DEF Stands, TypeOK
    <3>3. QED
      BY <3>1, <3>2, OneMoves
  <2>11. ASSUME NEW i \in Invocations, Fail(i) PROVE Alone' /\ DrillsAreWhole'
    BY <2>11 DEF Fail
  <2>12. CASE CutAges \/ TagIsLost
    <3>1. UNCHANGED <<egress, timeline, pc, saw, overlapped>> /\ tag # "none"
      BY <2>12 DEF CutAges, TagIsLost, history
    <3>2. Alone'
      <4>1. \A i \in Invocations : Stands(i) => Stands(i)'
        BY <3>1 DEF Stands, Narrowed
      <4>2. QED
        BY <3>1, <4>1 DEF DrillInv, Alone
    <3>3. DrillsAreWhole'
      BY <3>1 DEF DrillInv, DrillsAreWhole, InFlight
    <3>4. QED
      BY <3>2, <3>3
  <2>13. CASE UNCHANGED vars
    BY <2>13 DEF vars, DrillInv, Alone, Stands, Narrowed, DrillsAreWhole, InFlight
  <2>14. QED
    BY <2>1, <2>2, <2>3, <2>4, <2>5, <2>6, <2>7, <2>8, <2>9, <2>10, <2>11, <2>12, <2>13
    DEF Next, Cut, Restoring
<1>1. QED
  BY <1>c, <1>d

LEMMA DrillStarts == Init => DrillInv
BY WireTypeInit DEF Init, DrillInv, Alone, Stands, DrillsAreWhole

(* One invocation at a time, none of which fails, for any length of        *)
(* history: every cut and every restore leaves the group and the timeline  *)
(* saying the same (wire.ts:121-146, 150-174), whoever loses the tag.      *)
THEOREM DrillsEndWhole == Spec => []DrillsAreWhole
<1>1. DrillInv => DrillsAreWhole
  BY DEF DrillInv
<1>2. QED
  BY <1>1, DrillStarts, DrillStep, PTL DEF Spec

(***************************************************************************)
(* The runtime of the air-gapped host, for any number of ticks that        *)
(* overlap, releases, failed calls and restarts.  One agent is not         *)
(* inductive: a tick that begins looks at the flag, not at the other       *)
(* ticks.  The strengthening ties the flag to them.                        *)
(***************************************************************************)

Busy(t) == tick[t] # "idle"

\* The flag is up exactly while a tick is under way, and then there is one.
FlagTells ==
  /\ \A t \in Ticks : Busy(t) => hydrating
  /\ \A t, u \in Ticks : Busy(t) /\ Busy(u) => t = u

\* A tick puts a document only as the last thing it does.
PutsLast == \A t \in Ticks : puts[t] # {} => tick[t] = "write"

StartsDown == \A t \in Ticks : tick[t] = "start" => ~ up

RuntimeInv == R!TypeOK /\ FlagTells /\ PutsLast /\ StartsDown


LEMMA RuntimeConstants ==
  MaxGeneration \in Nat \ {0} /\ MaxFaults + 1 \in Nat /\ "timer" \notin Ticks
BY ConstantsAssumption, FaultsAssumption DEF R!AirgapAssumption

\* What can be served is a release number.
LEMMA ServedIsGeneration ==
  ASSUME R!TypeOK
  PROVE  R!Newest \in 0 .. MaxGeneration /\ R!Served \in 0 .. MaxGeneration
<1> QED BY RuntimeConstants DEF R!TypeOK, R!Newest, R!Served

LEMMA WritersAreTicks == \A t \in Ticks : t \in R!Writers
<1> QED BY DEF R!Writers

\* The invariant says what the property does.
LEMMA InvariantGivesOneAgent == RuntimeInv => R!OneAgent
<1> SUFFICES ASSUME RuntimeInv, NEW t \in Ticks, tick[t] = "start", NEW u \in Ticks \ {t}
             PROVE  ~ up /\ tick[u] = "idle"
  BY DEF RuntimeInv, StartsDown, R!OneAgent
<1> QED BY DEF RuntimeInv, FlagTells, Busy, StartsDown

LEMMA RuntimeInit == ASSUME R!Init PROVE RuntimeInv
<1> USE DEF R!Init
<1>1. R!TypeOK
  <2>1. puts \in [R!Writers -> SUBSET (0 .. MaxGeneration)] OBVIOUS
  <2>2. tick \in [Ticks -> {"idle", "start", "hydrate", "write"}] OBVIOUS
  <2>3. 0 \in 0 .. MaxGeneration /\ 0 \in 0 .. MaxFaults + 1 BY RuntimeConstants
  <2> QED BY <2>1, <2>2, <2>3 DEF R!TypeOK
<1>2. FlagTells BY DEF FlagTells, Busy
<1>3. PutsLast BY WritersAreTicks DEF PutsLast
<1>4. StartsDown BY DEF StartsDown
<1> QED BY <1>1, <1>2, <1>3, <1>4 DEF RuntimeInv


LEMMA FaultType == ASSUME R!TypeOK, R!Fault PROVE faults' \in 0 .. MaxFaults + 1
<1> QED BY RuntimeConstants DEF R!TypeOK, R!Fault

LEMMA HydrateTickStep ==
  ASSUME RuntimeInv, NEW t \in Ticks, R!hydrateTick(t)
  PROVE  RuntimeInv'
<1> USE DEF RuntimeInv, R!hydrateTick, R!Begin, R!Goto, R!sdk
<1>1. R!TypeOK' BY DEF R!TypeOK
<1>2. FlagTells' BY DEF R!TypeOK, FlagTells, Busy
<1>3. PutsLast' BY DEF R!TypeOK, PutsLast, FlagTells, Busy
<1>4. StartsDown' BY DEF R!TypeOK, StartsDown
<1> QED BY <1>1, <1>2, <1>3, <1>4

\* The SDK comes up only in the tick that was starting it.
LEMMA StartAgentStep ==
  ASSUME RuntimeInv, NEW t \in Ticks, R!startAgent(t)
  PROVE  RuntimeInv'
<1> USE DEF RuntimeInv, R!Goto, R!sdk
<1>1. tick' = [tick EXCEPT ![t] = "write"] /\ tick[t] = "start"
      /\ UNCHANGED <<datastore, hydrating, puts, document>>
  BY DEF R!startAgent
<1>2. R!TypeOK'
  <2>1. /\ local' \in 0 .. MaxGeneration /\ generation' \in 0 .. MaxGeneration /\ up' \in BOOLEAN
        /\ startFailure' \in {"none", "no_verified_release", "refused", "due"}
    BY ServedIsGeneration DEF R!startAgent, R!Serve, R!TypeOK
  <2>2. faults' \in 0 .. MaxFaults + 1 BY FaultType DEF R!startAgent, R!TypeOK
  <2> QED BY <1>1, <2>1, <2>2 DEF R!TypeOK
<1>3. FlagTells' BY <1>1 DEF R!TypeOK, FlagTells, Busy
<1>4. PutsLast' BY <1>1 DEF R!TypeOK, PutsLast
<1>5. StartsDown' BY <1>1 DEF R!TypeOK, StartsDown, FlagTells, Busy
<1> QED BY <1>2, <1>3, <1>4, <1>5

LEMMA HydrateStep ==
  ASSUME RuntimeInv, NEW t \in Ticks, R!hydrate(t)
  PROVE  RuntimeInv'
<1> USE DEF RuntimeInv, R!Goto, R!sdk
<1>1. PICK next \in {"idle", "write"} :
        /\ tick' = [tick EXCEPT ![t] = next]
        /\ hydrating' = (IF next = "idle" THEN FALSE ELSE hydrating)
  BY DEF R!hydrate
<1>2. tick[t] = "hydrate" /\ UNCHANGED <<datastore, puts, document, startFailure>>
  BY DEF R!hydrate
<1>3. R!TypeOK'
  <2>1. local' \in 0 .. MaxGeneration /\ generation' \in 0 .. MaxGeneration /\ up' \in BOOLEAN
    BY ServedIsGeneration DEF R!hydrate, R!Serve, R!TypeOK
  <2>2. faults' \in 0 .. MaxFaults + 1 BY FaultType DEF R!hydrate, R!TypeOK
  <2> QED BY <1>1, <1>2, <2>1, <2>2 DEF R!TypeOK
<1>4. FlagTells' BY <1>1, <1>2 DEF R!TypeOK, FlagTells, Busy
<1>5. PutsLast' BY <1>1, <1>2 DEF R!TypeOK, PutsLast
<1>6. StartsDown' BY <1>1, <1>2 DEF R!TypeOK, StartsDown, FlagTells, Busy
<1> QED BY <1>3, <1>4, <1>5, <1>6

LEMMA WriteStatusStep ==
  ASSUME RuntimeInv, NEW w \in R!Writers, R!writeStatus(w)
  PROVE  RuntimeInv'
<1> USE DEF RuntimeInv, R!writeStatus, R!sdk
<1>1. R!TypeOK' BY ServedIsGeneration DEF R!TypeOK
<1>2. FlagTells' BY DEF FlagTells, Busy
<1>3. PutsLast' BY WritersAreTicks DEF R!TypeOK, PutsLast
<1>4. StartsDown' BY DEF StartsDown
<1> QED BY <1>1, <1>2, <1>3, <1>4

\* The flag goes down with the tick that had it up.
LEMMA PutStatusStep ==
  ASSUME RuntimeInv, NEW w \in R!Writers, R!putStatus(w)
  PROVE  RuntimeInv'
<1> USE DEF RuntimeInv, R!Goto, R!sdk
<1>1. puts[w] # {} /\ puts' = [puts EXCEPT ![w] = {}] /\ UNCHANGED <<datastore, local, up, generation, startFailure>>
  BY DEF R!putStatus
<1>2. document' \in 0 .. MaxGeneration /\ faults' \in 0 .. MaxFaults + 1
  BY FaultType DEF R!putStatus, R!TypeOK
<1>3. CASE w \in Ticks
  <2>1. tick[w] = "write" BY <1>1, <1>3 DEF PutsLast
  <2>2. tick' = [tick EXCEPT ![w] = "idle"] /\ hydrating' = FALSE BY <1>3 DEF R!putStatus
  <2>3. R!TypeOK' BY <1>1, <1>2, <2>2 DEF R!TypeOK
  <2>4. FlagTells' BY <1>3, <2>1, <2>2 DEF R!TypeOK, FlagTells, Busy
  <2>5. PutsLast' BY <1>1, <1>3, <2>2, WritersAreTicks DEF R!TypeOK, PutsLast
  <2>6. StartsDown' BY <1>1, <1>3, <2>2 DEF R!TypeOK, StartsDown
  <2> QED BY <2>3, <2>4, <2>5, <2>6
<1>4. CASE w \notin Ticks
  <2>1. UNCHANGED <<hydrating, tick>> BY <1>4 DEF R!putStatus
  <2>2. R!TypeOK' BY <1>1, <1>2, <2>1 DEF R!TypeOK
  <2>3. FlagTells' BY <2>1 DEF FlagTells, Busy
  <2>4. PutsLast' BY <1>1, <1>4, <2>1, WritersAreTicks DEF R!TypeOK, PutsLast
  <2>5. StartsDown' BY <1>1, <2>1 DEF StartsDown
  <2> QED BY <2>2, <2>3, <2>4, <2>5
<1> QED BY <1>3, <1>4

\* A process that starts knows nothing, and nothing of it is under way.
LEMMA StopStep == ASSUME RuntimeInv, R!stop PROVE RuntimeInv'
<1> USE DEF RuntimeInv, R!stop, R!sdk
<1>1. R!TypeOK'
  <2>1. document' \in 0 .. MaxGeneration BY ServedIsGeneration DEF R!TypeOK
  <2>2. faults' \in 0 .. MaxFaults + 1 BY FaultType
  <2>3. puts' \in [R!Writers -> SUBSET (0 .. MaxGeneration)] OBVIOUS
  <2>4. tick' \in [Ticks -> {"idle", "start", "hydrate", "write"}] OBVIOUS
  <2>5. generation' \in 0 .. MaxGeneration BY RuntimeConstants
  <2> QED BY <2>1, <2>2, <2>3, <2>4, <2>5 DEF R!TypeOK
<1>2. FlagTells' BY DEF FlagTells, Busy
<1>3. PutsLast' BY WritersAreTicks DEF PutsLast
<1>4. StartsDown' BY DEF StartsDown
<1> QED BY <1>1, <1>2, <1>3, <1>4

\* Time that passes and a release that comes leave the ticks alone.
LEMMA RuntimeOther ==
  ASSUME RuntimeInv, R!Cooldown \/ R!Store \/ UNCHANGED R!vars
  PROVE  RuntimeInv'
<1>1. UNCHANGED <<tick, puts, hydrating, up>> BY DEF R!Cooldown, R!Store, R!vars, R!sdk
<1>2. R!TypeOK' BY RuntimeConstants DEF RuntimeInv, R!TypeOK, R!Cooldown, R!Store, R!vars, R!sdk
<1> QED BY <1>1, <1>2 DEF RuntimeInv, FlagTells, Busy, PutsLast, StartsDown

LEMMA RuntimeNext == ASSUME RuntimeInv, [R!Next]_R!vars PROVE RuntimeInv'
<1>1. ASSUME NEW t \in Ticks, R!hydrateTick(t) \/ R!startAgent(t) \/ R!hydrate(t) PROVE RuntimeInv'
  BY <1>1, HydrateTickStep, StartAgentStep, HydrateStep
<1>2. ASSUME NEW w \in R!Writers, R!writeStatus(w) \/ R!putStatus(w) PROVE RuntimeInv'
  BY <1>2, WriteStatusStep, PutStatusStep
<1>3. CASE R!stop BY <1>3, StopStep
<1>4. CASE R!Cooldown \/ R!Store \/ UNCHANGED R!vars BY <1>4, RuntimeOther
<1> QED BY <1>1, <1>2, <1>3, <1>4 DEF R!Next


(***************************************************************************)
(* Telemetry: the way of a segment to AirPrompter.                         *)
(***************************************************************************)

\* The exports that were packed and still count for a segment.
Packed == files \cup bucket \cup expired

\* No segment is in two places: not in two exports, nor in one and in the spool.
Apart ==
  /\ \A e \in Packed : e \cap spool = {}
  /\ \A e, f \in Packed : e # f => e \cap f = {}
  /\ expired \cap (files \cup bucket) = {}

\* What has a marker is in the bucket (its own expiry changes nothing).
MarkedThere == \A e \in T!Exports : markers[e] # "none" => e \in bucket

\* A pass holds exports that are in the bucket and have no marker.
PassHolds ==
  /\ import = "idle" => pending = {}
  /\ pending \subseteq T!Pending
  /\ import \in {"cli", "settle"} => current \in T!Pending \ pending

\* The verdict stands until its marker is written.
VerdictStands ==
  import = "settle" =>
    /\ outcome \in {"imported", "failed"}
    /\ outcome = "imported" => current \subseteq platform
    /\ outcome = "failed" => refusals[current] >= IMPORT_MAX_ATTEMPTS

\* The host counts no refusal that was not made.
CountsRefusals == \A e \in T!Exports : attempts[e] <= refusals[e]

TelemetryInv ==
  /\ T!TypeOK /\ T!NothingLost /\ T!SettledRightly
  /\ Apart /\ MarkedThere /\ PassHolds /\ VerdictStands /\ CountsRefusals

LEMMA TelemetryConstants ==
  IMPORT_MAX_ATTEMPTS \in Nat \ {0} /\ MaxFaults + 1 \in Nat
BY ConstantsAssumption, FaultsAssumption DEF T!TelemetryAssumption

LEMMA TelemetryInit == T!Init => TelemetryInv
<1> SUFFICES ASSUME T!Init PROVE TelemetryInv
  OBVIOUS
<1> USE DEF T!Init
<1>1. T!TypeOK
  BY TelemetryConstants DEF T!TypeOK
<1>2. T!NothingLost
  BY DEF T!NothingLost, T!Marked
<1>3. T!SettledRightly /\ MarkedThere /\ CountsRefusals
  BY DEF T!SettledRightly, MarkedThere, CountsRefusals
<1>4. Apart /\ PassHolds /\ VerdictStands
  BY DEF Apart, Packed, PassHolds, VerdictStands
<1>5. QED
  BY <1>1, <1>2, <1>3, <1>4 DEF TelemetryInv

(* What a marker adds: a settled export's segments, and nothing else.      *)
LEMMA Settles ==
  ASSUME T!TypeOK, NEW e \in T!Exports, markers[e] = "none",
         NEW how \in {"imported", "failed"}, markers' = [markers EXCEPT ![e] = how],
         NEW other \in {"imported", "failed"} \ {how}
  PROVE  T!Marked(how)' = T!Marked(how) \cup e /\ T!Marked(other)' = T!Marked(other)
<1>1. \A f \in T!Exports : markers'[f] = IF f = e THEN how ELSE markers[f]
  BY DEF T!TypeOK
<1>2. {f \in T!Exports : markers'[f] = how} = {f \in T!Exports : markers[f] = how} \cup {e}
  BY <1>1
<1>3. {f \in T!Exports : markers'[f] = other} = {f \in T!Exports : markers[f] = other}
  BY <1>1
<1>4. UNION ({f \in T!Exports : markers[f] = how} \cup {e})
        = (UNION {f \in T!Exports : markers[f] = how}) \cup e
  OBVIOUS
<1>5. QED
  BY <1>2, <1>3, <1>4 DEF T!Marked

LEMMA FaultCounted ==
  ASSUME faults \in 0 .. MaxFaults + 1, T!Fault
  PROVE  faults' \in 0 .. MaxFaults + 1
BY TelemetryConstants DEF T!Fault

(* A segment that closes is in the spool alone.                            *)
LEMMA RenderTick == TelemetryInv /\ T!renderTick => TelemetryInv'
<1> SUFFICES ASSUME TelemetryInv, T!renderTick PROVE TelemetryInv'
  OBVIOUS
<1>1. PICK s \in Segments \ closed : closed' = closed \cup {s} /\ spool' = spool \cup {s}
  BY DEF T!renderTick
<1>2. /\ UNCHANGED <<files, export, left, bucket, expired, markers, attempts>>
      /\ UNCHANGED <<import, pending, current, outcome, platform, refusals, faults>>
  BY DEF T!renderTick, T!importing, T!pass
<1>3. T!TypeOK'
  BY <1>1, <1>2 DEF TelemetryInv, T!TypeOK
<1>4. T!NothingLost'
  BY <1>1, <1>2 DEF TelemetryInv, T!NothingLost, T!Marked
<1>5. Apart'
  <2>1. \A e \in Packed : e \subseteq closed
    BY DEF TelemetryInv, T!NothingLost, Packed
  <2>2. QED
    BY <1>1, <1>2, <2>1 DEF TelemetryInv, Apart, Packed
<1>6. T!SettledRightly' /\ MarkedThere' /\ PassHolds' /\ VerdictStands' /\ CountsRefusals'
  BY <1>2 DEF TelemetryInv, T!SettledRightly, MarkedThere, PassHolds, VerdictStands, CountsRefusals,
              T!Pending
<1>7. QED
  BY <1>3, <1>4, <1>5, <1>6 DEF TelemetryInv

(* The export script moves segments and settles nothing.                   *)
LEMMA ScriptMoves ==
  ASSUME TelemetryInv, T!TypeOK', UNCHANGED <<closed, T!importing>>, expired' = expired,
         bucket \subseteq bucket', Apart',
         spool \cup (UNION (files \cup bucket)) = spool' \cup UNION (files' \cup bucket')
  PROVE  TelemetryInv'
<1>1. UNCHANGED <<markers, attempts, import, pending, current, outcome, platform, refusals>>
  BY DEF T!importing, T!pass
<1>2. T!Marked("imported")' = T!Marked("imported") /\ T!Marked("failed")' = T!Marked("failed")
  BY <1>1 DEF T!Marked
<1>3. T!NothingLost'
  BY <1>2 DEF TelemetryInv, T!NothingLost
<1>4. T!Pending \subseteq T!Pending'
  BY <1>1 DEF T!Pending
<1>5. T!SettledRightly' /\ MarkedThere' /\ PassHolds' /\ VerdictStands' /\ CountsRefusals'
  BY <1>1, <1>4 DEF TelemetryInv, T!SettledRightly, MarkedThere, PassHolds, VerdictStands, CountsRefusals
<1>6. QED
  BY <1>3, <1>5 DEF TelemetryInv

LEMMA UploadMoves == TelemetryInv /\ T!Upload => TelemetryInv'
<1> SUFFICES ASSUME TelemetryInv, T!Upload PROVE TelemetryInv'
  OBVIOUS
<1>1. PICK f \in left : T!Cp(f, IF export = "last" THEN "idle" ELSE export)
  BY DEF T!Upload
<1>2. f \in files /\ T!TypeOK /\ UNCHANGED <<closed, spool, expired, T!importing>>
  BY DEF T!Upload, TelemetryInv, T!TypeOK
<1>3. /\ files' \in {files, files \ {f}} /\ bucket' \in {bucket, bucket \cup {f}}
      /\ files \cup bucket = files' \cup bucket'
      /\ left' \subseteq left \ {f} /\ export' \in {"idle", "leftovers", "last"}
      /\ faults' = faults \/ T!Fault
  BY <1>1, <1>2 DEF T!Cp, T!TypeOK
<1>4. left' \subseteq files'
  BY <1>2, <1>3 DEF T!TypeOK
<1>5. faults' \in 0 .. MaxFaults + 1
  BY <1>2, <1>3, FaultCounted DEF T!TypeOK
<1>6. T!TypeOK'
  BY <1>2, <1>3, <1>4, <1>5 DEF T!TypeOK, T!importing, T!pass
<1>7. Apart'
  BY <1>2, <1>3 DEF TelemetryInv, Apart, Packed
<1>8. QED
  BY <1>2, <1>3, <1>6, <1>7, ScriptMoves

LEMMA PackMoves == TelemetryInv /\ T!Pack => TelemetryInv'
<1> SUFFICES ASSUME TelemetryInv, T!Pack PROVE TelemetryInv'
  OBVIOUS
<1>1. T!TypeOK /\ UNCHANGED <<closed, bucket, expired, T!importing>>
  BY DEF T!Pack, TelemetryInv
<1>2. /\ \/ files' = files /\ spool' = spool
         \/ spool # {} /\ files' = files \cup {spool} /\ spool' = {}
      /\ left' \subseteq files' /\ export' \in {"idle", "last"}
      /\ faults' = faults \/ T!Fault
  BY <1>1 DEF T!Pack, T!TypeOK
<1>3. faults' \in 0 .. MaxFaults + 1
  BY <1>1, <1>2, FaultCounted DEF T!TypeOK
<1>4. files' \subseteq T!Exports
  BY <1>1, <1>2 DEF T!TypeOK, T!Exports
<1>5. T!TypeOK'
  BY <1>1, <1>2, <1>3, <1>4 DEF T!TypeOK, T!importing, T!pass
<1>6. Apart'
  <2>1. CASE files' = files /\ spool' = spool
    BY <1>1, <2>1 DEF TelemetryInv, Apart, Packed
  <2>2. CASE spool # {} /\ files' = files \cup {spool} /\ spool' = {}
    <3>1. \A e \in Packed : e \cap spool = {} /\ e # {}
      BY <1>1 DEF TelemetryInv, Apart, Packed, T!TypeOK, T!Exports
    <3>2. spool \notin expired
      BY <2>2, <3>1 DEF Packed
    <3>3. Packed' = Packed \cup {spool}
      BY <1>1, <2>2 DEF Packed
    <3>4. QED
      BY <1>1, <2>2, <3>1, <3>2, <3>3 DEF TelemetryInv, Apart
  <2>3. QED
    BY <1>2, <2>1, <2>2
<1>7. spool \cup (UNION (files \cup bucket)) = spool' \cup UNION (files' \cup bucket')
  BY <1>1, <1>2
<1>8. QED
  BY <1>1, <1>5, <1>6, <1>7, ScriptMoves

(* A pass changes nothing of where the segments are.                       *)
LEMMA PassStays ==
  ASSUME TelemetryInv, T!TypeOK', UNCHANGED <<closed, T!exporting, bucket, expired, markers>>,
         platform \subseteq platform',
         \A e \in T!Exports : refusals'[e] >= refusals[e],
         PassHolds', VerdictStands', CountsRefusals'
  PROVE  TelemetryInv'
<1>1. T!Marked("imported")' = T!Marked("imported") /\ T!Marked("failed")' = T!Marked("failed")
  BY DEF T!Marked
<1>2. T!NothingLost' /\ Apart' /\ MarkedThere'
  BY <1>1 DEF TelemetryInv, T!NothingLost, T!exporting, Apart, Packed, MarkedThere
<1>3. T!SettledRightly'
  <2>1. ASSUME NEW e \in T!Exports PROVE refusals[e] \in Nat /\ refusals'[e] \in Nat
    BY TelemetryConstants DEF TelemetryInv, T!TypeOK
  <2>2. QED
    BY <2>1, TelemetryConstants DEF TelemetryInv, T!SettledRightly
<1>4. QED
  BY <1>2, <1>3 DEF TelemetryInv

(* An export is packed, and so one of the exports.                         *)
LEMMA CurrentIs ==
  ASSUME TelemetryInv, import \in {"cli", "settle"}
  PROVE  /\ current \in bucket \ expired /\ current \in T!Exports /\ markers[current] = "none"
         /\ current \in Packed
         /\ attempts[current] \in 0 .. IMPORT_MAX_ATTEMPTS - 1
         /\ refusals[current] \in 0 .. IMPORT_MAX_ATTEMPTS
         /\ attempts[current] <= refusals[current]
<1>1. current \in bucket /\ current \in T!Exports /\ markers[current] = "none"
  BY DEF TelemetryInv, PassHolds, T!Pending, T!TypeOK
<1>2. current \notin expired
  BY <1>1 DEF TelemetryInv, Apart
<1>3. QED
  BY <1>1, <1>2 DEF TelemetryInv, T!TypeOK, CountsRefusals, Packed

LEMMA RunCliStays == TelemetryInv /\ T!runCli => TelemetryInv'
<1> SUFFICES ASSUME TelemetryInv, T!runCli PROVE TelemetryInv'
  OBVIOUS
<1>1. import = "cli" /\ UNCHANGED <<closed, T!exporting, bucket, expired, markers, pending>> /\ T!TypeOK
  BY DEF T!runCli, TelemetryInv
<1>2. PICK answer \in {"clean", "usage", "refused", "transient"} :
        /\ faults' = faults \/ T!Fault
        /\ \E S \in T!Uploaded(answer) : platform' = platform \cup S
        /\ outcome' = T!outcomeOf(answer)
        /\ refusals' = [refusals EXCEPT ![current] =
             CASE answer = "usage" -> IMPORT_MAX_ATTEMPTS
               [] answer = "refused" /\ refusals[current] < IMPORT_MAX_ATTEMPTS -> refusals[current] + 1
               [] OTHER -> refusals[current]]
        /\ attempts' = [attempts EXCEPT ![current] =
             IF answer = "refused" /\ ~ T!GivesUp(answer) THEN attempts[current] + 1 ELSE attempts[current]]
        /\ IF outcome' = "held" THEN import' = "next" /\ current' = {}
           ELSE import' = "settle" /\ UNCHANGED current
  BY DEF T!runCli
<1> DEFINE r == refusals'[current]
           a == attempts'[current]
<1>3. /\ current \in T!Exports /\ attempts[current] \in 0 .. IMPORT_MAX_ATTEMPTS - 1
      /\ refusals[current] \in 0 .. IMPORT_MAX_ATTEMPTS /\ attempts[current] <= refusals[current]
  BY <1>1, CurrentIs
<1>4. /\ r = CASE answer = "usage" -> IMPORT_MAX_ATTEMPTS
               [] answer = "refused" /\ refusals[current] < IMPORT_MAX_ATTEMPTS -> refusals[current] + 1
               [] OTHER -> refusals[current]
      /\ a = IF answer = "refused" /\ ~ T!GivesUp(answer) THEN attempts[current] + 1 ELSE attempts[current]
  BY <1>1, <1>2, <1>3 DEF T!TypeOK
<1>5. /\ r \in 0 .. IMPORT_MAX_ATTEMPTS /\ r >= refusals[current]
      /\ a \in 0 .. IMPORT_MAX_ATTEMPTS - 1 /\ a <= r
      /\ outcome' = "failed" => r >= IMPORT_MAX_ATTEMPTS
  BY <1>2, <1>3, <1>4, TelemetryConstants DEF T!GivesUp, T!outcomeOf
<1>6. \A e \in T!Exports : e # current => refusals'[e] = refusals[e] /\ attempts'[e] = attempts[e]
  BY <1>1, <1>2 DEF T!TypeOK
<1>7. platform \subseteq platform' /\ platform' \subseteq platform \cup current
      /\ (outcome' = "imported" => current \subseteq platform')
  BY <1>2 DEF T!Uploaded, T!outcomeOf
<1>8. T!TypeOK'
  <2>1. refusals' \in [T!Exports -> 0 .. IMPORT_MAX_ATTEMPTS]
    BY <1>1, <1>2, <1>5, <1>6 DEF T!TypeOK
  <2>2. attempts' \in [T!Exports -> 0 .. IMPORT_MAX_ATTEMPTS - 1]
    BY <1>1, <1>2, <1>5, <1>6 DEF T!TypeOK
  <2>3. faults' \in 0 .. MaxFaults + 1
    BY <1>1, <1>2, FaultCounted DEF T!TypeOK
  <2>4. platform' \subseteq Segments /\ current' \in SUBSET Segments
    BY <1>1, <1>2, <1>3, <1>7 DEF T!TypeOK, T!Exports
  <2>5. outcome' \in {"imported", "held", "failed"} /\ import' \in {"next", "settle"}
    BY <1>2 DEF T!outcomeOf
  <2>6. QED
    BY <1>1, <2>1, <2>2, <2>3, <2>4, <2>5 DEF T!TypeOK, T!exporting
<1>9. \A e \in T!Exports : refusals'[e] >= refusals[e] /\ attempts'[e] <= refusals'[e]
  <2>1. \A e \in T!Exports : refusals[e] \in Nat /\ attempts[e] <= refusals[e]
    BY <1>1, TelemetryConstants DEF T!TypeOK, TelemetryInv, CountsRefusals
  <2>2. QED
    BY <1>5, <1>6, <2>1
<1>10. PassHolds'
  BY <1>1, <1>2 DEF TelemetryInv, PassHolds, T!Pending
<1>11. VerdictStands'
  BY <1>2, <1>5, <1>7 DEF VerdictStands, T!outcomeOf
<1>12. QED
  BY <1>1, <1>7, <1>8, <1>9, <1>10, <1>11, PassStays DEF CountsRefusals

(* A pass that begins, goes on to the next export, or ends.                *)
LEMMA PassMoves ==
  ASSUME TelemetryInv, T!importPass \/ T!getObject \/ T!Interrupt
  PROVE  TelemetryInv'
<1>1. UNCHANGED <<closed, T!exporting, bucket, expired, markers, platform, refusals>> /\ T!TypeOK
  BY DEF T!importPass, T!getObject, T!Interrupt, TelemetryInv
<1>2. faults' = faults \/ T!Fault
  BY DEF T!importPass, T!getObject, T!Interrupt
<1>3. attempts' = attempts \/ attempts' = [e \in T!Exports |-> 0]
  BY DEF T!importPass, T!getObject, T!Interrupt
<1>4. /\ pending' \subseteq T!Pending
      /\ import' \in {"idle", "next", "cli"}
      /\ import' = "idle" => pending' = {}
      /\ import' = "cli" => current' \in T!Pending \ pending'
      /\ current' \in SUBSET Segments
      /\ outcome' \in {outcome, "held"}
  BY <1>1 DEF T!importPass, T!getObject, T!Interrupt, T!EndPass, TelemetryInv, PassHolds, T!TypeOK,
              T!Exports, T!Pending
<1>5. T!Pending' = T!Pending /\ T!Pending \subseteq T!Exports
  BY <1>1 DEF T!Pending, T!TypeOK
<1>6. attempts' \in [T!Exports -> 0 .. IMPORT_MAX_ATTEMPTS - 1]
  BY <1>1, <1>3, TelemetryConstants DEF T!TypeOK
<1>7. T!TypeOK'
  <2>1. faults' \in 0 .. MaxFaults + 1
    BY <1>1, <1>2, FaultCounted DEF T!TypeOK
  <2>2. QED
    BY <1>1, <1>4, <1>5, <1>6, <2>1 DEF T!TypeOK, T!exporting
<1>8. \A e \in T!Exports : refusals'[e] >= refusals[e] /\ attempts'[e] <= refusals'[e]
  <2>1. \A e \in T!Exports : refusals[e] \in Nat /\ attempts[e] <= refusals[e]
    BY <1>1, TelemetryConstants DEF T!TypeOK, TelemetryInv, CountsRefusals
  <2>2. QED
    BY <1>1, <1>3, <2>1
<1>9. QED
  BY <1>1, <1>4, <1>5, <1>7, <1>8, PassStays DEF PassHolds, VerdictStands, CountsRefusals

(* A marker: the export leaves the open ones, for the side of its verdict. *)
LEMMA MarkerSettles ==
  ASSUME TelemetryInv, import = "settle", markers' = [markers EXCEPT ![current] = outcome]
  PROVE  /\ outcome = "imported" => /\ T!Marked("imported")' = T!Marked("imported") \cup current
                                    /\ T!Marked("failed")' = T!Marked("failed")
         /\ outcome = "failed" => /\ T!Marked("failed")' = T!Marked("failed") \cup current
                                  /\ T!Marked("imported")' = T!Marked("imported")
         /\ \A e \in T!Exports : markers'[e] = IF e = current THEN outcome ELSE markers[e]
         /\ outcome \in {"imported", "failed"}
<1>1. current \in T!Exports /\ markers[current] = "none" /\ T!TypeOK /\ outcome \in {"imported", "failed"}
  BY CurrentIs DEF TelemetryInv, VerdictStands
<1>2. outcome = "imported" => /\ T!Marked("imported")' = T!Marked("imported") \cup current
                              /\ T!Marked("failed")' = T!Marked("failed")
  <2>1. "failed" \in {"imported", "failed"} \ {"imported"}
    OBVIOUS
  <2>2. QED
    BY <1>1, <2>1, Settles
<1>3. outcome = "failed" => /\ T!Marked("failed")' = T!Marked("failed") \cup current
                            /\ T!Marked("imported")' = T!Marked("imported")
  <2>1. "imported" \in {"imported", "failed"} \ {"failed"}
    OBVIOUS
  <2>2. QED
    BY <1>1, <2>1, Settles
<1>4. QED
  BY <1>1, <1>2, <1>3 DEF T!TypeOK

LEMMA PutMarker == TelemetryInv /\ T!putMarker => TelemetryInv'
<1> SUFFICES ASSUME TelemetryInv, T!putMarker PROVE TelemetryInv'
  OBVIOUS
<1>1. import = "settle" /\ UNCHANGED <<closed, T!exporting, bucket, expired, platform, refusals>> /\ T!TypeOK
  BY DEF T!putMarker, TelemetryInv
<1>2. /\ faults' = faults \/ T!Fault
      /\ import' \in {"idle", "next"} /\ current' = {} /\ outcome' = "held"
      /\ pending' = {} \/ (pending' = pending /\ import' = "next")
      /\ attempts' \in {attempts, [attempts EXCEPT ![current] = 0]}
  BY DEF T!putMarker, T!EndPass
<1>3. markers' = markers \/ markers' = [markers EXCEPT ![current] = outcome]
  BY DEF T!putMarker
<1>4. /\ current \in bucket /\ current \in T!Exports /\ current \notin pending
      /\ outcome = "imported" => current \subseteq platform
      /\ outcome = "failed" => refusals[current] >= IMPORT_MAX_ATTEMPTS
      /\ outcome \in {"imported", "failed"}
  BY <1>1, CurrentIs DEF TelemetryInv, PassHolds, VerdictStands
<1>5. \A e \in T!Exports : markers'[e] = markers[e] \/ (e = current /\ markers'[e] = outcome)
  BY <1>1, <1>3 DEF T!TypeOK
<1>6. T!TypeOK'
  <2>1. markers' \in [T!Exports -> {"none", "imported", "failed"}]
    BY <1>1, <1>3, <1>4 DEF T!TypeOK
  <2>2. attempts' \in [T!Exports -> 0 .. IMPORT_MAX_ATTEMPTS - 1]
    BY <1>1, <1>2, TelemetryConstants DEF T!TypeOK
  <2>3. faults' \in 0 .. MaxFaults + 1
    BY <1>1, <1>2, FaultCounted DEF T!TypeOK
  <2>4. pending' \subseteq T!Exports /\ current' \in SUBSET Segments
    BY <1>1, <1>2 DEF T!TypeOK
  <2>5. QED
    BY <1>1, <1>2, <2>1, <2>2, <2>3, <2>4 DEF T!TypeOK, T!exporting
<1>7. T!NothingLost'
  <2>1. CASE markers' = markers
    BY <1>1, <2>1 DEF TelemetryInv, T!NothingLost, T!Marked, T!exporting
  <2>2. CASE markers' = [markers EXCEPT ![current] = outcome]
    <3>1. T!Marked("imported")' \cup T!Marked("failed")'
            = T!Marked("imported") \cup T!Marked("failed") \cup current
      BY <1>1, <1>4, <2>2, MarkerSettles
    <3>2. current \subseteq UNION (files \cup bucket \cup expired)
      BY <1>4
    <3>3. QED
      BY <1>1, <3>1, <3>2 DEF TelemetryInv, T!NothingLost, T!exporting
  <2>3. QED
    BY <1>3, <2>1, <2>2
<1>8. T!SettledRightly'
  BY <1>1, <1>4, <1>5 DEF TelemetryInv, T!SettledRightly
<1>9. Apart' /\ MarkedThere'
  BY <1>1, <1>4, <1>5 DEF TelemetryInv, Apart, Packed, MarkedThere, T!exporting
<1>10. PassHolds' /\ VerdictStands'
  <2>1. \A e \in pending : markers'[e] = markers[e] /\ e \in T!Exports
    BY <1>1, <1>4, <1>5 DEF T!TypeOK
  <2>2. QED
    BY <1>1, <1>2, <2>1 DEF TelemetryInv, PassHolds, VerdictStands, T!Pending
<1>11. CountsRefusals'
  <2>1. \A e \in T!Exports : attempts'[e] \in {attempts[e], 0} /\ refusals[e] \in Nat /\ attempts[e] \in Nat
    BY <1>1, <1>2, TelemetryConstants DEF T!TypeOK
  <2>2. QED
    BY <1>1, <2>1 DEF TelemetryInv, CountsRefusals
<1>12. QED
  BY <1>6, <1>7, <1>8, <1>9, <1>10, <1>11 DEF TelemetryInv

LEMMA Expires == TelemetryInv /\ T!Expire => TelemetryInv'
<1> SUFFICES ASSUME TelemetryInv, T!Expire PROVE TelemetryInv'
  OBVIOUS
<1>1. PICK e \in bucket \ files : markers[e] = "none" /\ bucket' = bucket \ {e} /\ expired' = expired \cup {e}
  BY DEF T!Expire
<1>2. /\ UNCHANGED <<closed, spool, files, export, left, markers, attempts>>
      /\ UNCHANGED <<import, pending, current, outcome, platform, refusals>>
      /\ import = "idle" /\ T!Fault /\ T!TypeOK
  BY DEF T!Expire, T!exporting, T!importing, T!pass, TelemetryInv
<1>3. T!TypeOK'
  BY <1>1, <1>2, FaultCounted DEF T!TypeOK
<1>4. T!NothingLost'
  <2>1. files \cup bucket \cup expired = files' \cup bucket' \cup expired'
    BY <1>1, <1>2
  <2>2. QED
    BY <1>2, <2>1 DEF TelemetryInv, T!NothingLost, T!Marked
<1>5. Apart'
  BY <1>1, <1>2 DEF TelemetryInv, Apart, Packed
<1>6. MarkedThere' /\ PassHolds' /\ VerdictStands'
  BY <1>1, <1>2 DEF TelemetryInv, MarkedThere, PassHolds, VerdictStands
<1>7. T!SettledRightly' /\ CountsRefusals'
  BY <1>2 DEF TelemetryInv, T!SettledRightly, CountsRefusals
<1>8. QED
  BY <1>3, <1>4, <1>5, <1>6, <1>7 DEF TelemetryInv

LEMMA TelemetryStays == TelemetryInv /\ UNCHANGED T!vars => TelemetryInv'
BY DEF T!vars, T!exporting, T!importing, T!pass, TelemetryInv, T!TypeOK, T!NothingLost, T!SettledRightly,
       T!Marked, Apart, Packed, MarkedThere, PassHolds, VerdictStands, CountsRefusals, T!Pending

LEMMA TelemetryNext == TelemetryInv /\ [T!Next]_T!vars => TelemetryInv'
<1> SUFFICES ASSUME TelemetryInv, [T!Next]_T!vars PROVE TelemetryInv'
  OBVIOUS
<1>1. CASE T!ExportTimer
  <2>1. /\ UNCHANGED <<closed, spool, files, bucket, expired, T!importing, faults>>
        /\ export' = "leftovers" /\ left' = files
    BY <1>1 DEF T!ExportTimer
  <2>2. T!TypeOK' /\ Apart'
    BY <2>1 DEF TelemetryInv, T!TypeOK, Apart, Packed, T!importing, T!pass
  <2>3. QED
    BY <2>1, <2>2, ScriptMoves
<1>2. QED
  BY <1>1, RenderTick, UploadMoves, PackMoves, PassMoves, RunCliStays, PutMarker, Expires, TelemetryStays
     DEF T!Next

-----------------------------------------------------------------------------
(* What is promised of it from outside.                                    *)

\* A step of the way is a step of the promise, or none.
LEMMA DeliveryStep ==
  ASSUME TelemetryInv, [T!Next]_T!vars
  PROVE  [T!D!Next]_T!D!vars
<1> DEFINE delivered == T!Marked("imported")
           givenUp == T!Marked("failed") \cup UNION expired
<1>1. CASE UNCHANGED <<closed, markers, expired>>
  BY <1>1 DEF T!D!vars, T!Marked
<1>2. CASE T!renderTick
  <2>1. T!D!Close
    BY <1>2 DEF T!renderTick, T!importing, T!D!Close, T!Marked
  <2>2. QED
    BY <2>1 DEF T!D!Next
\* An export of the bucket without a marker holds only open segments.
<1>3. ASSUME NEW e \in bucket \ expired, markers[e] = "none"
      PROVE  e # {} /\ e \subseteq T!D!Open
  <2>1. e \in T!Exports /\ e \subseteq closed /\ e \in Packed
    BY <1>3 DEF TelemetryInv, T!TypeOK, T!NothingLost, Packed
  <2>2. \A f \in T!Exports : markers[f] # "none" => f \in Packed /\ f # e
    BY <1>3 DEF TelemetryInv, MarkedThere, Packed
  <2>3. e \cap T!Marked("imported") = {} /\ e \cap T!Marked("failed") = {}
    BY <2>1, <2>2 DEF TelemetryInv, Apart, T!Marked
  <2>4. e \cap UNION expired = {}
    BY <1>3, <2>1 DEF TelemetryInv, Apart, Packed
  <2>5. QED
    BY <2>1, <2>3, <2>4 DEF T!D!Open, T!Exports
<1>4. CASE T!putMarker
  <2>1. import = "settle" /\ UNCHANGED <<closed, expired>>
        /\ (markers' = markers \/ markers' = [markers EXCEPT ![current] = outcome])
    BY <1>4 DEF T!putMarker
  <2>2. current # {} /\ current \subseteq T!D!Open
    BY <1>3, <2>1, CurrentIs
  <2>3. CASE markers' = [markers EXCEPT ![current] = outcome] /\ outcome = "imported"
    <3>1. T!D!Deliver
      BY <2>1, <2>2, <2>3, MarkerSettles DEF T!D!Deliver
    <3>2. QED
      BY <3>1 DEF T!D!Next
  <2>4. CASE markers' = [markers EXCEPT ![current] = outcome] /\ outcome = "failed"
    <3>1. T!D!GiveUp
      BY <2>1, <2>2, <2>4, MarkerSettles DEF T!D!GiveUp
    <3>2. QED
      BY <3>1 DEF T!D!Next
  <2>5. QED
    BY <1>1, <2>1, <2>3, <2>4, MarkerSettles
<1>5. CASE T!Expire
  <2>1. PICK e \in bucket \ files : markers[e] = "none" /\ expired' = expired \cup {e}
    BY <1>5 DEF T!Expire
  <2>2. e # {} /\ e \subseteq T!D!Open /\ UNCHANGED <<closed, markers>>
    BY <1>3, <1>5, <2>1 DEF TelemetryInv, Apart, T!Expire, T!importing
  <2>3. UNION expired' = (UNION expired) \cup e
    BY <2>1
  <2>4. T!D!GiveUp
    BY <2>2, <2>3 DEF T!D!GiveUp, T!Marked
  <2>5. QED
    BY <2>4 DEF T!D!Next
<1>6. CASE T!ExportTimer \/ T!Upload \/ T!Pack \/ T!importPass \/ T!getObject \/ T!runCli \/ T!Interrupt
           \/ UNCHANGED T!vars
  <2>1. UNCHANGED <<closed, markers, expired>>
    BY <1>6 DEF T!ExportTimer, T!Upload, T!Pack, T!importPass, T!getObject, T!runCli, T!Interrupt, T!vars,
                T!importing
  <2>2. QED
    BY <1>1, <2>1
<1>7. QED
  BY <1>2, <1>4, <1>5, <1>6 DEF T!Next

LEMMA DeliveryInit == T!Init => T!D!Init
BY DEF T!Init, T!D!Init, T!Marked

(***************************************************************************)
(* The operator's CLI.  For any timeouts, retries and failures: the row is *)
(* the command's own answer.  The loop says that no instance was there     *)
(* only if it saw none: a command that the loop cannot see yet waits, and  *)
(* it waits for less than the loop does (DELIVERY).                        *)
(***************************************************************************)

\* A loop that has seen nothing of its command has not waited longer than the command.
PollTells ==
  job = "poll" =>
    /\ command # "none" /\ last \in {"null", "Pending"}
    /\ command = "nowhere" => last = "null"
    /\ last = "null" /\ command # "nowhere" => waited.loop = waited.pending
    /\ command = "pending" => waited.loop = waited.pending

\* An answer is ready only when what became of the command is settled.
AnswerTells ==
  job = "append" => H!Truthful([says |-> last, was |-> command]) /\ last \in H!Final \cup {"NoInstance", "unsent"}

CommandInv == H!TypeOK /\ PollTells /\ AnswerTells /\ H!AnswersTell

LEMMA CommandConstants ==
  /\ TIMEOUT \in Nat /\ MARGIN \in Nat /\ DELIVERY \in Nat /\ RETRIES \in Nat /\ MaxFaults \in Nat
  /\ DELIVERY < TIMEOUT + MARGIN
BY ConstantsAssumption DEF H!HostCliAssumption

LEMMA ZeroWaits ==
  H!Zero \in [loop : 0 .. TIMEOUT + MARGIN, pending : 0 .. DELIVERY, running : 0 .. TIMEOUT]
  /\ H!Zero.loop = 0 /\ H!Zero.pending = 0
<1>1. 0 \in 0 .. TIMEOUT + MARGIN /\ 0 \in 0 .. DELIVERY /\ 0 \in 0 .. TIMEOUT
  BY CommandConstants
<1>2. QED
  BY <1>1 DEF H!Zero

LEMMA CommandInit == ASSUME H!Init PROVE CommandInv
<1>1. 0 \in 0 .. RETRIES /\ 0 \in 0 .. MaxFaults
  BY CommandConstants
<1>2. H!TypeOK
  BY <1>1, ZeroWaits DEF H!Init, H!TypeOK, H!Commands
<1>3. QED
  BY <1>2 DEF CommandInv, H!Init, PollTells, AnswerTells, H!AnswersTell

LEMMA CommandFault == ASSUME H!TypeOK, H!Fault PROVE faults' \in 0 .. MaxFaults
BY CommandConstants DEF H!TypeOK, H!Fault

(* The click does nothing to a job but hand it over.                       *)
LEMMA ClickStep ==
  ASSUME CommandInv, H!host_cli \/ H!invoke \/ H!appendPresenter
  PROVE  CommandInv'
<1> USE DEF H!host_cli, H!invoke, H!appendPresenter
<1>1. UNCHANGED <<row, running, retries, command, waited, last, rows, lost>> /\ (job' = job \/ job' \in {"none", "queued"})
  BY DEF H!world, H!loop
<1>2. faults' \in 0 .. MaxFaults
  BY CommandFault DEF CommandInv, H!TypeOK
<1>3. request' \in {"none", "invoke", "row", "202", "409", "500"}
  BY DEF CommandInv, H!TypeOK
<1>4. H!TypeOK'
  BY <1>1, <1>2, <1>3 DEF CommandInv, H!TypeOK
<1>5. QED
  BY <1>1, <1>4 DEF CommandInv, PollTells, AnswerTells, H!AnswersTell

(* A job that starts, fails to, or is run again says nothing.              *)
LEMMA JobStarts ==
  ASSUME CommandInv, H!createHandler \/ H!Crash
  PROVE  CommandInv'
<1> USE DEF H!createHandler, H!Crash
<1>1. /\ UNCHANGED <<row, running, request, command, waited, last, rows>>
      /\ job' = "queued" \/ (job' = "send" /\ lost' = lost) \/ (job' = "ended" /\ lost' = TRUE)
      /\ retries' = retries \/ (retries < RETRIES /\ retries' = retries + 1)
      /\ lost' = lost \/ lost' = TRUE
  <2>1. CASE H!createHandler
    BY <2>1 DEF H!world, H!loop
  <2>2. CASE H!Crash
    BY <2>2 DEF H!world, H!loop
  <2>3. QED
    BY <2>1, <2>2
<1>a. retries' \in 0 .. RETRIES
  <2>1. retries \in 0 .. RETRIES
    BY DEF CommandInv, H!TypeOK
  <2>2. QED
    BY <1>1, <2>1, CommandConstants
<1>b. lost' \in BOOLEAN
  BY <1>1 DEF CommandInv, H!TypeOK
<1>2. faults' \in 0 .. MaxFaults
  BY CommandFault DEF CommandInv, H!TypeOK
<1>3. H!TypeOK'
  BY <1>1, <1>2, <1>a, <1>b DEF CommandInv, H!TypeOK
<1>4. QED
  BY <1>1, <1>3 DEF CommandInv, PollTells, AnswerTells, H!AnswersTell

LEMMA SendStep ==
  ASSUME CommandInv, H!send
  PROVE  CommandInv'
<1>1. UNCHANGED <<row, running, request, retries, rows, lost>> /\ job = "send"
  BY DEF H!send, H!world
<1>2. faults' \in 0 .. MaxFaults
  BY CommandFault DEF CommandInv, H!TypeOK, H!send
<1>3. CASE job' = "poll"
  <2>1. command' \in {"pending", "nowhere"} /\ waited' = H!Zero /\ last' = "null"
    BY <1>3 DEF H!send, H!hostCliJob
  <2>2. H!TypeOK'
    BY <1>1, <1>2, <1>3, <2>1, ZeroWaits DEF CommandInv, H!TypeOK, H!Commands
  <2>3. QED
    BY <1>1, <1>3, <2>1, <2>2, ZeroWaits DEF CommandInv, PollTells, AnswerTells, H!AnswersTell
<1>4. CASE job' # "poll"
  <2>1. job' = "append" /\ last' = "unsent" /\ UNCHANGED <<command, waited>>
    BY <1>4 DEF H!send, H!hostCliJob
  <2>2. H!TypeOK'
    BY <1>1, <1>2, <2>1 DEF CommandInv, H!TypeOK
  <2>3. AnswerTells'
    BY <2>1 DEF AnswerTells, H!Truthful, H!Final
  <2>4. QED
    BY <1>1, <2>1, <2>2, <2>3 DEF CommandInv, PollTells, H!AnswersTell
<1>5. QED
  BY <1>3, <1>4

(* A poll sees what became of the command, or that it still waits or runs. *)
LEMMA PollStep ==
  ASSUME CommandInv, H!runHostCli
  PROVE  CommandInv'
<1>1. UNCHANGED <<row, running, request, retries, command, rows, lost>> /\ job = "poll" /\ job' \in {"append", "poll"}
  BY DEF H!runHostCli, H!world, H!hostCliJob
<1>2. faults' \in 0 .. MaxFaults
  BY CommandFault DEF CommandInv, H!TypeOK, H!runHostCli
<1>3. /\ command \in H!Commands \ {"none"}
      /\ command = "nowhere" => last = "null"
      /\ last = "null" /\ command # "nowhere" => waited.loop = waited.pending
  BY <1>1 DEF CommandInv, H!TypeOK, PollTells
<1>4. waited' \in [loop : 0 .. TIMEOUT + MARGIN, pending : 0 .. DELIVERY, running : 0 .. TIMEOUT]
  <2>1. /\ waited.loop \in 0 .. TIMEOUT + MARGIN /\ waited.pending \in 0 .. DELIVERY /\ waited.running \in 0 .. TIMEOUT
        /\ waited.loop < TIMEOUT + MARGIN
        /\ command = "pending" => waited.pending < DELIVERY
        /\ command = "running" => waited.running < TIMEOUT
    BY DEF CommandInv, H!TypeOK, H!runHostCli
  <2>2. /\ waited.loop + 1 \in 0 .. TIMEOUT + MARGIN
        /\ waited.pending + (IF command = "pending" THEN 1 ELSE 0) \in 0 .. DELIVERY
        /\ waited.running + (IF command = "running" THEN 1 ELSE 0) \in 0 .. TIMEOUT
    BY <2>1, CommandConstants
  <2>3. QED
    BY <2>2 DEF H!runHostCli
<1>5. waited'.loop = waited.loop + 1 /\ (command = "pending" => waited'.pending = waited.pending + 1)
  BY DEF H!runHostCli
<1>6. CASE last' \in H!Seen /\ job' = (IF last' \in H!Final THEN "append" ELSE "poll")
  <2>1. /\ last' \in H!Final \cup {"null", "Pending"}
        /\ last' = "null" => command \in {"nowhere", "pending"}
        /\ last' \in {"Success", "Failed"} => command = last'
        /\ command = "nowhere" => last' = "null"
    BY <1>3, <1>6 DEF H!Seen, H!Commands, H!Final
  <2>2. H!TypeOK'
    BY <1>1, <1>2, <1>4, <2>1 DEF CommandInv, H!TypeOK
  <2>3. PollTells'
    <3>1. command = "pending" => waited.loop = waited.pending
      BY <1>1 DEF CommandInv, PollTells
    <3>2. QED
      BY <1>1, <1>3, <1>5, <1>6, <2>1, <3>1 DEF PollTells, H!Final
  <2>4. AnswerTells'
    BY <1>1, <1>6, <2>1 DEF AnswerTells, H!Truthful, H!Final
  <2>5. QED
    BY <1>1, <2>2, <2>3, <2>4 DEF CommandInv, H!AnswersTell
<1>7. CASE H!hostCliJob
  <2>1. job' = "append" /\ last' = "unsent"
    BY <1>7 DEF H!hostCliJob
  <2>2. H!TypeOK'
    BY <1>1, <1>2, <1>4, <2>1 DEF CommandInv, H!TypeOK
  <2>3. AnswerTells'
    BY <2>1 DEF AnswerTells, H!Truthful, H!Final
  <2>4. QED
    BY <1>1, <2>1, <2>2, <2>3 DEF CommandInv, PollTells, H!AnswersTell
<1>8. QED
  BY <1>6, <1>7 DEF H!runHostCli

(* At the deadline nothing was seen of a command that is nowhere only.     *)
LEMMA DeadlineStep ==
  ASSUME CommandInv, H!deadline
  PROVE  CommandInv'
<1>1. UNCHANGED <<row, running, request, retries, command, waited, rows, lost, faults>> /\ job = "poll" /\ job' = "append"
      /\ waited.loop = TIMEOUT + MARGIN /\ last' = (IF last = "null" THEN "NoInstance" ELSE "TimedOut")
  BY DEF H!deadline, H!world
<1>2. waited.pending < waited.loop
  <2>1. waited.pending \in 0 .. DELIVERY
    BY DEF CommandInv, H!TypeOK
  <2>2. QED
    BY <1>1, <2>1, CommandConstants
<1>3. last = "null" <=> command = "nowhere"
  <2>1. waited.loop # waited.pending
    BY <1>1, <1>2, CommandConstants DEF CommandInv, H!TypeOK
  <2>2. QED
    BY <1>1, <2>1 DEF CommandInv, PollTells
<1>4. H!TypeOK'
  BY <1>1 DEF CommandInv, H!TypeOK, H!Final
<1>5. AnswerTells'
  BY <1>1, <1>3 DEF AnswerTells, H!Truthful, H!Final
<1>6. QED
  BY <1>1, <1>4, <1>5 DEF CommandInv, PollTells, H!AnswersTell

LEMMA AppendStep ==
  ASSUME CommandInv, H!appendHostCli
  PROVE  CommandInv'
<1> DEFINE answer == [says |-> last, was |-> command]
<1>1. UNCHANGED <<row, running, request, retries, command, waited, last>> /\ job = "append" /\ job' = "ended"
      /\ \/ rows' = rows \cup {answer} /\ UNCHANGED <<lost, faults>>
         \/ lost' = TRUE /\ H!Fault /\ UNCHANGED rows
  BY DEF H!appendHostCli, H!world, H!loop
<1>2. H!Truthful(answer) /\ answer \in [says : H!Final \cup {"NoInstance", "unsent"}, was : H!Commands]
  BY <1>1 DEF CommandInv, AnswerTells, H!TypeOK
<1> HIDE DEF answer
<1>3. H!TypeOK'
  BY <1>1, <1>2, CommandFault DEF CommandInv, H!TypeOK
<1>4. H!AnswersTell'
  <2>1. \A r \in rows' : r \in rows \/ r = answer
    BY <1>1
  <2>2. \A r \in rows' : H!Truthful(r)
    BY <1>2, <2>1 DEF CommandInv, H!AnswersTell
  <2>3. lost' \/ rows' # {}
    BY <1>1
  <2>4. QED
    BY <2>2, <2>3 DEF H!AnswersTell, H!Truthful
<1>5. QED
  BY <1>1, <1>3, <1>4 DEF CommandInv, PollTells, AnswerTells

(* A command that goes on is one that no answer is ready for, but for an   *)
(* answer that says it may.                                                *)
LEMMA CommandGoesOn ==
  ASSUME CommandInv, H!Deliver \/ H!End
  PROVE  CommandInv'
<1>1. UNCHANGED <<row, running, request, job, retries, waited, last, rows, lost, faults>>
      /\ command \in {"pending", "running"} /\ command' \in {"running", "undelivered"} \cup H!Final
  BY DEF H!Deliver, H!End, H!world, H!Final
<1>2. H!TypeOK'
  BY <1>1 DEF CommandInv, H!TypeOK, H!Commands
<1>3. PollTells'
  BY <1>1 DEF CommandInv, PollTells, H!Final
<1>4. AnswerTells'
  BY <1>1 DEF CommandInv, AnswerTells, H!Truthful, H!Final
<1>5. QED
  BY <1>1, <1>2, <1>3, <1>4 DEF CommandInv, H!AnswersTell

LEMMA CommandOther ==
  ASSUME CommandInv, H!Power \/ UNCHANGED H!vars
  PROVE  CommandInv'
<1>1. UNCHANGED <<request, job, retries, command, waited, last, rows, lost, faults>>
      /\ running' \in BOOLEAN /\ row' \in {"awake", "asleep"}
  BY DEF H!Power, H!vars, H!world, H!loop, CommandInv, H!TypeOK
<1>2. QED
  BY <1>1 DEF CommandInv, H!TypeOK, PollTells, AnswerTells, H!AnswersTell

LEMMA CommandNext == ASSUME CommandInv, [H!Next]_H!vars PROVE CommandInv'
BY ClickStep, JobStarts, SendStep, PollStep, DeadlineStep, AppendStep, CommandGoesOn, CommandOther DEF H!Next

(***************************************************************************)
(* The hosts together.  Only one part moves; the others are as they began. *)
(***************************************************************************)
WireIdle == egress = {"open"} /\ tag = "none" /\ timeline = "none"
RuntimeIdle == \A t \in Ticks : tick[t] = "idle"
TelemetryIdle ==
  /\ closed = {} /\ spool = {} /\ files = {} /\ bucket = {} /\ expired = {}
  /\ \A e \in T!Exports : markers[e] = "none"
CommandIdle == job = "none" /\ rows = {}

HostsInv ==
  /\ IF part = "wire" THEN WireInv /\ DrillInv ELSE WireIdle
  /\ IF part = "runtime" THEN RuntimeInv ELSE RuntimeIdle
  /\ IF part = "telemetry" THEN TelemetryInv ELSE TelemetryIdle
  /\ IF part = "command" THEN CommandInv ELSE CommandIdle

LEMMA HostsStart == HostsInit => HostsInv
<1> SUFFICES ASSUME HostsInit PROVE HostsInv
  OBVIOUS
<1>1. WireInv /\ DrillInv /\ WireIdle
  BY WireStarts, DrillStarts DEF HostsInit, Init, WireIdle
<1>2. RuntimeInv /\ RuntimeIdle
  BY RuntimeInit DEF HostsInit, R!Init, RuntimeIdle
<1>3. TelemetryInv /\ TelemetryIdle
  BY TelemetryInit DEF HostsInit, T!Init, TelemetryIdle
<1>4. CommandInv /\ CommandIdle
  BY CommandInit DEF HostsInit, H!Init, CommandIdle
<1>5. QED
  BY <1>1, <1>2, <1>3, <1>4 DEF HostsInv

(* Each part moves alone.                                                  *)
LEMMA OnePartMoves ==
  ASSUME [HostsNext]_hostsVars
  PROVE  /\ part' = part
         /\ IF part = "wire" THEN [Next]_vars ELSE UNCHANGED wireVars
         /\ IF part = "runtime" THEN [R!Next]_R!vars ELSE UNCHANGED runtimeVars
         /\ IF part = "telemetry" THEN [T!Next]_T!vars ELSE UNCHANGED telemetryVars
         /\ IF part = "command" THEN [H!Next]_H!vars ELSE UNCHANGED commandVars
<1>1. CASE WireStep
  BY <1>1 DEF WireStep, InWire
<1>2. CASE RuntimeStep
  BY <1>2 DEF RuntimeStep, InRuntime
<1>3. CASE TelemetryStep
  BY <1>3 DEF TelemetryStep, InTelemetry
<1>4. CASE CommandStep
  BY <1>4 DEF CommandStep, InCommand
<1>5. CASE QueueStep
  BY <1>5 DEF QueueStep, InQueue
<1>6. CASE UNCHANGED hostsVars
  <2>1. /\ UNCHANGED <<part, faults>> /\ UNCHANGED wireVars /\ UNCHANGED runtimeVars
        /\ UNCHANGED telemetryVars /\ UNCHANGED commandVars
    BY <1>6 DEF hostsVars
  <2>2. UNCHANGED vars
    BY <2>1 DEF wireVars, vars
  <2>3. UNCHANGED R!vars
    BY <2>1 DEF runtimeVars, R!vars, R!sdk
  <2>4. UNCHANGED T!vars
    BY <2>1 DEF telemetryVars, T!vars, T!exporting, T!importing, T!pass
  <2>5. UNCHANGED H!vars
    BY <2>1 DEF commandVars, H!vars, H!world, H!loop
  <2>6. QED
    BY <2>1, <2>2, <2>3, <2>4, <2>5
<1>7. QED
  BY <1>1, <1>2, <1>3, <1>4, <1>5, <1>6 DEF HostsNext

LEMMA HostsKeep == HostsInv /\ [HostsNext]_hostsVars => HostsInv'
<1> SUFFICES ASSUME HostsInv, [HostsNext]_hostsVars PROVE HostsInv'
  OBVIOUS
<1>1. /\ part' = part
      /\ IF part = "wire" THEN [Next]_vars ELSE UNCHANGED wireVars
      /\ IF part = "runtime" THEN [R!Next]_R!vars ELSE UNCHANGED runtimeVars
      /\ IF part = "telemetry" THEN [T!Next]_T!vars ELSE UNCHANGED telemetryVars
      /\ IF part = "command" THEN [H!Next]_H!vars ELSE UNCHANGED commandVars
  BY OnePartMoves
<1>2. IF part' = "wire" THEN WireInv' /\ DrillInv' ELSE WireIdle'
  <2>1. CASE part = "wire"
    BY <1>1, <2>1, WireStepKeeps, DrillStep DEF HostsInv
  <2>2. CASE part # "wire"
    BY <1>1, <2>2 DEF HostsInv, WireIdle, wireVars
  <2>3. QED
    BY <2>1, <2>2
<1>3. IF part' = "runtime" THEN RuntimeInv' ELSE RuntimeIdle'
  <2>1. CASE part = "runtime"
    BY <1>1, <2>1, RuntimeNext DEF HostsInv
  <2>2. CASE part # "runtime"
    BY <1>1, <2>2 DEF HostsInv, RuntimeIdle, runtimeVars
  <2>3. QED
    BY <2>1, <2>2
<1>4. IF part' = "telemetry" THEN TelemetryInv' ELSE TelemetryIdle'
  <2>1. CASE part = "telemetry"
    BY <1>1, <2>1, TelemetryNext DEF HostsInv
  <2>2. CASE part # "telemetry"
    BY <1>1, <2>2 DEF HostsInv, TelemetryIdle, telemetryVars
  <2>3. QED
    BY <2>1, <2>2
<1>5. IF part' = "command" THEN CommandInv' ELSE CommandIdle'
  <2>1. CASE part = "command"
    BY <1>1, <2>1, CommandNext DEF HostsInv
  <2>2. CASE part # "command"
    BY <1>1, <2>2 DEF HostsInv, CommandIdle, commandVars
  <2>3. QED
    BY <2>1, <2>2
<1>6. QED
  BY <1>2, <1>3, <1>4, <1>5 DEF HostsInv

LEMMA HostsInvariant == HostsSpec => []HostsInv
BY HostsStart, HostsKeep, PTL DEF HostsSpec

(* Every variable of the wire, the runtime, the telemetry and the command  *)
(* keeps its type, whatever fails.                                         *)
THEOREM TypeCorrect ==
  HostsSpec => [](/\ part = "wire" => TypeOK
                  /\ part = "runtime" => R!TypeOK
                  /\ part = "telemetry" => T!TypeOK
                  /\ part = "command" => H!TypeOK)
<1>1. HostsInv => /\ part = "wire" => TypeOK
                  /\ part = "runtime" => R!TypeOK
                  /\ part = "telemetry" => T!TypeOK
                  /\ part = "command" => H!TypeOK
  BY DEF HostsInv, WireInv, RuntimeInv, TelemetryInv, CommandInv
<1>2. QED
  BY <1>1, HostsInvariant, PTL

(* In the hosts' runs the wire keeps its promises too (wire.ts:155).       *)
THEOREM WireOfTheHost == HostsSpec => [](TablesKept /\ DrillsAreWhole)
<1>1. HostsInv => TablesKept /\ DrillsAreWhole
  BY DEF HostsInv, WireInv, DrillInv, WireIdle, TablesKept, DrillsAreWhole
<1>2. QED
  BY <1>1, HostsInvariant, PTL

(* "if (hydrating) return" (runtime.ts:199) is enough for one SDK on the   *)
(* state directory, however many ticks overlap, calls fail and processes   *)
(* stop.                                                                   *)
THEOREM OneAgentHolds == HostsSpec => []OneAgent
<1>1. HostsInv => OneAgent
  BY InvariantGivesOneAgent DEF HostsInv, OneAgent, R!OneAgent, RuntimeIdle
<1>2. QED
  BY <1>1, HostsInvariant, PTL

(* For any number of segments, exports, attempts and failures, of a script,*)
(* a pass or a host that ends between two steps: no segment is lost on its *)
(* way (zudocs-airgap-export:21), and a marker tells the truth about its   *)
(* export (importTelemetry.ts:98-109).                                     *)
THEOREM SegmentsAccountedHolds == HostsSpec => []SegmentsAccounted
<1>1. TelemetryIdle => T!NothingLost /\ T!SettledRightly
  BY DEF TelemetryIdle, T!NothingLost, T!SettledRightly, T!Marked
<1>2. HostsInv => SegmentsAccounted
  BY <1>1 DEF HostsInv, SegmentsAccounted, TelemetryInv
<1>3. QED
  BY <1>2, HostsInvariant, PTL

(* ... and seen from outside it does what Delivery promises: a segment is  *)
(* settled once and for good, as delivered or as given up                  *)
(* (importTelemetry.ts:4-12).  That it is settled in the end is not proved *)
(* here.                                                                   *)
THEOREM Delivers == HostsSpec => T!D!Init /\ [][T!D!Next]_T!D!vars
<1>1. HostsInit => T!D!Init
  BY DeliveryInit DEF HostsInit
<1>2. HostsInv /\ [HostsNext]_hostsVars => [T!D!Next]_T!D!vars
  <2> SUFFICES ASSUME HostsInv, [HostsNext]_hostsVars PROVE [T!D!Next]_T!D!vars
    OBVIOUS
  <2>1. CASE part = "telemetry"
    BY <2>1, OnePartMoves, DeliveryStep DEF HostsInv
  <2>2. CASE part # "telemetry"
    BY <2>2, OnePartMoves DEF telemetryVars, T!D!vars, T!Marked
  <2>3. QED
    BY <2>1, <2>2
<1>3. QED
  BY <1>1, <1>2, HostsInvariant, PTL DEF HostsSpec

(* For any timeouts, retries and failures: a host_cli row is the command's *)
(* own answer, and no job ends without one (hostCli.ts:17), unless it went *)
(* with its container, its start or its last put.  A row says that no      *)
(* instance was there only when none was: a command waits for its host for *)
(* less long than the loop does.                                           *)
THEOREM AnswersTellHolds == HostsSpec => []H!AnswersTell
<1>1. HostsInv => H!AnswersTell
  BY DEF HostsInv, CommandInv, CommandIdle, H!AnswersTell
<1>2. QED
  BY <1>1, HostsInvariant, PTL
=============================================================================
