-------------------------------- MODULE Arms --------------------------------
(* The desk's panel of an experiment (services/desk-api/src/arms.ts): a fold *)
(* over the records of the runs, by arm, and over who landed where.  The     *)
(* hosts take a release when they do, and lag; each lands a customer on the  *)
(* arm the release's weights give, as the SDK promises, unless it strays.    *)
EXTENDS Naturals, Sequences, FiniteSets

CONSTANTS
  Hosts,
  CUSTOMERS,      \* how many: a customer's number is its bucket
  MaxGeneration,  \* bound: releases
  MaxRuns,        \* bound: runs recorded
  MaxFeedback,    \* bound: rows of feedback
  MaxFaults       \* bound: steps that stray

\* Assumed wherever the constants get their values.
ArmsAssumption ==
  /\ IsFiniteSet(Hosts) /\ Hosts # {} /\ CUSTOMERS \in Nat \ {0}
  /\ MaxGeneration \in Nat \ {0} /\ MaxRuns \in Nat /\ MaxFeedback \in Nat /\ MaxFaults \in Nat

VARIABLES
  dial,      \* of each release so far: how many buckets are the candidate's
  serves,    \* the release a host serves
  runs,      \* the records, in the order they are read
  feedback,  \* the rows of feedback, in theirs
  strays     \* runs that landed elsewhere than the weights say

vars == <<dial, serves, runs, feedback, strays>>

Customers == 1 .. CUSTOMERS
Tags == {"triage", "reply"}
StepLike ==
  [tag : Tags, generation : 1 .. MaxGeneration, arm : {"none", "control", "candidate", "unserved"},
   judged : BOOLEAN]
RunRow == [kind : {"run", "hosted"}, host : Hosts, customer : Customers, steps : Seq(StepLike)]
FeedbackRow == [run : 1 .. MaxRuns, filed : BOOLEAN]

TypeOK ==
  /\ dial \in Seq(0 .. CUSTOMERS) /\ Len(dial) \in 1 .. MaxGeneration
  /\ serves \in [Hosts -> 1 .. Len(dial)]
  /\ runs \in Seq(RunRow) /\ Len(runs) <= MaxRuns
  /\ feedback \in Seq(FeedbackRow) /\ Len(feedback) <= MaxFeedback /\ strays \in 0 .. MaxFaults

Init ==
  /\ dial \in [1 .. 1 -> 0 .. CUSTOMERS] /\ serves = [h \in Hosts |-> 1]
  /\ runs = <<>> /\ feedback = <<>> /\ strays = 0

-----------------------------------------------------------------------------
(* The records come about.                                                 *)

\* A dial is a new generation with new weights.
Dial ==
  /\ Len(dial) < MaxGeneration /\ \E buckets \in 0 .. CUSTOMERS : dial' = Append(dial, buckets)
  /\ UNCHANGED <<serves, runs, feedback, strays>>

Take(h) ==
  /\ serves[h] < Len(dial) /\ serves' = [serves EXCEPT ![h] = Len(dial)]
  /\ UNCHANGED <<dial, runs, feedback, strays>>

Lands(c, g) == IF c <= dial[g] THEN "candidate" ELSE "control"

\* Triage is in no experiment; the reply may be refused, and is judged if it is not.
Steps(g, arm) ==
  <<[tag |-> "triage", generation |-> g, arm |-> "none", judged |-> FALSE],
    [tag |-> "reply", generation |-> g, arm |-> arm, judged |-> arm # "unserved"]>>

Record(h, kind, c, arm) ==
  runs' = Append(runs, [kind |-> kind, host |-> h, customer |-> c, steps |-> Steps(serves[h], arm)])

Run(h) ==
  /\ Len(runs) < MaxRuns
  /\ \E c \in Customers, arm \in {"control", "candidate", "unserved"} :
       /\ Record(h, "run", c, arm)
       /\ strays' = strays + (IF arm \in {"unserved", Lands(c, serves[h])} THEN 0 ELSE 1)
  /\ strays' <= MaxFaults
  /\ UNCHANGED <<dial, serves, feedback>>

\* A host's own customers are in no table.
Hosted(h) ==
  /\ Len(runs) < MaxRuns /\ Record(h, "hosted", 1, Lands(1, serves[h]))
  /\ UNCHANGED <<dial, serves, feedback, strays>>

\* A reply is accepted; the row is filed with AirPrompter, or not.
Feedback ==
  /\ Len(feedback) < MaxFeedback
  /\ \E r \in DOMAIN runs, filed \in BOOLEAN : feedback' = Append(feedback, [run |-> r, filed |-> filed])
  /\ UNCHANGED <<dial, serves, runs, strays>>

Next == Dial \/ Feedback \/ \E h \in Hosts : Take(h) \/ Run(h) \/ Hosted(h)

Spec == Init /\ [][Next]_vars

-----------------------------------------------------------------------------
(* The fold.                                                               *)

\* Mutant: the weights in force do not count.
stickyKeyOfCustomer(c, s) == <<c, s.tag, 0>>

stickyKey(c, s) == <<c, s.tag, s.generation>>
armKey(s) == <<s.tag, s.arm>>

\* The entry of a key, or the one it starts from.
Entry(map, key, empty) == IF key \in DOMAIN map THEN map[key] ELSE empty
Put(map, key, entry) == [k \in (DOMAIN map) \cup {key} |-> IF k = key THEN entry ELSE map[k]]

NoArm == [runs |-> 0, hosts |-> [h \in Hosts |-> 0], judged |-> 0, accepted |-> 0]
NoOne == [h \in Hosts |-> {}]

\* Feedback is on the reply, and counts there once it is filed.
AcceptedOf(r) == Cardinality({i \in DOMAIN feedback : feedback[i].run = r /\ feedback[i].filed})

foldStep(acc, r, s) ==
  LET run == runs[r]
      entry == Entry(acc.arms, armKey(s), NoArm)
      seen == Entry(acc.seen, stickyKey(run.customer, s), NoOne)
  IN  IF s.arm = "unserved" THEN acc
      ELSE [arms |-> Put(acc.arms, armKey(s),
                         [runs |-> entry.runs + 1,
                          hosts |-> [entry.hosts EXCEPT ![run.host] = @ + 1],
                          judged |-> entry.judged + (IF s.judged THEN 1 ELSE 0),
                          accepted |-> entry.accepted + (IF s.tag = "reply" THEN AcceptedOf(r) ELSE 0)]),
            seen |-> IF s.arm = "none" THEN acc.seen
                     ELSE Put(acc.seen, stickyKey(run.customer, s), [seen EXCEPT ![run.host] = @ \cup {s.arm}])]

\* The steps of a run in their order, and the runs in theirs: those since a time, the
\* hosted ones not among them.
foldRun(acc, r) ==
  LET after[i \in 0 .. Len(runs[r].steps)] ==
        IF i = 0 THEN acc ELSE foldStep(after[i - 1], r, runs[r].steps[i])
  IN  after[Len(runs[r].steps)]

NoEntries == [key \in {} |-> 0]

foldArms(from) ==
  LET upTo[r \in 0 .. Len(runs)] ==
        IF r < from THEN [arms |-> NoEntries, seen |-> NoEntries]
        ELSE IF runs[r].kind = "hosted" THEN upTo[r - 1] ELSE foldRun(upTo[r - 1], r)
  IN  upTo[Len(runs)]

\* Every host that served the customer served one arm, and the same.
consistent(perHost) ==
  LET served == {h \in Hosts : perHost[h] # {}}
      distinct == {perHost[h] : h \in served}
  IN  Cardinality(distinct) = 1 /\ \A arms \in distinct : Cardinality(arms) = 1

-----------------------------------------------------------------------------
(* Properties.                                                             *)

\* "Two hosts disagree only when they served the same customer different arms under the same
\* release; a host that lags a generation is simply not yet comparable" (arms.ts:11): whatever
\* part of the runs is looked at, a row is inconsistent exactly when two of its runs differ,
\* and none is unless a host strayed.  The sums leave out no step that was served and count
\* none twice, nor the feedback of one.
ArmsAreTold ==
  \A from \in 1 .. Len(runs) + 1 :
    LET folded == foldArms(from)
        step(x) == runs[x[1]].steps[x[2]]
        served == {x \in (from .. Len(runs)) \X (1 .. 2) : runs[x[1]].kind = "run" /\ step(x).arm # "unserved"}
        of(key) == {x \in served : armKey(step(x)) = key}
        replies == {x \in served : step(x).arm \in {"control", "candidate"}}
        row(x) == <<runs[x[1]].customer, step(x).tag, step(x).generation>>
    IN  /\ DOMAIN folded.arms = {armKey(step(x)) : x \in served}
        /\ \A key \in DOMAIN folded.arms :
             LET arm == folded.arms[key] IN
             /\ arm.runs = Cardinality(of(key)) /\ arm.judged = Cardinality({x \in of(key) : step(x).judged})
             /\ \A h \in Hosts : arm.hosts[h] = Cardinality({x \in of(key) : runs[x[1]].host = h})
             /\ arm.accepted = Cardinality({i \in DOMAIN feedback : feedback[i].filed /\ <<feedback[i].run, 2>> \in of(key)})
        /\ DOMAIN folded.seen = {row(x) : x \in replies}
        /\ \A key \in DOMAIN folded.seen :
             consistent(folded.seen[key]) <=> \A x, y \in replies : row(x) = key /\ row(y) = key => step(x).arm = step(y).arm
        /\ strays = 0 => \A key \in DOMAIN folded.seen : consistent(folded.seen[key])
=============================================================================
