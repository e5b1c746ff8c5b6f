----------------------------- MODULE DeskProofs -----------------------------
(***************************************************************************)
(* Proofs about the containers of the desk's function, for any number of   *)
(* them, of runs, releases, failed calls and replaced containers: what a   *)
(* request is refused for, where feedback lands, and what is a metric; and *)
(* about a tab of the desk's app, for any runs, tickets and page: that its *)
(* cursor passes no row by, and that its panel has what it was told of.    *)
(*                                                                         *)
(* None of the three is inductive.  A second failure of a start would be   *)
(* thrown whatever it is, but a start is only tried again for the race,    *)
(* which a store has once.  Feedback lands right because a run is asked    *)
(* for by one request at a time, and never again once it has a record; and *)
(* a metric is written once because an observation is, in one container.   *)
(*                                                                         *)
(* Nor are the tab's.  A cursor passes nothing by because a poll is asked  *)
(* with the cursor there is, or with one a reset has taken back since, and *)
(* its answer ends behind every row it left out.  The panel is right       *)
(* because one read of it is the newest, of the ticket selected, and that  *)
(* one brings every row the effect has acted on.                           *)
(***************************************************************************)
EXTENDS MCDesk, FiniteSetTheorems, WellFoundedInduction, TLAPS

\* The observations that were made and not lost with their container.
Made == platform \cup UNION {spool[c] : c \in Containers}

\* Container c has a request of that kind whose work is to come.
Asks(c, kind) == request[c].kind = kind /\ request[c].at \in {"start", "sync", "work"}

\* A start is tried a second time only after the race, which a store has once.
StartsTwice ==
  \A c \in Containers :
    /\ memo[c] # "rejected"
    /\ request[c].retried => ~ freshStore[c]
    /\ C!At(c, "unavailable") => request[c].failed

Named == \A c \in Containers : request[c].kind # "tick" => request[c].run \in Served

\* A run under way has no record yet, and one container.
RunsOnce ==
  \A c \in Containers : Asks(c, "run") =>
    /\ version[request[c].run] = "none"
    /\ \A d \in Containers \ {c} : request[d].run # request[c].run

\* Feedback under way is on a run with a record, in one container, and nowhere yet.
FeedbackOnce ==
  \A c \in Containers : Asks(c, "feedback") =>
    /\ version[request[c].run] # "none" /\ told[request[c].run] # "nothing"
    /\ \A o \in Made : o.kind = "feedback" => o.run # request[c].run
    /\ \A d \in Containers \ {c} : Asks(d, "feedback") => request[d].run # request[c].run

\* What was made is of the version its run was served by.
LandsRight ==
  \A o \in Made : /\ o.version = version[o.run]
                  /\ o.kind = "feedback" => told[o.run] # "nothing"

\* What a container still has to upload is no metric yet, and is in no other.
Counted ==
  /\ \A o \in C!Observations : emitted[o] \in {0, 1} /\ (emitted[o] = 1 => o \in platform)
  /\ \A c \in Containers : \A o \in spool[c] :
       emitted[o] = 0 /\ \A d \in Containers \ {c} : o \notin spool[d]

FunctionInv ==
  /\ C!TypeOK /\ StartsTwice /\ Named
  /\ RunsOnce /\ FeedbackOnce /\ LandsRight /\ Counted

-----------------------------------------------------------------------------
(* Lemmas.                                                                 *)

LEMMA Constants ==
  /\ MaxGeneration \in Nat \ {0} /\ MaxFaults \in Nat
  /\ "none" \notin Served /\ "none" \notin C!Versions
BY ConstantsAssumption DEF C!ContainersAssumption, C!NoneAssumption

Ats == {"idle", "start", "sync", "work", "flush", "tell", "row", "put", "unavailable"}

LEMMA IdleIs ==
  /\ C!Idle \in C!Requests /\ C!Idle.at = "idle" /\ C!Idle.kind = "tick" /\ C!Idle.run = "none"
  /\ C!Idle.retried = FALSE /\ C!Idle.failed = FALSE
<1>1. 0 \in 0 .. MaxGeneration
  BY Constants
<1>2. QED
  BY <1>1 DEF C!Idle, C!Requests

(* A request that goes on is the same one elsewhere.                       *)
LEMMA GoesOn ==
  ASSUME C!TypeOK, NEW c \in Containers, NEW pc \in Ats, C!Goto(c, pc)
  PROVE  /\ request' \in [Containers -> C!Requests]
         /\ \A d \in Containers \ {c} : request'[d] = request[d]
         /\ request'[c].at = pc
         /\ request'[c].kind = request[c].kind /\ request'[c].run = request[c].run
         /\ request'[c].retried = request[c].retried /\ request'[c].failed = request[c].failed
         /\ request'[c].filed = request[c].filed
<1>1. request \in [Containers -> C!Requests] /\ request[c] \in C!Requests
  BY DEF C!TypeOK
<1>2. request' = [request EXCEPT ![c] = [request[c] EXCEPT !.at = pc]]
  BY <1>1 DEF C!Goto
<1>3. [request[c] EXCEPT !.at = pc] \in C!Requests
  BY <1>1 DEF C!Requests, Ats
<1>4. request'[c] = [request[c] EXCEPT !.at = pc]
  BY <1>1, <1>2
<1>5. QED
  BY <1>1, <1>2, <1>3, <1>4 DEF C!Requests

LEMMA FaultType == ASSUME C!TypeOK, C!Fault PROVE faults' \in 0 .. MaxFaults
BY Constants DEF C!TypeOK, C!Fault

(* The version of a release is one.                                        *)
LEMMA VersionIs ==
  ASSUME C!TypeOK, NEW c \in Containers
  PROVE  VersionOf[generation[c]] \in C!Versions /\ VersionOf[generation[c]] # "none"
<1>1. generation[c] \in C!Generations
  BY DEF C!TypeOK
<1>2. QED
  BY <1>1, Constants DEF C!Versions

(* A step that only moves a request past its work, or ends it.             *)
Elsewhere(c) == \A d \in Containers \ {c} : request'[d] = request[d]

LEMMA QuietStep ==
  ASSUME FunctionInv, C!TypeOK', NEW c \in Containers, Elsewhere(c),
         UNCHANGED <<version, told>>,
         Made' \subseteq Made, Counted', StartsTwice',
         request'[c].kind # "tick" => request'[c].run \in Served,
         \/ request'[c].kind = "tick" /\ request'[c].run \in {request[c].run, "none"}
         \/ /\ request'[c].kind = request[c].kind /\ request'[c].run = request[c].run
            /\ request'[c].at \in {"start", "sync", "work"} => request[c].at \in {"start", "sync", "work"}
  PROVE  FunctionInv'
<1>1. Named'
  BY DEF FunctionInv, Named, Elsewhere
<1>2. \A d \in Containers, kind \in {"run", "feedback"} :
        Asks(d, kind)' => Asks(d, kind) /\ request'[d].run = request[d].run
  BY DEF Asks, Elsewhere
<1>3. \A d \in Containers : request'[d].run \in {request[d].run, "none"}
  BY DEF Elsewhere
<1>4. \A d \in Containers : Asks(d, "run") => request[d].run # "none"
  BY Constants DEF FunctionInv, Named, Asks
<1>5. RunsOnce'
  BY <1>2, <1>3, <1>4 DEF FunctionInv, RunsOnce
<1>6. FeedbackOnce'
  BY <1>2 DEF FunctionInv, FeedbackOnce
<1>7. LandsRight'
  BY DEF FunctionInv, LandsRight
<1>8. QED
  BY <1>1, <1>5, <1>6, <1>7 DEF FunctionInv

(* ... and when it leaves the observations alone.                          *)
LEMMA CountedStays ==
  ASSUME FunctionInv, UNCHANGED <<platform, emitted>>,
         \A c \in Containers : spool'[c] \subseteq spool[c]
  PROVE  Made' \subseteq Made /\ Counted'
<1>1. Made' \subseteq Made
  BY DEF Made
<1>2. Counted'
  BY DEF FunctionInv, Counted
<1>3. QED
  BY <1>1, <1>2

LEMMA FunctionInit == C!Init => FunctionInv
<1> SUFFICES ASSUME C!Init PROVE FunctionInv
  OBVIOUS
<1> USE DEF C!Init
<1>1. C!TypeOK
  <2>1. request \in [Containers -> C!Requests]
    BY IdleIs
  <2>2. 1 \in C!Generations
    BY Constants DEF C!Generations
  <2>3. 0 \in 0 .. MaxGeneration /\ 0 \in 0 .. MaxFaults
    BY Constants
  <2>4. QED
    BY <2>1, <2>2, <2>3 DEF C!TypeOK
<1>2. \A c \in Containers : request[c] = C!Idle
  OBVIOUS
<1>3. StartsTwice /\ Named
  BY <1>2, IdleIs DEF StartsTwice, Named, C!At
<1>4. RunsOnce /\ FeedbackOnce
  BY <1>2, IdleIs DEF RunsOnce, FeedbackOnce, Asks
<1>5. LandsRight /\ Counted
  BY DEF LandsRight, Made, Counted
<1>6. QED
  BY <1>1, <1>3, <1>4, <1>5 DEF FunctionInv

-----------------------------------------------------------------------------
(* A request comes.                                                        *)

LEMMA Comes ==
  ASSUME FunctionInv, NEW c \in Containers, NEW kind \in {"run", "feedback", "tick"},
         NEW r \in Served \cup {"none"}, C!createHandler(c, kind, r),
         told' \in [Served -> {"nothing", "asked", "filed", "refused"}]
  PROVE  /\ C!TypeOK' /\ StartsTwice' /\ Elsewhere(c)
         /\ request'[c].kind = kind /\ request'[c].run = r
         /\ request[c].at \in {"idle", "unavailable"}
         /\ UNCHANGED <<version, platform, emitted, spool>>
<1>1. C!TypeOK /\ request \in [Containers -> C!Requests] /\ memo[c] # "rejected"
  BY DEF FunctionInv, C!TypeOK, StartsTwice
<1>2. UNCHANGED <<published, freshStore, memo, generation, mints, spool, version, platform, emitted, row, faults>>
  BY DEF C!createHandler, C!container
<1> DEFINE at == IF memo[c] = "host" THEN "sync" ELSE "start"
           come == [C!Idle EXCEPT !.kind = kind, !.run = r, !.at = at]
<1>3. request' = [request EXCEPT ![c] = come]
  BY <1>1 DEF C!createHandler
<1>4. /\ come \in C!Requests /\ come.kind = kind /\ come.run = r /\ come.at = at
      /\ come.retried = FALSE
  <2>1. 0 \in 0 .. MaxGeneration
    BY Constants
  <2>2. QED
    BY <2>1 DEF C!Idle, C!Requests
<1>5. request' \in [Containers -> C!Requests] /\ request'[c] = come /\ Elsewhere(c)
  BY <1>1, <1>3, <1>4 DEF Elsewhere
<1>6. C!TypeOK'
  BY <1>1, <1>2, <1>5 DEF C!TypeOK
<1>7. StartsTwice'
  <2>1. request'[c].retried = FALSE /\ request'[c].at # "unavailable"
    BY <1>4, <1>5
  <2>2. QED
    BY <1>2, <1>5, <2>1 DEF FunctionInv, StartsTwice, C!At, Elsewhere
<1>8. QED
  BY <1>2, <1>4, <1>5, <1>6, <1>7 DEF C!createHandler, C!At

LEMMA TickComes ==
  ASSUME FunctionInv, NEW c \in Containers, C!StatusTick(c)
  PROVE  FunctionInv'
<1>1. C!createHandler(c, "tick", "none") /\ told' = told
  BY DEF C!StatusTick
<1>2. /\ C!TypeOK' /\ StartsTwice' /\ Elsewhere(c)
      /\ request'[c].kind = "tick" /\ request'[c].run = "none"
      /\ UNCHANGED <<version, platform, emitted, spool>>
  <2>1. told' \in [Served -> {"nothing", "asked", "filed", "refused"}]
    BY <1>1 DEF FunctionInv, C!TypeOK
  <2>2. QED
    BY <1>1, <2>1, Comes
<1>3. Made' \subseteq Made /\ Counted'
  BY <1>2, CountedStays
<1>4. QED
  BY <1>1, <1>2, <1>3, QuietStep

(* A run or feedback is asked for once.                                    *)
LEMMA ClickComes ==
  ASSUME FunctionInv, NEW c \in Containers, C!Click(c)
  PROVE  FunctionInv'
<1>1. PICK r \in Served :
        \/ /\ version[r] = "none" /\ \A d \in Containers : request[d].run # r
           /\ C!createHandler(c, "run", r) /\ told' = told
        \/ /\ version[r] # "none" /\ told[r] = "nothing"
           /\ C!createHandler(c, "feedback", r) /\ told' = [told EXCEPT ![r] = "asked"]
  BY DEF C!Click
<1>2. told \in [Served -> {"nothing", "asked", "filed", "refused"}]
  BY DEF FunctionInv, C!TypeOK
<1>3. PICK kind \in {"run", "feedback"} :
        /\ C!createHandler(c, kind, r)
        /\ kind = "run" => version[r] = "none" /\ (\A d \in Containers : request[d].run # r) /\ told' = told
        /\ kind = "feedback" => /\ version[r] # "none" /\ told[r] = "nothing"
                                /\ told' = [told EXCEPT ![r] = "asked"]
  BY <1>1
<1>4. /\ C!TypeOK' /\ StartsTwice' /\ Elsewhere(c)
      /\ request'[c].kind = kind /\ request'[c].run = r
      /\ UNCHANGED <<version, platform, emitted, spool>>
  <2>1. told' \in [Served -> {"nothing", "asked", "filed", "refused"}]
    BY <1>2, <1>3
  <2>2. QED
    BY <1>3, <2>1, Comes
<1>5. \A q \in Served : told[q] # "nothing" => told'[q] # "nothing"
  BY <1>2, <1>3
<1>6. kind = "feedback" => told'[r] # "nothing"
  BY <1>2, <1>3
<1>7. Made' = Made /\ Counted'
  BY <1>4 DEF Made, FunctionInv, Counted
<1>8. Named'
  BY <1>4 DEF FunctionInv, Named, Elsewhere
<1>9. RunsOnce'
  <2>1. ASSUME NEW d \in Containers \ {c}, Asks(d, "run")' PROVE Asks(d, "run") /\ request[d].run # r
    <3>1. Asks(d, "run")
      BY <1>4, <2>1 DEF Asks, Elsewhere
    <3>2. version[request[d].run] = "none"
      BY <3>1 DEF FunctionInv, RunsOnce
    <3>3. QED
      BY <1>3, <3>1, <3>2
  <2>2. QED
    BY <1>3, <1>4, <2>1 DEF FunctionInv, RunsOnce, Asks, Elsewhere
<1>10. FeedbackOnce'
  <2>1. \A d \in Containers : Asks(d, "feedback") => told[request[d].run] # "nothing" /\ request[d].run \in Served
    BY DEF FunctionInv, FeedbackOnce, Named, Asks
  <2>2. \A o \in Made : o.kind = "feedback" => told[o.run] # "nothing"
    BY DEF FunctionInv, LandsRight
  <2>3. \A d \in Containers \ {c} : Asks(d, "feedback")' => Asks(d, "feedback") /\ request'[d] = request[d]
    BY <1>4 DEF Asks, Elsewhere
  <2>4. Asks(c, "feedback")' => kind = "feedback"
    BY <1>4 DEF Asks
  <2>5. QED
    BY <1>3, <1>4, <1>5, <1>6, <1>7, <2>1, <2>2, <2>3, <2>4 DEF FunctionInv, FeedbackOnce
<1>11. LandsRight'
  <2>1. \A o \in Made : o.run \in Served
    BY DEF FunctionInv, C!TypeOK, Made, C!Observations
  <2>2. QED
    BY <1>4, <1>5, <1>7, <2>1 DEF FunctionInv, LandsRight
<1>12. QED
  BY <1>4, <1>7, <1>8, <1>9, <1>10, <1>11 DEF FunctionInv

-----------------------------------------------------------------------------
(* The work of a request.                                                  *)

LEMMA UnavailableIs ==
  ASSUME C!TypeOK, NEW c \in Containers, C!Unavailable(c, TRUE)
  PROVE  /\ request' \in [Containers -> C!Requests] /\ Elsewhere(c)
         /\ request'[c].kind = "tick" /\ request'[c].run = "none" /\ request'[c].retried = FALSE
         /\ request'[c].failed = TRUE
<1> DEFINE refused == [C!Idle EXCEPT !.at = "unavailable", !.failed = TRUE]
<1>1. request \in [Containers -> C!Requests] /\ request' = [request EXCEPT ![c] = refused]
  BY DEF C!TypeOK, C!Unavailable
<1>2. /\ refused \in C!Requests /\ refused.kind = "tick" /\ refused.run = "none"
      /\ refused.retried = FALSE /\ refused.failed = TRUE
  <2>1. 0 \in 0 .. MaxGeneration
    BY Constants
  <2>2. QED
    BY <2>1 DEF C!Idle, C!Requests
<1>3. QED
  BY <1>1, <1>2 DEF Elsewhere

LEMMA AnswerIs ==
  ASSUME C!TypeOK, NEW c \in Containers, C!Answer(c)
  PROVE  /\ request' \in [Containers -> C!Requests] /\ Elsewhere(c)
         /\ request'[c].kind = "tick" /\ request'[c].run = "none" /\ request'[c].retried = FALSE
         /\ request'[c].at = "idle"
BY IdleIs DEF C!Answer, C!TypeOK, Elsewhere

(* A start that goes well, is tried again for the race, or is refused.     *)
LEMMA StartStep ==
  ASSUME FunctionInv, NEW c \in Containers, C!startHost(c)
  PROVE  FunctionInv'
<1>1. /\ C!TypeOK /\ request[c].at = "start" /\ request[c] \in C!Requests
      /\ request \in [Containers -> C!Requests]
      /\ UNCHANGED <<published, mints, spool, version, told, platform, emitted, row>>
  BY DEF C!startHost, C!At, C!records, FunctionInv, C!TypeOK
<1>2. Made' \subseteq Made /\ Counted'
  BY <1>1, CountedStays
<1>3. CASE /\ memo' = [memo EXCEPT ![c] = "host"] /\ generation' = [generation EXCEPT ![c] = published]
           /\ freshStore' = [freshStore EXCEPT ![c] = FALSE] /\ UNCHANGED faults
           /\ request' = [request EXCEPT ![c].at = "sync", ![c].retried = FALSE]
  <2> DEFINE goes == [request[c] EXCEPT !.at = "sync", !.retried = FALSE]
  <2>1. request' = [request EXCEPT ![c] = goes]
    BY <1>1, <1>3
  <2>2. /\ goes \in C!Requests /\ goes.at = "sync" /\ goes.retried = FALSE
        /\ goes.kind = request[c].kind /\ goes.run = request[c].run
    BY <1>1 DEF C!Requests
  <2>3. request' \in [Containers -> C!Requests] /\ request'[c] = goes /\ Elsewhere(c)
    BY <1>1, <2>1, <2>2 DEF Elsewhere
  <2>4. C!TypeOK'
    BY <1>1, <1>3, <2>3 DEF C!TypeOK
  <2>5. StartsTwice'
    BY <1>1, <1>3, <2>2, <2>3 DEF FunctionInv, StartsTwice, C!At, Elsewhere, C!TypeOK
  <2>6. QED
    BY <1>1, <1>2, <2>2, <2>3, <2>4, <2>5, QuietStep DEF FunctionInv, Named
<1>4. CASE freshStore[c] /\ C!startWithRetry(c) /\ UNCHANGED <<generation, faults>>
  <2> DEFINE again == [request[c] EXCEPT !.retried = TRUE]
  <2>1. ~ request[c].retried
    BY <1>4 DEF FunctionInv, StartsTwice
  <2>2. /\ request' = [request EXCEPT ![c] = again] /\ memo' = memo
        /\ freshStore' = [freshStore EXCEPT ![c] = FALSE]
    BY <1>1, <1>4, <2>1 DEF C!startWithRetry
  <2>3. /\ again \in C!Requests /\ again.at = "start"
        /\ again.kind = request[c].kind /\ again.run = request[c].run
    BY <1>1 DEF C!Requests
  <2>4. request' \in [Containers -> C!Requests] /\ request'[c] = again /\ Elsewhere(c)
    BY <1>1, <2>2, <2>3 DEF Elsewhere
  <2>5. C!TypeOK'
    BY <1>1, <1>4, <2>2, <2>4 DEF C!TypeOK
  <2>6. StartsTwice'
    BY <1>1, <2>2, <2>3, <2>4 DEF FunctionInv, StartsTwice, C!At, Elsewhere, C!TypeOK
  <2>7. QED
    BY <1>1, <1>2, <2>3, <2>4, <2>5, <2>6, QuietStep DEF FunctionInv, Named
<1>5. CASE C!getHost(c) /\ C!Fault /\ UNCHANGED <<generation, freshStore>>
  <2>1. memo' = [memo EXCEPT ![c] = "none"] /\ C!Unavailable(c, TRUE)
    BY <1>5 DEF C!getHost
  <2>2. /\ request' \in [Containers -> C!Requests] /\ Elsewhere(c)
        /\ request'[c].kind = "tick" /\ request'[c].run = "none" /\ request'[c].retried = FALSE
        /\ request'[c].failed = TRUE
    BY <1>1, <2>1, UnavailableIs
  <2>3. C!TypeOK'
    BY <1>1, <1>5, <2>1, <2>2, FaultType DEF C!TypeOK
  <2>4. StartsTwice'
    BY <1>1, <1>5, <2>1, <2>2 DEF FunctionInv, StartsTwice, C!At, Elsewhere, C!TypeOK
  <2>5. QED
    BY <1>1, <1>2, <2>2, <2>3, <2>4, QuietStep
<1>6. QED
  BY <1>3, <1>4, <1>5 DEF C!startHost

(* A request that goes on past its start, with nothing new observed.       *)
LEMMA GoesOnQuietly ==
  ASSUME FunctionInv, C!TypeOK', NEW c \in Containers, NEW pc \in Ats \ {"start", "unavailable"},
         Elsewhere(c), request'[c].at = pc,
         request'[c].kind = request[c].kind /\ request'[c].run = request[c].run,
         request'[c].retried = request[c].retried,
         pc \in {"sync", "work"} => request[c].at \in {"start", "sync", "work"},
         UNCHANGED <<memo, freshStore, version, told>>,
         Made' \subseteq Made, Counted'
  PROVE  FunctionInv'
<1>1. StartsTwice'
  BY DEF FunctionInv, StartsTwice, C!At, Elsewhere
<1>2. QED
  BY <1>1, QuietStep DEF FunctionInv, Named

LEMMA SyncStep ==
  ASSUME FunctionInv, NEW c \in Containers, C!Sync(c)
  PROVE  FunctionInv'
<1>1. /\ C!TypeOK /\ request[c].at = "sync"
      /\ UNCHANGED <<published, freshStore, memo, mints, spool, version, told, platform, emitted, row>>
      /\ generation' = [generation EXCEPT ![c] = published] \/ generation' = generation
      /\ faults' = faults \/ C!Fault
  BY DEF C!Sync, C!At, C!records, FunctionInv
<1>2. PICK pc \in {"flush", "work"} : C!Goto(c, pc)
  BY DEF C!Sync
<1>3. pc \in Ats /\ pc \in Ats \ {"start", "unavailable"}
  BY DEF Ats
<1>4. /\ request' \in [Containers -> C!Requests] /\ Elsewhere(c) /\ request'[c].at = pc
      /\ request'[c].kind = request[c].kind /\ request'[c].run = request[c].run
      /\ request'[c].retried = request[c].retried
  BY <1>1, <1>2, <1>3, GoesOn DEF Elsewhere
<1>5. faults' \in 0 .. MaxFaults
  BY <1>1, FaultType DEF C!TypeOK
<1>6. C!TypeOK'
  BY <1>1, <1>4, <1>5 DEF C!TypeOK
<1>7. Made' \subseteq Made /\ Counted'
  BY <1>1, CountedStays
<1>8. QED
  BY <1>1, <1>3, <1>4, <1>6, <1>7, GoesOnQuietly

-----------------------------------------------------------------------------
(* What is observed.                                                       *)

(* An observation that nobody has made joins the others.                   *)
LEMMA Observed ==
  ASSUME FunctionInv, NEW c \in Containers, NEW o \in C!Observations, o \notin Made,
         spool' = [spool EXCEPT ![c] = spool[c] \cup {o}], UNCHANGED <<platform, emitted>>
  PROVE  /\ spool' \in [Containers -> SUBSET C!Observations]
         /\ Made' = Made \cup {o} /\ Counted'
<1>1. spool \in [Containers -> SUBSET C!Observations]
  BY DEF FunctionInv, C!TypeOK
<1>2. spool'[c] = spool[c] \cup {o} /\ \A d \in Containers \ {c} : spool'[d] = spool[d]
  BY <1>1
<1>3. o \notin platform /\ \A d \in Containers : o \notin spool[d]
  BY DEF Made
<1>4. emitted[o] = 0
  BY <1>3 DEF FunctionInv, Counted
<1>5. Counted'
  <2>1. ASSUME NEW d \in Containers, NEW q \in spool'[d]
        PROVE  emitted[q] = 0 /\ \A e \in Containers \ {d} : q \notin spool'[e]
    <3>1. CASE q = o
      BY <1>2, <1>3, <1>4, <2>1, <3>1
    <3>2. CASE q # o
      BY <1>2, <2>1, <3>2 DEF FunctionInv, Counted
    <3>3. QED
      BY <3>1, <3>2
  <2>2. QED
    BY <2>1 DEF FunctionInv, Counted
<1>6. Made' = Made \cup {o}
  <2>1. \A q : q \in UNION {spool'[d] : d \in Containers} <=> q = o \/ q \in UNION {spool[d] : d \in Containers}
    BY <1>2
  <2>2. QED
    BY <2>1 DEF Made
<1>7. QED
  BY <1>1, <1>5, <1>6

LEMMA RunStep ==
  ASSUME FunctionInv, NEW c \in Containers, C!runTicket(c)
  PROVE  FunctionInv'
<1> DEFINE r == request[c].run
           v == VersionOf[generation[c]]
           o == [run |-> r, kind |-> "run", version |-> v]
<1>1. /\ C!TypeOK /\ request[c].at = "work" /\ request[c].kind = "run"
      /\ spool' = [spool EXCEPT ![c] = spool[c] \cup {o}]
      /\ version' = [version EXCEPT ![r] = v]
      /\ mints' = [mints EXCEPT ![c] = mints[c] \cup {r}]
      /\ C!Goto(c, "flush")
      /\ UNCHANGED <<published, freshStore, memo, generation, told, platform, emitted, row, faults>>
  BY DEF C!runTicket, C!At, C!Observe, FunctionInv
<1>2. v \in C!Versions /\ v # "none"
  BY <1>1, VersionIs
<1>3. r \in Served /\ version[r] = "none" /\ \A d \in Containers \ {c} : request[d].run # r
  BY <1>1 DEF FunctionInv, Named, RunsOnce, Asks
<1>4. o \in C!Observations /\ o.version = v /\ o.run = r /\ o.kind = "run"
  BY <1>2, <1>3 DEF C!Observations
<1>5. \A q \in Made : q.version # "none" /\ q.run \in Served
  BY <1>1, Constants DEF C!TypeOK, Made, C!Observations
<1>6. \A q \in Made : q.run # r
  BY <1>3, <1>5 DEF FunctionInv, LandsRight
<1>7. o \notin Made
  BY <1>4, <1>6
<1>8. /\ spool' \in [Containers -> SUBSET C!Observations]
      /\ Made' = Made \cup {o} /\ Counted'
  BY <1>1, <1>4, <1>7, Observed
<1>9. /\ request' \in [Containers -> C!Requests] /\ Elsewhere(c) /\ request'[c].at = "flush"
      /\ request'[c].kind = "run" /\ request'[c].run = r
      /\ request'[c].retried = request[c].retried
  BY <1>1, GoesOn DEF Elsewhere, Ats
<1>10. \A q \in Served : version'[q] = IF q = r THEN v ELSE version[q]
  BY <1>1 DEF C!TypeOK
<1>11. C!TypeOK'
  <2>1. version' \in [Served -> C!Versions \cup {"none"}] /\ mints' \in [Containers -> SUBSET Served]
    BY <1>1, <1>2, <1>3 DEF C!TypeOK
  <2>2. QED
    BY <1>1, <1>8, <1>9, <2>1 DEF C!TypeOK
<1>12. StartsTwice' /\ Named'
  BY <1>1, <1>3, <1>9 DEF FunctionInv, StartsTwice, Named, C!At, Elsewhere
<1>13. \A d \in Containers : (Asks(d, "run")' => d # c /\ Asks(d, "run"))
                            /\ (Asks(d, "feedback")' => d # c /\ Asks(d, "feedback"))
  BY <1>9 DEF Asks, Elsewhere
<1>14. \A d \in Containers : request'[d].run = request[d].run /\ (d # c => request'[d].run # r)
  BY <1>3, <1>9 DEF Elsewhere
<1>15. \A d \in Containers : Asks(d, "run") \/ Asks(d, "feedback") => request[d].run \in Served
  BY DEF FunctionInv, Named, Asks
<1>16. RunsOnce'
  BY <1>10, <1>13, <1>14, <1>15 DEF FunctionInv, RunsOnce
<1>17. FeedbackOnce'
  BY <1>1, <1>4, <1>8, <1>10, <1>13, <1>14, <1>15 DEF FunctionInv, FeedbackOnce
<1>18. LandsRight'
  BY <1>1, <1>3, <1>4, <1>5, <1>6, <1>8, <1>10 DEF FunctionInv, LandsRight
<1>19. QED
  BY <1>8, <1>11, <1>12, <1>16, <1>17, <1>18 DEF FunctionInv

LEMMA FeedbackStep ==
  ASSUME FunctionInv, NEW c \in Containers, C!fileFeedback(c)
  PROVE  FunctionInv'
<1> DEFINE r == request[c].run
           o == [run |-> r, kind |-> "feedback", version |-> version[r]]
<1>1. /\ C!TypeOK /\ request[c].at = "work" /\ request[c].kind = "feedback"
      /\ UNCHANGED <<published, freshStore, memo, generation, mints, version, told, platform, emitted, row>>
  BY DEF C!fileFeedback, C!At, C!records, FunctionInv
<1>2. /\ r \in Served /\ version[r] # "none" /\ told[r] # "nothing"
      /\ \A q \in Made : q.kind = "feedback" => q.run # r
      /\ \A d \in Containers \ {c} : Asks(d, "feedback") => request[d].run # r
  BY <1>1 DEF FunctionInv, Named, FeedbackOnce, Asks
<1>3. CASE /\ spool' = [spool EXCEPT ![c] = spool[c] \cup {o}]
           /\ request' = [request EXCEPT ![c].at = "flush", ![c].filed = TRUE] /\ faults' = faults
  <2> DEFINE files2 == [request[c] EXCEPT !.at = "flush", !.filed = TRUE]
  <2>1. version[r] \in C!Versions
    BY <1>1, <1>2 DEF C!TypeOK
  <2>2. o \in C!Observations /\ o.version = version[r] /\ o.run = r /\ o.kind = "feedback"
    BY <1>2, <2>1 DEF C!Observations
  <2>3. o \notin Made
    BY <1>2, <2>2
  <2>4. /\ spool' \in [Containers -> SUBSET C!Observations]
        /\ Made' = Made \cup {o} /\ Counted'
    BY <1>1, <1>3, <2>2, <2>3, Observed
  <2>5. request \in [Containers -> C!Requests] /\ request[c] \in C!Requests
    BY <1>1 DEF C!TypeOK
  <2>6. request' = [request EXCEPT ![c] = files2]
    BY <1>3, <2>5
  <2>7. /\ files2 \in C!Requests /\ files2.at = "flush" /\ files2.kind = "feedback" /\ files2.run = r
        /\ files2.retried = request[c].retried
    BY <1>1, <2>5 DEF C!Requests
  <2>8. request' \in [Containers -> C!Requests] /\ request'[c] = files2 /\ Elsewhere(c)
    BY <2>5, <2>6, <2>7 DEF Elsewhere
  <2>9. C!TypeOK'
    BY <1>1, <1>3, <2>4, <2>8 DEF C!TypeOK
  <2>10. StartsTwice' /\ Named'
    <3>1. /\ request'[c].at = "flush" /\ request'[c].run \in Served
          /\ request'[c].retried = request[c].retried
      BY <1>2, <2>7, <2>8
    <3>2. StartsTwice'
      BY <1>1, <2>8, <3>1 DEF FunctionInv, StartsTwice, C!At, Elsewhere
    <3>3. Named'
      BY <1>1, <2>8, <3>1 DEF FunctionInv, Named, Elsewhere
    <3>4. QED
      BY <3>2, <3>3
  <2>11. \A d \in Containers : (Asks(d, "run")' => d # c /\ Asks(d, "run"))
                              /\ (Asks(d, "feedback")' => d # c /\ Asks(d, "feedback"))
    BY <2>7, <2>8 DEF Asks, Elsewhere
  <2>12. \A d \in Containers : request'[d].run = request[d].run
    BY <2>7, <2>8 DEF Elsewhere
  <2>13. RunsOnce'
    BY <1>1, <2>11, <2>12 DEF FunctionInv, RunsOnce
  <2>14. FeedbackOnce'
    BY <1>1, <1>2, <2>2, <2>4, <2>11, <2>12 DEF FunctionInv, FeedbackOnce
  <2>15. LandsRight'
    BY <1>1, <1>2, <2>2, <2>4 DEF FunctionInv, LandsRight
  <2>16. QED
    BY <2>4, <2>9, <2>10, <2>13, <2>14, <2>15 DEF FunctionInv
<1>4. CASE C!Goto(c, "flush") /\ spool' = spool /\ (faults' = faults \/ C!Fault)
  <2>1. /\ request' \in [Containers -> C!Requests] /\ Elsewhere(c) /\ request'[c].at = "flush"
        /\ request'[c].kind = request[c].kind /\ request'[c].run = request[c].run
        /\ request'[c].retried = request[c].retried
    BY <1>1, <1>4, GoesOn DEF Elsewhere, Ats
  <2>2. faults' \in 0 .. MaxFaults
    BY <1>1, <1>4, FaultType DEF C!TypeOK
  <2>3. C!TypeOK'
    BY <1>1, <1>4, <2>1, <2>2 DEF C!TypeOK
  <2>4. Made' \subseteq Made /\ Counted'
    BY <1>1, <1>4, CountedStays
  <2>5. "flush" \in Ats \ {"start", "unavailable"}
    BY DEF Ats
  <2>6. QED
    BY <1>1, <2>1, <2>3, <2>4, <2>5, GoesOnQuietly
<1>5. C!ReDerived(c, r) \in {version[r], "none"}
  BY DEF C!ReDerived
<1>6. QED
  BY <1>3, <1>4, <1>5 DEF C!fileFeedback, C!Observe

-----------------------------------------------------------------------------
(* What is uploaded.                                                       *)

(* The tee writes an upload's rows once it is accepted, and none before.   *)
LEMMA EmfLines ==
  ASSUME C!TypeOK, NEW c \in Containers
  PROVE  /\ C!emfLinesOf(c, TRUE) =
              [o \in C!Observations |-> emitted[o] + (IF o \in spool[c] THEN 1 ELSE 0)]
         /\ C!emfLinesOf(c, FALSE) = emitted
<1>1. emitted \in [C!Observations -> 0 .. 2]
  BY DEF C!TypeOK
<1>2. \A o \in C!Observations : emitted[o] + (IF FALSE /\ o \in spool[c] THEN 1 ELSE 0) = emitted[o]
  BY <1>1
<1>3. C!emfLinesOf(c, FALSE) = [o \in C!Observations |-> emitted[o]]
  BY <1>2 DEF C!emfLinesOf
<1>4. C!emfLinesOf(c, FALSE) = emitted
  BY <1>1, <1>3
<1>5. QED
  BY <1>4 DEF C!emfLinesOf

(* An accepted upload is counted as it is taken from the spool.            *)
LEMMA Accepted ==
  ASSUME FunctionInv, NEW c \in Containers,
         platform' = platform \cup spool[c], spool' = [spool EXCEPT ![c] = {}],
         emitted' = [o \in C!Observations |-> emitted[o] + (IF o \in spool[c] THEN 1 ELSE 0)]
  PROVE  /\ emitted' \in [C!Observations -> 0 .. 2] /\ platform' \subseteq C!Observations
         /\ spool' \in [Containers -> SUBSET C!Observations]
         /\ Made' \subseteq Made /\ Counted'
<1>1. /\ spool \in [Containers -> SUBSET C!Observations] /\ platform \subseteq C!Observations
      /\ emitted \in [C!Observations -> 0 .. 2]
  BY DEF FunctionInv, C!TypeOK
<1>2. spool'[c] = {} /\ \A d \in Containers \ {c} : spool'[d] = spool[d]
  BY <1>1
<1>3. \A o \in C!Observations : emitted[o] \in {0, 1}
  BY DEF FunctionInv, Counted
<1>4. \A o \in C!Observations : emitted'[o] = emitted[o] + (IF o \in spool[c] THEN 1 ELSE 0)
  OBVIOUS
<1>5. \A o \in C!Observations : emitted'[o] = IF o \in spool[c] THEN 1 ELSE emitted[o]
  <2>1. SUFFICES ASSUME NEW o \in C!Observations
                 PROVE  emitted'[o] = IF o \in spool[c] THEN 1 ELSE emitted[o]
    OBVIOUS
  <2>2. emitted'[o] = emitted[o] + (IF o \in spool[c] THEN 1 ELSE 0) /\ emitted[o] \in {0, 1}
    BY <1>3, <1>4
  <2>3. o \in spool[c] => emitted[o] = 0
    BY DEF FunctionInv, Counted
  <2>4. QED
    BY <2>2, <2>3
<1>6. emitted' \in [C!Observations -> 0 .. 2]
  <2>1. emitted' = [o \in C!Observations |-> emitted'[o]]
    OBVIOUS
  <2>2. SUFFICES ASSUME NEW o \in C!Observations PROVE emitted'[o] \in 0 .. 2
    BY <2>1
  <2>3. emitted[o] \in 0 .. 2 /\ emitted'[o] \in {1, emitted[o]}
    BY <1>1, <1>5
  <2>4. QED
    BY <2>3
<1>7. Counted'
  BY <1>1, <1>2, <1>3, <1>5 DEF FunctionInv, Counted
<1>8. Made' \subseteq Made
  BY <1>1, <1>2 DEF Made
<1>9. QED
  BY <1>1, <1>6, <1>7, <1>8

(* One that is not, or whose answer is lost, is counted as nothing.        *)
LEMMA NotAccepted ==
  ASSUME FunctionInv, NEW c \in Containers,
         platform' \in {platform, platform \cup spool[c]}, spool' = spool, emitted' = emitted
  PROVE  /\ platform' \subseteq C!Observations /\ Made' \subseteq Made /\ Counted'
<1>1. spool \in [Containers -> SUBSET C!Observations] /\ platform \subseteq C!Observations
  BY DEF FunctionInv, C!TypeOK
<1>2. Counted'
  BY <1>1 DEF FunctionInv, Counted
<1>3. Made' \subseteq Made
  BY <1>1 DEF Made
<1>4. QED
  BY <1>1, <1>2, <1>3

LEMMA FlushStep ==
  ASSUME FunctionInv, NEW c \in Containers, C!Flush(c)
  PROVE  FunctionInv'
<1>1. /\ C!TypeOK /\ request[c].at = "flush"
      /\ UNCHANGED <<published, freshStore, memo, generation, mints, version, told, row>>
  BY DEF C!Flush, C!At, C!records, FunctionInv
<1>2. PICK pc \in {"tell", "row"} : C!Goto(c, pc)
  BY DEF C!Flush
<1>3. pc \in Ats /\ pc \in Ats \ {"start", "unavailable"}
  BY DEF Ats
<1>4. /\ request' \in [Containers -> C!Requests] /\ Elsewhere(c) /\ request'[c].at = pc
      /\ request'[c].kind = request[c].kind /\ request'[c].run = request[c].run
      /\ request'[c].retried = request[c].retried
  BY <1>1, <1>2, <1>3, GoesOn DEF Elsewhere
<1>5. /\ emitted' \in [C!Observations -> 0 .. 2] /\ platform' \subseteq C!Observations
      /\ spool' \in [Containers -> SUBSET C!Observations]
      /\ faults' = faults \/ C!Fault
      /\ Made' \subseteq Made /\ Counted'
  <2>1. CASE UNCHANGED <<platform, emitted, spool, faults>>
    BY <1>1, <2>1, CountedStays DEF C!TypeOK
  <2>2. CASE /\ platform' = platform \cup spool[c] /\ emitted' = C!emfLinesOf(c, TRUE)
             /\ spool' = [spool EXCEPT ![c] = {}] /\ UNCHANGED faults
    <3>1. emitted' = [o \in C!Observations |-> emitted[o] + (IF o \in spool[c] THEN 1 ELSE 0)]
      BY <1>1, <2>2, EmfLines, Zenon
    <3>2. QED
      BY <2>2, <3>1, Accepted, Zenon
  <2>3. CASE /\ platform' \in {platform, platform \cup spool[c]} /\ emitted' = C!emfLinesOf(c, FALSE)
             /\ C!Fault /\ UNCHANGED spool
    <3>1. emitted' = emitted
      BY <1>1, <2>3, EmfLines, Zenon
    <3>2. QED
      BY <1>1, <2>3, <3>1, NotAccepted, Zenon DEF C!TypeOK
  <2>4. QED
    BY <2>1, <2>2, <2>3 DEF C!Flush, C!teeFetch
<1>6. faults' \in 0 .. MaxFaults
  BY <1>1, <1>5, FaultType DEF C!TypeOK
<1>7. C!TypeOK'
  BY <1>1, <1>4, <1>5, <1>6 DEF C!TypeOK
<1>8. QED
  BY <1>1, <1>3, <1>4, <1>5, <1>7, GoesOnQuietly

-----------------------------------------------------------------------------
(* What is recorded, and what happens around the containers.               *)

(* A request that was answered is none.                                    *)
LEMMA Answered ==
  ASSUME FunctionInv, NEW c \in Containers, C!Answer(c), C!TypeOK',
         UNCHANGED <<memo, freshStore, version, told, platform, emitted, spool>>
  PROVE  FunctionInv'
<1>1. /\ Elsewhere(c) /\ request'[c].kind = "tick" /\ request'[c].run = "none"
      /\ request'[c].retried = FALSE /\ request'[c].at = "idle"
  BY AnswerIs DEF FunctionInv
<1>2. StartsTwice'
  BY <1>1 DEF FunctionInv, StartsTwice, C!At, Elsewhere
<1>3. Made' \subseteq Made /\ Counted'
  BY CountedStays
<1>4. QED
  BY <1>1, <1>2, <1>3, QuietStep

LEMMA TellStep ==
  ASSUME FunctionInv, NEW c \in Containers, C!putFeedback(c)
  PROVE  FunctionInv'
<1>1. /\ C!TypeOK /\ request[c].at = "tell"
      /\ UNCHANGED <<published, freshStore, memo, generation, mints, spool, version, platform, emitted, row>>
  BY DEF C!putFeedback, C!At, C!container, FunctionInv
<1>2. CASE C!Fault /\ C!Answer(c) /\ UNCHANGED told
  <2>1. C!TypeOK'
    BY <1>1, <1>2, AnswerIs, FaultType DEF C!TypeOK
  <2>2. QED
    BY <1>1, <1>2, <2>1, Answered
<1>3. CASE C!Goto(c, "row") /\ faults' = faults
           /\ \E what \in {"filed", "refused"} : told' = [told EXCEPT ![request[c].run] = what]
  <2>1. /\ request' \in [Containers -> C!Requests] /\ Elsewhere(c) /\ request'[c].at = "row"
        /\ request'[c].kind = request[c].kind /\ request'[c].run = request[c].run
        /\ request'[c].retried = request[c].retried
    BY <1>1, <1>3, GoesOn DEF Elsewhere, Ats
  <2>2. /\ told' \in [Served -> {"nothing", "asked", "filed", "refused"}]
        /\ \A q \in Served : told[q] # "nothing" => told'[q] # "nothing"
    BY <1>1, <1>3 DEF C!TypeOK
  <2>3. C!TypeOK'
    BY <1>1, <1>3, <2>1, <2>2 DEF C!TypeOK
  <2>4. Made' = Made /\ Counted'
    BY <1>1 DEF Made, FunctionInv, Counted
  <2>5. StartsTwice' /\ Named'
    BY <1>1, <2>1 DEF FunctionInv, StartsTwice, Named, C!At, Elsewhere
  <2>6. \A d \in Containers :
          /\ request'[d].run = request[d].run
          /\ Asks(d, "run")' => Asks(d, "run")
          /\ Asks(d, "feedback")' => Asks(d, "feedback")
          /\ Asks(d, "feedback") => request[d].run \in Served
    BY <1>1, <2>1 DEF Asks, Elsewhere, FunctionInv, Named
  <2>7. RunsOnce' /\ FeedbackOnce'
    <3>1. RunsOnce'
      BY <1>1, <2>6 DEF FunctionInv, RunsOnce
    <3>2. FeedbackOnce'
      BY <1>1, <2>2, <2>4, <2>6 DEF FunctionInv, FeedbackOnce
    <3>3. QED
      BY <3>1, <3>2
  <2>8. LandsRight'
    <3>1. \A o \in Made : o.run \in Served
      BY <1>1 DEF C!TypeOK, Made, C!Observations
    <3>2. QED
      BY <1>1, <2>2, <2>4, <3>1 DEF FunctionInv, LandsRight
  <2>9. QED
    BY <2>3, <2>4, <2>5, <2>7, <2>8 DEF FunctionInv
<1>4. QED
  BY <1>2, <1>3 DEF C!putFeedback

LEMMA StatusStep ==
  ASSUME FunctionInv, NEW c \in Containers, C!writeStatus(c) \/ C!putStatus(c)
  PROVE  FunctionInv'
<1>1. /\ C!TypeOK /\ request[c].at \in {"row", "put"} /\ request[c] \in C!Requests
      /\ request \in [Containers -> C!Requests]
      /\ UNCHANGED <<published, freshStore, memo, generation, mints, spool, version, told, platform, emitted>>
  BY DEF C!writeStatus, C!putStatus, C!At, C!container, C!records, FunctionInv, C!TypeOK
<1>2. Made' \subseteq Made /\ Counted'
  BY <1>1, CountedStays
<1>3. CASE C!writeStatus(c)
  <2> DEFINE writes == [request[c] EXCEPT !.at = "put", !.put = generation[c]]
  <2>1. request' = [request EXCEPT ![c] = writes] /\ UNCHANGED <<row, faults>>
    BY <1>1, <1>3 DEF C!writeStatus
  <2>2. generation[c] \in 0 .. MaxGeneration
    BY <1>1, Constants DEF C!TypeOK, C!Generations
  <2>3. writes \in C!Requests
    BY <1>1, <2>2 DEF C!Requests
  <2>4. /\ writes.at = "put" /\ writes.kind = request[c].kind /\ writes.run = request[c].run
        /\ writes.retried = request[c].retried
    BY <1>1 DEF C!Requests
  <2>5. request' \in [Containers -> C!Requests] /\ request'[c] = writes /\ Elsewhere(c)
    BY <1>1, <2>1, <2>3 DEF Elsewhere
  <2>6. C!TypeOK'
    BY <1>1, <2>1, <2>5 DEF C!TypeOK
  <2>7. "put" \in Ats \ {"start", "unavailable"}
    BY DEF Ats
  <2>8. QED
    BY <1>1, <1>2, <2>4, <2>5, <2>6, <2>7, GoesOnQuietly
<1>4. CASE C!putStatus(c)
  <2>1. C!Answer(c) /\ row' \in {row, request[c].put} /\ (faults' = faults \/ C!Fault)
    BY <1>4 DEF C!putStatus
  <2>2. row' \in 0 .. MaxGeneration
    BY <1>1, <2>1 DEF C!TypeOK, C!Requests
  <2>3. faults' \in 0 .. MaxFaults
    BY <1>1, <2>1, FaultType DEF C!TypeOK
  <2>4. C!TypeOK'
    BY <1>1, <2>1, <2>2, <2>3, AnswerIs DEF C!TypeOK
  <2>5. QED
    BY <1>1, <2>1, <2>4, Answered
<1>5. QED
  BY <1>3, <1>4

LEMMA RecycleStep ==
  ASSUME FunctionInv, NEW c \in Containers, C!Recycle(c)
  PROVE  FunctionInv'
<1>1. /\ C!TypeOK /\ C!Answer(c) /\ C!Fault
      /\ freshStore' = [freshStore EXCEPT ![c] = TRUE] /\ memo' = [memo EXCEPT ![c] = "none"]
      /\ mints' = [mints EXCEPT ![c] = {}] /\ spool' = [spool EXCEPT ![c] = {}]
      /\ generation' = [generation EXCEPT ![c] = 1]
      /\ UNCHANGED <<published, version, told, platform, emitted, row>>
  BY DEF C!Recycle, C!Answer, C!records, FunctionInv
<1>2. /\ request' \in [Containers -> C!Requests] /\ Elsewhere(c)
      /\ request'[c].kind = "tick" /\ request'[c].run = "none"
      /\ request'[c].retried = FALSE /\ request'[c].at = "idle"
  BY <1>1, AnswerIs
<1>3. C!TypeOK'
  <2>1. 1 \in C!Generations
    BY Constants DEF C!Generations
  <2>2. QED
    BY <1>1, <1>2, <2>1, FaultType DEF C!TypeOK
<1>4. StartsTwice'
  BY <1>1, <1>2 DEF FunctionInv, StartsTwice, C!At, Elsewhere, C!TypeOK
<1>5. \A d \in Containers : spool'[d] \subseteq spool[d]
  BY <1>1 DEF C!TypeOK
<1>6. Made' \subseteq Made /\ Counted'
  BY <1>1, <1>5, CountedStays
<1>7. QED
  BY <1>1, <1>2, <1>3, <1>4, <1>6, QuietStep

LEMMA OtherStep ==
  ASSUME FunctionInv, C!Publish \/ (UNCHANGED functionVars /\ faults' \in 0 .. MaxFaults)
  PROVE  FunctionInv'
<1>1. UNCHANGED <<freshStore, memo, generation, mints, spool, request, version, told, platform, emitted, row>>
  BY DEF C!Publish, C!container, C!records, functionVars
<1>2. C!TypeOK'
  BY <1>1 DEF FunctionInv, C!TypeOK, C!Publish, functionVars
<1>3. Made' = Made
  BY <1>1 DEF Made
<1>4. StartsTwice' /\ Named' /\ Counted'
  BY <1>1 DEF FunctionInv, StartsTwice, Named, Counted, C!At
<1>5. RunsOnce' /\ FeedbackOnce' /\ LandsRight'
  BY <1>1, <1>3 DEF FunctionInv, RunsOnce, FeedbackOnce, LandsRight, Asks
<1>6. QED
  BY <1>2, <1>4, <1>5 DEF FunctionInv

LEMMA FunctionKeeps ==
  ASSUME FunctionInv, C!Next
  PROVE  FunctionInv'
<1>1. ASSUME NEW c \in Containers, C!StatusTick(c) \/ C!Click(c) \/ C!Work(c) \/ C!Recycle(c)
      PROVE  FunctionInv'
  BY <1>1, TickComes, ClickComes, StartStep, SyncStep, RunStep, FeedbackStep, FlushStep, TellStep, StatusStep,
     RecycleStep DEF C!Work
<1>2. QED
  BY <1>1, OtherStep DEF C!Next

-----------------------------------------------------------------------------
(* Theorems.                                                               *)

(* The tab moves without the containers, and counts failures of its own.   *)
LEMMA TabFaults == A!Next /\ faults \in 0 .. MaxFaults => faults' \in 0 .. MaxFaults
<1> SUFFICES ASSUME A!Next, faults \in 0 .. MaxFaults PROVE faults' \in 0 .. MaxFaults
  OBVIOUS
<1>1. A!Fault \/ faults' = faults
  BY DEF A!Next, A!Poll, A!pollFailed, A!Panel, A!runsFailed, A!putRun, A!appendEvent, A!appendEventFails,
         A!runTicket, A!selectTicket, A!runAnswered, A!presenter, A!Presenter, A!loadEvents, A!listEvents,
         A!pollAnswered, A!listRunsForTicket, A!runsAnswered, A!storeReset, A!presenterAnswered, A!setEvents
<1>2. QED
  BY <1>1, Constants DEF A!Fault

LEMMA DeskKeeps == FunctionInv /\ [Next]_vars => FunctionInv'
<1> SUFFICES ASSUME FunctionInv, [Next]_vars PROVE FunctionInv'
  OBVIOUS
<1>1. CASE FunctionStep
  BY <1>1, FunctionKeeps DEF FunctionStep
<1>2. CASE AppStep
  <2>1. faults \in 0 .. MaxFaults /\ UNCHANGED functionVars
    BY <1>2 DEF AppStep, FunctionInv, C!TypeOK
  <2>2. QED
    BY <1>2, <2>1, TabFaults, OtherStep DEF AppStep
<1>3. CASE UNCHANGED vars
  <2>1. UNCHANGED functionVars /\ faults' = faults
    BY <1>3 DEF vars
  <2>2. QED
    BY <2>1, OtherStep DEF FunctionInv, C!TypeOK
<1>4. QED
  BY <1>1, <1>2, <1>3 DEF Next

LEMMA DeskInvariant == Spec => []FunctionInv
<1>1. Init => FunctionInv
  BY FunctionInit DEF Init
<1>2. QED
  BY <1>1, DeskKeeps, PTL DEF Spec

(* Every variable of the containers keeps its type, whatever fails.        *)
THEOREM TypeCorrect == Spec => []C!TypeOK
<1>1. FunctionInv => C!TypeOK
  BY DEF FunctionInv
<1>2. QED
  BY <1>1, DeskInvariant, PTL

(* A request is answered 503 only for a failure of its own start           *)
(* (runtime.ts:19); feedback lands on the version its run was served by    *)
(* (handler.ts:373), wherever it is given and whatever was published in    *)
(* between; and what is a metric was accepted by AirPrompter, and is one   *)
(* metric (tee.ts:11), however often it was uploaded.                      *)
THEOREM AnsweredRightlyHolds == Spec => []AnsweredRightly
<1>1. FunctionInv => C!RefusedForAReason
  BY DEF FunctionInv, StartsTwice, C!RefusedForAReason
<1>2. FunctionInv => C!FeedbackLandsRight
  BY DEF FunctionInv, LandsRight, Made, C!FeedbackLandsRight
<1>3. FunctionInv => C!MetricsFollow
  BY DEF FunctionInv, Counted, C!MetricsFollow
<1>4. QED
  BY <1>1, <1>2, <1>3, DeskInvariant, PTL DEF AnsweredRightly

-----------------------------------------------------------------------------
(* The tab: its rows.                                                      *)

Stamped == {r \in Runs : stamp[r] # 0}

\* Rows are stamped one after the other, and only what is stamped arrives.
StampsTell ==
  /\ \A p \in Runs : stamp[p] <= Cardinality(Stamped)
  /\ \A p, q \in Runs : stamp[p] = stamp[q] => p = q \/ stamp[p] = 0
  /\ \A r \in written : stamp[r] # 0

\* A cursor is the instant of a row that arrived; what was asked for is later than it, and
\* what is shown is not.
CursorIsARow ==
  /\ cursor = 0 \/ \E r \in written : stamp[r] = cursor
  /\ since = 0 \/ \E r \in written : stamp[r] = since
  /\ fresh \subseteq written /\ \A r \in fresh : stamp[r] > since
  /\ poll = "idle" => since = 0 /\ fresh = {}
  /\ poll # "idle" => cursor \in {0, since}
  /\ events \subseteq written /\ \A r \in events : stamp[r] <= cursor

\* The rows the tab must not miss.
Kept == timeline \ excused

\* A poll under way passes none of them by when it is answered: it was asked with a cursor
\* they are ahead of, and its answer has all there were then.
AskedAhead == poll # "idle" => \A r \in Kept : r \in events \/ stamp[r] > since
AnswerAhead ==
  poll = "answered" => \A r \in Kept : stamp[r] > since => r \in fresh \/ \A q \in fresh : stamp[r] > stamp[q]

RowsInv == A!TypeOK /\ StampsTell /\ CursorIsARow /\ AskedAhead /\ AnswerAhead /\ A!RowsAhead

\* The instance's own copies of the counting.
LEMMA TabCounting ==
  /\ \A set : A!IsFiniteSet(set) <=> IsFiniteSet(set)
  /\ \A set : A!Cardinality(set) = Cardinality(set)
BY DEF A!Cardinality, Cardinality, A!IsFiniteSet, IsFiniteSet

LEMMA TabConstants ==
  /\ IsFiniteSet(Runs) /\ Cardinality(Runs) \in Nat /\ First \in Tickets
  /\ LIMIT \in Nat \ {0} /\ MaxActs \in Nat /\ MaxFaults \in Nat
  /\ {"none", "seed", "reset", "rows", "reload", "clear"} \cap Runs = {}
<1>1. IsFiniteSet(Runs)
  BY ConstantsAssumption, TabCounting DEF A!DeskAppAssumption
<1> QED BY <1>1, ConstantsAssumption, FS_CardinalityType DEF A!DeskAppAssumption

\* Of some instants, one is the last.
LEMMA LastOf ==
  ASSUME NEW instants \in SUBSET Nat, instants # {}, NEW bound \in Nat, \A s \in instants : s <= bound
  PROVE  A!Max(instants) \in instants /\ \A s \in instants : A!Max(instants) >= s
<1> DEFINE below == OpToRel(<, Nat)
           distances == {bound - s : s \in instants}
<1>1. IsWellFoundedOn(below, Nat)
  BY NatLessThanWellFounded
<1>2. \A m, n \in Nat : <<m, n>> \in below <=> m < n
  BY DEF OpToRel
<1>3. distances \in SUBSET Nat /\ distances # {}
  <2>1. ASSUME NEW s \in instants
        PROVE  bound - s \in Nat
    <3>1. s \in Nat /\ s <= bound
      OBVIOUS
    <3> QED BY <3>1
  <2> QED BY <2>1
<1> HIDE DEF below, distances
<1>4. PICK d \in distances : \A e \in distances : ~(<<e, d>> \in below)
  BY <1>1, <1>3, WFMin
<1>5. PICK last \in instants : d = bound - last
  BY DEF distances
<1>6. ASSUME NEW s \in instants
      PROVE  last >= s
  <2>1. bound - s \in distances
    BY DEF distances
  <2>2. ~(bound - s < bound - last)
    BY <1>2, <1>3, <1>4, <1>5, <2>1
  <2> QED BY <2>2
<1>7. \E x \in instants : \A y \in instants : x >= y
  BY <1>6
<1> QED BY <1>7 DEF A!Max

LEMMA CountOfStamped ==
  ASSUME A!TypeOK
  PROVE  IsFiniteSet(Stamped) /\ Cardinality(Stamped) \in Nat /\ Cardinality(Stamped) <= Cardinality(Runs)
<1>1. Stamped \in SUBSET Runs
  BY DEF Stamped
<1> QED BY <1>1, TabConstants, FS_Subset, FS_CardinalityType

LEMMA StampsAre ==
  ASSUME A!TypeOK
  PROVE  /\ \A r \in Runs : stamp[r] \in Nat
         /\ cursor \in Nat /\ since \in Nat
  BY TabConstants, TabCounting DEF A!TypeOK

\* The last of some rows is one of them, and the only one with its instant.
LEMMA LastStamp ==
  ASSUME A!TypeOK, StampsTell, NEW some \in SUBSET Runs, some # {}
  PROVE  /\ \E r \in some : stamp[r] = A!Max(A!StampOf(some))
         /\ \A r \in some : stamp[r] <= A!Max(A!StampOf(some))
         /\ A!Max(A!StampOf(some)) \in Nat
<1>1. A!StampOf(some) \in SUBSET Nat /\ A!StampOf(some) # {}
  BY StampsAre DEF A!StampOf
<1>2. \A s \in A!StampOf(some) : s <= Cardinality(Stamped)
  BY DEF A!StampOf, StampsTell
<1>3. A!Max(A!StampOf(some)) \in A!StampOf(some) /\ \A s \in A!StampOf(some) : A!Max(A!StampOf(some)) >= s
  BY <1>1, <1>2, LastOf, CountOfStamped
<1> HIDE DEF A!Max
<1> QED BY <1>1, <1>3 DEF A!StampOf

-----------------------------------------------------------------------------
(* The rows: a step per action.                                            *)

USE DEF A!desk, A!polling, A!panel

LEMMA RowsStay ==
  ASSUME RowsInv, A!TypeOK', UNCHANGED <<stamp, written, timeline, poll, since, fresh, cursor, events, excused>>
  PROVE  RowsInv'
BY DEF RowsInv, StampsTell, Stamped, CursorIsARow, Kept, AskedAhead, AnswerAhead, A!RowsAhead

LEMMA PutRunRows ==
  ASSUME RowsInv, NEW r \in Runs, A!putRun(r)
  PROVE  RowsInv' /\ \A q \in Runs : q # r => stamp'[q] = stamp[q]
<1> DEFINE now == Cardinality(Stamped) + 1
<1>1. stamp \in [Runs -> Nat] /\ stamp[r] = 0 /\ r \notin written
  BY TabConstants, TabCounting DEF RowsInv, A!TypeOK, A!putRun
<1>2. stamp' = [stamp EXCEPT ![r] = now]
  BY TabCounting DEF A!putRun, A!Instant, Stamped
<1>3. Stamped' = Stamped \cup {r} /\ r \notin Stamped
  <2>1. now # 0
    BY CountOfStamped DEF RowsInv
  <2> HIDE DEF now
  <2> QED BY <1>1, <1>2, <2>1 DEF Stamped
<1>4. Cardinality(Stamped') = now /\ now \in Nat /\ now <= Cardinality(Runs)
  <2>1. IsFiniteSet(Stamped) /\ Cardinality(Stamped) \in Nat
    BY CountOfStamped DEF RowsInv
  <2>2. Cardinality(Stamped \cup {r}) = now
    BY <1>3, <2>1, FS_AddElement
  <2>3. Stamped \cup {r} \in SUBSET Runs
    BY DEF Stamped
  <2>4. Cardinality(Stamped \cup {r}) <= Cardinality(Runs)
    BY <2>3, TabConstants, FS_Subset
  <2> QED BY <1>3, <2>1, <2>2, <2>4
<1>5. \A q \in Runs : stamp[q] < now
  BY <1>1, <1>4, CountOfStamped DEF RowsInv, StampsTell
<1>6. \A q \in Runs : stamp'[q] = IF q = r THEN now ELSE stamp[q]
  BY <1>1, <1>2
<1> HIDE DEF now
<1>7. StampsTell'
  <2>1. \A p \in Runs : stamp'[p] <= now
    BY <1>1, <1>4, <1>5, <1>6
  <2>2. \A p, q \in Runs : stamp'[p] = stamp'[q] => p = q \/ stamp'[p] = 0
    BY <1>1, <1>5, <1>6 DEF RowsInv, StampsTell
  <2>3. \A q \in written' : stamp'[q] # 0
    BY <1>1, <1>6 DEF RowsInv, StampsTell, A!TypeOK, A!putRun
  <2> QED BY <1>4, <2>1, <2>2, <2>3 DEF StampsTell
<1>8. \A q \in written : stamp'[q] = stamp[q] /\ q \in Runs
  BY <1>1, <1>6 DEF RowsInv, A!TypeOK
<1>9. A!TypeOK'
  <2>1. stamp' \in [Runs -> 0 .. Cardinality(Runs)]
    <3>1. now \in 0 .. Cardinality(Runs)
      BY <1>4, TabConstants
    <3> QED BY <1>2, <3>1, TabCounting DEF RowsInv, A!TypeOK
  <2> QED BY <2>1, TabCounting DEF RowsInv, A!TypeOK, A!putRun
<1>10. CursorIsARow'
  BY <1>8 DEF RowsInv, CursorIsARow, A!putRun
<1>11. AskedAhead' /\ AnswerAhead' /\ A!RowsAhead'
  <2>1. timeline \subseteq written /\ fresh \subseteq written
    BY DEF RowsInv, A!TypeOK, CursorIsARow
  <2> QED BY <1>8, <2>1 DEF RowsInv, AskedAhead, AnswerAhead, A!RowsAhead, Kept, A!putRun
<1> QED BY <1>6, <1>7, <1>9, <1>10, <1>11 DEF RowsInv

\* A row that is not excused is the latest of those that arrived.
LEMMA AppendEventRows ==
  ASSUME RowsInv, NEW r \in Runs, A!appendEvent(r)
  PROVE  /\ RowsInv'
         /\ r \notin excused' => \A q \in written : stamp[q] < stamp[r]
<1> USE DEF A!appendEvent
<1>1. stamp \in [Runs -> Nat] /\ written \subseteq Runs
  BY TabConstants, TabCounting DEF RowsInv, A!TypeOK
<1>2. A!TypeOK'
  BY DEF RowsInv, A!TypeOK
<1>3. StampsTell'
  BY DEF RowsInv, StampsTell, Stamped
<1>4. CursorIsARow'
  BY DEF RowsInv, CursorIsARow
<1>5. r \notin excused' => \A q \in written : stamp[q] < stamp[r]
  <2>1. \A q \in written : stamp[q] # stamp[r]
    BY <1>1 DEF RowsInv, StampsTell
  <2> QED BY <1>1, <2>1
<1>6. r \notin excused' => stamp[r] > cursor /\ stamp[r] > since /\ \A q \in fresh : stamp[r] > stamp[q]
  BY <1>1, <1>5 DEF RowsInv, CursorIsARow
<1>7. AskedAhead' /\ AnswerAhead' /\ A!RowsAhead'
  BY <1>6 DEF RowsInv, AskedAhead, AnswerAhead, A!RowsAhead, Kept
<1> QED BY <1>2, <1>3, <1>4, <1>5, <1>7 DEF RowsInv

LEMMA AppendEventFailsRows ==
  ASSUME RowsInv, NEW r \in Runs, A!appendEventFails(r)
  PROVE  RowsInv'
<1> USE DEF A!appendEventFails, A!Fault
<1>1. A!TypeOK'
  BY TabConstants DEF RowsInv, A!TypeOK
<1>2. StampsTell'
  BY DEF RowsInv, StampsTell, Stamped
<1>3. CursorIsARow'
  BY DEF RowsInv, CursorIsARow
<1>4. AskedAhead' /\ AnswerAhead' /\ A!RowsAhead'
  BY DEF RowsInv, AskedAhead, AnswerAhead, A!RowsAhead, Kept
<1> QED BY <1>1, <1>2, <1>3, <1>4 DEF RowsInv

\* A poll is asked with the cursor there is.
LEMMA StartPollRows ==
  ASSUME RowsInv, A!TypeOK', A!startPoll, UNCHANGED <<stamp, written, timeline, fresh, cursor, events, excused>>
  PROVE  RowsInv'
<1>1. StampsTell'
  BY DEF RowsInv, StampsTell, Stamped
<1>2. CASE poll = "idle"
  <2>1. poll' = "asked" /\ since' = cursor /\ fresh = {}
    BY <1>2 DEF A!startPoll, RowsInv, CursorIsARow
  <2> QED BY <1>1, <2>1 DEF RowsInv, CursorIsARow, AskedAhead, AnswerAhead, A!RowsAhead, Kept
<1>3. CASE poll # "idle"
  BY <1>1, <1>3 DEF A!startPoll, RowsInv, CursorIsARow, AskedAhead, AnswerAhead, A!RowsAhead, Kept
<1> QED BY <1>2, <1>3

LEMMA ListEventsRows ==
  ASSUME RowsInv, A!listEvents
  PROVE  RowsInv'
<1> DEFINE later == {r \in timeline : stamp[r] > since}
           page == {r \in later : A!Cardinality({q \in later : stamp[q] > stamp[r]}) < LIMIT}
<1>1. fresh' = page /\ excused' = excused \cup (later \ page) /\ page \subseteq later
  BY DEF A!listEvents
<1> HIDE DEF page
<1>2. A!TypeOK'
  BY <1>1 DEF RowsInv, A!TypeOK, A!listEvents
<1>3. StampsTell'
  BY DEF RowsInv, StampsTell, Stamped, A!listEvents
<1>4. CursorIsARow'
  BY <1>1 DEF RowsInv, A!TypeOK, CursorIsARow, A!listEvents
<1>5. AskedAhead' /\ A!RowsAhead'
  BY <1>1 DEF RowsInv, AskedAhead, A!RowsAhead, Kept, A!listEvents
<1>6. AnswerAhead'
  BY <1>1 DEF AnswerAhead, Kept, A!listEvents
<1> QED BY <1>2, <1>3, <1>4, <1>5, <1>6 DEF RowsInv

\* What the answer brings is shown, and the cursor stands at its last row.
LEMMA MergeIs ==
  ASSUME RowsInv, fresh # {}, cursor' = A!Max(A!StampOf(fresh))
  PROVE  /\ cursor' \in 0 .. Cardinality(Runs)
         /\ \E r \in fresh : stamp[r] = cursor'
         /\ \A r \in fresh : stamp[r] <= cursor'
         /\ cursor' > since /\ cursor' >= cursor
<1>1. fresh \in SUBSET Runs /\ stamp \in [Runs -> 0 .. Cardinality(Runs)]
  BY TabCounting DEF RowsInv, A!TypeOK
<1>2. /\ \E r \in fresh : stamp[r] = cursor'
      /\ \A r \in fresh : stamp[r] <= cursor'
  BY <1>1, LastStamp DEF RowsInv
<1>3. cursor' \in 0 .. Cardinality(Runs)
  BY <1>1, <1>2
<1>4. poll # "idle" /\ \A r \in fresh : stamp[r] > since
  BY DEF RowsInv, CursorIsARow
<1>5. cursor' > since /\ cursor \in {0, since}
  BY <1>2, <1>4 DEF RowsInv, CursorIsARow
<1>6. cursor \in Nat /\ since \in Nat
  BY StampsAre DEF RowsInv
<1> QED BY <1>2, <1>3, <1>5, <1>6, TabConstants

LEMMA ZeroIs == 0 \in 0 .. A!Cardinality(Runs)
BY TabConstants, TabCounting

LEMMA ReadsGoOn ==
  ASSUME A!TypeOK, NEW t \in Tickets, A!loadRuns(t)
  PROVE  reads' \subseteq A!Reads
<1>1. A!Asked(t) \in A!Reads
  BY DEF A!Asked, A!Reads
<1>2. \A q \in A!Reads : [q EXCEPT !.newest = FALSE] \in A!Reads
  BY DEF A!Reads
<1> QED BY <1>1, <1>2 DEF A!loadRuns, A!TypeOK

\* The effect acts on the newest run's row, or has already.
LEMMA EffectIs ==
  ASSUME RowsInv, events' # {}, events' \subseteq written, A!seenForeignRun, UNCHANGED <<stamp, selected>>
  PROVE  /\ newestSeen' \in events' /\ \A r \in events' : stamp[r] <= stamp[newestSeen']
         /\ UNCHANGED <<reads, newestSeen>> \/ A!loadRuns(selected)
         /\ reads' \subseteq A!Reads
<1>1. events' \in SUBSET Runs
  BY DEF RowsInv, A!TypeOK
<1>2. /\ \E r \in events' : stamp[r] = A!Max(A!StampOf(events'))
      /\ \A r \in events' : stamp[r] <= A!Max(A!StampOf(events'))
  BY <1>1, LastStamp DEF RowsInv
<1>3. A!seenForeignRun <=>
        IF {r \in events' : stamp[r] = A!Max(A!StampOf(events'))} \subseteq {newestSeen} THEN UNCHANGED <<reads, newestSeen>>
        ELSE newestSeen' \in {r \in events' : stamp[r] = A!Max(A!StampOf(events'))} /\ A!loadRuns(selected)
  BY DEF A!seenForeignRun
<1> DEFINE last == {r \in events' : stamp[r] = A!Max(A!StampOf(events'))}
<1>4. newestSeen' \in last /\ (UNCHANGED <<reads, newestSeen>> \/ A!loadRuns(selected))
  BY <1>2, <1>3
<1>5. reads' \subseteq A!Reads
  BY <1>4, ReadsGoOn DEF RowsInv, A!TypeOK
<1> QED BY <1>2, <1>4, <1>5

LEMMA PollAnsweredRows ==
  ASSUME RowsInv, A!pollAnswered
  PROVE  /\ RowsInv'
         /\ \/ UNCHANGED <<events, newestSeen>>
            \/ /\ newestSeen' \in events' /\ events' \subseteq written
               /\ \A r \in events' : stamp[r] <= stamp[newestSeen']
         /\ UNCHANGED <<reads, newestSeen>> \/ A!loadRuns(selected)
<1>0. UNCHANGED <<table, stamp, written, timeline, selected, runs, unavailable, disturbed, busy, excused, acts, faults>>
      /\ poll = "answered" /\ poll' = "idle" /\ since' = 0 /\ fresh' = {} /\ awaited' = FALSE
  BY DEF A!pollAnswered
<1>1. StampsTell'
  BY <1>0 DEF RowsInv, StampsTell, Stamped
<1>2. AskedAhead' /\ AnswerAhead'
  BY <1>0 DEF AskedAhead, AnswerAhead
<1>3. CASE fresh = {}
  <2>1. UNCHANGED <<cursor, events, reads, newestSeen>>
    BY <1>3 DEF A!pollAnswered, A!mergeEvents
  <2>2. A!TypeOK'
    BY <1>0, <2>1, ZeroIs DEF RowsInv, A!TypeOK
  <2> QED BY <1>0, <1>1, <1>2, <2>1, <2>2 DEF RowsInv, CursorIsARow, A!RowsAhead
<1>4. CASE fresh # {}
  <2>1. cursor' = A!Max(A!StampOf(fresh)) /\ events' = events \cup fresh /\ A!seenForeignRun
    BY <1>4 DEF A!pollAnswered, A!mergeEvents
  <2>2. /\ cursor' \in 0 .. Cardinality(Runs) /\ \E r \in fresh : stamp[r] = cursor'
        /\ \A r \in fresh : stamp[r] <= cursor'
        /\ cursor' > since /\ cursor' >= cursor
    BY <1>4, <2>1, MergeIs
  <2>3. events' # {} /\ events' \subseteq written /\ fresh \subseteq written
    BY <1>4, <2>1 DEF RowsInv, CursorIsARow
  <2>4. /\ newestSeen' \in events' /\ \A r \in events' : stamp[r] <= stamp[newestSeen']
        /\ UNCHANGED <<reads, newestSeen>> \/ A!loadRuns(selected)
        /\ reads' \subseteq A!Reads
    BY <1>0, <2>1, <2>3, EffectIs
  <2>5. A!TypeOK'
    <3>1. newestSeen' \in Runs /\ events' \subseteq Runs /\ cursor' \in 0 .. A!Cardinality(Runs)
      BY <2>2, <2>3, <2>4, TabCounting DEF RowsInv, A!TypeOK
    <3> QED BY <1>0, <2>4, <3>1, ZeroIs DEF RowsInv, A!TypeOK
  <2>6. CursorIsARow'
    <3>1. \A r \in events : stamp[r] <= cursor
      BY DEF RowsInv, CursorIsARow
    <3>2. \A r \in events' : stamp[r] \in Nat /\ cursor \in Nat /\ cursor' \in Nat
      BY <2>2, <2>3, StampsAre, TabConstants DEF RowsInv, A!TypeOK
    <3>3. \A r \in events' : stamp[r] <= cursor'
      BY <2>1, <2>2, <3>1, <3>2
    <3> QED BY <1>0, <2>2, <2>3, <3>3 DEF CursorIsARow
  <2>7. A!RowsAhead'
    <3>1. ASSUME NEW r \in Kept, r \notin events'
          PROVE  stamp[r] > cursor'
      <4>1. r \notin events /\ r \notin fresh
        BY <2>1, <3>1
      <4>2. stamp[r] > since
        BY <1>0, <4>1 DEF RowsInv, AskedAhead
      <4>3. \A q \in fresh : stamp[r] > stamp[q]
        BY <1>0, <4>1, <4>2 DEF RowsInv, AnswerAhead
      <4> QED BY <2>2, <4>3
    <3> QED BY <1>0, <3>1 DEF A!RowsAhead, Kept
  <2> QED BY <1>1, <1>2, <2>3, <2>4, <2>5, <2>6, <2>7 DEF RowsInv
<1> QED BY <1>3, <1>4

LEMMA PollFailedRows ==
  ASSUME RowsInv, A!pollFailed
  PROVE  RowsInv'
<1> USE DEF A!pollFailed
<1>1. A!TypeOK'
  <2>1. faults' \in 0 .. MaxFaults
    BY TabConstants DEF RowsInv, A!TypeOK, A!Fault
  <2> QED BY <2>1, ZeroIs DEF RowsInv, A!TypeOK
<1>2. StampsTell'
  BY DEF RowsInv, StampsTell, Stamped
<1> QED BY <1>1, <1>2 DEF RowsInv, CursorIsARow, AskedAhead, AnswerAhead, A!RowsAhead, Kept

LEMMA RunAnsweredRows ==
  ASSUME RowsInv, A!runAnswered
  PROVE  RowsInv'
<1>1. /\ poll' \in {"idle", "asked", "answered"} /\ since' \in 0 .. Cardinality(Runs)
      /\ runs' \subseteq Runs /\ faults' \in 0 .. MaxFaults
  BY TabConstants, TabCounting DEF RowsInv, A!TypeOK, A!runAnswered, A!startPoll, A!Fault
<1>2. A!TypeOK'
  BY <1>1, TabCounting DEF RowsInv, A!TypeOK, A!runAnswered
<1>3. A!startPoll \/ UNCHANGED <<poll, since>>
  BY DEF A!runAnswered
<1>4. UNCHANGED <<stamp, written, timeline, fresh, cursor, events, excused>>
  BY DEF A!runAnswered
<1> QED BY <1>2, <1>3, <1>4, StartPollRows, RowsStay

LEMMA LoadEventsRows ==
  ASSUME RowsInv, A!loadEvents
  PROVE  RowsInv'
<1>1. A!TypeOK'
  BY DEF RowsInv, A!TypeOK, A!loadEvents, A!startPoll
<1> QED BY <1>1, StartPollRows DEF A!loadEvents

LEMMA PresenterAnsweredRows ==
  ASSUME RowsInv, A!presenterAnswered
  PROVE  RowsInv'
<1>1. poll' \in {"idle", "asked", "answered"} /\ since' \in 0 .. A!Cardinality(Runs)
  BY DEF RowsInv, A!TypeOK, A!presenterAnswered, A!startPoll
<1>2. reads' \subseteq A!Reads
  <2>1. \A q \in A!Reads : [q EXCEPT !.clean = FALSE] \in A!Reads
    BY DEF A!Reads
  <2>2. reads \subseteq A!Reads /\ (reads' = reads \/ reads' = {[q EXCEPT !.clean = FALSE] : q \in reads})
    BY DEF RowsInv, A!TypeOK, A!presenterAnswered
  <2> QED BY <2>1, <2>2
<1>3. A!TypeOK'
  BY <1>1, <1>2 DEF RowsInv, A!TypeOK, A!presenterAnswered
<1> QED BY <1>3, StartPollRows DEF A!presenterAnswered

\* The timeline is emptied: there is nothing on it to miss.
LEMMA StoreResetRows ==
  ASSUME RowsInv, A!storeReset
  PROVE  RowsInv'
<1> USE DEF A!storeReset, A!reset
<1>1. A!TypeOK'
  BY DEF RowsInv, A!TypeOK
<1>2. StampsTell'
  BY DEF RowsInv, StampsTell, Stamped
<1> QED BY <1>1, <1>2 DEF RowsInv, CursorIsARow, AskedAhead, AnswerAhead, A!RowsAhead, Kept

\* The tab starts over from no cursor; what a poll under way had seen is excused.
LEMMA SetEventsRows ==
  ASSUME RowsInv, A!setEvents
  PROVE  RowsInv'
<1> USE DEF A!setEvents
<1>1. reads' \subseteq A!Reads
  <2>1. \A q \in A!Reads : [q EXCEPT !.clean = FALSE] \in A!Reads
    BY DEF A!Reads
  <2> QED BY <2>1 DEF RowsInv, A!TypeOK
<1>2. A!TypeOK'
  BY <1>1, TabConstants, TabCounting DEF RowsInv, A!TypeOK
<1>3. StampsTell'
  BY DEF RowsInv, StampsTell, Stamped
<1>4. ASSUME NEW r \in Kept'
      PROVE  r \in Kept /\ stamp[r] \in Nat /\ stamp[r] > 0 /\ (poll # "idle" => stamp[r] > since)
  <2>1. r \in Kept /\ r \in written /\ r \in Runs
    BY DEF Kept, RowsInv, A!TypeOK
  <2>2. stamp[r] \in Nat /\ stamp[r] # 0 /\ since \in Nat
    BY <2>1, StampsAre DEF RowsInv, StampsTell
  <2>3. poll # "idle" => ~(stamp[r] \in 1 .. since)
    BY <2>1, <1>4 DEF Kept
  <2> QED BY <2>1, <2>2, <2>3
<1>5. A!RowsAhead'
  BY <1>4 DEF A!RowsAhead, Kept
<1>6. AskedAhead' /\ AnswerAhead'
  BY <1>4 DEF RowsInv, AskedAhead, AnswerAhead
<1>7. CursorIsARow'
  BY DEF RowsInv, CursorIsARow
<1> QED BY <1>2, <1>3, <1>5, <1>6, <1>7 DEF RowsInv

-----------------------------------------------------------------------------
(* The panel.                                                              *)

\* A reset is under way: the runs are gone, and the tab has yet to drop them.
Emptying == busy \in {"rows", "reload", "clear"}

\* The tab has acted on a row as late as the run's.
Told(r) == newestSeen \in Runs /\ stamp[r] <= stamp[newestSeen]

\* What the panel owes whoever sits in front of it.
Owed == {r \in A!OfTicket(selected, Kept \cap table) : Told(r)}

\* One read is the newest, and of the ticket selected.
NewestIsOne ==
  /\ \A p, q \in reads : p.newest /\ q.newest => p = q
  /\ \A q \in reads : q.newest => q.ticket = selected

\* A read asked since the panel was emptied knows only what is there.
SeenIsThere ==
  /\ \A q \in reads : q.answered /\ q.clean => Emptying \/ q.seen \subseteq table
  /\ \A q \in reads : q.newest /\ ~ q.clean => disturbed

KnownIsThere == disturbed \/ Emptying \/ runs \subseteq table

\* What is owed comes with the newest read, or is there when none is under way.
OwedIsRead ==
  /\ \A q \in reads : q.newest /\ q.answered => Owed \subseteq q.seen
  /\ unavailable \/ disturbed \/ (\E q \in reads : q.newest) \/ Owed \subseteq runs

EventsAreTold == newestSeen \in written \cup {"none"} /\ \A r \in events : Told(r)

\* The run of the click has a record before it has an instant.
BusyIsThere == \A r \in Runs : busy = r /\ stamp[r] # 0 => r \in table

PanelInv == NewestIsOne /\ SeenIsThere /\ KnownIsThere /\ OwedIsRead /\ EventsAreTold /\ BusyIsThere

LEMMA PanelTells == RowsInv /\ PanelInv => A!PanelIsRead
<1> SUFFICES ASSUME RowsInv, PanelInv, ~unavailable, ~disturbed, ~Emptying, ~(\E q \in reads : q.newest)
             PROVE  /\ A!OfTicket(selected, runs) \subseteq table
                    /\ A!OfTicket(selected, table \cap timeline \cap events) \ excused \subseteq A!OfTicket(selected, runs)
  BY DEF A!PanelIsRead, Emptying
<1>1. runs \subseteq table /\ Owed \subseteq runs
  BY DEF PanelInv, KnownIsThere, OwedIsRead
<1>2. A!OfTicket(selected, runs) \subseteq runs
  BY DEF A!OfTicket
<1>3. ASSUME NEW r \in A!OfTicket(selected, table \cap timeline \cap events) \ excused
      PROVE  r \in A!OfTicket(selected, runs)
  <2>1. r \in A!OfTicket(selected, Kept \cap table) /\ r \in events
    BY <1>3 DEF A!OfTicket, Kept
  <2>2. r \in Owed
    BY <2>1 DEF Owed, PanelInv, EventsAreTold
  <2> QED BY <1>1, <2>1, <2>2 DEF A!OfTicket
<1> QED BY <1>1, <1>2, <1>3

-----------------------------------------------------------------------------
(* The panel: a step per action.                                           *)

\* The hosts and the timeline's poll owe the panel nothing more.
LEMMA PanelStays ==
  ASSUME PanelInv, UNCHANGED <<reads, runs, unavailable, disturbed, selected, newestSeen>>,
         Owed' \subseteq Owed, Emptying' \/ (~Emptying /\ table \subseteq table'), EventsAreTold', BusyIsThere'
  PROVE  PanelInv'
<1>1. NewestIsOne'
  BY DEF PanelInv, NewestIsOne
<1>2. SeenIsThere' /\ KnownIsThere'
  BY DEF PanelInv, SeenIsThere, KnownIsThere
<1>3. OwedIsRead'
  BY DEF PanelInv, OwedIsRead
<1> QED BY <1>1, <1>2, <1>3 DEF PanelInv

\* What arrived keeps its instant, so what was told stays so.
LEMMA ToldStays ==
  ASSUME RowsInv, PanelInv, UNCHANGED <<newestSeen, events, selected>>, written \subseteq written',
         \A r \in written : stamp'[r] = stamp[r], Kept' \cap table' \subseteq written
  PROVE  EventsAreTold' /\ (Kept' \cap table' \subseteq Kept \cap table => Owed' \subseteq Owed)
<1>1. newestSeen \in written \cup {"none"} /\ "none" \notin Runs /\ written \subseteq Runs /\ events \subseteq written
  BY TabConstants DEF RowsInv, A!TypeOK, CursorIsARow, PanelInv, EventsAreTold
<1>2. \A r \in written : Told(r)' <=> Told(r)
  BY <1>1 DEF Told
<1>3. EventsAreTold'
  BY <1>1, <1>2 DEF PanelInv, EventsAreTold
<1>4. ASSUME Kept' \cap table' \subseteq Kept \cap table, NEW r \in Owed'
      PROVE  r \in Owed
  <2>1. r \in Kept' \cap table' /\ r \in A!OfTicket(selected, Kept \cap table) /\ Told(r)'
    BY <1>4 DEF Owed, A!OfTicket
  <2> QED BY <1>2, <2>1 DEF Owed
<1> QED BY <1>3, <1>4

LEMMA PutRunPanel ==
  ASSUME RowsInv, PanelInv, NEW r \in Runs, A!putRun(r)
  PROVE  PanelInv'
<1> USE DEF A!putRun
<1>1. r \notin written /\ \A q \in Runs : q # r => stamp'[q] = stamp[q]
  BY PutRunRows
<1>2. \A q \in written : stamp'[q] = stamp[q]
  BY <1>1 DEF RowsInv, A!TypeOK
<1>3. Kept' = Kept /\ Kept \subseteq written
  BY DEF Kept, RowsInv, A!TypeOK
<1>4. Kept' \cap table' \subseteq Kept \cap table
  BY <1>1, <1>3
<1>5. EventsAreTold' /\ Owed' \subseteq Owed
  BY <1>2, <1>3, <1>4, ToldStays
<1>6. BusyIsThere'
  BY <1>1 DEF PanelInv, BusyIsThere
<1> QED BY <1>5, <1>6, PanelStays DEF Emptying

LEMMA AppendEventPanel ==
  ASSUME RowsInv, PanelInv, NEW r \in Runs, A!appendEvent(r)
  PROVE  PanelInv'
<1> USE DEF A!appendEvent
<1>1. r \notin excused' => \A q \in written : stamp[q] < stamp[r]
  BY AppendEventRows
<1>2. newestSeen \in written \cup {"none"} /\ "none" \notin Runs /\ written \subseteq Runs /\ events \subseteq written
  BY TabConstants DEF RowsInv, A!TypeOK, CursorIsARow, PanelInv, EventsAreTold
<1>3. EventsAreTold'
  BY <1>2 DEF PanelInv, EventsAreTold, Told
<1>4. r \notin excused' => ~Told(r)
  BY <1>1, <1>2, StampsAre DEF Told, RowsInv
<1>5. Kept' \subseteq Kept \cup {r} /\ (r \in Kept' => r \notin excused')
  BY DEF Kept
<1>6. Owed' \subseteq Owed
  BY <1>4, <1>5 DEF Owed, Told, A!OfTicket
<1>7. BusyIsThere'
  BY DEF PanelInv, BusyIsThere
<1> QED BY <1>3, <1>6, <1>7, PanelStays DEF Emptying

\* What becomes excused, or leaves the timeline, is owed no more.
LEMMA ExcusedPanel ==
  ASSUME RowsInv, PanelInv, UNCHANGED <<table, stamp, events, reads, runs, unavailable, disturbed, selected, newestSeen>>,
         written \subseteq written', Kept' \subseteq Kept, busy' = busy \/ busy' \notin Runs, Emptying => Emptying'
  PROVE  PanelInv'
<1>1. Kept \subseteq written
  BY DEF Kept, RowsInv, A!TypeOK
<1>2. EventsAreTold' /\ Owed' \subseteq Owed
  BY <1>1, ToldStays
<1>3. BusyIsThere'
  BY DEF PanelInv, BusyIsThere
<1> QED BY <1>2, <1>3, PanelStays

LEMMA LoadEventsPanel ==
  ASSUME RowsInv, PanelInv, A!loadEvents \/ A!listEvents \/ A!pollFailed
  PROVE  PanelInv'
<1>1. /\ UNCHANGED <<table, stamp, written, timeline, events, reads, runs, unavailable, disturbed, selected, newestSeen, busy>>
      /\ excused \subseteq excused'
  BY DEF A!loadEvents, A!listEvents, A!pollFailed
<1> QED BY <1>1, ExcusedPanel DEF Kept, Emptying

LEMMA AppendEventFailsPanel ==
  ASSUME RowsInv, PanelInv, NEW r \in Runs, A!appendEventFails(r)
  PROVE  PanelInv'
<1> USE DEF A!appendEventFails
<1>1. Kept' \subseteq Kept
  BY DEF Kept
<1>2. busy' = busy \/ (busy' = "none" /\ busy \in Runs)
  OBVIOUS
<1>3. (busy' = busy \/ busy' \notin Runs) /\ (Emptying => Emptying')
  BY <1>2, TabConstants DEF Emptying
<1> QED BY <1>1, <1>3, ExcusedPanel

\* What one read becomes when another is begun.
LEMMA LoadRunsIs ==
  ASSUME A!TypeOK, NEW t \in Tickets, A!loadRuns(t)
  PROVE  /\ A!Asked(t) \in reads' /\ A!Asked(t).ticket = t /\ A!Asked(t).newest /\ A!Asked(t).clean
         /\ ~A!Asked(t).answered
         /\ \A q \in reads' : q = A!Asked(t) \/ ~q.newest
         /\ \A q \in reads' : q = A!Asked(t) \/ \E p \in reads :
              q.answered = p.answered /\ q.seen = p.seen /\ q.clean = p.clean
<1>1. reads' = {[q EXCEPT !.newest = FALSE] : q \in reads} \cup {A!Asked(t)} /\ reads \subseteq A!Reads
  BY DEF A!loadRuns, A!TypeOK
<1>2. /\ A!Asked(t).ticket = t /\ A!Asked(t).newest /\ A!Asked(t).clean /\ ~A!Asked(t).answered
  BY DEF A!Asked
<1>3. ASSUME NEW q \in A!Reads, NEW p, p = [q EXCEPT !.newest = FALSE]
      PROVE  ~p.newest /\ p.answered = q.answered /\ p.seen = q.seen /\ p.clean = q.clean
  BY <1>3 DEF A!Reads
<1>4. ASSUME NEW q \in reads', q # A!Asked(t)
      PROVE  ~q.newest /\ \E p \in reads : q.answered = p.answered /\ q.seen = p.seen /\ q.clean = p.clean
  <2>1. PICK p \in reads : q = [p EXCEPT !.newest = FALSE]
    BY <1>1, <1>4
  <2> QED BY <1>1, <1>3, <2>1
<1> QED BY <1>1, <1>2, <1>4

\* A read of the selected ticket, whichever it is now, brings all that is owed.
LEMMA LoadRunsPanel ==
  ASSUME A!TypeOK, PanelInv, NEW t \in Tickets, A!loadRuns(t), selected' = t,
         UNCHANGED <<table, runs, unavailable, disturbed, busy>>, EventsAreTold', BusyIsThere'
  PROVE  PanelInv'
<1>1. NewestIsOne'
  BY LoadRunsIs DEF NewestIsOne
<1>2. SeenIsThere'
  <2>1. ASSUME NEW q \in reads', q.answered, q.clean
        PROVE  Emptying' \/ q.seen \subseteq table'
    <3>1. PICK p \in reads : q.answered = p.answered /\ q.seen = p.seen /\ q.clean = p.clean
      BY <2>1, LoadRunsIs
    <3> QED BY <2>1, <3>1 DEF PanelInv, SeenIsThere, Emptying
  <2> QED BY <2>1, LoadRunsIs DEF SeenIsThere
<1>3. KnownIsThere'
  BY DEF PanelInv, KnownIsThere, Emptying
<1>4. OwedIsRead'
  BY LoadRunsIs DEF OwedIsRead
<1> QED BY <1>1, <1>2, <1>3, <1>4 DEF PanelInv

LEMMA PollAnsweredPanel ==
  ASSUME RowsInv, PanelInv, A!pollAnswered
  PROVE  PanelInv'
<1>1. UNCHANGED <<table, stamp, written, timeline, selected, runs, unavailable, disturbed, busy, excused>>
  BY DEF A!pollAnswered
<1>2. /\ \/ UNCHANGED <<events, newestSeen>>
         \/ /\ newestSeen' \in events' /\ events' \subseteq written
            /\ \A r \in events' : stamp[r] <= stamp[newestSeen']
      /\ UNCHANGED <<reads, newestSeen>> \/ A!loadRuns(selected)
  BY PollAnsweredRows
<1>3. EventsAreTold'
  BY <1>1, <1>2 DEF PanelInv, EventsAreTold, Told, RowsInv, A!TypeOK
<1>4. BusyIsThere'
  BY <1>1 DEF PanelInv, BusyIsThere
<1>5. CASE A!loadRuns(selected)
  BY <1>1, <1>3, <1>4, <1>5, LoadRunsPanel DEF RowsInv, A!TypeOK
<1>6. CASE UNCHANGED <<reads, newestSeen>>
  <2>1. Owed' = Owed
    BY <1>1, <1>6 DEF Owed, Told, Kept, A!OfTicket
  <2> QED BY <1>1, <1>3, <1>4, <1>6, <2>1, PanelStays DEF Emptying
<1> QED BY <1>2, <1>5, <1>6

LEMMA SelectTicketPanel ==
  ASSUME RowsInv, PanelInv, NEW t \in Tickets, A!selectTicket(t)
  PROVE  PanelInv'
<1> USE DEF A!selectTicket
<1>1. EventsAreTold' /\ BusyIsThere'
  BY DEF PanelInv, EventsAreTold, Told, BusyIsThere
<1> QED BY <1>1, LoadRunsPanel DEF RowsInv

\* An answer is all there is now, what is owed among it.
LEMMA ListRunsPanel ==
  ASSUME RowsInv, PanelInv, NEW q \in reads, A!listRunsForTicket(q)
  PROVE  PanelInv'
<1> DEFINE answer == [q EXCEPT !.answered = TRUE, !.seen = A!OfTicket(q.ticket, table)]
<1>1. reads' = (reads \ {q}) \cup {answer} /\ q \in A!Reads
      /\ UNCHANGED <<table, stamp, written, timeline, events, runs, unavailable, disturbed, selected, newestSeen, busy, excused>>
  BY DEF A!listRunsForTicket, RowsInv, A!TypeOK
<1>2. /\ answer.ticket = q.ticket /\ answer.newest = q.newest /\ answer.clean = q.clean
      /\ answer.seen = A!OfTicket(q.ticket, table)
  BY <1>1 DEF A!Reads
<1> HIDE DEF answer
<1>3. EventsAreTold' /\ BusyIsThere' /\ KnownIsThere' /\ Owed' = Owed /\ Emptying' = Emptying
  BY <1>1 DEF PanelInv, EventsAreTold, Told, BusyIsThere, KnownIsThere, Emptying, Owed, Kept, A!OfTicket
<1>4. NewestIsOne'
  BY <1>1, <1>2 DEF PanelInv, NewestIsOne
<1>5. SeenIsThere'
  <2>1. A!OfTicket(q.ticket, table) \subseteq table
    BY DEF A!OfTicket
  <2> QED BY <1>1, <1>2, <1>3, <2>1 DEF PanelInv, SeenIsThere
<1>6. OwedIsRead'
  <2>1. Owed \subseteq A!OfTicket(selected, table)
    BY DEF Owed, A!OfTicket
  <2>2. q.newest => q.ticket = selected
    BY DEF PanelInv, NewestIsOne
  <2>3. \A p \in reads' : p.newest /\ p.answered => Owed' \subseteq p.seen
    BY <1>1, <1>2, <1>3, <2>1, <2>2 DEF PanelInv, OwedIsRead
  <2>4. (\E p \in reads : p.newest) => \E p \in reads' : p.newest
    BY <1>1, <1>2
  <2> QED BY <1>1, <1>3, <2>3, <2>4 DEF PanelInv, OwedIsRead
<1> QED BY <1>3, <1>4, <1>5, <1>6 DEF PanelInv

\* The newest read's answer is shown; any other changes nothing.
LEMMA RunsAnsweredPanel ==
  ASSUME RowsInv, PanelInv, NEW q \in reads, A!runsAnswered(q)
  PROVE  PanelInv'
<1>1. /\ reads' = reads \ {q} /\ q.answered
      /\ UNCHANGED <<table, stamp, written, timeline, events, selected, newestSeen, busy, excused>>
  BY DEF A!runsAnswered
<1>2. EventsAreTold' /\ BusyIsThere' /\ Owed' = Owed /\ Emptying' = Emptying
  BY <1>1 DEF PanelInv, EventsAreTold, Told, BusyIsThere, Emptying, Owed, Kept, A!OfTicket
<1>3. NewestIsOne'
  BY <1>1 DEF PanelInv, NewestIsOne
<1>4. CASE q.newest
  <2>1. runs' = q.seen /\ (disturbed' <=> disturbed /\ ~q.clean)
    BY <1>4 DEF A!runsAnswered, A!Current
  <2>2. \A p \in reads' : ~p.newest
    BY <1>1, <1>4 DEF PanelInv, NewestIsOne
  <2>3. (q.clean => Emptying \/ q.seen \subseteq table) /\ (~q.clean => disturbed) /\ Owed \subseteq q.seen
    BY <1>1, <1>4 DEF PanelInv, SeenIsThere, OwedIsRead
  <2>4. SeenIsThere'
    BY <1>1, <1>2, <2>2 DEF PanelInv, SeenIsThere
  <2>5. KnownIsThere'
    BY <1>1, <1>2, <2>1, <2>3 DEF KnownIsThere
  <2>6. OwedIsRead'
    BY <1>2, <2>1, <2>2, <2>3 DEF OwedIsRead
  <2> QED BY <1>2, <1>3, <2>4, <2>5, <2>6 DEF PanelInv
<1>5. CASE ~q.newest
  <2>1. UNCHANGED <<runs, unavailable, disturbed>>
    BY <1>5 DEF A!runsAnswered, A!Current
  <2>2. SeenIsThere' /\ KnownIsThere'
    BY <1>1, <1>2, <2>1 DEF PanelInv, SeenIsThere, KnownIsThere
  <2>3. OwedIsRead'
    BY <1>1, <1>2, <1>5, <2>1 DEF PanelInv, OwedIsRead
  <2> QED BY <1>2, <1>3, <2>2, <2>3 DEF PanelInv
<1> QED BY <1>4, <1>5

LEMMA RunsFailedPanel ==
  ASSUME RowsInv, PanelInv, NEW q \in reads, A!runsFailed(q)
  PROVE  PanelInv'
<1>1. /\ reads' = reads \ {q} /\ (unavailable' <=> unavailable \/ q.newest)
      /\ UNCHANGED <<table, stamp, written, timeline, events, selected, runs, disturbed, newestSeen, busy, excused>>
  BY DEF A!runsFailed, A!Current
<1>2. EventsAreTold' /\ BusyIsThere' /\ KnownIsThere' /\ Owed' = Owed /\ Emptying' = Emptying
  BY <1>1 DEF PanelInv, EventsAreTold, Told, BusyIsThere, KnownIsThere, Emptying, Owed, Kept, A!OfTicket
<1>3. NewestIsOne' /\ SeenIsThere'
  BY <1>1, <1>2 DEF PanelInv, NewestIsOne, SeenIsThere
<1>4. OwedIsRead'
  BY <1>1, <1>2 DEF PanelInv, OwedIsRead
<1> QED BY <1>2, <1>3, <1>4 DEF PanelInv

LEMMA RunTicketPanel ==
  ASSUME RowsInv, PanelInv, NEW r \in Runs, A!runTicket(r)
  PROVE  PanelInv'
<1> USE DEF A!runTicket
<1>1. EventsAreTold' /\ Owed' = Owed
  BY DEF PanelInv, EventsAreTold, Told, Owed, Kept, A!OfTicket
<1>2. BusyIsThere' /\ ~Emptying
  BY DEF PanelInv, BusyIsThere, Emptying
<1> QED BY <1>1, <1>2, PanelStays

\* The click's run has a record by the time it is answered.
LEMMA RunAnsweredPanel ==
  ASSUME RowsInv, PanelInv, A!runAnswered
  PROVE  PanelInv'
<1>1. /\ UNCHANGED <<table, stamp, written, timeline, events, selected, reads, unavailable, disturbed, newestSeen, excused>>
      /\ busy \in Runs /\ busy' = "none"
      /\ runs' = runs \/ (runs' = runs \cup {busy} /\ busy \in written)
  BY DEF A!runAnswered
<1>2. runs' = runs \/ (runs' = runs \cup {busy} /\ busy \in table)
  BY <1>1 DEF RowsInv, StampsTell, PanelInv, BusyIsThere
<1>3. ~Emptying /\ ~Emptying' /\ BusyIsThere'
  BY <1>1, TabConstants DEF Emptying, BusyIsThere
<1>4. EventsAreTold' /\ Owed' = Owed
  BY <1>1 DEF PanelInv, EventsAreTold, Told, Owed, Kept, A!OfTicket
<1>5. NewestIsOne' /\ SeenIsThere'
  BY <1>1, <1>3 DEF PanelInv, NewestIsOne, SeenIsThere
<1>6. KnownIsThere'
  BY <1>1, <1>2, <1>3 DEF PanelInv, KnownIsThere
<1>7. OwedIsRead'
  BY <1>1, <1>2, <1>4 DEF PanelInv, OwedIsRead
<1> QED BY <1>3, <1>4, <1>5, <1>6, <1>7 DEF PanelInv

LEMMA PresenterPanel ==
  ASSUME RowsInv, PanelInv, A!presenter
  PROVE  PanelInv'
<1> USE DEF A!presenter
<1>1. busy' \notin Runs /\ ~Emptying
  BY TabConstants DEF Emptying
<1> QED BY <1>1, ExcusedPanel DEF Kept

LEMMA StoreResetPanel ==
  ASSUME RowsInv, PanelInv, A!storeReset
  PROVE  PanelInv'
<1> USE DEF A!storeReset, A!reset
<1>1. EventsAreTold'
  BY DEF PanelInv, EventsAreTold, Told
<1>2. BusyIsThere' /\ Emptying'
  BY TabConstants DEF BusyIsThere, Emptying
<1>3. Owed' = {}
  BY DEF Owed, Kept, A!OfTicket
<1> QED BY <1>1, <1>2, <1>3, PanelStays

\* The panel is emptied: a read asked before says nothing of that.
LEMMA EmptiedPanel ==
  ASSUME RowsInv, PanelInv, runs' = {}, disturbed' = TRUE, reads' = {[q EXCEPT !.clean = FALSE] : q \in reads},
         busy' = "none", UNCHANGED <<table, stamp, written, timeline, selected, unavailable, newestSeen>>,
         excused \subseteq excused', events' \subseteq events
  PROVE  PanelInv'
<1>1. ASSUME NEW q \in reads'
      PROVE  \E p \in reads : /\ ~q.clean /\ q.ticket = p.ticket /\ q.newest = p.newest
                              /\ q.answered = p.answered /\ q.seen = p.seen
  <2>1. PICK p \in reads : q = [p EXCEPT !.clean = FALSE]
    BY <1>1
  <2>2. p \in A!Reads
    BY DEF RowsInv, A!TypeOK
  <2> QED BY <2>1, <2>2 DEF A!Reads
<1>2. ASSUME NEW q \in reads', NEW p \in reads', q.newest, p.newest
      PROVE  q = p /\ q.ticket = selected
  <2>1. PICK x \in reads : q = [x EXCEPT !.clean = FALSE]
    BY <1>2
  <2>2. PICK y \in reads : p = [y EXCEPT !.clean = FALSE]
    BY <1>2
  <2>3. x \in A!Reads /\ y \in A!Reads
    BY DEF RowsInv, A!TypeOK
  <2>4. x.newest /\ y.newest /\ q.ticket = x.ticket
    BY <1>2, <2>1, <2>2, <2>3 DEF A!Reads
  <2> QED BY <2>1, <2>2, <2>4 DEF PanelInv, NewestIsOne
<1>3. NewestIsOne'
  BY <1>2 DEF NewestIsOne
<1>4. SeenIsThere' /\ KnownIsThere'
  BY <1>1 DEF SeenIsThere, KnownIsThere
<1>5. EventsAreTold' /\ BusyIsThere' /\ Owed' \subseteq Owed
  BY TabConstants DEF PanelInv, EventsAreTold, Told, BusyIsThere, Owed, Kept, A!OfTicket
<1>6. OwedIsRead'
  BY <1>1, <1>5 DEF PanelInv, OwedIsRead
<1> QED BY <1>3, <1>4, <1>5, <1>6 DEF PanelInv

LEMMA PresenterAnsweredPanel ==
  ASSUME RowsInv, PanelInv, A!presenterAnswered
  PROVE  PanelInv'
<1>1. UNCHANGED <<table, stamp, written, timeline, events, selected, unavailable, newestSeen, excused>>
  BY DEF A!presenterAnswered
<1>2. CASE busy = "reload"
  <2>1. busy' = "clear" /\ UNCHANGED <<runs, reads, disturbed>>
    BY <1>2 DEF A!presenterAnswered
  <2>2. busy' \notin Runs /\ Emptying'
    BY <2>1, TabConstants DEF Emptying
  <2> QED BY <1>1, <2>1, <2>2, ExcusedPanel DEF Kept
<1>3. CASE busy # "reload"
  <2>1. busy' = "none" /\ runs' = {} /\ disturbed' = TRUE /\ reads' = {[q EXCEPT !.clean = FALSE] : q \in reads}
    BY <1>3 DEF A!presenterAnswered
  <2> QED BY <1>1, <2>1, EmptiedPanel
<1> QED BY <1>2, <1>3

LEMMA SetEventsPanel ==
  ASSUME RowsInv, PanelInv, A!setEvents
  PROVE  PanelInv'
<1>1. UNCHANGED <<table, stamp, written, timeline, selected, unavailable, newestSeen>> /\ busy' = "none"
      /\ runs' = {} /\ disturbed' = TRUE /\ reads' = {[q EXCEPT !.clean = FALSE] : q \in reads} /\ events' = {}
      /\ excused \subseteq excused'
  BY DEF A!setEvents
<1> QED BY <1>1, EmptiedPanel

\* What the panel and the clicks do to the rows: nothing.
LEMMA PanelRows ==
  ASSUME RowsInv,
         \/ \E t \in Tickets : A!selectTicket(t)
         \/ \E q \in reads : A!listRunsForTicket(q) \/ A!runsAnswered(q) \/ A!runsFailed(q)
         \/ \E r \in Runs : A!runTicket(r)
         \/ A!presenter
  PROVE  RowsInv'
<1>1. ASSUME NEW t \in Tickets, A!selectTicket(t)
      PROVE  RowsInv'
  <2>1. reads' \subseteq A!Reads
    BY <1>1, ReadsGoOn DEF RowsInv, A!selectTicket
  <2>2. A!TypeOK'
    BY <1>1, <2>1, TabConstants DEF RowsInv, A!TypeOK, A!selectTicket, A!Act
  <2> QED BY <1>1, <2>2, RowsStay DEF A!selectTicket
<1>2. ASSUME NEW q \in reads, A!listRunsForTicket(q)
      PROVE  RowsInv'
  <2>1. table \subseteq Runs /\ q \in A!Reads
    BY DEF RowsInv, A!TypeOK
  <2>2. [q EXCEPT !.answered = TRUE, !.seen = A!OfTicket(q.ticket, table)] \in A!Reads
    BY <2>1 DEF A!Reads, A!OfTicket
  <2>3. A!TypeOK'
    BY <1>2, <2>2 DEF RowsInv, A!TypeOK, A!listRunsForTicket
  <2> QED BY <1>2, <2>3, RowsStay DEF A!listRunsForTicket
<1>3. ASSUME NEW q \in reads, A!runsAnswered(q)
      PROVE  RowsInv'
  <2>1. q.seen \subseteq Runs
    BY DEF RowsInv, A!TypeOK, A!Reads
  <2>2. A!TypeOK'
    BY <1>3, <2>1 DEF RowsInv, A!TypeOK, A!runsAnswered
  <2> QED BY <1>3, <2>2, RowsStay DEF A!runsAnswered
<1>4. ASSUME NEW q \in reads, A!runsFailed(q)
      PROVE  RowsInv'
  <2>1. A!TypeOK'
    BY <1>4, TabConstants DEF RowsInv, A!TypeOK, A!runsFailed, A!Fault
  <2> QED BY <1>4, <2>1, RowsStay DEF A!runsFailed
<1>5. ASSUME NEW r \in Runs, A!runTicket(r)
      PROVE  RowsInv'
  <2>1. A!TypeOK'
    BY <1>5 DEF RowsInv, A!TypeOK, A!runTicket
  <2> QED BY <1>5, <2>1, RowsStay DEF A!runTicket
<1>6. ASSUME A!presenter
      PROVE  RowsInv'
  <2>1. A!TypeOK'
    BY <1>6, TabConstants DEF RowsInv, A!TypeOK, A!presenter, A!Act
  <2> QED BY <1>6, <2>1, RowsStay DEF A!presenter
<1> QED BY <1>1, <1>2, <1>3, <1>4, <1>5, <1>6

TabInv == RowsInv /\ PanelInv

LEMMA TabInit == A!Init => TabInv
<1> SUFFICES ASSUME A!Init PROVE TabInv
  OBVIOUS
<1> USE DEF A!Init
<1>1. A!Asked(First) \in A!Reads /\ A!Asked(First).ticket = First /\ A!Asked(First).clean /\ ~A!Asked(First).answered
  BY TabConstants DEF A!Asked, A!Reads
<1>2. A!TypeOK
  <2>1. 0 \in 0 .. MaxActs /\ 0 \in 0 .. MaxFaults
    BY TabConstants
  <2> QED BY <1>1, <2>1, ZeroIs, TabConstants DEF A!TypeOK
<1>3. RowsInv
  <2>1. StampsTell
    BY CountOfStamped, <1>2 DEF StampsTell
  <2> QED BY <1>2, <2>1 DEF RowsInv, CursorIsARow, AskedAhead, AnswerAhead, A!RowsAhead, Kept
<1>4. Owed = {}
  BY DEF Owed, Kept, A!OfTicket
<1>5. PanelInv
  BY <1>1, <1>4 DEF PanelInv, NewestIsOne, SeenIsThere, KnownIsThere, OwedIsRead, EventsAreTold, BusyIsThere
<1> QED BY <1>3, <1>5 DEF TabInv

LEMMA TabKeeps == TabInv /\ A!Next => TabInv'
<1> SUFFICES ASSUME RowsInv, PanelInv, A!Next PROVE RowsInv' /\ PanelInv'
  BY DEF TabInv
<1>1. RowsInv'
  BY PutRunRows, AppendEventRows, AppendEventFailsRows, ListEventsRows, PollAnsweredRows, PollFailedRows,
     RunAnsweredRows, LoadEventsRows, PresenterAnsweredRows, StoreResetRows, SetEventsRows, PanelRows
     DEF A!Next, A!Poll, A!Panel, A!Presenter
<1>2. PanelInv'
  BY PutRunPanel, AppendEventPanel, LoadEventsPanel, AppendEventFailsPanel, PollAnsweredPanel, SelectTicketPanel,
     ListRunsPanel, RunsAnsweredPanel, RunsFailedPanel, RunTicketPanel, RunAnsweredPanel, PresenterPanel,
     StoreResetPanel, PresenterAnsweredPanel, SetEventsPanel
     DEF A!Next, A!Poll, A!Panel, A!Presenter
<1> QED BY <1>1, <1>2

\* The containers move without the tab, but count failures with it.
LEMMA TabRests == TabInv /\ UNCHANGED appVars /\ faults' \in 0 .. MaxFaults => TabInv'
<1> SUFFICES ASSUME TabInv, UNCHANGED appVars, faults' \in 0 .. MaxFaults PROVE TabInv'
  OBVIOUS
<1> USE DEF appVars
<1>1. A!TypeOK'
  BY DEF TabInv, RowsInv, A!TypeOK
<1>2. RowsInv'
  BY <1>1, RowsStay DEF TabInv
<1>3. PanelInv'
  BY DEF TabInv, PanelInv, NewestIsOne, SeenIsThere, KnownIsThere, OwedIsRead, EventsAreTold, BusyIsThere,
         Owed, Kept, Told, Emptying, A!OfTicket
<1> QED BY <1>2, <1>3 DEF TabInv

LEMMA TabInvariant == Spec => []TabInv
<1>1. Init => TabInv
  BY TabInit DEF Init
<1>2. TabInv /\ FunctionInv' /\ [Next]_vars => TabInv'
  <2> SUFFICES ASSUME TabInv, FunctionInv', [Next]_vars PROVE TabInv'
    OBVIOUS
  <2>1. faults' \in 0 .. MaxFaults
    BY DEF FunctionInv, C!TypeOK
  <2>2. CASE FunctionStep
    BY <2>1, <2>2, TabRests DEF FunctionStep
  <2>3. CASE AppStep
    BY <2>3, TabKeeps DEF AppStep
  <2>4. CASE UNCHANGED vars
    BY <2>1, <2>4, TabRests DEF vars
  <2> QED BY <2>2, <2>3, <2>4 DEF Next
<1> QED BY <1>1, <1>2, DeskInvariant, PTL DEF Spec

\* Every variable of the tab keeps its type, whatever is clicked and fails.
THEOREM TabTypeCorrect == Spec => []A!TypeOK
<1>1. TabInv => A!TypeOK
  BY DEF TabInv, RowsInv
<1> QED BY <1>1, TabInvariant, PTL

\* The cursor passes no row by (App.tsx:167-172): whatever hosts write and stamp, polls,
\* failures, seeds and resets in between, a row the desk has is shown or ahead of the cursor,
\* but for those the code may miss.
THEOREM RowsAheadHolds == Spec => []A!RowsAhead
<1>1. TabInv => A!RowsAhead
  BY DEF TabInv, RowsInv
<1> QED BY <1>1, TabInvariant, PTL

\* With no read of them under way the panel has every run of the selected ticket that the tab
\* was told of, and none that the desk does not have (App.tsx:136-154, 207-218, 233-237), in
\* whatever order the clicks, the selections and their answers came.
THEOREM PanelIsReadHolds == Spec => []A!PanelIsRead
<1>1. TabInv => A!PanelIsRead
  BY PanelTells DEF TabInv
<1> QED BY <1>1, TabInvariant, PTL
=============================================================================
