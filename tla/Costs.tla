-------------------------------- MODULE Costs --------------------------------
(* What the account costs: `npm run cost:report` (scripts/cost-report.mjs)  *)
(* and the monthly cost check (services/cost-check), over the arithmetic    *)
(* they share (scripts/lib/cost.mjs).  Cost Explorer answers a window of    *)
(* days in pages; one answer may serve a narrower window too; the document  *)
(* says what a month cost, and what a week of days projects to.             *)
(*                                                                          *)
(* A day is a number and a service its kind; a row of Cost Explorer's       *)
(* answer is a day, whose charges are looked up.  Amounts are whole cents,  *)
(* and a projection is by its basis.                                        *)
EXTENDS Integers, Sequences, FiniteSets, FiniteSetsExt

CONSTANTS
  MonthStart,  \* the first day of each month, and the day after the last
  Charge,      \* what a day charged, by kind
  WEEK, LONG,  \* the windows of the report, in days: seven and thirty
  MaxPages,    \* pages a query is read to
  MaxFaults    \* bound: calls that throw

Kinds == {"fixed", "variable", "tax"}
Months == 1 .. Len(MonthStart) - 1
Days == MonthStart[1] .. MonthStart[Len(MonthStart)] - 1

\* Assumed wherever the constants get their values.
CostsAssumption ==
  /\ \A m \in Months : MonthStart[m] < MonthStart[m + 1]
  /\ Charge \in [Days -> [Kinds -> Nat]] /\ LONG \in Nat /\ WEEK \in 1 .. LONG
  /\ MaxPages \in Nat \ {0} /\ MaxFaults \in Nat

VARIABLES
  pc,      \* "asked", "query", "file", "metrics" or how it ended: "filed", "shown", "threw"
  ask,     \* what was asked, on which day: the month's document or the report
  query,   \* of a query: its window, the rows so far, the next page and how many there were
  faults,
  document \* what was filed or shown

vars == <<pc, ask, query, faults, document>>

Names == {"wide", "week"}

TypeOK ==
  /\ pc \in {"asked", "query", "file", "metrics", "filed", "shown", "threw"}
  /\ ask \in [what : {"month", "report"}, month : Months, now : Days]
  /\ \A n \in DOMAIN query : n \in Names /\ query[n].rows \subseteq Days /\ query[n].calls \in 0 .. MaxPages
  /\ faults \in 0 .. MaxFaults

Init ==
  /\ pc = "asked" /\ query = <<>> /\ document = <<>> /\ faults = 0
  /\ ask \in [what : {"month", "report"}, month : Months, now : {d \in Days : d - LONG \in Days}]

Fault == faults < MaxFaults /\ faults' = faults + 1

-----------------------------------------------------------------------------
(* Windows.                                                                *)

\* Full days before today: the end is exclusive.
costWindow(now, days) == [start |-> now - days, end |-> now]

monthWindow(month) == [start |-> MonthStart[month], end |-> MonthStart[month + 1]]

\* A month still running is filed up to today.
partial == monthWindow(ask.month).end > ask.now
effective == [monthWindow(ask.month) EXCEPT !.end = IF partial THEN ask.now ELSE @]

week == costWindow(ask.now, WEEK)

weekInside == week.start >= effective.start /\ week.end <= effective.end

\* Mutant: it is enough that the window ends where the answer does.
withinEnd(rows, window) == {d \in rows : d < window.end}

within(rows, window) == {d \in rows : window.start <= d /\ d < window.end}

\* By kind, over the rows.
summarise(rows) == [k \in Kinds |-> MapThenSumSet(LAMBDA d : Charge[d][k], rows)]

-----------------------------------------------------------------------------
(* The queries.                                                            *)

costQuery(window) == [window |-> window, rows |-> {}, next |-> window.start, calls |-> 0]

\* One query for both windows where one holds the other: in the report always.  A month
\* that has not had a day yet is refused.
costCheck ==
  /\ pc = "asked"
  /\ \/ ask.what = "month" /\ effective.end <= effective.start /\ pc' = "threw" /\ UNCHANGED query
     \/ /\ ask.what = "report" \/ effective.end > effective.start
        /\ pc' = "query"
        /\ query' = IF ask.what = "report" THEN [n \in {"wide"} |-> costQuery(costWindow(ask.now, LONG))]
                    ELSE [n \in {"wide"} \cup (IF weekInside THEN {} ELSE {"week"}) |->
                            costQuery(IF n = "wide" THEN effective ELSE week)]
  /\ UNCHANGED <<ask, faults, document>>

Pending(q) == q.next < q.window.end

\* A page: some days more, and whether there is another; the queries' pages come in any
\* order.  After so many the reader refuses to go on paying.
costAndUsagePages(n) ==
  /\ pc = "query" /\ n \in DOMAIN query /\ Pending(query[n])
  /\ \E to \in query[n].next + 1 .. query[n].window.end :
       LET q == [query[n] EXCEPT !.rows = @ \cup query[n].next .. to - 1, !.next = to, !.calls = @ + 1] IN
       /\ query' = [query EXCEPT ![n] = q]
       /\ pc' = IF Pending(q) /\ q.calls >= MaxPages THEN "threw"
                ELSE IF \A m \in DOMAIN query : ~ Pending(query'[m]) THEN "file" ELSE "query"
  /\ UNCHANGED <<ask, faults, document>>

\* One call of several fails, and with it the whole.
Throw ==
  /\ pc \in {"query", "file", "metrics"} /\ pc' = "threw" /\ Fault
  /\ UNCHANGED <<ask, query, document>>

-----------------------------------------------------------------------------
(* The document.                                                           *)

last7 == IF "week" \in DOMAIN query THEN query["week"].rows ELSE within(query["wide"].rows, week)

\* Filed under its month, or printed and spliced into the owner's document.
monthlyDocument ==
  /\ pc = "file"
  /\ pc' = (IF ask.what = "month" THEN "metrics" ELSE "shown")
  /\ document' = [wide |-> summarise(query["wide"].rows), last7 |-> summarise(last7),
                  partial |-> ask.what = "month" /\ partial]
  /\ UNCHANGED <<ask, query, faults>>

\* The metrics come after the document.
putMetrics ==
  /\ pc = "metrics" /\ pc' = "filed"
  /\ UNCHANGED <<ask, query, faults, document>>

Next == costCheck \/ (\E n \in Names : costAndUsagePages(n)) \/ Throw \/ monthlyDocument \/ putMetrics

Spec == Init /\ [][Next]_vars

-----------------------------------------------------------------------------
(* Properties.                                                             *)

CostOf(days) == [k \in Kinds |-> MapThenSumSet(LAMBDA d : Charge[d][k], days)]

\* "a reader that stops at the first page would silently drop days" (cost.mjs:73): what is
\* filed is every full day of its month so far and of the last week, by kind, each once,
\* however the answers were cut into pages and whichever query they came with.
EveryDayOnce ==
  document # <<>> =>
    LET full == {d \in Days : d < ask.now}
        wide == IF ask.what = "month" THEN {d \in full : MonthStart[ask.month] <= d /\ d < MonthStart[ask.month + 1]}
                ELSE {d \in full : d >= ask.now - LONG}
    IN /\ document.wide = CostOf(wide)
       /\ document.last7 = CostOf({d \in full : d >= ask.now - WEEK})
       /\ document.partial = (ask.what = "month" /\ MonthStart[ask.month + 1] > ask.now)
=============================================================================
