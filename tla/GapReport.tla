------------------------------- MODULE GapReport -------------------------------
(***************************************************************************)
(* The days that went unmarked and what the operator is told of them       *)
(* (packages/event-store/src: gap-report, operator-notice, heartbeat).     *)
(* Pure functions of the log, of the breadcrumb the job leaves and of the  *)
(* clock.  The log is the set of its entries, [instrument, day]; an entry  *)
(* whose instrument has no feed anchors its day and marks nothing.         *)
(***************************************************************************)
EXTENDS PriceFetch

CONSTANTS EraStart,         \* the first day the job was installed
          MaxWindowDays,    \* the widest window a report covers
          MaxNoticeLost,    \* the lost days a notice names
          MaxNoticeDark     \* how far back a notice counts dark venues

ASSUME GapReportAssumption ==
    /\ EraStart \in Nat
    /\ MaxWindowDays \in Nat \ {0} /\ MaxNoticeLost \in Nat /\ MaxNoticeDark \in Nat \ {0}
----------------------------------------------------------------------------
\* Mutant: today is due from the start.
DueThroughToday(now) == TradingDayAsOf(now)

\* A day is due once it is over.
DueThrough(now) == TradingDayAsOf(now) - 1

\* Mutant: a wide window reaches back before the era.
BoundedEraFloorOpen(now) == DueThrough(now) - (MaxWindowDays - 1)

BoundedEraFloor(now) ==
    LET widest == DueThrough(now) - (MaxWindowDays - 1)
    IN  IF widest > EraStart THEN widest ELSE EraStart

Anchors(log) == {e.day : e \in log}
MarksOn(log, day) == {e \in log : e.day = day /\ e.instrument \in Instruments}
HasMarks(log, day) == MarksOn(log, day) # {}

\* A venue is dark on a day it owed marks and left none, if others left some.
VenueDark(log, days) ==
    {dark \in days \X PRICE_SOURCES :
        LET day == dark[1] source == dark[2]
        IN  /\ HasMarks(log, day)
            /\ OwesMarkOn(source, day)
            /\ \A e \in MarksOn(log, day) : Registry[e.instrument].source # source}

ComputeGapReport(log, now) ==
    LET window == BoundedEraFloor(now) .. DueThrough(now)
    IN  [since    |-> BoundedEraFloor(now),
         until    |-> DueThrough(now),
         noAnchor |-> {d \in window : d \notin Anchors(log)},
         noMarks  |-> {d \in window : d \in Anchors(log) /\ ~HasMarks(log, d)},
         dark     |-> VenueDark(log, window)]

\* Mutant: a day with an event is not lost.
LostWithoutAnchor(report) == report.noAnchor

Lost(report) == report.noAnchor \cup report.noMarks
----------------------------------------------------------------------------
(* operator-notice.txt: written from the data, or by the job when it died. *)

NoNotice == [kind |-> "none"]
FailedNotice(step) == [kind |-> "failed", step |-> step]
UncheckedNotice == [kind |-> "unchecked"]

Latest(days, n) == {d \in days : Cardinality({e \in days : e > d}) < n}

\* The latest lost days are named; of the others the notice says how many.
LostDayFindings(report) ==
    LET named == Latest(Lost(report), MaxNoticeLost)
    IN  [named |-> named, withheld |-> Cardinality(Lost(report) \ named)]

VenueDarkCount(report) ==
    Cardinality({d \in report.dark : d[1] > report.until - MaxNoticeDark})

FormatOperatorNotice(log, now) ==
    LET report == ComputeGapReport(log, now)
        found  == LostDayFindings(report)
    IN  [kind |-> "data", until |-> report.until, named |-> found.named,
         withheld |-> found.withheld, dark |-> VenueDarkCount(report)]

\* Whether the notice is an empty file that was written from the data.
SaysAllWell(notice) ==
    notice.kind = "data" /\ notice.named = {} /\ notice.withheld = 0
----------------------------------------------------------------------------
(* job-heartbeat.json: how the last run ended, and the day the last run    *)
(* that landed its marks did so.  The clock does not go back, so no run is *)
(* dated ahead of today.                                                   *)

NoHeartbeat == [exit |-> 0, step |-> "none", marked |-> NoDay]

FormatHeartbeatWarning(heartbeat, now) ==
    IF heartbeat = NoHeartbeat THEN {}
    ELSE {w \in {"failed", "behind"} :
            CASE w = "failed" -> heartbeat.exit # 0
              [] w = "behind" -> /\ heartbeat.marked # NoDay
                                 /\ heartbeat.marked < DueThrough(now)}
================================================================================
