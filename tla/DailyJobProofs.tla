---------------------------- MODULE DailyJobProofs ----------------------------
(***************************************************************************)
(* What the daily job promises whatever the calendar, the registry, the    *)
(* clock and the number of faults.                                         *)
(***************************************************************************)
EXTENDS DailyJob, LogLemmas

\* The clock reads a day, and the days that are over are days too.
LEMMA ClockReadsADay ==
    ASSUME NEW t \in 3 .. 2 * LastDay + 1
    PROVE  /\ TradingDayAsOf(t) \in Days /\ DueThrough(t) \in Days /\ BoundedEraFloor(t) \in Int
           /\ DueThrough(t) = TradingDayAsOf(t) - 1
           /\ BoundedEraFloor(t) \in Nat
           /\ \A d \in Int : d >= BoundedEraFloor(t)
                  <=> d >= EraStart /\ d > DueThrough(t) - MaxWindowDays
<1>1. LastDay \in Nat \ {0} /\ EraStart \in Nat /\ MaxWindowDays \in Nat \ {0}
  BY ProjectionAssumption, GapReportAssumption
<1>2. t \div 2 \in 1 .. LastDay
  BY <1>1
<1> QED BY <1>1, <1>2 DEF TradingDayAsOf, DueThrough, BoundedEraFloor, Days

\* Of some days, one is the latest.
LEMMA LatestDay ==
    ASSUME NEW S \in SUBSET Days, S # {}
    PROVE  \E d \in S : \A e \in S : e <= d
<1>1. LastDay \in Nat /\ S \subseteq 0 .. LastDay /\ \A d \in S : LastDay - d \in Nat
  BY ProjectionAssumption DEF Days
<1>2. PICK T : T = { LastDay - d : d \in S }
  OBVIOUS
<1>3. T \in SUBSET Nat /\ T # {}
  BY <1>1, <1>2
<1>4. PICK n \in T : \A m \in T : n <= m
  BY <1>3, LeastMember
<1>5. PICK d \in S : n = LastDay - d
  BY <1>2, <1>4
<1>6. \A e \in S : LastDay - e \in T
  BY <1>2
<1>7. \A e \in S : LastDay - d <= LastDay - e
  BY <1>4, <1>5, <1>6
<1> QED BY <1>1, <1>5, <1>7

\* The walk back over a weekend ends on a day.
LEMMA ExpectedMarkDate ==
    ASSUME NEW source, NEW day \in Int
    PROVE  LastExpectedMarkDate(source, day) \in Int
<1> DEFINE trading == {d \in day - 10 .. day : \A e \in d + 1 .. day : IsWeekend(e)}
<1>1. day \in trading /\ trading \subseteq Int /\ \A d \in trading : d - (day - 10) \in Nat
  OBVIOUS
<1> HIDE DEF trading
<1>2. PICK T : T = { d - (day - 10) : d \in trading }
  OBVIOUS
<1>3. T \in SUBSET Nat /\ T # {}
  BY <1>1, <1>2
<1>4. PICK n \in T : \A m \in T : n <= m
  BY <1>3, LeastMember
<1>5. PICK d \in trading : n = d - (day - 10)
  BY <1>2, <1>4
<1>6. \A e \in trading : e - (day - 10) \in T
  BY <1>2
<1>7. \A e \in trading : d - (day - 10) <= e - (day - 10)
  BY <1>4, <1>5, <1>6
<1>8. \A e \in trading : d <= e
  BY <1>1, <1>7
<1>9. (CHOOSE c \in trading : \A e \in trading : c <= e) \in trading
  BY <1>8
<1> QED BY <1>1, <1>9 DEF LastExpectedMarkDate, trading

\* What the providers answer.
LEMMA AnswersType ==
    ASSUME NEW t \in Nat, NEW asOf \in Int, NEW recovering \in BOOLEAN, NEW fault
    PROVE  /\ Owed(asOf, recovering) \subseteq Instruments
           /\ Bars(t, asOf, recovering, fault) \in [Owed(asOf, recovering) -> Answers]
           /\ BanxicoFix(t, asOf, recovering, fault) \in Int
<1>1. TradingDayAsOf(t) \in Int /\ NoDay \in Int /\ FixMaxStaleDays \in Int
  BY PriceFetchAssumption DEF TradingDayAsOf, NoDay
<1>2. BinanceBar(t, asOf, recovering) \in Int
  BY <1>1 DEF BinanceBar
<1>3. TwelveDataBar(t, asOf, recovering) \in Int
  <2>1. LastExpectedMarkDate("twelvedata",
            TradingDayAsOf(t) - IF IsAtOrAfterMarkTime(t) THEN 0 ELSE 1) \in Int
    BY <1>1, ExpectedMarkDate
  <2> QED BY <1>1, <2>1 DEF TwelveDataBar
<1>4. \A i : Observe(i, t, asOf, recovering, fault) \in Answers
  <2> TAKE i
  <2> DEFINE source == Registry[i].source
             date   == IF source = "binance" THEN BinanceBar(t, asOf, recovering)
                       ELSE TwelveDataBar(t, asOf, recovering)
  <2>1. date \in Int
    BY <1>2, <1>3
  <2>2. LastExpectedMarkDate(source, date - 1) \in Int
    BY <2>1, ExpectedMarkDate
  <2>3. \A d \in Int : \A p \in {"sane", "wild"} : Bar(d, p) \in Answers
    BY DEF Bar, Answers
  <2>4. NoBar \in Answers
    BY DEF Answers
  <2> HIDE DEF date, source
  <2>5. Observe(i, t, asOf, recovering, fault) =
          LET struck == date # NoDay /\ fault.instrument = i
          IN  CASE date = NoDay \/ (struck /\ fault.kind = "failed") -> NoBar
                [] struck /\ fault.kind = "wild" -> Bar(date, "wild")
                [] struck /\ fault.kind = "lagging" ->
                       IF recovering THEN NoBar
                       ELSE Bar(LastExpectedMarkDate(source, date - 1), "sane")
                [] OTHER -> Bar(date, "sane")
    BY DEF Observe, date, source
  <2> QED BY <2>1, <2>2, <2>3, <2>4, <2>5
<1>5. BanxicoFix(t, asOf, recovering, fault) \in Int
  BY <1>1, <1>3 DEF BanxicoFix
<1> QED BY <1>4, <1>5 DEF Owed, Bars

\* The marks of a run are marks of instruments that answered.
LEMMA MarksOfAnswers ==
    ASSUME NEW S \in SUBSET Instruments, NEW bars \in [S -> Answers], NEW asOf \in Days, NEW fix
    PROVE  /\ BuildMarks(bars, asOf, fix) \subseteq Marks
           /\ \A m \in BuildMarks(bars, asOf, fix) :
                  m.instrument \in Succeeded(bars) /\ m.day = asOf
<1>1. \A i \in Succeeded(bars) : i \in S /\ i \in Instruments /\ bars[i].price \in {"sane", "wild"}
  BY DEF Succeeded, Answers
<1>2. Marked(bars, asOf, fix) \subseteq Succeeded(bars)
  BY DEF Marked, Fresh
<1> QED BY <1>1, <1>2 DEF BuildMarks, Marks
----------------------------------------------------------------------------
(* Type correctness.                                                       *)

\* The days a report calls lost are the days of its window without marks.
LEMMA LostHaveNoMarks ==
    ASSUME NEW t
    PROVE  Lost(ComputeGapReport(log, t)) =
               {d \in BoundedEraFloor(t) .. DueThrough(t) : ~HasMarks(log, d)}
<1>1. \A d : d \notin Anchors(log) => ~HasMarks(log, d)
  BY DEF Anchors, HasMarks, MarksOn
<1> QED BY <1>1 DEF Lost, ComputeGapReport

\* What a notice made from the data says is made of days, and ends yesterday.
LEMMA NoticeOfDays ==
    ASSUME NEW t \in 3 .. 2 * LastDay + 1
    PROVE  LET said == FormatOperatorNotice(log, t)
               lost == {d \in BoundedEraFloor(t) .. DueThrough(t) : ~HasMarks(log, d)}
           IN  /\ said.kind = "data" /\ said.until = DueThrough(t)
               /\ said.named \subseteq Days /\ said.withheld \in Days
               /\ said.withheld = Cardinality(lost \ said.named)
<1> DEFINE said == FormatOperatorNotice(log, t)
           lost == {d \in BoundedEraFloor(t) .. DueThrough(t) : ~HasMarks(log, d)}
<1>1. /\ said.kind = "data" /\ said.until = DueThrough(t)
      /\ said.named \subseteq lost /\ said.withheld = Cardinality(lost \ said.named)
  BY LostHaveNoMarks DEF FormatOperatorNotice, LostDayFindings, Latest, ComputeGapReport
<1>2. /\ BoundedEraFloor(t) \in Nat /\ DueThrough(t) \in Days
      /\ DueThrough(t) = TradingDayAsOf(t) - 1 /\ TradingDayAsOf(t) \in Days /\ LastDay \in Nat
  BY ClockReadsADay, ProjectionAssumption
<1>3. lost \subseteq 0 .. LastDay - 1
  BY <1>2 DEF Days
<1>4. said.withheld \in Days
  <2>1. IsFiniteSet(0 .. LastDay - 1) /\ Cardinality(0 .. LastDay - 1) = LastDay
    <3>1. 0 \in Int /\ LastDay - 1 \in Int /\ (0 > LastDay - 1 => LastDay = 0)
      BY <1>2
    <3>2. /\ IsFiniteSet(0 .. LastDay - 1)
          /\ Cardinality(0 .. LastDay - 1) =
                IF 0 > LastDay - 1 THEN 0 ELSE (LastDay - 1) - 0 + 1
      BY <3>1, FS_Interval
    <3> QED BY <1>2, <3>1, <3>2
  <2>2. lost \ said.named \subseteq 0 .. LastDay - 1
    BY <1>3
  <2> HIDE DEF lost, said
  <2>3. /\ IsFiniteSet(lost \ said.named)
        /\ Cardinality(lost \ said.named) <= Cardinality(0 .. LastDay - 1)
    BY <2>1, <2>2, FS_Subset
  <2> QED BY <1>1, <1>2, <2>1, <2>3, FS_CardinalityType DEF Days
<1> QED BY <1>1, <1>2, <1>3, <1>4 DEF Days

\* No fetch is a fetch, and so is a fetch that ended.
LEMMA NoFetchOK == FetchOK(NoFetch)
<1>1. Nothing \in [{} -> Answers] /\ Nothing \in [{} -> SUBSET Days] /\ NoDay \in Int
  BY DEF Nothing, NoDay
<1>2. NoFetch \in Fetches({}, {})
  BY <1>1 DEF NoFetch, Fetches
<1> QED BY <1>2 DEF FetchOK, NoFetch

\* The end of a run leaves everything well typed.
LEMMA EndRunType ==
    ASSUME TypeOK, NEW code \in {0, 1}, NEW step \in Steps, EndRun(code, step)
    PROVE  /\ heartbeat' \in [exit : {0, 1}, step : Steps \cup {"none"},
                              marked : Days \cup {NoDay}]
           /\ job' \in [step : Steps \cup {"idle", "trap"}, window : BOOLEAN,
                        carried : Days \cup {NoDay}, anchors : SUBSET Days]
           /\ DOMAIN fetch' = Fetchers /\ \A f \in Fetchers : FetchOK(fetch[f]')
           /\ push' \in [Fetchers -> Pushes]
           /\ unspoken' \in BOOLEAN
<1>1. Stamped(job, step) \in Days \cup {NoDay}
  BY ClockReadsADay DEF Stamped, Today, TypeOK
<1>2. NoRun \in [step : Steps \cup {"idle", "trap"}, window : BOOLEAN,
                 carried : Days \cup {NoDay}, anchors : SUBSET Days]
  BY DEF NoRun
<1>3. NoPush \in Pushes
  BY DEF Pushes
<1> QED BY <1>1, <1>2, <1>3, NoFetchOK DEF EndRun, TypeOK

\* The ids of marks are entries.
LEMMA IdsAreEntries ==
    ASSUME NEW marks \in SUBSET Marks
    PROVE  Ids(marks) \in SUBSET Entries
BY DEF Ids, PriceMarkId, Marks, Entries

\* Aging a push leaves a push.
LEMMA AgedPush ==
    ASSUME NEW p \in Pushes, NEW entries
    PROVE  AgePush(p, entries) \in Pushes
BY DEF AgePush, Pushes, NoPush

\* A spine leaves everything well typed.
LEMMA SpineTakesType ==
    ASSUME TypeOK, NEW captured \in BOOLEAN, SpineTakes(captured)
    PROVE  /\ log' \in SUBSET Entries /\ inbox' \in SUBSET Marks
           /\ rows' \in [Days -> RowStates] /\ push' \in [Fetchers -> Pushes]
           /\ uncaptured' \in BOOLEAN
           /\ log' = log \cup Ids(inbox)
<1>1. Ids(inbox) \in SUBSET Entries
  BY IdsAreEntries DEF TypeOK
<1>2. AgeRows(rows, Ids(inbox) \ log) \in [Days -> RowStates]
  BY DEF AgeRows, RowStates, TypeOK
<1> QED BY <1>1, <1>2, AgedPush DEF SpineTakes, TypeOK

\* An answer begins a fetch.
LEMMA AskType ==
    ASSUME TypeOK, NEW f \in Fetchers, NEW asOf \in Days, NEW emit \in BOOLEAN,
           NEW recovering \in BOOLEAN, Ask(f, asOf, emit, recovering)
    PROVE  /\ DOMAIN fetch' = Fetchers /\ \A g \in Fetchers : FetchOK(fetch[g]')
           /\ incidents' \in 0 .. MaxIncidents
           /\ overlapped' \in BOOLEAN
           /\ \A g \in Fetchers \ {f} : fetch[g]' = fetch[g]
           /\ \E fault \in Faults :
                 LET bars == Bars(now, asOf, recovering, fault)
                 IN  /\ fetch[f]'.phase = "store" /\ fetch[f]'.asOf = asOf
                     /\ fetch[f]'.emit = emit /\ fetch[f]'.bars = bars
                     /\ fetch[f]'.images = [i \in Succeeded(bars) |-> store[i]]
<1>1. PICK fault \in Faults :
         /\ IF fault = NoFault THEN UNCHANGED incidents ELSE Incident
         /\ fetch' = [fetch EXCEPT ![f] =
                [NoFetch EXCEPT !.phase = "store", !.asOf = asOf, !.emit = emit,
                                !.bars = Bars(now, asOf, recovering, fault),
                                !.fix = BanxicoFix(now, asOf, recovering, fault),
                                !.images = [i \in Succeeded(Bars(now, asOf, recovering, fault))
                                                |-> store[i]]]]
  BY DEF Ask
<1> DEFINE bars == Bars(now, asOf, recovering, fault)
           fix  == BanxicoFix(now, asOf, recovering, fault)
           images == [i \in Succeeded(bars) |-> store[i]]
<1>2. /\ Owed(asOf, recovering) \subseteq Instruments
      /\ bars \in [Owed(asOf, recovering) -> Answers] /\ fix \in Int
  <2>1. now \in Nat /\ asOf \in Int
    BY ProjectionAssumption DEF TypeOK, Days
  <2> QED BY <2>1, AnswersType
<1>3. Succeeded(bars) \subseteq Instruments /\ images \in [Succeeded(bars) -> SUBSET Days]
  BY <1>2 DEF Succeeded, TypeOK
<1>4. fetch[f]' = [phase |-> "store", asOf |-> asOf, emit |-> emit, bars |-> bars, fix |-> fix,
                  images |-> images, marks |-> {}, fresh |-> {}]
  BY <1>1 DEF NoFetch, TypeOK
<1>5. FetchOK(fetch[f]')
  <2> HIDE DEF bars, fix, images
  <2>1. fetch[f]' \in Fetches(Owed(asOf, recovering), Succeeded(bars))
    BY <1>2, <1>3, <1>4 DEF Fetches
  <2> QED BY <1>2, <1>3, <1>4, <2>1 DEF FetchOK
<1>6. incidents' \in 0 .. MaxIncidents
  BY <1>1, DailyJobAssumption DEF Incident, TypeOK
<1>7. overlapped' \in BOOLEAN
  BY DEF Ask, TypeOK
<1> QED BY <1>1, <1>4, <1>5, <1>6, <1>7 DEF TypeOK

\* Every variable keeps its type.
THEOREM TypeCorrect == Spec => []TypeOK
<1>1. Init => TypeOK
  <2> SUFFICES ASSUME Init PROVE TypeOK
    OBVIOUS
  <2>1. LastDay \in Nat \ {0} /\ MaxIncidents \in Nat
    BY ProjectionAssumption, DailyJobAssumption
  <2>2. now \in 3 .. 2 * LastDay + 1 /\ 0 \in Days
    BY <2>1 DEF Init, Days
  <2>3. rows \in [Days -> RowStates]
    BY DEF Init, RowStates
  <2>4. \A f \in Fetchers : FetchOK(fetch[f])
    BY NoFetchOK DEF Init
  <2>5. log \in SUBSET Entries /\ log # {}
    BY <2>2 DEF Init, Event, Entries
  <2>6. push \in [Fetchers -> Pushes]
    BY DEF Init, Pushes
  <2>7. /\ heartbeat \in [exit : {0, 1}, step : Steps \cup {"none"}, marked : Days \cup {NoDay}]
        /\ notice.kind = "none"
        /\ job \in [step : Steps \cup {"idle", "trap"}, window : BOOLEAN,
                   carried : Days \cup {NoDay}, anchors : SUBSET Days]
    BY DEF Init, NoHeartbeat, NoNotice, NoRun
  <2>8. store \in [Instruments -> SUBSET Days] /\ inbox = {} /\ DOMAIN fetch = Fetchers
    BY DEF Init
  <2>9. {malformed, uncaptured, crossed, overlapped, unspoken} \subseteq BOOLEAN
    BY DEF Init
  <2>10. incidents \in 0 .. MaxIncidents
    BY <2>1 DEF Init
  <2>11. \A f \in Fetchers : fetch[f].phase = "idle"
    BY DEF Init, NoFetch
  <2> QED BY <2>2, <2>3, <2>4, <2>5, <2>6, <2>7, <2>8, <2>9, <2>10, <2>11 DEF TypeOK
<1>2. TypeOK /\ [Next]_vars => TypeOK'
  <2> SUFFICES ASSUME TypeOK, [Next]_vars PROVE TypeOK'
    OBVIOUS
  <2> USE DEF TypeOK, files, channels, ghosts
  <2>0. Today \in Days /\ "job" \in Fetchers /\ "hand" \in Fetchers
    BY ClockReadsADay DEF Today, Fetchers
  <2>1. CASE WriteOperatorFailureNotice
    BY <2>1 DEF WriteOperatorFailureNotice, FailedNotice, NoRun
  <2>2. CASE Fire
    <3>1. job' = [step |-> "startup", window |-> FALSE, carried |-> heartbeat.marked,
                  anchors |-> {}]
      BY <2>2 DEF Fire, NoRun
    <3>2. heartbeat.marked \in Days \cup {NoDay} /\ "startup" \in Steps
      BY DEF Steps
    <3>3. job' \in [step : Steps \cup {"idle", "trap"}, window : BOOLEAN,
                   carried : Days \cup {NoDay}, anchors : SUBSET Days]
      BY <3>1, <3>2
    <3>4. /\ notice'.kind \in {"none", "data", "failed", "unchecked"}
          /\ notice'.kind = "data" => notice' = notice
      BY <2>2 DEF Fire, FailedNotice
    <3> QED BY <2>2, <3>3, <3>4 DEF Fire
  <2>3. CASE OpenWindow
    BY <2>3 DEF OpenWindow, Steps, IsAtOrAfterMarkTime
  <2>4. CASE BeginFetch
    <3>1. IsAtOrAfterMarkTime(now) \in BOOLEAN
      BY DEF IsAtOrAfterMarkTime
    <3>2. /\ DOMAIN fetch' = Fetchers /\ \A g \in Fetchers : FetchOK(fetch[g]')
          /\ incidents' \in 0 .. MaxIncidents /\ overlapped' \in BOOLEAN
      <4>1. Ask("job", Today, IsAtOrAfterMarkTime(now), FALSE)
        BY <2>4 DEF BeginFetch
      <4>2. FALSE \in BOOLEAN
        OBVIOUS
      <4> HIDE DEF TypeOK
      <4> QED BY <2>0, <3>1, <4>1, <4>2, AskType, Zenon
    <3>3. job' \in [step : Steps \cup {"idle", "trap"}, window : BOOLEAN,
                   carried : Days \cup {NoDay}, anchors : SUBSET Days]
      BY <2>4 DEF BeginFetch, Goto, Steps
    <3> QED BY <2>4, <3>2, <3>3 DEF BeginFetch, Ask
  <2>5. ASSUME NEW f \in Fetchers, UpsertQuotes(f) PROVE TypeOK'
    <3>1. PICK asked \in SUBSET Instruments, answered \in SUBSET Instruments :
             fetch[f] \in Fetches(asked, answered)
      BY <2>5 DEF FetchOK
    <3>2. /\ fetch[f].phase = "store" /\ fetch[f].asOf \in Days
          /\ DOMAIN fetch[f].images = answered
          /\ \A i \in answered : fetch[f].images[i] \in SUBSET Days
      BY <2>5, <3>1 DEF UpsertQuotes, FetchOK, Fetches
    <3>3. store' \in [Instruments -> SUBSET Days]
      BY <2>5, <3>2 DEF UpsertQuotes, MergedQuotes
    <3>4. DOMAIN fetch' = Fetchers /\ \A g \in Fetchers \ {f} : fetch'[g] = fetch[g]
      BY <2>5 DEF UpsertQuotes
    <3>5. FetchOK(fetch'[f])
      <4>1. fetch'[f] = [fetch[f] EXCEPT !.images = Nothing, !.phase = "emit"]
        BY <2>5 DEF UpsertQuotes
      <4>2. Nothing \in [{} -> SUBSET Days]
        BY DEF Nothing
      <4>3. fetch'[f] \in Fetches(asked, {}) /\ fetch'[f].phase = "emit"
            /\ fetch'[f].asOf = fetch[f].asOf
        BY <3>1, <4>1, <4>2 DEF Fetches
      <4> QED BY <3>2, <4>3 DEF FetchOK
    <3> QED BY <2>5, <3>3, <3>4, <3>5 DEF UpsertQuotes
  <2>6. ASSUME NEW f \in Fetchers, EmitMarks(f) PROVE TypeOK'
    <3> DEFINE run   == fetch[f]
               marks == IF run.emit THEN BuildMarks(run.bars, run.asOf, run.fix) ELSE {}
               fresh == Unqueued(inbox, marks)
    <3>1. PICK asked \in SUBSET Instruments, answered \in SUBSET Instruments :
             run \in Fetches(asked, answered)
      BY <2>6 DEF FetchOK
    <3>2. run.phase = "emit" /\ run.asOf \in Days /\ run.bars \in [asked -> Answers]
      BY <2>6, <3>1 DEF EmitMarks, FetchOK, Fetches
    <3>3. marks \in SUBSET Marks /\ fresh \in SUBSET Marks
      BY <3>2, MarksOfAnswers DEF Unqueued
    <3>4. /\ inbox' = inbox \cup fresh
          /\ fetch' = [fetch EXCEPT ![f] = IF f = "hand" THEN NoFetch
                           ELSE [@ EXCEPT !.phase = "scan", !.marks = marks, !.fresh = fresh]]
          /\ UNCHANGED <<now, log, malformed, store, uncaptured, rows, channels, job,
                         push, incidents, ghosts, unspoken>>
      BY <2>6 DEF EmitMarks
    <3> HIDE DEF marks, fresh
    <3>5. [run EXCEPT !.phase = "scan", !.marks = marks, !.fresh = fresh]
             \in Fetches(asked, answered)
      BY <3>1, <3>3 DEF Fetches
    <3>6. FetchOK([run EXCEPT !.phase = "scan", !.marks = marks, !.fresh = fresh])
      <4>1. [run EXCEPT !.phase = "scan", !.marks = marks, !.fresh = fresh].phase = "scan"
            /\ [run EXCEPT !.phase = "scan", !.marks = marks, !.fresh = fresh].asOf = run.asOf
        BY <3>1 DEF Fetches
      <4> QED BY <3>2, <3>5, <4>1 DEF FetchOK
    <3>7. DOMAIN fetch' = Fetchers /\ \A g \in Fetchers : FetchOK(fetch'[g])
      BY <2>6, <3>4, <3>6, NoFetchOK
    <3> QED BY <3>3, <3>4, <3>7
  <2>7. CASE EndFetch
    <3>1. CASE ExitsClean("job")
      <4>1. DOMAIN fetch' = Fetchers /\ \A g \in Fetchers : FetchOK(fetch'[g])
        BY <2>7, <3>1, NoFetchOK DEF EndFetch
      <4> QED BY <2>7, <3>1, <4>1 DEF EndFetch, Goto, Steps
    <3>2. CASE ~ExitsClean("job")
      BY <2>7, <3>2, EndRunType DEF EndFetch, Steps
    <3> QED BY <3>1, <3>2
  <2>8. CASE Spine
    <3>1. CASE SpineAccepts
      <4>1. \E captured \in BOOLEAN : SpineTakes(captured)
        BY <2>8, <3>1 DEF Spine
      <4>2. incidents' \in 0 .. MaxIncidents
        <5>1. UNCHANGED incidents \/ Incident
          BY <2>8, <3>1 DEF Spine
        <5> QED BY <5>1, DailyJobAssumption DEF Incident
      <4>3. job' \in [step : Steps \cup {"idle", "trap"}, window : BOOLEAN,
                     carried : Days \cup {NoDay}, anchors : SUBSET Days]
        BY <2>8, <3>1 DEF Spine, Goto, Steps
      <4> QED BY <2>8, <3>1, <4>1, <4>2, <4>3, SpineTakesType DEF Spine
    <3>2. CASE ~SpineAccepts
      BY <2>8, <3>2, EndRunType DEF Spine, Steps
    <3> QED BY <3>1, <3>2
  <2>9. CASE Commit
    BY <2>9 DEF Commit, Goto, Steps
  <2>10. CASE PostCheck
    <3>1. CASE uncaptured
      BY <2>10, <3>1, EndRunType DEF PostCheck, Steps
    <3>2. CASE ~uncaptured
      BY <2>10, <3>2 DEF PostCheck, Goto, Steps
    <3> QED BY <3>1, <3>2
  <2>11. CASE WriteGapReport
    <3>1. CASE ~AssertLogFullyLoaded \/ BoundedEraFloor(now) > DueThrough(now)
      BY <2>11, <3>1, EndRunType DEF WriteGapReport, Steps
    <3>2. CASE ~(~AssertLogFullyLoaded \/ BoundedEraFloor(now) > DueThrough(now))
      BY <2>11, <3>2 DEF WriteGapReport, Goto, Steps
    <3> QED BY <3>1, <3>2
  <2>12. CASE WriteOperatorNotice
    <3>1. /\ notice'.kind \in {"none", "data", "failed", "unchecked"}
          /\ notice'.kind = "data" =>
                notice'.named \subseteq Days /\ notice'.withheld \in Days
                /\ notice'.until \in Days
      BY <2>12, NoticeOfDays, ClockReadsADay
         DEF WriteOperatorNotice, LoadOperatorNoticeLines, UncheckedNotice
    <3>2. EnumerateAnchors(log) \in SUBSET Days
      BY DEF EnumerateAnchors, Anchors, Entries
    <3> QED BY <2>12, <3>1, <3>2 DEF WriteOperatorNotice, Steps
  <2>13. CASE BackfillFold
    <3>1. CASE ~AssertLogFullyLoaded
      BY <2>13, <3>1, EndRunType DEF BackfillFold, Steps
    <3>2. CASE AssertLogFullyLoaded
      <4>1. Least(job.anchors) \in job.anchors
        <5>1. job.anchors \in SUBSET Nat /\ job.anchors # {}
          BY <2>13, ProjectionAssumption DEF BackfillFold, Days
        <5>2. \E d \in job.anchors : \A e \in job.anchors : d <= e
          BY <5>1, LeastMember
        <5> QED BY <5>2 DEF Least
      <4>2. FoldAnchor(Least(job.anchors)) \in Pushes
        BY <4>1 DEF FoldAnchor, Pushes
      <4> QED BY <2>13, <3>2, <4>2 DEF BackfillFold
    <3> QED BY <3>1, <3>2
  <2>14. ASSUME NEW f \in Fetchers, Upsert(f) PROVE TypeOK'
    <3>1. UpsertSnapshot(rows, push[f]) \in [Days -> RowStates]
      BY <2>14 DEF Upsert, UpsertSnapshot, RowStates, Pushes
    <3>2. NoPush \in Pushes
      BY DEF Pushes
    <3> QED BY <2>14, <3>1, <3>2 DEF Upsert
  <2>15. CASE Complete
    BY <2>15, EndRunType DEF Complete, Steps
  <2>16. CASE Fail
    <3>1. job.step \in Steps
      BY <2>16 DEF Fail, Running
    <3>2. incidents' \in 0 .. MaxIncidents
      BY <2>16, DailyJobAssumption DEF Fail, Incident
    <3> QED BY <2>16, <3>1, <3>2, EndRunType DEF Fail
  <2>17. CASE Killed
    <3>1. incidents' \in 0 .. MaxIncidents
      BY <2>17, DailyJobAssumption DEF Killed, Incident
    <3>2. DOMAIN fetch' = Fetchers /\ \A g \in Fetchers : FetchOK(fetch'[g])
      BY <2>17, NoFetchOK DEF Killed
    <3>3. NoPush \in Pushes
      BY DEF Pushes
    <3> QED BY <2>17, <3>1, <3>2, <3>3 DEF Killed, NoRun
  <2>18. CASE BeginRecovery
    <3>1. PICK day \in notice.named \cap RecoveredDays : Ask("hand", day, TRUE, TRUE)
      BY <2>18 DEF BeginRecovery
    <3>2. day \in Days
      BY <3>1, DailyJobAssumption
    <3>3. /\ DOMAIN fetch' = Fetchers /\ \A g \in Fetchers : FetchOK(fetch[g]')
          /\ incidents' \in 0 .. MaxIncidents /\ overlapped' \in BOOLEAN
      BY <2>0, <3>1, <3>2, AskType
    <3> QED BY <2>18, <3>1, <3>3 DEF BeginRecovery, Ask
  <2>19. CASE RunSpine
    <3>1. \E captured \in BOOLEAN : SpineTakes(captured)
      BY <2>19 DEF RunSpine
    <3>2. incidents' \in 0 .. MaxIncidents
      <4>1. UNCHANGED incidents \/ Incident
        BY <2>19 DEF RunSpine
      <4> QED BY <4>1, DailyJobAssumption DEF Incident
    <3> QED BY <2>19, <3>1, <3>2, SpineTakesType DEF RunSpine
  <2>20. CASE Author
    <3>1. [instrument |-> "event", day |-> Today, price |-> "sane"] \in Marks
      BY <2>0 DEF Marks
    <3>2. incidents' \in 0 .. MaxIncidents
      BY <2>20, DailyJobAssumption DEF Author, Incident
    <3> QED BY <2>20, <3>1, <3>2 DEF Author
  <2>21. CASE ReviewInbox
    <3>1. \A m \in inbox : [m EXCEPT !.price = "sane"] \in Marks
      BY DEF Marks
    <3>2. inbox' \in SUBSET Marks
      BY <2>21, <3>1 DEF ReviewInbox
    <3> QED BY <2>21, <3>2 DEF ReviewInbox
  <2>22. CASE BreakLog \/ MendLog
    <3>1. incidents' \in 0 .. MaxIncidents
      BY <2>22, DailyJobAssumption DEF BreakLog, MendLog, Incident
    <3> QED BY <2>22, <3>1 DEF BreakLog, MendLog
  <2>23. CASE PushByHand
    <3>1. incidents' \in 0 .. MaxIncidents
      BY <2>23, DailyJobAssumption DEF PushByHand, Incident
    <3>2. FoldAnchor(AsOf(log)) \in Pushes
      <4>1. AsOf(log) \in Days
        <5>1. Anchors(log) \in SUBSET Days /\ Anchors(log) # {}
          BY DEF Anchors, Entries
        <5>2. PICK d \in Anchors(log) : \A e \in Anchors(log) : e <= d
          BY <5>1, LatestDay
        <5>3. AsOf(log) \in Anchors(log)
          BY <5>2 DEF AsOf
        <5> QED BY <5>1, <5>3
      <4> QED BY <4>1 DEF FoldAnchor, Pushes
    <3> QED BY <2>23, <3>1, <3>2 DEF PushByHand
  <2>24. CASE Tick
    <3>1. now' \in 3 .. 2 * LastDay + 1
      BY <2>24, ProjectionAssumption DEF Tick
    <3> QED BY <2>24, <3>1 DEF Tick
  <2>25. CASE UNCHANGED vars
    BY <2>25 DEF vars
  <2> QED
    BY <2>1, <2>2, <2>3, <2>4, <2>5, <2>6, <2>7, <2>8, <2>9, <2>10, <2>11, <2>12, <2>13,
       <2>14, <2>15, <2>16, <2>17, <2>18, <2>19, <2>20, <2>21, <2>22, <2>23, <2>24, <2>25, <2>0
       DEF Next, JobSteps, Operator, FetchSteps
<1> QED BY <1>1, <1>2, PTL DEF Spec
----------------------------------------------------------------------------
(* What a step may do to the clock, the log and the two channels.          *)

\* The fetch of the job is a step of its run, and a run that has not looked at the
\* clock, or is over, is not in the window.
InOrder ==
    /\ fetch["job"].phase # "idle" => job.step = "prices-fetch"
    /\ job.window => job.step \notin {"idle", "trap", "startup"}

\* The steps of a run and of its fetch keep their order.
THEOREM RunsInOrder == Spec => []InOrder
<1> USE DEF InOrder
<1>1. Init => InOrder
  BY DEF Init, NoRun, NoFetch, Fetchers
<1>2. TypeOK /\ InOrder /\ [Next]_vars => InOrder'
  <2> SUFFICES ASSUME TypeOK, InOrder, [Next]_vars PROVE InOrder'
    OBVIOUS
  <2>1. "job" \in Fetchers /\ "hand" \in Fetchers /\ DOMAIN fetch = Fetchers
    BY DEF Fetchers, TypeOK
  <2>2. ASSUME NEW code, NEW step, EndRun(code, step) PROVE InOrder'
    BY <2>1, <2>2 DEF EndRun, NoRun, NoFetch
  <2>3. ASSUME NEW step \in BeforeNotice \ {"startup"}, job.step \notin {"prices-fetch", "idle"},
               Goto(step), fetch' = fetch PROVE InOrder'
    BY <2>3 DEF Goto, TypeOK, BeforeNotice
  <2>4. CASE UNCHANGED job /\ (fetch["job"]'.phase = "idle" \/ fetch["job"].phase # "idle")
    BY <2>4
  <2>5. CASE WriteOperatorFailureNotice \/ Fire \/ Killed
    <3>1. CASE WriteOperatorFailureNotice
      BY <3>1 DEF WriteOperatorFailureNotice, NoRun
    <3>2. CASE Fire
      BY <3>2 DEF Fire, NoRun
    <3>3. CASE Killed
      BY <2>1, <3>3 DEF Killed, NoRun, NoFetch
    <3> QED BY <2>5, <3>1, <3>2, <3>3
  <2>6. CASE OpenWindow
    <3>1. job' = [job EXCEPT !.window = IsAtOrAfterMarkTime(now), !.step = "resolve-tools"]
          /\ job.step = "startup" /\ fetch' = fetch
      BY <2>6 DEF OpenWindow
    <3>2. job'.step = "resolve-tools"
      BY <3>1 DEF TypeOK
    <3> QED BY <3>1, <3>2
  <2>7. CASE BeginFetch
    BY <2>7 DEF BeginFetch, Goto, TypeOK
  <2>8. CASE EndFetch
    <3>1. CASE ExitsClean("job")
      BY <2>1, <2>8, <3>1 DEF EndFetch, Goto, NoFetch, TypeOK
    <3>2. CASE ~ExitsClean("job")
      BY <2>2, <2>8, <3>2 DEF EndFetch
    <3> QED BY <3>1, <3>2
  <2>9. CASE Spine
    <3>1. CASE SpineAccepts
      <4>1. Goto("commit") /\ job.step = "spine" /\ fetch' = fetch
        BY <2>9, <3>1 DEF Spine
      <4> QED BY <2>3, <4>1 DEF BeforeNotice
    <3>2. CASE ~SpineAccepts
      BY <2>2, <2>9, <3>2 DEF Spine
    <3> QED BY <3>1, <3>2
  <2>10. CASE Commit
    BY <2>3, <2>10 DEF Commit, BeforeNotice
  <2>11. CASE PostCheck
    <3>1. CASE uncaptured
      BY <2>2, <2>11, <3>1 DEF PostCheck
    <3>2. CASE ~uncaptured
      BY <2>3, <2>11, <3>2 DEF PostCheck, BeforeNotice
    <3> QED BY <3>1, <3>2
  <2>12. CASE WriteGapReport
    <3> DEFINE stops == ~AssertLogFullyLoaded \/ BoundedEraFloor(now) > DueThrough(now)
    <3>1. CASE stops
      BY <2>2, <2>12, <3>1 DEF WriteGapReport
    <3>2. CASE ~stops
      BY <2>3, <2>12, <3>2 DEF WriteGapReport, BeforeNotice
    <3> QED BY <3>1, <3>2
  <2>13. CASE WriteOperatorNotice
    BY <2>13 DEF WriteOperatorNotice, TypeOK
  <2>14. CASE BackfillFold
    <3>1. CASE ~AssertLogFullyLoaded
      BY <2>2, <2>14, <3>1 DEF BackfillFold
    <3>2. CASE AssertLogFullyLoaded
      BY <2>14, <3>2 DEF BackfillFold, TypeOK
    <3> QED BY <3>1, <3>2
  <2>15. CASE Complete \/ Fail
    BY <2>2, <2>15 DEF Complete, Fail
  <2>16. CASE BeginRecovery
    <3>1. UNCHANGED job /\ fetch["job"]' = fetch["job"]
      BY <2>1, <2>16 DEF BeginRecovery, Ask
    <3> QED BY <3>1
  <2>17. CASE \E f \in Fetchers : FetchSteps(f) \/ Upsert(f)
    <3>1. PICK f \in Fetchers : FetchSteps(f) \/ Upsert(f)
      BY <2>17
    <3>2. UNCHANGED job
      BY <3>1 DEF FetchSteps, UpsertQuotes, EmitMarks, Upsert
    <3>3. f = "job" \/ fetch["job"]' = fetch["job"]
      BY <2>1, <3>1 DEF FetchSteps, UpsertQuotes, EmitMarks, Upsert
    <3>4. fetch["job"]' = fetch["job"] \/ fetch[f].phase # "idle"
      BY <2>1, <3>1 DEF FetchSteps, UpsertQuotes, EmitMarks, Upsert
    <3> QED BY <2>4, <3>2, <3>3, <3>4
  <2>18. CASE \/ RunSpine \/ Author \/ ReviewInbox \/ BreakLog \/ MendLog \/ PushByHand \/ Tick
              \/ UNCHANGED vars
    BY <2>18 DEF RunSpine, Author, ReviewInbox, BreakLog, MendLog, PushByHand, Tick, vars
  <2> QED
    BY <2>5, <2>6, <2>7, <2>8, <2>9, <2>10, <2>11, <2>12, <2>13, <2>14, <2>15, <2>16, <2>17,
       <2>18, <2>1 DEF Next, JobSteps, Operator
<1> QED BY <1>1, <1>2, TypeCorrect, PTL DEF Spec

\* Time and the log only grow; the notice and the breadcrumb have their writers;
\* and a run goes from step to step until it ends.
LEMMA WhatAStepDoes ==
    ASSUME TypeOK, InOrder, [Next]_vars
    PROVE  /\ log \subseteq log'
           /\ now' = now \/ Tick
           /\ crossed' = crossed \/ Tick
           /\ notice' = notice \/ Fire \/ WriteOperatorFailureNotice \/ WriteOperatorNotice
           /\ \/ heartbeat' = heartbeat
              \/ Complete
              \/ \E step \in Steps : EndRun(1, step) /\ notice' = notice
           /\ \/ job' = job
              \/ Fire
              \/ job'.step \in {"idle", "trap"}
              \/ /\ job'.step = "backfill"
                 /\ WriteOperatorNotice \/ job.step = "backfill"
              \/ /\ job.step \in BeforeNotice /\ job'.step \in BeforeNotice
                 /\ job'.carried = job.carried
<1> USE DEF files, channels, ghosts
<1>1. ASSUME NEW code \in {0, 1}, NEW step \in Steps, EndRun(code, step)
      PROVE  job'.step \in {"idle", "trap"}
  BY <1>1 DEF EndRun, NoRun
<1>2. ASSUME NEW step, Goto(step), step \in BeforeNotice, job.step \in BeforeNotice
      PROVE  job'.step \in BeforeNotice /\ job'.carried = job.carried
  BY <1>2 DEF Goto, TypeOK
<1>3. CASE WriteOperatorFailureNotice
  BY <1>3 DEF WriteOperatorFailureNotice, NoRun
<1>4. CASE Fire
  BY <1>4 DEF Fire
<1>5. CASE OpenWindow
  <2>1. job' = [job EXCEPT !.window = IsAtOrAfterMarkTime(now), !.step = "resolve-tools"]
        /\ job.step = "startup"
    BY <1>5 DEF OpenWindow
  <2>2. job'.step = "resolve-tools" /\ job'.carried = job.carried
    BY <2>1 DEF TypeOK
  <2> QED BY <1>5, <2>1, <2>2 DEF OpenWindow, BeforeNotice
<1>6. CASE BeginFetch
  BY <1>2, <1>6 DEF BeginFetch, Ask, BeforeNotice
<1>7. CASE EndFetch
  <2>1. CASE ExitsClean("job")
    BY <1>2, <1>7, <2>1 DEF EndFetch, BeforeNotice, InOrder
  <2>2. CASE ~ExitsClean("job")
    BY <1>1, <1>7, <2>2 DEF EndFetch, Steps
  <2> QED BY <2>1, <2>2
<1>8. CASE Spine
  <2>1. CASE SpineAccepts
    BY <1>2, <1>8, <2>1 DEF Spine, SpineTakes, BeforeNotice
  <2>2. CASE ~SpineAccepts
    BY <1>1, <1>8, <2>2 DEF Spine, Steps
  <2> QED BY <2>1, <2>2
<1>9. CASE Commit
  BY <1>2, <1>9 DEF Commit, BeforeNotice
<1>10. CASE PostCheck
  <2>1. CASE uncaptured
    BY <1>1, <1>10, <2>1 DEF PostCheck, Steps
  <2>2. CASE ~uncaptured
    BY <1>2, <1>10, <2>2 DEF PostCheck, BeforeNotice
  <2> QED BY <2>1, <2>2
<1>11. CASE WriteGapReport
  <2> DEFINE stops == ~AssertLogFullyLoaded \/ BoundedEraFloor(now) > DueThrough(now)
  <2>1. CASE stops
    BY <1>1, <1>11, <2>1 DEF WriteGapReport, Steps
  <2>2. CASE ~stops
    BY <1>2, <1>11, <2>2 DEF WriteGapReport, BeforeNotice
  <2> QED BY <2>1, <2>2
<1>12. CASE WriteOperatorNotice
  BY <1>12 DEF WriteOperatorNotice, TypeOK
<1>13. CASE BackfillFold
  <2>1. CASE ~AssertLogFullyLoaded
    BY <1>1, <1>13, <2>1 DEF BackfillFold, Steps
  <2>2. CASE AssertLogFullyLoaded
    BY <1>13, <2>2 DEF BackfillFold, TypeOK
  <2> QED BY <2>1, <2>2
<1>14. CASE Complete
  BY <1>1, <1>14 DEF Complete, Steps
<1>15. CASE Fail
  <2>1. job.step \in Steps
    BY <1>15 DEF Fail, Running, TypeOK
  <2> QED BY <1>1, <1>15, <2>1 DEF Fail
<1>16. CASE Killed
  BY <1>16 DEF Killed, NoRun
<1>17. CASE RunSpine
  BY <1>17 DEF RunSpine, SpineTakes
<1>18. CASE Tick
  BY <1>18 DEF Tick
<1>19. CASE BeginRecovery \/ \E f \in Fetchers : FetchSteps(f) \/ Upsert(f)
  BY <1>19 DEF BeginRecovery, Ask, FetchSteps, UpsertQuotes, EmitMarks, Upsert
<1>20. CASE Author \/ ReviewInbox \/ BreakLog \/ MendLog \/ PushByHand
  BY <1>20 DEF Author, ReviewInbox, BreakLog, MendLog, PushByHand
<1>21. CASE UNCHANGED vars
  BY <1>21 DEF vars
<1> QED
  BY <1>3, <1>4, <1>5, <1>6, <1>7, <1>8, <1>9, <1>10, <1>11, <1>12, <1>13, <1>14, <1>15,
     <1>16, <1>17, <1>18, <1>19, <1>20, <1>21 DEF Next, JobSteps, Operator, Fetchers

\* Until a run writes the notice, the notice tells of the failure on file.
THEOREM FailuresAreTold == Spec => []FailureIsTold
<1>1. Init => FailureIsTold
  BY DEF Init, FailureIsTold, NoRun, BeforeNotice
<1>2. TypeOK /\ InOrder /\ FailureIsTold /\ [Next]_vars => FailureIsTold'
  <2> SUFFICES ASSUME TypeOK, InOrder, FailureIsTold, [Next]_vars,
                      job'.step \in BeforeNotice, PreviousRunFailed'
               PROVE  notice'.kind = "failed" /\ notice'.step = heartbeat'.step
    BY DEF FailureIsTold
  <2>1. CASE Fire
    BY <2>1 DEF Fire, PreviousRunFailed, FailedNotice
  <2>2. job'.step \notin {"idle", "trap", "backfill"}
    BY DEF BeforeNotice
  <2>3. heartbeat' = heartbeat
    <3>1. ASSUME NEW code \in {0, 1}, NEW step, EndRun(code, step) PROVE FALSE
      BY <2>2, <3>1 DEF EndRun, NoRun
    <3> QED BY <3>1, WhatAStepDoes DEF Complete
  <2>4. CASE notice' = notice /\ (job' = job \/ job.step \in BeforeNotice)
    <3>1. job.step \in BeforeNotice /\ PreviousRunFailed
      BY <2>3, <2>4 DEF PreviousRunFailed
    <3> QED BY <2>3, <2>4, <3>1 DEF FailureIsTold
  <2>5. ~WriteOperatorNotice /\ ~WriteOperatorFailureNotice
    <3>1. ASSUME WriteOperatorNotice PROVE FALSE
      BY <2>2, <3>1 DEF WriteOperatorNotice, TypeOK
    <3>2. ASSUME WriteOperatorFailureNotice PROVE FALSE
      BY <2>2, <3>2 DEF WriteOperatorFailureNotice, NoRun
    <3> QED BY <3>1, <3>2
  <2> QED BY <2>1, <2>2, <2>4, <2>5, WhatAStepDoes
<1> QED BY <1>1, <1>2, TypeCorrect, RunsInOrder, PTL DEF Spec

\* A day that has marks keeps them.
LEMMA MarksStay ==
    ASSUME NEW day, log \subseteq log', HasMarks(log, day)
    PROVE  HasMarks(log', day)
BY DEF HasMarks, MarksOn

\* A notice made from the data accounts for every day of its window.
THEOREM NoticesAccount == Spec => []EveryDayAccounted
<1> DEFINE LostOf(entries, until) ==
               {d \in EraStart .. until : d > until - MaxWindowDays /\ ~HasMarks(entries, d)}
<1>1. Init => EveryDayAccounted
  BY DEF Init, EveryDayAccounted, NoNotice
<1>2. TypeOK /\ InOrder /\ EveryDayAccounted /\ [Next]_vars => EveryDayAccounted'
  <2> SUFFICES ASSUME TypeOK, InOrder, EveryDayAccounted, [Next]_vars, notice'.kind = "data"
               PROVE  /\ Cardinality(LostOf(log', notice'.until) \ notice'.named)
                            <= notice'.withheld
                      /\ notice'.until < Today'
    BY DEF EveryDayAccounted
  <2>1. log \subseteq log' /\ Today' >= Today /\ Today \in Int /\ Today' \in Int
    BY WhatAStepDoes DEF Today, TradingDayAsOf, Tick, TypeOK
  <2>2. CASE notice' = notice
    <3>1. /\ notice.until \in Days /\ notice.withheld \in Days /\ EraStart \in Nat
          /\ LastDay \in Nat /\ MaxWindowDays \in Nat
      BY <2>2, ProjectionAssumption, GapReportAssumption DEF TypeOK
    <3>2. LostOf(log', notice.until) \subseteq LostOf(log, notice.until)
      BY <2>1, MarksStay
    <3>3. LostOf(log, notice.until) \ notice.named \subseteq EraStart .. notice.until
      OBVIOUS
    <3> DEFINE before == LostOf(log, notice.until) \ notice.named
               after  == LostOf(log', notice.until) \ notice.named
    <3>4. after \subseteq before /\ before \subseteq EraStart .. notice.until
      BY <3>2, <3>3
    <3>5. Cardinality(before) <= notice.withheld /\ notice.until < Today
      BY <2>2 DEF EveryDayAccounted
    <3> HIDE DEF before, after
    <3>6. IsFiniteSet(before)
      <4>1. notice.until \in Int /\ EraStart \in Int
        BY <3>1 DEF Days
      <4> QED BY <3>4, <4>1, FS_Interval, FS_Subset
    <3>7. Cardinality(after) <= Cardinality(before)
      BY <3>4, <3>6, FS_Subset
    <3>8. Cardinality(after) \in Nat /\ Cardinality(before) \in Nat
      <4>1. IsFiniteSet(after)
        BY <3>4, <3>6, FS_Subset
      <4> QED BY <3>6, <4>1, FS_CardinalityType
    <3>9. Cardinality(after) <= notice.withheld /\ notice.until < Today'
      BY <2>1, <3>1, <3>5, <3>7, <3>8 DEF Days
    <3> QED BY <2>2, <3>9 DEF after
  <2>3. CASE WriteOperatorNotice
    <3>1. notice' = FormatOperatorNotice(log, now) /\ log' = log /\ now' = now
      BY <2>3 DEF WriteOperatorNotice, LoadOperatorNoticeLines, UncheckedNotice, files
    <3> DEFINE lost == {d \in BoundedEraFloor(now) .. DueThrough(now) : ~HasMarks(log, d)}
    <3>2. /\ notice'.until = DueThrough(now)
          /\ notice'.withheld = Cardinality(lost \ notice'.named) /\ notice'.withheld \in Days
      BY <3>1, NoticeOfDays DEF TypeOK
    <3>3. lost = LostOf(log, DueThrough(now))
      <4>1. /\ BoundedEraFloor(now) \in Nat /\ DueThrough(now) \in Days
            /\ EraStart \in Nat /\ LastDay \in Nat
            /\ \A d \in Int : d >= BoundedEraFloor(now)
                     <=> d >= EraStart /\ d > DueThrough(now) - MaxWindowDays
        BY ClockReadsADay, ProjectionAssumption, GapReportAssumption DEF TypeOK
      <4> QED BY <4>1 DEF Days
    <3>4. DueThrough(now) < Today
      BY ClockReadsADay DEF Today, TypeOK, Days
    <3>5. Today' = Today /\ notice'.until < Today'
      BY <3>1, <3>2, <3>4 DEF Today
    <3> HIDE DEF lost, LostOf
    <3>6. Cardinality(LostOf(log', notice'.until) \ notice'.named) = notice'.withheld
      BY <3>1, <3>2, <3>3
    <3>7. notice'.withheld <= notice'.withheld
      BY <3>2, ProjectionAssumption DEF Days
    <3> QED BY <3>5, <3>6, <3>7
  <2>4. CASE Fire \/ WriteOperatorFailureNotice
    BY <2>2, <2>4 DEF Fire, WriteOperatorFailureNotice, FailedNotice
  <2> QED BY <2>2, <2>3, <2>4, WhatAStepDoes
<1> QED BY <1>1, <1>2, TypeCorrect, RunsInOrder, PTL DEF Spec
----------------------------------------------------------------------------
(* The store of quotes.                                                    *)

\* One fetch at a time, which writes back what it read, with its own quotes added,
\* before it makes marks of them.
QuotesKept ==
    ~overlapped =>
        /\ \A m \in log \cup Ids(inbox) : m.instrument \in Instruments => m.day \in store[m.instrument]
        /\ \A f, g \in Fetchers : fetch[f].phase # "idle" /\ fetch[g].phase # "idle" => f = g
        /\ \A f \in Fetchers : fetch[f].phase = "store" =>
              \A i \in Succeeded(fetch[f].bars) : fetch[f].images[i] = store[i]
        /\ \A f \in Fetchers : fetch[f].phase = "emit" =>
              \A i \in Succeeded(fetch[f].bars) : fetch[f].asOf \in store[i]

\* A fetch that stays as it was, ends, or waits to be judged.
Rests(f) == fetch'[f] = fetch[f] \/ fetch'[f].phase = "idle"

\* What adds no mark and no quote disturbs nothing.
LEMMA QuotesUndisturbed ==
    ASSUME QuotesKept, store' = store, overlapped' = overlapped, \A f \in Fetchers : Rests(f),
           \A m \in log' \cup Ids(inbox') :
               m.instrument \in Instruments => m \in log \cup Ids(inbox)
    PROVE  QuotesKept'
BY DEF QuotesKept, Rests

\* A fetch is begun on the store as it is, and counts as an overlap if it is one.
LEMMA QuotesAsked ==
    ASSUME TypeOK, QuotesKept, NEW f \in Fetchers, NEW asOf \in Days, NEW emit \in BOOLEAN,
           NEW recovering \in BOOLEAN, Ask(f, asOf, emit, recovering)
    PROVE  QuotesKept'
<1>1. PICK fault \in Faults :
         LET bars == Bars(now, asOf, recovering, fault)
         IN  /\ fetch[f]'.phase = "store" /\ fetch[f]'.asOf = asOf
             /\ fetch[f]'.emit = emit /\ fetch[f]'.bars = bars
             /\ fetch[f]'.images = [i \in Succeeded(bars) |-> store[i]]
  BY AskType
<1>2. \A g \in Fetchers \ {f} : fetch'[g] = fetch[g]
  BY AskType
<1>3. \A i \in Succeeded(fetch'[f].bars) : fetch'[f].images[i] = store[i]
  BY <1>1
<1>4. /\ log' = log /\ inbox' = inbox /\ store' = store
      /\ ~overlapped' => ~overlapped /\ \A g \in Fetchers \ {f} : fetch[g].phase = "idle"
  BY DEF Ask, files
<1>5. fetch'[f].phase = "store"
  BY <1>1
<1> QED BY <1>2, <1>3, <1>4, <1>5 DEF QuotesKept

\* Every mark of a feed has its quote, if no two fetches overlapped.
THEOREM QuotesSurvive == Spec => []MarkHasQuote
<1>1. Init => QuotesKept
  <2> SUFFICES ASSUME Init PROVE QuotesKept
    OBVIOUS
  <2>1. \A m \in log \cup Ids(inbox) : m.instrument = "event"
    BY DEF Init, Ids, Event
  <2>2. \A f \in Fetchers : fetch[f].phase = "idle"
    BY DEF Init, NoFetch
  <2> QED BY <2>1, <2>2, DailyJobAssumption DEF QuotesKept
<1>2. TypeOK /\ InOrder /\ QuotesKept /\ [Next]_vars => QuotesKept'
  <2> SUFFICES ASSUME TypeOK, InOrder, QuotesKept, [Next]_vars PROVE QuotesKept'
    OBVIOUS
  <2> USE DEF files, channels, ghosts
  <2>0. "job" \in Fetchers /\ "hand" \in Fetchers /\ DOMAIN fetch = Fetchers
    BY DEF Fetchers, TypeOK
  <2>1. ASSUME fetch' = [fetch EXCEPT !["job"] = NoFetch] \/ fetch' = fetch
        PROVE  \A f \in Fetchers : Rests(f)
    BY <2>0, <2>1 DEF Rests, NoFetch
  <2>2. ASSUME UNCHANGED <<log, inbox, store, overlapped>>,
               fetch' = [fetch EXCEPT !["job"] = NoFetch] \/ fetch' = fetch
        PROVE  QuotesKept'
    BY <2>1, <2>2, QuotesUndisturbed
  <2>3. ASSUME NEW captured, SpineTakes(captured), UNCHANGED <<store, overlapped, fetch>>
        PROVE  QuotesKept'
    <3>1. log' = log \cup Ids(inbox) /\ Ids(inbox') = {}
      BY <2>3 DEF SpineTakes, Ids
    <3> QED BY <2>1, <2>3, <3>1, QuotesUndisturbed
  <2>4. CASE BeginFetch
    <3>1. Today \in Days /\ IsAtOrAfterMarkTime(now) \in BOOLEAN /\ FALSE \in BOOLEAN
      BY ClockReadsADay DEF Today, IsAtOrAfterMarkTime, TypeOK
    <3>2. Ask("job", Today, IsAtOrAfterMarkTime(now), FALSE)
      BY <2>4 DEF BeginFetch
    <3> QED BY <2>0, <3>1, <3>2, QuotesAsked, Zenon
  <2>5. CASE BeginRecovery
    <3>1. PICK day \in notice.named \cap RecoveredDays : Ask("hand", day, TRUE, TRUE)
      BY <2>5 DEF BeginRecovery
    <3>2. day \in Days
      BY <3>1, DailyJobAssumption
    <3> QED BY <2>0, <3>1, <3>2, QuotesAsked
  <2>6. ASSUME NEW f \in Fetchers, UpsertQuotes(f) PROVE QuotesKept'
    <3> SUFFICES ASSUME ~overlapped PROVE QuotesKept'
      BY <2>6 DEF UpsertQuotes, QuotesKept
    <3>1. PICK asked \in SUBSET Instruments, answered \in SUBSET Instruments :
             fetch[f] \in Fetches(asked, answered)
      BY DEF TypeOK, FetchOK
    <3>2. /\ fetch[f].phase = "store"
          /\ DOMAIN fetch[f].images = Succeeded(fetch[f].bars)
          /\ Succeeded(fetch[f].bars) \subseteq Instruments
      BY <2>6, <3>1 DEF UpsertQuotes, TypeOK, FetchOK, Fetches, Succeeded
    <3>3. \A i \in Succeeded(fetch[f].bars) : fetch[f].images[i] = store[i]
      BY <3>2 DEF QuotesKept
    <3>4. /\ \A i \in Instruments : store[i] \subseteq store'[i]
          /\ \A i \in Succeeded(fetch[f].bars) : fetch[f].asOf \in store'[i]
      BY <2>6, <3>2, <3>3 DEF UpsertQuotes, MergedQuotes
    <3>5. /\ fetch'[f].phase = "emit" /\ fetch'[f].asOf = fetch[f].asOf
          /\ fetch'[f].bars = fetch[f].bars
      BY <2>0, <2>6, <3>1 DEF UpsertQuotes, Fetches
    <3>6. \A g \in Fetchers \ {f} : fetch'[g] = fetch[g] /\ fetch[g].phase = "idle"
      BY <2>0, <2>6, <3>2 DEF UpsertQuotes, QuotesKept
    <3>7. log' = log /\ inbox' = inbox /\ overlapped' = overlapped
      BY <2>6 DEF UpsertQuotes
    <3>8. \A m \in log' \cup Ids(inbox') :
             m.instrument \in Instruments => m.day \in store'[m.instrument]
      BY <3>4, <3>7 DEF QuotesKept
    <3> QED BY <3>4, <3>5, <3>6, <3>8 DEF QuotesKept
  <2>7. ASSUME NEW f \in Fetchers, EmitMarks(f) PROVE QuotesKept'
    <3> SUFFICES ASSUME ~overlapped PROVE QuotesKept'
      BY <2>7 DEF EmitMarks, QuotesKept
    <3> DEFINE run   == fetch[f]
               marks == IF run.emit THEN BuildMarks(run.bars, run.asOf, run.fix) ELSE {}
               fresh == Unqueued(inbox, marks)
    <3>1. PICK asked \in SUBSET Instruments, answered \in SUBSET Instruments :
             run \in Fetches(asked, answered)
      BY DEF TypeOK, FetchOK
    <3>2. run.phase = "emit" /\ run.asOf \in Days /\ run.bars \in [asked -> Answers]
      BY <2>7, <3>1 DEF EmitMarks, TypeOK, FetchOK, Fetches
    <3>3. \A m \in fresh : m.instrument \in Succeeded(run.bars) /\ m.day = run.asOf
      BY <3>2, MarksOfAnswers DEF Unqueued
    <3>4. /\ inbox' = inbox \cup fresh /\ log' = log /\ store' = store
          /\ overlapped' = overlapped
          /\ fetch' = [fetch EXCEPT ![f] = IF f = "hand" THEN NoFetch
                           ELSE [@ EXCEPT !.phase = "scan", !.marks = marks, !.fresh = fresh]]
      BY <2>7 DEF EmitMarks
    <3> HIDE DEF fresh, marks
    <3>5. \A m \in fresh : m.day \in store[m.instrument]
      BY <3>2, <3>3 DEF QuotesKept
    <3>6. \A m \in log' \cup Ids(inbox') :
             m.instrument \in Instruments => m.day \in store'[m.instrument]
      BY <3>4, <3>5 DEF QuotesKept, Ids, PriceMarkId
    <3>7. fetch'[f].phase \in {"idle", "scan"}
      BY <2>0, <3>1, <3>4 DEF NoFetch, Fetches
    <3>8. \A g \in Fetchers \ {f} : fetch'[g] = fetch[g] /\ fetch[g].phase = "idle"
      BY <2>0, <3>2, <3>4 DEF QuotesKept
    <3> QED BY <3>6, <3>7, <3>8 DEF QuotesKept
  <2>8. CASE EndFetch
    BY <2>2, <2>8 DEF EndFetch, EndRun
  <2>9. CASE Spine
    <3>1. CASE SpineAccepts
      <4>1. \E captured : SpineTakes(captured)
        BY <2>9, <3>1 DEF Spine
      <4>2. UNCHANGED <<store, overlapped, fetch>>
        BY <2>9, <3>1 DEF Spine
      <4> QED BY <2>3, <4>1, <4>2
    <3>2. CASE ~SpineAccepts
      BY <2>2, <2>9, <3>2 DEF Spine, EndRun
    <3> QED BY <3>1, <3>2
  <2>10. CASE RunSpine
    <3>1. \E captured : SpineTakes(captured)
      BY <2>10 DEF RunSpine
    <3>2. UNCHANGED <<store, overlapped, fetch>>
      BY <2>10 DEF RunSpine
    <3> QED BY <2>3, <3>1, <3>2
  <2>11. CASE Author
    <3>1. \A m \in Ids(inbox') : m \in Ids(inbox) \/ m.instrument = "event"
      BY <2>11 DEF Author, Ids, PriceMarkId
    <3>2. UNCHANGED <<log, store, overlapped, fetch>>
      BY <2>11 DEF Author
    <3> QED BY <2>1, <3>1, <3>2, DailyJobAssumption, QuotesUndisturbed
  <2>12. CASE ReviewInbox
    <3>1. \A m \in inbox : PriceMarkId([m EXCEPT !.price = "sane"]) = PriceMarkId(m)
      BY DEF TypeOK, PriceMarkId, Marks
    <3>2. Ids(inbox') \subseteq Ids(inbox)
      BY <2>12, <3>1 DEF ReviewInbox, Ids
    <3>3. UNCHANGED <<log, store, overlapped, fetch>>
      BY <2>12 DEF ReviewInbox
    <3> QED BY <2>1, <3>2, <3>3, QuotesUndisturbed
  <2>13. CASE Commit \/ PostCheck \/ WriteGapReport \/ WriteOperatorNotice \/ BackfillFold
    BY <2>2, <2>13
       DEF Commit, PostCheck, WriteGapReport, WriteOperatorNotice, BackfillFold, EndRun
  <2>14. CASE WriteOperatorFailureNotice \/ Fire \/ OpenWindow \/ Complete \/ Fail \/ Killed
    BY <2>2, <2>14
       DEF WriteOperatorFailureNotice, Fire, OpenWindow, Complete, Fail, Killed, EndRun
  <2>15. CASE BreakLog \/ MendLog \/ PushByHand \/ Tick \/ \E f \in Fetchers : Upsert(f)
    BY <2>2, <2>15 DEF BreakLog, MendLog, PushByHand, Tick, Upsert
  <2>16. CASE UNCHANGED vars
    BY <2>2, <2>16 DEF vars
  <2> QED
    BY <2>0, <2>4, <2>5, <2>6, <2>7, <2>8, <2>9, <2>10, <2>11, <2>12, <2>13, <2>14, <2>15,
       <2>16 DEF Next, JobSteps, Operator, FetchSteps
<1>3. QuotesKept => MarkHasQuote
  BY DEF QuotesKept, MarkHasQuote
<1> QED BY <1>1, <1>2, <1>3, TypeCorrect, RunsInOrder, PTL DEF Spec
----------------------------------------------------------------------------
(* The stamp of the breadcrumb, and what its silence means.                *)

\* Whether the queue or the log holds a mark of the day.
Gathered(day) == \E i \in Instruments : [instrument |-> i, day |-> day] \in log \cup Ids(inbox)

\* A stamp, on file or carried, is of a day that has its marks.
StampHeld(stamp) == stamp # NoDay => HasMarks(log, stamp) /\ stamp <= Today

\* What the fetch of a run in the window brings home.
BroughtHome(run) ==
    /\ run.emit
    /\ \A i \in InstrumentsForSource("binance") :
          i \in DOMAIN run.bars /\ (run.bars[i] = NoBar \/ run.bars[i].date = Today)
    /\ run.phase = "scan" =>
          \A m \in BuildMarks(run.bars, run.asOf, run.fix) : PriceMarkId(m) \in log \cup Ids(inbox)

\* As long as no run went over midnight, the stamps are of marked days, and a run in
\* the window fetches the marks of today, gathers them and lands them, in that order.
Landing ==
    ~crossed =>
        /\ StampHeld(heartbeat.marked) /\ StampHeld(job.carried)
        /\ job.window => IsAtOrAfterMarkTime(now)
        /\ fetch["job"].phase # "idle" => fetch["job"].asOf = Today
        /\ job.window /\ fetch["job"].phase # "idle" => BroughtHome(fetch["job"])
        /\ job.window /\ job.step = "spine" => Gathered(Today)
        /\ job.window /\ job.step \in MARKS_LANDED_STEPS => HasMarks(log, Today)

\* A provider that trades every day has a bar of today for a run in the window, or none.
LEMMA DailyBar ==
    ASSUME TypeOK, IsAtOrAfterMarkTime(now), NEW fault \in Faults,
           NEW i \in InstrumentsForSource("binance")
    PROVE  LET bars == Bars(now, Today, FALSE, fault)
           IN  i \in DOMAIN bars /\ (bars[i] = NoBar \/ bars[i].date = Today)
<1>1. i \in Instruments /\ Registry[i].source = "binance"
  BY DEF InstrumentsForSource
<1>2. ~(fault.instrument = i /\ fault.kind = "lagging")
  BY <1>1 DEF Faults, InstrumentsForSource
<1>3. BinanceBar(now, Today, FALSE) = Today
  BY DEF BinanceBar, Today
<1>4. Today # NoDay
  BY ClockReadsADay, ProjectionAssumption DEF Today, NoDay, Days, TypeOK
<1>5. \/ Observe(i, now, Today, FALSE, fault) = NoBar
      \/ Observe(i, now, Today, FALSE, fault).date = Today
  BY <1>1, <1>2, <1>3, <1>4 DEF Observe, Bar
<1> QED BY <1>1, <1>5 DEF Bars, Owed

\* A fetch that ends clean has made a mark of every bar it asked for that is fresh.
LEMMA CleanFetchMarks ==
    ASSUME NEW S \in SUBSET Instruments, NEW bars \in [S -> Answers], NEW asOf, NEW fix,
           S \subseteq Succeeded(bars), Fresh(bars, asOf) \subseteq Marked(bars, asOf, fix),
           NEW i \in S, bars[i] = NoBar \/ bars[i].date = asOf
    PROVE  \E m \in BuildMarks(bars, asOf, fix) : m.instrument = i /\ m.day = asOf
<1>1. i \in Succeeded(bars)
  OBVIOUS
<1>2. i \in Fresh(bars, asOf)
  BY <1>1 DEF Fresh, IsFreshBar, Succeeded
<1>3. i \in Marked(bars, asOf, fix)
  BY <1>2
<1>4. [instrument |-> i, day |-> asOf, price |-> bars[i].price] \in BuildMarks(bars, asOf, fix)
  BY <1>3 DEF BuildMarks
<1> QED BY <1>4

\* What leaves the run, its fetch and the breadcrumb alone, and takes nothing out of
\* the queue that it does not log, disturbs nothing.
LEMMA LandingUndisturbed ==
    ASSUME Landing, UNCHANGED <<now, crossed, heartbeat, job>>, fetch'["job"] = fetch["job"],
           log \subseteq log', log \cup Ids(inbox) \subseteq log' \cup Ids(inbox')
    PROVE  Landing'
<1> SUFFICES ASSUME ~crossed PROVE Landing'
  BY DEF Landing
<1>1. Today' = Today
  BY DEF Today
<1>2. \A stamp : StampHeld(stamp) => StampHeld(stamp)'
  BY <1>1, MarksStay DEF StampHeld
<1>3. BroughtHome(fetch["job"]) => BroughtHome(fetch["job"])'
  BY <1>1 DEF BroughtHome
<1>4. Gathered(Today) => Gathered(Today)'
  BY <1>1 DEF Gathered
<1>5. HasMarks(log, Today) => HasMarks(log, Today)'
  BY <1>1, MarksStay
<1>6. /\ job' = job /\ heartbeat' = heartbeat
      /\ IsAtOrAfterMarkTime(now)' <=> IsAtOrAfterMarkTime(now)
      /\ fetch["job"]' = fetch["job"]
  BY DEF IsAtOrAfterMarkTime
<1> QED BY <1>1, <1>2, <1>3, <1>4, <1>5, <1>6 DEF Landing

\* Between two runs only the stamp on file counts.
LEMMA LandingAtRest ==
    ASSUME Landing, UNCHANGED <<now, crossed, log>>, job'.window = FALSE,
           fetch["job"]'.phase = "idle",
           ~crossed => StampHeld(job'.carried) /\ StampHeld(heartbeat'.marked)
    PROVE  Landing'
<1>1. \A stamp : StampHeld(stamp) => StampHeld(stamp)'
  BY DEF StampHeld, Today
<1> QED BY <1>1 DEF Landing

\* A run that ends stamps its day only if its marks are in the log.
LEMMA LandingEnds ==
    ASSUME TypeOK, Landing, UNCHANGED <<now, crossed, log>>, NEW code \in {0, 1},
           NEW step \in Steps, EndRun(code, step),
           step \in MARKS_LANDED_STEPS => job.step \in MARKS_LANDED_STEPS
    PROVE  Landing'
<1>1. job'.window = FALSE /\ job'.carried = NoDay
  BY DEF EndRun, NoRun
<1>2. fetch["job"]'.phase = "idle"
  BY DEF EndRun, NoFetch, Fetchers, TypeOK
<1>3. ~crossed => StampHeld(heartbeat'.marked)
  <2>1. heartbeat'.marked = Stamped(job, step)
    BY DEF EndRun
  <2>2. Today \in Int
    BY ClockReadsADay, ProjectionAssumption DEF Today, Days, TypeOK
  <2> QED BY <2>1, <2>2 DEF Stamped, Landing, StampHeld
<1>4. StampHeld(NoDay)
  BY DEF StampHeld
<1> QED BY <1>1, <1>2, <1>3, <1>4, LandingAtRest

\* A run that goes on to a step that owes nothing new keeps what it has.
LEMMA LandingGoesOn ==
    ASSUME TypeOK, Landing, UNCHANGED <<now, crossed, log, heartbeat>>,
           fetch["job"]'.phase = "idle",
           job'.window = job.window, job'.carried = job.carried, job'.step # "spine",
           job'.step \in MARKS_LANDED_STEPS => job.step \in MARKS_LANDED_STEPS
    PROVE  Landing'
<1>1. \A stamp : StampHeld(stamp) => StampHeld(stamp)'
  BY DEF StampHeld, Today
<1>2. HasMarks(log, Today) => HasMarks(log, Today)'
  BY DEF Today
<1> QED BY <1>1, <1>2 DEF Landing

\* The stamps stay earned.
THEOREM StampsAreEarned == Spec => []Landing
<1>1. Init => Landing
  BY DEF Init, Landing, NoHeartbeat, NoRun, NoFetch, StampHeld, Fetchers
<1>2. TypeOK /\ InOrder /\ Landing /\ [Next]_vars => Landing'
  <2> SUFFICES ASSUME TypeOK, InOrder, Landing, [Next]_vars PROVE Landing'
    OBVIOUS
  <2> USE DEF files, channels, ghosts
  <2>0. "job" \in Fetchers /\ "hand" \in Fetchers /\ DOMAIN fetch = Fetchers
    BY DEF Fetchers, TypeOK
  <2>1. job.step # "prices-fetch" => fetch["job"].phase = "idle"
    BY DEF InOrder
  <2>2. CASE WriteOperatorFailureNotice \/ Killed
    <3>1. job'.window = FALSE /\ job'.carried = NoDay
      BY <2>2 DEF WriteOperatorFailureNotice, Killed, NoRun
    <3>2. fetch["job"]'.phase = "idle"
      BY <2>0, <2>1, <2>2 DEF WriteOperatorFailureNotice, Killed, NoFetch
    <3>3. UNCHANGED <<now, crossed, log, heartbeat>>
      BY <2>2 DEF WriteOperatorFailureNotice, Killed
    <3>4. StampHeld(NoDay)
      BY DEF StampHeld
    <3> QED BY <3>1, <3>2, <3>3, <3>4, LandingAtRest DEF Landing
  <2>3. CASE Fire
    <3>1. job'.window = FALSE /\ job'.carried = heartbeat.marked
      BY <2>3 DEF Fire, NoRun
    <3>2. fetch["job"]'.phase = "idle" /\ UNCHANGED <<now, crossed, log, heartbeat>>
      BY <2>1, <2>3 DEF Fire
    <3> QED BY <3>1, <3>2, LandingAtRest DEF Landing
  <2>4. CASE OpenWindow
    <3>1. /\ job' = [job EXCEPT !.window = IsAtOrAfterMarkTime(now), !.step = "resolve-tools"]
          /\ fetch["job"]'.phase = "idle" /\ UNCHANGED <<now, crossed, log, heartbeat>>
      BY <2>1, <2>4 DEF OpenWindow
    <3>2. /\ job'.window => IsAtOrAfterMarkTime(now)
          /\ job'.carried = job.carried /\ job'.step = "resolve-tools"
      BY <3>1 DEF TypeOK, IsAtOrAfterMarkTime
    <3>3. \A stamp : StampHeld(stamp) => StampHeld(stamp)'
      BY <3>1 DEF StampHeld, Today
    <3> QED BY <3>1, <3>2, <3>3 DEF Landing, MARKS_LANDED_STEPS
  <2>5. CASE BeginFetch
    <3>1. /\ Today \in Days /\ IsAtOrAfterMarkTime(now) \in BOOLEAN /\ FALSE \in BOOLEAN
          /\ Ask("job", Today, IsAtOrAfterMarkTime(now), FALSE)
      BY <2>5, ClockReadsADay DEF BeginFetch, Today, IsAtOrAfterMarkTime, TypeOK
    <3>2. PICK fault \in Faults :
             /\ fetch["job"]'.phase = "store" /\ fetch["job"]'.asOf = Today
             /\ fetch["job"]'.emit = IsAtOrAfterMarkTime(now)
             /\ fetch["job"]'.bars = Bars(now, Today, FALSE, fault)
      <4>1. PICK fault \in Faults :
               LET bars == Bars(now, Today, FALSE, fault)
               IN  fetch' = [fetch EXCEPT !["job"] =
                     [NoFetch EXCEPT !.phase = "store", !.asOf = Today,
                                     !.emit = IsAtOrAfterMarkTime(now), !.bars = bars,
                                     !.fix = BanxicoFix(now, Today, FALSE, fault),
                                     !.images = [i \in Succeeded(bars) |-> store[i]]]]
        BY <3>1 DEF Ask
      <4> QED BY <2>0, <4>1 DEF NoFetch
    <3>3. /\ job'.window = job.window /\ job'.carried = job.carried
          /\ job'.step = "prices-fetch"
      BY <2>5 DEF BeginFetch, Goto, TypeOK
    <3>4. UNCHANGED <<now, crossed, log, heartbeat, inbox>>
      BY <2>5 DEF BeginFetch, Ask
    <3>5. Today' = Today /\ \A stamp : StampHeld(stamp) => StampHeld(stamp)'
      BY <3>4 DEF StampHeld, Today
    <3>6. IsAtOrAfterMarkTime(now) => BroughtHome(fetch["job"])'
      <4> SUFFICES ASSUME IsAtOrAfterMarkTime(now) PROVE BroughtHome(fetch["job"])'
        OBVIOUS
      <4>1. \A i \in InstrumentsForSource("binance") :
               LET bars == Bars(now, Today, FALSE, fault)
               IN  i \in DOMAIN bars /\ (bars[i] = NoBar \/ bars[i].date = Today)
        BY <3>2, DailyBar
      <4> QED BY <3>2, <3>5, <4>1 DEF BroughtHome
    <3> QED BY <3>2, <3>3, <3>4, <3>5, <3>6 DEF Landing, MARKS_LANDED_STEPS
  <2>6. CASE UpsertQuotes("job")
    <3>1. PICK asked, answered : fetch["job"] \in Fetches(asked, answered)
      BY <2>0 DEF TypeOK, FetchOK
    <3>2. /\ fetch["job"]'.phase = "emit" /\ fetch["job"].phase = "store"
          /\ fetch["job"]'.asOf = fetch["job"].asOf
          /\ fetch["job"]'.emit = fetch["job"].emit
          /\ fetch["job"]'.bars = fetch["job"].bars
      BY <2>0, <2>6, <3>1 DEF UpsertQuotes, Fetches
    <3>3. UNCHANGED <<now, crossed, log, heartbeat, inbox, job>>
      BY <2>6 DEF UpsertQuotes
    <3>4. /\ Today' = Today /\ \A stamp : StampHeld(stamp) => StampHeld(stamp)'
          /\ Gathered(Today) => Gathered(Today)'
          /\ HasMarks(log, Today) => HasMarks(log, Today)'
      BY <3>3 DEF StampHeld, Today, Gathered
    <3>5. BroughtHome(fetch["job"]) => BroughtHome(fetch["job"])'
      BY <3>2, <3>4 DEF BroughtHome
    <3> QED BY <3>2, <3>3, <3>4, <3>5 DEF Landing
  <2>7. CASE EmitMarks("job")
    <3> DEFINE run   == fetch["job"]
               marks == IF run.emit THEN BuildMarks(run.bars, run.asOf, run.fix) ELSE {}
               fresh == Unqueued(inbox, marks)
    <3>1. PICK asked, answered : run \in Fetches(asked, answered)
      BY <2>0 DEF TypeOK, FetchOK
    <3>2. /\ run.phase = "emit" /\ inbox' = inbox \cup fresh
          /\ fetch' = [fetch EXCEPT !["job"] =
                          [@ EXCEPT !.phase = "scan", !.marks = marks, !.fresh = fresh]]
          /\ UNCHANGED <<now, crossed, log, heartbeat, job>>
      BY <2>7 DEF EmitMarks
    <3>3. \A m \in marks : PriceMarkId(m) \in Ids(inbox')
      BY <3>2 DEF Unqueued, Ids
    <3>4. Ids(inbox) \subseteq Ids(inbox')
      BY <3>2 DEF Ids
    <3>5. /\ run.emit => marks = BuildMarks(run.bars, run.asOf, run.fix)
      OBVIOUS
    <3> HIDE DEF marks, fresh
    <3>6. /\ fetch["job"]'.phase = "scan" /\ fetch["job"]'.asOf = run.asOf
          /\ fetch["job"]'.emit = run.emit /\ fetch["job"]'.bars = run.bars
          /\ fetch["job"]'.fix = run.fix
      BY <2>0, <3>1, <3>2 DEF Fetches
    <3>7. /\ Today' = Today /\ \A stamp : StampHeld(stamp) => StampHeld(stamp)'
          /\ Gathered(Today) => Gathered(Today)'
          /\ HasMarks(log, Today) => HasMarks(log, Today)'
      BY <3>2, <3>4 DEF StampHeld, Today, Gathered
    <3>8. BroughtHome(fetch["job"]) => BroughtHome(fetch["job"])'
      BY <3>3, <3>5, <3>6, <3>7 DEF BroughtHome
    <3> QED BY <3>2, <3>6, <3>7, <3>8 DEF Landing
  <2>8. CASE EndFetch
    <3>1. UNCHANGED <<now, crossed, log, inbox>>
      BY <2>8 DEF EndFetch
    <3>2. CASE ~ExitsClean("job")
      <4>1. EndRun(1, "prices-fetch")
        BY <2>8, <3>2 DEF EndFetch
      <4> QED BY <3>1, <4>1, LandingEnds DEF Steps, MARKS_LANDED_STEPS
    <3>3. CASE ExitsClean("job")
      <4>1. /\ fetch["job"]'.phase = "idle" /\ heartbeat' = heartbeat
            /\ job'.window = job.window /\ job'.carried = job.carried /\ job'.step = "spine"
        BY <2>0, <2>8, <3>3 DEF EndFetch, Goto, NoFetch, TypeOK
      <4>2. Today' = Today /\ \A stamp : StampHeld(stamp) => StampHeld(stamp)'
        BY <3>1 DEF StampHeld, Today
      <4>3. ASSUME ~crossed, job.window PROVE Gathered(Today)'
        <5> DEFINE run == fetch["job"]
        <5>1. run.phase = "scan" /\ run.asOf = Today /\ BroughtHome(run)
          BY <2>8, <4>3 DEF EndFetch, Landing
        <5>2. PICK i \in Instruments : Registry[i].source = "binance"
          BY DailyJobAssumption
        <5>3. i \in DOMAIN run.bars /\ (run.bars[i] = NoBar \/ run.bars[i].date = run.asOf)
          BY <5>1, <5>2 DEF BroughtHome, InstrumentsForSource
        <5>4. PICK asked \in SUBSET Instruments : run.bars \in [asked -> Answers]
          BY <2>0 DEF TypeOK, FetchOK, Fetches
        <5>5. /\ asked \subseteq Succeeded(run.bars)
              /\ Fresh(run.bars, run.asOf) \subseteq Marked(run.bars, run.asOf, run.fix)
          <6>1. Failures(run.bars, run.asOf, run.fix, run.emit) = {}
            BY <3>3 DEF ExitsClean
          <6>2. run.emit = TRUE
            BY <2>0, <5>1 DEF BroughtHome, TypeOK, FetchOK, Fetches
          <6>3. DOMAIN run.bars \subseteq Succeeded(run.bars)
            BY <6>1 DEF Failures
          <6>4. Fresh(run.bars, run.asOf) \subseteq Marked(run.bars, run.asOf, run.fix)
            BY <6>1, <6>2 DEF Failures
          <6> QED BY <5>4, <6>3, <6>4
        <5>6. PICK m \in BuildMarks(run.bars, run.asOf, run.fix) :
                 m.instrument = i /\ m.day = run.asOf
          <6>1. i \in asked
            BY <5>3, <5>4
          <6>2. run.bars[i] = NoBar \/ run.bars[i].date = run.asOf
            BY <5>3
          <6> HIDE DEF run
          <6> QED BY <5>4, <5>5, <6>1, <6>2, CleanFetchMarks
        <5>7. PriceMarkId(m) \in log \cup Ids(inbox)
          BY <5>1, <5>6 DEF BroughtHome
        <5>8. PriceMarkId(m) = [instrument |-> i, day |-> Today]
          BY <5>1, <5>6 DEF PriceMarkId
        <5>9. Gathered(Today)
          BY <5>2, <5>7, <5>8 DEF Gathered
        <5> QED BY <3>1, <4>2, <5>9 DEF Gathered
      <4> QED BY <3>1, <4>1, <4>2, <4>3 DEF Landing, MARKS_LANDED_STEPS
    <3> QED BY <3>2, <3>3
  <2>9. CASE Spine
    <3>1. CASE ~SpineAccepts
      <4>1. EndRun(1, "spine") /\ UNCHANGED <<now, crossed, log>>
        BY <2>9, <3>1 DEF Spine
      <4> QED BY <4>1, LandingEnds DEF Steps, MARKS_LANDED_STEPS
    <3>2. CASE SpineAccepts
      <4>1. /\ log' = log \cup Ids(inbox) /\ job.step = "spine"
            /\ UNCHANGED <<now, crossed, heartbeat, fetch>>
        BY <2>9, <3>2 DEF Spine, SpineTakes
      <4>2. /\ job'.window = job.window /\ job'.carried = job.carried /\ job'.step = "commit"
        BY <2>9, <3>2 DEF Spine, Goto, TypeOK
      <4>3. Today' = Today /\ \A stamp : StampHeld(stamp) => StampHeld(stamp)'
        BY <4>1, MarksStay DEF StampHeld, Today
      <4>4. Gathered(Today) => HasMarks(log, Today)'
        BY <4>1, <4>3 DEF Gathered, HasMarks, MarksOn
      <4>5. fetch["job"]'.phase = "idle"
        BY <2>1, <4>1
      <4> QED BY <4>1, <4>2, <4>3, <4>4, <4>5 DEF Landing
    <3> QED BY <3>1, <3>2
  <2>10. CASE Commit \/ PostCheck \/ WriteGapReport
    <3>1. \/ \E step \in {"post-check", "gap-report", "operator-notice"} :
               Goto(step) /\ UNCHANGED <<heartbeat, fetch>>
          \/ \E step \in {"post-check", "gap-report"} : EndRun(1, step)
      BY <2>10 DEF Commit, PostCheck, WriteGapReport
    <3>2. /\ job.step \in MARKS_LANDED_STEPS /\ fetch["job"].phase = "idle"
          /\ UNCHANGED <<now, crossed, log>>
      BY <2>1, <2>10 DEF Commit, PostCheck, WriteGapReport, MARKS_LANDED_STEPS
    <3>3. ASSUME NEW step \in {"post-check", "gap-report", "operator-notice"}, Goto(step),
                 UNCHANGED <<heartbeat, fetch>> PROVE Landing'
      <4>1. /\ job'.window = job.window /\ job'.carried = job.carried /\ job'.step = step
        BY <3>3 DEF Goto, TypeOK
      <4> QED BY <3>2, <3>3, <4>1, LandingGoesOn
    <3>4. ASSUME NEW step \in {"post-check", "gap-report"}, EndRun(1, step) PROVE Landing'
      BY <3>2, <3>4, LandingEnds DEF Steps
    <3> QED BY <3>1, <3>3, <3>4
  <2>11. CASE WriteOperatorNotice
    <3>1. /\ job'.window = job.window /\ job'.carried = job.carried /\ job'.step = "backfill"
          /\ job.step = "operator-notice" /\ UNCHANGED <<now, crossed, log, heartbeat, fetch>>
      BY <2>11 DEF WriteOperatorNotice, TypeOK
    <3> QED BY <2>1, <3>1, LandingGoesOn DEF MARKS_LANDED_STEPS
  <2>12. CASE BackfillFold
    <3>1. CASE ~AssertLogFullyLoaded
      BY <2>12, <3>1, LandingEnds DEF BackfillFold, Steps, MARKS_LANDED_STEPS
    <3>2. CASE AssertLogFullyLoaded
      <4>1. /\ job'.window = job.window /\ job'.carried = job.carried /\ job'.step = job.step
            /\ job.step = "backfill" /\ UNCHANGED <<now, crossed, log, heartbeat, fetch>>
        BY <2>12, <3>2 DEF BackfillFold, TypeOK
      <4> QED BY <2>1, <4>1, LandingGoesOn
    <3> QED BY <3>1, <3>2
  <2>13. CASE Complete
    BY <2>13, LandingEnds DEF Complete, Steps, MARKS_LANDED_STEPS
  <2>14. CASE Fail
    <3>1. job.step \in Steps /\ EndRun(1, job.step) /\ UNCHANGED <<now, crossed, log>>
      BY <2>14 DEF Fail, Running, TypeOK
    <3> QED BY <3>1, LandingEnds
  <2>15. CASE ReviewInbox
    <3>1. /\ job.window = FALSE /\ fetch["job"]'.phase = "idle"
          /\ UNCHANGED <<now, crossed, log, heartbeat, job>>
      BY <2>1, <2>15 DEF ReviewInbox, InOrder, TypeOK
    <3> QED BY <3>1, LandingAtRest DEF Landing
  <2>16. CASE Tick
    <3> SUFFICES ASSUME ~crossed' PROVE Landing'
      BY DEF Landing
    <3>1. /\ now' = now + 1 /\ ~crossed
          /\ job.step = "idle" \/ TradingDayAsOf(now + 1) = Today
          /\ UNCHANGED <<log, inbox, heartbeat, job, fetch>>
      BY <2>16 DEF Tick
    <3>2. Today' >= Today /\ Today' \in Int /\ Today \in Int /\ NoDay \in Int
      BY <3>1 DEF Today, TradingDayAsOf, NoDay, TypeOK
    <3>3. /\ heartbeat.marked \in Int /\ job.carried \in Int
      BY ProjectionAssumption DEF TypeOK, Days, NoDay
    <3>4. \A stamp \in Int : StampHeld(stamp) => StampHeld(stamp)'
      BY <3>1, <3>2 DEF StampHeld
    <3>5. CASE job.step = "idle"
      <4>1. job.window = FALSE /\ fetch["job"].phase = "idle"
        BY <2>1, <3>5 DEF InOrder, TypeOK
      <4> QED BY <3>1, <3>3, <3>4, <4>1 DEF Landing
    <3>6. CASE TradingDayAsOf(now + 1) = Today
      <4>1. Today' = Today
        BY <3>1, <3>6 DEF Today
      <4>2. ~IsAtOrAfterMarkTime(now)
        BY <3>6 DEF Today, TradingDayAsOf, IsAtOrAfterMarkTime, TypeOK
      <4>3. job.window = FALSE
        BY <3>1, <4>2 DEF Landing, TypeOK
      <4> QED BY <3>1, <3>3, <3>4, <4>1, <4>3 DEF Landing
    <3> QED BY <3>1, <3>5, <3>6
  <2>17. CASE RunSpine
    <3>1. /\ log' = log \cup Ids(inbox) /\ UNCHANGED <<now, crossed, heartbeat, job, fetch>>
      BY <2>17 DEF RunSpine, SpineTakes
    <3> QED BY <3>1, LandingUndisturbed
  <2>18. CASE Author
    <3>1. /\ Ids(inbox) \subseteq Ids(inbox')
          /\ UNCHANGED <<now, crossed, heartbeat, job, fetch, log>>
      BY <2>18 DEF Author, Ids
    <3> QED BY <3>1, LandingUndisturbed
  <2>19. CASE BeginRecovery \/ UpsertQuotes("hand") \/ EmitMarks("hand")
    <3>1. /\ Ids(inbox) \subseteq Ids(inbox') /\ fetch'["job"] = fetch["job"]
          /\ UNCHANGED <<now, crossed, heartbeat, job, log>>
      BY <2>0, <2>19 DEF BeginRecovery, Ask, UpsertQuotes, EmitMarks, Ids
    <3> QED BY <3>1, LandingUndisturbed
  <2>20. CASE BreakLog \/ MendLog \/ PushByHand \/ (\E f \in Fetchers : Upsert(f))
    <3>1. UNCHANGED <<now, crossed, heartbeat, job, fetch, log, inbox>>
      BY <2>20 DEF BreakLog, MendLog, PushByHand, Upsert
    <3> QED BY <3>1, LandingUndisturbed
  <2>21. CASE UNCHANGED vars
    BY <2>21, LandingUndisturbed DEF vars
  <2> QED
    BY <2>0, <2>2, <2>3, <2>4, <2>5, <2>6, <2>7, <2>8, <2>9, <2>10, <2>11, <2>12, <2>13,
       <2>14, <2>15, <2>16, <2>17, <2>18, <2>19, <2>20, <2>21
       DEF Next, JobSteps, Operator, FetchSteps
<1> QED BY <1>1, <1>2, TypeCorrect, RunsInOrder, PTL DEF Spec

\* A notice made from the data is of the run that has just written it, and is never
\* older than the stamp of a run that ended well.
UpToDate ==
    ~crossed /\ notice.kind = "data" =>
        /\ job.step = "backfill" => notice.until = Today - 1
        /\ heartbeat.exit = 0 /\ heartbeat.marked # NoDay => notice.until >= heartbeat.marked - 1

\* The notice keeps up with the breadcrumb.
THEOREM NoticesKeepUp == Spec => []UpToDate
<1>1. Init => UpToDate
  BY DEF Init, UpToDate, NoNotice
<1>2. TypeOK /\ InOrder /\ Landing /\ UpToDate /\ [Next]_vars => UpToDate'
  <2> SUFFICES ASSUME TypeOK, InOrder, Landing, UpToDate, [Next]_vars,
                      ~crossed', notice'.kind = "data"
               PROVE  /\ job'.step = "backfill" => notice'.until = Today' - 1
                      /\ heartbeat'.exit = 0 /\ heartbeat'.marked # NoDay =>
                            notice'.until >= heartbeat'.marked - 1
    BY DEF UpToDate
  <2>1. /\ ~crossed /\ Today \in Int /\ Today' \in Int
        /\ job.step # "idle" => Today' = Today
    <3>1. \/ now' = now /\ crossed' = crossed
          \/ /\ now' = now + 1 /\ ~crossed
             /\ job.step # "idle" => TradingDayAsOf(now + 1) = Today
      <4>1. (now' = now /\ crossed' = crossed) \/ Tick
        BY WhatAStepDoes
      <4> QED BY <4>1 DEF Tick
    <3>2. Today \in Int /\ Today' \in Int
      <4>1. now \in Int /\ now' \in Int
        BY <3>1 DEF TypeOK
      <4> QED BY <4>1 DEF Today, TradingDayAsOf
    <3>3. job.step # "idle" => Today' = Today
      BY <3>1 DEF Today
    <3> QED BY <3>1, <3>2, <3>3
  <2>2. /\ heartbeat.marked \in Int /\ job.carried \in Int
        /\ heartbeat.marked # NoDay => heartbeat.marked <= Today
        /\ job.carried # NoDay => job.carried <= Today
    BY <2>1, ProjectionAssumption DEF Landing, StampHeld, TypeOK, Days, NoDay
  <2>3. CASE WriteOperatorNotice
    <3>1. /\ notice' = FormatOperatorNotice(log, now) /\ heartbeat' = heartbeat
          /\ job.step = "operator-notice"
      BY <2>3 DEF WriteOperatorNotice, LoadOperatorNoticeLines, UncheckedNotice
    <3>2. notice'.until = Today - 1
      BY <3>1, NoticeOfDays, ClockReadsADay DEF Today, TypeOK
    <3>3. Today' = Today
      BY <2>1, <3>1
    <3> QED BY <2>1, <2>2, <3>1, <3>2, <3>3
  <2>4. CASE Complete
    <3>1. /\ notice' = notice /\ job.step = "backfill" /\ heartbeat'.marked = Stamped(job, "complete")
          /\ job'.step # "backfill"
      BY <2>4 DEF Complete, EndRun, NoRun
    <3>2. notice.until = Today - 1
      BY <2>1, <3>1 DEF UpToDate
    <3>3. heartbeat'.marked # NoDay => heartbeat'.marked <= Today /\ heartbeat'.marked \in Int
      BY <2>1, <2>2, <3>1 DEF Stamped
    <3> QED BY <2>1, <3>1, <3>2, <3>3
  <2>5. CASE \E step \in Steps : EndRun(1, step) /\ notice' = notice
    BY <2>5 DEF EndRun, NoRun
  <2>6. CASE notice' = notice /\ heartbeat' = heartbeat
    <3>1. heartbeat'.exit = 0 /\ heartbeat'.marked # NoDay => notice'.until >= heartbeat'.marked - 1
      BY <2>1, <2>6 DEF UpToDate
    <3>2. CASE job'.step = "backfill" /\ ~WriteOperatorNotice
      <4>1. job.step = "backfill"
        BY <3>2, WhatAStepDoes DEF Fire, NoRun, BeforeNotice
      <4>2. notice'.until = Today' - 1
        BY <2>1, <2>6, <4>1 DEF UpToDate
      <4> QED BY <3>1, <4>2
    <3> QED BY <2>3, <3>1, <3>2
  <2>7. CASE Fire
    <3>1. notice' = notice /\ heartbeat' = heartbeat
      BY <2>7 DEF Fire, FailedNotice
    <3> QED BY <2>6, <3>1
  <2>8. CASE WriteOperatorFailureNotice
    BY <2>8 DEF WriteOperatorFailureNotice, FailedNotice
  <2>9. heartbeat' = heartbeat \/ Complete \/ \E step \in Steps : EndRun(1, step) /\ notice' = notice
    BY WhatAStepDoes
  <2>10. notice' = notice \/ Fire \/ WriteOperatorFailureNotice \/ WriteOperatorNotice
    BY WhatAStepDoes
  <2> QED BY <2>3, <2>4, <2>5, <2>6, <2>7, <2>8, <2>9, <2>10
<1> QED BY <1>1, <1>2, TypeCorrect, RunsInOrder, StampsAreEarned, PTL DEF Spec

\* If nothing is said, no day that is over lacks its marks.
THEOREM SilenceIsTrue == Spec => []AllClearIsTrue
<1>1. TypeOK /\ EveryDayAccounted /\ Landing /\ UpToDate => AllClearIsTrue
  <2> SUFFICES ASSUME TypeOK, EveryDayAccounted, Landing, UpToDate PROVE AllClearIsTrue
    OBVIOUS
  <2>1. StampIsEarned
    BY DEF Landing, StampHeld, StampIsEarned
  <2>2. ASSUME ~crossed, heartbeat.marked # NoDay,
               FormatHeartbeatWarning(heartbeat, now) = {}, SaysAllWell(notice),
               NEW day \in BoundedEraFloor(now) .. DueThrough(now)
        PROVE  HasMarks(log, day)
    <3>1. /\ DueThrough(now) \in Int /\ BoundedEraFloor(now) \in Int /\ Today \in Int
          /\ DueThrough(now) = Today - 1
          /\ day >= EraStart /\ day > DueThrough(now) - MaxWindowDays
          /\ MaxWindowDays \in Int /\ EraStart \in Int
      BY ClockReadsADay, ProjectionAssumption, GapReportAssumption DEF TypeOK, Today, Days
    <3>2. heartbeat.marked \in Int /\ notice.until \in Int
      BY <2>2, ProjectionAssumption DEF TypeOK, Days, NoDay, SaysAllWell
    <3>3. heartbeat.exit = 0 /\ heartbeat.marked >= DueThrough(now)
      <4>1. heartbeat # NoHeartbeat
        BY <2>2 DEF NoHeartbeat
      <4>2. "failed" \notin FormatHeartbeatWarning(heartbeat, now)
            /\ "behind" \notin FormatHeartbeatWarning(heartbeat, now)
        BY <2>2
      <4>3. heartbeat.exit = 0
        BY <4>1, <4>2 DEF FormatHeartbeatWarning
      <4>4. ~(heartbeat.marked < DueThrough(now))
        BY <2>2, <4>1, <4>2 DEF FormatHeartbeatWarning
      <4> QED BY <3>1, <3>2, <4>3, <4>4
    <3>4. notice.until >= heartbeat.marked - 1 /\ notice.until < Today
      BY <2>2, <3>3 DEF UpToDate, EveryDayAccounted, SaysAllWell
    <3>5. CASE day <= notice.until
      <4> DEFINE lost == {d \in EraStart .. notice.until :
                             d > notice.until - MaxWindowDays /\ ~HasMarks(log, d)}
      <4>1. Cardinality(lost \ notice.named) <= 0 /\ notice.named = {}
        BY <2>2 DEF EveryDayAccounted, SaysAllWell
      <4>2. IsFiniteSet(lost)
        <5>1. lost \subseteq EraStart .. notice.until
          OBVIOUS
        <5> QED BY <3>1, <3>2, <5>1, FS_Interval, FS_Subset
      <4>3. lost = {}
        <5>1. lost \ notice.named = lost
          BY <4>1
        <5> HIDE DEF lost
        <5> QED BY <4>1, <4>2, <5>1, FS_CardinalityType, FS_EmptySet
      <4>4. day > notice.until - MaxWindowDays /\ day \in EraStart .. notice.until
        BY <3>1, <3>2, <3>4, <3>5
      <4> QED BY <4>3, <4>4
    <3>6. CASE day > notice.until
      <4>1. day = heartbeat.marked
        BY <3>1, <3>2, <3>3, <3>4, <3>6
      <4> QED BY <2>1, <2>2, <4>1 DEF StampIsEarned
    <3> QED BY <3>1, <3>2, <3>5, <3>6
  <2> QED BY <2>1, <2>2 DEF AllClearIsTrue
<1> QED BY <1>1, TypeCorrect, NoticesAccount, StampsAreEarned, NoticesKeepUp, PTL
----------------------------------------------------------------------------
(* What the phone says.                                                    *)

\* The date of a push is the latest day of the log.
LEMMA PushedAsOfTheLatest ==
    ASSUME log \in SUBSET Entries, log # {}
    PROVE  /\ Anchors(log) \in SUBSET Days
           /\ AsOf(log) \in Anchors(log) /\ \A e \in Anchors(log) : e <= AsOf(log)
<1>1. Anchors(log) \in SUBSET Days /\ Anchors(log) # {}
  BY DEF Anchors, Entries
<1>2. \E d \in Anchors(log) : \A e \in Anchors(log) : e <= d
  BY <1>1, LatestDay
<1> QED BY <1>1, <1>2 DEF AsOf

\* One line is said, of the first trigger that fires.
LEMMA OneLine ==
    ASSUME NEW blocks, NEW latest, NEW t, NEW verdict,
           verdict = ComputeVerdict(blocks, latest, t)
    PROVE  /\ ~verdict.needsYou => \A k \in 1 .. 5 : ~Fires(TRIGGER_PRECEDENCE[k], blocks, latest, t)
           /\ Fires("feedGap", blocks, latest, t) => verdict.line \in {"freshness", "feedGap"}
           /\ verdict.line = "reserveFloor" => Fires("reserveFloor", blocks, latest, t)
<1> DEFINE fired == {k \in DOMAIN TRIGGER_PRECEDENCE :
                        Fires(TRIGGER_PRECEDENCE[k], blocks, latest, t)}
           first == CHOOSE k \in fired : \A j \in fired : k <= j
<1>1. /\ verdict.needsYou <=> fired # {}
      /\ verdict.line = IF fired = {} THEN "nothing" ELSE TRIGGER_PRECEDENCE[first]
  BY DEF ComputeVerdict
<1>2. DOMAIN TRIGGER_PRECEDENCE = 1 .. 5 /\ fired \in SUBSET Nat
  BY DEF TRIGGER_PRECEDENCE
<1>3. fired # {} => first \in fired /\ \A j \in fired : first <= j
  BY <1>2, LeastMember
<1>4. Fires("feedGap", blocks, latest, t) => 2 \in fired
  BY <1>2 DEF TRIGGER_PRECEDENCE
<1>5. ASSUME 2 \in fired PROVE verdict.line \in {"freshness", "feedGap"}
  <2>1. first \in 1 .. 5 /\ first <= 2
    BY <1>2, <1>3, <1>5
  <2> HIDE DEF fired, first
  <2>2. first \in {1, 2}
    BY <2>1
  <2> QED BY <1>1, <1>5, <2>2 DEF TRIGGER_PRECEDENCE
<1>6. ASSUME verdict.line = "reserveFloor" PROVE Fires("reserveFloor", blocks, latest, t)
  <2>1. first \in fired /\ TRIGGER_PRECEDENCE[first] = "reserveFloor"
    BY <1>1, <1>3, <1>6
  <2> QED BY <2>1
<1> QED BY <1>1, <1>2, <1>4, <1>5, <1>6

\* A venue dark in the window of a block is named by it.
LEMMA DarkIsNamed ==
    ASSUME log \in SUBSET Entries, NEW asOf \in Days, NEW d \in Int, NEW source,
           d >= asOf - VENUE_DARK_WINDOW_DAYS, d >= EraStart, d < asOf,
           <<d, source>> \in VenueDark(log, {d})
    PROVE  SummarizeVenueDark(log, asOf) # {}
<1>1. VENUE_DARK_WINDOW_DAYS \in Nat /\ EraStart \in Nat /\ LastDay \in Nat /\ asOf \in 0 .. LastDay
  BY GlanceAssumption, GapReportAssumption, ProjectionAssumption DEF Days
<1> DEFINE walkedBack == asOf - VENUE_DARK_WINDOW_DAYS
           since == IF walkedBack > EraStart THEN walkedBack ELSE EraStart
           dark == VenueDark(log, since .. asOf - 1)
<1>2. since \in Nat /\ d \in since .. asOf - 1
  BY <1>1
<1>3. <<d, source>> \in dark /\ dark \subseteq (since .. asOf - 1) \X PRICE_SOURCES
  BY <1>2 DEF VenueDark
<1>4. since .. asOf - 1 \subseteq Days
  BY <1>1, <1>2 DEF Days
<1>5. SummarizeVenueDark(log, asOf) = {x \in dark : \A e \in dark : e[2] = x[2] => e[1] <= x[1]}
  BY DEF SummarizeVenueDark
<1> HIDE DEF since, dark
<1>6. PICK S : S = {x \in Days : <<x, source>> \in dark}
  OBVIOUS
<1>7. S \in SUBSET Days /\ d \in S
  BY <1>2, <1>3, <1>4, <1>6
<1>8. PICK x \in S : \A e \in S : e <= x
  BY <1>7, LatestDay
<1>9. ASSUME NEW e \in dark, e[2] = source PROVE e[1] <= x
  <2>1. e = <<e[1], source>> /\ e[1] \in Days
    BY <1>3, <1>4, <1>9
  <2> QED BY <1>6, <1>8, <2>1
<1>10. <<x, source>> \in dark
  BY <1>6, <1>8
<1> QED BY <1>5, <1>9, <1>10

\* A mark for every instrument leaves no venue dark on the day of the block.
LEMMA CurrentMarksAreLight ==
    ASSUME log \in SUBSET Entries, NEW asOf \in Days, MissingMarks(log, asOf) = {}
    PROVE  VenueDark(log, {asOf}) = {}
<1> SUFFICES ASSUME NEW source \in PRICE_SOURCES, OwesMarkOn(source, asOf),
                    \A e \in MarksOn(log, asOf) : Registry[e.instrument].source # source
             PROVE  FALSE
  BY DEF VenueDark
<1>1. PICK i \in Instruments : Registry[i].source = source
  BY GlanceAssumption DEF InstrumentsForSource
<1>2. LastExpectedMarkDate(Registry[i].source, asOf) = asOf
  BY <1>1 DEF OwesMarkOn
<1>3. PICK e \in log : e.instrument = i /\ e.day <= asOf /\ ~(e.day < asOf)
  BY <1>2 DEF MissingMarks
<1>4. e.day \in Int /\ asOf \in Int
  BY DEF Entries, Days
<1>5. e \in MarksOn(log, asOf)
  BY <1>3, <1>4 DEF MarksOn
<1> QED BY <1>1, <1>3, <1>5

\* When the phone says that nothing needs the operator, the latest anchor is of today or
\* yesterday, the reserve is at its floor or above, and no venue was dark in its window.
THEOREM SilenceOnThePhone == Spec => []NoMeansNo
<1>1. TypeOK => NoMeansNo
  <2> SUFFICES ASSUME TypeOK PROVE NoMeansNo
    OBVIOUS
  <2>1. log \in SUBSET Entries /\ log # {} /\ now \in 3 .. 2 * LastDay + 1 /\ LastDay \in Nat
    BY ProjectionAssumption DEF TypeOK
  <2> DEFINE blocks == [d \in Anchors(log) |-> BuildGlanceBlock(log, d)]
             latest == AsOf(log)
             verdict == ComputeVerdict(blocks, latest, now)
             since == latest - VENUE_DARK_WINDOW_DAYS
  <2>2. Anchors(log) \in SUBSET Days /\ latest \in Anchors(log) /\ latest \in Days
    BY <2>1, PushedAsOfTheLatest
  <2>3. DOMAIN blocks = Anchors(log) /\ blocks[latest] = BuildGlanceBlock(log, latest)
    BY <2>2
  <2>4. latest \in Int /\ VENUE_DARK_WINDOW_DAYS \in Nat /\ EraStart \in Nat
    BY <2>2, ProjectionAssumption, GlanceAssumption, GapReportAssumption DEF Days
  <2>5. /\ blocks[latest].missing = MissingMarks(log, latest)
        /\ blocks[latest].venueDark = SummarizeVenueDark(log, latest)
        /\ blocks[latest].suppressed = {key \in SUPPRESSION_KEYS :
               \/ blocks[latest].missing # {}
               \/ blocks[latest].reserveTargetPct = NoPolicy /\ key = "reserve"}
    <3> DEFINE missing == MissingMarks(log, latest)
               floor == Fund[latest].floor
    <3>1. blocks[latest] = [nav |-> Fund[latest].nav, reserve |-> Fund[latest].reserve,
              reserveTargetPct |-> floor, missing |-> missing,
              suppressed |-> SuppressionKeysFor(missing # {}, floor = NoPolicy),
              venueDark |-> SummarizeVenueDark(log, latest)]
      BY <2>3 DEF BuildGlanceBlock
    <3> HIDE DEF blocks, latest, missing, floor
    <3>2. SuppressionKeysFor(missing # {}, floor = NoPolicy) = {key \in SUPPRESSION_KEYS :
              missing # {} \/ (floor = NoPolicy /\ key = "reserve")}
      BY Zenon DEF SuppressionKeysFor
    <3> QED BY <3>1, <3>2 DEF missing
  <2>6. verdict.slots.fundValue = FundValueSlot(blocks[latest])
        /\ verdict.breachDays = BreachDurationDays(blocks, latest)
    BY DEF ComputeVerdict
  <2> DEFINE fires(trigger) == Fires(trigger, blocks, latest, now)
  <2> HIDE DEF blocks, latest, verdict
  <2>7. ASSUME ~verdict.needsYou
        PROVE  /\ Today - latest <= 1
               /\ ~BelowFloor(blocks[latest])
               /\ VenueDark(log, {d \in since .. latest : d >= EraStart}) = {}
    <3>1. ~fires("freshness") /\ ~fires("feedGap") /\ ~fires("venueDark") /\ ~fires("reserveFloor")
      BY <2>7, OneLine DEF TRIGGER_PRECEDENCE, verdict
    <3>2. Today - latest <= 1
      <4>1. ~(CalendarDateOf(now) - latest >= 2)
        BY <3>1 DEF Fires, STALE_ANCHOR_DAYS
      <4>2. now \div 2 <= (now + 1) \div 2 /\ now \div 2 \in Int /\ (now + 1) \div 2 \in Int
        BY <2>1
      <4> QED BY <2>4, <4>1, <4>2 DEF CalendarDateOf, Today, TradingDayAsOf
    <3>3. MissingMarks(log, latest) = {}
      BY <2>5, <3>1 DEF Fires
    <3>4. ~BelowFloor(blocks[latest])
      BY <2>5, <3>1, <3>3 DEF Fires, ReserveSlot, BelowFloor
    <3>5. ASSUME NEW d \in since .. latest, d >= EraStart, NEW source,
                 <<d, source>> \in VenueDark(log, {d})
          PROVE  FALSE
      <4>1. CASE d = latest
        BY <2>1, <2>2, <3>3, <3>5, <4>1, CurrentMarksAreLight
      <4>2. CASE d < latest
        <5>1. SummarizeVenueDark(log, latest) # {}
          BY <2>1, <2>2, <2>4, <3>5, <4>2, DarkIsNamed
        <5> QED BY <2>5, <3>1, <5>1 DEF Fires
      <4> QED BY <2>4, <4>1, <4>2
    <3>6. VenueDark(log, {d \in since .. latest : d >= EraStart}) = {}
      BY <3>5 DEF VenueDark
    <3> QED BY <3>2, <3>4, <3>6
  <2>8. ASSUME verdict.slots.fundValue # "rendered"
        PROVE  verdict.line \in {"freshness", "feedGap"}
    <3>1. blocks[latest].missing # {}
      BY <2>5, <2>6, <2>8 DEF FundValueSlot
    <3>2. fires("feedGap")
      BY <3>1 DEF Fires
    <3> QED BY <3>2, OneLine DEF verdict
  <2>9. ASSUME verdict.line = "reserveFloor" PROVE verdict.breachDays >= 1
    <3>1. fires("reserveFloor")
      BY <2>9, OneLine DEF verdict
    <3>2. BelowFloor(blocks[latest]) /\ "reserve" \notin blocks[latest].suppressed
      BY <3>1 DEF Fires, ReserveSlot
    <3> DEFINE run == {d \in DOMAIN blocks : d <= latest /\
                          \A e \in DOMAIN blocks \cap (d .. latest) :
                              BelowFloor(blocks[e]) /\ "reserve" \notin blocks[e].suppressed}
    <3>3. latest \in run
      BY <2>2, <2>3, <2>4, <3>2
    <3>4. run \subseteq 0 .. LastDay
      BY <2>2, <2>3 DEF Days
    <3>5. verdict.breachDays = Cardinality(run)
      BY <2>6 DEF BreachDurationDays
    <3> HIDE DEF run
    <3>6. IsFiniteSet(run)
      <4>1. IsFiniteSet(0 .. LastDay)
        BY <2>1, FS_Interval
      <4> QED BY <3>4, <4>1, FS_Subset
    <3>7. Cardinality(run) \in Nat /\ Cardinality(run) # 0
      BY <3>3, <3>6, FS_CardinalityType, FS_EmptySet
    <3> QED BY <3>5, <3>7
  <2> QED BY <2>7, <2>8, <2>9 DEF NoMeansNo, blocks, latest, verdict
<1> QED BY <1>1, TypeCorrect, PTL
================================================================================
