------------------------------- MODULE PriceFetch -------------------------------
(***************************************************************************)
(* What a run of pnpm prices:fetch makes of the answers it gets            *)
(* (apps/price-feed/src, packages/engine/src/price-feed): which day it     *)
(* marks, which instruments owe a mark, what each provider answers, which  *)
(* answers become marks, and what the run ends with.                       *)
(*                                                                         *)
(* Time is counted in half days: a day of the operator's zone before the   *)
(* mark hour, then after it.  A price is only sane or wild: whether the    *)
(* magnitude guard of the ingest gate would take it.  NoDay is an absent   *)
(* date.                                                                   *)
(***************************************************************************)
EXTENDS Integers, FiniteSets, Sequences

CONSTANTS Registry,         \* instrument |-> [source, derived]
          Weekends,         \* the days that are a Saturday or a Sunday
          FixMaxStaleDays   \* how old the exchange rate of a derived mark may be

VENUE_CADENCE == [binance |-> "daily", twelvedata |-> "weekdays"]
PRICE_SOURCES == DOMAIN VENUE_CADENCE
Instruments == DOMAIN Registry

ASSUME PriceFetchAssumption ==
    /\ \A i \in Instruments : Registry[i].source \in PRICE_SOURCES
    /\ \A i \in Instruments : Registry[i].derived \in BOOLEAN
    /\ FixMaxStaleDays \in Nat

NoDay == -1
----------------------------------------------------------------------------
(* The two calendars.                                                      *)

TradingDayAsOf(now) == now \div 2
IsAtOrAfterMarkTime(now) == now % 2 = 1

IsWeekend(day) == day \in Weekends

\* The walk back over a weekend gives up after ten days.
LastExpectedMarkDate(source, day) ==
    IF VENUE_CADENCE[source] = "daily" THEN day
    ELSE LET trading == {d \in day - 10 .. day : \A e \in d + 1 .. day : IsWeekend(e)}
         IN  CHOOSE d \in trading : \A e \in trading : d <= e

OwesMarkOn(source, day) == LastExpectedMarkDate(source, day) = day

InstrumentsForSource(source) == {i \in Instruments : Registry[i].source = source}

\* A recovery run asks for the instruments that owed a mark that day.
Owed(asOf, recovering) ==
    {i \in Instruments : recovering => OwesMarkOn(Registry[i].source, asOf)}
----------------------------------------------------------------------------
(* The providers' answers: a bar, or a failure.                            *)

Bar(day, price) == [date |-> day, price |-> price]
NoBar == Bar(NoDay, "none")

\* The kline before the forming one closes at midnight UTC, the mark hour.
BinanceBar(now, asOf, recovering) ==
    IF recovering \/ IsAtOrAfterMarkTime(now)
    THEN IF recovering THEN asOf ELSE TradingDayAsOf(now)
    ELSE TradingDayAsOf(now) - 1

\* The last bar of the series, or the bar of the date that was asked for.
TwelveDataBar(now, asOf, recovering) ==
    IF recovering
    THEN IF IsWeekend(asOf) THEN NoDay ELSE asOf
    ELSE LastExpectedMarkDate("twelvedata",
             TradingDayAsOf(now) - IF IsAtOrAfterMarkTime(now) THEN 0 ELSE 1)

\* What can go wrong with the answers of one run.
Faults == [kind: {"none", "nofix", "oldfix"}, instrument: {"none"}]
              \cup [kind: {"failed", "wild"}, instrument: Instruments]
              \cup [kind: {"lagging"}, instrument: InstrumentsForSource("twelvedata")]
NoFault == [kind |-> "none", instrument |-> "none"]

Observe(i, now, asOf, recovering, fault) ==
    LET source == Registry[i].source
        date   == IF source = "binance" THEN BinanceBar(now, asOf, recovering)
                  ELSE TwelveDataBar(now, asOf, recovering)
        struck == date # NoDay /\ fault.instrument = i
    IN  CASE date = NoDay \/ (struck /\ fault.kind = "failed") -> NoBar
          [] struck /\ fault.kind = "wild" -> Bar(date, "wild")
          [] struck /\ fault.kind = "lagging" ->
                 IF recovering THEN NoBar
                 ELSE Bar(LastExpectedMarkDate(source, date - 1), "sane")
          [] OTHER -> Bar(date, "sane")

\* The date of the exchange rate Banco de Mexico publishes.
BanxicoFix(now, asOf, recovering, fault) ==
    CASE fault.kind = "nofix" -> NoDay
      [] fault.kind = "oldfix" -> asOf - FixMaxStaleDays - 1
      [] OTHER -> TwelveDataBar(now, asOf, recovering)

Bars(now, asOf, recovering, fault) ==
    [i \in Owed(asOf, recovering) |-> Observe(i, now, asOf, recovering, fault)]
----------------------------------------------------------------------------
(* From answers to marks.                                                  *)

RequireFreshFix(fix, asOf) == fix # NoDay /\ asOf - fix \in 0 .. FixMaxStaleDays

Succeeded(bars) == {i \in DOMAIN bars : bars[i] # NoBar}
IsFreshBar(bars, i, asOf) == bars[i].date = asOf

Fresh(bars, asOf) == {i \in Succeeded(bars) : IsFreshBar(bars, i, asOf)}

\* A derived mark needs the exchange rate.
Marked(bars, asOf, fix) ==
    {i \in Fresh(bars, asOf) : Registry[i].derived => RequireFreshFix(fix, asOf)}

BuildMarks(bars, asOf, fix) ==
    {[instrument |-> i, day |-> asOf, price |-> bars[i].price] : i \in Marked(bars, asOf, fix)}

Failures(bars, asOf, fix, emitting) ==
    (DOMAIN bars \ Succeeded(bars))
        \cup (IF emitting THEN Fresh(bars, asOf) \ Marked(bars, asOf, fix) ELSE {})
----------------------------------------------------------------------------
(* The scan of the marks against the gate, before the spine.               *)

PriceMarkId(mark) == [instrument |-> mark.instrument, day |-> mark.day]
Ids(marks) == {PriceMarkId(m) : m \in marks}

\* The marks of the queue whose id is new; a queued id is skipped.
Unqueued(inbox, marks) == {m \in marks : PriceMarkId(m) \notin Ids(inbox)}

Refused(marks, log) == {m \in marks : m.price = "wild" /\ PriceMarkId(m) \notin log}

\* The pending events first, then what this run fetched and they do not hold.
\* (The code takes as many off the tail as the run queued: the same, unless
\* someone else wrote the inbox in between.)
Rejections(log, inbox, fresh, marks) ==
    LET pending == inbox \ fresh
    IN  Refused(pending, log) \cup Refused(Unqueued(pending, marks), log)

================================================================================
