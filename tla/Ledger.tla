-------------------------------- MODULE Ledger --------------------------------
(***************************************************************************)
(* The event ledger: a log that grows one accepted event at a time, and    *)
(* the book that folds it.  Events arrive in any order of dates, since the *)
(* gate admits a backdated event; they are applied in the order of their   *)
(* dates.  What the gate saw when it accepted an event is therefore not    *)
(* what the fold applies it to, and that is what the properties are about. *)
(*                                                                         *)
(* walkPendingInbox (events/ingest-walk.ts) is the loop: it judges one     *)
(* candidate against the reference it holds and rebuilds the reference     *)
(* from the log after every accept.  A rejected candidate changes nothing. *)
(***************************************************************************)
EXTENDS Composition

CONSTANTS Candidates, \* the events that may be offered
          MaxEvents   \* bound: the length of the log

\* What a list of lots, or of removals, may hold in a line or in the seed: bought lots have
\* a cost and may carry the rate they were bought at, and the others carry neither.
Figures == [tier : STRING, quantity : Int]
BoughtLots == [tier : STRING, quantity : Int, cost : Int]
                \cup [tier : STRING, quantity : Int, cost : Int, entryFx : Int]

ASSUME CandidatesAssumption ==
    /\ MaxDate \in Nat
    /\ ParsesFundReview(Genesis)
    /\ \A r \in ToSet(Genesis.reserves) :
        r.amount \in Int /\ ("lots" \in DOMAIN r => r.lots \in Seq(Figures))
    /\ \A p \in ToSet(Genesis.positions) : p.lots \in Seq(BoughtLots)
    /\ \A e \in Candidates :
        /\ {"type", "asOf"} \subseteq DOMAIN e
        /\ "lots" \in DOMAIN e => e.lots \in Seq(BoughtLots)
        /\ "lot" \in DOMAIN e => e.lot \in BoughtLots
        /\ "removals" \in DOMAIN e => e.removals \in Seq(Figures)

VARIABLES log,  \* events.jsonl: every accepted event, in the order of acceptance
          book  \* the fold of the log: the reference the gate holds

vars == <<log, book>>

Init ==
    /\ log = <<>>
    /\ book = FoldEvents(<<>>)

\* One candidate of the walk, accepted.
Ingest(e) ==
    /\ Len(log) < MaxEvents
    /\ ParsesEvent(e)
    /\ Accepts(book, log, e)
    /\ log' = Append(log, e)
    /\ book' = FoldEvents(log')

Next == \E e \in Candidates : Ingest(e)

Spec == Init /\ [][Next]_vars

\* Nothing was backdated.
InOrder == \A i, j \in DOMAIN log : i < j => log[i].asOf <= log[j].asOf
----------------------------------------------------------------------------
Held(lots, tier) == Quantity(InTier(lots, tier))

\* The events of the log that the fold applied.
Applied == { i \in DOMAIN log : \A s \in book.skipped : s.at # i }

TypeOK ==
    /\ log \in Seq(Candidates)
    /\ \A id \in DOMAIN book.reserves :
        /\ book.reserves[id].amount \in Int
        /\ book.reserves[id].lots = Untiered \/ DOMAIN book.reserves[id].lots \subseteq Tiers
    /\ \A id \in DOMAIN book.positions :
        \A lot \in ToSet(book.positions[id].lots) : lot.quantity > 0 /\ lot.tier \in Tiers
    /\ \A s \in book.skipped : s.at \in DOMAIN log

\* A position id lives once: never open and closed, never closed twice.
OneLife ==
    \A id \in PositionIds(book) :
        /\ IsRetired(book, id) => id \notin DOMAIN book.positions
        /\ Cardinality({ i \in DOMAIN book.closedBook :
                book.closedBook[i].position = id /\ ~book.closedBook[i].partial }) <= 1

SkippedFor(of, reason) == \E s \in of.skipped : s.reason = reason

\* Some close found nothing to sell, on the day it was accepted or since.  Its position
\* has not retired, so the gate admits another close of it, and verbs dated behind one.
CloseWasDiscarded ==
    \E k \in 0 .. Len(log) - 1 :
        SkippedFor(FoldEvents(SubSeq(log, 1, k)), "provenance-absent")

\* No event finds its reserve unknown, or not born yet.
NoAbsentReserve ==
    \A day \in Genesis.asOf .. MaxDate :
        ~SkippedFor(FoldEventsAsOf(log, day), "reserve-absent")

\* No event finds its position gone, or not born yet, as long as no close was discarded.
NoAbsentPosition ==
    (\E day \in Genesis.asOf .. MaxDate :
        SkippedFor(FoldEventsAsOf(log, day), "position-absent")) => CloseWasDiscarded

\* What the date rules of the gate are for (crossref.ts 832-1047): however the
\* events are dated and in whatever order they are accepted, and at whatever date
\* the book is read, none finds its reserve gone or not born yet, nor, unless a close was
\* discarded for want of lots, its position; and no id lives twice.
NoAbsentTarget == NoAbsentReserve /\ NoAbsentPosition /\ OneLife

\* What one event does to the cash of one reserve.
CashEffect(e, id) ==
    CASE e.type \in {"Deposit", "PositionClosed", "PositionTrimmed"} ->
            IF e.reserve = id THEN e.amount ELSE 0
      [] e.type \in {"Withdraw", "PositionOpened", "PositionAddedTo"} ->
            IF e.reserve = id THEN -e.amount ELSE 0
      [] e.type = "Transfer" ->
            IF e.reserve = id THEN e.amount ELSE IF e.from = id THEN -e.amount ELSE 0
      [] OTHER -> 0

\* The tiers of a reserve add up to its amount: provenance accounts for all of it.
Stock(lots, tier) == IF tier \in DOMAIN lots THEN lots[tier] ELSE 0
AddsUp(reserve) ==
    reserve.lots # Untiered =>
        reserve.amount = Total([k \in DOMAIN TIERS |-> Stock(reserve.lots, TIERS[k])])

\* What an event buys of a position in one tier, and what a row of the closed book took.
BoughtBy(e, id, tier) ==
    CASE e.type = "PositionOpened" /\ e.position = id -> Held(e.lots, tier)
      [] e.type = "PositionAddedTo" /\ e.position = id -> Held(<<e.lot>>, tier)
      [] OTHER -> 0
TakenBy(row, id, tier) == IF row.position = id THEN Held(row.lots, tier) ELSE 0

SeededLots(id) ==
    IF id \in IdsOf(Genesis.positions) THEN IndexById(Genesis.positions)[id].lots ELSE <<>>
OpenLots(id) == IF id \in DOMAIN book.positions THEN book.positions[id].lots ELSE <<>>

\* The caller of splitTierRemoval guarantees sufficiency (fold.ts 1041): what was
\* bought of a tier is what is held plus what left, tier by tier and lot by lot.
QuantityConserved ==
    \A id \in PositionIds(book), tier \in Tiers :
        Held(SeededLots(id), tier) + Total([i \in DOMAIN log |-> BoughtBy(log[i], id, tier)]) =
            Held(OpenLots(id), tier) +
            Total([i \in DOMAIN book.closedBook |-> TakenBy(book.closedBook[i], id, tier)])

SeededCash(id) ==
    IF id \in IdsOf(Genesis.reserves) THEN IndexById(Genesis.reserves)[id].amount ELSE 0

\* A reserve holds what the seed gave it and what the applied events moved, a discarded
\* event having moved nothing at all.
CashConserved ==
    \A id \in DOMAIN book.reserves :
        book.reserves[id].amount = SeededCash(id) +
            Total([i \in DOMAIN log |-> IF i \in Applied THEN CashEffect(log[i], id) ELSE 0])

\* What a sale brings in.
Proceeds(e) == IF e.type \in {"PositionClosed", "PositionTrimmed"} THEN e.amount ELSE 0

\* The closed book reports the proceeds that were credited.
ProceedsReported ==
    Total([i \in DOMAIN book.closedBook |-> book.closedBook[i].proceeds]) =
        Total([i \in DOMAIN log |-> IF i \in Applied THEN Proceeds(log[i]) ELSE 0])

\* Cash is never invented or lost, whatever the dates.
Conserved == CashConserved /\ ProceedsReported

\* The reserve paid, by some day, for lots of several tiers at once: each tier's part is
\* weighed alone, and an untiered reserve has but one amount to weigh it against
\* (crossref.ts 1069, 1488-1497).
PaidForTiers(id, day) ==
    \E i \in DOMAIN log :
        /\ log[i].type = "PositionOpened" /\ log[i].reserve = id /\ log[i].asOf <= day
        /\ \E lot, other \in ToSet(log[i].lots) : lot.tier # other.tier

\* Nothing is owed: a reserve adds up, and neither it nor a tier of it is below zero.  One
\* without tiers may be, when it is excused.
Sound(reserve, excused) ==
    /\ AddsUp(reserve)
    /\ reserve.amount < 0 => reserve.lots = Untiered /\ excused
    /\ reserve.lots # Untiered => \A tier \in DOMAIN reserve.lots : reserve.lots[tier] >= 0

\* The review's parser lets a reserve have any amount, and its lots any quantity.
SeedIsSound == \A r \in ToSet(Genesis.reserves) : Sound(SeedReserve(r), FALSE)

Solvent(day) ==
    LET reserves == FoldEventsAsOf(log, day).reserves
    IN  \A id \in DOMAIN reserves : Sound(reserves[id], PaidForTiers(id, day))

\* When the seed owes nothing and nothing is backdated, nothing is discarded, no unit is
\* invented or lost, the tiers of a reserve add up, and no reserve, and no tier of one, is
\* ever below zero, at any date the book is read; but for one without tiers that paid for
\* several.
ExactInOrder ==
    SeedIsSound /\ InOrder =>
        /\ book.skipped = {} /\ QuantityConserved
        /\ \A day \in Genesis.asOf .. MaxDate : Solvent(day)

\* "So an open cannot drive a reserve silently negative" (crossref.ts 1477-1478).
NeverSilentlyNegative ==
    SeedIsSound /\ InOrder => \A id \in DOMAIN book.reserves : book.reserves[id].amount >= 0

\* "A gate that judges against the fold cannot be wrong about the world the fold
\* will produce" (ADR-015:88-90, crossref.ts 342-345): nothing accepted is discarded.
NothingDiscarded == book.skipped = {}

MarkAgrees(id) == ~MarkDisagrees(book, book.positions[id])
JourneyEndsAtMark(p) ==
    Cardinality(SoundCloses(book, p.instrument)) > 1 =>
        PriceJourneys(book)[p.instrument].latest = p.markPrice

\* markprice-close-mismatch no longer fires on the event path (ADR-003:63): every
\* position is valued at the close the report compares it with.
MarkMatchesClose == \A id \in DOMAIN book.positions : MarkAgrees(id)

\* The same, when the instrument is held before it is first marked (fold.ts 655-724):
\* once marked, its positions and its latest close carry the mark; until then its
\* only position and the close minted at its opening carry the blended cost.  And the
\* journey the report draws of the instrument ends at that price.
HeldMarkMatchesClose ==
    InOrder => \A id \in DOMAIN book.positions :
        LET inst == book.positions[id].instrument
            of(type) == { i \in DOMAIN log : log[i].type = type /\ log[i].instrument = inst }
            seeded == \E p \in ToSet(Genesis.positions) : p.instrument = inst
            heldFirst == \A i \in of("PriceMarked") :
                            seeded \/ \E j \in of("PositionOpened") : j < i
            onlyOne == ~seeded /\ Cardinality(of("PositionOpened")) = 1
        IN  heldFirst /\ (of("PriceMarked") # {} \/ onlyOne) =>
                MarkAgrees(id) /\ JourneyEndsAtMark(book.positions[id])
----------------------------------------------------------------------------
(* What the report of the book (packages/engine/src/compose) must say.     *)

CONSTANT Policy  \* the profit policy in force

NothingExcluded(report) == \A lane \in DOMAIN report.excluded : report.excluded[lane] = 0
ValueOf(rows) == TotalWorth(rows).usdValue
GainOf(rows) == TotalWorth(rows).unrealizedPnlUsd

\* Every section of the report adds up to the fund, the tiers with what carries none.
SectionsAddUp(report, lines) ==
    LET untiered == [id \in { x \in DOMAIN lines : lines[x].tiers = <<>> } |->
                        lines[id].usdValue]
    IN  /\ \A section \in {"portfolio", "tempo", "account", "instrument"} :
            ValueOf(report[section]) = report.fundValueUsd
        /\ InOrder => ValueOf(report.tier) + SumFunction(untiered) = report.fundValueUsd

\* The closed book realizes the same by tempo, by tier and in all.
ClosedBookAddsUp(report) ==
    /\ GainOf(report.byTempo) = report.totalRealizedPnlUsd
    /\ GainOf(report.byTier) = report.totalRealizedPnlUsd

\* The rate of the seed is still the rate.
RateIsFixed == \A i \in DOMAIN log : "usdMxn" \notin DOMAIN log[i]

\* What was put into the fund, in USD: the seed at cost, deposits less withdrawals, and
\* what a purchase's lots cost over the cash that paid for them.
PaidIn ==
    LET usd(amount, id) == Usd(amount, book.reserves[id].currency, book.usdMxn)
        bought(i) ==
            IF log[i].type = "PositionOpened"
            THEN CostUsd(log[i].lots, log[i].currency, book.usdMxn)
            ELSE LET opened == { j \in DOMAIN log : /\ log[j].type = "PositionOpened"
                                                   /\ log[j].position = log[i].position }
                     currency == IF opened = {}
                                 THEN IndexById(Genesis.positions)[log[i].position].currency
                                 ELSE log[Min(opened)].currency
                 IN  CostUsd(<<log[i].lot>>, currency, book.usdMxn)
        of(i) == CASE log[i].type = "Deposit"  -> usd(log[i].amount, log[i].reserve)
                   [] log[i].type = "Withdraw" -> -usd(log[i].amount, log[i].reserve)
                   [] log[i].type \in {"PositionOpened", "PositionAddedTo"} ->
                        bought(i) - usd(log[i].amount, log[i].reserve)
                   [] OTHER -> 0
    IN  SumFunction([i \in DOMAIN Genesis.reserves |->
                        Usd(Genesis.reserves[i].amount, Genesis.reserves[i].currency,
                            book.usdMxn)])
        + SumFunction([i \in DOMAIN Genesis.positions |->
                        CostUsd(Genesis.positions[i].lots, Genesis.positions[i].currency,
                                book.usdMxn)])
        + SumFunction([i \in Applied |-> of(i)])

\* Nothing is made or lost between the three parts of the report: the value of the fund
\* is what was put in, plus what was realized, plus what is not realized yet.
BooksBalance(report) ==
    InOrder /\ RateIsFixed /\ NothingExcluded(report) =>
        report.fundValueUsd =
            PaidIn + report.totalRealizedPnlUsd + report.totalUnrealizedPnlUsd

FundValue(of) == FundWorth(CanonicalLines(of)).usdValue

\* What the newest event says it does to the value of the fund (events/types.ts 116-171):
\* moving cash conserves it, a sale at the mark conserves it, and a sale off the mark
\* moves it by what the closed row discloses.
MovesAreDisclosed(report) ==
    LET e == log[Len(log)]
        moved == report.fundValueUsd - FundValue(FoldEvents(SubSeq(log, 1, Len(log) - 1)))
        cash == Usd(e.amount, book.reserves[e.reserve].currency, book.usdMxn)
    IN  log # <<>> /\ InOrder /\ RateIsFixed /\ NothingExcluded(report) =>
            CASE e.type \in {"Deposit", "Withdraw"} ->
                    moved = IF e.type = "Deposit" THEN cash ELSE -cash
              [] e.type \in {"PositionTrimmed", "PositionClosed"} ->
                    moved = MarkVsFill(book.closedBook[Len(book.closedBook)])
              [] e.type \in {"Transfer", "InvalidationMarked", "ReserveOpened"} -> moved = 0
              [] OTHER -> TRUE

Revalued(inst) ==
    [book EXCEPT !.positions = [id \in DOMAIN @ |->
        IF @[id].instrument = inst THEN [@[id] EXCEPT !.markPrice = @ + 1] ELSE @[id]]]

\* A mark moves only the rows that depend on its instrument (row-dependencies.ts 16-70):
\* a row the phone shows as fresh is not computed from a price that is missing.
MovesOnly(inst, report, moved, dependencies) ==
    \A row \in DOMAIN dependencies :
        report[row[1]][row[2]] # moved[row[1]][row[2]] => inst \in dependencies[row]

MarksMoveTheirRows(report, lines) ==
    \A inst \in IdsOf(Genesis.instruments) :
        MovesOnly(inst, report, Report(Revalued(inst)), RowDependencies(lines))

\* What is owed to the reserve is never less on a later day, and the running total is
\* never above its peak (profit-split.ts 184-211).
NeverShrinks(splits) ==
    \A day \in DOMAIN splits :
        /\ splits[day].cumulativeNetRealizedUsd <= splits[day].peakCumulativeUsd
        /\ day + 1 \in DOMAIN splits =>
                splits[day].obligationUsd <= splits[day + 1].obligationUsd
SplitNeverShrinks ==
    NeverShrinks([day \in Genesis.asOf .. MaxDate |->
                    ProfitSplit(FoldEventsAsOf(log, day).closedBook, Policy)])

Balances(report, lines) ==
    /\ SectionsAddUp(report, lines)
    /\ ClosedBookAddsUp(report)
    /\ BooksBalance(report)
    /\ MovesAreDisclosed(report)
    /\ MarksMoveTheirRows(report, lines)

\* The report tells the whole truth of the book, and one truth.
ReportBalances == Balances(Report(book), CanonicalLines(book)) /\ SplitNeverShrinks

\* "Can paper trades affect Fund performance?  No." (context/ubiquitous-language.md 189):
\* the report of the fund is what it would be had no paper trade been recorded.
PaperLeavesFundAlone ==
    LET paper == { log[i].position : i \in { j \in DOMAIN log :
                        log[j].type = "PositionOpened" /\ log[j].mode # "live" } }
        live == SelectSeq(log, LAMBDA e : "position" \notin DOMAIN e \/ e.position \notin paper)
        same(with, without) == /\ with.fundValueUsd = without.fundValueUsd
                               /\ with.totalRealizedPnlUsd = without.totalRealizedPnlUsd
    IN  same(Report(book), Report(FoldEvents(live)))
=============================================================================
