----------------------------- MODULE Composition -----------------------------
(***************************************************************************)
(* packages/engine/src/compose: the report of a book.  Every capital       *)
(* record becomes one canonical line valued in USD, or is excluded, with   *)
(* or without a warning; the lines are added up by portfolio, tempo,       *)
(* account, instrument and tier; and the rows of the closed book are added *)
(* up by tempo and by tier.                                                *)
(*                                                                         *)
(* USD are counted in FxScale-ths, so that an amount divided by any rate   *)
(* in use is whole.  Labels, percentages and the order of the rows are     *)
(* left out.                                                               *)
(***************************************************************************)
EXTENDS CrossRef

CONSTANT FxScale  \* a common multiple of the rates in use

Usd(amount, currency, usdMxn) ==
    IF currency = "USD" THEN amount * FxScale ELSE (amount * FxScale) \div usdMxn
----------------------------------------------------------------------------
(* canonical.ts: what becomes of a record.                                 *)

\* A record that is counted as excluded, and why the report warns of it, if it does.
Excluded(lane, codes) == [lane |-> lane, warnings |-> codes]
Admitted == [lane |-> "line", warnings |-> {}]

\* pushWarning, on a condition.
Warn(code, condition) == IF condition THEN {code} ELSE {}

\* validateCapitalBase
MissingReferences(r) ==
    Warn("missing-portfolio", ~CitesPortfolio(r)) \cup Warn("missing-account", ~CitesAccount(r))

OffAccountCurrency(r) == CitesAccount(r) /\ AccountCurrency(r.account) # r.currency
InstrumentCurrency(id) == IndexById(Genesis.instruments)[id].currency

\* A reserve that is not live is left out without a warning.
ReserveVerdict(r) ==
    LET faults == MissingReferences(r) \cup Warn("currency-mismatch", OffAccountCurrency(r))
    IN  IF r.mode \notin ExecutionModes
        THEN Excluded("invalid", {"unsupported-execution-mode"})
        ELSE IF r.mode # "live" THEN Excluded("nonLive", {})
        ELSE IF r.currency \notin Currencies THEN Excluded("invalid", {"unsupported-currency"})
        ELSE IF faults # {} THEN Excluded("invalid", faults)
        ELSE IF r.amount < 0 THEN Excluded("invalid", {"invalid-amount"})
        ELSE Admitted

PositionFaults(p) ==
    LET offInstrument == CitesInstrument(p) /\ InstrumentCurrency(p.instrument) # p.currency
    IN  MissingReferences(p)
            \cup Warn("missing-instrument", ~CitesInstrument(p))
            \cup Warn("currency-mismatch", OffAccountCurrency(p) \/ offInstrument)

\* So is a position that is not live, or is short.
PositionVerdict(p) ==
    IF p.mode \notin ExecutionModes THEN Excluded("invalid", {"unsupported-execution-mode"})
    ELSE IF p.mode # "live" THEN Excluded("nonLive", {})
    ELSE IF p.currency \notin Currencies THEN Excluded("invalid", {"unsupported-currency"})
    ELSE IF p.direction \notin Directions THEN Excluded("invalid", {"unsupported-direction"})
    ELSE IF p.direction = "short" THEN Excluded("shortDeferred", {})
    ELSE IF PositionFaults(p) # {} THEN Excluded("invalid", PositionFaults(p))
    ELSE IF p.markPrice < 0 \/ ~ValidLots(p.lots, TRUE)
         THEN Excluded("invalid", {"invalid-position-number"})
    ELSE Admitted
----------------------------------------------------------------------------
(* The canonical lines: value and cost in USD, in all and tier by tier.    *)

Worth(value, cost) ==
    [usdValue |-> value, costBasisUsd |-> cost, unrealizedPnlUsd |-> value - cost]

\* A lot costs what it cost at the rate it was bought at, when it carries one.
LotCostUsd(lot, currency, usdMxn) ==
    Usd(lot.quantity * lot.cost, currency,
        IF "entryFx" \in DOMAIN lot THEN lot.entryFx ELSE usdMxn)

CostUsd(lots, currency, usdMxn) ==
    SumFunction([i \in DOMAIN lots |-> LotCostUsd(lots[i], currency, usdMxn)])
ValueUsd(lots, price, currency, usdMxn) == Usd(Quantity(lots) * price, currency, usdMxn)

\* Cash costs what it is worth.  A reserve with no tiers, or with one below zero,
\* contributes to none.
ReserveContributions(r, usdMxn) ==
    IF r.lots = Untiered \/ \E t \in DOMAIN r.lots : r.lots[t] < 0 THEN <<>>
    ELSE [t \in DOMAIN r.lots |->
            LET usd == Usd(r.lots[t], r.currency, usdMxn) IN Worth(usd, usd)]

TiersOf(lots) == { lot.tier : lot \in ToSet(lots) }

LotsWorth(p, lots, usdMxn) ==
    Worth(ValueUsd(lots, p.markPrice, p.currency, usdMxn), CostUsd(lots, p.currency, usdMxn))

PositionContributions(p, usdMxn) ==
    [t \in TiersOf(p.lots) |-> LotsWorth(p, InTier(p.lots, t), usdMxn)]

\* The line of a reserve itself has no cost and no gain.
ReserveLine(r, usdMxn) ==
    [Worth(Usd(r.amount, r.currency, usdMxn), 0) EXCEPT !.unrealizedPnlUsd = 0] @@
    [kind |-> "reserve", portfolio |-> r.portfolio, tempo |-> r.tempo, account |-> r.account,
     instrument |-> "reserve", tiers |-> ReserveContributions(r, usdMxn)]

PositionLine(p, usdMxn) ==
    LotsWorth(p, p.lots, usdMxn) @@
    [kind |-> "position", portfolio |-> p.portfolio, tempo |-> p.tempo, account |-> p.account,
     instrument |-> p.instrument, tiers |-> PositionContributions(p, usdMxn)]

AdmittedReserves(book) ==
    { id \in DOMAIN book.reserves : ReserveVerdict(book.reserves[id]).lane = "line" }
AdmittedPositions(book) ==
    { id \in DOMAIN book.positions : PositionVerdict(book.positions[id]).lane = "line" }

\* buildCanonicalState: the ids of reserves and of positions are disjoint.
CanonicalLines(book) ==
    [id \in AdmittedReserves(book) |-> ReserveLine(book.reserves[id], book.usdMxn)] @@
    [id \in AdmittedPositions(book) |-> PositionLine(book.positions[id], book.usdMxn)]

\* The closes with a date and a price.
SoundCloses(book, inst) ==
    { i \in Closes(book, inst) : IsDate(book.closes[i].asOf) /\ book.closes[i].price >= 0 }

\* latestCloseByInstrument: of the latest date and, on one date, the first in the array.
LatestClose(book, inst) ==
    LET latest == Max({ book.closes[i].asOf : i \in SoundCloses(book, inst) })
    IN  book.closes[Min({ i \in SoundCloses(book, inst) : book.closes[i].asOf = latest })]

\* Beyond 0.5% of the close, and beyond the smallest unit.
MarkDisagrees(book, p) ==
    /\ SoundCloses(book, p.instrument) # {}
    /\ LET price == LatestClose(book, p.instrument).price
           gap == IF p.markPrice > price THEN p.markPrice - price ELSE price - p.markPrice
       IN  200 * gap > price

\* Beyond 0.1% of the amount.
TiersDisagree(r) ==
    LET face == SumFunction(r.lots)
        gap == IF face > r.amount THEN face - r.amount ELSE r.amount - face
        size == IF r.amount < 0 THEN -r.amount ELSE r.amount
    IN  1000 * gap > size

\* A close of an instrument the seed does not name, or with no date or price.
SkippedCloses(book) ==
    { i \in DOMAIN book.closes :
        \/ ~CitesInstrument(book.closes[i])
        \/ i \notin SoundCloses(book, book.closes[i].instrument) }

\* Every warning of the records, excluded or admitted.
RecordWarnings(book) ==
    (UNION { ReserveVerdict(book.reserves[id]).warnings : id \in DOMAIN book.reserves }) \cup
    (UNION { PositionVerdict(book.positions[id]).warnings : id \in DOMAIN book.positions }) \cup
    (UNION { LET r == book.reserves[id]
             IN  IF r.lots = Untiered \/ r.lots = <<>> THEN {}
                 ELSE IF \E t \in DOMAIN r.lots : r.lots[t] < 0
                      THEN {"invalid-reserve-lot-quantity"}
                 ELSE Warn("reserve-lot-sum-mismatch", TiersDisagree(r))
           : id \in AdmittedReserves(book) }) \cup
    (UNION { Warn("markprice-close-mismatch", MarkDisagrees(book, book.positions[id]))
           : id \in AdmittedPositions(book) }) \cup
    Warn("skipped-close", SkippedCloses(book) # {})

\* What was left out, by lane.
ExcludedCount(book, lane) ==
    Cardinality({ id \in DOMAIN book.reserves : ReserveVerdict(book.reserves[id]).lane = lane })
    + Cardinality({ id \in DOMAIN book.positions :
                        PositionVerdict(book.positions[id]).lane = lane })
----------------------------------------------------------------------------
(* report.ts: the lines added up.                                          *)

AddWorth(a, b) == [f \in DOMAIN a |-> a[f] + b[f]]
TotalWorth(worths) == FoldFunction(AddWorth, Worth(0, 0), worths)

WorthOf(line) == [f \in DOMAIN Worth(0, 0) |-> line[f]]

\* groupLines: one row for each value the lines have in the field.
GroupLines(lines, field) ==
    [key \in { lines[id][field] : id \in DOMAIN lines } |->
        TotalWorth([id \in { x \in DOMAIN lines : lines[x][field] = key } |->
                        WorthOf(lines[id])])]

\* groupTierLines: a line with no contribution is in no row.
GroupTierLines(lines) ==
    [tier \in UNION { DOMAIN lines[id].tiers : id \in DOMAIN lines } |->
        TotalWorth([id \in { x \in DOMAIN lines : tier \in DOMAIN lines[x].tiers } |->
                        lines[id].tiers[tier]])]

\* buildClosedPosition: what a row realized, tier by tier; the proceeds are shared by
\* cost, and each lot costs what it cost.
Attribution(row) ==
    LET deltas == DeltasForClose(row.lots, Usd(row.proceeds, row.settledIn, row.usdMxn))
        of(t) == { i \in DOMAIN deltas : deltas[i].tier = t }
    IN  [t \in TiersOf(row.lots) |->
            Worth(SumFunction([i \in of(t) |-> deltas[i].amount]),
                  CostUsd(InTier(row.lots, t), row.currency, row.usdMxn))]

Realized(row) ==
    Worth(Usd(row.proceeds, row.settledIn, row.usdMxn),
          CostUsd(row.lots, row.currency, row.usdMxn))

\* What the fill of a partial row was off the mark, moving the value of the fund.
MarkVsFill(row) ==
    Usd(row.proceeds, row.settledIn, row.usdMxn)
        - ValueUsd(row.lots, row.mark, row.currency, row.usdMxn)

\* rollup
ClosedByTempo(rows) ==
    [tempo \in { r.tempo : r \in ToSet(rows) } |->
        TotalWorth([i \in { j \in DOMAIN rows : rows[j].tempo = tempo } |-> Realized(rows[i])])]
ClosedByTier(rows) ==
    [tier \in UNION { TiersOf(r.lots) : r \in ToSet(rows) } |->
        TotalWorth([i \in { j \in DOMAIN rows : tier \in TiersOf(rows[j].lots) } |->
                        Attribution(rows[i])[tier]])]

\* buildInvalidationWatch: the levels marked on open positions, and whether the mark
\* is through them.
InvalidationWatch(book) ==
    [id \in DOMAIN book.invalidation \cap DOMAIN book.positions |->
        LET mark == book.positions[id].markPrice
            level == book.invalidation[id]
        IN  IF level.direction = "below" THEN mark <= level.level ELSE mark >= level.level]

\* buildPriceJourneys: an instrument with two sound closes or more, from first to last.
PriceJourneys(book) ==
    [inst \in { i \in IdsOf(Genesis.instruments) : Cardinality(SoundCloses(book, i)) > 1 } |->
        LET byDate == SetToSortSeq(SoundCloses(book, inst),
                        LAMBDA i, j : \/ book.closes[i].asOf < book.closes[j].asOf
                                      \/ book.closes[i].asOf = book.closes[j].asOf /\ i < j)
        IN  [first |-> book.closes[byDate[1]].price,
             latest |-> book.closes[byDate[Len(byDate)]].price]]

\* The worth of all the lines; its value is the value of the fund.
FundWorth(lines) == TotalWorth([id \in DOMAIN lines |-> WorthOf(lines[id])])

\* buildCompositionReport
CompositionReport(book, lines, total) ==
    [fundValueUsd          |-> total.usdValue,
     totalUnrealizedPnlUsd |-> total.unrealizedPnlUsd,
     portfolio    |-> GroupLines(lines, "portfolio"),
     tempo        |-> GroupLines(lines, "tempo"),
     account      |-> GroupLines(lines, "account"),
     instrument   |-> GroupLines(lines, "instrument"),
     tier         |-> GroupTierLines(lines),
     journeys     |-> PriceJourneys(book),
     byTempo      |-> ClosedByTempo(book.closedBook),
     byTier       |-> ClosedByTier(book.closedBook),
     totalRealizedPnlUsd |-> TotalWorth([i \in DOMAIN book.closedBook |->
                                Realized(book.closedBook[i])]).unrealizedPnlUsd,
     watch        |-> InvalidationWatch(book),
     warnings     |-> RecordWarnings(book)
                        \cup Warn("non-positive-fund-value", total.usdValue <= 0),
     excluded     |-> [lane \in {"nonLive", "invalid", "shortDeferred"} |->
                            ExcludedCount(book, lane)]]

ReportOf(book, lines) == CompositionReport(book, lines, FundWorth(lines))
Report(book) == ReportOf(book, CanonicalLines(book))

\* The rows of the report a line is added to.
RowsOf(line) ==
    { <<field, line[field]>> : field \in {"portfolio", "tempo", "account", "instrument"} }
        \cup { <<"tier", t>> : t \in DOMAIN line.tiers }

\* Mutant: the tiers a line contributes to are forgotten.
RowDependenciesNoTiers(lines) ==
    [row \in UNION { RowsOf(lines[id]) : id \in DOMAIN lines } |->
        { lines[id].instrument : id \in { x \in DOMAIN lines :
            row[1] # "tier" /\ row \in RowsOf(lines[x]) } }]

\* composeRowDependencies: the instruments each row is computed from.
RowDependencies(lines) ==
    [row \in UNION { RowsOf(lines[id]) : id \in DOMAIN lines } |->
        { lines[id].instrument : id \in { x \in DOMAIN lines : row \in RowsOf(lines[x]) } }]
----------------------------------------------------------------------------
(* profit-split.ts: what of the realized profit is owed to the reserve.    *)

\* The closed rows in the order of their dates and, on one date, of the book.
OldestFirst(rows) ==
    LET before(i, j) == \/ rows[i].closedAsOf < rows[j].closedAsOf
                        \/ rows[i].closedAsOf = rows[j].closedAsOf /\ i < j
        order == SetToSortSeq(DOMAIN rows, before)
    IN  [i \in DOMAIN order |-> rows[order[i]]]

\* composeProfitSplit: the highest the running total has been, what the winning rows
\* won, and the reserve's part of one or the other.
ProfitSplit(rows, policy) ==
    LET gain(row) == Realized(row).unrealizedPnlUsd
        step(acc, row) ==
            LET total == acc.total + gain(row)
            IN  [total |-> total,
                 peak |-> IF total > acc.peak THEN total ELSE acc.peak,
                 won  |-> IF gain(row) > 0 THEN acc.won + gain(row) ELSE acc.won]
        run == FoldLeft(step, [total |-> 0, peak |-> 0, won |-> 0], OldestFirst(rows))
        basis == IF policy.splitBasis = "perClose" THEN run.won ELSE run.peak
    IN  [cumulativeNetRealizedUsd |-> run.total,
         peakCumulativeUsd |-> run.peak,
         obligationUsd |-> (policy.reserve * basis) \div (policy.wealth + policy.reserve)]
=============================================================================
