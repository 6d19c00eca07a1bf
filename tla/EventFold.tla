------------------------------ MODULE EventFold ------------------------------
(***************************************************************************)
(* packages/engine/src/events/fold.ts: the book is the immutable genesis   *)
(* seed with every event of the log applied to it, in the order of the     *)
(* dates the events carry and, on one date, in the order of the log.       *)
(*                                                                         *)
(* Amounts, quantities and prices are integers: where the code divides     *)
(* reals (a pro-rata share) the model takes the quotient and, as the code  *)
(* does, gives the last share whatever is left, so totals are exact.  A    *)
(* closed row keeps its amounts in their own currencies beside the rate of *)
(* its day, at which Composition converts them.                            *)
(***************************************************************************)
EXTENDS Review, Lists

CONSTANTS Genesis,  \* the seed: a fund review
          Untiered  \* the lots of a reserve that carries none

\* map.set(key, value)
Put(map, key, value) ==
    [k \in DOMAIN map \cup {key} |-> IF k = key THEN value ELSE map[k]]
----------------------------------------------------------------------------
(* Lots: <<[tier, quantity, cost], ...>>                                   *)

Quantity(lots) == Total([i \in DOMAIN lots |-> lots[i].quantity])
Cost(lots) == Total([i \in DOMAIN lots |-> lots[i].quantity * lots[i].cost])
InTier(lots, tier) == Kept(lots, { i \in DOMAIN lots : lots[i].tier = tier })
WeightedAverageCost(lots) == IF Quantity(lots) = 0 THEN 0 ELSE Cost(lots) \div Quantity(lots)

\* A cash leg inherits the tiers of the lots it pays for or sells, by cost; the
\* last tier present takes what rounding leaves.  No lots, no leg.
TierWeightedDeltas(lots, total, sign) ==
    LET present == Kept(TIERS, { k \in DOMAIN TIERS : InTier(lots, TIERS[k]) # <<>> })
        last == Len(present)
        share(i) == (total * Cost(InTier(lots, present[i]))) \div Cost(lots)
        allocated == Total([i \in 1 .. last - 1 |-> share(i)])
    IN  IF present = <<>> THEN <<>>
        ELSE IF Cost(lots) = 0 THEN << [tier |-> present[1], amount |-> sign * total] >>
        ELSE [i \in 1 .. last |->
                [tier |-> present[i],
                 amount |-> sign * (IF i = last THEN total - allocated ELSE share(i))]]

DeltasForOpen(lots, amount) == TierWeightedDeltas(lots, amount, -1)
DeltasForClose(lots, proceeds) == TierWeightedDeltas(lots, proceeds, 1)

\* Mutant: a lot with nothing left is kept.
SplitTierRemovalKeepsEmpty(lots, tier, quantity) ==
    LET taken(i) == IF lots[i].tier = tier
                    THEN IF lots[i].quantity < quantity THEN lots[i].quantity ELSE quantity
                    ELSE 0
    IN  [removed |-> << [tier |-> tier, quantity |-> quantity, cost |-> lots[1].cost] >>,
         remaining |-> [i \in DOMAIN lots |-> [lots[i] EXCEPT !.quantity = @ - taken(i)]]]

\* Quantity q of one lot; a lot with nothing left is dropped.
Cut(lot, q) ==
    [removed   |-> << [lot EXCEPT !.quantity = q] >>,
     remaining |-> IF lot.quantity > q THEN << [lot EXCEPT !.quantity = @ - q] >> ELSE <<>>]
Uncut(lot) == [removed |-> <<>>, remaining |-> <<lot>>]

\* One split after another: of the next lot, or of what the first left.
Beside(acc, split) == [removed   |-> acc.removed \o split.removed,
                       remaining |-> acc.remaining \o split.remaining]
AndThen(acc, split) == [removed   |-> acc.removed \o split.removed,
                        remaining |-> split.remaining]

\* Takes quantity out of one tier, pro rata over its lots.  The shares are rounded as they
\* add up, so that together they are the quantity, as in the code, and none is more than its
\* lot holds, unless the tier holds less than is taken.
SplitTierRemoval(lots, tier, quantity) ==
    LET inTier == { i \in DOMAIN lots : lots[i].tier = tier }
        total == Quantity(InTier(lots, tier))
        held(n) == Total([j \in 1 .. n |-> IF j \in inTier THEN lots[j].quantity ELSE 0])
        allocated(n) == (quantity * held(n)) \div total
        take(i) == allocated(i) - allocated(i - 1)
        split[n \in 0 .. Len(lots)] ==
            IF n = 0 THEN [removed |-> <<>>, remaining |-> <<>>]
            ELSE Beside(split[n - 1],
                        IF n \in inTier THEN Cut(lots[n], take(n)) ELSE Uncut(lots[n]))
    IN  IF total = 0 THEN [removed |-> <<>>, remaining |-> lots] ELSE split[Len(lots)]

\* The removals of one trim, in their order.
SplitRemovals(lots, removals) ==
    LET split[n \in 0 .. Len(removals)] ==
            IF n = 0 THEN [removed |-> <<>>, remaining |-> lots]
            ELSE AndThen(split[n - 1], SplitTierRemoval(split[n - 1].remaining,
                                            removals[n].tier, removals[n].quantity))
    IN  split[Len(removals)]
----------------------------------------------------------------------------
(* Reserves: a capital record with its amount and its lots, Untiered or a  *)
(* map from the tiers present to what they hold.                           *)

\* What every capital record says of itself, with what a reserve holds.
CapitalRecordBase(r, amount, lots) ==
    [portfolio |-> r.portfolio, tempo |-> r.tempo, mode |-> r.mode,
     account |-> r.account, currency |-> r.currency, amount |-> amount, lots |-> lots]

\* A reserve of the seed, its lots summed by tier.
SeedReserve(r) ==
    CapitalRecordBase(r, r.amount,
        IF "lots" \in DOMAIN r
        THEN [tier \in { lot.tier : lot \in ToSet(r.lots) } |-> Quantity(InTier(r.lots, tier))]
        ELSE Untiered)

\* The amount always moves; a tier that is absent is minted by a credit only.
ApplyReserveDelta(reserve, deltas) ==
    LET moved(held, d) ==
            IF d.tier \in DOMAIN held THEN [held EXCEPT ![d.tier] = @ + d.amount]
            ELSE IF d.amount > 0 THEN Put(held, d.tier, d.amount)
            ELSE held
        lots[n \in 0 .. Len(deltas)] ==
            IF n = 0 THEN reserve.lots ELSE moved(lots[n - 1], deltas[n])
    IN  [reserve EXCEPT
            !.amount = @ + Total([i \in DOMAIN deltas |-> deltas[i].amount]),
            !.lots = IF @ = Untiered THEN @ ELSE lots[Len(deltas)]]

ApplyToReserve(book, id, deltas) ==
    [book EXCEPT !.reserves[id] = ApplyReserveDelta(@, deltas)]

\* The Discard Channel: the event is reported, and nothing of it applied.
RecordSkip(book, e, at, reason) ==
    [book EXCEPT !.skipped = @ \cup {[at |-> at, type |-> e.type, reason |-> reason]}]

\* The cash leg of a position verb gates the whole arm: no deltas wins over no
\* reserve, and either discards everything.
ApplyTieredLeg(book, e, at, deltas, applied) ==
    IF deltas = <<>> THEN RecordSkip(book, e, at, "provenance-absent")
    ELSE IF e.reserve \notin DOMAIN book.reserves
         THEN RecordSkip(book, e, at, "reserve-absent")
    ELSE ApplyToReserve(applied, e.reserve, deltas)
----------------------------------------------------------------------------
(* The verbs.  Each takes the book and the event with its index in the log *)

Opened(book, e, at) ==
    LET price == WeightedAverageCost(e.lots)
        fresh == e.instrument \notin book.seeded
        applied == [book EXCEPT
            !.positions = Put(@, e.position,
                [portfolio |-> e.portfolio, tempo |-> e.tempo, mode |-> e.mode,
                 account |-> e.account, currency |-> e.currency,
                 instrument |-> e.instrument, direction |-> e.direction, lots |-> e.lots,
                 markPrice |-> price, openedAsOf |-> e.asOf]),
            !.fallback = @ \cup {e.position},
            !.seeded = @ \cup {e.instrument},
            !.anchors = IF fresh THEN Put(@, e.instrument, Len(book.closes) + 1) ELSE @,
            !.closes = IF fresh
                       THEN Append(@, [instrument |-> e.instrument, asOf |-> e.asOf,
                                       price |-> price])
                       ELSE @]
    IN  ApplyTieredLeg(book, e, at, DeltasForOpen(e.lots, e.amount), applied)

\* A row of the closed book: what left the position, when, for how much of the
\* settling reserve's currency, and the rate and the mark of that day.
ClosedRow(book, position, id, lots, e, partial) ==
    [position |-> id, openedAsOf |-> position.openedAsOf, closedAsOf |-> e.asOf,
     partial |-> partial, tempo |-> position.tempo, lots |-> lots,
     currency |-> position.currency, proceeds |-> e.amount,
     settledIn |-> IF e.reserve \in DOMAIN book.reserves
                   THEN book.reserves[e.reserve].currency ELSE position.currency,
     usdMxn |-> book.usdMxn,
     mark |-> IF position.instrument \in DOMAIN book.latestMark
              THEN book.latestMark[position.instrument] ELSE position.markPrice]

Closed(book, e, at) ==
    LET closing == book.positions[e.position]
        applied == [book EXCEPT
            !.closedBook = Append(@, ClosedRow(book, closing, e.position, closing.lots, e, FALSE)),
            !.positions = Restrict(@, DOMAIN @ \ {e.position})]
    IN  IF e.position \notin DOMAIN book.positions
        THEN RecordSkip(book, e, at, "position-absent")
        ELSE ApplyTieredLeg(book, e, at, DeltasForClose(closing.lots, e.amount), applied)

Trimmed(book, e, at) ==
    LET trimming == book.positions[e.position]
        split == SplitRemovals(trimming.lots, e.removals)
        applied == [book EXCEPT
            !.closedBook = Append(@, ClosedRow(book, trimming, e.position, split.removed, e, TRUE)),
            !.positions[e.position].lots = split.remaining]
    IN  IF e.position \notin DOMAIN book.positions
        THEN RecordSkip(book, e, at, "position-absent")
        ELSE ApplyTieredLeg(book, e, at, DeltasForClose(split.removed, e.amount), applied)

\* Mutant: the blended price reaches the position and not its close.
AddedToStaleClose(book, e, at) ==
    LET adding == book.positions[e.position]
        lots == Append(adding.lots, e.lot)
        unmarked == /\ e.position \in book.fallback
                    /\ adding.instrument \notin DOMAIN book.latestMark
        applied == [book EXCEPT
            !.positions[e.position].lots = lots,
            !.positions[e.position].markPrice =
                IF unmarked THEN WeightedAverageCost(lots) ELSE @]
    IN  IF e.position \notin DOMAIN book.positions
        THEN RecordSkip(book, e, at, "position-absent")
        ELSE ApplyTieredLeg(book, e, at, DeltasForOpen(<<e.lot>>, e.amount), applied)

\* A position still valued at its entry cost is valued at the new average, and
\* the close the fold minted for it is re-priced, not followed by another.
AddedTo(book, e, at) ==
    LET adding == book.positions[e.position]
        lots == Append(adding.lots, e.lot)
        blended == WeightedAverageCost(lots)
        unmarked == /\ e.position \in book.fallback
                    /\ adding.instrument \notin DOMAIN book.latestMark
        anchored == unmarked /\ adding.instrument \in DOMAIN book.anchors
        applied == [book EXCEPT
            !.positions[e.position].lots = lots,
            !.positions[e.position].markPrice = IF unmarked THEN blended ELSE @,
            !.closes = IF anchored
                       THEN [@ EXCEPT ![book.anchors[adding.instrument]].price = blended]
                       ELSE @]
    IN  IF e.position \notin DOMAIN book.positions
        THEN RecordSkip(book, e, at, "position-absent")
        ELSE ApplyTieredLeg(book, e, at, DeltasForOpen(<<e.lot>>, e.amount), applied)

\* Sets a key and moves nothing: what it found is judged after the last event.
InvalidationMarked(book, e, at) ==
    [book EXCEPT !.invalidation =
        Put(@, e.position, [level |-> e.level, direction |-> e.direction,
                            asOf |-> e.asOf, at |-> at])]

\* A mark owns its day: it overwrites the first close of its instrument and date.
\* It may carry the day's rate.
PriceMarked(book, e) ==
    LET sameDay == { i \in DOMAIN book.closes :
                        /\ book.closes[i].instrument = e.instrument
                        /\ book.closes[i].asOf = e.asOf }
    IN  [book EXCEPT
            !.latestMark = Put(@, e.instrument, e.price),
            !.usdMxn = IF "usdMxn" \in DOMAIN e THEN e.usdMxn ELSE @,
            !.closes = IF sameDay = {}
                       THEN Append(@, [instrument |-> e.instrument, asOf |-> e.asOf,
                                       price |-> e.price])
                       ELSE [@ EXCEPT ![Min(sameDay)].price = e.price]]

\* Deposit and Withdraw: one leg whose tier the event names.
Moved(book, e, at, amount) ==
    IF e.reserve \in DOMAIN book.reserves
    THEN ApplyToReserve(book, e.reserve, << [tier |-> e.tier, amount |-> amount] >>)
    ELSE RecordSkip(book, e, at, "reserve-absent")

\* Mutant: the second leg is applied to the book before the first.
TransferredLosesDebit(book, e, at) ==
    IF {e.from, e.reserve} \subseteq DOMAIN book.reserves
    THEN ApplyToReserve(book, e.reserve, << [tier |-> e.tier, amount |-> e.amount] >>)
    ELSE RecordSkip(book, e, at, "reserve-absent")

\* Both legs or neither.
Transferred(book, e, at) ==
    LET leg(amount) == << [tier |-> e.tier, amount |-> amount] >>
    IN  IF {e.from, e.reserve} \subseteq DOMAIN book.reserves
        THEN ApplyToReserve(ApplyToReserve(book, e.from, leg(-e.amount)),
                            e.reserve, leg(e.amount))
        ELSE RecordSkip(book, e, at, "reserve-absent")

\* A reserve is born empty, and tiered.
ReserveOpened(book, e) ==
    [book EXCEPT !.reserves =
        Put(@, e.reserve, CapitalRecordBase(e, 0, <<>>))]

Apply(book, entry) ==
    LET e == entry.event
        at == entry.at
    IN  CASE e.type = "PositionOpened"     -> Opened(book, e, at)
          [] e.type = "PositionClosed"     -> Closed(book, e, at)
          [] e.type = "PositionTrimmed"    -> Trimmed(book, e, at)
          [] e.type = "PositionAddedTo"    -> AddedTo(book, e, at)
          [] e.type = "InvalidationMarked" -> InvalidationMarked(book, e, at)
          [] e.type = "PriceMarked"        -> PriceMarked(book, e)
          [] e.type = "Deposit"            -> Moved(book, e, at, e.amount)
          [] e.type = "Withdraw"           -> Moved(book, e, at, -e.amount)
          [] e.type = "Transfer"           -> Transferred(book, e, at)
          [] e.type = "ReserveOpened"      -> ReserveOpened(book, e)
----------------------------------------------------------------------------
\* The seed as a book.  An instrument the seed holds gets a close at the price
\* the seed values it at, unless a close of its own covers the seed's date.
GenesisBook ==
    LET held == { p.instrument : p \in ToSet(Genesis.positions) }
        covered == { c.instrument : c \in { x \in ToSet(Genesis.closes) :
                                                x.asOf >= Genesis.asOf } }
        unanchored == SetToSeq(held \ covered)
        ofInstrument(inst) == Kept(Genesis.positions, { i \in DOMAIN Genesis.positions :
                                        Genesis.positions[i].instrument = inst })
        markOf(inst) == ofInstrument(inst)[1].markPrice
        anchor(i) == [instrument |-> unanchored[i], asOf |-> Genesis.asOf,
                      price |-> markOf(unanchored[i])]
        reserves == IndexById(Genesis.reserves)
    IN  [usdMxn       |-> Genesis.usdMxn,
         positions    |-> IndexById(Genesis.positions),
         reserves     |-> [id \in DOMAIN reserves |-> SeedReserve(reserves[id])],
         closes       |-> Genesis.closes \o [i \in DOMAIN unanchored |-> anchor(i)],
         closedBook   |-> <<>>,
         latestMark   |-> <<>>,
         invalidation |-> <<>>,
         fallback     |-> {},
         seeded       |-> held \cup { c.instrument : c \in ToSet(Genesis.closes) },
         anchors      |-> [inst \in ToSet(unanchored) |->
                            Len(Genesis.closes) + CHOOSE i \in DOMAIN unanchored :
                                                    unanchored[i] = inst],
         skipped      |-> {}]

\* events.map(with index).filter(asOf).sort(by asOf, then index)
Applicable(log, asOf) ==
    LET entries == [i \in DOMAIN log |-> [at |-> i, event |-> log[i]]]
        ofDay(day) == Kept(entries, { i \in DOMAIN log : log[i].asOf = day })
        upTo[day \in 0 .. asOf] == IF day = 0 THEN <<>> ELSE upTo[day - 1] \o ofDay(day)
    IN  upTo[asOf]

RetiredRows(book, id) ==
    { r \in ToSet(book.closedBook) : r.position = id /\ ~r.partial }

\* A level whose position is in neither book, or was closed before it, found nothing.
OrphanedMarks(book) ==
    { id \in DOMAIN book.invalidation \ DOMAIN book.positions :
        \/ \A r \in ToSet(book.closedBook) : r.position # id
        \/ LET closed == { r.closedAsOf : r \in RetiredRows(book, id) }
           IN  closed # {} /\ book.invalidation[id].asOf > Max(closed) }

\* After the last event: marks value their positions, and orphaned levels are reported.
Finish(book) ==
    LET valued(p) == IF p.instrument \in DOMAIN book.latestMark
                     THEN [p EXCEPT !.markPrice = book.latestMark[p.instrument]]
                     ELSE p
    IN  [book EXCEPT
        !.positions = [id \in DOMAIN @ |-> valued(@[id])],
        !.skipped = @ \cup { [at |-> book.invalidation[id].at, type |-> "InvalidationMarked",
                              reason |-> "position-absent"] : id \in OrphanedMarks(book) }]

\* foldEvents(genesis, events, asOf), for a date no earlier than the seed's.
FoldEventsAsOf(log, asOf) ==
    LET entries == Applicable(log, asOf)
        fold[n \in 0 .. Len(entries)] ==
            IF n = 0 THEN GenesisBook ELSE Apply(fold[n - 1], entries[n])
    IN  Finish(fold[Len(entries)])
FoldEvents(log) == FoldEventsAsOf(log, MaxDate)
=============================================================================
