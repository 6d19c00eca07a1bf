------------------------------- MODULE CrossRef -------------------------------
(***************************************************************************)
(* packages/engine/src/events/crossref.ts: the ingest gate.  A candidate   *)
(* event is judged against the fold of everything accepted before it, a    *)
(* handful of dates read off the log itself, and, for a trim dated behind  *)
(* a close, the fold of what is dated no later than the trim.              *)
(*                                                                         *)
(* The portfolios, accounts and instruments an event may cite are those of *)
(* the seed, which never change.                                           *)
(***************************************************************************)
EXTENDS EventParse

PositionVerbs == {"PositionOpened", "PositionClosed", "PositionTrimmed",
                  "PositionAddedTo", "InvalidationMarked"}

\* 50%: |actual / expected - 1| > 0.5, without the division.
Deviates(actual, expected) ==
    2 * (IF actual > expected THEN actual - expected ELSE expected - actual) > expected
----------------------------------------------------------------------------
(* The reference: projections of the folded book, and of the log.          *)

IdsOf(records) == { r.id : r \in ToSet(records) }
CitesPortfolio(e) == e.portfolio \in IdsOf(Genesis.portfolios)
CitesAccount(e) == e.account \in IdsOf(Genesis.accounts)
CitesInstrument(e) == e.instrument \in IdsOf(Genesis.instruments)
AccountCurrency(id) == IndexById(Genesis.accounts)[id].currency

\* Every id that is or ever was a position: open, or with a row in the closed book.
PositionIds(book) == DOMAIN book.positions \cup { r.position : r \in ToSet(book.closedBook) }

\* positionBornAsOf: a seeded position is as old as the seed.
PositionBornAsOf(book, id) ==
    IF id \in IdsOf(Genesis.positions) THEN Genesis.asOf
    ELSE IF id \in DOMAIN book.positions THEN book.positions[id].openedAsOf
    ELSE (CHOOSE r \in ToSet(book.closedBook) : r.position = id).openedAsOf

\* reserveBalances.bornAsOf
ReserveBornAsOf(log, id) ==
    LET births == { i \in DOMAIN log : log[i].type = "ReserveOpened" /\ log[i].reserve = id }
    IN  IF births = {} THEN Genesis.asOf ELSE log[Max(births)].asOf

\* closedPositionAsOf: the earliest full close; a partial row does not retire.
IsRetired(book, id) == RetiredRows(book, id) # {}
RetiredAsOf(book, id) == Min({ r.closedAsOf : r \in RetiredRows(book, id) })

\* positionLastVerbAsOf: the latest date on an accepted verb of the position, or 0.
LastVerbAsOf(log, id) ==
    Max({0} \cup { log[i].asOf : i \in { j \in DOMAIN log :
                        log[j].type \in PositionVerbs /\ log[j].position = id } })

\* lastClose: the price on the latest date; on one date, of the last in the array.
Closes(book, inst) == { i \in DOMAIN book.closes : book.closes[i].instrument = inst }
HasClose(book, inst) == Closes(book, inst) # {}
LastClose(book, inst) ==
    LET latest == Max({ book.closes[i].asOf : i \in Closes(book, inst) })
    IN  book.closes[Max({ i \in Closes(book, inst) : book.closes[i].asOf = latest })].price

\* worldAsOf: the same reference, from the events dated on or before a date.
WorldAsOf(log, asOf) == FoldEvents(SelectSeq(log, LAMBDA e : e.asOf <= asOf))
----------------------------------------------------------------------------
(* The rules several verbs share.                                          *)

PositionBornBy(book, e) ==
    /\ e.position \in PositionIds(book) \cup IdsOf(Genesis.positions)
    /\ e.asOf >= PositionBornAsOf(book, e.position)

ReserveBornBy(book, log, id, asOf) ==
    /\ id \in DOMAIN book.reserves
    /\ asOf >= ReserveBornAsOf(log, id)

\* Mutant: a close may land behind a trim or an add already accepted.
UntouchedAfterAny(log, e) == e.asOf >= Genesis.asOf

\* A close may not be dated behind an event already accepted for its position.
UntouchedAfter(log, e) == e.asOf >= LastVerbAsOf(log, e.position)

\* A trim or an add may not be dated on or after the close of its position.
BeforeRetirement(book, e) ==
    IsRetired(book, e.position) => e.asOf < RetiredAsOf(book, e.position)

\* Mutant: the reserve's whole amount stands behind every tier.
CheckDebitWhole(book, id, tier, amount) == amount <= book.reserves[id].amount

\* Sufficiency of the tier the debit names, as the reserve stands now.
CheckDebit(book, id, tier, amount) ==
    LET reserve == book.reserves[id]
    IN  amount <= IF reserve.lots = Untiered THEN reserve.amount
                  ELSE IF tier \in DOMAIN reserve.lots THEN reserve.lots[tier]
                  ELSE 0

\* Sufficiency of every tier that funds the lots.
CheckFunding(book, e, lots) ==
    LET deltas == DeltasForOpen(lots, e.amount)
    IN  \A i \in DOMAIN deltas :
            CheckDebit(book, e.reserve, deltas[i].tier, -deltas[i].amount)

\* The cash is within the threshold of quantity x last close, when that is known.
SaneSettlement(book, e, quantity) ==
    LET inst == book.positions[e.position].instrument
    IN  e.position \in DOMAIN book.positions /\ HasClose(book, inst) =>
            LET expected == quantity * LastClose(book, inst)
            IN  expected > 0 => ~Deviates(e.amount, expected)
----------------------------------------------------------------------------
(* The rules of each verb, against book = FoldEvents(log).                 *)

\* Neither the mode nor the currency of the position is looked at.
AcceptsOpened(book, log, e) ==
    /\ e.position \notin PositionIds(book) \cup DOMAIN book.reserves
    /\ CitesPortfolio(e) /\ CitesAccount(e) /\ CitesInstrument(e)
    /\ ReserveBornBy(book, log, e.reserve, e.asOf)
    /\ CheckFunding(book, e, e.lots)

AcceptsClosed(book, log, e) ==
    /\ PositionBornBy(book, e)
    /\ ~IsRetired(book, e.position)
    /\ UntouchedAfter(log, e)
    /\ ReserveBornBy(book, log, e.reserve, e.asOf)
    /\ SaneSettlement(book, e, Quantity(book.positions[e.position].lots))

\* What a trim needs of the world it is judged in: lots enough in every tier, one
\* left over, and cash of the right magnitude.
TrimFits(world, e) ==
    LET held == IF e.position \in DOMAIN world.positions
                THEN world.positions[e.position].lots ELSE <<>>
    IN  /\ \A tier \in Tiers :
            Quantity(InTier(e.removals, tier)) <= Quantity(InTier(held, tier))
        /\ Quantity(e.removals) < Quantity(held)
        /\ SaneSettlement(world, e, Quantity(e.removals))

\* A trim behind a close is judged in the world of its own date; any other trim
\* in the world as it stands.
AcceptsTrimmed(book, log, e) ==
    /\ PositionBornBy(book, e)
    /\ BeforeRetirement(book, e)
    /\ ReserveBornBy(book, log, e.reserve, e.asOf)
    /\ TrimFits(IF IsRetired(book, e.position) THEN WorldAsOf(log, e.asOf) ELSE book, e)

AcceptsAddedTo(book, log, e) ==
    /\ PositionBornBy(book, e)
    /\ BeforeRetirement(book, e)
    /\ ReserveBornBy(book, log, e.reserve, e.asOf)
    /\ CheckFunding(book, e, <<e.lot>>)

AcceptsInvalidation(book, e) ==
    /\ PositionBornBy(book, e)
    /\ ~IsRetired(book, e.position)

\* Judged against the latest close whatever date the mark carries.
AcceptsMark(book, e) ==
    /\ CitesInstrument(e)
    /\ HasClose(book, e.instrument) => ~Deviates(e.price, LastClose(book, e.instrument))

AcceptsDeposit(book, log, e) == ReserveBornBy(book, log, e.reserve, e.asOf)

AcceptsWithdraw(book, log, e) ==
    /\ ReserveBornBy(book, log, e.reserve, e.asOf)
    /\ CheckDebit(book, e.reserve, e.tier, e.amount)

AcceptsTransfer(book, log, e) ==
    /\ ReserveBornBy(book, log, e.reserve, e.asOf)
    /\ ReserveBornBy(book, log, e.from, e.asOf)
    /\ book.reserves[e.from].currency = book.reserves[e.reserve].currency
    /\ CheckDebit(book, e.from, e.tier, e.amount)

AcceptsReserveOpened(book, e) ==
    /\ e.asOf >= Genesis.asOf
    /\ e.reserve \notin DOMAIN book.reserves
    /\ e.reserve \notin PositionIds(book)
    /\ e.mode = "live"
    /\ CitesPortfolio(e) /\ CitesAccount(e)
    /\ e.currency = AccountCurrency(e.account)

\* crossReferenceEvent
Accepts(book, log, e) ==
    CASE e.type = "PositionOpened"     -> AcceptsOpened(book, log, e)
      [] e.type = "PositionClosed"     -> AcceptsClosed(book, log, e)
      [] e.type = "PositionTrimmed"    -> AcceptsTrimmed(book, log, e)
      [] e.type = "PositionAddedTo"    -> AcceptsAddedTo(book, log, e)
      [] e.type = "PriceMarked"        -> AcceptsMark(book, e)
      [] e.type = "Deposit"            -> AcceptsDeposit(book, log, e)
      [] e.type = "Withdraw"           -> AcceptsWithdraw(book, log, e)
      [] e.type = "Transfer"           -> AcceptsTransfer(book, log, e)
      [] e.type = "InvalidationMarked" -> AcceptsInvalidation(book, e)
      [] e.type = "ReserveOpened"      -> AcceptsReserveOpened(book, e)
=============================================================================
