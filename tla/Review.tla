------------------------------- MODULE Review -------------------------------
(***************************************************************************)
(* packages/engine/src/parse.ts and internal.ts: what a fund-review file   *)
(* must be before anything folds it.  The review is the genesis seed: the  *)
(* names of the fund (portfolios, accounts, instruments), the reserves and *)
(* the positions it held on the day of the review, and closes.             *)
(*                                                                         *)
(* A record states a field when it has it and it is not Blank.  The parser *)
(* checks the shape of the records and that ids are unique; whether a      *)
(* record cites a portfolio that exists, or is in its account's currency,  *)
(* is left to the report, which warns and excludes.                        *)
(***************************************************************************)
EXTENDS Integers, SequencesExt

CONSTANTS MaxDate,  \* bound: dates are 1 .. MaxDate
          Blank     \* an empty or blank text

Currencies == {"USD", "MXN"}
ExecutionModes == {"live", "paper", "back-test", "forward-test"}
Directions == {"long", "short"}

\* The capital tiers, in their canonical order.
TIERS == <<"c1", "c2", "c3">>
Tiers == ToSet(TIERS)
----------------------------------------------------------------------------
IsDate(day) == day \in 1 .. MaxDate
IsPositiveNumber(n) == n \in Int /\ n > 0

\* requireNonEmptyString, for each of the fields.
States(record, fields) ==
    fields \subseteq DOMAIN record /\ \A f \in fields : record[f] # Blank

\* invalidLotFields: a bought lot has a positive quantity and cost; a reserve's
\* lot carries a quantity of any sign, and no cost.  A lot may carry the rate it was
\* bought at.
ValidLot(lot, requireCost) ==
    /\ requireCost => IsPositiveNumber(lot.quantity) /\ IsPositiveNumber(lot.cost)
    /\ lot.tier \in Tiers
    /\ "entryFx" \in DOMAIN lot => IsPositiveNumber(lot.entryFx)

ValidLots(lots, requireCost) ==
    lots # <<>> /\ \A i \in DOMAIN lots : ValidLot(lots[i], requireCost)

DistinctIds(records) == \A i, j \in DOMAIN records : records[i].id = records[j].id => i = j

\* indexById
IndexById(records) ==
    [id \in { r.id : r \in ToSet(records) } |->
        CHOOSE r \in ToSet(records) : r.id = id]
----------------------------------------------------------------------------
ValidNamedRecords(records) ==
    /\ DistinctIds(records)
    /\ \A r \in ToSet(records) : States(r, {"id", "name"})

ValidAccounts(accounts) ==
    /\ ValidNamedRecords(accounts)
    /\ \A a \in ToSet(accounts) : States(a, {"platform", "currency"})

ValidInstruments(instruments) ==
    /\ ValidNamedRecords(instruments)
    /\ \A i \in ToSet(instruments) : States(i, {"symbol", "currency"})

\* The fields of every record that carries capital; which values they may take is
\* not looked at.
StatesCapital(record) ==
    States(record, {"id", "portfolio", "tempo", "mode", "account", "currency"})

\* A reserve of any amount; one with lots has at least one.
ValidReserve(reserve) ==
    /\ StatesCapital(reserve)
    /\ "amount" \in DOMAIN reserve
    /\ "lots" \in DOMAIN reserve => ValidLots(reserve.lots, FALSE)

ValidPosition(position) ==
    /\ StatesCapital(position)
    /\ States(position, {"instrument", "direction"})
    /\ {"markPrice", "lots"} \subseteq DOMAIN position
    /\ ValidLots(position.lots, TRUE)

\* Neither the date nor the sign of a close is checked here.
ValidClose(close) == States(close, {"instrument", "asOf"}) /\ "price" \in DOMAIN close

\* parseFundReview: the seed is accepted.
ParsesFundReview(review) ==
    /\ review.baseCurrency = "USD"
    /\ IsDate(review.asOf)
    /\ IsPositiveNumber(review.usdMxn)
    /\ ValidNamedRecords(review.portfolios)
    /\ ValidAccounts(review.accounts)
    /\ ValidInstruments(review.instruments)
    /\ \A r \in ToSet(review.reserves) : ValidReserve(r)
    /\ \A r \in ToSet(review.positions) : ValidPosition(r)
    /\ \A r \in ToSet(review.closes) : ValidClose(r)
    /\ DistinctIds(review.reserves \o review.positions)
=============================================================================
