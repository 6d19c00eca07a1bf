------------------------------- MODULE MCLedger -------------------------------
(***************************************************************************)
(* Instances of Ledger for TLC.  A seed of two reserves, one tiered and    *)
(* one not, and one position; and, for each question, the small set of     *)
(* candidate events it needs, every one at several dates.                  *)
(***************************************************************************)
EXTENDS Ledger

Lot(tier, quantity, cost) == [tier |-> tier, quantity |-> quantity, cost |-> cost]
Take(tier, quantity) == [tier |-> tier, quantity |-> quantity]

\* Records of a portfolio, in an account and its currency, with the rest of their fields.
CapitalRecord(mode, currency, fields) ==
    fields @@ [portfolio |-> "core", tempo |-> IF currency = "USD" THEN "Capital" ELSE "Pulse",
               account |-> IF currency = "USD" THEN "broker" ELSE "bank",
               mode |-> mode, currency |-> currency]

Seed ==
    [baseCurrency |-> "USD", asOf |-> 2, usdMxn |-> 2,
     portfolios |-> << [id |-> "core", name |-> "Core"] >>,
     accounts |-> << [id |-> "broker", name |-> "Broker", platform |-> "x", currency |-> "USD"],
                     [id |-> "bank", name |-> "Bank", platform |-> "y", currency |-> "MXN"] >>,
     instruments |-> << [id |-> "btc", name |-> "Bitcoin", symbol |-> "BTC", currency |-> "USD"],
                        [id |-> "eth", name |-> "Ether", symbol |-> "ETH", currency |-> "USD"],
                        [id |-> "cete", name |-> "Cete", symbol |-> "CT", currency |-> "MXN"] >>,
     reserves |->
        << CapitalRecord("live", "USD", [id |-> "vault", amount |-> 10,
                                 lots |-> << Take("c1", 6), Take("c2", 4) >>]),
           CapitalRecord("live", "USD", [id |-> "cash", amount |-> 5]),
           CapitalRecord("live", "MXN", [id |-> "pesos", amount |-> 12, lots |-> << Take("c1", 12) >>]) >>,
     positions |->
        << CapitalRecord("live", "USD", [id |-> "old", instrument |-> "btc", direction |-> "long",
                                 markPrice |-> 2, openedAsOf |-> 1,
                                 lots |-> << Lot("c1", 2, 2), Lot("c2", 1, 2) >>]) >>,
     closes |-> << [instrument |-> "btc", asOf |-> 1, price |-> 3] >>]

SomePolicy == [splitBasis |-> "highWaterMark", wealth |-> 60, reserve |-> 40]
----------------------------------------------------------------------------
(* One constructor per verb; a lot is paid for at its cost.                *)

OpenAs(mode, currency, id, inst, lots, reserve) ==
    CapitalRecord(mode, currency,
          [type |-> "PositionOpened", position |-> id, instrument |-> inst, lots |-> lots,
           direction |-> "long", decision |-> REQUIRED_DECISION_FIELDS,
           amount |-> Cost(lots), reserve |-> reserve])
Open(id, inst, lots, reserve) == OpenAs("live", "USD", id, inst, lots, reserve)
Add(id, lot, reserve) ==
    [type |-> "PositionAddedTo", position |-> id, lot |-> lot,
     amount |-> Cost(<<lot>>), reserve |-> reserve]
Trim(id, removals, amount, reserve) ==
    [type |-> "PositionTrimmed", position |-> id, removals |-> removals,
     amount |-> amount, reserve |-> reserve]
Close(id, amount, reserve) ==
    [type |-> "PositionClosed", position |-> id, amount |-> amount, reserve |-> reserve]
Invalidate(id, level) ==
    [type |-> "InvalidationMarked", position |-> id, level |-> level, direction |-> "below"]
Mark(inst, price) ==
    [type |-> "PriceMarked", instrument |-> inst, price |-> price]
Cash(type, reserve, tier, amount) ==
    [type |-> type, reserve |-> reserve, tier |-> tier, amount |-> amount]
Move(from, to, tier, amount) ==
    [type |-> "Transfer", from |-> from, reserve |-> to, tier |-> tier, amount |-> amount]
Reserve(id) == CapitalRecord("live", "USD", [type |-> "ReserveOpened", reserve |-> id])

\* Each of the events, on each of the days.
On(days, events) == { ("asOf" :> day) @@ e : day \in days, e \in events }
----------------------------------------------------------------------------
\* The life of a position bought out of two tiers, of the reserve behind it, and of
\* the marks that value it beside another position in its instrument.
Bought == Open("p", "eth", << Lot("c1", 2, 2), Lot("c2", 1, 2) >>, "vault")

TradingEvents ==
    On({2, 3},
       { Bought,
         Add("p", Lot("c1", 1, 2), "vault"), Add("old", Lot("c3", 2, 1), "cash"),
         Trim("p", << Take("c1", 2), Take("c2", 1) >>, 5, "cash"),
         Close("p", 6, "vault"),
         Cash("Withdraw", "vault", "c1", 3),
         Cash("Deposit", "vault", "c3", 2), Cash("Withdraw", "vault", "c3", 2),
         Move("vault", "cash", "c2", 3), Move("cash", "vault", "c1", 4),
         Open("q", "eth", << Lot("c1", 2, 2), Lot("c2", 1, 3) >>, "cash"),
         Add("q", Lot("c1", 1, 5), "vault"),
         Mark("btc", 3), Mark("eth", 3) })

\* The dates at which positions and reserves are born, closed, and used.
DatedEvents ==
    On({2, 3, 4},
       { Open("p", "eth", << Lot("c1", 2, 2) >>, "vault"),
         Add("p", Lot("c1", 1, 2), "new"), Trim("p", << Take("c1", 1) >>, 2, "vault"),
         Close("p", 4, "vault"), Invalidate("p", 1),
         Reserve("new"), Cash("Deposit", "new", "c1", 2), Move("new", "vault", "c1", 2) })

\* A position that is added to and trimmed out of the order of the dates.
TrimEvents ==
    On({2, 3, 4},
       { Open("p", "eth", << Lot("c1", 2, 1) >>, "vault"), Add("p", Lot("c1", 2, 1), "vault"),
         Trim("p", << Take("c1", 1) >>, 1, "vault"), Trim("p", << Take("c1", 3) >>, 3, "vault"),
         Close("p", 1, "vault") })

\* A position of two tiers bought out of a reserve that has none.
OverdrawingEvents ==
    On({2, 3}, { Open("p", "eth", << Lot("c1", 2, 2), Lot("c2", 1, 3) >>, "cash") })
    \cup On({3}, { Cash("Deposit", "cash", "c1", 3), Cash("Withdraw", "cash", "c1", 2) })

\* A trim behind a close leaves it nothing to sell, and a purchase behind it something again.
RevivedEvents ==
    On({2}, { Open("p", "eth", << Lot("c1", 2, 1) >>, "vault") })
    \cup On({3}, { Add("p", Lot("c1", 1, 1), "vault") })
    \cup On({3, 4}, { Trim("p", << Take("c1", 1) >>, 1, "vault") })
    \cup On({4}, { Close("p", 1, "vault") })

\* An instrument marked before anything holds it.
EarlyMarkEvents ==
    On({2, 3}, { Mark("eth", 3), Open("p", "eth", << Lot("c1", 1, 2) >>, "vault") })
----------------------------------------------------------------------------
\* Positions in two currencies, bought at a rate of their own or at the day's, sold on and
\* off their marks, and lines that are no event at all.
Dearer == ("entryFx" :> 4) @@ Lot("c1", 2, 2)
Pesos(id, lots) == OpenAs("live", "MXN", id, "cete", lots, "pesos")
ReportedEvents ==
    On({2, 3},
       { Pesos("p", << Dearer >>), Pesos("p", << Lot("c1", 2, 2), Lot("c2", 1, 2) >>),
         Add("p", Dearer, "pesos"), Trim("p", << Take("c1", 1) >>, 3, "pesos"),
         Close("p", 4, "pesos"), Close("p", 3, "cash"),
         Trim("old", << Take("c1", 1), Take("c2", 1) >>, 4, "cash"), Close("old", 8, "vault"),
         Mark("btc", 4), Mark("cete", 3), ("usdMxn" :> 3) @@ Mark("btc", 3),
         Cash("Deposit", "pesos", "c1", 3), Cash("Withdraw", "cash", "c1", 2),
         Invalidate("old", 3) })
    \cup On({3},
       { Cash("Deposit", "cash", "c1", -6), Move("vault", "vault", "c1", 2),
         Pesos("p", << >>), Add("old", Lot("c1", 1, 0), "cash"),
         ("schemaVersion" :> 3) @@ Mark("btc", 3), ("amount" :> 5) @@ Reserve("new") })

\* A paper trade.
PaperEvents ==
    On({3}, { OpenAs("paper", "USD", "p", "eth", << Lot("c1", 1, 2) >>, "vault"),
              Close("p", 3, "vault") })

\* Four events of a trading life in the order of their dates, or five of the dated ones
\* in any order, or six about a close that finds nothing to sell.
TradingInOrder ==
    /\ ToSet(log) \subseteq TradingEvents /\ Len(log) < 4
    /\ \E e \in TradingEvents : (\A i \in DOMAIN log : log[i].asOf <= e.asOf) /\ Ingest(e)
DatedInAnyOrder ==
    /\ ToSet(log) \subseteq DatedEvents /\ Len(log) < 5
    /\ \E e \in DatedEvents : Ingest(e)
RevivedInAnyOrder ==
    ToSet(log) \subseteq RevivedEvents /\ \E e \in RevivedEvents : Ingest(e)
ReportedInOrder ==
    /\ ToSet(log) \subseteq ReportedEvents /\ Len(log) < 3
    /\ \E e \in ReportedEvents : (\A i \in DOMAIN log : log[i].asOf <= e.asOf) /\ Ingest(e)

AllEvents == TradingEvents \cup DatedEvents \cup RevivedEvents \cup ReportedEvents
MCSpec ==
    Init /\ [][TradingInOrder \/ DatedInAnyOrder \/ RevivedInAnyOrder \/ ReportedInOrder]_vars

\* The report is composed, and balances, after every log of the reported events.  The
\* other logs are long and many, and add nothing to it but time.
ReportedBalances == ToSet(log) \subseteq ReportedEvents => ReportBalances
=============================================================================
