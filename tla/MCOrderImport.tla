----------------------------- MODULE MCOrderImport -----------------------------
(***************************************************************************)
(* An instance of OrderImport for TLC: two buys of one market and two      *)
(* rungs, exports that agree, restate, amend, collide and do not parse.    *)
(***************************************************************************)
EXTENDS OrderImport, TLC

CONSTANTS p1, p2

Row(symbol, spelling, quantity, filled, fault, descriptor) ==
    [symbol |-> symbol, side |-> "buy", currency |-> "USD", at |-> 1,
     price |-> [value |-> 1, spelling |-> spelling],
     quantity |-> quantity, filled |-> filled, fault |-> fault, descriptor |-> descriptor]

MCExports ==
    { << Row("BTC", "1.0", 2, 1, "none", "none"), Row("XRP", "1", 1, 0, "status", "none"),
         Row("BTC", "1.00", 2, 1, "none", "none") >>,
      << Row("ETH", "1", 1, 0, "none", "none"), Row("SOL", "1", 1, 0, "none", "none") >> }

\* The venue has filled three of the four.
MCSeenExports == { << Row("BTC", "1.0", 4, 3, "none", "none") >> }

\* A file where two imports at once left the lower observation last.
MCFile ==
    LET id == <<"BTC", "buy", [value |-> 1, spelling |-> "canonical"], 1>>
        seen(quantity) == [kind |-> "orderFillObserved", id |-> id, at |-> 1, quantity |-> quantity]
    IN  << [kind |-> "orderPlaced", id |-> id, at |-> 1, quantity |-> 4, observed |-> 0,
            proposed |-> FALSE, price |-> id[3], side |-> "buy", currency |-> "USD",
            descriptor |-> "none", reserve |-> "main",
            pick |-> [plan |-> "none", rung |-> "none"]], seen(2), seen(1) >>

\* A file with one placement, and nothing seen of it yet.
MCPlacedFile == SubSeq(MCFile, 1, 1)

Cash(held) == ("main" :> [currency |-> "USD", fundable |-> TRUE, balance |-> held]) @@
                 ("paper" :> [currency |-> "USD", fundable |-> FALSE, balance |-> 9])
MCReserves == Cash(3)
MCRicherReserves == Cash(4)

TraderSymmetry == Permutations(Traders)

MCLadders == << [plan |-> "L", rung |-> "a", price |-> 1] >>
================================================================================
