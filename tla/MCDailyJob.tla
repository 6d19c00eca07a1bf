------------------------------- MODULE MCDailyJob -------------------------------
(***************************************************************************)
(* An instance of DailyJob for TLC: a coin that trades every day and a     *)
(* derived equity, over a few days with a weekend.                         *)
(***************************************************************************)
EXTENDS DailyJob, TLC

MCRegistry == ("btc" :> [source |-> "binance", derived |-> FALSE]) @@
              ("eww" :> [source |-> "twelvedata", derived |-> TRUE])

\* A breach of the floor on one day, and a fund that moved a little since.
MCFund == (0 :> [nav |-> 100, reserve |-> 20, floor |-> 10]) @@
          (1 :> [nav |-> 100, reserve |-> 8, floor |-> 10]) @@
          (2 :> [nav |-> 101, reserve |-> 20, floor |-> 10])
================================================================================
