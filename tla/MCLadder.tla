-------------------------------- MODULE MCLadder --------------------------------
(***************************************************************************)
(* Instances of Ladder for TLC: a ladder of two rungs and its position.    *)
(***************************************************************************)
EXTENDS Ladder, TLC

Offer(price, size) == [price |-> price, size |-> size, tier |-> "c1"]

Plan(at, tiers) ==
    [position |-> "p", at |-> at, kind |-> "dcaLadder", id |-> "L", tiers |-> tiers,
     rungs |-> << [id |-> "high", price |-> 2, size |-> 4], [id |-> "low", price |-> 1, size |-> 2] >>]
Other(position, at, kind) == [position |-> position, at |-> at, kind |-> kind]

MCDeclared == << Plan(1, << "c1" >>) >>

\* A plan is ended, or a line is written that this version does not know.
MCPlanLines == { Other("p", 2, "noPlan"), Other("p", 1, "newer") }

\* Two orders at the price of the high rung.
Twins == ("a" :> Offer(2, 2)) @@ ("b" :> Offer(2, 1))
\* One below another, and a third above both.
Stair == ("low" :> Offer(1, 1)) @@ ("high" :> Offer(2, 1)) @@ ("top" :> Offer(3, 1))
----------------------------------------------------------------------------
\* A push that no write falls into publishes what the invariants look at in every state.
\* Of the others, those that both writes of one act may fall into are taken, and what they
\* publish is looked at when it is.
MCNext ==
    /\ \/ push.step = "idle" /\ (Commands \/ Writes)
       \/ pc = "writing" /\ FoldLog
       \/ push.step \in {"orders", "log"} /\ (Writes \/ ReadOrders \/ ReadLog)
       \/ EndPush
    /\ Watch

MCSpec == Init /\ [][MCNext]_vars
================================================================================
