-------------------------------- MODULE Orders --------------------------------
(***************************************************************************)
(* The pure reading of orders.jsonl (packages/engine/src/orders/select.ts, *)
(* committed.ts and fill.ts): which rungs are still resting, how much the  *)
(* fund has booked against one, and which fill acts are half on disk.      *)
(*                                                                         *)
(* A record is [kind, id, at, quantity]; the quantity is the size placed,  *)
(* the size filled, or the cumulative fill observed.  A placed record      *)
(* carries the fill already observed too.  Every rung is a buy.            *)
(***************************************************************************)
EXTENDS Lists, SequencesExt

Placed(id, at, quantity, observed) ==
    [kind |-> "orderPlaced", id |-> id, at |-> at, quantity |-> quantity, observed |-> observed]
Cancelled(id, at) == [kind |-> "orderCancelled", id |-> id, at |-> at, quantity |-> 0]
Filled(id, at, quantity) ==
    [kind |-> "orderFilled", id |-> id, at |-> at, quantity |-> quantity]
FillObserved(id, at, quantity) ==
    [kind |-> "orderFillObserved", id |-> id, at |-> at, quantity |-> quantity]

\* The lines in the order of their stamps and, on one stamp, of the file.
Inserted(lines, r) ==
    LET earlier == Cardinality({ i \in DOMAIN lines : lines[i].at <= r.at })
    IN  SubSeq(lines, 1, earlier) \o <<r>> \o SubSeq(lines, earlier + 1, Len(lines))

ReplayOrder(records) ==
    LET sorted[n \in 0 .. Len(records)] ==
            IF n = 0 THEN <<>> ELSE Inserted(sorted[n - 1], records[n])
    IN  sorted[Len(records)]

Retire(rungs, id) == Restrict(rungs, DOMAIN rungs \ {id})

\* What one line makes of the rungs: placing and observing set what a rung has consumed,
\* filling adds to it.
Replay(rungs, r) ==
    CASE r.kind = "orderPlaced" /\ r.id \notin DOMAIN rungs ->
            [id \in DOMAIN rungs \cup {r.id} |->
                IF id = r.id THEN [placed |-> r, consumed |-> r.observed] ELSE rungs[id]]
      [] r.kind = "orderCancelled" -> Retire(rungs, r.id)
      [] r.kind = "orderFilled" /\ r.id \in DOMAIN rungs ->
            [rungs EXCEPT ![r.id].consumed = @ + r.quantity]
      [] r.kind = "orderFillObserved" /\ r.id \in DOMAIN rungs ->
            [rungs EXCEPT ![r.id].consumed = r.quantity]
      [] OTHER -> rungs

\* foldOrderStream: one consumed baseline per rung that was placed and not
\* cancelled since.
FoldOrderStream(records) ==
    LET lines == ReplayOrder(records)
        fold[n \in 0 .. Len(lines)] ==
            IF n = 0 THEN [id \in {} |-> <<>>] ELSE Replay(fold[n - 1], lines[n])
    IN  fold[Len(lines)]

\* pickRestingOrdersAsOf and committedRungs: what is placed and not yet consumed.
Resting(records) ==
    LET rungs == FoldOrderStream(records)
        remaining(id) == rungs[id].placed.quantity - rungs[id].consumed
    IN  [id \in { x \in DOMAIN rungs : remaining(x) > 0 } |->
            [at |-> rungs[id].placed.at, quantity |-> rungs[id].placed.quantity,
             remaining |-> remaining(id)]]

\* The fills the fund recorded on a rung, wherever they are in the file.
BookedFills(records, id) ==
    Total([i \in DOMAIN records |->
        IF records[i].kind = "orderFilled" /\ records[i].id = id THEN records[i].quantity ELSE 0])

FillEventId(id, at) == <<id, at>>

\* reconcileFillActs: the acts with one half on disk and not the other.
FillsOnFile(records) ==
    { FillEventId(r.id, r.at) : r \in { x \in ToSet(records) : x.kind = "orderFilled" } }
LotsOnLog(events) == { e.id : e \in { x \in ToSet(events) : x.type = "fill" } }
LotsWithoutFill(events, records) == LotsOnLog(events) \ FillsOnFile(records)
FillsWithoutLot(events, records) == FillsOnFile(records) \ LotsOnLog(events)
TornActs(events, records) ==
    (LotsWithoutFill(events, records) \X {"lot-without-fill"}) \cup
    (FillsWithoutLot(events, records) \X {"fill-without-lot"})
=============================================================================
