------------------------------- MODULE FillPath -------------------------------
(***************************************************************************)
(* A declared ladder beside what the venue and the fund did with it:       *)
(* packages/engine/src/fill-path.ts and orders/monotonicity.ts, the block  *)
(* that apps/web/src/push/dca-block.ts makes of them for a day, and the    *)
(* pages apps/web/src/{ladder/fill-path-view,glance/dca-view}.ts read.     *)
(*                                                                         *)
(* A placed line carries pick, the rung it declares, and its price; a lot  *)
(* is [order, quantity, cost].  Everything is in dollars.                  *)
(***************************************************************************)
EXTENDS Orders, Plans

NoPick == [plan |-> "none", rung |-> "none"]

Sum(f) == SumFunction(f)
SumOfSizes(rungs) == Sum([r \in rungs |-> r.size])
----------------------------------------------------------------------------
(* The join of orders and rungs.                                           *)

\* The placement lines the fold keeps, in the order in which it met them.
Live(orders) ==
    LET rungs == FoldOrderStream(orders)
    IN  Where(ReplayOrder(orders), LAMBDA r :
            r.kind = "orderPlaced" /\ r.id \in DOMAIN rungs /\ rungs[r.id].placed = r)

\* retiredPlacements, the first of each id, of those the fund booked a fill against.
Retired(orders) ==
    LET live == DOMAIN FoldOrderStream(orders)
        cancelled == { r.id : r \in { x \in ToSet(orders) : x.kind = "orderCancelled" } }
        isFirst(i) == \A j \in 1 .. i - 1 :
                        orders[j].kind = "orderPlaced" => orders[j].id # orders[i].id
    IN  Kept(orders, { i \in DOMAIN orders :
            /\ orders[i].kind = "orderPlaced" /\ isFirst(i)
            /\ orders[i].id \in cancelled \ live /\ BookedFills(orders, orders[i].id) > 0 })

Declares(placed, plan, rung) == placed.pick = [plan |-> plan.id, rung |-> rung.id]
IsAt(placed, rung) == placed.pick = NoPick /\ placed.price = rung.price

\* Mutant: the order in which the orders were placed decides, not what they declare.
JoinedAsPlaced(plan, rung, live, retired) ==
    LET fits(r) == Declares(r, plan, rung) \/ IsAt(r, rung)
    IN  Where(live, fits) \o Where(retired, fits)

\* joinOrdersToRungs: what may stand for a rung, the first of which does.  An order
\* that declares it, then one at its price that declares nothing, then a cancelled one.
Joined(plan, rung, live, retired) ==
    LET declares(r) == Declares(r, plan, rung)
        isAt(r) == IsAt(r, rung)
    IN  Where(live, declares) \o Where(live, isAt) \o
        Where(retired, LAMBDA r : declares(r) \/ isAt(r))

VenueAxis(consumed, placed) ==
    IF consumed <= 0 THEN "resting"
    ELSE IF consumed >= placed.quantity THEN "filled" ELSE "partly-filled"

BookAxis(booked, consumed) ==
    IF booked <= 0 THEN "not-recorded"
    ELSE IF booked >= consumed THEN "recorded" ELSE "partly-recorded"

NotPlaced(rung) ==
    [rung |-> rung, joined |-> FALSE, order |-> "none", venueAxis |-> "not-placed",
     bookAxis |-> "not-recorded", consumed |-> 0, resting |-> FALSE]

FillPathRung(orders, folded, joined, rung) ==
    IF joined = <<>> THEN NotPlaced(rung)
    ELSE LET placed == Head(joined)
             retired == placed.id \notin DOMAIN folded
             consumed == IF retired THEN 0 ELSE folded[placed.id].consumed
             booked == BookedFills(orders, placed.id)
         IN  [rung |-> rung, joined |-> TRUE, order |-> placed.id,
              venueAxis |-> IF retired THEN "not-placed" ELSE VenueAxis(consumed, placed),
              bookAxis |-> IF retired THEN "recorded" ELSE BookAxis(booked, consumed),
              consumed |-> consumed,
              resting |-> ~ retired /\ placed.quantity > consumed]

\* Mutant: lots and fills are held against each other as sets.
OrphansOfDistinct(lots, orders, explained) ==
    LET fills == { orders[i].quantity : i \in { j \in DOMAIN orders :
                        orders[j].kind = "orderFilled" /\ orders[j].id \in explained } }
    IN  Cardinality({ i \in DOMAIN lots : lots[i].quantity \notin fills })

\* orphansOf: the lots left when every fill of an order that joined is spent on one of
\* its quantity.
OrphansOf(lots, orders, explained) ==
    LET quantities == { lots[i].quantity : i \in DOMAIN lots }
        ofSize(q) == Cardinality({ i \in DOMAIN lots : lots[i].quantity = q })
        fills(q) == Cardinality({ i \in DOMAIN orders : orders[i].kind = "orderFilled"
                        /\ orders[i].id \in explained /\ orders[i].quantity = q })
    IN  Sum([q \in quantities |-> Max({0, ofSize(q) - fills(q)})])

\* measure: no figure at all where there is no lot.
Measure(lots) ==
    [units |-> Sum([i \in DOMAIN lots |-> lots[i].quantity]),
     deployed |-> Sum([i \in DOMAIN lots |-> lots[i].quantity * lots[i].cost])]

ReconcileFillPath(plan, orders, lots) ==
    LET folded == FoldOrderStream(orders)
        live == Live(orders)
        retired == Retired(orders)
        rungs == { FillPathRung(orders, folded, Joined(plan, r, live, retired), r) :
                        r \in ToSet(plan.rungs) }
    IN  [rungs |-> rungs,
         figures |-> Measure(lots),
         waitingDeclared |-> SumOfSizes({ r.rung : r \in { x \in rungs : x.venueAxis # "filled" } }),
         waitingResting |-> SumOfSizes({ r.rung : r \in { x \in rungs : x.resting } }),
         orphans |-> OrphansOf(lots, orders, { r.order : r \in rungs })]

\* label: the words of the engine for the two axes.
Label(r) ==
    CASE r.venueAxis = "not-placed" ->
            IF r.bookAxis = "recorded" THEN "cancelled, with fills" ELSE "not placed"
      [] r.venueAxis = "resting" -> "waiting"
      [] r.venueAxis = "partly-filled" -> "partly filled"
      [] OTHER -> CASE r.bookAxis = "recorded" -> "filled"
                    [] r.bookAxis = "not-recorded" -> "filled at venue, not recorded"
                    [] OTHER -> "filled at venue, partly recorded"
----------------------------------------------------------------------------
(* The block of a day and the pages that show it.                          *)

\* selectOrdersThrough, and the same cut of the lots.
Through(orders, asOf) == Kept(orders, { i \in DOMAIN orders : orders[i].at <= asOf })
LotsThrough(lots, asOf) == Kept(lots, { i \in DOMAIN lots : lots[i].id[2] <= asOf })

\* toWireRung: a rung no order joined carries no axis.
ToWireRung(r) ==
    [rung |-> r.rung, order |-> r.order, label |-> Label(r),
     venueAxis |-> IF r.joined THEN r.venueAxis ELSE "absent",
     bookAxis |-> IF r.joined THEN r.bookAxis ELSE "absent",
     consumed |-> r.consumed, resting |-> r.resting]

\* The row of a position: its state, and the ladder's rungs if there is one in force.
DcaRow(lookup, orders, lots) ==
    IF ~ InForce(lookup) \/ lookup.plan.kind # "dcaLadder" THEN [state |-> lookup.status]
    ELSE LET view == ReconcileFillPath(lookup.plan, orders, lots)
         IN  [state |-> lookup.status, plan |-> lookup.plan,
              rungs |-> { ToWireRung(r) : r \in view.rungs },
              waitingDeclared |-> view.waitingDeclared, waitingResting |-> view.waitingResting,
              figures |-> view.figures, orphans |-> view.orphans]

DcaRows(roster, orders, lots) ==
    [p \in { x \in DOMAIN roster : roster[x].status # "none" } |->
        DcaRow(roster[p], orders, Where(lots, LAMBDA l : l.position = p))]

\* buildDcaBlock: everything is cut at the day.
BuildDcaBlock(loaded, asOf, fold, orders, events) ==
    [source |-> loaded.status,
     positions |-> DcaRows(ListPlansAsOf(loaded, asOf, fold.existing),
                           Through(orders, asOf), fold.lots),
     unattributable |-> Cardinality(Unattributable(loaded)),
     torn |-> TornActs(LotsThrough(events, asOf), Through(orders, asOf))]

NeedsRecording(rung) ==
    rung.consumed > 0 /\ rung.bookAxis \notin {"absent", "recorded"}

VenueFilled(rung) == rung.venueAxis = "filled"

\* rungStateCopy: the words of the page for the same two axes.
RungStateCopy(rung) ==
    CASE rung.venueAxis = "absent" -> "not placed"
      [] rung.venueAxis = "not-placed" ->
            IF rung.bookAxis = "recorded" THEN "cancelled, with fills" ELSE "not placed"
      [] rung.venueAxis = "resting" -> "waiting"
      [] rung.venueAxis = "partly-filled" -> "partly filled"
      [] OTHER -> CASE rung.bookAxis = "recorded" -> "filled"
                    [] rung.bookAxis = "partly-recorded" -> "filled at venue, partly recorded"
                    [] OTHER -> "filled at venue, not recorded"

\* alertFor: the card of the front page.
AlertFor(row) ==
    [rungs |-> Cardinality(row.rungs),
     filled |-> Cardinality({ r \in row.rungs : VenueFilled(r) }),
     needsRecording |-> Cardinality({ r \in row.rungs : NeedsRecording(r) })]

WaitingFigures(row) ==
    IF row.waitingDeclared <= 0 THEN "nothing-waiting"
    ELSE IF row.waitingDeclared > row.waitingResting THEN "partly-unplaced" ELSE "all-resting"

\* composeFillPathPage, of a ladder that is in the snapshot.
ComposeFillPathPage(row) ==
    [copy |-> [r \in row.rungs |-> RungStateCopy(r)],
     filledNotRecorded |-> Cardinality({ r \in row.rungs : NeedsRecording(r) }),
     filledRungs |-> Cardinality({ r \in row.rungs : VenueFilled(r) }),
     notStarted |-> row.figures.units = 0,
     waiting |-> WaitingFigures(row)]
----------------------------------------------------------------------------
(* The guard of the fill act: orders/monotonicity.ts.                      *)

\* The resting buys, with the price each was placed at.
RestingBook(records) ==
    LET rungs == FoldOrderStream(records)
    IN  { [id |-> id, at |-> rungs[id].placed.at, price |-> rungs[id].placed.price,
           quantity |-> rungs[id].placed.quantity,
           remaining |-> rungs[id].placed.quantity - rungs[id].consumed] :
            id \in { x \in DOMAIN rungs : rungs[x].placed.quantity > rungs[x].consumed } }

\* scopeBookForFill, partitionByMoment: the rungs that were placed by then.
ScopeBook(book, observedAt) == { r \in book : r.at <= observedAt }

\* What is gone from the book, and what is there but untouched; present says how much of
\* each rung that is still on the book has been filled.
UntouchedAbove(scope, present, rung) ==
    { r \in scope : r.price > rung.price /\ r.id \in DOMAIN present /\ present[r.id] = 0 }

Impossible(scope, present) ==
    \/ DOMAIN present \ { r.id : r \in scope } # {}
    \/ \E r \in { x \in scope : x.id \in DOMAIN present } :
        \/ present[r.id] > r.quantity
        \/ present[r.id] > 0 /\ UntouchedAbove(scope, present, r) # {}

\* proposeFillVerdicts, of a book that is possible.
Verdict(scope, present, rung) ==
    IF rung.id \in DOMAIN present
    THEN IF present[rung.id] > 0 THEN "touched" ELSE "resting"
    ELSE IF UntouchedAbove(scope, present, rung) # {} THEN "cancelled" ELSE "filled"
=============================================================================
