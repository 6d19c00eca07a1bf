-------------------------------- MODULE Ladder --------------------------------
(***************************************************************************)
(* A ladder of buys, from the venue to the page: the orders rest and fill  *)
(* at the venue; imports, cancellations and fill acts write what the       *)
(* operator saw of them to orders.jsonl and events.jsonl; each act is held *)
(* against plans.jsonl and the outcome told in reconciliations.jsonl; and  *)
(* the push reads three of the files, one after the other, into the block  *)
(* that the page shows.                                                    *)
(*                                                                         *)
(* The operator is truthful: an answer of the interview is what the venue  *)
(* shows.  The order of the writes inside an append, the staleness of the  *)
(* interviews and the balances are FillAct's and OrderImport's.  One step  *)
(* of the clock stands for a second and for a day; an export is taken in a *)
(* later second than the fills it shows on an order already on file.       *)
(***************************************************************************)
EXTENDS FillPath

CONSTANTS Offers,     \* the orders: id -> [price, size, tier]
          Positions,  \* the positions a ladder may build
          Declared,   \* plans.jsonl when the model starts
          PlanLines,  \* the lines a hand may add to it
          MaxNow,     \* bound: stamps are 1 .. MaxNow
          MaxOrders,  \* bound: the lines of orders.jsonl
          MaxIncidents  \* bound: plans written, crashes, failing calls, lines of a newer build

ASSUME LadderAssumption ==
    /\ IsFiniteSet(DOMAIN Offers) /\ MaxNow \in Nat \ {0} /\ MaxOrders \in Nat /\ MaxIncidents \in Nat
    /\ \A id \in DOMAIN Offers : Offers[id].size \in Nat \ {0} /\ Offers[id].price \in Nat \ {0}

ASSUME PlansAssumption ==
    /\ Unreadable \notin Positions \cup Nat
    /\ Declared \in Seq(ToSet(Declared))
    /\ \A line \in ToSet(Declared) \cup PlanLines :
        /\ {"position", "at", "kind"} \subseteq DOMAIN line /\ line.at \in Nat \cup {Unreadable}
        /\ line.kind = "dcaLadder" =>
            "rungs" \in DOMAIN line /\ line.rungs \in Seq(ToSet(line.rungs))

VARIABLES
    now,     \* the clock
    venue,   \* what became of each order: [state, at, filled, last]
    plans,   \* plans.jsonl
    orders,  \* orders.jsonl
    log,     \* the lots of events.jsonl
    trail,   \* reconciliations.jsonl
    pc,      \* the step the fill act is about to take
    act,     \* what it is about to write, or NoAct
    push,    \* what the push has read so far
    seen,    \* the acts that were torn at some moment since the push began
    incidents

files == <<plans, orders, log, trail>>
vars == <<now, venue, files, pc, act, push, seen, incidents>>

NoAct == [id |-> <<>>]
NoPush ==
    [step |-> "idle", asOf |-> 0, plans |-> <<>>, fold |-> <<>>, orders |-> <<>>, log |-> <<>>]

Init ==
    /\ now = 1
    /\ venue = [id \in DOMAIN Offers |-> [state |-> "absent", at |-> 0, filled |-> 0, last |-> 0]]
    /\ plans = Declared /\ orders = <<>> /\ log = <<>> /\ trail = <<>>
    /\ pc = "idle" /\ act = NoAct
    /\ push = NoPush /\ seen = {} /\ incidents = 0

Incident == incidents < MaxIncidents /\ incidents' = incidents + 1
----------------------------------------------------------------------------
(* The world: the clock, the venue, and the hand that writes the plans.    *)

Tick ==
    /\ now < MaxNow /\ now' = now + 1
    /\ UNCHANGED <<venue, files, pc, act, push, incidents>>

VenuePlaces(id) ==
    /\ venue[id].state = "absent"
    /\ venue' = [venue EXCEPT ![id].state = "resting", ![id].at = now]
    /\ UNCHANGED <<now, files, pc, act, push, incidents>>

\* A buy above the price fills; one at the price fills in part or in full.
PriceFalls(level) ==
    LET touched == { id \in DOMAIN Offers :
                        venue[id].state = "resting" /\ Offers[id].price >= level }
        fill(v, size, quantity) ==
            [v EXCEPT !.filled = Min({size, @ + quantity}), !.last = now,
                      !.state = IF v.filled + quantity >= size THEN "filled" ELSE "resting"]
    IN  /\ touched # {}
        /\ \E part \in { Offers[id].size : id \in touched } \cup {1} :
            venue' = [id \in DOMAIN venue |->
                IF id \notin touched THEN venue[id]
                ELSE fill(venue[id], Offers[id].size,
                          IF Offers[id].price > level THEN Offers[id].size ELSE part)]
        /\ UNCHANGED <<now, files, pc, act, push, incidents>>

VenueCancels(id) ==
    /\ venue[id].state = "resting"
    /\ venue' = [venue EXCEPT ![id].state = "cancelled", ![id].last = now]
    /\ UNCHANGED <<now, files, pc, act, push, incidents>>

AuthorPlan ==
    /\ Incident
    /\ \E line \in PlanLines : plans' = Append(plans, line)
    /\ UNCHANGED <<now, venue, orders, log, trail, pc, act, push>>
----------------------------------------------------------------------------
(* orders:import and orders:cancel, each at once.                          *)

OnFile(id) == \E r \in ToSet(orders) : r.kind = "orderPlaced" /\ r.id = id
Observed(file, id) ==
    Max({0} \cup { r.observed : r \in { x \in ToSet(file) : x.kind = "orderPlaced" /\ x.id = id } }
            \cup { r.quantity : r \in { x \in ToSet(file) :
                                        x.kind = "orderFillObserved" /\ x.id = id } })

\* The proposals for a batch, taken or declined together: each the one rung at the price,
\* unless an order before it has it.  The menu of a declined batch is OrderImport's.
Proposals(new) ==
    LET ladders == InForceLadders(LoadPlans(plans), now)
        onFile == { r.pick : r \in { x \in ToSet(orders) : x.kind = "orderPlaced" } }
        at(i) == ProposeRungByPrice(ladders, Offers[new[i]].price) \ onFile
    IN  [i \in DOMAIN new |->
            LET free == at(i) \ UNION { at(j) : j \in 1 .. (i - 1) }
            IN  IF free = {} THEN NoPick ELSE CHOOSE pick \in free : TRUE]

PlacedLine(id, pick) ==
    [kind |-> "orderPlaced", id |-> id, at |-> venue[id].at, quantity |-> Offers[id].size,
     observed |-> venue[id].filled, pick |-> pick, price |-> Offers[id].price]

\* The export of the open orders: the new ones are placed with what was filled already,
\* the others observed when what is filled is news.
Import ==
    LET open == { id \in DOMAIN Offers : venue[id].state = "resting" }
        new == { id \in open : ~ OnFile(id) }
        news == { id \in open \ new : Observed(orders, id) < venue[id].filled
                                      /\ id \in DOMAIN FoldOrderStream(orders) }
        placed == SetToSeq(new)
        restated == SetToSeq(news)
    IN  /\ new \cup news # {} /\ Len(orders) < MaxOrders
        /\ \A id \in news : venue[id].last < now
        /\ \E picks \in {Proposals(placed), [i \in DOMAIN placed |-> NoPick]} :
            orders' = orders \o
                [i \in DOMAIN placed |-> PlacedLine(placed[i], picks[i])] \o
                [i \in DOMAIN restated |->
                    FillObserved(restated[i], now, venue[restated[i]].filled)]
        /\ UNCHANGED <<now, venue, plans, log, trail, pc, act, push, incidents>>

RecordCancel(id) ==
    /\ venue[id].state = "cancelled" /\ Len(orders) < MaxOrders
    /\ id \in DOMAIN Resting(orders)
    /\ orders' = Append(orders, Cancelled(id, venue[id].last))
    /\ UNCHANGED <<now, venue, plans, log, trail, pc, act, push, incidents>>
----------------------------------------------------------------------------
(* orders:fill (apps/tui/src/record-fill.ts).                              *)

Existing(events) == { e.position : e \in ToSet(events) }

\* What the venue shows of the rungs in scope; of the rung that filled, what follows
\* from the quantity recorded.
Present(scope, rung, quantity) ==
    LET left == { r.id : r \in { x \in scope : x.id # rung.id /\ venue[x.id].state = "resting" } }
        own == IF quantity < rung.remaining THEN {rung.id} ELSE {}
    IN  [id \in left \cup own |->
            IF id = rung.id THEN rung.quantity - rung.remaining + quantity ELSE venue[id].filled]

\* The interview, on the book as the file has it, refused while an act is torn.
Interview(id) ==
    /\ pc = "idle" /\ venue[id].filled > BookedFills(orders, id)
    /\ TornActs(log, orders) = {}
    /\ FillEventId(id, venue[id].last) \notin LotsOnLog(log)
    /\ \E rung \in RestingBook(orders), position \in Positions :
        /\ rung.id = id /\ rung.at <= venue[id].last
        /\ \E quantity \in 1 .. Min({rung.remaining,
                                     venue[id].filled - BookedFills(orders, id)}) :
            LET scope == ScopeBook(RestingBook(orders), venue[id].last)
                present == Present(scope, rung, quantity)
                derived == { r.id : r \in { x \in scope : Verdict(scope, present, x) = "cancelled" } }
            IN  /\ ~ Impossible(scope, present)
                /\ Verdict(scope, present, rung) \notin {"cancelled", "resting"}
                /\ \E cancelled \in {derived, {}} :
                    act' = [id |-> FillEventId(id, venue[id].last), quantity |-> quantity,
                            cancelled |-> cancelled, position |-> position,
                            existing |-> Existing(log)]
    /\ pc' = "writing"
    /\ UNCHANGED <<now, venue, files, push, incidents>>

\* Both halves of the act, the log first.
WriteLog ==
    /\ pc = "writing" /\ pc' = "appending"
    /\ log' = Append(log, [type |-> "fill", id |-> act.id, position |-> act.position,
                           quantity |-> act.quantity, cost |-> Offers[act.id[1]].price])
    /\ UNCHANGED <<now, venue, plans, orders, trail, act, push, incidents>>

AppendOrders ==
    /\ pc = "appending" /\ pc' = "telling"
    /\ LET cancelled == SetToSeq(act.cancelled)
       IN  orders' = orders \o << Filled(act.id[1], act.id[2], act.quantity) >> \o
                [i \in DOMAIN cancelled |-> Cancelled(cancelled[i], act.id[2])]
    /\ UNCHANGED <<now, venue, plans, log, trail, act, push, incidents>>

\* Mutant: the act that was rolled back is told.
AppendOrdersFailsTold ==
    /\ pc = "appending" /\ Incident /\ pc' = "telling"
    /\ log' = SubSeq(log, 1, Len(log) - 1)
    /\ UNCHANGED <<now, venue, plans, orders, trail, act, push>>

\* The log is put back as it was before the lot.
AppendOrdersFails ==
    /\ pc = "appending" /\ Incident /\ pc' = "idle" /\ act' = NoAct
    /\ log' = SubSeq(log, 1, Len(log) - 1)
    /\ UNCHANGED <<now, venue, plans, orders, trail, push>>

\* reconcileRecordedFill: the fill against the plan of its day.
Line(loaded) ==
    LET told == ReconcileAgainstPlan(
                    PickPlanAsOf(loaded, act.position, act.id[2], act.existing),
                    Offers[act.id[1]].tier)
    IN  [position |-> act.position, event |-> act.id, at |-> act.id[2],
         declared |-> told.declared, mismatches |-> told.mismatches]

\* Mutant: the act stays in hand when it was told.
TellKeepsAct ==
    /\ pc = "telling" /\ pc' = "idle" /\ UNCHANGED act
    /\ trail' = Append(trail, Line(LoadPlans(plans)))
    /\ UNCHANGED <<now, venue, plans, orders, log, push, incidents>>

Tell ==
    /\ pc = "telling" /\ pc' = "idle" /\ act' = NoAct
    /\ trail' = Append(trail, Line(LoadPlans(plans)))
    /\ UNCHANGED <<now, venue, plans, orders, log, push, incidents>>

\* The plans are unreadable, the trail is, or a newer build told what this one cannot read.
TellFails ==
    /\ pc = "telling" /\ Incident /\ pc' = "idle" /\ act' = NoAct
    /\ \/ trail' = Append(trail, Line(LoadFailed))
       \/ trail' = Append(trail, [Line(LoadPlans(plans)) EXCEPT !.mismatches = {"newer"}])
       \/ UNCHANGED trail
    /\ UNCHANGED <<now, venue, plans, orders, log, push>>

Crash ==
    /\ pc # "idle" /\ Incident /\ pc' = "idle" /\ act' = NoAct
    /\ UNCHANGED <<now, venue, files, push>>
----------------------------------------------------------------------------
(* The push of a day (apps/web/src/push/push-core.ts).                     *)

PushUnchanged == UNCHANGED <<now, venue, files, pc, act, incidents>>

\* The log is folded up to a day, and the plans are read.  A push is of today; the days
\* before it are looked at in Ladders.
FoldedAt(asOf) ==
    LET lots == LotsThrough(log, asOf)
    IN  [existing |-> Existing(lots), lots |-> lots]

FoldLog ==
    /\ push.step = "idle"
    /\ push' = [NoPush EXCEPT !.step = "orders", !.asOf = now, !.plans = plans,
                                !.fold = FoldedAt(now)]
    /\ PushUnchanged

ReadOrders ==
    /\ push.step = "orders"
    /\ push' = [push EXCEPT !.step = "log", !.orders = orders]
    /\ PushUnchanged

\* Mutant: the log that was folded is not read again.
ReadLogOnce ==
    /\ push.step = "log"
    /\ push' = [push EXCEPT !.step = "published", !.log = push.fold.lots]
    /\ PushUnchanged

ReadLog ==
    /\ push.step = "log"
    /\ push' = [push EXCEPT !.step = "published", !.log = log]
    /\ PushUnchanged

EndPush ==
    /\ push.step = "published" /\ push' = NoPush
    /\ PushUnchanged

Commands ==
    \/ Tick \/ AuthorPlan
    \/ \E id \in DOMAIN Offers :
        VenuePlaces(id) \/ VenueCancels(id) \/ RecordCancel(id) \/ Interview(id)
    \/ \E level \in { Offers[id].price : id \in DOMAIN Offers } : PriceFalls(level)
    \/ Import \/ Tell \/ TellFails

Writes == WriteLog \/ AppendOrders \/ AppendOrdersFails \/ Crash

Pushing == FoldLog \/ ReadOrders \/ ReadLog \/ EndPush

\* seen is history: the torn acts that there were since a push began.
Watch ==
    seen' = CASE push'.step = "idle" -> {}
              [] push'.step = "published" -> seen
              [] OTHER -> seen \cup TornActs(log', orders')

Next == (Commands \/ Writes \/ Pushing) /\ Watch

Spec == Init /\ [][Next]_vars
----------------------------------------------------------------------------
Steps == {"idle", "writing", "appending", "telling"}

TypeOK ==
    /\ now \in 1 .. MaxNow
    /\ \A id \in DOMAIN Offers :
        /\ venue[id].state \in {"absent", "resting", "filled", "cancelled"}
        /\ venue[id].filled \in 0 .. Offers[id].size
        /\ venue[id].state = "filled" <=> venue[id].filled = Offers[id].size
    /\ \A r \in ToSet(orders) : r.id \in DOMAIN Offers /\ r.at \in 1 .. now /\ r.quantity \in Nat
    /\ \A l \in ToSet(trail) : l.event \in (DOMAIN Offers) \X (1 .. now)
    /\ pc \in Steps /\ (pc = "idle" <=> act = NoAct)
    /\ push.step \in {"idle", "orders", "log", "published"}

\* A plan or a verdict that is shown is certain (engine/plans.ts 479-490 and
\* reconciliations.ts 433-455: a line that could not be read may be the one in force):
\* it is the same whatever a line of its position that could not be read said, when what was
\* left of it dates it as it was written.
PlanIsCertain ==
    LET loaded == LoadPlans(plans)
    IN  \A position \in Positions, asOf \in 1 .. MaxNow :
        LET shown == PickPlanAsOf(loaded, position, asOf, {})
        IN  shown.status # "unreadable" =>
            \A skip \in { l \in loaded.skipped : l.position = position /\ l.at # Unreadable } :
                LET read == LoadPlans([plans EXCEPT ![skip.line] =
                                [position |-> position, at |-> skip.at, kind |-> "noPlan"]])
                IN  PickPlanAsOf(read, position, asOf, {}) = shown

VerdictIsCertain ==
    LET loaded == LoadReconciliations(trail)
    IN  \A position \in Positions, asOf \in 1 .. MaxNow :
        LET shown == PickReconciliationAsOf(loaded, position, asOf)
        IN  shown # "unknown" =>
            \A skip \in { l \in loaded.skipped : l.position = position },
               mismatches \in SUBSET Mismatches :
                PickReconciliationAsOf(
                    LoadReconciliations([trail EXCEPT ![skip.line].mismatches = mismatches]),
                    position, asOf) = shown

ReadIsCertain == PlanIsCertain /\ VerdictIsCertain

\* "An act that is not on file is not told" (record-fill.ts 1062-1080): a line of the
\* trail is about one fill, which is on both files, and no fill is told twice.
TrailFollowsTheAct ==
    /\ \A l \in ToSet(trail) : l.event \in LotsOnLog(log) \cap FillsOnFile(orders)
    /\ IsInjective([i \in DOMAIN trail |-> trail[i].event])

\* The orders are read before the log, which an act writes first (push-core.ts 377-395):
\* an act published as torn was torn, on that side, at some moment since the push began.
TearIsReal ==
    push.step = "published" =>
        BuildDcaBlock(LoadPlans(push.plans), push.asOf, push.fold, push.orders, push.log).torn
            \subseteq seen

\* The ladders of a day, as a push publishes them of the files as they are.
Ladders(asOf) ==
    LET block == BuildDcaBlock(LoadPlans(plans), asOf, FoldedAt(asOf), orders, log)
    IN  { row \in Range(block.positions) : "rungs" \in DOMAIN row }

\* A fill that the venue showed and the fund did not book is never passed over
\* (fill-path.ts 162-178, dca-view.ts 110-125): the rung that its order alone declares is
\* counted on the card and on the page as needing a record, in the words of the engine.
UnrecordedFillIsFlagged ==
    pc = "idle" /\ push = NoPush => \A asOf \in 1 .. now :
        \A row \in Ladders(asOf) :
            LET cut == Through(orders, asOf)
                live == ToSet(Live(cut))
                page == ComposeFillPathPage(row)
                declaring(wire) == { r \in live : Declares(r, row.plan, wire.rung) }
                unbooked == { wire \in row.rungs :
                    /\ Cardinality(declaring(wire)) = 1
                    /\ \A r \in declaring(wire) : Observed(cut, r.id) > BookedFills(cut, r.id) }
            IN  /\ \A wire \in unbooked : NeedsRecording(wire)
                /\ page.filledNotRecorded >= Cardinality(unbooked)
                /\ AlertFor(row).needsRecording = page.filledNotRecorded
                /\ \A wire \in row.rungs : page.copy[wire] = wire.label

\* The lots are joined to the rungs by their quantities alone (fill-path.ts 286-303): while
\* no act is torn, and every fill of a rung is booked in the position of its ladder, as many
\* lots of the position are left over as were bought by orders that stand for no rung.
OrphansAreForeign ==
    pc = "idle" /\ push = NoPush /\ TornActs(log, orders) = {} =>
        \A asOf \in 1 .. now :
            LET lots == FoldedAt(asOf).lots
            IN  \A row \in Ladders(asOf) :
                LET here == { i \in DOMAIN lots : lots[i].position = row.plan.position }
                    bought == { i \in DOMAIN lots :
                                    lots[i].id[1] \in { wire.order : wire \in row.rungs } }
                IN  bought \subseteq here => row.orphans = Cardinality(here \ bought)

\* "The fill is neither lost nor counted twice" (engine/orders/select.ts 202-207): what an
\* order has consumed is never more than the venue filled of it.
FillCountedOnce ==
    LET rungs == FoldOrderStream(orders)
    IN  \A id \in DOMAIN rungs : rungs[id].consumed <= venue[id].filled

\* "A reader that finds no line for a fill reports UNKNOWN, never clean"
\* (preferences/reconciliations.ts 29-30): the latest fill that is recorded in a position
\* that is shown clean was told.
UntoldIsNeverClean ==
    pc = "idle" =>
        \A position \in Positions :
            LET fills == { e \in ToSet(log) :
                                e.position = position /\ e.id \in FillsOnFile(orders) }
                latest == { e \in fills : \A f \in fills : f.id[2] <= e.id[2] }
            IN  PickReconciliationAsOf(LoadReconciliations(trail), position, MaxNow) = "clean" =>
                    \A e \in latest : e.id \in { l.event : l \in ToSet(trail) }

\* "The inference holds only across rungs whose resting intervals overlap"
\* (orders/monotonicity.ts 4-12): what a fill act records as cancelled was not filled.
CancelledWasCancelled ==
    \A r \in ToSet(orders) : r.kind = "orderCancelled" => venue[r.id].state # "filled"
=============================================================================
