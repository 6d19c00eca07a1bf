----------------------------- MODULE LadderProofs -----------------------------
(***************************************************************************)
(* What Ladder promises for any offers, plans and bounds: the types; a     *)
(* line of the trail is about one fill that both files hold; an act that   *)
(* a push publishes as torn was torn while the push ran; the readings of   *)
(* the plans and of the trail are those of the whole files; a fill that    *)
(* was seen and not booked is flagged; and the lots that are left over of  *)
(* a ladder are those it did not buy.                                      *)
(*                                                                         *)
(* What carries the first three is the order of the writes (the lot, the   *)
(* fill, the line of the trail), against the order of the reads (the       *)
(* orders, then the log).  The fourth is about the readers alone.  The     *)
(* fifth needs that what the file tells of an order only grows (GrowInv),  *)
(* and the last that a lot and the fill of its act are of one size, each   *)
(* written once (MatchInv).                                                *)
(***************************************************************************)
EXTENDS Ladder, LogLemmas

\* A list of whatever its lines are.
IsList(s) == s \in Seq(ToSet(s))

\* The lines of orders.jsonl by a moment, and those of the log.
IsLine(r, t) ==
    /\ r.id \in DOMAIN Offers /\ r.at \in 1 .. t /\ r.quantity \in Nat
    /\ r.kind = "orderPlaced" => r.observed \in Nat
Lots == [type : {"fill"}, id : (DOMAIN Offers) \X Nat, position : Positions,
         quantity : Nat, cost : Nat]

Shown == [state : {"absent", "resting", "filled", "cancelled"},
          at : Nat, filled : Nat, last : Nat]

\* What the venue shows of an order, up to a moment.
IsShown(v, size, t) ==
    /\ v.at <= t /\ v.last <= t /\ v.filled <= size
    /\ v.state = "filled" <=> v.filled = size
    /\ v.state # "absent" => v.at >= 1
    /\ v.filled > 0 \/ v.state = "cancelled" => v.last >= 1

VenueOK ==
    /\ venue \in [DOMAIN Offers -> Shown]
    /\ \A id \in DOMAIN Offers : IsShown(venue[id], Offers[id].size, now)
OrdersOK == IsList(orders) /\ \A r \in ToSet(orders) : IsLine(r, now)
TrailOK == IsList(trail) /\ \A l \in ToSet(trail) : l.event \in (DOMAIN Offers) \X (1 .. now)
ActOK ==
    /\ pc \in Steps /\ (pc = "idle" <=> act = NoAct)
    /\ pc # "idle" =>
        /\ act.id \in (DOMAIN Offers) \X (1 .. now) /\ act.cancelled \in SUBSET DOMAIN Offers
        /\ act.quantity \in Nat /\ act.position \in Positions
PushOK ==
    /\ push.step \in {"idle", "orders", "log", "published"}
    /\ push = [step |-> push.step, asOf |-> push.asOf, plans |-> push.plans,
               fold |-> push.fold, orders |-> push.orders, log |-> push.log]
    /\ IsList(push.orders) /\ push.log \in Seq(Lots)

\* The inductive strengthening of the types.
TypeInv ==
    /\ now \in 1 .. MaxNow /\ log \in Seq(Lots)
    /\ VenueOK /\ OrdersOK /\ TrailOK /\ ActOK /\ PushOK

\* Where the act in hand stands between the three files it writes.
ActStands ==
    /\ pc \in {"writing", "appending"} => act.id \notin FillsOnFile(orders)
    /\ pc = "appending" =>
        \E front \in Seq(Lots), lot \in Lots : log = Append(front, lot) /\ lot.id = act.id
    /\ pc = "telling" => /\ act.id \in FillsOnFile(orders)
                         /\ act.id \notin { l.event : l \in ToSet(trail) }

\* What the log may still show of the orders a push has read: no fill without its lot, and
\* of the lots without a fill those that were seen torn.
PushSees ==
    push.step = "log" =>
        /\ FillsOnFile(push.orders) \subseteq FillsOnFile(orders) \cap LotsOnLog(log)
        /\ \A x \in LotsOnLog(log) \ FillsOnFile(push.orders) : <<x, "lot-without-fill">> \in seen

\* The inductive invariant.
PathInv ==
    /\ FillsOnFile(orders) \subseteq LotsOnLog(log)
    /\ ActStands /\ TrailFollowsTheAct /\ PushSees /\ TearIsReal
----------------------------------------------------------------------------
\* A list that lines are added to is a list of the old lines and the new ones.
LEMMA ListGrows ==
    ASSUME NEW s, IsList(s), NEW t, IsList(t)
    PROVE  IsList(s \o t) /\ ToSet(s \o t) = ToSet(s) \cup ToSet(t)
<1> DEFINE S == ToSet(s) \cup ToSet(t)
<1>1. s \in Seq(S) /\ t \in Seq(S)
  <2>1. s \in Seq(ToSet(s)) /\ t \in Seq(ToSet(t))
    BY DEF IsList
  <2>2. ToSet(s) \subseteq S /\ ToSet(t) \subseteq S
    OBVIOUS
  <2> HIDE DEF S
  <2> QED BY <2>1, <2>2, SeqMonotonic
<1>2. ToSet(s \o t) = S /\ s \o t \in Seq(S)
  <2> HIDE DEF S
  <2>1. ToSet(s \o t) = ToSet(s) \cup ToSet(t)
    BY <1>1, AppendedOnly
  <2>2. s \o t \in Seq(S)
    BY <1>1, LogType
  <2> QED BY <2>1, <2>2 DEF S
<1> QED BY <1>2 DEF IsList

LEMMA ListGrowsByOne ==
    ASSUME NEW s, IsList(s), NEW e
    PROVE  IsList(Append(s, e)) /\ ToSet(Append(s, e)) = ToSet(s) \cup {e}
<1> DEFINE S == ToSet(s) \cup {e}
<1>1. s \in Seq(S) /\ e \in S
  <2>1. s \in Seq(ToSet(s)) /\ ToSet(s) \subseteq S /\ e \in S
    BY DEF IsList
  <2> HIDE DEF S
  <2> QED BY <2>1, SeqMonotonic
<1>2. ToSet(Append(s, e)) = S /\ Append(s, e) \in Seq(S)
  <2> HIDE DEF S
  <2>1. ToSet(Append(s, e)) = ToSet(s) \cup {e}
    BY <1>1, AppendedOne
  <2>2. Append(s, e) \in Seq(S)
    BY <1>1, LogType
  <2> QED BY <2>1, <2>2 DEF S
<1> QED BY <1>2 DEF IsList

LEMMA NothingListed == IsList(<<>>) /\ ToSet(<<>>) = {}
BY DEF IsList, ToSet

\* A list built over the members of a finite set is a list.
LEMMA ListBuilt ==
    ASSUME NEW n \in Nat, NEW f, DOMAIN f = 1 .. n, f = [i \in 1 .. n |-> f[i]]
    PROVE  IsList(f) /\ ToSet(f) = { f[i] : i \in 1 .. n }
<1> DEFINE S == { f[i] : i \in 1 .. n }
<1>1. f \in [1 .. n -> S]
  OBVIOUS
<1>2. f \in Seq(S)
  <2> HIDE DEF S
  <2> QED BY <1>1
<1>3. ToSet(f) = S
  BY DEF ToSet
<1> QED BY <1>2, <1>3 DEF IsList

\* The lines the selectors read have their fields.
LEMMA LinesRead ==
    ASSUME TypeInv
    PROVE  AreLines(ToSet(orders)) /\ orders \in Seq(ToSet(orders))
<1>1. now \in Int
  BY DEF TypeInv
<1> QED BY <1>1 DEF TypeInv, OrdersOK, IsList, IsLine, AreLines

\* What rests on file was offered.
LEMMA BookOffered ==
    ASSUME TypeInv, NEW rung \in RestingBook(orders)
    PROVE  rung.id \in DOMAIN Offers
<1>1. PICK id \in DOMAIN FoldOrderStream(orders) : rung.id = id
  BY DEF RestingBook
<1>2. LET placed == FoldOrderStream(orders)[id].placed
      IN  placed \in ToSet(orders) /\ placed.id = id
  BY LinesRead, FoldType
<1> QED BY <1>1, <1>2 DEF TypeInv, OrdersOK, IsLine
----------------------------------------------------------------------------
\* What an import appends: placements of orders that are not on file, then observations of
\* others, later than the file and of more than it tells.
LEMMA ImportShape ==
    ASSUME TypeInv, Import
    PROVE  \E A, B :
            /\ now' = now /\ orders' = orders \o A \o B
            /\ IsList(A) /\ IsList(B) /\ Distinct(A) /\ Distinct(B)
            /\ \A r \in ToSet(A) :
                r.kind = "orderPlaced" /\ IsLine(r, now) /\ ~ OnFile(r.id)
            /\ \A r \in ToSet(B) :
                /\ r.kind = "orderFillObserved" /\ IsLine(r, now)
                /\ r.at = now /\ OnFile(r.id) /\ Observed(orders, r.id) < r.quantity
<1> DEFINE open == { id \in DOMAIN Offers : venue[id].state = "resting" }
           new == { id \in open : ~ OnFile(id) }
           news == { id \in open \ new : Observed(orders, id) < venue[id].filled
                                         /\ id \in DOMAIN FoldOrderStream(orders) }
           placed == SetToSeq(new)
           restated == SetToSeq(news)
<1>1. PICK picks :
        orders' = orders \o [i \in DOMAIN placed |-> PlacedLine(placed[i], picks[i])] \o
                [i \in DOMAIN restated |->
                    FillObserved(restated[i], now, venue[restated[i]].filled)]
  BY DEF Import
<1> DEFINE A == [i \in DOMAIN placed |-> PlacedLine(placed[i], picks[i])]
           B == [i \in DOMAIN restated |->
                    FillObserved(restated[i], now, venue[restated[i]].filled)]
<1>2. now' = now /\ orders' = orders \o A \o B
  BY <1>1 DEF Import
<1>3. \A id \in open : /\ id \in DOMAIN Offers /\ venue[id].at \in 1 .. now
                       /\ venue[id].filled \in Nat /\ Offers[id].size \in Nat
  <2> SUFFICES ASSUME NEW id \in open
               PROVE  /\ id \in DOMAIN Offers /\ venue[id].at \in 1 .. now
                      /\ venue[id].filled \in Nat /\ Offers[id].size \in Nat
    OBVIOUS
  <2>1. id \in DOMAIN Offers /\ venue[id] \in Shown /\ venue[id].state = "resting"
        /\ IsShown(venue[id], Offers[id].size, now)
    BY DEF TypeInv, VenueOK
  <2>2. venue[id].at \in Nat /\ venue[id].filled \in Nat /\ now \in Int
    BY <2>1 DEF Shown, TypeInv
  <2>3. venue[id].at <= now /\ venue[id].at >= 1
    BY <2>1 DEF IsShown
  <2> QED BY <2>1, <2>2, <2>3, LadderAssumption
<1>4. /\ \A id \in new : id \in open /\ ~ OnFile(id)
      /\ \A id \in news : id \in open /\ OnFile(id) /\ Observed(orders, id) < venue[id].filled
  OBVIOUS
<1>5. IsFiniteSet(new) /\ IsFiniteSet(news)
  <2>1. new \subseteq DOMAIN Offers /\ news \subseteq DOMAIN Offers
    OBVIOUS
  <2> HIDE DEF new, news
  <2> QED BY <2>1, LadderAssumption, FS_Subset
<1> HIDE DEF open, new, news
<1>6. /\ placed \in Seq(new) /\ \A i, j \in DOMAIN placed : placed[i] = placed[j] => i = j
      /\ restated \in Seq(news) /\ \A i, j \in DOMAIN restated : restated[i] = restated[j] => i = j
  BY <1>5, Listed DEF IsInjective
<1> HIDE DEF placed, restated
<1>7. /\ IsList(A) /\ Distinct(A)
      /\ \A r \in ToSet(A) : r.kind = "orderPlaced" /\ IsLine(r, now) /\ ~ OnFile(r.id)
  <2>1. Len(placed) \in Nat /\ DOMAIN placed = 1 .. Len(placed)
        /\ \A i \in 1 .. Len(placed) : placed[i] \in new
    BY <1>6
  <2>2. \A id \in new : \A pick :
            /\ PlacedLine(id, pick).kind = "orderPlaced" /\ PlacedLine(id, pick).id = id
            /\ IsLine(PlacedLine(id, pick), now) /\ ~ OnFile(id)
    BY <1>3, <1>4 DEF PlacedLine, IsLine
  <2>3. DOMAIN A = 1 .. Len(placed) /\ A = [i \in 1 .. Len(placed) |-> A[i]]
        /\ \A i \in 1 .. Len(placed) : A[i] = PlacedLine(placed[i], picks[i])
    BY <2>1
  <2> HIDE DEF A
  <2>4. IsList(A) /\ ToSet(A) = { A[i] : i \in 1 .. Len(placed) }
    BY <2>1, <2>3, ListBuilt
  <2>5. \A i \in 1 .. Len(placed) : A[i].id = placed[i]
    BY <2>1, <2>2, <2>3
  <2>6. Distinct(A)
    BY <1>6, <2>1, <2>3, <2>5 DEF Distinct
  <2>7. \A i \in 1 .. Len(placed) :
            A[i].kind = "orderPlaced" /\ IsLine(A[i], now) /\ ~ OnFile(A[i].id)
    BY <2>1, <2>2, <2>3
  <2> QED BY <2>4, <2>6, <2>7
<1>8. /\ IsList(B) /\ Distinct(B)
      /\ \A r \in ToSet(B) :
            /\ r.kind = "orderFillObserved" /\ IsLine(r, now)
            /\ r.at = now /\ OnFile(r.id) /\ Observed(orders, r.id) < r.quantity
  <2>1. Len(restated) \in Nat /\ DOMAIN restated = 1 .. Len(restated)
        /\ \A i \in 1 .. Len(restated) : restated[i] \in news
    BY <1>6
  <2>2. \A id \in news :
            LET r == FillObserved(id, now, venue[id].filled)
            IN  /\ r.kind = "orderFillObserved" /\ IsLine(r, now) /\ r.id = id
                /\ r.at = now /\ OnFile(id) /\ Observed(orders, id) < r.quantity
    BY <1>3, <1>4 DEF FillObserved, IsLine, TypeInv
  <2>3. DOMAIN B = 1 .. Len(restated) /\ B = [i \in 1 .. Len(restated) |-> B[i]]
        /\ \A i \in 1 .. Len(restated) :
            B[i] = FillObserved(restated[i], now, venue[restated[i]].filled)
    BY <2>1
  <2> HIDE DEF B
  <2>4. IsList(B) /\ ToSet(B) = { B[i] : i \in 1 .. Len(restated) }
    BY <2>1, <2>3, ListBuilt
  <2>5. \A i \in 1 .. Len(restated) : B[i].id = restated[i]
    BY <2>1, <2>2, <2>3
  <2>6. Distinct(B)
    BY <1>6, <2>1, <2>3, <2>5 DEF Distinct
  <2>7. ASSUME NEW i \in 1 .. Len(restated)
        PROVE  /\ B[i].kind = "orderFillObserved" /\ IsLine(B[i], now)
               /\ B[i].at = now /\ OnFile(B[i].id) /\ Observed(orders, B[i].id) < B[i].quantity
    <3>1. restated[i] \in news /\ B[i] = FillObserved(restated[i], now, venue[restated[i]].filled)
      BY <2>1, <2>3
    <3> QED BY <2>2, <2>5, <3>1
  <2> QED BY <2>4, <2>6, <2>7
<1> QED BY <1>2, <1>7, <1>8

\* What an import appends are lines of orders that rest, and no fill.
LEMMA ImportedLines ==
    ASSUME TypeInv, Import
    PROVE  /\ OrdersOK'
           /\ ToSet(orders) \subseteq ToSet(orders')
           /\ \A r \in ToSet(orders') : r.kind = "orderFilled" => r \in ToSet(orders)
<1>1. PICK A, B :
            /\ now' = now /\ orders' = orders \o A \o B /\ IsList(A) /\ IsList(B)
            /\ \A r \in ToSet(A) : r.kind = "orderPlaced" /\ IsLine(r, now)
            /\ \A r \in ToSet(B) : r.kind = "orderFillObserved" /\ IsLine(r, now)
  BY ImportShape
<1>2. IsList(orders) /\ \A r \in ToSet(orders) : IsLine(r, now)
  BY DEF TypeInv, OrdersOK
<1>3. IsList(orders \o A) /\ ToSet(orders \o A) = ToSet(orders) \cup ToSet(A)
  BY <1>1, <1>2, ListGrows
<1>4. /\ IsList(orders \o A \o B)
      /\ ToSet(orders \o A \o B) = ToSet(orders) \cup ToSet(A) \cup ToSet(B)
  BY <1>1, <1>3, ListGrows
<1> QED BY <1>1, <1>2, <1>4 DEF OrdersOK

\* What the interview decides on is an order that was offered and has filled by now.
LEMMA InterviewedAct ==
    ASSUME TypeInv, NEW id \in DOMAIN Offers, Interview(id)
    PROVE  /\ act'.id \in (DOMAIN Offers) \X (1 .. now)
           /\ act'.cancelled \in SUBSET DOMAIN Offers
           /\ act'.quantity \in Nat /\ act'.position \in Positions
           /\ act'.id \notin LotsOnLog(log)
<1>1. PICK rung \in RestingBook(orders), position \in Positions :
        \E quantity \in 1 .. Min({rung.remaining, venue[id].filled - BookedFills(orders, id)}) :
            LET scope == ScopeBook(RestingBook(orders), venue[id].last)
                present == Present(scope, rung, quantity)
                derived == { r.id : r \in { x \in scope : Verdict(scope, present, x) = "cancelled" } }
            IN  \E cancelled \in {derived, {}} :
                    act' = [id |-> FillEventId(id, venue[id].last), quantity |-> quantity,
                            cancelled |-> cancelled, position |-> position,
                            existing |-> Existing(log)]
  BY DEF Interview
<1>2. PICK quantity \in 1 .. Min({rung.remaining, venue[id].filled - BookedFills(orders, id)}) :
            LET scope == ScopeBook(RestingBook(orders), venue[id].last)
                present == Present(scope, rung, quantity)
                derived == { r.id : r \in { x \in scope : Verdict(scope, present, x) = "cancelled" } }
            IN  \E cancelled \in {derived, {}} :
                    act' = [id |-> FillEventId(id, venue[id].last), quantity |-> quantity,
                            cancelled |-> cancelled, position |-> position,
                            existing |-> Existing(log)]
  BY <1>1
<1> DEFINE scope == ScopeBook(RestingBook(orders), venue[id].last)
           present == Present(scope, rung, quantity)
           derived == { r.id : r \in { x \in scope : Verdict(scope, present, x) = "cancelled" } }
<1>3. PICK cancelled \in {derived, {}} :
        act' = [id |-> FillEventId(id, venue[id].last), quantity |-> quantity,
                cancelled |-> cancelled, position |-> position, existing |-> Existing(log)]
  BY <1>2
<1>4. derived \subseteq DOMAIN Offers
  BY BookOffered DEF ScopeBook
<1>5. quantity \in Nat
  OBVIOUS
<1>6. venue[id].last \in 1 .. now
  <2>1. BookedFills(orders, id) \in Nat
    BY LinesRead, BookedOfBoth
  <2>2. venue[id].filled > BookedFills(orders, id)
    BY DEF Interview
  <2>3. /\ venue[id].last \in Nat /\ venue[id].filled \in Nat /\ now \in Int
        /\ venue[id].last <= now /\ (venue[id].filled > 0 => venue[id].last >= 1)
    BY DEF TypeInv, VenueOK, Shown, IsShown
  <2> QED BY <2>1, <2>2, <2>3
<1> HIDE DEF derived
<1>7. FillEventId(id, venue[id].last) \notin LotsOnLog(log)
  BY DEF Interview
<1> QED BY <1>3, <1>4, <1>5, <1>6, <1>7 DEF FillEventId

\* What the fill act appends: the fill, then the cancellations.
LEMMA AppendShape ==
    ASSUME TypeInv, AppendOrders
    PROVE  LET fill == Filled(act.id[1], act.id[2], act.quantity)
           IN  /\ now' = now /\ act' = act /\ log' = log
               /\ <<fill.id, fill.at>> = act.id /\ IsLine(fill, now)
               /\ \E gone : /\ orders' = Append(orders, fill) \o gone /\ IsList(gone)
                            /\ \A r \in ToSet(gone) : r.kind = "orderCancelled" /\ IsLine(r, now)
<1> DEFINE listed == SetToSeq(act.cancelled)
           fill == Filled(act.id[1], act.id[2], act.quantity)
           gone == [i \in DOMAIN listed |-> Cancelled(listed[i], act.id[2])]
<1>1. /\ act.id \in (DOMAIN Offers) \X (1 .. now) /\ act.cancelled \in SUBSET DOMAIN Offers
      /\ act.quantity \in Nat
  BY DEF TypeInv, ActOK, AppendOrders
<1>2. now' = now /\ act' = act /\ log' = log /\ orders' = orders \o <<fill>> \o gone
  BY DEF AppendOrders
<1>3. listed \in Seq(DOMAIN Offers)
  <2>1. IsFiniteSet(act.cancelled)
    BY <1>1, LadderAssumption, FS_Subset
  <2>2. listed \in Seq(act.cancelled)
    BY <2>1, Listed
  <2> HIDE DEF listed
  <2> QED BY <1>1, <2>2, SeqMonotonic
<1>4. <<fill.id, fill.at>> = act.id /\ IsLine(fill, now)
  BY <1>1 DEF Filled, IsLine
<1> HIDE DEF listed, fill
<1>5. IsList(gone) /\ \A r \in ToSet(gone) : r.kind = "orderCancelled" /\ IsLine(r, now)
  <2>1. Len(listed) \in Nat /\ DOMAIN listed = 1 .. Len(listed)
        /\ \A i \in 1 .. Len(listed) : listed[i] \in DOMAIN Offers
    BY <1>3
  <2>2. \A id \in DOMAIN Offers : Cancelled(id, act.id[2]).kind = "orderCancelled"
                                  /\ IsLine(Cancelled(id, act.id[2]), now)
    BY <1>1 DEF Cancelled, IsLine
  <2>3. DOMAIN gone = 1 .. Len(listed) /\ gone = [i \in 1 .. Len(listed) |-> gone[i]]
        /\ \A i \in 1 .. Len(listed) : gone[i] = Cancelled(listed[i], act.id[2])
    BY <2>1
  <2> HIDE DEF gone
  <2>4. IsList(gone) /\ ToSet(gone) = { gone[i] : i \in 1 .. Len(listed) }
    BY <2>1, <2>3, ListBuilt
  <2> QED BY <2>1, <2>2, <2>3, <2>4
<1> HIDE DEF gone
<1>6. orders \o <<fill>> = Append(orders, fill)
  <2>1. orders \in Seq(ToSet(orders) \cup {fill})
    <3>1. orders \in Seq(ToSet(orders))
      BY DEF TypeInv, OrdersOK, IsList
    <3> QED BY <3>1
  <2> QED BY <2>1
<1>7. orders' = Append(orders, fill) \o gone
  BY <1>2, <1>6
<1> QED BY <1>2, <1>4, <1>5, <1>7 DEF fill

\* What an act appends to the orders is its fill, and the cancellations it found.
LEMMA AppendedLines ==
    ASSUME TypeInv, AppendOrders
    PROVE  /\ OrdersOK'
           /\ ToSet(orders) \subseteq ToSet(orders')
           /\ \E fill \in ToSet(orders') :
                /\ fill.kind = "orderFilled" /\ <<fill.id, fill.at>> = act.id
                /\ \A r \in ToSet(orders') : r.kind = "orderFilled" => r \in ToSet(orders) \cup {fill}
<1> DEFINE fill == Filled(act.id[1], act.id[2], act.quantity)
<1>1. /\ now' = now /\ <<fill.id, fill.at>> = act.id /\ IsLine(fill, now)
      /\ fill.kind = "orderFilled"
  BY AppendShape DEF Filled
<1>2. PICK gone : /\ orders' = Append(orders, fill) \o gone /\ IsList(gone)
                  /\ \A r \in ToSet(gone) : r.kind = "orderCancelled" /\ IsLine(r, now)
  BY AppendShape
<1> HIDE DEF fill
<1>3. IsList(orders) /\ \A r \in ToSet(orders) : IsLine(r, now)
  BY DEF TypeInv, OrdersOK
<1>4. IsList(Append(orders, fill)) /\ ToSet(Append(orders, fill)) = ToSet(orders) \cup {fill}
  BY <1>3, ListGrowsByOne
<1>5. /\ IsList(Append(orders, fill) \o gone)
      /\ ToSet(Append(orders, fill) \o gone) = ToSet(orders) \cup {fill} \cup ToSet(gone)
  BY <1>2, <1>4, ListGrows
<1>6. OrdersOK'
  BY <1>1, <1>2, <1>3, <1>5 DEF OrdersOK
<1>7. /\ fill \in ToSet(orders') /\ ToSet(orders) \subseteq ToSet(orders')
      /\ \A r \in ToSet(orders') : r.kind = "orderFilled" => r \in ToSet(orders) \cup {fill}
  BY <1>2, <1>5
<1> QED BY <1>1, <1>6, <1>7

\* What is told of an act is a line about its fill, or nothing.
LEMMA LineTold ==
    ASSUME Tell \/ TellFails
    PROVE  trail' = trail \/ \E l : trail' = Append(trail, l) /\ l.event = act.id
<1>1. \A loaded : Line(loaded).event = act.id
  BY DEF Line
<1>2. \A loaded : [Line(loaded) EXCEPT !.mismatches = {"newer"}].event = act.id
  BY DEF Line
<1>3. CASE Tell
  BY <1>1, <1>3 DEF Tell
<1>4. CASE TellFails
  <2> DEFINE newer == [Line(LoadPlans(plans)) EXCEPT !.mismatches = {"newer"}]
  <2>1. newer.event = act.id
    BY <1>2
  <2>2. \/ trail' = Append(trail, Line(LoadFailed))
        \/ trail' = Append(trail, newer)
        \/ trail' = trail
    BY <1>4 DEF TellFails
  <2> HIDE DEF newer
  <2> QED BY <1>1, <2>1, <2>2
<1> QED BY <1>3, <1>4
----------------------------------------------------------------------------
\* A step of the venue shows an order as it may be shown.
LEMMA ShownFields ==
    ASSUME NEW v \in Shown
    PROVE  \E state, at, filled, last :
                v = [state |-> state, at |-> at, filled |-> filled, last |-> last]
BY DEF Shown

LEMMA PricesFill ==
    ASSUME TypeInv, NEW level, PriceFalls(level)
    PROVE  VenueOK'
<1> DEFINE touched == { id \in DOMAIN Offers :
                        venue[id].state = "resting" /\ Offers[id].price >= level }
           fill(v, size, quantity) ==
            [v EXCEPT !.filled = Min({size, @ + quantity}), !.last = now,
                      !.state = IF v.filled + quantity >= size THEN "filled" ELSE "resting"]
<1>1. PICK part \in { Offers[id].size : id \in touched } \cup {1} :
        venue' = [id \in DOMAIN venue |->
            IF id \notin touched THEN venue[id]
            ELSE fill(venue[id], Offers[id].size,
                      IF Offers[id].price > level THEN Offers[id].size ELSE part)]
  BY DEF PriceFalls
<1>2. now' = now /\ now \in Nat /\ now >= 1
  <2>1. now \in 1 .. MaxNow /\ MaxNow \in Nat
    BY LadderAssumption DEF TypeInv
  <2>2. now' = now
    BY Zenon DEF PriceFalls
  <2> QED BY <2>1, <2>2
<1>3. /\ DOMAIN venue = DOMAIN Offers
      /\ \A id \in DOMAIN Offers : /\ venue[id] \in Shown
                                   /\ IsShown(venue[id], Offers[id].size, now)
                                   /\ Offers[id].size \in Nat \ {0}
  BY LadderAssumption DEF TypeInv, VenueOK
<1>4. part \in Nat \ {0}
  BY <1>3
<1>5. ASSUME NEW v \in Shown, NEW size \in Nat \ {0}, NEW quantity \in Nat \ {0},
             IsShown(v, size, now), v.state = "resting"
      PROVE  fill(v, size, quantity) \in Shown /\ IsShown(fill(v, size, quantity), size, now)
  <2> DEFINE sum == v.filled + quantity
             least == Min({size, sum})
  <2>1. v.filled \in Nat /\ v.at \in Nat
    BY DEF Shown
  <2>2. sum \in Nat /\ sum >= 1
    BY <2>1
  <2> HIDE DEF sum
  <2>3. least \in Nat /\ least <= size /\ least <= sum /\ (least = size \/ least = sum)
    BY <2>2 DEF Min
  <2> HIDE DEF least
  <2>4. fill(v, size, quantity) =
            [state |-> IF sum >= size THEN "filled" ELSE "resting", at |-> v.at,
             filled |-> least, last |-> now]
    <3>1. PICK state, at, filled, last :
            v = [state |-> state, at |-> at, filled |-> filled, last |-> last]
      BY ShownFields
    <3>2. v.filled = filled /\ v.at = at
      BY <3>1
    <3>3. fill(v, size, quantity) =
            [v EXCEPT !.filled = least, !.last = now,
                      !.state = IF sum >= size THEN "filled" ELSE "resting"]
      BY DEF sum, least
    <3> HIDE DEF fill
    <3>4. fill(v, size, quantity) =
            [[state |-> state, at |-> at, filled |-> filled, last |-> last]
                EXCEPT !.filled = least, !.last = now,
                       !.state = IF sum >= size THEN "filled" ELSE "resting"]
      BY <3>1, <3>3
    <3> QED BY <3>2, <3>4
  <2>5. v.at <= now /\ v.at >= 1
    BY <1>5 DEF IsShown
  <2> HIDE DEF fill
  <2>6. fill(v, size, quantity) \in Shown
    BY <1>2, <2>1, <2>3, <2>4 DEF Shown
  <2>7. (sum >= size) <=> (least = size)
    BY <2>2, <2>3
  <2>8. IsShown(fill(v, size, quantity), size, now)
    BY <1>2, <2>1, <2>3, <2>4, <2>5, <2>7 DEF IsShown
  <2> QED BY <2>6, <2>8
<1> HIDE DEF fill
<1>6. ASSUME NEW id \in DOMAIN Offers
      PROVE  venue'[id] \in Shown /\ IsShown(venue'[id], Offers[id].size, now)
  <2>1. CASE id \notin touched
    <3> HIDE DEF touched
    <3>1. venue'[id] = venue[id]
      BY <1>1, <1>3, <2>1
    <3> QED BY <1>3, <3>1
  <2>2. CASE id \in touched /\ Offers[id].price > level
    <3>1. venue'[id] = fill(venue[id], Offers[id].size, Offers[id].size)
      BY <1>1, <1>3, <2>2
    <3> QED BY <1>3, <1>5, <2>2, <3>1
  <2>3. CASE id \in touched /\ ~ (Offers[id].price > level)
    <3>1. venue'[id] = fill(venue[id], Offers[id].size, part)
      BY <1>1, <1>3, <2>3
    <3> QED BY <1>3, <1>4, <1>5, <2>3, <3>1
  <2> QED BY <2>1, <2>2, <2>3
<1>7. venue' = [id \in DOMAIN Offers |-> venue'[id]]
  BY <1>1, <1>3
<1> QED BY <1>2, <1>6, <1>7 DEF VenueOK

\* What is shown or written by a moment is by any later one.
LEMMA LaterHolds ==
    ASSUME TypeInv, Tick
    PROVE  VenueOK' /\ OrdersOK' /\ TrailOK' /\ ActOK'
<1>1. /\ now \in Int /\ now' = now + 1
      /\ UNCHANGED <<venue, orders, trail, pc, act>>
  BY DEF TypeInv, Tick, files
<1>2. \A t \in Int : t <= now => t <= now'
  BY <1>1
<1>3. 1 .. now \subseteq 1 .. now'
  BY <1>1
<1>4. VenueOK'
  <2> SUFFICES ASSUME NEW id \in DOMAIN Offers PROVE IsShown(venue[id], Offers[id].size, now')
    BY <1>1 DEF TypeInv, VenueOK
  <2>1. venue[id] \in Shown /\ IsShown(venue[id], Offers[id].size, now)
    BY DEF TypeInv, VenueOK
  <2>2. venue[id].at \in Int /\ venue[id].last \in Int
    BY <2>1 DEF Shown
  <2> QED BY <1>2, <2>1, <2>2 DEF IsShown
<1>5. OrdersOK'
  BY <1>1, <1>3 DEF TypeInv, OrdersOK, IsLine
<1>6. TrailOK'
  BY <1>1, <1>3 DEF TypeInv, TrailOK
<1>7. ActOK'
  BY <1>1, <1>3 DEF TypeInv, ActOK
<1> QED BY <1>4, <1>5, <1>6, <1>7

\* Every step keeps the types.
LEMMA TypeStep == TypeInv /\ [Next]_vars => TypeInv'
<1> SUFFICES ASSUME TypeInv, [Next]_vars PROVE TypeInv'
  OBVIOUS
<1>0. /\ now \in 1 .. MaxNow /\ log \in Seq(Lots)
      /\ VenueOK /\ OrdersOK /\ TrailOK /\ ActOK /\ PushOK
  BY DEF TypeInv
<1> USE DEF files
<1>1. CASE UNCHANGED vars
  BY <1>0, <1>1 DEF TypeInv, vars, VenueOK, OrdersOK, TrailOK, ActOK, PushOK
<1>2. ASSUME UNCHANGED <<now, venue>> PROVE VenueOK'
  BY <1>0, <1>2 DEF VenueOK
<1>3. ASSUME UNCHANGED <<now, orders>> PROVE OrdersOK'
  BY <1>0, <1>3 DEF OrdersOK
<1>4. ASSUME UNCHANGED <<now, trail>> PROVE TrailOK'
  BY <1>0, <1>4 DEF TrailOK
<1>5. ASSUME UNCHANGED <<now, pc, act>> PROVE ActOK'
  BY <1>0, <1>5 DEF ActOK
<1>6. ASSUME UNCHANGED push PROVE PushOK'
  BY <1>0, <1>6 DEF PushOK
<1>7. CASE Tick
  <2>1. now' \in 1 .. MaxNow
    BY <1>0, <1>7, LadderAssumption DEF Tick
  <2> QED BY <1>0, <1>6, <1>7, <2>1, LaterHolds DEF TypeInv, Tick
<1>8. CASE AuthorPlan
  BY <1>0, <1>2, <1>3, <1>4, <1>5, <1>6, <1>8 DEF TypeInv, AuthorPlan
<1>9. ASSUME NEW id \in DOMAIN Offers, VenuePlaces(id) PROVE TypeInv'
  <2>1. VenueOK'
    <3>1. now' = now /\ now \in Nat /\ now >= 1
      BY <1>0, <1>9, LadderAssumption DEF VenuePlaces
    <3>2. /\ venue[id] \in Shown /\ IsShown(venue[id], Offers[id].size, now)
          /\ venue[id].state = "absent"
      BY <1>0, <1>9 DEF VenueOK, VenuePlaces
    <3> DEFINE v == [venue[id] EXCEPT !.state = "resting", !.at = now]
    <3>3. v = [state |-> "resting", at |-> now, filled |-> venue[id].filled,
               last |-> venue[id].last]
      <4>1. PICK state, at, filled, last :
                venue[id] = [state |-> state, at |-> at, filled |-> filled, last |-> last]
        BY <3>2, ShownFields
      <4>2. venue[id].filled = filled /\ venue[id].last = last
        BY <4>1
      <4>3. v = [[state |-> state, at |-> at, filled |-> filled, last |-> last]
                    EXCEPT !.state = "resting", !.at = now]
        BY <4>1
      <4> HIDE DEF v
      <4> QED BY <4>2, <4>3
    <3>4. v \in Shown
      BY <3>1, <3>2, <3>3 DEF Shown
    <3>5. IsShown(v, Offers[id].size, now)
      BY <3>1, <3>2, <3>3 DEF IsShown
    <3>6. venue' = [venue EXCEPT ![id] = v]
      BY <1>9 DEF VenuePlaces
    <3> HIDE DEF v
    <3> QED BY <1>0, <3>1, <3>4, <3>5, <3>6 DEF VenueOK
  <2> QED BY <1>0, <1>3, <1>4, <1>5, <1>6, <1>9, <2>1 DEF TypeInv, VenuePlaces
<1>10. ASSUME NEW id \in DOMAIN Offers, VenueCancels(id) PROVE TypeInv'
  <2>1. VenueOK'
    <3>1. now' = now /\ now \in Nat /\ now >= 1
      BY <1>0, <1>10, LadderAssumption DEF VenueCancels
    <3>2. /\ venue[id] \in Shown /\ IsShown(venue[id], Offers[id].size, now)
          /\ venue[id].state = "resting"
      BY <1>0, <1>10 DEF VenueOK, VenueCancels
    <3> DEFINE v == [venue[id] EXCEPT !.state = "cancelled", !.last = now]
    <3>3. v = [state |-> "cancelled", at |-> venue[id].at, filled |-> venue[id].filled,
               last |-> now]
      <4>1. PICK state, at, filled, last :
                venue[id] = [state |-> state, at |-> at, filled |-> filled, last |-> last]
        BY <3>2, ShownFields
      <4>2. venue[id].filled = filled /\ venue[id].at = at
        BY <4>1
      <4>3. v = [[state |-> state, at |-> at, filled |-> filled, last |-> last]
                    EXCEPT !.state = "cancelled", !.last = now]
        BY <4>1
      <4> HIDE DEF v
      <4> QED BY <4>2, <4>3
    <3>4. v \in Shown
      BY <3>1, <3>2, <3>3 DEF Shown
    <3>5. IsShown(v, Offers[id].size, now)
      BY <3>1, <3>2, <3>3 DEF IsShown
    <3>6. venue' = [venue EXCEPT ![id] = v]
      BY <1>10 DEF VenueCancels
    <3> HIDE DEF v
    <3> QED BY <1>0, <3>1, <3>4, <3>5, <3>6 DEF VenueOK
  <2> QED BY <1>0, <1>3, <1>4, <1>5, <1>6, <1>10, <2>1 DEF TypeInv, VenueCancels
<1>11. ASSUME NEW level, PriceFalls(level) PROVE TypeInv'
  <2>1. VenueOK'
    BY <1>11, PricesFill
  <2> QED BY <1>0, <1>3, <1>4, <1>5, <1>6, <1>11, <2>1 DEF TypeInv, PriceFalls
<1>12. CASE Import
  <2>1. OrdersOK'
    BY <1>12, ImportedLines
  <2>2. UNCHANGED <<now, venue, plans, log, trail, pc, act, push, incidents>>
    BY <1>12 DEF Import
  <2> QED BY <1>0, <1>2, <1>4, <1>5, <1>6, <2>1, <2>2 DEF TypeInv
<1>13. ASSUME NEW id \in DOMAIN Offers, RecordCancel(id) PROVE TypeInv'
  <2> DEFINE r == Cancelled(id, venue[id].last)
  <2>1. orders' = Append(orders, r) /\ UNCHANGED <<now, venue, log, trail, pc, act, push>>
    BY <1>13 DEF RecordCancel
  <2>2. venue[id].last \in 1 .. now
    <3>1. /\ venue[id] \in Shown /\ IsShown(venue[id], Offers[id].size, now)
          /\ venue[id].state = "cancelled" /\ now \in Int
      BY <1>0, <1>13 DEF VenueOK, RecordCancel
    <3> QED BY <3>1 DEF Shown, IsShown
  <2>3. IsLine(r, now)
    BY <2>2 DEF IsLine, Cancelled
  <2> HIDE DEF r
  <2>4. OrdersOK'
    BY <1>0, <2>1, <2>3, ListGrowsByOne DEF OrdersOK
  <2> QED BY <1>0, <1>2, <1>4, <1>5, <1>6, <2>1, <2>4 DEF TypeInv
<1>14. ASSUME NEW id \in DOMAIN Offers, Interview(id) PROVE TypeInv'
  <2>1. /\ act'.id \in (DOMAIN Offers) \X (1 .. now)
        /\ act'.cancelled \in SUBSET DOMAIN Offers
        /\ act'.quantity \in Nat /\ act'.position \in Positions
    BY <1>14, InterviewedAct
  <2>2. pc' = "writing" /\ UNCHANGED <<now, venue, orders, log, trail, push>>
    BY <1>14 DEF Interview
  <2>3. act' # NoAct
    BY <2>1 DEF NoAct
  <2>4. ActOK'
    BY <2>1, <2>2, <2>3 DEF ActOK, Steps
  <2> QED BY <1>0, <1>2, <1>3, <1>4, <1>6, <2>2, <2>4 DEF TypeInv
<1>15. CASE WriteLog
  <2>1. /\ pc = "writing" /\ pc' = "appending"
        /\ log' = Append(log, [type |-> "fill", id |-> act.id, position |-> act.position,
                               quantity |-> act.quantity, cost |-> Offers[act.id[1]].price])
        /\ UNCHANGED <<now, venue, orders, trail, act, push>>
    BY <1>15 DEF WriteLog
  <2>2. act.id \in (DOMAIN Offers) \X (1 .. now) /\ act.quantity \in Nat
        /\ act.position \in Positions /\ act # NoAct
    BY <1>0, <2>1 DEF ActOK
  <2>3. [type |-> "fill", id |-> act.id, position |-> act.position,
         quantity |-> act.quantity, cost |-> Offers[act.id[1]].price] \in Lots
    <3>1. Offers[act.id[1]].price \in Nat
      BY <2>2, LadderAssumption
    <3>2. act.id \in (DOMAIN Offers) \X Nat
      BY <1>0, <2>2
    <3> QED BY <2>2, <3>1, <3>2 DEF Lots
  <2>4. log' \in Seq(Lots)
    BY <1>0, <2>1, <2>3, LogType
  <2>5. ActOK'
    BY <1>0, <2>1, <2>2 DEF ActOK, Steps
  <2> QED BY <1>0, <1>2, <1>3, <1>4, <1>6, <2>1, <2>4, <2>5 DEF TypeInv
<1>16. CASE AppendOrders
  <2>1. OrdersOK'
    BY <1>16, AppendedLines
  <2>2. pc = "appending" /\ pc' = "telling" /\ UNCHANGED <<now, venue, log, trail, act, push>>
    BY <1>16 DEF AppendOrders
  <2>3. ActOK'
    BY <1>0, <2>2 DEF ActOK, Steps
  <2> QED BY <1>0, <1>2, <1>4, <1>6, <2>1, <2>2, <2>3 DEF TypeInv
<1>17. ASSUME pc' = "idle", act' = NoAct PROVE ActOK'
  BY <1>17 DEF ActOK, Steps
<1>18. CASE AppendOrdersFails
  <2>1. /\ log' = SubSeq(log, 1, Len(log) - 1) /\ pc' = "idle" /\ act' = NoAct
        /\ UNCHANGED <<now, venue, orders, trail, push>>
    BY <1>18 DEF AppendOrdersFails
  <2>2. log' \in Seq(Lots)
    BY <1>0, <2>1
  <2> QED BY <1>0, <1>2, <1>3, <1>4, <1>6, <1>17, <2>1, <2>2 DEF TypeInv
<1>19. CASE Crash
  <2>1. pc' = "idle" /\ act' = NoAct /\ UNCHANGED <<now, venue, orders, log, trail, push>>
    BY <1>19 DEF Crash
  <2> QED BY <1>0, <1>2, <1>3, <1>4, <1>6, <1>17, <2>1 DEF TypeInv
<1>20. CASE Tell \/ TellFails
  <2>1. /\ pc = "telling" /\ pc' = "idle" /\ act' = NoAct
        /\ UNCHANGED <<now, venue, orders, log, push>>
    BY <1>20 DEF Tell, TellFails
  <2>2. trail' = trail \/ \E l : trail' = Append(trail, l) /\ l.event = act.id
    BY <1>20, LineTold
  <2>3. act.id \in (DOMAIN Offers) \X (1 .. now)
    BY <1>0, <2>1 DEF ActOK
  <2>4. TrailOK'
    <3>1. CASE trail' = trail
      BY <1>0, <2>1, <3>1 DEF TrailOK
    <3>2. ASSUME NEW l, trail' = Append(trail, l), l.event = act.id PROVE TrailOK'
      <4>1. IsList(trail') /\ ToSet(trail') = ToSet(trail) \cup {l}
        BY <1>0, <3>2, ListGrowsByOne DEF TrailOK
      <4> QED BY <1>0, <2>1, <2>3, <3>2, <4>1 DEF TrailOK
    <3> QED BY <2>2, <3>1, <3>2
  <2> QED BY <1>0, <1>2, <1>3, <1>6, <1>17, <2>1, <2>4 DEF TypeInv
<1>21. CASE FoldLog \/ ReadOrders \/ ReadLog \/ EndPush
  <2>1. UNCHANGED <<now, venue, orders, log, trail, pc, act>>
    BY <1>21 DEF FoldLog, ReadOrders, ReadLog, EndPush, PushUnchanged
  <2>2. /\ push = [step |-> push.step, asOf |-> push.asOf, plans |-> push.plans,
                   fold |-> push.fold, orders |-> push.orders, log |-> push.log]
        /\ IsList(push.orders) /\ push.log \in Seq(Lots)
    BY <1>0 DEF PushOK
  <2>3. PushOK'
    <3>1. IsList(<<>>) /\ <<>> \in Seq(Lots) /\ IsList(orders)
      BY <1>0, NothingListed DEF OrdersOK
    <3>2. CASE FoldLog
      BY <3>1, <3>2 DEF PushOK, FoldLog, NoPush
    <3>3. CASE ReadOrders
      BY <2>2, <3>1, <3>3 DEF PushOK, ReadOrders
    <3>4. CASE ReadLog
      BY <1>0, <2>2, <3>4 DEF PushOK, ReadLog
    <3>5. CASE EndPush
      BY <3>1, <3>5 DEF PushOK, EndPush, NoPush
    <3> QED BY <1>21, <3>2, <3>3, <3>4, <3>5
  <2> QED BY <1>0, <1>2, <1>3, <1>4, <1>5, <2>1, <2>3 DEF TypeInv
<1> QED
  BY <1>1, <1>7, <1>8, <1>9, <1>10, <1>11, <1>12, <1>13, <1>14, <1>15, <1>16, <1>18, <1>19,
     <1>20, <1>21
  DEF Next, Commands, Writes, Pushing

\* The types hold of every run.
LEMMA TypeInvariant == Spec => []TypeInv
<1>1. Init => TypeInv
  <2> SUFFICES ASSUME Init PROVE TypeInv
    OBVIOUS
  <2>1. now \in 1 .. MaxNow
    BY LadderAssumption DEF Init
  <2>2. VenueOK
    BY LadderAssumption DEF Init, VenueOK, Shown, IsShown
  <2>3. log \in Seq(Lots) /\ OrdersOK /\ TrailOK
    BY NothingListed DEF Init, OrdersOK, TrailOK
  <2>4. ActOK
    BY DEF Init, ActOK, Steps
  <2>5. PushOK
    BY NothingListed DEF Init, PushOK, NoPush
  <2> QED BY <2>1, <2>2, <2>3, <2>4, <2>5 DEF TypeInv
<1> QED BY <1>1, TypeStep, PTL DEF Spec

\* The type invariant the runs check.
THEOREM TypeCorrect == Spec => []TypeOK
<1>1. TypeInv => TypeOK
  <2> SUFFICES ASSUME TypeInv PROVE TypeOK
    OBVIOUS
  <2>1. \A id \in DOMAIN Offers :
            /\ venue[id].state \in {"absent", "resting", "filled", "cancelled"}
            /\ venue[id].filled \in 0 .. Offers[id].size
            /\ venue[id].state = "filled" <=> venue[id].filled = Offers[id].size
    BY LadderAssumption DEF TypeInv, VenueOK, Shown, IsShown
  <2>2. \A r \in ToSet(orders) : r.id \in DOMAIN Offers /\ r.at \in 1 .. now /\ r.quantity \in Nat
    BY DEF TypeInv, OrdersOK, IsLine
  <2> QED BY <2>1, <2>2 DEF TypeInv, TypeOK, TrailOK, ActOK, PushOK
<1> QED BY <1>1, TypeInvariant, PTL
----------------------------------------------------------------------------
\* A day at which both files are cut shows no act as torn that the files do not.
LEMMA CutTearsNothing ==
    ASSUME NEW lots \in Seq(Lots), NEW file, IsList(file), NEW asOf
    PROVE  TornActs(LotsThrough(lots, asOf), Through(file, asOf)) \subseteq TornActs(lots, file)
<1> DEFINE cutLots == LotsThrough(lots, asOf)
           cutFile == Through(file, asOf)
<1>1. ToSet(cutLots) = { e \in ToSet(lots) : e.id[2] <= asOf }
  <2> DEFINE places == { i \in DOMAIN lots : lots[i].id[2] <= asOf }
  <2>1. ToSet(Kept(lots, places)) = { lots[i] : i \in places \cap DOMAIN lots }
    <3> HIDE DEF places
    <3> QED BY KeptLines
  <2>2. { lots[i] : i \in places \cap DOMAIN lots } = { e \in ToSet(lots) : e.id[2] <= asOf }
    BY DEF ToSet
  <2> QED BY <2>1, <2>2 DEF LotsThrough
<1>2. ToSet(cutFile) = { r \in ToSet(file) : r.at <= asOf }
  <2> DEFINE places == { i \in DOMAIN file : file[i].at <= asOf }
  <2>1. ToSet(Kept(file, places)) = { file[i] : i \in places \cap DOMAIN file }
    <3> DEFINE S == ToSet(file)
    <3>1. file \in Seq(S)
      BY DEF IsList
    <3> HIDE DEF places, S
    <3> QED BY <3>1, KeptLines
  <2>2. { file[i] : i \in places \cap DOMAIN file } = { r \in ToSet(file) : r.at <= asOf }
    BY DEF ToSet
  <2> QED BY <2>1, <2>2 DEF Through
<1> HIDE DEF cutLots, cutFile
<1>3. \A x : x \in LotsOnLog(cutLots) <=> x \in LotsOnLog(lots) /\ x[2] <= asOf
  BY <1>1 DEF LotsOnLog
<1>4. \A x : x \in FillsOnFile(cutFile) <=> x \in FillsOnFile(file) /\ x[2] <= asOf
  BY <1>2 DEF FillsOnFile, FillEventId
<1> QED BY <1>3, <1>4 DEF TornActs, LotsWithoutFill, FillsWithoutLot, cutLots, cutFile

\* The fills of a file that gains no fill are those it had.
LEMMA NoFillAdded ==
    ASSUME ToSet(orders) \subseteq ToSet(orders'),
           \A r \in ToSet(orders') : r.kind = "orderFilled" => r \in ToSet(orders)
    PROVE  FillsOnFile(orders') = FillsOnFile(orders)
BY DEF FillsOnFile

\* A line is told once when its fill was not told before.
LEMMA ToldOnce ==
    ASSUME IsList(trail), IsInjective([i \in DOMAIN trail |-> trail[i].event]),
           NEW l, trail' = Append(trail, l),
           l.event \notin { m.event : m \in ToSet(trail) }
    PROVE  IsInjective([i \in DOMAIN trail' |-> trail'[i].event])
<1>1. /\ DOMAIN trail' = 1 .. Len(trail) + 1 /\ DOMAIN trail = 1 .. Len(trail)
      /\ Len(trail) \in Nat /\ trail'[Len(trail) + 1] = l
      /\ \A i \in 1 .. Len(trail) : trail'[i] = trail[i]
  <2> DEFINE S == ToSet(trail)
  <2>1. trail \in Seq(S)
    BY DEF IsList
  <2> HIDE DEF S
  <2> QED BY <2>1
<1>2. \A i \in 1 .. Len(trail) : trail[i].event # l.event
  BY <1>1 DEF ToSet
<1>3. \A i, j \in 1 .. Len(trail) : trail[i].event = trail[j].event => i = j
  BY <1>1 DEF IsInjective
<1>4. \A i, j \in 1 .. Len(trail) + 1 : trail'[i].event = trail'[j].event => i = j
  <2> SUFFICES ASSUME NEW i \in 1 .. Len(trail) + 1, NEW j \in 1 .. Len(trail) + 1,
                      trail'[i].event = trail'[j].event
               PROVE  i = j
    OBVIOUS
  <2>1. \A k \in 1 .. Len(trail) + 1 : k \in 1 .. Len(trail) \/ k = Len(trail) + 1
    BY <1>1
  <2> QED BY <1>1, <1>2, <1>3, <2>1
<1> QED BY <1>1, <1>4 DEF IsInjective

\* What was seen torn stays so while a push is read or looked at.
SeenKept ==
    /\ push.step = "log" => seen \subseteq seen'
    /\ push.step = "published" => seen' = seen

\* A step that touches no lot, no fill and no line of the trail keeps the invariant.
LEMMA QuietStep ==
    ASSUME PathInv, SeenKept, FillsOnFile(orders') = FillsOnFile(orders),
           UNCHANGED <<log, trail, pc, act, push>>
    PROVE  PathInv'
BY DEF PathInv, ActStands, TrailFollowsTheAct, PushSees, TearIsReal, SeenKept

\* Every write of the act keeps the invariant, whatever the push has read.
LEMMA WritesKeep ==
    ASSUME TypeInv, PathInv, Writes, SeenKept,
           push.step = "log" => seen' = seen \cup TornActs(log', orders')
    PROVE  PathInv'
<1>0. /\ FillsOnFile(orders) \subseteq LotsOnLog(log)
      /\ ActStands /\ TrailFollowsTheAct /\ PushSees /\ TearIsReal
  BY DEF PathInv
<1>1. push' = push
  BY DEF Writes, WriteLog, AppendOrders, AppendOrdersFails, Crash
<1>2. TearIsReal'
  BY <1>0, <1>1 DEF TearIsReal, SeenKept
<1>3. push.step = "log" => seen \subseteq seen'
  BY DEF SeenKept
<1>4. CASE WriteLog
  <2> DEFINE lot == [type |-> "fill", id |-> act.id, position |-> act.position,
                     quantity |-> act.quantity, cost |-> Offers[act.id[1]].price]
  <2>1. /\ pc = "writing" /\ pc' = "appending" /\ log' = Append(log, lot)
        /\ UNCHANGED <<orders, trail, act>>
    BY <1>4 DEF WriteLog
  <2>2. lot \in Lots /\ lot.type = "fill" /\ lot.id = act.id
    <3>1. act.id \in (DOMAIN Offers) \X (1 .. now) /\ act.quantity \in Nat
          /\ act.position \in Positions /\ now \in Nat
      BY <2>1, LadderAssumption DEF TypeInv, ActOK
    <3>2. Offers[act.id[1]].price \in Nat
      BY <3>1, LadderAssumption
    <3>3. act.id \in (DOMAIN Offers) \X Nat
      BY <3>1
    <3> QED BY <3>1, <3>2, <3>3 DEF Lots
  <2> HIDE DEF lot
  <2>3. LotsOnLog(log') = LotsOnLog(log) \cup {act.id}
    <3>1. ToSet(log') = ToSet(log) \cup {lot}
      BY <2>1, <2>2, AppendedOne DEF TypeInv
    <3> QED BY <2>2, <3>1 DEF LotsOnLog
  <2>4. act.id \notin FillsOnFile(orders)
    BY <1>0, <2>1 DEF ActStands
  <2>5. ActStands'
    <3>1. log \in Seq(Lots)
      BY DEF TypeInv
    <3> QED BY <2>1, <2>2, <2>4, <3>1 DEF ActStands
  <2>6. TrailFollowsTheAct'
    BY <1>0, <2>1, <2>3 DEF TrailFollowsTheAct
  <2>7. PushSees'
    <3> SUFFICES ASSUME push.step = "log"
                 PROVE  /\ FillsOnFile(push.orders) \subseteq FillsOnFile(orders) \cap LotsOnLog(log')
                        /\ \A x \in LotsOnLog(log') \ FillsOnFile(push.orders) :
                                <<x, "lot-without-fill">> \in seen'
      BY <1>1, <2>1 DEF PushSees
    <3>1. <<act.id, "lot-without-fill">> \in seen'
      BY <2>1, <2>3, <2>4 DEF TornActs, LotsWithoutFill
    <3> QED BY <1>0, <1>3, <2>3, <3>1 DEF PushSees
  <2>8. FillsOnFile(orders') \subseteq LotsOnLog(log')
    BY <1>0, <2>1, <2>3
  <2> QED BY <1>2, <2>5, <2>6, <2>7, <2>8 DEF PathInv
<1>5. CASE AppendOrders
  <2>1. pc = "appending" /\ pc' = "telling" /\ UNCHANGED <<log, trail, act>>
    BY <1>5 DEF AppendOrders
  <2>2. PICK fill \in ToSet(orders') :
            /\ fill.kind = "orderFilled" /\ <<fill.id, fill.at>> = act.id
            /\ \A r \in ToSet(orders') : r.kind = "orderFilled" => r \in ToSet(orders) \cup {fill}
            /\ ToSet(orders) \subseteq ToSet(orders')
    BY <1>5, AppendedLines
  <2>3. FillsOnFile(orders') = FillsOnFile(orders) \cup {act.id}
    BY <2>2 DEF FillsOnFile, FillEventId
  <2>4. act.id \notin FillsOnFile(orders) /\ act.id \in LotsOnLog(log)
    <3>1. PICK front \in Seq(Lots), lot \in Lots : log = Append(front, lot) /\ lot.id = act.id
      BY <1>0, <2>1 DEF ActStands
    <3>2. ToSet(log) = ToSet(front) \cup {lot}
      BY <3>1, AppendedOne
    <3>3. lot.type = "fill"
      BY DEF Lots
    <3> QED BY <1>0, <2>1, <3>1, <3>2, <3>3 DEF ActStands, LotsOnLog
  <2>5. ActStands'
    BY <1>0, <2>1, <2>3, <2>4 DEF ActStands, TrailFollowsTheAct
  <2>6. TrailFollowsTheAct'
    BY <1>0, <2>1, <2>3 DEF TrailFollowsTheAct
  <2>7. PushSees'
    BY <1>0, <1>1, <1>3, <2>1, <2>3 DEF PushSees
  <2> QED BY <1>0, <1>2, <2>1, <2>3, <2>4, <2>5, <2>6, <2>7 DEF PathInv
<1>6. CASE AppendOrdersFails
  <2>1. /\ pc = "appending" /\ pc' = "idle" /\ log' = SubSeq(log, 1, Len(log) - 1)
        /\ UNCHANGED <<orders, trail>>
    BY <1>6 DEF AppendOrdersFails
  <2>2. PICK front \in Seq(Lots), lot \in Lots : log = Append(front, lot) /\ lot.id = act.id
    BY <1>0, <2>1 DEF ActStands
  <2>3. log' = front
    BY <2>1, <2>2
  <2>4. LotsOnLog(log') \subseteq LotsOnLog(log) /\ LotsOnLog(log) \subseteq LotsOnLog(log') \cup {act.id}
    <3>1. ToSet(log) = ToSet(front) \cup {lot}
      BY <2>2, AppendedOne
    <3> QED BY <2>2, <2>3, <3>1 DEF LotsOnLog
  <2>5. act.id \notin FillsOnFile(orders)
    BY <1>0, <2>1 DEF ActStands
  <2>6. FillsOnFile(orders') \subseteq LotsOnLog(log')
    BY <1>0, <2>1, <2>4, <2>5
  <2>7. ActStands'
    BY <2>1 DEF ActStands
  <2>8. TrailFollowsTheAct'
    BY <1>0, <2>1, <2>6 DEF TrailFollowsTheAct
  <2>9. PushSees'
    BY <1>0, <1>1, <1>3, <2>1, <2>4, <2>6 DEF PushSees
  <2> QED BY <1>2, <2>6, <2>7, <2>8, <2>9 DEF PathInv
<1>7. CASE Crash
  <2>1. pc' = "idle" /\ UNCHANGED <<log, orders, trail>>
    BY <1>7 DEF Crash, files
  <2>2. ActStands'
    BY <2>1 DEF ActStands
  <2>3. TrailFollowsTheAct' /\ PushSees'
    BY <1>0, <1>1, <1>3, <2>1 DEF TrailFollowsTheAct, PushSees
  <2> QED BY <1>0, <1>2, <2>1, <2>2, <2>3 DEF PathInv
<1> QED BY <1>4, <1>5, <1>6, <1>7 DEF Writes

\* What is told is told of an act that is on both files, once.
LEMMA TellingKeeps ==
    ASSUME TypeInv, PathInv, SeenKept, Tell \/ TellFails
    PROVE  PathInv'
<1>1. pc = "telling" /\ pc' = "idle" /\ UNCHANGED <<orders, log, push>>
  BY DEF Tell, TellFails
<1>2. /\ act.id \in FillsOnFile(orders) /\ act.id \in LotsOnLog(log)
      /\ act.id \notin { l.event : l \in ToSet(trail) }
  BY <1>1 DEF PathInv, ActStands
<1>3. TrailFollowsTheAct'
  <2>1. CASE trail' = trail
    BY <1>1, <2>1 DEF PathInv, TrailFollowsTheAct
  <2>2. ASSUME NEW l, trail' = Append(trail, l), l.event = act.id PROVE TrailFollowsTheAct'
    <3>1. IsList(trail)
      BY DEF TypeInv, TrailOK
    <3>2. ToSet(trail') = ToSet(trail) \cup {l}
      BY <2>2, <3>1, ListGrowsByOne
    <3>3. IsInjective([i \in DOMAIN trail' |-> trail'[i].event])
      BY <1>2, <2>2, <3>1, ToldOnce DEF PathInv, TrailFollowsTheAct
    <3> QED BY <1>1, <1>2, <2>2, <3>2, <3>3 DEF PathInv, TrailFollowsTheAct
  <2> QED BY <2>1, <2>2, LineTold
<1> QED BY <1>1, <1>3 DEF PathInv, ActStands, PushSees, TearIsReal, SeenKept

\* What a push publishes was torn, since it read the orders before the log.
LEMMA PublishedTears ==
    ASSUME TypeInv, PathInv, ReadLog, seen' = seen
    PROVE  TearIsReal'
<1>1. /\ push.step = "log" /\ push' = [push EXCEPT !.step = "published", !.log = log]
      /\ log \in Seq(Lots) /\ IsList(push.orders)
  BY DEF TypeInv, PushOK, ReadLog
<1>2. push'.orders = push.orders /\ push'.log = log
  <2>1. push = [step |-> push.step, asOf |-> push.asOf, plans |-> push.plans,
                fold |-> push.fold, orders |-> push.orders, log |-> push.log]
    BY DEF TypeInv, PushOK
  <2> QED BY <1>1, <2>1
<1>3. TornActs(log, push.orders) \subseteq seen
  BY <1>1 DEF PathInv, PushSees, TornActs, LotsWithoutFill, FillsWithoutLot
<1>4. \A asOf : TornActs(LotsThrough(log, asOf), Through(push.orders, asOf)) \subseteq seen
  BY <1>1, <1>3, CutTearsNothing
<1>5. BuildDcaBlock(LoadPlans(push'.plans), push'.asOf, push'.fold, push'.orders, push'.log).torn =
        TornActs(LotsThrough(log, push'.asOf), Through(push.orders, push'.asOf))
  BY <1>2 DEF BuildDcaBlock
<1> QED BY <1>4, <1>5 DEF TearIsReal

\* Every step keeps the invariant.
LEMMA PathStep == TypeInv /\ PathInv /\ [Next]_vars => PathInv'
<1> SUFFICES ASSUME TypeInv, PathInv, [Next]_vars PROVE PathInv'
  OBVIOUS
<1>1. CASE UNCHANGED vars
  BY <1>1 DEF vars, files, PathInv, ActStands, TrailFollowsTheAct, PushSees, TearIsReal
<1>2. ASSUME Next PROVE
        seen' = CASE push'.step = "idle" -> {}
                  [] push'.step = "published" -> seen
                  [] OTHER -> seen \cup TornActs(log', orders')
  BY <1>2 DEF Next, Watch
<1>9. ASSUME Next, push' = push PROVE SeenKept
  BY <1>2, <1>9 DEF SeenKept
<1>3. CASE Next /\ Commands
  <2>1. ASSUME UNCHANGED <<log, trail, pc, act, push, orders>> PROVE PathInv'
    BY <1>3, <1>9, <2>1, QuietStep
  <2>2. CASE Tick \/ AuthorPlan
    BY <2>1, <2>2 DEF Tick, AuthorPlan, files
  <2>3. ASSUME NEW id \in DOMAIN Offers, VenuePlaces(id) \/ VenueCancels(id) PROVE PathInv'
    BY <2>1, <2>3 DEF VenuePlaces, VenueCancels, files
  <2>4. ASSUME NEW level, PriceFalls(level) PROVE PathInv'
    <3>1. UNCHANGED <<now, files, pc, act, push, incidents>>
      BY <2>4 DEF PriceFalls
    <3> QED BY <2>1, <3>1 DEF files
  <2>5. ASSUME NEW id \in DOMAIN Offers, RecordCancel(id) PROVE PathInv'
    <3> DEFINE r == Cancelled(id, venue[id].last)
    <3>1. orders' = Append(orders, r) /\ UNCHANGED <<log, trail, pc, act, push>>
      BY <2>5 DEF RecordCancel
    <3>2. r.kind = "orderCancelled"
      BY DEF Cancelled
    <3> HIDE DEF r
    <3>3. ToSet(orders') = ToSet(orders) \cup {r}
      BY <3>1, ListGrowsByOne DEF TypeInv, OrdersOK
    <3> QED BY <1>3, <1>9, <3>1, <3>2, <3>3, NoFillAdded, QuietStep
  <2>6. CASE Import
    <3>1. UNCHANGED <<now, venue, plans, log, trail, pc, act, push, incidents>>
      BY <2>6 DEF Import
    <3> QED BY <1>3, <1>9, <2>6, <3>1, ImportedLines, NoFillAdded, QuietStep
  <2>7. ASSUME NEW id \in DOMAIN Offers, Interview(id) PROVE PathInv'
    <3>1. pc' = "writing" /\ UNCHANGED <<orders, log, trail, push>>
      BY <2>7 DEF Interview, files
    <3>2. act'.id \notin LotsOnLog(log)
      BY <2>7, InterviewedAct
    <3>3. SeenKept
      BY <1>3, <1>9, <3>1
    <3> QED BY <3>1, <3>2, <3>3
            DEF PathInv, ActStands, TrailFollowsTheAct, PushSees, TearIsReal, SeenKept
  <2>8. CASE Tell \/ TellFails
    <3>1. SeenKept
      BY <1>3, <1>9, <2>8 DEF Tell, TellFails
    <3> QED BY <2>8, <3>1, TellingKeeps
  <2> QED BY <1>3, <2>2, <2>3, <2>4, <2>5, <2>6, <2>7, <2>8 DEF Commands
<1>4. CASE Next /\ Writes
  <2>1. push' = push
    BY <1>4 DEF Writes, WriteLog, AppendOrders, AppendOrdersFails, Crash
  <2>2. push.step = "log" => seen' = seen \cup TornActs(log', orders')
    BY <1>2, <1>4, <2>1
  <2> QED BY <1>4, <1>9, <2>1, <2>2, WritesKeep
<1>5. ASSUME PushUnchanged, push'.step # "log", TearIsReal' PROVE PathInv'
  BY <1>5 DEF PathInv, ActStands, TrailFollowsTheAct, PushSees, PushUnchanged, files
<1>6. CASE FoldLog \/ EndPush
  <2>1. push'.step \in {"orders", "idle"} /\ PushUnchanged
    <3>1. CASE FoldLog
      BY <3>1 DEF FoldLog, NoPush
    <3>2. CASE EndPush
      BY <3>2 DEF EndPush, NoPush
    <3> QED BY <1>6, <3>1, <3>2
  <2>2. TearIsReal'
    BY <2>1 DEF TearIsReal
  <2> QED BY <1>5, <2>1, <2>2
<1>7. CASE Next /\ ReadOrders
  <2>1. push'.step = "log" /\ push'.orders = orders /\ PushUnchanged
    <3>1. push = [step |-> push.step, asOf |-> push.asOf, plans |-> push.plans,
                  fold |-> push.fold, orders |-> push.orders, log |-> push.log]
      BY DEF TypeInv, PushOK
    <3> QED BY <1>7, <3>1 DEF ReadOrders
  <2>2. UNCHANGED <<orders, log, trail, pc, act>>
    BY <2>1 DEF PushUnchanged, files
  <2>3. seen' = seen \cup TornActs(log, orders)
    BY <1>2, <1>7, <2>1, <2>2
  <2>4. PushSees'
    BY <2>1, <2>2, <2>3 DEF PathInv, PushSees, TornActs, LotsWithoutFill
  <2>5. TearIsReal'
    BY <2>1 DEF TearIsReal
  <2> QED BY <2>2, <2>4, <2>5 DEF PathInv, ActStands, TrailFollowsTheAct
<1>8. CASE Next /\ ReadLog
  <2>1. push'.step = "published" /\ PushUnchanged
    <3>1. push = [step |-> push.step, asOf |-> push.asOf, plans |-> push.plans,
                  fold |-> push.fold, orders |-> push.orders, log |-> push.log]
      BY DEF TypeInv, PushOK
    <3> QED BY <1>8, <3>1 DEF ReadLog
  <2>2. seen' = seen
    BY <1>2, <1>8, <2>1
  <2> QED BY <1>5, <1>8, <2>1, <2>2, PublishedTears
<1> QED
  <2>1. CASE Next
    BY <1>3, <1>4, <1>6, <1>7, <1>8, <2>1 DEF Next, Pushing
  <2> QED BY <1>1, <2>1

LEMMA PathInvariant == Spec => []PathInv
<1>1. Init => PathInv
  <2> SUFFICES ASSUME Init PROVE PathInv
    OBVIOUS
  <2>1. ToSet(orders) = {} /\ ToSet(trail) = {} /\ DOMAIN trail = {}
    BY NothingListed DEF Init
  <2>2. FillsOnFile(orders) = {}
    BY <2>1 DEF FillsOnFile
  <2>3. TrailFollowsTheAct
    BY <2>1 DEF TrailFollowsTheAct, IsInjective
  <2> QED BY <2>2, <2>3 DEF Init, PathInv, ActStands, PushSees, TearIsReal, NoPush
<1> QED BY <1>1, TypeInvariant, PathStep, PTL DEF Spec

\* A line of the trail is about one fill, which both files hold.
THEOREM TrailFollows == Spec => []TrailFollowsTheAct
<1>1. PathInv => TrailFollowsTheAct
  BY DEF PathInv
<1> QED BY <1>1, PathInvariant, PTL

\* An act that a push publishes as torn was torn, on that side, while the push ran.
THEOREM TearsAreReal == Spec => []TearIsReal
<1>1. PathInv => TearIsReal
  BY DEF PathInv
<1> QED BY <1>1, PathInvariant, PTL
----------------------------------------------------------------------------
(* A reading is certain: what is in force does not hang on a line that      *)
(* could not be read.                                                       *)

\* The lines of a reading have numbers of their own.
IsReading(loaded) ==
    LET lines == loaded.records \cup loaded.skipped
    IN  /\ loaded.records \cap loaded.skipped = {}
        /\ \A l, m \in lines : l.line \in Nat /\ (l.line = m.line => l = m)
        /\ \A l \in loaded.records : l.at \in Nat

\* The same reading, had one line that was skipped said something else.
IsPatch(one, two, skip, r) ==
    /\ skip \in one.skipped /\ skip.at \in Nat /\ two.status = one.status
    /\ r.line = skip.line /\ r.at = skip.at /\ r.position = skip.position
    /\ \/ /\ two.records = one.records
          /\ two.skipped = (one.skipped \ {skip}) \cup {r}
       \/ /\ two.records = one.records \cup {r}
          /\ two.skipped = one.skipped \ {skip}

\* There is a line in force, and none that was skipped may be in force instead of it.
InForceForSure(loaded, position, asOf) ==
    /\ Winner(loaded, position, asOf) # {}
    /\ \A l \in SkippedOf(loaded, position, asOf) :
        ~ Supersedes(l, Only(Winner(loaded, position, asOf)))

\* One line at most is in force: of two each would be the later.
LEMMA OneWinner ==
    ASSUME NEW loaded, IsReading(loaded), NEW position, NEW asOf
    PROVE  \A l, m \in Winner(loaded, position, asOf) : l = m
<1>1. SUFFICES ASSUME NEW l \in Winner(loaded, position, asOf),
                      NEW m \in Winner(loaded, position, asOf), l # m
               PROVE  FALSE
  OBVIOUS
<1>2. /\ l \in loaded.records /\ m \in loaded.records
      /\ IsLaterByDateThenLine(l, m) /\ IsLaterByDateThenLine(m, l)
  BY <1>1 DEF Winner
<1>3. l.at \in Nat /\ m.at \in Nat /\ l.line \in Nat /\ m.line \in Nat
  BY <1>2 DEF IsReading
<1> QED BY <1>2, <1>3 DEF IsLaterByDateThenLine

LEMMA PatchKeeps ==
    ASSUME NEW one, NEW two, NEW skip, NEW r, NEW asOf \in Nat,
           IsReading(one), IsPatch(one, two, skip, r)
    PROVE  LET position == skip.position
           IN  /\ InForceForSure(one, position, asOf) =>
                    /\ Winner(two, position, asOf) = Winner(one, position, asOf)
                    /\ InForceForSure(two, position, asOf)
               /\ Winner(one, position, asOf) = {} /\ SkippedOf(one, position, asOf) = {} =>
                    /\ Winner(two, position, asOf) = {}
                    /\ SkippedOf(two, position, asOf) = {}
<1> DEFINE position == skip.position
           mine(loaded) == { l \in loaded.records : l.position = position /\ l.at <= asOf }
           best == Winner(one, position, asOf)
           may(loaded) == SkippedOf(loaded, position, asOf)
<1>1. /\ skip \in one.skipped /\ skip.at \in Nat /\ skip.line \in Nat
      /\ r.line = skip.line /\ r.at = skip.at /\ r.position = position
      /\ one.records \subseteq two.records /\ two.records \subseteq one.records \cup {r}
      /\ two.skipped \subseteq (one.skipped \ {skip}) \cup {r}
      /\ \A l \in one.records : l.line \in Nat /\ l.at \in Nat /\ l.line # skip.line
  BY DEF IsPatch, IsReading
<1>2. r \in two.skipped => two.records = one.records
  <2>1. CASE two.records = one.records
    BY <2>1
  <2>2. CASE two.skipped = one.skipped \ {skip}
    <3>1. ASSUME r \in one.skipped PROVE r = skip
      BY <1>1, <3>1 DEF IsReading
    <3> QED BY <2>2, <3>1
  <2> QED BY <2>1, <2>2 DEF IsPatch
<1>3. asOf < skip.at => mine(two) = mine(one) /\ may(two) \subseteq may(one)
  <2>1. ASSUME asOf < skip.at PROVE ~ (r.at <= asOf) /\ r.at # Unreadable
    BY <1>1, <2>1, PlansAssumption
  <2> QED BY <1>1, <2>1 DEF SkippedOf
<1>4. ASSUME asOf < skip.at PROVE Winner(two, position, asOf) = best
  BY <1>3, <1>4 DEF Winner
<1>5. skip.at <= asOf => skip \in may(one)
  BY <1>1 DEF SkippedOf
<1>6. ASSUME InForceForSure(one, position, asOf)
      PROVE  /\ Winner(two, position, asOf) = best
             /\ InForceForSure(two, position, asOf)
  <2>1. PICK w : w \in best
    BY <1>6 DEF InForceForSure
  <2>2. best = {w} /\ Only(best) = w
    BY <2>1, OneWinner DEF Only
  <2>3. /\ w \in one.records /\ w \in mine(one) /\ w.at \in Nat /\ w.line \in Nat
        /\ w.line # skip.line /\ \A m \in mine(one) : m = w \/ IsLaterByDateThenLine(w, m)
    BY <1>1, <2>1 DEF Winner
  <2>4. \A l \in may(one) : ~ Supersedes(l, w)
    BY <1>6, <2>2 DEF InForceForSure
  <2>5. skip.at <= asOf => ~ IsLaterByDateThenLine(skip, w)
    <3>1. skip.at # Unreadable
      BY <1>1, PlansAssumption
    <3> QED BY <1>5, <2>4, <3>1 DEF Supersedes
  <2>6. skip.at <= asOf => ~ IsLaterByDateThenLine(r, w) /\ IsLaterByDateThenLine(w, r)
    BY <1>1, <2>3, <2>5 DEF IsLaterByDateThenLine
  <2>7. Winner(two, position, asOf) = best
    <3>1. CASE asOf < skip.at
      BY <1>4, <3>1
    <3>2. CASE skip.at <= asOf
      <4>1. mine(one) \subseteq mine(two) /\ mine(two) \subseteq mine(one) \cup {r}
        BY <1>1
      <4>2. \A m \in mine(two) : m = w \/ IsLaterByDateThenLine(w, m)
        BY <2>3, <2>6, <3>2, <4>1
      <4>3. w \in Winner(two, position, asOf)
        BY <2>3, <4>1, <4>2 DEF Winner
      <4>4. \A m \in Winner(two, position, asOf) : m = w
        <5>1. SUFFICES ASSUME NEW m \in Winner(two, position, asOf), m # w PROVE FALSE
          OBVIOUS
        <5>2. m \in mine(two) /\ IsLaterByDateThenLine(m, w)
          BY <2>3, <4>1, <5>1 DEF Winner
        <5>3. m # r /\ m \in one.records
          BY <1>1, <2>6, <3>2, <4>1, <5>2
        <5>4. IsLaterByDateThenLine(w, m)
          BY <4>2, <5>1, <5>2
        <5> QED BY <1>1, <2>3, <5>2, <5>3, <5>4 DEF IsLaterByDateThenLine
      <4> QED BY <2>2, <4>3, <4>4
    <3> QED BY <1>1, <3>1, <3>2
  <2>8. ASSUME NEW l \in may(two) PROVE ~ Supersedes(l, w)
    <3>1. CASE l \in may(one)
      BY <2>4, <3>1
    <3>2. CASE l = r /\ r.at <= asOf
      <4>1. r.at # Unreadable
        BY <1>1, PlansAssumption
      <4> QED BY <1>1, <2>6, <3>2, <4>1 DEF Supersedes
    <3>3. l \in two.skipped /\ l.position = position /\ (l.at = Unreadable \/ l.at <= asOf)
      BY DEF SkippedOf
    <3>4. CASE l \in one.skipped
      BY <3>1, <3>3, <3>4 DEF SkippedOf
    <3>5. CASE l = r
      <4>1. r.at # Unreadable
        BY <1>1, PlansAssumption
      <4> QED BY <3>2, <3>3, <3>5, <4>1
    <3> QED BY <1>1, <3>3, <3>4, <3>5
  <2> QED BY <2>2, <2>7, <2>8 DEF InForceForSure
<1>7. ASSUME best = {}, may(one) = {}
      PROVE  Winner(two, position, asOf) = {} /\ may(two) = {}
  <2>1. asOf < skip.at
    BY <1>1, <1>5, <1>7
  <2> QED BY <1>3, <1>4, <1>7, <2>1
<1> QED BY <1>6, <1>7

\* The fields a line is selected by are those of its text.
LEMMA ReadFields ==
    ASSUME NEW text, {"position", "at"} \subseteq DOMAIN text, NEW n, NEW reason
    PROVE  LET l == Read(text, n, reason)
           IN  /\ l.line = n /\ l.reason = reason
               /\ l.position = text.position /\ l.at = text.at
BY DEF Read

\* What is read of the lines of a file, each skipped for its own reason or not at all.
ReadingOf(lines, why) ==
    Loaded("loaded", { Read(lines[n], n, why[n]) : n \in DOMAIN lines })

LEMMA ReadingIsReading ==
    ASSUME NEW lines, IsList(lines), NEW why,
           \A n \in DOMAIN lines : /\ {"position", "at"} \subseteq DOMAIN lines[n]
                                   /\ why[n] = "none" => lines[n].at \in Nat
    PROVE  IsReading(ReadingOf(lines, why))
<1> DEFINE read == { Read(lines[n], n, why[n]) : n \in DOMAIN lines }
           loaded == ReadingOf(lines, why)
<1>1. DOMAIN lines \subseteq Nat
  BY DEF IsList
<1>2. \A n \in DOMAIN lines :
        LET l == Read(lines[n], n, why[n])
        IN  l.line = n /\ l.reason = why[n] /\ l.at = lines[n].at
  BY ReadFields
<1>3. /\ loaded.records = { l \in read : l.reason = "none" }
      /\ loaded.skipped = { l \in read : l.reason # "none" }
  BY DEF ReadingOf, Loaded
<1>4. \A l \in read : \E n \in DOMAIN lines : l = Read(lines[n], n, why[n])
  OBVIOUS
<1> HIDE DEF read, loaded
<1>5. \A l \in read : l.line \in Nat /\ (l.reason = "none" => l.at \in Nat)
  BY <1>1, <1>2, <1>4
<1>6. \A l, m \in read : l.line = m.line => l = m
  BY <1>2, <1>4
<1>7. IsReading(loaded)
  BY <1>3, <1>5, <1>6 DEF IsReading
<1> QED BY <1>7 DEF loaded

\* Of two files that differ in one line, which the one reading skips, at the same date.
LEMMA OneLineChanged ==
    ASSUME NEW one, NEW two, DOMAIN two = DOMAIN one, NEW why, NEW because,
           NEW k \in DOMAIN one,
           \A n \in DOMAIN one \ {k} : two[n] = one[n] /\ because[n] = why[n],
           why[k] # "none", one[k].at \in Nat,
           {"position", "at"} \subseteq DOMAIN one[k] \cap DOMAIN two[k],
           two[k].position = one[k].position, two[k].at = one[k].at,
           \A n \in DOMAIN one : {"position", "at"} \subseteq DOMAIN one[n]
    PROVE  IsPatch(ReadingOf(one, why), ReadingOf(two, because),
                   Read(one[k], k, why[k]), Read(two[k], k, because[k]))
<1> DEFINE before == { Read(one[n], n, why[n]) : n \in DOMAIN one }
           after == { Read(two[n], n, because[n]) : n \in DOMAIN two }
           skip == Read(one[k], k, why[k])
           r == Read(two[k], k, because[k])
           rest == { Read(one[n], n, why[n]) : n \in DOMAIN one \ {k} }
<1>1. /\ skip.line = k /\ skip.reason # "none" /\ skip.at = one[k].at
      /\ skip.position = one[k].position /\ r.line = k /\ r.reason = because[k]
      /\ r.at = one[k].at /\ r.position = one[k].position
  BY ReadFields
<1>2. \A n \in DOMAIN one : Read(one[n], n, why[n]).line = n
  BY ReadFields
<1>3. before = rest \cup {skip} /\ after = rest \cup {r}
  OBVIOUS
<1>4. \A l \in rest : l.line # k
  BY <1>2
<1>5. /\ ReadingOf(one, why).records = { l \in before : l.reason = "none" }
      /\ ReadingOf(one, why).skipped = { l \in before : l.reason # "none" }
      /\ ReadingOf(two, because).records = { l \in after : l.reason = "none" }
      /\ ReadingOf(two, because).skipped = { l \in after : l.reason # "none" }
      /\ ReadingOf(one, why).status = ReadingOf(two, because).status
  BY DEF ReadingOf, Loaded
<1> HIDE DEF before, after, rest, skip, r
<1>6. skip \notin rest
  BY <1>1, <1>4
<1>7. CASE r.reason = "none"
  <2>1. ReadingOf(two, because).records = ReadingOf(one, why).records \cup {r}
    BY <1>1, <1>3, <1>5, <1>7
  <2>2. ReadingOf(two, because).skipped = ReadingOf(one, why).skipped \ {skip}
    BY <1>1, <1>3, <1>5, <1>6, <1>7
  <2>3. IsPatch(ReadingOf(one, why), ReadingOf(two, because), skip, r)
    BY <1>1, <1>3, <1>5, <2>1, <2>2 DEF IsPatch
  <2> QED BY <2>3 DEF skip, r
<1>8. CASE r.reason # "none"
  <2>1. ReadingOf(two, because).records = ReadingOf(one, why).records
    BY <1>1, <1>3, <1>5, <1>8
  <2>2. ReadingOf(two, because).skipped = (ReadingOf(one, why).skipped \ {skip}) \cup {r}
    BY <1>1, <1>3, <1>5, <1>6, <1>8
  <2>3. IsPatch(ReadingOf(one, why), ReadingOf(two, because), skip, r)
    BY <1>1, <1>3, <1>5, <2>1, <2>2 DEF IsPatch
  <2> QED BY <2>3 DEF skip, r
<1> QED BY <1>7, <1>8

\* The ladders that the lines before each have claimed, one line after the other.
Claiming(lines, c, n) ==
    IF lines[n].kind = "dcaLadder" /\ PlanLineProblem(lines[n], c) = "none"
    THEN c \cup {lines[n].id} ELSE c

LEMMA PlansRead ==
    ASSUME NEW lines, IsList(lines)
    PROVE  \E claimed :
                /\ claimed[0] = {}
                /\ \A n \in 1 .. Len(lines) : claimed[n] = Claiming(lines, claimed[n - 1], n)
                /\ LoadPlans(lines) = ReadingOf(lines,
                        [n \in DOMAIN lines |-> PlanLineProblem(lines[n], claimed[n - 1])])
<1> DEFINE m == Len(lines)
           S == SUBSET { lines[n].id : n \in 1 .. m }
           fold == CHOOSE f : f = [n \in 0 .. m |->
                        IF n = 0 THEN {} ELSE
                        IF /\ lines[n].kind = "dcaLadder"
                           /\ PlanLineProblem(lines[n], f[n - 1]) = "none"
                        THEN f[n - 1] \cup {lines[n].id} ELSE f[n - 1]]
           why == [n \in DOMAIN lines |-> PlanLineProblem(lines[n], fold[n - 1])]
<1>1. m \in Nat /\ DOMAIN lines = 1 .. m
  BY DEF IsList
<1>2. LoadPlans(lines) = Loaded("loaded",
        { Read(lines[n], n, PlanLineProblem(lines[n], fold[n - 1])) : n \in DOMAIN lines })
  BY DEF LoadPlans
<1>3. fold[0] = {} /\ \A n \in 1 .. m : fold[n] = Claiming(lines, fold[n - 1], n)
  <2> HIDE DEF m
  <2> DEFINE step == [x \in S \X (1 .. m) |-> Claiming(lines, x[1], x[2])]
  <2>1. step \in [S \X (1 .. m) -> S] /\ {} \in S
    BY DEF Claiming
  <2> HIDE DEF step, S
  <2>2. PICK f : IsFold(f, S, m, {}, step)
    BY <1>1, <2>1, FoldExists
  <2>3. \A n \in 1 .. m : n - 1 \in 0 .. m /\ f[n - 1] \in S
    BY <1>1, <2>2 DEF IsFold
  <2>4. \A n \in 1 .. m : f[n] = Claiming(lines, f[n - 1], n)
    BY <2>2, <2>3 DEF step, IsFold
  <2>5. f = [n \in 0 .. m |-> IF n = 0 THEN {} ELSE Claiming(lines, f[n - 1], n)]
    BY <1>1, <2>2, <2>4 DEF IsFold
  <2>6. fold = [n \in 0 .. m |-> IF n = 0 THEN {} ELSE Claiming(lines, fold[n - 1], n)]
    BY <2>5 DEF Claiming
  <2> HIDE DEF fold
  <2>7. 0 \in 0 .. m /\ \A n \in 1 .. m : n \in 0 .. m /\ n # 0
    BY <1>1
  <2>8. \A n \in 0 .. m : fold[n] = IF n = 0 THEN {} ELSE Claiming(lines, fold[n - 1], n)
    BY <2>6, Zenon
  <2> QED BY <2>7, <2>8
<1> HIDE DEF fold
<1>4. LoadPlans(lines) = ReadingOf(lines, why)
  <2>1. { Read(lines[n], n, PlanLineProblem(lines[n], fold[n - 1])) : n \in DOMAIN lines } =
        { Read(lines[n], n, why[n]) : n \in DOMAIN lines }
    OBVIOUS
  <2> HIDE DEF why
  <2> QED BY <1>2, <2>1 DEF ReadingOf
<1> QED BY <1>3, <1>4

\* What every line of plans.jsonl and of the trail says, whatever else it says: its
\* position and its date, and a ladder its rungs.
ReadInv ==
    /\ IsList(plans) /\ IsList(trail)
    /\ \A text \in ToSet(plans) :
        /\ {"position", "at", "kind"} \subseteq DOMAIN text /\ text.at \in Nat \cup {Unreadable}
        /\ text.kind = "dcaLadder" =>
            "rungs" \in DOMAIN text /\ text.rungs \in Seq(ToSet(text.rungs))
    /\ \A text \in ToSet(trail) :
        {"position", "at", "mismatches"} \subseteq DOMAIN text /\ text.at \in Nat

LEMMA ReadStep == TypeInv /\ ReadInv /\ [Next]_vars => ReadInv'
<1> SUFFICES ASSUME TypeInv, ReadInv, [Next]_vars PROVE ReadInv'
  OBVIOUS
<1>1. ASSUME UNCHANGED <<plans, trail>> PROVE ReadInv'
  BY <1>1 DEF ReadInv
<1>2. CASE UNCHANGED vars
  BY <1>1, <1>2 DEF vars, files
<1>3. CASE AuthorPlan
  <2>1. PICK text \in PlanLines : plans' = Append(plans, text)
    BY <1>3 DEF AuthorPlan
  <2>2. IsList(plans') /\ ToSet(plans') = ToSet(plans) \cup {text}
    BY <2>1, ListGrowsByOne DEF ReadInv
  <2>3. trail' = trail
    BY <1>3 DEF AuthorPlan
  <2> QED BY <2>2, <2>3, PlansAssumption DEF ReadInv
<1>4. CASE Tell \/ TellFails
  <2> DEFINE told(loaded) == Line(loaded)
             newer == [Line(LoadPlans(plans)) EXCEPT !.mismatches = {"newer"}]
             good(text) == {"position", "at", "mismatches"} \subseteq DOMAIN text /\ text.at \in Nat
  <2>1. act.id[2] \in Nat
    <3>1. act.id \in (DOMAIN Offers) \X (1 .. now) /\ now \in Nat
      BY <1>4 DEF TypeInv, ActOK, Tell, TellFails
    <3> QED BY <3>1
  <2>2. \A loaded : good(told(loaded))
    BY <2>1 DEF Line
  <2>3. good(newer)
    BY <2>1 DEF Line
  <2>4. \/ trail' = Append(trail, told(LoadPlans(plans)))
        \/ trail' = Append(trail, told(LoadFailed))
        \/ trail' = Append(trail, newer)
        \/ trail' = trail
    BY <1>4 DEF Tell, TellFails
  <2>5. plans' = plans
    BY <1>4 DEF Tell, TellFails
  <2> HIDE DEF told, newer
  <2>6. ASSUME NEW text, good(text), trail' = Append(trail, text) PROVE ReadInv'
    <3>1. IsList(trail') /\ ToSet(trail') = ToSet(trail) \cup {text}
      BY <2>6, ListGrowsByOne DEF ReadInv
    <3> QED BY <2>5, <2>6, <3>1 DEF ReadInv
  <2> QED BY <1>1, <2>2, <2>3, <2>4, <2>5, <2>6
<1>5. CASE Writes \/ Pushing
  BY <1>1, <1>5 DEF Writes, WriteLog, AppendOrders, AppendOrdersFails, Crash, files,
                    Pushing, FoldLog, ReadOrders, ReadLog, EndPush, PushUnchanged
<1>6. CASE Tick
  BY <1>1, <1>6 DEF Tick, files
<1>7. ASSUME NEW id \in DOMAIN Offers,
             VenuePlaces(id) \/ VenueCancels(id) \/ RecordCancel(id) \/ Interview(id)
      PROVE  ReadInv'
  <2>1. CASE VenuePlaces(id) \/ VenueCancels(id)
    BY <1>1, <2>1 DEF VenuePlaces, VenueCancels, files
  <2>2. CASE RecordCancel(id)
    BY <1>1, <2>2 DEF RecordCancel
  <2>3. CASE Interview(id)
    <3>1. UNCHANGED <<now, venue, files, push, incidents>>
      BY <2>3 DEF Interview
    <3> QED BY <1>1, <3>1 DEF files
  <2> QED BY <1>7, <2>1, <2>2, <2>3
<1>8. ASSUME NEW level, PriceFalls(level) PROVE ReadInv'
  <2>1. UNCHANGED <<now, files, pc, act, push, incidents>>
    BY <1>8 DEF PriceFalls
  <2> QED BY <1>1, <2>1 DEF files
<1>9. CASE Import
  <2>1. UNCHANGED <<now, venue, plans, log, trail, pc, act, push, incidents>>
    BY <1>9 DEF Import
  <2> QED BY <1>1, <2>1
<1> QED BY <1>2, <1>3, <1>4, <1>5, <1>6, <1>7, <1>8, <1>9 DEF Next, Commands

LEMMA ReadInvariant == Spec => []ReadInv
<1>1. Init => ReadInv
  <2> SUFFICES ASSUME Init PROVE ReadInv
    OBVIOUS
  <2>1. plans = Declared /\ trail = <<>>
    BY DEF Init
  <2> QED BY <2>1, NothingListed, PlansAssumption DEF ReadInv, IsList
<1>2. TypeInv /\ ReadInv /\ [Next]_vars => ReadInv'
  BY ReadStep
<1> QED BY <1>1, <1>2, TypeInvariant, PTL DEF Spec

\* A plan that is skipped claims no ladder, and one that ends a position claims none.
LEMMA PlansAreCertain ==
    ASSUME ReadInv PROVE PlanIsCertain
<1> DEFINE loaded == LoadPlans(plans)
<1>1. SUFFICES ASSUME NEW position \in Positions, NEW asOf \in 1 .. MaxNow,
                      PickPlanAsOf(loaded, position, asOf, {}).status # "unreadable",
                      NEW skip \in loaded.skipped, skip.position = position,
                      skip.at # Unreadable
               PROVE  PickPlanAsOf(LoadPlans([plans EXCEPT ![skip.line] =
                                [position |-> position, at |-> skip.at, kind |-> "noPlan"]]),
                            position, asOf, {}) = PickPlanAsOf(loaded, position, asOf, {})
  BY DEF PlanIsCertain
<1>2. /\ IsList(plans) /\ DOMAIN plans = 1 .. Len(plans) /\ Len(plans) \in Nat
      /\ \A n \in DOMAIN plans :
            /\ {"position", "at", "kind"} \subseteq DOMAIN plans[n]
            /\ plans[n].at \in Nat \cup {Unreadable}
  <2>1. IsList(plans) /\ \A text \in ToSet(plans) :
            /\ {"position", "at", "kind"} \subseteq DOMAIN text
            /\ text.at \in Nat \cup {Unreadable}
    BY DEF ReadInv
  <2>2. \A n \in DOMAIN plans : plans[n] \in ToSet(plans)
    BY DEF ToSet
  <2>3. DOMAIN plans = 1 .. Len(plans) /\ Len(plans) \in Nat
    BY <2>1 DEF IsList
  <2> QED BY <2>1, <2>2, <2>3
<1>3. PICK claimed :
        /\ claimed[0] = {}
        /\ \A n \in 1 .. Len(plans) : claimed[n] = Claiming(plans, claimed[n - 1], n)
        /\ loaded = ReadingOf(plans,
                [n \in DOMAIN plans |-> PlanLineProblem(plans[n], claimed[n - 1])])
  BY <1>2, PlansRead
<1> DEFINE why == [n \in DOMAIN plans |-> PlanLineProblem(plans[n], claimed[n - 1])]
<1>4. PICK k \in DOMAIN plans : skip = Read(plans[k], k, why[k]) /\ why[k] # "none"
  <2>1. loaded.skipped = { l \in { Read(plans[n], n, why[n]) : n \in DOMAIN plans } :
                                l.reason # "none" }
    BY <1>3 DEF ReadingOf, Loaded
  <2>2. PICK k \in DOMAIN plans : skip = Read(plans[k], k, why[k]) /\ skip.reason # "none"
    BY <2>1
  <2>3. skip.reason = why[k]
    BY <1>2, <2>2, ReadFields
  <2> QED BY <2>2, <2>3
<1> HIDE DEF why
<1>5. skip.line = k /\ plans[k].position = position /\ plans[k].at = skip.at /\ skip.at \in Nat
  BY <1>1, <1>2, <1>4, ReadFields
<1> DEFINE text == [position |-> position, at |-> skip.at, kind |-> "noPlan"]
           other == [plans EXCEPT ![skip.line] = text]
<1>6. /\ text.position = position /\ text.at = skip.at /\ text.kind = "noPlan"
      /\ {"position", "at", "kind"} \subseteq DOMAIN text
  OBVIOUS
<1>7. other[k] = text /\ DOMAIN other = DOMAIN plans
      /\ \A n \in DOMAIN plans \ {k} : other[n] = plans[n]
  BY <1>4, <1>5 DEF IsList
<1>8. IsList(other) /\ Len(other) = Len(plans)
  <2>1. plans \in Seq(ToSet(plans) \cup {text}) /\ text \in ToSet(plans) \cup {text}
    BY <1>2 DEF IsList
  <2> HIDE DEF text
  <2>2. other \in Seq(ToSet(plans) \cup {text}) /\ Len(other) = Len(plans)
    BY <1>2, <1>5, <2>1
  <2>3. DOMAIN other = 1 .. Len(other) /\ \A n \in 1 .. Len(other) : other[n] \in ToSet(other)
    BY <1>2, <1>7, <2>2 DEF ToSet
  <2> HIDE DEF other
  <2>4. other \in Seq(ToSet(other))
    BY <2>2, <2>3
  <2> QED BY <2>2, <2>4 DEF IsList
<1> HIDE DEF text, other
<1>9. PICK taken :
        /\ taken[0] = {}
        /\ \A n \in 1 .. Len(other) : taken[n] = Claiming(other, taken[n - 1], n)
        /\ LoadPlans(other) = ReadingOf(other,
                [n \in DOMAIN other |-> PlanLineProblem(other[n], taken[n - 1])])
  BY <1>8, PlansRead
<1>10. \A n \in 0 .. Len(plans) : taken[n] = claimed[n]
  <2> DEFINE T == { n \in 0 .. Len(plans) : taken[n] = claimed[n] }
  <2>1. 0 \in T
    <3>1. 0 \in 0 .. Len(plans) /\ taken[0] = claimed[0]
      BY <1>2, <1>3, <1>9
    <3> QED BY <3>1 DEF T
  <2>2. ASSUME NEW n \in 0 .. Len(plans) - 1, n \in T PROVE n + 1 \in T
    <3>1. n + 1 \in 1 .. Len(plans) /\ n + 1 - 1 = n /\ taken[n] = claimed[n]
      BY <1>2, <2>2
    <3>2. /\ claimed[n + 1] = Claiming(plans, claimed[n], n + 1)
          /\ taken[n + 1] = Claiming(other, claimed[n], n + 1)
      BY <1>3, <1>8, <1>9, <3>1
    <3>3. CASE n + 1 = k
      <4>1. Claiming(other, claimed[n], k) = claimed[n]
        BY <1>6, <1>7 DEF Claiming
      <4>2. why[k] = PlanLineProblem(plans[k], claimed[n])
        BY <3>1, <3>3 DEF why
      <4>3. Claiming(plans, claimed[n], k) = claimed[n]
        BY <1>4, <4>2 DEF Claiming
      <4> QED BY <1>2, <3>1, <3>2, <3>3, <4>1, <4>3
    <3>4. CASE n + 1 # k
      <4>1. other[n + 1] = plans[n + 1]
        BY <1>2, <1>7, <3>1, <3>4
      <4>2. Claiming(other, claimed[n], n + 1) = Claiming(plans, claimed[n], n + 1)
        BY <4>1 DEF Claiming
      <4> QED BY <1>2, <3>1, <3>2, <4>2
    <3> QED BY <3>3, <3>4
  <2> HIDE DEF T
  <2>3. \A n \in 0 .. Len(plans) : n \in T
    BY <1>2, <2>1, <2>2, InductionUpTo
  <2> QED BY <2>3 DEF T
<1> DEFINE because == [n \in DOMAIN other |-> PlanLineProblem(other[n], taken[n - 1])]
<1>11. \A n \in DOMAIN plans \ {k} : because[n] = why[n]
  <2>1. SUFFICES ASSUME NEW n \in DOMAIN plans \ {k} PROVE because[n] = why[n]
    OBVIOUS
  <2>2. n - 1 \in 0 .. Len(plans)
    BY <1>2
  <2>3. taken[n - 1] = claimed[n - 1] /\ other[n] = plans[n] /\ n \in DOMAIN other
    BY <1>7, <1>10, <2>2
  <2> QED BY <2>3 DEF why
<1>12. LoadPlans(other) = ReadingOf(other, because) /\ loaded = ReadingOf(plans, why)
  BY <1>3, <1>9 DEF why
<1>13. \A n \in DOMAIN plans : why[n] = "none" => plans[n].at \in Nat
  <2>1. SUFFICES ASSUME NEW n \in DOMAIN plans, why[n] = "none" PROVE plans[n].at \in Nat
    OBVIOUS
  <2>2. PlanLineProblem(plans[n], claimed[n - 1]) = "none"
    BY <2>1 DEF why
  <2>3. plans[n].at # Unreadable
    BY <2>2 DEF PlanLineProblem
  <2> QED BY <1>2, <2>3
<1> HIDE DEF because, loaded
<1>14. IsReading(loaded)
  BY <1>2, <1>12, <1>13, ReadingIsReading
<1>15. PICK r : IsPatch(loaded, LoadPlans(other), skip, r)
  <2>1. /\ other[k].position = plans[k].position /\ other[k].at = plans[k].at
        /\ {"position", "at"} \subseteq DOMAIN plans[k] \cap DOMAIN other[k]
        /\ plans[k].at \in Nat
    BY <1>2, <1>5, <1>6, <1>7
  <2>2. \A n \in DOMAIN plans \ {k} : other[n] = plans[n] /\ because[n] = why[n]
    BY <1>7, <1>11
  <2>3. \A n \in DOMAIN plans : {"position", "at"} \subseteq DOMAIN plans[n]
    BY <1>2
  <2>4. IsPatch(ReadingOf(plans, why), ReadingOf(other, because),
                Read(plans[k], k, why[k]), Read(other[k], k, because[k]))
    BY <1>4, <1>7, <2>1, <2>2, <2>3, OneLineChanged
  <2> QED BY <1>4, <1>12, <2>4
<1> DEFINE best == Winner(loaded, position, asOf)
           may == SkippedOf(loaded, position, asOf)
<1>16. asOf \in Nat /\ skip.position = position
  BY <1>1, LadderAssumption
<1>17. /\ InForceForSure(loaded, position, asOf) =>
            /\ Winner(LoadPlans(other), position, asOf) = best
            /\ InForceForSure(LoadPlans(other), position, asOf)
       /\ best = {} /\ may = {} =>
            /\ Winner(LoadPlans(other), position, asOf) = {}
            /\ SkippedOf(LoadPlans(other), position, asOf) = {}
  BY <1>14, <1>15, <1>16, PatchKeeps
<1>18. loaded.status = "loaded" /\ LoadPlans(other).status = "loaded"
  BY <1>12 DEF ReadingOf, Loaded
<1>19. best = {} => may = {}
  BY <1>1, <1>18 DEF PickPlanAsOf
<1>20. best # {} => InForceForSure(loaded, position, asOf)
  BY <1>1, <1>18 DEF PickPlanAsOf, InForceForSure
<1>21. PickPlanAsOf(LoadPlans(other), position, asOf, {}) = PickPlanAsOf(loaded, position, asOf, {})
  <2>1. CASE best = {}
    BY <1>17, <1>18, <1>19, <2>1 DEF PickPlanAsOf
  <2>2. CASE best # {}
    BY <1>17, <1>18, <1>20, <2>2 DEF PickPlanAsOf, InForceForSure
  <2> QED BY <2>1, <2>2
<1> QED BY <1>21 DEF other, text, loaded

LEMMA VerdictsAreCertain ==
    ASSUME ReadInv PROVE VerdictIsCertain
<1> DEFINE loaded == LoadReconciliations(trail)
<1>1. SUFFICES ASSUME NEW position \in Positions, NEW asOf \in 1 .. MaxNow,
                      PickReconciliationAsOf(loaded, position, asOf) # "unknown",
                      NEW skip \in loaded.skipped, skip.position = position,
                      NEW mismatches \in SUBSET Mismatches
               PROVE  PickReconciliationAsOf(
                        LoadReconciliations([trail EXCEPT ![skip.line].mismatches = mismatches]),
                        position, asOf) = PickReconciliationAsOf(loaded, position, asOf)
  BY DEF VerdictIsCertain
<1>2. /\ IsList(trail) /\ DOMAIN trail = 1 .. Len(trail) /\ Len(trail) \in Nat
      /\ \A n \in DOMAIN trail :
            {"position", "at", "mismatches"} \subseteq DOMAIN trail[n] /\ trail[n].at \in Nat
  BY DEF ReadInv, IsList, ToSet
<1> DEFINE why == [n \in DOMAIN trail |-> ReconciliationLineProblem(trail[n])]
<1>3. trail # <<>> => loaded = ReadingOf(trail, why)
  <2>1. { Read(trail[n], n, ReconciliationLineProblem(trail[n])) : n \in DOMAIN trail } =
        { Read(trail[n], n, why[n]) : n \in DOMAIN trail }
    OBVIOUS
  <2> HIDE DEF why
  <2> QED BY <2>1 DEF LoadReconciliations, ReadingOf
<1>4. trail # <<>>
  BY <1>1 DEF LoadReconciliations, Loaded
<1>5. PICK k \in DOMAIN trail : skip = Read(trail[k], k, why[k]) /\ why[k] # "none"
  <2> HIDE DEF why, loaded
  <2>1. loaded.skipped = { l \in { Read(trail[n], n, why[n]) : n \in DOMAIN trail } :
                                l.reason # "none" }
    BY <1>3, <1>4 DEF ReadingOf, Loaded
  <2>2. PICK k \in DOMAIN trail : skip = Read(trail[k], k, why[k]) /\ skip.reason # "none"
    BY <1>1, <2>1
  <2>3. skip.reason = why[k]
    BY <1>2, <2>2, ReadFields
  <2> QED BY <2>2, <2>3
<1> HIDE DEF why
<1>6. skip.line = k /\ trail[k].position = position /\ trail[k].at = skip.at /\ skip.at \in Nat
  BY <1>1, <1>2, <1>5, ReadFields
<1> DEFINE text == [trail[k] EXCEPT !.mismatches = mismatches]
           other == [trail EXCEPT ![skip.line].mismatches = mismatches]
           because == [n \in DOMAIN other |-> ReconciliationLineProblem(other[n])]
<1>7. other[k] = text /\ DOMAIN other = DOMAIN trail
      /\ \A n \in DOMAIN trail \ {k} : other[n] = trail[n]
  BY <1>5, <1>6 DEF IsList
<1>8. /\ {"position", "at"} \subseteq DOMAIN text
      /\ text.position = trail[k].position /\ text.at = trail[k].at
  BY <1>2
<1>9. \A n \in DOMAIN trail \ {k} : because[n] = why[n]
  BY <1>7 DEF why
<1> HIDE DEF text
<1>10. other # <<>>
  <2>1. k \in DOMAIN other
    BY <1>7
  <2> HIDE DEF other
  <2> QED BY <2>1
<1>11. LoadReconciliations(other) = ReadingOf(other, because)
  <2>1. { Read(other[n], n, ReconciliationLineProblem(other[n])) : n \in DOMAIN other } =
        { Read(other[n], n, because[n]) : n \in DOMAIN other }
    OBVIOUS
  <2> HIDE DEF because, other
  <2> QED BY <1>10, <2>1 DEF LoadReconciliations, ReadingOf
<1> HIDE DEF because, other, loaded
<1>12. IsReading(loaded)
  BY <1>2, <1>3, <1>4, ReadingIsReading
<1>13. PICK r : IsPatch(loaded, LoadReconciliations(other), skip, r)
  <2>1. /\ other[k].position = trail[k].position /\ other[k].at = trail[k].at
        /\ {"position", "at"} \subseteq DOMAIN trail[k] \cap DOMAIN other[k]
        /\ trail[k].at \in Nat
    BY <1>2, <1>7, <1>8
  <2>2. \A n \in DOMAIN trail \ {k} : other[n] = trail[n] /\ because[n] = why[n]
    BY <1>7, <1>9
  <2>3. \A n \in DOMAIN trail : {"position", "at"} \subseteq DOMAIN trail[n]
    BY <1>2
  <2>4. IsPatch(ReadingOf(trail, why), ReadingOf(other, because),
                Read(trail[k], k, why[k]), Read(other[k], k, because[k]))
    BY <1>5, <1>7, <2>1, <2>2, <2>3, OneLineChanged
  <2> QED BY <1>3, <1>4, <1>5, <1>11, <2>4
<1> DEFINE best == Winner(loaded, position, asOf)
<1>14. asOf \in Nat /\ skip.position = position
  BY <1>1, LadderAssumption
<1>15. InForceForSure(loaded, position, asOf) =>
            /\ Winner(LoadReconciliations(other), position, asOf) = best
            /\ InForceForSure(LoadReconciliations(other), position, asOf)
  BY <1>12, <1>13, <1>14, PatchKeeps
<1>16. loaded.status = "loaded" /\ LoadReconciliations(other).status = "loaded"
  BY <1>3, <1>4, <1>11 DEF ReadingOf, Loaded
<1>17. InForceForSure(loaded, position, asOf)
  BY <1>1, <1>16 DEF PickReconciliationAsOf, InForceForSure
<1>18. PickReconciliationAsOf(LoadReconciliations(other), position, asOf) =
       PickReconciliationAsOf(loaded, position, asOf)
  BY <1>15, <1>16, <1>17 DEF PickReconciliationAsOf, InForceForSure
<1> QED BY <1>18 DEF other, loaded

\* A plan or a verdict that is shown does not hang on a line that could not be read:
\* whatever that line said, the same would be shown (engine/plans.ts 487-535 and
\* engine/reconciliations.ts 433-507).
THEOREM ReadingsAreCertain == Spec => []ReadIsCertain
<1>1. ReadInv => ReadIsCertain
  BY PlansAreCertain, VerdictsAreCertain DEF ReadIsCertain
<1> QED BY <1>1, ReadInvariant, PTL
----------------------------------------------------------------------------
(* What the file says the venue filled of an order only grows.             *)

\* A line that says how much of its order was filled, and the figure it says.
Tells(r) == r.kind \in {"orderPlaced", "orderFillObserved"}
Told(r) == IF r.kind = "orderPlaced" THEN r.observed ELSE r.quantity

\* Of two lines that tell of one order the second is an observation, no older and no less.
Follows(x, r) ==
    x.id = r.id /\ Tells(x) /\ Tells(r) =>
        r.kind = "orderFillObserved" /\ x.at <= r.at /\ Told(x) <= Told(r)
Watched(file) == \A i, j \in DOMAIN file : i < j => Follows(file[i], file[j])

LEMMA WatchedBoth ==
    ASSUME NEW S, NEW s \in Seq(S), NEW t \in Seq(S), Watched(s), Watched(t),
           \A x \in ToSet(s), y \in ToSet(t) : Follows(x, y)
    PROVE  Watched(s \o t)
<1>1. /\ s \o t \in Seq(S) /\ Len(s \o t) = Len(s) + Len(t) /\ Len(s) \in Nat /\ Len(t) \in Nat
      /\ \A i \in 1 .. Len(s) : (s \o t)[i] = s[i] /\ s[i] \in ToSet(s) /\ i \in DOMAIN s
      /\ \A i \in 1 .. Len(t) : t[i] \in ToSet(t) /\ i \in DOMAIN t
  BY DEF ToSet
<1>2. \A i \in 1 .. Len(s) + Len(t) : i > Len(s) =>
        i - Len(s) \in 1 .. Len(t) /\ (s \o t)[i] = t[i - Len(s)]
  OBVIOUS
<1> SUFFICES ASSUME NEW i \in DOMAIN (s \o t), NEW j \in DOMAIN (s \o t), i < j
             PROVE  Follows((s \o t)[i], (s \o t)[j])
  BY DEF Watched
<1>3. i \in 1 .. Len(s) + Len(t) /\ j \in 1 .. Len(s) + Len(t)
  BY <1>1
<1>4. CASE j <= Len(s)
  <2>1. i \in 1 .. Len(s) /\ j \in 1 .. Len(s)
    BY <1>1, <1>3, <1>4
  <2>2. Follows(s[i], s[j])
    BY <1>1, <2>1 DEF Watched
  <2> QED BY <1>1, <2>1, <2>2
<1>5. CASE i <= Len(s) /\ j > Len(s)
  <2>1. i \in 1 .. Len(s) /\ j - Len(s) \in 1 .. Len(t)
    BY <1>1, <1>3, <1>5
  <2>2. s[i] \in ToSet(s) /\ t[j - Len(s)] \in ToSet(t)
    BY <1>1, <2>1
  <2>3. (s \o t)[i] = s[i] /\ (s \o t)[j] = t[j - Len(s)]
    BY <1>1, <1>2, <1>3, <1>5, <2>1
  <2> QED BY <2>2, <2>3
<1>6. CASE i > Len(s)
  <2>1. i - Len(s) \in 1 .. Len(t) /\ j - Len(s) \in 1 .. Len(t) /\ i - Len(s) < j - Len(s)
    BY <1>1, <1>3, <1>6
  <2>2. Follows(t[i - Len(s)], t[j - Len(s)])
    BY <1>1, <2>1 DEF Watched
  <2>3. (s \o t)[i] = t[i - Len(s)] /\ (s \o t)[j] = t[j - Len(s)]
    BY <1>1, <1>2, <1>3, <1>6
  <2> QED BY <2>2, <2>3
<1> QED BY <1>1, <1>3, <1>4, <1>5, <1>6

LEMMA WatchedOneMore ==
    ASSUME NEW S, NEW s \in Seq(S), NEW r \in S, Watched(s), \A x \in ToSet(s) : Follows(x, r)
    PROVE  Watched(Append(s, r))
<1>1. /\ Append(s, r) \in Seq(S) /\ Len(Append(s, r)) = Len(s) + 1 /\ Len(s) \in Nat
      /\ DOMAIN Append(s, r) = 1 .. Len(s) + 1 /\ DOMAIN s = 1 .. Len(s)
      /\ \A i \in 1 .. Len(s) : Append(s, r)[i] = s[i] /\ s[i] \in ToSet(s)
      /\ Append(s, r)[Len(s) + 1] = r
  BY DEF ToSet
<1> SUFFICES ASSUME NEW i \in 1 .. Len(s) + 1, NEW j \in 1 .. Len(s) + 1, i < j
             PROVE  Follows(Append(s, r)[i], Append(s, r)[j])
  BY <1>1 DEF Watched
<1>2. i \in 1 .. Len(s) /\ Append(s, r)[i] = s[i] /\ s[i] \in ToSet(s)
  BY <1>1
<1>3. CASE j = Len(s) + 1
  BY <1>1, <1>2, <1>3
<1>4. CASE j \in 1 .. Len(s)
  <2>1. Follows(s[i], s[j])
    BY <1>1, <1>2, <1>4 DEF Watched
  <2> QED BY <1>1, <1>2, <1>4, <2>1
<1> QED BY <1>1, <1>3, <1>4

\* What is kept of it grows no less.
LEMMA WatchedKept ==
    ASSUME NEW S, NEW file \in Seq(S), Watched(file), NEW places
    PROVE  Watched(Kept(file, places))
<1> DEFINE n == Len(file)
<1>1. n \in Nat /\ DOMAIN file = 1 .. n /\ \A k \in 1 .. n : file[k] \in S
  OBVIOUS
<1>2. PICK f : IsKeeping(f, S, file, places) /\ Kept(file, places) = f[n]
  BY KeptRuns
<1>3. /\ f[0] = <<>>
      /\ \A k \in 0 .. n : f[k] \in Seq(S)
      /\ \A k \in 1 .. n : f[k] = IF k \in places THEN Append(f[k - 1], file[k]) ELSE f[k - 1]
  BY <1>2 DEF IsKeeping
<1> DEFINE T == { k \in 0 .. n : Watched(f[k]) /\ \A x \in ToSet(f[k]) : \E i \in 1 .. k : x = file[i] }
<1>4. 0 \in T
  <2>1. DOMAIN f[0] = {} /\ ToSet(f[0]) = {}
    BY <1>3 DEF ToSet
  <2> QED BY <1>1, <2>1 DEF Watched
<1>5. ASSUME NEW k \in 0 .. n - 1, k \in T PROVE k + 1 \in T
  <2>1. k + 1 \in 1 .. n /\ k + 1 - 1 = k /\ k + 1 \in 0 .. n /\ k \in 0 .. n /\ k + 1 \in Nat
    BY <1>1
  <2>2. Watched(f[k]) /\ \A x \in ToSet(f[k]) : \E i \in 1 .. k : x = file[i]
    BY <1>5
  <2>3. CASE k + 1 \in places
    <3>1. f[k + 1] = Append(f[k], file[k + 1])
      <4>1. f[k + 1] = IF k + 1 \in places THEN Append(f[k + 1 - 1], file[k + 1]) ELSE f[k + 1 - 1]
        BY <1>3, <2>1
      <4> QED BY <2>1, <2>3, <4>1
    <3>2. \A x \in ToSet(f[k]) : Follows(x, file[k + 1])
      <4>1. ASSUME NEW i \in 1 .. k PROVE Follows(file[i], file[k + 1])
        <5>1. i \in DOMAIN file /\ k + 1 \in DOMAIN file /\ i < k + 1
          BY <1>1, <2>1
        <5> QED BY <5>1 DEF Watched
      <4> QED BY <2>2, <4>1
    <3>3. f[k] \in Seq(S) /\ file[k + 1] \in S
      BY <1>1, <1>3, <2>1
    <3>4. Watched(f[k + 1])
      BY <2>2, <3>1, <3>2, <3>3, WatchedOneMore
    <3>5. ToSet(f[k + 1]) = ToSet(f[k]) \cup {file[k + 1]}
      BY <3>1, <3>3, AppendedOne
    <3>6. \A x \in ToSet(f[k + 1]) : \E i \in 1 .. k + 1 : x = file[i]
      BY <2>1, <2>2, <3>5
    <3> QED BY <2>1, <3>4, <3>6
  <2>4. CASE k + 1 \notin places
    <3>1. f[k + 1] = f[k]
      BY <1>3, <2>1, <2>4
    <3>2. \A x \in ToSet(f[k + 1]) : \E i \in 1 .. k + 1 : x = file[i]
      BY <2>1, <2>2, <3>1
    <3> QED BY <2>1, <2>2, <3>1, <3>2
  <2> QED BY <2>3, <2>4
<1> HIDE DEF T
<1>6. \A k \in 0 .. n : k \in T
  BY <1>1, <1>4, <1>5, InductionUpTo
<1> USE DEF T
<1> QED BY <1>1, <1>2, <1>6

\* The lines by their stamps grow as the file does.
LEMMA WatchedSorted ==
    ASSUME NEW S, AreLines(S), NEW file \in Seq(S), Watched(file)
    PROVE  Watched(ReplayOrder(file))
<1> DEFINE n == Len(file)
<1>1. n \in Nat /\ DOMAIN file = 1 .. n /\ \A k \in 1 .. n : file[k] \in S
  OBVIOUS
<1>2. PICK f : IsSort(f, S, file) /\ ReplayOrder(file) = f[n]
  BY SortRuns
<1>3. /\ f[0] = <<>>
      /\ \A k \in 0 .. n : f[k] \in Seq(S) /\ ByStamp(f[k])
      /\ \A k \in 1 .. n : f[k] = Inserted(f[k - 1], file[k])
  BY <1>2 DEF IsSort
<1> DEFINE T == { k \in 0 .. n : Watched(f[k]) /\ \A x \in ToSet(f[k]) : \E i \in 1 .. k : x = file[i] }
<1>4. 0 \in T
  <2>1. DOMAIN f[0] = {} /\ ToSet(f[0]) = {}
    BY <1>3 DEF ToSet
  <2> QED BY <1>1, <2>1 DEF Watched
<1>5. ASSUME NEW k \in 0 .. n - 1, k \in T PROVE k + 1 \in T
  <2> DEFINE r == file[k + 1]
             old == f[k]
             new == f[k + 1]
  <2>1. k + 1 \in 1 .. n /\ k + 1 - 1 = k /\ k + 1 \in 0 .. n /\ k \in 0 .. n /\ k + 1 \in Nat
    BY <1>1
  <2>2. Watched(old) /\ \A x \in ToSet(old) : \E i \in 1 .. k : x = file[i]
    BY <1>5
  <2>3. new = Inserted(old, r) /\ old \in Seq(S) /\ ByStamp(old) /\ r \in S
    BY <1>1, <1>3, <2>1
  <2>4. \A x \in ToSet(old) : Follows(x, r)
    <3>1. ASSUME NEW i \in 1 .. k PROVE Follows(file[i], r)
      <4>1. i \in DOMAIN file /\ k + 1 \in DOMAIN file /\ i < k + 1
        BY <1>1, <2>1
      <4> QED BY <4>1 DEF Watched
    <3> QED BY <2>2, <3>1
  <2> HIDE DEF old, new, r
  <2>5. PICK e \in 0 .. Len(old) : IsInserted(new, old, r, e)
    BY <2>3, InsertedLine
  <2>6. new \in Seq(S) /\ Len(new) = Len(old) + 1 /\ ToSet(new) = ToSet(old) \cup {r}
    BY <2>3, InsertedLine
  <2>7. Watched(new)
    <3>1. /\ Len(old) \in Nat /\ DOMAIN old = 1 .. Len(old) /\ DOMAIN new = 1 .. Len(old) + 1
          /\ \A i \in 1 .. Len(old) : old[i] \in ToSet(old) /\ old[i] \in S
      BY <2>3, <2>6 DEF ToSet
    <3>2. /\ \A i \in 1 .. e : new[i] = old[i]
          /\ new[e + 1] = r
          /\ \A i \in e + 1 .. Len(old) : new[i + 1] = old[i] /\ ~ (old[i].at <= r.at)
      BY <2>5, <3>1 DEF IsInserted
    <3>3. \A i \in e + 1 .. Len(old) : ~ (old[i].id = r.id /\ Tells(old[i]) /\ Tells(r))
      BY <2>4, <3>1, <3>2 DEF Follows
    <3>4. \A j \in 1 .. Len(old) + 1 : j > e + 1 =>
            j - 1 \in e + 1 .. Len(old) /\ new[j] = old[j - 1]
      <4> TAKE j \in 1 .. Len(old) + 1
      <4> HAVE j > e + 1
      <4>1. j - 1 \in e + 1 .. Len(old) /\ (j - 1) + 1 = j
        BY <3>1
      <4>2. new[(j - 1) + 1] = old[j - 1]
        BY <3>2, <4>1
      <4> QED BY <4>1, <4>2
    <3> SUFFICES ASSUME NEW i \in 1 .. Len(old) + 1, NEW j \in 1 .. Len(old) + 1, i < j
                 PROVE  Follows(new[i], new[j])
      BY <3>1 DEF Watched
    <3>5. \A a, b \in 1 .. Len(old) : a < b => Follows(old[a], old[b])
      BY <2>2, <3>1 DEF Watched
    <3>6. CASE j <= e
      <4>1. i \in 1 .. e /\ j \in 1 .. e /\ i \in 1 .. Len(old) /\ j \in 1 .. Len(old)
        BY <3>1, <3>6
      <4>2. Follows(old[i], old[j])
        BY <3>5, <4>1
      <4> QED BY <3>2, <4>1, <4>2
    <3>7. CASE j = e + 1
      <4>1. i \in 1 .. e /\ i \in 1 .. Len(old)
        BY <3>1, <3>7
      <4>2. new[i] = old[i] /\ new[j] = r /\ old[i] \in ToSet(old)
        BY <3>1, <3>2, <3>7, <4>1
      <4> QED BY <2>4, <4>2
    <3>8. CASE j > e + 1 /\ i <= e
      <4>1. j - 1 \in e + 1 .. Len(old) /\ new[j] = old[j - 1]
        BY <3>4, <3>8
      <4>2. i \in 1 .. e /\ i \in 1 .. Len(old) /\ j - 1 \in 1 .. Len(old) /\ i < j - 1
        BY <3>1, <3>8, <4>1
      <4>3. Follows(old[i], old[j - 1])
        BY <3>5, <4>2
      <4> QED BY <3>2, <4>1, <4>2, <4>3
    <3>9. CASE j > e + 1 /\ i = e + 1
      <4>1. j - 1 \in e + 1 .. Len(old) /\ new[j] = old[j - 1]
        BY <3>4, <3>9
      <4>2. new[i] = r
        BY <3>2, <3>9
      <4> QED BY <3>3, <4>1, <4>2 DEF Follows
    <3>10. CASE j > e + 1 /\ i > e + 1
      <4>1. j - 1 \in e + 1 .. Len(old) /\ new[j] = old[j - 1]
        BY <3>4, <3>10
      <4>2. i - 1 \in e + 1 .. Len(old) /\ new[i] = old[i - 1]
        BY <3>4, <3>10
      <4>3. i - 1 \in 1 .. Len(old) /\ j - 1 \in 1 .. Len(old) /\ i - 1 < j - 1
        BY <3>1, <4>1, <4>2
      <4>4. Follows(old[i - 1], old[j - 1])
        BY <3>5, <4>3
      <4> QED BY <4>1, <4>2, <4>4
    <3> QED BY <3>1, <3>6, <3>7, <3>8, <3>9, <3>10
  <2>8. \A x \in ToSet(new) : \E i \in 1 .. k + 1 : x = file[i]
    BY <2>1, <2>2, <2>6 DEF old, r
  <2> QED BY <2>1, <2>7, <2>8 DEF new
<1> HIDE DEF T
<1>6. \A k \in 0 .. n : k \in T
  BY <1>1, <1>4, <1>5, InductionUpTo
<1> USE DEF T
<1> QED BY <1>1, <1>2, <1>6

\* What a rung has consumed is no less than what any line tells of it.
LEMMA WatchedConsumes ==
    ASSUME NEW S, AreLines(S), NEW file \in Seq(S), Watched(file)
    PROVE  LET rungs == FoldOrderStream(file)
           IN  \A id \in DOMAIN rungs : \A r \in ToSet(file) :
                    r.id = id /\ Tells(r) => Told(r) <= rungs[id].consumed
<1> DEFINE n == Len(file)
           lines == ReplayOrder(file)
<1>1. /\ n \in Nat /\ lines \in Seq(S) /\ Len(lines) = n /\ ToSet(lines) = ToSet(file)
      /\ Watched(lines)
  BY ReplayLines, WatchedSorted
<1>2. PICK f : IsReplay(f, S, file) /\ FoldOrderStream(file) = f[n]
  BY FoldReplays
<1>3. /\ \A k \in 0 .. n : f[k] \in Folded(S)
      /\ DOMAIN f[0] = {}
      /\ \A k \in 1 .. n : f[k] = Replay(f[k - 1], lines[k])
  BY <1>2 DEF IsReplay
<1> HIDE DEF lines, n
<1>4. DOMAIN lines = 1 .. n /\ \A k \in 1 .. n : lines[k] \in S
  BY <1>1
<1> DEFINE Covers(k) == \A id \in DOMAIN f[k] : \A i \in 1 .. k :
                lines[i].id = id /\ Tells(lines[i]) => Told(lines[i]) <= f[k][id].consumed
           Came(k) == \A id \in DOMAIN f[k] : \E i \in 1 .. k :
                lines[i].id = id /\ lines[i].kind = "orderPlaced"
           T == { k \in 0 .. n : Covers(k) /\ Came(k) }
<1>5. 0 \in T
  BY <1>1, <1>3
<1>6. ASSUME NEW k \in 0 .. n - 1, k \in T PROVE k + 1 \in T
  <2> DEFINE r == lines[k + 1]
             old == f[k]
             new == f[k + 1]
  <2>1. k + 1 \in 1 .. n /\ k + 1 - 1 = k /\ k + 1 \in 0 .. n /\ k \in 0 .. n
    BY <1>1
  <2>2. new = Replay(old, r) /\ old \in Folded(S) /\ new \in Folded(S) /\ r \in S
    BY <1>3, <1>4, <2>1
  <2>3. /\ r.quantity \in Nat /\ (r.kind = "orderPlaced" => r.observed \in Nat)
        /\ \A id \in DOMAIN old : old[id].consumed \in Nat
        /\ \A id \in DOMAIN old : old[id] = [placed |-> old[id].placed, consumed |-> old[id].consumed]
    BY <2>2 DEF AreLines, Folded, RungMaps
  <2>4. Covers(k) /\ Came(k)
    BY <1>6
  <2>5. ASSUME NEW i \in 1 .. k, lines[i].id = r.id, Tells(lines[i]), Tells(r)
        PROVE  r.kind = "orderFillObserved" /\ Told(lines[i]) <= r.quantity
    <3>1. i \in DOMAIN lines /\ k + 1 \in DOMAIN lines /\ i < k + 1
      BY <1>1, <1>4, <2>1
    <3>2. Follows(lines[i], r)
      BY <1>1, <3>1 DEF Watched
    <3> QED BY <2>5, <3>2 DEF Follows, Told
  <2>6. \A i \in 1 .. k : Tells(lines[i]) => Told(lines[i]) \in Nat
    <3>1. \A i \in 1 .. k : lines[i] \in S
      BY <1>1, <1>4, <2>1
    <3> QED BY <3>1 DEF AreLines, Told, Tells
  <2>7. \A id \in DOMAIN old : \A i \in 1 .. k :
            lines[i].id = id /\ Tells(lines[i]) => Told(lines[i]) <= old[id].consumed
    BY <2>4
  <2>15. Came(k + 1)
    <3> HIDE DEF old, new, r
    <3>1. \A id \in DOMAIN new : id \in DOMAIN old \/ (r.kind = "orderPlaced" /\ r.id = id)
      BY <2>2, ReplayOther
    <3>2. \A id \in DOMAIN old : \E i \in 1 .. k : lines[i].id = id /\ lines[i].kind = "orderPlaced"
      BY <2>4 DEF old
    <3>3. ASSUME NEW id \in DOMAIN new
          PROVE  \E i \in 1 .. k + 1 : lines[i].id = id /\ lines[i].kind = "orderPlaced"
      <4>1. CASE id \in DOMAIN old
        BY <2>1, <3>2, <4>1
      <4>2. CASE r.kind = "orderPlaced" /\ r.id = id
        BY <2>1, <4>2 DEF r
      <4> QED BY <3>1, <4>1, <4>2
    <3> QED BY <3>3 DEF new
  <2>16. \A id \in DOMAIN old : \E i \in 1 .. k : lines[i].id = id /\ lines[i].kind = "orderPlaced"
    BY <2>4
  <2> HIDE DEF old, new, r, Covers, Came, T
  <2> SUFFICES ASSUME NEW id \in DOMAIN new, NEW i \in 1 .. k + 1, lines[i].id = id, Tells(lines[i])
               PROVE  Told(lines[i]) <= new[id].consumed
    BY <2>1, <2>15 DEF T, Covers, new
  <2>8. i \in 1 .. k \/ i = k + 1
    BY <2>1
  <2>9. CASE r.id # id
    <3>1. i \in 1 .. k
      BY <2>8, <2>9 DEF r
    <3>2. id \in DOMAIN old /\ new[id] = old[id]
      BY <2>2, <2>9, ReplayOther DEF Same
    <3> QED BY <2>7, <3>1, <3>2
  <2>10. CASE r.id = id /\ r.kind = "orderPlaced"
    <3>1. \A j \in 1 .. k : ~ (lines[j].id = r.id /\ Tells(lines[j]))
      <4>1. Tells(r) /\ r.kind # "orderFillObserved"
        BY <2>10 DEF Tells
      <4> QED BY <2>5, <4>1
    <3>4. i = k + 1
      BY <2>8, <2>10, <3>1
    <3>2. CASE id \in DOMAIN old
      <4>1. PICK j \in 1 .. k : lines[j].id = id /\ lines[j].kind = "orderPlaced"
        BY <2>16, <3>2
      <4> QED BY <2>10, <3>1, <4>1 DEF Tells
    <3>3. CASE id \notin DOMAIN old
      <4>1. new[id] = [placed |-> r, consumed |-> r.observed]
        BY <2>2, <2>10, <3>3 DEF Replay
      <4> QED BY <2>3, <2>10, <3>4, <4>1 DEF Told, r
    <3> QED BY <3>2, <3>3
  <2>11. CASE r.id = id /\ r.kind = "orderFillObserved"
    <3>1. id \in DOMAIN old /\ new[id].consumed = r.quantity
      <4>1. id \in DOMAIN old
        BY <2>2, <2>11, ReplayOther
      <4>2. new = [old EXCEPT ![id].consumed = r.quantity]
        BY <2>2, <2>11, <4>1 DEF Replay
      <4> QED BY <2>3, <4>1, <4>2
    <3>2. CASE i = k + 1
      BY <2>3, <2>11, <3>1, <3>2 DEF Told, r
    <3>3. CASE i \in 1 .. k
      BY <2>5, <2>11, <3>1, <3>3 DEF Tells
    <3> QED BY <2>8, <3>2, <3>3
  <2>12. CASE r.id = id /\ r.kind = "orderFilled"
    <3>1. i \in 1 .. k
      BY <2>8, <2>12 DEF Tells, r
    <3>2. id \in DOMAIN old /\ new[id].consumed = old[id].consumed + r.quantity
      <4>1. id \in DOMAIN old
        BY <2>2, <2>12, ReplayOther
      <4>2. new = [old EXCEPT ![id].consumed = @ + r.quantity]
        BY <2>2, <2>12, <4>1 DEF Replay
      <4> QED BY <2>3, <4>1, <4>2
    <3> QED BY <2>3, <2>6, <2>7, <3>1, <3>2
  <2>13. CASE r.id = id /\ r.kind = "orderCancelled"
    BY <2>2, <2>13 DEF Replay, Retire, Restrict
  <2>14. CASE r.id = id /\ r.kind \notin {"orderPlaced", "orderFillObserved", "orderFilled", "orderCancelled"}
    <3>1. new = old
      BY <2>2, <2>14 DEF Replay
    <3>2. i \in 1 .. k
      BY <2>8, <2>14 DEF Tells, r
    <3> QED BY <2>7, <3>1, <3>2
  <2> QED BY <2>9, <2>10, <2>11, <2>12, <2>13, <2>14
<1> HIDE DEF T, Covers
<1>7. n \in T
  <2>1. \A k \in 0 .. n : k \in T
    BY <1>1, <1>5, <1>6, InductionUpTo
  <2> QED BY <1>1, <2>1
<1> USE DEF T, Covers
<1>8. \A r \in ToSet(file) : \E i \in 1 .. n : r = lines[i]
  BY <1>1, <1>4 DEF ToSet
<1> QED BY <1>2, <1>7, <1>8

\* The figure that is looked at is one that a line tells, or none.
LEMMA ObservedIs ==
    ASSUME NEW S, AreLines(S), NEW file \in Seq(S), NEW id
    PROVE  /\ Observed(file, id) \in Nat
           /\ \A r \in ToSet(file) : r.id = id /\ Tells(r) => Told(r) <= Observed(file, id)
           /\ \/ Observed(file, id) = 0
              \/ \E r \in ToSet(file) : r.id = id /\ Tells(r) /\ Told(r) = Observed(file, id)
<1> DEFINE placed == { x \in ToSet(file) : x.kind = "orderPlaced" /\ x.id = id }
           looked == { x \in ToSet(file) : x.kind = "orderFillObserved" /\ x.id = id }
           T == {0} \cup { x.observed : x \in placed } \cup { x.quantity : x \in looked }
           told == [i \in DOMAIN file |-> IF Tells(file[i]) THEN Told(file[i]) ELSE 0]
<1>1. \A x \in ToSet(file) : x.quantity \in Nat /\ (x.kind = "orderPlaced" => x.observed \in Nat)
  BY MembersType DEF AreLines
<1>2. told \in Seq(Nat) /\ DOMAIN told = DOMAIN file
  <2>1. \A i \in 1 .. Len(file) : file[i] \in ToSet(file)
    BY DEF ToSet
  <2>2. \A i \in 1 .. Len(file) : (IF Tells(file[i]) THEN Told(file[i]) ELSE 0) \in Nat
    BY <1>1, <2>1 DEF Tells, Told
  <2> QED BY <2>2
<1>3. Total(told) \in Nat /\ \A i \in DOMAIN file : told[i] <= Total(told)
  BY <1>2, TotalNat, TotalAtLeast
<1>4. \A x \in ToSet(file) : Tells(x) => Told(x) \in 0 .. Total(told)
  <2> SUFFICES ASSUME NEW x \in ToSet(file), Tells(x) PROVE Told(x) \in 0 .. Total(told)
    OBVIOUS
  <2>1. PICK i \in DOMAIN file : x = file[i]
    BY DEF ToSet
  <2>2. told[i] = Told(x)
    BY <2>1
  <2>3. Told(x) \in Nat
    BY <1>1 DEF Tells, Told
  <2> QED BY <1>3, <2>2, <2>3
<1> HIDE DEF told
<1>5. T \in SUBSET (0 .. Total(told)) /\ 0 \in T
  <2>1. \A x \in placed : x.observed \in 0 .. Total(told)
    BY <1>4 DEF Tells, Told
  <2>2. \A x \in looked : x.quantity \in 0 .. Total(told)
    BY <1>4 DEF Tells, Told
  <2> HIDE DEF placed, looked
  <2> QED BY <1>3, <2>1, <2>2
<1>6. /\ \A r \in ToSet(file) : r.id = id /\ Tells(r) => Told(r) \in T
      /\ \A x \in T : x = 0 \/ \E r \in ToSet(file) : r.id = id /\ Tells(r) /\ Told(r) = x
  BY DEF Tells, Told
<1>7. Observed(file, id) = Max(T)
  BY DEF Observed
<1> HIDE DEF T
<1>8. \A x \in T : x <= Max(T) /\ Max(T) \in 0 .. Total(told) /\ Max(T) \in T
  BY <1>3, <1>5, MaxOfDates
<1>9. Max(T) \in 0 .. Total(told) /\ Max(T) \in T
  BY <1>5, <1>8
<1>10. Observed(file, id) \in Nat
  BY <1>3, <1>7, <1>9
<1>11. \A r \in ToSet(file) : r.id = id /\ Tells(r) => Told(r) <= Observed(file, id)
  BY <1>6, <1>7, <1>8
<1>12. \/ Observed(file, id) = 0
       \/ \E r \in ToSet(file) : r.id = id /\ Tells(r) /\ Told(r) = Observed(file, id)
  BY <1>6, <1>7, <1>9
<1> QED BY <1>10, <1>11, <1>12

\* Lines of which no two are about one order, and of one kind, grow as they must.
LEMMA WatchedApart ==
    ASSUME NEW s, IsList(s), Distinct(s)
    PROVE  Watched(s)
<1>1. DOMAIN s = 1 .. Len(s) /\ Len(s) \in Nat
  BY DEF IsList
<1>2. \A i, j \in DOMAIN s : s[i].id = s[j].id => ~ (i < j)
  BY <1>1 DEF Distinct
<1> QED BY <1>2 DEF Watched, Follows

\* The file tells of an order from its placement on, and only more.
GrowInv ==
    /\ Watched(orders)
    /\ \A r \in ToSet(orders) : Tells(r) => OnFile(r.id)

LEMMA ImportGrows ==
    ASSUME TypeInv, GrowInv, Import
    PROVE  GrowInv'
<1>1. PICK A, B :
        /\ now' = now /\ orders' = orders \o A \o B
        /\ IsList(A) /\ IsList(B) /\ Distinct(A) /\ Distinct(B)
        /\ \A r \in ToSet(A) : r.kind = "orderPlaced" /\ IsLine(r, now) /\ ~ OnFile(r.id)
        /\ \A r \in ToSet(B) :
            /\ r.kind = "orderFillObserved" /\ IsLine(r, now)
            /\ r.at = now /\ OnFile(r.id) /\ Observed(orders, r.id) < r.quantity
  BY ImportShape
<1>2. Watched(orders) /\ \A r \in ToSet(orders) : Tells(r) => OnFile(r.id)
  BY DEF GrowInv
<1>3. IsList(orders) /\ \A r \in ToSet(orders) : IsLine(r, now) /\ r.at <= now
  BY DEF TypeInv, OrdersOK, IsLine
<1>4. \A x \in ToSet(orders) : Tells(x) => Told(x) \in Nat
  BY <1>3 DEF IsLine, Tells, Told
<1> DEFINE two == orders \o A
           S == ToSet(orders) \cup ToSet(A) \cup ToSet(B)
<1>5. orders \in Seq(S) /\ A \in Seq(S) /\ B \in Seq(S)
  <2>1. \A s, T : s \in Seq(ToSet(s)) /\ ToSet(s) \subseteq T => s \in Seq(T)
    OBVIOUS
  <2> QED BY <1>1, <1>3, <2>1 DEF IsList
<1>6. /\ two \in Seq(S) /\ ToSet(two) = ToSet(orders) \cup ToSet(A)
      /\ ToSet(two \o B) = ToSet(orders) \cup ToSet(A) \cup ToSet(B)
  <2> HIDE DEF S
  <2>1. two \in Seq(S) /\ ToSet(two) = ToSet(orders) \cup ToSet(A)
    BY <1>5, AppendedOnly
  <2> HIDE DEF two
  <2>2. ToSet(two \o B) = ToSet(two) \cup ToSet(B)
    BY <1>5, <2>1, AppendedOnly
  <2> QED BY <2>1, <2>2
<1>7. Watched(A) /\ Watched(B)
  BY <1>1, WatchedApart
<1>8. \A x \in ToSet(orders), y \in ToSet(A) : Follows(x, y)
  BY <1>1, <1>2 DEF Follows
<1> HIDE DEF S
<1>9. Watched(two)
  BY <1>2, <1>5, <1>7, <1>8, WatchedBoth
<1>10. \A x \in ToSet(two), y \in ToSet(B) : Follows(x, y)
  <2> SUFFICES ASSUME NEW x \in ToSet(two), NEW y \in ToSet(B), x.id = y.id, Tells(x)
               PROVE  y.kind = "orderFillObserved" /\ x.at <= y.at /\ Told(x) <= Told(y)
    BY DEF Follows
  <2>1. x \in ToSet(orders)
    BY <1>1, <1>6
  <2>2. Observed(orders, x.id) \in Nat /\ Told(x) <= Observed(orders, x.id)
    <3>1. AreLines(ToSet(orders)) /\ orders \in Seq(ToSet(orders))
      BY LinesRead
    <3> QED BY <2>1, <3>1, ObservedIs
  <2>3. Observed(orders, y.id) < y.quantity /\ y.kind = "orderFillObserved" /\ y.at = now
    BY <1>1
  <2>4. Told(y) = y.quantity
    BY <2>3 DEF Told
  <2>5. x.at <= now
    BY <1>3, <2>1
  <2>6. Told(x) <= y.quantity
    <3>1. y.quantity \in Nat /\ Told(x) \in Nat
      BY <1>1, <1>4, <2>1 DEF IsLine
    <3> QED BY <2>2, <2>3, <3>1
  <2> QED BY <2>3, <2>4, <2>5, <2>6
<1> HIDE DEF two
<1>11. Watched(two \o B)
  BY <1>5, <1>6, <1>7, <1>9, <1>10, WatchedBoth
<1>12. ASSUME NEW r \in ToSet(orders'), Tells(r) PROVE OnFile(r.id)'
  <2>1. \A id : OnFile(id) => OnFile(id)'
    BY <1>1, <1>6 DEF OnFile, two
  <2>2. \A x \in ToSet(A) : OnFile(x.id)'
    BY <1>1, <1>6 DEF OnFile, two
  <2>3. r \in ToSet(orders) \/ r \in ToSet(A) \/ r \in ToSet(B)
    BY <1>1, <1>6 DEF two
  <2> QED BY <1>1, <1>2, <1>12, <2>1, <2>2, <2>3
<1> QED BY <1>1, <1>11, <1>12 DEF GrowInv, two

\* Lines that tell nothing change nothing that is told.
LEMMA QuietlyGrown ==
    ASSUME IsList(orders), GrowInv, NEW t, IsList(t), \A r \in ToSet(t) : ~ Tells(r),
           orders' = orders \o t
    PROVE  GrowInv'
<1> DEFINE S == ToSet(orders) \cup ToSet(t)
<1>1. orders \in Seq(S) /\ t \in Seq(S)
  <2>1. \A s, T : s \in Seq(ToSet(s)) /\ ToSet(s) \subseteq T => s \in Seq(T)
    OBVIOUS
  <2> QED BY <2>1 DEF IsList
<1>2. Watched(t)
  BY <1>1 DEF Watched, Follows, ToSet
<1>3. Watched(orders) /\ \A x \in ToSet(orders), y \in ToSet(t) : Follows(x, y)
  BY DEF GrowInv, Follows
<1> HIDE DEF S
<1>4. Watched(orders \o t)
  BY <1>1, <1>2, <1>3, WatchedBoth
<1>5. ToSet(orders') = ToSet(orders) \cup ToSet(t)
  BY <1>1, AppendedOnly
<1>6. \A r \in ToSet(orders') : Tells(r) => OnFile(r.id)'
  <2>1. \A id : OnFile(id) => OnFile(id)'
    BY <1>5 DEF OnFile
  <2> QED BY <1>5, <2>1 DEF GrowInv
<1> QED BY <1>4, <1>6 DEF GrowInv


LEMMA GrowStep == TypeInv /\ GrowInv /\ [Next]_vars => GrowInv'
<1> SUFFICES ASSUME TypeInv, GrowInv, [Next]_vars PROVE GrowInv'
  OBVIOUS
<1>1. ASSUME UNCHANGED orders PROVE GrowInv'
  BY <1>1 DEF GrowInv, OnFile
<1>2. IsList(orders)
  BY DEF TypeInv, OrdersOK
<1>3. CASE Import
  BY <1>3, ImportGrows
<1>4. ASSUME NEW id \in DOMAIN Offers, RecordCancel(id) PROVE GrowInv'
  <2> DEFINE r == Cancelled(id, venue[id].last)
  <2>1. orders' = Append(orders, r) /\ ~ Tells(r)
    BY <1>4 DEF RecordCancel, Cancelled, Tells
  <2> HIDE DEF r
  <2>2. Watched(orders')
    <3> DEFINE S == ToSet(orders) \cup {r}
    <3>1. orders \in Seq(S) /\ r \in S
      BY <1>2 DEF IsList
    <3>2. Watched(orders) /\ \A x \in ToSet(orders) : Follows(x, r)
      BY <2>1 DEF GrowInv, Follows
    <3> HIDE DEF S
    <3> QED BY <2>1, <3>1, <3>2, WatchedOneMore
  <2>3. ToSet(orders') = ToSet(orders) \cup {r}
    BY <1>2, <2>1, ListGrowsByOne
  <2> QED BY <2>1, <2>2, <2>3 DEF GrowInv, OnFile
<1>5. CASE AppendOrders
  <2> DEFINE fill == Filled(act.id[1], act.id[2], act.quantity)
             one == Append(<<>>, fill)
  <2>1. PICK gone : /\ orders' = Append(orders, fill) \o gone /\ IsList(gone)
                    /\ \A r \in ToSet(gone) : r.kind = "orderCancelled" /\ IsLine(r, now)
    BY <1>5, AppendShape
  <2>2. ~ Tells(fill) /\ \A r \in ToSet(gone) : ~ Tells(r)
    BY <2>1 DEF Filled, Tells
  <2> HIDE DEF fill
  <2> DEFINE t == one \o gone
  <2>3. IsList(one) /\ ToSet(one) = {fill}
    <3>1. one \in Seq({fill}) /\ DOMAIN one = {1} /\ one[1] = fill
      OBVIOUS
    <3>2. ToSet(one) = {fill}
      BY <3>1 DEF ToSet
    <3> QED BY <3>1, <3>2 DEF IsList
  <2>4. IsList(t) /\ ToSet(t) = {fill} \cup ToSet(gone)
    BY <2>1, <2>3, ListGrows
  <2>5. orders' = orders \o t
    <3> DEFINE S == ToSet(orders) \cup ToSet(gone) \cup {fill}
    <3>1. orders \in Seq(S) /\ gone \in Seq(S) /\ one \in Seq(S) /\ fill \in S
      BY <1>2, <2>1 DEF IsList
    <3> HIDE DEF S
    <3>2. Append(orders, fill) = orders \o one
      BY <3>1
    <3> HIDE DEF one
    <3>3. (orders \o one) \o gone = orders \o (one \o gone)
      BY <3>1, ConcatAssociative
    <3> QED BY <2>1, <3>2, <3>3
  <2> HIDE DEF t
  <2> QED BY <1>2, <2>2, <2>4, <2>5, QuietlyGrown
<1>6. CASE UNCHANGED vars
  BY <1>1, <1>6 DEF vars, files
<1>7. CASE Next
  <2>1. CASE Pushing
    BY <1>1, <2>1 DEF Pushing, FoldLog, ReadOrders, ReadLog, EndPush, PushUnchanged, files
  <2>2. CASE Writes
    BY <1>1, <1>5, <2>2 DEF Writes, WriteLog, AppendOrdersFails, Crash, files
  <2>3. CASE Commands
    <3>1. CASE Tick \/ AuthorPlan \/ Tell \/ TellFails
      BY <1>1, <3>1 DEF Tick, AuthorPlan, Tell, TellFails, files
    <3>2. ASSUME NEW id \in DOMAIN Offers, VenuePlaces(id) \/ VenueCancels(id) \/ Interview(id)
          PROVE  GrowInv'
      BY <1>1, <3>2 DEF VenuePlaces, VenueCancels, Interview, files
    <3>3. ASSUME NEW level, PriceFalls(level) PROVE GrowInv'
      <4>1. UNCHANGED <<now, files, pc, act, push, incidents>>
        BY <3>3 DEF PriceFalls
      <4> QED BY <1>1, <4>1 DEF files
    <3> QED BY <1>3, <1>4, <2>3, <3>1, <3>2, <3>3 DEF Commands
  <2> QED BY <1>7, <2>1, <2>2, <2>3 DEF Next
<1> QED BY <1>6, <1>7

LEMMA GrowInvariant == Spec => []GrowInv
<1>1. Init => GrowInv
  <2>1. DOMAIN <<>> = {} /\ ToSet(<<>>) = {}
    BY DEF ToSet
  <2> QED BY <2>1 DEF Init, GrowInv, Watched
<1>2. TypeInv /\ GrowInv /\ [Next]_vars => GrowInv'
  BY GrowStep
<1> QED BY <1>1, <1>2, TypeInvariant, PTL DEF Spec
----------------------------------------------------------------------------
(* What a push would publish of the files as they are.                     *)

\* A line that is live is the placement that the fold keeps of its order.
LEMMA LiveAre ==
    ASSUME NEW S, AreLines(S), NEW file \in Seq(S)
    PROVE  /\ Live(file) \in Seq(S)
           /\ \A r \in ToSet(Live(file)) :
                /\ r \in ToSet(file) /\ r.id \in DOMAIN FoldOrderStream(file)
                /\ FoldOrderStream(file)[r.id].placed = r
<1> DEFINE rungs == FoldOrderStream(file)
           lines == ReplayOrder(file)
           test(r) == r.kind = "orderPlaced" /\ r.id \in DOMAIN rungs /\ rungs[r.id].placed = r
<1>1. lines \in Seq(S) /\ ToSet(lines) = ToSet(file)
  BY ReplayLines
<1>2. Live(file) = Kept(lines, { i \in DOMAIN lines : test(lines[i]) })
  BY DEF Live, Where
<1> DEFINE places == { i \in DOMAIN lines : test(lines[i]) }
<1>3. \A i \in places : test(lines[i]) /\ lines[i] \in ToSet(lines)
  BY DEF ToSet
<1> HIDE DEF places, lines, rungs
<1>4. Live(file) \in Seq(S) /\ ToSet(Live(file)) = { lines[i] : i \in places \cap DOMAIN lines }
  BY <1>1, <1>2, KeptLines DEF places
<1> QED BY <1>1, <1>3, <1>4 DEF rungs

\* The lines of a file are those of its cuts.
LEMMA RetiredAre ==
    ASSUME NEW S, NEW file \in Seq(S)
    PROVE  Retired(file) \in Seq(S)
<1> DEFINE live == DOMAIN FoldOrderStream(file)
           cancelled == { r.id : r \in { x \in ToSet(file) : x.kind = "orderCancelled" } }
           isFirst(i) == \A j \in 1 .. i - 1 :
                            file[j].kind = "orderPlaced" => file[j].id # file[i].id
           places == { i \in DOMAIN file :
                        /\ file[i].kind = "orderPlaced" /\ isFirst(i)
                        /\ file[i].id \in cancelled \ live /\ BookedFills(file, file[i].id) > 0 }
<1>1. Retired(file) = Kept(file, places)
  BY DEF Retired
<1> HIDE DEF places
<1> QED BY <1>1, KeptLines

\* Where a live order declares the rung, one that does stands for it.
LEMMA DeclaredStands ==
    ASSUME NEW S, NEW live \in Seq(S), NEW retired \in Seq(S), NEW plan, NEW rung,
           \E r \in ToSet(live) : Declares(r, plan, rung)
    PROVE  LET joined == Joined(plan, rung, live, retired)
           IN  /\ joined # <<>> /\ Head(joined) \in ToSet(live)
               /\ Declares(Head(joined), plan, rung)
<1> DEFINE first == { i \in DOMAIN live : Declares(live[i], plan, rung) }
           second == { i \in DOMAIN live : IsAt(live[i], rung) }
           third == { i \in DOMAIN retired : Declares(retired[i], plan, rung) \/ IsAt(retired[i], rung) }
           a == Kept(live, first)
           b == Kept(live, second)
           c == Kept(retired, third)
<1>1. Joined(plan, rung, live, retired) = a \o b \o c
  BY DEF Joined, Where
<1>2. /\ a \in Seq(S) /\ b \in Seq(S) /\ c \in Seq(S)
      /\ ToSet(a) = { live[i] : i \in first \cap DOMAIN live }
  BY KeptLines
<1>3. ToSet(a) # {} /\ \A r \in ToSet(a) : r \in ToSet(live) /\ Declares(r, plan, rung)
  <2>1. PICK r \in ToSet(live) : Declares(r, plan, rung)
    OBVIOUS
  <2>2. PICK i \in DOMAIN live : r = live[i]
    BY DEF ToSet
  <2>3. i \in first \cap DOMAIN live
    BY <2>1, <2>2
  <2>4. \A j \in first \cap DOMAIN live : live[j] \in ToSet(live) /\ Declares(live[j], plan, rung)
    BY DEF ToSet
  <2> QED BY <1>2, <2>3, <2>4
<1> HIDE DEF first, second, third, a, b, c
<1>4. Len(a) \in Nat /\ Len(a) >= 1 /\ a[1] \in ToSet(a)
  <2>1. PICK r : r \in ToSet(a)
    BY <1>3
  <2>2. PICK i \in DOMAIN a : r = a[i]
    BY <2>1 DEF ToSet
  <2>3. DOMAIN a = 1 .. Len(a) /\ Len(a) \in Nat
    BY <1>2
  <2>4. 1 \in DOMAIN a
    BY <2>2, <2>3
  <2> QED BY <2>3, <2>4 DEF ToSet
<1>5. /\ a \o b \in Seq(S) /\ Len(a \o b) = Len(a) + Len(b) /\ (a \o b)[1] = a[1]
      /\ Len(b) \in Nat /\ Len(c) \in Nat
  BY <1>2, <1>4
<1>6. (a \o b) \o c \in Seq(S) /\ Len((a \o b) \o c) >= 1 /\ ((a \o b) \o c)[1] = a[1]
  BY <1>2, <1>4, <1>5
<1>7. (a \o b) \o c # <<>> /\ Head((a \o b) \o c) = a[1]
  BY <1>6
<1> QED BY <1>1, <1>3, <1>4, <1>7

\* The axes of a rung, and of one that no order joined.
HasAxes(r) ==
    /\ r.venueAxis \in {"not-placed", "resting", "partly-filled", "filled"}
    /\ r.bookAxis \in {"not-recorded", "partly-recorded", "recorded"}
    /\ r.joined \in BOOLEAN
    /\ ~ r.joined => r.venueAxis = "not-placed" /\ r.bookAxis = "not-recorded"

LEMMA RungHasAxes ==
    ASSUME NEW cut, NEW folded, NEW joined, NEW rung
    PROVE  HasAxes(FillPathRung(cut, folded, joined, rung))
<1>1. CASE joined = <<>>
  BY <1>1 DEF HasAxes, FillPathRung, NotPlaced
<1>2. CASE joined # <<>>
  <2> DEFINE placed == Head(joined)
             retired == placed.id \notin DOMAIN folded
             consumed == IF retired THEN 0 ELSE folded[placed.id].consumed
             booked == BookedFills(cut, placed.id)
             r == FillPathRung(cut, folded, joined, rung)
  <2>1. /\ r.joined = TRUE
        /\ r.venueAxis = IF retired THEN "not-placed" ELSE VenueAxis(consumed, placed)
        /\ r.bookAxis = IF retired THEN "recorded" ELSE BookAxis(booked, consumed)
    BY <1>2 DEF FillPathRung
  <2>2. /\ VenueAxis(consumed, placed) \in {"resting", "partly-filled", "filled"}
        /\ BookAxis(booked, consumed) \in {"not-recorded", "partly-recorded", "recorded"}
    BY DEF VenueAxis, BookAxis
  <2> HIDE DEF r, consumed, booked, placed
  <2>3. HasAxes(r)
    BY <2>1, <2>2 DEF HasAxes
  <2> QED BY <2>3 DEF r
<1> QED BY <1>1, <1>2

\* The page words the axes as the engine does.
LEMMA SameWords ==
    ASSUME NEW r, HasAxes(r)
    PROVE  RungStateCopy(ToWireRung(r)) = ToWireRung(r).label
<1>1. /\ ToWireRung(r).venueAxis = IF r.joined THEN r.venueAxis ELSE "absent"
      /\ ToWireRung(r).bookAxis = IF r.joined THEN r.bookAxis ELSE "absent"
      /\ ToWireRung(r).label = Label(r)
  BY DEF ToWireRung
<1>2. CASE ~ r.joined
  BY <1>1, <1>2 DEF HasAxes, RungStateCopy, Label
<1>3. CASE r.joined
  BY <1>1, <1>3 DEF HasAxes, RungStateCopy, Label
<1> QED BY <1>2, <1>3 DEF HasAxes

\* A rung that a live order declares, of which the fund booked less than was seen, needs a
\* record.
LEMMA UnbookedNeeds ==
    ASSUME NEW S, AreLines(S), NEW cut \in Seq(S), Watched(cut), NEW plan, NEW rung,
           \E r \in ToSet(Live(cut)) : Declares(r, plan, rung),
           \A r \in ToSet(Live(cut)) :
                Declares(r, plan, rung) => Observed(cut, r.id) > BookedFills(cut, r.id)
    PROVE  NeedsRecording(ToWireRung(FillPathRung(cut, FoldOrderStream(cut),
                Joined(plan, rung, Live(cut), Retired(cut)), rung)))
<1> DEFINE live == Live(cut)
           folded == FoldOrderStream(cut)
           joined == Joined(plan, rung, live, Retired(cut))
           placed == Head(joined)
           booked == BookedFills(cut, placed.id)
           r == FillPathRung(cut, folded, joined, rung)
<1>1. live \in Seq(S) /\ \A x \in ToSet(live) : x \in ToSet(cut) /\ x.id \in DOMAIN folded
  BY LiveAre
<1>2. Retired(cut) \in Seq(S)
  BY RetiredAre
<1>3. joined # <<>> /\ placed \in ToSet(live) /\ Declares(placed, plan, rung)
  BY <1>1, <1>2, DeclaredStands
<1>4. placed.id \in DOMAIN folded /\ Observed(cut, placed.id) > booked
  BY <1>1, <1>3
<1>5. booked \in Nat
  <2>1. placed \in S
    BY <1>1, <1>3, MembersType
  <2> QED BY <2>1, BookedOfOne
<1>6. /\ Observed(cut, placed.id) \in Nat
      /\ \/ Observed(cut, placed.id) = 0
         \/ \E x \in ToSet(cut) :
                x.id = placed.id /\ Tells(x) /\ Told(x) = Observed(cut, placed.id)
  BY ObservedIs
<1>7. folded[placed.id].consumed \in Nat
  BY <1>4, FoldType
<1>8. folded[placed.id].consumed >= Observed(cut, placed.id)
  <2>1. \A x \in ToSet(cut) : x.id = placed.id /\ Tells(x) => Told(x) <= folded[placed.id].consumed
    BY <1>4, WatchedConsumes
  <2> QED BY <1>4, <1>5, <1>6, <2>1
<1> DEFINE consumed == folded[placed.id].consumed
<1>9. r.joined = TRUE /\ r.bookAxis = BookAxis(booked, consumed) /\ r.consumed = consumed
  BY <1>3, <1>4 DEF FillPathRung
<1>10. consumed > 0 /\ BookAxis(booked, consumed) \in {"not-recorded", "partly-recorded"}
  BY <1>4, <1>5, <1>6, <1>7, <1>8 DEF BookAxis
<1> HIDE DEF r, consumed, booked, placed
<1>11. NeedsRecording(ToWireRung(r))
  BY <1>9, <1>10 DEF NeedsRecording, ToWireRung
<1> QED BY <1>11 DEF r

\* The row of a ladder: the plan of its position, in force, beside the orders and the lots
\* of the day.
LEMMA LadderRow ==
    ASSUME NEW asOf, NEW row \in Ladders(asOf)
    PROVE  \E position :
            LET lots == FoldedAt(asOf).lots
                lookup == PickPlanAsOf(LoadPlans(plans), position, asOf, FoldedAt(asOf).existing)
            IN  /\ InForce(lookup) /\ lookup.plan.kind = "dcaLadder"
                /\ row = DcaRow(lookup, Through(orders, asOf),
                            Kept(lots, { i \in DOMAIN lots : lots[i].position = position }))
<1> DEFINE loaded == LoadPlans(plans)
           fold == FoldedAt(asOf)
           cut == Through(orders, asOf)
           block == BuildDcaBlock(loaded, asOf, fold, orders, log)
           roster == ListPlansAsOf(loaded, asOf, fold.existing)
           mine(p) == Kept(fold.lots, { i \in DOMAIN fold.lots : fold.lots[i].position = p })
           lookup(p) == PickPlanAsOf(loaded, p, asOf, fold.existing)
<1>1. row \in Range(block.positions) /\ "rungs" \in DOMAIN row
  BY DEF Ladders
<1>2. block.positions = DcaRows(roster, cut, fold.lots)
  BY DEF BuildDcaBlock
<1>3. \A p \in DOMAIN roster : roster[p] = lookup(p)
  BY DEF ListPlansAsOf
<1>4. DcaRows(roster, cut, fold.lots) =
        [p \in { x \in DOMAIN roster : roster[x].status # "none" } |->
            DcaRow(roster[p], cut, mine(p))]
  BY DEF DcaRows, Where
<1> HIDE DEF block, roster, mine, lookup
<1>5. PICK p \in DOMAIN roster : row = DcaRow(roster[p], cut, mine(p))
  <2>1. PICK p \in DOMAIN block.positions : row = block.positions[p]
    BY <1>1 DEF Range
  <2> QED BY <1>2, <1>4, <2>1
<1>6. InForce(roster[p]) /\ roster[p].plan.kind = "dcaLadder"
  BY <1>1, <1>5 DEF DcaRow
<1>7. InForce(lookup(p)) /\ lookup(p).plan.kind = "dcaLadder" /\ row = DcaRow(lookup(p), cut, mine(p))
  BY <1>3, <1>5, <1>6
<1> QED BY <1>7 DEF lookup, mine

\* A plan that is in force is a line of the file: of its position, with the rungs it lists.
LEMMA PlanInForce ==
    ASSUME ReadInv, NEW position, NEW asOf, NEW existing,
           InForce(PickPlanAsOf(LoadPlans(plans), position, asOf, existing)),
           PickPlanAsOf(LoadPlans(plans), position, asOf, existing).plan.kind = "dcaLadder"
    PROVE  LET plan == PickPlanAsOf(LoadPlans(plans), position, asOf, existing).plan
           IN  plan.position = position /\ plan.rungs \in Seq(ToSet(plan.rungs))
<1> DEFINE loaded == LoadPlans(plans)
           lookup == PickPlanAsOf(loaded, position, asOf, existing)
           winner == Winner(loaded, position, asOf)
<1>1. IsList(plans) /\ \A text \in ToSet(plans) :
            /\ {"position", "at", "kind"} \subseteq DOMAIN text
            /\ text.kind = "dcaLadder" =>
                "rungs" \in DOMAIN text /\ text.rungs \in Seq(ToSet(text.rungs))
  BY DEF ReadInv
<1>2. PICK claimed :
        loaded = ReadingOf(plans,
                [n \in DOMAIN plans |-> PlanLineProblem(plans[n], claimed[n - 1])])
  BY <1>1, PlansRead
<1> DEFINE why == [n \in DOMAIN plans |-> PlanLineProblem(plans[n], claimed[n - 1])]
<1>3. winner # {} /\ lookup.plan = Only(winner)
  <2>1. lookup = PlanShown(Only(winner), position \in existing) /\ winner # {}
    BY DEF PickPlanAsOf, InForce
  <2> QED BY <2>1 DEF PlanShown
<1>4. lookup.plan \in loaded.records /\ lookup.plan.position = position
  <2>1. Only(winner) \in winner
    BY <1>3 DEF Only
  <2> QED BY <1>3, <2>1 DEF Winner
<1>5. PICK n \in DOMAIN plans : lookup.plan = Read(plans[n], n, why[n])
  <2>1. loaded.records = { l \in { Read(plans[n], n, why[n]) : n \in DOMAIN plans } :
                                l.reason = "none" }
    BY <1>2 DEF ReadingOf, Loaded
  <2> HIDE DEF why, loaded, lookup
  <2> QED BY <1>4, <2>1
<1> HIDE DEF why, loaded, lookup
<1>6. plans[n] \in ToSet(plans) /\ "kind" \in DOMAIN plans[n]
  BY <1>1 DEF ToSet
<1>7. lookup.plan.kind = plans[n].kind
  BY <1>5, <1>6 DEF Read
<1>8. plans[n].kind = "dcaLadder"
  BY <1>7 DEF lookup, loaded
<1>9. "rungs" \in DOMAIN plans[n] /\ plans[n].rungs \in Seq(ToSet(plans[n].rungs))
  BY <1>1, <1>6, <1>8
<1>10. lookup.plan.rungs = plans[n].rungs
  BY <1>5, <1>9 DEF Read
<1> QED BY <1>4, <1>9, <1>10 DEF lookup, loaded


\* What a list holds is finite.
LEMMA ListIsFinite ==
    ASSUME NEW s, IsList(s)
    PROVE  IsFiniteSet(ToSet(s))
<1>1. s = [i \in DOMAIN s |-> s[i]] /\ DOMAIN s = 1 .. Len(s) /\ Len(s) \in Nat
  BY DEF IsList
<1>2. IsFiniteSet(DOMAIN s)
  BY <1>1, FS_Interval
<1>3. IsFiniteSet({ s[i] : i \in DOMAIN s })
  BY <1>1, <1>2, FiniteImage
<1> QED BY <1>3 DEF ToSet

\* The rungs of the row are those of the plan, each as the fill path has it.
RungsOf(cut, plan) ==
    { ToWireRung(FillPathRung(cut, FoldOrderStream(cut),
            Joined(plan, rung, Live(cut), Retired(cut)), rung)) : rung \in ToSet(plan.rungs) }

LEMMA RungsAreFinite ==
    ASSUME NEW cut, NEW plan, IsList(plan.rungs)
    PROVE  IsFiniteSet(RungsOf(cut, plan))
<1> DEFINE wire == [rung \in ToSet(plan.rungs) |->
                ToWireRung(FillPathRung(cut, FoldOrderStream(cut),
                    Joined(plan, rung, Live(cut), Retired(cut)), rung))]
           S == ToSet(plan.rungs)
<1>1. IsFiniteSet(S) /\ wire = [rung \in S |-> wire[rung]]
  BY ListIsFinite
<1>2. RungsOf(cut, plan) = { wire[rung] : rung \in S }
  BY DEF RungsOf
<1> HIDE DEF S, wire
<1>3. IsFiniteSet({ wire[rung] : rung \in S })
  BY <1>1, FiniteImage
<1> QED BY <1>2, <1>3

LEMMA RowOf ==
    ASSUME ReadInv, NEW asOf, NEW row \in Ladders(asOf)
    PROVE  LET lots == FoldedAt(asOf).lots
               cut == Through(orders, asOf)
           IN  /\ IsList(row.plan.rungs) /\ row.rungs = RungsOf(cut, row.plan)
               /\ row.orphans = OrphansOf(
                    Kept(lots, { i \in DOMAIN lots : lots[i].position = row.plan.position }),
                    cut, { wire.order : wire \in row.rungs })
<1> DEFINE lots == FoldedAt(asOf).lots
           cut == Through(orders, asOf)
           mine(p) == Kept(lots, { i \in DOMAIN lots : lots[i].position = p })
<1>1. PICK position :
        LET lookup == PickPlanAsOf(LoadPlans(plans), position, asOf, FoldedAt(asOf).existing)
        IN  /\ InForce(lookup) /\ lookup.plan.kind = "dcaLadder"
            /\ row = DcaRow(lookup, cut, mine(position))
  BY LadderRow
<1> DEFINE lookup == PickPlanAsOf(LoadPlans(plans), position, asOf, FoldedAt(asOf).existing)
           plan == lookup.plan
           view == ReconcileFillPath(plan, cut, mine(position))
           path == { FillPathRung(cut, FoldOrderStream(cut),
                        Joined(plan, rung, Live(cut), Retired(cut)), rung) :
                            rung \in ToSet(plan.rungs) }
<1>2. plan.position = position /\ IsList(plan.rungs)
  BY <1>1, PlanInForce DEF IsList
<1>3. /\ row.plan = plan /\ row.rungs = { ToWireRung(r) : r \in view.rungs }
      /\ row.orphans = view.orphans
  BY <1>1 DEF DcaRow
<1>4. /\ view.rungs = path
      /\ view.orphans = OrphansOf(mine(position), cut, { r.order : r \in path })
  BY DEF ReconcileFillPath
<1>5. row.rungs = RungsOf(cut, plan)
  <2>1. { ToWireRung(r) : r \in path } = RungsOf(cut, plan)
    BY DEF RungsOf
  <2> QED BY <1>3, <1>4, <2>1
<1>6. { wire.order : wire \in row.rungs } = { r.order : r \in path }
  <2>1. \A r \in path : ToWireRung(r).order = r.order
    BY DEF ToWireRung
  <2>2. row.rungs = { ToWireRung(r) : r \in path }
    BY <1>3, <1>4
  <2> HIDE DEF path
  <2> QED BY <2>1, <2>2
<1> HIDE DEF lookup, view, path, mine, lots, cut
<1>7. row.orphans = OrphansOf(mine(row.plan.position), cut, { wire.order : wire \in row.rungs })
  BY <1>2, <1>3, <1>4, <1>6
<1> QED BY <1>2, <1>3, <1>5, <1>7 DEF mine, lots, cut

\* What is on file of a day grew as the file did.
LEMMA CutOf ==
    ASSUME TypeInv, GrowInv, NEW asOf
    PROVE  LET cut == Through(orders, asOf)
           IN  cut \in Seq(ToSet(orders)) /\ Watched(cut) /\ AreLines(ToSet(orders))
<1>1. orders \in Seq(ToSet(orders)) /\ AreLines(ToSet(orders)) /\ Watched(orders)
  BY DEF TypeInv, OrdersOK, IsList, AreLines, IsLine, GrowInv
<1> QED BY <1>1, KeptLines, WatchedKept DEF Through

LEMMA FlaggedOnTheRow ==
    ASSUME TypeInv, GrowInv, ReadInv, NEW asOf, NEW row \in Ladders(asOf)
    PROVE  LET cut == Through(orders, asOf)
               live == ToSet(Live(cut))
               page == ComposeFillPathPage(row)
               declaring(wire) == { r \in live : Declares(r, row.plan, wire.rung) }
               unbooked == { wire \in row.rungs :
                    /\ Cardinality(declaring(wire)) = 1
                    /\ \A r \in declaring(wire) : Observed(cut, r.id) > BookedFills(cut, r.id) }
           IN  /\ \A wire \in unbooked : NeedsRecording(wire)
               /\ page.filledNotRecorded >= Cardinality(unbooked)
               /\ AlertFor(row).needsRecording = page.filledNotRecorded
               /\ \A wire \in row.rungs : page.copy[wire] = wire.label
<1> DEFINE cut == Through(orders, asOf)
           live == ToSet(Live(cut))
           page == ComposeFillPathPage(row)
           plan == row.plan
           declaring(wire) == { r \in live : Declares(r, plan, wire.rung) }
           unbooked == { wire \in row.rungs :
                    /\ Cardinality(declaring(wire)) = 1
                    /\ \A r \in declaring(wire) : Observed(cut, r.id) > BookedFills(cut, r.id) }
           needing == { wire \in row.rungs : NeedsRecording(wire) }
           path(rung) == FillPathRung(cut, FoldOrderStream(cut),
                            Joined(plan, rung, Live(cut), Retired(cut)), rung)
<1>1. row.rungs = RungsOf(cut, plan) /\ IsFiniteSet(row.rungs)
  BY RowOf, RungsAreFinite
<1>2. \A wire \in row.rungs : \E rung : wire = ToWireRung(path(rung)) /\ wire.rung = rung
  <2>1. SUFFICES ASSUME NEW wire \in row.rungs
                 PROVE  \E rung : wire = ToWireRung(path(rung)) /\ wire.rung = rung
    OBVIOUS
  <2>2. PICK rung \in ToSet(plan.rungs) : wire = ToWireRung(path(rung))
    BY <1>1 DEF RungsOf
  <2>3. path(rung).rung = rung
    BY DEF FillPathRung, NotPlaced
  <2>4. wire.rung = path(rung).rung
    BY <2>2 DEF ToWireRung
  <2> QED BY <2>2, <2>3, <2>4
<1>3. \A wire \in unbooked : NeedsRecording(wire)
  <2>1. SUFFICES ASSUME NEW wire \in unbooked PROVE NeedsRecording(wire)
    OBVIOUS
  <2>2. PICK rung : wire = ToWireRung(path(rung)) /\ wire.rung = rung
    BY <1>2
  <2>3. \E r \in live : Declares(r, plan, rung)
    <3>1. declaring(wire) # {}
      BY FS_EmptySet
    <3> QED BY <2>2, <3>1
  <2>4. \A r \in live : Declares(r, plan, rung) => Observed(cut, r.id) > BookedFills(cut, r.id)
    BY <2>2
  <2>5. cut \in Seq(ToSet(orders)) /\ Watched(cut) /\ AreLines(ToSet(orders))
    BY CutOf
  <2> HIDE DEF unbooked, cut
  <2>6. NeedsRecording(ToWireRung(path(rung)))
    BY <2>3, <2>4, <2>5, UnbookedNeeds
  <2> QED BY <2>2, <2>6
<1>4. page.filledNotRecorded = Cardinality(needing)
  BY DEF ComposeFillPathPage
<1>5. AlertFor(row).needsRecording = Cardinality(needing)
  BY DEF AlertFor
<1>6. Cardinality(unbooked) <= Cardinality(needing)
  <2>1. needing \in SUBSET row.rungs /\ unbooked \in SUBSET needing
    BY <1>3
  <2> HIDE DEF unbooked, needing
  <2>2. IsFiniteSet(needing)
    BY <1>1, <2>1, FS_Subset
  <2> QED BY <2>1, <2>2, FS_Subset
<1>7. Cardinality(unbooked) \in Nat /\ Cardinality(needing) \in Nat
  <2>1. needing \in SUBSET row.rungs /\ unbooked \in SUBSET row.rungs
    OBVIOUS
  <2> HIDE DEF unbooked, needing
  <2>2. IsFiniteSet(needing) /\ IsFiniteSet(unbooked)
    BY <1>1, <2>1, FS_Subset
  <2> QED BY <2>2, FS_CardinalityType
<1>8. \A wire \in row.rungs : page.copy[wire] = wire.label
  <2>1. SUFFICES ASSUME NEW wire \in row.rungs PROVE page.copy[wire] = wire.label
    OBVIOUS
  <2>2. PICK rung : wire = ToWireRung(path(rung))
    BY <1>2
  <2>3. HasAxes(path(rung))
    BY RungHasAxes
  <2>4. page.copy[wire] = RungStateCopy(wire)
    BY DEF ComposeFillPathPage
  <2> HIDE DEF path
  <2>5. RungStateCopy(ToWireRung(path(rung))) = ToWireRung(path(rung)).label
    BY <2>3, SameWords
  <2> QED BY <2>2, <2>4, <2>5
<1> HIDE DEF unbooked, needing, page
<1>9. page.filledNotRecorded >= Cardinality(unbooked)
  BY <1>4, <1>6, <1>7
<1>10. AlertFor(row).needsRecording = page.filledNotRecorded
  BY <1>4, <1>5
<1> QED BY <1>3, <1>8, <1>9, <1>10 DEF unbooked, page

\* A fill that the venue showed and the fund did not book is never passed over: the rung
\* that its order alone declares is counted on the card and on the page.
THEOREM FillsAreFlagged == Spec => []UnrecordedFillIsFlagged
<1>1. TypeInv /\ GrowInv /\ ReadInv => UnrecordedFillIsFlagged
  BY FlaggedOnTheRow DEF UnrecordedFillIsFlagged
<1> QED BY <1>1, TypeInvariant, GrowInvariant, ReadInvariant, PTL
----------------------------------------------------------------------------
(* Lots and fills that are of one act.                                      *)

\* No fill is on file twice, and a lot and a fill of one act are of one size.
FillsApart(file) ==
    \A i, j \in DOMAIN file :
        file[i].kind = "orderFilled" /\ file[j].kind = "orderFilled" =>
            (file[i].id = file[j].id /\ file[i].at = file[j].at => i = j)
Matches(lots, file) ==
    \A e \in ToSet(lots), r \in ToSet(file) :
        r.kind = "orderFilled" /\ e.id = <<r.id, r.at>> => e.quantity = r.quantity

\* The act in hand is new to the log until its lot is written, which is then the last.
ActIsNew ==
    /\ pc = "writing" => act.id \notin LotsOnLog(log)
    /\ pc = "appending" => \E front \in Seq(Lots), lot \in Lots :
            log = Append(front, lot) /\ lot.id = act.id /\ lot.quantity = act.quantity

MatchInv == Distinct(log) /\ FillsApart(orders) /\ Matches(log, orders) /\ ActIsNew

LEMMA FillAppended ==
    ASSUME NEW s, IsList(s), FillsApart(s), NEW e, \A r \in ToSet(s) :
                ~ (/\ r.kind = "orderFilled" /\ e.kind = "orderFilled"
                   /\ r.id = e.id /\ r.at = e.at)
    PROVE  FillsApart(Append(s, e))
<1>1. /\ DOMAIN Append(s, e) = 1 .. Len(s) + 1 /\ DOMAIN s = 1 .. Len(s) /\ Len(s) \in Nat
      /\ Append(s, e)[Len(s) + 1] = e
      /\ \A i \in 1 .. Len(s) : Append(s, e)[i] = s[i] /\ s[i] \in ToSet(s)
  <2> DEFINE S == ToSet(s)
  <2>1. s \in Seq(S) /\ \A i \in DOMAIN s : s[i] \in S
    BY DEF IsList, ToSet
  <2> HIDE DEF S
  <2>2. /\ DOMAIN Append(s, e) = 1 .. Len(s) + 1 /\ DOMAIN s = 1 .. Len(s) /\ Len(s) \in Nat
        /\ Append(s, e)[Len(s) + 1] = e
        /\ \A i \in 1 .. Len(s) : Append(s, e)[i] = s[i]
    BY <2>1
  <2> QED BY <2>1, <2>2 DEF S
<1>2. \A k \in 1 .. Len(s) + 1 : k \in 1 .. Len(s) \/ k = Len(s) + 1
  BY <1>1
<1> DEFINE new == Append(s, e)
<1> HIDE DEF new
<1>3. ASSUME NEW i \in 1 .. Len(s) + 1, NEW j \in 1 .. Len(s) + 1,
             new[i].kind = "orderFilled", new[j].kind = "orderFilled",
             new[i].id = new[j].id, new[i].at = new[j].at
      PROVE  i = j
  <2>1. CASE i \in 1 .. Len(s) /\ j \in 1 .. Len(s)
    BY <1>1, <1>3, <2>1 DEF FillsApart, new
  <2>2. CASE i \in 1 .. Len(s) /\ j = Len(s) + 1
    BY <1>1, <1>3, <2>2 DEF new
  <2>3. CASE i = Len(s) + 1 /\ j \in 1 .. Len(s)
    BY <1>1, <1>3, <2>3 DEF new
  <2> QED BY <1>2, <2>1, <2>2, <2>3
<1>4. \A i, j \in DOMAIN new :
        new[i].kind = "orderFilled" /\ new[j].kind = "orderFilled" =>
            (new[i].id = new[j].id /\ new[i].at = new[j].at => i = j)
  BY <1>1, <1>3 DEF new
<1> QED BY <1>4 DEF FillsApart, new

LEMMA NoFillAppended ==
    ASSUME NEW s, IsList(s), FillsApart(s), NEW t, IsList(t),
           \A r \in ToSet(t) : r.kind # "orderFilled"
    PROVE  FillsApart(s \o t)
<1> DEFINE S == ToSet(s) \cup ToSet(t)
<1>1. s \in Seq(S) /\ t \in Seq(S)
  <2>1. s \in Seq(ToSet(s)) /\ t \in Seq(ToSet(t)) /\ ToSet(s) \subseteq S /\ ToSet(t) \subseteq S
    BY DEF IsList
  <2> HIDE DEF S
  <2> QED BY <2>1, SeqMonotonic
<1> HIDE DEF S
<1> DEFINE new == s \o t
<1>2. /\ DOMAIN new = 1 .. Len(s) + Len(t) /\ DOMAIN s = 1 .. Len(s)
      /\ Len(s) \in Nat /\ Len(t) \in Nat
      /\ \A i \in 1 .. Len(s) : new[i] = s[i]
      /\ \A i \in 1 .. Len(s) + Len(t) : i > Len(s) =>
            i - Len(s) \in 1 .. Len(t) /\ new[i] = t[i - Len(s)]
  BY <1>1
<1>3. \A i \in 1 .. Len(t) : t[i] \in ToSet(t)
  BY <1>1 DEF ToSet
<1> HIDE DEF new
<1>4. \A i \in DOMAIN new : new[i].kind = "orderFilled" => i \in 1 .. Len(s)
  BY <1>2, <1>3
<1> QED BY <1>2, <1>4 DEF FillsApart, new

LEMMA MatchStep == TypeInv /\ PathInv /\ MatchInv /\ [Next]_vars => MatchInv'
<1> SUFFICES ASSUME TypeInv, PathInv, MatchInv, [Next]_vars PROVE MatchInv'
  OBVIOUS
<1>0. /\ Distinct(log) /\ FillsApart(orders) /\ Matches(log, orders) /\ ActIsNew
      /\ IsList(orders) /\ log \in Seq(Lots)
  BY DEF MatchInv, TypeInv, OrdersOK
<1>1. ASSUME UNCHANGED <<orders, log>>, pc' = "idle" \/ pc' = "telling" \/ UNCHANGED <<pc, act>>
      PROVE  MatchInv'
  BY <1>0, <1>1 DEF MatchInv, ActIsNew
<1>2. CASE UNCHANGED vars
  BY <1>1, <1>2 DEF vars, files
<1>3. CASE Tick \/ AuthorPlan
  BY <1>1, <1>3 DEF Tick, AuthorPlan, files
<1>4. ASSUME NEW id \in DOMAIN Offers, VenuePlaces(id) \/ VenueCancels(id) PROVE MatchInv'
  BY <1>1, <1>4 DEF VenuePlaces, VenueCancels, files
<1>5. ASSUME NEW level, PriceFalls(level) PROVE MatchInv'
  <2>1. UNCHANGED <<now, files, pc, act, push, incidents>>
    BY <1>5 DEF PriceFalls
  <2> QED BY <1>1, <2>1 DEF files
<1>6. ASSUME NEW t, IsList(t), \A r \in ToSet(t) : r.kind # "orderFilled",
             orders' = orders \o t, UNCHANGED <<log, pc, act>>
      PROVE  MatchInv'
  <2>1. FillsApart(orders')
    BY <1>0, <1>6, NoFillAppended
  <2>2. \A r \in ToSet(orders') : r.kind = "orderFilled" => r \in ToSet(orders)
    BY <1>0, <1>6, ListGrows
  <2> QED BY <1>0, <1>6, <2>1, <2>2 DEF MatchInv, Matches, ActIsNew
<1>7. CASE Import
  <2>1. UNCHANGED <<now, venue, plans, log, trail, pc, act, push, incidents>>
    BY <1>7 DEF Import
  <2>2. PICK A, B :
            /\ orders' = orders \o A \o B /\ IsList(A) /\ IsList(B)
            /\ \A r \in ToSet(A) : r.kind = "orderPlaced"
            /\ \A r \in ToSet(B) : r.kind = "orderFillObserved"
    BY <1>7, ImportShape
  <2>3. orders' = orders \o (A \o B)
    <3> DEFINE S == ToSet(orders) \cup ToSet(A) \cup ToSet(B)
    <3>1. orders \in Seq(S) /\ A \in Seq(S) /\ B \in Seq(S)
      <4>1. \A s, T : s \in Seq(ToSet(s)) /\ ToSet(s) \subseteq T => s \in Seq(T)
        OBVIOUS
      <4> QED BY <1>0, <2>2, <4>1 DEF IsList
    <3> HIDE DEF S
    <3> QED BY <2>2, <3>1, ConcatAssociative
  <2>4. IsList(A \o B) /\ ToSet(A \o B) = ToSet(A) \cup ToSet(B)
    BY <2>2, ListGrows
  <2>5. \A r \in ToSet(A \o B) : r.kind # "orderFilled"
    BY <2>2, <2>4
  <2> QED BY <1>6, <2>1, <2>3, <2>4, <2>5
<1>8. ASSUME NEW id \in DOMAIN Offers, RecordCancel(id) PROVE MatchInv'
  <2> DEFINE r == Cancelled(id, venue[id].last)
             t == Append(<<>>, r)
  <2>1. orders' = Append(orders, r) /\ r.kind = "orderCancelled" /\ UNCHANGED <<log, pc, act>>
    BY <1>8 DEF RecordCancel, Cancelled
  <2> HIDE DEF r
  <2>2. IsList(t) /\ ToSet(t) = {r}
    <3>1. IsList(<<>>) /\ ToSet(<<>>) = {}
      BY NothingListed
    <3>2. IsList(t) /\ ToSet(t) = {} \cup {r}
      BY <3>1, ListGrowsByOne
    <3> QED BY <3>2
  <2>3. orders' = orders \o t
    <3>1. orders \in Seq(ToSet(orders) \cup {r})
      BY <1>0 DEF IsList
    <3> QED BY <2>1, <3>1
  <2> QED BY <1>6, <2>1, <2>2, <2>3
<1>9. ASSUME NEW id \in DOMAIN Offers, Interview(id) PROVE MatchInv'
  <2>1. pc' = "writing" /\ UNCHANGED <<orders, log>> /\ act'.id \notin LotsOnLog(log)
    BY <1>9, InterviewedAct DEF Interview, files
  <2> QED BY <1>0, <2>1 DEF MatchInv, ActIsNew
<1>10. CASE Tell \/ TellFails
  BY <1>1, <1>10 DEF Tell, TellFails
<1>11. CASE WriteLog
  <2> DEFINE lot == [type |-> "fill", id |-> act.id, position |-> act.position,
                     quantity |-> act.quantity, cost |-> Offers[act.id[1]].price]
  <2>1. /\ pc = "writing" /\ pc' = "appending" /\ log' = Append(log, lot)
        /\ UNCHANGED <<orders, act>>
    BY <1>11 DEF WriteLog
  <2>2. lot \in Lots /\ lot.id = act.id /\ lot.quantity = act.quantity
    <3>1. act.id \in (DOMAIN Offers) \X (1 .. now) /\ act.quantity \in Nat
          /\ act.position \in Positions /\ now \in Nat
      BY <2>1, LadderAssumption DEF TypeInv, ActOK
    <3>2. Offers[act.id[1]].price \in Nat
      BY <3>1, LadderAssumption
    <3>3. act.id \in (DOMAIN Offers) \X Nat
      BY <3>1
    <3> QED BY <3>1, <3>2, <3>3 DEF Lots
  <2> HIDE DEF lot
  <2>3. act.id \notin LotsOnLog(log) /\ act.id \notin FillsOnFile(orders)
    BY <1>0, <2>1 DEF ActIsNew, PathInv, ActStands
  <2>4. \A e \in ToSet(log) : e.id # lot.id
    <3>1. \A e \in ToSet(log) : e.type = "fill"
      BY <1>0, MembersType DEF Lots
    <3> QED BY <2>2, <2>3, <3>1 DEF LotsOnLog
  <2>5. Distinct(log')
    BY <1>0, <2>1, <2>2, <2>4, DistinctOneMore
  <2>6. ToSet(log') = ToSet(log) \cup {lot}
    BY <1>0, <2>1, <2>2, AppendedOne
  <2>7. \A r \in ToSet(orders) : r.kind = "orderFilled" => <<r.id, r.at>> # lot.id
    BY <2>2, <2>3 DEF FillsOnFile, FillEventId
  <2>8. Matches(log', orders')
    BY <1>0, <2>1, <2>6, <2>7 DEF Matches
  <2>9. ActIsNew'
    BY <1>0, <2>1, <2>2 DEF ActIsNew
  <2> QED BY <1>0, <2>1, <2>5, <2>8, <2>9 DEF MatchInv
<1>12. CASE AppendOrders
  <2> DEFINE fill == Filled(act.id[1], act.id[2], act.quantity)
  <2>1. /\ pc = "appending" /\ pc' = "telling" /\ log' = log
    BY <1>12 DEF AppendOrders
  <2>2. PICK gone : /\ orders' = Append(orders, fill) \o gone /\ IsList(gone)
                    /\ \A r \in ToSet(gone) : r.kind = "orderCancelled"
    BY <1>12, AppendShape
  <2>3. <<fill.id, fill.at>> = act.id /\ fill.kind = "orderFilled" /\ fill.quantity = act.quantity
    BY <1>12, AppendShape DEF Filled
  <2> HIDE DEF fill
  <2>4. IsList(Append(orders, fill)) /\ ToSet(Append(orders, fill)) = ToSet(orders) \cup {fill}
    BY <1>0, ListGrowsByOne
  <2>5. FillsApart(Append(orders, fill))
    <3>1. act.id \notin FillsOnFile(orders)
      BY <2>1 DEF PathInv, ActStands
    <3>2. \A r \in ToSet(orders) : r.kind = "orderFilled" => ~ (r.id = fill.id /\ r.at = fill.at)
      BY <2>3, <3>1 DEF FillsOnFile, FillEventId
    <3> QED BY <1>0, <3>2, FillAppended
  <2>6. FillsApart(orders')
    <3>1. \A r \in ToSet(gone) : r.kind # "orderFilled"
      BY <2>2
    <3> QED BY <2>2, <2>4, <2>5, <3>1, NoFillAppended
  <2>7. \A r \in ToSet(orders') : r.kind = "orderFilled" => r \in ToSet(orders) \cup {fill}
    <3>1. ToSet(orders') = ToSet(Append(orders, fill)) \cup ToSet(gone)
      BY <2>2, <2>4, ListGrows
    <3> QED BY <2>2, <2>4, <3>1
  <2>8. \A e \in ToSet(log) : e.id = act.id => e.quantity = act.quantity
    <3>1. PICK front \in Seq(Lots), lot \in Lots :
            log = Append(front, lot) /\ lot.id = act.id /\ lot.quantity = act.quantity
      BY <1>0, <2>1 DEF ActIsNew
    <3>2. Len(log) \in DOMAIN log /\ log[Len(log)] = lot
      BY <3>1
    <3>3. \A i \in DOMAIN log : log[i].id = act.id => i = Len(log)
      BY <1>0, <3>1, <3>2 DEF Distinct
    <3> QED BY <3>1, <3>2, <3>3 DEF ToSet
  <2>9. Matches(log', orders')
    BY <1>0, <2>1, <2>3, <2>7, <2>8 DEF Matches
  <2> QED BY <1>0, <2>1, <2>6, <2>9 DEF MatchInv, ActIsNew
<1>13. CASE AppendOrdersFails
  <2>1. pc = "appending" /\ pc' = "idle" /\ log' = SubSeq(log, 1, Len(log) - 1) /\ orders' = orders
    BY <1>13 DEF AppendOrdersFails
  <2>2. PICK front \in Seq(Lots), lot \in Lots : log = Append(front, lot) /\ lot.id = act.id
    BY <1>0, <2>1 DEF ActIsNew
  <2>3. log' = front
    BY <2>1, <2>2
  <2>4. /\ DOMAIN front = 1 .. Len(front) /\ DOMAIN log = 1 .. Len(front) + 1 /\ Len(front) \in Nat
        /\ \A i \in 1 .. Len(front) : log[i] = front[i]
    BY <2>2
  <2>5. Distinct(log')
    BY <1>0, <2>3, <2>4 DEF Distinct
  <2>6. ToSet(log') \subseteq ToSet(log)
    BY <2>3, <2>4 DEF ToSet
  <2>7. Matches(log', orders')
    BY <1>0, <2>1, <2>6 DEF Matches
  <2> QED BY <1>0, <2>1, <2>5, <2>7 DEF MatchInv, ActIsNew
<1>14. CASE Crash
  BY <1>1, <1>14 DEF Crash, files
<1>15. CASE Pushing
  <2>1. PushUnchanged
    BY <1>15 DEF Pushing, FoldLog, ReadOrders, ReadLog, EndPush
  <2> QED BY <1>1, <2>1 DEF PushUnchanged, files
<1> QED
  <2>1. CASE Commands
    BY <1>3, <1>4, <1>5, <1>7, <1>8, <1>9, <1>10, <2>1 DEF Commands
  <2>2. CASE Writes
    BY <1>11, <1>12, <1>13, <1>14, <2>2 DEF Writes
  <2> QED BY <1>2, <1>15, <2>1, <2>2 DEF Next

LEMMA MatchInvariant == Spec => []MatchInv
<1>1. Init => MatchInv
  <2> SUFFICES ASSUME Init PROVE MatchInv
    OBVIOUS
  <2>1. orders = <<>> /\ log = <<>> /\ pc = "idle"
    BY DEF Init
  <2>2. ToSet(log) = {} /\ DOMAIN log = {} /\ DOMAIN orders = {}
    BY <2>1, NothingListed
  <2> QED BY <2>1, <2>2 DEF MatchInv, Distinct, FillsApart, Matches, ActIsNew
<1> QED BY <1>1, TypeInvariant, PathInvariant, MatchStep, PTL DEF Spec

\* Of some places of a list those of one size, and the fills of some orders of one size.
OfSize(list, places, q) == { i \in places : list[i].quantity = q }
FillsOf(file, explained, q) ==
    { j \in DOMAIN file : file[j].kind = "orderFilled"
            /\ file[j].id \in explained /\ file[j].quantity = q }
BoughtBy(lots, explained) == { i \in DOMAIN lots : lots[i].id[1] \in explained }

\* The places of a list of lots of one size are as many as those of the lots they are.
LEMMA KeptOfSize ==
    ASSUME NEW S, NEW lots \in Seq(S), NEW places \in SUBSET DOMAIN lots, NEW q
    PROVE  Cardinality(OfSize(Kept(lots, places), DOMAIN Kept(lots, places), q))
                = Cardinality(OfSize(lots, places, q))
<1> DEFINE mine == Kept(lots, places)
           A == { i \in DOMAIN mine : mine[i].quantity = q }
           B == { i \in places : lots[i].quantity = q }
<1>1. mine \in Seq(S)
  BY KeptLines
<1>2. DOMAIN mine = 1 .. Len(mine) /\ Len(mine) \in Nat
      /\ places \cap (1 .. Len(lots)) = places
  BY <1>1
<1>3. PICK m : StandsAt(m, mine, lots, places, Len(lots))
  BY KeptStands
<1> HIDE DEF mine
<1>4. /\ \A i \in DOMAIN mine : m[i] \in places /\ mine[i] = lots[m[i]]
      /\ \A i, j \in DOMAIN mine : m[i] = m[j] => i = j
      /\ \A p \in places : \E i \in DOMAIN mine : m[i] = p
  BY <1>2, <1>3 DEF StandsAt
<1> DEFINE g == [i \in A |-> m[i]]
<1>5. GoesTo(g, A, B)
  <2>1. \A i \in A : g[i] = m[i] /\ i \in DOMAIN mine
    OBVIOUS
  <2>2. \A i \in A : g[i] \in B
    BY <1>4, <2>1
  <2>3. \A i, j \in A : g[i] = g[j] => i = j
    BY <1>4, <2>1
  <2>4. \A b \in B : \E i \in A : g[i] = b
    <3> SUFFICES ASSUME NEW b \in B PROVE \E i \in A : g[i] = b
      OBVIOUS
    <3>1. PICK i \in DOMAIN mine : m[i] = b
      BY <1>4
    <3>2. i \in A
      BY <1>4, <3>1
    <3> QED BY <2>1, <3>1, <3>2
  <2>5. g = [i \in A |-> g[i]]
    OBVIOUS
  <2> HIDE DEF g, A, B
  <2> QED BY <2>2, <2>3, <2>4, <2>5 DEF GoesTo
<1>6. IsFiniteSet(A)
  <2>1. IsFiniteSet(DOMAIN mine)
    BY <1>2, FS_Interval
  <2>2. A \in SUBSET DOMAIN mine
    OBVIOUS
  <2> HIDE DEF A
  <2> QED BY <2>1, <2>2, FS_Subset
<1> HIDE DEF g, A, B
<1>7. Cardinality(B) = Cardinality(A)
  BY <1>5, <1>6, SameNumber
<1> QED BY <1>7 DEF A, B, mine, OfSize

\* No act is torn: every lot has its fill on file and every fill its lot.
Paired(lots, file) ==
    /\ \A i \in DOMAIN lots : \E j \in DOMAIN file :
            file[j].kind = "orderFilled" /\ lots[i].id = <<file[j].id, file[j].at>>
    /\ \A j \in DOMAIN file : file[j].kind = "orderFilled" =>
            \E i \in DOMAIN lots : lots[i].id = <<file[j].id, file[j].at>>

\* The fills of some orders of one size are then as many as the lots they are.
LEMMA FillsOfSize ==
    ASSUME NEW S, NEW lots \in Seq(S), Distinct(lots), NEW file, IsList(file),
           FillsApart(file), Matches(lots, file), Paired(lots, file), NEW explained, NEW q
    PROVE  Cardinality(FillsOf(file, explained, q))
                = Cardinality(OfSize(lots, BoughtBy(lots, explained), q))
<1> DEFINE A == { j \in DOMAIN file : file[j].kind = "orderFilled"
                            /\ file[j].id \in explained /\ file[j].quantity = q }
           B == { i \in DOMAIN lots : lots[i].id[1] \in explained /\ lots[i].quantity = q }
           g == [j \in A |-> CHOOSE i \in DOMAIN lots : lots[i].id = <<file[j].id, file[j].at>>]
<1>1. \A j \in A : g[j] \in DOMAIN lots /\ lots[g[j]].id = <<file[j].id, file[j].at>>
  <2> SUFFICES ASSUME NEW j \in A
               PROVE  g[j] \in DOMAIN lots /\ lots[g[j]].id = <<file[j].id, file[j].at>>
    OBVIOUS
  <2>1. \E i \in DOMAIN lots : lots[i].id = <<file[j].id, file[j].at>>
    BY DEF Paired
  <2> QED BY <2>1
<1>2. g = [j \in A |-> g[j]]
  OBVIOUS
<1> HIDE DEF g
<1>3. \A i \in DOMAIN lots, j \in DOMAIN file :
        file[j].kind = "orderFilled" /\ lots[i].id = <<file[j].id, file[j].at>> =>
            lots[i].quantity = file[j].quantity /\ lots[i].id[1] = file[j].id
  <2>1. /\ \A i \in DOMAIN lots : lots[i] \in ToSet(lots)
        /\ \A j \in DOMAIN file : file[j] \in ToSet(file)
    BY DEF ToSet
  <2> QED BY <2>1 DEF Matches
<1>4. \A j \in A : g[j] \in B
  BY <1>1, <1>3
<1>5. \A j, k \in A : g[j] = g[k] => j = k
  BY <1>1 DEF FillsApart
<1>6. \A i \in B : \E j \in A : g[j] = i
  <2> SUFFICES ASSUME NEW i \in B PROVE \E j \in A : g[j] = i
    OBVIOUS
  <2>1. PICK j \in DOMAIN file :
            file[j].kind = "orderFilled" /\ lots[i].id = <<file[j].id, file[j].at>>
    BY DEF Paired
  <2>2. j \in A
    BY <1>3, <2>1
  <2>3. lots[g[j]].id = lots[i].id /\ g[j] \in DOMAIN lots /\ i \in DOMAIN lots
    BY <1>1, <2>1, <2>2
  <2>4. g[j] = i
    BY <2>3 DEF Distinct
  <2> QED BY <2>2, <2>4
<1>7. IsFiniteSet(A)
  <2>1. DOMAIN file = 1 .. Len(file) /\ Len(file) \in Nat
    BY DEF IsList
  <2>2. IsFiniteSet(DOMAIN file)
    BY <2>1, FS_Interval
  <2>3. A \in SUBSET DOMAIN file
    OBVIOUS
  <2> HIDE DEF A
  <2> QED BY <2>2, <2>3, FS_Subset
<1> HIDE DEF A, B
<1>8. Cardinality(B) = Cardinality(A)
  <2>1. GoesTo(g, A, B)
    BY <1>2, <1>4, <1>5, <1>6 DEF GoesTo
  <2> QED BY <1>7, <2>1, SameNumber
<1> QED BY <1>8 DEF A, B, FillsOf, OfSize, BoughtBy

\* With nothing torn, the lots left over are those no order of the ladder bought.
LEMMA OrphansAre ==
    ASSUME NEW S, NEW lots \in Seq(S), Distinct(lots), NEW file, IsList(file),
           FillsApart(file), Matches(lots, file), Paired(lots, file), NEW explained,
           NEW here \in SUBSET DOMAIN lots,
           BoughtBy(lots, explained) \subseteq here
    PROVE  OrphansOf(Kept(lots, here), file, explained)
                = Cardinality(here \ BoughtBy(lots, explained))
<1> DEFINE mine == Kept(lots, here)
           bought == BoughtBy(lots, explained)
           rest == here \ bought
           D == { mine[i].quantity : i \in DOMAIN mine }
           ofSize(q) == Cardinality({ i \in DOMAIN mine : mine[i].quantity = q })
           fills(q) == Cardinality({ j \in DOMAIN file : file[j].kind = "orderFilled"
                            /\ file[j].id \in explained /\ file[j].quantity = q })
           size == [i \in DOMAIN lots |-> lots[i].quantity]
           left(q) == { i \in rest : size[i] = q }
           f == [q \in D |-> Cardinality(left(q))]
<1>1. /\ mine \in Seq(S) /\ ToSet(mine) = { lots[i] : i \in here }
  <2>1. here \cap DOMAIN lots = here
    OBVIOUS
  <2> QED BY <2>1, KeptLines
<1>2. IsFiniteSet(here) /\ IsFiniteSet(rest)
  <2>1. DOMAIN lots = 1 .. Len(lots) /\ Len(lots) \in Nat
    OBVIOUS
  <2>2. IsFiniteSet(DOMAIN lots)
    BY <2>1, FS_Interval
  <2>3. rest \in SUBSET DOMAIN lots
    BY DEF BoughtBy
  <2> HIDE DEF rest
  <2> QED BY <2>2, <2>3, FS_Subset
<1>3. D = { lots[i].quantity : i \in here }
  <2>1. D = { x.quantity : x \in ToSet(mine) }
    BY DEF ToSet
  <2> HIDE DEF D, mine
  <2> QED BY <1>1, <2>1
<1>4. IsFiniteSet(D)
  <2> DEFINE h == [i \in here |-> lots[i].quantity]
  <2>1. h = [i \in here |-> h[i]] /\ { h[i] : i \in here } = { lots[i].quantity : i \in here }
    OBVIOUS
  <2> HIDE DEF h
  <2>2. IsFiniteSet({ h[i] : i \in here })
    BY <1>2, <2>1, FiniteImage
  <2> HIDE DEF D
  <2> QED BY <1>3, <2>1, <2>2
<1>5. \A q : Max({0, ofSize(q) - fills(q)}) = Cardinality(left(q))
  <2> SUFFICES ASSUME NEW q PROVE Max({0, ofSize(q) - fills(q)}) = Cardinality(left(q))
    OBVIOUS
  <2> DEFINE A == OfSize(lots, here, q)
             B == OfSize(lots, bought, q)
  <2>1. ofSize(q) = Cardinality(A)
    <3>1. Cardinality(OfSize(mine, DOMAIN mine, q)) = Cardinality(A)
      BY KeptOfSize
    <3> QED BY <3>1 DEF OfSize
  <2>2. fills(q) = Cardinality(B)
    <3>1. Cardinality(FillsOf(file, explained, q)) = Cardinality(B)
      BY FillsOfSize
    <3> QED BY <3>1 DEF FillsOf
  <2>3. left(q) = A \ B /\ B \in SUBSET A /\ A \in SUBSET here
    BY DEF OfSize, BoughtBy
  <2> HIDE DEF A, B, left, ofSize, fills
  <2>4. IsFiniteSet(A)
    BY <1>2, <2>3, FS_Subset
  <2>5. /\ Cardinality(A \ B) \in Nat
        /\ Cardinality(A) - Cardinality(B) = Cardinality(A \ B)
    BY <2>3, <2>4, SizeOfRest
  <2>6. Max({0, Cardinality(A \ B)}) = Cardinality(A \ B)
    BY <2>5, MaxOfZeroAnd
  <2>7. ofSize(q) - fills(q) = Cardinality(A \ B)
    BY <2>1, <2>2, <2>5
  <2>8. Cardinality(left(q)) = Cardinality(A \ B)
    BY <2>3, Zenon
  <2> QED BY <2>6, <2>7, <2>8, Zenon
<1>6. OrphansOf(mine, file, explained) = SumFunction([q \in D |-> Max({0, ofSize(q) - fills(q)})])
  BY DEF OrphansOf, Sum
<1>7. [q \in D |-> Max({0, ofSize(q) - fills(q)})] = f
  <2> HIDE DEF ofSize, fills, left, D
  <2> QED BY <1>5
<1>8. SumFunction(f) = Cardinality(rest)
  <2>1. \A x \in rest : size[x] \in D
    <3>1. \A x \in rest : x \in here /\ size[x] = lots[x].quantity
      OBVIOUS
    <3> HIDE DEF D, rest, size
    <3> QED BY <1>3, <3>1
  <2>2. f = [q \in D |-> Cardinality({ x \in rest : size[x] = q })]
    OBVIOUS
  <2> HIDE DEF f, D, rest, size
  <2>3. IsFiniteSet(D) /\ IsFiniteSet(rest)
    BY <1>2, <1>4
  <2> QED BY <2>1, <2>2, <2>3, SizesOfParts
<1> HIDE DEF f, ofSize, fills, mine, D
<1> QED BY <1>6, <1>7, <1>8 DEF mine

LEMMA NothingTorn ==
    ASSUME NEW lots, NEW file, TornActs(lots, file) = {}
    PROVE  LotsOnLog(lots) = FillsOnFile(file)
<1>1. ASSUME NEW x \in LotsOnLog(lots), x \notin FillsOnFile(file) PROVE FALSE
  <2>1. <<x, "lot-without-fill">> \in TornActs(lots, file)
    BY <1>1 DEF TornActs, LotsWithoutFill
  <2> QED BY <2>1
<1>2. ASSUME NEW x \in FillsOnFile(file), x \notin LotsOnLog(lots) PROVE FALSE
  <2>1. <<x, "fill-without-lot">> \in TornActs(lots, file)
    BY <1>2 DEF TornActs, FillsWithoutLot
  <2> QED BY <2>1
<1> QED BY <1>1, <1>2

\* The lots and the orders of a day, of files with nothing torn, hold the same fills.
LEMMA DayIsPaired ==
    ASSUME TypeInv, MatchInv, TornActs(log, orders) = {}, NEW asOf
    PROVE  LET lots == LotsThrough(log, asOf)
               cut == Through(orders, asOf)
           IN  /\ lots \in Seq(Lots) /\ Distinct(lots) /\ IsList(cut)
               /\ FillsApart(cut) /\ Matches(lots, cut) /\ Paired(lots, cut)
<1> DEFINE kept == { i \in DOMAIN log : log[i].id[2] <= asOf }
           places == { i \in DOMAIN orders : orders[i].at <= asOf }
           lots == LotsThrough(log, asOf)
           cut == Through(orders, asOf)
           S == ToSet(orders)
<1>1. lots = Kept(log, kept) /\ cut = Kept(orders, places)
  BY DEF LotsThrough, Through
<1>2. log \in Seq(Lots) /\ orders \in Seq(S)
      /\ Distinct(log) /\ FillsApart(orders) /\ Matches(log, orders)
  BY DEF TypeInv, OrdersOK, IsList, MatchInv
<1>3. \A i \in kept : i \in DOMAIN log /\ log[i].id[2] <= asOf
  OBVIOUS
<1>4. \A i \in places : i \in DOMAIN orders /\ orders[i].at <= asOf
  OBVIOUS
<1>5. /\ \A i \in DOMAIN log : log[i].id[2] <= asOf => i \in kept
      /\ \A i \in DOMAIN orders : orders[i].at <= asOf => i \in places
  OBVIOUS
<1> HIDE DEF kept, places, lots, cut, S
<1>6. lots \in Seq(Lots) /\ ToSet(lots) = { log[i] : i \in kept \cap DOMAIN log }
  BY <1>1, <1>2, KeptLines
<1>7. cut \in Seq(S) /\ ToSet(cut) = { orders[i] : i \in places \cap DOMAIN orders }
  BY <1>1, <1>2, KeptLines
<1>8. Distinct(lots)
  <2>1. \A i, j \in kept \cap DOMAIN log : log[i].id = log[j].id => i = j
    BY <1>2 DEF Distinct
  <2> QED BY <1>1, <1>2, <2>1, KeptDistinct
<1>9. FillsApart(cut)
  <2>1. PICK m : StandsAt(m, cut, orders, places, Len(orders))
    BY <1>1, <1>2, KeptStands
  <2>2. DOMAIN cut = 1 .. Len(cut) /\ DOMAIN orders = 1 .. Len(orders)
    BY <1>2, <1>7
  <2>3. /\ \A i \in DOMAIN cut : m[i] \in DOMAIN orders /\ cut[i] = orders[m[i]]
        /\ \A i, j \in DOMAIN cut : m[i] = m[j] => i = j
    BY <2>1, <2>2 DEF StandsAt
  <2> QED BY <1>2, <2>3 DEF FillsApart
<1>10. /\ ToSet(lots) \subseteq ToSet(log) /\ \A e \in ToSet(lots) : e.id[2] <= asOf
       /\ ToSet(cut) \subseteq ToSet(orders) /\ \A r \in ToSet(cut) : r.at <= asOf
  <2>1. /\ \A i \in DOMAIN log : log[i] \in ToSet(log)
        /\ \A i \in DOMAIN orders : orders[i] \in ToSet(orders)
    BY DEF ToSet
  <2> QED BY <1>3, <1>4, <1>6, <1>7, <2>1
<1>11. Matches(lots, cut)
  BY <1>2, <1>10 DEF Matches
<1>12. LotsOnLog(log) = FillsOnFile(orders)
  BY NothingTorn
<1>13. \A e \in ToSet(log) : e.type = "fill"
  BY <1>2, MembersType DEF Lots
<1>14. \A i \in DOMAIN lots : \E j \in DOMAIN cut :
            cut[j].kind = "orderFilled" /\ lots[i].id = <<cut[j].id, cut[j].at>>
  <2> SUFFICES ASSUME NEW i \in DOMAIN lots
               PROVE  \E j \in DOMAIN cut :
                        cut[j].kind = "orderFilled" /\ lots[i].id = <<cut[j].id, cut[j].at>>
    OBVIOUS
  <2>1. lots[i] \in ToSet(lots)
    BY DEF ToSet
  <2>2. lots[i].id \in LotsOnLog(log) /\ lots[i].id[2] <= asOf
    BY <1>10, <1>13, <2>1 DEF LotsOnLog
  <2>3. PICK r \in ToSet(orders) : r.kind = "orderFilled" /\ lots[i].id = <<r.id, r.at>>
    BY <1>12, <2>2 DEF FillsOnFile, FillEventId
  <2>4. PICK k \in DOMAIN orders : r = orders[k]
    BY DEF ToSet
  <2>5. r.at <= asOf
    BY <2>2, <2>3
  <2>6. r \in ToSet(cut)
    BY <1>5, <1>7, <2>4, <2>5
  <2>7. PICK j \in DOMAIN cut : r = cut[j]
    BY <2>6 DEF ToSet
  <2> QED BY <2>3, <2>7
<1>15. \A j \in DOMAIN cut : cut[j].kind = "orderFilled" =>
            \E i \in DOMAIN lots : lots[i].id = <<cut[j].id, cut[j].at>>
  <2> SUFFICES ASSUME NEW j \in DOMAIN cut, cut[j].kind = "orderFilled"
               PROVE  \E i \in DOMAIN lots : lots[i].id = <<cut[j].id, cut[j].at>>
    OBVIOUS
  <2>1. cut[j] \in ToSet(cut)
    BY DEF ToSet
  <2>2. <<cut[j].id, cut[j].at>> \in LotsOnLog(log) /\ cut[j].at <= asOf
    BY <1>10, <1>12, <2>1 DEF FillsOnFile, FillEventId
  <2>3. PICK e \in ToSet(log) : e.id = <<cut[j].id, cut[j].at>>
    BY <2>2 DEF LotsOnLog
  <2>4. PICK k \in DOMAIN log : e = log[k]
    BY DEF ToSet
  <2>5. e.id[2] <= asOf
    BY <2>2, <2>3
  <2>6. e \in ToSet(lots)
    BY <1>5, <1>6, <2>4, <2>5
  <2>7. PICK i \in DOMAIN lots : e = lots[i]
    BY <2>6 DEF ToSet
  <2> QED BY <2>3, <2>7
<1>16. IsList(cut)
  <2>1. DOMAIN cut = 1 .. Len(cut) /\ Len(cut) \in Nat /\ cut = [i \in 1 .. Len(cut) |-> cut[i]]
    BY <1>7
  <2> QED BY <2>1, ListBuilt
<1> QED BY <1>6, <1>8, <1>9, <1>11, <1>14, <1>15, <1>16 DEF Paired, lots, cut

LEMMA OrphansOnTheRow ==
    ASSUME TypeInv, MatchInv, ReadInv, TornActs(log, orders) = {},
           NEW asOf, NEW row \in Ladders(asOf)
    PROVE  LET lots == FoldedAt(asOf).lots
               here == { i \in DOMAIN lots : lots[i].position = row.plan.position }
               bought == { i \in DOMAIN lots :
                                lots[i].id[1] \in { wire.order : wire \in row.rungs } }
           IN  bought \subseteq here => row.orphans = Cardinality(here \ bought)
<1> DEFINE lots == LotsThrough(log, asOf)
           cut == Through(orders, asOf)
           explained == { wire.order : wire \in row.rungs }
           here == { i \in DOMAIN lots : lots[i].position = row.plan.position }
           bought == BoughtBy(lots, explained)
<1>1. FoldedAt(asOf).lots = lots
  BY DEF FoldedAt
<1>2. row.orphans = OrphansOf(Kept(lots, here), cut, explained)
  BY <1>1, RowOf
<1>3. /\ lots \in Seq(Lots) /\ Distinct(lots) /\ IsList(cut)
      /\ FillsApart(cut) /\ Matches(lots, cut) /\ Paired(lots, cut)
  BY DayIsPaired
<1>4. here \in SUBSET DOMAIN lots
  OBVIOUS
<1>5. bought = { i \in DOMAIN lots : lots[i].id[1] \in { wire.order : wire \in row.rungs } }
  BY DEF BoughtBy
<1> HIDE DEF lots, cut, explained, here
<1>6. ASSUME bought \subseteq here PROVE row.orphans = Cardinality(here \ bought)
  <2>1. OrphansOf(Kept(lots, here), cut, explained) = Cardinality(here \ bought)
    BY <1>3, <1>4, <1>6, OrphansAre
  <2> QED BY <1>2, <2>1
<1> QED BY <1>1, <1>5, <1>6 DEF here, lots

\* With no act torn, and every fill of a rung booked in the position of its ladder, as many
\* lots of the position are left over as were bought by orders that stand for no rung.
THEOREM OrphansCounted == Spec => []OrphansAreForeign
<1>1. TypeInv /\ MatchInv /\ ReadInv => OrphansAreForeign
  BY OrphansOnTheRow DEF OrphansAreForeign
<1> QED BY <1>1, TypeInvariant, MatchInvariant, ReadInvariant, PTL
================================================================================
