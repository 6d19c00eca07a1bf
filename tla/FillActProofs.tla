---------------------------- MODULE FillActProofs ----------------------------
(***************************************************************************)
(* What FillAct promises for any number of processes, rungs and faults:    *)
(* while one act runs at a time and a failed append has written nothing,   *)
(* the two files tear one way only, one fill at a time, and what the       *)
(* operator was told stays true.                                           *)
(*                                                                         *)
(* What carries them is that an act writes after a comparison of the files *)
(* that found them whole, and that nothing fills or books in between.      *)
(***************************************************************************)
EXTENDS FillAct, LogLemmas

\* The steps at which an act has been confirmed and is not over.
InHand == {"confirmed", "writing", "appending", "rolling back"}
\* The steps at which its lot is on the log and its fill is not in the sidecar.
HalfWritten == {"appending", "rolling back"}

\* One act at a time.
Alone == \A p, q \in Fillers : pc[p] # "idle" /\ pc[q] # "idle" => p = q

\* Between its reads a process knows the fills that are on file.
ReadHolds ==
    \A p \in Fillers : pc[p] = "loading" => FillsOnFile(records[p]) = FillsOnFile(orders)

\* The log an act was decided on, and that a roll back returns to.
Before(p) == IF pc[p] \in HalfWritten THEN image[p] ELSE log

\* From the check of the two files on, they are whole but for the act in hand.
WholeBefore ==
    \A p \in Fillers :
        /\ pc[p] = "asking" => prior[p] = log
        /\ pc[p] = "writing" => image[p] = log
        /\ pc[p] \in InHand \cup {"asking"} => LotsOnLog(Before(p)) = FillsOnFile(orders)
        /\ pc[p] \in InHand => act[p].id \notin LotsOnLog(Before(p))
        /\ pc[p] \in HalfWritten => log = Append(image[p], FillEvent(act[p]))

\* The files tear one way, and one lot at a time.
OneTorn ==
    /\ FillsOnFile(orders) \subseteq LotsOnLog(log)
    /\ \A x, y \in LotsWithoutFill(log, orders) : x = y

\* A roll back restores what was reported recorded.
ImageKeeps ==
    \A a \in recorded, p \in Fillers :
        pc[p] \in HalfWritten => FillEvent(a) \in ToSet(image[p])

\* The inductive invariant, of the acts that do not overlap.
WholeInv == Alone /\ ReadHolds /\ WholeBefore /\ OneTorn /\ ReportIsTrue /\ ImageKeeps

----------------------------------------------------------------------------
\* What a process holds before it confirms is told from every act.
LEMMA NoActIsNone == NoAct \notin Acts
BY DEF NoAct, Acts

\* The lot of an act is a line of the log.
LEMMA FillEventType ==
    ASSUME NEW a \in Acts
    PROVE  /\ FillEvent(a) \in LogLine
           /\ FillEvent(a).type = "fill" /\ FillEvent(a).id = a.id
BY DEF FillEvent, Acts, LogLine

\* What an act appends to the sidecar holds its fill and no other.
LEMMA LinesOfAct ==
    ASSUME NEW a \in Acts
    PROVE  /\ Lines(a) \in Seq(OrderLine)
           /\ FillsOnFile(Lines(a)) = {a.id}
<1> DEFINE listed == SetToSeq(a.cancelled)
           gone == [i \in DOMAIN listed |-> Cancelled(listed[i], a.id[2])]
           fill == Filled(a.id[1], a.id[2], a.quantity)
<1>1. /\ a.id[1] \in Rungs /\ a.id[2] \in Stamps /\ a.id = <<a.id[1], a.id[2]>>
      /\ a.quantity \in Nat \ {0} /\ a.cancelled \in SUBSET Rungs
  BY DEF Acts
<1>2. IsFiniteSet(a.cancelled)
  BY <1>1, FillActAssumption, FS_Subset
<1>3. listed \in Seq(Rungs)
  BY <1>1, <1>2, Listed
<1>4. gone \in Seq(OrderLine) /\ \A i \in DOMAIN gone : gone[i].kind = "orderCancelled"
  BY <1>1, <1>3 DEF Cancelled, OrderLine
<1>5. <<fill>> \in Seq(OrderLine) /\ fill.kind = "orderFilled"
      /\ fill.id = a.id[1] /\ fill.at = a.id[2]
  BY <1>1 DEF Filled, OrderLine
<1>6. Lines(a) = <<fill>> \o gone
  BY DEF Lines
<1>7. ToSet(Lines(a)) = {fill} \cup ToSet(gone)
  <2>1. ToSet(<<fill>>) = {fill}
    BY DEF ToSet
  <2>2. \A s, t \in Seq(OrderLine) : ToSet(s \o t) = ToSet(s) \cup ToSet(t)
    BY AppendedOnly
  <2> HIDE DEF fill, gone
  <2> QED BY <1>4, <1>5, <1>6, <2>1, <2>2
<1>8. \A x \in ToSet(gone) : x.kind # "orderFilled"
  BY <1>4 DEF ToSet
<1>9. { x \in ToSet(Lines(a)) : x.kind = "orderFilled" } = {fill}
  BY <1>5, <1>7, <1>8
<1>10. FillsOnFile(Lines(a)) = {a.id}
  BY <1>1, <1>5, <1>9 DEF FillsOnFile, FillEventId
<1>11. Lines(a) \in Seq(OrderLine)
  BY <1>4, <1>5, <1>6
<1> QED BY <1>10, <1>11

\* Appending to the sidecar adds the fills of what is appended.
LEMMA FillsOfAppended ==
    ASSUME NEW s \in Seq(OrderLine), NEW t \in Seq(OrderLine)
    PROVE  FillsOnFile(s \o t) = FillsOnFile(s) \cup FillsOnFile(t)
<1>1. ToSet(s \o t) = ToSet(s) \cup ToSet(t)
  BY AppendedOnly
<1> QED BY <1>1 DEF FillsOnFile

\* One line adds its own fill, when it is one.
LEMMA FillsOfOne ==
    ASSUME NEW s \in Seq(OrderLine), NEW r \in OrderLine
    PROVE  FillsOnFile(Append(s, r)) =
             FillsOnFile(s) \cup (IF r.kind = "orderFilled" THEN {<<r.id, r.at>>} ELSE {})
<1>1. ToSet(Append(s, r)) = ToSet(s) \cup {r}
  BY AppendedOne
<1> QED BY <1>1 DEF FillsOnFile, FillEventId

\* And one event its own lot.
LEMMA LotsOfOne ==
    ASSUME NEW s \in Seq(LogLine), NEW e \in LogLine
    PROVE  LotsOnLog(Append(s, e)) =
             LotsOnLog(s) \cup (IF e.type = "fill" THEN {e.id} ELSE {})
<1>1. ToSet(Append(s, e)) = ToSet(s) \cup {e}
  BY AppendedOne
<1> QED BY <1>1 DEF LotsOnLog

\* The ladder on file when the model starts holds no fill.
LEMMA LadderPlaced ==
    ASSUME Init PROVE orders \in Seq(OrderLine) /\ FillsOnFile(orders) = {}
<1>1. SetToSeq(Rungs) \in Seq(Rungs) /\ DOMAIN SetToSeq(Rungs) = 1 .. Cardinality(Rungs)
  BY FillActAssumption, Listed
<1>2. Cardinality(Rungs) \in Nat
  BY FillActAssumption, FS_CardinalityType
<1>3. \A i \in DOMAIN SetToSeq(Rungs) : SetToSeq(Rungs)[i] \in Rungs
  BY <1>1, LineType, Zenon
<1>4. \A id \in Rungs : Placed(id, 1, Sizes[id], 0) \in OrderLine
  BY FillActAssumption DEF Placed, OrderLine, Stamps
<1>5. orders = [i \in 1 .. Cardinality(Rungs) |->
                    Placed(SetToSeq(Rungs)[i], 1, Sizes[SetToSeq(Rungs)[i]], 0)]
  BY DEF Init
<1>6. orders \in Seq(OrderLine)
  BY <1>1, <1>2, <1>3, <1>4, <1>5
<1>7. \A i \in DOMAIN orders : orders[i].kind = "orderPlaced"
  BY <1>5 DEF Placed
<1>8. FillsOnFile(orders) = {}
  BY <1>7 DEF FillsOnFile, ToSet
<1> QED BY <1>6, <1>8
----------------------------------------------------------------------------
\* However an act ends, what its process held is forgotten.
LEMMA EndType ==
    ASSUME TypeOK, NEW p \in Fillers, End(p)
    PROVE  /\ pc' \in [Fillers -> Steps]
           /\ records' \in [Fillers -> Seq(OrderLine)]
           /\ prior' \in [Fillers -> Seq(LogLine)] /\ image' \in [Fillers -> Seq(LogLine)]
           /\ act' \in [Fillers -> Acts \cup {NoAct}]
           /\ \A q \in Fillers : act'[q] # NoAct <=> pc'[q] \in InHand
<1>1. pc' \in [Fillers -> Steps]
  BY DEF TypeOK, End, Goto, Steps
<1>2. records' \in [Fillers -> Seq(OrderLine)]
  BY EmptyLog, Replaced, Zenon DEF TypeOK, End
<1>3. prior' \in [Fillers -> Seq(LogLine)] /\ image' \in [Fillers -> Seq(LogLine)]
  BY EmptyLog, Replaced, Zenon DEF TypeOK, End
<1>4. act' \in [Fillers -> Acts \cup {NoAct}]
  BY DEF TypeOK, End
<1>5. ASSUME NEW q \in Fillers PROVE act'[q] # NoAct <=> pc'[q] \in InHand
  BY DEF TypeOK, End, Goto, InHand
<1> QED BY <1>1, <1>2, <1>3, <1>4, <1>5

\* What the operator confirms is an act on one rung, and its lot is not in the log
\* as it was read.
LEMMA ConfirmedAct ==
    ASSUME NEW p \in Fillers, Confirm(p)
    PROVE  \E a \in Acts : /\ act' = [act EXCEPT ![p] = a]
                           /\ \A e \in ToSet(prior[p]) : e.id # a.id
<1>1. PICK id \in Rungs, at \in Stamps :
        \E quantity \in 1 .. Ceiling(records[p], id), cancelled \in SUBSET (Rungs \ {id}) :
            /\ \A e \in ToSet(prior[p]) : e.id # FillEventId(id, at)
            /\ act' = [act EXCEPT ![p] = [id |-> FillEventId(id, at),
                            quantity |-> quantity, cancelled |-> cancelled]]
  BY DEF Confirm
<1>2. PICK quantity \in 1 .. Ceiling(records[p], id), cancelled \in SUBSET (Rungs \ {id}) :
            /\ \A e \in ToSet(prior[p]) : e.id # FillEventId(id, at)
            /\ act' = [act EXCEPT ![p] = [id |-> FillEventId(id, at),
                            quantity |-> quantity, cancelled |-> cancelled]]
  BY <1>1, Zenon
<1> DEFINE a == [id |-> FillEventId(id, at), quantity |-> quantity, cancelled |-> cancelled]
<1>3. quantity \in Nat \ {0} /\ cancelled \in SUBSET Rungs
  BY <1>2
<1>4. a \in Acts /\ a.id = FillEventId(id, at)
  BY <1>3 DEF Acts, FillEventId
<1> QED BY <1>2, <1>4, Zenon

\* What the other commands and the editor append is never a fill.
LEMMA ObservedLine ==
    ASSUME Observe
    PROVE  \E line \in OrderLine : /\ line.kind \notin {"orderFilled", "orderPlaced"}
                                 /\ orders' = Append(orders, line)
<1>1. PICK id \in Rungs, at \in Stamps :
        \E line \in {Cancelled(id, at)} \cup { FillObserved(id, at, q) : q \in 0 .. Sizes[id] } :
            orders' = Append(orders, line)
  BY DEF Observe
<1>2. PICK line \in {Cancelled(id, at)} \cup { FillObserved(id, at, q) : q \in 0 .. Sizes[id] } :
        orders' = Append(orders, line)
  BY <1>1
<1>3. line \in OrderLine /\ line.kind \notin {"orderFilled", "orderPlaced"}
  BY <1>2 DEF Cancelled, FillObserved, OrderLine
<1> QED BY <1>2, <1>3

\* Every step keeps the types.
LEMMA TypeStep == TypeOK /\ [Next]_vars => TypeOK'
<1> SUFFICES ASSUME TypeOK, [Next]_vars PROVE TypeOK'
  OBVIOUS
<1> USE DEF InHand
<1>0. /\ log \in Seq(LogLine) /\ orders \in Seq(OrderLine)
      /\ pc \in [Fillers -> Steps]
      /\ prior \in [Fillers -> Seq(LogLine)] /\ image \in [Fillers -> Seq(LogLine)]
      /\ act \in [Fillers -> Acts \cup {NoAct}] /\ faults \in Nat
  BY DEF TypeOK
<1>1. CASE UNCHANGED vars
  BY <1>1 DEF TypeOK, vars, files, locals
<1>2. ASSUME NEW p \in Fillers, LoadOrders(p) PROVE TypeOK'
  BY <1>2 DEF TypeOK, LoadOrders, Goto, Steps, files
<1>3. ASSUME NEW p \in Fillers, LoadLog(p) PROVE TypeOK'
  <2>1. CASE End(p)
    BY <1>3, <2>1, EndType DEF TypeOK, LoadLog, files
  <2>2. CASE /\ prior' = [prior EXCEPT ![p] = log]
             /\ Goto(p, "asking")
             /\ UNCHANGED <<records, act, image>>
    <3>1. prior' \in [Fillers -> Seq(LogLine)]
      BY <1>0, <2>2, Replaced, Zenon
    <3>2. pc[p] = "loading" /\ UNCHANGED <<files, recorded, undone, faults>>
      BY <1>3 DEF LoadLog
    <3> QED BY <2>2, <3>1, <3>2 DEF TypeOK, Goto, Steps, files
  <2> QED BY <1>3, <2>1, <2>2 DEF LoadLog
<1>4. ASSUME NEW p \in Fillers, Confirm(p) PROVE TypeOK'
  <2>1. PICK a \in Acts : act' = [act EXCEPT ![p] = a]
    BY <1>4, ConfirmedAct
  <2>2. a # NoAct
    BY NoActIsNone
  <2> QED BY <1>4, <2>1, <2>2 DEF TypeOK, Confirm, Goto, Steps, files
<1>5. ASSUME NEW p \in Fillers, Decline(p) PROVE TypeOK'
  BY <1>5, EndType DEF TypeOK, Decline, files
<1>6. ASSUME NEW p \in Fillers, ReadLogImage(p) PROVE TypeOK'
  BY <1>6 DEF TypeOK, ReadLogImage, Goto, Steps, files
<1>7. ASSUME NEW p \in Fillers, WriteLogImage(p) PROVE TypeOK'
  <2>1. act[p] \in Acts /\ image[p] \in Seq(LogLine)
    BY <1>7 DEF TypeOK, WriteLogImage
  <2>2. log' \in Seq(LogLine) /\ undone' \subseteq Acts
    <3>1. Append(image[p], FillEvent(act[p])) \in Seq(LogLine)
      BY <2>1, FillEventType, LogType
    <3> QED BY <1>7, <3>1 DEF TypeOK, WriteLogImage
  <2> QED BY <1>7, <2>2 DEF TypeOK, WriteLogImage, Goto, Steps
<1>8. ASSUME NEW p \in Fillers, AppendOrders(p) \/ AppendOrdersFails(p) PROVE TypeOK'
  <2>1. act[p] \in Acts
    BY <1>8 DEF TypeOK, AppendOrders, AppendOrdersFails
  <2>2. orders' \in Seq(OrderLine)
    <3>1. orders \o Lines(act[p]) \in Seq(OrderLine)
      BY <1>0, <2>1, LinesOfAct, LogType
    <3> QED BY <1>8, <3>1 DEF TypeOK, AppendOrders, AppendOrdersFails
  <2>3. CASE AppendOrders(p)
    BY <2>1, <2>2, <2>3, EndType DEF TypeOK, AppendOrders
  <2>4. CASE AppendOrdersFails(p)
    <3>1. Fault
      BY <2>4 DEF AppendOrdersFails
    <3>2. faults' \in Nat
      BY <1>0, <3>1 DEF Fault
    <3> QED BY <2>2, <2>4, <3>2 DEF TypeOK, AppendOrdersFails, Goto, Steps
  <2> QED BY <1>8, <2>3, <2>4
<1>9. ASSUME NEW p \in Fillers, RestoreLogImage(p) PROVE TypeOK'
  <2>1. act[p] \in Acts /\ image[p] \in Seq(LogLine)
    BY <1>9 DEF TypeOK, RestoreLogImage
  <2> QED BY <1>9, <2>1, EndType DEF TypeOK, RestoreLogImage
<1>10. ASSUME NEW p \in Fillers, WriteLogFails(p) \/ RestoreLogImageFails(p) \/ Crash(p)
       PROVE  TypeOK'
  <2>1. End(p) /\ Fault /\ UNCHANGED <<files, recorded, undone>>
    BY <1>10 DEF WriteLogFails, RestoreLogImageFails, Crash
  <2>2. faults' \in Nat
    BY <1>0, <2>1 DEF Fault
  <2> QED BY <2>1, <2>2, EndType DEF TypeOK, files
<1>11. CASE Observe
  <2>1. PICK line \in OrderLine : orders' = Append(orders, line)
    BY <1>11, ObservedLine
  <2>2. orders' \in Seq(OrderLine)
    BY <1>0, <2>1, LogType
  <2> QED BY <1>11, <2>2 DEF TypeOK, Observe, locals
<1>12. CASE IngestOther
  <2>1. OtherEvent \in LogLine
    BY DEF LogLine
  <2>2. log' \in Seq(LogLine)
    BY <1>0, <1>12, <2>1, LogType DEF IngestOther
  <2> QED BY <1>12, <2>2 DEF TypeOK, IngestOther, locals
<1>13. CASE Repair
  <2>1. orders' \in Seq(OrderLine) /\ log' \in Seq(LogLine)
    <3>1. ASSUME NEW e \in ToSet(log), e.type = "fill",
                 orders' = Append(orders, Filled(e.id[1], e.id[2], e.quantity)), UNCHANGED log
          PROVE  orders' \in Seq(OrderLine) /\ log' \in Seq(LogLine)
      <4>1. e \in LogLine
        BY <1>0, MembersType
      <4>2. Filled(e.id[1], e.id[2], e.quantity) \in OrderLine
        BY <3>1, <4>1 DEF LogLine, OtherEvent, OrderLine, Filled
      <4> QED BY <1>0, <3>1, <4>2, LogType
    <3>2. ASSUME NEW r \in ToSet(orders), r.kind = "orderFilled",
                 <<r.id, r.at>> \in FillsWithoutLot(log, orders), UNCHANGED orders,
                 log' = Append(log, FillEvent([id |-> <<r.id, r.at>>, quantity |-> r.quantity]))
          PROVE  orders' \in Seq(OrderLine) /\ log' \in Seq(LogLine)
      <4>1. r \in OrderLine /\ r.kind = "orderFilled"
        BY <1>0, <3>2, MembersType
      <4>2. FillEvent([id |-> <<r.id, r.at>>, quantity |-> r.quantity]) \in LogLine
        BY <4>1 DEF OrderLine, LogLine, FillEvent
      <4> QED BY <1>0, <3>2, <4>2, LogType
    <3> QED BY <1>13, <3>1, <3>2 DEF Repair, FillEventId
  <2> QED BY <1>13, <2>1 DEF TypeOK, Repair, locals
<1> QED
  BY <1>1, <1>2, <1>3, <1>4, <1>5, <1>6, <1>7, <1>8, <1>9, <1>10, <1>11, <1>12, <1>13
  DEF Next, Advance

\* The types hold whatever overlaps and whatever an append leaves behind.
THEOREM TypeCorrect == Spec => []TypeOK
<1>1. Init => TypeOK
  <2> SUFFICES ASSUME Init PROVE TypeOK
    OBVIOUS
  <2>1. log \in Seq(LogLine) /\ orders \in Seq(OrderLine)
    BY LadderPlaced, EmptyLog DEF Init
  <2>2. records \in [Fillers -> Seq(OrderLine)]
    BY EmptyLog DEF Init
  <2>3. prior \in [Fillers -> Seq(LogLine)] /\ image \in [Fillers -> Seq(LogLine)]
    BY EmptyLog DEF Init
  <2>4. /\ pc \in [Fillers -> Steps] /\ act \in [Fillers -> Acts \cup {NoAct}]
        /\ \A p \in Fillers : act[p] = NoAct /\ pc[p] = "idle"
    BY DEF Init, Steps
  <2>5. recorded \subseteq Acts /\ undone \subseteq Acts /\ faults \in Nat
    BY DEF Init
  <2> QED BY <2>1, <2>2, <2>3, <2>4, <2>5 DEF TypeOK
<1> QED BY <1>1, TypeStep, PTL DEF Spec

----------------------------------------------------------------------------
\* When one process is all that is under way, its end leaves the others idle.
LEMMA NoneLeft ==
    ASSUME TypeOK, Alone, NEW p \in Fillers, pc[p] # "idle", End(p)
    PROVE  \A q \in Fillers : pc'[q] = "idle"
BY DEF TypeOK, Alone, End, Goto

\* An act that ends keeps the invariant when what it leaves on disk does.
LEMMA EndKeeps ==
    ASSUME TypeOK, Alone, NEW p \in Fillers, pc[p] # "idle", End(p), OneTorn', ReportIsTrue'
    PROVE  WholeInv'
<1>1. \A q \in Fillers : pc'[q] = "idle"
  BY NoneLeft
<1>2. Alone' /\ ReadHolds' /\ ImageKeeps'
  BY <1>1 DEF Alone, ReadHolds, ImageKeeps, HalfWritten
<1>3. WholeBefore'
  BY <1>1 DEF WholeBefore, InHand, HalfWritten
<1> QED BY <1>2, <1>3 DEF WholeInv

\* A process that goes on is still the only one.
LEMMA StillAlone ==
    ASSUME TypeOK, Alone, NEW p \in Fillers, NEW step \in Steps, Goto(p, step),
           pc[p] # "idle" \/ Idle
    PROVE  /\ Alone' /\ pc'[p] = step
           /\ \A q \in Fillers : q # p => pc[q] = "idle" /\ pc'[q] = "idle"
BY DEF TypeOK, Alone, Goto, Idle

\* The comparison of the files finds nothing torn: they hold the same acts.
LEMMA ComparedWhole ==
    ASSUME NEW l, NEW o, TornActs(l, o) = {}
    PROVE  LotsOnLog(l) = FillsOnFile(o)
<1>1. ASSUME NEW S, NEW x, S \X {x} = {} PROVE S = {}
  <2>1. \A y \in S : <<y, x>> \in S \X {x}
    OBVIOUS
  <2> QED BY <1>1, <2>1
<1>2. LotsWithoutFill(l, o) = {} /\ FillsWithoutLot(l, o) = {}
  BY <1>1 DEF TornActs
<1> QED BY <1>2 DEF LotsWithoutFill, FillsWithoutLot

\* Every step keeps the invariant, when one act runs at a time and a failed append
\* has written nothing.
LEMMA WholeStep ==
    ASSUME ~ Overlap, ~ Uncleaned, TypeOK, WholeInv, [Next]_vars
    PROVE  WholeInv'
<1>0. /\ Alone /\ ReadHolds /\ WholeBefore /\ OneTorn /\ ReportIsTrue /\ ImageKeeps
      /\ log \in Seq(LogLine) /\ orders \in Seq(OrderLine)
  BY DEF WholeInv, TypeOK
<1>1. CASE UNCHANGED vars
  <2>1. UNCHANGED <<log, orders, pc, records, prior, act, image, recorded, undone>>
    BY <1>1 DEF vars, files, locals
  <2>2. Alone' /\ ReadHolds' /\ OneTorn' /\ ImageKeeps'
    BY <1>0, <2>1 DEF Alone, ReadHolds, OneTorn, ImageKeeps
  <2>3. WholeBefore' /\ ReportIsTrue'
    BY <1>0, <2>1 DEF WholeBefore, Before, ReportIsTrue, UndoneIsGone
  <2> QED BY <2>2, <2>3 DEF WholeInv
<1>2. ASSUME NEW p \in Fillers, LoadOrders(p) PROVE WholeInv'
  <2>1. /\ Idle /\ Goto(p, "loading") /\ records' = [records EXCEPT ![p] = orders]
        /\ UNCHANGED <<log, orders, prior, act, image, recorded, undone>>
    BY <1>2 DEF LoadOrders, files
  <2>2. /\ Alone' /\ pc'[p] = "loading"
        /\ \A q \in Fillers : q # p => pc'[q] = "idle"
    BY <1>0, <2>1, StillAlone DEF Steps
  <2>3. ReadHolds'
    <3>1. records'[p] = orders
      BY <2>1 DEF TypeOK
    <3> QED BY <2>1, <2>2, <3>1 DEF ReadHolds
  <2>4. WholeBefore' /\ ImageKeeps'
    BY <2>2 DEF WholeBefore, ImageKeeps, InHand, HalfWritten
  <2>5. OneTorn' /\ ReportIsTrue'
    BY <1>0, <2>1 DEF OneTorn, ReportIsTrue, UndoneIsGone
  <2> QED BY <2>2, <2>3, <2>4, <2>5 DEF WholeInv
<1>3. ASSUME NEW p \in Fillers, LoadLog(p) PROVE WholeInv'
  <2>1. pc[p] = "loading" /\ UNCHANGED <<log, orders, recorded, undone>>
    BY <1>3 DEF LoadLog, files
  <2>2. OneTorn' /\ ReportIsTrue'
    BY <1>0, <2>1 DEF OneTorn, ReportIsTrue, UndoneIsGone
  <2>3. CASE End(p)
    BY <1>0, <2>1, <2>2, <2>3, EndKeeps
  <2>4. CASE /\ TornActs(log, records[p]) = {}
             /\ prior' = [prior EXCEPT ![p] = log] /\ Goto(p, "asking")
             /\ UNCHANGED <<records, act, image>>
    <3>1. /\ Alone' /\ pc'[p] = "asking"
          /\ \A q \in Fillers : q # p => pc'[q] = "idle"
      BY <1>0, <2>1, <2>4, StillAlone DEF Steps
    <3>2. ReadHolds' /\ ImageKeeps'
      BY <3>1 DEF ReadHolds, ImageKeeps, HalfWritten
    <3>3. prior'[p] = log
      BY <2>4 DEF TypeOK
    <3>4. LotsOnLog(log) = FillsOnFile(orders)
      BY <1>0, <2>1, <2>4, ComparedWhole DEF ReadHolds
    <3>5. WholeBefore'
      BY <2>1, <3>1, <3>3, <3>4 DEF WholeBefore, Before, InHand, HalfWritten
    <3> QED BY <2>2, <3>1, <3>2, <3>5 DEF WholeInv
  <2> QED BY <1>3, <2>3, <2>4 DEF LoadLog
<1>4. ASSUME NEW p \in Fillers, Confirm(p) PROVE WholeInv'
  <2>1. /\ pc[p] = "asking" /\ Goto(p, "confirmed")
        /\ UNCHANGED <<log, orders, records, prior, image, recorded, undone>>
    BY <1>4 DEF Confirm, files
  <2>2. PICK a \in Acts : act' = [act EXCEPT ![p] = a] /\ \A e \in ToSet(prior[p]) : e.id # a.id
    BY <1>4, ConfirmedAct
  <2>3. /\ Alone' /\ pc'[p] = "confirmed"
        /\ \A q \in Fillers : q # p => pc'[q] = "idle"
    BY <1>0, <2>1, StillAlone DEF Steps
  <2>4. ReadHolds' /\ ImageKeeps'
    BY <2>3 DEF ReadHolds, ImageKeeps, HalfWritten
  <2>5. OneTorn' /\ ReportIsTrue'
    BY <1>0, <2>1 DEF OneTorn, ReportIsTrue, UndoneIsGone
  <2>6. act'[p] = a
    BY <2>2 DEF TypeOK
  <2>7. prior[p] = log /\ LotsOnLog(log) = FillsOnFile(orders)
    BY <1>0, <2>1 DEF WholeBefore, Before, HalfWritten
  <2>8. a.id \notin LotsOnLog(log)
    BY <2>2, <2>7 DEF LotsOnLog
  <2>9. WholeBefore'
    BY <2>1, <2>3, <2>6, <2>7, <2>8 DEF WholeBefore, Before, InHand, HalfWritten
  <2> QED BY <2>3, <2>4, <2>5, <2>9 DEF WholeInv
<1>5. ASSUME NEW p \in Fillers, ReadLogImage(p) PROVE WholeInv'
  <2>1. /\ pc[p] = "confirmed" /\ Goto(p, "writing") /\ image' = [image EXCEPT ![p] = log]
        /\ UNCHANGED <<log, orders, records, prior, act, recorded, undone>>
    BY <1>5 DEF ReadLogImage, files
  <2>2. /\ Alone' /\ pc'[p] = "writing"
        /\ \A q \in Fillers : q # p => pc'[q] = "idle"
    BY <1>0, <2>1, StillAlone DEF Steps
  <2>3. ReadHolds' /\ ImageKeeps'
    BY <2>2 DEF ReadHolds, ImageKeeps, HalfWritten
  <2>4. OneTorn' /\ ReportIsTrue'
    BY <1>0, <2>1 DEF OneTorn, ReportIsTrue, UndoneIsGone
  <2>5. image'[p] = log
    BY <2>1 DEF TypeOK
  <2>6. LotsOnLog(log) = FillsOnFile(orders) /\ act[p].id \notin LotsOnLog(log)
    BY <1>0, <2>1 DEF WholeBefore, Before, InHand, HalfWritten
  <2>7. WholeBefore'
    BY <2>1, <2>2, <2>5, <2>6 DEF WholeBefore, Before, InHand, HalfWritten
  <2> QED BY <2>2, <2>3, <2>4, <2>7 DEF WholeInv
<1>6. ASSUME NEW p \in Fillers, WriteLogImage(p) PROVE WholeInv'
  <2>1. /\ pc[p] = "writing" /\ Goto(p, "appending")
        /\ log' = Append(image[p], FillEvent(act[p]))
        /\ undone' = { a \in undone : a.id # act[p].id }
        /\ UNCHANGED <<orders, records, prior, act, image, recorded>>
    BY <1>6 DEF WriteLogImage
  <2>2. /\ Alone' /\ pc'[p] = "appending"
        /\ \A q \in Fillers : q # p => pc'[q] = "idle"
    BY <1>0, <2>1, StillAlone DEF Steps
  <2>3. act[p] \in Acts
    BY <2>1 DEF TypeOK
  <2>4. /\ image[p] = log /\ LotsOnLog(log) = FillsOnFile(orders)
        /\ act[p].id \notin LotsOnLog(log)
    BY <1>0, <2>1 DEF WholeBefore, Before, InHand, HalfWritten
  <2>5. LotsOnLog(log') = LotsOnLog(log) \cup {act[p].id}
    BY <1>0, <2>1, <2>3, <2>4, FillEventType, LotsOfOne
  <2>6. ToSet(log') = ToSet(log) \cup {FillEvent(act[p])}
    BY <1>0, <2>1, <2>3, <2>4, FillEventType, AppendedOne
  <2>7. ReadHolds'
    BY <2>2 DEF ReadHolds
  <2>8. WholeBefore'
    BY <2>1, <2>2, <2>4 DEF WholeBefore, Before, InHand, HalfWritten
  <2>9. OneTorn'
    BY <2>1, <2>4, <2>5 DEF OneTorn, LotsWithoutFill
  <2>10. ReportIsTrue'
    BY <1>0, <2>1, <2>5, <2>6 DEF ReportIsTrue, UndoneIsGone
  <2>11. ImageKeeps'
    BY <1>0, <2>1, <2>2, <2>4 DEF ImageKeeps, ReportIsTrue, HalfWritten
  <2> QED BY <2>2, <2>7, <2>8, <2>9, <2>10, <2>11 DEF WholeInv
<1>7. ASSUME NEW p \in Fillers, AppendOrders(p) PROVE WholeInv'
  <2>1. /\ pc[p] = "appending" /\ End(p) /\ orders' = orders \o Lines(act[p])
        /\ recorded' = recorded \cup {act[p]} /\ UNCHANGED <<log, undone>>
    BY <1>7 DEF AppendOrders
  <2>2. act[p] \in Acts /\ image[p] \in Seq(LogLine)
    BY <2>1 DEF TypeOK
  <2>3. Lines(act[p]) \in Seq(OrderLine) /\ FillsOnFile(Lines(act[p])) = {act[p].id}
    BY <2>2, LinesOfAct
  <2>4. FillsOnFile(orders') = FillsOnFile(orders) \cup {act[p].id}
    BY <1>0, <2>1, <2>3, FillsOfAppended
  <2>5. /\ LotsOnLog(image[p]) = FillsOnFile(orders) /\ act[p].id \notin LotsOnLog(image[p])
        /\ log = Append(image[p], FillEvent(act[p]))
    BY <1>0, <2>1 DEF WholeBefore, Before, InHand, HalfWritten
  <2>6. LotsOnLog(log) = LotsOnLog(image[p]) \cup {act[p].id}
    BY <2>2, <2>5, FillEventType, LotsOfOne
  <2>7. FillEvent(act[p]) \in ToSet(log)
    BY <2>2, <2>5, FillEventType, AppendedOne
  <2>8. OneTorn'
    BY <2>1, <2>4, <2>5, <2>6 DEF OneTorn, LotsWithoutFill
  <2>9. ToSet(orders) \subseteq ToSet(orders') /\ ToSet(Lines(act[p])) \subseteq ToSet(orders')
    BY <1>0, <2>1, <2>3, AppendedKeeps
  <2>10. \A a \in undone : a.id # act[p].id
    BY <1>0, <2>6 DEF ReportIsTrue, UndoneIsGone
  <2>11. UndoneIsGone'
    BY <1>0, <2>1, <2>4, <2>10 DEF ReportIsTrue, UndoneIsGone
  <2>12. ReportIsTrue'
    BY <1>0, <2>1, <2>7, <2>9, <2>11 DEF ReportIsTrue
  <2> QED BY <1>0, <2>1, <2>8, <2>12, EndKeeps
<1>8. ASSUME NEW p \in Fillers, AppendOrdersFails(p) PROVE WholeInv'
  <2>1. /\ pc[p] = "appending" /\ Goto(p, "rolling back")
        /\ UNCHANGED <<log, orders, records, prior, act, image, recorded, undone>>
    BY <1>8 DEF AppendOrdersFails
  <2>2. /\ Alone' /\ pc'[p] = "rolling back"
        /\ \A q \in Fillers : q # p => pc'[q] = "idle"
    BY <1>0, <2>1, StillAlone DEF Steps
  <2>3. ReadHolds'
    BY <2>2 DEF ReadHolds
  <2>4. WholeBefore'
    BY <1>0, <2>1, <2>2 DEF WholeBefore, Before, InHand, HalfWritten
  <2>5. OneTorn' /\ ReportIsTrue'
    BY <1>0, <2>1 DEF OneTorn, ReportIsTrue, UndoneIsGone
  <2>6. ImageKeeps'
    BY <1>0, <2>1, <2>2 DEF ImageKeeps, HalfWritten
  <2> QED BY <2>2, <2>3, <2>4, <2>5, <2>6 DEF WholeInv
<1>9. ASSUME NEW p \in Fillers, RestoreLogImage(p) PROVE WholeInv'
  <2>1. /\ pc[p] = "rolling back" /\ End(p) /\ log' = image[p]
        /\ undone' = undone \cup {act[p]} /\ UNCHANGED <<orders, recorded>>
    BY <1>9 DEF RestoreLogImage
  <2>2. act[p] \in Acts /\ image[p] \in Seq(LogLine)
    BY <2>1 DEF TypeOK
  <2>3. /\ LotsOnLog(image[p]) = FillsOnFile(orders) /\ act[p].id \notin LotsOnLog(image[p])
        /\ log = Append(image[p], FillEvent(act[p]))
    BY <1>0, <2>1 DEF WholeBefore, Before, InHand, HalfWritten
  <2>4. LotsOnLog(log) = LotsOnLog(image[p]) \cup {act[p].id}
    BY <2>2, <2>3, FillEventType, LotsOfOne
  <2>5. OneTorn'
    BY <2>1, <2>3 DEF OneTorn, LotsWithoutFill
  <2>6. \A a \in recorded : FillEvent(a) \in ToSet(image[p])
    BY <1>0, <2>1 DEF ImageKeeps, HalfWritten
  <2>7. UndoneIsGone'
    BY <1>0, <2>1, <2>3, <2>4 DEF ReportIsTrue, UndoneIsGone
  <2>8. ReportIsTrue'
    BY <1>0, <2>1, <2>6, <2>7 DEF ReportIsTrue
  <2> QED BY <1>0, <2>1, <2>5, <2>8, EndKeeps
<1>10. ASSUME NEW p \in Fillers,
              Decline(p) \/ WriteLogFails(p) \/ RestoreLogImageFails(p) \/ Crash(p)
       PROVE  WholeInv'
  <2>1. pc[p] # "idle" /\ End(p) /\ UNCHANGED <<log, orders, recorded, undone>>
    BY <1>10 DEF Decline, WriteLogFails, RestoreLogImageFails, Crash, files
  <2>2. OneTorn' /\ ReportIsTrue'
    BY <1>0, <2>1 DEF OneTorn, ReportIsTrue, UndoneIsGone
  <2> QED BY <1>0, <2>1, <2>2, EndKeeps
<1>11. CASE Observe
  <2>1. UNCHANGED <<log, pc, records, prior, act, image, recorded, undone>>
    BY <1>11 DEF Observe, locals
  <2>2. PICK line \in OrderLine : line.kind # "orderFilled" /\ orders' = Append(orders, line)
    BY <1>11, ObservedLine
  <2>3. FillsOnFile(orders') = FillsOnFile(orders)
    BY <1>0, <2>2, FillsOfOne
  <2>4. ToSet(orders) \subseteq ToSet(orders')
    BY <1>0, <2>2, AppendedOne
  <2>5. Alone' /\ ReadHolds' /\ OneTorn' /\ ImageKeeps'
    BY <1>0, <2>1, <2>3 DEF Alone, ReadHolds, OneTorn, ImageKeeps, LotsWithoutFill
  <2>6. WholeBefore'
    BY <1>0, <2>1, <2>3 DEF WholeBefore, Before
  <2>7. ReportIsTrue'
    BY <1>0, <2>1, <2>3, <2>4 DEF ReportIsTrue, UndoneIsGone
  <2> QED BY <2>5, <2>6, <2>7 DEF WholeInv
<1>12. CASE IngestOther
  <2>1. /\ Idle /\ log' = Append(log, OtherEvent)
        /\ UNCHANGED <<orders, pc, records, prior, act, image, recorded, undone>>
    BY <1>12 DEF IngestOther, locals
  <2>2. OtherEvent \in LogLine /\ OtherEvent.type # "fill"
    BY DEF LogLine, OtherEvent
  <2>3. LotsOnLog(log') = LotsOnLog(log)
    BY <1>0, <2>1, <2>2, LotsOfOne
  <2>4. ToSet(log) \subseteq ToSet(log')
    BY <1>0, <2>1, <2>2, AppendedOne
  <2>5. OneTorn' /\ ReportIsTrue'
    BY <1>0, <2>1, <2>3, <2>4 DEF OneTorn, LotsWithoutFill, ReportIsTrue, UndoneIsGone
  <2>6. Alone' /\ ReadHolds' /\ ImageKeeps' /\ WholeBefore'
    BY <2>1 DEF Idle, Alone, ReadHolds, ImageKeeps, WholeBefore, InHand, HalfWritten
  <2> QED BY <2>5, <2>6 DEF WholeInv
<1>13. CASE Repair
  <2>1. Idle /\ UNCHANGED <<pc, records, prior, act, image, recorded, undone>>
    BY <1>13 DEF Repair, locals
  <2>2. FillsWithoutLot(log, orders) = {}
    BY <1>0 DEF OneTorn, FillsWithoutLot
  <2>3. PICK e \in ToSet(log) :
            /\ e.type = "fill" /\ e.id \in LotsWithoutFill(log, orders)
            /\ orders' = Append(orders, Filled(e.id[1], e.id[2], e.quantity)) /\ log' = log
    BY <1>13, <2>2 DEF Repair
  <2> DEFINE line == Filled(e.id[1], e.id[2], e.quantity)
  <2>4. /\ line \in OrderLine /\ line.kind = "orderFilled" /\ <<line.id, line.at>> = e.id
        /\ e.id \in LotsOnLog(log)
    <3>1. e \in LogLine
      BY <1>0, MembersType
    <3> QED BY <2>3, <3>1 DEF LogLine, OtherEvent, OrderLine, Filled, LotsOnLog
  <2> HIDE DEF line
  <2>5. FillsOnFile(orders') = FillsOnFile(orders) \cup {e.id}
    BY <1>0, <2>3, <2>4, FillsOfOne DEF line
  <2>6. ToSet(orders) \subseteq ToSet(orders')
    BY <1>0, <2>3, <2>4, AppendedOne DEF line
  <2>7. OneTorn'
    BY <1>0, <2>3, <2>4, <2>5 DEF OneTorn, LotsWithoutFill
  <2>8. ReportIsTrue'
    BY <1>0, <2>1, <2>3, <2>4, <2>5, <2>6 DEF ReportIsTrue, UndoneIsGone
  <2>9. Alone' /\ ReadHolds' /\ ImageKeeps' /\ WholeBefore'
    BY <2>1 DEF Idle, Alone, ReadHolds, ImageKeeps, WholeBefore, InHand, HalfWritten
  <2> QED BY <2>7, <2>8, <2>9 DEF WholeInv
<1> QED
  BY <1>1, <1>2, <1>3, <1>4, <1>5, <1>6, <1>7, <1>8, <1>9, <1>10, <1>11, <1>12, <1>13
  DEF Next, Advance

\* The invariant holds of every run of acts that do not overlap.
THEOREM WholeInvariant ==
    ASSUME ~ Overlap, ~ Uncleaned
    PROVE  Spec => []WholeInv
<1>1. Init => WholeInv
  <2> SUFFICES ASSUME Init PROVE WholeInv
    OBVIOUS
  <2>1. log = <<>> /\ recorded = {} /\ undone = {} /\ \A p \in Fillers : pc[p] = "idle"
    BY DEF Init
  <2>2. FillsOnFile(orders) = {}
    BY LadderPlaced
  <2>3. LotsOnLog(log) = {}
    BY <2>1 DEF LotsOnLog, ToSet
  <2>4. Alone /\ ReadHolds /\ WholeBefore /\ ImageKeeps
    BY <2>1 DEF Alone, ReadHolds, WholeBefore, ImageKeeps, InHand, HalfWritten
  <2>5. OneTorn /\ ReportIsTrue
    BY <2>1, <2>2, <2>3 DEF OneTorn, LotsWithoutFill, ReportIsTrue, UndoneIsGone
  <2> QED BY <2>4, <2>5 DEF WholeInv
<1>2. TypeOK /\ WholeInv /\ [Next]_vars => WholeInv'
  BY WholeStep
<1> QED BY <1>1, <1>2, TypeCorrect, PTL DEF Spec

\* A fill is never on file without its lot, and at most one lot is without its fill:
\* the check of the two files before every act keeps a torn one from being compounded.
THEOREM TearsOneWay ==
    ASSUME ~ Overlap, ~ Uncleaned
    PROVE  Spec => []TornOneWay
<1>1. WholeInv => TornOneWay
  <2> SUFFICES ASSUME OneTorn PROVE TornOneWay
    BY DEF WholeInv
  <2>1. FillsWithoutLot(log, orders) = {}
    BY DEF OneTorn, FillsWithoutLot
  <2>2. Cardinality(LotsWithoutFill(log, orders)) <= 1
    BY AtMostOne DEF OneTorn
  <2> QED BY <2>1, <2>2 DEF TornOneWay
<1> QED BY <1>1, WholeInvariant, PTL

\* What an act last told the operator stays true through every later act, crash,
\* failure, observation and repair.
THEOREM ReportsStayTrue ==
    ASSUME ~ Overlap, ~ Uncleaned
    PROVE  Spec => []ReportIsTrue
<1>1. WholeInv => ReportIsTrue
  BY DEF WholeInv
<1> QED BY <1>1, WholeInvariant, PTL
----------------------------------------------------------------------------
(* No rung is booked past its size.  What carries it is that the two files *)
(* add up to the same on every rung, but for a lot whose fill is missing,  *)
(* and that what an act was allowed is still free when it writes.          *)

\* The rungs on file are those of the ladder.
AsSized(lines) ==
    \A r \in ToSet(lines) : r.kind = "orderPlaced" => r.quantity = Sizes[r.id]

\* A lot is on the log once.
LotOnce ==
    \A x, y \in ToSet(log) : x.type = "fill" /\ y.type = "fill" /\ x.id = y.id => x = y

Balanced(events, lines) ==
    \A id \in Rungs : LotQuantity(events, id) = BookedFills(lines, id)

\* What a lot holds of a rung.
Of(e, id) == IF e.type = "fill" /\ e.id[1] = id THEN e.quantity ELSE 0

\* Every lot is matched by a fill, or one is not, and it is the difference.
Accounted ==
    \/ LotsWithoutFill(log, orders) = {} /\ Balanced(log, orders)
    \/ \E e \in ToSet(log) :
        /\ e.type = "fill" /\ LotsWithoutFill(log, orders) = {e.id}
        /\ \A id \in Rungs : LotQuantity(log, id) = BookedFills(orders, id) + Of(e, id)

\* The lots of a rung fit in it.
Fits == \A id \in Rungs : LotQuantity(log, id) <= Sizes[id]

\* What a process read is still what is booked, and what it is about to write fits.
RoomLeft ==
    \A p \in Fillers :
        /\ pc[p] \in {"loading", "asking"} =>
            /\ AsSized(records[p])
            /\ \A id \in Rungs : BookedFills(records[p], id) = BookedFills(orders, id)
        /\ pc[p] \in InHand \cup {"asking"} => Balanced(Before(p), orders)
        /\ pc[p] \in InHand =>
            BookedFills(orders, act[p].id[1]) + act[p].quantity <= Sizes[act[p].id[1]]

FilesAgree == AsSized(orders) /\ LotOnce /\ Accounted /\ Fits
BookedInv == FilesAgree /\ RoomLeft

LEMMA AreOrderLines == AreLines(OrderLine)
BY DEF AreLines, OrderLine, Stamps

\* A lot that is added to a log is added to its rung.
LEMMA LotsOfRung ==
    ASSUME NEW s \in Seq(LogLine), NEW e \in LogLine, NEW id
    PROVE  /\ LotQuantity(s, id) \in Nat
           /\ LotQuantity(Append(s, e), id) = LotQuantity(s, id) + Of(e, id)
           /\ Of(e, id) \in Nat
<1> DEFINE f == [x \in LogLine |-> Of(x, id)]
           u == Append(s, e)
<1>1. \A x \in LogLine : Of(x, id) \in Nat
  BY DEF Of, LogLine, OtherEvent
<1>2. f \in [LogLine -> Nat] /\ f[e] = Of(e, id)
  BY <1>1
<1>3. u \in Seq(LogLine)
  OBVIOUS
<1>4. ASSUME NEW v \in Seq(LogLine)
      PROVE  LotQuantity(v, id) = Total([i \in DOMAIN v |-> f[v[i]]])
  <2>1. \A i \in DOMAIN v : f[v[i]] =
            IF v[i].type = "fill" /\ v[i].id[1] = id THEN v[i].quantity ELSE 0
    BY LineType DEF Of
  <2> HIDE DEF f
  <2>2. [i \in DOMAIN v |-> f[v[i]]] = [i \in DOMAIN v |->
            IF v[i].type = "fill" /\ v[i].id[1] = id THEN v[i].quantity ELSE 0]
    BY <2>1
  <2> QED BY <2>2 DEF LotQuantity
<1> HIDE DEF f
<1>5. LotQuantity(s, id) = Total([i \in DOMAIN s |-> f[s[i]]])
  BY <1>4
<1>6. LotQuantity(u, id) = Total([i \in DOMAIN u |-> f[u[i]]])
  BY <1>3, <1>4
<1>7. Total([i \in DOMAIN s |-> f[s[i]]]) \in Nat
  <2>1. [i \in DOMAIN s |-> f[s[i]]] \in Seq(Nat)
    BY <1>2
  <2> QED BY <2>1, TotalNat
<1>8. /\ Total([i \in DOMAIN s |-> f[s[i]]]) \in Int
      /\ Total([i \in DOMAIN Append(s, e) |-> f[Append(s, e)[i]]]) =
            Total([i \in DOMAIN s |-> f[s[i]]]) + f[e]
  <2>1. f \in [LogLine -> Int]
    BY <1>2
  <2> QED BY <2>1, TotalOfAppended, ZenonT(60)
<1>9. Total([i \in DOMAIN u |-> f[u[i]]]) = Total([i \in DOMAIN s |-> f[s[i]]]) + f[e]
  BY <1>8
<1> QED BY <1>1, <1>2, <1>5, <1>6, <1>7, <1>9

\* What an act appends books its fill, and places nothing.
LEMMA LinesBook ==
    ASSUME NEW a \in Acts, NEW s \in Seq(OrderLine), NEW id
    PROVE  /\ BookedFills(s, id) \in Nat
           /\ BookedFills(s \o Lines(a), id) = BookedFills(s, id) + Of(FillEvent(a), id)
           /\ \A x \in ToSet(Lines(a)) : x.kind # "orderPlaced"
<1> DEFINE listed == SetToSeq(a.cancelled)
           gone == [i \in DOMAIN listed |-> Cancelled(listed[i], a.id[2])]
           fill == Filled(a.id[1], a.id[2], a.quantity)
           one == Append(<<>>, fill)
<1>1. /\ a.id[1] \in Rungs /\ a.id[2] \in Stamps
      /\ a.quantity \in Nat \ {0} /\ a.cancelled \in SUBSET Rungs
  BY DEF Acts
<1>2. listed \in Seq(Rungs)
  <2>1. IsFiniteSet(a.cancelled)
    BY <1>1, FillActAssumption, FS_Subset
  <2> QED BY <1>1, <2>1, Listed
<1>3. gone \in Seq(OrderLine) /\ \A i \in DOMAIN gone : gone[i].kind = "orderCancelled"
  BY <1>1, <1>2 DEF Cancelled, OrderLine
<1>4. /\ fill \in OrderLine /\ fill.kind = "orderFilled"
      /\ fill.id = a.id[1] /\ fill.quantity = a.quantity
  BY <1>1 DEF Filled, OrderLine
<1>5. Lines(a) = one \o gone
  BY DEF Lines
<1> HIDE DEF fill, gone
<1>6. one \in Seq(OrderLine) /\ ToSet(one) = {fill}
  <2>1. one = <<fill>> /\ DOMAIN one = {1} /\ one[1] = fill
    OBVIOUS
  <2>2. ToSet(one) = {fill}
    BY <2>1 DEF ToSet
  <2> QED BY <1>4, <2>1, <2>2
<1>7. BookedFills(one, id) = Of(FillEvent(a), id)
  <2>1. BookedFills(<<>>, id) = 0
    <3>1. <<>> \in Seq(OrderLine) /\ DOMAIN <<>> = {}
      OBVIOUS
    <3>2. \A i \in DOMAIN <<>> : ~ (<<>>[i].kind = "orderFilled" /\ <<>>[i].id = id)
      BY <3>1
    <3> QED BY <3>1, <3>2, AreOrderLines, BookedOfNone
  <2>2. <<>> \in Seq(OrderLine)
    OBVIOUS
  <2>3. BookedFills(one, id) = BookedFills(<<>>, id) +
            (IF fill.kind = "orderFilled" /\ fill.id = id THEN fill.quantity ELSE 0)
    BY <1>4, <2>2, AreOrderLines, BookedOfOne
  <2> QED BY <1>1, <1>4, <2>1, <2>3 DEF Of, FillEvent
<1> HIDE DEF one
<1>8. BookedFills(gone, id) = 0
  <2>1. \A i \in DOMAIN gone : ~ (gone[i].kind = "orderFilled" /\ gone[i].id = id)
    BY <1>3
  <2> QED BY <1>3, <2>1, AreOrderLines, BookedOfNone
<1>9. /\ BookedFills(s, id) \in Nat /\ BookedFills(one, id) \in Nat
      /\ BookedFills(one \o gone, id) = BookedFills(one, id) + BookedFills(gone, id)
      /\ BookedFills(s \o (one \o gone), id) = BookedFills(s, id) + BookedFills(one \o gone, id)
  <2>1. one \o gone \in Seq(OrderLine)
    BY <1>3, <1>6, LogType
  <2>2. BookedFills(one \o gone, id) = BookedFills(one, id) + BookedFills(gone, id)
        /\ BookedFills(one, id) \in Nat
    BY <1>3, <1>6, AreOrderLines, BookedOfBoth
  <2>3. BookedFills(s \o (one \o gone), id) = BookedFills(s, id) + BookedFills(one \o gone, id)
        /\ BookedFills(s, id) \in Nat
    BY <2>1, AreOrderLines, BookedOfBoth
  <2> QED BY <2>2, <2>3
<1>10. \A x \in ToSet(Lines(a)) : x.kind # "orderPlaced"
  <2>1. ToSet(Lines(a)) = {fill} \cup ToSet(gone)
    BY <1>3, <1>5, <1>6, AppendedOnly
  <2>2. \A x \in ToSet(gone) : x.kind = "orderCancelled"
    BY <1>3 DEF ToSet
  <2> QED BY <1>4, <2>1, <2>2
<1> QED BY <1>5, <1>7, <1>8, <1>9, <1>10

\* What is confirmed of a rung fits in what is not booked of it.
LEMMA ConfirmedFits ==
    ASSUME TypeOK, NEW p \in Fillers, Confirm(p), AsSized(records[p])
    PROVE  \E a \in Acts :
            /\ act' = [act EXCEPT ![p] = a]
            /\ a.id[1] \in Rungs
            /\ BookedFills(records[p], a.id[1]) + a.quantity <= Sizes[a.id[1]]
<1> DEFINE read == records[p]
           rungs == FoldOrderStream(read)
<1>1. PICK id \in Rungs, at \in Stamps :
        /\ id \in DOMAIN Resting(read)
        /\ \E quantity \in 1 .. Ceiling(read, id), cancelled \in SUBSET (Rungs \ {id}) :
            act' = [act EXCEPT ![p] = [id |-> FillEventId(id, at),
                            quantity |-> quantity, cancelled |-> cancelled]]
  BY DEF Confirm
<1>2. PICK quantity \in 1 .. Ceiling(read, id), cancelled \in SUBSET (Rungs \ {id}) :
            act' = [act EXCEPT ![p] = [id |-> FillEventId(id, at),
                            quantity |-> quantity, cancelled |-> cancelled]]
  BY <1>1
<1> DEFINE a == [id |-> FillEventId(id, at), quantity |-> quantity, cancelled |-> cancelled]
           remaining == rungs[id].placed.quantity - rungs[id].consumed
           free == rungs[id].placed.quantity - BookedFills(read, id)
<1>3. read \in Seq(OrderLine)
  BY DEF TypeOK
<1>4. \A x \in DOMAIN rungs :
        /\ rungs[x].placed \in ToSet(read) /\ rungs[x].placed.id = x
        /\ rungs[x].placed.kind = "orderPlaced" /\ rungs[x].consumed \in Nat
  BY <1>3, AreOrderLines, FoldType
<1>5. id \in DOMAIN rungs
  BY <1>1 DEF Resting
<1>6. rungs[id].placed.quantity = Sizes[id] /\ rungs[id].consumed \in Nat
  BY <1>4, <1>5 DEF AsSized
<1>7. Ceiling(read, id) = Min({remaining, free})
  BY <1>1, <1>5 DEF Ceiling, Resting
<1>8. BookedFills(read, id) \in Nat
  BY <1>3, AreOrderLines, BookedOfBoth
<1>9. Sizes[id] \in Nat
  BY FillActAssumption DEF Rungs
<1>10. Min({remaining, free}) <= free /\ Min({remaining, free}) \in Int
  <2>1. remaining \in Int /\ free \in Int
    BY <1>6, <1>8, <1>9
  <2> HIDE DEF remaining, free
  <2> QED BY <2>1 DEF Min
<1>11. quantity \in Nat \ {0} /\ quantity <= free
  <2>1. free \in Int
    BY <1>6, <1>8, <1>9
  <2> HIDE DEF free, remaining
  <2> QED BY <1>2, <1>7, <1>10, <2>1
<1>12. a \in Acts /\ a.id[1] = id
  BY <1>11 DEF Acts, FillEventId
<1>13. BookedFills(read, id) + quantity <= Sizes[id]
  BY <1>6, <1>8, <1>9, <1>11
<1> QED BY <1>2, <1>12, <1>13

----------------------------------------------------------------------------
\* What is left on disk agrees, however an act ended.
LEMMA EndBooks ==
    ASSUME TypeOK, Alone, NEW p \in Fillers, pc[p] # "idle", End(p), FilesAgree'
    PROVE  BookedInv'
<1>1. \A q \in Fillers : pc'[q] = "idle"
  BY NoneLeft
<1>2. RoomLeft'
  BY <1>1 DEF RoomLeft, InHand
<1> QED BY <1>2 DEF BookedInv

\* While the two files are not written, they still agree.
LEMMA FilesStay ==
    ASSUME FilesAgree, UNCHANGED <<log, orders>>
    PROVE  FilesAgree'
BY DEF FilesAgree, AsSized, LotOnce, Accounted, Balanced, Of, Fits, LotsWithoutFill

\* Files that hold the same acts book the same.
LEMMA WholeBalances ==
    ASSUME Accounted, LotsOnLog(log) = FillsOnFile(orders)
    PROVE  Balanced(log, orders)
<1>1. LotsWithoutFill(log, orders) = {}
  BY DEF LotsWithoutFill
<1> QED BY <1>1 DEF Accounted

\* Nothing is booked that is not in the log.
LEMMA BookedFits ==
    ASSUME TypeOK, Accounted, Fits, NEW id \in Rungs
    PROVE  /\ BookedFills(orders, id) \in Nat /\ LotQuantity(log, id) \in Nat
           /\ BookedFills(orders, id) <= LotQuantity(log, id)
           /\ BookedFills(orders, id) <= Sizes[id]
           /\ Sizes[id] \in Nat
<1>1. log \in Seq(LogLine) /\ orders \in Seq(OrderLine)
  BY DEF TypeOK
<1>2. OtherEvent \in LogLine
  BY DEF LogLine
<1>3. BookedFills(orders, id) \in Nat /\ LotQuantity(log, id) \in Nat
  BY <1>1, <1>2, AreOrderLines, BookedOfBoth, LotsOfRung
<1>4. Sizes[id] \in Nat /\ LotQuantity(log, id) <= Sizes[id]
  BY FillActAssumption DEF Fits
<1>5. BookedFills(orders, id) <= LotQuantity(log, id)
  <2>1. CASE Balanced(log, orders)
    BY <1>3, <2>1 DEF Balanced
  <2>2. ASSUME NEW e \in ToSet(log), LotQuantity(log, id) = BookedFills(orders, id) + Of(e, id)
        PROVE  BookedFills(orders, id) <= LotQuantity(log, id)
    <3>1. e \in LogLine
      BY <1>1, MembersType
    <3>2. Of(e, id) \in Nat
      BY <3>1 DEF Of, LogLine, OtherEvent
    <3> QED BY <1>3, <2>2, <3>2
  <2> QED BY <2>1, <2>2 DEF Accounted
<1> QED BY <1>3, <1>4, <1>5

\* Every step keeps the two files in agreement, and what an act may write in reach.
LEMMA BookedStep ==
    ASSUME ~ Overlap, ~ Uncleaned, TypeOK, WholeInv, BookedInv, [Next]_vars
    PROVE  BookedInv'
<1>0. /\ Alone /\ ReadHolds /\ WholeBefore /\ OneTorn
      /\ FilesAgree /\ RoomLeft /\ AsSized(orders) /\ LotOnce /\ Accounted /\ Fits
      /\ log \in Seq(LogLine) /\ orders \in Seq(OrderLine)
  BY DEF WholeInv, BookedInv, FilesAgree, TypeOK
<1>1. CASE UNCHANGED vars
  <2>1. UNCHANGED <<log, orders, pc, records, prior, act, image>>
    BY <1>1 DEF vars, files, locals
  <2>2. FilesAgree'
    BY <1>0, <2>1, FilesStay
  <2>3. RoomLeft'
    BY <1>0, <2>1 DEF RoomLeft, AsSized, Balanced, Before
  <2> QED BY <2>2, <2>3 DEF BookedInv
<1>2. ASSUME NEW p \in Fillers, LoadOrders(p) PROVE BookedInv'
  <2>1. /\ Idle /\ Goto(p, "loading") /\ records' = [records EXCEPT ![p] = orders]
        /\ UNCHANGED <<log, orders, prior, act, image>>
    BY <1>2 DEF LoadOrders, files
  <2>2. /\ pc'[p] = "loading"
        /\ \A q \in Fillers : q # p => pc'[q] = "idle"
    BY <1>0, <2>1, StillAlone DEF Steps
  <2>3. records'[p] = orders
    BY <2>1 DEF TypeOK
  <2>4. FilesAgree'
    BY <1>0, <2>1, FilesStay
  <2>5. RoomLeft'
    BY <1>0, <2>1, <2>2, <2>3 DEF RoomLeft, InHand, AsSized
  <2> QED BY <2>4, <2>5 DEF BookedInv
<1>3. ASSUME NEW p \in Fillers, LoadLog(p) PROVE BookedInv'
  <2>1. pc[p] = "loading" /\ UNCHANGED <<log, orders>>
    BY <1>3 DEF LoadLog, files
  <2>2. FilesAgree'
    BY <1>0, <2>1, FilesStay
  <2>3. CASE End(p)
    BY <1>0, <2>1, <2>2, <2>3, EndBooks
  <2>4. CASE /\ TornActs(log, records[p]) = {}
             /\ Goto(p, "asking") /\ UNCHANGED <<records, act, image>>
    <3>1. /\ pc'[p] = "asking"
          /\ \A q \in Fillers : q # p => pc'[q] = "idle"
      BY <1>0, <2>1, <2>4, StillAlone DEF Steps
    <3>2. LotsOnLog(log) = FillsOnFile(orders)
      BY <1>0, <2>1, <2>4, ComparedWhole DEF ReadHolds
    <3>3. Balanced(log, orders)
      BY <1>0, <3>2, WholeBalances
    <3>4. AsSized(records[p])
          /\ \A id \in Rungs : BookedFills(records[p], id) = BookedFills(orders, id)
      BY <1>0, <2>1 DEF RoomLeft
    <3>5. RoomLeft'
      BY <2>1, <2>4, <3>1, <3>3, <3>4
      DEF RoomLeft, Before, Balanced, InHand, HalfWritten, AsSized
    <3> QED BY <2>2, <3>5 DEF BookedInv
  <2> QED BY <1>3, <2>3, <2>4 DEF LoadLog
<1>4. ASSUME NEW p \in Fillers, Confirm(p) PROVE BookedInv'
  <2>1. /\ pc[p] = "asking" /\ Goto(p, "confirmed") /\ UNCHANGED <<log, orders, records, image>>
    BY <1>4 DEF Confirm, files
  <2>2. /\ pc'[p] = "confirmed"
        /\ \A q \in Fillers : q # p => pc'[q] = "idle"
    BY <1>0, <2>1, StillAlone DEF Steps
  <2>3. /\ AsSized(records[p]) /\ Balanced(log, orders)
        /\ \A id \in Rungs : BookedFills(records[p], id) = BookedFills(orders, id)
    BY <1>0, <2>1 DEF RoomLeft, Before, HalfWritten
  <2>4. PICK a \in Acts : /\ act' = [act EXCEPT ![p] = a] /\ a.id[1] \in Rungs
                          /\ BookedFills(records[p], a.id[1]) + a.quantity <= Sizes[a.id[1]]
    BY <1>4, <2>3, ConfirmedFits
  <2>5. act'[p] = a
    BY <2>4 DEF TypeOK
  <2>6. FilesAgree'
    BY <1>0, <2>1, FilesStay
  <2>7. BookedFills(orders, a.id[1]) + a.quantity <= Sizes[a.id[1]]
    BY <2>3, <2>4
  <2>8. RoomLeft'
    BY <2>1, <2>2, <2>3, <2>5, <2>7 DEF RoomLeft, Before, Balanced, InHand, HalfWritten
  <2> QED BY <2>6, <2>8 DEF BookedInv
<1>5. ASSUME NEW p \in Fillers, ReadLogImage(p) PROVE BookedInv'
  <2>1. /\ pc[p] = "confirmed" /\ Goto(p, "writing") /\ UNCHANGED <<log, orders, act>>
    BY <1>5 DEF ReadLogImage, files
  <2>2. /\ pc'[p] = "writing"
        /\ \A q \in Fillers : q # p => pc'[q] = "idle"
    BY <1>0, <2>1, StillAlone DEF Steps
  <2>3. /\ Balanced(log, orders)
        /\ BookedFills(orders, act[p].id[1]) + act[p].quantity <= Sizes[act[p].id[1]]
    BY <1>0, <2>1 DEF RoomLeft, Before, InHand, HalfWritten
  <2>4. FilesAgree'
    BY <1>0, <2>1, FilesStay
  <2>5. RoomLeft'
    BY <2>1, <2>2, <2>3 DEF RoomLeft, Before, Balanced, InHand, HalfWritten
  <2> QED BY <2>4, <2>5 DEF BookedInv
<1>6. ASSUME NEW p \in Fillers, WriteLogImage(p) PROVE BookedInv'
  <2> DEFINE e == FillEvent(act[p])
  <2>1. /\ pc[p] = "writing" /\ Goto(p, "appending") /\ log' = Append(image[p], e)
        /\ UNCHANGED <<orders, act, image>>
    BY <1>6 DEF WriteLogImage
  <2>2. /\ pc'[p] = "appending"
        /\ \A q \in Fillers : q # p => pc'[q] = "idle"
    BY <1>0, <2>1, StillAlone DEF Steps
  <2>3. act[p] \in Acts
    BY <2>1 DEF TypeOK
  <2>4. e \in LogLine /\ e.type = "fill" /\ e.id = act[p].id /\ e.quantity = act[p].quantity
    BY <2>3, FillEventType DEF FillEvent
  <2>5. /\ image[p] = log /\ LotsOnLog(log) = FillsOnFile(orders)
        /\ act[p].id \notin LotsOnLog(log)
    BY <1>0, <2>1 DEF WholeBefore, Before, InHand, HalfWritten
  <2>6. /\ Balanced(log, orders)
        /\ BookedFills(orders, e.id[1]) + e.quantity <= Sizes[e.id[1]]
    BY <1>0, <2>1, <2>4 DEF RoomLeft, Before, InHand, HalfWritten
  <2> HIDE DEF e
  <2>7. ToSet(log') = ToSet(log) \cup {e} /\ LotsOnLog(log') = LotsOnLog(log) \cup {e.id}
    BY <1>0, <2>1, <2>4, <2>5, AppendedOne, LotsOfOne
  <2>8. \A id \in Rungs : LotQuantity(log', id) = BookedFills(orders, id) + Of(e, id)
    BY <1>0, <2>1, <2>4, <2>5, <2>6, LotsOfRung DEF Balanced
  <2>9. LotOnce'
    <3>1. \A x \in ToSet(log) : x.type = "fill" => x.id # e.id
      BY <2>4, <2>5 DEF LotsOnLog
    <3> QED BY <1>0, <2>7, <3>1 DEF LotOnce
  <2>10. Accounted'
    <3>1. LotsWithoutFill(log', orders) = {e.id}
      BY <2>4, <2>5, <2>7 DEF LotsWithoutFill
    <3>2. e \in ToSet(log')
      BY <2>7
    <3> QED BY <2>1, <2>4, <2>8, <3>1, <3>2 DEF Accounted, Of
  <2>11. Fits'
    <3> SUFFICES ASSUME NEW id \in Rungs PROVE LotQuantity(log', id) <= Sizes[id]
      BY DEF Fits
    <3>1. CASE e.id[1] = id
      BY <2>4, <2>6, <2>8, <3>1 DEF Of
    <3>2. CASE e.id[1] # id
      <4>1. BookedFills(orders, id) \in Nat /\ BookedFills(orders, id) <= Sizes[id]
        BY <1>0, BookedFits
      <4> QED BY <2>8, <3>2, <4>1 DEF Of
    <3> QED BY <3>1, <3>2
  <2>12. AsSized(orders)'
    BY <1>0, <2>1 DEF AsSized
  <2>13. RoomLeft'
    BY <2>1, <2>2, <2>4, <2>5, <2>6 DEF RoomLeft, Before, Balanced, InHand, HalfWritten
  <2> QED BY <2>9, <2>10, <2>11, <2>12, <2>13 DEF BookedInv, FilesAgree
<1>7. ASSUME NEW p \in Fillers, AppendOrders(p) PROVE BookedInv'
  <2> DEFINE e == FillEvent(act[p])
             a == act[p]
  <2>1. /\ pc[p] = "appending" /\ End(p) /\ orders' = orders \o Lines(a) /\ UNCHANGED log
    BY <1>7 DEF AppendOrders
  <2>2. a \in Acts /\ image[p] \in Seq(LogLine)
    BY <2>1 DEF TypeOK
  <2>3. e \in LogLine /\ e.type = "fill" /\ e.id = a.id
    BY <2>2, FillEventType
  <2>4. /\ LotsOnLog(image[p]) = FillsOnFile(orders)
        /\ log = Append(image[p], e) /\ Balanced(image[p], orders)
    BY <1>0, <2>1 DEF WholeBefore, RoomLeft, Before, InHand, HalfWritten
  <2>5. \A id : BookedFills(orders', id) = BookedFills(orders, id) + Of(e, id)
    BY <1>0, <2>1, <2>2, LinesBook
  <2>6. Lines(a) \in Seq(OrderLine) /\ FillsOnFile(Lines(a)) = {e.id}
        /\ \A x \in ToSet(Lines(a)) : x.kind # "orderPlaced"
    BY <1>0, <2>2, <2>3, LinesOfAct, LinesBook
  <2> HIDE DEF e, a
  <2>7. Balanced(log, orders)'
    <3>1. \A id \in Rungs : LotQuantity(log, id) = LotQuantity(image[p], id) + Of(e, id)
      BY <2>2, <2>3, <2>4, LotsOfRung
    <3> QED BY <2>1, <2>4, <2>5, <3>1 DEF Balanced
  <2>8. LotsWithoutFill(log, orders)' = {}
    <3>1. FillsOnFile(orders') = FillsOnFile(orders) \cup {e.id}
      BY <1>0, <2>1, <2>6, FillsOfAppended
    <3>2. LotsOnLog(log) = LotsOnLog(image[p]) \cup {e.id}
      BY <2>2, <2>3, <2>4, LotsOfOne
    <3> QED BY <2>1, <2>4, <3>1, <3>2 DEF LotsWithoutFill
  <2>9. AsSized(orders)'
    <3>1. ToSet(orders') = ToSet(orders) \cup ToSet(Lines(a))
      BY <1>0, <2>1, <2>6, AppendedOnly
    <3> QED BY <1>0, <2>6, <3>1 DEF AsSized
  <2>10. LotOnce' /\ Fits'
    BY <1>0, <2>1 DEF LotOnce, Fits
  <2>11. FilesAgree'
    BY <2>7, <2>8, <2>9, <2>10 DEF FilesAgree, Accounted
  <2> QED BY <1>0, <2>1, <2>11, EndBooks
<1>8. ASSUME NEW p \in Fillers, AppendOrdersFails(p) PROVE BookedInv'
  <2>1. /\ pc[p] = "appending" /\ Goto(p, "rolling back")
        /\ UNCHANGED <<log, orders, act, image>>
    BY <1>8 DEF AppendOrdersFails
  <2>2. /\ pc'[p] = "rolling back"
        /\ \A q \in Fillers : q # p => pc'[q] = "idle"
    BY <1>0, <2>1, StillAlone DEF Steps
  <2>3. /\ Balanced(image[p], orders)
        /\ BookedFills(orders, act[p].id[1]) + act[p].quantity <= Sizes[act[p].id[1]]
    BY <1>0, <2>1 DEF RoomLeft, Before, InHand, HalfWritten
  <2>4. FilesAgree'
    BY <1>0, <2>1, FilesStay
  <2>5. RoomLeft'
    BY <2>1, <2>2, <2>3 DEF RoomLeft, Before, Balanced, InHand, HalfWritten
  <2> QED BY <2>4, <2>5 DEF BookedInv
<1>9. ASSUME NEW p \in Fillers, RestoreLogImage(p) PROVE BookedInv'
  <2>1. pc[p] = "rolling back" /\ End(p) /\ log' = image[p] /\ UNCHANGED orders
    BY <1>9 DEF RestoreLogImage
  <2>2. act[p] \in Acts /\ image[p] \in Seq(LogLine)
    BY <2>1 DEF TypeOK
  <2>3. /\ LotsOnLog(image[p]) = FillsOnFile(orders)
        /\ log = Append(image[p], FillEvent(act[p])) /\ Balanced(image[p], orders)
    BY <1>0, <2>1 DEF WholeBefore, RoomLeft, Before, InHand, HalfWritten
  <2>4. ToSet(log') \subseteq ToSet(log)
    <3>1. ToSet(Append(image[p], FillEvent(act[p]))) = ToSet(image[p]) \cup {FillEvent(act[p])}
      BY <2>2, FillEventType, AppendedOne
    <3> QED BY <2>1, <2>3, <3>1
  <2>5. LotOnce'
    BY <1>0, <2>4 DEF LotOnce
  <2>6. Accounted'
    BY <2>1, <2>3 DEF Accounted, LotsWithoutFill, Balanced
  <2>7. Fits'
    <3>1. \A id \in Rungs : BookedFills(orders, id) <= Sizes[id]
      BY <1>0, BookedFits
    <3> QED BY <2>1, <2>3, <3>1 DEF Fits, Balanced
  <2>8. AsSized(orders)'
    BY <1>0, <2>1 DEF AsSized
  <2> QED BY <1>0, <2>1, <2>5, <2>6, <2>7, <2>8, EndBooks DEF FilesAgree
<1>10. ASSUME NEW p \in Fillers,
              Decline(p) \/ WriteLogFails(p) \/ RestoreLogImageFails(p) \/ Crash(p)
       PROVE  BookedInv'
  <2>1. pc[p] # "idle" /\ End(p) /\ UNCHANGED <<log, orders>>
    BY <1>10 DEF Decline, WriteLogFails, RestoreLogImageFails, Crash, files
  <2>2. FilesAgree'
    BY <1>0, <2>1, FilesStay
  <2> QED BY <1>0, <2>1, <2>2, EndBooks
<1>11. CASE Observe
  <2>1. UNCHANGED <<log, pc, records, act, image>>
    BY <1>11 DEF Observe, locals
  <2>2. PICK line \in OrderLine :
            /\ line.kind \notin {"orderFilled", "orderPlaced"}
            /\ orders' = Append(orders, line)
    BY <1>11, ObservedLine
  <2>3. FillsOnFile(orders') = FillsOnFile(orders)
    BY <1>0, <2>2, FillsOfOne
  <2>4. ToSet(orders') = ToSet(orders) \cup {line}
    BY <1>0, <2>2, AppendedOne
  <2>5. \A id \in Rungs : BookedFills(orders', id) = BookedFills(orders, id)
    <3> SUFFICES ASSUME NEW id \in Rungs PROVE BookedFills(orders', id) = BookedFills(orders, id)
      OBVIOUS
    <3>1. /\ BookedFills(orders, id) \in Nat
          /\ BookedFills(Append(orders, line), id) = BookedFills(orders, id) +
                (IF line.kind = "orderFilled" /\ line.id = id THEN line.quantity ELSE 0)
      BY <1>0, AreOrderLines, BookedOfOne
    <3> QED BY <2>2, <3>1
  <2>6. AsSized(orders)'
    BY <1>0, <2>2, <2>4 DEF AsSized
  <2>7. LotOnce' /\ Fits'
    BY <1>0, <2>1 DEF LotOnce, Fits
  <2>8. Accounted'
    BY <1>0, <2>1, <2>3, <2>5 DEF Accounted, Balanced, LotsWithoutFill, Of
  <2>9. RoomLeft'
    <3> SUFFICES ASSUME NEW p \in Fillers
                 PROVE  /\ pc[p] \in {"loading", "asking"} =>
                            /\ AsSized(records[p])
                            /\ \A id \in Rungs :
                                BookedFills(records[p], id) = BookedFills(orders', id)
                        /\ pc[p] \in InHand \cup {"asking"} => Balanced(Before(p), orders')
                        /\ pc[p] \in InHand =>
                            BookedFills(orders', act[p].id[1]) + act[p].quantity
                                <= Sizes[act[p].id[1]]
      BY <2>1 DEF RoomLeft, Before, Balanced, AsSized
    <3>1. pc[p] \in {"loading", "asking"} =>
            /\ AsSized(records[p])
            /\ \A id \in Rungs : BookedFills(records[p], id) = BookedFills(orders', id)
      BY <1>0, <2>5 DEF RoomLeft
    <3>2. pc[p] \in InHand \cup {"asking"} => Balanced(Before(p), orders')
      BY <1>0, <2>5 DEF RoomLeft, Balanced
    <3>3. ASSUME pc[p] \in InHand
          PROVE  BookedFills(orders', act[p].id[1]) + act[p].quantity <= Sizes[act[p].id[1]]
      <4>1. act[p] \in Acts
        BY <3>3 DEF TypeOK, InHand
      <4>2. act[p].id[1] \in Rungs
        BY <4>1 DEF Acts
      <4>3. BookedFills(orders', act[p].id[1]) = BookedFills(orders, act[p].id[1])
        BY <2>5, <4>2
      <4> QED BY <1>0, <3>3, <4>3 DEF RoomLeft
    <3> QED BY <3>1, <3>2, <3>3
  <2> QED BY <2>6, <2>7, <2>8, <2>9 DEF BookedInv, FilesAgree
<1>12. CASE IngestOther
  <2>1. Idle /\ log' = Append(log, OtherEvent) /\ UNCHANGED <<orders, pc>>
    BY <1>12 DEF IngestOther, locals
  <2>2. OtherEvent \in LogLine /\ OtherEvent.type # "fill"
    BY DEF LogLine, OtherEvent
  <2>3. LotsOnLog(log') = LotsOnLog(log) /\ ToSet(log') = ToSet(log) \cup {OtherEvent}
    <3>1. LotsOnLog(log') = LotsOnLog(log)
      BY <1>0, <2>1, <2>2, LotsOfOne
    <3>2. ToSet(log') = ToSet(log) \cup {OtherEvent}
      BY <1>0, <2>1, <2>2, AppendedOne
    <3> QED BY <3>1, <3>2
  <2>4. \A id \in Rungs : LotQuantity(log', id) = LotQuantity(log, id)
    <3> SUFFICES ASSUME NEW id \in Rungs PROVE LotQuantity(log', id) = LotQuantity(log, id)
      OBVIOUS
    <3>1. /\ LotQuantity(log, id) \in Nat
          /\ LotQuantity(log', id) = LotQuantity(log, id) + Of(OtherEvent, id)
      BY <1>0, <2>1, <2>2, LotsOfRung
    <3>2. Of(OtherEvent, id) = 0
      BY <2>2 DEF Of
    <3> QED BY <3>1, <3>2
  <2>5. LotOnce'
    BY <1>0, <2>2, <2>3 DEF LotOnce
  <2>6. Accounted' /\ Fits' /\ AsSized(orders)'
    BY <1>0, <2>1, <2>3, <2>4 DEF Accounted, Balanced, LotsWithoutFill, Of, Fits, AsSized
  <2>7. RoomLeft'
    BY <2>1 DEF Idle, RoomLeft, InHand
  <2> QED BY <2>5, <2>6, <2>7 DEF BookedInv, FilesAgree
<1>13. CASE Repair
  <2>1. Idle /\ UNCHANGED pc
    BY <1>13 DEF Repair, locals
  <2>2. FillsWithoutLot(log, orders) = {}
    BY <1>0 DEF OneTorn, FillsWithoutLot
  <2>3. PICK e \in ToSet(log) :
            /\ e.type = "fill" /\ e.id \in LotsWithoutFill(log, orders)
            /\ orders' = Append(orders, Filled(e.id[1], e.id[2], e.quantity)) /\ log' = log
    BY <1>13, <2>2 DEF Repair
  <2> DEFINE line == Filled(e.id[1], e.id[2], e.quantity)
  <2>4. /\ line \in OrderLine /\ line.kind = "orderFilled" /\ <<line.id, line.at>> = e.id
        /\ line.id = e.id[1] /\ line.quantity = e.quantity
    <3>1. e \in LogLine
      BY <1>0, MembersType
    <3> QED BY <2>3, <3>1 DEF LogLine, OtherEvent, OrderLine, Filled
  <2>5. orders' = Append(orders, line)
    BY <2>3
  <2> HIDE DEF line
  <2>6. PICK x \in ToSet(log) :
            /\ x.type = "fill" /\ LotsWithoutFill(log, orders) = {x.id}
            /\ \A id \in Rungs : LotQuantity(log, id) = BookedFills(orders, id) + Of(x, id)
    BY <1>0, <2>3 DEF Accounted
  <2>7. x = e
    BY <1>0, <2>3, <2>6 DEF LotOnce
  <2>8. Balanced(log, orders)'
    <3> SUFFICES ASSUME NEW id \in Rungs PROVE LotQuantity(log, id) = BookedFills(orders', id)
      BY <2>3 DEF Balanced
    <3>1. BookedFills(Append(orders, line), id) = BookedFills(orders, id) +
                (IF line.kind = "orderFilled" /\ line.id = id THEN line.quantity ELSE 0)
      BY <1>0, <2>4, AreOrderLines, BookedOfOne
    <3>2. LotQuantity(log, id) = BookedFills(orders, id) + Of(e, id)
      BY <2>6, <2>7
    <3> QED BY <2>3, <2>4, <2>5, <3>1, <3>2 DEF Of
  <2>9. LotsWithoutFill(log, orders)' = {}
    <3>1. FillsOnFile(orders') = FillsOnFile(orders) \cup {e.id}
      BY <1>0, <2>4, <2>5, FillsOfOne
    <3> QED BY <2>3, <2>6, <2>7, <3>1 DEF LotsWithoutFill
  <2>10. AsSized(orders)'
    <3>1. ToSet(orders') = ToSet(orders) \cup {line}
      BY <1>0, <2>4, <2>5, AppendedOne
    <3> QED BY <1>0, <2>4, <3>1 DEF AsSized
  <2>11. LotOnce' /\ Fits'
    BY <1>0, <2>3 DEF LotOnce, Fits
  <2>12. RoomLeft'
    BY <2>1 DEF Idle, RoomLeft, InHand
  <2> QED BY <2>8, <2>9, <2>10, <2>11, <2>12 DEF BookedInv, FilesAgree, Accounted
<1> QED
  BY <1>1, <1>2, <1>3, <1>4, <1>5, <1>6, <1>7, <1>8, <1>9, <1>10, <1>11, <1>12, <1>13
  DEF Next, Advance

\* The ladder on file when the model starts is the ladder, and nothing is booked of it.
LEMMA LadderUnbooked ==
    ASSUME Init PROVE FilesAgree
<1>1. SetToSeq(Rungs) \in Seq(Rungs) /\ DOMAIN SetToSeq(Rungs) = 1 .. Cardinality(Rungs)
  BY FillActAssumption, Listed
<1>2. log = <<>> /\ orders \in Seq(OrderLine)
  BY LadderPlaced DEF Init
<1>3. orders = [i \in 1 .. Cardinality(Rungs) |->
                    Placed(SetToSeq(Rungs)[i], 1, Sizes[SetToSeq(Rungs)[i]], 0)]
  BY DEF Init
<1>4. \A i \in DOMAIN orders :
        /\ orders[i].kind = "orderPlaced" /\ orders[i].quantity = Sizes[orders[i].id]
  BY <1>3 DEF Placed
<1>5. AsSized(orders)
  BY <1>4 DEF AsSized, ToSet
<1>6. \A id \in Rungs : BookedFills(orders, id) = 0
  <2> SUFFICES ASSUME NEW id \in Rungs PROVE BookedFills(orders, id) = 0
    OBVIOUS
  <2>1. \A i \in DOMAIN orders : ~ (orders[i].kind = "orderFilled" /\ orders[i].id = id)
    BY <1>4
  <2> QED BY <1>2, <2>1, AreOrderLines, BookedOfNone
<1>7. \A id \in Rungs : LotQuantity(log, id) = 0
  <2> SUFFICES ASSUME NEW id \in Rungs PROVE LotQuantity(log, id) = 0
    OBVIOUS
  <2> DEFINE a == [i \in DOMAIN log |->
        IF log[i].type = "fill" /\ log[i].id[1] = id THEN log[i].quantity ELSE 0]
  <2>1. a = <<>>
    BY <1>2
  <2>2. a \in Seq(Nat) /\ \A k \in DOMAIN a : a[k] = 0
    BY <2>1
  <2> HIDE DEF a
  <2>3. Total(a) = 0
    BY <2>2, TotalOfNone
  <2> QED BY <2>3 DEF LotQuantity, a
<1>8. ToSet(log) = {}
  BY <1>2 DEF ToSet
<1>9. LotsWithoutFill(log, orders) = {}
  BY <1>8 DEF LotsWithoutFill, LotsOnLog
<1>10. Accounted
  BY <1>6, <1>7, <1>9 DEF Accounted, Balanced
<1>11. LotOnce /\ Fits
  BY <1>7, <1>8, FillActAssumption DEF LotOnce, Fits
<1> QED BY <1>5, <1>10, <1>11 DEF FilesAgree

\* No rung is filled past the size it was placed at, whatever is observed of it, whatever
\* fails in between and whatever the operator mends by hand: the ceiling an act was
\* given when it was confirmed still holds when its lot is written.
THEOREM NotOverbooked ==
    ASSUME ~ Overlap, ~ Uncleaned
    PROVE  Spec => []NeverOverbooked
<1>1. Init => BookedInv
  <2> SUFFICES ASSUME Init PROVE BookedInv
    OBVIOUS
  <2>1. RoomLeft
    BY DEF Init, RoomLeft, InHand
  <2> QED BY <2>1, LadderUnbooked DEF BookedInv
<1>2. TypeOK /\ WholeInv /\ BookedInv /\ [Next]_vars => BookedInv'
  BY BookedStep
<1>3. TypeOK /\ BookedInv => NeverOverbooked
  <2> SUFFICES ASSUME TypeOK, Accounted, Fits PROVE NeverOverbooked
    BY DEF BookedInv, FilesAgree
  <2> QED BY BookedFits DEF NeverOverbooked, Fits
<1> QED BY <1>1, <1>2, <1>3, TypeCorrect, WholeInvariant, PTL DEF Spec
=============================================================================
