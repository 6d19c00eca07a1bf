------------------------------- MODULE FillAct -------------------------------
(***************************************************************************)
(* apps/tui/src/record-fill.ts: one act across two files.  A fill of a     *)
(* rung is a lot in events.jsonl and a line in orders.jsonl, written one   *)
(* after the other, each by a rename; when the second fails the first is   *)
(* put back.  Everything is validated against what was read before an      *)
(* interview that lasts as long as the operator takes.                     *)
(*                                                                         *)
(* The gate, the verdicts proposed for the rest of the ladder and the      *)
(* funding are left out: they can only refuse, which Decline stands for.   *)
(***************************************************************************)
EXTENDS Orders

CONSTANTS Fillers,    \* processes that run pnpm orders:fill
          Sizes,      \* the rungs of the ladder, with the size each was placed at
          MaxStamp,   \* bound: stamps are 1 .. MaxStamp
          MaxLog,     \* bound: the length of events.jsonl
          MaxOrders,  \* bound: the length of orders.jsonl
          MaxFaults,  \* bound: crashes and failing calls
          Overlap,    \* whether the log has another writer while an act is under way
          Uncleaned   \* whether an append may fail after its rename

Rungs == DOMAIN Sizes
Stamps == 1 .. MaxStamp

ASSUME FillActAssumption ==
    /\ IsFiniteSet(Rungs) /\ MaxStamp \in Nat \ {0}
    /\ MaxLog \in Nat /\ MaxOrders \in Nat /\ MaxFaults \in Nat
    /\ \A id \in Rungs : Sizes[id] \in Nat \ {0}
    /\ Overlap \in BOOLEAN /\ Uncleaned \in BOOLEAN

VARIABLES
    log,      \* events.jsonl: fills, [type, id, quantity], and other events
    orders,   \* orders.jsonl
    pc,       \* the step each process is about to take
    records,  \* orders.jsonl as the process read it
    prior,    \* events.jsonl as the process read it
    act,      \* what it is about to write, or NoAct
    image,    \* events.jsonl as it was just before the first write
    recorded, \* the fills that were reported recorded
    undone,   \* the fills whose last attempt was reported rolled back
    faults    \* crashes and failures so far

files == <<log, orders>>
locals == <<pc, records, prior, act, image>>
vars == <<files, locals, recorded, undone, faults>>

NoAct == [id |-> <<>>, quantity |-> 0, cancelled |-> {}]
FillEvent(a) == [type |-> "fill", id |-> a.id, quantity |-> a.quantity]
OtherEvent == [type |-> "other", id |-> <<>>, quantity |-> 0]

\* The rungs are on file when the model starts, placed at the first stamp.
Init ==
    /\ log = <<>>
    /\ orders = [i \in 1 .. Cardinality(Rungs) |->
                    LET id == SetToSeq(Rungs)[i] IN Placed(id, 1, Sizes[id], 0)]
    /\ pc = [p \in Fillers |-> "idle"]
    /\ records = [p \in Fillers |-> <<>>]
    /\ prior = [p \in Fillers |-> <<>>]
    /\ act = [p \in Fillers |-> NoAct]
    /\ image = [p \in Fillers |-> <<>>]
    /\ recorded = {} /\ undone = {} /\ faults = 0
----------------------------------------------------------------------------
Goto(p, step) == pc' = [pc EXCEPT ![p] = step]

\* Mutant: the process goes back to its prompt with the act still in hand.
EndKeepsAct(p) ==
    /\ Goto(p, "idle")
    /\ records' = [records EXCEPT ![p] = <<>>]
    /\ prior' = [prior EXCEPT ![p] = <<>>]
    /\ image' = [image EXCEPT ![p] = <<>>]
    /\ UNCHANGED act

End(p) ==
    /\ Goto(p, "idle")
    /\ records' = [records EXCEPT ![p] = <<>>]
    /\ prior' = [prior EXCEPT ![p] = <<>>]
    /\ act' = [act EXCEPT ![p] = NoAct]
    /\ image' = [image EXCEPT ![p] = <<>>]

Fault == faults < MaxFaults /\ faults' = faults + 1
Idle == \A p \in Fillers : pc[p] = "idle"

\* The lines an act appends to the sidecar: its fill, and the cancellations the
\* operator confirmed with it.
Lines(a) ==
    LET cancelled == SetToSeq(a.cancelled)
    IN  << Filled(a.id[1], a.id[2], a.quantity) >> \o
        [i \in DOMAIN cancelled |-> Cancelled(cancelled[i], a.id[2])]

\* Mutant: what the file reports resting may be booked.
CeilingRemaining(read, id) == Resting(read)[id].remaining

\* min(remainingQuantity, quantity - bookedFills): a rung that an observation
\* brought back to life is not booked past its size.
Ceiling(read, id) ==
    Min({Resting(read)[id].remaining, Resting(read)[id].quantity - BookedFills(read, id)})
----------------------------------------------------------------------------
LoadOrders(p) ==
    /\ pc[p] = "idle" /\ (Overlap \/ Idle)
    /\ records' = [records EXCEPT ![p] = orders]
    /\ Goto(p, "loading")
    /\ UNCHANGED <<files, prior, act, image, recorded, undone, faults>>

\* Mutant: a torn act is not looked for.
LoadLogUnchecked(p) ==
    /\ pc[p] = "loading"
    /\ prior' = [prior EXCEPT ![p] = log]
    /\ Goto(p, "asking")
    /\ UNCHANGED <<files, records, act, image, recorded, undone, faults>>

\* An act is refused while another is half-landed, or when nothing rests.
LoadLog(p) ==
    /\ pc[p] = "loading"
    /\ IF TornActs(log, records[p]) # {} \/ DOMAIN Resting(records[p]) = {}
       THEN End(p)
       ELSE /\ prior' = [prior EXCEPT ![p] = log]
            /\ Goto(p, "asking")
            /\ UNCHANGED <<records, act, image>>
    /\ UNCHANGED <<files, recorded, undone, faults>>

\* The interview: which rung, when, how much, and what else was cancelled.
Confirm(p) ==
    LET resting == Resting(records[p])
    IN  /\ pc[p] = "asking"
        /\ \E id \in Rungs, at \in Stamps :
            /\ id \in DOMAIN resting /\ resting[id].at <= at
            /\ \E quantity \in 1 .. Ceiling(records[p], id), cancelled \in SUBSET (Rungs \ {id}) :
                /\ cancelled \subseteq DOMAIN resting
                /\ \A e \in ToSet(prior[p]) : e.id # FillEventId(id, at)
                /\ act' = [act EXCEPT ![p] = [id |-> FillEventId(id, at),
                                quantity |-> quantity, cancelled |-> cancelled]]
        /\ Goto(p, "confirmed")
        /\ UNCHANGED <<files, records, prior, image, recorded, undone, faults>>

Decline(p) ==
    /\ pc[p] = "asking"
    /\ End(p)
    /\ UNCHANGED <<files, recorded, undone, faults>>

ReadLogImage(p) ==
    /\ pc[p] = "confirmed"
    /\ image' = [image EXCEPT ![p] = log]
    /\ Goto(p, "writing")
    /\ UNCHANGED <<files, records, prior, act, recorded, undone, faults>>

\* The log first.
WriteLogImage(p) ==
    /\ pc[p] = "writing" /\ Len(image[p]) < MaxLog
    /\ log' = Append(image[p], FillEvent(act[p]))
    /\ undone' = { a \in undone : a.id # act[p].id }
    /\ Goto(p, "appending")
    /\ UNCHANGED <<orders, records, prior, act, image, recorded, faults>>

WriteLogFails(p) ==
    /\ pc[p] = "writing" /\ Fault
    /\ End(p)
    /\ UNCHANGED <<files, recorded, undone>>

\* The sidecar second; the append is SidecarAppend's, seen from outside.
AppendOrders(p) ==
    /\ pc[p] = "appending"
    /\ orders' = orders \o Lines(act[p])
    /\ recorded' = recorded \cup {act[p]}
    /\ End(p)
    /\ UNCHANGED <<log, undone, faults>>

\* The append throws: the lock was refused or a call failed and nothing was
\* written, or else a finally block threw when the lines were on disk already.
AppendOrdersFails(p) ==
    /\ pc[p] = "appending" /\ Fault
    /\ \/ UNCHANGED orders
       \/ Uncleaned /\ orders' = orders \o Lines(act[p])
    /\ Goto(p, "rolling back")
    /\ UNCHANGED <<log, records, prior, act, image, recorded, undone>>

\* Mutant: the log is put back as on a first run, when there was no file.
RestoreLogImageRemoves(p) ==
    /\ pc[p] = "rolling back"
    /\ log' = <<>>
    /\ undone' = undone \cup {act[p]}
    /\ End(p)
    /\ UNCHANGED <<orders, recorded, faults>>

\* restoreLogImage: the log as it was, whatever it is now.
RestoreLogImage(p) ==
    /\ pc[p] = "rolling back"
    /\ log' = image[p]
    /\ undone' = undone \cup {act[p]}
    /\ End(p)
    /\ UNCHANGED <<orders, recorded, faults>>

RestoreLogImageFails(p) ==
    /\ pc[p] = "rolling back" /\ Fault
    /\ End(p)
    /\ UNCHANGED <<files, recorded, undone>>

Crash(p) ==
    /\ pc[p] # "idle" /\ Fault
    /\ End(p)
    /\ UNCHANGED <<files, recorded, undone>>
----------------------------------------------------------------------------
(* What else is written to the two files.                                  *)

\* orders:import, orders:cancel and the operator's editor append at any time, and
\* not in the order of the stamps; a fill line is only ever written by an act.
Observe ==
    /\ Len(orders) < MaxOrders
    /\ \E id \in Rungs, at \in Stamps :
        \E line \in {Cancelled(id, at)} \cup
                    { FillObserved(id, at, q) : q \in 0 .. Sizes[id] } :
            orders' = Append(orders, line)
    /\ UNCHANGED <<log, locals, recorded, undone, faults>>

\* pnpm spine appends to the log.
IngestOther ==
    /\ Overlap \/ Idle
    /\ Len(log) < MaxLog /\ OtherEvent \notin ToSet(log)
    /\ log' = Append(log, OtherEvent)
    /\ UNCHANGED <<orders, locals, recorded, undone, faults>>

\* The remedy the refusal names: the missing half, by hand.
Repair ==
    /\ Idle
    /\ \/ \E e \in { x \in ToSet(log) : x.type = "fill" } :
            /\ e.id \in LotsWithoutFill(log, orders)
            /\ orders' = Append(orders, Filled(e.id[1], e.id[2], e.quantity))
            /\ UNCHANGED log
       \/ \E r \in { x \in ToSet(orders) : x.kind = "orderFilled" } :
            /\ FillEventId(r.id, r.at) \in FillsWithoutLot(log, orders)
            /\ log' = Append(log, FillEvent([id |-> FillEventId(r.id, r.at),
                                             quantity |-> r.quantity]))
            /\ UNCHANGED orders
    /\ UNCHANGED <<locals, recorded, undone, faults>>

Advance(p) ==
    \/ LoadOrders(p) \/ LoadLog(p) \/ Confirm(p) \/ Decline(p) \/ ReadLogImage(p)
    \/ WriteLogImage(p) \/ AppendOrders(p) \/ RestoreLogImage(p)

Next ==
    \/ \E p \in Fillers :
        \/ Advance(p)
        \/ WriteLogFails(p) \/ AppendOrdersFails(p) \/ RestoreLogImageFails(p) \/ Crash(p)
    \/ Observe \/ IngestOther \/ Repair

Spec == Init /\ [][Next]_vars
----------------------------------------------------------------------------
Steps == {"idle", "loading", "asking", "confirmed", "writing", "appending", "rolling back"}
Acts == [id : Rungs \X Stamps, quantity : Nat \ {0}, cancelled : SUBSET Rungs]

LogLine ==
    {OtherEvent} \cup [type : {"fill"}, id : Rungs \X Stamps, quantity : Nat \ {0}]
OrderLine ==
    [kind : {"orderPlaced"}, id : Rungs, at : Stamps, quantity : Nat, observed : Nat] \cup
    [kind : {"orderCancelled", "orderFillObserved"}, id : Rungs, at : Stamps, quantity : Nat] \cup
    [kind : {"orderFilled"}, id : Rungs, at : Stamps, quantity : Nat \ {0}]

TypeOK ==
    /\ log \in Seq(LogLine) /\ orders \in Seq(OrderLine)
    /\ pc \in [Fillers -> Steps]
    /\ records \in [Fillers -> Seq(OrderLine)]
    /\ prior \in [Fillers -> Seq(LogLine)] /\ image \in [Fillers -> Seq(LogLine)]
    /\ act \in [Fillers -> Acts \cup {NoAct}]
    /\ \A p \in Fillers :
        act[p] # NoAct <=> pc[p] \in {"confirmed", "writing", "appending", "rolling back"}
    /\ recorded \subseteq Acts /\ undone \subseteq Acts /\ faults \in Nat

\* The lots a log holds of one rung, added up.
LotQuantity(events, id) ==
    Total([i \in DOMAIN events |->
        IF events[i].type = "fill" /\ events[i].id[1] = id THEN events[i].quantity ELSE 0])

\* A rung's total booked fills never exceed its placed quantity, whatever is
\* observed of it, in whatever order (record-fill.ts 708-763); nor do the lots.
NeverOverbooked ==
    \A id \in Rungs :
        BookedFills(orders, id) <= Sizes[id] /\ LotQuantity(log, id) <= Sizes[id]

\* The residual window errs one way and is never compounded: a fill is never on file
\* without its lot, so what is available never reads high, and of the lots without a
\* fill there is at most one (record-fill.ts 26-47).
TornOneWay ==
    /\ FillsWithoutLot(log, orders) = {}
    /\ Cardinality(LotsWithoutFill(log, orders)) <= 1

\* "NEITHER half of the act is on disk" (record-fill.ts 1050-1055): a fill reported
\* rolled back is in neither file.
UndoneIsGone ==
    \A a \in undone : a.id \notin LotsOnLog(log) \cup FillsOnFile(orders)

\* What the act last told the operator stays true, whatever crashes or fails after it:
\* a fill reported recorded is whole, and one reported rolled back is in neither file.
ReportIsTrue ==
    /\ \A a \in recorded :
        FillEvent(a) \in ToSet(log) /\ ToSet(Lines(a)) \subseteq ToSet(orders)
    /\ UndoneIsGone
=============================================================================
