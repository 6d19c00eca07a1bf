------------------------------ MODULE OrderImport ------------------------------
(***************************************************************************)
(* pnpm orders:import and pnpm orders:cancel (apps/tui/src/import-orders*, *)
(* cancel-order.ts) over the rules of packages/engine/src/orders: an       *)
(* export of the venue's open orders is parsed, merged, weighed against    *)
(* orders.jsonl, attributed to reserves and rungs in an interview, checked *)
(* against the reserves' balances, and appended.  The fund is read before  *)
(* the interview, the file too; only the append holds the lock.            *)
(*                                                                         *)
(* A row of the export is a record of its cells; the text of a cell is the *)
(* value it parses to, or the fault that keeps it from parsing.  The three *)
(* descriptors of a placement are one field.                               *)
(***************************************************************************)
EXTENDS OrderRecords

CONSTANTS Traders,     \* processes that run one of the commands
          Exports,     \* the exports of the venue: sequences of rows
          Reserves,    \* the reserves of the fund: [currency, fundable, balance]
          Ladders,     \* the rungs of the plans in force: [plan, rung, price], a sequence
          MaxClock,    \* bound: stamps are 1 .. MaxClock
          File,        \* orders.jsonl when the model starts
          MaxAppends   \* bound: the lines appended to it

\* What a row of an export says once its cells are read.
Rows == [symbol : STRING, side : {"buy", "sell"}, currency : CURRENCIES, at : 1 .. MaxClock,
         price : [value : Nat \ {0}, spelling : STRING], quantity : Nat, filled : Nat,
         fault : STRING, descriptor : STRING]

ASSUME OrderImportAssumption ==
    /\ MaxClock \in Nat /\ MaxAppends \in Nat
    /\ Exports \subseteq Seq(Rows) \ {<<>>}
    /\ DOMAIN Reserves \subseteq STRING
    /\ \A r \in DOMAIN Reserves : Reserves[r].balance \in Nat
    /\ Ladders \in Seq([plan : STRING, rung : STRING, price : Nat])

VARIABLES
    orders,     \* orders.jsonl
    balance,    \* what each reserve holds
    pc,         \* the step each process is about to take
    fund,       \* the balances as the process read them
    export,     \* the export it was given, or <<>>
    records,    \* orders.jsonl as the process read it
    fresh,      \* the lines it is about to append
    done,       \* the export whose import was the last act on the file, or NoImport
    appended,   \* the lines appended so far
    overlapped  \* whether a line was ever appended on a stale read

locals == <<pc, fund, export, records, fresh>>
vars == <<orders, balance, locals, done, appended, overlapped>>

NoImport == [rows |-> <<>>, complete |-> FALSE]
----------------------------------------------------------------------------
(* The export: bitget.ts and ingest.ts.                                    *)

\* "0.50", ".5" and "0.5" are one price.
CanonicalDecimal(token) == [token EXCEPT !.spelling = "canonical"]

SynthesizeOrderId(row) == <<row.symbol, row.side, CanonicalDecimal(row.price), row.at>>

\* Why a row is skipped, in the order of the parser's checks.
RowProblem(row) ==
    IF row.fault = "cells" THEN "malformed"
    ELSE IF row.fault = "pair" THEN "unknown-quote-currency"
    ELSE IF row.quantity <= row.filled THEN "not-resting"
    ELSE IF row.fault = "status" THEN "unknown-status"
    ELSE IF row.fault = "total" THEN "malformed" ELSE "none"

\* Mutant: a row whose status is unknown leaves nothing unweighed.
LeavesRungUnweighedKnown(problem) == problem \in {"malformed", "unknown-quote-currency"}

LeavesRungUnweighed(problem) ==
    problem \in {"malformed", "unknown-status", "unknown-quote-currency"}

\* A row that is kept is a claim: the order of that id, as the venue shows it.
Claim(row) ==
    [id |-> SynthesizeOrderId(row), at |-> row.at, price |-> CanonicalDecimal(row.price),
     side |-> row.side, currency |-> row.currency, descriptor |-> row.descriptor,
     quantity |-> row.quantity, filled |-> row.filled]

Parsed(rows) ==
    LET kept == Kept(rows, { i \in DOMAIN rows : RowProblem(rows[i]) = "none" })
    IN  [i \in DOMAIN kept |-> Claim(kept[i])]

Skips(rows) == { RowProblem(r) : r \in ToSet(rows) } \ {"none"}

\* reportOrdersImport: whether the import is reported as imported, and not imported-partial.
Complete(rows) == \A problem \in Skips(rows) : ~ LeavesRungUnweighed(problem)

\* mergeCollidingClaims: the rows of one id are one claim, of the sum of their sizes.
MergeCollidingClaims(parsed) ==
    LET first == Kept(parsed, { i \in DOMAIN parsed :
                                  \A j \in 1 .. i - 1 : parsed[j].id # parsed[i].id })
        total(id, figures) == Total([j \in DOMAIN parsed |->
                                  IF parsed[j].id = id THEN figures[j] ELSE 0])
        quantities == [j \in DOMAIN parsed |-> parsed[j].quantity]
        filleds == [j \in DOMAIN parsed |-> parsed[j].filled]
    IN  [k \in DOMAIN first |->
            [first[k] EXCEPT !.quantity = total(first[k].id, quantities),
                             !.filled = total(first[k].id, filleds)]]

Claims == [rows \in Exports \cup {<<>>} |-> MergeCollidingClaims(Parsed(rows))]
----------------------------------------------------------------------------
(* What the file knows of a claim: ingest.ts, import-orders-append-filter. *)

LinesAbout(file, kind, id) ==
    Kept(file, { i \in DOMAIN file : file[i].kind = kind /\ file[i].id = id })
PlacedLines(file, id) == LinesAbout(file, "orderPlaced", id)
IsPlaced(file, id) == PlacedLines(file, id) # <<>>

ObservationLines(file, id) ==
    LET seen == LinesAbout(file, "orderFillObserved", id)
    IN  Kept(seen, { i \in DOMAIN seen : \A j \in DOMAIN seen : seen[j].at <= seen[i].at })

\* The last line of the greatest stamp, or <<>>.
LatestObservation(file, id) ==
    LET latest == ObservationLines(file, id) IN IF latest = <<>> THEN <<>> ELSE <<Last(latest)>>

KnownFilled(file, id) ==
    LET latest == LatestObservation(file, id)
    IN  IF latest # <<>> THEN latest[1].quantity ELSE Head(PlacedLines(file, id)).observed

Remaining(file, id) ==
    LET resting == Resting(file) IN IF id \in DOMAIN resting THEN resting[id].remaining ELSE 0

\* The fields of a known claim in which the export differs.
Differences(file, claim) ==
    LET placed == Head(PlacedLines(file, claim.id))
    IN  { f \in {"quantity", "filled", "descriptor"} :
            CASE f = "quantity" -> placed.quantity # claim.quantity
              [] f = "filled" -> KnownFilled(file, claim.id) # claim.filled
              [] f = "descriptor" -> /\ "none" \notin {placed.descriptor, claim.descriptor}
                                     /\ placed.descriptor # claim.descriptor }

DetectChangedClaims(file, claims) ==
    Kept(claims, { i \in DOMAIN claims :
                     IsPlaced(file, claims[i].id) /\ Differences(file, claims[i]) # {} })

\* Mutant: the remainders are not weighed.
PartitionUnweighed(file, claim) ==
    LET differs == Differences(file, claim)
    IN  CASE "quantity" \in differs -> "amended"
          [] "quantity" \notin differs /\ "descriptor" \in differs -> "descriptors"
          [] differs = {"filled"} ->
                IF claim.filled < KnownFilled(file, claim.id) THEN "backwards" ELSE "restated"

\* partitionChangedClaims, of one claim: what refuses the batch, and what is recorded.
Partition(file, claim) ==
    LET differs == Differences(file, claim)
    IN  CASE "quantity" \in differs -> "amended"
          [] "quantity" \notin differs /\ "descriptor" \in differs -> "descriptors"
          [] differs = {"filled"} ->
                IF claim.filled < KnownFilled(file, claim.id) THEN "backwards"
                ELSE IF Remaining(file, claim.id) < claim.quantity - claim.filled
                THEN "amended" ELSE "restated"

\* appendKey: a figure observed again is the same fact, whenever it is observed.
AppendKey(r) ==
    IF r.kind = "orderFillObserved" THEN <<r.kind, r.id, r.quantity>> ELSE <<r.kind, r.id, r.at>>

\* currentClaimKeys: of the observations of a rung, only the latest.
CurrentClaimKeys(file) ==
    { AppendKey(r) : r \in { x \in ToSet(file) :
        x.kind = "orderFillObserved" => LatestObservation(file, x.id) = <<x>> } }

\* The lines that say what the file does not say yet.
FilterAlreadyAppended(file, batch) ==
    LET keys == CurrentClaimKeys(file)
    IN  Kept(batch, { i \in DOMAIN batch : AppendKey(batch[i]) \notin keys })

\* What the two commands leave: a placement at the second of its id, no cancellation
\* before it, and no line about a rung that was never placed.
WellFormed(file) ==
    \A r \in ToSet(file) :
        /\ r.kind = "orderPlaced" => r.at = r.id[4]
        /\ r.kind = "orderCancelled" => r.at >= r.id[4]
        /\ \E s \in ToSet(file) : s.kind = "orderPlaced" /\ s.id = r.id

ASSUME FileAssumption ==
    /\ File \in Seq(OrderLines) /\ WellFormed(File)
    /\ \A r \in ToSet(File) :
        r.at <= MaxClock /\ ReadsBack(r) /\ (r.kind = "orderPlaced" => ~ r.proposed)
----------------------------------------------------------------------------
(* What the reserves can carry: attribution.ts, coverage.ts, available.ts. *)

\* The buys that rest, by their placement line.
CommittedRungs(file) ==
    LET resting == Resting(file)
        line(id) == Head(PlacedLines(file, id))
    IN  [id \in { x \in DOMAIN resting : line(x).side = "buy" } |->
            [reserve |-> line(id).reserve, currency |-> line(id).currency,
             committed |-> line(id).price.value * resting[id].remaining]]

FundableReserves == { r \in DOMAIN Reserves : Reserves[r].fundable }

Unmatched(rungs) ==
    { id \in DOMAIN rungs :
        \/ rungs[id].reserve \notin FundableReserves
        \/ Reserves[rungs[id].reserve].currency # rungs[id].currency }

Committed(rungs, reserve) ==
    SumFunction([id \in { x \in DOMAIN rungs : rungs[x].reserve = reserve }
                    |-> rungs[id].committed])

Available(file, held, reserve) == held[reserve] - Committed(CommittedRungs(file), reserve)

\* checkFundingCoverage: every rung is weighed, the ones on file too.
Covered(rungs, held) ==
    /\ Unmatched(rungs) = {}
    /\ \A reserve \in FundableReserves : Committed(rungs, reserve) <= held[reserve]
----------------------------------------------------------------------------
(* The book: what a file holds that only the commands wrote, one at a time. *)

\* The fold sets what is consumed to the latest observation and only adds to it, so the
\* comparison and the fold agree on which observation is current (changed-claims 107-115,
\* ingest.ts 357-361): a rung is never consumed less than the file knows it filled.
KnownIsConsumed(file) ==
    LET rungs == FoldOrderStream(file)
    IN  \A id \in DOMAIN rungs : KnownFilled(file, id) <= rungs[id].consumed

\* The append filter lets no placement of a rung on file through.
PlacedOnce(file) ==
    \A r, s \in ToSet(file) :
        r.kind = "orderPlaced" /\ s.kind = "orderPlaced" /\ r.id = s.id => r = s

ASSUME BookAssumption ==
    /\ KnownIsConsumed(File) /\ PlacedOnce(File)
    /\ Covered(CommittedRungs(File), [r \in DOMAIN Reserves |-> Reserves[r].balance])
----------------------------------------------------------------------------
(* The join of an order to a rung: import-orders-rung-picks.ts.            *)

MatchRungsByPrice(ladders, price) ==
    Kept(ladders, { i \in DOMAIN ladders : ladders[i].price = price.value })

Pick(rung) == [plan |-> rung.plan, rung |-> rung.rung]

DeclaredJoinsOnFile(file) ==
    { r.pick : r \in { x \in ToSet(file) : x.kind = "orderPlaced" } } \ {NoPick}

\* Mutant: a rung may be proposed to two orders of a batch.
ProposePicksShared(claims, ladders, onFile) ==
    [i \in DOMAIN claims |->
        LET matches == MatchRungsByPrice(ladders, claims[i].price)
        IN  IF Len(matches) = 1 /\ Pick(matches[1]) \notin onFile
            THEN Pick(matches[1]) ELSE NoPick]

\* The one rung declared at the order's price, once over the file and the batch.
ProposePicks(claims, ladders, onFile) ==
    LET pickOf(claim, taken) ==
            LET matches == MatchRungsByPrice(ladders, claim.price)
            IN  IF Len(matches) = 1 /\ Pick(matches[1]) \notin onFile \cup taken
                THEN Pick(matches[1]) ELSE NoPick
        proposed[n \in 0 .. Len(claims)] ==
            IF n = 0 THEN <<>>
            ELSE Append(proposed[n - 1], pickOf(claims[n], ToSet(proposed[n - 1])))
    IN  proposed[Len(claims)]

\* declareFunding: one reserve for the batch, or another for any of its orders.
DeclareFunding(claims) == [DOMAIN claims -> DOMAIN Reserves]

\* The observations of one look at the venue; one that cannot be made is left out.
Observations(restated, now) ==
    LET made == Kept(restated, { i \in DOMAIN restated :
                    BuildOrderFillObserved(restated[i].id, now, restated[i].filled) # {} })
    IN  [i \in DOMAIN made |-> FillObserved(made[i].id, now, made[i].filled)]

\* The menu of an order whose batch was declined: any rung, proposed or not, or none.
OfferRungs(ladders) == { Pick(rung) : rung \in ToSet(ladders) } \cup {NoPick}

\* Whether a pick was taken with all that were proposed is history.
BuildOrderPlacedRecords(claims, reserves, picks, proposals) ==
    [i \in DOMAIN claims |->
        [kind |-> "orderPlaced", id |-> claims[i].id, at |-> claims[i].at,
         quantity |-> claims[i].quantity, observed |-> claims[i].filled,
         price |-> claims[i].price, side |-> claims[i].side, currency |-> claims[i].currency,
         descriptor |-> claims[i].descriptor, reserve |-> reserves[i], pick |-> picks[i],
         proposed |-> picks[i] # NoPick /\ picks = proposals]]
----------------------------------------------------------------------------
Init ==
    /\ orders = File
    /\ balance = [r \in DOMAIN Reserves |-> Reserves[r].balance]
    /\ pc = [p \in Traders |-> "idle"]
    /\ fund = [p \in Traders |-> <<>>]
    /\ export = [p \in Traders |-> <<>>]
    /\ records = [p \in Traders |-> <<>>]
    /\ fresh = [p \in Traders |-> <<>>]
    /\ done = NoImport /\ appended = 0 /\ overlapped = FALSE

\* The seconds it may be: the clock does not go back.
Now == { t \in 1 .. MaxClock : \A r \in ToSet(orders) : r.at <= t }

End(p) ==
    /\ pc' = [pc EXCEPT ![p] = "idle"]
    /\ fund' = [fund EXCEPT ![p] = <<>>]
    /\ export' = [export EXCEPT ![p] = <<>>]
    /\ records' = [records EXCEPT ![p] = <<>>]
    /\ fresh' = [fresh EXCEPT ![p] = <<>>]

\* The CLI reads the fund, then the export; one with no order to read is refused.
StartImport(p) ==
    /\ pc[p] = "idle"
    /\ \E e \in Exports :
        /\ Claims[e] # <<>>
        /\ export' = [export EXCEPT ![p] = e]
    /\ fund' = [fund EXCEPT ![p] = balance]
    /\ pc' = [pc EXCEPT ![p] = "loading"]
    /\ UNCHANGED <<orders, balance, records, fresh, done, appended, overlapped>>

\* The file is read and the batch refused when a claim on file is contradicted.
\* The claims restated become observations; the others go to the interview.
LoadOrders(p) ==
    LET claims == Claims[export[p]]
        restated == DetectChangedClaims(orders, claims)
    IN  /\ pc[p] = "loading"
        /\ \A c \in ToSet(restated) : Partition(orders, c) = "restated"
        /\ records' = [records EXCEPT ![p] = orders]
        /\ \E now \in Now : fresh' = [fresh EXCEPT ![p] = Observations(restated, now)]
        /\ pc' = [pc EXCEPT ![p] = IF Len(restated) = Len(claims) THEN "writing" ELSE "asking"]
        /\ UNCHANGED <<orders, balance, fund, export, done, appended, overlapped>>

\* Mutant: the rungs on file are not weighed.
WeighedAlone(p, placed) == placed \o fresh[p]

Weighed(p, placed) == records[p] \o placed \o fresh[p]

\* The interview: a reserve for each order not restated, and the coverage of the
\* whole book, which no pick changes; a rung for each; what is on file filtered out.
Answer(p) ==
    LET claims == Claims[export[p]]
        changed == ToSet(DetectChangedClaims(records[p], claims))
        admitted == Kept(claims, { i \in DOMAIN claims : claims[i] \notin changed })
        onFile == DeclaredJoinsOnFile(records[p])
    IN  /\ pc[p] = "asking"
        /\ \E reserves \in DeclareFunding(admitted) :
            LET placed(picks, proposals) ==
                    BuildOrderPlacedRecords(admitted, reserves, picks, proposals)
                unpicked == [i \in DOMAIN admitted |-> NoPick]
            IN  /\ Covered(CommittedRungs(Weighed(p, placed(unpicked, <<>>))), fund[p])
                /\ \E ladders \in {Ladders, <<>>} :
                    LET proposals == ProposePicks(admitted, ladders, onFile)
                    IN  \E picks \in [DOMAIN admitted -> OfferRungs(ladders)] :
                            fresh' = [fresh EXCEPT ![p] = FilterAlreadyAppended(records[p],
                                        placed(picks, proposals) \o fresh[p])]
        /\ pc' = [pc EXCEPT ![p] = "writing"]
        /\ UNCHANGED <<orders, balance, fund, export, records, done, appended, overlapped>>

\* orders:cancel: a rung that rests in the file it read, from its placement on.
LoadCancel(p) ==
    /\ pc[p] = "idle"
    /\ LET resting == Resting(orders)
       IN  \E id \in DOMAIN resting : \E at \in resting[id].at .. MaxClock :
            fresh' = [fresh EXCEPT ![p] = <<Cancelled(id, at)>>]
    /\ records' = [records EXCEPT ![p] = orders]
    /\ fund' = [fund EXCEPT ![p] = balance]
    /\ pc' = [pc EXCEPT ![p] = "writing"]
    /\ UNCHANGED <<orders, balance, export, done, appended, overlapped>>

\* Every refusal, an interview abandoned, a failing append, a crash.
Stop(p) ==
    /\ pc[p] # "idle"
    /\ End(p)
    /\ UNCHANGED <<orders, balance, done, appended, overlapped>>

\* One append, under the lock, of what was decided on the file as it was read.
Write(p) ==
    /\ pc[p] = "writing"
    /\ appended + Len(fresh[p]) <= MaxAppends
    /\ appended' = appended + Len(fresh[p])
    /\ orders' = orders \o fresh[p]
    /\ overlapped' = (overlapped \/ orders # records[p] \/ balance # fund[p])
    /\ done' = IF export[p] = <<>> THEN NoImport
               ELSE [rows |-> export[p],
                     complete |-> Complete(export[p])]
    /\ End(p)
    /\ UNCHANGED <<balance>>
----------------------------------------------------------------------------
(* What else moves the file and the fund.                                  *)

\* resolveFunding: only what is debited beyond the fill is weighed.
Funding(id, excess) ==
    LET reserve == Head(PlacedLines(orders, id)).reserve
    IN  excess > 0 => /\ reserve \in FundableReserves
                      /\ excess <= Available(orders, balance, reserve)

\* orders:fill, seen from outside: a lot, its cash and a line, at once.  The stamp is that
\* of the fill, which an import may have observed since; the cash is what the fill comes
\* to, or more.
RecordFill(excess) ==
    LET rungs == CommittedRungs(orders)
        resting == Resting(orders)
    IN  /\ appended < MaxAppends /\ appended' = appended + 1
        /\ \E id \in DOMAIN rungs :
            \E quantity \in 1 .. Min({resting[id].remaining,
                                      resting[id].quantity - BookedFills(orders, id)}),
               at \in resting[id].at .. MaxClock :
                LET debit == Head(PlacedLines(orders, id)).price.value * quantity + excess
                IN  /\ Funding(id, excess)
                    /\ debit <= balance[rungs[id].reserve]
                    /\ balance' = [balance EXCEPT ![rungs[id].reserve] = @ - debit]
                    /\ orders' = Append(orders, Filled(id, at, quantity))
        /\ done' = NoImport
        /\ UNCHANGED <<locals, overlapped>>

Next ==
    \/ \E p \in Traders :
        StartImport(p) \/ LoadOrders(p) \/ Answer(p) \/ LoadCancel(p) \/ Write(p) \/ Stop(p)
    \/ \E excess \in {0, 1} : RecordFill(excess)

Spec == Init /\ [][Next]_vars
----------------------------------------------------------------------------
Steps == {"idle", "loading", "asking", "writing"}

\* Every line on file reads back as the record it was written from.
TypeOK ==
    /\ appended \in 0 .. MaxAppends
    /\ balance \in [DOMAIN Reserves -> Nat]
    /\ pc \in [Traders -> Steps]
    /\ \A p \in Traders :
        /\ pc[p] = "idle" => export[p] = <<>> /\ records[p] = <<>> /\ fresh[p] = <<>>
        /\ pc[p] = "asking" => export[p] # <<>>
    /\ orders \in Seq(OrderLines) /\ \A r \in ToSet(orders) : r.at <= MaxClock /\ ReadsBack(r)

\* The fills of a reserve that were recorded late: stamped before an observation that was
\* on file by then.
RecordedLate(file, reserve) ==
    { i \in DOMAIN file :
        /\ file[i].kind = "orderFilled"
        /\ Head(PlacedLines(file, file[i].id)).reserve = reserve
        /\ \E j \in 1 .. i - 1 : /\ file[j].kind = "orderFillObserved"
                                 /\ file[j].id = file[i].id /\ file[j].at > file[i].at }

\* What was debited for them when the observation had freed it: the fold sets what is
\* consumed at the observation (select.ts 216), and the fill before it frees nothing.
DebitedLate(file, reserve) ==
    SumFunction([i \in RecordedLate(file, reserve) |->
                    Head(PlacedLines(file, file[i].id)).price.value * file[i].quantity])

\* "The invariant is that it is >= 0, ALWAYS" (available.ts 46-60), and how far it is from
\* that: whatever is imported, cancelled and filled, at whatever cost, and as long as no
\* line was appended on a stale read, what the rungs encumber never exceeds what their
\* reserve holds by more than was debited late.  Where no fill is stamped before an
\* observation on file it does not exceed it; where one is, it may (FillKeepsCover).
WithinBalance ==
    ~ overlapped =>
        Covered(CommittedRungs(orders),
                [r \in DOMAIN Reserves |-> balance[r] + DebitedLate(orders, r)])


\* "Makes a re-import idempotent" (import-orders.ts 474-476; append-filter 78-97): once
\* an import is reported, each of its claims is on file at the figure the export shows,
\* so the same export is neither refused nor new; and an import reported complete has
\* left out no row that still rests at the venue.  The figure the next import compares
\* with is the one the fold consumes.
ImportedIsOnFile ==
    LET claims == Claims[done.rows]
    IN  ~ overlapped =>
            /\ KnownIsConsumed(orders)
            /\ \A c \in ToSet(claims) : IsPlaced(orders, c.id)
            /\ DetectChangedClaims(orders, claims) = <<>>
            /\ done.complete => \A row \in ToSet(done.rows) :
                row.quantity > row.filled => IsPlaced(orders, SynthesizeOrderId(row))

\* The selector sorts by the stamps, so the byte order of the file does not change what
\* it means (import-orders.ts 728-731): a rung cancelled after the second it was placed
\* never rests again, even when an import that read it resting observes it afterwards.
CancelledIsGone ==
    \A id \in DOMAIN Resting(orders), r \in ToSet(orders) :
        r.kind = "orderCancelled" /\ r.id = id => r.at = Head(PlacedLines(orders, id)).at

\* A rung is accepted by price for one order only, in the batch and in the file
\* (import-orders-rung-picks.ts 122-152).
OneOrderPerRung ==
    ~ overlapped =>
        \A r, s \in { x \in ToSet(orders) : x.kind = "orderPlaced" /\ x.pick # NoPick } :
            r.proposed /\ s.proposed /\ r.pick = s.pick => r.id = s.id

\* A rung that was cancelled never rests again, and an import records only what lowers a
\* remainder: one used up rests again but on a stale read (import-orders.ts 168-205).
RetiredStaysRetired ==
    [] CancelledIsGone /\
    [][~ overlapped' =>
        DOMAIN Resting(orders') \ DOMAIN Resting(orders)
            \subseteq { r.id : r \in ToSet(orders') } \ { r.id : r \in ToSet(orders) }]_orders
=============================================================================
