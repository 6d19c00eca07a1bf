--------------------------- MODULE OrderImportProofs ---------------------------
(***************************************************************************)
(* What the orders import and the orders cancel promise for any exports,   *)
(* plans, reserves, processes and bounds.                                  *)
(***************************************************************************)
EXTENDS OrderImport, LogLemmas

\* A line is a line for the selectors.
LEMMA LinesAreLines == AreLines(OrderLines)
BY DEF AreLines, OrderLines, PlacedRecords
----------------------------------------------------------------------------
(* A line that is written reads back as the record it was written from.    *)

\* The keys and the values of a line.
LEMMA Serialized ==
    ASSUME NEW r \in OrderLines
    PROVE  /\ r.kind \in KNOWN_KINDS
           /\ DOMAIN SerializeOrderRecord(r) =
                { key \in KEY_ORDER(r.kind) : key \in DOMAIN ABSENT => r[key] # ABSENT[key] }
           /\ \A key \in DOMAIN SerializeOrderRecord(r) : SerializeOrderRecord(r)[key] = r[key]
<1>1. r.kind \in KNOWN_KINDS
  BY DEF OrderLines, PlacedRecords, KNOWN_KINDS, OrderRecord
<1>2. SerializeOrderRecord(r) =
        [key \in { k \in KEY_ORDER(r.kind) : k \in DOMAIN ABSENT => r[k] # ABSENT[k] } |-> r[key]]
  BY DEF SerializeOrderRecord, Restrict
<1> QED BY <1>1, <1>2

LEMMA PlacementReadsBack ==
    ASSUME NEW r \in PlacedRecords
    PROVE  ReadsBack(r)
<1> DEFINE line == SerializeOrderRecord(r)
<1>1. r \in OrderLines /\ r.kind = "orderPlaced"
  BY DEF OrderLines, PlacedRecords
<1>2. KEY_ORDER(r.kind) = OrderRecord["orderPlaced"] /\ OrderRecord["orderPlaced"] =
        {"id", "at", "kind", "currency", "side", "price", "quantity",
         "descriptor", "observed", "reserve", "pick"}
  BY <1>1 DEF KEY_ORDER, OrderRecord
<1>3. /\ DOMAIN line = { key \in OrderRecord["orderPlaced"] :
                            key \in DOMAIN ABSENT => r[key] # ABSENT[key] }
      /\ \A key \in DOMAIN line : line[key] = r[key]
  BY <1>1, <1>2, Serialized
<1>4. DOMAIN ABSENT = {"observed", "descriptor", "pick", "quantity"} /\ ABSENT["quantity"] = 0
  BY DEF ABSENT
<1>5. /\ r.at \in Nat \ {0} /\ r.quantity \in Nat \ {0} /\ r.observed \in Nat
      /\ r.side \in {"buy", "sell"} /\ r.currency \in CURRENCIES /\ r.price.value \in Nat \ {0}
  BY DEF PlacedRecords, Price
<1> HIDE DEF line
<1>6. {"id", "at", "kind", "currency", "side", "price", "quantity", "reserve"} \subseteq DOMAIN line
  BY <1>2, <1>3, <1>4, <1>5
<1>7. /\ line.at = r.at /\ line.kind = r.kind /\ line.side = r.side /\ line.price = r.price
      /\ line.quantity = r.quantity /\ line.currency = r.currency
      /\ "observed" \in DOMAIN line => line.observed = r.observed
  BY <1>3, <1>6
<1>8. StatesItsKind(line)
  BY <1>1, <1>5, <1>6, <1>7 DEF StatesItsKind, IsFinitePositive
<1>9. ParseProblem(line) = "none"
  BY <1>1, <1>5, <1>6, <1>7, <1>8, Serialized DEF ParseProblem, IsObservedAtStamp
<1>10. ASSUME NEW field \in OrderRecord[r.kind] PROVE ParseOrderRecord(line)[field] = r[field]
  <2>1. ParseOrderRecord(line)[field] = IF field \in DOMAIN line THEN line[field] ELSE ABSENT[field]
    BY <1>7 DEF ParseOrderRecord
  <2> QED BY <1>1, <1>3, <2>1
<1> QED BY <1>9, <1>10 DEF ReadsBack, line

LEMMA ChangeReadsBack ==
    ASSUME NEW r \in OrderLines, r \notin PlacedRecords
    PROVE  ReadsBack(r)
<1> DEFINE line == SerializeOrderRecord(r)
<1>1. /\ r.kind \in {"orderCancelled", "orderFilled", "orderFillObserved"}
      /\ r.at \in Nat \ {0} /\ r.quantity \in Nat
      /\ r.kind = "orderCancelled" <=> r.quantity = 0
  BY DEF OrderLines
<1>2. /\ OrderRecord[r.kind] = {"id", "at", "kind", "quantity"}
      /\ KEY_ORDER(r.kind) =
            IF r.kind = "orderCancelled" THEN {"id", "at", "kind"} ELSE {"id", "at", "kind", "quantity"}
  BY <1>1 DEF KEY_ORDER, OrderRecord
<1>3. /\ r.kind \in KNOWN_KINDS
      /\ DOMAIN line = { key \in KEY_ORDER(r.kind) : key \in DOMAIN ABSENT => r[key] # ABSENT[key] }
      /\ \A key \in DOMAIN line : line[key] = r[key]
  BY Serialized
<1>4. DOMAIN ABSENT = {"observed", "descriptor", "pick", "quantity"} /\ ABSENT["quantity"] = 0
  BY DEF ABSENT
<1> HIDE DEF line
<1>5. /\ {"id", "at", "kind"} \subseteq DOMAIN line
      /\ "quantity" \in DOMAIN line <=> r.kind # "orderCancelled"
  BY <1>1, <1>2, <1>3, <1>4
<1>6. line.at = r.at /\ line.kind = r.kind /\ (r.kind # "orderCancelled" => line.quantity = r.quantity)
  BY <1>3, <1>5
<1>7. StatesItsKind(line)
  BY <1>1, <1>5, <1>6 DEF StatesItsKind, IsFinitePositive, BuildOrderFillObserved, IsObservedAtStamp
<1>8. ParseProblem(line) = "none"
  BY <1>1, <1>3, <1>5, <1>6, <1>7 DEF ParseProblem, IsObservedAtStamp
<1>9. ASSUME NEW field \in OrderRecord[r.kind] PROVE ParseOrderRecord(line)[field] = r[field]
  <2>1. ParseOrderRecord(line)[field] = IF field \in DOMAIN line THEN line[field] ELSE ABSENT[field]
    BY <1>6 DEF ParseOrderRecord
  <2>2. CASE field \in DOMAIN line
    BY <1>3, <2>1, <2>2
  <2>3. CASE field \notin DOMAIN line
    <3>1. field = "quantity" /\ r.kind = "orderCancelled"
      BY <1>2, <1>5, <2>3
    <3> QED BY <1>1, <1>4, <2>1, <2>3, <3>1
  <2> QED BY <2>2, <2>3
<1> QED BY <1>8, <1>9 DEF ReadsBack, line

\* loadOrders leaves out no line that one of the commands wrote, and loses nothing of it.
LEMMA EveryLineReadsBack ==
    ASSUME NEW r \in OrderLines
    PROVE  ReadsBack(r)
BY PlacementReadsBack, ChangeReadsBack
----------------------------------------------------------------------------
(* The claims of an export.                                                *)

Claimed ==
    { c \in [id : Ids, at : 1 .. MaxClock, price : Price, side : {"buy", "sell"},
             currency : CURRENCIES, descriptor : STRING, quantity : Nat \ {0}, filled : Nat] :
        c.at = c.id[4] /\ c.filled < c.quantity }

\* A row that is not skipped claims something, at its own second.
LEMMA ClaimType ==
    ASSUME NEW row \in Rows, RowProblem(row) = "none"
    PROVE  Claim(row) \in Claimed
<1>1. row.quantity > row.filled
  BY DEF RowProblem, Rows
<1>2. /\ row.symbol \in STRING /\ row.side \in {"buy", "sell"} /\ row.currency \in CURRENCIES
      /\ row.at \in 1 .. MaxClock /\ row.descriptor \in STRING
      /\ row.price \in [value : Nat \ {0}, spelling : STRING]
      /\ row.quantity \in Nat /\ row.filled \in Nat
  BY DEF Rows
<1>3. CanonicalDecimal(row.price) \in Price
  <2>1. \A price \in [value : Nat \ {0}, spelling : STRING] :
            [price EXCEPT !.spelling = "canonical"] \in Price
    BY DEF Price
  <2> QED BY <1>2, <2>1 DEF CanonicalDecimal
<1>4. row.at \in Nat \ {0}
  BY <1>2, OrderImportAssumption
<1>5. SynthesizeOrderId(row) \in Ids /\ SynthesizeOrderId(row)[4] = row.at
  BY <1>2, <1>3, <1>4 DEF SynthesizeOrderId, Ids
<1> QED BY <1>1, <1>2, <1>3, <1>5 DEF Claim, Claimed

LEMMA ParsedType ==
    ASSUME NEW rows \in Seq(Rows)
    PROVE  /\ Parsed(rows) \in Seq(Claimed)
           /\ \A row \in ToSet(rows) : RowProblem(row) = "none" => Claim(row) \in ToSet(Parsed(rows))
<1> DEFINE good == { i \in DOMAIN rows : RowProblem(rows[i]) = "none" }
           kept == Kept(rows, good)
<1>1. kept \in Seq(Rows) /\ ToSet(kept) = { rows[i] : i \in good \cap DOMAIN rows }
  BY KeptLines
<1>2. Parsed(rows) = [i \in DOMAIN kept |-> Claim(kept[i])]
  BY DEF Parsed
<1> HIDE DEF kept
<1>3. \A i \in DOMAIN kept : kept[i] \in Rows /\ RowProblem(kept[i]) = "none"
  <2>1. \A i \in DOMAIN kept : kept[i] \in ToSet(kept)
    BY DEF ToSet
  <2>2. \A i \in good : rows[i] \in Rows /\ RowProblem(rows[i]) = "none"
    OBVIOUS
  <2> HIDE DEF good
  <2> QED BY <1>1, <2>1, <2>2
<1>4. ASSUME NEW row \in ToSet(rows), RowProblem(row) = "none" PROVE row \in ToSet(kept)
  BY <1>1, <1>4 DEF ToSet
<1>5. Len(kept) \in Nat /\ DOMAIN kept = 1 .. Len(kept)
  BY <1>1
<1> HIDE DEF good
<1>6. \A i \in 1 .. Len(kept) : Claim(kept[i]) \in Claimed
  BY <1>3, <1>5, ClaimType
<1>7. Parsed(rows) \in Seq(Claimed)
  BY <1>2, <1>5, <1>6
<1>8. ToSet(Parsed(rows)) = { Claim(row) : row \in ToSet(kept) }
  BY <1>2 DEF ToSet
<1> QED BY <1>4, <1>7, <1>8

LEMMA SizedAgain ==
    ASSUME NEW c \in Claimed, NEW q \in Nat, NEW f \in Nat, f < q
    PROVE  LET d == [c EXCEPT !.quantity = q, !.filled = f]
           IN  d \in Claimed /\ d.id = c.id
<1> DEFINE d == [c EXCEPT !.quantity = q, !.filled = f]
           All == [id : Ids, at : 1 .. MaxClock, price : Price, side : {"buy", "sell"},
                   currency : CURRENCIES, descriptor : STRING, quantity : Nat \ {0}, filled : Nat]
<1>1. c \in All /\ c.at = c.id[4]
  BY DEF Claimed
<1>2. q \in Nat \ {0}
  OBVIOUS
<1>3. d \in All /\ d.id = c.id /\ d.at = c.at /\ d.quantity = q /\ d.filled = f
  BY <1>1, <1>2
<1> HIDE DEF d
<1>4. d \in Claimed
  BY <1>1, <1>3 DEF Claimed
<1> QED BY <1>3, <1>4 DEF d

\* The claims of one id are merged into one, which claims something still.
LEMMA MergedType ==
    ASSUME NEW parsed \in Seq(Claimed)
    PROVE  /\ MergeCollidingClaims(parsed) \in Seq(Claimed)
           /\ \A c \in ToSet(parsed) :
                \E d \in ToSet(MergeCollidingClaims(parsed)) : d.id = c.id
           /\ \A c, d \in ToSet(MergeCollidingClaims(parsed)) : c.id = d.id => c = d
<1> DEFINE n == Len(parsed)
           firsts == { i \in DOMAIN parsed : \A j \in 1 .. i - 1 : parsed[j].id # parsed[i].id }
           first == Kept(parsed, firsts)
           amounts(id, figures) == [j \in DOMAIN parsed |->
                                      IF parsed[j].id = id THEN figures[j] ELSE 0]
           quantities == [j \in DOMAIN parsed |-> parsed[j].quantity]
           filleds == [j \in DOMAIN parsed |-> parsed[j].filled]
           merged(c) == [c EXCEPT !.quantity = Total(amounts(c.id, quantities)),
                                  !.filled = Total(amounts(c.id, filleds))]
<1>1. n \in Nat /\ DOMAIN parsed = 1 .. n /\ \A j \in 1 .. n : parsed[j] \in Claimed
  OBVIOUS
<1>2. first \in Seq(Claimed) /\ ToSet(first) = { parsed[i] : i \in firsts \cap DOMAIN parsed }
  BY KeptLines
<1>3. MergeCollidingClaims(parsed) = [k \in DOMAIN first |-> merged(first[k])]
  BY DEF MergeCollidingClaims
<1>4. \A j \in 1 .. n : /\ parsed[j].quantity \in Nat /\ parsed[j].filled \in Nat
                        /\ parsed[j].filled < parsed[j].quantity
  BY <1>1 DEF Claimed
<1> HIDE DEF n
<1>5. \A j \in 1 .. n : quantities[j] = parsed[j].quantity /\ filleds[j] = parsed[j].filled
  BY <1>1
<1> HIDE DEF quantities, filleds
<1>6. ASSUME NEW i \in 1 .. n PROVE merged(parsed[i]) \in Claimed /\ merged(parsed[i]).id = parsed[i].id
  <2> DEFINE id == parsed[i].id
             s == amounts(id, filleds)
             t == amounts(id, quantities)
  <2>1. /\ s \in Seq(Nat) /\ t \in Seq(Nat) /\ Len(s) = n /\ Len(t) = n
        /\ \A k \in 1 .. n : s[k] <= t[k]
        /\ s[i] < t[i]
    <3>1. s = [j \in 1 .. n |-> IF parsed[j].id = id THEN parsed[j].filled ELSE 0]
      BY <1>1, <1>5
    <3>2. t = [j \in 1 .. n |-> IF parsed[j].id = id THEN parsed[j].quantity ELSE 0]
      BY <1>1, <1>5
    <3>3. s[i] = parsed[i].filled /\ t[i] = parsed[i].quantity
      BY <3>1, <3>2
    <3>4. n \in Nat
      BY DEF n
    <3> HIDE DEF s, t, id
    <3>5. s \in Seq(Nat) /\ Len(s) = n
      BY <1>4, <3>1, <3>4
    <3>6. t \in Seq(Nat) /\ Len(t) = n
      BY <1>4, <3>2, <3>4
    <3>7. \A k \in 1 .. n : s[k] <= t[k]
      BY <1>4, <3>1, <3>2
    <3>8. s[i] < t[i]
      BY <1>4, <3>3
    <3> QED BY <3>5, <3>6, <3>7, <3>8
  <2> HIDE DEF s, t
  <2>2. Total(s) < Total(t)
    BY <2>1, TotalBelow
  <2>3. Total(s) \in Nat /\ Total(t) \in Nat
    BY <2>1, TotalNat
  <2>4. merged(parsed[i]) = [parsed[i] EXCEPT !.quantity = Total(t), !.filled = Total(s)]
    BY DEF s, t
  <2>5. parsed[i] \in Claimed
    BY <1>1
  <2>6. LET d == [parsed[i] EXCEPT !.quantity = Total(t), !.filled = Total(s)]
        IN  d \in Claimed /\ d.id = parsed[i].id
    <3> HIDE DEF Claimed
    <3> QED BY <2>2, <2>3, <2>5, SizedAgain
  <2> HIDE DEF merged
  <2> QED BY <2>4, <2>6
<1>7. \A k \in DOMAIN first : \E i \in firsts : first[k] = parsed[i]
  <2> HIDE DEF first, firsts
  <2>1. \A k \in DOMAIN first : first[k] \in ToSet(first)
    BY DEF ToSet
  <2> QED BY <1>2, <2>1
<1>8. Len(first) \in Nat /\ DOMAIN first = 1 .. Len(first) /\ firsts \subseteq 1 .. n
  <2>1. firsts \subseteq 1 .. n
    BY <1>1
  <2> HIDE DEF first, firsts
  <2> QED BY <1>2, <2>1
<1> DEFINE list == MergeCollidingClaims(parsed)
<1> HIDE DEF first, merged
<1>9. \A k \in 1 .. Len(first) : merged(first[k]) \in Claimed
  BY <1>6, <1>7, <1>8
<1>10. list \in Seq(Claimed)
  BY <1>3, <1>8, <1>9
<1>11. ToSet(list) = { merged(parsed[i]) : i \in firsts }
  <2>1. ToSet(list) = { merged(c) : c \in ToSet(first) }
    BY <1>3 DEF ToSet
  <2>2. ToSet(first) = { parsed[i] : i \in firsts }
    BY <1>1, <1>2, <1>8
  <2> QED BY <2>1, <2>2
<1>12. ASSUME NEW i \in 1 .. n PROVE \E j \in firsts : parsed[j].id = parsed[i].id
  <2> DEFINE Twins == { j \in 1 .. n : parsed[j].id = parsed[i].id }
  <2>1. Twins \in SUBSET Nat /\ Twins # {}
    OBVIOUS
  <2> HIDE DEF Twins
  <2>2. PICK j \in Twins : \A m \in Twins : j <= m
    BY <2>1, LeastMember
  <2>3. j \in 1 .. n /\ parsed[j].id = parsed[i].id
    BY <2>2 DEF Twins
  <2>4. ASSUME NEW m \in 1 .. j - 1, parsed[m].id = parsed[j].id PROVE FALSE
    <3>1. m \in Twins /\ m < j
      BY <2>3, <2>4 DEF Twins, n
    <3> QED BY <2>2, <2>3, <3>1
  <2> QED BY <1>1, <2>3, <2>4
<1>13. \A c \in ToSet(parsed) : \E d \in ToSet(list) : d.id = c.id
  <2> SUFFICES ASSUME NEW i \in 1 .. n PROVE \E d \in ToSet(list) : d.id = parsed[i].id
    BY <1>1 DEF ToSet
  <2>1. PICK j \in firsts : parsed[j].id = parsed[i].id
    BY <1>12
  <2> QED BY <1>6, <1>8, <1>11, <2>1
<1>14. ASSUME NEW i \in firsts, NEW j \in firsts, parsed[i].id = parsed[j].id PROVE i = j
  <2>1. i \in 1 .. n /\ j \in 1 .. n /\ n \in Nat
    BY <1>8 DEF n
  <2>2. ~ (i < j) /\ ~ (j < i)
    BY <1>14, <2>1
  <2> QED BY <2>1, <2>2
<1>15. \A c, d \in ToSet(list) : c.id = d.id => c = d
  BY <1>6, <1>8, <1>11, <1>14
<1> QED BY <1>10, <1>13, <1>15

\* The claims of every export the model is given.
LEMMA ClaimsType ==
    ASSUME NEW rows \in Exports \cup {<<>>}
    PROVE  /\ Claims[rows] \in Seq(Claimed)
           /\ \A c, d \in ToSet(Claims[rows]) : c.id = d.id => c = d
           /\ \A row \in ToSet(rows) : RowProblem(row) = "none" =>
                \E c \in ToSet(Claims[rows]) : c.id = SynthesizeOrderId(row)
<1>1. rows \in Seq(Rows)
  BY OrderImportAssumption, EmptyLog
<1>2. Claims[rows] = MergeCollidingClaims(Parsed(rows))
  BY DEF Claims
<1>3. \A row : Claim(row).id = SynthesizeOrderId(row)
  BY DEF Claim
<1> QED BY <1>1, <1>2, <1>3, ParsedType, MergedType
----------------------------------------------------------------------------
(* What the operators of the two commands return.                          *)

LEMMA LinesAboutAre ==
    ASSUME NEW file \in Seq(OrderLines), NEW kind, NEW id
    PROVE  /\ LinesAbout(file, kind, id) \in Seq(OrderLines)
           /\ ToSet(LinesAbout(file, kind, id)) =
                { r \in ToSet(file) : r.kind = kind /\ r.id = id }
<1> DEFINE places == { i \in DOMAIN file : file[i].kind = kind /\ file[i].id = id }
<1>1. LinesAbout(file, kind, id) = Kept(file, places)
  BY DEF LinesAbout
<1>2. { file[i] : i \in places \cap DOMAIN file } = { r \in ToSet(file) : r.kind = kind /\ r.id = id }
  BY DEF ToSet
<1> HIDE DEF places
<1> QED BY <1>1, <1>2, KeptLines

\* A rung is on file if one of its lines is a placement, and its first one is.
LEMMA PlacedLinesAre ==
    ASSUME NEW file \in Seq(OrderLines), NEW id
    PROVE  /\ IsPlaced(file, id) <=> \E r \in ToSet(file) : r.kind = "orderPlaced" /\ r.id = id
           /\ IsPlaced(file, id) =>
                /\ Head(PlacedLines(file, id)) \in ToSet(file)
                /\ Head(PlacedLines(file, id)) \in PlacedRecords
                /\ Head(PlacedLines(file, id)).id = id
<1> DEFINE lines == PlacedLines(file, id)
<1>1. lines \in Seq(OrderLines) /\ ToSet(lines) =
        { r \in ToSet(file) : r.kind = "orderPlaced" /\ r.id = id }
  BY LinesAboutAre DEF PlacedLines
<1>2. IsPlaced(file, id) <=> lines # <<>>
  BY DEF IsPlaced
<1> HIDE DEF lines
<1>3. lines = <<>> <=> ToSet(lines) = {}
  BY <1>1 DEF ToSet
<1>4. lines # <<>> => Head(lines) \in ToSet(lines)
  BY <1>1 DEF ToSet
<1>5. \A r \in ToSet(file) : r.kind = "orderPlaced" => r \in PlacedRecords
  BY MembersType DEF OrderLines
<1> QED BY <1>1, <1>2, <1>3, <1>4, <1>5 DEF lines

\* A rung that rests was placed by a line on file, at the second of its id.
LEMMA RestingOnFile ==
    ASSUME NEW file \in Seq(OrderLines), WellFormed(file), NEW id \in DOMAIN Resting(file)
    PROVE  /\ id \in Ids /\ IsPlaced(file, id)
           /\ Resting(file)[id].at = id[4]
           /\ Resting(file)[id].quantity \in Nat /\ Resting(file)[id].remaining \in Nat \ {0}
<1> DEFINE rung == FoldOrderStream(file)[id]
<1>1. /\ id \in DOMAIN FoldOrderStream(file)
      /\ Resting(file)[id].at = rung.placed.at /\ Resting(file)[id].quantity = rung.placed.quantity
      /\ Resting(file)[id].remaining \in Nat \ {0}
  BY LinesAreLines, RestingType
<1>2. rung.placed \in ToSet(file) /\ rung.placed.id = id /\ rung.placed.kind = "orderPlaced"
  BY <1>1, LinesAreLines, FoldType
<1> HIDE DEF rung
<1>3. rung.placed \in OrderLines /\ rung.placed.at = id[4]
  BY <1>2, MembersType DEF WellFormed
<1>4. id \in Ids /\ rung.placed.quantity \in Nat
  BY <1>2, <1>3 DEF OrderLines, PlacedRecords
<1> QED BY <1>1, <1>2, <1>3, <1>4, PlacedLinesAre

LEMMA ChangedAre ==
    ASSUME NEW file, NEW claims \in Seq(Claimed)
    PROVE  /\ DetectChangedClaims(file, claims) \in Seq(Claimed)
           /\ ToSet(DetectChangedClaims(file, claims)) =
                { c \in ToSet(claims) : IsPlaced(file, c.id) /\ Differences(file, c) # {} }
<1> DEFINE places == { i \in DOMAIN claims : IsPlaced(file, claims[i].id)
                                             /\ Differences(file, claims[i]) # {} }
<1>1. DetectChangedClaims(file, claims) = Kept(claims, places)
  BY DEF DetectChangedClaims
<1>2. { claims[i] : i \in places \cap DOMAIN claims } =
        { c \in ToSet(claims) : IsPlaced(file, c.id) /\ Differences(file, c) # {} }
  BY DEF ToSet
<1> HIDE DEF places
<1> QED BY <1>1, <1>2, KeptLines

\* A claim that is restated is one of a rung that rests: it claims no more than remains.
LEMMA RestatedRests ==
    ASSUME NEW file, NEW c \in Claimed, Differences(file, c) # {}, Partition(file, c) = "restated"
    PROVE  /\ c.id \in DOMAIN Resting(file)
           /\ Differences(file, c) = {"filled"}
<1> DEFINE differs == Differences(file, c)
<1>1. differs \subseteq {"quantity", "filled", "descriptor"} /\ differs # {}
  BY DEF Differences
<1>2. Partition(file, c) =
        CASE "quantity" \in differs -> "amended"
          [] "quantity" \notin differs /\ "descriptor" \in differs -> "descriptors"
          [] differs = {"filled"} ->
                IF c.filled < KnownFilled(file, c.id) THEN "backwards"
                ELSE IF Remaining(file, c.id) < c.quantity - c.filled THEN "amended" ELSE "restated"
  BY DEF Partition
<1> HIDE DEF differs
<1>3. differs = {"filled"} /\ ~ (Remaining(file, c.id) < c.quantity - c.filled)
  <2>1. "quantity" \notin differs
    BY <1>2
  <2>2. "descriptor" \notin differs
    BY <1>2, <2>1
  <2>3. differs = {"filled"}
    BY <1>1, <2>1, <2>2
  <2> QED BY <1>2, <2>1, <2>2, <2>3
<1>4. c.quantity \in Nat /\ c.filled \in Nat /\ c.filled < c.quantity
  BY DEF Claimed
<1>5. c.id \notin DOMAIN Resting(file) => Remaining(file, c.id) = 0
  BY DEF Remaining
<1> QED BY <1>3, <1>4, <1>5 DEF differs

\* The observations are lines of the second of the look, each of a claim.
LEMMA ObservationsAre ==
    ASSUME NEW restated \in Seq(Claimed), NEW now \in 1 .. MaxClock
    PROVE  /\ Observations(restated, now) \in Seq(OrderLines)
           /\ ToSet(Observations(restated, now)) =
                { FillObserved(c.id, now, c.filled) : c \in { x \in ToSet(restated) : x.filled > 0 } }
<1> DEFINE places == { i \in DOMAIN restated :
                         BuildOrderFillObserved(restated[i].id, now, restated[i].filled) # {} }
           made == Kept(restated, places)
<1>1. now \in Nat \ {0}
  BY OrderImportAssumption
<1>2. \A i \in DOMAIN restated : restated[i] \in Claimed /\ restated[i].filled \in Nat
  BY DEF Claimed
<1>3. places = { i \in DOMAIN restated : restated[i].filled > 0 }
  BY <1>1, <1>2 DEF BuildOrderFillObserved, IsObservedAtStamp, IsFinitePositive
<1>4. made \in Seq(Claimed) /\ ToSet(made) = { restated[i] : i \in places \cap DOMAIN restated }
  BY KeptLines
<1>5. { restated[i] : i \in places \cap DOMAIN restated } = { x \in ToSet(restated) : x.filled > 0 }
  BY <1>3 DEF ToSet
<1>6. Observations(restated, now) = [i \in DOMAIN made |-> FillObserved(made[i].id, now, made[i].filled)]
  BY DEF Observations
<1> HIDE DEF places, made
<1>7. DOMAIN made = 1 .. Len(made) /\ Len(made) \in Nat
  BY <1>4
<1>8. ASSUME NEW i \in 1 .. Len(made) PROVE FillObserved(made[i].id, now, made[i].filled) \in OrderLines
  <2>1. made[i] \in Claimed /\ made[i].filled > 0
    BY <1>4, <1>5, <1>7 DEF ToSet
  <2>2. made[i].id \in Ids /\ made[i].filled \in Nat \ {0}
    BY <2>1 DEF Claimed
  <2> QED BY <1>1, <2>2 DEF FillObserved, OrderLines
<1>9. Observations(restated, now) \in Seq(OrderLines)
  BY <1>6, <1>7, <1>8
<1>10. ToSet(Observations(restated, now)) = { FillObserved(c.id, now, c.filled) : c \in ToSet(made) }
  BY <1>6 DEF ToSet
<1> QED BY <1>4, <1>5, <1>9, <1>10

\* What is on file already is filtered out, a placement of a rung placed before it too.
LEMMA FilteredAre ==
    ASSUME NEW file \in Seq(OrderLines), NEW batch \in Seq(OrderLines)
    PROVE  /\ FilterAlreadyAppended(file, batch) \in Seq(OrderLines)
           /\ ToSet(FilterAlreadyAppended(file, batch)) =
                { r \in ToSet(batch) : AppendKey(r) \notin CurrentClaimKeys(file) }
           /\ \A r \in ToSet(FilterAlreadyAppended(file, batch)) : \A s \in ToSet(file) :
                r.kind = "orderPlaced" /\ s.kind = "orderPlaced" /\ r.at = s.at => r.id # s.id
<1> DEFINE keys == CurrentClaimKeys(file)
           places == { i \in DOMAIN batch : AppendKey(batch[i]) \notin keys }
           new == FilterAlreadyAppended(file, batch)
<1>1. new = Kept(batch, places)
  BY DEF FilterAlreadyAppended
<1>2. { batch[i] : i \in places \cap DOMAIN batch } = { r \in ToSet(batch) : AppendKey(r) \notin keys }
  BY DEF ToSet
<1>3. new \in Seq(OrderLines) /\ ToSet(new) = { r \in ToSet(batch) : AppendKey(r) \notin keys }
  <2> HIDE DEF places, keys, new
  <2> QED BY <1>1, <1>2, KeptLines
<1>4. ASSUME NEW r \in ToSet(new), NEW s \in ToSet(file),
             r.kind = "orderPlaced", s.kind = "orderPlaced", r.at = s.at, r.id = s.id
      PROVE  FALSE
  <2>1. AppendKey(s) \in keys
    BY <1>4 DEF CurrentClaimKeys
  <2>2. AppendKey(r) = AppendKey(s)
    BY <1>4 DEF AppendKey
  <2> QED BY <1>3, <2>1, <2>2
<1> QED BY <1>3, <1>4

\* The placements are lines, each of its claim.
LEMMA PlacementsAre ==
    ASSUME NEW claims \in Seq(Claimed), NEW reserves \in DeclareFunding(claims),
           NEW picks \in [DOMAIN claims -> Picks], NEW proposals
    PROVE  LET placed == BuildOrderPlacedRecords(claims, reserves, picks, proposals)
           IN  /\ placed \in Seq(OrderLines) /\ DOMAIN placed = DOMAIN claims
               /\ \A i \in DOMAIN claims :
                    /\ placed[i] \in PlacedRecords
                    /\ placed[i].id = claims[i].id /\ placed[i].at = claims[i].at
                    /\ placed[i].quantity = claims[i].quantity
                    /\ placed[i].observed = claims[i].filled
                    /\ placed[i].descriptor = claims[i].descriptor
                    /\ placed[i].pick = picks[i]
                    /\ placed[i].proposed <=> picks[i] # NoPick /\ picks = proposals
<1> DEFINE placed == BuildOrderPlacedRecords(claims, reserves, picks, proposals)
           taken(i) == picks[i] # NoPick /\ picks = proposals
           line(i) == [kind |-> "orderPlaced", id |-> claims[i].id, at |-> claims[i].at,
                       quantity |-> claims[i].quantity, observed |-> claims[i].filled,
                       price |-> claims[i].price, side |-> claims[i].side,
                       currency |-> claims[i].currency, descriptor |-> claims[i].descriptor,
                       reserve |-> reserves[i], pick |-> picks[i], proposed |-> taken(i)]
<1>1. DOMAIN claims = 1 .. Len(claims) /\ Len(claims) \in Nat
  OBVIOUS
<1>2. placed = [i \in DOMAIN claims |-> line(i)]
  BY DEF BuildOrderPlacedRecords
<1>3. ASSUME NEW i \in DOMAIN claims PROVE line(i) \in PlacedRecords
  <2>1. /\ claims[i].id \in Ids /\ claims[i].at \in 1 .. MaxClock
        /\ claims[i].price \in Price /\ claims[i].side \in {"buy", "sell"}
        /\ claims[i].currency \in CURRENCIES /\ claims[i].descriptor \in STRING
        /\ claims[i].quantity \in Nat \ {0} /\ claims[i].filled \in Nat
    BY DEF Claimed
  <2>2. claims[i].at \in Nat \ {0}
    BY <2>1, OrderImportAssumption
  <2>3. reserves[i] \in STRING
    BY OrderImportAssumption DEF DeclareFunding
  <2>4. picks[i] \in Picks /\ taken(i) \in BOOLEAN
    OBVIOUS
  <2> HIDE DEF taken
  <2> QED BY <2>1, <2>2, <2>3, <2>4 DEF PlacedRecords
<1> HIDE DEF taken
<1>4. \A i \in DOMAIN claims :
        /\ line(i).id = claims[i].id /\ line(i).at = claims[i].at
        /\ line(i).quantity = claims[i].quantity /\ line(i).observed = claims[i].filled
        /\ line(i).descriptor = claims[i].descriptor
        /\ line(i).pick = picks[i] /\ (line(i).proposed <=> taken(i))
  BY Zenon
<1> HIDE DEF line, placed
<1>5. placed \in Seq(OrderLines)
  BY <1>1, <1>2, <1>3 DEF OrderLines
<1>6. DOMAIN placed = DOMAIN claims /\ \A i \in DOMAIN claims : placed[i] = line(i)
  BY <1>2
<1> QED BY <1>3, <1>4, <1>5, <1>6 DEF placed, taken

\* Every rung the menu offers is a pick.
LEMMA OffersArePicks ==
    ASSUME NEW ladders \in {Ladders, <<>>}
    PROVE  OfferRungs(ladders) \subseteq Picks
<1>1. ladders \in Seq([plan : STRING, rung : STRING, price : Nat])
  BY OrderImportAssumption, EmptyLog
<1>2. \A rung \in ToSet(ladders) : rung \in [plan : STRING, rung : STRING, price : Nat]
  BY <1>1, MembersType
<1> QED BY <1>2 DEF OfferRungs, Pick, Picks
----------------------------------------------------------------------------
(* The inductive invariant: every line that a process is about to append   *)
(* is news about the file as it read it, a placement of a rung that is not *)
(* on file or a change of one that rests, at a second that fits its id.    *)

IsDated(r) ==
    /\ r.at <= MaxClock
    /\ r.kind = "orderPlaced" => r.at = r.id[4]
    /\ r.kind = "orderCancelled" => r.at >= r.id[4]

IsNews(r, file) ==
    \/ r.id \in DOMAIN Resting(file)
    \/ r.kind = "orderPlaced" /\ \A s \in ToSet(file) : s.kind = "orderPlaced" => s.id # r.id

LocalsOK ==
    /\ export \in [Traders -> Exports \cup {<<>>}]
    /\ records \in [Traders -> Seq(OrderLines)] /\ fresh \in [Traders -> Seq(OrderLines)]

Held(p) ==
    /\ pc[p] \in {"loading", "asking"} => export[p] \in Exports
    /\ pc[p] \in {"idle", "loading"} => records[p] = <<>> /\ fresh[p] = <<>>
    /\ pc[p] = "asking" => \A r \in ToSet(fresh[p]) : r.kind = "orderFillObserved"
    /\ WellFormed(records[p]) /\ ToSet(records[p]) \subseteq ToSet(orders)
    /\ \A r \in ToSet(fresh[p]) : IsDated(r) /\ IsNews(r, records[p])

IInv == TypeOK /\ WellFormed(orders) /\ LocalsOK /\ \A p \in Traders : Held(p)

LEMMA EmptyIsWellFormed == WellFormed(<<>>) /\ ToSet(<<>>) = {}
BY DEF WellFormed, ToSet

\* News about a file is news that the file may be given, and that any longer one may.
LEMMA NewsIsPlaced ==
    ASSUME NEW file \in Seq(OrderLines), WellFormed(file), NEW r, IsNews(r, file)
    PROVE  r.kind = "orderPlaced" \/ \E s \in ToSet(file) : s.kind = "orderPlaced" /\ s.id = r.id
<1>1. CASE r.id \in DOMAIN Resting(file)
  BY <1>1, RestingOnFile, PlacedLinesAre
<1>2. CASE r.kind = "orderPlaced"
  BY <1>2
<1> QED BY <1>1, <1>2 DEF IsNews

LEMMA GrownIsWellFormed ==
    ASSUME NEW file \in Seq(OrderLines), WellFormed(file), NEW new \in Seq(OrderLines),
           \A r \in ToSet(new) : /\ IsDated(r)
                                 /\ \/ r.kind = "orderPlaced"
                                    \/ \E s \in ToSet(file) : s.kind = "orderPlaced" /\ s.id = r.id
    PROVE  WellFormed(file \o new)
<1>1. ToSet(file \o new) = ToSet(file) \cup ToSet(new)
  BY AppendedOnly
<1> QED BY <1>1 DEF WellFormed, IsDated

LEMMA InitHolds ==
    ASSUME Init PROVE IInv
<1>1. TypeOK
  <2>1. appended \in 0 .. MaxAppends /\ balance \in [DOMAIN Reserves -> Nat]
    BY OrderImportAssumption DEF Init
  <2>2. orders \in Seq(OrderLines) /\ \A r \in ToSet(orders) : r.at <= MaxClock /\ ReadsBack(r)
    BY FileAssumption DEF Init
  <2>3. pc \in [Traders -> Steps] /\ \A p \in Traders :
            pc[p] = "idle" /\ export[p] = <<>> /\ records[p] = <<>> /\ fresh[p] = <<>>
    BY DEF Init, Steps
  <2> QED BY <2>1, <2>2, <2>3 DEF TypeOK
<1>2. WellFormed(orders)
  BY FileAssumption DEF Init
<1>3. LocalsOK
  BY EmptyLog DEF Init, LocalsOK
<1>4. \A p \in Traders : Held(p)
  BY EmptyIsWellFormed DEF Init, Held
<1> QED BY <1>1, <1>2, <1>3, <1>4 DEF IInv

\* What the others hold stays true when a process moves on and the file only grows.
LEMMA OthersHold ==
    ASSUME IInv, NEW p \in Traders, NEW s \in Steps,
           pc' = [pc EXCEPT ![p] = s],
           export' \in [Traders -> Exports \cup {<<>>}],
           records' \in [Traders -> Seq(OrderLines)], fresh' \in [Traders -> Seq(OrderLines)],
           \A q \in Traders \ {p} :
                export'[q] = export[q] /\ records'[q] = records[q] /\ fresh'[q] = fresh[q],
           ToSet(orders) \subseteq ToSet(orders'), Held(p)'
    PROVE  /\ LocalsOK' /\ (\A q \in Traders : Held(q))'
           /\ pc' \in [Traders -> Steps] /\ \A q \in Traders \ {p} : pc'[q] = pc[q]
<1>1. LocalsOK'
  BY DEF LocalsOK
<1>2. pc' \in [Traders -> Steps] /\ \A q \in Traders \ {p} : pc'[q] = pc[q]
  BY DEF IInv, TypeOK
<1>3. ASSUME NEW q \in Traders \ {p} PROVE Held(q)'
  <2>1. Held(q)
    BY DEF IInv
  <2>2. export'[q] = export[q] /\ records'[q] = records[q] /\ fresh'[q] = fresh[q] /\ pc'[q] = pc[q]
    BY <1>2
  <2> QED BY <2>1, <2>2 DEF Held
<1> QED BY <1>1, <1>2, <1>3

LEMMA StartImportKeeps ==
    ASSUME IInv, NEW p \in Traders, StartImport(p)
    PROVE  IInv'
<1>0. TypeOK /\ LocalsOK /\ Held(p) /\ "loading" \in Steps
  BY DEF IInv, Steps
<1>1. PICK e \in Exports : export' = [export EXCEPT ![p] = e]
  BY DEF StartImport
<1>2. /\ pc[p] = "idle" /\ pc' = [pc EXCEPT ![p] = "loading"] /\ pc'[p] = "loading"
      /\ UNCHANGED <<orders, balance, records, fresh, appended>>
  BY <1>0 DEF StartImport, TypeOK
<1>3. export' \in [Traders -> Exports \cup {<<>>}] /\ export'[p] = e
      /\ \A q \in Traders \ {p} : export'[q] = export[q]
  BY <1>0, <1>1 DEF LocalsOK
<1>4. Held(p)'
  BY <1>0, <1>2, <1>3 DEF Held
<1>5. /\ LocalsOK' /\ (\A q \in Traders : Held(q))'
      /\ pc' \in [Traders -> Steps] /\ \A q \in Traders \ {p} : pc'[q] = pc[q]
  BY <1>0, <1>2, <1>3, <1>4, OthersHold DEF LocalsOK
<1>6. TypeOK'
  BY <1>0, <1>2, <1>3, <1>5 DEF TypeOK, Held
<1> QED BY <1>2, <1>5, <1>6 DEF IInv, WellFormed

LEMMA StopKeeps ==
    ASSUME IInv, NEW p \in Traders, Stop(p)
    PROVE  IInv'
<1>0. TypeOK /\ LocalsOK /\ "idle" \in Steps /\ <<>> \in Seq(OrderLines)
  BY EmptyLog DEF IInv, Steps
<1>1. /\ pc' = [pc EXCEPT ![p] = "idle"] /\ pc'[p] = "idle"
      /\ export' = [export EXCEPT ![p] = <<>>] /\ records' = [records EXCEPT ![p] = <<>>]
      /\ fresh' = [fresh EXCEPT ![p] = <<>>] /\ UNCHANGED <<orders, balance, appended>>
  BY <1>0 DEF Stop, End, TypeOK
<1>2. /\ export' \in [Traders -> Exports \cup {<<>>}] /\ records' \in [Traders -> Seq(OrderLines)]
      /\ fresh' \in [Traders -> Seq(OrderLines)]
      /\ export'[p] = <<>> /\ records'[p] = <<>> /\ fresh'[p] = <<>>
      /\ \A q \in Traders \ {p} :
            export'[q] = export[q] /\ records'[q] = records[q] /\ fresh'[q] = fresh[q]
  BY <1>0, <1>1 DEF LocalsOK
<1>3. Held(p)'
  BY <1>1, <1>2, EmptyIsWellFormed DEF Held
<1>4. /\ LocalsOK' /\ (\A q \in Traders : Held(q))'
      /\ pc' \in [Traders -> Steps] /\ \A q \in Traders \ {p} : pc'[q] = pc[q]
  BY <1>0, <1>1, <1>2, <1>3, OthersHold
<1>5. TypeOK'
  BY <1>0, <1>1, <1>2, <1>4 DEF TypeOK, Held
<1> QED BY <1>1, <1>4, <1>5 DEF IInv, WellFormed

LEMMA LoadOrdersKeeps ==
    ASSUME IInv, NEW p \in Traders, LoadOrders(p)
    PROVE  IInv'
<1> DEFINE claims == Claims[export[p]]
           restated == DetectChangedClaims(orders, claims)
<1>0. /\ TypeOK /\ LocalsOK /\ Held(p) /\ WellFormed(orders) /\ orders \in Seq(OrderLines)
      /\ {"writing", "asking"} \subseteq Steps
  BY DEF IInv, TypeOK, Steps
<1>1. PICK now \in Now : fresh' = [fresh EXCEPT ![p] = Observations(restated, now)]
  BY DEF LoadOrders
<1>2. PICK s \in {"writing", "asking"} : pc' = [pc EXCEPT ![p] = s]
  BY DEF LoadOrders
<1>3. /\ pc[p] = "loading" /\ records' = [records EXCEPT ![p] = orders]
      /\ \A c \in ToSet(restated) : Partition(orders, c) = "restated"
      /\ UNCHANGED <<orders, balance, export, appended>>
  BY DEF LoadOrders
<1>4. claims \in Seq(Claimed) /\ export[p] \in Exports /\ now \in 1 .. MaxClock
  <2>1. export[p] \in Exports
    BY <1>0, <1>3 DEF Held
  <2> QED BY <2>1, ClaimsType DEF Now
<1> HIDE DEF claims
<1>5. restated \in Seq(Claimed) /\ ToSet(restated) =
        { c \in ToSet(claims) : IsPlaced(orders, c.id) /\ Differences(orders, c) # {} }
  BY <1>4, ChangedAre
<1>6. \A c \in ToSet(restated) : c \in Claimed /\ c.id \in DOMAIN Resting(orders)
  <2>1. ToSet(restated) \subseteq Claimed
    BY <1>5, MembersType
  <2> QED BY <1>3, <1>5, <2>1, RestatedRests
<1> HIDE DEF restated
<1>7. /\ Observations(restated, now) \in Seq(OrderLines)
      /\ ToSet(Observations(restated, now)) =
           { FillObserved(c.id, now, c.filled) : c \in { x \in ToSet(restated) : x.filled > 0 } }
  BY <1>4, <1>5, ObservationsAre
<1>8. ASSUME NEW r \in ToSet(Observations(restated, now))
      PROVE  IsDated(r) /\ IsNews(r, orders) /\ r.kind = "orderFillObserved"
  <2>1. PICK c \in ToSet(restated) : r = FillObserved(c.id, now, c.filled)
    BY <1>7
  <2> QED BY <1>4, <1>6, <2>1 DEF FillObserved, IsDated, IsNews
<1>9. /\ export' \in [Traders -> Exports \cup {<<>>}] /\ records' \in [Traders -> Seq(OrderLines)]
      /\ fresh' \in [Traders -> Seq(OrderLines)]
      /\ export'[p] = export[p] /\ records'[p] = orders /\ fresh'[p] = Observations(restated, now)
      /\ \A q \in Traders \ {p} :
            export'[q] = export[q] /\ records'[q] = records[q] /\ fresh'[q] = fresh[q]
  BY <1>0, <1>1, <1>3, <1>7 DEF LocalsOK
<1>10. pc'[p] = s
  BY <1>0, <1>2 DEF TypeOK
<1>11. Held(p)'
  BY <1>0, <1>3, <1>4, <1>8, <1>9, <1>10 DEF Held
<1>12. /\ LocalsOK' /\ (\A q \in Traders : Held(q))'
       /\ pc' \in [Traders -> Steps] /\ \A q \in Traders \ {p} : pc'[q] = pc[q]
  BY <1>0, <1>2, <1>3, <1>9, <1>11, OthersHold
<1>13. export[p] # <<>>
  BY <1>4, OrderImportAssumption
<1>14. TypeOK'
  BY <1>0, <1>3, <1>9, <1>10, <1>12, <1>13 DEF TypeOK
<1> QED BY <1>3, <1>12, <1>14 DEF IInv, WellFormed

\* A look at the venue makes observations, and places nothing.
LEMMA LoadedAreNoPlacements ==
    ASSUME IInv, NEW p \in Traders, LoadOrders(p)
    PROVE  \A r \in ToSet(fresh'[p]) : r.kind # "orderPlaced"
<1> DEFINE restated == DetectChangedClaims(orders, Claims[export[p]])
<1>1. export[p] \in Exports /\ fresh \in [Traders -> Seq(OrderLines)]
  BY DEF IInv, LocalsOK, Held, LoadOrders
<1>2. restated \in Seq(Claimed)
  BY <1>1, ClaimsType, ChangedAre
<1>3. PICK now \in Now : fresh' = [fresh EXCEPT ![p] = Observations(restated, now)]
  BY DEF LoadOrders
<1> HIDE DEF restated
<1>4. \A r \in ToSet(Observations(restated, now)) : r.kind = "orderFillObserved"
  <2>1. now \in 1 .. MaxClock
    BY DEF Now
  <2>2. ToSet(Observations(restated, now)) =
            { FillObserved(c.id, now, c.filled) : c \in { x \in ToSet(restated) : x.filled > 0 } }
    BY <1>2, <2>1, ObservationsAre
  <2> QED BY <2>2 DEF FillObserved
<1> QED BY <1>1, <1>3, <1>4

\* What the interview and the filter leave: placements of the claims that were admitted,
\* each news, and the observations that were made before.
LEMMA AnswerLeaves ==
    ASSUME IInv, NEW p \in Traders, pc[p] = "asking", NEW admitted \in Seq(Claimed),
           NEW reserves \in DeclareFunding(admitted), NEW ladders \in {Ladders, <<>>},
           NEW picks \in [DOMAIN admitted -> OfferRungs(ladders)], NEW proposals
    PROVE  LET placed == BuildOrderPlacedRecords(admitted, reserves, picks, proposals)
               new == FilterAlreadyAppended(records[p], placed \o fresh[p])
           IN  /\ new \in Seq(OrderLines)
               /\ \A r \in ToSet(new) :
                    /\ IsDated(r) /\ IsNews(r, records[p])
                    /\ \/ r.kind # "orderPlaced"
                       \/ \E i \in DOMAIN admitted : r = placed[i]
<1> DEFINE placed == BuildOrderPlacedRecords(admitted, reserves, picks, proposals)
           file == records[p]
           batch == placed \o fresh[p]
           new == FilterAlreadyAppended(file, batch)
<1>1. /\ Held(p) /\ file \in Seq(OrderLines) /\ WellFormed(file) /\ fresh[p] \in Seq(OrderLines)
  BY DEF IInv, LocalsOK, Held
<1>2. picks \in [DOMAIN admitted -> Picks]
  BY OffersArePicks
<1>3. /\ placed \in Seq(OrderLines) /\ DOMAIN placed = DOMAIN admitted
      /\ \A i \in DOMAIN admitted : /\ placed[i] \in PlacedRecords
                                    /\ placed[i].id = admitted[i].id
                                    /\ placed[i].at = admitted[i].at
  BY <1>2, PlacementsAre
<1> HIDE DEF placed, file
<1>4. /\ batch \in Seq(OrderLines)
      /\ ToSet(batch) = ToSet(placed) \cup ToSet(fresh[p])
  BY <1>1, <1>3, AppendedOnly, LogType
<1> HIDE DEF batch
<1>5. /\ new \in Seq(OrderLines) /\ ToSet(new) \subseteq ToSet(placed) \cup ToSet(fresh[p])
      /\ \A r \in ToSet(new) : \A s \in ToSet(file) :
            r.kind = "orderPlaced" /\ s.kind = "orderPlaced" /\ r.at = s.at => r.id # s.id
  BY <1>1, <1>4, FilteredAre
<1> HIDE DEF new
<1>6. ASSUME NEW r \in ToSet(new), r \in ToSet(placed)
      PROVE  IsDated(r) /\ IsNews(r, file) /\ \E i \in DOMAIN admitted : r = placed[i]
  <2>1. PICK i \in DOMAIN admitted : r = placed[i]
    BY <1>3, <1>6 DEF ToSet
  <2>2. r.kind = "orderPlaced" /\ r.id = admitted[i].id /\ r.at = admitted[i].at
    BY <1>3, <2>1 DEF PlacedRecords
  <2>3. admitted[i].at = admitted[i].id[4] /\ admitted[i].at <= MaxClock
    <3>1. admitted[i] \in Claimed
      OBVIOUS
    <3> QED BY <3>1, OrderImportAssumption DEF Claimed
  <2>4. \A s \in ToSet(file) : s.kind = "orderPlaced" => s.id # r.id
    BY <1>1, <1>5, <2>2, <2>3 DEF WellFormed
  <2> QED BY <2>1, <2>2, <2>3, <2>4 DEF IsDated, IsNews
<1>7. ASSUME NEW r \in ToSet(new), r \in ToSet(fresh[p])
      PROVE  IsDated(r) /\ IsNews(r, file) /\ r.kind # "orderPlaced"
  BY <1>1, <1>7 DEF Held, file
<1> QED BY <1>5, <1>6, <1>7 DEF new, batch, placed, file

LEMMA AnswerKeeps ==
    ASSUME IInv, NEW p \in Traders, Answer(p)
    PROVE  IInv'
<1> DEFINE claims == Claims[export[p]]
           places == { i \in DOMAIN claims :
                         claims[i] \notin ToSet(DetectChangedClaims(records[p], claims)) }
           admitted == Kept(claims, places)
           line(reserves, picks, proposals) ==
                BuildOrderPlacedRecords(admitted, reserves, picks, proposals)
<1>0. TypeOK /\ LocalsOK /\ Held(p) /\ WellFormed(orders) /\ pc[p] = "asking" /\ "writing" \in Steps
  BY DEF IInv, Steps, Answer
<1>1. claims \in Seq(Claimed)
  <2>1. export[p] \in Exports
    BY <1>0 DEF Held
  <2> QED BY <2>1, ClaimsType
<1>2. admitted \in Seq(Claimed)
  <2> HIDE DEF claims, places
  <2> QED BY <1>1, KeptLines
<1>3. PICK reserves \in DeclareFunding(admitted), ladders \in {Ladders, <<>>} :
        \E proposals : \E picks \in [DOMAIN admitted -> OfferRungs(ladders)] :
            fresh' = [fresh EXCEPT ![p] =
                FilterAlreadyAppended(records[p], line(reserves, picks, proposals) \o fresh[p])]
  BY DEF Answer
<1>4. PICK proposals : \E picks \in [DOMAIN admitted -> OfferRungs(ladders)] :
        fresh' = [fresh EXCEPT ![p] =
            FilterAlreadyAppended(records[p], line(reserves, picks, proposals) \o fresh[p])]
  BY <1>3
<1>12. PICK picks \in [DOMAIN admitted -> OfferRungs(ladders)] :
        fresh' = [fresh EXCEPT ![p] =
            FilterAlreadyAppended(records[p], line(reserves, picks, proposals) \o fresh[p])]
  BY <1>4
<1>5. pc' = [pc EXCEPT ![p] = "writing"] /\ UNCHANGED <<orders, balance, export, records, appended>>
  BY DEF Answer
<1> DEFINE new == FilterAlreadyAppended(records[p], line(reserves, picks, proposals) \o fresh[p])
<1> HIDE DEF admitted
<1>6. new \in Seq(OrderLines) /\ \A r \in ToSet(new) : IsDated(r) /\ IsNews(r, records[p])
  BY <1>0, <1>2, AnswerLeaves
<1> HIDE DEF new, line
<1>7. /\ fresh' \in [Traders -> Seq(OrderLines)] /\ fresh'[p] = new
      /\ \A q \in Traders \ {p} : fresh'[q] = fresh[q]
  BY <1>0, <1>6, <1>12 DEF LocalsOK, new
<1>8. pc'[p] = "writing"
  BY <1>0, <1>5 DEF TypeOK
<1>9. Held(p)'
  BY <1>0, <1>5, <1>6, <1>7, <1>8 DEF Held
<1>10. /\ LocalsOK' /\ (\A q \in Traders : Held(q))'
       /\ pc' \in [Traders -> Steps] /\ \A q \in Traders \ {p} : pc'[q] = pc[q]
  BY <1>0, <1>5, <1>7, <1>9, OthersHold DEF LocalsOK
<1>11. TypeOK'
  BY <1>0, <1>5, <1>7, <1>8, <1>10 DEF TypeOK
<1> QED BY <1>0, <1>5, <1>10, <1>11 DEF IInv, WellFormed

LEMMA LoadCancelKeeps ==
    ASSUME IInv, NEW p \in Traders, LoadCancel(p)
    PROVE  IInv'
<1>0. /\ TypeOK /\ LocalsOK /\ Held(p) /\ WellFormed(orders) /\ orders \in Seq(OrderLines)
      /\ "writing" \in Steps
  BY DEF IInv, TypeOK, Steps
<1>13. PICK id \in DOMAIN Resting(orders) : \E at \in Resting(orders)[id].at .. MaxClock :
        fresh' = [fresh EXCEPT ![p] = <<Cancelled(id, at)>>]
  BY DEF LoadCancel
<1>1. PICK at \in Resting(orders)[id].at .. MaxClock :
        fresh' = [fresh EXCEPT ![p] = <<Cancelled(id, at)>>]
  BY <1>13
<1>2. /\ pc' = [pc EXCEPT ![p] = "writing"] /\ records' = [records EXCEPT ![p] = orders]
      /\ pc[p] = "idle" /\ UNCHANGED <<orders, balance, export, appended>>
  BY DEF LoadCancel
<1> DEFINE r == Cancelled(id, at)
<1>3. id \in Ids /\ Resting(orders)[id].at = id[4] /\ id[4] \in Nat \ {0}
  <2>1. id \in Ids /\ Resting(orders)[id].at = id[4]
    BY <1>0, RestingOnFile
  <2> QED BY <2>1 DEF Ids
<1>4. at \in Nat \ {0} /\ id[4] <= at /\ at <= MaxClock
  BY <1>3, OrderImportAssumption
<1>5. /\ r \in OrderLines /\ r.id = id /\ r.at = at /\ r.kind = "orderCancelled"
  BY <1>3, <1>4 DEF Cancelled, OrderLines
<1> HIDE DEF r
<1>6. IsDated(r) /\ IsNews(r, orders)
  BY <1>4, <1>5 DEF IsDated, IsNews
<1>7. <<r>> \in Seq(OrderLines) /\ ToSet(<<r>>) = {r}
  BY <1>5 DEF ToSet
<1>8. /\ export' \in [Traders -> Exports \cup {<<>>}] /\ records' \in [Traders -> Seq(OrderLines)]
      /\ fresh' \in [Traders -> Seq(OrderLines)]
      /\ records'[p] = orders /\ fresh'[p] = <<r>>
      /\ \A q \in Traders \ {p} :
            export'[q] = export[q] /\ records'[q] = records[q] /\ fresh'[q] = fresh[q]
  BY <1>0, <1>1, <1>2, <1>7 DEF LocalsOK, r
<1>9. pc'[p] = "writing"
  BY <1>0, <1>2 DEF TypeOK
<1>10. Held(p)'
  BY <1>0, <1>2, <1>6, <1>7, <1>8, <1>9 DEF Held
<1>11. /\ LocalsOK' /\ (\A q \in Traders : Held(q))'
       /\ pc' \in [Traders -> Steps] /\ \A q \in Traders \ {p} : pc'[q] = pc[q]
  BY <1>0, <1>2, <1>8, <1>10, OthersHold
<1>12. TypeOK'
  BY <1>0, <1>2, <1>8, <1>9, <1>11 DEF TypeOK
<1> QED BY <1>2, <1>11, <1>12 DEF IInv, WellFormed

LEMMA WriteKeeps ==
    ASSUME IInv, NEW p \in Traders, Write(p)
    PROVE  IInv'
<1>0. /\ TypeOK /\ LocalsOK /\ Held(p) /\ WellFormed(orders) /\ orders \in Seq(OrderLines)
      /\ "idle" \in Steps /\ <<>> \in Seq(OrderLines) /\ fresh[p] \in Seq(OrderLines)
  BY EmptyLog DEF IInv, TypeOK, Steps, LocalsOK
<1>1. /\ pc' = [pc EXCEPT ![p] = "idle"] /\ pc'[p] = "idle"
      /\ export' = [export EXCEPT ![p] = <<>>] /\ records' = [records EXCEPT ![p] = <<>>]
      /\ fresh' = [fresh EXCEPT ![p] = <<>>]
      /\ orders' = orders \o fresh[p] /\ UNCHANGED balance
      /\ appended' = appended + Len(fresh[p]) /\ appended + Len(fresh[p]) <= MaxAppends
  BY <1>0 DEF Write, End, TypeOK
<1>2. /\ export' \in [Traders -> Exports \cup {<<>>}] /\ records' \in [Traders -> Seq(OrderLines)]
      /\ fresh' \in [Traders -> Seq(OrderLines)]
      /\ export'[p] = <<>> /\ records'[p] = <<>> /\ fresh'[p] = <<>>
      /\ \A q \in Traders \ {p} :
            export'[q] = export[q] /\ records'[q] = records[q] /\ fresh'[q] = fresh[q]
  BY <1>0, <1>1 DEF LocalsOK
<1>3. orders' \in Seq(OrderLines) /\ ToSet(orders') = ToSet(orders) \cup ToSet(fresh[p])
  BY <1>0, <1>1, LogType, AppendedOnly
<1>4. WellFormed(orders)'
  <2>1. ASSUME NEW r \in ToSet(fresh[p])
        PROVE  /\ IsDated(r)
               /\ \/ r.kind = "orderPlaced"
                  \/ \E s \in ToSet(orders) : s.kind = "orderPlaced" /\ s.id = r.id
    <3>1. /\ IsDated(r) /\ IsNews(r, records[p]) /\ WellFormed(records[p])
          /\ records[p] \in Seq(OrderLines) /\ ToSet(records[p]) \subseteq ToSet(orders)
      BY <1>0 DEF Held, LocalsOK
    <3> QED BY <3>1, NewsIsPlaced
  <2>2. WellFormed(orders \o fresh[p])
    BY <1>0, <2>1, GrownIsWellFormed
  <2> QED BY <1>1, <2>2 DEF WellFormed
<1>5. Held(p)'
  BY <1>1, <1>2, EmptyIsWellFormed DEF Held
<1>6. /\ LocalsOK' /\ (\A q \in Traders : Held(q))'
      /\ pc' \in [Traders -> Steps] /\ \A q \in Traders \ {p} : pc'[q] = pc[q]
  BY <1>0, <1>1, <1>2, <1>3, <1>5, OthersHold
<1>7. appended' \in 0 .. MaxAppends
  <2>1. Len(fresh[p]) \in Nat /\ appended \in Nat /\ MaxAppends \in Nat
    BY <1>0, OrderImportAssumption DEF TypeOK
  <2> QED BY <1>1, <2>1
<1>8. \A r \in ToSet(orders') : r.at <= MaxClock /\ ReadsBack(r)
  BY <1>0, <1>3, MembersType, EveryLineReadsBack DEF TypeOK, Held, IsDated
<1>9. TypeOK'
  BY <1>0, <1>1, <1>2, <1>3, <1>6, <1>7, <1>8 DEF TypeOK
<1> QED BY <1>4, <1>6, <1>9 DEF IInv

LEMMA RecordFillKeeps ==
    ASSUME IInv, NEW excess \in {0, 1}, RecordFill(excess)
    PROVE  IInv'
<1> DEFINE rungs == CommittedRungs(orders)
           resting == Resting(orders)
<1>0. /\ TypeOK /\ LocalsOK /\ WellFormed(orders) /\ orders \in Seq(OrderLines)
      /\ balance \in [DOMAIN Reserves -> Nat]
  BY DEF IInv, TypeOK
<1>1. PICK id \in DOMAIN rungs : \E quantity \in 1 .. Min({resting[id].remaining,
                                      resting[id].quantity - BookedFills(orders, id)}),
               at \in resting[id].at .. MaxClock :
                LET debit == Head(PlacedLines(orders, id)).price.value * quantity + excess
                IN  /\ debit <= balance[rungs[id].reserve]
                    /\ balance' = [balance EXCEPT ![rungs[id].reserve] = @ - debit]
                    /\ orders' = Append(orders, Filled(id, at, quantity))
  BY DEF RecordFill
<1> DEFINE most == Min({resting[id].remaining,
                        resting[id].quantity - BookedFills(orders, id)})
           spent(quantity, at) ==
                LET debit == Head(PlacedLines(orders, id)).price.value * quantity + excess
                IN  /\ debit <= balance[rungs[id].reserve]
                    /\ balance' = [balance EXCEPT ![rungs[id].reserve] = @ - debit]
                    /\ orders' = Append(orders, Filled(id, at, quantity))
<1>19. \E quantity \in 1 .. most, at \in resting[id].at .. MaxClock : spent(quantity, at)
  BY <1>1
<1> HIDE DEF most, spent
<1>2. PICK quantity \in Nat \ {0}, at \in resting[id].at .. MaxClock : spent(quantity, at)
  BY <1>19
<1>3. appended' \in 0 .. MaxAppends /\ UNCHANGED locals
  BY <1>0, OrderImportAssumption DEF RecordFill, TypeOK
<1>4. id \in DOMAIN resting
  BY DEF CommittedRungs
<1>5. /\ id \in Ids /\ resting[id].at = id[4] /\ IsPlaced(orders, id)
      /\ id[4] \in Nat \ {0}
  <2>1. id \in Ids /\ resting[id].at = id[4] /\ IsPlaced(orders, id)
    BY <1>0, <1>4, RestingOnFile
  <2> QED BY <2>1 DEF Ids
<1> DEFINE r == Filled(id, at, quantity)
           placed == Head(PlacedLines(orders, id))
           reserve == rungs[id].reserve
           debit == placed.price.value * quantity + excess
<1>6. placed \in PlacedRecords /\ placed.price.value \in Nat
  BY <1>0, <1>5, PlacedLinesAre DEF PlacedRecords, Price
<1>7. at \in Nat \ {0} /\ at <= MaxClock
  BY <1>2, <1>5, OrderImportAssumption
<1>8. r \in OrderLines /\ r.at <= MaxClock /\ r.kind = "orderFilled" /\ r.id = id
  BY <1>5, <1>7 DEF Filled, OrderLines
<1>9. /\ debit <= balance[reserve] /\ balance' = [balance EXCEPT ![reserve] = balance[reserve] - debit]
      /\ orders' = Append(orders, r)
  BY <1>2 DEF spent
<1>10. placed.price.value * quantity \in Nat
  BY <1>6
<1>11. debit \in Nat
  BY <1>10
<1> HIDE DEF debit, reserve, r, placed, rungs, resting
<1>12. balance' \in [DOMAIN Reserves -> Nat]
  <2>1. reserve \in DOMAIN Reserves => balance[reserve] - debit \in Nat
    BY <1>0, <1>9, <1>11
  <2> QED BY <1>0, <1>9, <2>1
<1>13. orders' \in Seq(OrderLines) /\ ToSet(orders') = ToSet(orders) \cup {r}
  BY <1>0, <1>8, <1>9, LogType, AppendedOne
<1>14. WellFormed(orders)'
  <2>1. \E s \in ToSet(orders) : s.kind = "orderPlaced" /\ s.id = id
    BY <1>0, <1>5, PlacedLinesAre
  <2> QED BY <1>0, <1>8, <1>13, <2>1 DEF WellFormed
<1>15. /\ pc' = pc /\ export' = export /\ records' = records /\ fresh' = fresh
  BY <1>3 DEF locals
<1>16. LocalsOK' /\ (\A q \in Traders : Held(q))'
  <2>1. LocalsOK'
    BY <1>0, <1>15 DEF LocalsOK
  <2>2. \A q \in Traders : Held(q)'
    BY <1>13, <1>15 DEF IInv, Held
  <2> QED BY <2>1, <2>2
<1>17. \A x \in ToSet(orders') : x.at <= MaxClock /\ ReadsBack(x)
  BY <1>0, <1>8, <1>13, MembersType, EveryLineReadsBack DEF TypeOK
<1>18. TypeOK'
  BY <1>0, <1>3, <1>12, <1>13, <1>15, <1>17 DEF TypeOK
<1> QED BY <1>14, <1>16, <1>18 DEF IInv

\* orders:fill adds a line about a rung that rests.
LEMMA FillIsALine ==
    ASSUME IInv, NEW excess \in {0, 1}, RecordFill(excess)
    PROVE  \E id \in DOMAIN Resting(orders), r \in OrderLines :
                r.id = id /\ r.kind = "orderFilled" /\ orders' = Append(orders, r)
<1> DEFINE resting == Resting(orders)
           most(id) == Min({resting[id].remaining, resting[id].quantity - BookedFills(orders, id)})
<1>1. PICK id \in DOMAIN CommittedRungs(orders) :
            \E quantity \in 1 .. most(id), at \in resting[id].at .. MaxClock :
                orders' = Append(orders, Filled(id, at, quantity))
  BY DEF RecordFill
<1>2. id \in DOMAIN resting
  BY DEF CommittedRungs
<1>3. id \in Ids /\ resting[id].at \in Nat \ {0}
  BY <1>2, RestingOnFile DEF IInv, TypeOK, Ids
<1> HIDE DEF most, resting
<1>4. PICK quantity \in Nat \ {0}, at \in resting[id].at .. MaxClock :
            orders' = Append(orders, Filled(id, at, quantity))
  BY <1>1
<1>5. at \in Nat \ {0}
  BY <1>3, OrderImportAssumption
<1>6. Filled(id, at, quantity) \in OrderLines
  BY <1>3, <1>5 DEF Filled, OrderLines
<1>7. Filled(id, at, quantity).id = id /\ Filled(id, at, quantity).kind = "orderFilled"
  BY DEF Filled
<1> QED BY <1>2, <1>4, <1>6, <1>7 DEF resting

LEMMA NextKeeps ==
    ASSUME IInv, [Next]_vars
    PROVE  IInv'
<1>1. ASSUME NEW p \in Traders,
             StartImport(p) \/ LoadOrders(p) \/ Answer(p) \/ LoadCancel(p) \/ Write(p) \/ Stop(p)
      PROVE  IInv'
  BY <1>1, StartImportKeeps, LoadOrdersKeeps, AnswerKeeps, LoadCancelKeeps, WriteKeeps, StopKeeps
<1>2. CASE UNCHANGED vars
  BY <1>2 DEF vars, locals, IInv, TypeOK, LocalsOK, Held, WellFormed
<1> QED BY <1>1, <1>2, RecordFillKeeps DEF Next

\* What each import and each cancellation has in hand was read from the file, and every
\* line on it is a record, in whatever order the processes read, ask and append
\* (import-orders.ts 418-760, cancel-order.ts 101-200).
THEOREM Inductive == Spec => []IInv
<1>1. Init => IInv
  BY InitHolds
<1>2. IInv /\ [Next]_vars => IInv'
  BY NextKeeps
<1> QED BY <1>1, <1>2, PTL DEF Spec

\* What the types say, and that every line on file reads back as the record it was
\* written from (orders.ts 80-146: a line that does not parse is left out of the book).
THEOREM TypeCorrect == Spec => []TypeOK
<1>1. IInv => TypeOK
  BY DEF IInv
<1> QED BY <1>1, Inductive, PTL
----------------------------------------------------------------------------
(* What was cancelled or used up stays out of the book.                    *)

\* Every placement of a rung bears the second of its id, so a later cancellation comes
\* after all of them when the lines are replayed.
LEMMA CancelledAreGone ==
    ASSUME IInv PROVE CancelledIsGone
<1>0. orders \in Seq(OrderLines) /\ WellFormed(orders)
  BY DEF IInv, TypeOK
<1>1. SUFFICES ASSUME NEW id \in DOMAIN Resting(orders), NEW r \in ToSet(orders),
                      r.kind = "orderCancelled", r.id = id
               PROVE  r.at = Head(PlacedLines(orders, id)).at
  BY DEF CancelledIsGone
<1>2. /\ id \in Ids /\ IsPlaced(orders, id) /\ id \in DOMAIN FoldOrderStream(orders)
  BY <1>0, RestingOnFile, RestingType, LinesAreLines
<1>3. id[4] \in Nat /\ r.at \in Nat /\ r.at >= id[4]
  <2>1. r \in OrderLines
    BY <1>0, MembersType
  <2>2. r.at \in Nat
    BY <2>1 DEF OrderLines, PlacedRecords
  <2>3. r.at >= id[4]
    BY <1>0, <1>1 DEF WellFormed
  <2> QED BY <1>2, <2>2, <2>3 DEF Ids
<1>4. \A s \in ToSet(orders) : s.kind = "orderPlaced" /\ s.id = id => s.at = id[4]
  BY <1>0 DEF WellFormed
<1>5. ~ id[4] < r.at
  BY <1>0, <1>1, <1>2, <1>4, RetiredForGood, LinesAreLines
<1>6. Head(PlacedLines(orders, id)).at = id[4]
  <2> DEFINE placed == Head(PlacedLines(orders, id))
  <2>1. placed \in ToSet(orders) /\ placed \in PlacedRecords /\ placed.id = id
    BY <1>0, <1>2, PlacedLinesAre
  <2>2. placed.kind = "orderPlaced"
    BY <2>1 DEF PlacedRecords
  <2> QED BY <1>4, <2>1, <2>2
<1> QED BY <1>3, <1>5, <1>6

\* Lines that are news about a file bring back none of its rungs.
LEMMA NewsBringsNoneBack ==
    ASSUME NEW file \in Seq(OrderLines), WellFormed(file), NEW new \in Seq(OrderLines),
           \A r \in ToSet(new) : IsNews(r, file),
           NEW id \in DOMAIN Resting(file \o new) \ DOMAIN Resting(file)
    PROVE  /\ \E r \in ToSet(file \o new) : r.id = id
           /\ \A r \in ToSet(file) : r.id # id
<1>1. \E r \in ToSet(new) : r.id = id
  <2>1. SUFFICES ASSUME \A r \in ToSet(new) : r.id # id PROVE FALSE
    OBVIOUS
  <2>2. Same(FoldOrderStream(file), FoldOrderStream(file \o new), id)
    BY <2>1, FoldOthers, LinesAreLines
  <2> QED BY <2>2, RestingSame
<1>2. ToSet(file \o new) = ToSet(file) \cup ToSet(new)
  BY AppendedOnly
<1>3. \A s \in ToSet(file) : s.kind = "orderPlaced" => s.id # id
  BY <1>1 DEF IsNews
<1> QED BY <1>1, <1>2, <1>3 DEF WellFormed

RetiredStays ==
    ~ overlapped' =>
        DOMAIN Resting(orders') \ DOMAIN Resting(orders)
            \subseteq { r.id : r \in ToSet(orders') } \ { r.id : r \in ToSet(orders) }

LEMMA RetiredStaysOut ==
    ASSUME IInv, [Next]_vars PROVE [RetiredStays]_orders
<1>0. orders \in Seq(OrderLines) /\ WellFormed(orders)
  BY DEF IInv, TypeOK
<1>1. ASSUME NEW p \in Traders, Write(p), ~ overlapped'
      PROVE  RetiredStays
  <2>1. orders = records[p] /\ orders' = orders \o fresh[p]
    BY <1>1 DEF Write
  <2>2. fresh[p] \in Seq(OrderLines) /\ \A r \in ToSet(fresh[p]) : IsNews(r, orders)
    BY <2>1 DEF IInv, LocalsOK, Held
  <2>3. ASSUME NEW id \in DOMAIN Resting(orders') \ DOMAIN Resting(orders)
        PROVE  (\E r \in ToSet(orders') : r.id = id) /\ \A r \in ToSet(orders) : r.id # id
    BY <1>0, <2>1, <2>2, <2>3, NewsBringsNoneBack
  <2> QED BY <2>3 DEF RetiredStays
<1>2. ASSUME NEW excess \in {0, 1}, RecordFill(excess) PROVE RetiredStays
  <2>1. PICK id \in DOMAIN Resting(orders), r \in OrderLines :
            r.id = id /\ orders' = Append(orders, r)
    BY <1>2, FillIsALine
  <2>2. ASSUME NEW x \in DOMAIN Resting(orders') \ DOMAIN Resting(orders) PROVE FALSE
    <3>1. Same(FoldOrderStream(orders), FoldOrderStream(orders'), x)
      BY <1>0, <2>1, <2>2, FoldOther, LinesAreLines
    <3> QED BY <2>2, <3>1, RestingSame
  <2> QED BY <2>2 DEF RetiredStays
<1>3. ASSUME NEW p \in Traders,
             StartImport(p) \/ LoadOrders(p) \/ Answer(p) \/ LoadCancel(p) \/ Stop(p)
      PROVE  UNCHANGED orders
  BY <1>3 DEF StartImport, LoadOrders, Answer, LoadCancel, Stop
<1>4. ASSUME NEW p \in Traders, Write(p) PROVE RetiredStays
  BY <1>1, <1>4 DEF RetiredStays
<1>5. CASE UNCHANGED vars
  BY <1>5 DEF vars
<1> QED BY <1>2, <1>3, <1>4, <1>5 DEF Next

\* A rung cancelled after the second it was placed never rests again, whatever is imported,
\* observed and filled after, and but on a stale read no append makes one that is used up
\* rest again (import-orders.ts 168-205, 728-731).
THEOREM NothingComesBack == Spec => RetiredStaysRetired
<1>1. IInv => CancelledIsGone
  BY CancelledAreGone
<1>2. IInv /\ [Next]_vars => [RetiredStays]_orders
  BY RetiredStaysOut
<1>3. RetiredStaysRetired <=> [] CancelledIsGone /\ [][RetiredStays]_orders
  BY DEF RetiredStaysRetired, RetiredStays
<1> QED BY <1>1, <1>2, <1>3, Inductive, PTL DEF Spec
----------------------------------------------------------------------------
(* A rung is proposed to one order only.                                   *)

\* Picks of which no rung is on file and none stands twice.
OncePicked(picks, onFile) ==
    /\ \A i \in DOMAIN picks : picks[i] # NoPick => picks[i] \notin onFile
    /\ \A i, j \in DOMAIN picks : picks[i] = picks[j] /\ picks[i] # NoPick => i = j

\* One more pick, of a rung that is neither on file nor taken.
LEMMA StillOncePicked ==
    ASSUME NEW picks \in Seq(Picks), NEW onFile, OncePicked(picks, onFile),
           NEW pick \in Picks, pick # NoPick => pick \notin onFile \cup ToSet(picks)
    PROVE  Append(picks, pick) \in Seq(Picks) /\ OncePicked(Append(picks, pick), onFile)
<1> DEFINE more == Append(picks, pick)
<1>1. /\ more \in Seq(Picks) /\ DOMAIN more = 1 .. Len(picks) + 1 /\ DOMAIN picks = 1 .. Len(picks)
      /\ Len(picks) \in Nat /\ \A i \in 1 .. Len(picks) : more[i] = picks[i]
      /\ more[Len(picks) + 1] = pick
  OBVIOUS
<1> HIDE DEF more
<1>2. \A i \in 1 .. Len(picks) + 1 : i \in 1 .. Len(picks) \/ i = Len(picks) + 1
  BY <1>1
<1>3. pick # NoPick => \A i \in 1 .. Len(picks) : picks[i] # pick
  BY <1>1 DEF ToSet
<1>4. OncePicked(more, onFile)
  BY <1>1, <1>2, <1>3 DEF OncePicked
<1> QED BY <1>1, <1>4 DEF more

LEMMA ProposedOnce ==
    ASSUME NEW claims \in Seq(Claimed), NEW ladders \in {Ladders, <<>>}, NEW onFile
    PROVE  OncePicked(ProposePicks(claims, ladders, onFile), onFile)
<1> DEFINE n == Len(claims)
           matches(claim) == MatchRungsByPrice(ladders, claim.price)
           pickOf(claim, taken) ==
                IF Len(matches(claim)) = 1 /\ Pick(matches(claim)[1]) \notin onFile \cup taken
                THEN Pick(matches(claim)[1]) ELSE NoPick
           next(s, k) == Append(s, pickOf(claims[k], ToSet(s)))
           proposed == CHOOSE f : f = [k \in 0 .. n |-> IF k = 0 THEN <<>> ELSE next(f[k - 1], k)]
           Clean == { s \in Seq(Picks) : OncePicked(s, onFile) }
           step == [x \in Clean \X (1 .. n) |-> next(x[1], x[2])]
<1>1. n \in Nat
  OBVIOUS
<1>2. ProposePicks(claims, ladders, onFile) = proposed[n]
  BY DEF ProposePicks
<1>3. ASSUME NEW claim, NEW taken
      PROVE  /\ pickOf(claim, taken) \in Picks
             /\ pickOf(claim, taken) # NoPick => pickOf(claim, taken) \notin onFile \cup taken
  <2> DEFINE found == matches(claim)
  <2>1. found \in Seq([plan : STRING, rung : STRING, price : Nat])
    <3> DEFINE places == { i \in DOMAIN ladders : ladders[i].price = claim.price.value }
    <3>1. ladders \in Seq([plan : STRING, rung : STRING, price : Nat])
      BY OrderImportAssumption, EmptyLog
    <3>2. found = Kept(ladders, places)
      BY DEF MatchRungsByPrice
    <3> HIDE DEF places, found
    <3> QED BY <3>1, <3>2, KeptLines
  <2> HIDE DEF matches, found
  <2>4. \A rung \in [plan : STRING, rung : STRING, price : Nat] : Pick(rung) \in Picks
    BY DEF Pick, Picks
  <2>2. Len(found) = 1 => Pick(found[1]) \in Picks
    <3> DEFINE Rungs == [plan : STRING, rung : STRING, price : Nat]
    <3>1. found \in Seq(Rungs)
      BY <2>1
    <3> HIDE DEF Rungs
    <3>2. Len(found) = 1 => found[1] \in Rungs
      <4>1. \A i \in DOMAIN found : found[i] \in Rungs
        BY <3>1, LineType
      <4>2. DOMAIN found = 1 .. Len(found)
        BY <3>1
      <4> QED BY <4>1, <4>2
    <3> QED BY <2>4, <3>2 DEF Rungs
  <2>3. NoPick \in Picks
    BY DEF Picks
  <2> QED BY <2>2, <2>3 DEF found
<1> HIDE DEF pickOf, n, matches
<1>4. <<>> \in Clean
  <2>1. <<>> \in Seq(Picks) /\ DOMAIN <<>> = {}
    OBVIOUS
  <2> QED BY <2>1 DEF OncePicked
<1>5. \A s \in Clean, k \in 1 .. n : next(s, k) \in Clean
  BY <1>3, StillOncePicked
<1> HIDE DEF Clean, next
<1>6. step \in [Clean \X (1 .. n) -> Clean]
  BY <1>5
<1>7. PICK f : IsFold(f, Clean, n, <<>>, step)
  <2> HIDE DEF step
  <2> QED BY <1>1, <1>4, <1>6, FoldExists
<1>8. \A k \in 1 .. n : k - 1 \in 0 .. n /\ f[k - 1] \in Clean
  BY <1>1, <1>7 DEF IsFold
<1>14. \A k \in 1 .. n : f[k] = next(f[k - 1], k)
  BY <1>7, <1>8 DEF IsFold
<1>9. f = [k \in 0 .. n |-> IF k = 0 THEN <<>> ELSE next(f[k - 1], k)]
  BY <1>1, <1>7, <1>14 DEF IsFold
<1>10. proposed = [k \in 0 .. n |-> IF k = 0 THEN <<>> ELSE next(proposed[k - 1], k)]
  BY <1>9
<1> HIDE DEF proposed, step
<1>15. proposed[0] = <<>> /\ \A k \in 1 .. n : proposed[k] = next(proposed[k - 1], k)
  BY <1>1, <1>10
<1> DEFINE T == { k \in 0 .. n : proposed[k] \in Clean }
<1>11. 0 \in T
  BY <1>1, <1>4, <1>15
<1>12. ASSUME NEW k \in 0 .. n - 1, k \in T PROVE k + 1 \in T
  <2>1. k + 1 \in 1 .. n /\ k + 1 - 1 = k /\ k + 1 \in 0 .. n
    BY <1>1
  <2>2. proposed[k + 1] = next(proposed[k], k + 1)
    <3>1. proposed[k + 1] = next(proposed[k + 1 - 1], k + 1)
      BY <1>15, <2>1
    <3> QED BY <2>1, <3>1
  <2> QED BY <1>5, <1>12, <2>1, <2>2
<1>13. n \in T
  <2> HIDE DEF T
  <2> QED BY <1>1, <1>11, <1>12, InductionUpTo
<1> QED BY <1>2, <1>13 DEF Clean

\* A placement that declares the rung it was proposed.
Declares(r) == r.kind = "orderPlaced" /\ r.pick # NoPick /\ r.proposed

DeclaredOnce(p) ==
    \A r \in ToSet(fresh[p]) : Declares(r) =>
        /\ r.pick \notin DeclaredJoinsOnFile(records[p])
        /\ \A s \in ToSet(fresh[p]) : Declares(s) /\ r.pick = s.pick => r.id = s.id

JoinInv == IInv /\ (\A p \in Traders : DeclaredOnce(p)) /\ OneOrderPerRung

\* Nothing is declared by lines that are no placements.
LEMMA NoneDeclared ==
    ASSUME NEW p, \A r \in ToSet(fresh[p]) : r.kind # "orderPlaced"
    PROVE  DeclaredOnce(p)
BY DEF DeclaredOnce, Declares

LEMMA AnswerDeclaresOnce ==
    ASSUME IInv, NEW p \in Traders, Answer(p)
    PROVE  DeclaredOnce(p)'
<1> DEFINE claims == Claims[export[p]]
           places == { i \in DOMAIN claims :
                         claims[i] \notin ToSet(DetectChangedClaims(records[p], claims)) }
           admitted == Kept(claims, places)
           onFile == DeclaredJoinsOnFile(records[p])
           placed(reserves, picks, proposals) ==
                BuildOrderPlacedRecords(admitted, reserves, picks, proposals)
           new(reserves, picks, proposals) ==
                FilterAlreadyAppended(records[p], placed(reserves, picks, proposals) \o fresh[p])
<1>0. /\ TypeOK /\ LocalsOK /\ Held(p) /\ pc[p] = "asking"
      /\ fresh \in [Traders -> Seq(OrderLines)] /\ UNCHANGED records
  BY DEF IInv, Answer, LocalsOK
<1>1. claims \in Seq(Claimed)
  <2>1. export[p] \in Exports
    BY <1>0 DEF Held
  <2> QED BY <2>1, ClaimsType
<1>2. admitted \in Seq(Claimed)
  <2> HIDE DEF claims, places
  <2> QED BY <1>1, KeptLines
<1>3. PICK reserves \in DeclareFunding(admitted), ladders \in {Ladders, <<>>} :
        \E picks \in [DOMAIN admitted -> OfferRungs(ladders)] :
            fresh' = [fresh EXCEPT ![p] =
                        new(reserves, picks, ProposePicks(admitted, ladders, onFile))]
  BY DEF Answer
<1>4. PICK picks \in [DOMAIN admitted -> OfferRungs(ladders)] :
            fresh' = [fresh EXCEPT ![p] =
                        new(reserves, picks, ProposePicks(admitted, ladders, onFile))]
  BY <1>3
<1> HIDE DEF admitted
<1> DEFINE proposals == ProposePicks(admitted, ladders, onFile)
           lines == placed(reserves, picks, proposals)
<1>5. OncePicked(proposals, onFile)
  BY <1>2, ProposedOnce
<1> HIDE DEF proposals
<1>6. picks \in [DOMAIN admitted -> Picks]
  BY OffersArePicks
<1>7. \A i \in DOMAIN admitted :
        /\ lines[i].id = admitted[i].id /\ lines[i].pick = picks[i]
        /\ lines[i].proposed <=> picks[i] # NoPick /\ picks = proposals
  BY <1>2, <1>6, PlacementsAre
<1>8. \A r \in ToSet(new(reserves, picks, proposals)) :
        r.kind # "orderPlaced" \/ \E i \in DOMAIN admitted : r = lines[i]
  <2>1. /\ new(reserves, picks, proposals) \in Seq(OrderLines)
        /\ \A r \in ToSet(new(reserves, picks, proposals)) :
            /\ IsDated(r) /\ IsNews(r, records[p])
            /\ r.kind # "orderPlaced" \/ \E i \in DOMAIN admitted : r = lines[i]
    BY <1>0, <1>2, AnswerLeaves
  <2> QED BY <2>1
<1>9. fresh'[p] = new(reserves, picks, proposals) /\ records'[p] = records[p]
  BY <1>0, <1>4 DEF proposals
<1> HIDE DEF new, placed, lines
<1>10. ASSUME NEW r \in ToSet(fresh'[p]), Declares(r)
       PROVE  \E i \in DOMAIN admitted : r = lines[i] /\ r.pick = picks[i] /\ r.id = admitted[i].id
                                         /\ picks[i] # NoPick /\ picks = proposals
  BY <1>7, <1>8, <1>9, <1>10 DEF Declares
<1>11. ASSUME NEW r \in ToSet(fresh'[p]), Declares(r)
       PROVE  /\ r.pick \notin onFile
              /\ \A s \in ToSet(fresh'[p]) : Declares(s) /\ r.pick = s.pick => r.id = s.id
  <2>1. PICK i \in DOMAIN admitted : r.pick = picks[i] /\ r.id = admitted[i].id
                                     /\ picks[i] # NoPick /\ picks = proposals
    BY <1>10, <1>11
  <2>2. DOMAIN proposals = DOMAIN admitted
    BY <2>1
  <2>3. r.pick \notin onFile
    BY <1>5, <2>1, <2>2 DEF OncePicked
  <2>4. ASSUME NEW s \in ToSet(fresh'[p]), Declares(s), r.pick = s.pick PROVE r.id = s.id
    <3>1. PICK j \in DOMAIN admitted : s.pick = picks[j] /\ s.id = admitted[j].id
      BY <1>10, <2>4
    <3>2. i = j
      BY <1>5, <2>1, <2>2, <2>4, <3>1 DEF OncePicked
    <3> QED BY <2>1, <3>1, <3>2
  <2> QED BY <2>3, <2>4
<1> QED BY <1>9, <1>11 DEF DeclaredOnce

LEMMA WriteJoinsOnce ==
    ASSUME JoinInv, NEW p \in Traders, Write(p)
    PROVE  OneOrderPerRung'
<1>1. SUFFICES ASSUME ~ overlapped' PROVE OneOrderPerRung'
  BY DEF OneOrderPerRung
<1>2. orders = records[p] /\ orders' = orders \o fresh[p] /\ ~ overlapped
  BY <1>1 DEF Write
<1>3. ToSet(orders') = ToSet(orders) \cup ToSet(fresh[p])
  BY <1>2, AppendedOnly DEF JoinInv, IInv, TypeOK, LocalsOK
<1>4. \A r \in ToSet(orders) : Declares(r) => r.pick \in DeclaredJoinsOnFile(records[p])
  BY <1>2 DEF Declares, DeclaredJoinsOnFile
<1>5. \A r, s \in ToSet(orders) : Declares(r) /\ Declares(s) /\ r.pick = s.pick => r.id = s.id
  BY <1>2 DEF JoinInv, OneOrderPerRung, Declares
<1>6. DeclaredOnce(p)
  BY DEF JoinInv
<1>7. \A r, s \in ToSet(orders') : Declares(r) /\ Declares(s) /\ r.pick = s.pick => r.id = s.id
  BY <1>3, <1>4, <1>5, <1>6 DEF DeclaredOnce
<1> QED BY <1>7 DEF OneOrderPerRung, Declares

LEMMA JoinInvHolds ==
    ASSUME Init PROVE JoinInv
<1>1. IInv
  BY InitHolds
<1>2. \A p \in Traders : DeclaredOnce(p)
  BY EmptyIsWellFormed DEF Init, DeclaredOnce
<1>3. OneOrderPerRung
  BY FileAssumption DEF Init, OneOrderPerRung
<1> QED BY <1>1, <1>2, <1>3 DEF JoinInv

LEMMA NextJoinsOnce ==
    ASSUME JoinInv, [Next]_vars
    PROVE  JoinInv'
<1>0. IInv /\ IInv' /\ LocalsOK
  BY NextKeeps DEF JoinInv, IInv
<1>1. ASSUME NEW p \in Traders,
             StartImport(p) \/ LoadOrders(p) \/ Answer(p) \/ LoadCancel(p) \/ Write(p) \/ Stop(p)
      PROVE  (\A q \in Traders : DeclaredOnce(q))' /\ OneOrderPerRung'
  <2>1. \A q \in Traders \ {p} : fresh'[q] = fresh[q] /\ records'[q] = records[q]
    <3>1. /\ fresh' = fresh \/ \E v : fresh' = [fresh EXCEPT ![p] = v]
          /\ records' = records \/ \E v : records' = [records EXCEPT ![p] = v]
      BY <1>1 DEF StartImport, LoadOrders, Answer, LoadCancel, Write, Stop, End
    <3> QED BY <1>0, <3>1 DEF LocalsOK
  <2>2. \A q \in Traders \ {p} : DeclaredOnce(q)'
    BY <2>1 DEF JoinInv, DeclaredOnce
  <2>3. DeclaredOnce(p)'
    <3>1. CASE StartImport(p)
      BY <3>1 DEF StartImport, JoinInv, DeclaredOnce
    <3>2. CASE LoadOrders(p)
      <4>1. pc'[p] = "asking" \/ pc'[p] = "writing"
        BY <1>0, <3>2 DEF LoadOrders, IInv, TypeOK
      <4>2. \A r \in ToSet(fresh'[p]) : r.kind # "orderPlaced"
        BY <1>0, <3>2, LoadedAreNoPlacements
      <4> QED BY <4>2 DEF DeclaredOnce, Declares
    <3>3. CASE Answer(p)
      BY <1>0, <3>3, AnswerDeclaresOnce
    <3>4. CASE LoadCancel(p)
      <4>1. \E id, at : fresh'[p] = <<Cancelled(id, at)>>
        BY <1>0, <3>4 DEF LoadCancel, LocalsOK
      <4>2. \A r \in ToSet(fresh'[p]) : r.kind = "orderCancelled"
        BY <4>1 DEF ToSet, Cancelled
      <4> QED BY <4>2 DEF DeclaredOnce, Declares
    <3>5. CASE Write(p) \/ Stop(p)
      <4>1. fresh'[p] = <<>>
        BY <1>0, <3>5 DEF Write, Stop, End, LocalsOK
      <4> QED BY <4>1, EmptyIsWellFormed DEF DeclaredOnce
    <3> QED BY <1>1, <3>1, <3>2, <3>3, <3>4, <3>5
  <2>4. OneOrderPerRung'
    <3>1. CASE Write(p)
      BY <3>1, WriteJoinsOnce
    <3>2. CASE StartImport(p) \/ LoadOrders(p) \/ Answer(p) \/ LoadCancel(p) \/ Stop(p)
      <4>1. UNCHANGED <<orders, overlapped>>
        BY <3>2 DEF StartImport, LoadOrders, Answer, LoadCancel, Stop
      <4> QED BY <4>1 DEF JoinInv, OneOrderPerRung
    <3> QED BY <1>1, <3>1, <3>2
  <2> QED BY <2>2, <2>3, <2>4
<1>2. ASSUME NEW excess \in {0, 1}, RecordFill(excess) PROVE JoinInv'
  <2>1. UNCHANGED <<fresh, records, overlapped>>
    BY <1>2 DEF RecordFill, locals
  <2>2. PICK r \in OrderLines : r.kind = "orderFilled" /\ orders' = Append(orders, r)
    BY <1>0, <1>2, FillIsALine
  <2>3. ToSet(orders') = ToSet(orders) \cup {r}
    BY <1>0, <2>2, AppendedOne DEF IInv, TypeOK
  <2> QED BY <1>0, <2>1, <2>2, <2>3 DEF JoinInv, DeclaredOnce, OneOrderPerRung
<1>3. CASE UNCHANGED vars
  BY <1>0, <1>3 DEF vars, locals, JoinInv, DeclaredOnce, OneOrderPerRung
<1> QED BY <1>0, <1>1, <1>2, <1>3 DEF Next, JoinInv

\* However the interviews of several imports interleave, no rung is accepted by price for
\* two orders, in a batch or in the file, but by an append on a stale read
\* (import-orders-rung-picks.ts 122-152).
THEOREM ProposedToOne == Spec => []OneOrderPerRung
<1>1. Init => JoinInv
  BY JoinInvHolds
<1>2. JoinInv /\ [Next]_vars => JoinInv'
  BY NextJoinsOnce
<1>3. JoinInv => OneOrderPerRung
  BY DEF JoinInv
<1> QED BY <1>1, <1>2, <1>3, PTL DEF Spec
----------------------------------------------------------------------------
(* What one more line, or a batch, tells of a rung.                        *)

LEMMA AboutOneMore ==
    ASSUME NEW file \in Seq(OrderLines), NEW r \in OrderLines, NEW kind, NEW id
    PROVE  /\ r.kind = kind /\ r.id = id =>
                LinesAbout(Append(file, r), kind, id) = Append(LinesAbout(file, kind, id), r)
           /\ ~ (r.kind = kind /\ r.id = id) =>
                LinesAbout(Append(file, r), kind, id) = LinesAbout(file, kind, id)
<1> DEFINE more == Append(file, r)
           A == { i \in DOMAIN more : more[i].kind = kind /\ more[i].id = id }
           B == { i \in DOMAIN file : file[i].kind = kind /\ file[i].id = id }
           n == Len(file)
<1>1. /\ n \in Nat /\ DOMAIN file = 1 .. n /\ DOMAIN more = 1 .. n + 1 /\ more[n + 1] = r
      /\ \A k \in 1 .. n : more[k] = file[k] /\ k \in 1 .. n + 1
  OBVIOUS
<1>2. LinesAbout(more, kind, id) = Kept(more, A) /\ LinesAbout(file, kind, id) = Kept(file, B)
  BY DEF LinesAbout
<1> HIDE DEF more, n
<1>3. /\ \A i \in DOMAIN file : i \in A <=> i \in B
      /\ n + 1 \in A <=> r.kind = kind /\ r.id = id
  BY <1>1
<1> HIDE DEF A, B
<1>4. /\ n + 1 \in A => Kept(more, A) = Append(Kept(file, B), r)
      /\ n + 1 \notin A => Kept(more, A) = Kept(file, B)
  BY <1>3, KeptOneMore DEF more, n
<1>5. CASE r.kind = kind /\ r.id = id
  BY <1>2, <1>3, <1>4, <1>5 DEF more
<1>6. CASE ~ (r.kind = kind /\ r.id = id)
  BY <1>2, <1>3, <1>4, <1>6 DEF more
<1> QED BY <1>5, <1>6

\* What is known of a rung is its latest observation, and one that no other is later than
\* is the latest.
LEMMA LatestOneMore ==
    ASSUME NEW file \in Seq(OrderLines), NEW r \in OrderLines, NEW id
    PROVE  /\ ~ (r.kind = "orderFillObserved" /\ r.id = id) =>
                LatestObservation(Append(file, r), id) = LatestObservation(file, id)
           /\ /\ r.kind = "orderFillObserved" /\ r.id = id
              /\ \A x \in ToSet(file) : x.kind = "orderFillObserved" /\ x.id = id => x.at <= r.at
              => LatestObservation(Append(file, r), id) = <<r>>
<1> DEFINE seen == LinesAbout(file, "orderFillObserved", id)
           more == LinesAbout(Append(file, r), "orderFillObserved", id)
           greatest(list) == { i \in DOMAIN list : \A j \in DOMAIN list : list[j].at <= list[i].at }
<1>1. /\ ObservationLines(file, id) = Kept(seen, greatest(seen))
      /\ ObservationLines(Append(file, r), id) = Kept(more, greatest(more))
  BY DEF ObservationLines
<1>2. seen \in Seq(OrderLines)
      /\ ToSet(seen) = { x \in ToSet(file) : x.kind = "orderFillObserved" /\ x.id = id }
  BY LinesAboutAre
<1>3. ASSUME ~ (r.kind = "orderFillObserved" /\ r.id = id)
      PROVE  LatestObservation(Append(file, r), id) = LatestObservation(file, id)
  <2>1. more = seen
    BY <1>3, AboutOneMore
  <2>2. ObservationLines(Append(file, r), id) = ObservationLines(file, id)
    BY <2>1 DEF ObservationLines
  <2> QED BY <2>2 DEF LatestObservation
<1>4. ASSUME r.kind = "orderFillObserved", r.id = id,
             \A x \in ToSet(file) : x.kind = "orderFillObserved" /\ x.id = id => x.at <= r.at
      PROVE  LatestObservation(Append(file, r), id) = <<r>>
  <2>1. more = Append(seen, r)
    BY <1>4, AboutOneMore
  <2> HIDE DEF seen, more
  <2> DEFINE n == Len(seen)
             A == greatest(more)
             B == A \cap DOMAIN seen
  <2>2. /\ n \in Nat /\ DOMAIN seen = 1 .. n /\ DOMAIN more = 1 .. n + 1 /\ more[n + 1] = r
        /\ \A k \in 1 .. n : more[k] = seen[k] /\ seen[k] \in ToSet(seen)
    BY <1>2, <2>1 DEF ToSet
  <2>3. \A k \in 1 .. n : seen[k].at <= r.at
    BY <1>2, <1>4, <2>2
  <2>4. r.at \in Int
    BY LinesAreLines DEF AreLines
  <2>5. n + 1 \in A
    <3> HIDE DEF n
    <3>1. \A j \in 1 .. n + 1 : j \in 1 .. n \/ j = n + 1
      BY <2>2
    <3>2. \A j \in 1 .. n + 1 : more[j].at <= more[n + 1].at
      BY <2>2, <2>3, <2>4, <3>1
    <3> QED BY <2>2, <3>2
  <2>6. \A i \in DOMAIN seen : i \in A <=> i \in B
    OBVIOUS
  <2> HIDE DEF A, B
  <2>7. Kept(Append(seen, r), A) = Append(Kept(seen, B), r)
    BY <1>2, <2>5, <2>6, KeptOneMore
  <2>8. ObservationLines(Append(file, r), id) = Append(Kept(seen, B), r)
    BY <1>1, <2>1, <2>7 DEF A
  <2>9. Kept(seen, B) \in Seq(OrderLines)
    BY <1>2, KeptLines
  <2>10. Append(Kept(seen, B), r) # <<>> /\ Last(Append(Kept(seen, B), r)) = r
    <3>1. \A k \in Seq(OrderLines) : Append(k, r) # <<>> /\ Last(Append(k, r)) = r
      BY DEF Last
    <3> QED BY <2>9, <3>1
  <2> QED BY <2>8, <2>10 DEF LatestObservation
<1> QED BY <1>3, <1>4

\* Two files that say the same of a rung.
SameAbout(s, t, id) ==
    /\ Same(FoldOrderStream(s), FoldOrderStream(t), id)
    /\ PlacedLines(s, id) = PlacedLines(t, id)
    /\ LatestObservation(s, id) = LatestObservation(t, id)

\* Lines about other rungs say nothing of a rung.
LEMMA RunsOn ==
    ASSUME NEW s \in Seq(OrderLines), NEW t \in Seq(OrderLines), NEW id,
           NEW e \in 0 .. Len(t), NEW m \in e .. Len(t), \A j \in e + 1 .. m : t[j].id # id
    PROVE  SameAbout(s \o SubSeq(t, 1, e), s \o SubSeq(t, 1, m), id)
<1> DEFINE n == m - e
           upTo(k) == s \o SubSeq(t, 1, e + k)
           T == { k \in 0 .. n : SameAbout(upTo(0), upTo(k), id) }
<1>1. n \in Nat /\ \A k \in 1 .. n : t[e + k] \in OrderLines /\ t[e + k].id # id
  <2>1. \A k \in 1 .. n : e + k \in e + 1 .. m /\ e + k \in 1 .. Len(t)
    OBVIOUS
  <2>2. \A j \in 1 .. Len(t) : t[j] \in OrderLines
    OBVIOUS
  <2> HIDE DEF n
  <2>3. \A k \in 1 .. n : t[e + k] \in OrderLines /\ t[e + k].id # id
    BY <2>1, <2>2
  <2> QED BY <2>3 DEF n
<1>2. upTo(0) = s \o SubSeq(t, 1, e) /\ upTo(n) = s \o SubSeq(t, 1, m)
  <2>1. e + 0 = e /\ e + n = m
    OBVIOUS
  <2> QED BY <2>1
<1>3. \A k \in 0 .. n - 1 : upTo(k) \in Seq(OrderLines) /\ upTo(k + 1) = Append(upTo(k), t[e + (k + 1)])
  OBVIOUS
<1> HIDE DEF upTo, n
<1>4. 0 \in T
  BY <1>1, <1>2 DEF SameAbout, Same
<1>5. ASSUME NEW k \in 0 .. n - 1, k \in T PROVE k + 1 \in T
  <2>1. k + 1 \in 1 .. n /\ k + 1 \in 0 .. n
    BY <1>1
  <2> DEFINE u == upTo(k)
             r == t[e + (k + 1)]
  <2>2. u \in Seq(OrderLines) /\ r \in OrderLines /\ r.id # id /\ upTo(k + 1) = Append(u, r)
    BY <1>1, <1>3, <2>1
  <2> HIDE DEF u, r
  <2>3. Same(FoldOrderStream(u), FoldOrderStream(Append(u, r)), id)
    BY <2>2, LinesAreLines, FoldOther
  <2>4. PlacedLines(Append(u, r), id) = PlacedLines(u, id)
    BY <2>2, AboutOneMore DEF PlacedLines
  <2>5. LatestObservation(Append(u, r), id) = LatestObservation(u, id)
    BY <2>2, LatestOneMore
  <2>6. SameAbout(upTo(0), u, id)
    BY <1>5 DEF u
  <2>7. SameAbout(upTo(0), Append(u, r), id)
    BY <2>3, <2>4, <2>5, <2>6 DEF SameAbout, Same
  <2> QED BY <2>1, <2>2, <2>7
<1>6. n \in T
  <2> HIDE DEF T
  <2>1. \A k \in 0 .. n : k \in T
    BY <1>1, <1>4, <1>5, InductionUpTo
  <2> QED BY <1>1, <2>1
<1> QED BY <1>2, <1>6

LEMMA OthersSayNothing ==
    ASSUME NEW s \in Seq(OrderLines), NEW t \in Seq(OrderLines), NEW id,
           \A r \in ToSet(t) : r.id # id
    PROVE  SameAbout(s, s \o t, id)
<1>1. s \o SubSeq(t, 1, 0) = s /\ s \o SubSeq(t, 1, Len(t)) = s \o t
  OBVIOUS
<1>2. /\ Len(t) \in Nat /\ 0 \in 0 .. Len(t) /\ Len(t) \in 0 .. Len(t)
      /\ \A j \in 0 + 1 .. Len(t) : t[j].id # id
  BY DEF ToSet
<1>3. SameAbout(s \o SubSeq(t, 1, 0), s \o SubSeq(t, 1, Len(t)), id)
  BY <1>2, RunsOn
<1> QED BY <1>1, <1>3

\* Of a batch with one line about a rung, that line is what counts for it.
LEMMA OneSaysAll ==
    ASSUME NEW s \in Seq(OrderLines), NEW t \in Seq(OrderLines), Distinct(t), NEW r \in ToSet(t)
    PROVE  \E u \in Seq(OrderLines) :
            /\ \A x \in ToSet(u) : x.id = r.id => x \in ToSet(s)
            /\ SameAbout(s, u, r.id) /\ SameAbout(Append(u, r), s \o t, r.id)
<1>1. PICK k \in 1 .. Len(t) : t[k] = r
  BY DEF ToSet
<1> DEFINE before == SubSeq(t, 1, k - 1)
           u == s \o before
<1>2. /\ before \in Seq(OrderLines) /\ r \in OrderLines /\ u \in Seq(OrderLines)
      /\ Append(u, t[k]) = s \o SubSeq(t, 1, k)
  BY <1>1
<1>3. s \o SubSeq(t, 1, 0) = s /\ s \o SubSeq(t, 1, Len(t)) = s \o t
  OBVIOUS
<1>4. \A j \in 1 .. Len(t) : j # k => t[j].id # r.id
  BY <1>1 DEF Distinct
<1>5. SameAbout(s, u, r.id)
  <2>1. /\ 0 \in 0 .. Len(t) /\ k - 1 \in 0 .. Len(t)
        /\ \A j \in 0 + 1 .. k - 1 : j \in 1 .. Len(t) /\ j # k
    OBVIOUS
  <2>2. \A j \in 0 + 1 .. k - 1 : t[j].id # r.id
    BY <1>4, <2>1
  <2>3. SameAbout(s \o SubSeq(t, 1, 0), s \o SubSeq(t, 1, k - 1), r.id)
    BY <2>1, <2>2, RunsOn
  <2> QED BY <1>3, <2>3
<1>6. SameAbout(Append(u, r), s \o t, r.id)
  <2>1. /\ k \in 0 .. Len(t) /\ Len(t) \in k .. Len(t)
        /\ \A j \in k + 1 .. Len(t) : j \in 1 .. Len(t) /\ j # k
    OBVIOUS
  <2>2. \A j \in k + 1 .. Len(t) : t[j].id # r.id
    BY <1>4, <2>1
  <2>3. SameAbout(s \o SubSeq(t, 1, k), s \o SubSeq(t, 1, Len(t)), r.id)
    BY <2>1, <2>2, RunsOn
  <2> QED BY <1>1, <1>2, <1>3, <2>3
<1>7. ASSUME NEW x \in ToSet(u), x.id = r.id PROVE x \in ToSet(s)
  <2>1. ToSet(u) = ToSet(s) \cup ToSet(before)
    <3> HIDE DEF before
    <3> QED BY <1>2, AppendedOnly
  <2>2. \A y \in ToSet(before) : \E j \in 1 .. Len(t) : j # k /\ y = t[j]
    BY DEF ToSet
  <2> HIDE DEF before, u
  <2> QED BY <1>4, <1>7, <2>1, <2>2
<1> HIDE DEF u
<1> QED BY <1>2, <1>5, <1>6, <1>7

LEMMA NoLines ==
    ASSUME NEW S, NEW list \in Seq(S), ToSet(list) = {}
    PROVE  list = <<>>
<1>1. Len(list) \in Nat /\ \A i \in 1 .. Len(list) : list[i] \in ToSet(list)
  BY DEF ToSet
<1>2. Len(list) = 0
  BY <1>1
<1> QED BY <1>2

LEMMA NoneObserved ==
    ASSUME NEW file \in Seq(OrderLines), NEW id,
           \A x \in ToSet(file) : ~ (x.kind = "orderFillObserved" /\ x.id = id)
    PROVE  LatestObservation(file, id) = <<>>
<1> DEFINE seen == LinesAbout(file, "orderFillObserved", id)
           greatest == { i \in DOMAIN seen : \A j \in DOMAIN seen : seen[j].at <= seen[i].at }
<1>1. seen \in Seq(OrderLines) /\ ToSet(seen) = {}
  BY LinesAboutAre
<1>2. seen = <<>>
  <2> HIDE DEF seen
  <2> QED BY <1>1, NoLines
<1>3. ObservationLines(file, id) = Kept(seen, greatest)
  BY DEF ObservationLines
<1>6. LatestObservation(file, id) =
        IF ObservationLines(file, id) = <<>> THEN <<>> ELSE <<Last(ObservationLines(file, id))>>
  BY DEF LatestObservation
<1> HIDE DEF seen, greatest
<1>4. Kept(seen, greatest) \in Seq(OrderLines) /\ ToSet(Kept(seen, greatest)) = {}
  <2>1. DOMAIN seen = {}
    BY <1>2
  <2>2. /\ Kept(seen, greatest) \in Seq(OrderLines)
        /\ ToSet(Kept(seen, greatest)) = { seen[i] : i \in greatest \cap DOMAIN seen }
    BY <1>1, KeptLines
  <2> QED BY <2>1, <2>2
<1>5. Kept(seen, greatest) = <<>>
  BY <1>4, NoLines
<1> QED BY <1>3, <1>5, <1>6

\* An observation of a rung in the book, by a batch: what is known of it, and consumed.
LEMMA ObservedByBatch ==
    ASSUME NEW s \in Seq(OrderLines), NEW t \in Seq(OrderLines), Distinct(t),
           NEW r \in ToSet(t), r.kind = "orderFillObserved",
           \A x \in ToSet(s) : x.id = r.id => x.at <= r.at,
           r.id \in DOMAIN FoldOrderStream(s)
    PROVE  /\ r.id \in DOMAIN FoldOrderStream(s \o t)
           /\ FoldOrderStream(s \o t)[r.id].placed = FoldOrderStream(s)[r.id].placed
           /\ FoldOrderStream(s \o t)[r.id].consumed = r.quantity
           /\ PlacedLines(s \o t, r.id) = PlacedLines(s, r.id)
           /\ LatestObservation(s \o t, r.id) = <<r>>
<1>1. PICK u \in Seq(OrderLines) :
        /\ \A x \in ToSet(u) : x.id = r.id => x \in ToSet(s)
        /\ SameAbout(s, u, r.id) /\ SameAbout(Append(u, r), s \o t, r.id)
  BY OneSaysAll
<1>2. r \in OrderLines
  BY MembersType
<1>3. r.id \in DOMAIN FoldOrderStream(u) /\ FoldOrderStream(u)[r.id] = FoldOrderStream(s)[r.id]
  BY <1>1 DEF SameAbout, Same
<1>4. \A x \in ToSet(u) : x.id = r.id => x.at <= r.at
  BY <1>1
<1>5. /\ r.id \in DOMAIN FoldOrderStream(Append(u, r))
      /\ FoldOrderStream(Append(u, r))[r.id].placed = FoldOrderStream(u)[r.id].placed
      /\ FoldOrderStream(Append(u, r))[r.id].consumed = r.quantity
  BY <1>2, <1>3, <1>4, LinesAreLines, ObservedLast
<1>6. PlacedLines(Append(u, r), r.id) = PlacedLines(u, r.id)
  BY <1>2, AboutOneMore DEF PlacedLines
<1>7. LatestObservation(Append(u, r), r.id) = <<r>>
  BY <1>2, <1>4, LatestOneMore
<1> QED BY <1>1, <1>3, <1>5, <1>6, <1>7 DEF SameAbout, Same

\* A rung that a batch places and that no line was about before.
LEMMA PlacedByBatch ==
    ASSUME NEW s \in Seq(OrderLines), NEW t \in Seq(OrderLines), Distinct(t),
           NEW r \in ToSet(t), r.kind = "orderPlaced", \A x \in ToSet(s) : x.id # r.id
    PROVE  /\ r.id \in DOMAIN FoldOrderStream(s \o t)
           /\ FoldOrderStream(s \o t)[r.id] = [placed |-> r, consumed |-> r.observed]
           /\ PlacedLines(s \o t, r.id) = <<r>>
           /\ LatestObservation(s \o t, r.id) = <<>>
<1>1. PICK u \in Seq(OrderLines) :
        /\ \A x \in ToSet(u) : x.id = r.id => x \in ToSet(s)
        /\ SameAbout(s, u, r.id) /\ SameAbout(Append(u, r), s \o t, r.id)
  BY OneSaysAll
<1>2. r \in OrderLines
  BY MembersType
<1>3. \A x \in ToSet(u) : x.id # r.id
  BY <1>1
<1>4. /\ r.id \in DOMAIN FoldOrderStream(Append(u, r))
      /\ FoldOrderStream(Append(u, r))[r.id] = [placed |-> r, consumed |-> r.observed]
  BY <1>2, <1>3, LinesAreLines, PlacedNew
<1>5. \A kind : LinesAbout(u, kind, r.id) = <<>>
  <2>1. SUFFICES ASSUME NEW kind PROVE LinesAbout(u, kind, r.id) = <<>>
    OBVIOUS
  <2>2. LinesAbout(u, kind, r.id) \in Seq(OrderLines) /\ ToSet(LinesAbout(u, kind, r.id)) = {}
    BY <1>3, LinesAboutAre
  <2> QED BY <2>2, NoLines
<1>6. PlacedLines(Append(u, r), r.id) = <<r>>
  <2>1. PlacedLines(Append(u, r), r.id) = Append(PlacedLines(u, r.id), r)
    BY <1>2, AboutOneMore DEF PlacedLines
  <2>2. PlacedLines(u, r.id) = <<>>
    BY <1>5 DEF PlacedLines
  <2> QED BY <2>1, <2>2
<1>7. LatestObservation(Append(u, r), r.id) = <<>>
  <2>1. LatestObservation(Append(u, r), r.id) = LatestObservation(u, r.id)
    BY <1>2, LatestOneMore
  <2>2. \A x \in ToSet(u) : ~ (x.kind = "orderFillObserved" /\ x.id = r.id)
    BY <1>3
  <2>3. LatestObservation(u, r.id) = <<>>
    BY <2>2, NoneObserved
  <2> QED BY <2>1, <2>3
<1> QED BY <1>1, <1>4, <1>6, <1>7 DEF SameAbout, Same

\* A rung in the book that a batch places again is as it was.
LEMMA PlacedAgainByBatch ==
    ASSUME NEW s \in Seq(OrderLines), NEW t \in Seq(OrderLines), Distinct(t),
           NEW r \in ToSet(t), r.kind = "orderPlaced",
           \A x \in ToSet(s) : x.kind = "orderPlaced" /\ x.id = r.id => x.at <= r.at,
           r.id \in DOMAIN FoldOrderStream(s), IsPlaced(s, r.id)
    PROVE  /\ Same(FoldOrderStream(s), FoldOrderStream(s \o t), r.id)
           /\ Head(PlacedLines(s \o t, r.id)) = Head(PlacedLines(s, r.id))
<1>1. PICK u \in Seq(OrderLines) :
        /\ \A x \in ToSet(u) : x.id = r.id => x \in ToSet(s)
        /\ SameAbout(s, u, r.id) /\ SameAbout(Append(u, r), s \o t, r.id)
  BY OneSaysAll
<1>2. r \in OrderLines
  BY MembersType
<1>3. r.id \in DOMAIN FoldOrderStream(u)
  BY <1>1 DEF SameAbout, Same
<1>4. \A x \in ToSet(u) : x.kind = "orderPlaced" /\ x.id = r.id => x.at <= r.at
  BY <1>1
<1>5. Same(FoldOrderStream(u), FoldOrderStream(Append(u, r)), r.id)
  BY <1>2, <1>3, <1>4, LinesAreLines, PlacedAgain
<1>6. PlacedLines(Append(u, r), r.id) = Append(PlacedLines(u, r.id), r)
  BY <1>2, AboutOneMore DEF PlacedLines
<1>7. PlacedLines(u, r.id) = PlacedLines(s, r.id) /\ PlacedLines(u, r.id) # <<>>
      /\ PlacedLines(u, r.id) \in Seq(OrderLines)
  <2>1. PlacedLines(u, r.id) \in Seq(OrderLines)
    BY LinesAboutAre DEF PlacedLines
  <2> QED BY <1>1, <2>1 DEF SameAbout, IsPlaced
<1>8. Head(Append(PlacedLines(u, r.id), r)) = Head(PlacedLines(u, r.id))
  <2>1. \A l \in Seq(OrderLines) : l # <<>> => Head(Append(l, r)) = Head(l)
    OBVIOUS
  <2> QED BY <1>7, <2>1
<1> QED BY <1>1, <1>5, <1>6, <1>7, <1>8 DEF SameAbout, Same
----------------------------------------------------------------------------
(* The reserves: what less a book commits, they cover too.                 *)

LEMMA TimesAtMost ==
    ASSUME NEW p \in Nat, NEW x \in Nat, NEW y \in Nat, x <= y
    PROVE  p * x <= p * y /\ p * x \in Nat /\ p * y \in Nat
<1>1. PICK d \in Nat : y = x + d
  <2>1. y - x \in Nat /\ y = x + (y - x)
    OBVIOUS
  <2> QED BY <2>1
<1>2. p * (x + d) = p * x + p * d /\ p * x \in Nat /\ p * d \in Nat
  OBVIOUS
<1> QED BY <1>1, <1>2

\* The rungs a file is about.
LEMMA FiniteIds ==
    ASSUME NEW file \in Seq(OrderLines)
    PROVE  IsFiniteSet({ r.id : r \in ToSet(file) })
<1> DEFINE ids == [i \in 1 .. Len(file) |-> file[i].id]
<1>1. Len(file) \in Nat /\ \A i \in 1 .. Len(file) : file[i] \in OrderLines
  OBVIOUS
<1>2. IsFiniteSet(1 .. Len(file))
  BY <1>1, FS_Interval
<1>3. ids = [i \in 1 .. Len(file) |-> ids[i]]
  OBVIOUS
<1>4. { ids[i] : i \in 1 .. Len(file) } = { r.id : r \in ToSet(file) }
  <2>1. ToSet(file) = { file[i] : i \in 1 .. Len(file) }
    BY DEF ToSet
  <2>2. { ids[i] : i \in 1 .. Len(file) } = { file[i].id : i \in 1 .. Len(file) }
    OBVIOUS
  <2> QED BY <2>1, <2>2
<1> HIDE DEF ids
<1>5. IsFiniteSet({ ids[i] : i \in 1 .. Len(file) })
  <2> DEFINE S == 1 .. Len(file)
  <2>1. ids = [i \in S |-> ids[i]]
    BY <1>3
  <2>2. IsFiniteSet(S)
    BY <1>2
  <2> HIDE DEF S
  <2>3. IsFiniteSet({ ids[i] : i \in S })
    BY <2>1, <2>2, FiniteImage
  <2> QED BY <2>3 DEF S
<1> QED BY <1>4, <1>5

\* One rung rests, of this much, by a placement of that fold.
LEMMA RestsIf ==
    ASSUME NEW file, NEW id
    PROVE  /\ id \in DOMAIN Resting(file) <=>
                /\ id \in DOMAIN FoldOrderStream(file)
                /\ FoldOrderStream(file)[id].placed.quantity - FoldOrderStream(file)[id].consumed > 0
           /\ id \in DOMAIN Resting(file) => Resting(file)[id].remaining =
                FoldOrderStream(file)[id].placed.quantity - FoldOrderStream(file)[id].consumed
BY DEF Resting

SameTerms(r, s) ==
    r.side = s.side /\ r.price = s.price /\ r.reserve = s.reserve /\ r.currency = s.currency

\* What rests in t rests in s, on the same terms, and of no less.
LessRests(t, s) ==
    \A id \in DOMAIN Resting(t) :
        /\ id \in DOMAIN Resting(s)
        /\ Resting(t)[id].remaining <= Resting(s)[id].remaining
        /\ SameTerms(Head(PlacedLines(t, id)), Head(PlacedLines(s, id)))

CommittedAre(file, rungs) ==
    /\ IsFiniteSet(DOMAIN rungs)
    /\ \A id : id \in DOMAIN rungs <=>
            id \in DOMAIN Resting(file) /\ Head(PlacedLines(file, id)).side = "buy"
    /\ \A id \in DOMAIN rungs :
        /\ rungs[id].reserve = Head(PlacedLines(file, id)).reserve
        /\ rungs[id].currency = Head(PlacedLines(file, id)).currency
        /\ rungs[id].committed = Head(PlacedLines(file, id)).price.value * Resting(file)[id].remaining
        /\ Head(PlacedLines(file, id)).price.value \in Nat
        /\ Resting(file)[id].remaining \in Nat \ {0}
        /\ rungs[id].committed \in Nat

LEMMA CommittedType ==
    ASSUME NEW file \in Seq(OrderLines), WellFormed(file)
    PROVE  CommittedAre(file, CommittedRungs(file))
<1> DEFINE rungs == CommittedRungs(file)
           line(id) == Head(PlacedLines(file, id))
           rest == Resting(file)
           buys == { x \in DOMAIN rest : line(x).side = "buy" }
<1>1. rungs = [id \in buys |->
            [reserve |-> line(id).reserve, currency |-> line(id).currency,
             committed |-> line(id).price.value * rest[id].remaining]]
  BY DEF CommittedRungs
<1>2. \A id \in DOMAIN rest : line(id) \in PlacedRecords /\ line(id) \in ToSet(file) /\ line(id).id = id
                              /\ rest[id].remaining \in Nat \ {0}
  BY RestingOnFile, PlacedLinesAre
<1>3. IsFiniteSet(DOMAIN rest)
  <2>2. IsFiniteSet({ r.id : r \in ToSet(file) })
    BY FiniteIds
  <2> HIDE DEF rest
  <2>3. DOMAIN rest \subseteq { r.id : r \in ToSet(file) }
    BY <1>2
  <2> QED BY <2>2, <2>3, FS_Subset
<1> HIDE DEF rungs, rest
<1>4. IsFiniteSet(buys)
  <2>1. buys \subseteq DOMAIN rest
    OBVIOUS
  <2> QED BY <1>3, <2>1, FS_Subset
<1>5. \A id \in DOMAIN rest : line(id).price.value \in Nat
  BY <1>2 DEF PlacedRecords, Price
<1> HIDE DEF line
<1>6. \A id \in buys : line(id).price.value * rest[id].remaining \in Nat
  <2>1. SUFFICES ASSUME NEW id \in buys PROVE line(id).price.value * rest[id].remaining \in Nat
    OBVIOUS
  <2>2. line(id).price.value \in Nat /\ rest[id].remaining \in Nat
    BY <1>2, <1>5
  <2> QED BY <2>2, TimesAtMost
<1>7. /\ DOMAIN rungs = buys
      /\ \A id \in buys : /\ rungs[id].reserve = line(id).reserve
                          /\ rungs[id].currency = line(id).currency
                          /\ rungs[id].committed = line(id).price.value * rest[id].remaining
  BY <1>1
<1> QED BY <1>2, <1>4, <1>5, <1>6, <1>7 DEF CommittedAre, rungs, rest, line

LEMMA CommittedIsInt ==
    ASSUME NEW file, NEW b, CommittedAre(file, b), NEW reserve
    PROVE  Committed(b, reserve) \in Int
<1> DEFINE E == { x \in DOMAIN b : b[x].reserve = reserve }
           h == [x \in E |-> b[x].committed]
<1>1. E \subseteq DOMAIN b /\ IsFiniteSet(DOMAIN b) /\ \A x \in E : b[x].committed \in Nat
  BY DEF CommittedAre
<1>2. Committed(b, reserve) = SumFunction(h)
  BY DEF Committed
<1>3. IsFiniteSet(E) /\ h \in [E -> Nat]
  BY <1>1, FS_Subset
<1> HIDE DEF E, h
<1>4. E \in SUBSET E /\ \A x \in E : h[x] <= h[x]
  BY <1>3
<1> QED BY <1>2, <1>3, <1>4, SumAtMost

LEMMA LessIsLess ==
    ASSUME NEW s, NEW t, LessRests(t, s), NEW a, NEW b, CommittedAre(t, a), CommittedAre(s, b)
    PROVE  /\ DOMAIN a \subseteq DOMAIN b
           /\ \A id \in DOMAIN a :
                /\ a[id].reserve = b[id].reserve /\ a[id].currency = b[id].currency
                /\ a[id].committed \in Nat /\ a[id].committed <= b[id].committed
<1>1. SUFFICES ASSUME NEW id \in DOMAIN a
               PROVE  /\ id \in DOMAIN b
                      /\ a[id].reserve = b[id].reserve /\ a[id].currency = b[id].currency
                      /\ a[id].committed \in Nat /\ a[id].committed <= b[id].committed
  OBVIOUS
<1> DEFINE x == Head(PlacedLines(t, id))
           y == Head(PlacedLines(s, id))
           m == Resting(t)[id].remaining
           n == Resting(s)[id].remaining
<1>2. id \in DOMAIN Resting(t) /\ x.side = "buy"
  BY <1>1 DEF CommittedAre
<1>3. id \in DOMAIN Resting(s) /\ m <= n /\ SameTerms(x, y)
  BY <1>2 DEF LessRests
<1>4. id \in DOMAIN b
  BY <1>2, <1>3 DEF CommittedAre, SameTerms
<1>5. /\ a[id].reserve = x.reserve /\ a[id].currency = x.currency
      /\ a[id].committed = x.price.value * m /\ x.price.value \in Nat /\ m \in Nat
  BY <1>1 DEF CommittedAre
<1>6. /\ b[id].reserve = y.reserve /\ b[id].currency = y.currency
      /\ b[id].committed = y.price.value * n /\ y.price.value \in Nat /\ n \in Nat
  BY <1>4 DEF CommittedAre
<1> HIDE DEF x, y, m, n
<1>7. x.price.value = y.price.value /\ x.reserve = y.reserve /\ x.currency = y.currency
  BY <1>3 DEF SameTerms
<1>8. x.price.value * m <= x.price.value * n /\ x.price.value * m \in Nat
  BY <1>3, <1>5, <1>6, TimesAtMost
<1> QED BY <1>4, <1>5, <1>6, <1>7, <1>8

\* The figures that are summed for a reserve.
LEMMA LessIsCovered ==
    ASSUME NEW s \in Seq(OrderLines), NEW t \in Seq(OrderLines), WellFormed(s), WellFormed(t),
           LessRests(t, s), NEW held \in [DOMAIN Reserves -> Nat],
           Covered(CommittedRungs(s), held)
    PROVE  Covered(CommittedRungs(t), held)
<1> DEFINE a == CommittedRungs(t)
           b == CommittedRungs(s)
<1>1. CommittedAre(t, a) /\ CommittedAre(s, b)
  BY CommittedType
<1> HIDE DEF a, b
<1>2. /\ IsFiniteSet(DOMAIN b) /\ DOMAIN a \subseteq DOMAIN b
      /\ \A id \in DOMAIN a :
            /\ a[id].reserve = b[id].reserve /\ a[id].currency = b[id].currency
            /\ a[id].committed \in Nat /\ a[id].committed <= b[id].committed
      /\ \A id \in DOMAIN b : b[id].committed \in Nat
  <2>1. LessRests(t, s)
    OBVIOUS
  <2>2. /\ DOMAIN a \subseteq DOMAIN b
        /\ \A id \in DOMAIN a :
            /\ a[id].reserve = b[id].reserve /\ a[id].currency = b[id].currency
            /\ a[id].committed \in Nat /\ a[id].committed <= b[id].committed
    BY <1>1, <2>1, LessIsLess
  <2>3. IsFiniteSet(DOMAIN b) /\ \A id \in DOMAIN b : b[id].committed \in Nat
    BY <1>1 DEF CommittedAre
  <2> QED BY <2>2, <2>3
<1>3. Unmatched(b) = {} /\ \A r \in FundableReserves : Committed(b, r) <= held[r]
  BY DEF Covered, b
<1>4. Unmatched(a) = {}
  BY <1>2, <1>3 DEF Unmatched
<1>5. ASSUME NEW r \in FundableReserves PROVE Committed(a, r) <= held[r]
  <2> DEFINE D == { x \in DOMAIN a : a[x].reserve = r }
             E == { x \in DOMAIN b : b[x].reserve = r }
             f == [id \in D |-> a[id].committed]
             h == [id \in E |-> b[id].committed]
  <2>1. Committed(a, r) = SumFunction(f) /\ Committed(b, r) = SumFunction(h)
    BY DEF Committed
  <2>2. IsFiniteSet(E)
    <3>1. E \subseteq DOMAIN b
      OBVIOUS
    <3> QED BY <1>2, <3>1, FS_Subset
  <2>3. D \subseteq E
    BY <1>2
  <2>4. f \in [D -> Nat] /\ h \in [E -> Nat]
    BY <1>2
  <2>5. \A x \in D : f[x] <= h[x]
    BY <1>2, <2>3
  <2> HIDE DEF D, E, f, h
  <2>6. SumFunction(f) <= SumFunction(h) /\ SumFunction(f) \in Int /\ SumFunction(h) \in Int
    BY <2>2, <2>3, <2>4, <2>5, SumAtMost
  <2>7. held[r] \in Nat
    BY DEF FundableReserves
  <2>8. SumFunction(h) <= held[r]
    BY <1>3, <2>1
  <2> QED BY <2>1, <2>6, <2>7, <2>8
<1> QED BY <1>4, <1>5 DEF Covered, a
----------------------------------------------------------------------------
(* A fill: what it takes off the reserve it no longer commits.             *)

\* Fewer and lesser figures, the one at x less by d or gone.
IsLessBy(D, E, f, h, x, d) ==
    /\ IsFiniteSet(E) /\ D \subseteq E /\ f \in [D -> Nat] /\ h \in [E -> Nat]
    /\ \A y \in D : f[y] <= h[y]
    /\ x \in E /\ d \in Nat /\ d <= h[x]
    /\ x \in D => f[x] + d <= h[x]

LEMMA SumLessBy ==
    ASSUME NEW E, NEW D, NEW f, NEW h, NEW x, NEW d, IsLessBy(D, E, f, h, x, d)
    PROVE  SumFunction(f) + d <= SumFunction(h) /\ SumFunction(f) \in Int /\ SumFunction(h) \in Int
<1> DEFINE g == [y \in E |-> IF y = x THEN h[x] - d ELSE h[y]]
           rest == [y \in E \ {x} |-> h[y]]
<1>0. /\ IsFiniteSet(E) /\ D \subseteq E /\ f \in [D -> Nat] /\ h \in [E -> Nat]
      /\ \A y \in D : f[y] <= h[y]
      /\ x \in E /\ d \in Nat /\ d <= h[x]
      /\ x \in D => f[x] + d <= h[x]
  BY DEF IsLessBy
<1>1. h[x] \in Nat /\ h[x] - d \in Nat /\ \A y \in D : f[y] \in Nat /\ h[y] \in Nat
  BY <1>0
<1>2. g \in [E -> Nat] /\ g \in [E -> Int] /\ h \in [E -> Int] /\ g[x] = h[x] - d
  BY <1>0, <1>1
<1>3. [y \in E \ {x} |-> g[y]] = rest
  OBVIOUS
<1>4. \A y \in D : f[y] <= g[y]
  BY <1>0, <1>1
<1> HIDE DEF g, rest
<1>5. SumFunction(f) <= SumFunction(g) /\ SumFunction(f) \in Int
  BY <1>0, <1>2, <1>4, SumAtMost
<1>6. /\ SumFunction(g) = g[x] + SumFunction([y \in E \ {x} |-> g[y]])
      /\ SumFunction(g) \in Int /\ SumFunction([y \in E \ {x} |-> g[y]]) \in Int
  BY <1>0, <1>2, SumWithout
<1>7. /\ SumFunction(h) = h[x] + SumFunction([y \in E \ {x} |-> h[y]])
      /\ SumFunction(h) \in Int /\ SumFunction([y \in E \ {x} |-> h[y]]) \in Int
  BY <1>0, <1>2, SumWithout
<1>8. /\ SumFunction(g) = g[x] + SumFunction(rest) /\ SumFunction(rest) \in Int
      /\ SumFunction(h) = h[x] + SumFunction(rest)
  BY <1>3, <1>6, <1>7 DEF rest
<1> QED BY <1>0, <1>1, <1>2, <1>5, <1>6, <1>7, <1>8

\* No observation of the rung was on file for a later second.
IsTimely(r, file) ==
    \A x \in ToSet(file) : x.kind = "orderFillObserved" /\ x.id = r.id => x.at <= r.at

\* What a fill leaves of the rungs: all but its own as they were, and that one no more than
\* it was, or less by the fill if it is timely.
LEMMA FillLeaves ==
    ASSUME NEW file \in Seq(OrderLines), WellFormed(file), NEW id \in DOMAIN Resting(file),
           NEW r \in OrderLines, r.kind = "orderFilled", r.id = id, r.at >= id[4]
    PROVE  /\ WellFormed(Append(file, r)) /\ Append(file, r) \in Seq(OrderLines)
           /\ LessRests(Append(file, r), file)
           /\ id \in DOMAIN Resting(Append(file, r)) /\ IsTimely(r, file) =>
                Resting(Append(file, r))[id].remaining = Resting(file)[id].remaining - r.quantity
<1> DEFINE more == Append(file, r)
           a == FoldOrderStream(file)
           b == FoldOrderStream(more)
<1>1. more \in Seq(OrderLines) /\ ToSet(more) = ToSet(file) \cup {r}
  BY AppendedOne
<1>2. id \in Ids /\ IsPlaced(file, id) /\ Resting(file)[id].remaining \in Nat \ {0}
  BY RestingOnFile
<1>3. WellFormed(more)
  <2>1. \E x \in ToSet(file) : x.kind = "orderPlaced" /\ x.id = r.id
    BY <1>2, PlacedLinesAre
  <2> QED BY <1>1, <2>1 DEF WellFormed
<1>4. \A kind, y : kind # "orderFilled" => LinesAbout(more, kind, y) = LinesAbout(file, kind, y)
  BY AboutOneMore
<1>5. \A y : PlacedLines(more, y) = PlacedLines(file, y)
  BY <1>4 DEF PlacedLines
<1>6. id \in DOMAIN a
  BY RestsIf
<1>7. \A x \in ToSet(file) : x.kind = "orderPlaced" /\ x.id = r.id => x.at <= r.at
  <2>1. \A x \in ToSet(file) : x.kind = "orderPlaced" => x.at = x.id[4]
    BY DEF WellFormed
  <2>2. r.at \in Int /\ \A x \in ToSet(file) : x.at \in Int
    BY LinesAreLines, MembersType DEF AreLines
  <2> QED BY <2>1, <2>2
<1>8. /\ id \in DOMAIN b /\ b[id].placed = a[id].placed
      /\ a[id].consumed <= b[id].consumed
      /\ IsTimely(r, file) => b[id].consumed = a[id].consumed + r.quantity
  BY <1>6, <1>7, LinesAreLines, FilledThen DEF IsTimely
<1>9. ASSUME NEW y, y # id PROVE Same(a, b, y)
  BY <1>9, LinesAreLines, FoldOther
<1>10. \A x \in OrderLines : x.quantity \in Nat
  BY LinesAreLines DEF AreLines
<1>11. /\ a[id].consumed \in Nat /\ a[id].placed.quantity \in Nat /\ b[id].consumed \in Nat
  <2>1. a[id].placed \in ToSet(file) /\ a[id].consumed \in Nat
    BY <1>6, LinesAreLines, FoldType
  <2>2. b[id].consumed \in Nat
    BY <1>1, <1>8, LinesAreLines, FoldType
  <2> QED BY <1>10, <2>1, <2>2, MembersType
<1>12. id \in DOMAIN Resting(more) /\ IsTimely(r, file) => Resting(more)[id].remaining = Resting(file)[id].remaining - r.quantity
  <2>1. id \in DOMAIN Resting(more) =>
            Resting(more)[id].remaining = b[id].placed.quantity - b[id].consumed
    BY RestsIf
  <2>2. Resting(file)[id].remaining = a[id].placed.quantity - a[id].consumed
    BY RestsIf
  <2> HIDE DEF a, b, more
  <2>3. a[id].placed.quantity - (a[id].consumed + r.quantity) =
            (a[id].placed.quantity - a[id].consumed) - r.quantity
    BY <1>10, <1>11
  <2> QED BY <1>8, <2>1, <2>2, <2>3
<1>13. ASSUME NEW y \in DOMAIN Resting(more)
       PROVE  /\ y \in DOMAIN Resting(file)
              /\ Resting(more)[y].remaining <= Resting(file)[y].remaining
  <2>1. CASE y = id
    <3>1. Resting(more)[id].remaining = b[id].placed.quantity - b[id].consumed
      BY <1>13, <2>1, RestsIf
    <3>2. Resting(file)[id].remaining = a[id].placed.quantity - a[id].consumed
      BY RestsIf
    <3> HIDE DEF a, b, more
    <3> QED BY <1>8, <1>11, <2>1, <3>1, <3>2
  <2>2. CASE y # id
    <3>1. Same(a, b, y)
      BY <1>9, <2>2
    <3>2. /\ y \in DOMAIN b /\ b[y].placed.quantity - b[y].consumed > 0
          /\ Resting(more)[y].remaining = b[y].placed.quantity - b[y].consumed
      BY <1>13, RestsIf
    <3>3. y \in DOMAIN a /\ a[y] = b[y]
      BY <3>1, <3>2 DEF Same
    <3>4. y \in DOMAIN Resting(file)
          /\ Resting(file)[y].remaining = a[y].placed.quantity - a[y].consumed
      BY <3>2, <3>3, RestsIf
    <3>5. Resting(file)[y].remaining = Resting(more)[y].remaining
      BY <3>2, <3>3, <3>4
    <3>6. Resting(file)[y].remaining \in Nat
      BY <3>4, RestingOnFile
    <3> QED BY <3>4, <3>5, <3>6
  <2> QED BY <2>1, <2>2
<1>14. LessRests(more, file)
  BY <1>5, <1>13 DEF LessRests, SameTerms
<1> QED BY <1>1, <1>3, <1>12, <1>14

\* A timely fill takes off its reserve what its rung committed of it, and the rest was free.
\* What a late one takes off is not freed, but the excess was free.
LEMMA FillIsCovered ==
    ASSUME NEW file \in Seq(OrderLines), WellFormed(file),
           NEW held \in [DOMAIN Reserves -> Nat], Covered(CommittedRungs(file), held),
           NEW id \in DOMAIN CommittedRungs(file),
           NEW r \in OrderLines, r.kind = "orderFilled", r.id = id, r.at >= id[4],
           r.quantity <= Resting(file)[id].remaining, NEW freed \in Nat,
           \/ freed = 0
           \/ /\ IsTimely(r, file)
              /\ freed = Head(PlacedLines(file, id)).price.value * r.quantity,
           NEW excess \in Nat,
           LET reserve == CommittedRungs(file)[id].reserve
           IN  excess > 0 => excess <= held[reserve] - Committed(CommittedRungs(file), reserve)
    PROVE  LET reserve == CommittedRungs(file)[id].reserve
           IN  Covered(CommittedRungs(Append(file, r)),
                       [held EXCEPT ![reserve] = @ - (freed + excess)])
<1> DEFINE more == Append(file, r)
           a == CommittedRungs(more)
           b == CommittedRungs(file)
           reserve == b[id].reserve
           price == Head(PlacedLines(file, id)).price.value
           q == r.quantity
           m == Resting(file)[id].remaining
           left == [held EXCEPT ![reserve] = @ - (freed + excess)]
<1>1. CommittedAre(file, b) /\ id \in DOMAIN Resting(file)
  <2>1. CommittedAre(file, b)
    BY CommittedType
  <2> QED BY <2>1 DEF CommittedAre
<1>2. /\ WellFormed(more) /\ more \in Seq(OrderLines) /\ LessRests(more, file)
      /\ id \in DOMAIN Resting(more) /\ IsTimely(r, file) => Resting(more)[id].remaining = m - q
  BY <1>1, FillLeaves
<1>3. CommittedAre(more, a)
  BY <1>2, CommittedType
<1>4. /\ price \in Nat /\ m \in Nat /\ q \in Nat /\ q <= m
      /\ b[id].committed = price * m
  BY <1>1, LinesAreLines DEF CommittedAre, AreLines
<1>5. Covered(a, held)
  BY <1>2, LessIsCovered
<1>6. Unmatched(a) = {} /\ \A s \in FundableReserves : Committed(a, s) <= held[s]
  BY <1>5 DEF Covered
<1>7. Unmatched(b) = {} /\ \A s \in FundableReserves : Committed(b, s) <= held[s]
  BY DEF Covered
<1>8. reserve \in FundableReserves
  BY <1>7 DEF Unmatched
<1>9. reserve \in DOMAIN Reserves
  BY <1>8 DEF FundableReserves
<1>10. Committed(b, reserve) + excess <= held[reserve] /\ Committed(b, reserve) \in Int
  <2>1. Committed(b, reserve) \in Int
    BY <1>1, CommittedIsInt
  <2>3. excess > 0 => excess <= held[reserve] - Committed(b, reserve)
    OBVIOUS
  <2>4. Committed(b, reserve) <= held[reserve]
    BY <1>7, <1>8
  <2>5. held[reserve] \in Nat
    BY <1>9
  <2> HIDE DEF b, reserve
  <2> QED BY <2>1, <2>3, <2>4, <2>5
<1>11. price * q <= price * m /\ price * q \in Nat /\ price * m \in Nat
  BY <1>4, TimesAtMost
<1>12. id \in DOMAIN a /\ IsTimely(r, file) => a[id].committed + price * q = price * m
  <2>1. SUFFICES ASSUME id \in DOMAIN a, IsTimely(r, file)
                 PROVE  a[id].committed + price * q = price * m
    OBVIOUS
  <2>2. /\ id \in DOMAIN Resting(more)
        /\ a[id].committed = Head(PlacedLines(more, id)).price.value * Resting(more)[id].remaining
    BY <1>3, <2>1 DEF CommittedAre
  <2>3. Head(PlacedLines(more, id)).price.value = price
    BY <1>2, <2>2 DEF LessRests, SameTerms
  <2>4. a[id].committed = price * (m - q)
    <3>1. Resting(more)[id].remaining = m - q
      BY <1>2, <2>1, <2>2
    <3> HIDE DEF a, price, m, q, more
    <3> QED BY <2>2, <2>3, <3>1 DEF price
  <2> HIDE DEF a, price, m, q
  <2>5. price * (m - q) + price * q = price * m
    <3>1. PICK d \in Nat : m = q + d
      <4>1. m - q \in Nat /\ m = q + (m - q)
        BY <1>4
      <4> QED BY <4>1
    <3>2. m - q = d
      BY <1>4, <3>1
    <3>3. price * (q + d) = price * q + price * d /\ price * q \in Nat /\ price * d \in Nat
      BY <1>4
    <3> QED BY <3>1, <3>2, <3>3
  <2> QED BY <2>4, <2>5
<1>13. /\ DOMAIN a \subseteq DOMAIN b
       /\ \A x \in DOMAIN a : /\ a[x].reserve = b[x].reserve /\ a[x].committed \in Nat
                              /\ a[x].committed <= b[x].committed
  BY <1>1, <1>2, <1>3, LessIsLess
<1>18. freed = 0 \/ (IsTimely(r, file) /\ freed = price * q)
  OBVIOUS
<1>14. Committed(a, reserve) + freed <= Committed(b, reserve) /\ Committed(a, reserve) \in Int
  <2> DEFINE D == { x \in DOMAIN a : a[x].reserve = reserve }
             E == { x \in DOMAIN b : b[x].reserve = reserve }
             f == [x \in D |-> a[x].committed]
             h == [x \in E |-> b[x].committed]
             d == freed
  <2>1. Committed(a, reserve) = SumFunction(f) /\ Committed(b, reserve) = SumFunction(h)
    BY DEF Committed
  <2>2. /\ IsFiniteSet(DOMAIN b) /\ \A x \in DOMAIN b : b[x].committed \in Nat
    BY <1>1 DEF CommittedAre
  <2> HIDE DEF a, b, price, q, m, reserve
  <2>3. IsFiniteSet(E)
    <3>1. E \subseteq DOMAIN b
      OBVIOUS
    <3> QED BY <2>2, <3>1, FS_Subset
  <2>4. D \subseteq E /\ f \in [D -> Nat] /\ h \in [E -> Nat] /\ id \in E
    <3>1. D \subseteq E
      BY <1>13
    <3>2. id \in E
      BY DEF reserve, b
    <3>3. f \in [D -> Nat]
      BY <1>13
    <3>4. h \in [E -> Nat]
      BY <2>2
    <3> QED BY <3>1, <3>2, <3>3, <3>4
  <2>5. \A x \in D : f[x] <= h[x]
    BY <1>13, <2>4
  <2>6. d \in Nat /\ d <= h[id] /\ (id \in D => f[id] + d <= h[id])
    <3>1. h[id] = price * m
      BY <1>4, <2>4
    <3>2. id \in D => f[id] \in Nat /\ f[id] <= h[id] /\ f[id] = a[id].committed
      BY <2>4, <2>5
    <3>3. CASE freed = 0
      BY <1>11, <3>1, <3>2, <3>3
    <3>4. CASE freed # 0
      <4>1. IsTimely(r, file) /\ freed = price * q
        BY <1>18, <3>4
      <4>2. id \in D => f[id] + d = price * m
        BY <1>12, <3>2, <4>1
      <4> QED BY <1>11, <3>1, <4>1, <4>2
    <3> QED BY <3>3, <3>4
  <2> HIDE DEF D, E, f, h, d
  <2>7. SumFunction(f) + d <= SumFunction(h) /\ SumFunction(f) \in Int
    <3>1. IsLessBy(D, E, f, h, id, d)
      BY <2>3, <2>4, <2>5, <2>6 DEF IsLessBy
    <3> QED BY <3>1, SumLessBy
  <2> QED BY <2>1, <2>7 DEF d
<1> HIDE DEF a, b, price, q, m, reserve
<1>15. /\ left[reserve] = held[reserve] - (freed + excess)
       /\ \A s \in DOMAIN Reserves : s # reserve => left[s] = held[s]
  BY <1>9
<1> HIDE DEF left
<1>16. ASSUME NEW s \in FundableReserves PROVE Committed(a, s) <= left[s]
  <2>1. s \in DOMAIN Reserves
    BY DEF FundableReserves
  <2>2. CASE s = reserve
    <3>1. held[reserve] \in Nat
      BY <1>9
    <3>2. Committed(a, reserve) <= held[reserve] - (freed + excess)
      BY <1>10, <1>14, <3>1
    <3> QED BY <1>15, <2>2, <3>2
  <2>3. CASE s # reserve
    BY <1>6, <1>15, <2>1, <2>3
  <2> QED BY <2>2, <2>3
<1>17. Covered(a, left)
  BY <1>6, <1>16 DEF Covered
<1> QED BY <1>17 DEF left, a, b, reserve
----------------------------------------------------------------------------
(* What was debited late only grows, and by a late fill.                   *)

IsLonger(more, file) ==
    /\ \A i \in DOMAIN file : i \in DOMAIN more /\ more[i] = file[i]
    /\ \A id : IsPlaced(file, id) =>
            Head(PlacedLines(more, id)) = Head(PlacedLines(file, id))

\* What each late fill of a reserve came to.
LateCosts(file, reserve) ==
    [i \in RecordedLate(file, reserve) |->
        Head(PlacedLines(file, file[i].id)).price.value * file[i].quantity]

LEMMA SumOfNone ==
    SumFunction([i \in {} |-> 0]) = 0
<1> DEFINE none == [i \in {} |-> 0]
<1>1. IsFiniteSet({}) /\ none \in [{} -> Int]
  BY FS_EmptySet
<1> HIDE DEF none
<1>2. PICK sum : IsSum(sum, none, {})
  BY <1>1, SumExists
<1>3. SumFunction(none) = sum[{}]
  BY <1>1, <1>2, SumIs
<1> QED BY <1>2, <1>3 DEF IsSum, none

LEMMA LateAre ==
    ASSUME NEW file \in Seq(OrderLines), WellFormed(file), NEW reserve
    PROVE  /\ IsFiniteSet(RecordedLate(file, reserve))
           /\ RecordedLate(file, reserve) \subseteq DOMAIN file
           /\ \A i \in RecordedLate(file, reserve) : IsPlaced(file, file[i].id)
           /\ LateCosts(file, reserve) \in [RecordedLate(file, reserve) -> Nat]
           /\ DebitedLate(file, reserve) = SumFunction(LateCosts(file, reserve))
           /\ DebitedLate(file, reserve) \in Nat
<1> DEFINE late == RecordedLate(file, reserve)
           costs == LateCosts(file, reserve)
           none == [i \in {} |-> 0]
<1>1. late \subseteq DOMAIN file
  BY DEF RecordedLate
<1>2. IsFiniteSet(late)
  <2>1. IsFiniteSet(DOMAIN file)
    <3>1. DOMAIN file = 1 .. Len(file) /\ Len(file) \in Nat
      OBVIOUS
    <3> QED BY <3>1, FS_Interval
  <2> QED BY <1>1, <2>1, FS_Subset
<1>3. ASSUME NEW i \in late
      PROVE  /\ IsPlaced(file, file[i].id)
             /\ Head(PlacedLines(file, file[i].id)).price.value * file[i].quantity \in Nat
  <2>1. file[i] \in ToSet(file) /\ file[i] \in OrderLines
    BY <1>1, <1>3 DEF ToSet
  <2>2. IsPlaced(file, file[i].id)
    BY <2>1, PlacedLinesAre DEF WellFormed
  <2>3. Head(PlacedLines(file, file[i].id)).price.value \in Nat
    BY <2>2, PlacedLinesAre DEF PlacedRecords, Price
  <2>4. file[i].quantity \in Nat
    BY <2>1, LinesAreLines DEF AreLines
  <2> QED BY <2>2, <2>3, <2>4, TimesAtMost
<1>4. costs \in [late -> Nat]
  BY <1>3 DEF LateCosts
<1>5. DebitedLate(file, reserve) = SumFunction(costs)
  BY DEF DebitedLate, LateCosts
<1> HIDE DEF late, costs
<1>6. SumFunction(costs) \in Nat
  <2>1. {} \in SUBSET late /\ none \in [{} -> Nat]
    OBVIOUS
  <2>2. SumFunction(none) <= SumFunction(costs) /\ SumFunction(none) \in Int
        /\ SumFunction(costs) \in Int
    BY <1>2, <1>4, <2>1, SumAtMost
  <2>3. SumFunction(none) = 0
    BY SumOfNone
  <2> QED BY <2>2, <2>3
<1> QED BY <1>1, <1>2, <1>3, <1>4, <1>5, <1>6 DEF late, costs

LEMMA StaysLate ==
    ASSUME NEW file \in Seq(OrderLines), WellFormed(file), NEW more, IsLonger(more, file),
           NEW reserve
    PROVE  /\ RecordedLate(file, reserve) \subseteq RecordedLate(more, reserve)
           /\ \A i \in RecordedLate(file, reserve) :
                LateCosts(file, reserve)[i] = LateCosts(more, reserve)[i]
<1>1. SUFFICES ASSUME NEW i \in RecordedLate(file, reserve)
               PROVE  /\ i \in RecordedLate(more, reserve)
                      /\ LateCosts(file, reserve)[i] = LateCosts(more, reserve)[i]
  OBVIOUS
<1>2. i \in DOMAIN file /\ IsPlaced(file, file[i].id)
  BY LateAre
<1>3. i \in DOMAIN more /\ more[i] = file[i]
      /\ Head(PlacedLines(more, file[i].id)) = Head(PlacedLines(file, file[i].id))
  BY <1>2 DEF IsLonger
<1>4. PICK j \in 1 .. i - 1 : /\ file[j].kind = "orderFillObserved"
                              /\ file[j].id = file[i].id /\ file[j].at > file[i].at
  BY <1>1 DEF RecordedLate
<1>5. more[j] = file[j]
  <2>1. DOMAIN file = 1 .. Len(file) /\ Len(file) \in Nat
    OBVIOUS
  <2>2. j \in DOMAIN file
    BY <1>2, <1>4, <2>1
  <2> QED BY <2>2 DEF IsLonger
<1>6. i \in RecordedLate(more, reserve)
  BY <1>1, <1>3, <1>4, <1>5 DEF RecordedLate
<1> QED BY <1>1, <1>3, <1>6 DEF LateCosts

LEMMA LateGrows ==
    ASSUME NEW file \in Seq(OrderLines), WellFormed(file),
           NEW more \in Seq(OrderLines), WellFormed(more), IsLonger(more, file), NEW reserve
    PROVE  DebitedLate(file, reserve) <= DebitedLate(more, reserve)
<1> DEFINE D == RecordedLate(file, reserve)
           E == RecordedLate(more, reserve)
           f == LateCosts(file, reserve)
           h == LateCosts(more, reserve)
<1>1. /\ IsFiniteSet(E) /\ f \in [D -> Nat] /\ h \in [E -> Nat]
      /\ DebitedLate(file, reserve) = SumFunction(f)
      /\ DebitedLate(more, reserve) = SumFunction(h)
  BY LateAre
<1>2. D \subseteq E /\ \A i \in D : f[i] = h[i]
  BY StaysLate
<1> HIDE DEF D, E, f, h
<1>3. \A i \in D : f[i] <= h[i]
  BY <1>1, <1>2
<1>4. SumFunction(f) <= SumFunction(h)
  BY <1>1, <1>2, <1>3, SumAtMost
<1> QED BY <1>1, <1>4

LEMMA LateFillCounts ==
    ASSUME NEW file \in Seq(OrderLines), WellFormed(file), NEW r \in OrderLines,
           WellFormed(Append(file, r)), IsLonger(Append(file, r), file),
           r.kind = "orderFilled", ~ IsTimely(r, file), IsPlaced(file, r.id)
    PROVE  LET placed == Head(PlacedLines(file, r.id))
           IN  DebitedLate(file, placed.reserve) + placed.price.value * r.quantity
                    <= DebitedLate(Append(file, r), placed.reserve)
<1> DEFINE more == Append(file, r)
           placed == Head(PlacedLines(file, r.id))
           reserve == placed.reserve
           D == RecordedLate(file, reserve)
           E == RecordedLate(more, reserve)
           f == LateCosts(file, reserve)
           h == LateCosts(more, reserve)
           n == Len(file) + 1
           d == placed.price.value * r.quantity
<1>1. /\ more \in Seq(OrderLines) /\ Len(file) \in Nat /\ DOMAIN file = 1 .. Len(file)
      /\ DOMAIN more = 1 .. n /\ more[n] = r /\ \A i \in DOMAIN file : more[i] = file[i]
  OBVIOUS
<1>2. Head(PlacedLines(more, r.id)) = placed
  BY DEF IsLonger
<1>3. PICK x \in ToSet(file) : x.kind = "orderFillObserved" /\ x.id = r.id /\ ~ (x.at <= r.at)
  BY DEF IsTimely
<1>4. PICK j \in DOMAIN file : x = file[j]
  BY <1>3 DEF ToSet
<1>5. x.at > r.at
  <2>1. x \in OrderLines
    BY <1>3, MembersType
  <2>2. x.at \in Int /\ r.at \in Int
    BY <2>1, LinesAreLines DEF AreLines
  <2> QED BY <1>3, <2>2
<1>6. n \in E
  <2>1. n \in DOMAIN more /\ more[n].kind = "orderFilled"
        /\ Head(PlacedLines(more, more[n].id)).reserve = reserve
    BY <1>1, <1>2
  <2>2. j \in 1 .. n - 1 /\ more[j] = x
    BY <1>1, <1>4
  <2>3. /\ more[j].kind = "orderFillObserved" /\ more[j].id = more[n].id
        /\ more[j].at > more[n].at
    BY <1>1, <1>3, <1>5, <2>2
  <2> HIDE DEF more, n, reserve
  <2> QED BY <2>1, <2>2, <2>3 DEF RecordedLate
<1>7. h[n] = d
  BY <1>1, <1>2, <1>6 DEF LateCosts
<1>8. /\ IsFiniteSet(E) /\ f \in [D -> Nat] /\ h \in [E -> Nat] /\ D \subseteq DOMAIN file
      /\ DebitedLate(file, reserve) = SumFunction(f)
      /\ DebitedLate(more, reserve) = SumFunction(h)
  BY <1>1, LateAre
<1>9. n \notin D
  BY <1>1, <1>8
<1>10. D \subseteq E /\ \A i \in D : f[i] = h[i]
  BY StaysLate
<1> HIDE DEF D, E, f, h, n, d
<1>11. d \in Nat
  BY <1>6, <1>7, <1>8
<1>12. \A i \in D : f[i] \in Nat /\ f[i] <= h[i]
  BY <1>8, <1>10
<1>13. IsLessBy(D, E, f, h, n, d)
  BY <1>6, <1>7, <1>8, <1>9, <1>10, <1>11, <1>12 DEF IsLessBy
<1>14. SumFunction(f) + d <= SumFunction(h)
  BY <1>13, SumLessBy
<1> QED BY <1>8, <1>14 DEF d

\* What a reserve holds, and what was debited of it late.
Backing(file, held) == [r \in DOMAIN Reserves |-> held[r] + DebitedLate(file, r)]

LEMMA BackingIs ==
    ASSUME NEW file \in Seq(OrderLines), WellFormed(file), NEW held \in [DOMAIN Reserves -> Nat]
    PROVE  /\ Backing(file, held) \in [DOMAIN Reserves -> Nat]
           /\ \A r \in DOMAIN Reserves : /\ DebitedLate(file, r) \in Nat
                                         /\ Backing(file, held)[r] = held[r] + DebitedLate(file, r)
                                         /\ held[r] <= Backing(file, held)[r]
<1>1. \A r \in DOMAIN Reserves : DebitedLate(file, r) \in Nat /\ held[r] \in Nat
  BY LateAre
<1> QED BY <1>1 DEF Backing

\* More held covers no less.
LEMMA MoreIsCovered ==
    ASSUME NEW file \in Seq(OrderLines), WellFormed(file),
           NEW held \in [DOMAIN Reserves -> Int], NEW slack \in [DOMAIN Reserves -> Int],
           \A r \in DOMAIN Reserves : held[r] <= slack[r], Covered(CommittedRungs(file), held)
    PROVE  Covered(CommittedRungs(file), slack)
<1> DEFINE b == CommittedRungs(file)
<1>1. CommittedAre(file, b)
  BY CommittedType
<1> HIDE DEF b
<1>2. Unmatched(b) = {} /\ \A r \in FundableReserves : Committed(b, r) <= held[r]
  BY DEF Covered, b
<1>3. ASSUME NEW r \in FundableReserves PROVE Committed(b, r) <= slack[r]
  <2>1. r \in DOMAIN Reserves
    BY DEF FundableReserves
  <2>2. Committed(b, r) \in Int
    BY <1>1, CommittedIsInt
  <2> QED BY <1>2, <2>1, <2>2
<1> QED BY <1>2, <1>3 DEF Covered, b
----------------------------------------------------------------------------
(* No two lines of a batch are about one rung.                             *)

LEMMA KeptOfDistinct ==
    ASSUME NEW S, NEW list \in Seq(S), Distinct(list), NEW places
    PROVE  Distinct(Kept(list, places))
<1>1. \A i, j \in places \cap DOMAIN list : list[i].id = list[j].id => i = j
  BY DEF Distinct
<1> QED BY <1>1, KeptDistinct

LEMMA ConcatDistinct ==
    ASSUME NEW S, NEW s \in Seq(S), NEW t \in Seq(S), Distinct(s), Distinct(t),
           \A x \in ToSet(s), y \in ToSet(t) : x.id # y.id
    PROVE  Distinct(s \o t)
<1> DEFINE all == s \o t
<1>1. SUFFICES ASSUME NEW i \in DOMAIN all, NEW j \in DOMAIN all, all[i].id = all[j].id
               PROVE  i = j
  BY DEF Distinct
<1>2. /\ Len(s) \in Nat /\ Len(t) \in Nat /\ DOMAIN all = 1 .. Len(s) + Len(t)
      /\ \A k \in 1 .. Len(s) : all[k] = s[k] /\ s[k] \in ToSet(s) /\ k \in DOMAIN s
      /\ \A k \in Len(s) + 1 .. Len(s) + Len(t) :
            all[k] = t[k - Len(s)] /\ k - Len(s) \in DOMAIN t /\ t[k - Len(s)] \in ToSet(t)
  BY DEF ToSet
<1> HIDE DEF all
<1>3. CASE i <= Len(s) /\ j <= Len(s)
  BY <1>1, <1>2, <1>3 DEF Distinct
<1>4. CASE i > Len(s) /\ j > Len(s)
  <2>1. i \in Len(s) + 1 .. Len(s) + Len(t) /\ j \in Len(s) + 1 .. Len(s) + Len(t)
    BY <1>2, <1>4
  <2>2. /\ i - Len(s) \in DOMAIN t /\ j - Len(s) \in DOMAIN t
        /\ t[i - Len(s)].id = t[j - Len(s)].id
    BY <1>1, <1>2, <2>1
  <2>3. i - Len(s) = j - Len(s)
    BY <2>2 DEF Distinct
  <2> QED BY <1>2, <2>3
<1>5. CASE i <= Len(s) /\ j > Len(s)
  <2>1. i \in 1 .. Len(s) /\ j \in Len(s) + 1 .. Len(s) + Len(t)
    BY <1>2, <1>5
  <2> QED BY <1>1, <1>2, <2>1
<1>6. CASE i > Len(s) /\ j <= Len(s)
  <2>1. j \in 1 .. Len(s) /\ i \in Len(s) + 1 .. Len(s) + Len(t)
    BY <1>2, <1>6
  <2> QED BY <1>1, <1>2, <2>1
<1> QED BY <1>2, <1>3, <1>4, <1>5, <1>6

\* Lines of the same rungs as those of a list, one for one.
LEMMA DistinctLike ==
    ASSUME NEW s, NEW t, DOMAIN t = DOMAIN s, \A i \in DOMAIN s : t[i].id = s[i].id, Distinct(s)
    PROVE  Distinct(t)
BY DEF Distinct

\* mergeCollidingClaims leaves one claim for each rung.
LEMMA ClaimsDistinct ==
    ASSUME NEW rows \in Exports \cup {<<>>}
    PROVE  Distinct(Claims[rows])
<1> DEFINE parsed == Parsed(rows)
           firsts == { i \in DOMAIN parsed : \A j \in 1 .. i - 1 : parsed[j].id # parsed[i].id }
           first == Kept(parsed, firsts)
           amounts(id, figures) == [j \in DOMAIN parsed |->
                                      IF parsed[j].id = id THEN figures[j] ELSE 0]
           quantities == [j \in DOMAIN parsed |-> parsed[j].quantity]
           filleds == [j \in DOMAIN parsed |-> parsed[j].filled]
           merged == [k \in DOMAIN first |->
            [first[k] EXCEPT !.quantity = Total(amounts(first[k].id, quantities)),
                             !.filled = Total(amounts(first[k].id, filleds))]]
<1>1. parsed \in Seq(Claimed)
  <2>1. rows \in Seq(Rows)
    BY OrderImportAssumption, EmptyLog
  <2> QED BY <2>1, ParsedType
<1>2. Claims[rows] = merged
  BY DEF Claims, MergeCollidingClaims
<1>3. Distinct(first)
  <2>1. \A i, j \in firsts \cap DOMAIN parsed : parsed[i].id = parsed[j].id => i = j
    <3>1. SUFFICES ASSUME NEW i \in firsts, NEW j \in firsts, parsed[i].id = parsed[j].id, i # j
                   PROVE  FALSE
      OBVIOUS
    <3>2. i \in 1 .. Len(parsed) /\ j \in 1 .. Len(parsed) /\ Len(parsed) \in Nat
      BY <1>1
    <3>3. CASE i < j
      <4>1. i \in 1 .. j - 1
        BY <3>2, <3>3
      <4> QED BY <3>1, <4>1
    <3>4. CASE j < i
      <4>1. j \in 1 .. i - 1
        BY <3>2, <3>4
      <4> QED BY <3>1, <4>1
    <3> QED BY <3>1, <3>2, <3>3, <3>4
  <2> HIDE DEF parsed, firsts
  <2> QED BY <1>1, <2>1, KeptDistinct DEF first
<1>4. \A k \in DOMAIN first : first[k] \in Claimed
  <2> HIDE DEF parsed, firsts
  <2>1. first \in Seq(Claimed)
    BY <1>1, KeptLines
  <2> QED BY <2>1, LineType
<1>5. \A c \in Claimed : \A q, f : [c EXCEPT !.quantity = q, !.filled = f].id = c.id
  BY DEF Claimed
<1> HIDE DEF first, amounts, quantities, filleds
<1>6. DOMAIN merged = DOMAIN first /\ \A k \in DOMAIN first : merged[k].id = first[k].id
  BY <1>4, <1>5
<1> HIDE DEF merged
<1> QED BY <1>2, <1>3, <1>6, DistinctLike

LEMMA ObservationsDistinct ==
    ASSUME NEW restated \in Seq(Claimed), Distinct(restated), NEW now
    PROVE  Distinct(Observations(restated, now))
<1> DEFINE made == Kept(restated, { i \in DOMAIN restated :
                    BuildOrderFillObserved(restated[i].id, now, restated[i].filled) # {} })
           seen == [i \in DOMAIN made |-> FillObserved(made[i].id, now, made[i].filled)]
<1>1. Observations(restated, now) = seen
  BY DEF Observations
<1>2. Distinct(made)
  BY KeptOfDistinct
<1> HIDE DEF made
<1>3. DOMAIN seen = DOMAIN made /\ \A i \in DOMAIN made : seen[i].id = made[i].id
  BY DEF FillObserved
<1> HIDE DEF seen
<1> QED BY <1>1, <1>2, <1>3, DistinctLike

\* A rung without a claim is a rung without a claim in an empty export.
LEMMA NoClaims == ToSet(Claims[<<>>]) = {}
<1>1. Parsed(<<>>) = <<>>
  <2>1. Kept(<<>>, { i \in DOMAIN <<>> : RowProblem(<<>>[i]) = "none" }) = <<>>
    <3> DEFINE places == { i \in DOMAIN <<>> : RowProblem(<<>>[i]) = "none" }
    <3>1. <<>> \in Seq(Rows)
      BY EmptyLog
    <3> HIDE DEF places
    <3>2. /\ Kept(<<>>, places) \in Seq(Rows)
          /\ ToSet(Kept(<<>>, places)) = { <<>>[i] : i \in places \cap DOMAIN <<>> }
      BY <3>1, KeptLines
    <3>3. ToSet(Kept(<<>>, places)) = {}
      BY <3>2
    <3> QED BY <3>2, <3>3, NoLines DEF places
  <2>2. Parsed(<<>>) = [i \in DOMAIN <<>> |-> Claim(<<>>[i])]
    BY <2>1 DEF Parsed
  <2> QED BY <2>2
<1>2. Claims[<<>>] = MergeCollidingClaims(<<>>)
  BY <1>1 DEF Claims
<1> DEFINE firsts == { i \in DOMAIN <<>> : \A j \in 1 .. i - 1 : <<>>[j].id # <<>>[i].id }
<1>3. DOMAIN MergeCollidingClaims(<<>>) = DOMAIN Kept(<<>>, firsts)
  BY DEF MergeCollidingClaims
<1>4. DOMAIN Kept(<<>>, firsts) = {}
  <2>1. <<>> \in Seq(Claimed)
    BY EmptyLog
  <2> HIDE DEF firsts
  <2>2. /\ Kept(<<>>, firsts) \in Seq(Claimed)
        /\ ToSet(Kept(<<>>, firsts)) = { <<>>[i] : i \in firsts \cap DOMAIN <<>> }
    BY <2>1, KeptLines
  <2>3. ToSet(Kept(<<>>, firsts)) = {}
    BY <2>2
  <2>4. Kept(<<>>, firsts) = <<>>
    BY <2>2, <2>3, NoLines
  <2> QED BY <2>4
<1> QED BY <1>2, <1>3, <1>4 DEF ToSet
----------------------------------------------------------------------------
(* The current observation is the latest.                                  *)

LEMMA LatestIsLatest ==
    ASSUME NEW file \in Seq(OrderLines), NEW id, NEW x \in ToSet(file),
           x.kind = "orderFillObserved", x.id = id, \A r \in ToSet(file) : r.at <= MaxClock
    PROVE  \E y \in ToSet(file) :
                /\ LatestObservation(file, id) = <<y>> /\ y.kind = "orderFillObserved" /\ y.id = id
                /\ x.at <= y.at
<1> DEFINE seen == LinesAbout(file, "orderFillObserved", id)
           greatest == { i \in DOMAIN seen : \A j \in DOMAIN seen : seen[j].at <= seen[i].at }
           latest == ObservationLines(file, id)
           gaps == { MaxClock - r.at : r \in ToSet(seen) }
<1>1. /\ seen \in Seq(OrderLines)
      /\ ToSet(seen) = { r \in ToSet(file) : r.kind = "orderFillObserved" /\ r.id = id }
  BY LinesAboutAre
<1>2. latest = Kept(seen, greatest)
  BY DEF ObservationLines
<1>3. /\ latest \in Seq(OrderLines)
      /\ ToSet(latest) = { seen[i] : i \in greatest \cap DOMAIN seen }
  <2> HIDE DEF greatest, seen
  <2> QED BY <1>1, <1>2, KeptLines
<1>4. \A r \in ToSet(seen) : r.at \in Int /\ r.at <= MaxClock
  <2>1. \A r \in ToSet(file) : r.at \in Int
    BY LinesAreLines, MembersType DEF AreLines
  <2> QED BY <1>1, <2>1
<1>5. \A i \in DOMAIN seen : seen[i] \in ToSet(seen)
  BY DEF ToSet
<1>6. \A r \in ToSet(seen) : \E i \in DOMAIN seen : r = seen[i]
  BY DEF ToSet
<1> HIDE DEF seen
<1>7. PICK m \in gaps : \A n \in gaps : m <= n
  <2>1. gaps \in SUBSET Nat
    BY <1>4, OrderImportAssumption
  <2>2. x \in ToSet(seen)
    BY <1>1
  <2>3. gaps # {}
    BY <2>2
  <2> HIDE DEF gaps
  <2> QED BY <2>1, <2>3, LeastMember
<1>8. PICK g \in ToSet(seen) : m = MaxClock - g.at
  BY <1>7
<1>9. \A r \in ToSet(seen) : r.at <= g.at
  <2>1. SUFFICES ASSUME NEW r \in ToSet(seen) PROVE r.at <= g.at
    OBVIOUS
  <2>2. MaxClock - r.at \in gaps
    BY <2>1
  <2>3. MaxClock - g.at <= MaxClock - r.at
    BY <1>7, <1>8, <2>2
  <2> QED BY <1>4, <2>1, <2>3, OrderImportAssumption
<1>10. \E i \in greatest : g = seen[i]
  BY <1>5, <1>6, <1>8, <1>9
<1>11. g \in ToSet(latest)
  BY <1>3, <1>10
<1>12. latest # <<>> /\ Len(latest) \in Nat
  BY <1>3, <1>11 DEF ToSet
<1>13. LatestObservation(file, id) = <<Last(latest)>> /\ Last(latest) \in ToSet(latest)
  <2>1. LatestObservation(file, id) = <<Last(latest)>>
    BY <1>12 DEF LatestObservation
  <2>2. Last(latest) = latest[Len(latest)] /\ Len(latest) \in DOMAIN latest
    BY <1>3, <1>12 DEF Last
  <2> QED BY <2>1, <2>2 DEF ToSet
<1> HIDE DEF latest
<1>14. PICK k \in greatest : Last(latest) = seen[k]
  BY <1>3, <1>13
<1>15. x \in ToSet(seen)
  BY <1>1
<1>16. seen[k] \in ToSet(seen) /\ \A r \in ToSet(seen) : r.at <= seen[k].at
  BY <1>5, <1>6, <1>14
<1> QED BY <1>1, <1>13, <1>14, <1>15, <1>16

\* What is known filled of a rung is a figure.
LEMMA KnownType ==
    ASSUME NEW file \in Seq(OrderLines), NEW id, IsPlaced(file, id)
    PROVE  /\ KnownFilled(file, id) \in Nat
           /\ LatestObservation(file, id) # <<>> =>
                \E y \in ToSet(file) : /\ LatestObservation(file, id) = <<y>>
                                       /\ y.kind = "orderFillObserved" /\ y.id = id
<1> DEFINE seen == LinesAbout(file, "orderFillObserved", id)
           greatest == { i \in DOMAIN seen : \A j \in DOMAIN seen : seen[j].at <= seen[i].at }
           latest == ObservationLines(file, id)
<1>1. /\ seen \in Seq(OrderLines)
      /\ ToSet(seen) = { r \in ToSet(file) : r.kind = "orderFillObserved" /\ r.id = id }
  BY LinesAboutAre
<1>2. latest = Kept(seen, greatest)
  BY DEF ObservationLines
<1>3. /\ latest \in Seq(OrderLines)
      /\ ToSet(latest) = { seen[i] : i \in greatest \cap DOMAIN seen }
  <2> HIDE DEF greatest, seen
  <2> QED BY <1>1, <1>2, KeptLines
<1>4. ToSet(latest) \subseteq ToSet(seen)
  BY <1>3 DEF ToSet
<1> HIDE DEF seen, latest, greatest
<1>5. /\ latest = <<>> => LatestObservation(file, id) = <<>>
      /\ latest # <<>> => LatestObservation(file, id) = <<Last(latest)>>
  BY DEF LatestObservation, latest
<1>6. latest # <<>> => Last(latest) \in ToSet(latest)
  <2>1. SUFFICES ASSUME latest # <<>> PROVE Last(latest) \in ToSet(latest)
    OBVIOUS
  <2>2. Last(latest) = latest[Len(latest)] /\ Len(latest) \in DOMAIN latest
    BY <1>3, <2>1 DEF Last
  <2> QED BY <2>2 DEF ToSet
<1>7. LatestObservation(file, id) # <<>> =>
         \E y \in ToSet(file) : /\ LatestObservation(file, id) = <<y>>
                                /\ y.kind = "orderFillObserved" /\ y.id = id
  BY <1>1, <1>4, <1>5, <1>6
<1>8. Head(PlacedLines(file, id)).observed \in Nat
  BY PlacedLinesAre DEF PlacedRecords
<1>9. \A y \in ToSet(file) : y.quantity \in Nat
  BY LinesAreLines, MembersType DEF AreLines
<1>10. CASE LatestObservation(file, id) = <<>>
  BY <1>7, <1>8, <1>10 DEF KnownFilled
<1>11. CASE LatestObservation(file, id) # <<>>
  <2>1. PICK y \in ToSet(file) : LatestObservation(file, id) = <<y>>
    BY <1>7, <1>11
  <2>2. LatestObservation(file, id)[1] = y
    BY <2>1
  <2>3. KnownFilled(file, id) = y.quantity
    BY <1>11, <2>2 DEF KnownFilled
  <2> QED BY <1>7, <1>9, <2>3
<1> QED BY <1>10, <1>11
----------------------------------------------------------------------------
(* What a process has in hand, and what it makes of the file it read.      *)

\* An observation, later than the file, of more than it knows filled and of no less left.
Restates(r, file) ==
    /\ r.kind = "orderFillObserved" /\ r.id \in DOMAIN Resting(file)
    /\ \A x \in ToSet(file) : x.at <= r.at
    /\ KnownFilled(file, r.id) < r.quantity
    /\ Head(PlacedLines(file, r.id)).quantity - r.quantity <= Remaining(file, r.id)

Places(r, file) ==
    r.kind = "orderPlaced" /\ r.at = r.id[4] /\ \A x \in ToSet(file) : x.id # r.id

Cancels(r, file) ==
    r.kind = "orderCancelled" /\ r.at >= r.id[4] /\ r.id \in DOMAIN Resting(file)

IsBatch(t, file) ==
    /\ t \in Seq(OrderLines) /\ Distinct(t)
    /\ \A r \in ToSet(t) : Restates(r, file) \/ Places(r, file) \/ Cancels(r, file)

\* partitionChangedClaims lets a claim through only if its observation lowers a remainder.
LEMMA RestatedSays ==
    ASSUME NEW file \in Seq(OrderLines), WellFormed(file), NEW c \in Claimed,
           Differences(file, c) # {}, Partition(file, c) = "restated",
           NEW now, \A x \in ToSet(file) : x.at <= now
    PROVE  /\ Restates(FillObserved(c.id, now, c.filled), file)
           /\ c.filled > 0 /\ IsPlaced(file, c.id)
           /\ Head(PlacedLines(file, c.id)).quantity = c.quantity
           /\ Differences(file, c) = {"filled"}
<1> DEFINE r == FillObserved(c.id, now, c.filled)
           placed == Head(PlacedLines(file, c.id))
<1>1. c.id \in DOMAIN Resting(file) /\ Differences(file, c) = {"filled"}
  BY RestatedRests
<1>2. IsPlaced(file, c.id) /\ Resting(file)[c.id].remaining \in Nat
  BY <1>1, RestingOnFile
<1>3. KnownFilled(file, c.id) \in Nat
  BY <1>2, KnownType
<1>4. placed.quantity = c.quantity /\ KnownFilled(file, c.id) # c.filled
  <2>1. "quantity" \notin Differences(file, c) /\ "filled" \in Differences(file, c)
    BY <1>1
  <2> QED BY <2>1 DEF Differences
<1>5. ~ (c.filled < KnownFilled(file, c.id)) /\ ~ (Remaining(file, c.id) < c.quantity - c.filled)
  <2>1. Partition(file, c) =
          CASE "quantity" \in {"filled"} -> "amended"
            [] "quantity" \notin {"filled"} /\ "descriptor" \in {"filled"} -> "descriptors"
            [] {"filled"} = {"filled"} ->
                IF c.filled < KnownFilled(file, c.id) THEN "backwards"
                ELSE IF Remaining(file, c.id) < c.quantity - c.filled THEN "amended"
                ELSE "restated"
    BY <1>1 DEF Partition
  <2>2. Partition(file, c) =
            IF c.filled < KnownFilled(file, c.id) THEN "backwards"
            ELSE IF Remaining(file, c.id) < c.quantity - c.filled THEN "amended"
            ELSE "restated"
    BY <2>1
  <2> QED BY <2>2
<1>6. c.filled \in Nat /\ c.quantity \in Nat
  BY DEF Claimed
<1>7. Remaining(file, c.id) \in Nat
  BY <1>1, <1>2 DEF Remaining
<1>8. c.filled > 0 /\ KnownFilled(file, c.id) < c.filled
  BY <1>3, <1>4, <1>5, <1>6
<1>9. c.quantity - c.filled <= Remaining(file, c.id)
  BY <1>5, <1>6, <1>7
<1>10. r.kind = "orderFillObserved" /\ r.id = c.id /\ r.at = now /\ r.quantity = c.filled
  BY DEF FillObserved
<1> HIDE DEF r
<1>11. Restates(r, file)
  BY <1>1, <1>4, <1>8, <1>9, <1>10 DEF Restates
<1> QED BY <1>1, <1>2, <1>4, <1>8, <1>11 DEF r

\* The placement of a rung in the book is the one on file.
LEMMA PlacedIs ==
    ASSUME NEW file \in Seq(OrderLines), PlacedOnce(file), NEW id \in DOMAIN FoldOrderStream(file)
    PROVE  /\ IsPlaced(file, id) /\ FoldOrderStream(file)[id].placed = Head(PlacedLines(file, id))
           /\ FoldOrderStream(file)[id].consumed \in Nat
<1> DEFINE x == FoldOrderStream(file)[id].placed
           y == Head(PlacedLines(file, id))
<1>1. /\ x \in ToSet(file) /\ x.id = id /\ x.kind = "orderPlaced"
      /\ FoldOrderStream(file)[id].consumed \in Nat
  BY LinesAreLines, FoldType
<1>2. IsPlaced(file, id)
  BY <1>1, PlacedLinesAre
<1>3. y \in ToSet(file) /\ y.id = id /\ y.kind = "orderPlaced"
  BY <1>2, PlacedLinesAre DEF PlacedRecords
<1> QED BY <1>1, <1>2, <1>3 DEF PlacedOnce

LEMMA CancelledByBatch ==
    ASSUME NEW s \in Seq(OrderLines), NEW t \in Seq(OrderLines), Distinct(t),
           NEW r \in ToSet(t), r.kind = "orderCancelled",
           \A x \in ToSet(s) : x.kind = "orderPlaced" /\ x.id = r.id => x.at <= r.at
    PROVE  r.id \notin DOMAIN FoldOrderStream(s \o t)
<1>1. PICK u \in Seq(OrderLines) :
        /\ \A x \in ToSet(u) : x.id = r.id => x \in ToSet(s)
        /\ SameAbout(s, u, r.id) /\ SameAbout(Append(u, r), s \o t, r.id)
  BY OneSaysAll
<1>2. r \in OrderLines
  BY MembersType
<1>3. \A x \in ToSet(u) : x.kind = "orderPlaced" /\ x.id = r.id => x.at <= r.at
  BY <1>1
<1>4. r.id \notin DOMAIN FoldOrderStream(Append(u, r))
  BY <1>2, <1>3, LinesAreLines, CancelledLast
<1> QED BY <1>1, <1>4 DEF SameAbout, Same

\* What a batch makes of a rung that it observes, places, cancels, or says nothing of.
LEMMA BatchObserves ==
    ASSUME NEW file \in Seq(OrderLines), PlacedOnce(file), NEW t, IsBatch(t, file),
           NEW r \in ToSet(t), Restates(r, file)
    PROVE  /\ r.id \in DOMAIN FoldOrderStream(file \o t)
           /\ FoldOrderStream(file \o t)[r.id].placed = Head(PlacedLines(file, r.id))
           /\ FoldOrderStream(file \o t)[r.id].consumed = r.quantity
           /\ PlacedLines(file \o t, r.id) = PlacedLines(file, r.id)
           /\ LatestObservation(file \o t, r.id) = <<r>>
<1>1. t \in Seq(OrderLines) /\ Distinct(t)
  BY DEF IsBatch
<1>2. r.kind = "orderFillObserved" /\ \A x \in ToSet(file) : x.id = r.id => x.at <= r.at
  BY DEF Restates
<1>3. r.id \in DOMAIN FoldOrderStream(file)
  BY RestsIf DEF Restates
<1>4. FoldOrderStream(file)[r.id].placed = Head(PlacedLines(file, r.id))
  BY <1>3, PlacedIs
<1> QED BY <1>1, <1>2, <1>3, <1>4, ObservedByBatch

LEMMA BatchPlaces ==
    ASSUME NEW file \in Seq(OrderLines), NEW t, IsBatch(t, file),
           NEW r \in ToSet(t), Places(r, file)
    PROVE  /\ r.id \in DOMAIN FoldOrderStream(file \o t)
           /\ FoldOrderStream(file \o t)[r.id] = [placed |-> r, consumed |-> r.observed]
           /\ PlacedLines(file \o t, r.id) = <<r>>
           /\ LatestObservation(file \o t, r.id) = <<>>
<1>1. t \in Seq(OrderLines) /\ Distinct(t)
  BY DEF IsBatch
<1>2. r.kind = "orderPlaced" /\ \A x \in ToSet(file) : x.id # r.id
  BY DEF Places
<1> QED BY <1>1, <1>2, PlacedByBatch

LEMMA BatchCancels ==
    ASSUME NEW file \in Seq(OrderLines), WellFormed(file), NEW t, IsBatch(t, file),
           NEW r \in ToSet(t), Cancels(r, file)
    PROVE  r.id \notin DOMAIN FoldOrderStream(file \o t)
<1>1. t \in Seq(OrderLines) /\ Distinct(t)
  BY DEF IsBatch
<1>2. r.kind = "orderCancelled" /\ \A x \in ToSet(file) : x.kind = "orderPlaced" /\ x.id = r.id => x.at <= r.at
  BY DEF Cancels, WellFormed
<1> QED BY <1>1, <1>2, CancelledByBatch
----------------------------------------------------------------------------
(* The book is a book after a batch.                                       *)

LEMMA BatchPlacesOnce ==
    ASSUME NEW file \in Seq(OrderLines), PlacedOnce(file), NEW t, IsBatch(t, file)
    PROVE  PlacedOnce(file \o t)
<1>1. t \in Seq(OrderLines) /\ Distinct(t)
  BY DEF IsBatch
<1>2. ToSet(file \o t) = ToSet(file) \cup ToSet(t)
  BY <1>1, AppendedOnly
<1>3. \A r \in ToSet(t) : r.kind = "orderPlaced" => \A x \in ToSet(file) : x.id # r.id
  BY DEF IsBatch, Restates, Places, Cancels
<1>4. \A r, s \in ToSet(t) : r.id = s.id => r = s
  BY <1>1 DEF Distinct, ToSet
<1> QED BY <1>2, <1>3, <1>4 DEF PlacedOnce

LEMMA KnownSame ==
    ASSUME NEW s, NEW t, NEW id, PlacedLines(s, id) = PlacedLines(t, id),
           LatestObservation(s, id) = LatestObservation(t, id)
    PROVE  KnownFilled(s, id) = KnownFilled(t, id)
BY DEF KnownFilled

LEMMA BatchConsumes ==
    ASSUME NEW file \in Seq(OrderLines), WellFormed(file), PlacedOnce(file),
           KnownIsConsumed(file), NEW t, IsBatch(t, file)
    PROVE  KnownIsConsumed(file \o t)
<1> DEFINE more == file \o t
<1>1. SUFFICES ASSUME NEW id \in DOMAIN FoldOrderStream(more)
               PROVE  KnownFilled(more, id) <= FoldOrderStream(more)[id].consumed
  BY DEF KnownIsConsumed
<1>2. t \in Seq(OrderLines)
  BY DEF IsBatch
<1>3. CASE \E r \in ToSet(t) : r.id = id
  <2>1. PICK r \in ToSet(t) : r.id = id
    BY <1>3
  <2>2. r.quantity \in Nat /\ (r.kind = "orderPlaced" => r.observed \in Nat)
    <3>1. r \in OrderLines
      BY <1>2, MembersType
    <3> QED BY <3>1, LinesAreLines DEF AreLines
  <2>3. CASE Restates(r, file)
    <3>1. /\ FoldOrderStream(more)[id].consumed = r.quantity
          /\ LatestObservation(more, id) = <<r>>
      BY <2>1, <2>3, BatchObserves
    <3>2. KnownFilled(more, id) = r.quantity
      BY <3>1 DEF KnownFilled
    <3> QED BY <2>2, <3>1, <3>2
  <2>4. CASE Places(r, file)
    <3>1. /\ FoldOrderStream(more)[id] = [placed |-> r, consumed |-> r.observed]
          /\ PlacedLines(more, id) = <<r>> /\ LatestObservation(more, id) = <<>>
      BY <2>1, <2>4, BatchPlaces
    <3>2. KnownFilled(more, id) = r.observed
      BY <3>1 DEF KnownFilled
    <3> QED BY <2>2, <2>4, <3>1, <3>2 DEF Places
  <2>5. CASE Cancels(r, file)
    BY <1>1, <2>1, <2>5, BatchCancels
  <2> QED BY <2>3, <2>4, <2>5 DEF IsBatch
<1>4. CASE \A r \in ToSet(t) : r.id # id
  <2>1. SameAbout(file, more, id)
    BY <1>2, <1>4, OthersSayNothing
  <2>2. KnownFilled(more, id) = KnownFilled(file, id)
    BY <2>1, KnownSame DEF SameAbout
  <2>3. id \in DOMAIN FoldOrderStream(file) /\ FoldOrderStream(more)[id] = FoldOrderStream(file)[id]
    BY <1>1, <2>1 DEF SameAbout, Same
  <2>4. KnownFilled(file, id) <= FoldOrderStream(file)[id].consumed
    BY <2>3 DEF KnownIsConsumed
  <2> QED BY <2>2, <2>3, <2>4
<1> QED BY <1>3, <1>4
----------------------------------------------------------------------------
(* What rests after a batch.                                               *)

\* A rung that is placed on file as it was, and consumed as it was, rests as it did.
LEMMA RestsAlike ==
    ASSUME NEW s, NEW t, NEW id, Same(FoldOrderStream(s), FoldOrderStream(t), id),
           Head(PlacedLines(s, id)) = Head(PlacedLines(t, id)), id \in DOMAIN Resting(t)
    PROVE  /\ id \in DOMAIN Resting(s) /\ Resting(t)[id].remaining = Resting(s)[id].remaining
           /\ SameTerms(Head(PlacedLines(t, id)), Head(PlacedLines(s, id)))
<1> DEFINE a == FoldOrderStream(s)
           b == FoldOrderStream(t)
<1>1. id \in DOMAIN b /\ b[id].placed.quantity - b[id].consumed > 0
      /\ Resting(t)[id].remaining = b[id].placed.quantity - b[id].consumed
  BY RestsIf
<1>2. id \in DOMAIN a /\ a[id] = b[id]
  BY <1>1 DEF Same
<1>3. id \in DOMAIN Resting(s) <=>
        id \in DOMAIN a /\ a[id].placed.quantity - a[id].consumed > 0
  BY RestsIf
<1>4. id \in DOMAIN Resting(s) =>
        Resting(s)[id].remaining = a[id].placed.quantity - a[id].consumed
  BY RestsIf
<1> HIDE DEF a, b
<1>5. id \in DOMAIN Resting(s)
  BY <1>1, <1>2, <1>3
<1>6. Resting(t)[id].remaining = Resting(s)[id].remaining
  BY <1>1, <1>2, <1>4, <1>5
<1> QED BY <1>5, <1>6 DEF SameTerms

\* What is observed leaves no more than the book says rests.
LEMMA BatchRests ==
    ASSUME NEW file \in Seq(OrderLines), WellFormed(file), PlacedOnce(file),
           NEW t, IsBatch(t, file), \A r \in ToSet(t) : r.kind # "orderPlaced"
    PROVE  LessRests(file \o t, file)
<1> DEFINE more == file \o t
<1>1. SUFFICES ASSUME NEW id \in DOMAIN Resting(more)
               PROVE  /\ id \in DOMAIN Resting(file)
                      /\ Resting(more)[id].remaining <= Resting(file)[id].remaining
                      /\ SameTerms(Head(PlacedLines(more, id)), Head(PlacedLines(file, id)))
  BY DEF LessRests
<1>2. t \in Seq(OrderLines)
  BY DEF IsBatch
<1>3. /\ id \in DOMAIN FoldOrderStream(more)
      /\ Resting(more)[id].remaining =
            FoldOrderStream(more)[id].placed.quantity - FoldOrderStream(more)[id].consumed
  BY RestsIf
<1>4. CASE \E r \in ToSet(t) : r.id = id
  <2>1. PICK r \in ToSet(t) : r.id = id
    BY <1>4
  <2>2. ~ Places(r, file) /\ ~ Cancels(r, file)
    BY <1>3, <2>1, BatchCancels DEF Places
  <2>3. Restates(r, file)
    BY <2>2 DEF IsBatch
  <2>4. /\ FoldOrderStream(more)[id].placed = Head(PlacedLines(file, id))
        /\ FoldOrderStream(more)[id].consumed = r.quantity
        /\ PlacedLines(more, id) = PlacedLines(file, id)
    BY <2>1, <2>3, BatchObserves
  <2>5. /\ id \in DOMAIN Resting(file)
        /\ Head(PlacedLines(file, id)).quantity - r.quantity <= Remaining(file, id)
    BY <2>1, <2>3 DEF Restates
  <2>6. Remaining(file, id) = Resting(file)[id].remaining
    BY <2>5 DEF Remaining
  <2> HIDE DEF more
  <2>7. Resting(more)[id].remaining = Head(PlacedLines(file, id)).quantity - r.quantity
    BY <1>3, <2>4
  <2>8. Resting(more)[id].remaining <= Resting(file)[id].remaining
    BY <2>5, <2>6, <2>7
  <2> QED BY <2>4, <2>5, <2>8 DEF SameTerms
<1>5. CASE \A r \in ToSet(t) : r.id # id
  <2>1. SameAbout(file, more, id)
    BY <1>2, <1>5, OthersSayNothing
  <2>2. /\ id \in DOMAIN Resting(file) /\ Resting(more)[id].remaining = Resting(file)[id].remaining
        /\ SameTerms(Head(PlacedLines(more, id)), Head(PlacedLines(file, id)))
    BY <2>1, RestsAlike DEF SameAbout
  <2>3. Resting(file)[id].remaining \in Nat
    BY <2>2, RestingOnFile
  <2> QED BY <2>2, <2>3
<1> QED BY <1>4, <1>5

\* What is appended, of what was weighed: all observations, and placements on the same
\* terms of the rungs that are not on file.
AsWeighed(new, weighed, file) ==
    /\ \A r \in ToSet(new) :
        \/ Restates(r, file) /\ r \in ToSet(weighed)
        \/ /\ Places(r, file)
           /\ \E s \in ToSet(weighed) :
                /\ s.kind = "orderPlaced" /\ s.id = r.id /\ s.quantity = r.quantity
                /\ s.observed = r.observed /\ SameTerms(r, s)
    /\ \A s \in ToSet(weighed) :
        \/ s.kind = "orderPlaced" /\ s.at = s.id[4]
        \/ s.kind = "orderFillObserved" /\ s \in ToSet(new)

LEMMA WeighedRests ==
    ASSUME NEW file \in Seq(OrderLines), WellFormed(file), PlacedOnce(file),
           NEW new, IsBatch(new, file), NEW weighed \in Seq(OrderLines), Distinct(weighed),
           AsWeighed(new, weighed, file)
    PROVE  LessRests(file \o new, file \o weighed)
<1> DEFINE t == file \o new
           s == file \o weighed
<1>1. SUFFICES ASSUME NEW id \in DOMAIN Resting(t)
               PROVE  /\ id \in DOMAIN Resting(s)
                      /\ Resting(t)[id].remaining <= Resting(s)[id].remaining
                      /\ SameTerms(Head(PlacedLines(t, id)), Head(PlacedLines(s, id)))
  BY DEF LessRests
<1>2. /\ new \in Seq(OrderLines)
      /\ \A r \in OrderLines : r.at \in Int /\ r.quantity \in Nat
                               /\ (r.kind = "orderPlaced" => r.observed \in Nat)
  BY LinesAreLines DEF IsBatch, AreLines
<1>3. /\ id \in DOMAIN FoldOrderStream(t)
      /\ FoldOrderStream(t)[id].placed.quantity - FoldOrderStream(t)[id].consumed > 0
      /\ Resting(t)[id].remaining =
            FoldOrderStream(t)[id].placed.quantity - FoldOrderStream(t)[id].consumed
  BY RestsIf
<1>4. /\ id \in DOMAIN Resting(s) <=>
            /\ id \in DOMAIN FoldOrderStream(s)
            /\ FoldOrderStream(s)[id].placed.quantity - FoldOrderStream(s)[id].consumed > 0
      /\ id \in DOMAIN Resting(s) => Resting(s)[id].remaining =
            FoldOrderStream(s)[id].placed.quantity - FoldOrderStream(s)[id].consumed
  BY RestsIf
<1>5. ASSUME NEW r \in ToSet(new), r.id = id, Restates(r, file), r \in ToSet(weighed)
      PROVE  /\ id \in DOMAIN Resting(s)
             /\ Resting(t)[id].remaining <= Resting(s)[id].remaining
             /\ SameTerms(Head(PlacedLines(t, id)), Head(PlacedLines(s, id)))
  <2>1. /\ FoldOrderStream(t)[id].placed = Head(PlacedLines(file, id))
        /\ FoldOrderStream(t)[id].consumed = r.quantity
        /\ PlacedLines(t, id) = PlacedLines(file, id)
    BY <1>5, BatchObserves
  <2>2. /\ r.kind = "orderFillObserved" /\ \A x \in ToSet(file) : x.id = r.id => x.at <= r.at
        /\ r.id \in DOMAIN FoldOrderStream(file)
    BY <1>5, RestsIf DEF Restates
  <2>3. /\ id \in DOMAIN FoldOrderStream(s)
        /\ FoldOrderStream(s)[id].placed = FoldOrderStream(file)[id].placed
        /\ FoldOrderStream(s)[id].consumed = r.quantity
        /\ PlacedLines(s, id) = PlacedLines(file, id)
    BY <1>5, <2>2, ObservedByBatch
  <2>4. FoldOrderStream(file)[id].placed = Head(PlacedLines(file, id))
    BY <1>5, <2>2, PlacedIs
  <2>5. Head(PlacedLines(file, id)).quantity \in Nat /\ r.quantity \in Nat
    <3>1. r \in OrderLines /\ IsPlaced(file, id)
      BY <1>2, <1>5, <2>2, MembersType, PlacedIs
    <3>2. Head(PlacedLines(file, id)) \in OrderLines
      BY <3>1, PlacedLinesAre DEF OrderLines
    <3> QED BY <1>2, <3>1, <3>2
  <2> HIDE DEF s, t
  <2>6. id \in DOMAIN Resting(s)
    BY <1>3, <1>4, <2>1, <2>3, <2>4
  <2>7. Resting(t)[id].remaining = Head(PlacedLines(file, id)).quantity - r.quantity
        /\ Resting(s)[id].remaining = Head(PlacedLines(file, id)).quantity - r.quantity
    BY <1>3, <1>4, <2>1, <2>3, <2>4, <2>6
  <2> QED BY <2>1, <2>3, <2>5, <2>6, <2>7 DEF SameTerms
<1>6. ASSUME NEW r \in ToSet(new), r.id = id, Places(r, file),
             NEW x \in ToSet(weighed), x.kind = "orderPlaced", x.id = r.id,
             x.quantity = r.quantity, x.observed = r.observed, SameTerms(r, x)
      PROVE  /\ id \in DOMAIN Resting(s)
             /\ Resting(t)[id].remaining <= Resting(s)[id].remaining
             /\ SameTerms(Head(PlacedLines(t, id)), Head(PlacedLines(s, id)))
  <2>1. /\ FoldOrderStream(t)[id] = [placed |-> r, consumed |-> r.observed]
        /\ PlacedLines(t, id) = <<r>>
    BY <1>6, BatchPlaces
  <2>2. \A y \in ToSet(file) : y.id # x.id
    BY <1>6 DEF Places
  <2>3. /\ id \in DOMAIN FoldOrderStream(s)
        /\ FoldOrderStream(s)[id] = [placed |-> x, consumed |-> x.observed]
        /\ PlacedLines(s, id) = <<x>>
    BY <1>6, <2>2, PlacedByBatch
  <2>4. r.quantity \in Nat /\ r.observed \in Nat
    <3>1. r \in OrderLines
      BY <1>2, <1>6, MembersType
    <3> QED BY <1>2, <1>6, <3>1 DEF Places
  <2> HIDE DEF s, t
  <2>5. Resting(t)[id].remaining = r.quantity - r.observed /\ r.quantity - r.observed > 0
    BY <1>3, <2>1
  <2>6. id \in DOMAIN Resting(s) /\ Resting(s)[id].remaining = r.quantity - r.observed
    BY <1>4, <1>6, <2>3, <2>5
  <2>7. Head(PlacedLines(t, id)) = r /\ Head(PlacedLines(s, id)) = x
    BY <2>1, <2>3
  <2>8. Resting(t)[id].remaining <= Resting(s)[id].remaining
    BY <2>4, <2>5, <2>6
  <2> QED BY <1>6, <2>6, <2>7, <2>8
<1>7. CASE \E r \in ToSet(new) : r.id = id
  <2>1. PICK r \in ToSet(new) : r.id = id
    BY <1>7
  <2>2. CASE Restates(r, file) /\ r \in ToSet(weighed)
    BY <1>5, <2>1, <2>2
  <2>3. CASE ~ (Restates(r, file) /\ r \in ToSet(weighed))
    <3>1. PICK x \in ToSet(weighed) :
            /\ Places(r, file) /\ x.kind = "orderPlaced" /\ x.id = r.id
            /\ x.quantity = r.quantity /\ x.observed = r.observed /\ SameTerms(r, x)
      BY <2>3 DEF AsWeighed
    <3> QED BY <1>6, <2>1, <3>1
  <2> QED BY <2>2, <2>3
<1>8. CASE \A r \in ToSet(new) : r.id # id
  <2>1. SameAbout(file, t, id)
    BY <1>2, <1>8, OthersSayNothing
  <2>2. /\ id \in DOMAIN Resting(file) /\ Resting(t)[id].remaining = Resting(file)[id].remaining
        /\ Head(PlacedLines(file, id)) = Head(PlacedLines(t, id))
    BY <2>1, RestsAlike DEF SameAbout
  <2>3. /\ Resting(file)[id].remaining \in Nat /\ IsPlaced(file, id)
        /\ id \in DOMAIN FoldOrderStream(file)
    BY <2>2, RestingOnFile, RestsIf
  <2>4. Same(FoldOrderStream(s), FoldOrderStream(file), id)
        /\ Head(PlacedLines(s, id)) = Head(PlacedLines(file, id))
    <3>1. CASE \E x \in ToSet(weighed) : x.id = id
      <4>1. PICK x \in ToSet(weighed) : x.id = id
        BY <3>1
      <4>2. x.kind = "orderPlaced" /\ x.at = x.id[4]
        BY <1>8, <4>1 DEF AsWeighed
      <4>3. \A y \in ToSet(file) : y.kind = "orderPlaced" /\ y.id = x.id => y.at <= x.at
        <5>1. x.at \in Int
          BY <1>2, <4>1, MembersType
        <5> QED BY <4>2, <5>1 DEF WellFormed
      <4>4. Same(FoldOrderStream(file), FoldOrderStream(s), id)
            /\ Head(PlacedLines(s, id)) = Head(PlacedLines(file, id))
        BY <2>3, <4>1, <4>2, <4>3, PlacedAgainByBatch
      <4> QED BY <4>4 DEF Same
    <3>2. CASE \A x \in ToSet(weighed) : x.id # id
      <4>1. SameAbout(file, s, id)
        BY <3>2, OthersSayNothing
      <4> QED BY <4>1 DEF SameAbout, Same
    <3> QED BY <3>1, <3>2
  <2>5. /\ id \in DOMAIN Resting(s) /\ Resting(s)[id].remaining = Resting(file)[id].remaining
        /\ SameTerms(Head(PlacedLines(file, id)), Head(PlacedLines(s, id)))
    <3>1. Head(PlacedLines(s, id)) = Head(PlacedLines(file, id))
      BY <2>4
    <3>2. Same(FoldOrderStream(s), FoldOrderStream(file), id)
      BY <2>4
    <3>3. /\ id \in DOMAIN Resting(s) /\ Resting(file)[id].remaining = Resting(s)[id].remaining
          /\ SameTerms(Head(PlacedLines(file, id)), Head(PlacedLines(s, id)))
      BY <2>2, <3>1, <3>2, RestsAlike
    <3> QED BY <3>3
  <2> QED BY <2>2, <2>3, <2>5
<1> QED BY <1>7, <1>8
----------------------------------------------------------------------------
(* What an import makes of the file it read.                               *)

\* A look at the venue that contradicts no claim on file, and what it observes.
Looked(file, rows, now) ==
    /\ file \in Seq(OrderLines) /\ WellFormed(file) /\ rows \in Exports /\ now \in 1 .. MaxClock
    /\ \A x \in ToSet(file) : x.at <= now
    /\ \A c \in ToSet(DetectChangedClaims(file, Claims[rows])) : Partition(file, c) = "restated"

Seen(file, rows, now) == Observations(DetectChangedClaims(file, Claims[rows]), now)

LEMMA LookedSays ==
    ASSUME NEW file, NEW rows, NEW now, Looked(file, rows, now)
    PROVE  /\ Seen(file, rows, now) \in Seq(OrderLines) /\ Distinct(Seen(file, rows, now))
           /\ \A r \in ToSet(Seen(file, rows, now)) :
                /\ Restates(r, file)
                /\ \E c \in ToSet(DetectChangedClaims(file, Claims[rows])) : c.id = r.id
           /\ \A c \in ToSet(DetectChangedClaims(file, Claims[rows])) :
                FillObserved(c.id, now, c.filled) \in ToSet(Seen(file, rows, now))
<1> DEFINE claims == Claims[rows]
           restated == DetectChangedClaims(file, claims)
           seen == Observations(restated, now)
<1>1. /\ file \in Seq(OrderLines) /\ WellFormed(file) /\ rows \in Exports /\ now \in 1 .. MaxClock
      /\ \A x \in ToSet(file) : x.at <= now
      /\ \A c \in ToSet(restated) : Partition(file, c) = "restated"
  BY DEF Looked
<1>2. claims \in Seq(Claimed) /\ Distinct(claims)
  BY <1>1, ClaimsType, ClaimsDistinct
<1> HIDE DEF claims
<1>3. /\ restated \in Seq(Claimed)
      /\ ToSet(restated) =
            { c \in ToSet(claims) : IsPlaced(file, c.id) /\ Differences(file, c) # {} }
  BY <1>2, ChangedAre
<1>4. Distinct(restated)
  BY <1>2, KeptOfDistinct DEF DetectChangedClaims
<1> HIDE DEF restated
<1>5. seen \in Seq(OrderLines) /\ Distinct(seen)
      /\ ToSet(seen) =
            { FillObserved(c.id, now, c.filled) : c \in { x \in ToSet(restated) : x.filled > 0 } }
  BY <1>1, <1>3, <1>4, ObservationsAre, ObservationsDistinct
<1> HIDE DEF seen
<1>6. ASSUME NEW c \in ToSet(restated)
      PROVE  Restates(FillObserved(c.id, now, c.filled), file) /\ c.filled > 0
  <2>1. c \in Claimed /\ Differences(file, c) # {} /\ Partition(file, c) = "restated"
    BY <1>1, <1>3, MembersType
  <2> QED BY <1>1, <2>1, RestatedSays
<1>7. \A c \in ToSet(restated) : FillObserved(c.id, now, c.filled) \in ToSet(seen)
  BY <1>5, <1>6
<1>8. ASSUME NEW r \in ToSet(seen)
      PROVE  Restates(r, file) /\ \E c \in ToSet(restated) : c.id = r.id
  <2>1. PICK c \in ToSet(restated) : r = FillObserved(c.id, now, c.filled)
    BY <1>5
  <2>2. r.id = c.id
    BY <2>1 DEF FillObserved
  <2> QED BY <1>6, <2>1, <2>2
<1> QED BY <1>5, <1>7, <1>8 DEF Seen, seen, restated, claims

\* A claim that is recorded is on file as the export shows it.
LEMMA RecordedShows ==
    ASSUME NEW file \in Seq(OrderLines), WellFormed(file), PlacedOnce(file), NEW c \in Claimed,
           Differences(file, c) # {}, Partition(file, c) = "restated",
           NEW now, \A x \in ToSet(file) : x.at <= now,
           NEW t, IsBatch(t, file), FillObserved(c.id, now, c.filled) \in ToSet(t)
    PROVE  IsPlaced(file \o t, c.id) /\ Differences(file \o t, c) = {}
<1> DEFINE r == FillObserved(c.id, now, c.filled)
           more == file \o t
<1>1. /\ Restates(r, file) /\ IsPlaced(file, c.id)
      /\ Head(PlacedLines(file, c.id)).quantity = c.quantity
      /\ Differences(file, c) = {"filled"}
  BY RestatedSays
<1>2. r.id = c.id /\ r.quantity = c.filled
  BY DEF FillObserved
<1>3. r \in ToSet(t)
  OBVIOUS
<1> HIDE DEF r
<1>4. PlacedLines(more, c.id) = PlacedLines(file, c.id) /\ LatestObservation(more, c.id) = <<r>>
  BY <1>1, <1>2, <1>3, BatchObserves
<1>5. KnownFilled(more, c.id) = c.filled
  BY <1>2, <1>4 DEF KnownFilled
<1>6. "descriptor" \notin Differences(file, c)
  BY <1>1
<1>7. Differences(more, c) = {}
  <2> DEFINE placed == Head(PlacedLines(file, c.id))
  <2>1. ~ ("none" \notin {placed.descriptor, c.descriptor} /\ placed.descriptor # c.descriptor)
    BY <1>6 DEF Differences
  <2> QED BY <1>1, <1>4, <1>5, <2>1 DEF Differences
<1> QED BY <1>1, <1>4, <1>7 DEF IsPlaced

\* A claim that no line of a batch is about is as it was.
LEMMA OthersShow ==
    ASSUME NEW file \in Seq(OrderLines), NEW c, IsPlaced(file, c.id), Differences(file, c) = {},
           NEW t \in Seq(OrderLines), \A r \in ToSet(t) : r.id # c.id
    PROVE  IsPlaced(file \o t, c.id) /\ Differences(file \o t, c) = {}
<1> DEFINE more == file \o t
<1>1. SameAbout(file, more, c.id)
  BY OthersSayNothing
<1>2. PlacedLines(more, c.id) = PlacedLines(file, c.id)
      /\ LatestObservation(more, c.id) = LatestObservation(file, c.id)
  BY <1>1 DEF SameAbout
<1>3. KnownFilled(more, c.id) = KnownFilled(file, c.id)
  BY <1>2, KnownSame
<1> HIDE DEF more
<1>4. Differences(more, c) = Differences(file, c)
  BY <1>2, <1>3 DEF Differences
<1> QED BY <1>2, <1>4 DEF IsPlaced, more

\* A claim that is placed is on file as the export shows it.
LEMMA PlacedShows ==
    ASSUME NEW file \in Seq(OrderLines), NEW t, IsBatch(t, file), NEW r \in ToSet(t),
           Places(r, file), NEW c, r.id = c.id, r.quantity = c.quantity, r.observed = c.filled,
           r.descriptor = c.descriptor
    PROVE  IsPlaced(file \o t, c.id) /\ Differences(file \o t, c) = {}
<1> DEFINE more == file \o t
<1>1. PlacedLines(more, c.id) = <<r>> /\ LatestObservation(more, c.id) = <<>>
  BY BatchPlaces
<1> HIDE DEF more
<1>2. Head(PlacedLines(more, c.id)) = r /\ PlacedLines(more, c.id) # <<>>
  BY <1>1
<1>3. KnownFilled(more, c.id) = c.filled
  BY <1>1, <1>2 DEF KnownFilled
<1>4. Differences(more, c) = {}
  BY <1>2, <1>3 DEF Differences
<1> QED BY <1>2, <1>4 DEF IsPlaced, more

LEMMA BatchWellFormed ==
    ASSUME NEW file \in Seq(OrderLines), WellFormed(file), NEW t, IsBatch(t, file)
    PROVE  file \o t \in Seq(OrderLines) /\ WellFormed(file \o t)
<1>1. t \in Seq(OrderLines)
  BY DEF IsBatch
<1>2. file \o t \in Seq(OrderLines) /\ ToSet(file \o t) = ToSet(file) \cup ToSet(t)
  BY <1>1, LogType, AppendedOnly
<1>3. ASSUME NEW r \in ToSet(t)
      PROVE  /\ r.kind = "orderPlaced" => r.at = r.id[4]
             /\ r.kind = "orderCancelled" => r.at >= r.id[4]
             /\ \E s \in ToSet(file \o t) : s.kind = "orderPlaced" /\ s.id = r.id
  <2>1. CASE Places(r, file)
    BY <1>2, <2>1 DEF Places
  <2>2. CASE Restates(r, file) \/ Cancels(r, file)
    <3>1. r.id \in DOMAIN Resting(file)
      BY <2>2 DEF Restates, Cancels
    <3>2. \E s \in ToSet(file) : s.kind = "orderPlaced" /\ s.id = r.id
      BY <3>1, RestingOnFile, PlacedLinesAre
    <3> QED BY <1>2, <2>2, <3>2 DEF Restates, Cancels
  <2> QED BY <2>1, <2>2 DEF IsBatch
<1>4. WellFormed(file \o t)
  BY <1>2, <1>3 DEF WellFormed
<1> QED BY <1>2, <1>4

\* What a process has decided on the file and the fund that it read, for an export: what is
\* covered by what it read, or by more, stays covered by it.
Shows(file, rows) == \A c \in ToSet(Claims[rows]) : IsPlaced(file, c.id) /\ Differences(file, c) = {}

Sound(file, new, held, rows) ==
    PlacedOnce(file) =>
        /\ PlacedOnce(file \o new)
        /\ KnownIsConsumed(file) => KnownIsConsumed(file \o new)
        /\ \A slack \in [DOMAIN Reserves -> Nat] :
            (\A r \in DOMAIN Reserves : held[r] <= slack[r]) /\ Covered(CommittedRungs(file), slack)
                => Covered(CommittedRungs(file \o new), slack)
        /\ Shows(file \o new, rows)

\* A batch that places nothing commits no more than was committed.
LEMMA BatchIsSound ==
    ASSUME NEW file \in Seq(OrderLines), WellFormed(file), NEW t, IsBatch(t, file),
           \A r \in ToSet(t) : r.kind # "orderPlaced",
           NEW held \in [DOMAIN Reserves -> Nat], NEW rows,
           PlacedOnce(file) => Shows(file \o t, rows)
    PROVE  Sound(file, t, held, rows)
<1>1. SUFFICES ASSUME PlacedOnce(file)
               PROVE  /\ PlacedOnce(file \o t)
                      /\ KnownIsConsumed(file) => KnownIsConsumed(file \o t)
                      /\ \A slack \in [DOMAIN Reserves -> Nat] :
                            Covered(CommittedRungs(file), slack) =>
                                Covered(CommittedRungs(file \o t), slack)
  BY DEF Sound
<1>2. PlacedOnce(file \o t)
  BY <1>1, BatchPlacesOnce
<1>3. KnownIsConsumed(file) => KnownIsConsumed(file \o t)
  BY <1>1, BatchConsumes
<1>4. LessRests(file \o t, file)
  BY <1>1, BatchRests
<1>5. file \o t \in Seq(OrderLines) /\ WellFormed(file \o t)
  BY BatchWellFormed
<1>6. \A slack \in [DOMAIN Reserves -> Nat] :
        Covered(CommittedRungs(file), slack) => Covered(CommittedRungs(file \o t), slack)
  BY <1>4, <1>5, LessIsCovered
<1> QED BY <1>2, <1>3, <1>6

\* An import whose claims are all on file appends what it observed.
LEMMA LoadedIsSound ==
    ASSUME NEW file, NEW rows, NEW now, Looked(file, rows, now),
           NEW held \in [DOMAIN Reserves -> Nat],
           Len(DetectChangedClaims(file, Claims[rows])) = Len(Claims[rows])
    PROVE  Sound(file, Seen(file, rows, now), held, rows)
<1> DEFINE claims == Claims[rows]
           restated == DetectChangedClaims(file, claims)
           seen == Seen(file, rows, now)
<1>1. /\ file \in Seq(OrderLines) /\ WellFormed(file) /\ rows \in Exports
      /\ \A x \in ToSet(file) : x.at <= now
      /\ \A c \in ToSet(restated) : Partition(file, c) = "restated"
  BY DEF Looked
<1>2. /\ seen \in Seq(OrderLines) /\ Distinct(seen) /\ \A r \in ToSet(seen) : Restates(r, file)
      /\ \A c \in ToSet(restated) : FillObserved(c.id, now, c.filled) \in ToSet(seen)
  BY LookedSays
<1> HIDE DEF seen
<1>3. IsBatch(seen, file) /\ \A r \in ToSet(seen) : r.kind # "orderPlaced"
  BY <1>2 DEF IsBatch, Restates
<1>4. claims \in Seq(Claimed)
  BY <1>1, ClaimsType
<1>5. ASSUME NEW c \in ToSet(claims) PROVE c \in ToSet(restated) /\ Differences(file, c) # {}
  <2> DEFINE places == { i \in DOMAIN claims :
                     IsPlaced(file, claims[i].id) /\ Differences(file, claims[i]) # {} }
  <2>1. PICK i \in DOMAIN claims : c = claims[i]
    BY DEF ToSet
  <2>2. Len(Kept(claims, places)) = Len(claims)
    BY DEF DetectChangedClaims
  <2>3. \A k \in DOMAIN claims : k \in places
    <3> HIDE DEF places, claims
    <3> QED BY <1>4, <2>2, KeptAll
  <2>4. IsPlaced(file, c.id) /\ Differences(file, c) # {}
    BY <2>1, <2>3
  <2> HIDE DEF claims, places
  <2> QED BY <1>4, <2>4, ChangedAre
<1>6. PlacedOnce(file) => Shows(file \o seen, rows)
  <2>1. SUFFICES ASSUME PlacedOnce(file), NEW c \in ToSet(claims)
                 PROVE  IsPlaced(file \o seen, c.id) /\ Differences(file \o seen, c) = {}
    BY DEF Shows
  <2>2. c \in ToSet(restated) /\ Differences(file, c) # {} /\ c \in Claimed
    BY <1>4, <1>5, MembersType
  <2>3. Partition(file, c) = "restated" /\ FillObserved(c.id, now, c.filled) \in ToSet(seen)
    BY <1>1, <1>2, <2>2
  <2> QED BY <1>1, <1>3, <2>1, <2>2, <2>3, RecordedShows
<1>7. Sound(file, seen, held, rows)
  BY <1>1, <1>3, <1>6, BatchIsSound
<1> QED BY <1>7 DEF seen
----------------------------------------------------------------------------
(* The filter lets through what is observed, and what is placed anew.      *)

LEMMA KeyOf ==
    ASSUME NEW r, NEW x, AppendKey(r) = AppendKey(x)
    PROVE  /\ r.kind = "orderFillObserved" <=> x.kind = "orderFillObserved"
           /\ r.kind = x.kind /\ r.id = x.id
           /\ r.kind = "orderFillObserved" => r.quantity = x.quantity
<1>1. AppendKey(r)[1] = r.kind /\ AppendKey(r)[2] = r.id
  BY DEF AppendKey
<1>2. AppendKey(x)[1] = x.kind /\ AppendKey(x)[2] = x.id
  BY DEF AppendKey
<1>3. r.kind = x.kind /\ r.id = x.id
  BY <1>1, <1>2
<1>4. r.kind = "orderFillObserved" => AppendKey(r)[3] = r.quantity
  BY DEF AppendKey
<1>5. x.kind = "orderFillObserved" => AppendKey(x)[3] = x.quantity
  BY DEF AppendKey
<1> QED BY <1>3, <1>4, <1>5

LEMMA RestatedPasses ==
    ASSUME NEW file \in Seq(OrderLines), WellFormed(file), NEW r, Restates(r, file)
    PROVE  AppendKey(r) \notin CurrentClaimKeys(file)
<1>1. SUFFICES ASSUME NEW x \in ToSet(file), AppendKey(r) = AppendKey(x),
                      x.kind = "orderFillObserved" => LatestObservation(file, x.id) = <<x>>
               PROVE  FALSE
  BY DEF CurrentClaimKeys
<1>2. r.kind = "orderFillObserved" /\ KnownFilled(file, r.id) < r.quantity
      /\ r.id \in DOMAIN Resting(file)
  BY DEF Restates
<1>3. x.id = r.id /\ x.quantity = r.quantity /\ x.kind = "orderFillObserved"
  BY <1>1, <1>2, KeyOf
<1>4. LatestObservation(file, r.id) = <<x>>
  BY <1>1, <1>3
<1>5. KnownFilled(file, r.id) = x.quantity
  BY <1>4 DEF KnownFilled
<1>6. KnownFilled(file, r.id) \in Nat
  <2>1. IsPlaced(file, r.id)
    BY <1>2, RestingOnFile
  <2> QED BY <2>1, KnownType
<1> QED BY <1>2, <1>3, <1>5, <1>6

LEMMA PlacementPasses ==
    ASSUME NEW file \in Seq(OrderLines), NEW r, r.kind = "orderPlaced", ~ IsPlaced(file, r.id)
    PROVE  AppendKey(r) \notin CurrentClaimKeys(file)
<1>1. SUFFICES ASSUME NEW x \in ToSet(file), AppendKey(r) = AppendKey(x) PROVE FALSE
  BY DEF CurrentClaimKeys
<1>2. x.kind = "orderPlaced" /\ x.id = r.id
  BY <1>1, KeyOf
<1> QED BY <1>2, PlacedLinesAre

\* A rung with no placement on file has no line on it.
LEMMA NotPlacedIsNew ==
    ASSUME NEW file \in Seq(OrderLines), WellFormed(file), NEW id,
           \A s \in ToSet(file) : s.kind = "orderPlaced" => s.id # id
    PROVE  \A x \in ToSet(file) : x.id # id
BY DEF WellFormed

LEMMA SameTermsAre ==
    ASSUME NEW claims, NEW reserves, NEW p, NEW a, NEW q, NEW b, NEW i \in DOMAIN claims
    PROVE  SameTerms(BuildOrderPlacedRecords(claims, reserves, p, a)[i],
                     BuildOrderPlacedRecords(claims, reserves, q, b)[i])
BY DEF BuildOrderPlacedRecords, SameTerms

\* What is placed of the claims that were admitted.
ArePlacements(placed, admitted) ==
    /\ placed \in Seq(OrderLines) /\ DOMAIN placed = DOMAIN admitted
    /\ \A i \in DOMAIN admitted :
        /\ placed[i].kind = "orderPlaced" /\ placed[i].id = admitted[i].id
        /\ placed[i].at = placed[i].id[4]
        /\ placed[i].quantity = admitted[i].quantity /\ placed[i].observed = admitted[i].filled
        /\ placed[i].descriptor = admitted[i].descriptor

LEMMA PlacementsArePlacements ==
    ASSUME NEW claims \in Seq(Claimed), NEW reserves \in DeclareFunding(claims),
           NEW picks \in [DOMAIN claims -> Picks], NEW proposals
    PROVE  ArePlacements(BuildOrderPlacedRecords(claims, reserves, picks, proposals), claims)
<1> DEFINE placed == BuildOrderPlacedRecords(claims, reserves, picks, proposals)
<1>1. /\ placed \in Seq(OrderLines) /\ DOMAIN placed = DOMAIN claims
      /\ \A i \in DOMAIN claims :
            /\ placed[i] \in PlacedRecords
            /\ placed[i].id = claims[i].id /\ placed[i].at = claims[i].at
            /\ placed[i].quantity = claims[i].quantity
            /\ placed[i].observed = claims[i].filled
            /\ placed[i].descriptor = claims[i].descriptor
  BY PlacementsAre
<1> HIDE DEF placed
<1>2. \A i \in DOMAIN claims : placed[i].kind = "orderPlaced" /\ claims[i].at = claims[i].id[4]
  BY <1>1 DEF PlacedRecords, Claimed
<1>3. ArePlacements(placed, claims)
  BY <1>1, <1>2 DEF ArePlacements
<1> QED BY <1>3 DEF placed

\* The claims of an interview: those that are not restated.
Admitted(file, rows) ==
    Kept(Claims[rows], { i \in DOMAIN Claims[rows] :
            Claims[rows][i] \notin ToSet(DetectChangedClaims(file, Claims[rows])) })

LEMMA AdmittedAre ==
    ASSUME NEW file, NEW rows \in Exports
    PROVE  /\ Admitted(file, rows) \in Seq(Claimed) /\ Distinct(Admitted(file, rows))
           /\ \A c \in ToSet(Claims[rows]) :
                \/ c \in ToSet(Admitted(file, rows))
                \/ c \in ToSet(DetectChangedClaims(file, Claims[rows]))
           /\ \A c \in ToSet(Admitted(file, rows)) :
                /\ c \in ToSet(Claims[rows])
                /\ \A d \in ToSet(DetectChangedClaims(file, Claims[rows])) : d.id # c.id
<1> DEFINE claims == Claims[rows]
           changed == ToSet(DetectChangedClaims(file, claims))
           places == { i \in DOMAIN claims : claims[i] \notin changed }
           admitted == Kept(claims, places)
<1>1. /\ claims \in Seq(Claimed) /\ Distinct(claims)
      /\ \A c, d \in ToSet(claims) : c.id = d.id => c = d
  BY ClaimsType, ClaimsDistinct
<1>2. changed \subseteq ToSet(claims)
  <2> HIDE DEF claims
  <2> QED BY <1>1, ChangedAre
<1>3. /\ admitted \in Seq(Claimed) /\ Distinct(admitted)
      /\ ToSet(admitted) = { claims[i] : i \in places \cap DOMAIN claims }
  <2> HIDE DEF claims, places
  <2> QED BY <1>1, KeptLines, KeptOfDistinct
<1> HIDE DEF changed
<1>4. ToSet(admitted) = { c \in ToSet(claims) : c \notin changed }
  <2> HIDE DEF claims, admitted
  <2> QED BY <1>3 DEF ToSet, places
<1> HIDE DEF admitted
<1>5. \A c \in ToSet(admitted), d \in changed : d.id # c.id
  BY <1>1, <1>2, <1>4
<1> QED BY <1>3, <1>4, <1>5 DEF Admitted, admitted, changed

\* Placements of the claims admitted, and what was seen: no two about one rung.
LEMMA AnsweredDistinct ==
    ASSUME NEW file, NEW rows, NEW now, Looked(file, rows, now),
           NEW placed, ArePlacements(placed, Admitted(file, rows))
    PROVE  LET batch == placed \o Seen(file, rows, now)
           IN  /\ batch \in Seq(OrderLines) /\ Distinct(batch)
               /\ ToSet(batch) = ToSet(placed) \cup ToSet(Seen(file, rows, now))
               /\ \A r \in ToSet(placed) : \E i \in DOMAIN placed :
                    r = placed[i] /\ i \in DOMAIN Admitted(file, rows)
<1> DEFINE admitted == Admitted(file, rows)
           seen == Seen(file, rows, now)
           changed == ToSet(DetectChangedClaims(file, Claims[rows]))
<1>1. /\ admitted \in Seq(Claimed) /\ Distinct(admitted)
      /\ \A c \in ToSet(admitted) : \A d \in changed : d.id # c.id
  BY AdmittedAre DEF Looked
<1>2. /\ seen \in Seq(OrderLines) /\ Distinct(seen)
      /\ \A r \in ToSet(seen) : \E c \in changed : c.id = r.id
  BY LookedSays
<1> HIDE DEF admitted, seen, changed
<1>3. /\ placed \in Seq(OrderLines) /\ DOMAIN placed = DOMAIN admitted
      /\ \A i \in DOMAIN admitted : placed[i].id = admitted[i].id
  BY DEF ArePlacements, admitted
<1>4. Distinct(placed)
  BY <1>1, <1>3, DistinctLike
<1>5. \A r \in ToSet(placed) : \E i \in DOMAIN placed : r = placed[i] /\ i \in DOMAIN admitted
  BY <1>3 DEF ToSet
<1>6. \A x \in ToSet(placed), y \in ToSet(seen) : x.id # y.id
  <2>1. SUFFICES ASSUME NEW x \in ToSet(placed), NEW y \in ToSet(seen), x.id = y.id PROVE FALSE
    OBVIOUS
  <2>2. PICK i \in DOMAIN admitted : x.id = admitted[i].id
    BY <1>3, <1>5
  <2>3. admitted[i] \in ToSet(admitted)
    BY DEF ToSet
  <2> QED BY <1>1, <1>2, <2>1, <2>2, <2>3
<1>7. Distinct(placed \o seen)
  BY <1>2, <1>3, <1>4, <1>6, ConcatDistinct
<1>8. placed \o seen \in Seq(OrderLines) /\ ToSet(placed \o seen) = ToSet(placed) \cup ToSet(seen)
  BY <1>2, <1>3, LogType, AppendedOnly
<1> QED BY <1>5, <1>7, <1>8 DEF seen, admitted

\* What the filter leaves of them.
LEMMA AnsweredIsBatch ==
    ASSUME NEW file, NEW rows, NEW now, Looked(file, rows, now),
           NEW placed, ArePlacements(placed, Admitted(file, rows))
    PROVE  LET new == FilterAlreadyAppended(file, placed \o Seen(file, rows, now))
           IN  /\ IsBatch(new, file)
               /\ \A r \in ToSet(new) :
                    \/ r \in ToSet(Seen(file, rows, now)) /\ Restates(r, file)
                    \/ r \in ToSet(placed) /\ Places(r, file)
               /\ ToSet(Seen(file, rows, now)) \subseteq ToSet(new)
               /\ \A r \in ToSet(placed) : ~ IsPlaced(file, r.id) => r \in ToSet(new)
<1> DEFINE seen == Seen(file, rows, now)
           batch == placed \o seen
           new == FilterAlreadyAppended(file, batch)
<1>1. file \in Seq(OrderLines) /\ WellFormed(file)
  BY DEF Looked
<1>2. /\ batch \in Seq(OrderLines) /\ Distinct(batch)
      /\ ToSet(batch) = ToSet(placed) \cup ToSet(seen)
      /\ \A r \in ToSet(placed) : \E i \in DOMAIN placed :
            r = placed[i] /\ i \in DOMAIN Admitted(file, rows)
  BY AnsweredDistinct
<1>3. \A r \in ToSet(seen) : Restates(r, file)
  BY LookedSays
<1>4. \A r \in ToSet(placed) : r.kind = "orderPlaced" /\ r.at = r.id[4]
  BY <1>2 DEF ArePlacements
<1> HIDE DEF seen, batch
<1>5. /\ new \in Seq(OrderLines)
      /\ ToSet(new) = { r \in ToSet(batch) : AppendKey(r) \notin CurrentClaimKeys(file) }
      /\ \A r \in ToSet(new) : \A s \in ToSet(file) :
            r.kind = "orderPlaced" /\ s.kind = "orderPlaced" /\ r.at = s.at => r.id # s.id
  BY <1>1, <1>2, FilteredAre
<1>6. Distinct(new)
  BY <1>2, KeptOfDistinct DEF FilterAlreadyAppended
<1> HIDE DEF new
<1>7. ToSet(seen) \subseteq ToSet(new)
  BY <1>1, <1>2, <1>3, <1>5, RestatedPasses
<1>8. \A r \in ToSet(placed) : ~ IsPlaced(file, r.id) => r \in ToSet(new)
  BY <1>1, <1>2, <1>4, <1>5, PlacementPasses
<1>9. ASSUME NEW r \in ToSet(new), r \in ToSet(placed) PROVE Places(r, file)
  <2>1. \A s \in ToSet(file) : s.kind = "orderPlaced" => s.id # r.id
    BY <1>1, <1>4, <1>5, <1>9 DEF WellFormed
  <2> QED BY <1>1, <1>4, <1>9, <2>1, NotPlacedIsNew DEF Places
<1>10. \A r \in ToSet(new) :
            \/ r \in ToSet(seen) /\ Restates(r, file)
            \/ r \in ToSet(placed) /\ Places(r, file)
  BY <1>2, <1>3, <1>5, <1>9
<1>11. IsBatch(new, file)
  BY <1>5, <1>6, <1>10 DEF IsBatch
<1> QED BY <1>7, <1>8, <1>10, <1>11 DEF new, batch, seen

\* What is appended is as it was weighed, whatever the picks.
LEMMA AnsweredAsWeighed ==
    ASSUME NEW file, NEW rows, NEW now, Looked(file, rows, now),
           NEW placed, ArePlacements(placed, Admitted(file, rows)),
           NEW weighed, ArePlacements(weighed, Admitted(file, rows)),
           \A i \in DOMAIN placed : SameTerms(placed[i], weighed[i])
    PROVE  AsWeighed(FilterAlreadyAppended(file, placed \o Seen(file, rows, now)),
                     weighed \o Seen(file, rows, now), file)
<1> DEFINE seen == Seen(file, rows, now)
           new == FilterAlreadyAppended(file, placed \o seen)
           all == weighed \o seen
           admitted == Admitted(file, rows)
<1>1. /\ \A r \in ToSet(new) :
            \/ r \in ToSet(seen) /\ Restates(r, file)
            \/ r \in ToSet(placed) /\ Places(r, file)
      /\ ToSet(seen) \subseteq ToSet(new)
  BY AnsweredIsBatch
<1>2. /\ ToSet(all) = ToSet(weighed) \cup ToSet(seen)
      /\ \A r \in ToSet(weighed) : \E i \in DOMAIN weighed : r = weighed[i] /\ i \in DOMAIN admitted
  BY AnsweredDistinct
<1>3. \A r \in ToSet(placed) : \E i \in DOMAIN placed : r = placed[i] /\ i \in DOMAIN admitted
  BY AnsweredDistinct
<1>4. \A r \in ToSet(seen) : r.kind = "orderFillObserved"
  BY LookedSays DEF Restates
<1> HIDE DEF seen, new, all, admitted
<1>5. ASSUME NEW r \in ToSet(placed)
      PROVE  \E s \in ToSet(all) :
                /\ s.kind = "orderPlaced" /\ s.id = r.id /\ s.quantity = r.quantity
                /\ s.observed = r.observed /\ SameTerms(r, s)
  <2>1. PICK i \in DOMAIN placed : r = placed[i] /\ i \in DOMAIN admitted
    BY <1>3
  <2>2. /\ weighed[i].kind = "orderPlaced" /\ weighed[i].id = r.id
        /\ weighed[i].quantity = r.quantity /\ weighed[i].observed = r.observed
        /\ i \in DOMAIN weighed
    BY <2>1 DEF ArePlacements, admitted
  <2>3. weighed[i] \in ToSet(all)
    BY <1>2, <2>2 DEF ToSet
  <2> QED BY <2>1, <2>2, <2>3
<1>6. \A s \in ToSet(all) :
        \/ s.kind = "orderPlaced" /\ s.at = s.id[4]
        \/ s.kind = "orderFillObserved" /\ s \in ToSet(new)
  BY <1>1, <1>2, <1>4 DEF ArePlacements, admitted
<1>7. AsWeighed(new, all, file)
  BY <1>1, <1>2, <1>5, <1>6 DEF AsWeighed
<1> QED BY <1>7 DEF new, all, seen

\* Every claim of the export is on file once it is appended.
LEMMA AnsweredShows ==
    ASSUME NEW file, PlacedOnce(file), NEW rows, NEW now, Looked(file, rows, now),
           NEW placed, ArePlacements(placed, Admitted(file, rows))
    PROVE  Shows(file \o FilterAlreadyAppended(file, placed \o Seen(file, rows, now)), rows)
<1> DEFINE seen == Seen(file, rows, now)
           new == FilterAlreadyAppended(file, placed \o seen)
           changed == ToSet(DetectChangedClaims(file, Claims[rows]))
           admitted == Admitted(file, rows)
<1>1. SUFFICES ASSUME NEW c \in ToSet(Claims[rows])
               PROVE  IsPlaced(file \o new, c.id) /\ Differences(file \o new, c) = {}
  BY DEF Shows
<1>2. /\ file \in Seq(OrderLines) /\ WellFormed(file) /\ rows \in Exports
      /\ \A x \in ToSet(file) : x.at <= now
      /\ \A d \in changed : Partition(file, d) = "restated"
  BY DEF Looked
<1>3. /\ IsBatch(new, file)
      /\ \A r \in ToSet(new) :
            \/ r \in ToSet(seen) /\ Restates(r, file)
            \/ r \in ToSet(placed) /\ Places(r, file)
      /\ ToSet(seen) \subseteq ToSet(new)
      /\ \A r \in ToSet(placed) : ~ IsPlaced(file, r.id) => r \in ToSet(new)
  BY AnsweredIsBatch
<1>4. /\ \A r \in ToSet(seen) : \E d \in changed : d.id = r.id
      /\ \A d \in changed : FillObserved(d.id, now, d.filled) \in ToSet(seen)
  BY LookedSays
<1>5. /\ c \in ToSet(admitted) \/ c \in changed
      /\ c \in ToSet(admitted) => \A d \in changed : d.id # c.id
  BY <1>2, AdmittedAre
<1>6. /\ c \in Claimed
      /\ c \in changed <=> IsPlaced(file, c.id) /\ Differences(file, c) # {}
  <2>1. Claims[rows] \in Seq(Claimed)
    BY <1>2, ClaimsType
  <2> QED BY <2>1, ChangedAre, MembersType
<1> HIDE DEF seen, new, changed, admitted
<1>7. CASE c \in changed
  <2>1. Differences(file, c) # {} /\ Partition(file, c) = "restated"
    BY <1>2, <1>6, <1>7
  <2>2. FillObserved(c.id, now, c.filled) \in ToSet(new)
    BY <1>3, <1>4, <1>7
  <2> QED BY <1>2, <1>3, <1>6, <2>1, <2>2, RecordedShows
<1>8. CASE c \notin changed /\ ~ IsPlaced(file, c.id)
  <2>1. c \in ToSet(admitted)
    BY <1>5, <1>8
  <2>2. PICK i \in DOMAIN admitted : c = admitted[i]
    BY <2>1 DEF ToSet
  <2>3. /\ placed[i].kind = "orderPlaced" /\ placed[i].id = c.id
        /\ placed[i].quantity = c.quantity /\ placed[i].observed = c.filled
        /\ placed[i].descriptor = c.descriptor /\ placed[i] \in ToSet(placed)
    BY <2>2 DEF ArePlacements, admitted, ToSet
  <2>4. placed[i] \in ToSet(new)
    BY <1>3, <1>8, <2>3
  <2>5. placed[i] \notin ToSet(seen)
    BY <1>4, <1>5, <2>1, <2>3
  <2>6. Places(placed[i], file)
    BY <1>3, <2>4, <2>5
  <2> QED BY <1>2, <1>3, <2>3, <2>4, <2>6, PlacedShows
<1>9. CASE c \notin changed /\ IsPlaced(file, c.id)
  <2>1. c \in ToSet(admitted) /\ Differences(file, c) = {}
    BY <1>5, <1>6, <1>9
  <2>2. \A r \in ToSet(new) : r.id # c.id
    <3>1. \E x \in ToSet(file) : x.id = c.id
      BY <1>2, <1>9, PlacedLinesAre
    <3> QED BY <1>3, <1>4, <1>5, <2>1, <3>1 DEF Places
  <2>3. new \in Seq(OrderLines)
    BY <1>3 DEF IsBatch
  <2> QED BY <1>2, <1>9, <2>1, <2>2, <2>3, OthersShow
<1> QED BY <1>7, <1>8, <1>9

LEMMA AnsweredIsSound ==
    ASSUME NEW file, NEW rows, NEW now, Looked(file, rows, now),
           NEW placed, ArePlacements(placed, Admitted(file, rows)),
           NEW weighed, ArePlacements(weighed, Admitted(file, rows)),
           \A i \in DOMAIN placed : SameTerms(placed[i], weighed[i]),
           NEW held \in [DOMAIN Reserves -> Nat],
           Covered(CommittedRungs(file \o weighed \o Seen(file, rows, now)), held)
    PROVE  Sound(file, FilterAlreadyAppended(file, placed \o Seen(file, rows, now)), held, rows)
<1> DEFINE seen == Seen(file, rows, now)
           new == FilterAlreadyAppended(file, placed \o seen)
           all == weighed \o seen
<1>1. SUFFICES ASSUME PlacedOnce(file)
               PROVE  /\ PlacedOnce(file \o new)
                      /\ KnownIsConsumed(file) => KnownIsConsumed(file \o new)
                      /\ \A slack \in [DOMAIN Reserves -> Nat] :
                            (\A r \in DOMAIN Reserves : held[r] <= slack[r]) =>
                                Covered(CommittedRungs(file \o new), slack)
                      /\ Shows(file \o new, rows)
  BY DEF Sound
<1>2. file \in Seq(OrderLines) /\ WellFormed(file)
  BY DEF Looked
<1>3. IsBatch(new, file)
  BY AnsweredIsBatch
<1>4. PlacedOnce(file \o new) /\ (KnownIsConsumed(file) => KnownIsConsumed(file \o new))
  BY <1>1, <1>2, <1>3, BatchPlacesOnce, BatchConsumes
<1>5. Shows(file \o new, rows)
  BY <1>1, AnsweredShows
<1>6. /\ all \in Seq(OrderLines) /\ Distinct(all)
      /\ ToSet(all) = ToSet(weighed) \cup ToSet(seen)
      /\ \A r \in ToSet(weighed) : \E i \in DOMAIN weighed :
            r = weighed[i] /\ i \in DOMAIN Admitted(file, rows)
  BY AnsweredDistinct
<1>7. AsWeighed(new, all, file)
  BY AnsweredAsWeighed
<1>8. /\ weighed \in Seq(OrderLines) /\ seen \in Seq(OrderLines)
      /\ \A r \in ToSet(seen) : Restates(r, file)
  BY LookedSays DEF ArePlacements
<1> HIDE DEF new, seen, all
<1>9. LessRests(file \o new, file \o all)
  BY <1>1, <1>2, <1>3, <1>6, <1>7, WeighedRests
<1>10. file \o weighed \o seen = file \o all
  BY <1>2, <1>8, ConcatAssociative DEF all
<1>11. file \o all \in Seq(OrderLines) /\ WellFormed(file \o all)
  <2>1. file \o all \in Seq(OrderLines) /\ ToSet(file \o all) = ToSet(file) \cup ToSet(all)
    BY <1>2, <1>6, LogType, AppendedOnly
  <2>2. \A r \in ToSet(weighed) : r.kind = "orderPlaced" /\ r.at = r.id[4]
    BY <1>6 DEF ArePlacements
  <2>3. \A r \in ToSet(seen) : /\ r.kind = "orderFillObserved"
                               /\ \E s \in ToSet(file) : s.kind = "orderPlaced" /\ s.id = r.id
    <3>1. SUFFICES ASSUME NEW r \in ToSet(seen)
                   PROVE  /\ r.kind = "orderFillObserved"
                          /\ \E s \in ToSet(file) : s.kind = "orderPlaced" /\ s.id = r.id
      OBVIOUS
    <3>2. r.kind = "orderFillObserved" /\ r.id \in DOMAIN Resting(file)
      BY <1>8 DEF Restates
    <3>3. IsPlaced(file, r.id)
      BY <1>2, <3>2, RestingOnFile
    <3> QED BY <1>2, <3>2, <3>3, PlacedLinesAre
  <2> QED BY <1>2, <1>6, <2>1, <2>2, <2>3 DEF WellFormed
<1>12. file \o new \in Seq(OrderLines) /\ WellFormed(file \o new)
  BY <1>2, <1>3, BatchWellFormed
<1>13. Covered(CommittedRungs(file \o all), held)
  BY <1>10 DEF seen
<1>14. Covered(CommittedRungs(file \o new), held)
  BY <1>9, <1>11, <1>12, <1>13, LessIsCovered
<1>15. \A slack \in [DOMAIN Reserves -> Nat] :
        (\A r \in DOMAIN Reserves : held[r] <= slack[r]) =>
            Covered(CommittedRungs(file \o new), slack)
  <2>1. [DOMAIN Reserves -> Nat] \subseteq [DOMAIN Reserves -> Int]
    OBVIOUS
  <2> QED BY <1>12, <1>14, <2>1, MoreIsCovered
<1> QED BY <1>4, <1>5, <1>15
----------------------------------------------------------------------------
(* The inductive invariant of the book: as long as no line was appended on *)
(* a stale read, each rung is placed once, is consumed by what is known    *)
(* filled of it, and is carried by its reserve and what was debited of it  *)
(* late; and what a process is about to append to the file that it read    *)
(* keeps it so.                                                            *)

Asked(p) ==
    pc[p] = "asking" => \E now \in 1 .. MaxClock :
        Looked(records[p], export[p], now) /\ fresh[p] = Seen(records[p], export[p], now)

Decided(p) == pc[p] = "writing" => Sound(records[p], fresh[p], fund[p], export[p])

Funded(p) == pc[p] # "idle" => fund[p] \in [DOMAIN Reserves -> Nat]

InHand(p) == Asked(p) /\ Decided(p) /\ Funded(p)

Book ==
    /\ done.rows \in Exports \cup {<<>>} /\ (done.complete => Complete(done.rows))
    /\ ~ overlapped => /\ PlacedOnce(orders) /\ KnownIsConsumed(orders) /\ Shows(orders, done.rows)
                       /\ Covered(CommittedRungs(orders), Backing(orders, balance))

BookInv ==
    /\ IInv /\ fund \in [Traders -> [DOMAIN Reserves -> Nat] \cup {<<>>}]
    /\ Book /\ \A p \in Traders : InHand(p)

LEMMA BookInit ==
    ASSUME Init PROVE BookInv
<1>1. IInv
  BY InitHolds
<1>2. fund \in [Traders -> [DOMAIN Reserves -> Nat] \cup {<<>>}]
  BY DEF Init
<1>3. \A p \in Traders : InHand(p)
  BY DEF Init, InHand, Asked, Decided, Funded
<1>4. /\ orders = File /\ done.rows = <<>> /\ done.complete = FALSE
      /\ balance = [r \in DOMAIN Reserves |-> Reserves[r].balance]
  BY DEF Init, NoImport
<1>5. Shows(orders, done.rows)
  BY <1>4, NoClaims DEF Shows
<1>6. Covered(CommittedRungs(orders), Backing(orders, balance))
  <2>1. /\ orders \in Seq(OrderLines) /\ WellFormed(orders)
        /\ balance \in [DOMAIN Reserves -> Nat]
    BY <1>1 DEF IInv, TypeOK
  <2>2. /\ Backing(orders, balance) \in [DOMAIN Reserves -> Nat]
        /\ \A r \in DOMAIN Reserves : balance[r] <= Backing(orders, balance)[r]
    BY <2>1, BackingIs
  <2>3. [DOMAIN Reserves -> Nat] \subseteq [DOMAIN Reserves -> Int]
    OBVIOUS
  <2>4. Covered(CommittedRungs(orders), balance)
    BY <1>4, BookAssumption
  <2> QED BY <2>1, <2>2, <2>3, <2>4, MoreIsCovered
<1>7. Book
  BY <1>4, <1>5, <1>6, BookAssumption DEF Book
<1> QED BY <1>1, <1>2, <1>3, <1>7 DEF BookInv

\* A step of one process leaves what the others have in hand.
LEMMA OthersInHand ==
    ASSUME BookInv, NEW p \in Traders,
           \A q \in Traders \ {p} :
                /\ pc'[q] = pc[q] /\ export'[q] = export[q] /\ records'[q] = records[q]
                /\ fresh'[q] = fresh[q] /\ fund'[q] = fund[q],
           InHand(p)'
    PROVE  \A q \in Traders : InHand(q)'
<1>1. SUFFICES ASSUME NEW q \in Traders, q # p PROVE InHand(q)'
  OBVIOUS
<1>2. InHand(q)
  BY DEF BookInv
<1>3. /\ pc'[q] = pc[q] /\ export'[q] = export[q] /\ records'[q] = records[q]
      /\ fresh'[q] = fresh[q] /\ fund'[q] = fund[q]
  BY <1>1
<1>4. Asked(q)'
  BY <1>2, <1>3 DEF InHand, Asked
<1>5. Decided(q)'
  BY <1>2, <1>3 DEF InHand, Decided
<1>6. Funded(q)'
  BY <1>2, <1>3 DEF InHand, Funded
<1> QED BY <1>4, <1>5, <1>6 DEF InHand

LEMMA StartImportBooks ==
    ASSUME BookInv, NEW p \in Traders, StartImport(p)
    PROVE  BookInv'
<1>1. IInv /\ IInv'
  BY StartImportKeeps DEF BookInv
<1>2. /\ pc \in [Traders -> Steps] /\ balance \in [DOMAIN Reserves -> Nat]
      /\ export \in [Traders -> Exports \cup {<<>>}]
      /\ fund \in [Traders -> [DOMAIN Reserves -> Nat] \cup {<<>>}]
  BY <1>1 DEF IInv, TypeOK, LocalsOK, BookInv
<1>3. /\ pc' = [pc EXCEPT ![p] = "loading"] /\ fund' = [fund EXCEPT ![p] = balance]
      /\ \E e \in Exports : export' = [export EXCEPT ![p] = e]
      /\ UNCHANGED <<orders, balance, records, fresh, done, overlapped>>
  BY DEF StartImport
<1>4. \A q \in Traders \ {p} :
            /\ pc'[q] = pc[q] /\ export'[q] = export[q] /\ records'[q] = records[q]
            /\ fresh'[q] = fresh[q] /\ fund'[q] = fund[q]
  BY <1>2, <1>3
<1>5. InHand(p)'
  BY <1>2, <1>3 DEF InHand, Asked, Decided, Funded
<1>6. \A q \in Traders : InHand(q)'
  BY <1>4, <1>5, OthersInHand
<1>7. Book'
  BY <1>3 DEF BookInv, Book, Shows
<1>8. fund' \in [Traders -> [DOMAIN Reserves -> Nat] \cup {<<>>}]
  BY <1>2, <1>3
<1> QED BY <1>1, <1>6, <1>7, <1>8 DEF BookInv

LEMMA StopBooks ==
    ASSUME BookInv, NEW p \in Traders, Stop(p)
    PROVE  BookInv'
<1>1. IInv /\ IInv'
  BY StopKeeps DEF BookInv
<1>2. /\ pc \in [Traders -> Steps]
      /\ export \in [Traders -> Exports \cup {<<>>}] /\ records \in [Traders -> Seq(OrderLines)]
      /\ fresh \in [Traders -> Seq(OrderLines)]
      /\ fund \in [Traders -> [DOMAIN Reserves -> Nat] \cup {<<>>}]
  BY <1>1 DEF IInv, TypeOK, LocalsOK, BookInv
<1>3. /\ pc' = [pc EXCEPT ![p] = "idle"] /\ fund' = [fund EXCEPT ![p] = <<>>]
      /\ export' = [export EXCEPT ![p] = <<>>] /\ records' = [records EXCEPT ![p] = <<>>]
      /\ fresh' = [fresh EXCEPT ![p] = <<>>]
      /\ UNCHANGED <<orders, balance, done, overlapped>>
  BY DEF Stop, End
<1>4. \A q \in Traders \ {p} :
            /\ pc'[q] = pc[q] /\ export'[q] = export[q] /\ records'[q] = records[q]
            /\ fresh'[q] = fresh[q] /\ fund'[q] = fund[q]
  BY <1>2, <1>3
<1>5. InHand(p)'
  BY <1>2, <1>3 DEF InHand, Asked, Decided, Funded
<1>6. \A q \in Traders : InHand(q)'
  BY <1>4, <1>5, OthersInHand
<1>7. Book'
  BY <1>3 DEF BookInv, Book, Shows
<1>8. fund' \in [Traders -> [DOMAIN Reserves -> Nat] \cup {<<>>}]
  BY <1>2, <1>3
<1> QED BY <1>1, <1>6, <1>7, <1>8 DEF BookInv

LEMMA LoadOrdersBooks ==
    ASSUME BookInv, NEW p \in Traders, LoadOrders(p)
    PROVE  BookInv'
<1> DEFINE claims == Claims[export[p]]
           restated == DetectChangedClaims(orders, claims)
<1>1. IInv /\ IInv'
  BY LoadOrdersKeeps DEF BookInv
<1>2. /\ pc \in [Traders -> Steps]
      /\ export \in [Traders -> Exports \cup {<<>>}] /\ records \in [Traders -> Seq(OrderLines)]
      /\ fresh \in [Traders -> Seq(OrderLines)]
      /\ fund \in [Traders -> [DOMAIN Reserves -> Nat] \cup {<<>>}]
      /\ Held(p) /\ Funded(p) /\ orders \in Seq(OrderLines) /\ WellFormed(orders)
  BY <1>1 DEF IInv, TypeOK, LocalsOK, BookInv, InHand
<1>3. /\ pc[p] = "loading" /\ records' = [records EXCEPT ![p] = orders]
      /\ \A c \in ToSet(restated) : Partition(orders, c) = "restated"
      /\ \E now \in Now : fresh' = [fresh EXCEPT ![p] = Observations(restated, now)]
      /\ pc' = [pc EXCEPT ![p] = IF Len(restated) = Len(claims) THEN "writing" ELSE "asking"]
      /\ UNCHANGED <<orders, balance, fund, export, done, overlapped>>
  BY DEF LoadOrders
<1>4. PICK now \in Now : fresh' = [fresh EXCEPT ![p] = Observations(restated, now)]
  BY <1>3
<1>5. now \in 1 .. MaxClock /\ \A x \in ToSet(orders) : x.at <= now
  BY DEF Now
<1>6. export[p] \in Exports /\ fund[p] \in [DOMAIN Reserves -> Nat]
  BY <1>2, <1>3 DEF Held, Funded
<1>7. Looked(orders, export[p], now)
  BY <1>2, <1>3, <1>5, <1>6 DEF Looked
<1>8. Observations(restated, now) = Seen(orders, export[p], now)
  BY DEF Seen
<1>9. Len(restated) = Len(claims) => Sound(orders, Seen(orders, export[p], now), fund[p], export[p])
  BY <1>6, <1>7, LoadedIsSound
<1> HIDE DEF restated, claims
<1>10. /\ records'[p] = orders /\ fresh'[p] = Seen(orders, export[p], now)
       /\ pc'[p] = (IF Len(restated) = Len(claims) THEN "writing" ELSE "asking")
       /\ export'[p] = export[p] /\ fund'[p] = fund[p]
  BY <1>2, <1>3, <1>4, <1>8
<1>11. \A q \in Traders \ {p} :
            /\ pc'[q] = pc[q] /\ export'[q] = export[q] /\ records'[q] = records[q]
            /\ fresh'[q] = fresh[q] /\ fund'[q] = fund[q]
  BY <1>2, <1>3, <1>4
<1>12. Asked(p)'
  BY <1>5, <1>7, <1>10 DEF Asked
<1>13. Decided(p)'
  BY <1>9, <1>10 DEF Decided
<1>14. Funded(p)'
  BY <1>6, <1>10 DEF Funded
<1>15. \A q \in Traders : InHand(q)'
  BY <1>11, <1>12, <1>13, <1>14, OthersInHand DEF InHand
<1>16. Book'
  BY <1>3 DEF BookInv, Book, Shows
<1>17. fund' \in [Traders -> [DOMAIN Reserves -> Nat] \cup {<<>>}]
  BY <1>2, <1>3
<1> QED BY <1>1, <1>15, <1>16, <1>17 DEF BookInv

LEMMA LoadCancelBooks ==
    ASSUME BookInv, NEW p \in Traders, LoadCancel(p)
    PROVE  BookInv'
<1>1. IInv /\ IInv'
  BY LoadCancelKeeps DEF BookInv
<1>2. /\ pc \in [Traders -> Steps] /\ balance \in [DOMAIN Reserves -> Nat]
      /\ export \in [Traders -> Exports \cup {<<>>}] /\ records \in [Traders -> Seq(OrderLines)]
      /\ fresh \in [Traders -> Seq(OrderLines)]
      /\ fund \in [Traders -> [DOMAIN Reserves -> Nat] \cup {<<>>}]
      /\ orders \in Seq(OrderLines) /\ WellFormed(orders)
      /\ pc[p] = "idle" => export[p] = <<>>
  BY <1>1 DEF IInv, TypeOK, LocalsOK, BookInv
<1>3. /\ pc[p] = "idle" /\ pc' = [pc EXCEPT ![p] = "writing"]
      /\ records' = [records EXCEPT ![p] = orders] /\ fund' = [fund EXCEPT ![p] = balance]
      /\ UNCHANGED <<orders, balance, export, done, overlapped>>
  BY DEF LoadCancel
<1>4. PICK id \in DOMAIN Resting(orders) : \E at \in Resting(orders)[id].at .. MaxClock :
        fresh' = [fresh EXCEPT ![p] = <<Cancelled(id, at)>>]
  BY DEF LoadCancel
<1>5. PICK at \in Resting(orders)[id].at .. MaxClock :
        fresh' = [fresh EXCEPT ![p] = <<Cancelled(id, at)>>]
  BY <1>4
<1> DEFINE r == Cancelled(id, at)
<1>6. id \in Ids /\ Resting(orders)[id].at = id[4] /\ id[4] \in Nat \ {0}
  <2>1. id \in Ids /\ Resting(orders)[id].at = id[4]
    BY <1>2, RestingOnFile
  <2> QED BY <2>1 DEF Ids
<1>7. at \in Nat \ {0} /\ id[4] <= at
  BY <1>6, OrderImportAssumption
<1>8. /\ r \in OrderLines /\ r.id = id /\ r.at = at /\ r.kind = "orderCancelled"
  BY <1>6, <1>7 DEF Cancelled, OrderLines
<1> HIDE DEF r
<1>9. Cancels(r, orders)
  BY <1>7, <1>8 DEF Cancels
<1>10. <<r>> \in Seq(OrderLines) /\ ToSet(<<r>>) = {r} /\ Distinct(<<r>>)
  BY <1>8 DEF ToSet, Distinct
<1>11. IsBatch(<<r>>, orders) /\ \A x \in ToSet(<<r>>) : x.kind # "orderPlaced"
  BY <1>8, <1>9, <1>10 DEF IsBatch
<1>12. Sound(orders, <<r>>, balance, <<>>)
  <2>1. Shows(orders \o <<r>>, <<>>)
    BY NoClaims DEF Shows
  <2> QED BY <1>2, <1>11, <2>1, BatchIsSound
<1>13. /\ records'[p] = orders /\ fresh'[p] = <<r>> /\ pc'[p] = "writing"
       /\ export'[p] = <<>> /\ fund'[p] = balance
  BY <1>2, <1>3, <1>5 DEF r
<1>14. \A q \in Traders \ {p} :
            /\ pc'[q] = pc[q] /\ export'[q] = export[q] /\ records'[q] = records[q]
            /\ fresh'[q] = fresh[q] /\ fund'[q] = fund[q]
  BY <1>2, <1>3, <1>5
<1>15. InHand(p)'
  BY <1>2, <1>12, <1>13 DEF InHand, Asked, Decided, Funded
<1>16. \A q \in Traders : InHand(q)'
  BY <1>14, <1>15, OthersInHand
<1>17. Book'
  BY <1>3 DEF BookInv, Book, Shows
<1>18. fund' \in [Traders -> [DOMAIN Reserves -> Nat] \cup {<<>>}]
  BY <1>2, <1>3
<1> QED BY <1>1, <1>16, <1>17, <1>18 DEF BookInv

LEMMA AnswerBooks ==
    ASSUME BookInv, NEW p \in Traders, Answer(p)
    PROVE  BookInv'
<1> DEFINE file == records[p]
           admitted == Admitted(file, export[p])
           line(reserves, picks, proposals) ==
                BuildOrderPlacedRecords(admitted, reserves, picks, proposals)
           unpicked == [i \in DOMAIN admitted |-> NoPick]
           weighed(reserves) == line(reserves, unpicked, <<>>)
           filtered(reserves, picks, proposals) ==
                FilterAlreadyAppended(file, line(reserves, picks, proposals) \o fresh[p])
<1>1. IInv /\ IInv'
  BY AnswerKeeps DEF BookInv
<1>2. /\ pc \in [Traders -> Steps]
      /\ fresh \in [Traders -> Seq(OrderLines)]
      /\ fund \in [Traders -> [DOMAIN Reserves -> Nat] \cup {<<>>}]
      /\ Asked(p) /\ Funded(p)
  BY <1>1 DEF IInv, TypeOK, LocalsOK, BookInv, InHand
<1>3. /\ pc[p] = "asking" /\ pc' = [pc EXCEPT ![p] = "writing"]
      /\ UNCHANGED <<orders, balance, fund, export, records, done, overlapped>>
  BY DEF Answer
<1>4. PICK reserves \in DeclareFunding(admitted) :
        /\ Covered(CommittedRungs(Weighed(p, weighed(reserves))), fund[p])
        /\ \E ladders \in {Ladders, <<>>} : \E proposals :
            \E picks \in [DOMAIN admitted -> OfferRungs(ladders)] :
                fresh' = [fresh EXCEPT ![p] = filtered(reserves, picks, proposals)]
  BY DEF Answer, Admitted
<1>5. PICK ladders \in {Ladders, <<>>} : \E proposals :
            \E picks \in [DOMAIN admitted -> OfferRungs(ladders)] :
                fresh' = [fresh EXCEPT ![p] = filtered(reserves, picks, proposals)]
  BY <1>4
<1>6. PICK proposals, picks :
        /\ picks \in [DOMAIN admitted -> OfferRungs(ladders)]
        /\ fresh' = [fresh EXCEPT ![p] = filtered(reserves, picks, proposals)]
  BY <1>5
<1>7. PICK now \in 1 .. MaxClock :
        Looked(file, export[p], now) /\ fresh[p] = Seen(file, export[p], now)
  BY <1>2, <1>3 DEF Asked
<1>8. admitted \in Seq(Claimed)
  BY <1>7, AdmittedAre DEF Looked
<1> HIDE DEF admitted, line
<1>9. picks \in [DOMAIN admitted -> Picks] /\ unpicked \in [DOMAIN admitted -> Picks]
  <2>1. picks \in [DOMAIN admitted -> OfferRungs(ladders)]
    BY <1>6
  <2>2. OfferRungs(ladders) \in SUBSET Picks /\ NoPick \in Picks
    BY OffersArePicks DEF Picks
  <2> QED BY <2>1, <2>2
<1> DEFINE placed == line(reserves, picks, proposals)
           bare == weighed(reserves)
<1>10. ArePlacements(placed, admitted)
  BY <1>8, <1>9, PlacementsArePlacements DEF line
<1>11. ArePlacements(bare, admitted)
  <2> HIDE DEF unpicked
  <2> QED BY <1>8, <1>9, PlacementsArePlacements DEF line
<1>12. \A i \in DOMAIN placed : SameTerms(placed[i], bare[i])
  <2>1. DOMAIN placed = DOMAIN admitted
    BY <1>10 DEF ArePlacements
  <2> QED BY <2>1, SameTermsAre DEF line
<1>13. fund[p] \in [DOMAIN Reserves -> Nat]
  BY <1>2, <1>3 DEF Funded
<1> HIDE DEF placed, bare
<1>14. Covered(CommittedRungs(file \o bare \o Seen(file, export[p], now)), fund[p])
  BY <1>4, <1>7 DEF Weighed, bare
<1>15. Sound(file, FilterAlreadyAppended(file, placed \o Seen(file, export[p], now)),
             fund[p], export[p])
  <2>1. ArePlacements(placed, Admitted(file, export[p]))
        /\ ArePlacements(bare, Admitted(file, export[p]))
    BY <1>10, <1>11 DEF admitted
  <2> HIDE DEF file
  <2> QED BY <1>7, <1>12, <1>13, <1>14, <2>1, AnsweredIsSound
<1>16. /\ records'[p] = file /\ pc'[p] = "writing"
       /\ fresh'[p] = FilterAlreadyAppended(file, placed \o Seen(file, export[p], now))
       /\ export'[p] = export[p] /\ fund'[p] = fund[p]
  BY <1>2, <1>3, <1>6, <1>7 DEF placed
<1>17. \A q \in Traders \ {p} :
            /\ pc'[q] = pc[q] /\ export'[q] = export[q] /\ records'[q] = records[q]
            /\ fresh'[q] = fresh[q] /\ fund'[q] = fund[q]
  BY <1>2, <1>3, <1>6
<1>18. InHand(p)'
  BY <1>13, <1>15, <1>16 DEF InHand, Asked, Decided, Funded
<1>19. \A q \in Traders : InHand(q)'
  BY <1>17, <1>18, OthersInHand
<1>20. Book'
  BY <1>3 DEF BookInv, Book, Shows
<1>21. fund' \in [Traders -> [DOMAIN Reserves -> Nat] \cup {<<>>}]
  BY <1>2, <1>3
<1> QED BY <1>1, <1>19, <1>20, <1>21 DEF BookInv

\* What was covered when some of the lines were on file is covered when the others are.
LEMMA StaysBacked ==
    ASSUME NEW file \in Seq(OrderLines), WellFormed(file),
           NEW more \in Seq(OrderLines), WellFormed(more), IsLonger(more, file),
           NEW held \in [DOMAIN Reserves -> Nat],
           Covered(CommittedRungs(more), Backing(file, held))
    PROVE  Covered(CommittedRungs(more), Backing(more, held))
<1>1. /\ Backing(file, held) \in [DOMAIN Reserves -> Nat]
      /\ Backing(more, held) \in [DOMAIN Reserves -> Nat]
      /\ \A r \in DOMAIN Reserves :
            /\ DebitedLate(file, r) \in Nat /\ DebitedLate(more, r) \in Nat
            /\ Backing(file, held)[r] = held[r] + DebitedLate(file, r)
            /\ Backing(more, held)[r] = held[r] + DebitedLate(more, r)
  BY BackingIs
<1>2. \A r : DebitedLate(file, r) <= DebitedLate(more, r)
  BY LateGrows
<1>3. ASSUME NEW r \in DOMAIN Reserves PROVE Backing(file, held)[r] <= Backing(more, held)[r]
  <2>1. held[r] \in Nat
    OBVIOUS
  <2> QED BY <1>1, <1>2, <2>1
<1>4. [DOMAIN Reserves -> Nat] \subseteq [DOMAIN Reserves -> Int]
  OBVIOUS
<1> QED BY <1>1, <1>3, <1>4, MoreIsCovered

LEMMA WrittenIsBacked ==
    ASSUME IInv, IInv', NEW t, orders' = orders \o t, balance' = balance, PlacedOnce(orders'),
           Covered(CommittedRungs(orders'), Backing(orders, balance))
    PROVE  Covered(CommittedRungs(orders'), Backing(orders', balance'))
<1>1. /\ orders \in Seq(OrderLines) /\ WellFormed(orders) /\ balance \in [DOMAIN Reserves -> Nat]
      /\ orders' \in Seq(OrderLines) /\ WellFormed(orders')
  BY DEF IInv, TypeOK
<1>2. \A i \in DOMAIN orders : i \in DOMAIN orders' /\ orders'[i] = orders[i]
  <2>1. DOMAIN orders = 1 .. Len(orders) /\ Len(orders) \in Nat
    BY <1>1
  <2>2. t \in Seq(OrderLines)
    BY <1>1
  <2> QED BY <1>1, <2>1, <2>2
<1>3. ASSUME NEW id, IsPlaced(orders, id)
      PROVE  Head(PlacedLines(orders', id)) = Head(PlacedLines(orders, id))
  <2> DEFINE x == Head(PlacedLines(orders, id))
             y == Head(PlacedLines(orders', id))
  <2>1. x \in ToSet(orders) /\ x \in PlacedRecords /\ x.id = id
    BY <1>1, <1>3, PlacedLinesAre
  <2>2. x \in ToSet(orders')
    BY <1>2, <2>1 DEF ToSet
  <2>3. x.kind = "orderPlaced"
    BY <2>1 DEF PlacedRecords
  <2>4. IsPlaced(orders', id)
    BY <1>1, <2>1, <2>2, <2>3, PlacedLinesAre
  <2>5. y \in ToSet(orders') /\ y \in PlacedRecords /\ y.id = id
    BY <1>1, <2>4, PlacedLinesAre
  <2>6. y.kind = "orderPlaced"
    BY <2>5 DEF PlacedRecords
  <2> QED BY <2>1, <2>2, <2>3, <2>5, <2>6 DEF PlacedOnce
<1>4. IsLonger(orders', orders)
  BY <1>2, <1>3 DEF IsLonger
<1> QED BY <1>1, <1>4, StaysBacked

LEMMA WriteBooks ==
    ASSUME BookInv, NEW p \in Traders, Write(p)
    PROVE  BookInv'
<1>1. IInv /\ IInv'
  BY WriteKeeps DEF BookInv
<1>2. /\ pc \in [Traders -> Steps]
      /\ export \in [Traders -> Exports \cup {<<>>}] /\ records \in [Traders -> Seq(OrderLines)]
      /\ fresh \in [Traders -> Seq(OrderLines)]
      /\ fund \in [Traders -> [DOMAIN Reserves -> Nat] \cup {<<>>}]
      /\ Book /\ Decided(p)
  BY <1>1 DEF IInv, TypeOK, LocalsOK, BookInv, InHand
<1>3. /\ pc[p] = "writing"
      /\ pc' = [pc EXCEPT ![p] = "idle"] /\ fund' = [fund EXCEPT ![p] = <<>>]
      /\ export' = [export EXCEPT ![p] = <<>>] /\ records' = [records EXCEPT ![p] = <<>>]
      /\ fresh' = [fresh EXCEPT ![p] = <<>>]
      /\ orders' = orders \o fresh[p] /\ balance' = balance
      /\ overlapped' = (overlapped \/ orders # records[p] \/ balance # fund[p])
      /\ done' = (IF export[p] = <<>> THEN NoImport
                  ELSE [rows |-> export[p], complete |-> Complete(export[p])])
  BY DEF Write, End
<1>4. \A q \in Traders \ {p} :
            /\ pc'[q] = pc[q] /\ export'[q] = export[q] /\ records'[q] = records[q]
            /\ fresh'[q] = fresh[q] /\ fund'[q] = fund[q]
  BY <1>2, <1>3
<1>5. InHand(p)'
  BY <1>2, <1>3 DEF InHand, Asked, Decided, Funded
<1>6. \A q \in Traders : InHand(q)'
  BY <1>4, <1>5, OthersInHand
<1>7. /\ done'.rows = export[p] /\ (done'.complete => Complete(done'.rows))
      /\ export[p] \in Exports \cup {<<>>}
  BY <1>2, <1>3 DEF NoImport
<1>8. ASSUME ~ overlapped'
      PROVE  /\ PlacedOnce(orders') /\ KnownIsConsumed(orders') /\ Shows(orders', done'.rows)
             /\ Covered(CommittedRungs(orders'), Backing(orders', balance'))
  <2>1. ~ overlapped /\ orders = records[p] /\ balance = fund[p]
    BY <1>3, <1>8
  <2>2. Sound(orders, fresh[p], balance, export[p])
    BY <1>2, <1>3, <2>1 DEF Decided
  <2>3. /\ PlacedOnce(orders) /\ KnownIsConsumed(orders)
        /\ Covered(CommittedRungs(orders), Backing(orders, balance))
    BY <1>2, <2>1 DEF Book
  <2>4. /\ PlacedOnce(orders \o fresh[p]) /\ KnownIsConsumed(orders \o fresh[p])
        /\ Shows(orders \o fresh[p], export[p])
        /\ Covered(CommittedRungs(orders \o fresh[p]), Backing(orders, balance))
    <3>1. /\ orders \in Seq(OrderLines) /\ WellFormed(orders)
          /\ balance \in [DOMAIN Reserves -> Nat]
      BY <1>1 DEF IInv, TypeOK, BookInv
    <3>2. /\ Backing(orders, balance) \in [DOMAIN Reserves -> Nat]
          /\ \A r \in DOMAIN Reserves : balance[r] <= Backing(orders, balance)[r]
      BY <3>1, BackingIs
    <3> QED BY <2>2, <2>3, <3>2 DEF Sound
  <2>5. Covered(CommittedRungs(orders'), Backing(orders', balance'))
    BY <1>1, <1>3, <2>4, WrittenIsBacked DEF BookInv
  <2> QED BY <1>3, <1>7, <2>4, <2>5
<1>9. Book'
  BY <1>7, <1>8 DEF Book, Shows
<1>10. fund' \in [Traders -> [DOMAIN Reserves -> Nat] \cup {<<>>}]
  BY <1>2, <1>3
<1> QED BY <1>1, <1>6, <1>9, <1>10 DEF BookInv
LEMMA LeastOfTwo ==
    ASSUME NEW a \in Int, NEW b \in Int
    PROVE  Min({a, b}) \in Int /\ Min({a, b}) <= a
BY DEF Min

\* A fill leaves the book a book: no line of it is a placement or an observation.
LEMMA FillBooks ==
    ASSUME NEW file \in Seq(OrderLines), WellFormed(file), PlacedOnce(file),
           KnownIsConsumed(file), NEW r \in OrderLines, r.kind = "orderFilled",
           r.id \in DOMAIN Resting(file), r.at >= r.id[4]
    PROVE  PlacedOnce(Append(file, r)) /\ KnownIsConsumed(Append(file, r))
<1> DEFINE more == Append(file, r)
           a == FoldOrderStream(file)
           b == FoldOrderStream(more)
<1>1. ToSet(more) = ToSet(file) \cup {r}
  BY AppendedOne
<1>2. PlacedOnce(more)
  BY <1>1 DEF PlacedOnce
<1>3. SUFFICES ASSUME NEW id \in DOMAIN b
               PROVE  KnownFilled(more, id) <= b[id].consumed
  BY <1>2 DEF KnownIsConsumed
<1>4. PlacedLines(more, id) = PlacedLines(file, id)
  BY AboutOneMore DEF PlacedLines
<1>5. LatestObservation(more, id) = LatestObservation(file, id)
  BY LatestOneMore
<1>6. KnownFilled(more, id) = KnownFilled(file, id)
  BY <1>4, <1>5, KnownSame
<1>7. CASE id # r.id
  <2>1. Same(a, b, id)
    BY <1>7, LinesAreLines, FoldOther
  <2>2. id \in DOMAIN a /\ a[id] = b[id]
    BY <1>3, <2>1 DEF Same
  <2>3. KnownFilled(file, id) <= a[id].consumed
    BY <2>2 DEF KnownIsConsumed
  <2> QED BY <1>6, <2>2, <2>3
<1>8. CASE id = r.id
  <2>1. id \in DOMAIN a
    BY <1>8, RestsIf
  <2>2. \A x \in ToSet(file) : x.kind = "orderPlaced" /\ x.id = r.id => x.at <= r.at
    <3>1. \A x \in ToSet(file) : x.kind = "orderPlaced" => x.at = x.id[4]
      BY DEF WellFormed
    <3> QED BY <3>1
  <2>3. r.id \in DOMAIN FoldOrderStream(file)
    BY <1>8, <2>1
  <2>4. FoldOrderStream(file)[r.id].consumed <= FoldOrderStream(more)[r.id].consumed
    BY <2>2, <2>3, LinesAreLines, FilledThen
  <2>5. KnownFilled(file, id) <= a[id].consumed /\ KnownFilled(file, id) \in Nat
        /\ a[id].consumed \in Nat
    <3>1. IsPlaced(file, id) /\ a[id].consumed \in Nat
      BY <2>1, PlacedIs
    <3> QED BY <2>1, <3>1, KnownType DEF KnownIsConsumed
  <2>6. b[id].consumed \in Nat
    <3>1. more \in Seq(OrderLines)
      BY LogType
    <3> QED BY <1>3, <3>1, LinesAreLines, FoldType
  <2>7. a[id].consumed <= b[id].consumed
    BY <1>8, <2>4
  <2> HIDE DEF a, b, more
  <2> QED BY <1>6, <2>5, <2>6, <2>7
<1> QED BY <1>7, <1>8

\* Room left by what is held is left by what is held and the late debits.
LEMMA RoomForMore ==
    ASSUME NEW have \in Nat, NEW late \in Nat, NEW both, both = have + late,
           NEW need \in Int, NEW excess \in Nat, excess > 0 => excess <= have - need
    PROVE  excess > 0 => excess <= both - need
  OBVIOUS

\* A late debit takes from the balance what it adds to the late debits: the two together lose only
\* what the fill freed and what it cost beyond the price.
LEMMA LateBacks ==
    ASSUME NEW held \in Nat, NEW left \in Nat, NEW early \in Nat, NEW late \in Nat,
           NEW cost \in Nat, NEW freed \in Nat, NEW excess \in Nat,
           left = held - (cost + excess), early + (cost - freed) <= late
    PROVE  (held + early) - (freed + excess) <= left + late
  OBVIOUS

\* A fill is covered by what is left of what its reserve held and was debited of it late.
LEMMA FillIsBacked ==
    ASSUME NEW file \in Seq(OrderLines), WellFormed(file),
           NEW held \in [DOMAIN Reserves -> Nat],
           Covered(CommittedRungs(file), Backing(file, held)),
           NEW id \in DOMAIN CommittedRungs(file),
           NEW r \in OrderLines, r.kind = "orderFilled", r.id = id, r.at >= id[4],
           r.quantity <= Resting(file)[id].remaining, NEW excess \in Nat,
           LET reserve == CommittedRungs(file)[id].reserve
           IN  excess > 0 => excess <= held[reserve] - Committed(CommittedRungs(file), reserve),
           NEW left \in [DOMAIN Reserves -> Nat],
           LET reserve == CommittedRungs(file)[id].reserve
               debit == Head(PlacedLines(file, id)).price.value * r.quantity + excess
           IN  left = [held EXCEPT ![reserve] = @ - debit]
    PROVE  Covered(CommittedRungs(Append(file, r)), Backing(Append(file, r), left))
<1> DEFINE more == Append(file, r)
           rungs == CommittedRungs(file)
           reserve == rungs[id].reserve
           cost == Head(PlacedLines(file, id)).price.value * r.quantity
           freed == IF IsTimely(r, file) THEN cost ELSE 0
           backing == Backing(file, held)
           covers == [backing EXCEPT ![reserve] = @ - (freed + excess)]
<1>1. CommittedAre(file, rungs)
  BY CommittedType
<1>2. /\ id \in DOMAIN Resting(file) /\ reserve = Head(PlacedLines(file, id)).reserve
      /\ Head(PlacedLines(file, id)).price.value \in Nat
  BY <1>1 DEF CommittedAre
<1>3. reserve \in DOMAIN Reserves /\ reserve \in FundableReserves
  BY DEF Covered, Unmatched, FundableReserves
<1>4. cost \in Nat /\ freed \in Nat
  <2>1. r.quantity \in Nat
    BY LinesAreLines DEF AreLines
  <2>2. cost \in Nat
    BY <1>2, <2>1, TimesAtMost
  <2> HIDE DEF cost
  <2> QED BY <2>2
<1>5. more \in Seq(OrderLines) /\ WellFormed(more)
  BY <1>2, FillLeaves
<1>6. IsLonger(more, file)
  <2>1. \A i \in DOMAIN file : i \in DOMAIN more /\ more[i] = file[i]
    OBVIOUS
  <2>2. \A y : PlacedLines(more, y) = PlacedLines(file, y)
    BY AboutOneMore DEF PlacedLines
  <2> HIDE DEF more
  <2> QED BY <2>1, <2>2 DEF IsLonger
<1>7. /\ backing \in [DOMAIN Reserves -> Nat] /\ Backing(more, left) \in [DOMAIN Reserves -> Nat]
      /\ \A s \in DOMAIN Reserves :
            /\ DebitedLate(file, s) \in Nat /\ DebitedLate(more, s) \in Nat
            /\ backing[s] = held[s] + DebitedLate(file, s)
            /\ Backing(more, left)[s] = left[s] + DebitedLate(more, s)
  BY <1>5, BackingIs
<1>8. excess > 0 => excess <= held[reserve] - Committed(rungs, reserve)
  OBVIOUS
<1>9. Committed(rungs, reserve) \in Int
  BY <1>1, CommittedIsInt
<1>10. left = [held EXCEPT ![reserve] = @ - (cost + excess)]
  OBVIOUS
<1>11. Covered(CommittedRungs(more), covers)
  <2>1. excess > 0 => excess <= backing[reserve] - Committed(rungs, reserve)
    <3>1. /\ held[reserve] \in Nat /\ DebitedLate(file, reserve) \in Nat
          /\ backing[reserve] = held[reserve] + DebitedLate(file, reserve)
      BY <1>3, <1>7
    <3> HIDE DEF backing, rungs, reserve
    <3> QED BY <1>8, <1>9, <3>1, RoomForMore
  <2>2. freed = 0 \/ (IsTimely(r, file) /\ freed = cost)
    OBVIOUS
  <2>3. Covered(rungs, backing)
    OBVIOUS
  <2> HIDE DEF backing, freed
  <2>4. Covered(CommittedRungs(Append(file, r)),
                [backing EXCEPT ![CommittedRungs(file)[id].reserve] = @ - (freed + excess)])
    BY <1>4, <1>7, <2>1, <2>2, <2>3, FillIsCovered
  <2> QED BY <2>4
<1>12. DebitedLate(file, reserve) + (cost - freed) <= DebitedLate(more, reserve)
  <2>1. CASE IsTimely(r, file)
    <3>1. DebitedLate(file, reserve) <= DebitedLate(more, reserve)
      BY <1>5, <1>6, LateGrows
    <3> HIDE DEF cost, reserve, more
    <3> QED BY <1>3, <1>4, <1>7, <2>1, <3>1
  <2>2. CASE ~ IsTimely(r, file)
    <3>1. IsPlaced(file, id)
      BY <1>2, RestingOnFile
    <3>2. DebitedLate(file, reserve) + cost <= DebitedLate(more, reserve)
      BY <1>2, <1>5, <1>6, <2>2, <3>1, LateFillCounts
    <3> HIDE DEF cost, reserve, more
    <3> QED BY <1>3, <1>4, <1>7, <2>2, <3>2
  <2> QED BY <2>1, <2>2
<1>13. ASSUME NEW s \in DOMAIN Reserves PROVE covers[s] \in Int /\ covers[s] <= Backing(more, left)[s]
  <2>1. /\ held[s] \in Nat /\ left[s] \in Nat
        /\ DebitedLate(file, s) \in Nat /\ DebitedLate(more, s) \in Nat
        /\ backing[s] = held[s] + DebitedLate(file, s)
        /\ Backing(more, left)[s] = left[s] + DebitedLate(more, s)
    BY <1>7
  <2>2. CASE s = reserve
    <3>1. covers[s] = backing[s] - (freed + excess)
      BY <1>7, <2>2
    <3>2. left[s] = held[s] - (cost + excess)
      BY <1>10, <2>2
    <3>3. DebitedLate(file, s) + (cost - freed) <= DebitedLate(more, s)
      BY <1>12, <2>2
    <3>4. (held[s] + DebitedLate(file, s)) - (freed + excess) <= left[s] + DebitedLate(more, s)
      <4> HIDE DEF backing, reserve, cost, freed, more, covers
      <4> QED BY <1>4, <2>1, <3>2, <3>3, LateBacks
    <3>5. (held[s] + DebitedLate(file, s)) - (freed + excess) \in Int
      BY <1>4, <2>1
    <3> HIDE DEF backing, reserve, cost, freed, more, covers
    <3> QED BY <2>1, <3>1, <3>4, <3>5
  <2>3. CASE s # reserve
    <3>1. covers[s] = backing[s]
      BY <1>7, <2>3
    <3>2. left[s] = held[s]
      BY <1>10, <2>3
    <3>3. DebitedLate(file, s) <= DebitedLate(more, s)
      BY <1>5, <1>6, LateGrows
    <3> HIDE DEF backing, reserve, cost, freed, more, covers
    <3> QED BY <2>1, <3>1, <3>2, <3>3
  <2> QED BY <2>2, <2>3
<1>14. /\ covers \in [DOMAIN Reserves -> Int] /\ Backing(more, left) \in [DOMAIN Reserves -> Int]
       /\ \A s \in DOMAIN Reserves : covers[s] <= Backing(more, left)[s]
  <2>1. \A s \in DOMAIN Reserves : covers[s] \in Int /\ covers[s] <= Backing(more, left)[s]
    BY <1>13
  <2>2. covers \in [DOMAIN Reserves -> Int]
    BY <1>7, <2>1
  <2>3. Backing(more, left) \in [DOMAIN Reserves -> Int]
    <3>1. ASSUME NEW s \in DOMAIN Reserves PROVE Backing(more, left)[s] \in Int
      <4>1. /\ left[s] \in Nat /\ DebitedLate(more, s) \in Nat
            /\ Backing(more, left)[s] = left[s] + DebitedLate(more, s)
        BY <1>7
      <4> QED BY <4>1
    <3> HIDE DEF more
    <3> QED BY <1>7, <3>1, Zenon
  <2> QED BY <2>1, <2>2, <2>3
<1>15. Covered(CommittedRungs(more), Backing(more, left))
  <2> HIDE DEF covers, more
  <2> QED BY <1>5, <1>11, <1>14, MoreIsCovered
<1> QED BY <1>15

LEMMA RecordFillBooks ==
    ASSUME BookInv, NEW excess \in {0, 1}, RecordFill(excess)
    PROVE  BookInv'
<1> DEFINE rungs == CommittedRungs(orders)
           resting == Resting(orders)
           most(id) == Min({resting[id].remaining, resting[id].quantity - BookedFills(orders, id)})
           filled(id, quantity, at) ==
                LET debit == Head(PlacedLines(orders, id)).price.value * quantity + excess
                IN  /\ Funding(id, excess)
                    /\ balance' = [balance EXCEPT ![rungs[id].reserve] = @ - debit]
                    /\ orders' = Append(orders, Filled(id, at, quantity))
<1>1. IInv /\ IInv'
  BY RecordFillKeeps DEF BookInv
<1>2. /\ orders \in Seq(OrderLines) /\ WellFormed(orders) /\ balance \in [DOMAIN Reserves -> Nat]
      /\ (\A x \in ToSet(orders) : x.at <= MaxClock) /\ Book
  BY <1>1 DEF IInv, TypeOK, BookInv
<1>3. PICK id \in DOMAIN rungs :
        \E quantity \in 1 .. most(id), at \in resting[id].at .. MaxClock : filled(id, quantity, at)
  BY DEF RecordFill
<1>4. id \in DOMAIN resting
  BY DEF CommittedRungs
<1>5. /\ id \in Ids /\ resting[id].at = id[4] /\ IsPlaced(orders, id)
      /\ resting[id].remaining \in Nat /\ resting[id].quantity \in Nat /\ id[4] \in Nat \ {0}
  <2>1. /\ id \in Ids /\ resting[id].at = id[4] /\ IsPlaced(orders, id)
        /\ resting[id].remaining \in Nat /\ resting[id].quantity \in Nat
    BY <1>2, <1>4, RestingOnFile
  <2> QED BY <2>1 DEF Ids
<1>6. most(id) \in Int /\ most(id) <= resting[id].remaining
  <2> HIDE DEF resting
  <2>1. BookedFills(orders, id) \in Nat
    BY <1>2, LinesAreLines, BookedOfBoth, EmptyLog
  <2>2. resting[id].remaining \in Int /\ resting[id].quantity - BookedFills(orders, id) \in Int
    BY <1>5, <2>1
  <2> QED BY <2>2, LeastOfTwo
<1> HIDE DEF most, filled
<1>7. PICK quantity \in 1 .. most(id), at \in resting[id].at .. MaxClock : filled(id, quantity, at)
  BY <1>3
<1> DEFINE r == Filled(id, at, quantity)
           reserve == rungs[id].reserve
           debit == Head(PlacedLines(orders, id)).price.value * quantity + excess
<1>8. /\ Funding(id, excess)
      /\ balance' = [balance EXCEPT ![reserve] = @ - debit]
      /\ orders' = Append(orders, r)
  BY <1>7 DEF filled
<1>9. quantity \in Nat \ {0} /\ quantity <= resting[id].remaining /\ excess \in Nat
  <2> HIDE DEF resting
  <2> QED BY <1>5, <1>6, <1>7
<1>10. at \in Nat \ {0} /\ at >= id[4]
  BY <1>5, <1>7, OrderImportAssumption
<1>11. /\ r \in OrderLines /\ r.kind = "orderFilled" /\ r.id = id /\ r.at = at
       /\ r.quantity = quantity
  BY <1>5, <1>9, <1>10 DEF Filled, OrderLines
<1> HIDE DEF r
<1>12. rungs[id].reserve = Head(PlacedLines(orders, id)).reserve
  <2>1. CommittedAre(orders, rungs)
    BY <1>2, CommittedType
  <2> QED BY <2>1 DEF CommittedAre
<1>13. excess > 0 => excess <= balance[reserve] - Committed(rungs, reserve)
  BY <1>8, <1>12 DEF Funding, Available
<1>15. /\ done' = NoImport /\ overlapped' = overlapped
       /\ pc' = pc /\ fund' = fund /\ export' = export /\ records' = records /\ fresh' = fresh
  BY DEF RecordFill, locals
<1>16. ASSUME ~ overlapped'
       PROVE  /\ PlacedOnce(orders') /\ KnownIsConsumed(orders') /\ Shows(orders', done'.rows)
              /\ Covered(CommittedRungs(orders'), Backing(orders', balance'))
  <2>1. /\ PlacedOnce(orders) /\ KnownIsConsumed(orders)
        /\ Covered(CommittedRungs(orders), Backing(orders, balance))
    BY <1>2, <1>15, <1>16 DEF Book
  <2>2. PlacedOnce(orders') /\ KnownIsConsumed(orders')
    <3>1. r.id \in DOMAIN Resting(orders) /\ r.at >= r.id[4]
      BY <1>4, <1>10, <1>11
    <3> QED BY <1>2, <1>8, <1>11, <2>1, <3>1, FillBooks
  <2>3. Shows(orders', done'.rows)
    BY <1>15, NoClaims DEF Shows, NoImport
  <2>4. Covered(CommittedRungs(orders'), Backing(orders', balance'))
    <3>1. r.quantity <= Resting(orders)[id].remaining /\ r.at >= id[4]
      BY <1>9, <1>10, <1>11
    <3>2. excess > 0 =>
            excess <= balance[CommittedRungs(orders)[id].reserve] -
                        Committed(CommittedRungs(orders), CommittedRungs(orders)[id].reserve)
      BY <1>13
    <3>3. balance' = [balance EXCEPT ![CommittedRungs(orders)[id].reserve] =
                      @ - (Head(PlacedLines(orders, id)).price.value * r.quantity + excess)]
      BY <1>8, <1>11
    <3>4. balance' \in [DOMAIN Reserves -> Nat]
      BY <1>1 DEF IInv, TypeOK
    <3>5. Covered(CommittedRungs(Append(orders, r)), Backing(Append(orders, r), balance'))
      BY <1>2, <1>9, <1>11, <2>1, <3>1, <3>2, <3>3, <3>4, FillIsBacked
    <3> QED BY <1>8, <3>5
  <2> QED BY <2>2, <2>3, <2>4
<1>17. Book'
  BY <1>15, <1>16 DEF Book, NoImport
<1>18. ASSUME NEW q \in Traders PROVE InHand(q)'
  <2>1. InHand(q)
    BY DEF BookInv
  <2> QED BY <1>15, <2>1 DEF InHand, Asked, Decided, Funded
<1>19. fund' \in [Traders -> [DOMAIN Reserves -> Nat] \cup {<<>>}]
  BY <1>15 DEF BookInv
<1> QED BY <1>1, <1>17, <1>18, <1>19 DEF BookInv

LEMMA NextBooks ==
    ASSUME BookInv, [Next]_vars
    PROVE  BookInv'
<1>1. ASSUME NEW p \in Traders,
             StartImport(p) \/ LoadOrders(p) \/ Answer(p) \/ LoadCancel(p) \/ Write(p) \/ Stop(p)
      PROVE  BookInv'
  BY <1>1, StartImportBooks, LoadOrdersBooks, AnswerBooks, LoadCancelBooks, WriteBooks, StopBooks
<1>2. ASSUME NEW excess \in {0, 1}, RecordFill(excess) PROVE BookInv'
  BY <1>2, RecordFillBooks
<1>3. CASE UNCHANGED vars
  <2>1. IInv'
    BY NextKeeps DEF BookInv
  <2>2. /\ orders' = orders /\ balance' = balance /\ done' = done /\ overlapped' = overlapped
        /\ pc' = pc /\ fund' = fund /\ export' = export /\ records' = records /\ fresh' = fresh
    BY <1>3 DEF vars, locals
  <2>3. Book'
    BY <2>2 DEF BookInv, Book, Shows
  <2>4. ASSUME NEW q \in Traders PROVE InHand(q)'
    <3>1. InHand(q)
      BY DEF BookInv
    <3> QED BY <2>2, <3>1 DEF InHand, Asked, Decided, Funded
  <2> QED BY <2>1, <2>2, <2>3, <2>4 DEF BookInv
<1> QED BY <1>1, <1>2, <1>3 DEF Next

\* However the processes interleave, what the book says of a rung and what a process has in
\* hand are kept: the invariant that the two results below follow from.
THEOREM BookIsKept == Spec => []BookInv
<1>1. Init => BookInv
  BY BookInit
<1>2. BookInv /\ [Next]_vars => BookInv'
  BY NextBooks
<1> QED BY <1>1, <1>2, PTL DEF Spec

\* However imports, cancellations, interviews and fills interleave, and whenever a fill is
\* stamped, what the rungs encumber never exceeds what their reserves hold by more than was
\* debited for fills stamped before an observation on file, but for a line appended on a
\* stale read (available.ts 46-60, record-fill-funding.ts 89-98).
THEOREM CoveredByReserves == Spec => []WithinBalance
<1>1. BookInv => WithinBalance
  BY DEF BookInv, Book, WithinBalance, Backing
<1> QED BY <1>1, BookIsKept, PTL

LEMMA BookIsOnFile ==
    ASSUME BookInv PROVE ImportedIsOnFile
<1> DEFINE claims == Claims[done.rows]
<1>1. SUFFICES ASSUME ~ overlapped
               PROVE  /\ KnownIsConsumed(orders)
                      /\ \A c \in ToSet(claims) : IsPlaced(orders, c.id)
                      /\ DetectChangedClaims(orders, claims) = <<>>
                      /\ done.complete => \A row \in ToSet(done.rows) :
                            row.quantity > row.filled => IsPlaced(orders, SynthesizeOrderId(row))
  BY DEF ImportedIsOnFile
<1>2. /\ done.rows \in Exports \cup {<<>>} /\ (done.complete => Complete(done.rows))
      /\ KnownIsConsumed(orders)
      /\ \A c \in ToSet(claims) : IsPlaced(orders, c.id) /\ Differences(orders, c) = {}
  BY <1>1 DEF BookInv, Book, Shows
<1>3. /\ claims \in Seq(Claimed)
      /\ \A row \in ToSet(done.rows) : RowProblem(row) = "none" =>
            \E c \in ToSet(claims) : c.id = SynthesizeOrderId(row)
  BY <1>2, ClaimsType
<1> HIDE DEF claims
<1>4. DetectChangedClaims(orders, claims) = <<>>
  <2>1. /\ DetectChangedClaims(orders, claims) \in Seq(Claimed)
        /\ ToSet(DetectChangedClaims(orders, claims)) =
             { c \in ToSet(claims) : IsPlaced(orders, c.id) /\ Differences(orders, c) # {} }
    BY <1>3, ChangedAre
  <2>2. ToSet(DetectChangedClaims(orders, claims)) = {}
    BY <1>2, <2>1
  <2> QED BY <2>1, <2>2, NoLines
<1>5. ASSUME done.complete, NEW row \in ToSet(done.rows), row.quantity > row.filled
      PROVE  IsPlaced(orders, SynthesizeOrderId(row))
  <2>1. RowProblem(row) = "none"
    <3>1. row \in Rows
      <4>1. done.rows \in Seq(Rows)
        BY <1>2, OrderImportAssumption, EmptyLog
      <4> QED BY <4>1, MembersType
    <3>2. RowProblem(row) \in {"malformed", "unknown-quote-currency", "unknown-status", "none"}
      BY <1>5, <3>1 DEF RowProblem, Rows
    <3>3. RowProblem(row) # "none" => ~ LeavesRungUnweighed(RowProblem(row))
      BY <1>2, <1>5 DEF Complete, Skips
    <3> QED BY <3>2, <3>3 DEF LeavesRungUnweighed
  <2> QED BY <1>2, <1>3, <2>1
<1> QED BY <1>2, <1>4, <1>5

\* An import that was reported has every claim of its export on file at the figure shown,
\* so the same export is neither refused nor new, and a complete one left no row out that
\* rests; the figure known filled is one the fold consumes (import-orders.ts 474-476).
THEOREM ImportIsOnFile == Spec => []ImportedIsOnFile
<1>1. BookInv => ImportedIsOnFile
  BY BookIsOnFile
<1> QED BY <1>1, BookIsKept, PTL
================================================================================
