----------------------------- MODULE OrderRecords -----------------------------
(***************************************************************************)
(* A line of orders.jsonl as it is written and as it is read back          *)
(* (packages/engine/src/orders/records.ts, packages/preferences/src/       *)
(* orders.ts).  A line is a function from the keys it carries to their     *)
(* values; a figure or a text that was not given has no key.  The symbol   *)
(* and the currency of a line other than a placement are those of its id.  *)
(* Decimals are whole numbers, a stamp is a second of the clock and 0 is   *)
(* one no clock shows.                                                     *)
(***************************************************************************)
EXTENDS Orders

NoPick == [plan |-> "none", rung |-> "none"]

\* The values of a record that stand for a key the line does not carry.
ABSENT == [observed |-> 0, descriptor |-> "none", pick |-> NoPick, quantity |-> 0]

\* The fields of a record of each kind.
OrderRecord ==
    [orderPlaced |-> {"id", "at", "kind", "currency", "side", "price", "quantity",
                      "descriptor", "observed", "reserve", "pick"},
     orderCancelled    |-> {"id", "at", "kind", "quantity"},
     orderFilled       |-> {"id", "at", "kind", "quantity"},
     orderFillObserved |-> {"id", "at", "kind", "quantity"}]

KNOWN_KINDS == DOMAIN OrderRecord
CURRENCIES == {"USD", "MXN"}

\* What a record may say: an id is made of a market, a side, a price and a second, and a
\* price has been read, and is spelled one way.
Price == [value : Nat \ {0}, spelling : {"canonical"}]
Ids == STRING \X {"buy", "sell"} \X Price \X (Nat \ {0})
Picks == [plan : STRING, rung : STRING] \cup {NoPick}

\* Whether the pick was taken with all that were proposed is history, and not on file.
PlacedRecords ==
    [kind : {"orderPlaced"}, id : Ids, at : Nat \ {0}, quantity : Nat \ {0}, observed : Nat,
     price : Price, side : {"buy", "sell"}, currency : CURRENCIES, descriptor : STRING,
     reserve : STRING, pick : Picks, proposed : BOOLEAN]

OrderLines ==
    PlacedRecords
        \cup [kind : {"orderCancelled"}, id : Ids, at : Nat \ {0}, quantity : {0}]
        \cup [kind : {"orderFilled", "orderFillObserved"}, id : Ids, at : Nat \ {0},
              quantity : Nat \ {0}]

\* Mutant: the key of the declared join is forgotten.
KEY_ORDERWithoutPick(kind) ==
    IF kind = "orderCancelled" THEN {"id", "at", "kind"} ELSE OrderRecord[kind] \ {"pick"}

\* The keys a line of a kind is written with: a cancellation has no figure.
KEY_ORDER(kind) ==
    IF kind = "orderCancelled" THEN {"id", "at", "kind"} ELSE OrderRecord[kind]

SerializeOrderRecord(record) ==
    Restrict(record, { key \in KEY_ORDER(record.kind) :
                          key \in DOMAIN ABSENT => record[key] # ABSENT[key] })

IsObservedAtStamp(at) == at \in Nat \ {0}
IsFinitePositive(figure) == figure \in Nat \ {0}

\* The one way to make an observation, and the gate its line passes when it is read.
BuildOrderFillObserved(id, at, quantity) ==
    IF IsObservedAtStamp(at) /\ IsFinitePositive(quantity)
    THEN {FillObserved(id, at, quantity)} ELSE {}

\* Whether a line that says its kind says what a record of that kind must.
StatesItsKind(line) ==
    CASE line.kind = "orderPlaced" ->
            /\ {"side", "price", "quantity", "reserve", "currency"} \subseteq DOMAIN line
            /\ line.side \in {"buy", "sell"} /\ line.currency \in CURRENCIES
            /\ IsFinitePositive(line.price.value) /\ IsFinitePositive(line.quantity)
            /\ "observed" \in DOMAIN line => line.observed \in Nat
      [] line.kind = "orderCancelled" -> TRUE
      [] line.kind = "orderFilled" ->
            "quantity" \in DOMAIN line /\ IsFinitePositive(line.quantity)
      [] line.kind = "orderFillObserved" ->
            /\ "quantity" \in DOMAIN line
            /\ BuildOrderFillObserved(line.id, line.at, line.quantity) # {}

ParseProblem(line) ==
    CASE ~ ({"id", "at", "kind"} \subseteq DOMAIN line /\ IsObservedAtStamp(line.at)) -> "malformed"
      [] {"id", "at", "kind"} \subseteq DOMAIN line /\ IsObservedAtStamp(line.at) ->
            IF line.kind \notin KNOWN_KINDS THEN "unknown-kind"
            ELSE IF StatesItsKind(line) THEN "none" ELSE "malformed"

ParseOrderRecord(line) ==
    [field \in OrderRecord[line.kind] |->
        IF field \in DOMAIN line THEN line[field] ELSE ABSENT[field]]

\* loadOrders leaves out what is not a record, and appendOrders writes what is one: a
\* record reads back if its own line gives it again.
ReadsBack(record) ==
    LET line == SerializeOrderRecord(record)
    IN  /\ ParseProblem(line) = "none"
        /\ \A field \in OrderRecord[record.kind] : ParseOrderRecord(line)[field] = record[field]
================================================================================
