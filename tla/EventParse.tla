----------------------------- MODULE EventParse -----------------------------
(***************************************************************************)
(* packages/engine/src/events/parse.ts: what one line must be to be an     *)
(* event at all, whatever the book holds.  An event states the fields its  *)
(* verb needs, with positive amounts, prices and quantities; a field the   *)
(* line lacks is outside the domain of the record.                         *)
(***************************************************************************)
EXTENDS EventFold

EVENT_SCHEMA_VERSION == 2

\* What a position may not be opened without.
REQUIRED_DECISION_FIELDS ==
    {"entryThesis", "invalidationCondition", "riskBudget", "plannedHoldingHorizon", "strategy"}

\* A line written by a newer build is refused, not misread; one without a version is old.
CheckSchemaVersion(e) ==
    "schemaVersion" \in DOMAIN e => e.schemaVersion \in 1 .. EVENT_SCHEMA_VERSION
----------------------------------------------------------------------------
StatesAmount(e, field) == field \in DOMAIN e /\ IsPositiveNumber(e[field])
StatesTier(e) == "tier" \in DOMAIN e /\ e.tier \in Tiers

\* The funding of a buy, or the settlement of a sale: a reserve and an amount.
StatesCashLeg(e) == States(e, {"reserve"}) /\ StatesAmount(e, "amount")

\* Deposit and Withdraw
ParseReserveMove(e) == StatesCashLeg(e) /\ StatesTier(e)

ParseTransfer(e) ==
    /\ States(e, {"from", "reserve"})
    /\ e.from # e.reserve
    /\ StatesAmount(e, "amount")
    /\ StatesTier(e)

StatesCapitalBase(e) ==
    /\ States(e, {"portfolio", "tempo", "account"})
    /\ {"mode", "currency"} \subseteq DOMAIN e
    /\ e.mode \in ExecutionModes
    /\ e.currency \in Currencies

ParsePositionOpened(e) ==
    /\ States(e, {"position", "instrument"}) /\ StatesCapitalBase(e)
    /\ {"direction", "lots", "decision"} \subseteq DOMAIN e
    /\ e.direction \in Directions
    /\ ValidLots(e.lots, TRUE)
    /\ REQUIRED_DECISION_FIELDS \subseteq e.decision
    /\ StatesCashLeg(e)

ParsePositionClosed(e) == States(e, {"position"}) /\ StatesCashLeg(e)

ParseRemoval(removal) == removal.tier \in Tiers /\ IsPositiveNumber(removal.quantity)

ParsePositionTrimmed(e) ==
    /\ States(e, {"position"})
    /\ "removals" \in DOMAIN e /\ e.removals # <<>>
    /\ \A removal \in ToSet(e.removals) : ParseRemoval(removal)
    /\ StatesCashLeg(e)

ParsePositionAddedTo(e) ==
    /\ States(e, {"position"})
    /\ "lot" \in DOMAIN e /\ ValidLot(e.lot, TRUE)
    /\ StatesCashLeg(e)

ParseInvalidationMarked(e) ==
    /\ States(e, {"position"})
    /\ StatesAmount(e, "level")
    /\ "direction" \in DOMAIN e /\ e.direction \in {"below", "above"}

ParsePriceMarked(e) ==
    /\ States(e, {"instrument"})
    /\ StatesAmount(e, "price")
    /\ "usdMxn" \in DOMAIN e => IsPositiveNumber(e.usdMxn)

\* A reserve is born empty: a line that states an opening balance is refused.
ParseReserveOpened(e) ==
    /\ States(e, {"reserve"}) /\ StatesCapitalBase(e)
    /\ {"amount", "lots"} \cap DOMAIN e = {}

\* parseEvent
ParsesEvent(e) ==
    /\ CheckSchemaVersion(e)
    /\ IsDate(e.asOf)
    /\ CASE e.type = "PositionOpened"           -> ParsePositionOpened(e)
         [] e.type = "PositionClosed"           -> ParsePositionClosed(e)
         [] e.type = "PositionTrimmed"          -> ParsePositionTrimmed(e)
         [] e.type = "PositionAddedTo"          -> ParsePositionAddedTo(e)
         [] e.type = "PriceMarked"              -> ParsePriceMarked(e)
         [] e.type \in {"Deposit", "Withdraw"}  -> ParseReserveMove(e)
         [] e.type = "Transfer"                 -> ParseTransfer(e)
         [] e.type = "InvalidationMarked"       -> ParseInvalidationMarked(e)
         [] e.type = "ReserveOpened"            -> ParseReserveOpened(e)
         [] OTHER                               -> FALSE
=============================================================================
