-------------------------------- MODULE Glance --------------------------------
(***************************************************************************)
(* What the phone says of the fund: the block a push computes from the log *)
(* for each anchor (apps/web/src/push/glance.ts), and the verdict the page *)
(* computes from the blocks and the clock (glance/verdict.ts).  Pure: what *)
(* the fold makes of a day is a constant, and a slot is "rendered" or why  *)
(* it is not.  A percentage is compared by cross multiplication.           *)
(***************************************************************************)
EXTENDS Projection

CONSTANTS Fund,                   \* day |-> [nav, reserve, floor], the last two in percent
          VENUE_DARK_WINDOW_DAYS  \* how far back a block looks for dark venues

NoPolicy == -1

ASSUME GlanceAssumption ==
    /\ \A d \in Days : Fund[d].nav \in Nat \ {0} /\ {Fund[d].reserve, Fund[d].floor} \subseteq Int
    /\ VENUE_DARK_WINDOW_DAYS \in Nat
    /\ \A source \in PRICE_SOURCES : InstrumentsForSource(source) # {}
----------------------------------------------------------------------------
(* The push.                                                               *)

SUPPRESSION_KEYS == {"fundValue", "change", "reserve"}

\* An instrument whose last mark is older than the last day its venue owed one.
MissingMarks(log, asOf) ==
    {i \in Instruments : \A e \in log :
        e.instrument = i /\ e.day <= asOf =>
            e.day < LastExpectedMarkDate(Registry[i].source, asOf)}

\* The denominator of the reserve's percentage is the value of the fund.
SuppressionKeysFor(markAbsence, policyAbsence) ==
    {key \in SUPPRESSION_KEYS : markAbsence \/ (policyAbsence /\ key = "reserve")}

\* Mutant: the window ends two days before the anchor.
SummarizeVenueDarkEarly(log, asOf) ==
    LET walkedBack == asOf - VENUE_DARK_WINDOW_DAYS
        since == IF walkedBack > EraStart THEN walkedBack ELSE EraStart
        dark == VenueDark(log, since .. asOf - 2)
    IN  {d \in dark : \A e \in dark : e[2] = d[2] => e[1] <= d[1]}

\* The last dark day of each venue, in the window that ends the day before the anchor.
SummarizeVenueDark(log, asOf) ==
    LET walkedBack == asOf - VENUE_DARK_WINDOW_DAYS
        since == IF walkedBack > EraStart THEN walkedBack ELSE EraStart
        dark == VenueDark(log, since .. asOf - 1)
    IN  {d \in dark : \A e \in dark : e[2] = d[2] => e[1] <= d[1]}

BuildGlanceBlock(log, asOf) ==
    LET missing == MissingMarks(log, asOf)
    IN  [nav |-> Fund[asOf].nav, reserve |-> Fund[asOf].reserve,
         reserveTargetPct |-> Fund[asOf].floor,
         missing |-> missing,
         suppressed |-> SuppressionKeysFor(missing # {}, Fund[asOf].floor = NoPolicy),
         venueDark |-> SummarizeVenueDark(log, asOf)]
----------------------------------------------------------------------------
(* The page, which has the blocks of the anchors and the clock.            *)

STALE_ANCHOR_DAYS == 2
TRIGGER_PRECEDENCE == <<"freshness", "feedGap", "venueDark", "reserveFloor", "navMove">>

\* Midnight UTC is the mark hour.
CalendarDateOf(now) == (now + 1) \div 2

\* The nearest anchor at or before a day, or none.
ResolveNearestAnchor(anchors, target) ==
    {d \in anchors : d <= target /\ \A e \in anchors : e <= target => e <= d}
ResolveReferenceAnchor(anchors, latest) ==
    ResolveNearestAnchor({d \in anchors : d < latest}, latest - 1)

FundValueSlot(block) ==
    IF "fundValue" \in block.suppressed THEN "unexpected-absence" ELSE "rendered"

ChangeSlot(blocks, latest) ==
    LET reference == ResolveReferenceAnchor(DOMAIN blocks, latest)
    IN  CASE "change" \in blocks[latest].suppressed -> "unexpected-absence"
          [] "change" \notin blocks[latest].suppressed /\ reference = {} -> "no-earlier-anchor"
          [] OTHER -> IF \E d \in reference : "fundValue" \in blocks[d].suppressed
                      THEN "reference-withheld" ELSE "rendered"

ReserveSlot(block) ==
    CASE "fundValue" \in block.suppressed -> "unexpected-absence"
      [] "fundValue" \notin block.suppressed /\ block.reserveTargetPct = NoPolicy -> "no-policy"
      [] OTHER -> IF "reserve" \in block.suppressed THEN "unexpected-absence" ELSE "rendered"

\* A move of one and a half percent or more since the reference.
Moved(from, to) ==
    \/ 200 * (to - from) >= 3 * from
    \/ 200 * (from - to) >= 3 * from

BelowFloor(block) == block.reserveTargetPct # NoPolicy /\ block.reserve < block.reserveTargetPct

\* How many anchors in a row, ending at the latest, showed a reserve below its floor.
BreachDurationDays(blocks, latest) ==
    Cardinality({d \in DOMAIN blocks : d <= latest /\
        \A e \in DOMAIN blocks \cap (d .. latest) :
            BelowFloor(blocks[e]) /\ "reserve" \notin blocks[e].suppressed})

Fires(trigger, blocks, latest, now) ==
    LET block == blocks[latest]
    IN  CASE trigger = "freshness" -> CalendarDateOf(now) - latest >= STALE_ANCHOR_DAYS
          [] trigger = "feedGap" -> block.missing # {}
          [] trigger = "venueDark" -> block.venueDark # {}
          [] trigger = "reserveFloor" -> ReserveSlot(block) = "rendered" /\ BelowFloor(block)
          [] trigger = "navMove" ->
                /\ ChangeSlot(blocks, latest) = "rendered"
                /\ \E d \in ResolveReferenceAnchor(DOMAIN blocks, latest) :
                        Moved(blocks[d].nav, block.nav)

\* The one line is the first trigger that fires, or none when nothing needs you.
ComputeVerdict(blocks, latest, now) ==
    LET fired == {k \in DOMAIN TRIGGER_PRECEDENCE :
                     Fires(TRIGGER_PRECEDENCE[k], blocks, latest, now)}
        first == CHOOSE k \in fired : \A j \in fired : k <= j
    IN  [needsYou |-> fired # {},
         line |-> IF fired = {} THEN "nothing" ELSE TRIGGER_PRECEDENCE[first],
         breachDays |-> BreachDurationDays(blocks, latest),
         slots |-> [fundValue |-> FundValueSlot(blocks[latest]),
                    change    |-> ChangeSlot(blocks, latest),
                    reserve   |-> ReserveSlot(blocks[latest])]]
================================================================================
