--------------------------------- MODULE Plans ---------------------------------
(***************************************************************************)
(* plans.jsonl and reconciliations.jsonl as they are read: the loaders of  *)
(* packages/preferences/src/{plans,reconciliations}.ts and the selectors   *)
(* of packages/engine/src/{plans,reconciliations}.ts.  The first file says *)
(* what the fund means to do with a position; the second what it told the  *)
(* operator each time a fill was held against the first.                   *)
(*                                                                         *)
(* A line is a record of its fields; Unreadable stands for a field that    *)
(* does not read as what it should be.  Dates are integers.                *)
(***************************************************************************)
EXTENDS Integers, SequencesExt

CONSTANT Unreadable  \* a model value

CapitalTiers == {"c1", "c2", "c3"}
PlanKinds == {"dcaLadder", "dcaTime", "noPlan"}
DcaCadences == {"daily", "weekly", "monthly"}

\* A line as it was read: its fields, its number and why it was skipped, or "none".
Read(text, n, reason) ==
    [field \in DOMAIN text \cup {"line", "reason"} |->
        CASE field = "line" -> n [] field = "reason" -> reason [] OTHER -> text[field]]

\* A reading of a file: what the file was, the lines understood and the lines skipped.
Loaded(status, read) ==
    [status |-> status,
     records |-> { l \in read : l.reason = "none" },
     skipped |-> { l \in read : l.reason # "none" }]

IsLaterByDateThenLine(a, b) == IF a.at = b.at THEN a.line > b.line ELSE a.at > b.at

\* The latest line of a position at or before asOf, as a set of one or none.
Winner(loaded, position, asOf) ==
    LET mine == { l \in loaded.records : l.position = position /\ l.at <= asOf }
    IN  { l \in mine : \A m \in mine : m = l \/ IsLaterByDateThenLine(l, m) }
Only(winner) == CHOOSE l \in winner : TRUE

\* The skipped lines of a position that may be in force by asOf.
SkippedOf(loaded, position, asOf) ==
    { l \in loaded.skipped :
        l.position = position /\ (l.at = Unreadable \/ l.at <= asOf) }

Supersedes(skip, winner) ==
    IF skip.at = Unreadable THEN skip.line > winner.line ELSE IsLaterByDateThenLine(skip, winner)
----------------------------------------------------------------------------
(* The plans.                                                              *)

TierOrderProblem(order) ==
    order = <<>> \/ ~ ToSet(order) \subseteq CapitalTiers \/ ~ IsInjective(order)

RungsProblem(rungs) ==
    \/ rungs = <<>>
    \/ \E r \in ToSet(rungs) : r.id = Unreadable \/ r.price <= 0 \/ r.size <= 0
    \/ ~ IsInjective([i \in DOMAIN rungs |-> rungs[i].id])
    \/ ~ IsInjective([i \in DOMAIN rungs |-> rungs[i].price])

\* readPlanLine: why a line is skipped; claimed are the ladders of the lines before it.
PlanLineProblem(text, claimed) ==
    IF text.position = Unreadable \/ text.at = Unreadable \/ text.kind = Unreadable THEN "invalid"
    ELSE IF text.kind \notin PlanKinds THEN "unsupported"
    ELSE CASE text.kind = "dcaLadder" ->
                IF \/ text.id = Unreadable \/ text.id \in claimed
                   \/ TierOrderProblem(text.tiers) \/ RungsProblem(text.rungs)
                THEN "invalid" ELSE "none"
           [] text.kind = "dcaTime" ->
                IF text.cadence = Unreadable THEN "invalid"
                ELSE IF text.cadence \notin DcaCadences THEN "unsupported"
                ELSE IF TierOrderProblem(text.tiers) THEN "invalid" ELSE "none"
           [] OTHER -> "none"

\* A file that is not there is a file with no line; one that cannot be read is neither.
LoadPlans(lines) ==
    LET claimed[n \in 0 .. Len(lines)] ==
            IF n = 0 THEN {}
            ELSE IF /\ lines[n].kind = "dcaLadder"
                    /\ PlanLineProblem(lines[n], claimed[n - 1]) = "none"
                 THEN claimed[n - 1] \cup {lines[n].id} ELSE claimed[n - 1]
    IN  Loaded("loaded", { Read(lines[n], n, PlanLineProblem(lines[n], claimed[n - 1])) :
                                n \in DOMAIN lines })

LoadFailed == Loaded("load-failed", {})

PlanShown(plan, exists) ==
    [status |-> IF plan.kind = "noPlan" THEN "ended" ELSE IF exists THEN "active" ELSE "pending",
     plan |-> plan]

\* Mutant: what could not be read is not an input to the selection.
PickPlanOfTheRead(loaded, position, asOf, existing) ==
    LET winner == Winner(loaded, position, asOf)
    IN  IF loaded.status = "load-failed" THEN [status |-> "unreadable"]
        ELSE IF winner = {} THEN [status |-> "none"]
        ELSE PlanShown(Only(winner), position \in existing)

PickPlanAsOf(loaded, position, asOf, existing) ==
    LET winner == Winner(loaded, position, asOf)
        skipped == SkippedOf(loaded, position, asOf)
    IN  IF loaded.status = "load-failed" THEN [status |-> "unreadable"]
        ELSE IF winner = {} THEN [status |-> IF skipped = {} THEN "none" ELSE "unreadable"]
        ELSE IF \E l \in skipped : Supersedes(l, Only(winner)) THEN [status |-> "unreadable"]
        ELSE PlanShown(Only(winner), position \in existing)

InForce(lookup) == lookup.status \in {"active", "pending"}

Unattributable(loaded) == { l \in loaded.skipped : l.position = Unreadable }

\* listPlansAsOf: a row for every position a line names, if the file could be read.
ListPlansAsOf(loaded, asOf, existing) ==
    LET named == { l.position : l \in loaded.records \cup loaded.skipped }
    IN  [position \in (IF loaded.status = "load-failed" THEN {} ELSE named \ {Unreadable}) |->
            PickPlanAsOf(loaded, position, asOf, existing)]

\* The ladders an order may be placed for; whether the position exists is irrelevant.
InForceLadders(loaded, asOf) ==
    LET rows == ListPlansAsOf(loaded, asOf, {})
    IN  { rows[p].plan : p \in { x \in DOMAIN rows :
                InForce(rows[x]) /\ rows[x].plan.kind = "dcaLadder" } }

MatchRungsByPrice(ladders, price) ==
    UNION { { [plan |-> plan.id, rung |-> r.id] :
                r \in { x \in ToSet(plan.rungs) : x.price = price } } : plan \in ladders }

\* proposeRungByPrice: a price that two ladders declare proposes neither.
ProposeRungByPrice(ladders, price) ==
    LET matches == MatchRungsByPrice(ladders, price)
    IN  IF Cardinality(matches) = 1 THEN matches ELSE {}

UnattendedPlansVerdict(loaded) ==
    IF loaded.status = "load-failed" \/ loaded.skipped # {} THEN 1 ELSE 0
----------------------------------------------------------------------------
(* The trail.                                                              *)

Mismatches == {"tierNotInPlan", "noPlanInForce"}

\* reconcileAgainstPlan: what was shown, and where the fill disagrees with it.
ReconcileAgainstPlan(lookup, tier) ==
    [declared |-> lookup.status,
     mismatches |->
        CASE InForce(lookup) ->
                IF tier \in ToSet(lookup.plan.tiers) THEN {} ELSE {"tierNotInPlan"}
          [] lookup.status \in {"ended", "none"} -> {"noPlanInForce"}
          [] OTHER -> {}]

ClassifyReconciliation(line) ==
    IF line.mismatches # {} THEN "warned"
    ELSE IF line.declared \in {"active", "pending"} THEN "clean" ELSE "indeterminate"

\* readReconciliationLine: a mismatch that a newer version knows skips the line.
ReconciliationLineProblem(text) ==
    IF text.position = Unreadable \/ text.event = Unreadable \/ text.at = Unreadable THEN "invalid"
    ELSE IF ~ text.mismatches \subseteq Mismatches THEN "unsupported" ELSE "none"

\* No line was ever written: the file is not there.
LoadReconciliations(lines) ==
    Loaded(IF lines = <<>> THEN "absent" ELSE "loaded",
           { Read(lines[n], n, ReconciliationLineProblem(lines[n])) : n \in DOMAIN lines })

PickReconciliationAsOf(loaded, position, asOf) ==
    LET winner == Winner(loaded, position, asOf)
    IN  IF loaded.status # "loaded" \/ winner = {} THEN "unknown"
        ELSE IF \E l \in SkippedOf(loaded, position, asOf) : Supersedes(l, Only(winner))
        THEN "unknown"
        ELSE LET class == ClassifyReconciliation(Only(winner))
             IN  IF class = "indeterminate" THEN "unknown" ELSE class

UnattendedReconciliationsVerdict(loaded) ==
    IF loaded.status = "load-failed" \/ loaded.skipped # {} THEN 1 ELSE 0
----------------------------------------------------------------------------
(* pnpm plans (apps/tui/src/plans-report.ts): a row for every position, and *)
(* the verdict of the trail beside those that are active.                  *)

FormatPlansReport(loaded, trail, asOf, existing) ==
    LET rows == ListPlansAsOf(loaded, asOf, existing)
    IN  [rows |-> [p \in DOMAIN rows |->
            [state |-> rows[p].status,
             trail |-> IF rows[p].status = "active"
                       THEN PickReconciliationAsOf(trail, p, asOf) ELSE "none"]],
         exitCode |-> IF UnattendedPlansVerdict(loaded) = 1
                          \/ UnattendedReconciliationsVerdict(trail) = 1 THEN 1 ELSE 0]
=============================================================================
