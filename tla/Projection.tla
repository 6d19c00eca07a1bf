------------------------------- MODULE Projection -------------------------------
(***************************************************************************)
(* The table the dashboard reads (apps/web/src/push, projection): one row  *)
(* per anchor date, each a fold of the log as of its date.  A row is       *)
(* current if its fold is the one the present log gives, and stale as soon *)
(* as the log gains an entry of its date or an earlier one.  A push folds  *)
(* first and upserts afterwards, and the last to upsert wins.              *)
(***************************************************************************)
EXTENDS GapReport

CONSTANTS LastDay  \* bound: days are 0 .. LastDay

ASSUME ProjectionAssumption == LastDay \in Nat \ {0}

Days == 0 .. LastDay
RowStates == {"absent", "stale", "current"}
NoPush == [day |-> NoDay, current |-> FALSE]
Pushes == [day : Days, current : BOOLEAN] \cup {NoPush}

\* What an entry does to the rows it changes, and to a push that has folded.
Touched(day, entries) == \E e \in entries : e.day <= day
AgeRows(rows, entries) ==
    [d \in Days |-> IF rows[d] = "current" /\ Touched(d, entries) THEN "stale" ELSE rows[d]]
AgePush(push, entries) ==
    IF push # NoPush /\ Touched(push.day, entries) THEN [push EXCEPT !.current = FALSE] ELSE push

\* The dates a backfill folds: every date of the log since the genesis.
EnumerateAnchors(log) == Anchors(log)

\* The date a push of today's book is keyed to: the last of the log.
AsOf(log) == CHOOSE d \in Anchors(log) : \A e \in Anchors(log) : e <= d

FoldAnchor(day) == [day |-> day, current |-> TRUE]

\* Mutant: a row that is there is kept.
UpsertSnapshotOnce(rows, push) ==
    [rows EXCEPT ![push.day] = IF @ = "absent"
                               THEN (IF push.current THEN "current" ELSE "stale") ELSE @]

UpsertSnapshot(rows, push) ==
    [rows EXCEPT ![push.day] = IF push.current THEN "current" ELSE "stale"]
================================================================================
