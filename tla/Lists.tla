--------------------------------- MODULE Lists ---------------------------------
(***************************************************************************)
(* What the selectors over the lines of a file share: a loop that keeps    *)
(* some of them, and a loop that adds up a figure of each.  Both are       *)
(* recursive functions, so that they can be reasoned about.                *)
(***************************************************************************)
EXTENDS Integers, Sequences

\* The lines of a list that stand at the given places, in their order.
Kept(list, places) ==
    LET kept[n \in 0 .. Len(list)] ==
            IF n = 0 THEN <<>>
            ELSE IF n \in places THEN Append(kept[n - 1], list[n]) ELSE kept[n - 1]
    IN  kept[Len(list)]

\* The lines of a list that pass a test.
Where(list, Test(_)) == Kept(list, { i \in DOMAIN list : Test(list[i]) })

\* The sum of a list of amounts.
Total(amounts) ==
    LET total[n \in 0 .. Len(amounts)] ==
            IF n = 0 THEN 0 ELSE total[n - 1] + amounts[n]
    IN  total[Len(amounts)]
================================================================================
