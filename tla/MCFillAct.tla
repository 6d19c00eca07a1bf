------------------------------- MODULE MCFillAct -------------------------------
(***************************************************************************)
(* Instances of FillAct for TLC: a ladder of one or two rungs.             *)
(***************************************************************************)
EXTENDS FillAct, TLC

CONSTANTS r1, r2, p1, p2

OneRung == r1 :> 2
TwoRungs == (r1 :> 2) @@ (r2 :> 1)
================================================================================
