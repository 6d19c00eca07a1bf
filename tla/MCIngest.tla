------------------------------- MODULE MCIngest -------------------------------
(***************************************************************************)
(* Instances of Ingest for TLC: two feeds, each with one mark, and records *)
(* an operator types.                                                      *)
(***************************************************************************)
EXTENDS Ingest, TLC

CONSTANTS f1, f2, m1, m2, h1

MarksOf(f) == IF f = f1 THEN << m1 >> ELSE << m2, m1 >>

\* One process at a time, with failures, and processes that overlap.
BothWays == (FALSE :> 3) @@ (TRUE :> 1)
Overlapping == TRUE :> 0

Clash == { {h1, m2} }
==============================================================================
