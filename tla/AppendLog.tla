------------------------------ MODULE AppendLog ------------------------------
(***************************************************************************)
(* What a sidecar file (preferences, orders, plans, reconciliations.jsonl) *)
(* promises the commands that append to it: the file is a log of whole     *)
(* lines, a batch lands in one indivisible step or not at all, nothing     *)
(* already in the log is ever touched, and only a batch that landed is     *)
(* reported as written.  SidecarAppend is the protocol of                  *)
(* packages/preferences/src/sidecar-io.ts that implements it.              *)
(***************************************************************************)
EXTENDS Naturals, Sequences, SequencesExt

CONSTANTS Writers,    \* the processes that append: orders:import, orders:fill, ...
          MaxAppends, \* bound: the appends each of them makes
          MaxLines,   \* bound: the lines one append carries
          Hand        \* who wrote a line the operator typed into the file

VARIABLES log,        \* the lines of the file, in order
          acked       \* the batches whose append resolved

vars == <<log, acked>>

\* A batch is <<w, k, n>>: the n lines of the k-th append of writer w.
Batches == Writers \X (1 .. MaxAppends) \X (1 .. MaxLines)
BatchLines(b) == [i \in 1 .. b[3] |-> <<b[1], b[2], i>>]

Init ==
    /\ log = <<>>
    /\ acked = {}

\* A whole batch, none of whose lines was there before, lands at the end.
Publish(b) ==
    /\ \A l \in ToSet(log) : <<l[1], l[2]>> # <<b[1], b[2]>>
    /\ log' = log \o BatchLines(b)
    /\ UNCHANGED acked

\* The caller learns that its batch landed.
Acknowledge(b) ==
    /\ ToSet(BatchLines(b)) \subseteq ToSet(log)
    /\ acked' = acked \cup {b}
    /\ UNCHANGED log

\* The operator adds a line of their own at the end.
HandEdit ==
    /\ \E k \in 1 .. Len(log) + 1 : log' = Append(log, <<Hand, k, 1>>)
    /\ UNCHANGED acked

Next ==
    \/ \E b \in Batches : Publish(b) \/ Acknowledge(b)
    \/ HandEdit

Spec == Init /\ [][Next]_vars
=============================================================================
