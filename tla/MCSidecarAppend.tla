--------------------------- MODULE MCSidecarAppend ---------------------------
(***************************************************************************)
(* SidecarAppend for TLC.  Three processes are the fewest with which one   *)
(* can die in the lock while two others race for it after it is cleared.   *)
(* Writers are not declared symmetric, since AppendsEnd is a liveness      *)
(* property and TLC's symmetry reduction is unsound for those.             *)
(***************************************************************************)
EXTENDS SidecarAppend

\* An append of one line and one of several: the fewest that show a torn batch.
TwoLines == 2
=============================================================================
