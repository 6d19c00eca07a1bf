------------------------- MODULE SidecarAppendProofs -------------------------
(***************************************************************************)
(* What SidecarAppend promises for any number of processes, appends and    *)
(* lines: mutual exclusion, no lost batch, a file that only grows, and the *)
(* append-only log it implements.                                          *)
(*                                                                         *)
(* Mutual exclusion alone says nothing about the file.  What carries the   *)
(* other two is Fresh: between its read and its rename a process holds the *)
(* lock, so the file is still the one it read and its image is the file    *)
(* plus its own batch.                                                     *)
(***************************************************************************)
EXTENDS SidecarAppend, LogLemmas

\* A live process inside the lock finds the lock file on disk.
LockHeld == \A w \in Writers : pc[w] \in Critical => lock

\* The image a process is about to publish is the file as it is now, plus its batch.
Fresh ==
    \A w \in Writers : pc[w] \in {"writing", "renaming"} =>
        next[w] = NextImage(file, batch[w])

\* Once renamed and not failed, a batch is in the file.
Landed ==
    \A w \in Writers : pc[w] \in {"cleaning", "unlocking"} /\ result[w] = "acked" =>
        ToSet(BatchLines(batch[w])) \subseteq ToSet(Lines)

\* Whose a temp file is: of an append that was over when it stayed, or of the one
\* its process is in, between the write and the rm, or after an rm that failed.
TempsOwned ==
    \A b \in temps :
        \/ b \in Ended("died") \cup Ended("uncleaned")
        \/ /\ batch[b[1]] = b
           /\ \/ pc[b[1]] \in {"renaming", "cleaning"}
              \/ pc[b[1]] = "unlocking" /\ result[b[1]] = "uncleaned"

\* The inductive invariant.
IInv ==
    TypeOK /\ LockHeld /\ MutualExclusion /\ Fresh /\ Landed /\ NoLostBatch /\ TempsOwned

----------------------------------------------------------------------------
\* The lines of a batch are lines of its writer.
LEMMA BatchLinesType ==
    ASSUME NEW b \in Batch
    PROVE  BatchLines(b) \in Seq(Line)
BY DEF Batch, BatchLines, Line

\* The image an append publishes is the file, terminator repaired, plus its
\* batch, whatever state the last line was in: nothing is run into anything.
LEMMA NextImageAppends ==
    ASSUME NEW img \in Image \cup {NoFile}, NEW b \in Batch
    PROVE  /\ NextImage(img, b) \in Image
           /\ NextImage(img, b).lines =
                (IF img = NoFile THEN <<>> ELSE img.lines) \o BatchLines(b)
<1>1. BatchLines(b) \in Seq(Line)
  BY BatchLinesType
<1>2. CASE img = NoFile
  BY <1>1, <1>2 DEF NextImage, Concatenate, Image
<1>3. CASE img # NoFile
  <2>1. img.lines \in Seq(Line) /\ img.ended \in BOOLEAN
    BY <1>3 DEF Image
  <2>2. Concatenate(img, NeedsNewline(img), BatchLines(b)) = img.lines \o BatchLines(b)
    BY <1>3, <2>1 DEF Concatenate, NeedsNewline
  <2>3. img.lines \o BatchLines(b) \in Seq(Line)
    BY <1>1, <2>1
  <2> QED BY <1>3, <2>2, <2>3 DEF NextImage, Image
<1> QED BY <1>2, <1>3

----------------------------------------------------------------------------
USE ConstantsAssumption, NoFileAssumption

\* However an append ends, its locals and the history keep their types.
LEMMA EndType ==
    ASSUME TypeOK, NEW w \in Writers, pc[w] \in Running, NEW place \in {"idle", "dead"},
           NEW r \in {"acked", "refused", "failed", "uncleaned", "died"}, End(w, place, r)
    PROVE  /\ pc' \in [Writers -> Running \cup {"idle", "dead"}]
           /\ \A v \in Writers : pc'[v] \in Running => pc[v] \in Running
           /\ next' \in [Writers -> Image \cup {NoFile}]
           /\ tries' \in [Writers -> Nat]
           /\ result' \in [Writers -> {"acked", "failed", "uncleaned"}]
           /\ outcome' \subseteq Batch \X {"acked", "refused", "failed", "uncleaned", "died"}
<1> USE DEF TypeOK, End, Goto
<1>1. /\ pc' \in [Writers -> Running \cup {"idle", "dead"}]
      /\ \A v \in Writers : pc'[v] \in Running => pc[v] \in Running
  OBVIOUS
<1>2. next' \in [Writers -> Image \cup {NoFile}]
  OBVIOUS
<1>3. tries' \in [Writers -> Nat]
  OBVIOUS
<1>4. result' \in [Writers -> {"acked", "failed", "uncleaned"}]
  OBVIOUS
<1>5. batch[w] \in Batch
  OBVIOUS
<1>6. outcome' \subseteq Batch \X {"acked", "refused", "failed", "uncleaned", "died"}
  BY <1>5
<1> QED BY <1>1, <1>2, <1>3, <1>4, <1>6

\* Every action keeps every variable in its type.
LEMMA TypeStep ==
    TypeOK /\ [Next]_vars => TypeOK'
<1> SUFFICES ASSUME TypeOK, [Next]_vars PROVE TypeOK'
  OBVIOUS
<1> USE DEF TypeOK, Running, Critical, Goto
<1>1. ASSUME NEW w \in Writers, NEW n \in 1 .. MaxLines, Begin(w, n) PROVE TypeOK'
  BY <1>1 DEF Begin, Batch
<1>2. ASSUME NEW w \in Writers, TakeLock(w) PROVE TypeOK'
  BY <1>2 DEF TakeLock
<1>3. ASSUME NEW w \in Writers, Retry(w) PROVE TypeOK'
  BY <1>3 DEF Retry
<1>4. ASSUME NEW w \in Writers, Refuse(w) PROVE TypeOK'
  BY <1>4, EndType DEF Refuse
<1>5. ASSUME NEW w \in Writers, Read(w) PROVE TypeOK'
  <2>1. NextImage(file, batch[w]) \in Image
    BY <1>5, NextImageAppends DEF Read
  <2> QED BY <1>5, <2>1 DEF Read
<1>6. ASSUME NEW w \in Writers, WriteTemp(w) PROVE TypeOK'
  BY <1>6 DEF WriteTemp
<1>7. ASSUME NEW w \in Writers, Rename(w) PROVE TypeOK'
  BY <1>7 DEF Rename
<1>8. ASSUME NEW w \in Writers, RemoveTemp(w) PROVE TypeOK'
  BY <1>8 DEF RemoveTemp
<1>9. ASSUME NEW w \in Writers, Unlock(w) PROVE TypeOK'
  BY <1>9, EndType DEF Unlock
<1>10. ASSUME NEW w \in Writers, LockFails(w) PROVE TypeOK'
  BY <1>10, EndType DEF LockFails
<1>11. ASSUME NEW w \in Writers, BodyFails(w) PROVE TypeOK'
  <2>1. pc[w] \in Running /\ batch[w] \in Batch
    BY <1>11 DEF BodyFails
  <2>2. temps' \subseteq Batch
    BY <1>11, <2>1 DEF BodyFails
  <2>3. /\ pc' \in [Writers -> Running \cup {"idle", "dead"}]
        /\ \A v \in Writers : pc'[v] \in Running => pc[v] \in Running
    BY <1>11, <2>1 DEF BodyFails
  <2>4. result' \in [Writers -> {"acked", "failed", "uncleaned"}]
    BY <1>11 DEF BodyFails
  <2> QED BY <1>11, <2>2, <2>3, <2>4 DEF BodyFails
<1>12. ASSUME NEW w \in Writers, CleanupFails(w) PROVE TypeOK'
  <2>1. CASE pc[w] = "cleaning"
    BY <1>12, <2>1 DEF CleanupFails
  <2>2. CASE pc[w] = "unlocking"
    BY <1>12, <2>2, EndType DEF CleanupFails
  <2> QED BY <1>12, <2>1, <2>2 DEF CleanupFails
<1>13. ASSUME NEW w \in Writers, Crash(w) PROVE TypeOK'
  BY <1>13, EndType DEF Crash
<1>14. ASSUME NEW w \in Writers, Restart(w) PROVE TypeOK'
  BY <1>14 DEF Restart
<1>15. CASE ClearLock
  BY <1>15 DEF ClearLock, locals
<1>16. CASE HandEdit
  <2>1. Append(Lines, <<Hand, edits + 1, 1>>) \in Seq(Line)
    BY <1>16 DEF HandEdit, Lines, Line, Image
  <2> QED BY <1>16, <2>1 DEF HandEdit, locals, Image
<1>17. CASE UNCHANGED vars
  BY <1>17 DEF vars
<1> QED
  BY <1>1, <1>2, <1>3, <1>4, <1>5, <1>6, <1>7, <1>8, <1>9, <1>10, <1>11, <1>12,
     <1>13, <1>14, <1>15, <1>16, <1>17 DEF Next, Advance

\* Only the process that finds no lock file enters, and only the one that is
\* inside removes it; the operator clears it when nobody is inside.
LEMMA LockStep ==
    TypeOK /\ LockHeld /\ MutualExclusion /\ [Next]_vars => LockHeld' /\ MutualExclusion'
<1> SUFFICES ASSUME TypeOK, LockHeld, MutualExclusion, [Next]_vars
             PROVE  LockHeld' /\ MutualExclusion'
  OBVIOUS
<1> USE DEF TypeOK, LockHeld, MutualExclusion, Running, Critical
<1>1. ASSUME NEW w \in Writers, TakeLock(w) PROVE LockHeld' /\ MutualExclusion'
  BY <1>1 DEF TakeLock, Goto
<1>2. ASSUME NEW w \in Writers, pc[w] \in Critical, pc' = [pc EXCEPT ![w] = "idle"]
      PROVE  LockHeld' /\ MutualExclusion'
  BY <1>2
<1>3. ASSUME NEW w \in Writers, NEW place \in Running \cup {"idle", "dead"},
             pc' = [pc EXCEPT ![w] = place], lock' = lock,
             place \in Critical => pc[w] \in Critical
      PROVE  LockHeld' /\ MutualExclusion'
  BY <1>3
<1>4. CASE ClearLock
  BY <1>4 DEF ClearLock, Quiet, locals
<1>5. CASE UNCHANGED <<pc, lock>>
  BY <1>5
<1> HIDE DEF LockHeld, MutualExclusion
<1>6. ASSUME NEW w \in Writers, NEW n \in 1 .. MaxLines, Begin(w, n)
      PROVE  LockHeld' /\ MutualExclusion'
  BY <1>3, <1>6 DEF Begin, Goto
<1>7. ASSUME NEW w \in Writers, Advance(w) PROVE LockHeld' /\ MutualExclusion'
  <2>1. CASE Retry(w)
    BY <1>5, <2>1 DEF Retry
  <2>2. CASE Refuse(w)
    BY <1>3, <2>2 DEF Refuse, End, Goto
  <2>3. CASE Read(w)
    BY <1>3, <2>3 DEF Read, Goto
  <2>4. CASE WriteTemp(w)
    BY <1>3, <2>4 DEF WriteTemp, Goto
  <2>5. CASE Rename(w)
    BY <1>3, <2>5 DEF Rename, Goto
  <2>6. CASE RemoveTemp(w)
    BY <1>3, <2>6 DEF RemoveTemp, Goto
  <2>7. CASE Unlock(w)
    BY <1>2, <2>7 DEF Unlock, End, Goto
  <2> QED BY <1>1, <1>7, <2>1, <2>2, <2>3, <2>4, <2>5, <2>6, <2>7 DEF Advance
<1>8. ASSUME NEW w \in Writers, LockFails(w) PROVE LockHeld' /\ MutualExclusion'
  BY <1>3, <1>8 DEF LockFails, End, Goto
<1>9. ASSUME NEW w \in Writers, BodyFails(w) PROVE LockHeld' /\ MutualExclusion'
  BY <1>3, <1>9 DEF BodyFails, Goto
<1>10. ASSUME NEW w \in Writers, CleanupFails(w) PROVE LockHeld' /\ MutualExclusion'
  BY <1>3, <1>10 DEF CleanupFails, End, Goto
<1>11. ASSUME NEW w \in Writers, Crash(w) PROVE LockHeld' /\ MutualExclusion'
  BY <1>3, <1>11 DEF Crash, End, Goto
<1>12. ASSUME NEW w \in Writers, Restart(w) PROVE LockHeld' /\ MutualExclusion'
  BY <1>3, <1>12 DEF Restart, Goto
<1>13. CASE HandEdit
  BY <1>5, <1>13 DEF HandEdit, locals
<1>14. CASE UNCHANGED vars
  BY <1>5, <1>14 DEF vars
<1> QED
  BY <1>4, <1>6, <1>7, <1>8, <1>9, <1>10, <1>11, <1>12, <1>13, <1>14 DEF Next

\* Adding b at the end of the file: what the file step of every action comes to.
Grows == IsPrefix(Lines, Lines') /\ ToSet(Lines) \subseteq ToSet(Lines')

\* The file only changes under the lock, or by hand when nobody is inside, and
\* then only by what is added at its end.
LEMMA FileStep ==
    TypeOK /\ Fresh /\ [Next]_vars => Grows
<1> SUFFICES ASSUME TypeOK, Fresh, [Next]_vars PROVE Grows
  OBVIOUS
<1>1. Lines \in Seq(Line)
  BY DEF Lines, TypeOK, Image
<1>2. ASSUME UNCHANGED file PROVE Grows
  <2>1. Lines' = Lines
    BY <1>2 DEF Lines
  <2> QED BY <1>1, <2>1 DEF Grows, IsPrefix
<1>3. ASSUME NEW w \in Writers, Rename(w) PROVE Grows
  <2>1. file' = NextImage(file, batch[w]) /\ batch[w] \in Batch
    BY <1>3 DEF Rename, Fresh, TypeOK, Running, Critical
  <2>2. file' \in Image /\ file'.lines = Lines \o BatchLines(batch[w])
    BY <2>1, NextImageAppends DEF Lines, TypeOK
  <2>3. Lines' = Lines \o BatchLines(batch[w])
    BY <2>2 DEF Lines
  <2>4. BatchLines(batch[w]) \in Seq(Line)
    BY <2>1, BatchLinesType
  <2> QED BY <1>1, <2>3, <2>4, AppendedKeeps DEF Grows
<1>4. CASE HandEdit
  <2>1. Lines' = Append(Lines, <<Hand, edits + 1, 1>>)
    <3>1. PICK ended \in BOOLEAN :
            file' = [lines |-> Append(Lines, <<Hand, edits + 1, 1>>), ended |-> ended]
      BY <1>4 DEF HandEdit
    <3>2. <<Hand, edits + 1, 1>> \in Line
      BY DEF Line, TypeOK
    <3>3. file' \in Image
      BY <1>1, <3>1, <3>2 DEF Image
    <3> QED BY <3>1, <3>3 DEF Lines
  <2>2. Append(Lines, <<Hand, edits + 1, 1>>) = Lines \o << <<Hand, edits + 1, 1>> >>
    BY <1>1
  <2>3. << <<Hand, edits + 1, 1>> >> \in Seq(Line)
    BY DEF Line, TypeOK
  <2> QED BY <1>1, <2>1, <2>2, <2>3, AppendedKeeps DEF Grows
<1>5. ASSUME NEW w \in Writers, Advance(w) PROVE Grows
  BY <1>2, <1>3, <1>5 DEF Advance, TakeLock, Retry, Refuse, Read, WriteTemp, RemoveTemp, Unlock
<1>6. ASSUME NEW w \in Writers, NEW n \in 1 .. MaxLines, Begin(w, n) PROVE Grows
  BY <1>2, <1>6 DEF Begin
<1>7. ASSUME NEW w \in Writers, LockFails(w) \/ BodyFails(w) \/ CleanupFails(w)
                                \/ Crash(w) \/ Restart(w)
      PROVE Grows
  BY <1>2, <1>7 DEF LockFails, BodyFails, CleanupFails, Crash, Restart
<1>8. CASE ClearLock
  BY <1>2, <1>8 DEF ClearLock
<1>9. CASE UNCHANGED vars
  BY <1>2, <1>9 DEF vars
<1> QED BY <1>4, <1>5, <1>6, <1>7, <1>8, <1>9 DEF Next

\* Everybody outside is left alone by a step of one process inside the lock: the
\* image that process publishes is made from the file as it still is.
LEMMA FreshStep ==
    TypeOK /\ MutualExclusion /\ Fresh /\ [Next]_vars => Fresh'
<1> SUFFICES ASSUME TypeOK, MutualExclusion, Fresh, [Next]_vars PROVE Fresh'
  OBVIOUS
<1> DEFINE Between == {"writing", "renaming"}
<1>1. ASSUME UNCHANGED file,
             \A u \in Writers : pc'[u] \in Between =>
                pc[u] \in Between /\ next'[u] = next[u] /\ batch'[u] = batch[u]
      PROVE  Fresh'
  BY <1>1 DEF Fresh
<1>2. ASSUME \A u \in Writers : pc'[u] \notin Between PROVE Fresh'
  BY <1>2 DEF Fresh
<1> USE DEF TypeOK, Goto, Running, Critical
<1>3. ASSUME NEW w \in Writers, NEW n \in 1 .. MaxLines, Begin(w, n) PROVE Fresh'
  BY <1>1, <1>3 DEF Begin
<1>4. ASSUME NEW w \in Writers, TakeLock(w) PROVE Fresh'
  BY <1>1, <1>4 DEF TakeLock
<1>5. ASSUME NEW w \in Writers, Retry(w) PROVE Fresh'
  BY <1>1, <1>5 DEF Retry
<1>6. ASSUME NEW w \in Writers, NEW place \in {"idle", "dead"}, NEW r,
             End(w, place, r), UNCHANGED <<file, batch>>
      PROVE  Fresh'
  BY <1>1, <1>6 DEF End
<1>7. ASSUME NEW w \in Writers, Read(w) PROVE Fresh'
  <2> SUFFICES ASSUME NEW u \in Writers, pc'[u] \in Between
               PROVE  next'[u] = NextImage(file', batch'[u])
    BY DEF Fresh
  <2>1. u = w
    BY <1>7 DEF Read, MutualExclusion
  <2> QED BY <1>7, <2>1 DEF Read
<1>8. ASSUME NEW w \in Writers, WriteTemp(w) PROVE Fresh'
  BY <1>1, <1>8 DEF WriteTemp
<1>9. ASSUME NEW w \in Writers, Rename(w) PROVE Fresh'
  BY <1>2, <1>9 DEF Rename, MutualExclusion
<1>10. ASSUME NEW w \in Writers, RemoveTemp(w) PROVE Fresh'
  BY <1>1, <1>10 DEF RemoveTemp
<1>11. ASSUME NEW w \in Writers, BodyFails(w) PROVE Fresh'
  BY <1>1, <1>11 DEF BodyFails
<1>12. ASSUME NEW w \in Writers, CleanupFails(w) PROVE Fresh'
  BY <1>1, <1>6, <1>12 DEF CleanupFails
<1>13. ASSUME NEW w \in Writers, Restart(w) PROVE Fresh'
  BY <1>1, <1>13 DEF Restart
<1>14. CASE ClearLock
  BY <1>1, <1>14 DEF ClearLock, locals
<1>15. CASE HandEdit
  BY <1>2, <1>15 DEF HandEdit, Quiet, locals
<1>16. CASE UNCHANGED vars
  BY <1>1, <1>16 DEF vars
<1> QED
  BY <1>3, <1>4, <1>5, <1>6, <1>7, <1>8, <1>9, <1>10, <1>11, <1>12, <1>13, <1>14,
     <1>15, <1>16 DEF Next, Advance, Refuse, Unlock, LockFails, Crash

\* What the history set means.
LEMMA EndedMembers == \A b, r : b \in Ended(r) <=> <<b, r>> \in outcome
BY DEF Ended

\* A batch is reported written only after its rename, and nobody takes it away.
LEMMA LandedStep ==
    TypeOK /\ Fresh /\ Landed /\ NoLostBatch /\ [Next]_vars => Landed' /\ NoLostBatch'
<1> SUFFICES ASSUME TypeOK, Fresh, Landed, NoLostBatch, [Next]_vars
             PROVE  Landed' /\ NoLostBatch'
  OBVIOUS
<1> DEFINE After == {"cleaning", "unlocking"}
           In(b) == ToSet(BatchLines(b)) \subseteq ToSet(Lines)
<1>1. Grows
  BY FileStep
<1>2. \A b : In(b) => ToSet(BatchLines(b)) \subseteq ToSet(Lines')
  BY <1>1 DEF Grows
<1>3. ASSUME \A u \in Writers : pc'[u] \in After /\ result'[u] = "acked" =>
                pc[u] \in After /\ result[u] = "acked" /\ batch'[u] = batch[u]
      PROVE  Landed'
  <2> SUFFICES ASSUME NEW u \in Writers, pc'[u] \in After, result'[u] = "acked"
               PROVE  ToSet(BatchLines(batch'[u])) \subseteq ToSet(Lines')
    BY DEF Landed, BatchLines
  <2> QED BY <1>2, <1>3 DEF Landed
<1>4. ASSUME NEW b, In(b), \A c : <<c, "acked">> \in outcome' => <<c, "acked">> \in outcome \/ c = b
      PROVE  NoLostBatch'
  <2> SUFFICES ASSUME NEW c, <<c, "acked">> \in outcome'
               PROVE  ToSet(BatchLines(c)) \subseteq ToSet(Lines')
    BY DEF NoLostBatch, Ended, BatchLines
  <2>1. In(c)
    BY <1>4, EndedMembers DEF NoLostBatch
  <2> QED BY <1>2, <2>1
<1>5. ASSUME \A c : <<c, "acked">> \in outcome' => <<c, "acked">> \in outcome
      PROVE  NoLostBatch'
  <2> SUFFICES ASSUME NEW c, <<c, "acked">> \in outcome'
               PROVE  ToSet(BatchLines(c)) \subseteq ToSet(Lines')
    BY DEF NoLostBatch, Ended, BatchLines
  <2>1. In(c)
    BY <1>5, EndedMembers DEF NoLostBatch
  <2> QED BY <1>2, <2>1
<1> HIDE DEF In
<1> USE DEF TypeOK, Goto, Running, Critical
<1>6. ASSUME NEW w \in Writers, NEW place \in {"idle", "dead"}, NEW r, r # "acked",
             End(w, place, r), UNCHANGED batch
      PROVE  Landed' /\ NoLostBatch'
  BY <1>3, <1>5, <1>6 DEF End
<1>7. ASSUME NEW w \in Writers, Unlock(w) PROVE Landed' /\ NoLostBatch'
  <2>1. Landed'
    BY <1>3, <1>7 DEF Unlock, End
  <2>2. CASE result[w] = "acked"
    <3>1. In(batch[w])
      BY <1>7, <2>2 DEF Unlock, Landed, In
    <3> QED BY <1>4, <1>7, <2>1, <3>1 DEF Unlock, End
  <2>3. CASE result[w] # "acked"
    BY <1>6, <1>7, <2>3 DEF Unlock
  <2> QED BY <2>2, <2>3
<1>8. ASSUME NEW w \in Writers, Rename(w) PROVE Landed' /\ NoLostBatch'
  <2>1. file' = NextImage(file, batch[w]) /\ batch[w] \in Batch
    BY <1>8 DEF Rename, Fresh
  <2>2. file' \in Image /\ file'.lines = Lines \o BatchLines(batch[w])
    BY <2>1, NextImageAppends DEF Lines
  <2>3. Lines' = Lines \o BatchLines(batch[w])
    BY <2>2, NoFileAssumption DEF Lines
  <2>4. ToSet(BatchLines(batch[w])) \subseteq ToSet(Lines')
    <3>1. Lines \in Seq(Line)
      BY DEF Lines, Image
    <3>2. BatchLines(batch[w]) \in Seq(Line)
      BY <2>1, BatchLinesType
    <3> HIDE DEF TypeOK
    <3> QED BY <2>3, <3>1, <3>2, AppendedKeeps
  <2>5. Landed'
    <3> SUFFICES ASSUME NEW u \in Writers, pc'[u] \in After, result'[u] = "acked"
                 PROVE  ToSet(BatchLines(batch'[u])) \subseteq ToSet(Lines')
      BY DEF Landed, BatchLines
    <3>1. CASE u = w
      BY <1>8, <2>4, <3>1 DEF Rename
    <3>2. CASE u # w
      BY <1>2, <1>8, <3>2 DEF Rename, Landed, In
    <3> QED BY <3>1, <3>2
  <2>6. NoLostBatch'
    BY <1>5, <1>8 DEF Rename
  <2> QED BY <2>5, <2>6
<1>9. ASSUME NEW w \in Writers, BodyFails(w) PROVE Landed' /\ NoLostBatch'
  BY <1>3, <1>5, <1>9 DEF BodyFails
<1>10. ASSUME NEW w \in Writers, CleanupFails(w) PROVE Landed' /\ NoLostBatch'
  BY <1>3, <1>5, <1>6, <1>10 DEF CleanupFails
<1>11. ASSUME NEW w \in Writers, NEW n \in 1 .. MaxLines, Begin(w, n)
       PROVE Landed' /\ NoLostBatch'
  BY <1>3, <1>5, <1>11 DEF Begin
<1>12. ASSUME NEW w \in Writers, TakeLock(w) \/ Retry(w) \/ Read(w) \/ WriteTemp(w)
                                 \/ RemoveTemp(w) \/ Restart(w)
       PROVE Landed' /\ NoLostBatch'
  BY <1>3, <1>5, <1>12 DEF TakeLock, Retry, Read, WriteTemp, RemoveTemp, Restart
<1>13. CASE ClearLock \/ HandEdit \/ UNCHANGED vars
  BY <1>3, <1>5, <1>13 DEF ClearLock, HandEdit, locals, vars
<1> QED
  BY <1>6, <1>7, <1>8, <1>9, <1>10, <1>11, <1>12, <1>13
  DEF Next, Advance, Refuse, LockFails, Crash

\* A temp file stays behind only where the process died or an rm failed.
LEMMA TempsStep ==
    TypeOK /\ TempsOwned /\ [Next]_vars => TempsOwned'
<1> SUFFICES ASSUME TypeOK, TempsOwned, [Next]_vars PROVE TempsOwned'
  OBVIOUS
<1> DEFINE Over(b) == <<b, "died">> \in outcome \/ <<b, "uncleaned">> \in outcome
           Owned(b) == /\ batch[b[1]] = b
                       /\ \/ pc[b[1]] \in {"renaming", "cleaning"}
                          \/ pc[b[1]] = "unlocking" /\ result[b[1]] = "uncleaned"
<1>1. \A b \in temps : b[1] \in Writers /\ (Over(b) \/ Owned(b))
  BY EndedMembers DEF TempsOwned, TypeOK, Batch
<1>2. ASSUME \A b \in temps' : Over(b)' \/ Owned(b)' PROVE TempsOwned'
  <2> SUFFICES ASSUME NEW b \in temps', ~ Owned(b)'
               PROVE  b \in Ended("died")' \cup Ended("uncleaned")'
    BY DEF TempsOwned
  <2> QED BY <1>2 DEF Ended
<1> USE DEF TypeOK, Goto, Running, Critical
<1>3. ASSUME temps' \subseteq temps, outcome \subseteq outcome',
             \A b \in temps' : ~ Over(b) /\ Owned(b) => Over(b)' \/ Owned(b)'
      PROVE  TempsOwned'
  BY <1>1, <1>2, <1>3
<1>4. ASSUME NEW w \in Writers, NEW n \in 1 .. MaxLines, Begin(w, n) PROVE TempsOwned'
  BY <1>3, <1>4 DEF Begin
<1>5. ASSUME NEW w \in Writers,
             \/ TakeLock(w) \/ Retry(w) \/ Read(w) \/ Restart(w)
             \/ RemoveTemp(w) \/ Rename(w)
      PROVE  TempsOwned'
  <2>1. CASE RemoveTemp(w)
    BY <1>3, <2>1 DEF RemoveTemp
  <2>2. CASE Rename(w)
    BY <1>3, <2>2 DEF Rename
  <2>3. CASE TakeLock(w)
    BY <1>3, <2>3 DEF TakeLock
  <2>4. CASE Retry(w)
    BY <1>3, <2>4 DEF Retry
  <2>5. CASE Read(w)
    BY <1>3, <2>5 DEF Read
  <2>6. CASE Restart(w)
    BY <1>3, <2>6 DEF Restart
  <2> QED BY <1>5, <2>1, <2>2, <2>3, <2>4, <2>5, <2>6
<1>6. ASSUME NEW w \in Writers, NEW place \in {"idle", "dead"}, NEW r, End(w, place, r),
             UNCHANGED <<temps, batch>>,
             Owned(batch[w]) => r \in {"died", "uncleaned"}
      PROVE  TempsOwned'
  <2> SUFFICES ASSUME NEW b \in temps', ~ Over(b), Owned(b) PROVE Over(b)' \/ Owned(b)'
    BY <1>3, <1>6 DEF End
  <2>1. CASE b[1] = w
    BY <1>6, <2>1 DEF End
  <2>2. CASE b[1] # w
    BY <1>1, <1>6, <2>2 DEF End
  <2> QED BY <2>1, <2>2
<1>7. ASSUME NEW w \in Writers, WriteTemp(w) \/ BodyFails(w) PROVE TempsOwned'
  <2> SUFFICES ASSUME NEW b \in temps' PROVE Over(b)' \/ Owned(b)'
    BY <1>2
  <2>1. CASE b = batch[w] /\ pc[w] # "reading"
    BY <1>7, <2>1 DEF WriteTemp, BodyFails
  <2>2. CASE b \in temps
    BY <1>1, <1>7, <2>2 DEF WriteTemp, BodyFails
  <2> QED BY <1>7, <2>1, <2>2 DEF WriteTemp, BodyFails
<1>8. ASSUME NEW w \in Writers, Refuse(w) \/ LockFails(w) PROVE TempsOwned'
  BY <1>6, <1>8 DEF Refuse, LockFails
<1>9. ASSUME NEW w \in Writers, Unlock(w) PROVE TempsOwned'
  <2>1. End(w, "idle", result[w]) /\ UNCHANGED <<temps, batch>>
    BY <1>9 DEF Unlock
  <2>2. Owned(batch[w]) => result[w] \in {"died", "uncleaned"}
    <3>1. pc[w] = "unlocking" /\ batch[w][1] = w
      BY <1>9 DEF Unlock
    <3> QED BY <3>1
  <2> HIDE DEF Owned, TypeOK
  <2> QED BY <1>6, <2>1, <2>2
<1>10. ASSUME NEW w \in Writers, CleanupFails(w) PROVE TempsOwned'
  <2>1. CASE pc[w] = "cleaning"
    <3> SUFFICES ASSUME NEW b \in temps', Owned(b) PROVE Owned(b)'
      BY <1>3, <1>10, <2>1 DEF CleanupFails
    <3>1. b[1] \in Writers
      BY <1>1, <1>10 DEF CleanupFails
    <3>2. CASE b[1] = w
      BY <1>10, <2>1, <3>2 DEF CleanupFails
    <3>3. CASE b[1] # w
      BY <1>10, <2>1, <3>1, <3>3 DEF CleanupFails
    <3> QED BY <3>2, <3>3
  <2>2. CASE pc[w] = "unlocking"
    BY <1>6, <1>10, <2>2 DEF CleanupFails
  <2> QED BY <1>10, <2>1, <2>2 DEF CleanupFails
<1>11. ASSUME NEW w \in Writers, Crash(w) PROVE TempsOwned'
  BY <1>6, <1>11 DEF Crash
<1>12. CASE ClearLock \/ HandEdit \/ UNCHANGED vars
  BY <1>3, <1>12 DEF ClearLock, HandEdit, locals, vars
<1> QED
  BY <1>4, <1>5, <1>7, <1>8, <1>9, <1>10, <1>11, <1>12 DEF Next, Advance
----------------------------------------------------------------------------
\* The invariant holds at the start and is kept by every step.
THEOREM Inductive == Spec => []IInv
<1>1. Init => IInv
  <2> SUFFICES ASSUME Init PROVE IInv
    OBVIOUS
  <2>1. TypeOK
    <3>1. batch \in [Writers -> Writers \X Nat \X (1 .. MaxLines)]
      BY DEF Init
    <3>2. \A w \in Writers : batch[w][1] = w /\ pc[w] \notin Running
      BY DEF Init, Running, Critical
    <3>3. outcome \subseteq Batch \X {"acked", "refused", "failed", "uncleaned", "died"}
      BY DEF Init
    <3> QED BY <3>1, <3>2, <3>3 DEF Init, TypeOK
  <2>2. LockHeld /\ MutualExclusion /\ Fresh /\ Landed
    BY DEF Init, LockHeld, MutualExclusion, Fresh, Landed, Critical
  <2>3. NoLostBatch /\ TempsOwned
    BY DEF Init, NoLostBatch, Ended, TempsOwned
  <2> QED BY <2>1, <2>2, <2>3 DEF IInv
<1>2. IInv /\ [Next]_vars => IInv'
  BY TypeStep, LockStep, FreshStep, LandedStep, TempsStep DEF IInv
<1> QED BY <1>1, <1>2, PTL DEF Spec

\* Type correctness, for any number of processes, appends and lines.
THEOREM TypeCorrect == Spec => []TypeOK
BY Inductive, PTL DEF IInv

\* withAppendLock excludes: whoever dies holding the lock, and whoever clears it
\* by hand once nobody runs, two live processes are never inside together.
THEOREM Exclusion == Spec => []MutualExclusion
BY Inductive, PTL DEF IInv

\* An append that resolved stays in the file for good.
THEOREM NothingLost == Spec => []NoLostBatch
BY Inductive, PTL DEF IInv

\* A temp file outlives its append only if the process died or an rm failed: no
\* failed write or rename abandons one.
THEOREM NoneLitters == Spec => []NoLitter
<1>1. IInv => NoLitter
  BY DEF IInv, TempsOwned, NoLitter, Critical
<1> QED BY <1>1, Inductive, PTL

\* No step of any process rewrites or drops a line that was in the file.
THEOREM OnlyAppends == Spec => AppendOnly
<1>1. IInv /\ [Next]_vars => [IsPrefix(Lines, Lines')]_vars
  BY FileStep DEF IInv, Grows
<1> QED BY <1>1, Inductive, PTL DEF Spec, AppendOnly
----------------------------------------------------------------------------
(***************************************************************************)
(* SidecarAppend implements AppendLog.  A rename publishes a batch, an     *)
(* append that resolves acknowledges one, a hand edit is a hand edit, and  *)
(* every other step leaves the log and the acknowledgements as they are.   *)
(*                                                                         *)
(* A batch is published once because the lines of a process are numbered   *)
(* by its appends, and none of the append in hand is in the file before    *)
(* its rename: Numbered.                                                   *)
(***************************************************************************)

\* The appends of a process are numbered as they begin; a line of the latest is in the
\* file only if its process is past the rename.
Numbered ==
    /\ \A w \in Writers : batch[w][2] \in 0 .. MaxAppends
    /\ \A l \in ToSet(Lines) : l[1] \in Writers =>
        /\ l[2] <= batch[l[1]][2]
        /\ l[2] = batch[l[1]][2] =>
            pc[l[1]] \notin {"locking", "reading", "writing", "renaming"}

\* The lines typed by hand are in the file.
EditsKept == edits <= Len(Lines)

RInv == IInv /\ Numbered /\ EditsKept
----------------------------------------------------------------------------
\* The lines of a batch, as members of the file.
LEMMA BatchMembers ==
    ASSUME NEW b \in Batch, NEW l \in ToSet(BatchLines(b))
    PROVE  l[1] = b[1] /\ l[2] = b[2]
<1>1. BatchLines(b) = [i \in 1 .. b[3] |-> <<b[1], b[2], i>>]
  BY DEF BatchLines
<1>2. PICK i \in 1 .. b[3] : l = <<b[1], b[2], i>>
  BY <1>1 DEF ToSet
<1> QED BY <1>2

\* A rename publishes exactly the batch in hand.
LEMMA RenameAppends ==
    ASSUME TypeOK, Fresh, NEW w \in Writers, Rename(w)
    PROVE  /\ batch[w] \in Batch
           /\ BatchLines(batch[w]) \in Seq(Line)
           /\ Lines \in Seq(Line)
           /\ Lines' = Lines \o BatchLines(batch[w])
<1>1. file' = NextImage(file, batch[w]) /\ batch[w] \in Batch
  BY DEF Rename, Fresh, TypeOK, Running, Critical
<1>2. file' \in Image /\ file'.lines = Lines \o BatchLines(batch[w])
  BY <1>1, NextImageAppends DEF Lines, TypeOK
<1>3. Lines' = Lines \o BatchLines(batch[w])
  BY <1>2 DEF Lines
<1>4. Lines \in Seq(Line)
  BY DEF Lines, TypeOK, Image
<1> QED BY <1>1, <1>3, <1>4, BatchLinesType

\* The operator adds one line of their own.
LEMMA HandEditAppends ==
    ASSUME TypeOK, HandEdit
    PROVE  /\ Lines \in Seq(Line)
           /\ Lines' = Append(Lines, <<Hand, edits + 1, 1>>)
           /\ ToSet(Lines') = ToSet(Lines) \cup { <<Hand, edits + 1, 1>> }
           /\ Len(Lines') = Len(Lines) + 1
<1>1. Lines \in Seq(Line)
  BY DEF Lines, TypeOK, Image
<1>2. <<Hand, edits + 1, 1>> \in Line
  BY DEF Line, TypeOK
<1>3. PICK ended \in BOOLEAN :
        file' = [lines |-> Append(Lines, <<Hand, edits + 1, 1>>), ended |-> ended]
  BY DEF HandEdit
<1>4. file' \in Image
  BY <1>1, <1>2, <1>3 DEF Image
<1>5. Lines' = Append(Lines, <<Hand, edits + 1, 1>>)
  BY <1>3, <1>4 DEF Lines
<1>6. /\ ToSet(Lines') = ToSet(Lines) \cup { <<Hand, edits + 1, 1>> }
      /\ Len(Lines') = Len(Lines) + 1
  BY <1>1, <1>2, <1>5, AppendedOne
<1> QED BY <1>1, <1>5, <1>6

\* No append takes a number twice, and what is typed by hand stays.
LEMMA NumberedStep ==
    TypeOK /\ Fresh /\ Numbered /\ EditsKept /\ [Next]_vars => Numbered' /\ EditsKept'
<1> SUFFICES ASSUME TypeOK, Fresh, Numbered, EditsKept, [Next]_vars
             PROVE  Numbered' /\ EditsKept'
  OBVIOUS
<1> DEFINE Before == {"locking", "reading", "writing", "renaming"}
<1>1. \A l \in ToSet(Lines) : l \in Line
  BY DEF Lines, TypeOK, Image, ToSet
<1> USE DEF TypeOK, Goto, Running, Critical, Line
<1>2. ASSUME UNCHANGED <<file, edits, batch>>,
             \A w \in Writers : pc'[w] \in Before => pc[w] \in Before
      PROVE  Numbered' /\ EditsKept'
  BY <1>1, <1>2 DEF Numbered, EditsKept, Lines
<1>3. ASSUME NEW w \in Writers, NEW n \in 1 .. MaxLines, Begin(w, n)
      PROVE  Numbered' /\ EditsKept'
  <2>1. /\ batch'[w] = <<w, batch[w][2] + 1, n>>
        /\ \A v \in Writers : v # w => batch'[v] = batch[v] /\ pc'[v] = pc[v]
        /\ Lines' = Lines /\ edits' = edits
    BY <1>3 DEF Begin, Lines
  <2>2. \A v \in Writers : batch'[v][2] \in 0 .. MaxAppends
    BY <1>3, <2>1 DEF Begin, Numbered
  <2>3. ASSUME NEW l \in ToSet(Lines'), l[1] \in Writers
        PROVE  /\ l[2] <= batch'[l[1]][2]
               /\ l[2] = batch'[l[1]][2] => pc'[l[1]] \notin Before
    <3>1. CASE l[1] = w
      BY <1>1, <2>1, <2>3, <3>1 DEF Numbered
    <3>2. CASE l[1] # w
      BY <1>1, <2>1, <2>3, <3>2 DEF Numbered
    <3> QED BY <3>1, <3>2
  <2> QED BY <2>1, <2>2, <2>3 DEF Numbered, EditsKept
<1>4. ASSUME NEW w \in Writers, Rename(w) PROVE Numbered' /\ EditsKept'
  <2>1. /\ ToSet(Lines') = ToSet(Lines) \cup ToSet(BatchLines(batch[w]))
        /\ Len(Lines') = Len(Lines) + Len(BatchLines(batch[w]))
    <3>1. /\ Lines \in Seq(Line) /\ BatchLines(batch[w]) \in Seq(Line)
          /\ Lines' = Lines \o BatchLines(batch[w])
      BY <1>4, RenameAppends
    <3> HIDE DEF TypeOK, Line
    <3> QED BY <3>1, AppendedOnly
  <2>2. /\ pc'[w] = "cleaning" /\ \A v \in Writers : v # w => pc'[v] = pc[v]
        /\ batch' = batch /\ edits' = edits
    BY <1>4 DEF Rename
  <2>3. ASSUME NEW l \in ToSet(Lines'), l[1] \in Writers
        PROVE  /\ l[2] <= batch[l[1]][2]
               /\ l[2] = batch[l[1]][2] => pc'[l[1]] \notin Before
    <3>1. CASE l \in ToSet(Lines)
      BY <2>2, <2>3, <3>1 DEF Numbered
    <3>2. CASE l \in ToSet(BatchLines(batch[w]))
      <4>1. batch[w] \in Batch /\ batch[w][1] = w /\ batch[w][2] \in Nat
        BY <1>4, RenameAppends
      <4>2. l[1] = w /\ l[2] = batch[w][2]
        BY <3>2, <4>1, BatchMembers
      <4> QED BY <2>2, <4>1, <4>2
    <3> QED BY <2>1, <3>1, <3>2
  <2>4. Len(Lines) \in Nat /\ Len(BatchLines(batch[w])) \in Nat
    BY <1>4, RenameAppends
  <2>5. EditsKept'
    BY <2>1, <2>2, <2>4 DEF EditsKept
  <2> QED BY <2>2, <2>3, <2>5 DEF Numbered
<1>5. CASE HandEdit
  <2>1. edits' = edits + 1 /\ UNCHANGED <<batch, pc>>
    BY <1>5 DEF HandEdit, locals
  <2>2. EditsKept'
    BY <1>5, <2>1, HandEditAppends DEF EditsKept
  <2>3. \A l \in ToSet(Lines') : l[1] \in Writers => l \in ToSet(Lines)
    BY <1>5, HandEditAppends
  <2> QED BY <2>1, <2>2, <2>3 DEF Numbered
<1>6. ASSUME NEW w \in Writers, Advance(w), ~ Rename(w) PROVE Numbered' /\ EditsKept'
  BY <1>2, <1>6
  DEF Advance, TakeLock, Retry, Refuse, Read, WriteTemp, RemoveTemp, Unlock, End
<1>7. ASSUME NEW w \in Writers, LockFails(w) \/ BodyFails(w) \/ CleanupFails(w)
                                \/ Crash(w) \/ Restart(w)
      PROVE Numbered' /\ EditsKept'
  BY <1>2, <1>7 DEF LockFails, BodyFails, CleanupFails, Crash, Restart, End
<1>8. CASE ClearLock \/ UNCHANGED vars
  BY <1>2, <1>8 DEF ClearLock, locals, vars
<1> QED BY <1>3, <1>4, <1>5, <1>6, <1>7, <1>8 DEF Next

\* The invariant the refinement rests on.
THEOREM RefinementInvariant == Spec => []RInv
<1>1. Init => Numbered /\ EditsKept
  BY DEF Init, Numbered, EditsKept, Lines, ToSet
<1>2. IInv /\ Numbered /\ EditsKept /\ [Next]_vars => Numbered' /\ EditsKept'
  BY NumberedStep DEF IInv
<1> QED BY <1>1, <1>2, Inductive, PTL DEF Spec, RInv
----------------------------------------------------------------------------
Acked == Ended("acked")

\* A batch within the bound is one of the abstract log's.
LEMMA SameBatches ==
    \A b \in Batch : b[2] \in 0 .. MaxAppends => b \in Abstract!Batches
BY DEF Abstract!Batches, Batch

\* An ending that is no success acknowledges nothing; a success acknowledges its batch.
LEMMA EndAcks ==
    ASSUME NEW w \in Writers, NEW place, NEW r, End(w, place, r)
    PROVE  /\ r # "acked" => Acked' = Acked
           /\ r = "acked" => Acked' = Acked \cup {batch[w]}
<1>1. outcome' = outcome \cup {<<batch[w], r>>}
  BY DEF End
<1>2. \A b : b \in Acked' <=> <<b, "acked">> \in outcome'
  BY DEF Acked, Ended
<1>3. \A b : b \in Acked <=> <<b, "acked">> \in outcome
  BY DEF Acked, Ended
<1> QED BY <1>1, <1>2, <1>3

\* Every step of the protocol is a step of the log or leaves it alone.
LEMMA StepRefines ==
    RInv /\ [Next]_vars => [Abstract!Next]_(Abstract!vars)
<1> SUFFICES ASSUME RInv, [Next]_vars
             PROVE  Abstract!Next \/ UNCHANGED <<Lines, Acked>>
  BY DEF Abstract!vars, Acked
<1>1. TypeOK /\ Fresh /\ Landed /\ Numbered /\ EditsKept
  BY DEF RInv, IInv
<1>2. ASSUME UNCHANGED <<file, outcome>> PROVE UNCHANGED <<Lines, Acked>>
  BY <1>2 DEF Lines, Acked, Ended
<1>3. ASSUME NEW w \in Writers, NEW place, NEW r, End(w, place, r), r # "acked",
             UNCHANGED file
      PROVE  UNCHANGED <<Lines, Acked>>
  BY <1>3, EndAcks DEF Lines
<1>4. ASSUME NEW w \in Writers, Rename(w) PROVE Abstract!Next
  <2>1. Lines' = Lines \o BatchLines(batch[w]) /\ batch[w] \in Batch
    BY <1>1, <1>4, RenameAppends
  <2>2. batch[w] \in Abstract!Batches
    BY <1>1, <2>1, SameBatches DEF Numbered
  <2>3. \A l \in ToSet(Lines) : <<l[1], l[2]>> # <<batch[w][1], batch[w][2]>>
    BY <1>1, <1>4 DEF Numbered, TypeOK, Rename
  <2>4. Acked' = Acked
    BY <1>4 DEF Rename, Acked, Ended
  <2>5. Abstract!Publish(batch[w])
    BY <2>1, <2>3, <2>4
    DEF Abstract!Publish, Abstract!BatchLines, BatchLines, Abstract!ToSet, ToSet, Acked
  <2> QED BY <2>2, <2>5 DEF Abstract!Next
<1>5. ASSUME NEW w \in Writers, Unlock(w), result[w] = "acked" PROVE Abstract!Next
  <2>1. batch[w] \in Batch /\ pc[w] = "unlocking"
    BY <1>1, <1>5 DEF Unlock, TypeOK, Running, Critical
  <2>2. batch[w] \in Abstract!Batches
    BY <1>1, <2>1, SameBatches DEF Numbered
  <2>3. ToSet(BatchLines(batch[w])) \subseteq ToSet(Lines)
    BY <1>1, <1>5, <2>1 DEF Landed
  <2>4. Acked' = Acked \cup {batch[w]} /\ Lines' = Lines
    BY <1>5, EndAcks DEF Unlock, Lines
  <2>5. Abstract!Acknowledge(batch[w])
    BY <2>3, <2>4
    DEF Abstract!Acknowledge, Abstract!BatchLines, BatchLines, Abstract!ToSet, ToSet, Acked
  <2> QED BY <2>2, <2>5 DEF Abstract!Next
<1>6. CASE HandEdit
  <2>1. Lines' = Append(Lines, <<Hand, edits + 1, 1>>) /\ Lines \in Seq(Line)
    BY <1>1, <1>6, HandEditAppends
  <2>2. edits + 1 \in 1 .. Len(Lines) + 1
    BY <1>1, <2>1 DEF EditsKept, TypeOK
  <2>3. Acked' = Acked
    BY <1>6 DEF HandEdit, Acked, Ended
  <2>4. Abstract!HandEdit
    BY <2>1, <2>2, <2>3 DEF Abstract!HandEdit, Acked
  <2> QED BY <2>4 DEF Abstract!Next
<1>7. ASSUME NEW w \in Writers, Advance(w) PROVE Abstract!Next \/ UNCHANGED <<Lines, Acked>>
  <2>1. CASE Unlock(w)
    BY <1>3, <1>5, <2>1 DEF Unlock
  <2>2. CASE Refuse(w)
    BY <1>3, <2>2 DEF Refuse
  <2> QED BY <1>2, <1>4, <1>7, <2>1, <2>2
       DEF Advance, TakeLock, Retry, Read, WriteTemp, RemoveTemp
<1>8. ASSUME NEW w \in Writers, NEW n \in 1 .. MaxLines, Begin(w, n)
      PROVE  UNCHANGED <<Lines, Acked>>
  BY <1>2, <1>8 DEF Begin
<1>9. ASSUME NEW w \in Writers, LockFails(w) \/ BodyFails(w) \/ CleanupFails(w)
                                \/ Crash(w) \/ Restart(w)
      PROVE  UNCHANGED <<Lines, Acked>>
  BY <1>2, <1>3, <1>9 DEF LockFails, BodyFails, CleanupFails, Crash, Restart
<1>10. CASE ClearLock \/ UNCHANGED vars
  BY <1>2, <1>10 DEF ClearLock, vars
<1> QED BY <1>6, <1>7, <1>8, <1>9, <1>10 DEF Next

\* The locked read, temp write and rename of sidecar-io.ts implement the log that the
\* commands rely on: a batch lands whole, once and at the end, and only one that landed
\* is reported as written.
THEOREM Refinement == Spec => ImplementsAppendLog
<1>1. Init => Abstract!Init
  BY DEF Init, Abstract!Init, Lines, Ended
<1> QED BY <1>1, StepRefines, RefinementInvariant, PTL
        DEF Spec, ImplementsAppendLog, Abstract!Spec
=============================================================================
