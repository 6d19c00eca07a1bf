---------------------------- MODULE SidecarAppend ----------------------------
(***************************************************************************)
(* packages/preferences/src/sidecar-io.ts: how separate processes append   *)
(* batches of lines to one sidecar file.  An exclusive create of           *)
(* <path>.lock serialises a read of the whole file, a write of the next    *)
(* image to a temp file of the writer's own, and a rename over the file.   *)
(* A writer that cannot take the lock retries and then refuses; a writer   *)
(* may die between any two system calls, and any system call may fail.     *)
(*                                                                         *)
(* An append of no lines returns before it touches anything (line 239) and *)
(* is left out.  A line is <<writer, append, position>>; what it says is   *)
(* the business of the loaders.                                            *)
(***************************************************************************)
EXTENDS Naturals, Sequences, SequencesExt

CONSTANTS Writers,    \* processes that append
          MaxAppends, \* bound: the appends each process makes
          MaxLines,   \* bound: the lines of one append
          MaxRetries, \* LOCK_TIMEOUT_MS / LOCK_RETRY_MS: tries before refusing
          MaxEdits,   \* bound: the lines the operator adds by hand
          NoFile,     \* the file does not exist (readOptional's undefined)
          Hand,       \* the writer of a line typed by hand
          Mangled     \* the writer of a line that two records were run into

ASSUME ConstantsAssumption ==
    /\ MaxAppends \in Nat /\ MaxLines \in Nat \ {0}
    /\ MaxRetries \in Nat /\ MaxEdits \in Nat
    /\ Hand \notin Writers /\ Mangled \notin Writers

VARIABLES
    file,    \* the sidecar: NoFile, or its lines and whether the last one ends in \n
    lock,    \* does <path>.lock exist?
    temps,   \* the temp files in the directory, by the append that wrote them
    pc,      \* where each process is in appendSidecarLines
    batch,   \* the batch each process is appending
    next,    \* the image it computed from what it read
    tries,   \* EEXIST answers so far
    result,  \* how the append will end once its finally blocks have run
    edits,   \* lines typed by hand so far
    outcome  \* history: the batches whose append ended, and how

locals == <<pc, batch, next, tries, result>>
vars == <<file, lock, temps, pc, batch, next, tries, result, edits, outcome>>

Lines == IF file = NoFile THEN <<>> ELSE file.lines

\* The batches whose append ended with result r.
Ended(r) == { b \in { o[1] : o \in outcome } : <<b, r>> \in outcome }

Abstract == INSTANCE AppendLog WITH
    log   <- Lines,
    acked <- Ended("acked")

Line == (Writers \cup {Hand, Mangled}) \X Nat \X Nat
Image == [lines : Seq(Line), ended : BOOLEAN]
ASSUME NoFileAssumption == NoFile \notin Image

Batch == Writers \X (Nat \ {0}) \X (1 .. MaxLines)
BatchLines(b) == [i \in 1 .. b[3] |-> <<b[1], b[2], i>>]

\* The states of a process inside withAppendLock, between "wx" and rm(lockPath).
Critical == {"reading", "writing", "renaming", "cleaning", "unlocking"}
Running == Critical \cup {"locking"}
----------------------------------------------------------------------------
\* existing && existing.length > 0 && !existing.endsWith("\n"): the last line
\* was torn, and the append supplies the terminator it lacks.
NeedsNewline(img) == img # NoFile /\ img.lines # <<>> /\ ~img.ended

\* Mutant: without `?? ""`, the first line of a new file starts with "undefined".
ConcatenateUndefined(img, newline, lines) ==
    IF img = NoFile THEN <<NoFile>> \o Tail(lines) ELSE img.lines \o lines

\* Text added straight after an unterminated line becomes part of that line.
Concatenate(img, newline, lines) ==
    IF img = NoFile THEN lines
    ELSE IF img.lines = <<>> \/ img.ended \/ newline THEN img.lines \o lines
    ELSE Front(img.lines) \o << <<Mangled, 0, 0>> >> \o Tail(lines)

\* `${existing ?? ""}${prefix}${body}\n`
NextImage(img, b) ==
    [lines |-> Concatenate(img, NeedsNewline(img), BatchLines(b)), ended |-> TRUE]
----------------------------------------------------------------------------
Init ==
    /\ file = NoFile
    /\ lock = FALSE
    /\ temps = {}
    /\ pc = [w \in Writers |-> "idle"]
    /\ batch = [w \in Writers |-> <<w, 0, 1>>]
    /\ next = [w \in Writers |-> NoFile]
    /\ tries = [w \in Writers |-> 0]
    /\ result = [w \in Writers |-> "acked"]
    /\ edits = 0
    /\ outcome = {}

Goto(w, place) == pc' = [pc EXCEPT ![w] = place]

\* The append of w ends with result r; its local variables go with it.
End(w, place, r) ==
    /\ Goto(w, place)
    /\ outcome' = outcome \cup {<<batch[w], r>>}
    /\ next' = [next EXCEPT ![w] = NoFile]
    /\ tries' = [tries EXCEPT ![w] = 0]
    /\ result' = [result EXCEPT ![w] = "acked"]

\* appendSidecarLines is called with n lines; it makes the directory.
Begin(w, n) ==
    /\ pc[w] = "idle" /\ batch[w][2] < MaxAppends
    /\ Goto(w, "locking")
    /\ batch' = [batch EXCEPT ![w] = <<w, batch[w][2] + 1, n>>]
    /\ UNCHANGED <<file, lock, temps, next, tries, result, edits, outcome>>

\* open(lockPath, "wx") succeeds: the kernel decides the winner.
TakeLock(w) ==
    /\ pc[w] = "locking" /\ ~lock
    /\ lock' = TRUE
    /\ Goto(w, "reading")
    /\ tries' = [tries EXCEPT ![w] = 0]
    /\ UNCHANGED <<file, temps, batch, next, result, edits, outcome>>

\* Mutant: the retries are not held against the deadline.
RetryForever(w) ==
    /\ pc[w] = "locking" /\ lock
    /\ UNCHANGED vars

\* EEXIST before the deadline: sleep and try again.
Retry(w) ==
    /\ pc[w] = "locking" /\ lock /\ tries[w] < MaxRetries
    /\ tries' = [tries EXCEPT ![w] = @ + 1]
    /\ UNCHANGED <<file, lock, temps, pc, batch, next, result, edits, outcome>>

\* Mutant: a lock nobody released in time is taken to be stale, and broken.
RefuseNever(w) ==
    /\ pc[w] = "locking" /\ lock /\ tries[w] >= MaxRetries
    /\ Goto(w, "reading")
    /\ tries' = [tries EXCEPT ![w] = 0]
    /\ UNCHANGED <<file, lock, temps, batch, next, result, edits, outcome>>

\* EEXIST at the deadline: "another writer holds ...; nothing was written".
Refuse(w) ==
    /\ pc[w] = "locking" /\ lock /\ tries[w] >= MaxRetries
    /\ End(w, "idle", "refused")
    /\ UNCHANGED <<file, lock, temps, batch, edits>>

\* handle.close, readOptional, and the image that the rename will publish.
Read(w) ==
    /\ pc[w] = "reading"
    /\ Goto(w, "writing")
    /\ next' = [next EXCEPT ![w] = NextImage(file, batch[w])]
    /\ UNCHANGED <<file, lock, temps, batch, tries, result, edits, outcome>>

\* Mutant: the lock is released when the image is written, before the rename.
WriteTempUnlocks(w) ==
    /\ pc[w] = "writing"
    /\ Goto(w, "renaming")
    /\ lock' = FALSE
    /\ temps' = temps \cup {batch[w]}
    /\ UNCHANGED <<file, batch, next, tries, result, edits, outcome>>

\* writeFile(tempPath, next), under a name no other append uses.
WriteTemp(w) ==
    /\ pc[w] = "writing"
    /\ Goto(w, "renaming")
    /\ temps' = temps \cup {batch[w]}
    /\ UNCHANGED <<file, lock, batch, next, tries, result, edits, outcome>>

\* rename(tempPath, path): the batch is in the file from here on.
Rename(w) ==
    /\ pc[w] = "renaming"
    /\ Goto(w, "cleaning")
    /\ file' = next[w]
    /\ temps' = temps \ {batch[w]}
    /\ UNCHANGED <<lock, batch, next, tries, result, edits, outcome>>

\* The inner finally: rm(tempPath, force).
RemoveTemp(w) ==
    /\ pc[w] = "cleaning"
    /\ Goto(w, "unlocking")
    /\ temps' = temps \ {batch[w]}
    /\ UNCHANGED <<file, lock, batch, next, tries, result, edits, outcome>>

\* Mutant: the exception is swallowed by the finally block.
UnlockSwallows(w) ==
    /\ pc[w] = "unlocking"
    /\ lock' = FALSE
    /\ End(w, "idle", "acked")
    /\ UNCHANGED <<file, temps, batch, edits>>

\* The outer finally: rm(lockPath, force); the append resolves, or throws what
\* an earlier call threw.
Unlock(w) ==
    /\ pc[w] = "unlocking"
    /\ lock' = FALSE
    /\ End(w, "idle", result[w])
    /\ UNCHANGED <<file, temps, batch, edits>>

\* open fails with anything but EEXIST: thrown on, with no lock to release.
LockFails(w) ==
    /\ pc[w] = "locking"
    /\ End(w, "idle", "failed")
    /\ UNCHANGED <<file, lock, temps, batch, edits>>

\* Mutant: the temp file is removed after the rename, and not in a finally block.
BodyFailsLitters(w) ==
    /\ pc[w] \in {"reading", "writing", "renaming"} /\ Goto(w, "unlocking")
    /\ result' = [result EXCEPT ![w] = "failed"]
    /\ UNCHANGED <<file, lock, temps, batch, next, tries, edits, outcome>>

\* close, read, write or rename throws: the finally blocks it is inside run.
\* A write that fails may leave its temp file behind for the inner one.
BodyFails(w) ==
    /\ \/ pc[w] = "reading" /\ Goto(w, "unlocking") /\ UNCHANGED temps
       \/ pc[w] = "writing" /\ Goto(w, "cleaning")
          /\ (UNCHANGED temps \/ temps' = temps \cup {batch[w]})
       \/ pc[w] = "renaming" /\ Goto(w, "cleaning") /\ UNCHANGED temps
    /\ result' = [result EXCEPT ![w] = "failed"]
    /\ UNCHANGED <<file, lock, batch, next, tries, edits, outcome>>

\* A finally block's own rm throws: the temp file, or the lock, stays behind.
CleanupFails(w) ==
    /\ \/ pc[w] = "cleaning" /\ Goto(w, "unlocking")
          /\ result' = [result EXCEPT ![w] = "uncleaned"]
          /\ UNCHANGED <<next, tries, outcome>>
       \/ pc[w] = "unlocking" /\ End(w, "idle", "uncleaned")
    /\ UNCHANGED <<file, lock, temps, batch, edits>>

\* The process dies: no finally block runs, and what is on disk stays there.
Crash(w) ==
    /\ pc[w] \in Running
    /\ End(w, "dead", "died")
    /\ UNCHANGED <<file, lock, temps, batch, edits>>

\* The command is run again, as a new process.
Restart(w) ==
    /\ pc[w] = "dead"
    /\ Goto(w, "idle")
    /\ UNCHANGED <<file, lock, temps, batch, next, tries, result, edits, outcome>>

\* "If no sidecar writer is running, delete that file by hand."
Quiet == \A w \in Writers : pc[w] \notin Running

ClearLock ==
    /\ Quiet /\ lock
    /\ lock' = FALSE
    /\ UNCHANGED <<file, temps, locals, edits, outcome>>

\* plans.jsonl is written by hand: the operator's editor adds a line, and may
\* save it without a terminator.
HandEdit ==
    /\ Quiet /\ edits < MaxEdits
    /\ edits' = edits + 1
    /\ \E ended \in BOOLEAN :
        file' = [lines |-> Append(Lines, <<Hand, edits + 1, 1>>), ended |-> ended]
    /\ UNCHANGED <<lock, temps, locals, outcome>>

\* What a running append does of its own accord.
Advance(w) ==
    \/ TakeLock(w) \/ Retry(w) \/ Refuse(w)
    \/ Read(w) \/ WriteTemp(w) \/ Rename(w) \/ RemoveTemp(w) \/ Unlock(w)

Next ==
    \/ \E w \in Writers :
        \/ \E n \in 1 .. MaxLines : Begin(w, n)
        \/ Advance(w)
        \/ LockFails(w) \/ BodyFails(w) \/ CleanupFails(w)
        \/ Crash(w) \/ Restart(w)
    \/ ClearLock
    \/ HandEdit

Spec == Init /\ [][Next]_vars

\* A process that is running keeps running; nobody owes a restart or a cleanup.
FairSpec == Spec /\ \A w \in Writers : WF_vars(Advance(w))
----------------------------------------------------------------------------
TypeOK ==
    /\ file \in Image \cup {NoFile}
    /\ lock \in BOOLEAN
    /\ temps \subseteq Batch
    /\ pc \in [Writers -> Running \cup {"idle", "dead"}]
    /\ batch \in [Writers -> Writers \X Nat \X (1 .. MaxLines)]
    /\ \A w \in Writers : batch[w][1] = w /\ (pc[w] \in Running => batch[w] \in Batch)
    /\ next \in [Writers -> Image \cup {NoFile}]
    /\ tries \in [Writers -> Nat]
    /\ result \in [Writers -> {"acked", "failed", "uncleaned"}]
    /\ edits \in Nat
    /\ outcome \subseteq Batch \X {"acked", "refused", "failed", "uncleaned", "died"}

\* withAppendLock: never two live processes between the exclusive create of the
\* lock and its removal, however many died holding it and whoever cleared it.
MutualExclusion ==
    \A v, w \in Writers : pc[v] \in Critical /\ pc[w] \in Critical => v = w

\* The race the lock is there for: an append that resolved is in the file, whole,
\* whatever was appended by anyone since (sidecar-io.ts 168-173).
NoLostBatch ==
    \A b \in Ended("acked") : ToSet(BatchLines(b)) \subseteq ToSet(Lines)

\* A temp file outlives its append only if the process died or the rm itself
\* failed: no failed rename abandons one (sidecar-io.ts 253-263).
NoLitter ==
    \A b \in temps : \/ pc[b[1]] \in Critical /\ batch[b[1]] = b
                    \/ b \in Ended("died") \cup Ended("uncleaned")

\* A writer adds to the file and never takes away or rewrites.
AppendOnly == [][IsPrefix(Lines, Lines')]_vars

\* Every append that starts ends, in success, refusal, failure or death: a lock
\* that a dead process left behind makes it refuse and not wait for ever.
AppendsEnd ==
    \A w \in Writers : pc[w] = "locking" ~> pc[w] \in {"idle", "dead"}

\* The protocol is an implementation of the log it promises.
ImplementsAppendLog == Abstract!Spec
=============================================================================
