-------------------------------- MODULE Ingest --------------------------------
(***************************************************************************)
(* The write path of the durable log (apps/tui/src/event-store.ts and      *)
(* ingest-commit.ts, apps/price-feed/src/inbox.ts and atomic-write.ts).    *)
(* Price-feed runs and the operator put records in the inbox; a spine run  *)
(* reads the inbox and the log, appends the records it accepts, captures   *)
(* the log in git and moves the inbox to the archive.  Nothing is locked:  *)
(* the schedule starts one process at a time, and a person may start       *)
(* another (ops/price-feed/run-daily-fetch.sh 25-30).                      *)
(*                                                                         *)
(* A record stands for its id.  What the gate knows about two records is   *)
(* whether it takes the one once the other is in the log; CrossRef has the *)
(* rules.                                                                  *)
(***************************************************************************)
EXTENDS Naturals, Sequences, FiniteSets, SequencesExt

CONSTANTS Spines,      \* processes that run pnpm spine
          Feeds,       \* processes that run pnpm prices:fetch
          Marks(_),    \* the records each feed emits
          HandRecords, \* the records the operator may put in the inbox
          Clashes,     \* sets of two records the gate does not take together
          NoFile,      \* a path that names nothing
          Torn,        \* a file open for writing, or cut short by a crash
          MaxFaults    \* bound: crashes and failing calls, when the processes run one at
                       \* a time (FALSE) and when they may overlap (TRUE)

Processes == Spines \cup Feeds
Records == (UNION { ToSet(Marks(f)) : f \in Feeds }) \cup HandRecords

ASSUME IngestAssumption ==
    /\ NoFile # Torn /\ NoFile \notin Seq(Records) /\ Torn \notin Seq(Records)
    /\ \A f \in Feeds : Marks(f) \in Seq(Records) /\ IsInjective(Marks(f)) \* one per instrument
    /\ DOMAIN MaxFaults \subseteq BOOLEAN
    /\ \A o \in DOMAIN MaxFaults : MaxFaults[o] \in Nat
    /\ Spines \cap Feeds = {}
    /\ Clashes \subseteq SUBSET Records

VARIABLES
    overlap, \* whether a process may start while another runs; never changes
    log,     \* events.jsonl
    inbox,   \* inbox/transactions.json: NoFile, Torn or the records of the array
    temp,    \* transactions.json.tmp, the one name every feed writes first
    archive, \* ingested/: the inboxes moved there, in order
    digest,  \* head-digest.json: the log it was derived from
    index,   \* git's staged copies of the log and the digest
    head,    \* git's last commit of both
    pc,      \* the step each process is about to take
    read,    \* what it read of the inbox
    prior,   \* spine: the log it judged the inbox against
    base,    \* spine: the log it read again to append to
    fd,      \* feed: the name its open file goes by now, or "none"
    offered, \* the records that have been in the inbox and not taken back
    faults,  \* crashes and failures so far
    loud,    \* whether a process has ended in an error, or was killed
    refused  \* the files git add refused

disk == <<log, inbox, temp, archive>>
git == <<digest, index, head>>
locals == <<pc, read, prior, base, fd>>
vars == <<disk, git, locals, offered, faults, loud, refused>>

Init ==
    /\ overlap \in DOMAIN MaxFaults
    /\ log = <<>> /\ inbox = NoFile /\ temp = NoFile /\ archive = <<>>
    /\ digest = <<>>
    /\ index = [log |-> <<>>, digest |-> <<>>] /\ head = index
    /\ pc = [p \in Processes |-> "idle"]
    /\ read = [p \in Processes |-> <<>>]
    /\ prior = [p \in Spines |-> <<>>]
    /\ base = [p \in Spines |-> <<>>]
    /\ fd = [f \in Feeds |-> "none"]
    /\ offered = {} /\ faults = 0 /\ loud = FALSE /\ refused = {}
----------------------------------------------------------------------------
Goto(p, step) == pc' = [pc EXCEPT ![p] = step]

\* Mutant: a process that ends leaves its file open.
ForgetKeepsFile(p) ==
    /\ Goto(p, "idle")
    /\ read' = [read EXCEPT ![p] = <<>>]
    /\ prior' = [s \in Spines |-> IF s = p THEN <<>> ELSE prior[s]]
    /\ base' = [s \in Spines |-> IF s = p THEN <<>> ELSE base[s]]
    /\ UNCHANGED fd

\* A process that ends forgets what it read.
Forget(p) ==
    /\ Goto(p, "idle")
    /\ read' = [read EXCEPT ![p] = <<>>]
    /\ prior' = [s \in Spines |-> IF s = p THEN <<>> ELSE prior[s]]
    /\ base' = [s \in Spines |-> IF s = p THEN <<>> ELSE base[s]]
    /\ fd' = [f \in Feeds |-> IF f = p THEN "none" ELSE fd[f]]

MayStart(p) ==
    /\ pc[p] = "idle"
    /\ overlap \/ \A q \in Processes : pc[q] = "idle"

\* A call that fails, or the death of the process, spends the budget of faults.
Fault == /\ faults < MaxFaults[overlap] /\ faults' = faults + 1 /\ loud' = TRUE

\* A list without the records of a set.
Without(list, gone) ==
    LET kept[n \in 0 .. Len(list)] ==
            IF n = 0 THEN <<>>
            ELSE IF list[n] \in gone THEN kept[n - 1] ELSE Append(kept[n - 1], list[n])
    IN  kept[Len(list)]

\* Mutant: only the inbox is searched for duplicates.
WalkForgets(events, candidates) ==
    [accepted |-> candidates, rejected |-> FALSE]

\* Mutant: a duplicate is refused, and not passed over.
WalkRefusesDuplicates(events, candidates) ==
    IF \E r \in ToSet(candidates) : r \in ToSet(events)
    THEN [accepted |-> <<>>, rejected |-> TRUE]
    ELSE [accepted |-> candidates, rejected |-> FALSE]

\* The state of a walk: what it has accepted, and whether it came to a rejection.
Seen(events, acc) == ToSet(events) \cup ToSet(acc.accepted)

WalkOne(events, acc, r) ==
    IF acc.rejected \/ r \in Seen(events, acc) THEN acc
    ELSE IF \E x \in Seen(events, acc) \cup {r} : {x, r} \in Clashes
         THEN [acc EXCEPT !.rejected = TRUE]
         ELSE [acc EXCEPT !.accepted = Append(@, r)]

\* walkPendingInbox with haltOnRejection, by ids: duplicates are passed over, and
\* one record the gate refuses stops the walk.
Walk(events, candidates) ==
    LET walk[n \in 0 .. Len(candidates)] ==
            IF n = 0 THEN [accepted |-> <<>>, rejected |-> FALSE]
            ELSE WalkOne(events, walk[n - 1], candidates[n])
    IN  walk[Len(candidates)]

Accepted(p) == Walk(prior[p], read[p]).accepted
----------------------------------------------------------------------------
(* ingestInbox                                                             *)

\* No inbox, and the run ends having done nothing.
ReadInbox(p) ==
    /\ MayStart(p) /\ inbox \notin {NoFile, Torn}
    /\ read' = [read EXCEPT ![p] = inbox]
    /\ Goto(p, "loading")
    /\ UNCHANGED <<disk, git, prior, base, fd, offered, faults, loud, refused>>

\* JSON.parse throws on half an array, in a spine and in a feed.
ReadTornInbox(p) ==
    /\ MayStart(p) /\ inbox = Torn
    /\ loud' = TRUE
    /\ UNCHANGED <<disk, git, locals, offered, faults, refused>>

\* Mutant: a rejection stops the walk and what was accepted before it is appended.
LoadLogKeepsAccepted(p) ==
    LET walk == Walk(log, read[p])
    IN  /\ pc[p] = "loading"
        /\ IF walk.accepted = <<>>
           THEN Forget(p) /\ loud' = (loud \/ walk.rejected)
           ELSE /\ prior' = [prior EXCEPT ![p] = log]
                /\ Goto(p, "appending")
                /\ UNCHANGED <<read, base, fd, loud>>
        /\ UNCHANGED <<disk, git, offered, faults, refused>>

\* loadEventLog, and the walk: go on only when there is something to append.
LoadLog(p) ==
    LET walk == Walk(log, read[p])
    IN  /\ pc[p] = "loading"
        /\ IF walk.rejected \/ walk.accepted = <<>>
           THEN Forget(p) /\ loud' = (loud \/ walk.rejected)
           ELSE /\ prior' = [prior EXCEPT ![p] = log]
                /\ Goto(p, "appending")
                /\ UNCHANGED <<read, base, fd, loud>>
        /\ UNCHANGED <<disk, git, offered, faults, refused>>

\* appendEvents reads the log again, to build the next image from.
Reread(p) ==
    /\ pc[p] = "appending"
    /\ base' = [base EXCEPT ![p] = log]
    /\ Goto(p, "publishing")
    /\ UNCHANGED <<disk, git, read, prior, fd, offered, faults, loud, refused>>

\* writeLogImage: the rename that publishes the image.
WriteLog(p) ==
    /\ pc[p] = "publishing"
    /\ log' = base[p] \o Accepted(p)
    /\ Goto(p, "digesting")
    /\ UNCHANGED <<inbox, temp, archive, git, read, prior, base, fd,
                   offered, faults, loud, refused>>

\* Mutant: the digest is of the appended records alone.
WriteDigestOfBatch(p) ==
    /\ pc[p] = "digesting"
    /\ digest' = Accepted(p)
    /\ Goto(p, "staging log")
    /\ UNCHANGED <<disk, index, head, read, prior, base, fd, offered, faults, loud, refused>>

\* captureIngestCommit: the digest is of the log the run believes it wrote.
WriteDigest(p) ==
    /\ pc[p] = "digesting"
    /\ digest' = prior[p] \o Accepted(p)
    /\ Goto(p, "staging log")
    /\ UNCHANGED <<disk, index, head, read, prior, base, fd, offered, faults, loud, refused>>

\* git add, one file at a time.
StageLog(p) ==
    /\ pc[p] = "staging log"
    /\ index' = [index EXCEPT !.log = log]
    /\ Goto(p, "staging digest")
    /\ UNCHANGED <<disk, digest, head, read, prior, base, fd, offered, faults, loud, refused>>

StageDigest(p) ==
    /\ pc[p] = "staging digest"
    /\ index' = [index EXCEPT !.digest = digest]
    /\ Goto(p, "committing")
    /\ UNCHANGED <<disk, digest, head, read, prior, base, fd, offered, faults, loud, refused>>

\* A file that refuses to stage is skipped with a warning, and the rest goes on: the
\* seed and the sidecars are staged with the two, so there is something to commit.
StageRefused(p) ==
    /\ faults < MaxFaults[overlap] /\ faults' = faults + 1
    /\ \/ /\ pc[p] = "staging log"
          /\ refused' = refused \cup {"log"} /\ Goto(p, "staging digest")
       \/ /\ pc[p] = "staging digest"
          /\ refused' = refused \cup {"digest"} /\ Goto(p, "committing")
    /\ UNCHANGED <<disk, git, read, prior, base, fd, offered, loud>>

Commit(p) ==
    /\ pc[p] = "committing"
    /\ head' = index
    /\ Goto(p, "archiving")
    /\ UNCHANGED <<disk, digest, index, read, prior, base, fd, offered, faults, loud, refused>>

\* Whatever goes wrong in the capture is a warning: the append is durable.
CaptureFails(p) ==
    /\ pc[p] \in {"digesting", "committing"}
    /\ faults < MaxFaults[overlap] /\ faults' = faults + 1
    /\ Goto(p, "archiving")
    /\ UNCHANGED <<disk, git, read, prior, base, fd, offered, loud, refused>>

\* archiveInbox renames what the path names now, and throws when it names nothing.
Archive(p) ==
    /\ pc[p] = "archiving"
    /\ IF inbox = NoFile
       THEN loud' = TRUE /\ UNCHANGED <<inbox, archive>> /\ Forget(p)
       ELSE /\ archive' = Append(archive, inbox)
            /\ inbox' = NoFile
            /\ Goto(p, "idle")
            /\ read' = [read EXCEPT ![p] = <<>>]
            /\ prior' = [prior EXCEPT ![p] = <<>>]
            /\ base' = [base EXCEPT ![p] = <<>>]
            /\ fd' = [f \in Feeds |-> IF fd[f] = "inbox" THEN "archived" ELSE fd[f]]
            /\ UNCHANGED loud
    /\ UNCHANGED <<log, temp, git, offered, faults, refused>>
----------------------------------------------------------------------------
(* emitMarksToInbox                                                        *)

Existing == IF inbox = NoFile THEN <<>> ELSE inbox

\* Mutant: the marks replace what is there.
MergeReplaces(existing, marks) == marks

\* mergeInbox: what is there, then the marks whose id is not.
Merge(existing, marks) ==
    existing \o Without(marks, ToSet(existing))

\* Nothing fresh, and the inbox is left as it is.
ReadForMerge(f) ==
    /\ MayStart(f) /\ inbox # Torn
    /\ Merge(Existing, Marks(f)) # Existing
    /\ read' = [read EXCEPT ![f] = Existing]
    /\ Goto(f, "opening")
    /\ UNCHANGED <<disk, git, prior, base, fd, offered, faults, loud, refused>>

\* atomicWrite: writeFile creates or truncates the temp file ...
OpenTemp(f) ==
    /\ pc[f] = "opening"
    /\ temp' = Torn
    /\ fd' = [fd EXCEPT ![f] = "temp"]
    /\ Goto(f, "filling")
    /\ UNCHANGED <<log, inbox, archive, git, read, prior, base, offered, faults, loud, refused>>

\* ... and then fills the file it opened, whatever that is called by now ...
FillTemp(f) ==
    LET next == Merge(read[f], Marks(f))
    IN  /\ pc[f] = "filling"
        /\ temp' = IF fd[f] = "temp" THEN next ELSE temp
        /\ inbox' = IF fd[f] = "inbox" THEN next ELSE inbox
        /\ offered' = IF fd[f] = "inbox" THEN offered \cup ToSet(next) ELSE offered
        /\ Goto(f, "renaming")
        /\ UNCHANGED <<log, archive, git, read, prior, base, fd, faults, loud, refused>>

\* ... and renames whatever is at the temp path over the inbox.
RenameTemp(f) ==
    /\ pc[f] = "renaming"
    /\ IF temp = NoFile
       THEN Forget(f) /\ loud' = TRUE /\ UNCHANGED <<inbox, temp, offered>>
       ELSE /\ inbox' = temp
            /\ temp' = NoFile
            /\ offered' = IF temp = Torn THEN offered ELSE offered \cup ToSet(temp)
            /\ fd' = [g \in Feeds |-> CASE g = f -> "none"
                                        [] g # f /\ fd[g] = "temp" -> "inbox"
                                        [] g # f /\ fd[g] = "inbox" -> "replaced"
                                        [] OTHER -> fd[g]]
            /\ Goto(f, "idle")
            /\ read' = [read EXCEPT ![f] = <<>>]
            /\ UNCHANGED <<prior, base, loud>>
    /\ UNCHANGED <<log, archive, git, faults, refused>>
----------------------------------------------------------------------------
(* The operator, and the machine.                                          *)

\* The inbox is a file a person edits, when nothing else is running.
Idle == \A p \in Processes : pc[p] = "idle"

Drop(r) ==
    /\ Idle /\ inbox # Torn /\ r \notin offered
    /\ inbox' = Append(Existing, r)
    /\ offered' = offered \cup {r}
    /\ UNCHANGED <<log, temp, archive, git, locals, faults, loud, refused>>

\* A rejected record is taken out by hand; the spine left the inbox for that.
TakeBack(r) ==
    /\ Idle /\ inbox \notin {NoFile, Torn} /\ r \in ToSet(inbox) \ ToSet(log)
    /\ \E x \in ToSet(log) \cup ToSet(inbox) : {x, r} \in Clashes
    /\ inbox' = Without(inbox, {r})
    /\ offered' = offered \ {r}
    /\ UNCHANGED <<log, temp, archive, git, locals, faults, loud, refused>>

Crash(p) ==
    /\ pc[p] # "idle" /\ Fault
    /\ Forget(p)
    /\ UNCHANGED <<disk, git, offered, refused>>

\* A write that fails before its rename publishes nothing.
WriteFails(p) ==
    /\ pc[p] \in {"publishing", "opening"} /\ Fault
    /\ Forget(p)
    /\ UNCHANGED <<disk, git, offered, refused>>

AdvanceSpine(p) ==
    \/ LoadLog(p) \/ Reread(p) \/ WriteLog(p) \/ WriteDigest(p)
    \/ StageLog(p) \/ StageDigest(p) \/ Commit(p) \/ Archive(p)

AdvanceFeed(f) == OpenTemp(f) \/ FillTemp(f) \/ RenameTemp(f)

Step ==
    \/ \E p \in Spines :
        \/ ReadInbox(p) \/ AdvanceSpine(p)
        \/ StageRefused(p) \/ CaptureFails(p)
    \/ \E f \in Feeds : ReadForMerge(f) \/ AdvanceFeed(f)
    \/ \E r \in HandRecords : Drop(r) \/ TakeBack(r)
    \/ \E p \in Processes : ReadTornInbox(p) \/ Crash(p) \/ WriteFails(p)

Next == Step /\ UNCHANGED overlap

Spec == Init /\ [][Next]_<<vars, overlap>>

\* A run that started goes on, and the schedule keeps starting the spine.
FairSpec ==
    /\ Spec
    /\ \A p \in Spines : WF_vars(AdvanceSpine(p)) /\ SF_vars(ReadInbox(p))
    /\ \A f \in Feeds : WF_vars(AdvanceFeed(f))
----------------------------------------------------------------------------
SpineSteps == {"loading", "appending", "publishing", "digesting", "staging log",
               "staging digest", "committing", "archiving"}
FeedSteps == {"opening", "filling", "renaming"}

Copy == [log : Seq(Records), digest : Seq(Records)]

TypeOK ==
    /\ overlap \in DOMAIN MaxFaults
    /\ log \in Seq(Records) /\ digest \in Seq(Records)
    /\ inbox \in Seq(Records) \cup {NoFile, Torn}
    /\ temp \in Seq(Records) \cup {NoFile, Torn}
    /\ archive \in Seq(Seq(Records) \cup {Torn})
    /\ index \in Copy /\ head \in Copy
    /\ \A p \in Spines : pc[p] \in SpineSteps \cup {"idle"}
    /\ \A f \in Feeds : pc[f] \in FeedSteps \cup {"idle"}
    /\ DOMAIN pc = Processes
    /\ read \in [Processes -> Seq(Records)]
    /\ prior \in [Spines -> Seq(Records)] /\ base \in [Spines -> Seq(Records)]
    /\ fd \in [Feeds -> {"none", "temp", "inbox", "archived", "replaced"}]
    /\ offered \subseteq Records
    /\ \A p \in Processes : pc[p] = "idle" => read[p] = <<>>
    /\ \A f \in Feeds : pc[f] \notin {"filling", "renaming"} => fd[f] = "none"
    /\ faults \in Nat /\ loud \in BOOLEAN /\ refused \subseteq {"log", "digest"}

InInbox == IF inbox \in {NoFile, Torn} THEN {} ELSE ToSet(inbox)

LoggedOnce == IsInjective(log)
NoClash == \A x, y \in ToSet(log) : {x, y} \notin Clashes

\* Dedup by id, and the gate (event-store.ts 88-179): however often a record is dropped,
\* wherever a run dies between the append and the archive, and whoever runs beside it, a
\* record is logged once, and no two are logged that the gate refuses together.
LogIsSound == LoggedOnce /\ NoClash

NoneLost == offered \subseteq ToSet(log) \cup InInbox
ArchivedIsLogged ==
    \A i \in DOMAIN archive : archive[i] # Torn /\ ToSet(archive[i]) \subseteq ToSet(log)
InboxWhole == inbox # Torn

\* A record that reached the inbox is there until it is in the log: no crash, and no
\* failing call of a process that runs alone, leaves it in neither, archives it before it
\* is logged, or leaves half an array to be read.
NothingLost == ~ overlap => NoneLost /\ ArchivedIsLogged /\ InboxWhole

\* Two runs that collide fail loud (run-daily-fetch.sh 25-30): when nothing has
\* failed, nothing has been lost.
NoSilentLoss == ~loud => NoneLost

\* What git holds is a past of the log, and the digest committed with it describes
\* it, unless a file has refused to stage (ingest-commit.ts 220-241).
HeadIsPast ==
    /\ IsPrefix(head.log, log)
    /\ refused = {} => head.log = head.digest

\* All-or-nothing (event-store.ts 60-87): the log only grows, and by the whole inbox, or
\* by nothing of it when one of its records is refused.
AllOrNothing ==
    [][~ overlap => /\ IsPrefix(log, log')
                    /\ log' # log => InInbox \subseteq ToSet(log')]_log

\* A clash stands between the inbox and the log: the batch is refused until the
\* operator takes a record out.
Blocked == \E x, y \in ToSet(log) \cup InInbox : {x, y} \in Clashes

\* Every record that reaches the inbox is logged in the end, unless a record the gate
\* refuses holds up its batch: time and again nothing offered is still to be logged.
EventuallyLogged == []<>(overlap \/ Blocked \/ offered \subseteq ToSet(log))
=============================================================================
