-------------------------------- MODULE DailyJob --------------------------------
(***************************************************************************)
(* The daily price job, ops/price-feed/run-daily-fetch.sh, step by step:   *)
(* fetch, spine, commit, post-check, gap report, operator notice and the   *)
(* backfill of the dashboard's table, under a scheduler that starts one    *)
(* instance at a time, a watchdog and a clock that does not wait.  Beside  *)
(* it the operator: recovering a lost day, running the spine, pushing,     *)
(* editing the log and the inbox.                                          *)
(*                                                                         *)
(* The exit code is 0 or 1, for any code that is not zero.  What the spine *)
(* does inside is module Ingest; here it takes the whole inbox or nothing. *)
(***************************************************************************)
EXTENDS Glance

CONSTANTS MaxIncidents,  \* bound: answers, steps and processes that fail, lines of
                         \* the log that break, events and pushes by hand
          RecoveredDays  \* bound: the lost days the operator cares to recover

ASSUME DailyJobAssumption ==
    /\ MaxIncidents \in Nat /\ RecoveredDays \subseteq Days
    /\ "event" \notin Instruments
    /\ \E i \in Instruments : Registry[i].source = "binance"

VARIABLES
    now,        \* the clock, in half days
    log,        \* events.jsonl
    malformed,  \* whether it holds a line that does not parse
    inbox,      \* pending-events.json
    store,      \* prices/: the days of the quotes of each instrument
    uncaptured, \* whether the log holds what git does not
    heartbeat,  \* job-heartbeat.json
    notice,     \* operator-notice.txt
    rows,       \* composition_snapshot, the table of the dashboard
    job,        \* the run in flight
    fetch,      \* the price fetch of the job, and one by hand
    push,       \* the push in flight, of the job and by hand
    incidents,  \* how many of them there were so far
    crossed,    \* whether midnight passed while the job ran
    overlapped, \* whether two fetches were ever in flight
    unspoken    \* whether the last run died without its trap

files == <<log, malformed, inbox, store, uncaptured, rows>>
channels == <<heartbeat, notice>>
ghosts == <<crossed, overlapped>>
vars == <<now, files, channels, job, fetch, push, incidents, ghosts, unspoken>>

Steps == {"startup", "resolve-tools", "prices-fetch", "spine", "commit",
          "post-check", "gap-report", "operator-notice", "backfill", "complete"}
MARKS_LANDED_STEPS ==
    {"commit", "post-check", "gap-report", "operator-notice", "backfill", "complete"}
BeforeNotice == {"startup", "resolve-tools", "prices-fetch", "spine", "commit",
                 "post-check", "gap-report", "operator-notice"}
Fetchers == {"job", "hand"}
Today == TradingDayAsOf(now)

NoRun == [step |-> "idle", window |-> FALSE, carried |-> NoDay, anchors |-> {}]
Running == job.step \notin {"idle", "trap"}

Nothing == [i \in {} |-> NoBar]
NoFetch == [phase |-> "idle", asOf |-> NoDay, emit |-> FALSE,
            bars |-> Nothing, fix |-> NoDay, images |-> Nothing, marks |-> {}, fresh |-> {}]

\* What the operator writes by hand: an event of no instrument with a feed.
Event(day) == [instrument |-> "event", day |-> day]
----------------------------------------------------------------------------
(* A system just installed: of day 0 the log holds an event, and no mark.   *)

Init ==
    /\ now = 3
    /\ log = {Event(0)}
    /\ malformed = FALSE
    /\ inbox = {}
    /\ store = [i \in Instruments |-> {}]
    /\ uncaptured = FALSE
    /\ heartbeat = NoHeartbeat
    /\ notice = NoNotice
    /\ rows = [d \in Days |-> IF d = 0 THEN "current" ELSE "absent"]
    /\ job = NoRun
    /\ fetch = [f \in Fetchers |-> NoFetch]
    /\ push = [f \in Fetchers |-> NoPush]
    /\ incidents = 0
    /\ crossed = FALSE
    /\ overlapped = FALSE
    /\ unspoken = FALSE

Incident == incidents < MaxIncidents /\ incidents' = incidents + 1
----------------------------------------------------------------------------
(* The end of a run: the EXIT trap, or none.                               *)

\* A run stamps its day if it was in the window and its marks are in the log.
Stamped(run, heldStep) ==
    IF run.window /\ heldStep \in MARKS_LANDED_STEPS THEN Today ELSE run.carried

\* The trap writes the heartbeat, then on a failure the notice.
EndRun(code, step) ==
    /\ heartbeat' = [exit |-> code, step |-> step, marked |-> Stamped(job, step)]
    /\ job' = IF code = 0 THEN NoRun ELSE [NoRun EXCEPT !.step = "trap"]
    /\ fetch' = [fetch EXCEPT !["job"] = NoFetch]
    /\ push' = [push EXCEPT !["job"] = NoPush]
    /\ unspoken' = FALSE

WriteOperatorFailureNotice ==
    /\ job.step = "trap"
    /\ notice' = FailedNotice(heartbeat.step)
    /\ job' = NoRun
    /\ UNCHANGED <<now, files, heartbeat, fetch, push, incidents, ghosts, unspoken>>

\* A step fails, or the watchdog or someone else ends the run with TERM.
Fail ==
    /\ Running /\ Incident
    /\ EndRun(1, job.step)
    /\ UNCHANGED <<now, files, notice, ghosts>>

\* The watchdog's second signal, or a power loss: no trap runs, or it is cut short.
Killed ==
    /\ job.step # "idle"
    /\ IF job.step = "trap" THEN UNCHANGED incidents ELSE Incident
    /\ job' = NoRun
    /\ fetch' = [fetch EXCEPT !["job"] = NoFetch]
    /\ push' = [push EXCEPT !["job"] = NoPush]
    /\ unspoken' = (unspoken \/ job.step # "trap")
    /\ UNCHANGED <<now, files, channels, ghosts>>
----------------------------------------------------------------------------
(* The steps of a run.                                                     *)

Goto(step) == job' = [job EXCEPT !.step = step]

\* Step 0 reads the breadcrumb of the previous run before anything can fail.
PreviousRunFailed ==
    heartbeat # NoHeartbeat /\ (heartbeat.exit # 0 \/ heartbeat.step # "complete")

\* Mutant: only the exit trap speaks of a failure.
FireSilently ==
    /\ job.step = "idle"
    /\ job' = [NoRun EXCEPT !.step = "startup", !.carried = heartbeat.marked]
    /\ UNCHANGED <<now, files, channels, fetch, push, incidents, ghosts, unspoken>>

Fire ==
    /\ job.step = "idle"
    /\ job' = [NoRun EXCEPT !.step = "startup", !.carried = heartbeat.marked]
    /\ notice' = IF PreviousRunFailed THEN FailedNotice(heartbeat.step) ELSE notice
    /\ UNCHANGED <<now, files, heartbeat, fetch, push, incidents, ghosts, unspoken>>

OpenWindow ==
    /\ job.step = "startup"
    /\ job' = [job EXCEPT !.window = IsAtOrAfterMarkTime(now), !.step = "resolve-tools"]
    /\ UNCHANGED <<now, files, channels, fetch, push, incidents, ghosts, unspoken>>

\* A line that does not parse stops whoever needs the whole log.
AssertLogFullyLoaded == ~malformed

\* All of the inbox, if the gate refuses none of it; then the capture in git.
SpineAccepts == AssertLogFullyLoaded /\ Refused(inbox, log) = {}
SpineTakes(captured) ==
    LET new == Ids(inbox) \ log
    IN  /\ log' = log \cup new
        /\ inbox' = {}
        /\ rows' = AgeRows(rows, new)
        /\ push' = [f \in Fetchers |-> AgePush(push[f], new)]
        /\ uncaptured' = (~captured /\ (uncaptured \/ new # {}))

Spine ==
    /\ job.step = "spine"
    /\ \/ /\ SpineAccepts
          /\ \/ SpineTakes(TRUE) /\ UNCHANGED incidents
             \/ SpineTakes(FALSE) /\ Incident
          /\ Goto("commit")
          /\ UNCHANGED <<heartbeat, fetch, unspoken>>
       \/ /\ ~SpineAccepts
          /\ EndRun(1, "spine")
          /\ UNCHANGED <<log, inbox, rows, uncaptured, incidents>>
    /\ UNCHANGED <<now, malformed, store, notice, ghosts>>

\* The backstop; if it cannot commit, the run fails.
Commit ==
    /\ job.step = "commit"
    /\ uncaptured' = FALSE
    /\ Goto("post-check")
    /\ UNCHANGED <<now, log, malformed, inbox, store, rows, channels,
                   fetch, push, incidents, ghosts, unspoken>>

\* What a spine by hand appended since may be uncaptured.
PostCheck ==
    /\ job.step = "post-check"
    /\ IF uncaptured THEN EndRun(1, "post-check")
       ELSE Goto("gap-report") /\ UNCHANGED <<heartbeat, fetch, push, unspoken>>
    /\ UNCHANGED <<now, files, notice, incidents, ghosts>>

\* A log that does not load in full is not reported on.  Nothing of the job reads
\* gap-report.json back: what it says is what the notice is made from.
WriteGapReport ==
    /\ job.step = "gap-report"
    /\ IF ~AssertLogFullyLoaded \/ BoundedEraFloor(now) > DueThrough(now)
       THEN EndRun(1, "gap-report")
       ELSE Goto("operator-notice") /\ UNCHANGED <<heartbeat, fetch, push, unspoken>>
    /\ UNCHANGED <<now, files, notice, incidents, ghosts>>

LoadOperatorNoticeLines ==
    IF AssertLogFullyLoaded THEN FormatOperatorNotice(log, now) ELSE UncheckedNotice

\* The one step that cannot fail the run.
WriteOperatorNotice ==
    /\ job.step = "operator-notice"
    /\ notice' = LoadOperatorNoticeLines
    /\ job' = [job EXCEPT !.step = "backfill", !.anchors = EnumerateAnchors(log)]
    /\ UNCHANGED <<now, files, heartbeat, fetch, push, incidents, ghosts, unspoken>>

Least(days) == CHOOSE d \in days : \A e \in days : d <= e

BackfillFold ==
    /\ job.step = "backfill" /\ job.anchors # {} /\ push["job"] = NoPush
    /\ IF ~AssertLogFullyLoaded THEN EndRun(1, "backfill")
       ELSE /\ push' = [push EXCEPT !["job"] = FoldAnchor(Least(job.anchors))]
            /\ job' = [job EXCEPT !.anchors = @ \ {Least(job.anchors)}]
            /\ UNCHANGED <<heartbeat, fetch, unspoken>>
    /\ UNCHANGED <<now, files, notice, incidents, ghosts>>

Upsert(f) ==
    /\ push[f] # NoPush
    /\ rows' = UpsertSnapshot(rows, push[f])
    /\ push' = [push EXCEPT ![f] = NoPush]
    /\ UNCHANGED <<now, log, malformed, inbox, store, uncaptured, channels,
                   job, fetch, incidents, ghosts, unspoken>>

Complete ==
    /\ job.step = "backfill" /\ job.anchors = {} /\ push["job"] = NoPush
    /\ EndRun(0, "complete")
    /\ UNCHANGED <<now, files, notice, incidents, ghosts>>
----------------------------------------------------------------------------
(* The price fetch, of the job or by hand.                                 *)

\* The instant is read once; the providers answer, and the files of the
\* instruments they answered for are read.
Ask(f, asOf, emit, recovering) ==
    /\ fetch[f].phase = "idle"
    /\ \E fault \in Faults :
          LET bars == Bars(now, asOf, recovering, fault)
          IN  /\ IF fault = NoFault THEN UNCHANGED incidents ELSE Incident
              /\ fetch' = [fetch EXCEPT ![f] =
                     [NoFetch EXCEPT !.phase = "store", !.asOf = asOf, !.emit = emit,
                                     !.bars = bars,
                                     !.fix = BanxicoFix(now, asOf, recovering, fault),
                                     !.images = [i \in Succeeded(bars) |-> store[i]]]]
    /\ overlapped' = (overlapped \/ \E g \in Fetchers \ {f} : fetch[g].phase # "idle")
    /\ UNCHANGED <<now, files, channels, push, crossed, unspoken>>

\* The job has found its tools: it asks for today, and marks if it is time to.
BeginFetch ==
    /\ job.step = "resolve-tools"
    /\ Goto("prices-fetch")
    /\ Ask("job", Today, IsAtOrAfterMarkTime(now), FALSE)

\* By hand one command runs at a time.
AtPrompt == fetch["hand"].phase = "idle" /\ push["hand"] = NoPush

\* A recovery by hand, of a day the notice names; never of today.
BeginRecovery ==
    /\ AtPrompt /\ notice.kind = "data"
    /\ \E day \in notice.named \cap RecoveredDays : day < Today /\ Ask("hand", day, TRUE, TRUE)
    /\ UNCHANGED job

\* Mutant: a file is written with the one quote.
MergedQuotesAlone(image, day) == {day}

\* Each file is written back with the quote of the day in place.
MergedQuotes(image, day) == image \cup {day}
UpsertQuotes(f) ==
    /\ fetch[f].phase = "store"
    /\ store' = [i \in Instruments |->
                    IF i \in DOMAIN fetch[f].images
                    THEN MergedQuotes(fetch[f].images[i], fetch[f].asOf) ELSE store[i]]
    /\ fetch' = [fetch EXCEPT ![f].images = Nothing, ![f].phase = "emit"]
    /\ UNCHANGED <<now, log, malformed, inbox, uncaptured, rows, channels, job,
                   push, incidents, ghosts, unspoken>>

\* By hand that is the end of it: the exit code is the operator's to read.
EmitMarks(f) ==
    /\ fetch[f].phase = "emit"
    /\ LET run   == fetch[f]
           marks == IF run.emit THEN BuildMarks(run.bars, run.asOf, run.fix) ELSE {}
           fresh == Unqueued(inbox, marks)
       IN  /\ inbox' = inbox \cup fresh
           /\ fetch' = [fetch EXCEPT ![f] = IF f = "hand" THEN NoFetch
                             ELSE [@ EXCEPT !.phase = "scan", !.marks = marks, !.fresh = fresh]]
    /\ UNCHANGED <<now, log, malformed, store, uncaptured, rows, channels, job,
                   push, incidents, ghosts, unspoken>>

\* A run that emitted nothing, or whose log does not load, is not judged.
ScanFetchedMarks(f) ==
    IF ~fetch[f].emit \/ ~AssertLogFullyLoaded THEN {}
    ELSE Rejections(log, inbox, fetch[f].fresh, fetch[f].marks)

ExitsClean(f) ==
    LET run == fetch[f]
    IN  /\ Failures(run.bars, run.asOf, run.fix, run.emit) = {}
        /\ ScanFetchedMarks(f) = {}

\* The job halts before the spine unless the fetch was clean.
EndFetch ==
    /\ fetch["job"].phase = "scan"
    /\ IF ExitsClean("job")
       THEN /\ Goto("spine")
            /\ fetch' = [fetch EXCEPT !["job"] = NoFetch]
            /\ UNCHANGED <<heartbeat, push, unspoken>>
       ELSE EndRun(1, "prices-fetch")
    /\ UNCHANGED <<now, files, notice, incidents, ghosts>>
----------------------------------------------------------------------------
(* The operator and the clock.                                             *)

RunSpine ==
    /\ AtPrompt /\ inbox # {} /\ SpineAccepts
    /\ \/ SpineTakes(TRUE) /\ UNCHANGED incidents
       \/ SpineTakes(FALSE) /\ Incident
    /\ UNCHANGED <<now, malformed, store, channels, job, fetch, ghosts, unspoken>>

Author ==
    /\ AtPrompt /\ Incident
    /\ inbox' = inbox \cup {[instrument |-> "event", day |-> Today, price |-> "sane"]}
    /\ UNCHANGED <<now, log, malformed, store, uncaptured, rows, channels, job,
                   fetch, push, ghosts, unspoken>>

\* Between two runs, the refused marks are taken out, or replaced by marks the
\* gate accepts.  (Edited under a running job, a mark just fetched can be lost.)
ReviewInbox ==
    /\ job.step = "idle" /\ Refused(inbox, log) # {}
    /\ \/ inbox' = inbox \ Refused(inbox, log)
       \/ inbox' = {[m EXCEPT !.price = "sane"] : m \in inbox}
    /\ UNCHANGED <<now, log, malformed, store, uncaptured, rows, channels, job,
                   fetch, push, incidents, ghosts, unspoken>>

BreakLog ==
    /\ ~malformed /\ Incident
    /\ malformed' = TRUE
    /\ UNCHANGED <<now, log, inbox, store, uncaptured, rows, channels, job,
                   fetch, push, ghosts, unspoken>>

MendLog ==
    /\ malformed
    /\ malformed' = FALSE
    /\ UNCHANGED <<now, log, inbox, store, uncaptured, rows, channels, job,
                   fetch, push, incidents, ghosts, unspoken>>

\* pnpm push folds before it opens the database.
PushByHand ==
    /\ AtPrompt /\ AssertLogFullyLoaded /\ Incident
    /\ push' = [push EXCEPT !["hand"] = FoldAnchor(AsOf(log))]
    /\ UNCHANGED <<now, files, channels, job, fetch, ghosts, unspoken>>

Tick ==
    /\ now < 2 * LastDay + 1
    /\ now' = now + 1
    /\ crossed' = (crossed \/ (job.step # "idle" /\ TradingDayAsOf(now + 1) # Today))
    /\ UNCHANGED <<files, channels, job, fetch, push, incidents, overlapped, unspoken>>
----------------------------------------------------------------------------
FetchSteps(f) == UpsertQuotes(f) \/ EmitMarks(f)

JobSteps ==
    \/ WriteOperatorFailureNotice \/ Fire \/ OpenWindow \/ BeginFetch
    \/ FetchSteps("job") \/ EndFetch \/ Spine \/ Commit \/ PostCheck \/ WriteGapReport
    \/ WriteOperatorNotice \/ BackfillFold \/ Upsert("job") \/ Complete

Operator ==
    \/ BeginRecovery \/ FetchSteps("hand") \/ RunSpine \/ Author
    \/ ReviewInbox \/ BreakLog \/ MendLog \/ PushByHand \/ Upsert("hand")

Next == JobSteps \/ Fail \/ Killed \/ Operator \/ Tick

Spec == Init /\ [][Next]_vars

\* Time passes; launchd keeps firing the job and its steps end; the operator mends
\* what stands in the way and finishes what he started.
FairSpec ==
    /\ Spec
    /\ WF_vars(JobSteps) /\ WF_vars(Tick)
    /\ SF_vars(ReviewInbox) /\ WF_vars(MendLog \/ Upsert("hand"))
----------------------------------------------------------------------------
(* Properties.                                                             *)

Entries == [instrument : Instruments \cup {"event"}, day : Days]
Marks   == [instrument : Instruments \cup {"event"}, day : Days, price : {"sane", "wild"}]
Answers == {NoBar} \cup [date : Int, price : {"sane", "wild"}]
Fetches(asked, answered) ==
    [phase : {"idle", "store", "emit", "scan"}, asOf : Days \cup {NoDay}, emit : BOOLEAN,
     bars : [asked -> Answers], fix : Int, images : [answered -> SUBSET Days],
     marks : SUBSET Marks, fresh : SUBSET Marks]
FetchOK(run) ==
    /\ \E asked, answered \in SUBSET Instruments : run \in Fetches(asked, answered)
    /\ run.phase = "store" => DOMAIN run.images = Succeeded(run.bars)
    /\ run.phase # "idle" => run.asOf \in Days

\* Types of every variable.
TypeOK ==
    /\ now \in 3 .. 2 * LastDay + 1
    /\ log \in SUBSET Entries /\ log # {}
    /\ inbox \in SUBSET Marks
    /\ store \in [Instruments -> SUBSET Days]
    /\ heartbeat \in [exit : {0, 1}, step : Steps \cup {"none"}, marked : Days \cup {NoDay}]
    /\ notice.kind \in {"none", "data", "failed", "unchecked"}
    /\ notice.kind = "data" =>
          notice.named \subseteq Days /\ notice.withheld \in Days /\ notice.until \in Days
    /\ rows \in [Days -> RowStates]
    /\ job \in [step : Steps \cup {"idle", "trap"}, window : BOOLEAN,
                carried : Days \cup {NoDay}, anchors : SUBSET Days]
    /\ DOMAIN fetch = Fetchers /\ \A f \in Fetchers : FetchOK(fetch[f])
    /\ push \in [Fetchers -> Pushes]
    /\ incidents \in 0 .. MaxIncidents
    /\ {malformed, uncaptured, crossed, overlapped, unspoken} \subseteq BOOLEAN

\* From the start of a run until it writes the notice, the notice tells of the
\* failure on file, whichever write of the run that failed was the last to land.
FailureIsTold ==
    job.step \in BeforeNotice /\ PreviousRunFailed =>
        notice.kind = "failed" /\ notice.step = heartbeat.step

\* The day the heartbeat says was marked has marks in the log, as long as no run
\* went over midnight.
StampIsEarned ==
    ~crossed /\ heartbeat.marked # NoDay => HasMarks(log, heartbeat.marked)

\* Once a run in the window is on record: if neither the breadcrumb nor the notice
\* has anything to say, no day that is over lacks its marks, as long as no run went
\* over midnight; nor does the day the heartbeat says was marked.
AllClearIsTrue ==
    /\ StampIsEarned
    /\ ~crossed /\ heartbeat.marked # NoDay =>
        (FormatHeartbeatWarning(heartbeat, now) = {} /\ SaysAllWell(notice) =>
            \A day \in BoundedEraFloor(now) .. DueThrough(now) : HasMarks(log, day))

\* A notice made from the data names every day of its window still lost or counts it
\* among the withheld, and never a day that was not over.
EveryDayAccounted ==
    notice.kind = "data" =>
        LET lost == {d \in EraStart .. notice.until :
                        d > notice.until - MaxWindowDays /\ ~HasMarks(log, d)}
        IN  /\ Cardinality(lost \ notice.named) <= notice.withheld
            /\ notice.until < Today

\* Every mark of a feed, queued or logged, has its quote in the store, as long as
\* no two fetches overlapped: the quotes of other days survive each upsert.
MarkHasQuote ==
    ~overlapped =>
        \A m \in log \cup Ids(inbox) : m.instrument \in Instruments => m.day \in store[m.instrument]

\* In the end every anchor of the log has its row, folded from the log as it is,
\* whatever pushes of older folds landed in between.
ProjectionCatchesUp ==
    <>[](\A d \in Days : rows[d] = IF d \in Anchors(log) THEN "current" ELSE "absent")

\* "A no that isn't" is the one failure the phone cannot have (verdict.ts 398-403).  When
\* its table is current and nothing needs you: the latest anchor is of today or yesterday,
\* its reserve is not below its floor, and no venue that owed marks left none in the
\* window before it or on its day.  A value withheld for a missing mark is explained by
\* the line, and a floor that is breached has been for a day at least.
NoMeansNo ==
    LET blocks == [d \in Anchors(log) |-> BuildGlanceBlock(log, d)]
        latest == AsOf(log)
        verdict == ComputeVerdict(blocks, latest, now)
        since == latest - VENUE_DARK_WINDOW_DAYS
    IN  (\A d \in Anchors(log) : rows[d] = "current") =>
            /\ ~verdict.needsYou =>
                    /\ Today - latest <= 1
                    /\ ~BelowFloor(blocks[latest])
                    /\ VenueDark(log, {d \in since .. latest : d >= EraStart}) = {}
            /\ verdict.slots.fundValue # "rendered" => verdict.line \in {"freshness", "feedGap"}
            /\ verdict.line = "reserveFloor" => verdict.breachDays >= 1

\* What the script says of the stamp, without the exception for midnight.
StampedDayIsMarked == heartbeat.marked # NoDay => HasMarks(log, heartbeat.marked)

\* What the script says of step 0: of a run that died without its trap, the next
\* run speaks.
KilledRunIsTold == unspoken /\ job.step \in BeforeNotice => notice.kind = "failed"
================================================================================
