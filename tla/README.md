# A TLA+ verification of numisma

numisma keeps the book of a small fund: reserves of cash split into capital tiers,
positions made of lots, prices, a ladder of orders. There is no server and no lock
daemon. A handful of commands, some typed by a person and some started by a schedule,
read and write files in one directory, and everything that is shown is a fold of those
files. What can go wrong is therefore of two kinds:

- an event is accepted that the fold cannot apply, or applies to something other than
  what the gate looked at;
- two processes, or a crash, leave the files in a state no single run would have left,
  or a reader between two writes sees one.

The modules here model both, in the order of how much depends on them.

## 1. Inventory

Paths are below `src/`.

### Components, their state and their operations

| component | state | operations | here |
|---|---|---|---|
| **sidecar append** `packages/preferences/src/sidecar-io.ts` | `<file>.jsonl`, `<file>.lock`, temp files | `appendSidecarLines` under `withAppendLock`: read all, write a temp file, rename | modelled |
| **event fold** `packages/engine/src/events/fold.ts` | none: book = fold(seed, log) | one arm per verb; order by date; discard channel | modelled |
| **ingest gate** `packages/engine/src/events/{crossref,ingest-walk}.ts` | the reference, rebuilt after every accept | `crossReferenceEvent`, `walkPendingInbox` | modelled |
| event and review parsing `engine/src/{parse,internal}.ts`, `events/parse.ts` | none | what a line or a review must state | partly |
| composition and report `engine/src/compose/*` | none | canonical lines, sections, closed book, dependencies of a row | partly |
| profit split `engine/src/profit-split.ts` | none | running total, peak, obligation | modelled |
| **durable log** `apps/tui/src/{event-store,ingest-commit,spine}.ts` | `events.jsonl`, `head-digest.json`, git, `ingested/` | `ingestInbox`: read, walk, append, capture, archive | modelled |
| **price-feed inbox** `apps/price-feed/src/{inbox,atomic-write}.ts`, `engine/src/price-feed/inbox-merge.ts` | `inbox/transactions.json` and its `.tmp` | `emitMarksToInbox`: read, merge by id, write, rename | modelled |
| **order records and selectors** `engine/src/orders/*` | none: rungs = fold(`orders.jsonl`) | writing and reading a line, `foldOrderStream`, resting rungs, booked fills, `reconcileFillActs` | modelled |
| **fill act** `apps/tui/src/record-fill.ts` | a lot in `events.jsonl`, a line in `orders.jsonl`, a line in `reconciliations.jsonl` | `recordFill`: read, ask, write both, roll back, tell | modelled |
| **orders import and cancel** `apps/tui/src/{import-orders*,cancel-order}.ts` | appends to `orders.jsonl` | parse, merge, filter, attribute, ask, weigh, append | modelled |
| available and committed capital `engine/src/orders/{available,coverage,committed}.ts` | none | what a reserve has left | modelled |
| plans and reconciliations `engine/src/{plans,reconciliations}.ts` | two more sidecars | what is in force on a date, and how a fill compares | modelled |
| fill path and log digest `engine/src/fill-path.ts`, `orders/monotonicity.ts` | none | the join of orders and rungs | modelled |
| price marks, calendars, registry `engine/src/price-feed/*` | none | who owes a mark on which day | modelled |
| price fetch `apps/price-feed/src/*` | the store of raw quotes | providers, rejection scan, `upsert` | partly |
| gap report `packages/event-store/src/gap-report.ts` | none | days due, lost, dark | modelled |
| heartbeat, operator notice `packages/event-store/src/*` | two small files, overwritten | who ran last, what the operator must read | modelled |
| **daily job** `ops/price-feed/run-daily-fetch.sh` | exit codes, a watchdog | fetch, spine, commit, reports, backfill | modelled |
| web push and projection `apps/web/src/{push,projection}/*` | a database | upserts of the folded book, backfill | partly |
| log reading, quarantine `packages/event-store/src/event-store.ts` | none | `loadEventLog`, `assertLogFullyLoaded` | partly |
| sidecar loaders `packages/preferences/src/*` | none | lines understood and lines skipped | partly |
| web pages, sign-in `apps/web/src/*` | none | the glance verdict and the alerts of the fill path; text out | partly |
| legacy migration `apps/tui/src/migrate-legacy-log.ts` | rewrites `events.jsonl` once | `migrateLegacyLog` | no |
| terminal dashboard `apps/tui/src/*` | panes | rendering | no |

### How they interact

```
 person ──┐                                        git (log, digest)
          ▼                                          ▲
  price-feed ──merge──▶ inbox ──spine: walk, append──┴─▶ events.jsonl ──fold──▶ book ─┐
   ▲      │               │         ▲   gate reads fold(log)   ▲   ▲                  │
   │      └─▶ prices/     └─archive─┴─▶ ingested/              │   └─ orders:fill     │
   │                                                           │       (1) a lot      ▼
 daily job ── fetch, spine, commit, check, notices, backfill   │       (2) a line    push ─▶ table ─▶ page
                                                               │       (3) the trail  ▲
  orders:import, orders:cancel, editor ──sidecar append──▶ orders.jsonl, plans.jsonl ─┘
```

The arrows are file accesses. Only the sidecar append takes a lock; the log and the
inbox are read, extended and renamed by whoever runs, and the order of runs is what
launchd's per-label singleton gives (`run-daily-fetch.sh:21-30`).

### What is hard, and what makes each component right

- **sidecar append**: two writers from one image; a dead holder; a refusal racing a
  release; a failing call inside a `finally`. Right if a batch reported written stays,
  whole and once, and every append ends.
- **fold, gate and report**: events come in any order of dates and are applied in the order
  of their dates, so the state a candidate is judged against is not the state it is applied
  to. Right if nothing accepted is discarded, cash and lots are conserved, no debit
  overdraws, the price that values a position is the one the report compares it with, and
  what the report adds up is what was paid in and what was made of it.
- **durable log and inbox**: a crash between append and archive; a refusal in a batch; a
  git capture that fails half way; a second process in the middle. Right if every record
  that reached the inbox is logged exactly once, the inbox is never torn and git holds a
  past of the log.
- **fill act**: two files, no transaction. Right if the residual window errs one way, is
  never compounded, and what the operator is told is what is on disk.
- **orders**: observations arrive late and in any order, decisions are made on a read from
  before an interview, and a fill is stamped when it happened, not when it is recorded.
  Right if no rung is booked past its size, no reserve promised past its balance, no
  observation lost and no cancelled rung revived.
- **daily job**: every step may fail or be cut short, and the clock goes on. Right if a
  failure is told until somebody has read it, and silence means that the days are marked.
- **push and page**: three files read one after the other. Right if what is shown as torn
  was torn, what cannot be known is not shown as known, a page that says that nothing needs
  the operator is right, and the table catches up.

`PROJECT.json` lists the hazards one by one with the line where each bites.

## 2. Modules

| module | lines it models | what it is |
|---|---|---|
| `AppendLog` | `sidecar-io.ts` from outside | the promise: whole batches land in one step, at the end, and only a landed batch is acknowledged |
| `SidecarAppend` | `sidecar-io.ts:165-266` | the protocol, one action per system call, with failures, deaths and restarts |
| `Review`, `EventParse` | `parse.ts`, `internal.ts`, `events/parse.ts` | what the seed and an event must state |
| `EventFold` | `fold.ts` | the fold as operators: one per verb, `Apply`, `Finish`, `FoldEvents` |
| `CrossRef` | `crossref.ts` | the gate as predicates: one `Accepts…` per verb, over the folded book and the log |
| `Composition` | `compose/*`, `profit-split.ts` | the report of a book: lines, sections, closed rows, dependencies |
| `Ledger` | `ingest-walk.ts:160-242` | a log that grows by accepted events, the book it folds to and the report of that |
| `Ingest` | `event-store.ts`, `ingest-commit.ts`, `inbox.ts`, `atomic-write.ts`, `inbox-merge.ts` | the files and processes of the write path |
| `Lists`, `Orders` | `orders/{select,committed,fill}.ts` | the order stream as functions |
| `OrderRecords` | `orders/records.ts` | what a line of `orders.jsonl` is written as and read back as |
| `FillAct` | `record-fill.ts:618-1083` | the act on two files, and what else is written meanwhile |
| `OrderImport` | `import-orders*.ts`, `cancel-order.ts`, `orders/{ingest,bitget,attribution,available,coverage}.ts` | two commands that decide on a read and append later |
| `Plans` | `plans.ts`, `reconciliations.ts` of the engine and of the preferences | readings of two sidecars |
| `FillPath` | `fill-path.ts`, `monotonicity.ts`, `dca-block.ts`, the views | what of a ladder is shown |
| `Ladder` | `record-fill.ts`, `push-core.ts`, `import-orders.ts` | composes `Orders`, `Plans` and `FillPath` with a venue, an operator and a push |
| `PriceFetch`, `GapReport`, `Projection` | `price-feed/*`, `event-store/*`, `push/*` | what a fetch makes of answers, what a report makes of the log, what a push makes of the table |
| `Glance` | `apps/web/src/glance/verdict.ts`, `push/glance.ts` | the block of an anchor and the verdict of the page |
| `DailyJob` | `run-daily-fetch.sh` and what it calls | composes the four with a schedule, a watchdog, a clock and an operator |
| `MC…` | | constants for TLC |
| `LogLemmas` | | lemmas about logs, sums and induction, and about the fold of the order stream |
| `SidecarAppendProofs` | | the append protocol: its invariant, and that it implements `AppendLog` |
| `LedgerProofs`, `IngestProofs`, `FillActProofs`, `OrderImportProofs`, `DailyJobProofs`, `LadderProofs` | | the theorems of the six other modules |

The data modules build on one another: `Review`, `EventFold`, `EventParse`, `CrossRef`,
`Composition`, `Ledger` each extend the one before; so do `PriceFetch`, `GapReport`,
`Projection`, `Glance`, `DailyJob`; `FillPath` extends `Orders` and `Plans`, `OrderImport`
extends `OrderRecords`, which extends `Orders`.

### State and actions, and the code

**SidecarAppend.** `file` is the sidecar with a flag for whether its last line is
terminated; a line is its writer, append and position, and `Mangled` stands for a line
two records were run into. `pc` walks `locking → reading → writing → renaming → cleaning
→ unlocking`, the states between `open("wx")` and `rm(lockPath)`. `Retry` and `Refuse`
replace the clock by a number of tries. Any call may fail (`LockFails`, `BodyFails`,
`CleanupFails`), a process may die anywhere (`Crash`), and a person removes a lock
(`ClearLock`) or edits the file (`HandEdit`) only when nothing runs, which is what the
message of the refusal asks for (`sidecar-io.ts:200-204`).

**EventFold, CrossRef, Ledger.** The book is a record: `positions`, `reserves`, `closes`,
`closedBook`, `latestMark`, `invalidation`, the three maps that say which closes the fold
minted itself (`fallback`, `seeded`, `anchors`) and `skipped`, the discard channel. Amounts
are integers. Where the code divides, a removal over the lots of a tier rounds the shares
as they add up, so that they come to what is removed and no lot gives more than it holds,
as real shares do; the cash of a sale gives the last tier the rest, which is the rule of
the code. The tolerances the code has for float dust (1e-6, 1e-9, 1e-12) are zero here.
`Ingest(e)` is one candidate of the walk: it is enabled exactly when the line parses and
the gate accepts, and rebuilds the book from the whole log as the code does. A rejected
candidate changes nothing, so it is no step.

**Composition.** Dollars are counted in `FxScale`-ths, so that an amount divided by any
rate in use is whole. A capital record becomes one line or an exclusion with the codes of
its warnings; sections are sums over the lines, and cash lots are summed by tier. Labels,
percentages and the order of rows are left out.

**Ingest.** A record is its id, and the gate between records is a set of pairs that do not
go together (`Clashes`): what matters to the write path is only that a record may be
refused because of another. `temp` is the single name `atomicWrite` uses. `fd` keeps what
an open file goes by after another process has renamed it, as the kernel does. `loud`
says whether any process has ended in an error. `index` and `head` are git's two copies.
`overlap` is chosen at the start: whether processes may run beside one another.

**Orders, FillAct.** The fold of the stream is an insertion sort by stamp followed by a
left fold, both recursive functions, as are `Kept` and `Total`. `records` and `prior` are
the reads made before the interview, `image` the read made just before the first write.
The interview is `Confirm` with any rung, any quantity up to the ceiling and any further
cancellations; all that can refuse (gate, verdicts, funding, an answer of no) is
`Decline`. `Observe` is what imports, cancellations and editors append, in any order of
stamps. `Repair` is the remedy the refusal names.

**OrderImport.** `StartImport` takes an export, `LoadOrders` reads the file and weighs the
rows (`Parsed`, `MergeCollidingClaims`, `DetectChangedClaims`), `Answer` is the interview
with its declarations of reserves and rungs, `Write` the append, `LoadCancel` the start of
a cancellation, `Stop` any refusal. `RecordFill(excess)` is a fill act from outside, at once,
of any quantity that rests, stamped at any second from the placement on, before or after what
was observed (`record-fill.ts:676-690` asks no more), at the price or `excess` above it; it
debits the cash from the balance. The funds a command weighs are what they were when it read
them; `overlapped` says that a line was appended on a stale read.

**Ladder.** The venue's orders are placed, fill in steps and are cancelled there
(external: the code sees them through exports); `Import`, `Cancel` and the steps of an act
write what the operator saw of them. The order inside an append, the staleness of the
interviews and the balances are `FillAct`'s and `OrderImport`'s. One step of the clock
stands for a second and for a day. A push folds the log and reads the plans, then reads the
orders, then the log again, one action each (`push-core.ts:155-170, 377-406`); anything may
be written in between. `seen` is history: the acts that were torn since the push began.

**DailyJob.** The script is a `job` record with the step it is at; each step is an action,
`Fail` ends it with a non-zero code through the trap, `Killed` without one. Time is in half
days, before and after the mark hour. The operator recovers a lost day, runs the spine,
authors an event, mends the log, empties the inbox and pushes by hand. What the spine does
inside is `Ingest`'s; here it takes the whole inbox or nothing.

### What the compositions leave to each other

`FillAct` takes a sidecar append as one step that lands, fails with nothing written, or,
with `Uncleaned`, fails with everything written: those are the outcomes `SidecarAppend`
is proved to have (`ImplementsAppendLog`). `Ingest` takes the gate as `Clashes`, and
`Ledger` has its rules; `Ledger` takes the log as reliable, which is `Ingest`'s subject.
`Ladder` and `OrderImport` take a fill act as `FillAct` shows it to be.

## 3. Runs

| run | instance | distinct states | shows |
|---|---|---|---|
| `sidecar_append` | 3 processes, 1 append each of 1 or 2 lines, 1 retry, 1 hand edit | 455,949 | exclusion, no acknowledged batch lost, no litter; refines `AppendLog`; every append ends |
| `ledger` | 3 seeded reserves, 1 seeded position; up to 4 trading events on 2 days in order, up to 5 dated events on 3 days in any order, up to 6 that close a position twice, up to 3 of every kind reported | 41,432 | conservation of cash and lots; in the order of the dates nothing discarded and no overdraft, but for an untiered reserve that pays several tiers; no verb finds its target gone or unborn; marks agree with closes; the report balances |
| `ingest` | 1 spine, 2 feeds with a mark in common, 1 typed record that clashes with a mark; 3 faults one at a time, or overlapping with 1 | 410,918 | the log sound and git a past of it; without overlap nothing is lost and in the end all is logged |
| `fill_act` | 1 operator, rungs of 2 and 1, 2 stamps, 3 order lines, 2 faults | 323,441 | one torn act at most, on the safe side; reports stay true; no rung overbooked |
| `order_import` | 2 processes (symmetric), 2 stamps, 3 appends, a reserve of 3, fills stamped before and after what was observed, fees of 0 or 1 | 184,481 | no reserve promised past its balance by more than was debited for fills stamped before an observation on file; re-imports idempotent; no rung taken twice or revived |
| `daily_job` | 3 days with a weekend day, a coin and a derived equity, a fund whose reserve falls below its floor, 1 incident | 489,484 | failures told, stamps earned, silence true, every day accounted for, quotes kept, a page that says no means no, the table catches up |
| `ladder` | 2 orders of one price, sizes 2 and 1; 2 stamps, 3 order lines, 1 incident | 482,352 | readings certain, the trail true, tears real, unrecorded fills flagged, orphans counted |
| `ledger_short_trim`, `ledger_overdraft`, `ingest_loss`, `fill_act_uncleaned`, `order_import_late_fill` | the smallest that show each finding | | section 6 |

### Bounds, and why they are enough

- *SidecarAppend.* The races are between a holder, a process that waits and one that
  arrives after the lock was cleared: three. A batch of two lines can be torn, of one
  cannot. A second append of one process is a fourth process, from the file's point of
  view. The proofs remove these bounds for the safety properties and the refinement.
- *Ledger.* Quantities and prices are chosen so that shares do not divide evenly, tiers can
  run dry, a position can be emptied exactly, and a magnitude check can fall on either
  side. Logs of four reach open, add, trim, close in order; five reach them in every
  order of dates; six are the fewest with which a close that was discarded is accepted again
  and the first one revived by an add dated before it; three reach every pair of a purchase
  and a sale in another currency, at another rate. The four sets of candidates are disjuncts
  of one specification, because the questions are different: money needs many verbs on few
  dates, dates need few verbs on many.
- *Ingest.* Three faults allow a crash after the append, one while recovering, and one
  failing git call. Two feeds share a mark, so that one re-emits what the other logged.
- *FillAct.* Two faults are a failing append whose rollback fails, or a torn act followed
  by a crash in the next. Two rungs allow an act to cancel the other.
- *OrderImport.* Two commands are the fewest that can decide on one read. The exports
  agree, restate, amend, collide and fail to parse. The file starts with two observations
  in the wrong order, which two overlapping imports leave. Two stamps put a fill before,
  with or after an observation. `order_import_late_fill` needs one process, a reserve of 4
  and 4 appends: one observation and three fills of it, the first with a fee.
- *DailyJob.* Two week days and a weekend day; a venue of every day and one of
  week days; one failing answer, step, process, line or unforeseen push.
- *Ladder.* `MCSpec` lets writes fall only into a push that starts while an act is about to
  write, which both of its writes may; a push that no write falls into publishes what the
  invariants look at in every state. The theorems are about `Spec`, which has every push.
  Two orders at one price are the fewest that a rung can be confused between, and
  two lots of one quantity the fewest that the join by quantity can.

`CHECK_DEADLOCK FALSE` stands where the bound on a counter or on the length of a log ends
a behaviour. `Ingest` and `DailyJob` need no such line: their schedule can always go on.

### Fairness, and why the code justifies it

- `SidecarAppend`: weak fairness of `Advance(w)`, a live process makes progress. Nothing
  is owed of a restart, a hand-cleared lock, a failure or a crash.
- `Ingest`: weak fairness of the steps of a run that started; strong fairness of
  `ReadInbox`, the start of a spine, because the schedule starts one every hour and a run
  that overlaps it ends (`run-daily-fetch.sh:12-30`). Nothing is owed of a person or of
  another fetch. `EventuallyLogged` stops at a batch that holds a record the gate refuses,
  which only a person resolves.
- `DailyJob`: weak fairness of the job's steps, of which starting is one, and of the clock;
  weak fairness of mending a broken log and of finishing a push that has folded, strong
  fairness of reviewing an inbox that the gate refused: the script stops at both until
  the operator acts, and says so. Failures are bounded by `MaxIncidents`, so that
  `ProjectionCatchesUp` speaks of what follows the last of them.
- `FillAct`, `OrderImport`, `Ladder` and `Ledger` have no liveness property: a person
  drives them.

## 4. Proofs

Each theorem below is proved for every value of the constants that the module's named
assumption allows; TLC evaluates those assumptions in the runs. `PROJECT.json` lists the
theorems one by one.

**`SidecarAppendProofs`**, the protocol (`TypeCorrect`, `Exclusion`, `NothingLost`, `OnlyAppends`,
`NoneLitters`). The invariant `IInv` adds four facts to the properties. `LockHeld`: a live
process in the critical section finds the lock on disk. Exclusion is not inductive without
it. `Fresh`: between its read and its rename, the image a process holds is the file *as it
is now* plus its own batch. It is what the lock is for, and it needs exclusion, because
another rename would make it false, and the restriction of hand edits to quiet times.
`Landed`: after its rename and until it resolves, a batch that has not failed is in the
file. `TempsOwned`: a temp file is that of a running append, or its owner's end is on
record. `NoLostBatch` then follows at `Unlock`, and survives later renames because each
publishes the current file plus lines.

The refinement (`Refinement`: `Spec => ImplementsAppendLog`). Every step of the
protocol is a step of `AppendLog` or a stutter. `Begin` is the call; the rename is where the
batch lands, and only there; the end is the answer. What relates the two is `RInv`: beside
`IInv`, `Numbered` (the appends of a process are numbered, and only numbers begun are on
file, pending or answered, so that no batch lands twice) and `EditsKept` (the lines typed by
hand are counted in the file). A refusal maps to a call that was never answered with
success, which is the property a caller relies on.

**`IngestProofs`**. Two invariants, because two things are at stake and they hold under
different conditions. `LogInv`, when processes do not overlap *or there is one spine*,
says what a spine may rely on at each step: what it walked is the log as it is, what it
staged is a past of it (`SpineHolds`). From it `SoundLog` and `CommitsThePast`. `KeepInv`,
when processes do not overlap, says what a feed and a spine hold of the inbox
(`FeedKeeps`, `SpineKeeps`), and that no record is lost between. From it `NoneIsLost` and the
action property `WholeInboxOrNothing`. Crashes and failing calls are in all of them.

**`FillActProofs`**, under `~Overlap` and `~Uncleaned`, the two conditions under which the
code claims it (section 6 shows what happens without). `WholeInv`: the acts run one at a
time; before it writes, an act has seen the two files agree but for what it is about to
mend; at most one lot is without its fill, and no fill without its lot; an image to be
written holds every lot reported. From it `TearsOneWay` and `ReportsStayTrue`. `BookedInv`
relates the two files by figures: every placement is at the size of its rung, a lot is
logged once, what the fold says the fund booked on a rung is what the lots of the log add
up to, but for the act in hand or torn (`Accounted`), it fits the size (`Fits`), and the
ceiling an act was given when confirmed still holds when it is written (`RoomLeft`). From it
`NotOverbooked`: observations that are imported meanwhile, in any order of stamps, set what
a rung has consumed and never what was booked. `LogLemmas` has the facts about the fold:
the replay holds the lines of the file and no others, sorting is stable, the booked fills
of a file that grows are those of the two parts.

**`DailyJobProofs`**. `RunsInOrder` (the invariant `InOrder`) is what all others stand
on: which step a run is at bounds what the trap, the watchdog and the fetch may have done.
`FailuresAreTold` follows from it at once, though each of the trap's two writes may be cut
short. `NoticesAccount` holds by counting: the days a notice names and those it withholds
are the days lost when it was made, and a day in the log never leaves it. `StampsAreEarned`
follows a mark from the answer that holds it to the store, the inbox and the log before the
heartbeat may name its day (`Landing`); it needs that a registry holds an instrument of the
daily venue (part of `DailyJobAssumption`, and true of `registry.ts`), or a stamp is earned
by fetching nothing. `NoticesKeepUp` is the relation of the two channels (the notice is no
older than the stamp), and `SilenceIsTrue` combines the last three. `QuotesSurvive` follows
from `QuotesKept`: an image of the store that a fetch is about to write holds what is
on disk. The conditions `~crossed` and `~overlapped` are inside the properties, and section
6 shows why. `SilenceOnThePhone` is about one state: a table that is current holds the blocks
of the log, the days between a breached floor and today are counted from it, and a venue that
left no mark in the window of a block is in the list it carries (`DarkIsNamed`). It holds
for every log, so it needs no more than the types.

**`LadderProofs`**. `TypeCorrect` rests on `TypeInv`, which types every variable. `PathInv`
says where the act in hand stands between the three files (`ActStands`), and that every
fill on file has its lot, and keeps of a push in progress that the orders it has read are a
past of the file, each with its lot in the log as it is now (`PushSees`). "The log is
written first and read last" is then `TearsAreReal`: a fill the push has read has a
lot in the log it reads later, and a lot without a fill was without one when the orders
were read or was written since. Other commands may run beside the push, and a push looked
at later shows what was seen. `CutTearsNothing` is the lemma that cutting both readings at
the day of the push adds no tear. `TrailFollows` comes from the same invariant.
`ReadingsAreCertain` is about the readers alone: a line that was skipped, had it said
something else, changes a selection only where the selection already said that it could not
tell (`IsPatch`; `PlansAssumption` says that every plan line states what `loadPlans` looks
at). `FillsAreFlagged` needs `GrowInv`: what the file tells of an order starts at its placement
and only grows (`Watched`), so that the latest observation is the largest. `OrphansCounted`
needs `MatchInv`: a lot and the fill of its act are of one size, each written once, so that
matching by quantity leaves over as many lots as were not bought.

**`LedgerProofs`**, under `CandidatesAssumption` (the seed parses, the figures of the
candidates are numbers). `IInv` has three parts: `Admissible`, what the gate lets into a log
whatever its dates; the book is the fold of the log, which the walk rebuilds; and closes come
last of their positions, unless one was discarded. `IsFoldOf` tells the book from the events
alone, after any number of steps in the order of the dates: what is discarded and why
(`SkipsOf`), where the levels come from (`LevelsOf`), the cash as a sum of effects
(`CashOf`), the lives of the positions and their closed rows (`LivesOf`). It is proved one
step at a time, verb by verb (`IsStep`). From it `NothingInvented` (conservation) and
`TargetsAreThere`. `OrderIsExact` is about logs in the order of their dates: there the book
the gate judged is the book the event is applied to (`Story`), what it weighed is there to be
paid and sold (`Admits`), and each step keeps the book tidy, the lots accounted for and the
reserves solvent (`Keeps`: `Tidy`, `Accounted`, `SolventWith`). It asks that the seed owes
nothing (`SeedIsSound`), because the parser of a review lets a reserve state any amount, and
leaves out an untiered reserve that paid for several tiers, which is finding 2.

**`OrderImportProofs`**, under the assumptions that the file the commands start with is one
they could have written (`FileAssumption`, `BookAssumption`). `IInv` types what each process
has in hand and says that it is news about the file it was read from (`Held`, `IsNews`,
`IsDated`): enough for `NothingComesBack` and, with the accepted joins, for `ProposedToOne`.
`BookInv` adds the figures until a line is appended on a stale read: each rung is placed once, what
it consumed is what is known filled of it, an import reported is on file, and each reserve,
with what was debited of it late, carries its rungs (`Backing`). A fill stamped after the
observations of its rung frees what it costs; one stamped before an observation on file
frees nothing, and its cost goes to `DebitedLate`, which no later line takes back
(`LateGrows`, `LateFillCounts`); either way the two sides move together (`FillIsBacked`). From
it `CoveredByReserves`, without a condition on stamps, and `ImportIsOnFile`.

### What the proofs changed

Trying to prove found what TLC had not: that `AllClearIsTrue` needs a run on record (with
none, both channels are silent, see section 6); that `EveryDayAccounted` must count in the
window of the notice and not of today; that a feed's list of marks must not repeat one,
which the code's keys see to; and that a few `CASE` expressions had overlapping branches,
of which TLC takes the first and TLA+ any: they are now `IF … ELSE IF` in the order of the
code's returns. Later ones:

- The step of `OrderIsExact` for an opening failed, because a reserve without tiers is weighed
  once per tier of the price: finding 2. The same proof showed that rounding each lot's share
  by itself let a lot give more than it holds, which real shares do not; the shares are
  now rounded as they add up.
- `NoAbsentTarget` was false of six events, which no run reached: opened on day 2, trimmed
  and closed on day 4, a trim of day 3 then empties the position, so that the close is
  discarded; it is accepted again, and an add of day 3 revives the first, and the second finds
  the position gone (`crossref.ts:870-880`). The property now excepts positions of such logs,
  and `RevivedInAnyOrder` reaches them.
- `OrphansAreForeign` holds of what is left over *in number*: the join cannot tell lots of
  one quantity apart.
- `WithinBalance` first had the condition that no fill is stamped before an observation
  on file. The code asks no such thing, and it is the ordinary order of events: the venue
  fills, an import observes, the operator records. What is true without it is the bound that
  `WithinBalance` now states, and what the comments claim beyond it is finding 5.

### What is only model-checked

- *Liveness*: `AppendsEnd`, `EventuallyLogged`, `ProjectionCatchesUp`; and anything with
  `ENABLED`.
- *`Ledger`*: `HeldMarkMatchesClose` and `ReportedBalances`. The report is built from
  `SumFunction` over records, `FoldLeft` and `@@`, which the backends do not expand, and the
  closes an opening mints are found again by an index that an add remembers.

Where a fold had to be reasoned about (`ReplayOrder`, `FoldOrderStream`, `Kept`, `Total`,
`Walk`), it is a recursive function of a length, for which induction over `Nat` can be
stated as a set of numbers and proved without an operator parameter; the lemmas of
`LogLemmas` do so.

## 5. What is not modelled

- *Fold:* real-number rounding. *Parsing:* the wording of errors, the JSON, the migration of
  records of an old version. *Report:* labels, percentages, order, the drill-down views.
- *Gate:* the operator's widening of the magnitude threshold.
- *Write path:* the contents of the digest, readers that go on without a broken line.
- *Import:* texts of the cells and the interview's wording; a cell is the value it parses
  to or the fault that stops it. *Fetch:* the wire formats of the providers.
- *Push:* what the blocks of a snapshot say except the fill path; the database's own
  transactions; test fixtures (`push/fixture-synthesis.ts`).
- *Pages:* rendering, sign-in. *Dashboard:* keys, panes, text.
- *Legacy migration*: it ran once, alone. *Loaders*: field by field shape checks of
  lines other than plans, reconciliations and orders; the preferences.
- *Durability below the file system:* a rename that returned is taken to survive.

## 6. Findings

Each of the five has a run in which TLC reaches the state; `PROJECT.json` quotes the lines.

1. `ledger_short_trim`. A trim backdated before the lots it takes is judged against the
   lots of today while the position is open (`crossref.ts:1222-1228`), and the fold removes
   more than was held on its date: lots appear from nothing (`fold.ts:1041-1042`).
2. `ledger_overdraft`. A reserve without tiers is weighed against each tier of a price by
   itself: one of 5 accepts an opening for 4 of `c1` and 3 of `c2`, and ends at -2, against
   `crossref.ts:1477-1478` (`crossref.ts:1488-1497, 1069`).
3. `ingest_loss`. A feed that merges between a spine's read and its archive loses its marks
   with no process failing, against `run-daily-fetch.sh:28-30`.
4. `fill_act_uncleaned`. An append may throw when its lines have landed; the roll back of
   the log then leaves a fill without its lot, against `record-fill.ts:1053-1054`.
5. `order_import_late_fill`. After an import has observed a fill, recording it at its own time
   debits the cash and frees nothing, since the fold orders by stamp and sets what is
   consumed at the observation (`select.ts:216`). What the observation freed may have been
   spent by then: a reserve of 4 carries a rung of 4, an import observes 3, the first fill of 1
   costs a fee of 1, the next two leave a balance of 0 and 1 committed. The comments say that a
   fill cannot do that whatever shape the book is in (`record-fill-funding.ts:97-100`) and that
   what is available is never below zero (`available.ts:46-50`).

### Further counterexamples

Their instances are kept beside the runs, each with the one property it violates
(`tlc -config X.cfg M`).

| instance | what it shows |
|---|---|
| `MCLedgerEmptyClose.cfg` | two trims accepted behind a close, out of the order of their dates, empty the position; the close is discarded with its proceeds (`crossref.ts:343-344`, ADR-015:88-90) |
| `MCLedgerEarlyMark.cfg` | an instrument marked before anything holds it, then opened, has a latest close other than the mark it is valued at (ADR-003:63, `fold.ts:495-503`); so does one marked and then opened on one day |
| `MCLedgerPaper.cfg` | a paper position may be bought with a live reserve: the report leaves the position out and not the cash it cost (`context/ubiquitous-language.md:189-190`) |
| `MCLadderCountedTwice.cfg` | an order placed on file with a partial already observed, and that partial then recorded, has consumed it twice, until an observation of more sets it again (`select.ts:202-207`, `record-fill.ts:748`): the other side of finding 5, for a fill stamped after what was observed |
| `MCDailyJobMidnight.cfg` | a run that goes over midnight stamps a day that has no marks (`run-daily-fetch.sh:610-628`) |
| `MCDailyJobKilled.cfg` | a run that dies without its trap after a clean one is not spoken of by the next (`run-daily-fetch.sh:436-442, 491`) |
| `MCLadderNonOverlap.cfg` | an order inferred cancelled from the fills below it was filled (`monotonicity.ts:9-10`) |
| `MCLadderUntold.cfg` | a fill whose trail line failed leaves the position shown clean by an older line (`reconciliations.ts:433-507`, `preferences/reconciliations.ts:29-30`) |

### Observations

Each is what a constant or a condition of a passing run keeps out.

- A withdrawal dated before the deposit that minted its tier reaches the branch
  `fold.ts:207-208` calls unreachable, and the tiers of the reserve no longer add up.
- `MCFillAct` with two `Fillers` and `Overlap = TRUE`: both acts read the rung before either
  wrote, and it is booked past its size; and an event the spine appends between
  `readLogImage` and the write of the image is erased.
- `MCIngest` with two `Spines` and `Overlap = TRUE`: both judge the record against the log
  without it, and it is logged twice.
- Two imports that read one balance before either appends may promise it twice, and accept
  one rung for two orders: the condition `~overlapped` of `WithinBalance`.
- With a heartbeat that has no run of the window on record and an old notice with nothing
  in it, both channels are silent whatever days are lost (`heartbeat.ts:48-52, 120-126`).
- An order that is cancelled and whose rung is then placed again leaves its lot an orphan
  (`fill-path.ts:254-273`).

The comments of the code leave overlapping commands of a person outside what it promises
(`run-daily-fetch.sh:21-30`), so that these are limits, not contradictions.

## 7. What is left

Proofs: `HeldMarkMatchesClose`, from an invariant that says where the close an opening minted
stands in the list; then the algebra of the report, for which `Composition` would state its
sums as recursive functions of a length. Models: the readers of the log that go on without
a broken line (quarantine), the loading of the preferences, and the composition rows of
a snapshot that is pushed.
