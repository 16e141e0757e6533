# RetailSync: TLA+ models, checks and proofs

RetailSync is a multi-tenant back office for small shops: an Express/MongoDB
server (`server/`), a React client (`client/`) and shared zod schemas
(`shared/`). This directory models the part of it whose correctness depends on
the order in which things happen: bank statements that go through a queue of
jobs, ledger rows that people review while jobs rewrite them, money
transactions created in QuickBooks over a network that may fail, a scheduled
import behind a lock with a time limit, sessions whose tokens rotate under
several tabs at once, settings documents that several handlers load and save,
and pages of the browser whose requests are answered in any order. Everything
runs on Node: a handler is atomic between two `await`s and nowhere else, two
server processes share only MongoDB, and MongoDB makes one document update
atomic. No handler uses a transaction. That is the concurrency of the models.

## 1. Inventory

### 1.1 Ledger review and QuickBooks posting (modelled: `LedgerPosting`)

*State.* For every bank line a `LedgerEntry` (review status, proposal, posting
status, QuickBooks id) and a `StatementTransaction` that mirrors it; the push
status in `IntegrationSettings`; the transactions QuickBooks holds.
*Operations.* Edit, approve, exclude and bulk approve (`ledgerController.ts`);
the proposal writes at the end of `check.process` and in `matching.refresh`,
the rebuild of all rows by `statement.structure` (`accountingTaskRunner.ts`);
the `quickbooks.post_approved` job (`quickbooksSyncService.ts`).
*Interactions.* Handlers and jobs share the two documents and nothing else; the
job calls QuickBooks through `requestQuickBooksApi`, which repeats a call that
was answered 429 or 5xx.
*Hard.* Documents are loaded, changed and saved with other writers in between;
the posting job selects rows once and records ids later; a call that fails may
have created its transaction; entry and mirror are written separately.
*Correct when.* No bank line is booked twice, nothing is booked that no reviewer
approved, a row that says posted is, and entry and mirror agree.

### 1.2 Statement pipeline and job queue (modelled: `StatementPipeline`)

*State.* `BankStatement` (status, progress, issues), candidate rows,
`StatementCheck`s, tasks in Google Cloud Tasks.
*Operations.* create, reprocess, retry-check (`accountingController.ts`);
`enqueueAccountingJob` in its three dispatch modes (`accountingQueue.ts`); the
jobs `statement.extract`, `statement.structure`, `checks.spawn`,
`check.process`, `matching.refresh` and the catch block around them
(`accountingTaskRunner.ts`); the task route (`taskRoutes.ts`).
*Interactions.* A job ends by naming the next one; `checks.spawn` fans out one
job per check; each check job recounts all checks of its statement.
*Hard.* At-least-once delivery, jobs of one statement in parallel, mongoose's
version check on array fields, counts made of five separate queries, users who
reprocess or retry in the middle.
*Correct when.* Every check is finished, the statement says so, failures are
shown, and a rerun replaces what the earlier run left.

### 1.3 Scheduled sheets sync and POS import (modelled: `SheetsSync`)

*State.* One `JobLock` with an expiry; per company the schedule, the active
connector and `lastScheduledSyncAt` in `IntegrationSettings`; the shared Google
sheet; one `POSDailySummary` row per day.
*Operations.* `runSheetsSync` (`syncSheets.ts`), called by two cron routes
(`cronRoutes.ts`, `dailyAccountingSync.ts`), by a local scheduler and by hand;
the import a user commits and the clearing of the data (`posController.ts`);
the handlers that activate, edit and remove connectors.
*Interactions.* A run serves all companies in turn from one snapshot of the
settings; users' handlers write the same rows and do not take the lock.
*Hard.* Time passes between reading a schedule and acting on it; an import that
ends after midnight; a process that dies holding the lock; one company failing
among many; older rows written over newer.
*Correct when.* A due company is imported once a period, nobody is left behind
by a neighbour, and every day the sheet has ends up stored as the sheet has it.

### 1.4 Sessions (modelled: `AuthSessions`)

*State.* `RefreshToken` records, the browser's cookie, the access token in each
tab's store.
*Operations.* refresh, logout (`authController.ts`), the end of Google sign-in
(`authGoogleController.ts`), `requireAuth`, the interceptor that answers a 401
with a refresh and one retry (`client/src/app/api/client.ts`).
*Interactions.* Tabs share the cookie and nothing else; the server knows a
session only by the records.
*Hard.* Rotation is a find and then two writes; replies set the cookie in any
order and may be lost; every call refreshes for itself.
*Correct when.* A used token is worth nothing, a browser is not left with one,
and no call waits for ever.

### 1.5 QuickBooks connection and tax (modelled: `QuickBooksConnection`, `TaxDesk`)

*State.* `IntegrationSettings.quickbooks` (connected, realm, pull status), the
encrypted token pair in `IntegrationSecret`, the nonce cookie, the codes of the
`ChartOfAccount`, documents in QuickBooks that carry an idempotency tag.
*Operations.* Connect, callback, two disconnects, status with healing
(`quickbooksController.ts`), the environment of the settings page
(`settingsController.ts`), token refresh and retries (`quickbooksService.ts`),
the pull of the chart of accounts (`quickbooksSyncService.ts`), payments and
journals of the tax desk (`quickbooksTaxService.ts`).
*Hard.* Two refreshes of one rotating pair; settings and secret saved one after
the other; look up, then create; a pull shown as running before its job exists.
*Correct when.* Connected means that there is a token for that company, a
request id is one document of each type, accounts keep their codes, a pull ends.

### 1.6 Google Sheets settings (modelled: `SheetsSettings`, `SheetsChoice`)

*State.* The `googleSheets` half of the settings document: sources and profiles
with their connector, which one is active; Google's tokens.
*Operations.* Create, update, activate, stage, commit, debug, import marks
(`googleSheetsController.ts`), the older routes (`integrationsSheetsController.ts`),
reset and disconnect (`settingsController.ts`), sign-in and status
(`googleController.ts`), the clean-up script.
*Interactions.* The scheduled sync (1.3), the imports (1.8) and the browser's
card each decide for themselves which source is the active one.
*Hard.* Handlers wait for Google between load and save; a save writes single
fields, one array element under a version check, or the whole subtree.
*Correct when.* The active source exists, every connector has a mapping that
reads, and browser and server mean the same source.

### 1.7 Companies, roles, inventory (modelled: `Onboarding`, `Inventory`)

*State.* Users with company and role, roles, invites; items, locations, the
append-only list of moves.
*Operations.* Found, join, invite, revoke, assign, and the three operations on
roles; create, update, delete and import of items and locations, moves.
*Hard.* Check, then save, with no transaction; partial updates of a field from
which another is computed; documents deleted for good that others still name.
*Correct when.* A user's role is of their own company; a barcode is that of the
item's codes.

### 1.8 Imports, dashboards and reports (modelled: `PosDays`, `PosReports`)

*State.* `POSDailySummary`, one row per company and day; `ImportJob`s;
`lastImportSource`.
*Operations.* Import of a sheet, a file or rows, clearing (`posController.ts`),
the evaluation of a row with calculated figures (`posDerivedEvaluator.ts`);
trend, pages, overview with alerts, summaries.
*Hard.* Validation and evaluation each decide what a figure needs; blank cells,
fallbacks, rounding; weeks over a year's end; a list, its count and its totals
read side by side.
*Correct when.* A sheet that passed the check is evaluated, and adds up; the
views of the same rows agree.

### 1.9 The browser (modelled: `MappingWizard`, `PosPages`, `SheetsSetup`, `SheetsChoice`, `TaxDesk`, `AccountingPages`)

*State.* The redux slices and the local state of the pages.
*Operations.* The effects, handlers and reducers of the mapping form, the
point-of-sale page with its import dialog, the wizard that sets a sheet up, the
integration card, the tax dashboard, the statement and ledger pages.
*Hard.* Nothing is cancelled: answers come late, overtake each other and are
applied to a selection that has moved on.
*Correct when.* What is shown is what is selected, what is saved is what was on
the form when Save was pressed and passed the server's checks, and nothing keeps
loading.

### 1.10 Not modelled

| Component | Why |
|---|---|
| Matching (`matchingEngine`, `matching`) | scores of texts and amounts: thresholds over data, with no state |
| Tenant plugin | its effect is in `Onboarding`'s look-ups; how it rewrites each kind of query is string and object handling |
| Runs, observability | documents for display, read by nothing that decides |
| Conversion of the oldest settings shape, drive listings | one-off reads |
| Scripts and seeding | run by hand once; the settings clean-up is in `SheetsSettings` |
| Other pages of the browser (users, roles, inventory, settings, QuickBooks sync) | one request and its answer |

## 2. Plan

| # | Module | Composes or refines | State |
|---|---|---|---|
| 1 | `LedgerPosting`, `LedgerPosting_proofs` | | done, proved |
| 2 | `StatementPipeline`, `StatementPipeline_proofs` | shares `statement.structure` and `check.process` with 1 | done; types, `NoDuplicates`, `TroubleIsReported`, `NoLostFinish`, `InlineIsDone` and `ProgressAgrees` proved, each under the conditions section 4 names |
| 3 | `SheetsSync`, `SheetsSync_proofs` | POS import, cron | done, proved for one run at a time |
| 4 | `AuthSessions`, `AuthSessions_proofs` | several tabs and one server | done, proved |
| 5 | `BookOnce` | what posting promises per line; 1 implements it when deliveries are serialised | done, proved in `LedgerPosting_proofs` |
| 6 | `QuickBooksConnection`, `QuickBooksConnection_proofs` | the token behind every call of 1, the tagged documents | done, proved |
| 7 | `SheetsSettings`, `SheetsSettings_proofs` | the settings that 3 and 10 read | done, proved |
| 8 | `Onboarding`, `Onboarding_proofs` | | done, proved |
| 9 | `Inventory` | | done, proved in `BackOffice_proofs` |
| 10 | `PosDays`, `PosReports` | imports and what is computed from them | done; `CheckedSheetsAddUp` and the types proved in `BackOffice_proofs` |
| 11 | `SheetsChoice` | extends 7 with the browser's view of the same document | done, proved in `SheetsSettings_proofs` |
| 12 | `MappingWizard` | extends the mapping of `PosDays` with the form that edits it | done, proved in `BackOffice_proofs` |
| 13 | `PosPages`, `SheetsSetup`, `TaxDesk`, `AccountingPages` | pages and their requests | done, proved in `BackOffice_proofs`, `SavedWasChecked` in `SheetsSettings_proofs` |
| 14 | `MCBackOffice`, `BackOffice_proofs` | 6 to 13, one part at a time | done, proved |

Modules with proofs, and those they build on, declare no recursive operator, keep
invariants as conjunctions of named parts and name their assumptions on
constants. Every invariant of a passing run now has a theorem but one:
`ComputedFiguresAgree` compares sums and sorted lists that are computed by
recursion over the data, and stays with TLC. So do the liveness properties. Some
theorems hold under conditions that the code does not always meet; each
is named where the theorem is described, with what breaks without it.

## 3. LedgerPosting

| Variable | Stands for |
|---|---|
| `live`, `row` | the lines that have a `LedgerEntry`, and its fields that the handlers test; `id` is the `_id` of its transaction, which a rebuild changes |
| `mirrored`, `mirror` | the lines that have a `StatementTransaction`, and the same fields of it |
| `rebuild` | a running `statement.structure`: deleting, creating, between the two creates of a pair, stopped |
| `books` | what QuickBooks holds, external |
| `worker` | a running `quickbooks.post_approved`: the rows it selected (`todo`), the one in hand, the id QuickBooks answered |
| `request` | a review handler or statement job between its load and its last write |
| `push` | `quickbooks.lastPushStatus` |
| `approvals` | history, used by one property: what reviewers approved |

A proposal is a member of `Contents`; what matters of it is whether it has a
transaction type and whether it has every field that type needs. `Saved` is
mongoose's `save()`, which writes only the paths that differ from what was
loaded; `Overwritten` is `updateOne`/`$set`. `StartPosting` is the selection
query; `RejectUntyped`, `RejectIncomplete` and `PostTyped` are the three ways
the loop body begins; `PostJournal` is the fallback of its catch block;
`RecordRow` and `RecordMirror` the two writes after a success; `FailRow` and
`FailMirror` those of `setPostingFailure`. Redelivery is another `StartPosting`.
A rebuild is `StartRebuild`; `DeleteEntry` and `DeleteTransaction` for each
document in any order, as the two `deleteMany` calls run side by side;
`FinishDeletes` when both are through; then `CreateTransaction` and `CreateEntry`
for each line. `FailRebuild` ends the create loop anywhere, between the two
creates too. A job that ended in its deletions is one whose `FinishDeletes` has
not come: the next delivery of it deletes what is left. One delivery of
`statement.structure` runs at a time (two are in `StatementPipeline`).

`MirrorFollowsRow` has to name the rebuild: while the deletions run, a mirror may
show an id whose entry is already gone. It says that this ends with them, that no
mirror is created with an id, and that wherever both documents exist and the
mirror shows an id, the entry is of the same transaction and has an id too.

| Run | What it asks | Bounds |
|---|---|---|
| `ledger_serial` | One worker, no fault, one handler interleaving anywhere: types, `AtMostOnce`, `OnlyApprovedPosted`, `SuccessMeansPosted`, `MirrorAgrees`, `KeepsThePromise` | one line, one content of each kind, three deliveries: select, post or fail, retry, and find nothing left |
| `ledger_faulty` | Two workers and every fault: `PostedIsBacked`, `MirrorFollowsRow`, `RecordedForGood` | one line, two overlapping deliveries, one rebuild that may stop at any write; the theorems cover more lines |
| `ledger_concurrent_post` | the same as the first, with two workers: `AtMostOnce` is violated | two deliveries suffice |

`ledger_serial` leaves bulk approval and `matching.refresh` out because each
breaks a property it checks (section 9).

### The promise (`BookOnce`)

`BookOnce` is what a caller of the posting job wants: for each line QuickBooks
`held` nothing, then one transaction, and the ledger has `shown` nothing, then
that transaction. `LedgerPosting` maps `held` to the transactions of the line in
`books` (`Held`) and `shown` to the row's `qbTxnId` (`Shown`); `KeepsThePromise`
says it implements `BookOnce` under this mapping. It says more than `AtMostOnce`
and `PostedIsBacked` together: also the order of the two steps, and that neither
is undone.

### What is proved (`LedgerPosting_proofs`)

All theorems hold for every number of lines, contents, workers, requests and for
every bound; their only assumption is `LedgerAssumption` (what kind of set each
constant is).

* `LedgerTypes`: `Spec => []TypeOK`.
* `LedgerPostedIsBacked`, `LedgerMirrorFollowsRow`: with any faults and races.
  Neither is inductive. The invariant `PostingInv` adds what a worker knows:
  between the call and the write its `txn` is a transaction of the line in hand
  (`WorkersBacked`); between the two writes the entry already has an id
  (`MirrorPending`); ids only grow, so a worker whose row was rebuilt writes
  nothing (`IdsKnown`). Of the rebuild it says that a line's documents, where it
  has both, are of one transaction (`Paired`), and that a transaction whose entry
  is about to be created is the newest of its line and has no QuickBooks id
  (`RebuildPending`).
* `LedgerRecordedForGood`: the action property, from the same invariant. It
  rests on `setPostingFailure` not touching the entry's id.
* `LedgerSerialAtMostOnce`: under `Serial` (at most one worker, no fault, no
  rebuild) QuickBooks never holds two transactions for one line. `SerialInv`
  says that a booked line is recorded or in the worker's hand
  (`BookedIsRecorded`), that what is still to do was not booked
  (`PendingIsUnbooked`), and that no row was rebuilt. Each of the three
  hypotheses is needed: section 9 has the counterexample for each.

* `LedgerKeepsThePromise`: under `Serial`, `Spec => KeepsThePromise`. A step of
  `PostTyped` or `PostJournal` that creates a transaction is a `Book` step
  because the line was unbooked (`SerialInv` at the next state); `RecordRow` is
  a `Show` step because the worker's `txn` is the line's (`WorkersBacked`) and
  its only one; all others stutter.

* `LedgerOnlyApprovedPosted`: with one review request at a time and without
  `matching.refresh`, and with any deliveries, faults and rebuilds. A delivery
  posts what it selected long before, so `ApprovalInv` speaks of the history: an
  approved row's proposal is in `approvals`, and so is everything a worker has
  selected. The first part needs a request's decision to rest on the row as it
  still is, unless the row was rebuilt since (`RequestFresh`).
* `LedgerSuccessMeansPosted`: with deliveries one at a time, and any reviewers,
  faults and rebuilds. `PostedSoFar`: while nothing failed, what the delivery
  took up and has behind it is posted, but for the item in hand.
* `LedgerMirrorAgrees`: with one request and one delivery at a time, no bulk
  approval and no fault but a lost reply; and either no rebuild, or neither
  `matching.refresh` nor check matches. `MirrorInv` says for decision and posting result separately that row
  and mirror are equal or somebody is between the two writes and knows what the
  second will be (`DecisionPending`, `PostingPending`), and that what is still
  to be recorded has no id yet (`Unposted`), so a failure's `NoTxn` in the mirror
  is the row's.

Every condition is needed: with it dropped TLC finds the property violated on
the instance of `ledger_serial` (two requests or a refresh for the first, two
workers for the second; two requests, two workers, bulk approval, a failing
write or a crash for the third).

Each proof has one step per action and one lemma per fact that several steps
use. Every invariant that the runs of this module check is a theorem; outside
the conditions named, it is what TLC says of the instances in section 9.

## 4. StatementPipeline

| Variable | Stands for |
|---|---|
| `mode` | `TASKS_MODE`/dispatch configuration: Cloud Tasks, a worker called over HTTP, or inline |
| `stmt` | the `BankStatement`: status, progress, whether it has issues, and `__v` |
| `rows` | how many `StatementTransaction`s are check candidates |
| `checks`, `made` | `StatementCheck`s by id; ids are never reused |
| `queued` | tasks held by Cloud Tasks: a bag, since delivery is unordered |
| `proc` | a worker or handler: where it stands in the job, and the documents it loaded |

Each `await` of the source ends an action. `proc[p].doc` is the document a
handler holds: a later save writes the fields in which it differs from what was
loaded (`Saved`), and a save that assigns the issues array fails if the version
moved (`Conflicts`). The five counts of the recount are five concurrent
queries; `Reads` partitions them into moments, and every order of the moments is
explored. Succeeding, failing, being delivered again (`Again`), running nested
in `checks.spawn` and running inline are all in `Succeed` and `Rethrow`.
"ready" also stands for `needs_review`: all readers add the two up. OCR text,
candidate detection and amounts are data: `Candidates` is how many a text has.

| Run | What it asks | Bounds |
|---|---|---|
| `statement_serial` | All modes, all handlers, all faults, one job at a time: types and `NoDuplicates` | one candidate (two would already be a duplicate), three requests, one redelivery |
| `statement_progress` | All modes, failing jobs: `ProgressAgrees`, `InlineIsDone` | two candidates, two requests |
| `statement_fan_out` | Two workers, failing jobs and enqueues: `NoLostFinish`, `TroubleIsReported` | three checks: two racing and one behind them |
| `statement_live` | Two fair workers, reprocess and retry: `ChecksFinish`, `NoLostFinish` | one candidate, two requests |
| `statement_chain` | Cloud Tasks: `QuietIsDone` is violated | one statement |

*Fairness.* `FairSpec` is weak fairness of `Proceed(p)` for each worker and
handler: Node runs a ready continuation eventually, and Cloud Tasks delivers a
task while a worker is free. No fairness is assumed of users or faults. The
liveness run has no faults because the code gives no guarantee under them: a
process that dies with a check marked processing leaves it so.

*Deadlock* is not checked in any module: when there is nothing to do, the
system waits.

*Symmetry* of the workers is used in two safety runs; no definition tells them
apart.

### What is proved (`StatementPipeline_proofs`)

From `PipelineAssumption` alone, so for every number of workers, requests and
candidates and every choice of modes and faults:

- `StatementTypes`: `TypeOK`. It is inductive together with `SeenAll`: a recount
  that is about to save has every count (`LoadProgress` waits for them), without
  which `SaveProgress` could store a progress with fields missing.

And with `OneAtATime`, one worker and one request at most, which is how
`statement_serial` runs it:

- `StatementNoDuplicates`: `NoDuplicates`. The invariant adds two parts. `Homes`
  says where jobs run: in a worker, which then serves the queue and nothing
  else, if the mode is Cloud Tasks, and in a handler, with an empty queue, if
  not. So only one process is ever in a job (`OneRuns`). `Room` says what a job
  has made and has still to make: `rows + left` while it creates rows,
  `Cardinality(Present) + left` while it creates checks, none present between
  the deletion and the selection. Each is at most `Candidates`; the steps that
  create are `Creates`, and every other step keeps the rows and adds no check
  (`RowsKept`, `ChecksKept`).

The assumption is needed: two deliveries of one `statement.structure` interleave
their deletes and creates and leave twice the rows.

The other invariants, for any number of workers and candidates:

- `StatementTroubleReported`: `TroubleIsReported` under `NothingDropped`: no
  process dies, and no retry loses its task (unless jobs run inline, `retry` and
  failing hand-overs do not occur together). `TroubleInv` says that a check which
  is neither finished nor gone is told of, or in the queue, or carried by a
  process: the check of its job, at a step from which it will be marked or
  reported, or one of those a `checks.spawn` has still to hand over
  (`RunsCheck`, `HasToRun`). The subtle step is a save that conflicts: a process
  about to save its failure carries the check only if its document is `Fresh`,
  and when it is not, another has just told.
- `StatementFinishSeen`: `NoLostFinish` under `OnlyChecks` (only reprocesses from
  `checks.spawn` and retries, no process that dies) as long as `OneSpawner`
  holds: reprocesses and runs of `checks.spawn` do not overlap, while the jobs of
  checks may, as they please. `FinishClaim`: once checks exist and all are
  finished, the statement says so, or a task of one of them is queued, or some
  process is a `Witness`: it will say so, or unfinish a check, or hand on to one
  that does. A recount on its way is a witness as long as none of the counts it
  has seen contradicts the end (`Good`); the last check's own recount begins
  after the check was saved, so each of its five counts is good at whatever
  moment it is taken.
- `StatementNoLostFinish`: with one request `OneSpawner` holds by itself, however
  often its task fails and is delivered again.
- `StatementInlineIsDone`: `InlineIsDone` under `InlineChain`: one request at a
  time, no first run, no process that dies, no chain from `matching.refresh`
  alone. `Chain` says that the document the chain holds is the statement whenever
  it will be saved, so no save conflicts, and that the checks still open are those
  it has still to run; `Onward`, that from where it is it will say "ready" or
  "failed". The steps at which it would not are those after which the status is
  one of the two already.

The conditions are needed: dropping one, TLC finds a counterexample (a crash and
the lost retry for the first; a reprocess from an earlier job and a crash for the
second; two requests, a first run, a crash and `matching.refresh` for the last).
`OneSpawner` is what the argument uses and may be stronger than it need be: TLC
finds no counterexample without it when two reprocesses of one candidate overlap
(210,669 states).

`StatementProgressAgrees`: `ProgressAgrees` under `ProgressCalm`: one delivery and
one request at a time, no process that dies, no task that is refused unless jobs
run inline, and, with Cloud Tasks, reprocesses from `checks.spawn` (the task route
drops what would follow an earlier job). It holds for all three modes, any
number of candidates, failing artifacts, redeliveries and reads that a recount
makes in any order; the run `statement_progress` is one such instance. The
invariant is `ProgressInv`. Its core is `WillAgree`: a progress that is not what
the checks say (`Agrees`) and of which no issue tells has a recount ahead, in the
queue (`TaskAhead`) or in a process that still comes to one (`Recounts`), its
catch block included, since a save there either reports an issue or conflicts
with a newer one. What a process has read may be old, so `SureOrAhead` says that
it is so (`Sure`: the counts seen, the progress of the loaded document, the checks
`checks.spawn` has made so far) or that somebody else recounts afterwards
(`Ahead`); with one delivery at a time the second case only arises for a request
that hands its job over while a worker is busy. `Blanks` covers the inline chain
from an earlier job: until `checks.spawn` there are no checks and no progress.
`Marking` gives the other half of the property: a check marked as processing has
a job that will mark it again, or a retry or reprocess that resets it. Of the
conditions, none can be dropped: with two workers, two requests, a crash, a
refused task, or a queued reprocess from an earlier job, each alone, TLC finds a
counterexample in that run.

`ChecksFinish` (liveness) is model-checked only; `QuietIsDone` is false.

## 5. SheetsSync

| Variable | Stands for |
|---|---|
| `tod`, `weekday`, `called` | the local clock the schedules are judged by, and whether the scheduler has made its call at this time of day |
| `lock` | the `JobLock`, as the ticks left until `expiresAt` |
| `config` | whether the settings list a company, and whether its profile and connector can be used |
| `last` | `googleSheets.shared.lastScheduledSyncAt`, as its age: this hour, this day, or before. That is all `isScheduleDue` can tell of it, and it spares the clock a bound |
| `sheet`, `pos` | the version of the spreadsheet, and for each day which version of it the row in `POSDailySummary` is from; `History` says which days have a row in each version |
| `job`, `user` | a run of `runSheetsSync` with its snapshot of the settings; a user's import between reading and writing |
| `stamps` | history: imports recorded in the current period |

Every `await` of `runSheetsSync` ends an action: `Acquire` and `Claim` are the
two halves of `acquireLock`; `LoadSettings` takes the snapshot; `TakeCompany`
is the loop head with all its skips; `ReadSheet`, `ImportRow`, `EndImport`,
`MarkImported` and `Stamp` its body, with the errors that end in the company's
`catch`;
`Release` is the `finally`. `Cron` is the scheduler's call, `CallByHand` an
operator's, perhaps a dry run. An import is dated (`at`) before it is recorded.
The bulk write is an upsert by company and date, one row after the other
(`ImportRow`, `ImportSharedRow`): it may stop half-way, another import may come
between two rows, and it removes nothing.

| Run | What it asks | Bounds |
|---|---|---|
| `sheets` | `OncePerPeriod`, `EndsWithNoneOwed`, `BecomesCurrent` | a weekly company that never fails and an hourly one that does; two weekdays of two hours of two ticks, so that a run (two ticks at most) may cross an hour, a day and a week; the lock outlives a run by nothing (`LockTTL` = `MaxRun` = 2, as fifteen minutes are a long run); one crash, one user request; an edit of the weekly sheet that changes one row and gives another a new date |

*Fairness.* Weakly fair are the clock, the scheduler's call and a run that has
begun. The scheduler calls before its time passes; users, whose imports may stop
anywhere, crashes and edits are not fair. `BecomesCurrent` needs the edits to
cease, as `History` is finite, and a company whose own sheet and settings work
(`Healthy`). It speaks of the days the sheet has: the row of a day that was
removed from it, or moved to another date, stays (section 9).

The run has one `runSheetsSync` at a time, because the lock, read and then
upserted, does not ensure it (section 9). A settings query that rejects, and a
release that does, are left out: the next call repairs both.

### What is proved (`SheetsSync_proofs`)

For any companies, schedules, users, faults, bounds and any length of an hour, a
day and a week, from `SheetsAssumption` and `Serial` (at most one run at a time,
without which the property fails, section 9):

* `SheetsOncePerPeriod`: `Spec => []OncePerPeriod`. The invariant `SyncInv` adds
  that the import counted in the current period is the one `last` names
  (`CountedIsLast`), that a run's snapshot agrees with the settings for the
  companies still to come, because both age alike (`SnapshotHolds`), and that
  the company in hand has no import in the period yet (`InHandIsDue`). The
  lemmas on `Aged` carry them over the clock: nothing enters a period by ageing,
  and nothing leaves it but at its end.
* `SheetsTypes`: `Spec => []TypeOK`, from the same invariant.

`EndsWithNoneOwed` and `BecomesCurrent` are model-checked only.

## 6. AuthSessions

| Variable | Stands for |
|---|---|
| `record` | the `RefreshToken` documents: unused, active, expired, revoked |
| `cookie` | the browser's `refreshToken` cookie |
| `access` | each tab's access token |
| `call` | an API call, with the refresh it makes, or a logout: what it presented, what the server answered |
| `lost` | history: a reply that would have changed the cookie was lost |

`Request`, `Answered`, `Receive` and `Lose` are the interceptors and
`requireAuth`; `FindRecord` and `Rotate` the two steps of `refresh`, the second
of which saves the record it found whatever became of it since; `Revoke` is
`logout`; `SignIn` the end of `googleAuthCallback`. A disabled user, and a
database error before the record is found, end like a refused refresh.

| Run | What it asks | Bounds |
|---|---|---|
| `auth_sessions` | `CookieIsLive`, `ReuseIsRefused`, `EveryCallEnds` | two tabs, two calls at a time, five events (calls, logouts, sign-ins, expiries, faults): two racing refreshes, a third party and a fault; six tokens, so that one is always left |
| `auth_parallel` | `ValidCookieRecovers` is violated | one tab, two calls |

*Fairness.* `Proceed(c)`: the server answers and the browser runs the handler
of the answer. Losing a message counts as an answer: the request rejects.

### What is proved (`AuthSessions_proofs`)

For any number of tabs, calls and tokens, any faults and any bound, from
`SessionsAssumption` alone:

* `SessionsTypes`: `Spec => []TypeOK`.
* `SessionsCookieIsLive`: `Spec => []CookieIsLive`. Not inductive: that the
  reply which replaces a token finds a cookie of worth rests on
  `SuccessorIsUnknown` (a successor on its way is in no cookie and presented by
  nobody, so nobody can have revoked it), which rests on `AllHeldIssued` (ids
  are random, so a new token is none that anybody holds), and on `RepliesFit`
  (only a caller without a cookie is answered without a `Set-Cookie`).
* `SessionsReuseIsRefused`: `Spec => []ReuseIsRefused`, by `ReusedStaysRevoked`:
  no step makes a revoked record active again.

The actions fall into four kinds (a step that sends, a reply without successor,
the end of a call, a change of tokens) with a lemma for each; `Rotate` has a
proof of its own. `EveryCallEnds` is model-checked only.

## 7. The back office

Twelve modules, one run: `back_office`. The parts share no document (those that
do, `SheetsSettings` with `SheetsChoice` and `PosDays` with `MappingWizard`, are
one module extending the other), so `MCBackOffice` explores one part at a time:
`scene` is chosen at the start and only that part moves. Each part has a
*script*, a bound that names the documents at first, the operations that may be
asked and how many; a scene is explored from each of its scripts. Two requests
of a kind run side by side in every scene with requests, and every `await` ends
an action.

### QuickBooksConnection

| Variable | Stands for |
|---|---|
| `qbSettings`, `qbSecret` | `IntegrationSettings.quickbooks`, and which token pair `IntegrationSecret` holds |
| `qbIssued`, `qbExpired` | pairs that Intuit issued, each for a realm (a company); those whose access token is over |
| `qbCookie`, `qbGrants` | the nonce cookie of the last connect that was started |
| `qbChart` | the code of each QuickBooks account in `ChartOfAccount` |
| `qbBooks` | documents with an idempotency tag, of each type (`TaggedDocs`), in each realm |
| `qbQueue`, `qbProc` | pulls enqueued; the administrator's requests, a job and a tax desk |
| `qbRaced`, `qbExcused` | history, named in the properties that use it |

A call of QuickBooks goes through `EnsureFresh` (refresh what is about to
expire), `RenewLoad`/`RenewAsk`/`RenewSave`, the request, one more refresh on a
401 and three attempts on 429 and 5xx; `next` says what the answer is for.
`SecretBacksSettings` ties settings and secret. `OneDocumentPerTag` is the tag's
promise for each type of document: a customer payment, a vendor payment and a journal
each look the tag up among their own kind (`Found`), so an id typed into two
forms stands for two documents and nothing here says otherwise. `CodesAreKept` (an action property) and `PullEnds` (liveness) are about
the pull. *Fairness*: weak, of what a process does once it has begun, as Node
runs ready continuations and Cloud Tasks delivers a queued pull; none of
administrators, faults and expiries. `PullEnds` holds with faults because each
way out of a pull writes its end.

Bounds: four token pairs (connect, reconnect, a refresh of each), two realms,
one tag written twice, two accounts that want the same code, up to two faults
(an expiry during a refresh that fails, a lost reply followed by a retry).

### SheetsSettings and SheetsChoice

`sgDoc` is the stored document: the active kind, and for each kind whether it is
enabled, its active id and its containers, each with one connector (enabled, and
how its columns are mapped). `sgVersion` is its `__v`. What a save writes is
what matters here: `Fields` writes the fields that differ from the ones loaded,
`SaveUpdated` one array element and only if `__v` has not moved, `SaveWhole` the
whole subtree whatever happened since. `sgRaced` records that a whole write fell
on another's change.

`ConnectorsAreMapped` holds under every interleaving; `ActiveNamesSource` holds
unless `sgRaced`. `SheetsChoice` adds no state: it is what
`googleSheetsStatus.ts`, the card and `syncGoogleSheet` make of the document,
and `ClientsAgree` compares that with `resolveActiveSheetsConfig` in every
reachable document.

Bounds: at first no source, one, or one of each kind; two requests at a time,
two or three in all; a complete and an incomplete mapping.

### Onboarding and Inventory

`Onboarding` has users, roles and invites; `createCompany` is five writes
(`MakeCompany`, `MakeRoles`, `SaveFounder`, `FounderInvite`) and `joinCompany`
four steps, each of which may be the last. `RolesStayAtHome` must hold between
any two of them. `Inventory` keeps an item's codes and its barcode apart because
mongoose writes only changed fields; `inOverlaid` marks an item whose codes were
saved by a request that had not read them. Its two upcs and modifiers are chosen
such that `1+23` and `12+3` are the same barcode.

Bounds: two users, two companies, at first with and without a role of their own
making; up to three requests, one fault. One item,
two locations, two requests.

### PosDays and PosReports

A sheet's cell is a set: empty when nothing reads in it, else one number.
`DerivedIsValid` and `Evaluated` are `validateDerivedConfiguration` and
`evaluateConfiguredPosRow`, which decide separately; `CheckedSheetsAddUp` says
that they agree and that stored figures add up, with imports, file uploads and
clearings crossing. `PosReports` numbers days from a first of January;
`ReportsAgree`, one half of `ComputedFiguresAgree`, compares the weekly trend
with calendar weeks, the fallback of the moving average with the window it
replaces, a list with its pages and totals, and the key figures and alerts of a
range with those of its parts. Rounding to cents is left out: every figure is a
whole number of cents.

Bounds: two days and the sheets in `PdSheets` (a blank required cell, a blank
direct total, a day told twice, no rows, a missing and an additional column);
years of 365 and 366 days beginning on each day of the week, with days on both
sides of New Year; all sequences of up to four of the days in `MCRpFigures`.

### The browser

| Module | State | What is checked |
|---|---|---|
| `MappingWizard` | the form's mapping and calculated fields, edited by its handlers and corrected by its effects | `WizardAgrees`: the form calls a mapping compatible exactly when the server's two checks (of `PosDays`) accept it |
| `PosPages` | dates, page, limit, view, loading, the rows shown, requests as a bag, the import dialog | `RecordsMatchPage`: with no rows on their way the pager tells the page and limit of the rows above it |
| `SheetsSetup` | step, source, sheet, tab, mapping, busy; requests for files, tabs and previews; saves that captured the form | `SavedWasChecked`: what a save commits was together on the form when Save was pressed, with a mapping that the server's match accepted and a tab that the spreadsheet has |
| `TaxDesk` | the selection, the sections with loading and error, requests numbered, a post and its reload | `TaxDeskAgrees`: a section at rest shows what is selected, also what was posted; `FiguresAddUp`, the other half of `ComputedFiguresAgree`, on reports, cards, pages and journals |
| `AccountingPages` | the statement page with its calls in order, the ledger page with its ticks | `PageKeepsUp`: a page that stopped polling shows the stored status; `TicksAreOpen`: what is approved together is on screen as open |

In each, answers arrive in any order and requests may fail. What an overtaken
answer does to a page is in the models and, where it makes a property false, a
history variable (`txStale`, `late`) excuses exactly that; section 9 lists the
cases. `AccountingPagesAgree` joins `TaxDeskAgrees` and the last row. A report
of the tax desk is a tree that the code flattens by recursion; `Flatten` opens it
level by level, `TxDepth` of them, which is as deep as the reports of the run are.

| Run | What it asks | Bounds |
|---|---|---|
| `back_office` | the sixteen properties above and the types of all parts | as above; about 271,000 states |

### What is proved of companies and inventory (`Onboarding_proofs`, `BackOffice_proofs`)

For every number of users, companies, roles, items, locations and requests, and
from any documents that fit together to begin with: `InAssumption` (items whose
barcode is that of their codes) and `ObAssumption` (a member has a role of his
company, an invite offers one of its own) say it of the scripts' first documents,
which the same code stored.

- `InventoryBarcodeAgrees` and `InventoryTypes`. The invariant `InInv` adds to
  `BarcodeAgrees` the types of what is stored (`StocksTyped`, `MovesTyped`,
  `ScriptTyped`) and `RequestsFit`: the item a request goes on with and the
  locations of the move it will insert are still known when it writes. A deleted
  document keeps its place in the model, marked, since its id is not used again.
- `OnboardingRolesStayAtHome` and `OnboardingTypes`. The invariant `ObInv` says
  that the documents fit together (`AllSettled`) and that what each request has
  found since it was authenticated still holds when it writes (`AllCarry`): the
  collections only grow and a role keeps its company (`Grows`), so a company
  read before three other writes may be trusted after them. A deleted role is
  still of its company: that a user may be left with one is section 9's.

### What is proved (`SheetsSettings_proofs`)

For any requests, operations, mappings and scripts, from
`SheetsSettingsAssumption` and `SheetsStartAssumption`: the first document is
one the handlers can have stored, with complete mappings, an active kind that
names one of its containers, and no id used twice.

- `SheetsActiveNamesSource`, `SheetsConnectorsAreMapped`, from `SheetsSteady`
  (`SgInv`). `SgChecks` is what a request has made sure of at each step: a mapping
  about to be stored is a good one. `SgSteady` holds until `sgRaced`: the active
  kind names a container (`Sound`), and every request under way is `Abreast`: the
  stored document has *grown* out of the one it loaded. A kind stays on,
  containers stay, an active id changes only to name a container (`Grown`), which
  is transitive; so fields saved over a newer document leave it sound, though the
  request never saw it. Only whole writes do not grow a document, and they are
  what `sgRaced` counts when they land on another's save.
- `SheetsClientsAgree`. It needs a second invariant, `SgTidy`: in the stored
  document and in every loaded one, a container's id was given and no other
  container of its kind has it; a copy written whole has only ids given before
  it was loaded, and a new container takes the next. So the active id names one
  container wherever it is looked up, and as every stored mapping is complete,
  the browser takes none of its fall-backs to a first container.
- `SettingsTypes`: the types. Beside `SgInv` they need `SgMadeInv`: the ids in the
  stored document, in every loaded one and in a request to activate one are of
  containers made so far (`Made`), and the tokens that a sign-in comes back with
  were issued. Both numbers only grow, so what was loaded long ago still has them.
- `SheetsSavedWasChecked`, of `SheetsSetup`, from `SuAssumption` (types). `SuInv`: a
  save carries what was shown when it began, past the match a mapping that was
  accepted and past staging a tab that exists. The form goes on changing under it,
  so the form itself says nothing of the save. That the mapping suits the saved
  *tab* is not claimed: no call checks it (section 9).

### What is proved (`QuickBooksConnection_proofs`)

For any realms, tokens, administrators' requests, jobs, desks, accounts and
faults, from `QuickBooksAssumption` and `ChartAssumption`:

- `QuickBooksTypes`, from `QuickBooksSteady` (`QbInv`): with the types, what a
  process holds at each step (`HoldsTokens`: tokens that were issued, a renewed
  one of the realm of the old) and which calls it can be making (`InTurn`).
- `QuickBooksSecretBacksSettings`, with no further condition. `Backing` says what
  the administrator's request has done by halves: between the two writes of a
  connect the secret is there and of its realm, of a disconnect it is gone, and
  else settings and secret agree. Refreshes and desks change the tokens under it
  and keep the realm.
- `QuickBooksTagsApart`: `OneDocumentPerTag`, for each of the three types, while no
  two desks post the same type under the same client request id at once
  (`TagsApart`), which `QuickBooksOneDocumentPerTag` shows for one desk. `TagInv`: a desk about to post is right about the books it
  searched, up to what `qbExcused` counts. Two desks with one id break it.
- `QuickBooksCodesAreKept`: `CodesAreKept` when pulls do not overlap (`OneJob`;
  two that do break it). `ChartInv` says that the codes decided by a pull still fit
  the chart when it writes them. It rests on what `CodesFor` decides account by
  account: a code is kept, or is none of those in use. `CodesFor` is a recursive
  function, so this is an induction over the list of accounts. The library's
  induction rules take an operator as a parameter; `SetInduction` here is stated
  for a *set* of numbers instead and follows from the least element that the
  library's well-founded order gives. That a free suffix always exists is a
  pigeonhole (`SuffixLeft`): there are more suffixes than codes in use.

`PullEnds` (liveness) is model-checked within the bounds above.

### What is proved of the imports, the pages and the whole (`BackOffice_proofs`)

The assumptions on constants say what the scripts' first states and inputs are,
and nothing about what happens: `PdAssumption` (finitely many requests; a cell of
a sheet reads as one number or as none; a mapping is a finite function),
`MwAssumption` (columns are neither "calculated" nor "none"; the first mapping
and the tabs have columns of `MwColumns`), `PpAssumption` (there is a page 1; the
imports' names differ), `RpAssumption`, `SuAssumption`, `TxAssumption` and
`ApAssumption` (types).

- `ImportCheckedSheetsAddUp`: `CheckedSheetsAddUp`, for any sheets, mappings,
  derived figures and files. The part about figures is a lemma of the two
  operators that decide separately: a row whose `Evaluated` is not empty is one of
  `SoundRows` (`EvaluatedAddsUp`), and if both checks passed, an empty one has a
  required cell that does not read. `PdInv` then says that every row
  stored or on its way is sound, and that a refusal was a right one
  (`RefusedRightly`). `PdCounted` is the balance of import jobs, a cardinality.
- `BackOfficeWizardAgrees`: `WizardAgrees`. `MwTyped` is enough of an invariant; the
  work is in the equivalence. `NormalizedIs` says that a mapping the page would
  save is an injection into targets, so that counting columns by target (the form)
  and by column (the server) is the same counting (`NoneTwice`, and the
  cardinality of the columns in use).
- `BackOfficeRecordsMatchPage`: `RecordsMatchPage`. `PpInv` adds that the requests are a
  bag of daily and overview ones and that a job which reloads waits for exactly
  one of them (`Awaits`). Every step that moves the page sends a request for rows
  (`EffectsAsk`), so the rows shown may differ only while one is on its way.
- `BackOfficeAccountingPagesAgree`: `AccountingPagesAgree`. For the tax desk
  (`TxInv`), a section that loads waits for a request, one that has been
  answered shows the selection unless it was overtaken (`TxAnswered`), and for
  every post reported as done there is a request from which on all answers have
  it (`TellsFrom`). For the statement page (`ApWatch`), whatever misleads the
  page, a late answer on its way or one already shown, is corrected by a call
  made after it (`Corrected`): one that will tell the stored status or keep the
  page polling, or an order that was carried out and will be followed by a load.
- `BackOfficeTypes`: `BackOfficeTypeOK`, the types of all parts, with
  `InventoryTypes`, `ImportTypes` and those of the modules above.

The last four are theorems of `MCBackOffice`'s `Spec`. `BackOfficeInv` conjoins
the invariants of the eleven parts; a step of the composition is, for each part,
one of its steps or a stutter (`BackOfficeStepKeeps`), so the parts' lemmas are
used as they are.

`ComputedFiguresAgree` is model-checked only: `ReportsAgree` and `FiguresAddUp`
are about sums, sorted sequences and flattened trees of any length, and proving
them would take inductions over data that the prover's rules do not reach. Its
states play a small part: it compares two computations over all figures of the
bounds above.

## 8. Mutants

Next to the action it changes, each module has the operators named "Mutant":
the same action with a bug a programmer could plausibly make (a gate dropped
from the selection, a mirror written first, a recount forgotten). Every property
of every passing run fails on one of them, so none is true by the shape of the
model alone. They are never part of `Next`.

## 9. Known divergences

Three runs expect a violation; each contradicts a sentence of the docs.

* `ledger_concurrent_post`. Rows are selected by `qbTxnId` missing and the id is
  written after the call. Two jobs at a time (a manual one and the daily one, or
  a redelivery) book a row twice.
* `statement_chain`. `runAccountingTask` returns `nextJobType`; only the inline
  chain looks at it. With Cloud Tasks nothing enqueues `statement.structure`.
* `auth_parallel`. Two calls that meet the same expired access token refresh
  with the same cookie; the second is refused and its tab signs out, although
  the session was good.

The instances below are not kept as runs; changing the constants as said gives
TLC's counterexample, and they are why the passing runs have the bounds and the
handlers they have.

| Change | Property that fails | What happens |
|---|---|---|
| `LedgerSerial` with `Faults = {"lostReply"}` and `Initial = {full}`, `Handlers = {"bulk"}` | `AtMostOnce` | the typed call succeeds, its reply is lost, the fallback journal books the line again |
| `LedgerSerial` with `MaxRebuilds = 1`, `Initial = {full}`, `Handlers = {"bulk"}` | `AtMostOnce` | a reprocess deletes posted rows and creates unposted ones |
| `LedgerSerial` with `MaxRebuilds = 1`, `Handlers = {"refresh"}` and `Matched = {matched, full}` | `MirrorAgrees` | a refresh between the two creates of a pair gives the transaction a proposal its entry, created after it, does not get |
| `LedgerFaulty` with `MirrorFollowsRow` restated without the deletions of a rebuild | `MirrorFollowsRow` | the entries are deleted first, and a posted transaction stays behind; it stays for good when its `deleteMany` fails and the queue gives up |
| `LedgerSerial` with handler `"bulk"` | `MirrorAgrees` | the second `updateMany` of bulk approval looks transactions up by ledger ids |
| `LedgerSerial` with handler `"refresh"` | `OnlyApprovedPosted` | a refresh replaces an approved proposal and leaves it approved |
| `LedgerSerial` with `PostedRowsFrozen` as a property | `PostedRowsFrozen` | an exclusion loaded before the posting is saved after it |
| `StatementProgress` with handler `"create"`, inline | `InlineIsDone` | `createStatement` saves `extracting` over the result of the jobs it ran |
| `StatementProgress` with two workers | `ProgressAgrees` | the recount that counted first saves last |
| `StatementFanOut` with `ProgressAgrees` | `ProgressAgrees` | two catch blocks save the issues array; the loser's check is never marked failed |
| `StatementFanOut` with handler `"retry"`, two requests | `TroubleIsReported` | the retry's enqueue throws after the check was queued, and no issue is written |
| `StatementSerial` with two workers | `NoDuplicates` | two `statement.structure` jobs both delete before either creates |
| `Sheets` with two jobs | `OncePerPeriod` | both read the lock before either writes it, and both import |
| `Sheets` with `BecomesCurrent` restated as: the stored days are those of the sheet | the restated property | imports only upsert by company and date (`posController.ts:669`): the row of a day that was removed or re-dated in the sheet stays, in the table and in the reports |
| `Sheets` with `DryRunWritesNothing` as a property | `DryRunWritesNothing` | a dry run takes the lock, so a scheduled call at that moment returns at once (README.md:303 of the repository says it writes nothing) |
| `AuthSessions` with `CookieIsLive` without `~lost` | `CookieIsLive` | the reply that clears the cookie (logout) or replaces it (refresh) is lost and the browser keeps the revoked token; in the second case the next refresh signs the user out |

Of the parts in section 7 the code has these peculiarities. Each is in the model
(a property names it as its exception) unless marked *read only*, which were
seen while reading and are not modelled.

*QuickBooks.* The settings page sends the environment alone, and the handler
writes `realmId ?? null`: a connected company loses its realm until the status
page heals it (`SettingsPage.tsx:569`, `settingsController.ts:507`). A refresh
that saves over a connect or disconnect it had not seen leaves settings and
secret apart. A post whose reply was lost may be repeated. A client request id
typed into both forms of the tax page, or into one for a customer and then for a
vendor, books a document of each type: every look-up reads its own type only
(`quickbooksTaxService.ts:555`, `quickbooksTaxService.ts:699`,
`TaxDashboardPage.tsx:231`). *Read only*: a full
page of accounts with a filtered row ends the listing early.

*Sheets settings.* The older routes and `commit` write the whole subtree as they
loaded it. Disconnecting Google removes the tokens and leaves the settings as
they are. The status page may write older tokens over newer ones. A name that a
commit does not know stands for the active source.

*Browser and server on the active source.* The card takes no active kind for
the shared one, and neither it nor the page's sync looks at the `enabled` flag
of a kind. Its mapping hash covers the pairs alone, so "ready" survives a change
of sheet. Confirming a mapping commits the captured one with activation.

*Imports.* A column mapped to a calculated target is refused by the validator
although client and resolver accept it. A derived column is found ignoring case
and read with it. An import job stays "processing" when its process dies.
Clearing sets the last import to none even while one runs. `cash` is the cash
difference after a sheet import and an amount elsewhere. Alerts compare with the
row before, not the day before.

*Companies and inventory.* Deleting a role or a location leaves references to
it; the last administrator can be demoted; two overlapping updates leave a
barcode stale; moves are recorded whatever the stock.

*Pages.* Two requests for different pages of the daily figures re-trigger each
other for as long as they overlap (`PosPage.tsx:160`); a late answer for
earlier dates is shown under the new ones; one answer clears the loading flag of
another. The setup wizard applies the tabs and header of a sheet left meanwhile,
and a late file list selects another. Nothing checks a spreadsheet, a tab and a
mapping together when they are saved: the match reads the connector, the mapping,
the columns and the transformations, and the spreadsheet, tab, header row and
`transforms` that the wizard sends are dropped (`posController.ts:54`,
`GoogleSheetsSetupInline.tsx:1046`); the wizard's own check is of the header on
display, which may be another tab's; staging and committing only warn of columns
the tab lacks. So a mapping may be saved for a tab it does not suit: TLC finds it
when `SavedWasChecked` is replaced by that claim. A sync that fails after the commit reports
that saving failed. In the tax dashboard answers carry their parameters and the
page ignores them; the card of total liabilities takes the last line that
contains those words. A statement shown as `uploaded` is not polled, so one that
was reprocessed through the queue may stay so on screen
(`StatementsPage.tsx:107`, `accountingController.ts:431`); retrying a check
leaves the statement at `ready_for_review`, which is not polled either; a failed
job that the queue delivers again moves on unseen. "Approved n entries" counts
what was asked (`LedgerPage.tsx:157`).


## 10. What the models leave out

Amounts, account names and request bodies (data no property is about); the
`Run` documents and the event stream (written for display); upload URLs; the
OCR itself. A model holds one statement: handlers of different statements share
no document. QuickBooks is trusted to keep what it accepted.

What is left to TLC, and why: liveness and whatever needs ENABLED, which the
proof system here does not do; and `ComputedFiguresAgree`, which compares two
computations over data of any length (section 7). Where a theorem has a
condition, the case outside it is either false, and then in section 9, or only
model-checked.
