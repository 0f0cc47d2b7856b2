# Verification of dos-amigos-ops

TLA+ models of the system that imports a restaurant's daily sales from iiko,
turns them into reports and delivers the reports to Telegram, the TLC runs that
check them, and TLAPS proofs of their safety properties.

## 1. The system

| Part | Where | State it keeps | Operations |
|---|---|---|---|
| iiko client and transport | `integrations/iiko/` | the iiko token of one call | authenticate, run three OLAP reports, retry, log out |
| Sales normalization | `integrations/iiko/sales.py` | none | reconcile the three reports into one day: proven, partial or an error |
| Sales import | `services/iiko_sales.py`, `repositories/iiko_sales.py` | `iiko_sales_daily` and its payments and products, `iiko_sales_sync_runs` | `sync_day`, `sync_range`, `persist_report`, `record_failed_run` |
| Sales automation | `services/iiko_sales_automation.py` | `iiko_sales_automation_runs`, rows of `hermes_report_outbox`, the advisory lock | `run_due`, `run_backfill`, `run_date`, `ensure_outbox`, `rebuild_outbox`, status |
| Daily COO report | `services/daily_coo_report.py` | `daily_coo_report_runs`, sales, correction and alert rows of the outbox | `closeout`, `reconcile`, dry runs |
| Report outbox API | `api/routes/report_outbox.py` | delivery status of reports, `hermes_report_recipient_deliveries` | list pending, register recipients, four marks |
| Telegram sender | `ops/telegram/report_sender.py` | one run's copy of reports and recipient statuses | `run_once` |
| Hermes publisher | `services/publish_hermes_reports.py` | delivery status of reports | `publish_pending` |
| Host wrappers, systemd | `ops/bin/`, `ops/systemd/` | three `flock` files | run Core, then the sender; restart on failure |

The parts meet in `hermes_report_outbox`. Automation and the COO orchestrator
insert and rewrite rows inside Core, one at a time under a PostgreSQL advisory
lock; the sender, a separate process on the host, reads and marks them over HTTP.
A wrapper's lock keeps the COO job and its own sender apart, but an operator may
start the sender alone, and the automation does not take that lock.

What is hard here: calls that commit although their answer is lost, handlers that
outlive their client, processes that die between any two steps, texts read before
and used after a rewrite, decisions taken in one statement and committed in the
next, and retries that start from whatever is left.

What makes the parts correct:

- *Delivery*: nothing is called delivered that a chat does not have; no chat that
  has acknowledged a report is written to again; all chats of one report see one
  text; every report reaches every chat in the end.
- *Daily COO report*: one sales report a day; a text some chat may have is final;
  a correction quotes the report it corrects; a unit that succeeds has sent;
  every day is reported.
- *Sales automation*: "already completed" is never the answer for a day that is
  missing; one current report of a day waits at most; a report is withdrawn only
  with another in its place; every day that has ended is imported.
- *Import*: the three tables of a day are of one import; a day called proven or
  partial adds up; what is printed of a range is no better than its worst day; no
  import waits for ever.
- *Client*: a fetch returns three reports of its own, in order, or none; sessions
  are given back; a refused token is not used again; retries are counted per request.

## 2. Modules

```
DeliveryPromise <- implemented by - ReportDelivery <- ReportDelivery_proofs, MCReportDelivery
Outbox <- Outbox_proofs
       <- DailyCoo <- DailyCoo_proofs, MCDailyCoo
DailyPromise <- implemented by - DailyCoo
       <- SalesAutomation <- SalesAutomation_proofs, MCSalesAutomation
ReportVersions <- implemented by - SalesAutomation
SalesNormalization <- SalesImport <- SalesImport_proofs, MCSalesImport
SalesStore <- implemented by - SalesImport
SalesReading <- implemented by - IikoClient <- IikoClient_proofs, MCIikoClient
```

### ReportDelivery

The sender process, the API handlers it calls, the chats, and the Core jobs that
write the outbox meanwhile.

| State | Code |
|---|---|
| `outbox`, `rows` | the two tables, reduced to status and text |
| `inbox` | what Telegram has shown to each chat: external |
| `pc`, `queue`, `item`, `allowed`, `local`, `pos`, `chunk` | the locals of `run_once`: fetched reports, the report at hand, `ALLOWED_IDS`, `recipient_statuses`, the loops over chats and messages |
| `live`, `orphans` | the HTTP call the sender waits for, and handlers whose client has given up |
| `job` | a Core job between its test (`_sales_outbox_is_mutable`, `delivery_status != "delivered"`) and its commit |
| `calm` | set once faults have ceased; only the fair specification sets it |

A handler is three steps: called (`AwaitCall`), row read (`CallIsRead`), committed
(`CallReturns`). A call may be refused, committed with its answer lost, or time
out with its handler still running. Registration reads and inserts in one step:
the sender is the only client, and two registrations of one report insert the
same rows. What the sender does after an error differs by call: only
`mark_recipient_delivered` stands inside the `try`, so every other failing call
ends the process (`OnCallError`).

`DeliveryPromise` is the abstract specification: messages are heard,
acknowledgements follow whole texts and are never taken back, an acknowledged
recipient hears nothing more, a report is concluded when an audience has it all.
The mapping takes `inbox` for what is heard, rows marked delivered for
acknowledgements, reports marked delivered for concluded ones.

### Outbox, DailyPromise, DailyCoo

`Outbox` holds what all jobs ask of the table: idempotency keys, the reports of a
day, when a row may be rewritten. `DailyCoo` puts the two systemd units, the
wrapper, the Core job and the sender above it. A unit walks through
`off, wait, core, import, report, upsert | alert, finish, sender, done`; a step of the
Core job is one commit of `DailyCooReportOrchestrator`, or what it reads before one:
closeout tests the row in one step (`_sales_outbox_is_mutable`, `base` is the row) and
writes it in the next (`_upsert_sales_outbox`). The wrapper's sender is one step; a sender
an operator runs by hand (`docs/s1-6-2-daily-coo-report.md:138-142`) is an actor of its
own, `HandSender`, which heeds the sender's lock and not the wrapper's: it fetches rows,
registers one, concludes it and goes on, while jobs run. `overtaken` is auxiliary: it
says that the row closeout is about to write was registered since closeout tested it.
Firing, restarts and the start
limit are systemd's (`TimerFires`, `UnitFails`), the retries on
`already_running` the wrapper's (`AlreadyRunning`), and the business date is read
when Core runs (`daily_coo_business_date`). Figures are numbers; `Shown` maps
them to the metrics `_payload_changes` compares, so figures may change in something
a correction does not speak of.

`DailyPromise` is the abstract specification, with neither units nor keys nor rows: a day
has one report, which says what was imported when it was written, and nobody begins to
change it once a chat may have it (a change once begun, `writing`, may still be finished);
a correction leads from what the report says to what was imported since, and
is never taken back. The mapping takes `sales` for what is known, the text of a day's
sales row for its report, days whose sales row is registered for final ones, the texts
of the correction rows for corrections, and the day of a closeout between test and commit
for the one being written.

### ReportVersions, SalesAutomation

Two processes of Core, the timer's and an operator's, go through `run_due`,
`_find_backfill_days` (once in `run_due`, once more in `run_backfill`), `run_date` for
each day under the advisory lock, `ensure_outbox` and `_merge_results`. The operator's is
any of `--run-due`, `--date`, `--backfill` and `--rebuild-outbox`, with any of `--force`,
`--no-publish`, `--retry-partial` and `--backfill-days` that the mode reads (`ManualRuns`,
`BackfillWindows`); the timer's may run with `SALES_OUTBOX_ENABLED` off. Records of runs
carry an auxiliary `publish`: the code does not keep it, and records a run with
`--no-publish` like any other.
`completed` and `lockedOut` are the two kinds of `iiko_sales_automation_runs` rows
that matter: successful scheduled runs with the date they started on, and days
answered `already_running`. `ensure_outbox` reads in one step and writes in the next;
its UPDATE supersedes the rows that waited when it read and still do, and perhaps
rows that another process has added between (`iiko_sales_automation.py:703`).
`rebuild_outbox` does the same without the advisory lock. The sender appears as
`SenderMarks`: the routes look at nothing but `!= "delivered"`, so a row that was
superseded after it was fetched may still be marked. Figures are of three kinds, as
`sync_day` tells them: proven, partial, and untrusted; the last are stored although the
run has failed. An import is one step here and in DailyCoo (or none, `ImportFails`),
because SalesImport shows that a day is replaced whole.

`ReportVersions` is the abstract specification, without runs, locks, keys and payloads: a
day whose figures are known gets a report of figures it has no report of; the report may
withdraw what waits of that day and nothing else, and it waits itself; marks are never
taken back once they say delivered; a day is called done only if it has a report, a run
was turned away from it, or a run was told to leave no report of it. The mapping takes the days imported for known ones, the rows of
the outbox without their keys and the day compared with for versions, the days of
`completed` for done ones, and for excused ones `lockedOut` and the days of completed runs
that were not to publish.

### SalesNormalization, SalesStore, SalesImport

`SalesNormalization` is what `normalize_iiko_sales_payload` makes of three reports:
which rows count, sums, payment categories, status and checksum. `SalesImport` runs
any number of `sync_range` loops next to each other, in Core under its advisory lock
and from the command line without one; with `TakeTurns` they run one after the other. The fetch is three reads while iiko changes.
The transaction of `persist_report` is its statements under READ COMMITTED:

| State | Code |
|---|---|
| `db[d][t]` | the committed rows of a day in `iiko_sales_daily`, `_payments`, `_products`, each with its unique key and its import |
| `imp[i].existing`, `known` | the daily row `get_daily` found, perhaps in the session before the fetch |
| `imp[i].seen` | the rows a DELETE found when it began; it waits while another transaction has deleted one (`DeleteStarts`, `DeleteEnds`) |
| `imp[i].gone` | the rows deleted and not committed |
| `imp[i].step = "insert"` | the flush: it waits for, or fails on, rows whose keys it needs (`FlushAndCommit`, `FlushRaises`) |
| `runs` | `iiko_sales_sync_runs` |

PostgreSQL breaks a circle of waiting transactions (`Deadlocked`); a statement or
the process may fail anywhere before the commit (`ImportRaises`).

`SalesStore` is the abstract specification, without fetches, statements, locks or crashes:
an import deals with its days in turn, each once; it replaces a day at once, by a version
made of one reading that could be read, together with the run that says so, or leaves it
with a run that is trusted only if the day is stored. The mapping takes `db` and `runs` as
they are.

### SalesReading, IikoClient

`IikoClient` is one `ServerRestIikoClient` after the other: the cached token,
`authenticate`, `list_organizations`, `fetch_orders_or_sales` with three requests,
each with its own attempts, `close`, and a process that is killed. iiko answers,
refuses, loses answers and ends sessions on its own. `SalesReading` is the abstract
specification: a fetch reads three versions of the books, one after the other, or
returns nothing. `IikoClient` implements it, and `SalesImport.ReadReport` is its `Read`.

## 3. Runs

| Run | Instance | Shows | States |
|---|---|---|---|
| `rd_wrapper` | 2 reports, 2 chats, a one- and a two-message text, limit 1, wrapper's lock, all faults but late handlers | one text, frozen once a row is registered; no delivered chat is written to; delivered stays delivered; `KeepsPromise` (refinement); every report settles and reaches every chat | 37k |
| `rd_anything` | 1 report, 2 texts, automation and closeout unlocked, one late handler, changing `ALLOWED_IDS` with a repeated chat | what is called delivered is delivered | 1.9M |
| `rd_manual` | the sender outside the wrapper's lock | *violated*: `OneTextPerReport` | |
| `dc_timers` | 2 days, 4 figures of which two look alike, 2 changes, 2 faults, 2 Core attempts, 3 starts, timers only | a correction quotes the report, readers are told what reconcile imported, success means sent, every day is reported | 623k |
| `dc_operators` | 2 days, late units, a run by hand of any mode and past date, a sender run by hand beside the jobs, figures that return, 1 fault | one sales report a day, sent text is final but for a closeout that had tested it, `KeepsPromise` (refinement) | 395k |
| `dc_recurring` | figures that return to the original's | *violated*: `ReconciledMeansTold` | |
| `sa_timers` | 3 days, a run by hand, untrusted figures, 1 change, 1 fault, fair | no false "already completed", one current pending report a day, every day that has ended is imported | 348k |
| `sa_operators` | 2 days, 2 manual runs of any mode with any option, partial figures that return, runs past midnight, a shared lock | `AutoInv`, a success that was to publish has left a report, `KeepsPromise` (refinement: a report is new to its day and withdraws only what waits there) | 1.5M |
| `si_import` | 1 day, the command line next to jobs of Core that take turns, 3 imports, 1 change of the books, perhaps garbled, readings that share a payment type, fair | `KeepsPromise` (refinement: a day is replaced whole, with its run), trusted days add up, every import ends | 89k |
| `si_range` | imports one after the other, of ranges of 2 days, dry runs, books without sales, with other payment types, odd, garbled or refused, 1 fault, 1 change | a day's tables are of one import, the printed status is the worst of the recorded days | 985k |
| `si_status` | a payment type is mapped between two imports of the same rows | *violated*: `PaymentsFollowTheMap` | |
| `ic_client` | all kinds of settings, 4 calls, 2 retries, 2 costly faults, 2 changes of the books | sessions are given back, refused tokens dropped, retries complete, `KeepsPromise` (refinement), every client closes | 134k |

`DeliveryInv`, `PromptInv`, `WrapperInv`, `CooInv`, `ToldInv`, `AutoInv` and
`StoreInv` are the inductive invariants of section 4; `DeliveryInv`, `CooInv` and
`AutoInv` contain the type invariant of their module, `CooInv` also `UniqueKeys`,
`ToldInv` contains `TimersInv`, and `StoreInv` contains `ImportInv`, hence `DayIsWhole`.

Why the bounds are enough. Two chats give every mixture of served and unserved
chats; a two-message text gives a chat half a text; two reports with limit 1 let
one stand in the other's way. Two days are a day and the one before, all the COO
jobs look at; three let the backfill close a gap of two. One late handler already
breaks what late handlers can break, and the proofs cover any number where the
property survives them. Bounds on faults, changes and manual runs are constants
named in the modules (`MaxFaults`, `MaxChanges`, `MaxManualRuns`, `MaxOrphans`);
raising `MaxFaults` to the start limit is what breaks `EveryDayIsReported`, so
`dc_timers` is at the edge. Three imports are two that meet and one that finds what
they left; one change of the books splits a reading anywhere. Two retries tell a
counter that goes on from one that starts again; four calls meet a session that was
lost, one that expired and one that was refused. Deadlock is not checked where days and bounds are
finite: when they are used up, DailyCoo, SalesAutomation and SalesImport may stop.

Fairness. A started process goes on, an open handler finishes, a held lock is given
back, timers fire and days pass: weak fairness each. In ReportDelivery faults cease
(`FaultsEnd`), or nothing could be promised; the sender is started again and again
with `--retry-failed`, as the wrapper does, under strong fairness, because the wrapper
runs the sender after *every* Core run and closeouts that begin again cannot keep
it out. In DailyCoo and SalesAutomation `MaxFaults` plays the part of `FaultsEnd`, and
`EveryClosedDayIsImported` excepts days a run was turned away from. An import goes on
unless its transaction waits, and the database ends deadlocks; it needs no promise of
iiko or of faults, only that its range is finite. In IikoClient httpx ends every
request, with an answer or by its timeouts, and every program that builds a client
closes it in a `finally`; a killed process is a fault and its successor a new client.

## 4. Proofs

`ReportDelivery_proofs` (any reports, chats, texts and `ALLOWED_IDS` lists):

- `TypeCorrect`. `DeliveryInvariant`: what the sender and every handler believe is
  true. A row marked delivered is not inductive alone: the call that will mark it
  must be true already, hence `CallIsTrue` for live and late calls, `LocalIsTrue` for
  the sender's copy and `ChatProgress` for the messages sent. From it
  `DeliveredMeansInformed` and `DeliveredReportsMeanInformed`, with late handlers and
  all faults.
- With `MaxOrphans = 0`: `PromptInvariant` adds that what was read is still so when it
  is written (`LocalIsFresh`, `DecisionIsFresh`); it gives `NobodyIsWrittenToTwice`,
  `DeliveredForGood` and the refinement `DeliveryKeepsPromise`.
- With the wrapper's lock and no automation: `WrapperInvariant` adds that chats,
  rows and the sender's fetched texts agree and that a job about to rewrite is alone;
  it gives `OneText`, late handlers included, and, without them, `RegisteredForGood`.

`DailyCoo_proofs` (any days, figures and bounds):

- `CooInvariant`. `UniqueKeys` is not inductive alone: that a rewrite's key is free or
  the row's own needs that a row of this key *is* the day's report, so a row's text,
  day and key go together (`Fits`); and the jobs must hold real dates and figures
  (`JobKnows`, `ReconcileIsLater`). Every step then does one of three things to the
  outbox (`OutboxStep`): change statuses, add a row with a new key, rewrite the report closeout has
  tested. What closeout found must still hold when it writes: no other row has the new key,
  the day has no other report, and the row is untouched but for what a sender by hand has
  done since (`UpsertFits`; nobody else writes while closeout holds its two locks). From it
  `CooTypeCorrect`, `OneSalesReport`, `KeysStayUnique` and `SentTextForGood`: a text a chat
  may have changes only if its row was registered by hand between closeout's test and its
  commit, which does happen (section 5). While nobody runs the sender by hand it never
  changes (`SentTextForGoodAlone`), and a unit that succeeds has sent (`SuccessIsSent`).
- With no manual runs and no late units: `TimersInvariant` (each unit works for its own
  day, so a day's corrections come after its last closeout) and
  `CorrectionsQuoteTheReport`.
- If moreover figures, once replaced, do not come back (`Recurring = FALSE`), nor the
  metrics shown of them (`MetricsNeverReturn`; amounts and receipts of a day accumulate):
  `ToldInvariant` and `ReconcileTellsTheImport`. A reconcile that finds its correction
  already in the outbox writes nothing, and one that finds no change against the *report*
  does not look at the corrections, so what the newest row says must follow from the
  history: a day's rows say, in the order they were written, metrics of figures imported
  one after the other (`TellsInOrder`); a row that says what was imported last therefore
  has no row with other metrics behind it. `HasTold` keeps it from the report step to the
  sender. Without the assumption `dc_recurring` is the counterexample.
- `DailyKeepsPromise`, the refinement, holds in every mode, with late units, operators,
  senders run by hand and figures that return. An import, a change of the report begun
  (closeout's test), finished (its commit) or given up (a failure or crash between), a
  registration and a correction are the abstract actions; every other step stutters, in
  particular the marks, the alerts and a correction that exists already.

`SalesAutomation_proofs` (any days, figures and bounds, every mode and option):

- `AutoInvariant`. `DoneMeansReported` is not inductive alone: the scheduled run is
  recorded by `_merge_results`, long after the backfill has seen to its last day, so
  the invariant follows that day (to come, at hand, failed, turned away, or done as the run
  was told to, with a report if it was to publish: `BackfillIsTrue`, `DoneAsTold`) and what `ensure_outbox` found (`DayIsTrue`). A process moves alone,
  and days, once imported or reported, stay so (`Kept`); the outbox changes by marks
  and rewrites of one row, or by superseding rows and adding a later one
  (`OutboxStep`). From it `SuccessIsReported`, of the runs that were to publish, and
  `WithdrawnIsReplaced`.
- Without rebuilds: `PendingIsKnown` adds that all rows that wait are among those a
  writer has read; it gives `OneReportWaits`. If figures do not return either,
  `FiguresRise` adds that a row says no later figures than those stored, and a writer
  exactly those: the key of newer figures is free, so its report is added and the older
  ones superseded. It gives `WaitingReportIsCurrent`.
- `AutomationKeepsPromise`, the refinement, holds in every mode and needs `AutoInvariant`
  alone. An import, a new row with the rows it supersedes, a mark, a day turned away and a
  completed run are the abstract actions; every other step stutters. A rewrite changes what
  a row compares with and keeps its key, hence its figures; the unique key makes the
  figures of a new row new to its day; and that a day called done has a report, or was to
  have none, is `DoneMeansReported`. `Forgo` is the abstract step of a run that calls a day
  done without a report.
- While no run passes midnight: `RunsAreOfToday` adds that a scheduled run is of the
  day before; it gives `DoneIsImported`.

`SalesImport_proofs` (any importers, days, books and maps). All but `TypeCorrect` and
`ResultsTellOfEveryDay` assume `DaysDoNotMix`: imports run one after the other
(`OneAtATime`, as those of Core do under the advisory lock), or any two readings of a day
have a payment type in common (`PaymentKeysMeet`). The code guarantees neither when the
command line runs next to a job of Core; section 5 says what happens then.

- `ImportInvariant`, under `DaysDoNotMix`. That a day is whole rests on what a DELETE sees: all rows of a
  table or none (`AllOrNothing`), never two transactions the same (`OneDeletes`), the
  products with the payments (`ProductsGoToo`), and, unless imports take
  turns, on the payment key two imports have in common, which makes the second wait and then
  fail or delete. A stored day
  is what one import made of one reading (`StoredOnce`). From it `DayIsAlwaysWhole` and
  `TrustedDaysAlwaysAddUp`, whatever the sums are. `TypeCorrect` includes unique keys and
  needs no condition.
- `ResultInv`: the runs recorded under an import are those of the days behind it,
  and the status is one of theirs and no better than any. Imports are told apart by
  their numbers, and a run is recorded in the step that leaves its day, whether the day was
  stored or failed; it gives `ResultsTellOfEveryDay`, also without a condition.
- `StoreInvariant` and `ImportsKeepPromise`, the refinement, under `DaysDoNotMix`. That a commit replaces *all*
  there was is the argument of `ImportInvariant`; that days come in turn is what results
  are added up from (`ResultInv`). `WritersAreSure` adds the rest: whoever is past
  `PersistBegins` is no dry run and has read its day well, and a row found, even in a
  session before the fetch, is a row of a day that stays stored, so `unchanged` never
  answers for a day that is missing.

`IikoClient_proofs` (any settings, retries and bounds):

- `ClientInvariant`: which call awaits which request, and that sessions lost are paid
  for by faults. The count needs a step per session: a cardinality argument
  (`NothingPilesUp`) gives `SessionsAreGivenBack`; then `RefusedIsNeverUsedAgain`,
  `GivenUpAfterEveryTry` and the refinement `ClientKeepsPromise`.

`Outbox_proofs` holds what two components need of numbers and sets.

The assumptions are the named `ASSUME`s of the modules and those in the theorems'
statements. Every safety property of the passing runs is the subject of a theorem. Only
model-checked: all liveness, which with ENABLED is beyond this prover, as is induction
over data and what a recursive operator computes (`SalesNormalization`'s sums over rows,
which the proofs leave arbitrary).

## 5. What the code does not keep

Three runs show a disagreement with the documentation (`findings` in PROJECT.json):
`rd_manual`, `dc_recurring`, `si_status`. These were met too and have no run of their
own; each appears with the change named to a run's configuration, checking that
property alone:

| Change | Property violated | What happens |
|---|---|---|
| `RD_wrapper`: `MaxOrphans = 1` | `NoMessageAfterDelivery`, `DeliveredIsFinal` | a handler served after its client's 30 s timeout marks a row behind the retry's back (`report_sender.py:242`); `docs/s1-6-2-daily-coo-report.md:206` excludes it |
| `RD_wrapper`: `Automation = TRUE` | `RegisteredTextIsImmutable` | automation rewrites any undelivered row, registered or not (`iiko_sales_automation.py:685`; s1-6-2:102) |
| `RD_wrapper`: `Blocked = {a}` | `EveryReachableChatIsInformed` | a chat that refuses messages ends the loop over the chats, and the next chat is never reached, on any retry (`report_sender.py:385`; s1-6-2:100) |
| `DC_timers`: `MaxManualRuns = 1` | `CorrectionsStartFromTheReport` | a closeout by hand rewrites the report under its correction (`daily_coo_report.py:307`; s1-6-2:81) |
| `DC_timers`: `SenderIsShared = TRUE` | `SuccessMeansSent` | `send-telegram-reports.sh:16` exits 0 when its lock is taken (s1-6-2:169) |
| `DC_operators` | `[][SentTextNeverChanges]_vars` | a sender run by hand registers the row after closeout has tested it and before closeout commits: a text chats may have is rewritten (`daily_coo_report.py:304`; s1-6-2:102) |
| `DC_timers`: `RunsPassMidnight = TRUE` | `CloseoutIsForItsDay` | the date is read when Core runs, not when the timer fired (`daily_coo_report.py:76`; s1-6-2:45) |
| `SA_timers`: `RunsPassMidnight = TRUE` | `DoneMeansImported` | the scheduled run of a backfill is recorded when it is over, perhaps on the next date (`iiko_sales_automation.py:798`) |
| `SA_timers`: `LockIsShared = TRUE` | `LockedOutIsNotDone` | `_merge_results` counts failed days only: a day answered `already_running` is taken for done (`:894`; sales automation runbook:54) |
| `SA_timers`: two days, `Recurring = TRUE`, two changes, two manual runs | `PendingIsCurrent` | figures that return find their superseded row, the outdated one waits on (`:684`; sales automation runbook:68) |
| `SA_operators` | `SuccessAlwaysReports` | `--run-due --no-publish` is recorded as a scheduled run that succeeded, and the timer then answers `already_completed` for a day without a report (`:665`, `:790`) |
| `SA_operators` | `OnePendingReport` | a rebuild, which takes no lock, and an import each insert a row (`:745`) |
| `SA_timers` | `EveryImportIsReported` | a crash between import and outbox row loses the report of a day the backfill caught up with (`:610`; sales automation runbook:14) |

Met while modelling and kept in the models as the code has it:

- The routes that mark a report test only `!= "delivered"` (`report_outbox.py:159`, `:184`):
  a report superseded after the sender fetched it is sent and becomes delivered, or failed,
  and then `--retry-failed` offers the outdated figures again.
- A rebuild that read a day's figures before an import changed them may insert its report
  after the import's, supersede that one and leave the outdated one waiting
  (`iiko_sales_automation.py:703`; sales automation runbook:68). `PendingIsCurrent` is
  therefore proved without rebuilds only.
- Figures that do not add up (status UNKNOWN) are stored over a day that was proven,
  although the run has failed (`iiko_sales.py:233`; `docs/s1-6-1-sales-import-runbook.md:58`
  calls them "unsafe to trust", :66 has "previous successful data remains unchanged" for
  errors before the commit). The next run finds the day imported and makes its report
  (`iiko_sales_automation.py:582`).
- An import from the command line next to one by a job of Core, of the same day and with
  no payment type in common (a day without sales has none at all), may leave a mixture of
  their payments: nothing but a shared key makes the second wait (import runbook:62 has
  "replaces the previous day atomically"). `DaysDoNotMix` excludes it: the theorems and
  `si_import` are about readings that share a payment type, `si_range` about any readings
  whose imports take turns. Only `TypeCorrect` and `ResultsTellOfEveryDay` cover the rest.
- An amount or date that cannot be read raises past `sync_day`, ends the range and leaves
  no run (`NormalizationRaises`; `iiko_sales.py:192` catches `SalesNormalizationError` only).

## 6. Not modelled

- Authentication of the API, redaction, formatting, logging, attempt counters and
  timestamps change no decision the properties speak of.
- `split_telegram_message` is a pure function of text and limit; ReportDelivery takes
  the number of messages of a text as a constant.
- The Hermes publisher runs only with a delivery mode that production disables, and it
  would share the outbox with nobody.
- The mock adapter, the probe and its fixtures are for development. Read-only routes,
  command lines and configuration have no state of their own; the status endpoint
  appears as another holder of the advisory lock.
- The database schema is declarations; the constraints that matter are in the type
  invariants. `daily_coo_report_runs` is written and never read, the tables of
  `models/integration.py` by no service. `requires_resync` is set by no code.
- Dry runs of the COO job and of the automation change nothing (those of the import do
  appear, for what they print). The time the wrapper and systemd wait is left out: a
  wait ends, or ends as a fault.
- The COO job's own imports are not writers of SalesAutomation's `sales`; while it runs,
  it is the "other" holder of the lock.

## 7. Plan

What is left, most important first:

1. `Jobs`: DailyCoo's and SalesAutomation's writers on one outbox and one advisory
   lock, for what each assumes of the other (keys that coincide, the automation's rows
   found by closeout, the other's imports).
2. `MessageSplitting` against a reference definition over bounded texts (no part too
   long, nothing lost).
3. `HermesPublisher`, if its delivery mode is ever enabled: `publish_pending` and its
   crash window.
