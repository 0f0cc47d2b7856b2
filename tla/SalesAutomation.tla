-------------------------- MODULE SalesAutomation --------------------------
(***************************************************************************)
(* The hourly sales automation of Core (IikoSalesAutomationService) and    *)
(* the runs of its command line an operator may start next to it: --run-due,*)
(* --date, --backfill and --rebuild-outbox, with and without --force,      *)
(* --no-publish, --retry-partial and --backfill-days.                      *)
(*                                                                         *)
(* A step is one commit, or one set of reads that a later commit relies    *)
(* on.  The text of a report is <<figures of the day, figures of the day   *)
(* before>>: the comparison is part of the text, not of the key.           *)
(*                                                                         *)
(* Left out: skipped runs, which change nothing a step reads, and dry runs,*)
(* which change nothing either but may hold the lock (OtherLocks);         *)
(* requires_resync, which no code sets; the comparison with the week       *)
(* before, which is like the one with the day before.                      *)
(***************************************************************************)
EXTENDS Outbox

CONSTANTS
    Days,             \* consecutive local dates
    Figures,          \* what iiko may say of a day
    PartialFigures,   \* those that leave something open
    UntrustedFigures, \* those that do not add up
    BackfillMaxDays,  \* SALES_BACKFILL_MAX_DAYS
    MaxFaults,        \* bound on failing imports, crashes and busy locks
    MaxChanges,       \* bound on changes of a day's figures in iiko
    MaxManualRuns,    \* bound on runs started by hand
    Recurring,        \* TRUE: figures may return to an earlier value
    RunsPassMidnight, \* TRUE: a run may still go on at midnight
    LockIsShared,     \* TRUE: a COO job or a status request may hold the lock
    MayNotPublish,    \* TRUE: --no-publish is used, or SALES_OUTBOX_ENABLED turned off
    ManualModes       \* what operators run: --run-due, --date, --backfill, --rebuild-outbox

ASSUME SalesAutomationAssumption ==
    /\ IsFiniteSet(Days) /\ Days # {} /\ Days = 1 .. Cardinality(Days)
    /\ Figures \subseteq Nat \ {0} /\ Figures # {}
    /\ PartialFigures \subseteq Figures /\ UntrustedFigures \subseteq Figures \ PartialFigures
    /\ BackfillMaxDays \in Nat \ {0}
    /\ {MaxFaults, MaxChanges, MaxManualRuns} \subseteq Nat
    /\ {Recurring, RunsPassMidnight, LockIsShared, MayNotPublish} \subseteq BOOLEAN
    /\ ManualModes \subseteq {"due", "date", "backfill", "rebuild"}

Jobs == {"hourly", "manual"}
None == 0     \* no date, no figures, no row

VARIABLES
    today,     \* the local date
    late,      \* the local time has reached SALES_DAILY_RUN_LOCAL_TIME
    iiko,      \* the figures iiko holds for each day
    sales,     \* iiko_sales_daily: the figures imported for each day
    outbox,    \* hermes_report_outbox
    lock,      \* who holds the advisory lock
    completed, \* scheduled runs recorded as completed or partial; auxiliary: were they to publish
    lockedOut, \* days of runs recorded as already_running
    job,       \* what each process of Core does
    faults, changes, manualRuns   \* how much of the bounds is used

vars == <<today, late, iiko, sales, outbox, lock, completed, lockedOut, job, faults, changes, manualRuns>>

-----------------------------------------------------------------------------

\* A process: its command, what it found, the days it still has to see to.
NoJob ==
    [step |-> "idle", mode |-> "none", force |-> FALSE, publish |-> TRUE,
     retryPartial |-> FALSE, target |-> None, targetDue |-> FALSE, todo |-> {},
     last |-> None, day |-> None, trigger |-> "none", on |-> None,
     outcome |-> "none", failed |-> FALSE,
     text |-> << >>, row |-> None, rewrite |-> FALSE, pending |-> {}]

Init ==
    /\ today = 1 /\ late = FALSE
    /\ iiko = [d \in Days |-> Min(Figures)]
    /\ sales = [d \in Days |-> None]
    /\ outbox = << >>
    /\ lock = "free"
    /\ completed = {} /\ lockedOut = {}
    /\ job = [j \in Jobs |-> NoJob]
    /\ faults = 0 /\ changes = 0 /\ manualRuns = 0

Step(j)      == job[j].step
MayFail      == faults < MaxFaults /\ faults' = faults + 1
LockSteps    == {"import", "ensure", "commit", "close"}

\* Mutant: nobody gives the lock of a dead process back.
Unlocked_Never(j) == lock

Unlocked(j) == IF lock = j THEN "free" ELSE lock

-----------------------------------------------------------------------------
(* The environment *)

MidnightPasses ==
    /\ today + 1 \in Days
    /\ RunsPassMidnight \/ \A j \in Jobs : Step(j) = "idle"
    /\ today' = today + 1 /\ late' = FALSE
    /\ UNCHANGED <<iiko, sales, outbox, lock, completed, lockedOut, job, faults, changes, manualRuns>>

MorningComes ==
    /\ ~ late
    /\ late' = TRUE
    /\ UNCHANGED <<today, iiko, sales, outbox, lock, completed, lockedOut, job, faults, changes, manualRuns>>

FiguresChange ==
    /\ changes < MaxChanges
    /\ \E d \in 1 .. today, f \in Figures :
        /\ f # iiko[d] /\ (Recurring \/ f > iiko[d])
        /\ iiko' = [iiko EXCEPT ![d] = f]
    /\ changes' = changes + 1
    /\ UNCHANGED <<today, late, sales, outbox, lock, completed, lockedOut, job, faults, manualRuns>>

\* A COO job holds the lock, or is_held_elsewhere tries it.
OtherLocks ==
    /\ LockIsShared
    /\ lock = "free"
    /\ MayFail
    /\ lock' = "other"
    /\ UNCHANGED <<today, late, iiko, sales, outbox, completed, lockedOut, job, changes, manualRuns>>

OtherUnlocks ==
    /\ lock = "other"
    /\ lock' = "free"
    /\ UNCHANGED <<today, late, iiko, sales, outbox, completed, lockedOut, job, faults, changes, manualRuns>>

\* The sender concludes a report it was offered, superseded since or not.
SenderMarks ==
    /\ \E i \in DOMAIN outbox, s \in {"delivered", "failed"} :
        /\ outbox[i].status # "delivered"
        /\ outbox' = [outbox EXCEPT ![i].status = s]
    /\ UNCHANGED <<today, late, iiko, sales, lock, completed, lockedOut, job, faults, changes, manualRuns>>

-----------------------------------------------------------------------------
(* What is due *)

_successful_scheduled_run_exists(local_date, target_date) ==
    \E r \in completed : r.day = target_date \/ r.on = local_date

\* Mutant: only the day before is looked at.
_find_backfill_days_Target(target, backfill_days, retry_partial) == {d \in Days : d = target /\ sales[d] = None}

_find_backfill_days(target, backfill_days, retry_partial) ==
    {d \in Days :
        /\ target - backfill_days < d /\ d <= target
        /\ sales[d] = None \/ (retry_partial /\ sales[d] \in PartialFigures)}

\* Before the time of day, or when a successful run exists, --run-due records
\* nothing but a skipped run.
IsDue == late /\ today > 1 /\ ~ _successful_scheduled_run_exists(today, today - 1)

Publishes == {TRUE} \cup {~ MayNotPublish}

DueRun(force, publish, retryPartial) ==
    [NoJob EXCEPT !.step = "list", !.mode = "due", !.force = force, !.publish = publish,
                  !.retryPartial = retryPartial, !.target = today - 1,
                  !.targetDue = today - 1 \in
                      _find_backfill_days(today - 1, BackfillMaxDays, retryPartial)]

\* The hourly timer gives --run-due no option.
run_due ==
    /\ Step("hourly") = "idle" /\ IsDue
    /\ \E publish \in Publishes : job' = [job EXCEPT !["hourly"] = DueRun(FALSE, publish, FALSE)]
    /\ UNCHANGED <<today, late, iiko, sales, outbox, lock, completed, lockedOut, faults, changes, manualRuns>>

\* The runs an operator may start, with whatever options the mode reads.
ManualRuns(mode, force, publish, retryPartial) ==
    CASE mode = "due" -> IF IsDue THEN {DueRun(force, publish, retryPartial)} ELSE {}
      [] mode = "date" ->
            {[NoJob EXCEPT !.step = "days", !.mode = "date", !.todo = {d},
                           !.force = force, !.publish = publish] : d \in 1 .. today}
      [] mode = "backfill" ->
            {[NoJob EXCEPT !.step = "list", !.mode = "backfill", !.target = today - 1,
                           !.publish = publish, !.retryPartial = retryPartial]}
      [] mode = "rebuild" ->
            {[NoJob EXCEPT !.step = "days", !.mode = "rebuild",
                           !.todo = {d \in Days : sales[d] # None}]}

\* An operator starts a run in Core, next to the timer's.
ManualRun ==
    /\ manualRuns < MaxManualRuns /\ manualRuns' = manualRuns + 1
    /\ Step("manual") = "idle"
    /\ \E mode \in ManualModes, force \in BOOLEAN, publish \in Publishes, retryPartial \in BOOLEAN :
       \E run \in ManualRuns(mode, force, publish, retryPartial) :
            job' = [job EXCEPT !["manual"] = run]
    /\ UNCHANGED <<today, late, iiko, sales, outbox, lock, completed, lockedOut, faults, changes>>

\* --backfill may be given fewer days than the configuration allows, or none.
BackfillWindows(mode) == IF mode = "backfill" THEN 0 .. BackfillMaxDays ELSE {BackfillMaxDays}

\* run_backfill looks for the days once more.
ListDays(j) ==
    /\ Step(j) = "list"
    /\ \E window \in BackfillWindows(job[j].mode) :
        LET days == _find_backfill_days(job[j].target, window, job[j].retryPartial)
        IN  job' = [job EXCEPT ![j].step = "days", ![j].todo = days,
                               ![j].last = IF days = {} THEN None ELSE Max(days)]
    /\ UNCHANGED <<today, late, iiko, sales, outbox, lock, completed, lockedOut, faults, changes, manualRuns>>

-----------------------------------------------------------------------------
(* One day: run_date *)

\* The day to do next, for what trigger, and whether imported figures do: the
\* backfill's days, oldest first, then the target if the backfill left it out.
DayToDo(j) ==
    LET b == job[j]
    IN  IF b.todo # {}
        THEN [day |-> Min(b.todo), trigger |-> IF b.mode = "date" THEN "manual" ELSE "backfill",
              force |-> b.force \/ b.mode # "date"]
        ELSE [day |-> b.target, trigger |-> "scheduled", force |-> b.force]

HasNext(j) ==
    /\ Step(j) = "days"
    /\ job[j].todo # {} \/ (job[j].mode = "due" /\ ~ job[j].targetDue)

\* Take the lock and record a run; known figures are kept unless forced.
run_date(j) ==
    /\ HasNext(j) /\ job[j].mode # "rebuild"
    /\ lock = "free"
    /\ lock' = j
    /\ LET n == DayToDo(j)
           known == sales[n.day] # None /\ ~ n.force
           ready == IF job[j].publish THEN "ensure" ELSE "close"
       IN  job' = [job EXCEPT
             ![j].day = n.day, ![j].trigger = n.trigger, ![j].on = today,
             ![j].todo = @ \ {n.day},
             ![j].outcome = IF known THEN "skipped" ELSE "none",
             ![j].step = IF known THEN ready ELSE "import"]
    /\ UNCHANGED <<today, late, iiko, sales, outbox, completed, lockedOut, faults, changes, manualRuns>>

\* The lock is taken: the run is recorded and the day left out.
AlreadyRunning(j) ==
    /\ HasNext(j) /\ job[j].mode # "rebuild"
    /\ lock # "free"
    /\ lockedOut' = lockedOut \cup {DayToDo(j).day}
    /\ \/ job[j].todo = {} /\ job' = [job EXCEPT ![j] = NoJob]
       \/ job[j].todo # {} /\ job' = [job EXCEPT ![j].todo = @ \ {DayToDo(j).day}]
    /\ UNCHANGED <<today, late, iiko, sales, outbox, lock, completed, faults, changes, manualRuns>>

\* Mutant: a failed day counts as one with a report.
Succeeded_Unless(outcome) == outcome # "skipped"

Succeeded(outcome) == outcome \in {"proven", "partial"}

\* The rows of a day are replaced in one transaction, or left if unchanged.
persist_report(d) == sales' = [sales EXCEPT ![d] = iiko[d]]

ResultStatus(figures) ==
    IF figures \in UntrustedFigures THEN "failed"
    ELSE IF figures \in PartialFigures THEN "partial" ELSE "proven"

\* sync_day stores what iiko says now.  Figures that do not add up are stored as
\* well, but the day's run has failed and makes no report of them.
sync_day(j) ==
    /\ Step(j) = "import"
    /\ LET d       == job[j].day
           outcome == ResultStatus(iiko[d])
       IN  /\ persist_report(d)
           /\ job' = [job EXCEPT
                 ![j].step = IF job[j].publish /\ Succeeded(outcome) THEN "ensure" ELSE "close",
                 ![j].outcome = outcome]
    /\ UNCHANGED <<today, late, iiko, outbox, lock, completed, lockedOut, faults, changes, manualRuns>>

\* sync_day fails or raises: the day's run has failed.
ImportFails(j) ==
    /\ Step(j) = "import"
    /\ MayFail
    /\ job' = [job EXCEPT ![j].step = "close", ![j].outcome = "failed"]
    /\ UNCHANGED <<today, late, iiko, sales, outbox, lock, completed, lockedOut, changes, manualRuns>>

-----------------------------------------------------------------------------
(* One report: ensure_outbox *)

build_sales_daily_hermes_payload(d) == <<sales[d], IF d - 1 \in Days THEN sales[d - 1] ELSE None>>

KeyOf(j) == SalesKey(job[j].day, job[j].text[1])

\* Mutant: every report of the day is superseded, also what was delivered.
PendingReports_AnyStatus(d) == SalesReports(outbox, d)

PendingReports(d) == {i \in SalesReports(outbox, d) : outbox[i].status = "pending"}

\* What ensure_outbox reads: the figures, then their row, or that there is none.
EnsureReads(j) ==
    /\ Step(j) = "ensure"
    /\ LET d    == job[j].day
           text == build_sales_daily_hermes_payload(d)
           rows == WithKey(outbox, SalesKey(d, text[1]))
           row  == IF rows = {} THEN None ELSE Max(rows)
       IN  job' = [job EXCEPT
             ![j].step = "commit", ![j].text = text, ![j].row = row,
             ![j].rewrite = row # None /\ outbox[row].status # "delivered",
             ![j].pending = IF row = None THEN PendingReports(d) ELSE {}]
    /\ UNCHANGED <<today, late, iiko, sales, outbox, lock, completed, lockedOut, faults, changes, manualRuns>>

\* Mutant: the older rows keep waiting.
Superseded_None(rows, which) == rows

Superseded(rows, which) ==
    [i \in DOMAIN rows |-> IF i \in which THEN [rows[i] EXCEPT !.status = "superseded"] ELSE rows[i]]

\* What it writes.  A new row supersedes the pending rows its UPDATE finds: those
\* that waited when it read and wait still, and of those added since, by a process
\* that ran next to it, the ones that came before the UPDATE.
ensure_outbox(j) ==
    /\ Step(j) = "commit"
    /\ LET b == job[j]
       IN  \/ /\ b.row # None
              /\ outbox' = IF b.rewrite THEN [outbox EXCEPT ![b.row].text = b.text] ELSE outbox
           \/ /\ b.row = None /\ WithKey(outbox, KeyOf(j)) = {}
              /\ \E rows \in SUBSET PendingReports(b.day) :
                  /\ b.pending \cap PendingReports(b.day) \subseteq rows
                  /\ outbox' = Append(Superseded(outbox, rows),
                                      NewRow("sales", b.day, KeyOf(j), b.text))
    /\ job' = [job EXCEPT ![j].step = IF job[j].mode = "rebuild" THEN "days" ELSE "close",
                          ![j].text = << >>, ![j].row = None, ![j].rewrite = FALSE,
                          ![j].pending = {}]
    /\ UNCHANGED <<today, late, iiko, sales, lock, completed, lockedOut, faults, changes, manualRuns>>

\* The key exists by now: the flush raises, the session cannot even record the
\* failure, and the process ends.
KeyIsTaken(j) ==
    /\ Step(j) = "commit"
    /\ job[j].row = None /\ WithKey(outbox, KeyOf(j)) # {}
    /\ job' = [job EXCEPT ![j] = NoJob]
    /\ lock' = Unlocked(j)
    /\ UNCHANGED <<today, late, iiko, sales, outbox, completed, lockedOut, faults, changes, manualRuns>>

\* rebuild_outbox goes from day to day without the lock.
rebuild_outbox(j) ==
    /\ Step(j) = "days" /\ job[j].mode = "rebuild" /\ job[j].todo # {}
    /\ job' = [job EXCEPT ![j].step = "ensure", ![j].day = Min(job[j].todo),
                          ![j].todo = @ \ {Min(job[j].todo)}]
    /\ UNCHANGED <<today, late, iiko, sales, outbox, lock, completed, lockedOut, faults, changes, manualRuns>>

-----------------------------------------------------------------------------
(* The end of a day, and of a run *)

\* The day's run is recorded and the lock released.
FinishDay(j) ==
    /\ Step(j) = "close"
    /\ lock' = "free"
    /\ LET b == job[j]
       IN  /\ completed' = IF b.trigger = "scheduled" /\ Succeeded(b.outcome)
                           THEN completed \cup {[day |-> b.day, on |-> b.on, publish |-> b.publish]}
                           ELSE completed
           /\ job' = [job EXCEPT ![j] =
                 IF b.trigger = "scheduled" THEN NoJob
                 ELSE [b EXCEPT !.step = "days", !.failed = b.failed \/ b.outcome = "failed",
                                !.day = None, !.trigger = "none", !.on = None, !.outcome = "none"]]
    /\ UNCHANGED <<today, late, iiko, sales, outbox, lockedOut, faults, changes, manualRuns>>

\* Mutant: a failed day does not count.
_merge_results_AllWell(j) ==
    /\ Step(j) = "days" /\ ~ HasNext(j)
    /\ completed' = IF job[j].mode = "due"
                    THEN completed \cup {[day |-> job[j].last, on |-> today, publish |-> job[j].publish]}
                    ELSE completed
    /\ job' = [job EXCEPT ![j] = NoJob]
    /\ UNCHANGED <<today, late, iiko, sales, outbox, lock, lockedOut, faults, changes, manualRuns>>

\* When the backfill did the target, its result is the scheduled run's.
_merge_results(j) ==
    /\ Step(j) = "days" /\ ~ HasNext(j)
    /\ completed' = IF job[j].mode = "due" /\ ~ job[j].failed
                    THEN completed \cup {[day |-> job[j].last, on |-> today, publish |-> job[j].publish]}
                    ELSE completed
    /\ job' = [job EXCEPT ![j] = NoJob]
    /\ UNCHANGED <<today, late, iiko, sales, outbox, lock, lockedOut, faults, changes, manualRuns>>

\* The process ends anywhere; its connection takes the lock with it.
JobCrashes(j) ==
    /\ Step(j) # "idle"
    /\ MayFail
    /\ job' = [job EXCEPT ![j] = NoJob]
    /\ lock' = Unlocked(j)
    /\ UNCHANGED <<today, late, iiko, sales, outbox, completed, lockedOut, changes, manualRuns>>

-----------------------------------------------------------------------------

Environment == MidnightPasses \/ MorningComes \/ FiguresChange \/ OtherLocks \/ OtherUnlocks
               \/ SenderMarks \/ ManualRun

JobStep(j) ==
    \/ ListDays(j) \/ run_date(j) \/ AlreadyRunning(j) \/ sync_day(j)
    \/ EnsureReads(j) \/ ensure_outbox(j) \/ KeyIsTaken(j) \/ rebuild_outbox(j)
    \/ FinishDay(j) \/ _merge_results(j)

Next ==
    \/ Environment
    \/ run_due
    \/ \E j \in Jobs : JobStep(j) \/ ImportFails(j) \/ JobCrashes(j)

Spec == Init /\ [][Next]_vars

\* Time goes on, the timer fires every hour, a started process goes on.
Fairness ==
    /\ WF_vars(MidnightPasses) /\ WF_vars(MorningComes) /\ WF_vars(OtherUnlocks)
    /\ WF_vars(run_due)
    /\ \A j \in Jobs : WF_vars(JobStep(j))

FairSpec == Spec /\ Fairness

-----------------------------------------------------------------------------
(* Properties *)

\* The rows of the automation.
SalesRows ==
    [type : {"sales"}, day : Days, key : {SalesKey(d, f) : d \in Days, f \in Figures},
     text : Figures \X (Figures \cup {None}), status : RowStatuses, registered : BOOLEAN]

\* The shape of the state, and who holds the lock.
TypeOK ==
    /\ today \in Days /\ late \in BOOLEAN
    /\ iiko \in [Days -> Figures] /\ sales \in [Days -> Figures \cup {None}]
    /\ outbox \in Seq(SalesRows)
    /\ \A i \in DOMAIN outbox : outbox[i].key = SalesKey(outbox[i].day, outbox[i].text[1])
    /\ lock \in Jobs \cup {"free", "other"}
    /\ lockedOut \subseteq Days
    /\ completed \subseteq [day : Days \cup {None}, on : Days, publish : BOOLEAN]
    /\ DOMAIN job = Jobs
    /\ \A j \in Jobs :
        /\ DOMAIN job[j] = DOMAIN NoJob
        /\ Step(j) \in LockSteps \cup {"idle", "list", "days"}
        /\ (Step(j) \in LockSteps /\ job[j].mode # "rebuild") <=> lock = j
        /\ job[j].todo \subseteq Days
        /\ {job[j].publish, job[j].targetDue, job[j].failed, job[j].rewrite} \subseteq BOOLEAN

Imported(d) == sales[d] # None
Reported(d) == SalesReports(outbox, d) # {}

\* The day is done as a run was told to do it.
DoneAsTold(publish, d) == Imported(d) /\ (publish => Reported(d))

\* What a process believes of the day at hand is true: the figures it reports are
\* there, the row it found is of its key, the rows it found waiting are of its day,
\* and what ends well has left a report, if it was to.
DayIsTrue(j) ==
    LET b == job[j]
    IN  /\ Step(j) \in LockSteps => b.day \in Days
        /\ lock = j => b.on \in Days
        /\ Step(j) \in {"ensure", "commit"} => Imported(b.day)
        /\ Step(j) = "commit" =>
            /\ b.text \in Figures \X (Figures \cup {None})
            /\ b.row # None => b.row \in DOMAIN outbox /\ outbox[b.row].key = KeyOf(j)
        /\ b.pending \subseteq SalesReports(outbox, b.day)
        /\ Step(j) # "commit" => b.pending = {}
        /\ Step(j) = "close" /\ Succeeded(b.outcome) => DoneAsTold(b.publish, b.day)
        /\ b.mode = "rebuild" =>
            Step(j) \in {"days", "ensure", "commit"} /\ \A d \in b.todo : Imported(d)

\* So is what a due run believes of its backfill: the last day of it is to come,
\* at hand, failed, or done as the run was told to.
BackfillIsTrue(j) ==
    LET b == job[j]
    IN  /\ Step(j) = "idle" => b.mode = "none"
        /\ lock = j /\ b.trigger = "scheduled" => b.mode = "due" /\ b.day = b.target
        /\ lock = j /\ b.trigger # "scheduled" /\ b.mode = "due" => b.outcome # "skipped"
        /\ lock = j /\ Step(j) # "import" => b.outcome \in {"skipped", "failed", "proven", "partial"}
        /\ b.mode = "due" =>
            b.target \in Days /\ (Step(j) \in {"list", "days"} => b.day = None)
        /\ b.mode = "due" /\ Step(j) # "list" =>
            /\ b.last \in Days \cup {None}
            /\ b.last # None =>
                \/ b.failed \/ b.last \in b.todo \cup {b.day} \cup lockedOut
                \/ DoneAsTold(b.publish, b.last)
            /\ b.targetDue => b.last = b.target \/ Imported(b.target)

\* A report is of a day that is imported, a scheduled run of one that is done.
RecordsAreTrue ==
    /\ \A i \in DOMAIN outbox :
        /\ Imported(outbox[i].day)
        /\ outbox[i].status = "superseded" => \E k \in SalesReports(outbox, outbox[i].day) : k > i
    /\ \A r \in completed : r.day # None =>
        DoneAsTold(r.publish, r.day) \/ r.day \in lockedOut

\* The inductive invariant.
AutoInv == TypeOK /\ (\A j \in Jobs : DayIsTrue(j) /\ BackfillIsTrue(j)) /\ RecordsAreTrue

\* Without rebuilds all writers hold the lock: what a process found of the rows
\* that wait is still so when it writes.
PendingIsKnown ==
    /\ \A j \in Jobs : job[j].mode # "rebuild"
    /\ \A j \in Jobs : Step(j) = "commit" /\ job[j].row = None =>
        PendingReports(job[j].day) \subseteq job[j].pending
    /\ \A d \in Days : \A i, k \in PendingReports(d) : i = k

\* Without rebuilds, and while figures only rise: the reports of a day are of rising
\* figures that were all imported, only the last of them may wait, and what is about
\* to be written are the figures of the day.
FiguresRise ==
    /\ \A d \in Days :
        /\ sales[d] <= iiko[d]
        /\ \A i \in SalesReports(outbox, d) :
            /\ outbox[i].text[1] <= sales[d]
            /\ \A k \in SalesReports(outbox, d) : i < k =>
                outbox[i].text[1] < outbox[k].text[1] /\ outbox[i].status # "pending"
    /\ \A j \in Jobs : Step(j) = "commit" => job[j].text[1] = sales[job[j].day]

\* While no run passes midnight, a scheduled run is of the day before, and what it
\* has recorded of a date says that day is imported or was left out.
RunsAreOfToday ==
    /\ \A j \in Jobs : job[j].mode = "due" =>
        job[j].target = today - 1 /\ (Step(j) \in LockSteps => job[j].on = today)
    /\ \A r \in completed :
        /\ r.on \in 2 .. today
        /\ Imported(r.on - 1) \/ r.on - 1 \in lockedOut

\* The timer is told "already_completed" only when the day before is imported,
\* or a run was turned away from that day by the lock.
DoneMeansImported ==
    today > 1 /\ _successful_scheduled_run_exists(today, today - 1) =>
        sales[today - 1] # None \/ today - 1 \in lockedOut

\* A scheduled run that succeeded has left a report of its day in the outbox,
\* unless it was told not to publish or was turned away from the day.
DoneMeansReported ==
    \A r \in completed : r.publish /\ r.day # None =>
        SalesReports(outbox, r.day) # {} \/ r.day \in lockedOut

\* A scheduled run that succeeded has left a report, whatever it was told.  It
\* need not: one with --no-publish is recorded as well, and the timer's next run
\* finds it and leaves the day alone.
SuccessAlwaysReports ==
    \A r \in completed : r.day # None =>
        SalesReports(outbox, r.day) # {} \/ r.day \in lockedOut

\* A day from which a run was turned away is not taken for done: the timer is
\* told "already_completed" only when the day before is imported.
LockedOutIsNotDone ==
    today > 1 /\ _successful_scheduled_run_exists(today, today - 1) => sales[today - 1] # None

\* At most one report of a day waits for its first delivery: a new one supersedes
\* the one before.
OnePendingReport == \A d \in Days : Cardinality(PendingReports(d)) <= 1

\* While nobody works, a report that waits gives the figures last imported for
\* its day, if that import was to be published.
PendingIsCurrent ==
    (\A j \in Jobs : Step(j) = "idle") =>
        \A d \in Days : \A i \in PendingReports(d) :
            outbox[i].text[1] = sales[d] \/ WithKey(outbox, SalesKey(d, sales[d])) = {}

\* No report is withdrawn without another in its place, crash or not.
SupersededIsReplaced ==
    \A i \in DOMAIN outbox : outbox[i].status = "superseded" =>
        \E k \in SalesReports(outbox, outbox[i].day) : k > i

\* The outbox as ReportVersions sees it: keys, registrations and comparisons with
\* other days do not tell versions apart.
Version(row) == [day |-> row.day, figures |-> row.text[1], status |-> row.status]

Promise == INSTANCE ReportVersions WITH
    known    <- {d \in Days : Imported(d)},
    versions <- [i \in DOMAIN outbox |-> Version(outbox[i])],
    done     <- {r.day : r \in completed} \ {None},
    excused  <- lockedOut \cup ({r.day : r \in {x \in completed : ~ x.publish}} \ {None})

\* Whatever runs beside whatever, and wherever it ends: a report is new to its day,
\* withdraws only what waits there, and is never taken back once delivered; a run
\* that calls its day done has left a report, was told to leave none or was turned
\* away.
KeepsPromise == Promise!Spec

\* A day that has ended is imported in the end, unless the lock stood against it.
EveryClosedDayIsImported ==
    \A d \in Days : d < today ~> (sales[d] # None \/ d \in lockedOut)

\* An imported day has a report in the end.  It need not: a crash between the
\* import and the outbox row loses a day the backfill was catching up with.
EveryImportIsReported == \A d \in Days : sales[d] # None ~> SalesReports(outbox, d) # {}
=============================================================================
