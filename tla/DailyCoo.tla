------------------------------ MODULE DailyCoo ------------------------------
(***************************************************************************)
(* The daily COO report: the two systemd units (closeout, reconcile), the  *)
(* wrapper run-daily-coo-report.sh each of them runs, and the Core job     *)
(* DailyCooReportOrchestrator that the wrapper calls before the sender.    *)
(*                                                                         *)
(* A step of the Core job is one of its commits, or what it reads before   *)
(* one.  The wrapper's sender is one step here; ReportDelivery takes it    *)
(* apart.  A sender that an operator runs by hand heeds the sender's lock  *)
(* but not the wrapper's: it goes from row to row while jobs run.  Figures *)
(* are what one import says of a day, with their checksum; Shown[f] is the *)
(* part of them that _payload_changes compares.  The text of a sales       *)
(* report is <<figures>>, of a correction <<old metrics, new metrics>>.    *)
(*                                                                         *)
(* Left out: daily_coo_report_runs, which no step reads; dry runs, which   *)
(* write nothing; the sender's --limit, which a day's reports do not reach *)
(* (by hand, a lower one is a sender that ends early).                     *)
(* What iiko fails with stands for both the status and the error code of a *)
(* failed run.                                                             *)
(***************************************************************************)
EXTENDS Outbox

CONSTANTS
    Days,          \* consecutive local dates
    Figures,       \* what iiko may say of a day
    Shown,         \* the metrics of figures that a correction speaks of
    CoreAttempts,  \* DOS_AMIGOS_DAILY_COO_CORE_RETRY_ATTEMPTS
    StartLimit,    \* StartLimitBurst of the units
    MaxFaults,     \* bound on failures of Core, iiko, the sender and locks, and senders by hand
    MaxChanges,    \* bound on changes of a day's figures in iiko
    Recurring,     \* TRUE: figures may return to an earlier value
    RunsPassMidnight, \* TRUE: a unit may be late, or still wait at midnight
    MaxManualRuns, \* bound on runs of the wrapper by hand, with --date
    SenderIsShared \* TRUE: operators run the sender by hand

ASSUME DailyCooAssumption ==
    /\ IsFiniteSet(Days) /\ Days # {} /\ Days = 1 .. Cardinality(Days)
    /\ Figures \subseteq Nat \ {0} /\ Figures # {}
    /\ Figures \subseteq DOMAIN Shown
    /\ CoreAttempts \in Nat \ {0} /\ StartLimit \in Nat \ {0}
    /\ {MaxFaults, MaxChanges, MaxManualRuns} \subseteq Nat
    /\ {Recurring, RunsPassMidnight, SenderIsShared} \subseteq BOOLEAN

Units == {"closeout", "reconcile"}
None  == 0     \* no date, no figures, no row

VARIABLES
    today,     \* the local date
    iiko,      \* the figures iiko holds for each day
    sales,     \* iiko_sales_daily: the figures imported for each day
    outbox,    \* hermes_report_outbox
    handRows,  \* the rows a sender run by hand has fetched and not come to
    handRow,   \* the row it is sending
    overtaken, \* auxiliary: the row closeout is about to rewrite was registered since its test
    lock,      \* who holds the advisory lock of sales automation
    fired,     \* the last date each unit's timer has fired for
    step,      \* where each unit is
    due,       \* the date a unit's timer fired for
    given,     \* the --date of a manual run
    day,       \* the business date the Core job works for
    base,      \* the row reconcile compares with, or closeout rewrites
    result,    \* the status the Core job reports
    attempt,   \* how often the wrapper has called Core
    starts,    \* how often systemd has started the unit
    faults,    \* faults so far
    changes,   \* changes of iiko's figures so far
    manualRuns \* runs by hand so far

unitVars == <<fired, step, due, given, day, base, result, attempt, starts>>
handVars == <<handRows, handRow>>
vars == <<today, iiko, sales, outbox, handVars, overtaken, lock, unitVars, faults, changes, manualRuns>>

-----------------------------------------------------------------------------

\* The first figures of a day are the smallest; no day comes before day 1.
Init ==
    /\ today = 1
    /\ iiko = [d \in Days |-> Min(Figures)]
    /\ sales = [d \in Days |-> None]
    /\ outbox = << >>
    /\ handRows = {} /\ handRow = None /\ overtaken = FALSE
    /\ lock = "free"
    /\ fired = [u \in Units |-> IF u = "reconcile" THEN 1 ELSE 0]
    /\ step = [u \in Units |-> "off"]
    /\ due = [u \in Units |-> None] /\ given = [u \in Units |-> None]
    /\ day = [u \in Units |-> None] /\ base = [u \in Units |-> None]
    /\ result = [u \in Units |-> "none"]
    /\ attempt = [u \in Units |-> 0] /\ starts = [u \in Units |-> 0]
    /\ faults = 0 /\ changes = 0 /\ manualRuns = 0

\* Steps of the Core job, between taking and releasing the advisory lock.
JobSteps     == {"import", "report", "upsert", "alert", "finish"}
\* Steps of the wrapper that hold its lock.
WrapperSteps == {"core", "sender"} \cup JobSteps

Good      == {"outbox_ready", "reconciled", "correction_created", "unchanged", "missing_closeout"}
Idle(u)   == step[u] \in {"off", "done"}
MayFail   == faults < MaxFaults /\ faults' = faults + 1
Go(u, s)  == step' = [step EXCEPT ![u] = s]

-----------------------------------------------------------------------------
(* The environment *)

\* Closing out a day before midnight takes the luck RunsPassMidnight denies.
MidnightPasses ==
    /\ today + 1 \in Days
    /\ RunsPassMidnight \/ \A u \in Units : Idle(u) /\ fired[u] = today
    /\ today' = today + 1
    /\ UNCHANGED <<iiko, sales, outbox, handVars, overtaken, lock, unitVars, faults, changes, manualRuns>>

\* iiko books something for a day that has begun.
FiguresChange ==
    /\ changes < MaxChanges
    /\ \E d \in 1 .. today, f \in Figures :
        /\ f # iiko[d] /\ (Recurring \/ f > iiko[d])
        /\ iiko' = [iiko EXCEPT ![d] = f]
    /\ changes' = changes + 1
    /\ UNCHANGED <<today, sales, outbox, handVars, overtaken, lock, unitVars, faults, manualRuns>>

\* Sales automation, or a status request, holds the advisory lock for a while.
OtherLocks ==
    /\ lock = "free"
    /\ MayFail
    /\ lock' = "other"
    /\ UNCHANGED <<today, iiko, sales, outbox, handVars, overtaken, unitVars, changes, manualRuns>>

OtherUnlocks ==
    /\ lock = "other"
    /\ lock' = "free"
    /\ UNCHANGED <<today, iiko, sales, outbox, handVars, overtaken, unitVars, faults, changes, manualRuns>>

-----------------------------------------------------------------------------
(* systemd *)

\* The timer of a unit fires at its time of day, or when the host is back up.
TimerFires(u) ==
    /\ Idle(u)
    /\ fired[u] < today
    /\ \E d \in fired[u] + 1 .. today :
        /\ RunsPassMidnight \/ d = today
        /\ fired' = [fired EXCEPT ![u] = d]
        /\ due' = [due EXCEPT ![u] = d]
    /\ given' = [given EXCEPT ![u] = None]
    /\ starts' = [starts EXCEPT ![u] = 1]
    /\ Go(u, "wait")
    /\ UNCHANGED <<today, iiko, sales, outbox, handVars, overtaken, lock, day, base, result, attempt, faults, changes, manualRuns>>

\* An operator runs the wrapper with --date; nobody restarts it.
ManualRun(u) ==
    /\ manualRuns < MaxManualRuns /\ manualRuns' = manualRuns + 1
    /\ Idle(u)
    /\ \E d \in 1 .. today : given' = [given EXCEPT ![u] = d] /\ due' = [due EXCEPT ![u] = d]
    /\ starts' = [starts EXCEPT ![u] = StartLimit]
    /\ Go(u, "wait")
    /\ UNCHANGED <<today, iiko, sales, outbox, handVars, overtaken, lock, fired, day, base, result,
                   attempt, faults, changes>>

\* Mutant: a unit without Restart=on-failure.
UnitFails_NoRestart(u) == Go(u, "off") /\ UNCHANGED starts

\* The wrapper exits with an error: systemd starts it again, within its limit.
UnitFails(u) ==
    IF starts[u] < StartLimit
    THEN Go(u, "wait") /\ starts' = [starts EXCEPT ![u] = @ + 1]
    ELSE Go(u, "off") /\ UNCHANGED starts

-----------------------------------------------------------------------------
(* The wrapper: lock, Core, sender *)

TakeWrapperLock(u) ==
    /\ step[u] = "wait"
    /\ \A v \in Units : step[v] \notin WrapperSteps
    /\ Go(u, "core")
    /\ attempt' = [attempt EXCEPT ![u] = 1]
    /\ result' = [result EXCEPT ![u] = "none"]
    /\ UNCHANGED <<today, iiko, sales, outbox, handVars, overtaken, lock, fired, due, given, day, base,
                   starts, faults, changes, manualRuns>>

WrapperLockTimesOut(u) ==
    /\ step[u] = "wait"
    /\ \E v \in Units : step[v] \in WrapperSteps
    /\ MayFail
    /\ UnitFails(u)
    /\ UNCHANGED <<today, iiko, sales, outbox, handVars, overtaken, lock, fired, due, given, day, base,
                   result, attempt, changes, manualRuns>>

\* Core found the advisory lock taken: try again, a bounded number of times.
\* Outlasting the wrapper's patience counts as a fault.
AlreadyRunning(u) ==
    /\ step[u] = "core"
    /\ lock # "free"
    /\ IF attempt[u] < CoreAttempts
       THEN attempt' = [attempt EXCEPT ![u] = @ + 1] /\ UNCHANGED <<step, starts, faults>>
       ELSE UnitFails(u) /\ MayFail /\ UNCHANGED attempt
    /\ UNCHANGED <<today, iiko, sales, outbox, handVars, overtaken, lock, fired, due, given, day, base,
                   result, changes, manualRuns>>

\* Mutant: reconcile takes the current date.
daily_coo_business_date_Today(u) == IF given[u] # None THEN given[u] ELSE today

daily_coo_business_date(u) ==
    CASE given[u] # None -> given[u]
      [] given[u] = None /\ u = "closeout" -> today
      [] given[u] = None /\ u = "reconcile" -> today - 1

-----------------------------------------------------------------------------
(* The Core job *)

\* Core takes the lock and records a run; reconcile looks for its original.
StartJob(u) ==
    /\ step[u] = "core"
    /\ lock = "free"
    /\ lock' = u
    /\ LET d == daily_coo_business_date(u)
           originals == SalesReports(outbox, d)
           missing == u = "reconcile" /\ originals = {}
       IN  /\ day' = [day EXCEPT ![u] = d]
           /\ base' = [base EXCEPT ![u] = IF u = "reconcile" /\ ~ missing
                                          THEN LatestSalesReport(outbox, d) ELSE None]
           /\ result' = [result EXCEPT ![u] = IF missing THEN "missing_closeout" ELSE "running"]
           /\ Go(u, IF missing THEN "alert" ELSE "import")
    /\ UNCHANGED <<today, iiko, sales, outbox, handVars, overtaken, fired, due, given, attempt, starts,
                   faults, changes, manualRuns>>

\* sync_day stores what iiko says now.
sync_day(d) == sales' = [sales EXCEPT ![d] = iiko[d]]

Import(u) ==
    /\ step[u] = "import"
    /\ day[u] \in Days
    /\ sync_day(day[u])
    /\ Go(u, "report")
    /\ UNCHANGED <<today, iiko, outbox, handVars, overtaken, lock, fired, due, given, day, base, result,
                   attempt, starts, faults, changes, manualRuns>>

\* sync_day fails or raises: an alert, and no figures, except those that do not
\* add up, which are stored although the import counts as failed.
ImportFails(u) ==
    /\ step[u] = "import"
    /\ day[u] \in Days
    /\ MayFail
    /\ \/ /\ result' = [result EXCEPT ![u] = "iiko_sync_exception"]
          /\ UNCHANGED sales
       \/ /\ result' = [result EXCEPT ![u] = "iiko_sales_sync_failed"]
          /\ sync_day(day[u]) \/ UNCHANGED sales
    /\ Go(u, "alert")
    /\ UNCHANGED <<today, iiko, outbox, handVars, overtaken, lock, fired, due, given, day, base,
                   attempt, starts, changes, manualRuns>>

Rewritten(row, d) ==
    [row EXCEPT !.key = SalesKey(d, sales[d]), !.text = <<sales[d]>>]

\* Mutant: only a row of these very figures is taken for the day's report.
ReportToUpsert_ByKey(d) ==
    IF WithKey(outbox, SalesKey(d, sales[d])) # {}
    THEN Max(WithKey(outbox, SalesKey(d, sales[d]))) ELSE None

\* The row that closeout upserts: the one of these figures, else the latest.
ReportToUpsert(d) ==
    IF WithKey(outbox, SalesKey(d, sales[d])) # {}
    THEN Max(WithKey(outbox, SalesKey(d, sales[d])))
    ELSE IF SalesReports(outbox, d) # {} THEN LatestSalesReport(outbox, d) ELSE None

\* What closeout reads: the row, and whether chats may have it.
_sales_outbox_is_mutable(u) ==
    /\ u = "closeout"
    /\ step[u] = "report"
    /\ LET i == ReportToUpsert(day[u])
       IN  IF i # None => IsMutable(outbox[i])
           THEN Go(u, "upsert") /\ base' = [base EXCEPT ![u] = i] /\ UNCHANGED result
           ELSE /\ result' = [result EXCEPT ![u] = "outbox_ready"]
                /\ Go(u, "finish")
                /\ UNCHANGED base
    /\ UNCHANGED <<today, iiko, sales, outbox, handVars, overtaken, lock, fired, due, given, day,
                   attempt, starts, faults, changes, manualRuns>>

\* What it writes, whoever has registered the row meanwhile.
_upsert_sales_outbox(u) ==
    /\ step[u] = "upsert"
    /\ LET d == day[u]
       IN  outbox' =
             IF base[u] = None
             THEN Append(outbox, NewRow("sales", d, SalesKey(d, sales[d]), <<sales[d]>>))
             ELSE [outbox EXCEPT ![base[u]] = Rewritten(@, d)]
    /\ result' = [result EXCEPT ![u] = "outbox_ready"]
    /\ base' = [base EXCEPT ![u] = None]
    /\ overtaken' = FALSE
    /\ Go(u, "finish")
    /\ UNCHANGED <<today, iiko, sales, handVars, lock, fired, due, given, day, attempt,
                   starts, faults, changes, manualRuns>>

FiguresOf(row) == row.text[1]

\* Compare with the original; one correction per set of changes.
Reconcile(u) ==
    /\ u = "reconcile"
    /\ step[u] = "report"
    /\ LET d   == day[u]
           old == Shown[FiguresOf(outbox[base[u]])]
           new == Shown[sales[d]]
           key == CorrectionKey(d, old, new)
       IN  IF old = new
           THEN result' = [result EXCEPT ![u] = "reconciled"] /\ UNCHANGED outbox
           ELSE IF WithKey(outbox, key) # {}
           THEN result' = [result EXCEPT ![u] = "unchanged"] /\ UNCHANGED outbox
           ELSE /\ result' = [result EXCEPT ![u] = "correction_created"]
                /\ outbox' = Append(outbox, NewRow("correction", d, key, <<old, new>>))
    /\ Go(u, "finish")
    /\ UNCHANGED <<today, iiko, sales, handVars, overtaken, lock, fired, due, given, day, base, attempt,
                   starts, faults, changes, manualRuns>>

\* At most one alert per day, mode and error.
_ensure_alert_outbox(u) ==
    /\ step[u] = "alert"
    /\ LET key == AlertKey(day[u], u, result[u])
       IN  outbox' = IF WithKey(outbox, key) # {} THEN outbox
                     ELSE Append(outbox, NewRow("alert", day[u], key, << >>))
    /\ Go(u, "finish")
    /\ UNCHANGED <<today, iiko, sales, handVars, overtaken, lock, fired, due, given, day, base, result,
                   attempt, starts, faults, changes, manualRuns>>

\* The database refuses a report, an alert or the end of the run: it has failed.
JobRaises(u) ==
    /\ step[u] \in {"report", "upsert", "alert", "finish"}
    /\ MayFail
    /\ result' = [result EXCEPT ![u] = "failed"]
    /\ Go(u, "finish")
    /\ overtaken' = FALSE
    /\ UNCHANGED <<today, iiko, sales, outbox, handVars, lock, fired, due, given, day, base,
                   attempt, starts, changes, manualRuns>>

\* The run is closed, the lock released, the result printed.
FinishJob(u) ==
    /\ step[u] = "finish"
    /\ lock' = "free"
    /\ Go(u, "sender")
    /\ UNCHANGED <<today, iiko, sales, outbox, handVars, overtaken, fired, due, given, day, base, result,
                   attempt, starts, faults, changes, manualRuns>>

\* Core dies, or its container cannot be reached: no output for the wrapper.
JobCrashes(u) ==
    /\ step[u] \in {"core"} \cup JobSteps
    /\ MayFail
    /\ lock' = IF lock = u THEN "free" ELSE lock
    /\ UnitFails(u)
    /\ overtaken' = FALSE
    /\ UNCHANGED <<today, iiko, sales, outbox, handVars, fired, due, given, day, base, result,
                   attempt, changes, manualRuns>>

-----------------------------------------------------------------------------
(* The sender, run by the wrapper for the day Core printed *)

\* Nobody runs the sender by hand.
SenderIsFree == handRow = None /\ handRows = {}

Delivered(row) == [row EXCEPT !.status = "delivered", !.registered = TRUE]
Failed(row)    == [row EXCEPT !.status = "failed", !.registered = TRUE]
Touched(row)   == [row EXCEPT !.registered = TRUE]

\* Mutant: the wrapper forgets the sender's exit status.
WrapperExits_IgnoringSender(u, senderFailed) ==
    IF result[u] \in Good THEN Go(u, "done") /\ UNCHANGED starts ELSE UnitFails(u)

\* The exit status of Core wins over the sender's.
WrapperExits(u, senderFailed) ==
    IF result[u] \in Good /\ ~ senderFailed
    THEN Go(u, "done") /\ UNCHANGED starts
    ELSE UnitFails(u)

SenderDelivers(u) ==
    /\ step[u] = "sender" /\ SenderIsFree
    /\ outbox' = [i \in DOMAIN outbox |->
                    IF i \in Unsent(outbox, day[u]) THEN Delivered(outbox[i]) ELSE outbox[i]]
    /\ WrapperExits(u, FALSE)
    /\ UNCHANGED <<today, iiko, sales, handVars, overtaken, lock, fired, due, given, day, base, result,
                   attempt, faults, changes, manualRuns>>

\* Some reports are delivered, at least one is not; a sender that dies leaves
\* the reports after it alone, and the one at hand registered at most.
SenderFails(u) ==
    /\ step[u] = "sender" /\ SenderIsFree
    /\ MayFail
    /\ \E lost \in SUBSET Unsent(outbox, day[u]) :
        /\ \E fate \in [lost -> {"failed", "touched", "left"}] :
            outbox' = [i \in DOMAIN outbox |->
                CASE i \notin Unsent(outbox, day[u]) -> outbox[i]
                  [] i \in Unsent(outbox, day[u]) \ lost -> Delivered(outbox[i])
                  [] i \in lost /\ fate[i] = "failed" -> Failed(outbox[i])
                  [] i \in lost /\ fate[i] = "touched" -> Touched(outbox[i])
                  [] i \in lost /\ fate[i] = "left" -> outbox[i]]
    /\ WrapperExits(u, TRUE)
    /\ UNCHANGED <<today, iiko, sales, handVars, overtaken, lock, fired, due, given, day, base, result,
                   attempt, changes, manualRuns>>

\* A sender run by hand holds send-telegram-reports.sh's lock: status
\* already_running, exit status 0.
SenderIsLocked(u) ==
    /\ step[u] = "sender"
    /\ ~ SenderIsFree
    /\ WrapperExits(u, FALSE)
    /\ UNCHANGED <<today, iiko, sales, outbox, handVars, overtaken, lock, fired, due, given, day, base,
                   result, attempt, faults, changes, manualRuns>>

-----------------------------------------------------------------------------
(* The sender, run by an operator *)

\* It fetches what waits, of a date or of all, failed reports too or not.
HandSenderStarts ==
    /\ SenderIsShared /\ SenderIsFree
    /\ MayFail
    /\ \E days \in {Days} \cup {{d} : d \in Days}, statuses \in {{"pending"}, {"pending", "failed"}} :
        handRows' = {i \in DOMAIN outbox : outbox[i].day \in days /\ outbox[i].status \in statuses}
    /\ handRows' # {}
    /\ UNCHANGED <<today, iiko, sales, outbox, handRow, overtaken, lock, unitVars, changes, manualRuns>>

\* It registers the chats of the next row, and closeout may have tested that row.
HandSenderRegisters ==
    /\ handRow = None /\ handRows # {}
    /\ LET i == Min(handRows)
       IN  /\ outbox' = [outbox EXCEPT ![i] = Touched(@)]
           /\ handRow' = i /\ handRows' = handRows \ {i}
           /\ overtaken' = (overtaken \/ (step["closeout"] = "upsert" /\ base["closeout"] = i))
    /\ UNCHANGED <<today, iiko, sales, lock, unitVars, faults, changes, manualRuns>>

HandSenderConcludes ==
    /\ handRow # None
    /\ \E row \in {Delivered(outbox[handRow]), Failed(outbox[handRow])} :
        outbox' = [outbox EXCEPT ![handRow] = row]
    /\ handRow' = None
    /\ UNCHANGED <<today, iiko, sales, handRows, overtaken, lock, unitVars, faults, changes, manualRuns>>

\* It dies, or has reached its limit.
HandSenderEnds ==
    /\ ~ SenderIsFree
    /\ handRow' = None /\ handRows' = {}
    /\ UNCHANGED <<today, iiko, sales, outbox, overtaken, lock, unitVars, faults, changes, manualRuns>>

HandSender == HandSenderStarts \/ HandSenderRegisters \/ HandSenderConcludes \/ HandSenderEnds

-----------------------------------------------------------------------------

Environment == MidnightPasses \/ FiguresChange \/ OtherLocks \/ OtherUnlocks

UnitStep(u) ==
    \/ TakeWrapperLock(u) \/ AlreadyRunning(u) \/ StartJob(u)
    \/ Import(u) \/ _sales_outbox_is_mutable(u) \/ _upsert_sales_outbox(u) \/ Reconcile(u)
    \/ _ensure_alert_outbox(u)
    \/ FinishJob(u) \/ SenderDelivers(u) \/ SenderIsLocked(u)

UnitFault(u) ==
    \/ WrapperLockTimesOut(u) \/ ImportFails(u) \/ JobRaises(u) \/ JobCrashes(u)
    \/ SenderFails(u)

Next ==
    \/ Environment \/ HandSender
    \/ \E u \in Units : TimerFires(u) \/ ManualRun(u) \/ UnitStep(u) \/ UnitFault(u)

Spec == Init /\ [][Next]_vars

\* A started unit goes on, a lock is given back, timers fire and days pass.
Fairness ==
    /\ WF_vars(MidnightPasses)
    /\ WF_vars(OtherUnlocks)
    /\ \A u \in Units : WF_vars(TimerFires(u)) /\ WF_vars(UnitStep(u))

FairSpec == Spec /\ Fairness

-----------------------------------------------------------------------------
(* Properties *)

Metrics == {Shown[f] : f \in Figures}
Errors  == {"missing_closeout", "iiko_sales_sync_failed", "iiko_sync_exception"}
Results == Good \cup Errors \cup {"none", "running", "failed"}

Keys == {SalesKey(d, f) : d \in Days, f \in Figures}
        \cup {CorrectionKey(d, old, new) : d \in Days, old \in Metrics, new \in Metrics}
        \cup {AlertKey(d, u, e) : d \in Days, u \in Units, e \in Errors}

Texts == {<<f>> : f \in Figures} \cup (Metrics \X Metrics) \cup {<< >>}

Rows == [type : ReportTypes, day : Days, key : Keys, text : Texts,
         status : RowStatuses, registered : BOOLEAN]

\* The shape of the state, and who may be where.
TypeOK ==
    /\ today \in Days /\ faults \in 0 .. MaxFaults /\ changes \in 0 .. MaxChanges
    /\ manualRuns \in 0 .. MaxManualRuns
    /\ iiko \in [Days -> Figures] /\ sales \in [Days -> Figures \cup {None}]
    /\ outbox \in Seq(Rows)
    /\ \A i \in DOMAIN outbox :
        outbox[i].status \in {"failed", "delivered"} => outbox[i].registered
    /\ handRows \subseteq DOMAIN outbox /\ handRow \in DOMAIN outbox \cup {None}
    /\ handRow # None => outbox[handRow].registered
    /\ SenderIsShared \/ (SenderIsFree /\ ~ overtaken)
    /\ overtaken \in BOOLEAN /\ (overtaken => step["closeout"] = "upsert")
    /\ lock \in Units \cup {"free", "other"}
    /\ step \in [Units -> WrapperSteps \cup {"off", "wait", "done"}]
    /\ attempt \in [Units -> 0 .. CoreAttempts] /\ starts \in [Units -> 0 .. StartLimit]
    /\ day \in [Units -> Days \cup {None}] /\ due \in [Units -> Days \cup {None}]
    /\ given \in [Units -> Days \cup {None}] /\ fired \in [Units -> Days \cup {None}]
    /\ base \in [Units -> Nat] /\ result \in [Units -> Results]
    /\ \A u \in Units : step[u] \in JobSteps <=> lock = u
    /\ \A u, v \in Units : {step[u], step[v]} \subseteq WrapperSteps => u = v

\* However often closeout runs, a day has one sales report (_upsert_sales_outbox
\* rewrites it, or leaves it alone when chats already have it).
OneSalesReportPerDay == \A d \in Days : Cardinality(SalesReports(outbox, d)) <= 1

\* No job ever violates the unique constraint on idempotency keys, which would
\* fail its run.
UniqueKeys == KeysAreUnique(outbox)

\* A text that some chat may have read is rewritten by no step but a closeout's
\* that had tested the row before its chats were registered.
SentTextStays ==
    \A i \in DOMAIN outbox :
        outbox[i].registered \/ outbox[i].status = "delivered" =>
            \/ outbox'[i].text = outbox[i].text
            \/ overtaken /\ i = base["closeout"]

SentTextIsFinal == [][SentTextStays]_vars

\* While nobody runs the sender by hand, no step at all rewrites it.
SentTextNeverChanges ==
    \A i \in DOMAIN outbox : outbox[i].registered => outbox'[i].text = outbox[i].text

\* A correction's old metrics are those of the day's sales report.
CorrectionsStartFromTheReport ==
    \A i \in DOMAIN outbox : outbox[i].type = "correction" =>
        \E j \in SalesReports(outbox, outbox[i].day) :
            outbox[i].text[1] = Shown[FiguresOf(outbox[j])]

\* The metrics that a report gives its readers.
Says(row) == IF row.type = "sales" THEN Shown[FiguresOf(row)] ELSE row.text[2]

\* The rows about a day that give metrics.
ReportsOf(rows, d) == {i \in OfDay(rows, d) : rows[i].type # "alert"}

\* The metrics that the newest report of a day gives its readers.
Told(rows, d) == Says(rows[Max(ReportsOf(rows, d))])

\* When reconcile has succeeded, the day's newest report gives the figures it
\* imported, whatever changed and failed before.
ReconciledMeansTold ==
    step["reconcile"] = "sender"
        /\ result["reconcile"] \in {"reconciled", "correction_created", "unchanged"} =>
            Told(outbox, day["reconcile"]) = Shown[sales[day["reconcile"]]]

\* A unit that ends successfully leaves no report of its day unsent.
SuccessSends ==
    \A u \in Units : step[u] = "sender" /\ step'[u] = "done" => Unsent(outbox', day[u]) = {}

SuccessMeansSent == [][SuccessSends]_vars

\* The closeout of a date works for that date.  This holds as long as
\* RunsPassMidnight is FALSE: the date is read when Core runs.
CloseoutIsForItsDay ==
    step["closeout"] \in JobSteps => day["closeout"] = due["closeout"]

\* Every day whose closeout has begun has its sales report delivered in the end.
EveryDayIsReported ==
    \A d \in Days :
        fired["closeout"] = d ~>
            \E i \in SalesReports(outbox, d) : outbox[i].status = "delivered"

-----------------------------------------------------------------------------
(* What the jobs and the sender implement together *)

\* The figures in a day's report, if it has one.
Reported(rows, d) ==
    IF SalesReports(rows, d) = {} THEN None ELSE FiguresOf(rows[LatestSalesReport(rows, d)])

\* Days whose report some chat may have.
Sent(rows) == {d \in Days : \E i \in SalesReports(rows, d) : rows[i].registered}

CorrectionRows(rows) == {i \in DOMAIN rows : rows[i].type = "correction"}

\* What the corrections say.
Corrections(rows) ==
    {<<rows[i].day, rows[i].text[1], rows[i].text[2]>> : i \in CorrectionRows(rows)}

Promise == INSTANCE DailyPromise WITH
    known <- sales,
    report <- [d \in Days |-> Reported(outbox, d)],
    final <- Sent(outbox),
    corrections <- Corrections(outbox),
    writing <- IF step["closeout"] = "upsert" THEN day["closeout"] ELSE None

\* Over late units, operators' runs, restarts and failures, no closeout sets out
\* to change a report that a chat may have, and each correction leads from the
\* report as it then is to the figures imported (DailyPromise).
KeepsPromise == Promise!Spec

-----------------------------------------------------------------------------
(* Inductive invariants *)

\* What a row says and the key it has go together.
Fits(row) ==
    /\ row.type = "sales" =>
         \E f \in Figures : row.text = <<f>> /\ row.key = SalesKey(row.day, f)
    /\ row.type = "correction" =>
         \E old, new \in Metrics : row.text = <<old, new>> /\ row.key = CorrectionKey(row.day, old, new)
    /\ row.type = "alert" =>
         \E u \in Units, e \in Errors : row.key = AlertKey(row.day, u, e)

\* What closeout has read still holds when it writes, but for chats registered since.
UpsertFits(u) ==
    /\ WithKey(outbox, SalesKey(day[u], sales[day[u]])) \subseteq {base[u]}
    /\ IF base[u] = None
       THEN SalesReports(outbox, day[u]) = {}
       ELSE base[u] \in SalesReports(outbox, day[u]) /\ (overtaken \/ IsMutable(outbox[base[u]]))

\* What a unit at work has made sure of.
JobKnows(u) ==
    /\ step[u] \in JobSteps => day[u] \in Days
    /\ step[u] \in {"report", "upsert"} => sales[day[u]] \in Figures
    /\ step[u] = "upsert" => u = "closeout" /\ UpsertFits(u)
    /\ step[u] = "alert" => result[u] \in Errors
    /\ u = "reconcile" /\ step[u] \in {"import", "report"} =>
         base[u] \in SalesReports(outbox, day[u])

\* Reconcile is not started on the first day, which has no day before it.
ReconcileIsLater ==
    /\ fired["reconcile"] >= 1
    /\ step["reconcile"] \in {"wait"} \cup WrapperSteps =>
         given["reconcile"] # None \/ today > 1

\* A new row's key is new, because the row of a key already there is found and
\* what it says follows from its key.
CooInv ==
    /\ TypeOK
    /\ \A i \in DOMAIN outbox : Fits(outbox[i])
    /\ UniqueKeys
    /\ OneSalesReportPerDay
    /\ \A u \in Units : JobKnows(u)
    /\ ReconcileIsLater

\* When units keep to their days, a day has its corrections only after its last
\* closeout.
TimersInv ==
    /\ CooInv
    /\ CorrectionsStartFromTheReport
    /\ \A u \in Units : given[u] = None
    /\ step["closeout"] \in JobSteps => day["closeout"] = today
    /\ step["reconcile"] \in JobSteps => day["reconcile"] = today - 1
    /\ \A i \in DOMAIN outbox : outbox[i].type = "correction" => outbox[i].day < today

\* Figures that only grow do not bring metrics back that others have replaced.
MetricsNeverReturn ==
    \A f, g, h \in Figures :
        f <= g /\ g <= h /\ Shown[f] = Shown[h] => Shown[g] = Shown[f]

\* Metrics that growing figures may have shown in this order.
Before(m, n) == \E f, g \in Figures : f <= g /\ Shown[f] = m /\ Shown[g] = n

\* The reports of a day say what its imports have shown, in the order of the rows.
TellsInOrder(d) ==
    /\ sales[d] <= iiko[d]
    /\ \A i \in ReportsOf(outbox, d) :
        \E f \in Figures : f <= sales[d] /\ Shown[f] = Says(outbox[i])
    /\ \A i, j \in ReportsOf(outbox, d) : i <= j => Before(Says(outbox[i]), Says(outbox[j]))

\* Reconcile has told the figures when it has decided, not only when it is closed.
HasTold ==
    step["reconcile"] \in {"finish", "sender"}
        /\ result["reconcile"] \in {"reconciled", "correction_created", "unchanged"} =>
            /\ ReportsOf(outbox, day["reconcile"]) # {}
            /\ Told(outbox, day["reconcile"]) = Shown[sales[day["reconcile"]]]

\* When units keep to their days and figures only grow, a report that says what
\* was imported last is not behind one that says something else.
ToldInv ==
    /\ TimersInv
    /\ \A d \in Days : TellsInOrder(d)
    /\ HasTold
=============================================================================
