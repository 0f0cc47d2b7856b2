----------------------- MODULE SalesAutomation_proofs -----------------------
(***************************************************************************)
(* Proofs about SalesAutomation, for any number of days, any figures, any  *)
(* mode an operator may run and any bounds on faults, changes and runs.    *)
(***************************************************************************)
EXTENDS SalesAutomation, Outbox_proofs

-----------------------------------------------------------------------------
(* Dates and processes *)

\* Local dates are the numbers up to some number.
LEMMA DaysAreNumbers ==
    /\ Cardinality(Days) \in Nat /\ Days = 1 .. Cardinality(Days)
    /\ 1 \in Days /\ None \notin Days /\ Days \subseteq Nat
BY SalesAutomationAssumption, FS_CardinalityType, FS_EmptySet DEF None

\* The fields of a process.
Fields ==
    {"step", "mode", "force", "publish", "retryPartial", "target", "targetDue", "todo", "last",
     "day", "trigger", "on", "outcome", "failed", "text", "row", "rewrite", "pending"}

\* NoJob has them.
LEMMA FieldsOfNoJob == DOMAIN NoJob = Fields
BY DEF NoJob, Fields

JobsShape == DOMAIN job = Jobs /\ \A j \in Jobs : DOMAIN job[j] = Fields

\* A step of process j changes no other process, and of its own these fields only.
Only(j, F) ==
    /\ DOMAIN job' = Jobs
    /\ \A k \in Jobs : k # j => job'[k] = job[k]
    /\ DOMAIN job'[j] = Fields
    /\ \A f \in Fields \ F : job'[j][f] = job[j][f]

-----------------------------------------------------------------------------
(* What each step makes of its process *)

\* A process that ends.
Ends(j) == Only(j, Fields) /\ job'[j] = NoJob

\* Ends is what a step that puts NoJob does.
LEMMA EndsJob ==
    ASSUME JobsShape, NEW j \in Jobs, job' = [job EXCEPT ![j] = NoJob] PROVE Ends(j)
BY FieldsOfNoJob DEF JobsShape, Only, Ends

\* What a due run begins with.
DueBegins(b) ==
    /\ DOMAIN b = Fields
    /\ b.step = "list" /\ b.mode = "due" /\ b.target = today - 1
    /\ b.targetDue \in BOOLEAN /\ b.publish \in BOOLEAN /\ b.failed = FALSE
    /\ b.rewrite = FALSE /\ b.todo = {} /\ b.pending = {} /\ b.day = None

\* A due run begins with the list of days to fill, of the day before.
LEMMA DueRunBegins ==
    ASSUME NEW force, NEW publish \in BOOLEAN, NEW retryPartial
    PROVE  DueBegins(DueRun(force, publish, retryPartial))
<1> DEFINE due == today - 1 \in _find_backfill_days(today - 1, BackfillMaxDays, retryPartial)
<1>1. DOMAIN NoJob = Fields BY FieldsOfNoJob
<1>2. due \in BOOLEAN OBVIOUS
<1>3. DueRun(force, publish, retryPartial) =
        [NoJob EXCEPT !.step = "list", !.mode = "due", !.force = force, !.publish = publish,
                      !.retryPartial = retryPartial, !.target = today - 1, !.targetDue = due]
  BY DEF DueRun
<1> HIDE DEF due
<1>4. PICK b : b = DueRun(force, publish, retryPartial) OBVIOUS
<1>5. DOMAIN b = Fields /\ b.targetDue = due /\ b.publish = publish
  BY <1>1, <1>3, <1>4 DEF Fields
<1>6. /\ b.step = "list" /\ b.mode = "due" /\ b.target = today - 1 /\ b.failed = FALSE
      /\ b.rewrite = FALSE /\ b.todo = {} /\ b.pending = {} /\ b.day = None
  BY <1>1, <1>3, <1>4 DEF NoJob
<1>7. DueBegins(b) BY <1>2, <1>5, <1>6, Zenon DEF DueBegins
<1> QED BY <1>4, <1>7

\* Whether a run publishes is a truth value.
LEMMA PublishIsBoolean == \A publish \in Publishes : publish \in BOOLEAN
BY SalesAutomationAssumption DEF Publishes

\* The timer starts a run.
LEMMA RunDueJob ==
    ASSUME JobsShape, run_due
    PROVE  /\ Only("hourly", Fields)
           /\ LET b == job'["hourly"]
              IN  /\ b.step = "list" /\ b.mode = "due" /\ b.target = today - 1
                  /\ b.targetDue \in BOOLEAN /\ b.publish \in BOOLEAN /\ b.failed = FALSE
                  /\ b.rewrite = FALSE /\ b.todo = {} /\ b.pending = {} /\ b.day = None
<1>1. PICK publish \in Publishes : job' = [job EXCEPT !["hourly"] = DueRun(FALSE, publish, FALSE)]
  BY DEF run_due
<1>2. PICK b : b = DueRun(FALSE, publish, FALSE) OBVIOUS
<1>3. /\ DOMAIN b = Fields /\ b.step = "list" /\ b.mode = "due" /\ b.target = today - 1
      /\ b.targetDue \in BOOLEAN /\ b.publish \in BOOLEAN /\ b.failed = FALSE
      /\ b.rewrite = FALSE /\ b.todo = {} /\ b.pending = {} /\ b.day = None
  <2>1. DueBegins(b) BY <1>2, DueRunBegins, PublishIsBoolean, Zenon
  <2> QED BY <2>1 DEF DueBegins
<1>4. job' = [job EXCEPT !["hourly"] = b] BY <1>1, <1>2
<1> QED BY <1>3, <1>4 DEF JobsShape, Only, Jobs

\* An operator does: a due run is one the timer could start as well.
LEMMA ManualRunJob ==
    ASSUME JobsShape, ManualRun
    PROVE  /\ Only("manual", Fields)
           /\ LET b == job'["manual"]
              IN  /\ b.step \in {"days", "list"} /\ b.mode \in {"due", "date", "backfill", "rebuild"}
                  /\ b.mode = "rebuild" => "rebuild" \in ManualModes
                  /\ b.mode = "rebuild" =>
                       b.step = "days" /\ b.todo = {d \in Days : sales[d] # None}
                  /\ b.mode # "rebuild" => b.todo \subseteq 1 .. today
                  /\ b.mode = "due" => today > 1 /\ b.step = "list" /\ b.target = today - 1 /\ b.day = None
                  /\ b.publish \in BOOLEAN /\ b.targetDue \in BOOLEAN /\ b.failed = FALSE
                  /\ b.rewrite = FALSE /\ b.pending = {}
<1>1. DOMAIN NoJob = Fields BY FieldsOfNoJob
<1>2. PICK mode \in ManualModes, force \in BOOLEAN, publish \in Publishes, retryPartial \in BOOLEAN :
        \E run \in ManualRuns(mode, force, publish, retryPartial) :
            job' = [job EXCEPT !["manual"] = run]
  BY DEF ManualRun
<1>3. PICK run \in ManualRuns(mode, force, publish, retryPartial) :
        job' = [job EXCEPT !["manual"] = run]
  BY <1>2
<1>4. publish \in BOOLEAN BY PublishIsBoolean
<1>5. job'["manual"] = run /\ (DOMAIN run = Fields => Only("manual", Fields))
  BY <1>3 DEF JobsShape, Only, Jobs
<1>6. CASE mode = "due"
  <2>1. IsDue /\ run = DueRun(force, publish, retryPartial)
    <3>1. run \in IF IsDue THEN {DueRun(force, publish, retryPartial)} ELSE {}
      BY <1>3, <1>6 DEF ManualRuns
    <3> QED BY <3>1
  <2>2. /\ DOMAIN run = Fields /\ run.step = "list" /\ run.mode = "due" /\ run.target = today - 1
        /\ run.targetDue \in BOOLEAN /\ run.publish \in BOOLEAN /\ run.failed = FALSE
        /\ run.rewrite = FALSE /\ run.todo = {} /\ run.pending = {} /\ run.day = None
    <3>1. DueBegins(run) BY <1>4, <2>1, DueRunBegins, Zenon
    <3> QED BY <3>1 DEF DueBegins
  <2>3. today > 1 BY <2>1 DEF IsDue
  <2> QED BY <1>5, <2>2, <2>3
<1>7. CASE mode = "date"
  <2>1. PICK d \in 1 .. today :
          run = [NoJob EXCEPT !.step = "days", !.mode = "date", !.todo = {d},
                              !.force = force, !.publish = publish]
    BY <1>3, <1>7 DEF ManualRuns
  <2>2. /\ DOMAIN run = Fields /\ run.step = "days" /\ run.mode = "date" /\ run.todo = {d}
        /\ run.publish = publish /\ run.targetDue = FALSE /\ run.failed = FALSE
        /\ run.rewrite = FALSE /\ run.pending = {}
    BY <1>1, <2>1 DEF NoJob, Fields
  <2> QED BY <1>4, <1>5, <2>2
<1>8. CASE mode = "backfill"
  <2>1. run = [NoJob EXCEPT !.step = "list", !.mode = "backfill", !.target = today - 1,
                            !.publish = publish, !.retryPartial = retryPartial]
    BY <1>3, <1>8 DEF ManualRuns
  <2>2. /\ DOMAIN run = Fields /\ run.step = "list" /\ run.mode = "backfill" /\ run.todo = {}
        /\ run.publish = publish /\ run.targetDue = FALSE /\ run.failed = FALSE
        /\ run.rewrite = FALSE /\ run.pending = {}
    BY <1>1, <2>1 DEF NoJob, Fields
  <2> QED BY <1>4, <1>5, <2>2
<1>9. CASE mode = "rebuild"
  <2>1. run = [NoJob EXCEPT !.step = "days", !.mode = "rebuild", !.todo = {d \in Days : sales[d] # None}]
    BY <1>3, <1>9 DEF ManualRuns
  <2>2. /\ DOMAIN run = Fields /\ run.step = "days" /\ run.mode = "rebuild"
        /\ run.todo = {d \in Days : sales[d] # None}
        /\ run.publish = TRUE /\ run.targetDue = FALSE /\ run.failed = FALSE
        /\ run.rewrite = FALSE /\ run.pending = {}
    BY <1>1, <2>1 DEF NoJob, Fields
  <2> QED BY <1>2, <1>5, <1>9, <2>2
<1>10. mode \in {"due", "date", "backfill", "rebuild"} BY <1>2, SalesAutomationAssumption
<1> QED BY <1>6, <1>7, <1>8, <1>9, <1>10

\* The backfill's days are listed.
LEMMA ListDaysJob ==
    ASSUME JobsShape, NEW j \in Jobs, ListDays(j)
    PROVE  /\ Only(j, {"step", "todo", "last"})
           /\ \E window \in BackfillWindows(job[j].mode) :
                LET days == _find_backfill_days(job[j].target, window, job[j].retryPartial)
                IN  /\ job'[j].step = "days" /\ job'[j].todo = days
                    /\ job'[j].last = IF days = {} THEN None ELSE Max(days)
<1>1. PICK window \in BackfillWindows(job[j].mode) :
        LET days == _find_backfill_days(job[j].target, window, job[j].retryPartial)
        IN  job' = [job EXCEPT ![j].step = "days", ![j].todo = days,
                               ![j].last = IF days = {} THEN None ELSE Max(days)]
  BY DEF ListDays
<1> DEFINE days == _find_backfill_days(job[j].target, window, job[j].retryPartial)
           last == IF days = {} THEN None ELSE Max(days)
<1>2. job' = [job EXCEPT ![j].step = "days", ![j].todo = days, ![j].last = last] BY <1>1
<1> HIDE DEF days, last
<1>3. /\ Only(j, {"step", "todo", "last"})
      /\ job'[j].step = "days" /\ job'[j].todo = days /\ job'[j].last = last
  BY <1>2 DEF JobsShape, Only, Fields
<1> QED BY <1>3 DEF days, last

\* A day begins.
LEMMA RunDateJob ==
    ASSUME JobsShape, NEW j \in Jobs, run_date(j)
    PROVE  /\ Only(j, {"step", "day", "trigger", "on", "todo", "outcome"})
           /\ LET n == DayToDo(j)
                  known == sales[n.day] # None /\ ~ n.force
                  ready == IF job[j].publish THEN "ensure" ELSE "close"
              IN  /\ job'[j].day = n.day /\ job'[j].trigger = n.trigger /\ job'[j].on = today
                  /\ job'[j].todo = job[j].todo \ {n.day}
                  /\ job'[j].outcome = IF known THEN "skipped" ELSE "none"
                  /\ job'[j].step = IF known THEN ready ELSE "import"
<1> DEFINE n     == DayToDo(j)
           known == sales[n.day] # None /\ ~ n.force
           ready == IF job[j].publish THEN "ensure" ELSE "close"
           how   == IF known THEN "skipped" ELSE "none"
           next  == IF known THEN ready ELSE "import"
<1>1. job' = [job EXCEPT ![j].day = n.day, ![j].trigger = n.trigger, ![j].on = today,
                         ![j].todo = @ \ {n.day}, ![j].outcome = how, ![j].step = next]
  BY DEF run_date
<1> HIDE DEF n, how, next
<1>2. /\ Only(j, {"step", "day", "trigger", "on", "todo", "outcome"})
      /\ job'[j].day = n.day /\ job'[j].trigger = n.trigger /\ job'[j].on = today
      /\ job'[j].todo = job[j].todo \ {n.day} /\ job'[j].outcome = how /\ job'[j].step = next
  BY ZenonT(40), <1>1 DEF JobsShape, Only, Fields
<1> QED BY <1>2 DEF n, how, next

\* A day is left out.
LEMMA AlreadyRunningJob ==
    ASSUME JobsShape, NEW j \in Jobs, AlreadyRunning(j)
    PROVE  \/ Ends(j)
           \/ Only(j, {"todo"}) /\ job[j].todo # {} /\ job'[j].todo = job[j].todo \ {DayToDo(j).day}
<1>1. CASE job' = [job EXCEPT ![j] = NoJob] BY <1>1, EndsJob
<1>2. CASE job[j].todo # {} /\ job' = [job EXCEPT ![j].todo = @ \ {DayToDo(j).day}]
  BY <1>2 DEF JobsShape, Only, Fields
<1> QED BY <1>1, <1>2 DEF AlreadyRunning

\* Figures are stored, or not.
LEMMA SyncDayJob ==
    ASSUME JobsShape, NEW j \in Jobs, sync_day(j)
    PROVE  /\ Only(j, {"step", "outcome"})
           /\ LET outcome == ResultStatus(iiko[job[j].day])
              IN  /\ job'[j].step = IF job[j].publish /\ Succeeded(outcome) THEN "ensure" ELSE "close"
                  /\ job'[j].outcome = outcome
BY DEF JobsShape, Only, Fields, sync_day

\* The import fails.
LEMMA ImportFailsJob ==
    ASSUME JobsShape, NEW j \in Jobs, ImportFails(j)
    PROVE  /\ Only(j, {"step", "outcome"})
           /\ job'[j].step = "close" /\ job'[j].outcome = "failed"
BY DEF JobsShape, Only, Fields, ImportFails

\* The outbox is read.
LEMMA EnsureReadsJob ==
    ASSUME JobsShape, NEW j \in Jobs, EnsureReads(j)
    PROVE  /\ Only(j, {"step", "text", "row", "rewrite", "pending"})
           /\ LET d    == job[j].day
                  text == build_sales_daily_hermes_payload(d)
                  rows == WithKey(outbox, SalesKey(d, text[1]))
                  row  == IF rows = {} THEN None ELSE Max(rows)
              IN  /\ job'[j].step = "commit" /\ job'[j].text = text /\ job'[j].row = row
                  /\ job'[j].rewrite \in BOOLEAN
                  /\ job'[j].pending = IF row = None THEN PendingReports(d) ELSE {}
BY ZenonT(40) DEF JobsShape, Only, Fields, EnsureReads

\* And written.
LEMMA EnsureOutboxJob ==
    ASSUME JobsShape, NEW j \in Jobs, ensure_outbox(j)
    PROVE  /\ Only(j, {"step", "text", "row", "rewrite", "pending"})
           /\ job'[j].step = IF job[j].mode = "rebuild" THEN "days" ELSE "close"
           /\ job'[j].rewrite = FALSE /\ job'[j].pending = {}
BY ZenonT(40) DEF JobsShape, Only, Fields, ensure_outbox

\* A rebuild goes on to the next day.
LEMMA RebuildJob ==
    ASSUME JobsShape, NEW j \in Jobs, rebuild_outbox(j)
    PROVE  /\ Only(j, {"step", "day", "todo"})
           /\ job'[j].step = "ensure" /\ job'[j].day = Min(job[j].todo)
           /\ job'[j].todo = job[j].todo \ {Min(job[j].todo)}
BY DEF JobsShape, Only, Fields, rebuild_outbox

\* A day ends.
LEMMA FinishDayJob ==
    ASSUME JobsShape, NEW j \in Jobs, FinishDay(j)
    PROVE  \/ Ends(j)
           \/ /\ job[j].trigger # "scheduled"
              /\ Only(j, {"step", "failed", "day", "trigger", "on", "outcome"})
              /\ job'[j].step = "days" /\ job'[j].failed = (job[j].failed \/ job[j].outcome = "failed")
              /\ job'[j].day = None /\ job'[j].trigger = "none" /\ job'[j].outcome = "none"
BY FieldsOfNoJob DEF JobsShape, Only, Ends, Fields, FinishDay

-----------------------------------------------------------------------------
(* Parts of the invariant *)

CountsOK ==
    /\ today \in Days /\ late \in BOOLEAN
    /\ iiko \in [Days -> Figures] /\ sales \in [Days -> Figures \cup {None}]
    /\ lockedOut \subseteq Days
    /\ completed \subseteq [day : Days \cup {None}, on : Days, publish : BOOLEAN]

OutboxOK ==
    /\ outbox \in Seq(SalesRows)
    /\ \A i \in DOMAIN outbox : outbox[i].key = SalesKey(outbox[i].day, outbox[i].text[1])

\* The shape of one process.
JobOK(j) ==
    /\ DOMAIN job[j] = Fields
    /\ Step(j) \in LockSteps \cup {"idle", "list", "days"}
    /\ (Step(j) \in LockSteps /\ job[j].mode # "rebuild") <=> lock = j
    /\ job[j].todo \subseteq Days
    /\ {job[j].publish, job[j].targetDue, job[j].failed, job[j].rewrite} \subseteq BOOLEAN

\* All there is to say of one process.
JobInv(j) == JobOK(j) /\ DayIsTrue(j) /\ BackfillIsTrue(j)

\* The invariant, by parts.
LEMMA AutoParts ==
    AutoInv <=> /\ CountsOK /\ OutboxOK /\ lock \in Jobs \cup {"free", "other"}
                /\ DOMAIN job = Jobs /\ (\A j \in Jobs : JobInv(j)) /\ RecordsAreTrue
BY FieldsOfNoJob DEF AutoInv, TypeOK, CountsOK, OutboxOK, JobInv, JobOK

\* The shape alone.
LEMMA ShapeOfJobs == ASSUME AutoInv PROVE JobsShape
BY AutoParts DEF JobsShape, JobInv, JobOK

\* Positions of rows are numbers from 1 on, none of them the null row.
LEMMA Positions ==
    ASSUME outbox \in Seq(SalesRows)
    PROVE  /\ Len(outbox) \in Nat /\ DOMAIN outbox = 1 .. Len(outbox)
           /\ \A i \in DOMAIN outbox : outbox[i] \in SalesRows /\ i # None
BY DEF None

\* What is imported stays imported, who was locked out stays so, and a row keeps
\* its type, its day and its key.
Kept ==
    /\ \A d \in Days : Imported(d) => Imported(d)'
    /\ lockedOut \subseteq lockedOut'
    /\ DOMAIN outbox \subseteq DOMAIN outbox'
    /\ \A i \in DOMAIN outbox : /\ outbox'[i].type = outbox[i].type
                                /\ outbox'[i].day = outbox[i].day /\ outbox'[i].key = outbox[i].key

\* So reports stay.
LEMMA KeptReports ==
    ASSUME Kept, NEW d
    PROVE  /\ SalesReports(outbox, d) \subseteq SalesReports(outbox', d)
           /\ Reported(d) => Reported(d)'
<1>1. SalesReports(outbox, d) \subseteq SalesReports(outbox', d) BY DEF Kept, SalesReports, OfDay
<1> QED BY <1>1 DEF Reported

\* The lock goes to this process, or is given back by it, or stays where it is.
LockOfOthers(j) == \A k \in Jobs \ {j} : lock' = k <=> lock = k

\* What is true of a process stays true while another one, or none, goes on.
LEMMA OtherJob ==
    ASSUME NEW k \in Jobs, JobInv(k), job'[k] = job[k], Kept, lock' = k <=> lock = k
    PROVE  JobInv(k)'
<1>1. JobOK(k)' BY DEF JobInv, JobOK, Step
<1>2. PICK b : b = job[k] /\ b = job'[k] OBVIOUS
<1>3. /\ b.todo \subseteq Days /\ (b.step \in LockSteps => b.day \in Days)
      /\ (b.mode = "due" => b.target \in Days)
  BY <1>2 DEF JobInv, JobOK, DayIsTrue, BackfillIsTrue, Step
<1>4. DayIsTrue(k)'
  <2>1. DayIsTrue(k) BY DEF JobInv
  <2>2. b.step \in {"ensure", "commit"} => Imported(b.day)'
    BY <1>2, <1>3, <2>1 DEF DayIsTrue, Kept, Step, LockSteps
  <2>3. b.step = "commit" /\ b.row # None =>
          b.row \in DOMAIN outbox' /\ outbox'[b.row].key = SalesKey(b.day, b.text[1])
    BY <1>2, <2>1 DEF DayIsTrue, Kept, KeyOf, Step
  <2>4. b.mode = "rebuild" => \A d \in b.todo : Imported(d)'
    BY <1>2, <1>3, <2>1 DEF DayIsTrue, Kept
  <2>5. b.pending \subseteq SalesReports(outbox', b.day)
    BY <1>2, <2>1, KeptReports DEF DayIsTrue
  <2>6. b.step = "close" /\ Succeeded(b.outcome) => DoneAsTold(b.publish, b.day)'
    BY <1>2, <1>3, <2>1, KeptReports DEF DayIsTrue, Step, DoneAsTold, Kept, LockSteps
  <2>7. /\ b.step \in LockSteps => b.day \in Days
        /\ lock' = k => b.on \in Days
        /\ b.step = "commit" => b.text \in Figures \X (Figures \cup {None})
        /\ b.step # "commit" => b.pending = {}
        /\ b.mode = "rebuild" => b.step \in {"days", "ensure", "commit"}
    BY <1>2, <2>1 DEF DayIsTrue, Step
  <2> QED BY <1>2, <2>2, <2>3, <2>4, <2>5, <2>6, <2>7 DEF DayIsTrue, Step, KeyOf
<1>5. BackfillIsTrue(k)'
  <2>1. BackfillIsTrue(k) BY DEF JobInv
  <2>2. b.mode = "due" => (Imported(b.target) => Imported(b.target)')
    BY <1>3 DEF Kept
  <2>3. /\ b.last \in Days /\ DoneAsTold(b.publish, b.last) => DoneAsTold(b.publish, b.last)'
        /\ lockedOut \subseteq lockedOut'
    BY KeptReports DEF Kept, DoneAsTold
  <2> QED BY <1>2, <2>1, <2>2, <2>3 DEF BackfillIsTrue, Step
<1> QED BY <1>1, <1>4, <1>5 DEF JobInv

\* Of a process that has ended there is little to say.
LEMMA EndedJob ==
    ASSUME NEW j \in Jobs, job'[j] = NoJob, lock' # j
    PROVE  JobInv(j)'
<1>1. /\ job'[j].step = "idle" /\ job'[j].mode = "none" /\ job'[j].todo = {} /\ job'[j].pending = {}
      /\ job'[j].publish = TRUE /\ job'[j].targetDue = FALSE /\ job'[j].failed = FALSE
      /\ job'[j].rewrite = FALSE /\ DOMAIN job'[j] = Fields
  BY FieldsOfNoJob DEF NoJob
<1>2. JobOK(j)' BY <1>1 DEF JobOK, Step, LockSteps
<1>3. DayIsTrue(j)' BY <1>1 DEF DayIsTrue, Step, LockSteps
<1>4. BackfillIsTrue(j)' BY <1>1 DEF BackfillIsTrue, Step, LockSteps
<1> QED BY <1>2, <1>3, <1>4 DEF JobInv

\* An idle process has given everything back.
LEMMA EndsInv ==
    ASSUME NEW j \in Jobs, Ends(j), lock' = Unlocked(j) \/ lock' = "free" \/ (lock' = lock /\ lock # j)
    PROVE  JobInv(j)'
<1>1. job'[j] = NoJob BY DEF Ends
<1>2. lock' # j BY DEF Unlocked, Jobs
<1> QED BY <1>1, <1>2, EndedJob

\* The day to do is one, and known figures do only for a day asked for by date.
LEMMA DayToDoIsDay ==
    ASSUME NEW j \in Jobs, JobInv(j), HasNext(j), job[j].mode # "rebuild"
    PROVE  LET n == DayToDo(j) b == job[j]
           IN  /\ n.day \in Days
               /\ b.todo # {} => n.trigger \in {"manual", "backfill"} /\ (b.mode # "date" => n.force)
               /\ b.todo = {} => n.trigger = "scheduled" /\ b.mode = "due" /\ ~ b.targetDue
                                 /\ n.day = b.target
<1>1. CASE job[j].todo # {}
  <2>1. Min(job[j].todo) \in Days
    <3>1. job[j].todo \subseteq Days BY DEF JobInv, JobOK
    <3> QED BY <1>1, <3>1, MinIsMember, DaysAreNumbers
  <2> QED BY <1>1, <2>1 DEF DayToDo
<1>2. CASE job[j].todo = {}
  <2>1. job[j].mode = "due" /\ ~ job[j].targetDue BY <1>2 DEF HasNext
  <2>2. job[j].target \in Days BY <2>1 DEF JobInv, BackfillIsTrue
  <2> QED BY <1>2, <2>1, <2>2 DEF DayToDo
<1> QED BY <1>1, <1>2

-----------------------------------------------------------------------------
(* Each step keeps what is true of its process *)

\* The timer's run begins with a day before today.
LEMMA RunDueInv ==
    ASSUME JobsShape, today \in Days, lock # "hourly", run_due
    PROVE  JobInv("hourly")'
<1>1. PICK c : c = job'["hourly"] OBVIOUS
<1>2. /\ c.step = "list" /\ c.mode = "due" /\ c.target = today - 1
      /\ c.targetDue \in BOOLEAN /\ c.publish \in BOOLEAN /\ c.failed = FALSE
      /\ c.rewrite = FALSE /\ c.todo = {} /\ c.pending = {} /\ DOMAIN c = Fields /\ c.day = None
  BY <1>1, RunDueJob DEF Only
<1>3. lock' = lock /\ today - 1 \in Days
  BY DaysAreNumbers DEF run_due, IsDue
<1>4. JobOK("hourly")' BY <1>1, <1>2, <1>3 DEF JobOK, Step, LockSteps
<1>5. DayIsTrue("hourly")' BY <1>1, <1>2, <1>3 DEF DayIsTrue, Step, LockSteps
<1>6. BackfillIsTrue("hourly")' BY <1>1, <1>2, <1>3 DEF BackfillIsTrue, Step, LockSteps
<1> QED BY <1>4, <1>5, <1>6 DEF JobInv

\* A run by hand begins with dates, a rebuild with imported ones.
LEMMA ManualRunInv ==
    ASSUME JobsShape, today \in Days, lock # "manual", ManualRun
    PROVE  JobInv("manual")'
<1>1. PICK c : c = job'["manual"] OBVIOUS
<1>2. /\ c.step \in {"days", "list"} /\ c.mode \in {"due", "date", "backfill", "rebuild"}
      /\ c.mode = "rebuild" => c.step = "days" /\ c.todo = {d \in Days : sales[d] # None}
      /\ c.mode # "rebuild" => c.todo \subseteq 1 .. today
      /\ c.mode = "due" => today > 1 /\ c.step = "list" /\ c.target = today - 1 /\ c.day = None
      /\ c.publish \in BOOLEAN /\ c.targetDue \in BOOLEAN /\ c.failed = FALSE
      /\ c.rewrite = FALSE /\ c.pending = {} /\ DOMAIN c = Fields
  BY <1>1, ManualRunJob DEF Only
<1>3. /\ lock' = lock /\ sales' = sales /\ 1 .. today \subseteq Days
      /\ today > 1 => today - 1 \in Days
  <2>1. UNCHANGED <<lock, sales>> BY DEF ManualRun
  <2>2. 1 .. today \subseteq 1 .. Cardinality(Days) BY DaysAreNumbers
  <2> QED BY <2>1, <2>2, DaysAreNumbers
<1>4. JobOK("manual")' BY <1>1, <1>2, <1>3 DEF JobOK, Step, LockSteps
<1>5. DayIsTrue("manual")' BY <1>1, <1>2, <1>3 DEF DayIsTrue, Step, LockSteps, Imported
<1>6. BackfillIsTrue("manual")' BY <1>1, <1>2, <1>3 DEF BackfillIsTrue, Step, LockSteps
<1> QED BY <1>4, <1>5, <1>6 DEF JobInv

\* The days found are dates, the last of them the target unless that is imported.
LEMMA ListDaysInv ==
    ASSUME JobsShape, NEW j \in Jobs, JobInv(j), ListDays(j)
    PROVE  JobInv(j)'
<1>w. PICK window \in BackfillWindows(job[j].mode) :
        LET days == _find_backfill_days(job[j].target, window, job[j].retryPartial)
        IN  /\ job'[j].step = "days" /\ job'[j].todo = days
            /\ job'[j].last = IF days = {} THEN None ELSE Max(days)
  BY ListDaysJob
<1> DEFINE days == _find_backfill_days(job[j].target, window, job[j].retryPartial)
<1>1. PICK b : b = job[j] OBVIOUS
<1>2. PICK c : c = job'[j] OBVIOUS
<1>3. /\ c.step = "days" /\ c.todo = days /\ c.last = IF days = {} THEN None ELSE Max(days)
      /\ DOMAIN c = Fields /\ c.mode = b.mode /\ c.publish = b.publish /\ c.target = b.target
      /\ c.targetDue = b.targetDue /\ c.failed = b.failed /\ c.rewrite = b.rewrite
      /\ c.pending = b.pending /\ c.day = b.day
  BY <1>w, <1>1, <1>2, ListDaysJob DEF Only, Fields
<1>4. b.step = "list" /\ lock' = lock /\ sales' = sales BY <1>1 DEF ListDays, Step
<1>5. JobOK(j) /\ DayIsTrue(j) /\ BackfillIsTrue(j) BY DEF JobInv
<1>6. days \subseteq Days BY DEF _find_backfill_days
<1>7. days # {} => Max(days) \in days BY <1>6, DaysAreNumbers, MaxIsMember
<1>8. b.mode # "rebuild" BY <1>1, <1>4, <1>5 DEF DayIsTrue, Step
<1>9. JobOK(j)' BY <1>1, <1>2, <1>3, <1>4, <1>5, <1>6 DEF JobOK, Step, LockSteps
<1>10. DayIsTrue(j)' BY <1>1, <1>2, <1>3, <1>4, <1>5, <1>8 DEF DayIsTrue, JobOK, Step, LockSteps
<1>11. ASSUME b.mode = "due", b.targetDue PROVE c.last = b.target \/ Imported(b.target)'
  <2>1. b.target \in Days BY <1>1, <1>5, <1>11 DEF BackfillIsTrue
  <2>2. CASE Imported(b.target) BY <1>4, <2>2 DEF Imported
  <2>3. CASE ~ Imported(b.target)
    <3>1. b.target \in Nat /\ window \in Nat /\ window > 0
      BY <1>1, <1>11, <2>1, DaysAreNumbers, SalesAutomationAssumption DEF BackfillWindows
    <3>2. b.target \in days
      BY <1>1, <2>1, <2>3, <3>1 DEF _find_backfill_days, Imported
    <3>3. \A d \in days : d <= b.target BY <1>1 DEF _find_backfill_days
    <3>4. Max(days) = b.target
      <4>1. Max(days) \in days /\ \A d \in days : d <= Max(days)
        BY <1>6, <1>7, <3>2, DaysAreNumbers, MaxIsMember
      <4> QED BY <3>1, <3>2, <3>3, <4>1, <1>6, DaysAreNumbers
    <3> QED BY <1>3, <3>2, <3>4
  <2> QED BY <2>2, <2>3
<1> HIDE DEF days
<1>12. BackfillIsTrue(j)'
  <2>1. c.last # None => c.last \in c.todo BY <1>3, <1>7
  <2>2. c.last \in Days \cup {None} BY <1>3, <1>6, <1>7
  <2>3. b.mode = "due" => b.target \in Days /\ b.day = None
    BY <1>1, <1>4, <1>5 DEF BackfillIsTrue, Step
  <2>4. lock' # j BY <1>1, <1>4, <1>5 DEF JobOK, Step, LockSteps
  <2> QED BY <1>2, <1>3, <1>11, <2>1, <2>2, <2>3, <2>4 DEF BackfillIsTrue, Step, LockSteps
<1> QED BY <1>9, <1>10, <1>12 DEF JobInv

\* The day begun is a day, and known figures do only when asked for by date.
LEMMA RunDateInv ==
    ASSUME JobsShape, NEW j \in Jobs, JobInv(j), run_date(j), today \in Days
    PROVE  JobInv(j)'
<1>1. PICK b : b = job[j] OBVIOUS
<1>2. PICK c : c = job'[j] OBVIOUS
<1>3. PICK n : n = DayToDo(j) OBVIOUS
<1>4. /\ b.step = "days" /\ b.mode # "rebuild" /\ HasNext(j) /\ lock' = j
      /\ sales' = sales /\ outbox' = outbox /\ lockedOut' = lockedOut
  BY <1>1 DEF run_date, HasNext, Step
<1>5. JobOK(j) /\ DayIsTrue(j) /\ BackfillIsTrue(j) BY DEF JobInv
<1>6. /\ n.day \in Days
      /\ b.todo # {} => n.trigger \in {"manual", "backfill"} /\ (b.mode # "date" => n.force)
      /\ b.todo = {} => n.trigger = "scheduled" /\ b.mode = "due" /\ ~ b.targetDue /\ n.day = b.target
  BY <1>1, <1>3, <1>4, DayToDoIsDay
<1>7. /\ c.day = n.day /\ c.on = today /\ c.trigger = n.trigger /\ c.todo = b.todo \ {n.day}
      /\ \/ c.outcome = "skipped" /\ Imported(n.day) /\ ~ n.force /\ c.step \in {"ensure", "close"}
         \/ c.outcome = "none" /\ c.step = "import"
      /\ DOMAIN c = Fields /\ c.mode = b.mode /\ c.publish = b.publish /\ c.target = b.target
      /\ c.targetDue = b.targetDue /\ c.failed = b.failed /\ c.rewrite = b.rewrite
      /\ c.pending = b.pending /\ c.last = b.last
  <2> DEFINE known == sales[n.day] # None /\ ~ n.force
             ready == IF b.publish THEN "ensure" ELSE "close"
  <2>1. /\ c.day = n.day /\ c.on = today /\ c.trigger = n.trigger /\ c.todo = b.todo \ {n.day}
        /\ c.outcome = IF known THEN "skipped" ELSE "none"
        /\ c.step = IF known THEN ready ELSE "import"
    BY <1>1, <1>2, <1>3, RunDateJob
  <2>2. Only(j, {"step", "day", "trigger", "on", "todo", "outcome"}) BY RunDateJob
  <2>3. /\ DOMAIN c = Fields /\ c.mode = b.mode /\ c.publish = b.publish /\ c.target = b.target
        /\ c.targetDue = b.targetDue /\ c.failed = b.failed /\ c.rewrite = b.rewrite
        /\ c.pending = b.pending /\ c.last = b.last
    BY <1>1, <1>2, <2>2 DEF Only, Fields
  <2>4. CASE known
    <3>1. c.outcome = "skipped" /\ c.step \in {"ensure", "close"} BY <2>1, <2>4
    <3> QED BY <2>1, <2>3, <2>4, <3>1 DEF Imported
  <2>5. CASE ~ known
    <3>1. c.outcome = "none" /\ c.step = "import" BY <2>1, <2>5
    <3> QED BY <2>1, <2>3, <3>1
  <2> QED BY <2>4, <2>5
<1>8. JobOK(j)' BY <1>1, <1>2, <1>4, <1>5, <1>7 DEF JobOK, Step, LockSteps
<1>9. b.pending = {} BY <1>1, <1>4, <1>5 DEF DayIsTrue, Step
<1>10. DayIsTrue(j)'
  BY <1>1, <1>2, <1>4, <1>6, <1>7, <1>9 DEF DayIsTrue, Step, LockSteps, Imported, Succeeded
<1>11. BackfillIsTrue(j)'
  <2>1. b.mode = "due" => /\ b.target \in Days /\ b.day = None
                          /\ b.last \in Days \cup {None}
                          /\ b.last # None => \/ b.failed \/ b.last \in b.todo \cup lockedOut
                                              \/ DoneAsTold(b.publish, b.last)
                          /\ b.targetDue => b.last = b.target \/ Imported(b.target)
    BY <1>1, <1>4, <1>5, DaysAreNumbers DEF BackfillIsTrue, Step
  <2>2. b.mode = "due" => /\ c.last # None => \/ c.failed \/ c.last \in c.todo \cup {c.day} \cup lockedOut
                                              \/ DoneAsTold(c.publish, c.last)'
                          /\ c.targetDue => c.last = c.target \/ Imported(c.target)'
    BY <1>4, <1>7, <2>1 DEF DoneAsTold, Reported, Imported
  <2>3. c.trigger = "scheduled" => c.mode = "due" /\ c.day = c.target BY <1>6, <1>7
  <2>4. c.trigger # "scheduled" /\ c.mode = "due" => c.outcome # "skipped" BY <1>6, <1>7
  <2>5. c.step \in {"import", "ensure", "close"} /\ (c.step # "import" => c.outcome = "skipped")
    BY <1>7
  <2> QED
    BY <1>2, <1>4, <1>7, <2>1, <2>2, <2>3, <2>4, <2>5 DEF BackfillIsTrue, Step
<1> QED BY <1>8, <1>10, <1>11 DEF JobInv

\* A day that is left out is no longer to do, but recorded.
LEMMA AlreadyRunningInv ==
    ASSUME JobsShape, NEW j \in Jobs, JobInv(j), AlreadyRunning(j)
    PROVE  JobInv(j)'
<1>1. PICK b : b = job[j] OBVIOUS
<1>2. PICK c : c = job'[j] OBVIOUS
<1>3. PICK d : d = DayToDo(j).day OBVIOUS
<1>4. /\ b.step = "days" /\ b.mode # "rebuild" /\ lock' = lock /\ lockedOut' = lockedOut \cup {d}
      /\ sales' = sales /\ outbox' = outbox
  BY <1>1, <1>3 DEF AlreadyRunning, HasNext, Step
<1>5. JobOK(j) /\ DayIsTrue(j) /\ BackfillIsTrue(j) BY DEF JobInv
<1>6. lock # j BY <1>1, <1>4, <1>5 DEF JobOK, Step, LockSteps
<1>7. CASE Ends(j) BY <1>4, <1>6, <1>7, EndsInv
<1>8. CASE Only(j, {"todo"}) /\ b.todo # {} /\ c.todo = b.todo \ {d}
  <2>1. /\ DOMAIN c = Fields /\ c.mode = b.mode /\ c.publish = b.publish /\ c.target = b.target
        /\ c.targetDue = b.targetDue /\ c.failed = b.failed /\ c.rewrite = b.rewrite
        /\ c.pending = b.pending /\ c.last = b.last /\ c.step = "days" /\ c.day = b.day
    BY <1>1, <1>2, <1>4, <1>8 DEF Only, Fields
  <2>2. JobOK(j)' BY <1>1, <1>2, <1>4, <1>5, <1>8, <2>1 DEF JobOK, Step, LockSteps
  <2>3. b.pending = {} BY <1>1, <1>4, <1>5 DEF DayIsTrue, Step
  <2>4. DayIsTrue(j)' BY <1>1, <1>2, <1>4, <1>6, <2>1, <2>3 DEF DayIsTrue, Step, LockSteps
  <2>5. b.mode = "due" => /\ b.target \in Days /\ b.day = None
                          /\ b.last \in Days \cup {None}
                          /\ b.last # None => \/ b.failed \/ b.last \in b.todo \cup lockedOut
                                              \/ DoneAsTold(b.publish, b.last)
                          /\ b.targetDue => b.last = b.target \/ Imported(b.target)
    BY <1>1, <1>4, <1>5, DaysAreNumbers DEF BackfillIsTrue, Step
  <2>6. b.mode = "due" => /\ c.last # None => \/ c.failed \/ c.last \in c.todo \cup lockedOut'
                                              \/ DoneAsTold(c.publish, c.last)'
                          /\ c.targetDue => c.last = c.target \/ Imported(c.target)'
    BY <1>4, <1>8, <2>1, <2>5 DEF DoneAsTold, Reported, Imported
  <2>7. BackfillIsTrue(j)' BY <1>2, <1>4, <1>6, <2>1, <2>5, <2>6 DEF BackfillIsTrue, Step, LockSteps
  <2> QED BY <2>2, <2>4, <2>7 DEF JobInv
<1> QED BY <1>1, <1>2, <1>3, <1>7, <1>8, AlreadyRunningJob

\* Statuses of a day, and which of them succeed.
LEMMA StatusOfDay ==
    ASSUME NEW f
    PROVE  ResultStatus(f) \in {"failed", "partial", "proven"}
BY DEF ResultStatus

\* A day that is imported goes on to its report only if it succeeded.
LEMMA ImportInv ==
    ASSUME JobsShape, NEW j \in Jobs, JobInv(j), sync_day(j) \/ ImportFails(j),
           \A d \in Days : iiko[d] # None, DOMAIN sales = Days
    PROVE  JobInv(j)'
<1>1. PICK b : b = job[j] OBVIOUS
<1>2. PICK c : c = job'[j] OBVIOUS
<1>3. b.step = "import" /\ lock' = lock /\ lockedOut' = lockedOut /\ outbox' = outbox
  BY <1>1 DEF sync_day, ImportFails, Step
<1>4. JobOK(j) /\ DayIsTrue(j) /\ BackfillIsTrue(j) BY DEF JobInv
<1>5. b.day \in Days /\ b.mode # "rebuild" /\ lock = j /\ b.on \in Days
  BY <1>1, <1>3, <1>4 DEF DayIsTrue, JobOK, Step, LockSteps
<1>6. \A d \in Days : Imported(d) => Imported(d)' BY <1>1 DEF sync_day, ImportFails, persist_report, Imported
<1>7. /\ c.outcome \in {"failed", "partial", "proven"} /\ c.step \in {"ensure", "close"}
      /\ c.step = "ensure" => Imported(b.day)'
      /\ c.step = "close" /\ Succeeded(c.outcome) => ~ c.publish /\ Imported(b.day)'
      /\ Only(j, {"step", "outcome"})
  <2>1. CASE sync_day(j)
    <3> DEFINE outcome == ResultStatus(iiko[b.day])
    <3>1. /\ Only(j, {"step", "outcome"}) /\ c.outcome = outcome
          /\ c.step = IF b.publish /\ Succeeded(outcome) THEN "ensure" ELSE "close"
      BY <1>1, <1>2, <2>1, SyncDayJob
    <3>2. c.publish = b.publish BY <1>1, <1>2, <3>1 DEF Only, Fields
    <3>3. Imported(b.day)' BY <1>1, <1>5, <2>1 DEF sync_day, persist_report, Imported
    <3> QED BY <3>1, <3>2, <3>3, StatusOfDay
  <2>2. CASE ImportFails(j)
    BY <1>2, <2>2, ImportFailsJob DEF Succeeded
  <2> QED BY <2>1, <2>2
<1>8. /\ DOMAIN c = Fields /\ c.mode = b.mode /\ c.publish = b.publish /\ c.target = b.target
      /\ c.targetDue = b.targetDue /\ c.failed = b.failed /\ c.rewrite = b.rewrite /\ c.day = b.day /\ c.on = b.on
      /\ c.trigger = b.trigger /\ c.todo = b.todo /\ c.pending = b.pending /\ c.last = b.last
  BY <1>1, <1>2, <1>7 DEF Only, Fields
<1>9. JobOK(j)' BY <1>1, <1>2, <1>3, <1>4, <1>7, <1>8 DEF JobOK, Step, LockSteps
<1>10. b.pending = {} BY <1>1, <1>3, <1>4 DEF DayIsTrue, Step
<1>11. DayIsTrue(j)'
  BY <1>2, <1>5, <1>7, <1>8, <1>10 DEF DayIsTrue, Step, LockSteps, DoneAsTold
<1>12. BackfillIsTrue(j)'
  <2>1. b.mode = "due" => /\ b.target \in Days
                          /\ b.last \in Days \cup {None}
                          /\ b.last # None => \/ b.failed \/ b.last \in b.todo \cup {b.day} \cup lockedOut
                                              \/ DoneAsTold(b.publish, b.last)
                          /\ b.targetDue => b.last = b.target \/ Imported(b.target)
    BY <1>1, <1>3, <1>4, DaysAreNumbers DEF BackfillIsTrue, Step
  <2>2. b.mode = "due" => /\ c.last # None => \/ c.failed \/ c.last \in c.todo \cup {c.day} \cup lockedOut'
                                              \/ DoneAsTold(c.publish, c.last)'
                          /\ c.targetDue => c.last = c.target \/ Imported(c.target)'
    BY <1>3, <1>6, <1>8, <2>1 DEF DoneAsTold, Reported
  <2>3. c.trigger = "scheduled" => c.mode = "due" /\ c.day = c.target
    BY <1>1, <1>3, <1>4, <1>5, <1>8 DEF BackfillIsTrue
  <2> QED BY <1>2, <1>7, <1>8, <2>1, <2>2, <2>3 DEF BackfillIsTrue, Step
<1> QED BY <1>9, <1>11, <1>12 DEF JobInv

\* What the transaction sees is what it needs.
LEMMA EnsureReadsInv ==
    ASSUME JobsShape, NEW j \in Jobs, JobInv(j), EnsureReads(j), CountsOK, OutboxOK
    PROVE  JobInv(j)'
<1> DEFINE text == build_sales_daily_hermes_payload(job[j].day)
           rows == WithKey(outbox, SalesKey(job[j].day, text[1]))
           row  == IF rows = {} THEN None ELSE Max(rows)
<1>1. PICK b : b = job[j] OBVIOUS
<1>2. PICK c : c = job'[j] OBVIOUS
<1>3. /\ b.step = "ensure" /\ lock' = lock /\ lockedOut' = lockedOut /\ outbox' = outbox
      /\ sales' = sales
  BY <1>1 DEF EnsureReads, Step
<1>4. JobOK(j) /\ DayIsTrue(j) /\ BackfillIsTrue(j) BY DEF JobInv
<1>5. b.day \in Days /\ Imported(b.day) BY <1>1, <1>3, <1>4 DEF DayIsTrue, Step, LockSteps
<1>6. text \in Figures \X (Figures \cup {None})
  <2>1. sales[b.day] \in Figures BY <1>5 DEF CountsOK, Imported
  <2>2. b.day - 1 \in Days => sales[b.day - 1] \in Figures \cup {None} BY DEF CountsOK
  <2> QED BY <1>1, <2>1, <2>2 DEF build_sales_daily_hermes_payload
<1>7. rows # {} => Max(rows) \in rows
  <2>1. rows \subseteq 1 .. Len(outbox) /\ Len(outbox) \in Nat
    BY Positions DEF OutboxOK, WithKey
  <2> QED BY <2>1, MaxIsMember
<1>8. /\ c.step = "commit" /\ c.text = text /\ c.row = row /\ c.rewrite \in BOOLEAN
      /\ c.pending \subseteq PendingReports(b.day)
      /\ Only(j, {"step", "text", "row", "rewrite", "pending"})
  BY <1>1, <1>2, EnsureReadsJob
<1>9. /\ DOMAIN c = Fields /\ c.mode = b.mode /\ c.publish = b.publish /\ c.target = b.target
      /\ c.targetDue = b.targetDue /\ c.failed = b.failed /\ c.day = b.day /\ c.on = b.on /\ c.outcome = b.outcome
      /\ c.trigger = b.trigger /\ c.todo = b.todo /\ c.last = b.last
  BY <1>1, <1>2, <1>8 DEF Only, Fields
<1>10. row # None => row \in DOMAIN outbox /\ outbox[row].key = SalesKey(b.day, text[1])
  BY <1>1, <1>7 DEF WithKey
<1> HIDE DEF text, row, rows
<1>11. JobOK(j)' BY <1>1, <1>2, <1>3, <1>4, <1>8, <1>9 DEF JobOK, Step, LockSteps
<1>12. DayIsTrue(j)'
  <2>1. c.pending \subseteq SalesReports(outbox, c.day) BY <1>8, <1>9 DEF PendingReports
  <2>2. (lock = j => c.on \in Days) /\ (c.mode = "rebuild" => \A d \in c.todo : Imported(d))
    BY <1>1, <1>4, <1>9 DEF DayIsTrue
  <2> QED
    BY <1>2, <1>3, <1>5, <1>6, <1>8, <1>9, <1>10, <2>1, <2>2
       DEF DayIsTrue, Step, LockSteps, KeyOf, Imported
<1>13. BackfillIsTrue(j)'
  BY <1>1, <1>2, <1>3, <1>4, <1>8, <1>9 DEF BackfillIsTrue, Step, LockSteps, DoneAsTold, Reported, Imported
<1> QED BY <1>11, <1>12, <1>13 DEF JobInv

-----------------------------------------------------------------------------
(* What is done to the outbox *)

\* Rows are marked, or one is given another text.
Marks ==
    /\ DOMAIN outbox' = DOMAIN outbox
    /\ \A i \in DOMAIN outbox : /\ outbox'[i].type = outbox[i].type
                                /\ outbox'[i].day = outbox[i].day /\ outbox'[i].key = outbox[i].key
                                /\ \/ outbox'[i].status = outbox[i].status
                                   \/ outbox'[i].status \in {"delivered", "failed"}

\* A report of day d is added, the rows of set S are superseded.
Adds(d, S) ==
    /\ DOMAIN outbox' = DOMAIN outbox \cup {Len(outbox) + 1}
    /\ \A i \in DOMAIN outbox : /\ outbox'[i].type = outbox[i].type
                                /\ outbox'[i].day = outbox[i].day /\ outbox'[i].key = outbox[i].key
                                /\ outbox'[i].status = IF i \in S THEN "superseded" ELSE outbox[i].status
    /\ outbox'[Len(outbox) + 1].type = "sales" /\ outbox'[Len(outbox) + 1].day = d
    /\ outbox'[Len(outbox) + 1].status = "pending"

\* The sender marks a row.
LEMMA SenderMarksRows ==
    ASSUME OutboxOK, SenderMarks
    PROVE  OutboxOK' /\ Marks
<1>1. PICK i \in DOMAIN outbox, t \in {"delivered", "failed"} :
        outbox' = [outbox EXCEPT ![i].status = t]
  BY DEF SenderMarks
<1>2. /\ Len(outbox) \in Nat /\ DOMAIN outbox = 1 .. Len(outbox)
      /\ \A k \in DOMAIN outbox : outbox[k] \in SalesRows
  BY Positions DEF OutboxOK
<1>3. DOMAIN outbox' = DOMAIN outbox /\ outbox'[i] = [outbox[i] EXCEPT !.status = t]
      /\ \A k \in DOMAIN outbox : k # i => outbox'[k] = outbox[k]
  BY <1>1
<1>4. /\ outbox'[i] \in SalesRows
      /\ outbox'[i].type = outbox[i].type /\ outbox'[i].day = outbox[i].day
      /\ outbox'[i].key = outbox[i].key /\ outbox'[i].text = outbox[i].text /\ outbox'[i].status = t
  BY <1>2, <1>3 DEF SalesRows, RowStatuses
<1>5. outbox' \in Seq(SalesRows)
  BY <1>1, <1>2, <1>3, <1>4 DEF OutboxOK
<1>6. ASSUME NEW k \in DOMAIN outbox'
      PROVE  outbox'[k].key = SalesKey(outbox'[k].day, outbox'[k].text[1])
  <2>1. outbox[k].key = SalesKey(outbox[k].day, outbox[k].text[1]) BY <1>3 DEF OutboxOK
  <2>2. CASE k # i BY <1>3, <2>1, <2>2
  <2>3. CASE k = i BY <1>4, <2>1, <2>3
  <2> QED BY <2>2, <2>3
<1>7. Marks
  BY <1>3, <1>4 DEF Marks
<1> QED BY <1>1, <1>3, <1>5, <1>6, <1>7 DEF OutboxOK

\* The report of known figures is given its new text, unless it is delivered.
LEMMA RewriteRows ==
    ASSUME OutboxOK, NEW i \in DOMAIN outbox, NEW d \in Days,
           NEW t \in Figures \X (Figures \cup {None}), outbox[i].key = SalesKey(d, t[1]),
           outbox' = [outbox EXCEPT ![i].text = t]
    PROVE  OutboxOK' /\ Marks
<1>1. /\ Len(outbox) \in Nat /\ DOMAIN outbox = 1 .. Len(outbox)
      /\ \A k \in DOMAIN outbox : outbox[k] \in SalesRows
  BY Positions DEF OutboxOK
<1>2. DOMAIN outbox' = DOMAIN outbox /\ outbox'[i] = [outbox[i] EXCEPT !.text = t]
      /\ \A k \in DOMAIN outbox : k # i => outbox'[k] = outbox[k]
  OBVIOUS
<1>3. /\ outbox'[i] \in SalesRows
      /\ outbox'[i].type = outbox[i].type /\ outbox'[i].day = outbox[i].day
      /\ outbox'[i].key = outbox[i].key /\ outbox'[i].text = t /\ outbox'[i].status = outbox[i].status
  BY <1>1, <1>2 DEF SalesRows
<1>4. outbox[i].day = d
  <2>1. outbox[i].key = SalesKey(outbox[i].day, outbox[i].text[1]) BY DEF OutboxOK
  <2> QED BY <2>1 DEF SalesKey
<1>5. outbox' \in Seq(SalesRows) BY <1>1, <1>2, <1>3 DEF OutboxOK
<1>6. ASSUME NEW k \in DOMAIN outbox'
      PROVE  outbox'[k].key = SalesKey(outbox'[k].day, outbox'[k].text[1])
  <2>1. outbox[k].key = SalesKey(outbox[k].day, outbox[k].text[1]) BY <1>2 DEF OutboxOK
  <2>2. CASE k # i BY <1>2, <2>1, <2>2
  <2>3. CASE k = i BY <1>3, <1>4, <2>3
  <2> QED BY <2>2, <2>3
<1>7. Marks BY <1>2, <1>3 DEF Marks
<1> QED BY <1>5, <1>6, <1>7 DEF OutboxOK

\* A report is added.
LEMMA AddRows ==
    ASSUME OutboxOK, NEW d \in Days, NEW t \in Figures \X (Figures \cup {None}), NEW S,
           outbox' = Append(Superseded(outbox, S), NewRow("sales", d, SalesKey(d, t[1]), t))
    PROVE  OutboxOK' /\ Adds(d, S)
<1> DEFINE old == Superseded(outbox, S)
           row == NewRow("sales", d, SalesKey(d, t[1]), t)
           n   == Len(outbox)
<1>1. /\ n \in Nat /\ DOMAIN outbox = 1 .. n /\ \A k \in DOMAIN outbox : outbox[k] \in SalesRows
  BY Positions DEF OutboxOK
<1>2. /\ row \in SalesRows /\ row.type = "sales" /\ row.day = d /\ row.status = "pending"
      /\ row.key = SalesKey(d, t[1]) /\ row.text = t
  BY DEF NewRow, SalesRows, RowStatuses
<1>3. /\ DOMAIN old = 1 .. n
      /\ \A k \in 1 .. n : old[k] = IF k \in S THEN [outbox[k] EXCEPT !.status = "superseded"]
                                    ELSE outbox[k]
  BY <1>1 DEF Superseded
<1>4. \A k \in 1 .. n : /\ old[k] \in SalesRows
                        /\ old[k].type = outbox[k].type /\ old[k].day = outbox[k].day
                        /\ old[k].key = outbox[k].key /\ old[k].text = outbox[k].text
                        /\ old[k].status = IF k \in S THEN "superseded" ELSE outbox[k].status
  BY <1>1, <1>3 DEF SalesRows, RowStatuses
<1>5. old \in Seq(SalesRows) /\ Len(old) = n
  BY <1>1, <1>3, <1>4 DEF Superseded
<1> HIDE DEF old, row
<1>6. /\ outbox' = Append(old, row) /\ outbox' \in Seq(SalesRows) /\ DOMAIN outbox' = 1 .. n + 1
      /\ outbox'[n + 1] = row /\ \A k \in 1 .. n : outbox'[k] = old[k]
  BY <1>1, <1>2, <1>5 DEF old, row
<1>7. \A k \in DOMAIN outbox' : outbox'[k].key = SalesKey(outbox'[k].day, outbox'[k].text[1])
  <2>1. ASSUME NEW k \in 1 .. n PROVE outbox'[k].key = SalesKey(outbox'[k].day, outbox'[k].text[1])
    <3>1. outbox[k].key = SalesKey(outbox[k].day, outbox[k].text[1]) BY <1>1 DEF OutboxOK
    <3> QED BY <1>4, <1>6, <3>1
  <2>2. outbox'[n + 1].key = SalesKey(outbox'[n + 1].day, outbox'[n + 1].text[1])
    BY <1>2, <1>6
  <2>3. \A k \in 1 .. n + 1 : k \in 1 .. n \/ k = n + 1 BY <1>1
  <2> QED BY <1>6, <2>1, <2>2, <2>3
<1>8. Adds(d, S)
  <2>1. DOMAIN outbox' = DOMAIN outbox \cup {n + 1} BY <1>1, <1>6
  <2> QED BY <1>1, <1>2, <1>4, <1>6, <2>1 DEF Adds
<1> QED BY <1>6, <1>7, <1>8 DEF OutboxOK

\* Either way rows keep what they are, if figures and records do.
LEMMA RowsKept ==
    ASSUME OutboxOK, sales' = sales, lockedOut' = lockedOut,
           Marks \/ outbox' = outbox \/ \E d, S : Adds(d, S)
    PROVE  Kept
<1>1. CASE Marks BY <1>1 DEF Marks, Kept, Imported
<1>2. CASE outbox' = outbox BY <1>2 DEF Kept, Imported
<1>3. ASSUME NEW d, NEW S, Adds(d, S) PROVE Kept BY <1>3 DEF Adds, Kept, Imported
<1> QED BY <1>1, <1>2, <1>3

\* The row of a day's key is a report of the day.
LEMMA RowOfKey ==
    ASSUME OutboxOK, NEW i \in DOMAIN outbox, NEW d, NEW f, outbox[i].key = SalesKey(d, f)
    PROVE  i \in SalesReports(outbox, d)
<1>1. outbox[i].key = SalesKey(outbox[i].day, outbox[i].text[1]) /\ outbox[i] \in SalesRows
  BY Positions DEF OutboxOK
<1>2. outbox[i].day = d BY <1>1 DEF SalesKey
<1>3. outbox[i].type = "sales" BY <1>1 DEF SalesRows
<1> QED BY <1>2, <1>3 DEF SalesReports, OfDay

\* Rows that a new report of process j's day may supersede.
MaySupersede(j, rows) ==
    /\ rows \in SUBSET PendingReports(job[j].day)
    /\ job[j].pending \cap PendingReports(job[j].day) \subseteq rows

\* The report of the day is rewritten, left alone or added; it is there then.
LEMMA EnsureOutboxRows ==
    ASSUME OutboxOK, NEW j \in Jobs, JobInv(j), ensure_outbox(j), NEW d, d = job[j].day
    PROVE  /\ OutboxOK' /\ Kept /\ Reported(d)' /\ d \in Days /\ Imported(d)
           /\ \/ Marks
              \/ job[j].row = None /\ \E rows : MaySupersede(j, rows) /\ Adds(d, rows)
<1>1. PICK b : b = job[j] OBVIOUS
<1>2. b.step = "commit" /\ sales' = sales /\ lockedOut' = lockedOut
  BY <1>1 DEF ensure_outbox, Step
<1>3. /\ d \in Days /\ b.text \in Figures \X (Figures \cup {None}) /\ Imported(d)
      /\ b.row # None => b.row \in DOMAIN outbox /\ outbox[b.row].key = SalesKey(d, b.text[1])
  BY <1>1, <1>2 DEF JobInv, DayIsTrue, Step, LockSteps, KeyOf
<1>4. CASE b.row # None /\ outbox' = [outbox EXCEPT ![b.row].text = b.text]
  <2>1. OutboxOK' /\ Marks BY <1>3, <1>4, RewriteRows
  <2>2. Kept BY <1>2, <2>1, RowsKept
  <2>3. b.row \in SalesReports(outbox, d) BY <1>3, <1>4, RowOfKey
  <2> QED BY <1>1, <1>3, <2>1, <2>2, <2>3, KeptReports DEF Reported
<1>5. CASE b.row # None /\ outbox' = outbox
  <2>1. OutboxOK' BY <1>5 DEF OutboxOK
  <2>2. Marks BY <1>5 DEF Marks
  <2>3. Kept BY <1>2, <2>2, RowsKept
  <2>4. b.row \in SalesReports(outbox, d) BY <1>3, <1>5, RowOfKey
  <2> QED BY <1>1, <1>3, <2>1, <2>2, <2>3, <2>4, KeptReports DEF Reported
<1>6. ASSUME b.row = None, NEW rows, MaySupersede(j, rows),
             outbox' = Append(Superseded(outbox, rows),
                              NewRow("sales", d, SalesKey(d, b.text[1]), b.text))
      PROVE  /\ OutboxOK' /\ Kept /\ Reported(d)'
             /\ \E S : MaySupersede(j, S) /\ Adds(d, S)
  <2>1. OutboxOK' /\ Adds(d, rows) BY <1>3, <1>6, AddRows
  <2>2. Kept BY <1>2, <2>1, RowsKept
  <2>3. Len(outbox) + 1 \in SalesReports(outbox', d) BY <2>1 DEF Adds, SalesReports, OfDay
  <2> QED BY <1>1, <1>3, <1>6, <2>1, <2>2, <2>3 DEF Reported
<1>7. \/ b.row # None /\ (outbox' = [outbox EXCEPT ![b.row].text = b.text] \/ outbox' = outbox)
      \/ /\ b.row = None
         /\ \E rows : /\ MaySupersede(j, rows)
                      /\ outbox' = Append(Superseded(outbox, rows),
                                          NewRow("sales", d, SalesKey(d, b.text[1]), b.text))
  BY <1>1 DEF ensure_outbox, KeyOf, MaySupersede
<1> QED BY <1>1, <1>3, <1>4, <1>5, <1>6, <1>7

\* Its process can close the day.
LEMMA EnsureOutboxInv ==
    ASSUME JobsShape, OutboxOK, NEW j \in Jobs, JobInv(j), ensure_outbox(j)
    PROVE  JobInv(j)'
<1>1. PICK b : b = job[j] OBVIOUS
<1>2. PICK c : c = job'[j] OBVIOUS
<1>3. /\ b.step = "commit" /\ lock' = lock /\ lockedOut' = lockedOut
  BY <1>1 DEF ensure_outbox, Step
<1>4. JobOK(j) /\ DayIsTrue(j) /\ BackfillIsTrue(j) BY DEF JobInv
<1>5. b.day \in Days /\ Imported(b.day) /\ Reported(b.day)' /\ Kept
  BY <1>1, EnsureOutboxRows
<1>6. /\ Only(j, {"step", "text", "row", "rewrite", "pending"})
      /\ c.step = IF b.mode = "rebuild" THEN "days" ELSE "close"
      /\ c.rewrite = FALSE /\ c.pending = {}
  BY <1>1, <1>2, EnsureOutboxJob
<1>7. /\ DOMAIN c = Fields /\ c.mode = b.mode /\ c.publish = b.publish /\ c.target = b.target
      /\ c.targetDue = b.targetDue /\ c.failed = b.failed /\ c.day = b.day /\ c.on = b.on /\ c.outcome = b.outcome
      /\ c.trigger = b.trigger /\ c.todo = b.todo /\ c.last = b.last
  BY <1>1, <1>2, <1>6 DEF Only, Fields
<1>8. JobOK(j)'
  BY ZenonT(40), <1>1, <1>2, <1>3, <1>4, <1>6, <1>7 DEF JobOK, Step, LockSteps
<1>9. DayIsTrue(j)'
  <2>1. (lock = j => c.on \in Days) /\ (c.mode = "rebuild" => \A d \in c.todo : Imported(d)')
    BY <1>1, <1>4, <1>5, <1>7 DEF DayIsTrue, JobOK, Kept
  <2>2. DoneAsTold(c.publish, c.day)' BY <1>5, <1>7 DEF DoneAsTold, Kept
  <2> QED BY <1>2, <1>3, <1>5, <1>6, <1>7, <2>1, <2>2 DEF DayIsTrue, Step, LockSteps
<1>10. BackfillIsTrue(j)'
  <2>1. b.mode = "due" => /\ b.target \in Days
                          /\ b.last \in Days \cup {None}
                          /\ b.last # None => \/ b.failed \/ b.last \in b.todo \cup {b.day} \cup lockedOut
                                              \/ DoneAsTold(b.publish, b.last)
                          /\ b.targetDue => b.last = b.target \/ Imported(b.target)
    BY <1>1, <1>3, <1>4, DaysAreNumbers DEF BackfillIsTrue, Step
  <2>2. b.mode = "due" => /\ c.last # None => \/ c.failed \/ c.last \in c.todo \cup {c.day} \cup lockedOut'
                                              \/ DoneAsTold(c.publish, c.last)'
                          /\ c.targetDue => c.last = c.target \/ Imported(c.target)'
    <3>1. b.last \in Days /\ DoneAsTold(b.publish, b.last) => DoneAsTold(c.publish, c.last)'
      BY <1>5, <1>7, KeptReports DEF Kept, DoneAsTold
    <3> QED BY <1>3, <1>5, <1>7, <2>1, <3>1, DaysAreNumbers DEF Kept
  <2>3. lock' = j => /\ c.trigger = "scheduled" => c.mode = "due" /\ c.day = c.target
                     /\ c.trigger # "scheduled" /\ c.mode = "due" => c.outcome # "skipped"
                     /\ c.outcome \in {"skipped", "failed", "proven", "partial"}
    BY <1>1, <1>3, <1>4, <1>7 DEF BackfillIsTrue, Step
  <2>4. c.step = IF c.mode = "rebuild" THEN "days" ELSE "close" BY <1>6, <1>7
  <2> QED BY <1>2, <1>7, <2>1, <2>2, <2>3, <2>4 DEF BackfillIsTrue, Step, LockSteps
<1> QED BY <1>8, <1>9, <1>10 DEF JobInv

\* A rebuild goes on with an imported day.
LEMMA RebuildInv ==
    ASSUME JobsShape, NEW j \in Jobs, JobInv(j), rebuild_outbox(j)
    PROVE  JobInv(j)'
<1>1. PICK b : b = job[j] OBVIOUS
<1>2. PICK c : c = job'[j] OBVIOUS
<1>3. /\ b.step = "days" /\ b.mode = "rebuild" /\ b.todo # {} /\ lock' = lock /\ sales' = sales
  BY <1>1 DEF rebuild_outbox, Step
<1>4. JobOK(j) /\ DayIsTrue(j) /\ BackfillIsTrue(j) BY DEF JobInv
<1>5. b.todo \subseteq Days /\ Min(b.todo) \in b.todo
  BY <1>1, <1>3, <1>4, MinIsMember, DaysAreNumbers DEF JobOK
<1>6. /\ Only(j, {"step", "day", "todo"})
      /\ c.step = "ensure" /\ c.day = Min(b.todo) /\ c.todo = b.todo \ {Min(b.todo)}
  BY <1>1, <1>2, RebuildJob
<1>7. /\ DOMAIN c = Fields /\ c.mode = b.mode /\ c.publish = b.publish /\ c.rewrite = b.rewrite
      /\ c.targetDue = b.targetDue /\ c.failed = b.failed /\ c.pending = b.pending
      /\ c.trigger = b.trigger
  BY <1>1, <1>2, <1>6 DEF Only, Fields
<1>8. JobOK(j)' BY <1>1, <1>2, <1>3, <1>4, <1>6, <1>7 DEF JobOK, Step, LockSteps
<1>9. \A d \in b.todo : Imported(d)' BY <1>1, <1>3, <1>4 DEF DayIsTrue, Imported
<1>10. b.pending = {} BY <1>1, <1>3, <1>4 DEF DayIsTrue, Step
<1>11. lock' # j BY <1>1, <1>3, <1>4 DEF JobOK, Step
<1>12. DayIsTrue(j)'
  BY <1>2, <1>3, <1>5, <1>6, <1>7, <1>9, <1>10, <1>11 DEF DayIsTrue, Step, LockSteps, Imported
<1>13. BackfillIsTrue(j)' BY <1>2, <1>3, <1>6, <1>7, <1>11 DEF BackfillIsTrue, Step
<1> QED BY <1>8, <1>12, <1>13 DEF JobInv

\* A day of a backfill that ends is done, or its failure is remembered.
LEMMA FinishDayInv ==
    ASSUME JobsShape, NEW j \in Jobs, JobInv(j), FinishDay(j)
    PROVE  JobInv(j)'
<1>1. PICK b : b = job[j] OBVIOUS
<1>2. PICK c : c = job'[j] OBVIOUS
<1>3. /\ b.step = "close" /\ lock' = "free" /\ lockedOut' = lockedOut
      /\ sales' = sales /\ outbox' = outbox
  BY <1>1 DEF FinishDay, Step
<1>4. JobOK(j) /\ DayIsTrue(j) /\ BackfillIsTrue(j) BY DEF JobInv
<1>5. b.mode # "rebuild" /\ lock = j /\ b.pending = {}
  BY <1>1, <1>3, <1>4 DEF JobOK, DayIsTrue, Step, LockSteps
<1>6. CASE Ends(j) BY <1>3, <1>6, EndsInv
<1>7. CASE /\ b.trigger # "scheduled"
           /\ Only(j, {"step", "failed", "day", "trigger", "on", "outcome"})
           /\ c.step = "days" /\ c.failed = (b.failed \/ b.outcome = "failed")
           /\ c.day = None
  <2>1. /\ DOMAIN c = Fields /\ c.mode = b.mode /\ c.publish = b.publish /\ c.target = b.target
        /\ c.targetDue = b.targetDue /\ c.rewrite = b.rewrite
        /\ c.todo = b.todo /\ c.pending = b.pending /\ c.last = b.last
    BY <1>1, <1>2, <1>7 DEF Only, Fields
  <2>2. c.failed \in BOOLEAN /\ (b.failed => c.failed) /\ (b.outcome = "failed" => c.failed)
    BY <1>7
  <2>3. lock' # j BY <1>3 DEF Jobs
  <2>4. JobOK(j)' BY <1>1, <1>2, <1>4, <1>7, <2>1, <2>2, <2>3 DEF JobOK, Step, LockSteps
  <2>5. DayIsTrue(j)' BY <1>2, <1>5, <1>7, <2>1, <2>3 DEF DayIsTrue, Step, LockSteps
  <2>6. b.mode = "due" => /\ b.target \in Days
                          /\ b.last \in Days \cup {None}
                          /\ b.last # None => \/ b.failed \/ b.last \in b.todo \cup {b.day} \cup lockedOut
                                              \/ DoneAsTold(b.publish, b.last)
                          /\ b.targetDue => b.last = b.target \/ Imported(b.target)
    BY <1>1, <1>3, <1>4, DaysAreNumbers DEF BackfillIsTrue, Step
  <2>7. b.mode = "due" => DoneAsTold(b.publish, b.day) \/ b.outcome = "failed"
    <3>1. b.mode = "due" => b.outcome \in {"failed", "proven", "partial"}
      BY <1>1, <1>3, <1>4, <1>5, <1>7 DEF BackfillIsTrue, Step
    <3>2. Succeeded(b.outcome) => DoneAsTold(b.publish, b.day)
      BY <1>1, <1>3, <1>4 DEF DayIsTrue, Step
    <3> QED BY <3>1, <3>2 DEF Succeeded
  <2>8. b.mode = "due" => /\ c.last # None => \/ c.failed \/ c.last \in c.todo \cup lockedOut'
                                              \/ DoneAsTold(c.publish, c.last)'
                          /\ c.targetDue => c.last = c.target \/ Imported(c.target)'
    <3>1. b.mode = "due" /\ b.last = b.day => c.failed \/ DoneAsTold(b.publish, b.last)
      BY <2>2, <2>7
    <3>2. b.mode = "due" /\ b.last # None => c.failed \/ b.last \in b.todo \cup lockedOut \/ DoneAsTold(b.publish, b.last)
      BY <2>2, <2>6, <3>1
    <3>3. /\ DoneAsTold(b.publish, b.last) => DoneAsTold(c.publish, c.last)'
          /\ Imported(b.target) => Imported(c.target)'
      BY <1>3, <2>1 DEF DoneAsTold, Reported, Imported
    <3> QED BY <1>3, <2>1, <2>6, <3>2, <3>3
  <2>9. BackfillIsTrue(j)' BY <1>2, <1>7, <2>1, <2>3, <2>6, <2>8 DEF BackfillIsTrue, Step
  <2> QED BY <2>4, <2>5, <2>9 DEF JobInv
<1> QED BY <1>1, <1>2, <1>6, <1>7, FinishDayJob

\* A process that ends leaves the lock.
LEMMA LastStepInv ==
    ASSUME JobsShape, NEW j \in Jobs, JobInv(j), KeyIsTaken(j) \/ JobCrashes(j) \/ _merge_results(j)
    PROVE  JobInv(j)'
<1>1. job' = [job EXCEPT ![j] = NoJob] BY DEF KeyIsTaken, JobCrashes, _merge_results
<1>2. Ends(j) BY <1>1, EndsJob
<1>3. CASE KeyIsTaken(j) \/ JobCrashes(j)
  BY <1>2, <1>3, EndsInv DEF KeyIsTaken, JobCrashes
<1>4. CASE _merge_results(j)
  <2>1. lock' = lock /\ lock # j
    BY <1>4 DEF _merge_results, JobInv, JobOK, LockSteps, Step
  <2> QED BY <1>2, <2>1, EndsInv
<1> QED BY <1>3, <1>4

-----------------------------------------------------------------------------
(* Every step keeps the shape, and what is imported, recorded and reported *)

\* Figures and dates stay what they are.
LEMMA CountsStep ==
    ASSUME AutoInv, Next
    PROVE  CountsOK'
<1> USE DEF CountsOK
<1>1. CountsOK /\ \A j \in Jobs : JobInv(j) BY AutoParts
<1>2. CASE MidnightPasses BY <1>1, <1>2 DEF MidnightPasses
<1>3. CASE MorningComes BY <1>1, <1>3 DEF MorningComes
<1>4. CASE FiguresChange BY <1>1, <1>4, DaysAreNumbers DEF FiguresChange
<1>5. CASE OtherLocks BY <1>1, <1>5 DEF OtherLocks
<1>6. CASE OtherUnlocks BY <1>1, <1>6 DEF OtherUnlocks
<1>7. CASE SenderMarks BY <1>1, <1>7 DEF SenderMarks
<1>8. CASE ManualRun
  <2>1. UNCHANGED <<today, late, iiko, sales, completed, lockedOut>> BY <1>8 DEF ManualRun
  <2> QED BY <1>1, <2>1
<1>9. CASE run_due
  <2>1. UNCHANGED <<today, late, iiko, sales, completed, lockedOut>> BY <1>9 DEF run_due
  <2> QED BY <1>1, <2>1
<1>10. ASSUME NEW j \in Jobs, JobStep(j) \/ ImportFails(j) \/ JobCrashes(j)
       PROVE  CountsOK'
  <2>1. CASE ListDays(j) BY <1>1, <2>1 DEF ListDays
  <2>2. CASE run_date(j) BY <1>1, <2>2 DEF run_date
  <2>3. CASE AlreadyRunning(j)
    <3>1. DayToDo(j).day \in Days BY <1>1, <2>3, DayToDoIsDay DEF AlreadyRunning
    <3>2. UNCHANGED <<today, late, iiko, sales, completed>> /\ lockedOut' = lockedOut \cup {DayToDo(j).day}
      BY <2>3 DEF AlreadyRunning
    <3> QED BY <1>1, <3>1, <3>2
  <2>4. CASE sync_day(j)
    <3>1. job[j].day \in Days BY <1>1, <2>4 DEF sync_day, JobInv, DayIsTrue, Step, LockSteps
    <3>2. UNCHANGED <<today, late, iiko, completed, lockedOut>>
          /\ sales' = [sales EXCEPT ![job[j].day] = iiko[job[j].day]]
      BY <2>4 DEF sync_day, persist_report
    <3> QED BY <1>1, <3>1, <3>2
  <2>5. CASE EnsureReads(j) BY <1>1, <2>5 DEF EnsureReads
  <2>6. CASE ensure_outbox(j) BY <1>1, <2>6 DEF ensure_outbox
  <2>7. CASE KeyIsTaken(j) BY <1>1, <2>7 DEF KeyIsTaken
  <2>8. CASE rebuild_outbox(j) BY <1>1, <2>8 DEF rebuild_outbox
  <2>9. CASE FinishDay(j)
    <3>1. /\ UNCHANGED <<today, late, iiko, sales, lockedOut>>
          /\ \/ completed' = completed
             \/ completed' = completed \cup {[day |-> job[j].day, on |-> job[j].on, publish |-> job[j].publish]}
      BY <2>9 DEF FinishDay
    <3>2. Step(j) = "close" /\ JobInv(j) BY <1>1, <2>9 DEF FinishDay
    <3>3. job[j].day \in Days /\ job[j].on \in Days /\ job[j].publish \in BOOLEAN
      BY <3>2 DEF JobInv, JobOK, DayIsTrue, LockSteps
    <3> QED BY <1>1, <3>1, <3>3
  <2>10. CASE _merge_results(j)
    <3>1. /\ UNCHANGED <<today, late, iiko, sales, lockedOut>>
          /\ \/ completed' = completed
             \/ job[j].mode = "due" /\ completed' = completed \cup {[day |-> job[j].last, on |-> today, publish |-> job[j].publish]}
      BY <2>10 DEF _merge_results
    <3>2. Step(j) = "days" /\ JobInv(j) BY <1>1, <2>10 DEF _merge_results
    <3>3. job[j].publish \in BOOLEAN /\ (job[j].mode = "due" => job[j].last \in Days \cup {None})
      BY <3>2 DEF JobInv, JobOK, BackfillIsTrue
    <3> QED BY <1>1, <3>1, <3>3
  <2>11. CASE ImportFails(j) BY <1>1, <2>11 DEF ImportFails
  <2>12. CASE JobCrashes(j) BY <1>1, <2>12 DEF JobCrashes
  <2> QED BY <1>10, <2>1, <2>2, <2>3, <2>4, <2>5, <2>6, <2>7, <2>8, <2>9, <2>10, <2>11, <2>12 DEF JobStep
<1> QED BY <1>2, <1>3, <1>4, <1>5, <1>6, <1>7, <1>8, <1>9, <1>10 DEF Next, Environment

\* The outbox is left alone, marked, or given a report of the day at hand.
OutboxSteps ==
    \/ outbox' = outbox
    \/ Marks
    \/ \E j \in Jobs : /\ Step(j) = "commit" /\ job[j].row = None /\ Imported(job[j].day)
                       /\ \E rows : MaySupersede(j, rows) /\ Adds(job[j].day, rows)
                       /\ ensure_outbox(j)

\* What every step does to the outbox and to what is known of days.
LEMMA OutboxStep ==
    ASSUME AutoInv, Next
    PROVE  OutboxOK' /\ Kept /\ OutboxSteps
<1> DEFINE Same == outbox' = outbox /\ (\A d \in Days : Imported(d) => Imported(d)') /\ lockedOut \subseteq lockedOut'
<1>1. CountsOK /\ OutboxOK /\ \A j \in Jobs : JobInv(j) BY AutoParts
<1>2. ASSUME Same PROVE OutboxOK' /\ Kept /\ OutboxSteps
  BY <1>1, <1>2 DEF OutboxOK, Kept, OutboxSteps
<1>3. ASSUME UNCHANGED <<outbox, sales, lockedOut>> PROVE Same
  BY <1>3 DEF Imported
<1> HIDE DEF Same
<1>4. CASE MidnightPasses \/ MorningComes \/ FiguresChange \/ OtherLocks \/ OtherUnlocks
  BY <1>2, <1>3, <1>4 DEF MidnightPasses, MorningComes, FiguresChange, OtherLocks, OtherUnlocks
<1>5. CASE SenderMarks
  <2>1. OutboxOK' /\ Marks BY <1>1, <1>5, SenderMarksRows
  <2>2. sales' = sales /\ lockedOut' = lockedOut BY <1>5 DEF SenderMarks
  <2> QED BY <1>1, <2>1, <2>2, RowsKept DEF OutboxSteps
<1>6. CASE ManualRun
  <2>1. UNCHANGED <<outbox, sales, lockedOut>> BY <1>6 DEF ManualRun
  <2> QED BY <1>2, <1>3, <2>1
<1>7. CASE run_due
  <2>1. UNCHANGED <<outbox, sales, lockedOut>> BY <1>7 DEF run_due
  <2> QED BY <1>2, <1>3, <2>1
<1>8. ASSUME NEW j \in Jobs, JobStep(j) \/ ImportFails(j) \/ JobCrashes(j)
      PROVE  OutboxOK' /\ Kept /\ OutboxSteps
  <2>1. CASE ListDays(j) \/ EnsureReads(j) \/ KeyIsTaken(j) \/ rebuild_outbox(j)
             \/ _merge_results(j) \/ ImportFails(j) \/ JobCrashes(j)
    BY <1>2, <1>3, <2>1
       DEF ListDays, EnsureReads, KeyIsTaken, rebuild_outbox, _merge_results, ImportFails, JobCrashes
  <2>2. CASE run_date(j) BY <1>2, <1>3, <2>2 DEF run_date
  <2>3. CASE FinishDay(j) BY <1>2, <1>3, <2>3 DEF FinishDay
  <2>4. CASE AlreadyRunning(j)
    <3>1. outbox' = outbox /\ sales' = sales /\ lockedOut \subseteq lockedOut'
      BY <2>4 DEF AlreadyRunning
    <3> QED BY <1>2, <3>1 DEF Same, Imported
  <2>5. CASE sync_day(j)
    <3>1. /\ UNCHANGED <<outbox, lockedOut>>
          /\ sales' = [sales EXCEPT ![job[j].day] = iiko[job[j].day]]
      BY <2>5 DEF sync_day, persist_report
    <3>2. \A d \in Days : iiko[d] # None
      BY <1>1, SalesAutomationAssumption DEF CountsOK, None
    <3>3. \A d \in Days : Imported(d) => Imported(d)'
      BY <1>1, <3>1, <3>2 DEF CountsOK, Imported
    <3> QED BY <1>2, <3>1, <3>3 DEF Same
  <2>6. CASE ensure_outbox(j)
    <3>1. Step(j) = "commit" BY <2>6 DEF ensure_outbox
    <3>2. PICK d : d = job[j].day OBVIOUS
    <3>3. OutboxOK' /\ Kept /\ Imported(d)
          /\ (Marks \/ (job[j].row = None /\ \E rows : MaySupersede(j, rows) /\ Adds(d, rows)))
      <4>1. OutboxOK /\ JobInv(j) BY <1>1
      <4> QED BY <2>6, <3>2, <4>1, EnsureOutboxRows
    <3> QED BY <2>6, <3>1, <3>2, <3>3 DEF OutboxSteps
  <2> QED BY <1>8, <2>1, <2>2, <2>3, <2>4, <2>5, <2>6 DEF JobStep
<1> QED BY <1>4, <1>5, <1>6, <1>7, <1>8 DEF Next, Environment

\* One process moves at a time, and takes the lock from nobody.
Moves(j) ==
    /\ DOMAIN job' = Jobs /\ JobInv(j)'
    /\ \A k \in Jobs \ {j} : job'[k] = job[k] /\ (lock' = k <=> lock = k)
    /\ lock' \in Jobs \cup {"free", "other"}

\* The steps of a process.
LEMMA JobMoves ==
    ASSUME AutoInv, NEW j \in Jobs, JobStep(j) \/ ImportFails(j) \/ JobCrashes(j)
    PROVE  Moves(j)
<1>1. /\ CountsOK /\ OutboxOK /\ JobInv(j) /\ JobsShape
      /\ lock \in Jobs \cup {"free", "other"} /\ DOMAIN job = Jobs
  BY AutoParts, ShapeOfJobs
<1>2. /\ \A d \in Days : iiko[d] # None
      /\ DOMAIN sales = Days /\ today \in Days
  BY <1>1, SalesAutomationAssumption DEF CountsOK, None
<1>3. JobInv(j)'
  BY <1>1, <1>2, ListDaysInv, RunDateInv, AlreadyRunningInv, ImportInv, EnsureReadsInv,
     EnsureOutboxInv, RebuildInv, FinishDayInv, LastStepInv DEF JobStep
<1>4. DOMAIN job' = Jobs /\ \A k \in Jobs \ {j} : job'[k] = job[k]
  <2>1. CASE KeyIsTaken(j) \/ JobCrashes(j) \/ _merge_results(j)
    <3>1. job' = [job EXCEPT ![j] = NoJob] BY <2>1 DEF KeyIsTaken, JobCrashes, _merge_results
    <3> QED BY <1>1, <3>1
  <2>2. ASSUME \E F : Only(j, F) PROVE DOMAIN job' = Jobs /\ \A k \in Jobs \ {j} : job'[k] = job[k]
    BY <2>2 DEF Only
  <2>3. CASE ListDays(j) BY <1>1, <2>2, <2>3, ListDaysJob
  <2>4. CASE run_date(j) BY <1>1, <2>2, <2>4, RunDateJob
  <2>5. CASE AlreadyRunning(j) BY <1>1, <2>2, <2>5, AlreadyRunningJob DEF Ends
  <2>6. CASE sync_day(j) BY <1>1, <2>2, <2>6, SyncDayJob
  <2>7. CASE ImportFails(j) BY <1>1, <2>2, <2>7, ImportFailsJob
  <2>8. CASE EnsureReads(j) BY <1>1, <2>2, <2>8, EnsureReadsJob
  <2>9. CASE ensure_outbox(j) BY <1>1, <2>2, <2>9, EnsureOutboxJob
  <2>10. CASE rebuild_outbox(j) BY <1>1, <2>2, <2>10, RebuildJob
  <2>11. CASE FinishDay(j) BY <1>1, <2>2, <2>11, FinishDayJob DEF Ends
  <2> QED BY <2>1, <2>3, <2>4, <2>5, <2>6, <2>7, <2>8, <2>9, <2>10, <2>11 DEF JobStep
<1>5. \/ lock' = lock
      \/ lock = "free" /\ lock' = j
      \/ lock = j /\ lock' = "free"
  <2>1. CASE run_date(j) BY <2>1 DEF run_date
  <2>2. CASE FinishDay(j)
    <3>1. Step(j) = "close" /\ lock' = "free" BY <2>2 DEF FinishDay
    <3>2. lock = j BY <1>1, <3>1 DEF JobInv, JobOK, DayIsTrue, LockSteps
    <3> QED BY <3>1, <3>2
  <2>3. CASE KeyIsTaken(j) \/ JobCrashes(j)
    BY <2>3 DEF KeyIsTaken, JobCrashes, Unlocked
  <2>4. CASE ~ (run_date(j) \/ FinishDay(j) \/ KeyIsTaken(j) \/ JobCrashes(j))
    BY <2>4 DEF JobStep, ListDays, AlreadyRunning, sync_day, EnsureReads, ensure_outbox,
                rebuild_outbox, _merge_results, ImportFails
  <2> QED BY <2>1, <2>2, <2>3, <2>4
<1> QED BY <1>1, <1>3, <1>4, <1>5 DEF Moves, Jobs

\* All processes are right about what they are at.
LEMMA JobsStep ==
    ASSUME AutoInv, Next
    PROVE  /\ lock' \in Jobs \cup {"free", "other"} /\ DOMAIN job' = Jobs
           /\ \A k \in Jobs : JobInv(k)'
<1>1. /\ CountsOK /\ JobsShape /\ lock \in Jobs \cup {"free", "other"} /\ DOMAIN job = Jobs
      /\ \A k \in Jobs : JobInv(k)
  BY AutoParts, ShapeOfJobs
<1>2. Kept BY OutboxStep
<1>3. ASSUME NEW j \in Jobs, Moves(j)
      PROVE  /\ lock' \in Jobs \cup {"free", "other"} /\ DOMAIN job' = Jobs
             /\ \A k \in Jobs : JobInv(k)'
  <2>1. ASSUME NEW k \in Jobs \ {j} PROVE JobInv(k)'
    BY <1>1, <1>2, <1>3, OtherJob DEF Moves
  <2>2. \A k \in Jobs : k = j \/ k \in Jobs \ {j} OBVIOUS
  <2> QED BY <1>3, <2>1, <2>2 DEF Moves
<1>4. ASSUME job' = job, lock' \in Jobs \cup {"free", "other"}, \A k \in Jobs : lock' = k <=> lock = k
      PROVE  DOMAIN job' = Jobs /\ \A k \in Jobs : JobInv(k)'
  <2>1. ASSUME NEW k \in Jobs PROVE JobInv(k)' BY <1>1, <1>2, <1>4, OtherJob
  <2> QED BY <1>1, <1>4, <2>1
<1>5. CASE MidnightPasses BY <1>1, <1>4, <1>5 DEF MidnightPasses
<1>6. CASE MorningComes BY <1>1, <1>4, <1>6 DEF MorningComes
<1>7. CASE FiguresChange BY <1>1, <1>4, <1>7 DEF FiguresChange
<1>8. CASE OtherLocks BY <1>4, <1>8 DEF OtherLocks, Jobs
<1>9. CASE OtherUnlocks BY <1>4, <1>9 DEF OtherUnlocks, Jobs
<1>10. CASE SenderMarks BY <1>1, <1>4, <1>10 DEF SenderMarks
<1>11. ASSUME NEW j \in Jobs, Step(j) = "idle" PROVE lock # j
  BY <1>1, <1>11 DEF JobInv, JobOK, LockSteps
<1>12. CASE run_due
  <2>1. lock # "hourly" /\ "hourly" \in Jobs /\ lock' = lock
    BY <1>11, <1>12 DEF run_due, Jobs
  <2>2. JobInv("hourly")' BY <1>1, <1>12, <2>1, RunDueInv DEF CountsOK
  <2>3. DOMAIN job' = Jobs /\ \A k \in Jobs : k # "hourly" => job'[k] = job[k]
    BY <1>1, <1>12, RunDueJob DEF Only
  <2>4. Moves("hourly") BY <1>1, <2>1, <2>2, <2>3 DEF Moves
  <2> QED BY <1>3, <2>1, <2>4
<1>13. CASE ManualRun
  <2>1. Step("manual") = "idle" /\ UNCHANGED lock BY <1>13 DEF ManualRun
  <2>2. "manual" \in Jobs BY DEF Jobs
  <2>3. lock # "manual" BY <1>11, <2>1, <2>2
  <2>4. JobInv("manual")' BY <1>1, <1>13, <2>3, ManualRunInv DEF CountsOK
  <2>5. DOMAIN job' = Jobs /\ \A k \in Jobs : k # "manual" => job'[k] = job[k]
    BY <1>1, <1>13, ManualRunJob DEF Only
  <2>6. Moves("manual") BY <1>1, <2>1, <2>4, <2>5 DEF Moves
  <2> QED BY <1>3, <2>2, <2>6
<1>14. ASSUME NEW j \in Jobs, JobStep(j) \/ ImportFails(j) \/ JobCrashes(j)
       PROVE  /\ lock' \in Jobs \cup {"free", "other"} /\ DOMAIN job' = Jobs
              /\ \A k \in Jobs : JobInv(k)'
  BY <1>3, <1>14, JobMoves
<1> QED
  BY <1>1, <1>5, <1>6, <1>7, <1>8, <1>9, <1>10, <1>12, <1>13, <1>14 DEF Next, Environment

\* The day, or the date, is settled: imported or left out.
Settled(d) == Imported(d) \/ d \in lockedOut

\* A step adds a successful run of a day that is done as told or was left out, and
\* the day the run was after is settled.
LEMMA RecordStep ==
    ASSUME AutoInv, Next, NEW r \in completed', r \notin completed
    PROVE  /\ r.day # None => DoneAsTold(r.publish, r.day) \/ r.day \in lockedOut
           /\ UNCHANGED <<today, sales, outbox, lockedOut>>
           /\ \E j \in Jobs : /\ job[j].mode = "due" /\ Settled(job[j].target)
                              /\ r.on = today \/ (Step(j) \in LockSteps /\ r.on = job[j].on)
<1>1. \A j \in Jobs : JobInv(j) BY AutoParts
<1>2. PICK j \in Jobs : FinishDay(j) \/ _merge_results(j)
  <2>1. CASE Environment
    BY <2>1 DEF Environment, MidnightPasses, MorningComes, FiguresChange, OtherLocks,
                OtherUnlocks, SenderMarks, ManualRun
  <2>2. CASE run_due BY <2>2 DEF run_due
  <2>3. ASSUME NEW j \in Jobs, JobStep(j) \/ ImportFails(j) \/ JobCrashes(j)
        PROVE  FinishDay(j) \/ _merge_results(j)
    BY <2>3 DEF JobStep, ListDays, run_date, AlreadyRunning, sync_day, EnsureReads, ensure_outbox,
                KeyIsTaken, rebuild_outbox, ImportFails, JobCrashes
  <2> QED BY <2>1, <2>2, <2>3 DEF Next
<1>3. CASE FinishDay(j)
  <2>1. /\ Step(j) = "close" /\ UNCHANGED <<today, sales, outbox, lockedOut>>
        /\ completed' = IF job[j].trigger = "scheduled" /\ Succeeded(job[j].outcome)
                        THEN completed \cup {[day |-> job[j].day, on |-> job[j].on, publish |-> job[j].publish]} ELSE completed
    BY <1>3 DEF FinishDay
  <2>2. /\ job[j].trigger = "scheduled" /\ Succeeded(job[j].outcome)
        /\ r.day = job[j].day /\ r.on = job[j].on /\ r.publish = job[j].publish
    BY <2>1
  <2>3. lock = j BY <1>1, <2>1 DEF JobInv, JobOK, DayIsTrue, LockSteps
  <2>4. job[j].mode = "due" /\ job[j].target = job[j].day
    BY <1>1, <2>2, <2>3 DEF JobInv, BackfillIsTrue
  <2>5. DoneAsTold(r.publish, r.day) BY <1>1, <2>1, <2>2, <2>4 DEF JobInv, DayIsTrue
  <2> QED BY <2>1, <2>2, <2>4, <2>5 DEF Settled, LockSteps, DoneAsTold
<1>4. CASE _merge_results(j)
  <2>1. /\ Step(j) = "days" /\ ~ HasNext(j) /\ UNCHANGED <<today, sales, outbox, lockedOut>>
        /\ completed' = IF job[j].mode = "due" /\ ~ job[j].failed
                        THEN completed \cup {[day |-> job[j].last, on |-> today, publish |-> job[j].publish]} ELSE completed
    BY <1>4 DEF _merge_results
  <2>2. /\ job[j].mode = "due" /\ ~ job[j].failed
        /\ r.day = job[j].last /\ r.on = today /\ r.publish = job[j].publish
    BY <2>1
  <2>3. job[j].todo = {} /\ job[j].targetDue BY <2>1, <2>2 DEF HasNext
  <2>4. /\ r.day # None => DoneAsTold(r.publish, r.day) \/ r.day \in lockedOut
        /\ r.day = job[j].target \/ Imported(job[j].target)
    BY <1>1, <2>1, <2>2, <2>3 DEF JobInv, BackfillIsTrue
  <2>5. job[j].target # None BY <1>1, <2>2, DaysAreNumbers DEF JobInv, BackfillIsTrue
  <2> QED BY <2>1, <2>2, <2>4, <2>5 DEF Settled, DoneAsTold
<1> QED BY <1>2, <1>3, <1>4

\* Where rows are in the outbox, and that a new one comes last.
LEMMA RowsAre ==
    ASSUME AutoInv
    PROVE  /\ DOMAIN outbox = 1 .. Len(outbox) /\ Len(outbox) \in Nat
           /\ \A i \in DOMAIN outbox : /\ outbox[i] \in SalesRows /\ outbox[i].type = "sales"
                                       /\ outbox[i].day \in Days /\ i # Len(outbox) + 1
                                       /\ Len(outbox) + 1 > i
<1>1. OutboxOK BY AutoParts
<1> QED BY <1>1, Positions DEF OutboxOK, SalesRows

\* The row that a commit adds has the figures its process has read, under their key.
LEMMA AddedRow ==
    ASSUME AutoInv, NEW j, NEW rows,
           outbox' = Append(Superseded(outbox, rows),
                            NewRow("sales", job[j].day, KeyOf(j), job[j].text))
    PROVE  /\ outbox'[Len(outbox) + 1].text = job[j].text
           /\ outbox'[Len(outbox) + 1].key = KeyOf(j)
<1>1. DOMAIN outbox = 1 .. Len(outbox) /\ Len(outbox) \in Nat BY RowsAre
<1>2. Len(Superseded(outbox, rows)) = Len(outbox) BY <1>1 DEF Superseded
<1>3. PICK row : row = NewRow("sales", job[j].day, KeyOf(j), job[j].text) OBVIOUS
<1>4. outbox'[Len(outbox) + 1] = row BY <1>1, <1>2, <1>3
<1>5. row.text = job[j].text /\ row.key = KeyOf(j) BY <1>3 DEF NewRow
<1> QED BY <1>4, <1>5

\* Records stay true: a row that is superseded makes place for a later one.
LEMMA RecordsStep ==
    ASSUME AutoInv, Next
    PROVE  RecordsAreTrue'
<1>1. RecordsAreTrue /\ (\A j \in Jobs : JobInv(j)) BY AutoParts
<1>2. Kept /\ OutboxSteps BY OutboxStep
<1> DEFINE n == Len(outbox) + 1
<1>3. ASSUME NEW i \in DOMAIN outbox
      PROVE  /\ outbox'[i].day = outbox[i].day /\ sales'[outbox[i].day] # None
             /\ outbox[i].status = "superseded" =>
                  \E k \in SalesReports(outbox', outbox[i].day) : k > i
  <2>1. PICK d \in Days : d = outbox[i].day BY RowsAre
  <2>2. Imported(d) => Imported(d)' BY <1>2 DEF Kept
  <2>3. outbox'[i].day = d /\ SalesReports(outbox, d) \subseteq SalesReports(outbox', d)
    BY <1>2, <2>1, KeptReports DEF Kept
  <2> QED BY <1>1, <2>1, <2>2, <2>3 DEF RecordsAreTrue, Imported
<1>4. ASSUME NEW i \in DOMAIN outbox'
      PROVE  /\ sales'[outbox'[i].day] # None
             /\ outbox'[i].status = "superseded" =>
                  \E k \in SalesReports(outbox', outbox'[i].day) : k > i
  <2>1. CASE outbox' = outbox BY <1>3, <2>1
  <2>2. CASE Marks
    <3>1. i \in DOMAIN outbox /\ (outbox'[i].status = "superseded" => outbox[i].status = "superseded")
      BY <2>2 DEF Marks
    <3> QED BY <1>3, <3>1
  <2>3. ASSUME NEW j \in Jobs, Step(j) = "commit", NEW d, d = job[j].day, Imported(d),
               NEW rows, MaySupersede(j, rows), Adds(d, rows), ensure_outbox(j)
        PROVE  /\ sales'[outbox'[i].day] # None
               /\ outbox'[i].status = "superseded" =>
                    \E k \in SalesReports(outbox', outbox'[i].day) : k > i
    <3>1. /\ n \in SalesReports(outbox', d) /\ outbox'[n].day = d /\ outbox'[n].status = "pending"
          /\ i \in DOMAIN outbox \/ i = n
      BY <2>3 DEF Adds, SalesReports, OfDay
    <3>2. CASE i = n
      <4>1. sales' = sales BY <2>3 DEF ensure_outbox
      <4> QED BY <2>3, <3>1, <3>2, <4>1 DEF Imported
    <3>3. CASE i \in DOMAIN outbox /\ i \in rows
      <4>1. outbox[i].day = d
        BY <2>3, <3>3 DEF MaySupersede, PendingReports, SalesReports, OfDay
      <4>2. n > i BY <3>3, RowsAre
      <4> QED BY <1>3, <3>1, <3>3, <4>1, <4>2
    <3>4. CASE i \in DOMAIN outbox /\ i \notin rows
      <4>1. outbox'[i].status = outbox[i].status BY <2>3, <3>4 DEF Adds
      <4> QED BY <1>3, <3>4, <4>1
    <3> QED BY <3>1, <3>2, <3>3, <3>4
  <2> QED BY <1>2, <2>1, <2>2, <2>3 DEF OutboxSteps
<1>5. ASSUME NEW r \in completed', r.day # None
      PROVE  DoneAsTold(r.publish, r.day)' \/ r.day \in lockedOut'
  <2>1. DoneAsTold(r.publish, r.day) \/ r.day \in lockedOut
    <3>1. CASE r \in completed BY <1>1, <1>5, <3>1 DEF RecordsAreTrue
    <3>2. CASE r \notin completed BY <1>5, <3>2, RecordStep
    <3> QED BY <3>1, <3>2
  <2>2. r.day \in Days BY <1>5, CountsStep DEF CountsOK
  <2> QED BY <1>2, <2>1, <2>2, KeptReports DEF Kept, DoneAsTold
<1> QED BY <1>4, <1>5 DEF RecordsAreTrue, Imported

-----------------------------------------------------------------------------
(* The invariant *)

\* It holds at first, when nothing is imported and nobody at work.
LEMMA AutoInit == Init => AutoInv
<1> SUFFICES ASSUME Init PROVE AutoInv OBVIOUS
<1>1. Min(Figures) \in Figures BY SalesAutomationAssumption, MinIsMember
<1>2. CountsOK BY <1>1, DaysAreNumbers DEF Init, CountsOK, None
<1>3. OutboxOK BY DEF Init, OutboxOK
<1>4. lock \in Jobs \cup {"free", "other"} /\ DOMAIN job = Jobs /\ RecordsAreTrue
  BY DEF Init, RecordsAreTrue
<1>5. ASSUME NEW j \in Jobs PROVE JobInv(j)
  <2>1. /\ job[j] = NoJob /\ lock # j BY DEF Init, Jobs
  <2>2. /\ job[j].step = "idle" /\ job[j].mode = "none" /\ job[j].todo = {} /\ job[j].pending = {}
        /\ job[j].publish = TRUE /\ job[j].targetDue = FALSE /\ job[j].failed = FALSE
        /\ job[j].rewrite = FALSE /\ DOMAIN job[j] = Fields
    BY <2>1, FieldsOfNoJob DEF NoJob
  <2> QED BY <2>1, <2>2 DEF JobInv, JobOK, DayIsTrue, BackfillIsTrue, Step, LockSteps
<1> QED BY <1>2, <1>3, <1>4, <1>5, AutoParts

\* The parts, in the next state.
LEMMA AutoPartsAgain ==
    ASSUME CountsOK', OutboxOK', lock' \in Jobs \cup {"free", "other"}, DOMAIN job' = Jobs,
           \A j \in Jobs : JobInv(j)', RecordsAreTrue'
    PROVE  AutoInv'
<1>1. (CountsOK /\ OutboxOK /\ lock \in Jobs \cup {"free", "other"} /\ DOMAIN job = Jobs
       /\ (\A j \in Jobs : JobInv(j)) /\ RecordsAreTrue)' => AutoInv'
  BY FieldsOfNoJob DEF AutoInv, TypeOK, CountsOK, OutboxOK, JobInv, JobOK
<1> QED BY <1>1

\* Every step keeps it.
LEMMA AutoStep == AutoInv /\ [Next]_vars => AutoInv'
<1>1. CASE AutoInv /\ Next
  BY <1>1, CountsStep, OutboxStep, JobsStep, RecordsStep, AutoPartsAgain
<1>2. CASE AutoInv /\ UNCHANGED vars
  BY <1>2 DEF vars, AutoInv, TypeOK, DayIsTrue, BackfillIsTrue, RecordsAreTrue, Step, KeyOf,
              Imported, Reported, DoneAsTold
<1> QED BY <1>1, <1>2

\* Whatever timers and operators run, and however they fail: what a process
\* believes of the day at hand and of its backfill is true, and so are its records.
THEOREM AutoInvariant == Spec => []AutoInv
<1>1. AutoInv /\ [Next]_vars => AutoInv' BY AutoStep
<1> QED BY AutoInit, <1>1, PTL DEF Spec

\* The state has its shape; the lock is held by the process at work on a day.
THEOREM AutoTypeCorrect == Spec => []TypeOK
<1>1. AutoInv => TypeOK BY DEF AutoInv
<1> QED BY AutoInvariant, <1>1, PTL

\* No report is withdrawn without a later one of its day: the rows that a commit
\* supersedes are of the day it adds a report of.
THEOREM WithdrawnIsReplaced == Spec => []SupersededIsReplaced
<1>1. AutoInv => SupersededIsReplaced BY DEF AutoInv, RecordsAreTrue, SupersededIsReplaced
<1> QED BY AutoInvariant, <1>1, PTL

\* A scheduled run that counts as successful has left a report of its day, unless it
\* was told not to publish, or was turned away from that day by the lock.
THEOREM SuccessIsReported == Spec => []DoneMeansReported
<1>1. AutoInv => DoneMeansReported
  BY DEF AutoInv, RecordsAreTrue, DoneMeansReported, DoneAsTold, Reported
<1> QED BY AutoInvariant, <1>1, PTL

-----------------------------------------------------------------------------
(* Without rebuilds: one report of a day waits *)

\* A process keeps to its command, and to the date on which it began the day.
LEMMA RunStays ==
    ASSUME AutoInv, NEW j \in Jobs, JobStep(j) \/ ImportFails(j) \/ JobCrashes(j)
    PROVE  \/ Ends(j)
           \/ /\ job'[j].mode = job[j].mode /\ job'[j].target = job[j].target
              /\ \/ job'[j].on = job[j].on /\ (Step(j) \in LockSteps \/ Step(j)' \notin LockSteps)
                 \/ job'[j].on = today
                 \/ job[j].mode = "rebuild"
                 \/ Step(j)' = "days"
              /\ Step(j)' = "commit" => EnsureReads(j)
<1> DEFINE Stays == /\ job'[j].mode = job[j].mode /\ job'[j].target = job[j].target
                    /\ \/ job'[j].on = job[j].on /\ (Step(j) \in LockSteps \/ Step(j)' \notin LockSteps)
                       \/ job'[j].on = today
                       \/ job[j].mode = "rebuild"
                       \/ Step(j)' = "days"
                    /\ Step(j)' = "commit" => EnsureReads(j)
<1> USE DEF Only, Fields, Step, LockSteps
<1>1. JobsShape BY ShapeOfJobs
<1>2. CASE ListDays(j)
  <2>1. Only(j, {"step", "todo", "last"}) /\ job'[j].step = "days" BY <1>1, <1>2, ListDaysJob
  <2> QED BY <2>1
<1>3. CASE run_date(j)
  <2>1. /\ Only(j, {"step", "day", "trigger", "on", "todo", "outcome"}) /\ job'[j].on = today
        /\ job'[j].step \in {"ensure", "close", "import"}
    BY <1>1, <1>3, RunDateJob
  <2> QED BY <2>1
<1>4. CASE AlreadyRunning(j)
  <2>1. Step(j) = "days" BY <1>4 DEF AlreadyRunning, HasNext
  <2> QED BY <1>1, <1>4, <2>1, AlreadyRunningJob
<1>5. CASE sync_day(j)
  <2>1. /\ Only(j, {"step", "outcome"}) /\ job'[j].step \in {"ensure", "close"}
        /\ job[j].step = "import"
    BY <1>1, <1>5, SyncDayJob DEF sync_day
  <2> QED BY <2>1
<1>6. CASE ImportFails(j)
  <2>1. /\ Only(j, {"step", "outcome"}) /\ job'[j].step = "close" /\ job[j].step = "import"
    BY <1>1, <1>6, ImportFailsJob DEF ImportFails
  <2> QED BY <2>1
<1>7. CASE EnsureReads(j)
  <2>1. /\ Only(j, {"step", "text", "row", "rewrite", "pending"}) /\ job[j].step = "ensure"
    BY <1>1, <1>7, EnsureReadsJob DEF EnsureReads
  <2> QED BY <1>7, <2>1
<1>8. CASE ensure_outbox(j)
  <2>1. /\ Only(j, {"step", "text", "row", "rewrite", "pending"})
        /\ job'[j].step \in {"days", "close"} /\ job[j].step = "commit"
    BY ZenonT(40), <1>1, <1>8, EnsureOutboxJob DEF ensure_outbox
  <2> QED BY <2>1
<1>9. CASE rebuild_outbox(j)
  <2>1. /\ Only(j, {"step", "day", "todo"}) /\ job'[j].step = "ensure" /\ job[j].mode = "rebuild"
    BY <1>1, <1>9, RebuildJob DEF rebuild_outbox
  <2> QED BY <2>1
<1>10. CASE FinishDay(j)
  <2>1. Ends(j) \/ /\ Only(j, {"step", "failed", "day", "trigger", "on", "outcome"})
                   /\ job'[j].step = "days"
    BY <1>1, <1>10, FinishDayJob
  <2> QED BY <2>1
<1>11. CASE KeyIsTaken(j) \/ JobCrashes(j) \/ _merge_results(j)
  <2>1. job' = [job EXCEPT ![j] = NoJob] BY <1>11 DEF KeyIsTaken, JobCrashes, _merge_results
  <2> QED BY <1>1, <2>1, EndsJob
<1> QED BY <1>2, <1>3, <1>4, <1>5, <1>6, <1>7, <1>8, <1>9, <1>10, <1>11 DEF JobStep

\* A step makes of a process nothing, its beginning, or its next step.
LEMMA WhoMoves ==
    ASSUME AutoInv, Next, NEW j \in Jobs
    PROVE  \/ job'[j] = job[j]
           \/ j = "hourly" /\ run_due
           \/ j = "manual" /\ ManualRun
           \/ JobStep(j) \/ ImportFails(j) \/ JobCrashes(j)
<1>1. CASE \/ MidnightPasses \/ MorningComes \/ FiguresChange \/ OtherLocks \/ OtherUnlocks
           \/ SenderMarks
  BY <1>1 DEF MidnightPasses, MorningComes, FiguresChange, OtherLocks, OtherUnlocks, SenderMarks
<1>2. CASE ManualRun BY <1>2, ManualRunJob, ShapeOfJobs DEF Only
<1>3. CASE run_due BY <1>3, RunDueJob, ShapeOfJobs DEF Only
<1>4. ASSUME NEW k \in Jobs, JobStep(k) \/ ImportFails(k) \/ JobCrashes(k), k # j
      PROVE  job'[j] = job[j]
  BY <1>4, JobMoves DEF Moves
<1> QED BY <1>1, <1>2, <1>3, <1>4 DEF Next, Environment

\* Writing moves the process on.
LEMMA WritingMoves ==
    ASSUME AutoInv, NEW j \in Jobs, ensure_outbox(j)
    PROVE  Step(j) = "commit" /\ Step(j)' # "commit" /\ job'[j] # job[j]
<1>1. JobsShape /\ Step(j) = "commit" BY ShapeOfJobs DEF ensure_outbox
<1>2. job'[j].step \in {"days", "close"} BY <1>1, EnsureOutboxJob
<1> QED BY <1>1, <1>2 DEF Step

\* Nobody rebuilds unless operators do.
LEMMA NoRebuildStep ==
    ASSUME AutoInv, Next, "rebuild" \notin ManualModes, NEW j \in Jobs, job[j].mode # "rebuild"
    PROVE  job'[j].mode # "rebuild"
<1>1. CASE run_due /\ j = "hourly" BY <1>1, RunDueJob, ShapeOfJobs
<1>2. CASE ManualRun /\ j = "manual" BY <1>2, ManualRunJob, ShapeOfJobs
<1>3. CASE JobStep(j) \/ ImportFails(j) \/ JobCrashes(j)
  <2>1. Ends(j) => job'[j].mode = "none" BY DEF Ends, NoJob
  <2> QED BY <1>3, <2>1, RunStays
<1> QED BY <1>1, <1>2, <1>3, WhoMoves

\* What a process found of the rows that wait is all there is: nobody else adds one.
LEMMA PendingIsKnownStep ==
    ASSUME AutoInv, PendingIsKnown, Next, "rebuild" \notin ManualModes
    PROVE  PendingIsKnown'
<1>1. \A j \in Jobs : JobInv(j) /\ job[j].mode # "rebuild" /\ job'[j].mode # "rebuild"
  BY AutoParts, NoRebuildStep DEF PendingIsKnown
<1>2. OutboxSteps /\ JobsShape BY OutboxStep, ShapeOfJobs
<1>3. ASSUME NEW j \in Jobs, Step(j) \in LockSteps PROVE lock = j
  BY <1>1, <1>3 DEF JobInv, JobOK
<1>4. ASSUME outbox' = outbox \/ Marks, NEW d
      PROVE  PendingReports(d)' \subseteq PendingReports(d)
  <2>1. CASE outbox' = outbox BY <2>1 DEF PendingReports
  <2>2. CASE Marks BY <2>2 DEF Marks, PendingReports, SalesReports, OfDay
  <2> QED BY <1>4, <2>1, <2>2
<1>5. ASSUME NEW j \in Jobs, Step(j)' = "commit", job'[j].row = None
      PROVE  PendingReports(job[j].day)' \subseteq job'[j].pending
  <2>1. PICK d : d = job[j].day OBVIOUS
  <2>2. CASE EnsureReads(j)
    <3>1. job'[j].pending = PendingReports(d) /\ outbox' = outbox /\ job'[j].day = d
      <4>1. /\ Only(j, {"step", "text", "row", "rewrite", "pending"})
            /\ job'[j].pending = IF job'[j].row = None THEN PendingReports(d) ELSE {}
        BY <1>2, <2>1, <2>2, EnsureReadsJob
      <4>2. outbox' = outbox BY <2>2 DEF EnsureReads
      <4> QED BY <1>5, <2>1, <4>1, <4>2 DEF Only, Fields
    <3> QED BY <2>1, <3>1 DEF PendingReports
  <2>3. CASE job'[j] = job[j]
    <3>1. Step(j) = "commit" /\ job[j].row = None BY <1>5, <2>3 DEF Step
    <3>2. PendingReports(d) \subseteq job[j].pending BY <2>1, <3>1 DEF PendingIsKnown
    <3>3. outbox' = outbox \/ Marks
      <4>1. ASSUME NEW k \in Jobs, ensure_outbox(k) PROVE FALSE
        <5>1. lock = j /\ lock = k BY <1>3, <3>1, <4>1, WritingMoves DEF LockSteps
        <5> QED BY <2>3, <4>1, <5>1, WritingMoves
      <4> QED BY <1>2, <4>1 DEF OutboxSteps
    <3> QED BY <1>4, <2>1, <2>3, <3>2, <3>3
  <2>4. CASE ~ EnsureReads(j) /\ job'[j] # job[j]
    <3>1. CASE run_due /\ j = "hourly" BY <1>2, <1>5, <3>1, RunDueJob DEF Step
    <3>2. CASE ManualRun /\ j = "manual" BY <1>2, <1>5, <3>2, ManualRunJob DEF Step
    <3>3. CASE JobStep(j) \/ ImportFails(j) \/ JobCrashes(j)
      <4>1. ~ Ends(j) BY <1>5 DEF Ends, NoJob, Step
      <4> QED BY <1>5, <2>4, <3>3, <4>1, RunStays
    <3> QED BY <2>4, <3>1, <3>2, <3>3, WhoMoves
  <2> QED BY <2>2, <2>3, <2>4
<1>6. ASSUME NEW d \in Days, NEW i \in PendingReports(d)', NEW k \in PendingReports(d)'
      PROVE  i = k
  <2>1. \A x, y \in PendingReports(d) : x = y BY DEF PendingIsKnown
  <2>2. CASE outbox' = outbox \/ Marks BY <1>4, <1>6, <2>1, <2>2
  <2>3. ASSUME NEW j \in Jobs, Step(j) = "commit", job[j].row = None, NEW e, e = job[j].day,
               NEW rows, MaySupersede(j, rows), Adds(e, rows)
        PROVE  i = k
    <3> DEFINE n == Len(outbox) + 1
    <3>1. PendingReports(e) \subseteq rows BY <2>3 DEF PendingIsKnown, MaySupersede
    <3>2. ASSUME NEW x \in PendingReports(d)', x # n PROVE x \in PendingReports(d) /\ d # e
      <4>1. x \in DOMAIN outbox /\ outbox'[x].status = "pending" /\ outbox'[x].day = d
            /\ outbox'[x].type = "sales"
        BY <2>3, <3>2 DEF Adds, PendingReports, SalesReports, OfDay
      <4>2. x \notin rows BY <2>3, <4>1 DEF Adds
      <4>3. x \in PendingReports(d) BY <2>3, <4>1, <4>2 DEF Adds, PendingReports, SalesReports, OfDay
      <4> QED BY <3>1, <4>2, <4>3
    <3>3. n \in PendingReports(d)' => d = e
      BY <2>3 DEF Adds, PendingReports, SalesReports, OfDay
    <3>4. CASE i # n /\ k # n BY <1>6, <2>1, <3>2, <3>4
    <3>5. CASE i = n \/ k = n BY <1>6, <3>2, <3>3, <3>5
    <3> QED BY <3>4, <3>5
  <2> QED BY <1>2, <2>2, <2>3 DEF OutboxSteps
<1> QED BY <1>1, <1>5, <1>6 DEF PendingIsKnown

\* Without rebuilds at most one report of a day waits for its first delivery: every
\* writer holds the lock, and supersedes all that waits when it adds one.
THEOREM OneReportWaits ==
    ASSUME "rebuild" \notin ManualModes
    PROVE  Spec => []OnePendingReport
<1>1. Init => PendingIsKnown BY DEF Init, PendingIsKnown, PendingReports, SalesReports, OfDay, NoJob, Step
<1>2. AutoInv /\ PendingIsKnown /\ [Next]_vars => PendingIsKnown'
  <2>1. ASSUME AutoInv, PendingIsKnown, Next PROVE PendingIsKnown' BY <2>1, PendingIsKnownStep
  <2>2. ASSUME PendingIsKnown, UNCHANGED vars PROVE PendingIsKnown'
    BY <2>2 DEF vars, PendingIsKnown, PendingReports, Step
  <2> QED BY <2>1, <2>2
<1>3. AutoInv /\ PendingIsKnown => OnePendingReport
  <2> SUFFICES ASSUME AutoInv, PendingIsKnown, NEW d \in Days
               PROVE  Cardinality(PendingReports(d)) <= 1
    BY DEF OnePendingReport
  <2>1. IsFiniteSet(PendingReports(d))
    <3>1. PendingReports(d) \subseteq 1 .. Len(outbox) /\ Len(outbox) \in Nat
      BY RowsAre DEF PendingReports, SalesReports, OfDay
    <3>2. IsFiniteSet(1 .. Len(outbox)) BY <3>1, FS_Interval
    <3> QED BY <3>1, <3>2, FS_Subset
  <2> QED BY <2>1, AtMostOne DEF PendingIsKnown
<1> QED BY AutoInvariant, <1>1, <1>2, <1>3, PTL DEF Spec

-----------------------------------------------------------------------------
(* Without rebuilds, and while figures only rise: what waits is current *)

\* The figures a report gives are numbers, and its key tells them.
LEMMA FiguresOfRows ==
    ASSUME AutoInv, NEW i \in DOMAIN outbox
    PROVE  /\ outbox[i].text[1] \in Figures /\ outbox[i].text[1] \in Nat
           /\ outbox[i].key = SalesKey(outbox[i].day, outbox[i].text[1])
<1>1. OutboxOK BY AutoParts
<1>2. outbox[i] \in SalesRows BY <1>1, Positions DEF OutboxOK
<1>3. outbox[i].text \in Figures \X (Figures \cup {None}) BY <1>2 DEF SalesRows
<1>4. outbox[i].text[1] \in Figures BY <1>3
<1> QED BY <1>1, <1>4, SalesAutomationAssumption DEF OutboxOK

\* A row that keeps its key keeps the figures it gives.
LEMMA FiguresStay ==
    ASSUME AutoInv, OutboxOK', Kept, NEW i \in DOMAIN outbox
    PROVE  i \in DOMAIN outbox' /\ outbox'[i].text[1] = outbox[i].text[1]
<1>1. i \in DOMAIN outbox' /\ outbox'[i].key = outbox[i].key BY DEF Kept
<1>2. outbox'[i].key = SalesKey(outbox'[i].day, outbox'[i].text[1]) BY <1>1 DEF OutboxOK
<1>3. outbox[i].key = SalesKey(outbox[i].day, outbox[i].text[1]) BY FiguresOfRows
<1>4. ASSUME NEW d, NEW e, NEW f, NEW g, SalesKey(d, f) = SalesKey(e, g) PROVE f = g
  BY <1>4 DEF SalesKey
<1> QED BY <1>1, <1>2, <1>3, <1>4

\* An import stores what iiko says, which is no less than what was stored.
LEMMA SalesRise ==
    ASSUME AutoInv, FiguresRise, Next, ~ Recurring, NEW d \in Days
    PROVE  sales[d] <= sales'[d] /\ sales'[d] <= iiko'[d] /\ sales'[d] \in Nat
<1>1. CountsOK /\ \A j \in Jobs : JobInv(j) BY AutoParts
<1>2. /\ sales[d] \in Nat /\ iiko[d] \in Nat /\ sales[d] <= iiko[d]
  <2>1. sales[d] \in Figures \cup {None} /\ iiko[d] \in Figures BY <1>1 DEF CountsOK
  <2> QED BY <2>1, SalesAutomationAssumption DEF FiguresRise, None
<1>3. CASE FiguresChange
  <2>1. sales' = sales BY <1>3 DEF FiguresChange
  <2>2. PICK e \in 1 .. today, f \in Figures :
          (Recurring \/ f > iiko[e]) /\ iiko' = [iiko EXCEPT ![e] = f]
    BY <1>3 DEF FiguresChange
  <2>3. f \in Nat BY SalesAutomationAssumption
  <2>4. iiko'[d] \in Nat /\ iiko'[d] >= iiko[d]
    BY <1>1, <1>2, <2>2, <2>3 DEF CountsOK
  <2> QED BY <1>2, <2>1, <2>4
<1>4. ASSUME NEW j \in Jobs, sync_day(j) PROVE sales[d] <= sales'[d] /\ sales'[d] <= iiko'[d] /\ sales'[d] \in Nat
  <2>1. iiko' = iiko /\ sales' = [sales EXCEPT ![job[j].day] = iiko[job[j].day]]
    BY <1>4 DEF sync_day, persist_report
  <2>2. sales'[d] \in {sales[d], iiko[d]} BY <1>1, <2>1 DEF CountsOK
  <2> QED BY <1>2, <2>1, <2>2
<1>5. ASSUME UNCHANGED <<iiko, sales>>
      PROVE  sales[d] <= sales'[d] /\ sales'[d] <= iiko'[d] /\ sales'[d] \in Nat
  BY <1>2, <1>5
<1>6. CASE MidnightPasses \/ MorningComes \/ OtherLocks \/ OtherUnlocks \/ SenderMarks
  BY <1>5, <1>6 DEF MidnightPasses, MorningComes, OtherLocks, OtherUnlocks, SenderMarks
<1>7. CASE ManualRun
  <2>1. UNCHANGED <<iiko, sales>> BY <1>7 DEF ManualRun
  <2> QED BY <1>5, <2>1
<1>8. CASE run_due
  <2>1. UNCHANGED <<iiko, sales>> BY <1>8 DEF run_due
  <2> QED BY <1>5, <2>1
<1>9. ASSUME NEW j \in Jobs, JobStep(j) \/ ImportFails(j) \/ JobCrashes(j), ~ sync_day(j)
      PROVE  UNCHANGED <<iiko, sales>>
  <2>1. CASE ListDays(j) \/ run_date(j) \/ AlreadyRunning(j) \/ EnsureReads(j)
    BY <2>1 DEF ListDays, run_date, AlreadyRunning, EnsureReads
  <2>2. CASE ensure_outbox(j) \/ KeyIsTaken(j) \/ rebuild_outbox(j) \/ FinishDay(j)
    BY <2>2 DEF ensure_outbox, KeyIsTaken, rebuild_outbox, FinishDay
  <2>3. CASE _merge_results(j) \/ ImportFails(j) \/ JobCrashes(j)
    BY <2>3 DEF _merge_results, ImportFails, JobCrashes
  <2> QED BY <1>9, <2>1, <2>2, <2>3 DEF JobStep
<1> QED BY <1>3, <1>4, <1>5, <1>6, <1>7, <1>8, <1>9 DEF Next, Environment

\* What a process is about to write was read under the lock: no import comes between.
LEMMA AboutToWrite ==
    ASSUME AutoInv, PendingIsKnown, FiguresRise, Next, "rebuild" \notin ManualModes,
           NEW j \in Jobs, Step(j)' = "commit"
    PROVE  job'[j].text[1] = sales'[job'[j].day]
<1>1. /\ JobsShape
      /\ \A k \in Jobs : JobInv(k) /\ job[k].mode # "rebuild"
  BY AutoParts, ShapeOfJobs DEF PendingIsKnown
<1>2. ASSUME NEW k \in Jobs, Step(k) \in LockSteps PROVE lock = k
  BY <1>1, <1>2 DEF JobInv, JobOK
<1>3. CASE EnsureReads(j)
  <2>1. /\ Only(j, {"step", "text", "row", "rewrite", "pending"})
        /\ job'[j].text = build_sales_daily_hermes_payload(job[j].day)
    BY <1>1, <1>3, EnsureReadsJob
  <2>2. job'[j].day = job[j].day BY <2>1 DEF Only, Fields
  <2>3. sales' = sales BY <1>3 DEF EnsureReads
  <2>4. job'[j].text[1] = sales[job[j].day] BY <2>1 DEF build_sales_daily_hermes_payload
  <2> QED BY <2>2, <2>3, <2>4
<1>4. CASE job'[j] = job[j]
  <2>1. Step(j) = "commit" BY <1>4 DEF Step
  <2>2. job[j].text[1] = sales[job[j].day] BY <2>1 DEF FiguresRise
  <2>3. ASSUME NEW k \in Jobs, sync_day(k) PROVE FALSE
    <3>1. Step(k) = "import" BY <2>3 DEF sync_day
    <3>2. lock = j /\ lock = k BY <1>2, <2>1, <3>1 DEF LockSteps
    <3> QED BY <2>1, <3>1, <3>2
  <2>4. sales' = sales
    <3>1. CASE Environment
      BY <3>1 DEF Environment, MidnightPasses, MorningComes, FiguresChange, OtherLocks,
                  OtherUnlocks, SenderMarks, ManualRun
    <3>2. CASE run_due BY <3>2 DEF run_due
    <3>3. ASSUME NEW k \in Jobs, JobStep(k) \/ ImportFails(k) \/ JobCrashes(k) PROVE sales' = sales
      BY <2>3, <3>3 DEF JobStep, ListDays, run_date, AlreadyRunning, EnsureReads, ensure_outbox,
                        KeyIsTaken, rebuild_outbox, FinishDay, _merge_results, ImportFails, JobCrashes
    <3> QED BY <3>1, <3>2, <3>3 DEF Next
  <2> QED BY <1>4, <2>2, <2>4
<1>5. CASE ~ EnsureReads(j) /\ job'[j] # job[j]
  <2>1. CASE run_due /\ j = "hourly" BY <1>1, <2>1, RunDueJob DEF Step
  <2>2. CASE ManualRun /\ j = "manual" BY <1>1, <2>2, ManualRunJob DEF Step
  <2>3. CASE JobStep(j) \/ ImportFails(j) \/ JobCrashes(j)
    <3>1. ~ Ends(j) BY DEF Ends, NoJob, Step
    <3> QED BY <1>5, <2>3, <3>1, RunStays
  <2> QED BY <1>5, <2>1, <2>2, <2>3, WhoMoves
<1> QED BY <1>3, <1>4, <1>5

\* A new report is of figures no report of its day has given, and supersedes what
\* waits; every other step leaves the figures of the reports alone.
LEMMA FiguresRiseStep ==
    ASSUME AutoInv, PendingIsKnown, FiguresRise, Next, "rebuild" \notin ManualModes, ~ Recurring
    PROVE  FiguresRise'
<1>1. OutboxOK' /\ Kept /\ OutboxSteps BY OutboxStep
<1>2. /\ DOMAIN outbox = 1 .. Len(outbox) /\ Len(outbox) \in Nat
      /\ \A i \in DOMAIN outbox : i # Len(outbox) + 1 /\ Len(outbox) + 1 > i
  BY RowsAre
<1> DEFINE n == Len(outbox) + 1
<1>3. ASSUME NEW d \in Days, NEW i \in SalesReports(outbox, d)
      PROVE  /\ outbox'[i].text[1] = outbox[i].text[1] /\ outbox[i].text[1] \in Nat
             /\ outbox[i].text[1] <= sales[d] /\ outbox[i].text[1] <= sales'[d]
  <2>1. i \in DOMAIN outbox BY DEF SalesReports, OfDay
  <2>2. outbox[i].text[1] <= sales[d] BY DEF FiguresRise
  <2>3. sales[d] <= sales'[d] /\ sales'[d] \in Nat /\ sales[d] \in Nat
    <3>1. sales[d] \in Figures \cup {None} BY AutoParts DEF CountsOK
    <3>2. Figures \cup {None} \subseteq Nat BY SalesAutomationAssumption DEF None
    <3>3. sales[d] \in Nat BY <3>1, <3>2
    <3> QED BY <3>3, SalesRise
  <2> QED BY <1>1, <2>1, <2>2, <2>3, FiguresOfRows, FiguresStay
<1>4. ASSUME outbox' = outbox \/ Marks, NEW d \in Days, NEW i \in SalesReports(outbox', d)
      PROVE  /\ i \in SalesReports(outbox, d)
             /\ outbox'[i].status = "pending" => outbox[i].status = "pending"
  <2>1. CASE outbox' = outbox BY <1>4, <2>1
  <2>2. CASE Marks BY <1>4, <2>2 DEF Marks, SalesReports, OfDay
  <2> QED BY <1>4, <2>1, <2>2
<1>5. ASSUME NEW d \in Days, NEW i \in SalesReports(outbox', d)
      PROVE  /\ outbox'[i].text[1] <= sales'[d]
             /\ \A k \in SalesReports(outbox', d) : i < k =>
                 outbox'[i].text[1] < outbox'[k].text[1] /\ outbox'[i].status # "pending"
  <2>1. CASE outbox' = outbox \/ Marks
    <3>1. \A x \in SalesReports(outbox', d) :
            /\ x \in SalesReports(outbox, d) /\ outbox'[x].text[1] = outbox[x].text[1]
            /\ outbox'[x].text[1] <= sales'[d]
            /\ outbox'[x].status = "pending" => outbox[x].status = "pending"
      BY <1>3, <1>4, <2>1
    <3> QED BY <1>5, <3>1 DEF FiguresRise
  <2>2. ASSUME NEW j \in Jobs, Step(j) = "commit", job[j].row = None, NEW e, e = job[j].day,
               NEW rows, MaySupersede(j, rows), Adds(e, rows), ensure_outbox(j)
        PROVE  /\ outbox'[i].text[1] <= sales'[d]
               /\ \A k \in SalesReports(outbox', d) : i < k =>
                   outbox'[i].text[1] < outbox'[k].text[1] /\ outbox'[i].status # "pending"
    <3>1. \A x \in SalesReports(outbox', d) : x = n \/ x \in SalesReports(outbox, d)
      BY <2>2 DEF Adds, SalesReports, OfDay
    <3>2. \A x \in DOMAIN outbox :
            outbox'[x].status = "pending" => outbox[x].status = "pending" /\ x \notin rows
      BY <2>2 DEF Adds
    <3>3. /\ sales' = sales /\ WithKey(outbox, KeyOf(j)) = {}
          /\ \E S : outbox' = Append(Superseded(outbox, S), NewRow("sales", e, KeyOf(j), job[j].text))
      BY <2>2 DEF ensure_outbox
    <3>4. outbox'[n].text[1] = job[j].text[1] /\ job[j].text[1] = sales[e]
      <4>1. PICK S : outbox' = Append(Superseded(outbox, S), NewRow("sales", e, KeyOf(j), job[j].text))
        BY <3>3
      <4>2. outbox'[n].text = job[j].text BY <2>2, <4>1, AddedRow
      <4> QED BY <2>2, <4>2 DEF FiguresRise
    <3>5. n \in SalesReports(outbox', d) => d = e BY <2>2 DEF Adds, SalesReports, OfDay
    <3>6. ASSUME NEW x \in SalesReports(outbox, e), e \in Days PROVE outbox[x].text[1] # sales[e]
      <4>1. x \in DOMAIN outbox /\ outbox[x].day = e BY <3>6 DEF SalesReports, OfDay
      <4>2. outbox[x].key = SalesKey(e, outbox[x].text[1]) BY <4>1, FiguresOfRows
      <4>3. KeyOf(j) = SalesKey(e, sales[e]) BY <2>2, <3>4 DEF KeyOf
      <4> QED BY <3>3, <4>1, <4>2, <4>3 DEF WithKey
    <3>7. CASE i = n
      <4>1. d = e /\ outbox'[i].text[1] = sales'[d] BY <1>5, <3>3, <3>4, <3>5, <3>7
      <4>2. sales'[d] \in Nat BY SalesRise
      <4>3. \A k \in SalesReports(outbox', d) : ~ (i < k)
        <5>1. \A k \in SalesReports(outbox, d) : k \in DOMAIN outbox BY DEF SalesReports, OfDay
        <5> QED BY <1>2, <3>1, <3>7, <5>1
      <4> QED BY <4>1, <4>2, <4>3
    <3>8. CASE i \in SalesReports(outbox, d)
      <4>1. i \in DOMAIN outbox BY <3>8 DEF SalesReports, OfDay
      <4>2. ASSUME NEW k \in SalesReports(outbox', d), i < k
            PROVE  outbox'[i].text[1] < outbox'[k].text[1] /\ outbox'[i].status # "pending"
        <5>1. CASE k \in SalesReports(outbox, d)
          <6>1. outbox[i].text[1] < outbox[k].text[1] /\ outbox[i].status # "pending"
            BY <3>8, <4>2, <5>1 DEF FiguresRise
          <6> QED BY <1>3, <3>2, <3>8, <4>1, <5>1, <6>1
        <5>2. CASE k = n
          <6>1. d = e BY <3>5, <4>2, <5>2
          <6>2. outbox'[k].text[1] = sales[d] BY <3>4, <5>2, <6>1
          <6>3. outbox[i].text[1] # sales[d] /\ outbox[i].text[1] <= sales[d] /\ outbox[i].text[1] \in Nat
            BY <1>3, <3>6, <3>8, <6>1
          <6>4. sales[d] \in Nat BY <3>3, SalesRise
          <6>5. outbox[i].status = "pending" => i \in rows
            BY <2>2, <3>8, <6>1 DEF PendingIsKnown, PendingReports, MaySupersede
          <6>6. outbox'[i].text[1] = outbox[i].text[1] BY <1>3, <3>8
          <6> QED BY <3>2, <4>1, <6>2, <6>3, <6>4, <6>5, <6>6
        <5> QED BY <3>1, <4>2, <5>1, <5>2
      <4> QED BY <1>3, <3>8, <4>2
    <3> QED BY <1>5, <3>1, <3>7, <3>8
  <2> QED BY <1>1, <2>1, <2>2 DEF OutboxSteps
<1>6. \A j \in Jobs : Step(j)' = "commit" => job'[j].text[1] = sales'[job'[j].day]
  BY AboutToWrite
<1> QED BY <1>5, <1>6, SalesRise DEF FiguresRise

\* Without rebuilds, and while iiko's figures only rise, no outdated report waits: a
\* report waits for its first delivery with the figures last imported for its day,
\* unless that import was never to be published.
THEOREM WaitingReportIsCurrent ==
    ASSUME "rebuild" \notin ManualModes, ~ Recurring
    PROVE  Spec => []PendingIsCurrent
<1>1. Init => PendingIsKnown BY DEF Init, PendingIsKnown, PendingReports, SalesReports, OfDay, NoJob, Step
<1>2. AutoInv /\ PendingIsKnown /\ [Next]_vars => PendingIsKnown'
  <2>1. ASSUME AutoInv, PendingIsKnown, Next PROVE PendingIsKnown' BY <2>1, PendingIsKnownStep
  <2>2. ASSUME PendingIsKnown, UNCHANGED vars PROVE PendingIsKnown'
    BY <2>2 DEF vars, PendingIsKnown, PendingReports, Step
  <2> QED BY <2>1, <2>2
<1>3. Init => FiguresRise
  <2> SUFFICES ASSUME Init PROVE FiguresRise OBVIOUS
  <2>1. \A d \in Days : sales[d] = 0 /\ iiko[d] \in Nat
    <3>1. Min(Figures) \in Figures BY SalesAutomationAssumption, MinIsMember
    <3> QED BY <3>1, SalesAutomationAssumption DEF Init, None
  <2>2. \A d \in Days : sales[d] <= iiko[d] BY <2>1
  <2>3. (\A d \in Days : SalesReports(outbox, d) = {}) /\ \A j \in Jobs : Step(j) = "idle"
    BY DEF Init, SalesReports, OfDay, NoJob, Step
  <2> QED BY <2>2, <2>3 DEF FiguresRise
<1>4. AutoInv /\ PendingIsKnown /\ FiguresRise /\ [Next]_vars => FiguresRise'
  <2>1. ASSUME AutoInv, PendingIsKnown, FiguresRise, Next PROVE FiguresRise' BY <2>1, FiguresRiseStep
  <2>2. ASSUME FiguresRise, UNCHANGED vars PROVE FiguresRise'
    BY <2>2 DEF vars, FiguresRise, Step
  <2> QED BY <2>1, <2>2
<1>5. AutoInv /\ FiguresRise => PendingIsCurrent
  <2> SUFFICES ASSUME AutoInv, FiguresRise, NEW d \in Days, NEW i \in PendingReports(d),
                      NEW k \in WithKey(outbox, SalesKey(d, sales[d]))
               PROVE  outbox[i].text[1] = sales[d]
    BY DEF PendingIsCurrent
  <2>1. k \in DOMAIN outbox /\ i \in DOMAIN outbox /\ i \in SalesReports(outbox, d) /\ outbox[i].status = "pending"
    BY DEF WithKey, PendingReports, SalesReports, OfDay
  <2>2. outbox[k].key = SalesKey(d, sales[d]) BY DEF WithKey
  <2>3. k \in SalesReports(outbox, d)
    <3>1. OutboxOK BY AutoParts
    <3> QED BY <2>1, <2>2, <3>1, RowOfKey
  <2>4. outbox[k].text[1] = sales[d]
    <3>1. outbox[k].key = SalesKey(outbox[k].day, outbox[k].text[1]) BY <2>1, FiguresOfRows
    <3> QED BY <2>2, <3>1 DEF SalesKey
  <2>5. i \in Nat /\ k \in Nat BY <2>1, RowsAre
  <2>6. ~ (i < k) BY <2>1, <2>3 DEF FiguresRise
  <2>7. ~ (k < i)
    <3>1. k < i => outbox[k].text[1] < outbox[i].text[1] BY <2>1, <2>3 DEF FiguresRise
    <3>2. outbox[i].text[1] <= sales[d] BY <2>1 DEF FiguresRise
    <3>3. outbox[i].text[1] \in Nat /\ outbox[k].text[1] \in Nat BY <2>1, FiguresOfRows
    <3> QED BY <2>4, <3>1, <3>2, <3>3
  <2> QED BY <2>4, <2>5, <2>6, <2>7
<1> QED BY AutoInvariant, <1>1, <1>2, <1>3, <1>4, <1>5, PTL DEF Spec

-----------------------------------------------------------------------------
(* While no run passes midnight: done means imported *)

\* The timer's run is of the day before, and so is what it records.
LEMMA RunsAreOfTodayStep ==
    ASSUME AutoInv, RunsAreOfToday, Next, ~ RunsPassMidnight
    PROVE  RunsAreOfToday'
<1>1. (\A j \in Jobs : JobInv(j)) /\ CountsOK /\ RecordsAreTrue BY AutoParts
<1>2. Kept BY OutboxStep
<1>3. \/ today' = today
      \/ today' = today + 1 /\ job' = job /\ completed' = completed
         /\ \A j \in Jobs : job[j].mode # "due"
  <2>1. CASE MidnightPasses
    <3>1. /\ today' = today + 1 /\ job' = job /\ completed' = completed
          /\ \A j \in Jobs : Step(j) = "idle"
      BY <2>1 DEF MidnightPasses
    <3> QED BY <1>1, <3>1 DEF JobInv, BackfillIsTrue
  <2>2. CASE MorningComes \/ FiguresChange \/ OtherLocks \/ OtherUnlocks \/ SenderMarks
    BY <2>2 DEF MorningComes, FiguresChange, OtherLocks, OtherUnlocks, SenderMarks
  <2>3. CASE ManualRun BY <2>3 DEF ManualRun
  <2>4. CASE run_due BY <2>4 DEF run_due
  <2>5. ASSUME NEW j \in Jobs, JobStep(j) \/ ImportFails(j) \/ JobCrashes(j)
        PROVE  today' = today
    <3>1. CASE ListDays(j) \/ run_date(j) \/ AlreadyRunning(j) \/ sync_day(j)
               \/ ImportFails(j) \/ JobCrashes(j)
      BY <3>1 DEF ListDays, run_date, AlreadyRunning, sync_day, ImportFails, JobCrashes
    <3>2. CASE EnsureReads(j) BY <3>2 DEF EnsureReads
    <3>3. CASE ensure_outbox(j) BY <3>3 DEF ensure_outbox
    <3>4. CASE KeyIsTaken(j) \/ rebuild_outbox(j) \/ FinishDay(j) \/ _merge_results(j)
      BY <3>4 DEF KeyIsTaken, rebuild_outbox, FinishDay, _merge_results
    <3> QED BY <2>5, <3>1, <3>2, <3>3, <3>4 DEF JobStep
  <2> QED BY <2>1, <2>2, <2>3, <2>4, <2>5 DEF Next, Environment
<1>4. ASSUME NEW j \in Jobs, job'[j].mode = "due"
      PROVE  job'[j].target = today' - 1 /\ (Step(j)' \in LockSteps => job'[j].on = today')
  <2>1. CASE job'[j] = job[j]
    BY <1>3, <1>4, <2>1 DEF RunsAreOfToday, Step
  <2>2. CASE run_due /\ j = "hourly"
    <3>1. today' = today BY <2>2 DEF run_due
    <3> QED BY <2>2, <3>1, RunDueJob, ShapeOfJobs DEF Step, LockSteps
  <2>3. CASE ManualRun /\ j = "manual"
    <3>1. today' = today BY <2>3 DEF ManualRun
    <3> QED BY <1>4, <2>3, <3>1, ManualRunJob, ShapeOfJobs DEF Step, LockSteps
  <2>4. CASE /\ JobStep(j) \/ ImportFails(j) \/ JobCrashes(j)
             /\ job'[j] # job[j]
    <3>1. ~ Ends(j) BY <1>4 DEF Ends, NoJob
    <3>2. /\ job[j].mode = "due" /\ job'[j].target = job[j].target
          /\ \/ job'[j].on = job[j].on /\ (Step(j) \in LockSteps \/ Step(j)' \notin LockSteps)
             \/ job'[j].on = today
             \/ Step(j)' = "days"
      BY <1>4, <2>4, <3>1, RunStays
    <3>3. today' = today BY <1>3, <3>2
    <3> QED BY <3>2, <3>3 DEF RunsAreOfToday, LockSteps
  <2> QED BY <2>1, <2>2, <2>3, <2>4, WhoMoves
<1>5. ASSUME NEW r \in completed'
      PROVE  r.on \in 2 .. today' /\ (sales'[r.on - 1] # None \/ r.on - 1 \in lockedOut')
  <2>1. CASE r \in completed
    <3>1. PICK d : d = r.on - 1 OBVIOUS
    <3>2. r.on \in 2 .. today /\ (Imported(d) \/ d \in lockedOut)
      BY <2>1, <3>1 DEF RunsAreOfToday
    <3>3. d \in Days /\ r.on \in 2 .. today'
      BY <1>1, <1>3, <3>1, <3>2, DaysAreNumbers DEF CountsOK
    <3> QED BY <1>2, <3>1, <3>2, <3>3 DEF Kept, Imported
  <2>2. CASE r \notin completed
    <3>1. PICK j \in Jobs : /\ job[j].mode = "due" /\ Settled(job[j].target)
                            /\ r.on = today \/ (Step(j) \in LockSteps /\ r.on = job[j].on)
      BY <1>5, <2>2, RecordStep
    <3>2. UNCHANGED <<today, sales, outbox, lockedOut>> BY <1>5, <2>2, RecordStep
    <3>3. r.on = today /\ job[j].target = today - 1 BY <3>1 DEF RunsAreOfToday
    <3>4. job[j].target \in Days BY <1>1, <3>1 DEF JobInv, BackfillIsTrue
    <3>5. today \in Nat /\ today >= 2 /\ r.on \in 2 .. today'
      BY <1>1, <3>2, <3>3, <3>4, DaysAreNumbers DEF CountsOK
    <3>6. PICK d : d = job[j].target OBVIOUS
    <3> QED BY <3>1, <3>2, <3>3, <3>5, <3>6 DEF Settled, Imported
  <2> QED BY <2>1, <2>2
<1> QED BY <1>4, <1>5 DEF RunsAreOfToday, Imported

\* While no run passes midnight, the timer is told "already_completed" only of a day
\* that is imported, or from which a run was turned away.
THEOREM DoneIsImported ==
    ASSUME ~ RunsPassMidnight
    PROVE  Spec => []DoneMeansImported
<1>1. Init => RunsAreOfToday BY DEF Init, RunsAreOfToday, NoJob
<1>2. AutoInv /\ RunsAreOfToday /\ [Next]_vars => RunsAreOfToday'
  <2>1. ASSUME AutoInv, RunsAreOfToday, Next PROVE RunsAreOfToday' BY <2>1, RunsAreOfTodayStep
  <2>2. ASSUME RunsAreOfToday, UNCHANGED vars PROVE RunsAreOfToday'
    BY <2>2 DEF vars, RunsAreOfToday, Step, Imported
  <2> QED BY <2>1, <2>2
<1>3. AutoInv /\ RunsAreOfToday => DoneMeansImported
  <2> SUFFICES ASSUME AutoInv, RunsAreOfToday, NEW r \in completed,
                      r.day = today - 1 \/ r.on = today, today > 1
               PROVE  sales[today - 1] # None \/ today - 1 \in lockedOut
    BY DEF DoneMeansImported, _successful_scheduled_run_exists
  <2>1. RecordsAreTrue /\ CountsOK BY AutoParts
  <2>2. CASE r.on = today BY <2>2 DEF RunsAreOfToday, Imported
  <2>3. CASE r.day = today - 1
    <3>1. PICK d : d = today - 1 OBVIOUS
    <3>2. d # None BY <3>1, <2>1, DaysAreNumbers DEF CountsOK, None
    <3>3. Imported(d) \/ d \in lockedOut
      BY <2>1, <2>3, <3>1, <3>2 DEF RecordsAreTrue, DoneAsTold
    <3> QED BY <3>1, <3>3 DEF Imported
  <2> QED BY <2>2, <2>3
<1> QED BY AutoInvariant, <1>1, <1>2, <1>3, PTL DEF Spec

-----------------------------------------------------------------------------
(* The reports keep ReportVersions *)

VersionsNow == [i \in DOMAIN outbox |-> Version(outbox[i])]
KnownDays   == {d \in Days : Imported(d)}
DoneDays    == {r.day : r \in completed} \ {None}
ExcusedDays == lockedOut \cup ({r.day : r \in {x \in completed : ~ x.publish}} \ {None})

VersionRows == [day : Days, figures : Figures, status : RowStatuses]

\* Rows and versions correspond one to one.
LEMMA VersionsAre ==
    ASSUME AutoInv
    PROVE  /\ VersionsNow \in Seq(VersionRows) /\ Len(VersionsNow) = Len(outbox)
           /\ DOMAIN VersionsNow = DOMAIN outbox
           /\ \A i \in DOMAIN outbox : VersionsNow[i] = Version(outbox[i])
           /\ \A d : /\ Promise!VersionsOf(d) = SalesReports(outbox, d)
                    /\ Promise!Waiting(d) = PendingReports(d)
<1>1. /\ DOMAIN outbox = 1 .. Len(outbox) /\ Len(outbox) \in Nat
      /\ \A i \in DOMAIN outbox : outbox[i] \in SalesRows /\ outbox[i].type = "sales"
  BY RowsAre
<1>2. \A i \in DOMAIN outbox : Version(outbox[i]) \in VersionRows
  <2>1. \A i \in DOMAIN outbox : outbox[i].text[1] \in Figures BY FiguresOfRows
  <2>2. \A i \in DOMAIN outbox : outbox[i].day \in Days /\ outbox[i].status \in RowStatuses
    BY <1>1 DEF SalesRows
  <2> QED BY <2>1, <2>2 DEF Version, VersionRows
<1>3. VersionsNow \in Seq(VersionRows) /\ Len(VersionsNow) = Len(outbox)
  BY <1>1, <1>2 DEF VersionsNow
<1>4. DOMAIN VersionsNow = DOMAIN outbox /\ \A i \in DOMAIN outbox : VersionsNow[i] = Version(outbox[i])
  BY DEF VersionsNow
<1>5. \A d : Promise!VersionsOf(d) = SalesReports(outbox, d)
  BY <1>1, <1>4 DEF Promise!VersionsOf, SalesReports, OfDay, Version, VersionsNow
<1>6. \A d : Promise!Waiting(d) = PendingReports(d)
  <2>1. \A d : SalesReports(outbox, d) \subseteq DOMAIN outbox BY DEF SalesReports, OfDay
  <2>2. \A i \in DOMAIN outbox : VersionsNow[i].status = outbox[i].status BY <1>4 DEF Version
  <2> QED BY <1>5, <2>1, <2>2 DEF Promise!Waiting, PendingReports, VersionsNow
<1> QED BY <1>3, <1>4, <1>5, <1>6

\* A step that marks nothing, or gives a row another comparison, changes no version.
LEMMA SameVersions ==
    ASSUME AutoInv, OutboxOK', Kept, DOMAIN outbox' = DOMAIN outbox,
           \A i \in DOMAIN outbox : outbox'[i].status = outbox[i].status
    PROVE  VersionsNow' = VersionsNow
<1>1. ASSUME NEW i \in DOMAIN outbox PROVE Version(outbox'[i]) = Version(outbox[i])
  <2>1. outbox'[i].day = outbox[i].day BY DEF Kept
  <2>2. outbox'[i].text[1] = outbox[i].text[1] BY FiguresStay
  <2> QED BY <2>1, <2>2 DEF Version
<1> QED BY <1>1 DEF VersionsNow

\* A row added is a version added.
LEMMA VersionAdded ==
    ASSUME AutoInv, OutboxOK', Kept, NEW d, NEW rows, Adds(d, rows),
           NEW f, outbox'[Len(outbox) + 1].text[1] = f
    PROVE  VersionsNow' =
             Append([i \in DOMAIN VersionsNow |->
                        IF i \in rows THEN [VersionsNow[i] EXCEPT !.status = "superseded"]
                        ELSE VersionsNow[i]],
                    [day |-> d, figures |-> f, status |-> "pending"])
<1> DEFINE n     == Len(outbox)
           older == [i \in DOMAIN VersionsNow |->
                       IF i \in rows THEN [VersionsNow[i] EXCEPT !.status = "superseded"]
                       ELSE VersionsNow[i]]
           new   == [day |-> d, figures |-> f, status |-> "pending"]
<1>1. /\ n \in Nat /\ DOMAIN outbox = 1 .. n /\ DOMAIN VersionsNow = 1 .. n
      /\ \A i \in 1 .. n : VersionsNow[i] = Version(outbox[i]) /\ VersionsNow[i] \in VersionRows
  BY RowsAre, VersionsAre
<1>2. DOMAIN outbox' = 1 .. n + 1 BY <1>1 DEF Adds
<1>3. DOMAIN VersionsNow' = 1 .. n + 1 /\ \A i \in 1 .. n + 1 : VersionsNow'[i] = Version(outbox'[i])
  BY <1>2 DEF VersionsNow
<1>4. Version(outbox'[n + 1]) = new BY DEF Adds, Version
<1>5. new \in VersionRows
  <2>1. outbox'[n + 1] \in SalesRows BY <1>1, <1>2 DEF OutboxOK
  <2>2. outbox'[n + 1].text \in Figures \X (Figures \cup {None}) /\ outbox'[n + 1].day \in Days
    BY <2>1 DEF SalesRows
  <2>3. f \in Figures /\ d \in Days BY <2>2 DEF Adds
  <2> QED BY <2>3 DEF VersionRows, RowStatuses
<1>6. ASSUME NEW i \in 1 .. n PROVE VersionsNow'[i] = older[i] /\ older[i] \in VersionRows
  <2>1. /\ outbox'[i].day = outbox[i].day
        /\ outbox'[i].status = IF i \in rows THEN "superseded" ELSE outbox[i].status
    BY <1>1 DEF Adds
  <2>2. outbox'[i].text[1] = outbox[i].text[1] BY <1>1, FiguresStay
  <2>3. i \in 1 .. n + 1 BY <1>1
  <2>4. older[i] = IF i \in rows THEN [VersionsNow[i] EXCEPT !.status = "superseded"] ELSE VersionsNow[i]
    BY <1>1
  <2>5. VersionsNow'[i] = Version(outbox'[i]) BY <1>3, <2>3
  <2> HIDE DEF older
  <2>6. VersionsNow[i] = Version(outbox[i]) /\ VersionsNow[i] \in VersionRows BY <1>1
  <2>7. VersionsNow'[i] = older[i]
    BY <2>1, <2>2, <2>4, <2>5, <2>6 DEF Version
  <2> QED BY <2>4, <2>6, <2>7 DEF VersionRows, RowStatuses
<1>7. older \in Seq(VersionRows) /\ Len(older) = n BY <1>1, <1>6
<1> HIDE DEF older, new
<1>8. /\ Append(older, new) \in Seq(VersionRows) /\ DOMAIN Append(older, new) = 1 .. n + 1
      /\ Append(older, new)[n + 1] = new /\ \A i \in 1 .. n : Append(older, new)[i] = older[i]
  BY <1>1, <1>5, <1>7
<1>9. \A i \in 1 .. n + 1 : VersionsNow'[i] = Append(older, new)[i]
  <2>1. \A i \in 1 .. n + 1 : i \in 1 .. n \/ i = n + 1 BY <1>1
  <2>2. n + 1 \in 1 .. n + 1 BY <1>1
  <2> QED BY <1>3, <1>4, <1>6, <1>8, <2>1, <2>2
<1>10. VersionsNow' = Append(older, new)
  <2>1. n + 1 \in Nat /\ Append(older, new) \in Seq(VersionRows) /\ Len(Append(older, new)) = n + 1
    BY <1>1, <1>5, <1>7
  <2>2. \A i \in 1 .. n + 1 : VersionsNow'[i] \in VersionRows
    BY <1>8, <1>9, <2>1, ElementOfSeq
  <2>3. VersionsNow' \in Seq(VersionRows) /\ Len(VersionsNow') = n + 1
    BY <1>2, <2>1, <2>2, <1>3 DEF VersionsNow
  <2> QED BY <1>9, <2>1, <2>3, SeqEqual
<1> QED BY <1>10 DEF older, new

\* At first nothing is known, written, done or excused.
LEMMA PromiseInit == Init => Promise!Init
<1> SUFFICES ASSUME Init PROVE Promise!Init OBVIOUS
<1>1. KnownDays = {} BY DEF Init, KnownDays, Imported
<1>2. DoneDays = {} /\ ExcusedDays = {} BY DEF Init, DoneDays, ExcusedDays
<1>3. VersionsNow = << >> BY DEF Init, VersionsNow
<1> QED BY <1>1, <1>2, <1>3 DEF Promise!Init, KnownDays, DoneDays, ExcusedDays, VersionsNow

\* Who is turned away, imports a day or ends it takes that step of the promise.
LEMMA PromiseOfDays ==
    ASSUME AutoInv, Next, NEW j \in Jobs,
           AlreadyRunning(j) \/ sync_day(j) \/ FinishDay(j) \/ _merge_results(j)
    PROVE  [Promise!Next]_(Promise!promiseVars)
<1> DEFINE goal == [Promise!Next]_(Promise!promiseVars)
<1>1. CountsOK /\ JobInv(j) BY AutoParts
<1>2. CASE AlreadyRunning(j)
  <2>1. PICK d : d = DayToDo(j).day OBVIOUS
  <2>2. d \in Days BY <1>1, <1>2, <2>1, DayToDoIsDay DEF AlreadyRunning
  <2>3. UNCHANGED <<sales, outbox, completed>> /\ lockedOut' = lockedOut \cup {d}
    BY <1>2, <2>1 DEF AlreadyRunning
  <2>4. Promise!TurnAway(d) BY <2>3 DEF Promise!TurnAway, Imported
  <2> QED BY <2>2, <2>4 DEF Promise!Next
<1>3. CASE sync_day(j)
  <2>1. PICK d : d = job[j].day OBVIOUS
  <2>2. d \in Days BY <1>1, <1>3, <2>1 DEF sync_day, JobInv, DayIsTrue, Step, LockSteps
  <2>3. UNCHANGED <<outbox, completed, lockedOut>> /\ sales' = [sales EXCEPT ![d] = iiko[d]]
    BY <1>3, <2>1 DEF sync_day, persist_report
  <2>4. iiko[d] # None BY <1>1, <2>2, SalesAutomationAssumption DEF CountsOK, None
  <2>5. KnownDays' = KnownDays \cup {d}
    BY <1>1, <2>2, <2>3, <2>4 DEF CountsOK, KnownDays, Imported
  <2>6. Promise!Learn(d) BY <2>3, <2>5 DEF Promise!Learn, KnownDays
  <2> QED BY <2>2, <2>6 DEF Promise!Next
<1>4. CASE FinishDay(j) \/ _merge_results(j)
  <2>1. UNCHANGED <<sales, outbox, lockedOut>>
        /\ \E r : completed' = completed \/ completed' = completed \cup {r}
    <3>1. CASE FinishDay(j) BY <3>1 DEF FinishDay
    <3>2. CASE _merge_results(j) BY <3>2 DEF _merge_results
    <3> QED BY <1>4, <3>1, <3>2
  <2>2. ASSUME DoneDays' = DoneDays, ExcusedDays' = ExcusedDays PROVE goal
    BY <2>1, <2>2 DEF Promise!promiseVars, DoneDays, ExcusedDays, Imported
  <2>3. PICK r : completed' = completed \/ completed' = completed \cup {r} BY <2>1
  <2>4. CASE completed' = completed BY <2>1, <2>2, <2>4 DEF DoneDays, ExcusedDays
  <2>5. CASE r \notin completed /\ completed' = completed \cup {r} /\ r.day # None
    <3>1. DoneAsTold(r.publish, r.day) \/ r.day \in lockedOut BY <2>5, RecordStep
    <3>2. r.day \in Days /\ r.publish \in BOOLEAN
      <4>1. completed' \subseteq [day : Days \cup {None}, on : Days, publish : BOOLEAN]
        BY CountsStep DEF CountsOK
      <4> QED BY <2>5, <4>1
    <3>3. DoneDays' = DoneDays \cup {r.day} BY <2>5 DEF DoneDays
    <3>4. CASE r.publish
      <4>1. ExcusedDays' = ExcusedDays BY <2>1, <2>5, <3>4 DEF ExcusedDays
      <4>2. Promise!VersionsOf(r.day) = SalesReports(outbox, r.day) BY VersionsAre
      <4>3. Promise!VersionsOf(r.day) # {} \/ r.day \in ExcusedDays
        BY <3>1, <3>4, <4>2 DEF DoneAsTold, Reported, ExcusedDays
      <4>4. Promise!Finish(r.day)
        BY <2>1, <3>3, <4>1, <4>3 DEF Promise!Finish, DoneDays, ExcusedDays, Imported
      <4> QED BY <3>2, <4>4 DEF Promise!Next
    <3>5. CASE ~ r.publish
      <4>1. ExcusedDays' = ExcusedDays \cup {r.day} BY <2>1, <2>5, <3>5 DEF ExcusedDays
      <4>2. Promise!Forgo(r.day)
        BY <2>1, <3>3, <4>1 DEF Promise!Forgo, DoneDays, ExcusedDays, Imported
      <4> QED BY <3>2, <4>2 DEF Promise!Next
    <3> QED BY <3>2, <3>4, <3>5
  <2>6. CASE completed' = completed \cup {r} /\ (r \in completed \/ r.day = None)
    <3>1. DoneDays' = DoneDays BY <2>6 DEF DoneDays
    <3>2. ExcusedDays' = ExcusedDays BY <2>1, <2>6 DEF ExcusedDays
    <3> QED BY <2>2, <3>1, <3>2
  <2> QED BY <2>3, <2>4, <2>5, <2>6
<1> QED BY <1>2, <1>3, <1>4

\* What is done to the outbox is writing or concluding a version, or none of these.
LEMMA PromiseOfRows ==
    ASSUME AutoInv, Next, SenderMarks \/ \E j \in Jobs : ensure_outbox(j)
    PROVE  [Promise!Next]_(Promise!promiseVars)
<1> DEFINE goal == [Promise!Next]_(Promise!promiseVars)
<1>1. OutboxOK' /\ Kept BY OutboxStep
<1>2. UNCHANGED <<sales, completed, lockedOut>> BY DEF SenderMarks, ensure_outbox
<1>3. ASSUME VersionsNow' = VersionsNow PROVE goal
  BY <1>2, <1>3 DEF Promise!promiseVars, VersionsNow, Imported
<1>4. ASSUME DOMAIN outbox' = DOMAIN outbox,
             \A i \in DOMAIN outbox : outbox'[i].status = outbox[i].status
      PROVE  goal
  BY <1>1, <1>3, <1>4, SameVersions
<1>5. CASE SenderMarks
  <2>1. PICK i \in DOMAIN outbox, t \in {"delivered", "failed"} :
          outbox[i].status # "delivered" /\ outbox' = [outbox EXCEPT ![i].status = t]
    BY <1>5 DEF SenderMarks
  <2>2. outbox[i] \in SalesRows /\ i \in DOMAIN VersionsNow
    BY <2>1, RowsAre, VersionsAre
  <2>3. VersionsNow' = [VersionsNow EXCEPT ![i].status = t]
    <3>1. DOMAIN outbox' = DOMAIN outbox /\ outbox'[i] = [outbox[i] EXCEPT !.status = t]
          /\ \A k \in DOMAIN outbox : k # i => outbox'[k] = outbox[k]
      BY <2>1
    <3>2. Version(outbox'[i]) = [Version(outbox[i]) EXCEPT !.status = t]
      BY <2>2, <3>1 DEF Version, SalesRows
    <3> HIDE DEF Version
    <3> QED BY <3>1, <3>2 DEF VersionsNow
  <2>4. VersionsNow[i].status = outbox[i].status BY <2>1, VersionsAre DEF Version
  <2>5. Promise!Conclude(i)
    BY <1>2, <2>1, <2>3, <2>4 DEF Promise!Conclude, VersionsNow, Imported
  <2> QED BY <2>2, <2>5 DEF Promise!Next, VersionsNow
<1>6. ASSUME NEW j \in Jobs, ensure_outbox(j) PROVE goal
  <2>1. PICK b : b = job[j] OBVIOUS
  <2>2. /\ b.step = "commit" /\ JobInv(j) BY <1>6, <2>1, AutoParts DEF ensure_outbox, Step
  <2>3. /\ b.day \in Days /\ Imported(b.day) /\ b.text[1] \in Figures
        /\ b.row # None => b.row \in DOMAIN outbox
    BY <2>1, <2>2 DEF JobInv, DayIsTrue, Step, LockSteps
  <2>4. CASE b.row # None
    <3>1. outbox' = outbox \/ outbox' = [outbox EXCEPT ![b.row].text = b.text]
      BY <1>6, <2>1, <2>4 DEF ensure_outbox
    <3>2. outbox[b.row] \in SalesRows BY <2>3, <2>4, RowsAre
    <3>3. DOMAIN outbox' = DOMAIN outbox
          /\ \A i \in DOMAIN outbox : outbox'[i].status = outbox[i].status
      BY <3>1, <3>2 DEF SalesRows
    <3> QED BY <1>4, <3>3
  <2>5. CASE b.row = None
    <3>1. PICK rows \in SUBSET PendingReports(b.day) :
            outbox' = Append(Superseded(outbox, rows), NewRow("sales", b.day, KeyOf(j), b.text))
      BY <1>6, <2>1, <2>5 DEF ensure_outbox
    <3>2. WithKey(outbox, KeyOf(j)) = {} BY <1>6, <2>1, <2>5 DEF ensure_outbox
    <3>3. KeyOf(j) = SalesKey(b.day, b.text[1]) BY <2>1 DEF KeyOf
    <3>4. Adds(b.day, rows)
      <4>1. b.text \in Figures \X (Figures \cup {None})
        BY <2>1, <2>2 DEF JobInv, DayIsTrue, Step
      <4>2. OutboxOK BY AutoParts
      <4> QED BY <2>3, <3>1, <3>3, <4>1, <4>2, AddRows
    <3>5. outbox'[Len(outbox) + 1].text[1] = b.text[1] BY <2>1, <3>1, AddedRow
    <3>6. VersionsNow' =
            Append([i \in DOMAIN VersionsNow |->
                       IF i \in rows THEN [VersionsNow[i] EXCEPT !.status = "superseded"]
                       ELSE VersionsNow[i]],
                   [day |-> b.day, figures |-> b.text[1], status |-> "pending"])
      BY <1>1, <3>4, <3>5, VersionAdded
    <3>7. \A i \in SalesReports(outbox, b.day) : VersionsNow[i].figures # b.text[1]
      <4>1. ASSUME NEW i \in SalesReports(outbox, b.day) PROVE outbox[i].text[1] # b.text[1]
        <5>1. i \in DOMAIN outbox /\ outbox[i].day = b.day BY DEF SalesReports, OfDay
        <5>2. outbox[i].key = SalesKey(b.day, outbox[i].text[1]) BY <5>1, FiguresOfRows
        <5> QED BY <3>2, <3>3, <5>1, <5>2 DEF WithKey
      <4>2. SalesReports(outbox, b.day) \subseteq DOMAIN outbox BY DEF SalesReports, OfDay
      <4> QED BY <4>1, <4>2, VersionsAre DEF Version
    <3>8. b.day \in KnownDays BY <2>3 DEF KnownDays
    <3>9. Promise!Waiting(b.day) = PendingReports(b.day)
          /\ Promise!VersionsOf(b.day) = SalesReports(outbox, b.day)
      BY VersionsAre
    <3>10. Promise!Write(b.day)
      <4>1. rows \in SUBSET Promise!Waiting(b.day) BY <3>1, <3>9
      <4>2. \A i \in Promise!VersionsOf(b.day) : VersionsNow[i].figures # b.text[1] BY <3>7, <3>9
      <4>3. KnownDays' = KnownDays /\ DoneDays' = DoneDays /\ ExcusedDays' = ExcusedDays
        BY <1>2 DEF KnownDays, DoneDays, ExcusedDays, Imported
      <4> QED BY <2>3, <3>6, <3>8, <4>1, <4>2, <4>3, ZenonT(60)
              DEF Promise!Write, VersionsNow, KnownDays, DoneDays, ExcusedDays
    <3> QED BY <2>3, <3>10 DEF Promise!Next
  <2> QED BY <2>4, <2>5
<1> QED BY <1>5, <1>6

\* Every step is one of the promise, or none.
LEMMA PromiseStep ==
    ASSUME AutoInv, [Next]_vars
    PROVE  [Promise!Next]_(Promise!promiseVars)
<1> DEFINE goal == [Promise!Next]_(Promise!promiseVars)
<1>1. ASSUME UNCHANGED <<sales, outbox, completed, lockedOut>> PROVE goal
  BY <1>1 DEF Promise!promiseVars, Imported
<1>2. CASE UNCHANGED vars BY <1>1, <1>2 DEF vars
<1>3. CASE MidnightPasses \/ MorningComes \/ FiguresChange \/ OtherLocks \/ OtherUnlocks
  BY <1>1, <1>3 DEF MidnightPasses, MorningComes, FiguresChange, OtherLocks, OtherUnlocks
<1>4. CASE Next /\ SenderMarks BY <1>4, PromiseOfRows
<1>5. CASE ManualRun
  <2>1. UNCHANGED <<sales, outbox, completed, lockedOut>> BY <1>5 DEF ManualRun
  <2> QED BY <1>1, <2>1
<1>6. CASE run_due
  <2>1. UNCHANGED <<sales, outbox, completed, lockedOut>> BY <1>6 DEF run_due
  <2> QED BY <1>1, <2>1
<1>7. ASSUME Next, NEW j \in Jobs, JobStep(j) \/ ImportFails(j) \/ JobCrashes(j)
      PROVE  goal
  <2>1. CASE ListDays(j) \/ EnsureReads(j) \/ KeyIsTaken(j) \/ rebuild_outbox(j)
             \/ ImportFails(j) \/ JobCrashes(j)
    BY <1>1, <2>1 DEF ListDays, EnsureReads, KeyIsTaken, rebuild_outbox, ImportFails, JobCrashes
  <2>2. CASE run_date(j) BY <1>1, <2>2 DEF run_date
  <2>3. CASE AlreadyRunning(j) \/ sync_day(j) \/ FinishDay(j) \/ _merge_results(j)
    BY <1>7, <2>3, PromiseOfDays
  <2>4. CASE ensure_outbox(j) BY <1>7, <2>4, PromiseOfRows
  <2> QED BY <1>7, <2>1, <2>2, <2>3, <2>4 DEF JobStep
<1> QED BY <1>2, <1>3, <1>4, <1>5, <1>6, <1>7 DEF Next, Environment

\* The automation keeps ReportVersions: whatever operators run beside the timer,
\* rebuilds without the lock included, and wherever a process ends, a report is new to
\* its day and withdraws only what waits there, delivered reports stay, and a day that
\* counts as done has a report or is one a run was turned away from or was told to
\* leave without one.
THEOREM AutomationKeepsPromise == Spec => KeepsPromise
<1>1. Init => Promise!Init BY PromiseInit
<1>2. AutoInv /\ [Next]_vars => [Promise!Next]_(Promise!promiseVars) BY PromiseStep
<1> QED BY <1>1, <1>2, AutoInvariant, PTL DEF Spec, KeepsPromise, Promise!Spec
=============================================================================
