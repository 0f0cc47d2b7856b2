--------------------------- MODULE DailyCoo_proofs ---------------------------
(***************************************************************************)
(* Proofs about DailyCoo, for any number of days, any figures and any      *)
(* bounds on faults, changes and runs by hand.                             *)
(***************************************************************************)
EXTENDS DailyCoo, Outbox_proofs

-----------------------------------------------------------------------------
(* Numbers *)

\* Local dates are the numbers up to some number.
LEMMA DaysAreNumbers ==
    /\ Cardinality(Days) \in Nat /\ Days = 1 .. Cardinality(Days)
    /\ 1 \in Days /\ None \notin Days
BY DailyCooAssumption, FS_CardinalityType DEF None

-----------------------------------------------------------------------------
(* Types *)

\* Bounds are numbers.
LEMMA BoundsAreNumbers ==
    /\ MaxFaults \in Nat /\ MaxChanges \in Nat /\ MaxManualRuns \in Nat
    /\ CoreAttempts \in Nat \ {0} /\ StartLimit \in Nat \ {0}
BY DailyCooAssumption

\* A sender run by hand touches the outbox, its own variables and the count of faults.
LEMMA HandSenderElsewhere ==
    ASSUME HandSender
    PROVE  /\ UNCHANGED <<today, iiko, sales, lock, unitVars, changes, manualRuns>>
           /\ faults' = faults \/ MayFail
BY DEF HandSender, HandSenderStarts, HandSenderRegisters, HandSenderConcludes, HandSenderEnds, unitVars

\* TypeOK in four parts: what is counted and booked, what each unit works on,
\* where the units are, and the sender run by hand; the outbox comes later.
CountsOK ==
    /\ today \in Days /\ faults \in 0 .. MaxFaults /\ changes \in 0 .. MaxChanges
    /\ manualRuns \in 0 .. MaxManualRuns
    /\ iiko \in [Days -> Figures] /\ sales \in [Days -> Figures \cup {None}]
    /\ attempt \in [Units -> 0 .. CoreAttempts] /\ starts \in [Units -> 0 .. StartLimit]

WorkOK ==
    /\ day \in [Units -> Days \cup {None}] /\ due \in [Units -> Days \cup {None}]
    /\ given \in [Units -> Days \cup {None}] /\ fired \in [Units -> Days \cup {None}]
    /\ result \in [Units -> Results]

PlacesOK ==
    /\ lock \in Units \cup {"free", "other"}
    /\ step \in [Units -> WrapperSteps \cup {"off", "wait", "done"}]
    /\ \A u \in Units : step[u] \in JobSteps <=> lock = u
    /\ \A u, v \in Units : {step[u], step[v]} \subseteq WrapperSteps => u = v

HandOK ==
    /\ handRows \subseteq DOMAIN outbox /\ handRow \in DOMAIN outbox \cup {None}
    /\ handRow # None => outbox[handRow].registered
    /\ SenderIsShared \/ (SenderIsFree /\ ~ overtaken)
    /\ overtaken \in BOOLEAN /\ (overtaken => step["closeout"] = "upsert")

\* Counters stay within their bounds.
LEMMA CountsStep ==
    ASSUME CountsOK, [Next]_vars
    PROVE  CountsOK'
<1> USE BoundsAreNumbers DEF CountsOK, unitVars, MayFail
<1>1. CASE MidnightPasses
  BY <1>1 DEF MidnightPasses
<1>2. CASE FiguresChange
  BY <1>2, DaysAreNumbers DEF FiguresChange
<1>3. CASE OtherLocks
  BY <1>3 DEF OtherLocks
<1>4. CASE OtherUnlocks
  BY <1>4 DEF OtherUnlocks
<1>5. ASSUME NEW u \in Units, TimerFires(u) PROVE CountsOK'
  BY <1>5 DEF TimerFires
<1>6. ASSUME NEW u \in Units, ManualRun(u) PROVE CountsOK'
  BY <1>6 DEF ManualRun
<1>7. ASSUME NEW u \in Units, TakeWrapperLock(u) PROVE CountsOK'
  BY <1>7 DEF TakeWrapperLock
<1>8. ASSUME NEW u \in Units, AlreadyRunning(u) PROVE CountsOK'
  BY <1>8 DEF AlreadyRunning, UnitFails
<1>9. ASSUME NEW u \in Units, StartJob(u) PROVE CountsOK'
  BY <1>9 DEF StartJob, daily_coo_business_date
<1>10. ASSUME NEW u \in Units, Import(u) PROVE CountsOK'
  BY <1>10 DEF Import, sync_day
<1>11. ASSUME NEW u \in Units, _sales_outbox_is_mutable(u) PROVE CountsOK'
  BY <1>11 DEF _sales_outbox_is_mutable
<1>30. ASSUME NEW u \in Units, _upsert_sales_outbox(u) PROVE CountsOK'
  BY <1>30 DEF _upsert_sales_outbox
<1>31. CASE HandSender
  BY <1>31, HandSenderElsewhere
<1>12. ASSUME NEW u \in Units, Reconcile(u) PROVE CountsOK'
  BY <1>12 DEF Reconcile
<1>13. ASSUME NEW u \in Units, _ensure_alert_outbox(u) PROVE CountsOK'
  BY <1>13 DEF _ensure_alert_outbox
<1>14. ASSUME NEW u \in Units, FinishJob(u) PROVE CountsOK'
  BY <1>14 DEF FinishJob
<1>15. ASSUME NEW u \in Units, SenderDelivers(u) PROVE CountsOK'
  BY <1>15 DEF SenderDelivers, WrapperExits, UnitFails
<1>16. ASSUME NEW u \in Units, WrapperLockTimesOut(u) PROVE CountsOK'
  BY <1>16 DEF WrapperLockTimesOut, UnitFails
<1>17. ASSUME NEW u \in Units, ImportFails(u) PROVE CountsOK'
  BY <1>17 DEF ImportFails, sync_day
<1>18. ASSUME NEW u \in Units, JobRaises(u) PROVE CountsOK'
  BY <1>18 DEF JobRaises
<1>19. ASSUME NEW u \in Units, JobCrashes(u) PROVE CountsOK'
  BY <1>19 DEF JobCrashes, UnitFails
<1>20. ASSUME NEW u \in Units, SenderFails(u) PROVE CountsOK'
  BY <1>20 DEF SenderFails, WrapperExits, UnitFails
<1>21. ASSUME NEW u \in Units, SenderIsLocked(u) PROVE CountsOK'
  BY <1>21 DEF SenderIsLocked, WrapperExits, UnitFails
<1>22. CASE UNCHANGED vars
  BY <1>22 DEF vars
<1> QED
  BY <1>1, <1>2, <1>3, <1>4, <1>5, <1>6, <1>7, <1>8, <1>9, <1>10, <1>11, <1>12, <1>13,
     <1>14, <1>15, <1>16, <1>17, <1>18, <1>19, <1>20, <1>21, <1>22, <1>30, <1>31
     DEF Next, Environment, UnitStep, UnitFault

\* The business date is a date, or the day before the first one.
LEMMA DateIsDay ==
    ASSUME NEW u \in Units, today \in Days, given \in [Units -> Days \cup {None}]
    PROVE  /\ daily_coo_business_date(u) \in Days \cup {None}
           /\ daily_coo_business_date(u) = None => u = "reconcile" /\ given[u] = None /\ today = 1
           /\ given[u] = None => daily_coo_business_date(u) = IF u = "closeout" THEN today ELSE today - 1
<1> USE DaysAreNumbers DEF None, Units
<1>1. today \in Nat /\ today >= 1 /\ (today # 1 => today - 1 \in Days)
  OBVIOUS
<1>2. CASE given[u] # None
  BY <1>2 DEF daily_coo_business_date
<1>3. CASE given[u] = None /\ u = "closeout"
  <2>1. daily_coo_business_date(u) = today
    BY <1>3 DEF daily_coo_business_date
  <2> QED
    BY <1>3, <2>1
<1>4. CASE given[u] = None /\ u = "reconcile"
  <2>1. daily_coo_business_date(u) = today - 1
    BY <1>4 DEF daily_coo_business_date
  <2> QED
    BY <1>1, <1>4, <2>1
<1> QED
  BY <1>2, <1>3, <1>4

\* Units work on dates, and end with a known result.
LEMMA WorkStep ==
    ASSUME WorkOK, today \in Days, [Next]_vars
    PROVE  WorkOK'
<1> USE DaysAreNumbers DEF WorkOK, unitVars, None, Results, Good, Errors
<1>1. CASE MidnightPasses
  BY <1>1 DEF MidnightPasses
<1>2. CASE FiguresChange
  BY <1>2 DEF FiguresChange
<1>3. CASE OtherLocks
  BY <1>3 DEF OtherLocks
<1>4. CASE OtherUnlocks
  BY <1>4 DEF OtherUnlocks
<1>5. ASSUME NEW u \in Units, TimerFires(u) PROVE WorkOK'
  BY <1>5 DEF TimerFires
<1>6. ASSUME NEW u \in Units, ManualRun(u) PROVE WorkOK'
  BY <1>6 DEF ManualRun
<1>7. ASSUME NEW u \in Units, TakeWrapperLock(u) PROVE WorkOK'
  BY <1>7 DEF TakeWrapperLock
<1>8. ASSUME NEW u \in Units, AlreadyRunning(u) PROVE WorkOK'
  BY <1>8 DEF AlreadyRunning, UnitFails
<1>9. ASSUME NEW u \in Units, StartJob(u) PROVE WorkOK'
  <2>1. daily_coo_business_date(u) \in Days \cup {None}
    BY DateIsDay
  <2> QED
    BY <1>9, <2>1 DEF StartJob
<1>10. ASSUME NEW u \in Units, Import(u) PROVE WorkOK'
  BY <1>10 DEF Import
<1>11. ASSUME NEW u \in Units, _sales_outbox_is_mutable(u) PROVE WorkOK'
  BY <1>11 DEF _sales_outbox_is_mutable
<1>30. ASSUME NEW u \in Units, _upsert_sales_outbox(u) PROVE WorkOK'
  BY <1>30 DEF _upsert_sales_outbox
<1>31. CASE HandSender
  BY <1>31, HandSenderElsewhere
<1>12. ASSUME NEW u \in Units, Reconcile(u) PROVE WorkOK'
  BY <1>12 DEF Reconcile
<1>13. ASSUME NEW u \in Units, _ensure_alert_outbox(u) PROVE WorkOK'
  BY <1>13 DEF _ensure_alert_outbox
<1>14. ASSUME NEW u \in Units, FinishJob(u) PROVE WorkOK'
  BY <1>14 DEF FinishJob
<1>15. ASSUME NEW u \in Units, SenderDelivers(u) PROVE WorkOK'
  BY <1>15 DEF SenderDelivers, WrapperExits, UnitFails
<1>16. ASSUME NEW u \in Units, WrapperLockTimesOut(u) PROVE WorkOK'
  BY <1>16 DEF WrapperLockTimesOut, UnitFails
<1>17. ASSUME NEW u \in Units, ImportFails(u) PROVE WorkOK'
  BY <1>17 DEF ImportFails
<1>18. ASSUME NEW u \in Units, JobRaises(u) PROVE WorkOK'
  BY <1>18 DEF JobRaises
<1>19. ASSUME NEW u \in Units, JobCrashes(u) PROVE WorkOK'
  BY <1>19 DEF JobCrashes, UnitFails
<1>20. ASSUME NEW u \in Units, SenderFails(u) PROVE WorkOK'
  BY <1>20 DEF SenderFails, WrapperExits, UnitFails
<1>21. ASSUME NEW u \in Units, SenderIsLocked(u) PROVE WorkOK'
  BY <1>21 DEF SenderIsLocked, WrapperExits, UnitFails
<1>22. CASE UNCHANGED vars
  BY <1>22 DEF vars
<1> QED
  BY <1>1, <1>2, <1>3, <1>4, <1>5, <1>6, <1>7, <1>8, <1>9, <1>10, <1>11, <1>12, <1>13,
     <1>14, <1>15, <1>16, <1>17, <1>18, <1>19, <1>20, <1>21, <1>22, <1>30, <1>31
     DEF Next, Environment, UnitStep, UnitFault

\* One unit at most holds the wrapper's lock, and the advisory lock is its holder's.
LEMMA PlacesStep ==
    ASSUME PlacesOK, [Next]_vars
    PROVE  PlacesOK'
<1> USE DEF PlacesOK, unitVars, Go, Units, JobSteps, WrapperSteps, Idle
<1>1. CASE MidnightPasses
  BY <1>1 DEF MidnightPasses
<1>2. CASE FiguresChange
  BY <1>2 DEF FiguresChange
<1>3. CASE OtherLocks
  BY <1>3 DEF OtherLocks
<1>4. CASE OtherUnlocks
  BY <1>4 DEF OtherUnlocks
<1>5. ASSUME NEW u \in Units, TimerFires(u) PROVE PlacesOK'
  BY <1>5 DEF TimerFires
<1>6. ASSUME NEW u \in Units, ManualRun(u) PROVE PlacesOK'
  BY <1>6 DEF ManualRun
<1>7. ASSUME NEW u \in Units, TakeWrapperLock(u) PROVE PlacesOK'
  BY <1>7 DEF TakeWrapperLock
<1>8. ASSUME NEW u \in Units, AlreadyRunning(u) PROVE PlacesOK'
  BY <1>8 DEF AlreadyRunning, UnitFails
<1>9. ASSUME NEW u \in Units, StartJob(u) PROVE PlacesOK'
  BY <1>9 DEF StartJob, daily_coo_business_date
<1>10. ASSUME NEW u \in Units, Import(u) PROVE PlacesOK'
  BY <1>10 DEF Import
<1>11. ASSUME NEW u \in Units, _sales_outbox_is_mutable(u) PROVE PlacesOK'
  BY <1>11 DEF _sales_outbox_is_mutable
<1>30. ASSUME NEW u \in Units, _upsert_sales_outbox(u) PROVE PlacesOK'
  BY <1>30 DEF _upsert_sales_outbox
<1>31. CASE HandSender
  BY <1>31, HandSenderElsewhere
<1>12. ASSUME NEW u \in Units, Reconcile(u) PROVE PlacesOK'
  BY <1>12 DEF Reconcile
<1>13. ASSUME NEW u \in Units, _ensure_alert_outbox(u) PROVE PlacesOK'
  BY <1>13 DEF _ensure_alert_outbox
<1>14. ASSUME NEW u \in Units, FinishJob(u) PROVE PlacesOK'
  BY <1>14 DEF FinishJob
<1>15. ASSUME NEW u \in Units, SenderDelivers(u) PROVE PlacesOK'
  BY <1>15 DEF SenderDelivers, WrapperExits, UnitFails
<1>16. ASSUME NEW u \in Units, WrapperLockTimesOut(u) PROVE PlacesOK'
  BY <1>16 DEF WrapperLockTimesOut, UnitFails
<1>17. ASSUME NEW u \in Units, ImportFails(u) PROVE PlacesOK'
  BY <1>17 DEF ImportFails
<1>18. ASSUME NEW u \in Units, JobRaises(u) PROVE PlacesOK'
  BY <1>18 DEF JobRaises
<1>19. ASSUME NEW u \in Units, JobCrashes(u) PROVE PlacesOK'
  BY <1>19 DEF JobCrashes, UnitFails
<1>20. ASSUME NEW u \in Units, SenderFails(u) PROVE PlacesOK'
  BY <1>20 DEF SenderFails, WrapperExits, UnitFails
<1>21. ASSUME NEW u \in Units, SenderIsLocked(u) PROVE PlacesOK'
  BY <1>21 DEF SenderIsLocked, WrapperExits, UnitFails
<1>22. CASE UNCHANGED vars
  BY <1>22 DEF vars
<1> QED
  BY <1>1, <1>2, <1>3, <1>4, <1>5, <1>6, <1>7, <1>8, <1>9, <1>10, <1>11, <1>12, <1>13,
     <1>14, <1>15, <1>16, <1>17, <1>18, <1>19, <1>20, <1>21, <1>22, <1>30, <1>31
     DEF Next, Environment, UnitStep, UnitFault

-----------------------------------------------------------------------------
(* What a step may do to the outbox *)

\* Keys of different kinds differ, and a key says what it was made from.
LEMMA KeysDiffer ==
    /\ \A d, f, e, g : SalesKey(d, f) = SalesKey(e, g) => d = e /\ f = g
    /\ \A d, o, n, e, p, q : CorrectionKey(d, o, n) = CorrectionKey(e, p, q) => d = e /\ o = p /\ n = q
    /\ \A d, f, e, o, n : SalesKey(d, f) # CorrectionKey(e, o, n)
    /\ \A d, f, e, m, x : SalesKey(d, f) # AlertKey(e, m, x)
    /\ \A d, o, n, e, m, x : CorrectionKey(d, o, n) # AlertKey(e, m, x)
BY DEF SalesKey, CorrectionKey, AlertKey

\* The outbox alone.
OutboxOK ==
    /\ outbox \in Seq(Rows)
    /\ \A i \in DOMAIN outbox : Fits(outbox[i])
    /\ \A i \in DOMAIN outbox :
        outbox[i].status \in {"failed", "delivered"} => outbox[i].registered

\* Positions of rows are numbers from 1 on, none of them the null row.
LEMMA Positions ==
    ASSUME outbox \in Seq(Rows)
    PROVE  /\ Len(outbox) \in Nat /\ DOMAIN outbox = 1 .. Len(outbox)
           /\ \A i \in DOMAIN outbox : outbox[i] \in Rows /\ i # None
BY DEF None

\* A row has the identity and the text it had, and stays registered.
Same(new, old) ==
    /\ new.type = old.type /\ new.day = old.day
    /\ new.key = old.key /\ new.text = old.text
    /\ old.registered => new.registered
    /\ new.status \in {"failed", "delivered"} => new.registered

\* The three things a step may do: change statuses, add a row with a new key,
\* rewrite the report that closeout has tested.
Kept ==
    /\ outbox' \in Seq(Rows)
    /\ DOMAIN outbox' = DOMAIN outbox
    /\ \A i \in DOMAIN outbox : Same(outbox'[i], outbox[i])

Grows(row) ==
    /\ row \in Rows /\ Fits(row) /\ row.status = "pending" /\ ~ row.registered
    /\ WithKey(outbox, row.key) = {}
    /\ row.type = "sales" => SalesReports(outbox, row.day) = {}
    /\ outbox' = Append(outbox, row)

Rewrites(i, d) ==
    /\ d \in Days /\ sales[d] \in Figures
    /\ i = base["closeout"] /\ i \in SalesReports(outbox, d)
    /\ overtaken \/ IsMutable(outbox[i])
    /\ WithKey(outbox, SalesKey(d, sales[d])) \subseteq {i}
    /\ outbox' = [outbox EXCEPT ![i] = Rewritten(@, d)]

\* Rows as the jobs make them.
LEMMA NewSalesRow ==
    ASSUME NEW d \in Days, NEW f \in Figures
    PROVE  LET row == NewRow("sales", d, SalesKey(d, f), <<f>>)
           IN  row \in Rows /\ Fits(row) /\ row.status = "pending" /\ ~ row.registered
               /\ row.type = "sales" /\ row.day = d /\ row.key = SalesKey(d, f)
<1> DEFINE row == NewRow("sales", d, SalesKey(d, f), <<f>>)
<1>1. SalesKey(d, f) \in Keys /\ <<f>> \in Texts
  BY DEF Keys, Texts
<1>2. row \in Rows
  BY <1>1 DEF NewRow, Rows, ReportTypes, RowStatuses
<1>3. Fits(row)
  BY DEF Fits, NewRow
<1> QED
  BY <1>2, <1>3 DEF NewRow

\* A correction as reconcile makes it.
LEMMA NewCorrectionRow ==
    ASSUME NEW d \in Days, NEW old \in Metrics, NEW new \in Metrics
    PROVE  LET row == NewRow("correction", d, CorrectionKey(d, old, new), <<old, new>>)
           IN  row \in Rows /\ Fits(row) /\ row.status = "pending" /\ ~ row.registered
               /\ row.type = "correction" /\ row.key = CorrectionKey(d, old, new)
<1> DEFINE row == NewRow("correction", d, CorrectionKey(d, old, new), <<old, new>>)
<1>1. CorrectionKey(d, old, new) \in Keys /\ <<old, new>> \in Texts
  BY DEF Keys, Texts
<1>2. row \in Rows
  BY <1>1 DEF NewRow, Rows, ReportTypes, RowStatuses
<1>3. Fits(row)
  BY DEF Fits, NewRow
<1> QED
  BY <1>2, <1>3 DEF NewRow

\* An alert as either job makes it.
LEMMA NewAlertRow ==
    ASSUME NEW d \in Days, NEW u \in Units, NEW e \in Errors
    PROVE  LET row == NewRow("alert", d, AlertKey(d, u, e), << >>)
           IN  row \in Rows /\ Fits(row) /\ row.status = "pending" /\ ~ row.registered
               /\ row.type = "alert" /\ row.key = AlertKey(d, u, e)
<1> DEFINE row == NewRow("alert", d, AlertKey(d, u, e), << >>)
<1>1. AlertKey(d, u, e) \in Keys /\ << >> \in Texts
  BY DEF Keys, Texts
<1>2. row \in Rows
  BY <1>1 DEF NewRow, Rows, ReportTypes, RowStatuses
<1>3. Fits(row)
  BY DEF Fits, NewRow
<1> QED
  BY <1>2, <1>3 DEF NewRow

\* The row of a day's figures is a sales report of that day.
LEMMA KeyTellsDay ==
    ASSUME OutboxOK, NEW d \in Days, NEW f \in Figures,
           NEW i \in WithKey(outbox, SalesKey(d, f))
    PROVE  i \in SalesReports(outbox, d)
<1>1. i \in DOMAIN outbox /\ outbox[i] \in Rows /\ outbox[i].key = SalesKey(d, f) /\ Fits(outbox[i])
  BY Positions DEF OutboxOK, WithKey
<1>2. outbox[i].type \in {"sales", "correction", "alert"}
  BY <1>1 DEF Rows, ReportTypes
<1>3. outbox[i].type = "sales" /\ outbox[i].day = d
  BY <1>1, <1>2, KeysDiffer DEF Fits
<1> QED
  BY <1>1, <1>3 DEF SalesReports, OfDay

\* What closeout finds is a row of the day's figures, or the day's report, or nothing.
LEMMA RowToUpsert ==
    ASSUME outbox \in Seq(Rows), NEW d
    PROVE  LET i == ReportToUpsert(d)
               K == WithKey(outbox, SalesKey(d, sales[d]))
           IN  /\ i \in Nat
               /\ K # {} => i \in K
               /\ K = {} => IF SalesReports(outbox, d) = {} THEN i = None
                           ELSE i \in SalesReports(outbox, d)
<1> DEFINE K == WithKey(outbox, SalesKey(d, sales[d]))
           S == SalesReports(outbox, d)
           i == ReportToUpsert(d)
<1>1. Len(outbox) \in Nat /\ K \subseteq 1 .. Len(outbox) /\ S \subseteq 1 .. Len(outbox)
  BY Positions DEF WithKey, SalesReports, OfDay
<1>2. CASE K # {}
  <2>1. i \in K
    BY <1>1, <1>2, MaxIsMember DEF ReportToUpsert
  <2> QED
    BY <1>1, <1>2, <2>1
<1>3. CASE K = {} /\ S # {}
  <2>1. i \in S
    BY <1>1, <1>3, MaxIsMember DEF ReportToUpsert, LatestSalesReport
  <2> QED
    BY <1>1, <1>3, <2>1
<1>4. CASE K = {} /\ S = {}
  BY <1>4 DEF ReportToUpsert, None
<1> QED
  BY <1>2, <1>3, <1>4

\* So it is the day's report, if there is one, and the only row that may have its key.
LEMMA UpsertRow ==
    ASSUME OutboxOK, UniqueKeys, NEW d \in Days, sales[d] \in Figures
    PROVE  LET i == ReportToUpsert(d)
           IN  /\ WithKey(outbox, SalesKey(d, sales[d])) \subseteq {i}
               /\ IF i = None THEN SalesReports(outbox, d) = {} ELSE i \in SalesReports(outbox, d)
<1> DEFINE K == WithKey(outbox, SalesKey(d, sales[d]))
           S == SalesReports(outbox, d)
           i == ReportToUpsert(d)
<1>1. outbox \in Seq(Rows) /\ None \notin S /\ K \subseteq S
  <2>1. outbox \in Seq(Rows)
    BY DEF OutboxOK
  <2> QED
    BY <2>1, Positions, KeyTellsDay DEF SalesReports, OfDay
<1>2. /\ K # {} => i \in K
      /\ K = {} => IF S = {} THEN i = None ELSE i \in S
  BY <1>1, RowToUpsert
<1> HIDE DEF i
<1>3. K \subseteq {i}
  BY <1>2 DEF WithKey, UniqueKeys, KeysAreUnique
<1> HIDE DEF K, S
<1>4. IF i = None THEN S = {} ELSE i \in S
  BY <1>1, <1>2
<1> QED
  BY <1>3, <1>4 DEF i, K, S

\* Closeout adds the day's report or rewrites it.
LEMMA UpsertStep ==
    ASSUME OutboxOK, NEW u \in Units, JobKnows(u), day[u] \in Days, _upsert_sales_outbox(u)
    PROVE  /\ u = "closeout" /\ sales[day[u]] \in Figures
           /\ \/ \E row \in Rows : /\ Grows(row) /\ row.type = "sales" /\ row.day = day[u]
                                   /\ FiguresOf(row) = sales[day[u]]
              \/ \E i \in DOMAIN outbox : Rewrites(i, day[u])
<1> DEFINE d == day[u]
           row == NewRow("sales", d, SalesKey(d, sales[d]), <<sales[d]>>)
<1>1. u = "closeout" /\ sales[d] \in Figures /\ UpsertFits(u)
  BY DEF JobKnows, _upsert_sales_outbox
<1>2. CASE base[u] = None
  <2>1. WithKey(outbox, SalesKey(d, sales[d])) = {} /\ SalesReports(outbox, d) = {}
    <3>1. None \notin DOMAIN outbox
      BY Positions DEF OutboxOK
    <3> QED
      BY <1>1, <1>2, <3>1 DEF UpsertFits, WithKey
  <2>2. outbox' = Append(outbox, row)
    BY <1>2 DEF _upsert_sales_outbox
  <2>3. FiguresOf(row) = sales[d]
    BY DEF NewRow, FiguresOf
  <2>4. row \in Rows /\ Fits(row) /\ row.status = "pending" /\ ~ row.registered
        /\ row.type = "sales" /\ row.day = d /\ row.key = SalesKey(d, sales[d])
    BY <1>1, NewSalesRow
  <2> HIDE DEF row
  <2>5. Grows(row)
    BY <2>1, <2>2, <2>4 DEF Grows
  <2> QED
    BY <1>1, <2>3, <2>4, <2>5
<1>3. CASE base[u] # None
  <2>1. outbox' = [outbox EXCEPT ![base[u]] = Rewritten(@, d)]
    BY <1>3 DEF _upsert_sales_outbox
  <2>2. base[u] \in DOMAIN outbox /\ Rewrites(base[u], d)
    BY <1>1, <1>3, <2>1 DEF UpsertFits, Rewrites, SalesReports, OfDay
  <2> QED
    BY <1>1, <2>2
<1> QED
  BY <1>2, <1>3

\* Reconcile adds a correction from the report it compares with to what was imported,
\* or finds a row that says what was imported: that report, or an earlier correction.
LEMMA ReconcileStep ==
    ASSUME OutboxOK, NEW u \in Units, Reconcile(u), JobKnows(u), day[u] \in Days
    PROVE  /\ sales[day[u]] \in Figures
           /\ \/ /\ outbox' = outbox
                 /\ \E k \in ReportsOf(outbox, day[u]) : Says(outbox[k]) = Shown[sales[day[u]]]
              \/ \E row \in Rows :
                   /\ Grows(row) /\ row.type = "correction" /\ row.day = day[u]
                   /\ row.text[1] = Shown[FiguresOf(outbox[base[u]])]
                   /\ row.text[2] = Shown[sales[day[u]]]
                   /\ row.text[1] # row.text[2]
<1> DEFINE d   == day[u]
           old == Shown[FiguresOf(outbox[base[u]])]
           new == Shown[sales[d]]
           key == CorrectionKey(d, old, new)
           row == NewRow("correction", d, key, <<old, new>>)
<1>1. u = "reconcile" /\ step[u] = "report"
  BY DEF Reconcile
<1>2. sales[d] \in Figures /\ base[u] \in SalesReports(outbox, d)
  BY <1>1 DEF JobKnows
<1>3. FiguresOf(outbox[base[u]]) \in Figures
  <2>1. base[u] \in DOMAIN outbox /\ outbox[base[u]].type = "sales" /\ Fits(outbox[base[u]])
    BY <1>2 DEF SalesReports, OfDay, OutboxOK
  <2>2. PICK f \in Figures : outbox[base[u]].text = <<f>>
    BY <2>1 DEF Fits
  <2> QED
    BY <2>2 DEF FiguresOf
<1>4. old \in Metrics /\ new \in Metrics
  BY <1>2, <1>3 DEF Metrics
<1>5. \/ old = new /\ outbox' = outbox
      \/ WithKey(outbox, key) # {} /\ outbox' = outbox
      \/ old # new /\ WithKey(outbox, key) = {} /\ outbox' = Append(outbox, row)
  BY DEF Reconcile
<1>6. CASE old = new
  <2>1. base[u] \in ReportsOf(outbox, d) /\ Says(outbox[base[u]]) = old
    BY <1>2 DEF SalesReports, ReportsOf, OfDay, Says
  <2> QED
    BY <1>2, <1>6, <2>1 DEF Reconcile
<1> HIDE DEF old, new, d
<1>7. CASE WithKey(outbox, key) # {} /\ outbox' = outbox
  <2>1. PICK k \in DOMAIN outbox : outbox[k].key = key
    BY <1>7 DEF WithKey
  <2>2. Fits(outbox[k]) /\ outbox[k].type \in {"sales", "correction", "alert"}
    BY Positions DEF OutboxOK, Rows, ReportTypes
  <2>3. outbox[k].type = "correction"
    BY <2>1, <2>2, KeysDiffer DEF Fits
  <2>4. PICK o, n \in Metrics : outbox[k].text = <<o, n>> /\ key = CorrectionKey(outbox[k].day, o, n)
    BY <2>1, <2>2, <2>3 DEF Fits
  <2>5. outbox[k].day = d /\ n = new
    BY <2>4, KeysDiffer
  <2>6. k \in ReportsOf(outbox, d) /\ Says(outbox[k]) = new
    BY <2>3, <2>4, <2>5 DEF ReportsOf, OfDay, Says
  <2> QED
    BY <1>2, <1>7, <2>6 DEF new, d
<1>8. CASE old # new /\ WithKey(outbox, key) = {} /\ outbox' = Append(outbox, row)
  <2>1. row \in Rows /\ Fits(row) /\ row.status = "pending" /\ ~ row.registered /\ row.type = "correction"
        /\ row.key = key
    BY <1>4, NewCorrectionRow DEF d
  <2>2. row.day = d /\ row.text[1] = old /\ row.text[2] = new
    BY DEF NewRow
  <2>3. Grows(row)
    BY <1>8, <2>1 DEF Grows
  <2> QED
    BY <1>2, <1>8, <2>1, <2>2, <2>3 DEF old, new, d
<1> QED
  BY <1>5, <1>6, <1>7, <1>8

\* An alert is added once.
LEMMA AlertStep ==
    ASSUME NEW u \in Units, _ensure_alert_outbox(u), JobKnows(u), day[u] \in Days
    PROVE  \/ outbox' = outbox
           \/ \E row \in Rows : Grows(row) /\ row.type = "alert"
<1>1. result[u] \in Errors
  BY DEF _ensure_alert_outbox, JobKnows
<1> QED
  BY <1>1, NewAlertRow DEF _ensure_alert_outbox, Grows

\* The sender changes what is known of a row, never the row.
LEMMA SentRow ==
    ASSUME NEW row \in Rows, row.status \in {"failed", "delivered"} => row.registered,
           NEW new \in {row, Delivered(row), Failed(row), Touched(row)}
    PROVE  new \in Rows /\ Same(new, row)
BY DEF Rows, RowStatuses, Same, Delivered, Failed, Touched

\* When every row becomes one the sender may leave, all rows are kept.
LEMMA SentRows ==
    ASSUME OutboxOK, DOMAIN outbox' = DOMAIN outbox, outbox' = [i \in DOMAIN outbox |-> outbox'[i]],
           \A i \in DOMAIN outbox :
             outbox'[i] \in {outbox[i], Delivered(outbox[i]), Failed(outbox[i]), Touched(outbox[i])}
    PROVE  Kept
<1>1. \A i \in DOMAIN outbox : outbox'[i] \in Rows /\ Same(outbox'[i], outbox[i])
  BY Positions, SentRow DEF OutboxOK
<1>2. outbox' \in Seq(Rows)
  BY <1>1, Positions DEF OutboxOK
<1> QED
  BY <1>1, <1>2 DEF Kept

\* A sender run, successful or not, keeps all rows.
LEMMA SenderStep ==
    ASSUME OutboxOK, NEW u \in Units, SenderDelivers(u) \/ SenderFails(u)
    PROVE  Kept
<1>1. CASE SenderDelivers(u)
  <2>1. DOMAIN outbox' = DOMAIN outbox /\ outbox' = [i \in DOMAIN outbox |-> outbox'[i]]
    BY <1>1 DEF SenderDelivers
  <2>2. \A i \in DOMAIN outbox : outbox'[i] \in {outbox[i], Delivered(outbox[i])}
    BY <1>1 DEF SenderDelivers
  <2> QED
    BY <2>1, <2>2, SentRows
<1>2. CASE SenderFails(u)
  <2>0. PICK lost \in SUBSET Unsent(outbox, day[u]) :
          \E fate \in [lost -> {"failed", "touched", "left"}] :
            outbox' = [i \in DOMAIN outbox |->
                CASE i \notin Unsent(outbox, day[u]) -> outbox[i]
                  [] i \in Unsent(outbox, day[u]) \ lost -> Delivered(outbox[i])
                  [] i \in lost /\ fate[i] = "failed" -> Failed(outbox[i])
                  [] i \in lost /\ fate[i] = "touched" -> Touched(outbox[i])
                  [] i \in lost /\ fate[i] = "left" -> outbox[i]]
    BY <1>2 DEF SenderFails
  <2>1. PICK fate \in [lost -> {"failed", "touched", "left"}] :
            outbox' = [i \in DOMAIN outbox |->
                CASE i \notin Unsent(outbox, day[u]) -> outbox[i]
                  [] i \in Unsent(outbox, day[u]) \ lost -> Delivered(outbox[i])
                  [] i \in lost /\ fate[i] = "failed" -> Failed(outbox[i])
                  [] i \in lost /\ fate[i] = "touched" -> Touched(outbox[i])
                  [] i \in lost /\ fate[i] = "left" -> outbox[i]]
    BY <2>0
  <2>2. DOMAIN outbox' = DOMAIN outbox /\ outbox' = [i \in DOMAIN outbox |-> outbox'[i]]
    BY <2>1
  <2>3. ASSUME NEW i \in DOMAIN outbox
        PROVE  outbox'[i] \in {outbox[i], Delivered(outbox[i]), Failed(outbox[i]), Touched(outbox[i])}
    <3>1. outbox'[i] = CASE i \notin Unsent(outbox, day[u]) -> outbox[i]
                  [] i \in Unsent(outbox, day[u]) \ lost -> Delivered(outbox[i])
                  [] i \in lost /\ fate[i] = "failed" -> Failed(outbox[i])
                  [] i \in lost /\ fate[i] = "touched" -> Touched(outbox[i])
                  [] i \in lost /\ fate[i] = "left" -> outbox[i]
      BY <2>1
    <3>2. CASE i \notin Unsent(outbox, day[u])
      BY <3>1, <3>2
    <3>3. CASE i \in Unsent(outbox, day[u]) \ lost
      BY <3>1, <3>3
    <3>4. CASE i \in lost
      <4>1. fate[i] \in {"failed", "touched", "left"}
        BY <3>4
      <4> QED
        BY <3>1, <3>4, <4>1
    <3> QED
      BY <3>2, <3>3, <3>4
  <2> QED
    BY <2>2, <2>3, SentRows
<1> QED
  BY <1>1, <1>2

\* Neither does a step of a sender run by hand lose a row or a text.
LEMMA HandSenderStep ==
    ASSUME OutboxOK, HandOK, HandSender
    PROVE  Kept
<1>1. outbox' = outbox => Kept
  BY Positions DEF Kept, Same, OutboxOK
<1>2. ASSUME NEW i \in DOMAIN outbox, NEW row \in {Delivered(outbox[i]), Failed(outbox[i]), Touched(outbox[i])},
             outbox' = [outbox EXCEPT ![i] = row]
      PROVE  Kept
  <2>1. DOMAIN outbox' = DOMAIN outbox /\ outbox' = [j \in DOMAIN outbox |-> outbox'[j]]
    BY <1>2, Positions DEF OutboxOK
  <2>2. \A j \in DOMAIN outbox :
          outbox'[j] \in {outbox[j], Delivered(outbox[j]), Failed(outbox[j]), Touched(outbox[j])}
    BY <1>2, Positions DEF OutboxOK
  <2> QED
    BY <2>1, <2>2, SentRows
<1>3. CASE HandSenderRegisters
  <2>1. handRows \subseteq 1 .. Len(outbox) /\ Len(outbox) \in Nat /\ handRows # {}
    BY <1>3, Positions DEF HandOK, OutboxOK, HandSenderRegisters
  <2>2. Min(handRows) \in DOMAIN outbox
    BY <2>1, MinIsMember DEF HandOK
  <2>3. outbox' = [outbox EXCEPT ![Min(handRows)] = Touched(outbox[Min(handRows)])]
    BY <1>3 DEF HandSenderRegisters
  <2> QED
    BY <1>2, <2>2, <2>3
<1>4. CASE HandSenderConcludes
  <2>1. handRow \in DOMAIN outbox
    BY <1>4 DEF HandSenderConcludes, HandOK
  <2>2. PICK row \in {Delivered(outbox[handRow]), Failed(outbox[handRow])} :
          outbox' = [outbox EXCEPT ![handRow] = row]
    BY <1>4 DEF HandSenderConcludes
  <2> QED
    BY <1>2, <2>1, <2>2
<1>5. CASE HandSenderStarts \/ HandSenderEnds
  BY <1>1, <1>5 DEF HandSenderStarts, HandSenderEnds
<1> QED
  BY <1>3, <1>4, <1>5 DEF HandSender

\* Only these write the outbox.
LEMMA OutboxWriters ==
    ASSUME [Next]_vars
    PROVE  \/ outbox' = outbox \/ HandSender
           \/ \E u \in Units : \/ _upsert_sales_outbox(u) \/ Reconcile(u) \/ _ensure_alert_outbox(u)
                               \/ SenderDelivers(u) \/ SenderFails(u)
BY DEF Next, vars, Environment, MidnightPasses, FiguresChange, OtherLocks, OtherUnlocks,
       TimerFires, ManualRun, UnitStep, TakeWrapperLock, AlreadyRunning, StartJob, Import,
       _sales_outbox_is_mutable, FinishJob, UnitFault, WrapperLockTimesOut, ImportFails, JobRaises, JobCrashes,
       SenderIsLocked

\* Every step of the program.
LEMMA OutboxStep ==
    ASSUME OutboxOK, HandOK, UniqueKeys, [Next]_vars,
           \A u \in Units : JobKnows(u)
    PROVE  \/ Kept
           \/ \E row \in Rows : Grows(row)
           \/ \E i \in DOMAIN outbox, d \in Days : Rewrites(i, d)
<1>1. outbox' = outbox => Kept
  BY Positions DEF Kept, Same, OutboxOK
<1>2. ASSUME NEW u \in Units, _upsert_sales_outbox(u)
      PROVE  \/ \E row \in Rows : Grows(row)
             \/ \E i \in DOMAIN outbox, d \in Days : Rewrites(i, d)
  <2>1. day[u] \in Days
    BY <1>2 DEF JobKnows, JobSteps, _upsert_sales_outbox
  <2> QED
    BY <1>2, <2>1, UpsertStep
<1>3. ASSUME NEW u \in Units, Reconcile(u)
      PROVE  outbox' = outbox \/ \E row \in Rows : Grows(row)
  <2>1. day[u] \in Days
    BY <1>3 DEF JobKnows, JobSteps, Reconcile
  <2> QED
    BY <1>3, <2>1, ReconcileStep
<1>4. ASSUME NEW u \in Units, _ensure_alert_outbox(u)
      PROVE  outbox' = outbox \/ \E row \in Rows : Grows(row)
  <2>1. day[u] \in Days
    BY <1>4 DEF JobKnows, JobSteps, _ensure_alert_outbox
  <2> QED
    BY <1>4, <2>1, AlertStep
<1>5. ASSUME NEW u \in Units, SenderDelivers(u) \/ SenderFails(u) PROVE Kept
  BY <1>5, SenderStep
<1>6. \/ outbox' = outbox \/ HandSender
      \/ \E u \in Units : \/ _upsert_sales_outbox(u) \/ Reconcile(u) \/ _ensure_alert_outbox(u)
                          \/ SenderDelivers(u) \/ SenderFails(u)
  BY OutboxWriters
<1> QED
  BY <1>1, <1>2, <1>3, <1>4, <1>5, <1>6, HandSenderStep

-----------------------------------------------------------------------------
(* What follows for the outbox *)

OutboxChange ==
    \/ Kept
    \/ \E row \in Rows : Grows(row)
    \/ \E i \in DOMAIN outbox, d \in Days : Rewrites(i, d)

\* A new row stands behind the others, which stay.
LEMMA GrowsBy ==
    ASSUME OutboxOK, NEW row \in Rows, Grows(row)
    PROVE  /\ outbox' \in Seq(Rows) /\ Len(outbox) + 1 \notin DOMAIN outbox
           /\ DOMAIN outbox' = DOMAIN outbox \cup {Len(outbox) + 1}
           /\ outbox'[Len(outbox) + 1] = row
           /\ \A i \in DOMAIN outbox : outbox'[i] = outbox[i]
BY Positions DEF OutboxOK, Grows

\* A rewritten report stays the report of its day; the other rows stay.
LEMMA RewritesOne ==
    ASSUME OutboxOK, NEW i \in DOMAIN outbox, NEW d \in Days, Rewrites(i, d)
    PROVE  /\ outbox' \in Seq(Rows) /\ DOMAIN outbox' = DOMAIN outbox
           /\ outbox'[i].type = "sales" /\ outbox[i].type = "sales"
           /\ outbox'[i].day = d /\ outbox[i].day = d
           /\ outbox'[i].key = SalesKey(d, sales[d]) /\ outbox'[i].text = <<sales[d]>>
           /\ outbox'[i].status = outbox[i].status
           /\ outbox'[i].registered = outbox[i].registered
           /\ (overtaken \/ ~ outbox[i].registered) /\ sales[d] \in Figures
           /\ \A j \in DOMAIN outbox : j # i => outbox'[j] = outbox[j]
<1> DEFINE new == Rewritten(outbox[i], d)
<1>1. outbox[i] \in Rows /\ outbox[i].type = "sales" /\ outbox[i].day = d /\ sales[d] \in Figures
      /\ (overtaken \/ ~ outbox[i].registered)
  BY Positions DEF OutboxOK, Rewrites, SalesReports, OfDay, IsMutable
<1>2. SalesKey(d, sales[d]) \in Keys /\ <<sales[d]>> \in Texts
  BY <1>1 DEF Keys, Texts
<1>3. new \in Rows /\ new.type = "sales" /\ new.day = d /\ new.key = SalesKey(d, sales[d])
      /\ new.text = <<sales[d]>> /\ new.status = outbox[i].status
      /\ new.registered = outbox[i].registered
  BY <1>1, <1>2 DEF Rewritten, Rows
<1> HIDE DEF new
<1>4. outbox' = [outbox EXCEPT ![i] = new]
  BY DEF Rewrites, new
<1>5. /\ outbox' \in Seq(Rows) /\ DOMAIN outbox' = DOMAIN outbox /\ outbox'[i] = new
      /\ \A j \in DOMAIN outbox : j # i => outbox'[j] = outbox[j]
  BY <1>3, <1>4, Positions DEF OutboxOK
<1> QED
  BY <1>1, <1>3, <1>5

\* Any of the three changes leaves the outbox well formed.
LEMMA OutboxOKStep ==
    ASSUME OutboxOK, OutboxChange
    PROVE  OutboxOK'
<1>1. CASE Kept
  <2>1. ASSUME NEW i \in DOMAIN outbox' PROVE Fits(outbox'[i])
    <3>1. i \in DOMAIN outbox /\ Same(outbox'[i], outbox[i]) /\ Fits(outbox[i])
      BY <1>1 DEF Kept, OutboxOK
    <3> QED
      BY <3>1 DEF Same, Fits
  <2> QED
    BY <1>1, <2>1 DEF Kept, Same, OutboxOK
<1>2. ASSUME NEW row \in Rows, Grows(row) PROVE OutboxOK'
  BY <1>2, GrowsBy DEF OutboxOK, Grows
<1>3. ASSUME NEW i \in DOMAIN outbox, NEW d \in Days, Rewrites(i, d) PROVE OutboxOK'
  <2>1. Fits(outbox'[i])
    BY <1>3, RewritesOne DEF Fits
  <2> QED
    BY <1>3, <2>1, RewritesOne DEF OutboxOK
<1> QED
  BY <1>1, <1>2, <1>3 DEF OutboxChange

\* Any of them leaves keys unique: a new key is new, a rewritten row's is free or its own.
LEMMA UniqueKeysStep ==
    ASSUME OutboxOK, UniqueKeys, OutboxChange
    PROVE  UniqueKeys'
<1> USE DEF UniqueKeys, KeysAreUnique
<1>1. CASE Kept
  BY <1>1 DEF Kept, Same
<1>2. ASSUME NEW row \in Rows, Grows(row) PROVE UniqueKeys'
  <2>1. \A i \in DOMAIN outbox : outbox[i].key # row.key
    BY <1>2 DEF Grows, WithKey
  <2> QED
    BY <1>2, <2>1, GrowsBy
<1>3. ASSUME NEW i \in DOMAIN outbox, NEW d \in Days, Rewrites(i, d) PROVE UniqueKeys'
  <2>1. \A j \in DOMAIN outbox : j # i => outbox[j].key # SalesKey(d, sales[d])
    BY <1>3 DEF Rewrites, WithKey
  <2> QED
    BY <1>3, <2>1, RewritesOne
<1> QED
  BY <1>1, <1>2, <1>3 DEF OutboxChange

\* A day has finitely many sales reports.
LEMMA ReportsAreFinite ==
    ASSUME outbox \in Seq(Rows), NEW d
    PROVE  IsFiniteSet(SalesReports(outbox, d))
<1>1. SalesReports(outbox, d) \subseteq 1 .. Len(outbox) /\ Len(outbox) \in Nat
  BY Positions DEF SalesReports, OfDay
<1>2. IsFiniteSet(1 .. Len(outbox))
  BY <1>1, FS_Interval
<1> QED
  BY <1>1, <1>2, FS_Subset

\* Two sales reports of one day are one.
NoTwoReports ==
    \A i, j \in DOMAIN outbox :
        outbox[i].type = "sales" /\ outbox[j].type = "sales" /\ outbox[i].day = outbox[j].day => i = j

\* The two ways of saying that a day has one sales report.
LEMMA OneReportAgain ==
    ASSUME outbox \in Seq(Rows)
    PROVE  OneSalesReportPerDay <=> NoTwoReports
<1>1. OneSalesReportPerDay <=>
        \A d \in Days : \A x, y \in SalesReports(outbox, d) : x = y
  BY ReportsAreFinite, AtMostOne DEF OneSalesReportPerDay
<1>2. \A i \in DOMAIN outbox : outbox[i].day \in Days
  BY Positions DEF Rows
<1> QED
  BY <1>1, <1>2 DEF NoTwoReports, SalesReports, OfDay

\* None of the three changes adds a second one.
LEMMA OneReportStep ==
    ASSUME OutboxOK, NoTwoReports, OutboxChange
    PROVE  NoTwoReports'
<1> USE DEF NoTwoReports
<1>1. CASE Kept
  BY <1>1 DEF Kept, Same
<1>2. ASSUME NEW row \in Rows, Grows(row) PROVE NoTwoReports'
  <2>1. row.type = "sales" => \A i \in DOMAIN outbox : outbox[i].type = "sales" => outbox[i].day # row.day
    BY <1>2 DEF Grows, SalesReports, OfDay
  <2> QED
    BY <1>2, <2>1, GrowsBy
<1>3. ASSUME NEW i \in DOMAIN outbox, NEW d \in Days, Rewrites(i, d) PROVE NoTwoReports'
  BY <1>3, RewritesOne
<1> QED
  BY <1>1, <1>2, <1>3 DEF OutboxChange

\* A sales report of a day stays one.
LEMMA ReportsStay ==
    ASSUME OutboxOK, OutboxChange, NEW d, NEW i \in SalesReports(outbox, d)
    PROVE  i \in SalesReports(outbox', d)
<1> USE DEF SalesReports, OfDay
<1>1. CASE Kept
  BY <1>1 DEF Kept, Same
<1>2. ASSUME NEW row \in Rows, Grows(row) PROVE i \in SalesReports(outbox', d)
  BY <1>2, GrowsBy
<1>3. ASSUME NEW j \in DOMAIN outbox, NEW e \in Days, Rewrites(j, e)
      PROVE  i \in SalesReports(outbox', d)
  BY <1>3, RewritesOne
<1> QED
  BY <1>1, <1>2, <1>3 DEF OutboxChange

-----------------------------------------------------------------------------
(* What units at work have made sure of *)

\* A job starts with a real date, and reconcile with its original, if there is one.
LEMMA StartJobKnows ==
    ASSUME CountsOK, WorkOK, OutboxOK, ReconcileIsLater, NEW u \in Units, StartJob(u),
           base \in [Units -> Nat]
    PROVE  LET d == daily_coo_business_date(u)
           IN  /\ d \in Days /\ base' \in [Units -> Nat]
               /\ u = "reconcile" /\ SalesReports(outbox, d) # {} => base'[u] \in SalesReports(outbox, d)
<1> DEFINE d == daily_coo_business_date(u)
           S == SalesReports(outbox, d)
<1>1. d \in Days
  <2>1. u = "reconcile" => given[u] # None \/ today > 1
    BY DEF StartJob, ReconcileIsLater, WrapperSteps
  <2>2. /\ d \in Days \cup {None}
        /\ d = None => u = "reconcile" /\ given[u] = None /\ today = 1
    BY DateIsDay DEF CountsOK, WorkOK
  <2> HIDE DEF d
  <2> QED
    BY <2>1, <2>2
<1>2. S # {} => Max(S) \in S
  BY Positions, MaxIsMember DEF OutboxOK, SalesReports, OfDay
<1>3. S \subseteq Nat
  BY Positions DEF OutboxOK, SalesReports, OfDay
<1> HIDE DEF d
<1>4. base' = [base EXCEPT ![u] = IF u = "reconcile" /\ S # {} THEN Max(S) ELSE None]
  BY DEF StartJob, LatestSalesReport, d
<1>5. (IF u = "reconcile" /\ S # {} THEN Max(S) ELSE None) \in Nat
  BY <1>2, <1>3 DEF None
<1>6. base' \in [Units -> Nat]
  BY <1>4, <1>5
<1>7. u = "reconcile" /\ S # {} => base'[u] \in S
  BY <1>2, <1>4
<1> QED
  BY <1>1, <1>6, <1>7 DEF d

\* While closeout is about to write, it works on what it has read, and only a sender
\* run by hand may touch the outbox.
LEMMA NobodyElseWrites ==
    ASSUME PlacesOK, [Next]_vars, step["closeout"] = "upsert", step'["closeout"] = "upsert"
    PROVE  /\ day' = day /\ base' = base /\ sales' = sales
           /\ (outbox' = outbox /\ overtaken' = overtaken) \/ HandSender
<1> DEFINE goal == /\ day' = day /\ base' = base /\ sales' = sales
                   /\ (outbox' = outbox /\ overtaken' = overtaken) \/ HandSender
<1> HIDE DEF goal
<1> SUFFICES goal
  BY DEF goal
<1>0. goal <=> /\ day' = day /\ base' = base /\ sales' = sales
               /\ (outbox' = outbox /\ overtaken' = overtaken) \/ HandSender
  BY DEF goal
<1> USE <1>0 DEF PlacesOK, unitVars, Go, Units, JobSteps, WrapperSteps, Idle
<1>1. CASE MidnightPasses
  BY <1>1 DEF MidnightPasses
<1>2. CASE FiguresChange
  BY <1>2 DEF FiguresChange
<1>3. CASE OtherLocks
  BY <1>3 DEF OtherLocks
<1>4. CASE OtherUnlocks
  BY <1>4 DEF OtherUnlocks
<1>5. ASSUME NEW u \in Units, TimerFires(u) PROVE goal
  BY <1>5 DEF TimerFires
<1>6. ASSUME NEW u \in Units, ManualRun(u) PROVE goal
  BY <1>6 DEF ManualRun
<1>7. ASSUME NEW u \in Units, TakeWrapperLock(u) PROVE goal
  BY <1>7 DEF TakeWrapperLock
<1>8. ASSUME NEW u \in Units, AlreadyRunning(u) PROVE goal
  BY <1>8 DEF AlreadyRunning, UnitFails
<1>9. ASSUME NEW u \in Units, StartJob(u) PROVE goal
  BY <1>9 DEF StartJob
<1>10. ASSUME NEW u \in Units, Import(u) PROVE goal
  BY <1>10 DEF Import
<1>11. ASSUME NEW u \in Units, _sales_outbox_is_mutable(u) PROVE goal
  BY <1>11 DEF _sales_outbox_is_mutable
<1>12. ASSUME NEW u \in Units, _upsert_sales_outbox(u) PROVE goal
  BY <1>12 DEF _upsert_sales_outbox
<1>13. ASSUME NEW u \in Units, Reconcile(u) PROVE goal
  BY <1>13 DEF Reconcile
<1>14. ASSUME NEW u \in Units, _ensure_alert_outbox(u) PROVE goal
  BY <1>14 DEF _ensure_alert_outbox
<1>15. ASSUME NEW u \in Units, FinishJob(u) PROVE goal
  BY <1>15 DEF FinishJob
<1>16. ASSUME NEW u \in Units, SenderDelivers(u) PROVE goal
  BY <1>16 DEF SenderDelivers, WrapperExits, UnitFails
<1>17. ASSUME NEW u \in Units, SenderIsLocked(u) PROVE goal
  BY <1>17 DEF SenderIsLocked, WrapperExits, UnitFails
<1>18. ASSUME NEW u \in Units, WrapperLockTimesOut(u) PROVE goal
  BY <1>18 DEF WrapperLockTimesOut, UnitFails
<1>19. ASSUME NEW u \in Units, ImportFails(u) PROVE goal
  BY <1>19 DEF ImportFails
<1>20. ASSUME NEW u \in Units, JobRaises(u) PROVE goal
  BY <1>20 DEF JobRaises
<1>21. ASSUME NEW u \in Units, JobCrashes(u) PROVE goal
  BY <1>21 DEF JobCrashes, UnitFails
<1>22. ASSUME NEW u \in Units, SenderFails(u) PROVE goal
  BY <1>22 DEF SenderFails, WrapperExits, UnitFails
<1>23. CASE HandSender
  BY <1>23, HandSenderElsewhere
<1>24. CASE UNCHANGED vars
  BY <1>24 DEF vars, handVars
<1> QED
  BY <1>1, <1>2, <1>3, <1>4, <1>5, <1>6, <1>7, <1>8, <1>9, <1>10, <1>11, <1>12, <1>13,
     <1>14, <1>15, <1>16, <1>17, <1>18, <1>19, <1>20, <1>21, <1>22, <1>23, <1>24
     DEF Next, Environment, UnitStep, UnitFault

\* So what it has read still holds when it writes, but for chats registered since.
LEMMA UpsertFitsStep ==
    ASSUME PlacesOK, OutboxOK, HandOK, [Next]_vars,
           step["closeout"] = "upsert", step'["closeout"] = "upsert", UpsertFits("closeout")
    PROVE  UpsertFits("closeout")'
<1> DEFINE b == base["closeout"]
           d == day["closeout"]
<1>1. day' = day /\ base' = base /\ sales' = sales
  BY NobodyElseWrites
<1>2. CASE outbox' = outbox /\ overtaken' = overtaken
  BY <1>1, <1>2 DEF UpsertFits
<1>3. CASE HandSender
  <2>1. /\ DOMAIN outbox' = DOMAIN outbox
        /\ \A i \in DOMAIN outbox :
             /\ outbox'[i].type = outbox[i].type /\ outbox'[i].day = outbox[i].day
             /\ outbox'[i].key = outbox[i].key
    BY <1>3, HandSenderStep DEF Kept, Same
  <2>2. /\ SalesReports(outbox', d) = SalesReports(outbox, d)
        /\ WithKey(outbox', SalesKey(d, sales[d])) = WithKey(outbox, SalesKey(d, sales[d]))
    BY <2>1 DEF SalesReports, OfDay, WithKey
  <2>3. ASSUME b \in DOMAIN outbox, overtaken \/ IsMutable(outbox[b]), ~ overtaken'
        PROVE  IsMutable(outbox'[b])
    <3>1. CASE HandSenderStarts \/ HandSenderEnds
      BY <2>3, <3>1, Zenon DEF HandSenderStarts, HandSenderEnds
    <3>2. CASE HandSenderRegisters
      <4>1. ~ overtaken /\ b # Min(handRows)
        BY <2>3, <3>2, Zenon DEF HandSenderRegisters
      <4>2. outbox' = [outbox EXCEPT ![Min(handRows)] = Touched(@)]
        BY <3>2 DEF HandSenderRegisters
      <4>3. outbox'[b] = outbox[b]
        BY <2>3, <4>1, <4>2, Positions DEF OutboxOK
      <4> QED
        BY <2>3, <4>1, <4>3
    <3>3. CASE HandSenderConcludes
      <4>1. ~ overtaken
        BY <2>3, <3>3, Zenon DEF HandSenderConcludes
      <4>2. b # handRow
        BY <2>3, <3>3, <4>1 DEF HandSenderConcludes, HandOK, IsMutable
      <4>3. PICK row : outbox' = [outbox EXCEPT ![handRow] = row]
        BY <3>3 DEF HandSenderConcludes
      <4>4. outbox'[b] = outbox[b]
        BY <2>3, <4>2, <4>3, Positions DEF OutboxOK
      <4> QED
        BY <2>3, <4>1, <4>4
    <3> QED
      BY <1>3, <3>1, <3>2, <3>3 DEF HandSender
  <2>4. WithKey(outbox, SalesKey(d, sales[d])) \subseteq {b}
    BY DEF UpsertFits
  <2>5. CASE b = None
    BY <1>1, <2>2, <2>4, <2>5 DEF UpsertFits
  <2>6. CASE b # None
    <3>1. b \in SalesReports(outbox, d) /\ (overtaken \/ IsMutable(outbox[b]))
      BY <2>6 DEF UpsertFits
    <3>2. b \in DOMAIN outbox
      BY <3>1 DEF SalesReports, OfDay
    <3>3. overtaken' \/ IsMutable(outbox'[b])
      BY <2>3, <3>1, <3>2
    <3> QED
      BY <1>1, <2>2, <2>4, <2>6, <3>1, <3>3 DEF UpsertFits
  <2> QED
    BY <2>5, <2>6
<1> QED
  BY <1>2, <1>3, NobodyElseWrites

\* Chats registered meanwhile are forgotten once closeout is through.
LEMMA OvertakenStays ==
    ASSUME PlacesOK, [Next]_vars
    PROVE  \/ overtaken' = FALSE \/ HandSender
           \/ overtaken' = overtaken /\ (step["closeout"] = "upsert" => step'["closeout"] = "upsert")
<1> DEFINE goal == \/ overtaken' = FALSE \/ HandSender
                   \/ overtaken' = overtaken /\ (step["closeout"] = "upsert" => step'["closeout"] = "upsert")
<1> HIDE DEF goal
<1> SUFFICES goal
  BY DEF goal
<1>0. goal <=> \/ overtaken' = FALSE \/ HandSender
               \/ overtaken' = overtaken /\ (step["closeout"] = "upsert" => step'["closeout"] = "upsert")
  BY DEF goal
<1> USE <1>0 DEF PlacesOK, unitVars, Go, Units, JobSteps, WrapperSteps, Idle
<1>1. CASE MidnightPasses
  BY <1>1 DEF MidnightPasses
<1>2. CASE FiguresChange
  BY <1>2 DEF FiguresChange
<1>3. CASE OtherLocks
  BY <1>3 DEF OtherLocks
<1>4. CASE OtherUnlocks
  BY <1>4 DEF OtherUnlocks
<1>5. ASSUME NEW u \in Units, TimerFires(u) PROVE goal
  BY <1>5 DEF TimerFires
<1>6. ASSUME NEW u \in Units, ManualRun(u) PROVE goal
  BY <1>6 DEF ManualRun
<1>7. ASSUME NEW u \in Units, TakeWrapperLock(u) PROVE goal
  BY <1>7 DEF TakeWrapperLock
<1>8. ASSUME NEW u \in Units, AlreadyRunning(u) PROVE goal
  BY <1>8 DEF AlreadyRunning, UnitFails
<1>9. ASSUME NEW u \in Units, StartJob(u) PROVE goal
  BY <1>9 DEF StartJob
<1>10. ASSUME NEW u \in Units, Import(u) PROVE goal
  BY <1>10 DEF Import
<1>11. ASSUME NEW u \in Units, _sales_outbox_is_mutable(u) PROVE goal
  BY <1>11 DEF _sales_outbox_is_mutable
<1>12. ASSUME NEW u \in Units, _upsert_sales_outbox(u) PROVE goal
  BY <1>12 DEF _upsert_sales_outbox
<1>13. ASSUME NEW u \in Units, Reconcile(u) PROVE goal
  BY <1>13 DEF Reconcile
<1>14. ASSUME NEW u \in Units, _ensure_alert_outbox(u) PROVE goal
  BY <1>14 DEF _ensure_alert_outbox
<1>15. ASSUME NEW u \in Units, FinishJob(u) PROVE goal
  BY <1>15 DEF FinishJob
<1>16. ASSUME NEW u \in Units, SenderDelivers(u) PROVE goal
  BY <1>16 DEF SenderDelivers, WrapperExits, UnitFails
<1>17. ASSUME NEW u \in Units, SenderIsLocked(u) PROVE goal
  BY <1>17 DEF SenderIsLocked, WrapperExits, UnitFails
<1>18. ASSUME NEW u \in Units, WrapperLockTimesOut(u) PROVE goal
  BY <1>18 DEF WrapperLockTimesOut, UnitFails
<1>19. ASSUME NEW u \in Units, ImportFails(u) PROVE goal
  BY <1>19 DEF ImportFails
<1>20. ASSUME NEW u \in Units, JobRaises(u) PROVE goal
  BY <1>20 DEF JobRaises
<1>21. ASSUME NEW u \in Units, JobCrashes(u) PROVE goal
  BY <1>21 DEF JobCrashes, UnitFails
<1>22. ASSUME NEW u \in Units, SenderFails(u) PROVE goal
  BY <1>22 DEF SenderFails, WrapperExits, UnitFails
<1>23. CASE HandSender
  BY <1>23, HandSenderElsewhere
<1>24. CASE UNCHANGED vars
  BY <1>24 DEF vars, handVars
<1> QED
  BY <1>1, <1>2, <1>3, <1>4, <1>5, <1>6, <1>7, <1>8, <1>9, <1>10, <1>11, <1>12, <1>13,
     <1>14, <1>15, <1>16, <1>17, <1>18, <1>19, <1>20, <1>21, <1>22, <1>23, <1>24
     DEF Next, Environment, UnitStep, UnitFault

\* Only a step of the sender run by hand changes what it is at.
LEMMA HandIsOnlyBy ==
    ASSUME [Next]_vars
    PROVE  (handRows' = handRows /\ handRow' = handRow) \/ HandSender
BY ZenonT(40) DEF Next, vars, handVars, Environment, MidnightPasses, FiguresChange, OtherLocks, OtherUnlocks,
       TimerFires, ManualRun, UnitStep, TakeWrapperLock, AlreadyRunning, StartJob, Import,
       _sales_outbox_is_mutable, _upsert_sales_outbox, Reconcile, _ensure_alert_outbox,
       FinishJob, SenderDelivers, SenderIsLocked, UnitFault, WrapperLockTimesOut, ImportFails,
       JobRaises, JobCrashes, SenderFails

\* The row it sends has its chats registered, and the rows it will send are there.
LEMMA HandStep ==
    ASSUME HandOK, OutboxOK, PlacesOK, OutboxChange, [Next]_vars
    PROVE  HandOK'
<1>1. ASSUME NEW i \in DOMAIN outbox
      PROVE  i \in DOMAIN outbox' /\ (outbox[i].registered => outbox'[i].registered)
  <2>1. CASE Kept
    BY <2>1 DEF Kept, Same
  <2>2. ASSUME NEW row \in Rows, Grows(row)
        PROVE  i \in DOMAIN outbox' /\ (outbox[i].registered => outbox'[i].registered)
    BY <2>2, GrowsBy
  <2>3. ASSUME NEW j \in DOMAIN outbox, NEW d \in Days, Rewrites(j, d)
        PROVE  i \in DOMAIN outbox' /\ (outbox[i].registered => outbox'[i].registered)
    BY <2>3, RewritesOne
  <2> QED
    BY <2>1, <2>2, <2>3 DEF OutboxChange
<1>2. CASE ~ HandSender
  <2>1. handRows' = handRows /\ handRow' = handRow
    BY <1>2, HandIsOnlyBy
  <2>2. /\ handRows' \subseteq DOMAIN outbox' /\ handRow' \in DOMAIN outbox' \cup {None}
        /\ handRow' # None => outbox'[handRow'].registered
        /\ SenderIsFree => SenderIsFree'
    BY <1>1, <2>1 DEF HandOK, SenderIsFree
  <2>3. \/ overtaken' = FALSE
        \/ overtaken' = overtaken /\ (step["closeout"] = "upsert" => step'["closeout"] = "upsert")
    BY <1>2, OvertakenStays
  <2>4. /\ overtaken' \in BOOLEAN /\ (overtaken' => step'["closeout"] = "upsert")
        /\ overtaken' => overtaken
    <3>1. overtaken \in BOOLEAN /\ (overtaken => step["closeout"] = "upsert")
      BY DEF HandOK
    <3>2. CASE overtaken' = FALSE
      BY <3>2
    <3>3. CASE overtaken' = overtaken /\ (step["closeout"] = "upsert" => step'["closeout"] = "upsert")
      BY <3>1, <3>3
    <3> QED
      BY <2>3, <3>2, <3>3
  <2> QED
    BY <2>2, <2>4, Zenon DEF HandOK
<1>3. CASE HandSender
  <2>1. step' = step
    BY <1>3, HandSenderElsewhere DEF unitVars
  <2>2. ~ HandSenderStarts => SenderIsShared
    BY <1>3 DEF HandSender, HandSenderRegisters, HandSenderConcludes, HandSenderEnds,
                SenderIsFree, HandOK
  <2>3. SenderIsShared
    BY <2>2 DEF HandSenderStarts
  <2>4. overtaken' \in BOOLEAN /\ (overtaken' => step'["closeout"] = "upsert")
    <3>1. overtaken \in BOOLEAN /\ (overtaken => step["closeout"] = "upsert")
      BY DEF HandOK
    <3>2. \/ overtaken' = overtaken
          \/ overtaken' = (overtaken \/ (step["closeout"] = "upsert" /\ base["closeout"] = Min(handRows)))
      BY <1>3, Zenon DEF HandSender, HandSenderStarts, HandSenderRegisters,
                         HandSenderConcludes, HandSenderEnds
    <3>3. CASE overtaken' = overtaken
      BY <2>1, <3>1, <3>3
    <3>4. CASE overtaken' = (overtaken \/ (step["closeout"] = "upsert" /\ base["closeout"] = Min(handRows)))
      BY <2>1, <3>1, <3>4
    <3> QED
      BY <3>2, <3>3, <3>4
  <2>5. /\ handRows' \subseteq DOMAIN outbox' /\ handRow' \in DOMAIN outbox' \cup {None}
        /\ handRow' # None => outbox'[handRow'].registered
    <3>1. CASE HandSenderStarts
      BY <1>1, <3>1 DEF HandSenderStarts, HandOK, SenderIsFree
    <3>2. CASE HandSenderRegisters
      <4>1. Min(handRows) \in handRows
        BY <3>2, Positions, MinIsMember DEF HandSenderRegisters, HandOK, OutboxOK
      <4>2. /\ handRow' = Min(handRows) /\ handRows' \subseteq handRows
            /\ outbox' = [outbox EXCEPT ![Min(handRows)] = Touched(@)]
        BY <3>2 DEF HandSenderRegisters
      <4>3. outbox'[handRow'].registered
        BY <4>1, <4>2, Positions DEF HandOK, OutboxOK, Touched, Rows
      <4> QED
        BY <1>1, <4>1, <4>2, <4>3 DEF HandOK
    <3>3. CASE HandSenderConcludes \/ HandSenderEnds
      BY <1>1, <3>3 DEF HandSenderConcludes, HandSenderEnds, HandOK
    <3> QED
      BY <1>3, <3>1, <3>2, <3>3 DEF HandSender
  <2> QED
    BY <2>3, <2>4, <2>5 DEF HandOK
<1> QED
  BY <1>2, <1>3

\* What a unit has made sure of stays true until it uses it, whatever the other does.
LEMMA JobKnowsStep ==
    ASSUME CountsOK, WorkOK, PlacesOK, OutboxOK, HandOK, UniqueKeys, OutboxChange,
           ReconcileIsLater, [Next]_vars, base \in [Units -> Nat],
           \A v \in Units : JobKnows(v)
    PROVE  \A v \in Units : JobKnows(v)'
<1> SUFFICES ASSUME NEW v \in Units PROVE JobKnows(v)'
  OBVIOUS
<1>1. SalesReports(outbox, day[v]) \subseteq SalesReports(outbox', day[v])
  BY ReportsStay
<1>2. JobKnows(v) /\ v \in {"closeout", "reconcile"}
  BY DEF Units
<1>0. step[v] = "upsert" /\ step'[v] = "upsert" => UpsertFits(v)'
  BY <1>2, UpsertFitsStep DEF JobKnows
<1> USE <1>0, <1>1, <1>2 DEF JobKnows, JobSteps, unitVars, Go, PlacesOK, WorkOK
<1>3. CASE MidnightPasses
  BY <1>3 DEF MidnightPasses
<1>4. CASE FiguresChange
  BY <1>4 DEF FiguresChange
<1>5. CASE OtherLocks
  BY <1>5 DEF OtherLocks
<1>6. CASE OtherUnlocks
  BY <1>6 DEF OtherUnlocks
<1>7. ASSUME NEW u \in Units, TimerFires(u) PROVE JobKnows(v)'
  BY <1>7 DEF TimerFires
<1>8. ASSUME NEW u \in Units, ManualRun(u) PROVE JobKnows(v)'
  BY <1>8 DEF ManualRun
<1>9. ASSUME NEW u \in Units, TakeWrapperLock(u) PROVE JobKnows(v)'
  BY <1>9 DEF TakeWrapperLock
<1>10. ASSUME NEW u \in Units, AlreadyRunning(u) PROVE JobKnows(v)'
  BY <1>10 DEF AlreadyRunning, UnitFails
<1>11. ASSUME NEW u \in Units, StartJob(u) PROVE JobKnows(v)'
  <2> DEFINE d == daily_coo_business_date(u)
  <2>1. d \in Days /\ (u = "reconcile" /\ SalesReports(outbox, d) # {} => base'[u] \in SalesReports(outbox, d))
    BY <1>11, StartJobKnows
  <2> HIDE DEF d
  <2>2. /\ day' = [day EXCEPT ![u] = d] /\ outbox' = outbox
        /\ \/ /\ step' = [step EXCEPT ![u] = "alert"]
              /\ result' = [result EXCEPT ![u] = "missing_closeout"]
           \/ /\ step' = [step EXCEPT ![u] = "import"]
              /\ u = "reconcile" => SalesReports(outbox, d) # {}
    BY <1>11 DEF StartJob, d
  <2>3. CASE v = u
    BY <2>1, <2>2, <2>3 DEF Errors
  <2>4. CASE v # u
    BY <1>11, <2>2, <2>4 DEF StartJob
  <2> QED
    BY <2>3, <2>4
<1>12. ASSUME NEW u \in Units, Import(u) PROVE JobKnows(v)'
  <2>1. sales' = [sales EXCEPT ![day[u]] = iiko[day[u]]] /\ iiko[day[u]] \in Figures /\ day[u] \in Days
    BY <1>12 DEF Import, sync_day, CountsOK
  <2>2. sales'[day[u]] \in Figures /\ (day[v] \in Days /\ sales[day[v]] \in Figures => sales'[day[v]] \in Figures)
    BY <2>1 DEF CountsOK
  <2> QED
    BY <1>12, <2>2 DEF Import
<1>13. ASSUME NEW u \in Units, _sales_outbox_is_mutable(u) PROVE JobKnows(v)'
  <2> DEFINE i == ReportToUpsert(day[u])
  <2>1. /\ u = "closeout" /\ step[u] = "report"
        /\ day' = day /\ sales' = sales /\ outbox' = outbox /\ overtaken' = overtaken
        /\ \/ /\ i # None => IsMutable(outbox[i])
              /\ base' = [base EXCEPT ![u] = i] /\ step' = [step EXCEPT ![u] = "upsert"]
           \/ /\ step' = [step EXCEPT ![u] = "finish"] /\ base' = base
    BY <1>13 DEF _sales_outbox_is_mutable
  <2>2. day[u] \in Days /\ sales[day[u]] \in Figures
    BY <2>1
  <2>3. /\ WithKey(outbox, SalesKey(day[u], sales[day[u]])) \subseteq {i}
        /\ IF i = None THEN SalesReports(outbox, day[u]) = {} ELSE i \in SalesReports(outbox, day[u])
    BY <2>2, UpsertRow
  <2> HIDE DEF i
  <2>4. step'[u] = "upsert" => UpsertFits(u)'
    BY <2>1, <2>3 DEF UpsertFits
  <2>5. CASE v = u
    BY <2>1, <2>2, <2>4, <2>5
  <2>6. CASE v # u
    BY <2>1, <2>6
  <2> QED
    BY <2>5, <2>6
<1>30. ASSUME NEW u \in Units, _upsert_sales_outbox(u) PROVE JobKnows(v)'
  BY <1>30 DEF _upsert_sales_outbox
<1>31. CASE HandSender
  BY <1>31, HandSenderElsewhere
<1>14. ASSUME NEW u \in Units, Reconcile(u) PROVE JobKnows(v)'
  BY <1>14 DEF Reconcile
<1>15. ASSUME NEW u \in Units, _ensure_alert_outbox(u) PROVE JobKnows(v)'
  BY <1>15 DEF _ensure_alert_outbox
<1>16. ASSUME NEW u \in Units, FinishJob(u) PROVE JobKnows(v)'
  BY <1>16 DEF FinishJob
<1>17. ASSUME NEW u \in Units, SenderDelivers(u) PROVE JobKnows(v)'
  BY <1>17 DEF SenderDelivers, WrapperExits, UnitFails
<1>18. ASSUME NEW u \in Units, WrapperLockTimesOut(u) PROVE JobKnows(v)'
  BY <1>18 DEF WrapperLockTimesOut, UnitFails
<1>19. ASSUME NEW u \in Units, ImportFails(u) PROVE JobKnows(v)'
  <2>1. (step'[v] = "alert" => result'[v] \in Errors)
    BY <1>19 DEF ImportFails, Errors
  <2>2. sales' = sales \/ sales' = [sales EXCEPT ![day[u]] = iiko[day[u]]]
    BY <1>19 DEF ImportFails, sync_day
  <2>3. day[u] \in Days /\ iiko[day[u]] \in Figures
    BY <1>19 DEF ImportFails, CountsOK
  <2>4. day[v] \in Days /\ sales[day[v]] \in Figures => sales'[day[v]] \in Figures
    BY <2>2, <2>3 DEF CountsOK
  <2>5. /\ day' = day /\ base' = base /\ outbox' = outbox
        /\ step' = [step EXCEPT ![u] = "alert"] /\ step[u] = "import"
    BY <1>19 DEF ImportFails
  <2> QED
    BY <2>1, <2>4, <2>5
<1>20. ASSUME NEW u \in Units, JobRaises(u) PROVE JobKnows(v)'
  BY <1>20 DEF JobRaises
<1>21. ASSUME NEW u \in Units, JobCrashes(u) PROVE JobKnows(v)'
  BY <1>21 DEF JobCrashes, UnitFails
<1>22. ASSUME NEW u \in Units, SenderFails(u) PROVE JobKnows(v)'
  BY <1>22 DEF SenderFails, WrapperExits, UnitFails
<1>23. ASSUME NEW u \in Units, SenderIsLocked(u) PROVE JobKnows(v)'
  BY <1>23 DEF SenderIsLocked, WrapperExits, UnitFails
<1>24. CASE UNCHANGED vars
  BY <1>24 DEF vars
<1> QED
  BY <1>3, <1>4, <1>5, <1>6, <1>7, <1>8, <1>9, <1>10, <1>11, <1>12, <1>13, <1>14, <1>15,
     <1>16, <1>17, <1>18, <1>19, <1>20, <1>21, <1>22, <1>23, <1>24, <1>30, <1>31
     DEF Next, Environment, UnitStep, UnitFault

\* The row to compare with is a position.
LEMMA BaseStep ==
    ASSUME CountsOK, WorkOK, OutboxOK, ReconcileIsLater, [Next]_vars, base \in [Units -> Nat]
    PROVE  base' \in [Units -> Nat]
<1>1. ASSUME NEW u \in Units, StartJob(u) PROVE base' \in [Units -> Nat]
  BY <1>1, StartJobKnows
<1>2. ASSUME NEW u \in Units, _sales_outbox_is_mutable(u) PROVE base' \in [Units -> Nat]
  BY <1>2, RowToUpsert DEF _sales_outbox_is_mutable, OutboxOK
<1>3. ASSUME NEW u \in Units, _upsert_sales_outbox(u) PROVE base' \in [Units -> Nat]
  BY <1>3 DEF _upsert_sales_outbox, None
<1>4. base' = base \/ HandSender
        \/ \E u \in Units : StartJob(u) \/ _sales_outbox_is_mutable(u) \/ _upsert_sales_outbox(u)
  BY DEF Next, vars, unitVars, Environment, MidnightPasses, FiguresChange, OtherLocks, OtherUnlocks,
         TimerFires, ManualRun, UnitStep, TakeWrapperLock, AlreadyRunning, Import,
         Reconcile, _ensure_alert_outbox, FinishJob, SenderDelivers, UnitFault,
         WrapperLockTimesOut, ImportFails, JobRaises, JobCrashes, SenderFails, SenderIsLocked
<1>5. HandSender => base' = base
  BY HandSenderElsewhere DEF unitVars
<1> QED
  BY <1>1, <1>2, <1>3, <1>4, <1>5

\* Reconcile keeps having a day before.
LEMMA ReconcileIsLaterStep ==
    ASSUME CountsOK, WorkOK, PlacesOK, ReconcileIsLater, [Next]_vars
    PROVE  ReconcileIsLater'
<1>1. /\ today \in Nat /\ today >= 1 /\ \A d \in Days : d \in Nat /\ d >= 1
      /\ fired["reconcile"] \in Nat /\ None \notin Days
  <2>1. fired["reconcile"] \in Days \cup {0}
    BY DEF WorkOK, Units, None
  <2>2. \A d \in Days : d \in Nat /\ d >= 1
    BY DaysAreNumbers
  <2> QED
    BY <2>1, <2>2, DaysAreNumbers DEF CountsOK
<1> USE <1>1 DEF ReconcileIsLater, WrapperSteps, JobSteps, unitVars, Go, Idle, PlacesOK, WorkOK, Units
<1>2. CASE MidnightPasses
  BY <1>2 DEF MidnightPasses
<1>3. CASE FiguresChange
  BY <1>3 DEF FiguresChange
<1>4. CASE OtherLocks
  BY <1>4 DEF OtherLocks
<1>5. CASE OtherUnlocks
  BY <1>5 DEF OtherUnlocks
<1>6. ASSUME NEW u \in Units, TimerFires(u) PROVE ReconcileIsLater'
  BY <1>6 DEF TimerFires
<1>7. ASSUME NEW u \in Units, ManualRun(u) PROVE ReconcileIsLater'
  <2>1. PICK d \in 1 .. today : given' = [given EXCEPT ![u] = d]
    BY <1>7 DEF ManualRun
  <2> QED
    BY <1>7, <2>1 DEF ManualRun, None
<1>8. ASSUME NEW u \in Units, TakeWrapperLock(u) PROVE ReconcileIsLater'
  BY <1>8 DEF TakeWrapperLock
<1>9. ASSUME NEW u \in Units, AlreadyRunning(u) PROVE ReconcileIsLater'
  BY <1>9 DEF AlreadyRunning, UnitFails
<1>10. ASSUME NEW u \in Units, StartJob(u) PROVE ReconcileIsLater'
  BY <1>10 DEF StartJob
<1>11. ASSUME NEW u \in Units, Import(u) PROVE ReconcileIsLater'
  BY <1>11 DEF Import
<1>12. ASSUME NEW u \in Units, _sales_outbox_is_mutable(u) PROVE ReconcileIsLater'
  BY <1>12 DEF _sales_outbox_is_mutable
<1>30. ASSUME NEW u \in Units, _upsert_sales_outbox(u) PROVE ReconcileIsLater'
  BY <1>30 DEF _upsert_sales_outbox
<1>31. CASE HandSender
  BY <1>31, HandSenderElsewhere
<1>13. ASSUME NEW u \in Units, Reconcile(u) PROVE ReconcileIsLater'
  BY <1>13 DEF Reconcile
<1>14. ASSUME NEW u \in Units, _ensure_alert_outbox(u) PROVE ReconcileIsLater'
  BY <1>14 DEF _ensure_alert_outbox
<1>15. ASSUME NEW u \in Units, FinishJob(u) PROVE ReconcileIsLater'
  BY <1>15 DEF FinishJob
<1>16. ASSUME NEW u \in Units, SenderDelivers(u) PROVE ReconcileIsLater'
  BY <1>16 DEF SenderDelivers, WrapperExits, UnitFails
<1>17. ASSUME NEW u \in Units, WrapperLockTimesOut(u) PROVE ReconcileIsLater'
  BY <1>17 DEF WrapperLockTimesOut, UnitFails
<1>18. ASSUME NEW u \in Units, ImportFails(u) PROVE ReconcileIsLater'
  BY <1>18 DEF ImportFails
<1>19. ASSUME NEW u \in Units, JobRaises(u) PROVE ReconcileIsLater'
  BY <1>19 DEF JobRaises
<1>20. ASSUME NEW u \in Units, JobCrashes(u) PROVE ReconcileIsLater'
  BY <1>20 DEF JobCrashes, UnitFails
<1>21. ASSUME NEW u \in Units, SenderFails(u) PROVE ReconcileIsLater'
  BY <1>21 DEF SenderFails, WrapperExits, UnitFails
<1>22. ASSUME NEW u \in Units, SenderIsLocked(u) PROVE ReconcileIsLater'
  BY <1>22 DEF SenderIsLocked, WrapperExits, UnitFails
<1>23. CASE UNCHANGED vars
  BY <1>23 DEF vars
<1> QED
  BY <1>2, <1>3, <1>4, <1>5, <1>6, <1>7, <1>8, <1>9, <1>10, <1>11, <1>12, <1>13, <1>14,
     <1>15, <1>16, <1>17, <1>18, <1>19, <1>20, <1>21, <1>22, <1>23, <1>30, <1>31
     DEF Next, Environment, UnitStep, UnitFault

-----------------------------------------------------------------------------
(* Theorems for every way the program is used *)

\* The invariant holds at first.
LEMMA CooInit == Init => CooInv
<1> SUFFICES ASSUME Init PROVE CooInv
  OBVIOUS
<1> USE DEF Init
<1>1. DOMAIN outbox = {}
  OBVIOUS
<1>2. Min(Figures) \in Figures
  BY DailyCooAssumption, MinIsMember
<1>3. CountsOK
  BY <1>2, BoundsAreNumbers, DaysAreNumbers DEF CountsOK
<1>4. WorkOK
  BY DaysAreNumbers DEF WorkOK, Results, None
<1>5. PlacesOK
  BY DEF PlacesOK, JobSteps, WrapperSteps, Units
<1>6. base \in [Units -> Nat] /\ HandOK
  BY DEF None, HandOK, SenderIsFree
<1>7. OutboxOK
  BY <1>1 DEF OutboxOK
<1>8. UniqueKeys
  BY <1>1 DEF UniqueKeys, KeysAreUnique
<1>9. OneSalesReportPerDay
  BY <1>1, <1>7, OneReportAgain DEF NoTwoReports, OutboxOK
<1>10. \A u \in Units : JobKnows(u)
  BY DEF JobKnows, JobSteps
<1>11. ReconcileIsLater
  BY DEF ReconcileIsLater, WrapperSteps, JobSteps, Units
<1>12. TypeOK
  BY <1>3, <1>4, <1>5, <1>6, <1>7 DEF CountsOK, WorkOK, PlacesOK, OutboxOK, HandOK, TypeOK
<1> QED
  BY <1>7, <1>8, <1>9, <1>10, <1>11, <1>12 DEF CooInv, OutboxOK

\* The invariant in the parts the lemmas speak of.
LEMMA CooParts ==
    CooInv <=> /\ CountsOK /\ WorkOK /\ PlacesOK /\ base \in [Units -> Nat]
               /\ HandOK /\ OutboxOK /\ UniqueKeys /\ NoTwoReports
               /\ (\A u \in Units : JobKnows(u)) /\ ReconcileIsLater
<1>1. TypeOK /\ (\A i \in DOMAIN outbox : Fits(outbox[i])) <=>
        CountsOK /\ WorkOK /\ PlacesOK /\ base \in [Units -> Nat] /\ HandOK /\ OutboxOK
  BY DEF TypeOK, CountsOK, WorkOK, PlacesOK, HandOK, OutboxOK
<1>2. OutboxOK => (OneSalesReportPerDay <=> NoTwoReports)
  BY OneReportAgain DEF OutboxOK
<1> QED
  BY <1>1, <1>2 DEF CooInv

\* Under the invariant every step is one of the three changes.
LEMMA CooChange ==
    ASSUME CooInv, [Next]_vars
    PROVE  OutboxChange
BY CooParts, OutboxStep DEF OutboxChange

\* Every step keeps the invariant.
LEMMA CooStep == CooInv /\ [Next]_vars => CooInv'
<1> SUFFICES ASSUME CooInv, [Next]_vars PROVE CooInv'
  OBVIOUS
<1>1. /\ CountsOK /\ WorkOK /\ PlacesOK /\ base \in [Units -> Nat]
      /\ HandOK /\ OutboxOK /\ UniqueKeys /\ NoTwoReports
      /\ (\A u \in Units : JobKnows(u)) /\ ReconcileIsLater
  BY CooParts
<1>2. OutboxChange
  BY CooChange
<1>3. CountsOK' /\ PlacesOK'
  BY <1>1, CountsStep, PlacesStep
<1>4. WorkOK'
  BY <1>1, WorkStep DEF CountsOK
<1>5. OutboxOK' /\ UniqueKeys' /\ NoTwoReports' /\ HandOK'
  BY <1>1, <1>2, OutboxOKStep, UniqueKeysStep, OneReportStep, HandStep
<1>6. \A u \in Units : JobKnows(u)'
  BY <1>1, <1>2, JobKnowsStep
<1>7. (base \in [Units -> Nat])' /\ ReconcileIsLater'
  BY <1>1, BaseStep, ReconcileIsLaterStep
<1>8. (CooInv <=> /\ CountsOK /\ WorkOK /\ PlacesOK /\ base \in [Units -> Nat]
                  /\ HandOK /\ OutboxOK /\ UniqueKeys /\ NoTwoReports
                  /\ (\A u \in Units : JobKnows(u)) /\ ReconcileIsLater)'
  BY CooParts, PTL
<1> QED
  BY <1>3, <1>4, <1>5, <1>6, <1>7, <1>8

\* The state is well formed, and what rows say goes with their keys, whatever the
\* units, operators and faults do.
THEOREM CooInvariant == Spec => []CooInv
BY CooInit, CooStep, PTL DEF Spec

\* Types.
THEOREM CooTypeCorrect == Spec => []TypeOK
<1>1. CooInv => TypeOK
  BY DEF CooInv
<1> QED
  BY <1>1, CooInvariant, PTL

\* However often closeout runs, a day has one sales report.
THEOREM OneSalesReport == Spec => []OneSalesReportPerDay
<1>1. CooInv => OneSalesReportPerDay
  BY DEF CooInv
<1> QED
  BY <1>1, CooInvariant, PTL

\* No job meets the unique constraint on idempotency keys.
THEOREM KeysStayUnique == Spec => []UniqueKeys
<1>1. CooInv => UniqueKeys
  BY DEF CooInv
<1> QED
  BY <1>1, CooInvariant, PTL

\* Each of the three changes leaves registered texts alone, but for the row that was
\* registered while closeout was about to rewrite it.
LEMMA SentTextStep == CooInv /\ [Next]_vars => SentTextStays
<1> SUFFICES ASSUME CooInv, [Next]_vars PROVE SentTextStays
  OBVIOUS
<1>1. OutboxOK /\ OutboxChange
  BY CooParts, CooChange
<1>2. \A i \in DOMAIN outbox : outbox[i].status = "delivered" => outbox[i].registered
  BY <1>1 DEF OutboxOK
<1>3. CASE Kept
  BY <1>3 DEF Kept, Same, SentTextStays
<1>4. ASSUME NEW row \in Rows, Grows(row) PROVE SentTextStays
  BY <1>1, <1>4, GrowsBy DEF SentTextStays
<1>5. ASSUME NEW i \in DOMAIN outbox, NEW d \in Days, Rewrites(i, d) PROVE SentTextStays
  <2>1. /\ overtaken \/ ~ outbox[i].registered
        /\ \A j \in DOMAIN outbox : j # i => outbox'[j] = outbox[j]
    BY <1>1, <1>5, RewritesOne
  <2>2. i = base["closeout"]
    BY <1>5 DEF Rewrites
  <2> QED
    BY <1>2, <2>1, <2>2 DEF SentTextStays
<1> QED
  BY <1>1, <1>3, <1>4, <1>5 DEF OutboxChange

\* No text is rewritten that some chat may have read, over restarts, manual closeouts
\* and changes of the figures, unless a sender run by hand has registered the row
\* between closeout's test (_sales_outbox_is_mutable) and its commit.
THEOREM SentTextForGood == Spec => SentTextIsFinal
<1>1. CooInv /\ [Next]_vars => [SentTextStays]_vars
  BY SentTextStep
<1> QED
  BY <1>1, CooInvariant, PTL DEF Spec, SentTextIsFinal

\* While nobody runs the sender by hand beside the units, none is rewritten at all:
\* the wrapper's lock keeps closeout and the sender apart.
THEOREM SentTextForGoodAlone ==
    ASSUME SenderIsShared = FALSE
    PROVE  Spec => [][SentTextNeverChanges]_vars
<1>1. CooInv /\ [Next]_vars => [SentTextNeverChanges]_vars
  <2> SUFFICES ASSUME CooInv, [Next]_vars PROVE SentTextNeverChanges
    OBVIOUS
  <2>1. SentTextStays
    BY SentTextStep
  <2>2. ~ overtaken
    BY CooParts DEF HandOK
  <2> QED
    BY <2>1, <2>2 DEF SentTextStays, SentTextNeverChanges
<1> QED
  BY <1>1, CooInvariant, PTL DEF Spec

-----------------------------------------------------------------------------
(* With one sender *)

\* With one sender, only a sender run that delivered everything ends a unit well.
LEMMA SuccessStep ==
    ASSUME CooInv, [Next]_vars, SenderIsShared = FALSE
    PROVE  SuccessSends
<1> SUFFICES ASSUME NEW v \in Units, step[v] = "sender", step'[v] = "done"
             PROVE  Unsent(outbox', day[v]) = {}
  BY DEF SuccessSends
<1>1. PlacesOK /\ OutboxOK /\ SenderIsFree
  BY CooParts DEF HandOK
<1> DEFINE goal == Unsent(outbox', day[v]) = {}
<1> HIDE DEF goal
<1> SUFFICES goal
  BY DEF goal
<1> USE <1>1 DEF PlacesOK, unitVars, Go
<1>2. CASE MidnightPasses
  BY <1>2 DEF MidnightPasses
<1>3. CASE FiguresChange
  BY <1>3 DEF FiguresChange
<1>4. CASE OtherLocks
  BY <1>4 DEF OtherLocks
<1>5. CASE OtherUnlocks
  BY <1>5 DEF OtherUnlocks
<1>6. ASSUME NEW u \in Units, TimerFires(u) PROVE goal
  BY <1>6 DEF TimerFires
<1>7. ASSUME NEW u \in Units, ManualRun(u) PROVE goal
  BY <1>7 DEF ManualRun
<1>8. ASSUME NEW u \in Units, TakeWrapperLock(u) PROVE goal
  BY <1>8 DEF TakeWrapperLock
<1>9. ASSUME NEW u \in Units, AlreadyRunning(u) PROVE goal
  BY <1>9 DEF AlreadyRunning, UnitFails
<1>10. ASSUME NEW u \in Units, StartJob(u) PROVE goal
  BY <1>10 DEF StartJob
<1>11. ASSUME NEW u \in Units, Import(u) PROVE goal
  BY <1>11 DEF Import
<1>12. ASSUME NEW u \in Units, _sales_outbox_is_mutable(u) PROVE goal
  BY <1>12 DEF _sales_outbox_is_mutable
<1>30. ASSUME NEW u \in Units, _upsert_sales_outbox(u) PROVE goal
  BY <1>30 DEF _upsert_sales_outbox
<1>31. CASE HandSender
  BY <1>31, HandSenderElsewhere
<1>13. ASSUME NEW u \in Units, Reconcile(u) PROVE goal
  BY <1>13 DEF Reconcile
<1>14. ASSUME NEW u \in Units, _ensure_alert_outbox(u) PROVE goal
  BY <1>14 DEF _ensure_alert_outbox
<1>15. ASSUME NEW u \in Units, FinishJob(u) PROVE goal
  BY <1>15 DEF FinishJob
<1>16. ASSUME NEW u \in Units, SenderDelivers(u) PROVE goal
  <2>1. u = v
    BY <1>16 DEF SenderDelivers, WrapperExits, UnitFails
  <2>2. /\ DOMAIN outbox' = DOMAIN outbox
        /\ \A i \in DOMAIN outbox :
             outbox'[i] = IF i \in Unsent(outbox, day[v]) THEN Delivered(outbox[i]) ELSE outbox[i]
    BY <1>16, <2>1 DEF SenderDelivers
  <2>3. \A i \in DOMAIN outbox : i \notin Unsent(outbox', day[v])
    <3> SUFFICES ASSUME NEW i \in DOMAIN outbox PROVE i \notin Unsent(outbox', day[v])
      OBVIOUS
    <3>1. CASE i \in Unsent(outbox, day[v])
      <4>1. outbox'[i] = Delivered(outbox[i]) /\ outbox[i] \in Rows
        BY <2>2, <3>1, Positions DEF OutboxOK
      <4>2. outbox'[i].status = "delivered"
        BY <4>1 DEF Delivered, Rows
      <4> QED
        BY <4>2 DEF Unsent
    <3>2. CASE i \notin Unsent(outbox, day[v])
      BY <2>2, <3>2 DEF Unsent, OfDay
    <3> QED
      BY <3>1, <3>2
  <2> QED
    BY <2>2, <2>3 DEF goal, Unsent, OfDay
<1>17. ASSUME NEW u \in Units, WrapperLockTimesOut(u) PROVE goal
  BY <1>17 DEF WrapperLockTimesOut, UnitFails
<1>18. ASSUME NEW u \in Units, ImportFails(u) PROVE goal
  BY <1>18 DEF ImportFails
<1>19. ASSUME NEW u \in Units, JobRaises(u) PROVE goal
  BY <1>19 DEF JobRaises
<1>20. ASSUME NEW u \in Units, JobCrashes(u) PROVE goal
  BY <1>20 DEF JobCrashes, UnitFails
<1>21. ASSUME NEW u \in Units, SenderFails(u) PROVE goal
  BY <1>21 DEF SenderFails, WrapperExits, UnitFails
<1>22. ASSUME NEW u \in Units, SenderIsLocked(u) PROVE goal
  BY <1>22 DEF SenderIsLocked
<1>23. CASE UNCHANGED vars
  BY <1>23 DEF vars
<1> QED
  BY <1>2, <1>3, <1>4, <1>5, <1>6, <1>7, <1>8, <1>9, <1>10, <1>11, <1>12, <1>13, <1>14,
     <1>15, <1>16, <1>17, <1>18, <1>19, <1>20, <1>21, <1>22, <1>23, <1>30, <1>31
     DEF Next, Environment, UnitStep, UnitFault

\* While nobody runs the sender by hand, a unit that ends successfully has
\* sent what its day had to send.
THEOREM SuccessIsSent ==
    ASSUME SenderIsShared = FALSE
    PROVE  Spec => SuccessMeansSent
<1>1. CooInv /\ [Next]_vars => [SuccessSends]_vars
  BY SuccessStep
<1> QED
  BY <1>1, CooInvariant, PTL DEF Spec, SuccessMeansSent

-----------------------------------------------------------------------------
(* The timers alone *)

\* Days are kept: who works, works for its own day.
OwnDays ==
    /\ \A u \in Units : given[u] = None
    /\ step["closeout"] \in JobSteps => day["closeout"] = today
    /\ step["reconcile"] \in JobSteps => day["reconcile"] = today - 1

\* Midnight passes between the units' runs, so each keeps working for its own day.
LEMMA OwnDaysStep ==
    ASSUME CountsOK, WorkOK, PlacesOK, OwnDays, [Next]_vars,
           MaxManualRuns = 0, RunsPassMidnight = FALSE
    PROVE  OwnDays'
<1> USE DEF OwnDays, PlacesOK, WorkOK, unitVars, Go, Units, JobSteps, Idle
<1>1. CASE MidnightPasses
  <2>1. \A u \in Units : step[u] \in {"off", "done"}
    BY <1>1 DEF MidnightPasses
  <2> QED
    BY <1>1, <2>1 DEF MidnightPasses
<1>2. CASE FiguresChange
  BY <1>2 DEF FiguresChange
<1>3. CASE OtherLocks
  BY <1>3 DEF OtherLocks
<1>4. CASE OtherUnlocks
  BY <1>4 DEF OtherUnlocks
<1>5. ASSUME NEW u \in Units, TimerFires(u) PROVE OwnDays'
  BY <1>5 DEF TimerFires
<1>6. ASSUME NEW u \in Units, ManualRun(u) PROVE OwnDays'
  <2>1. manualRuns < 0 /\ manualRuns \in 0 .. 0
    BY <1>6 DEF ManualRun, CountsOK
  <2> QED
    BY <2>1
<1>7. ASSUME NEW u \in Units, TakeWrapperLock(u) PROVE OwnDays'
  BY <1>7 DEF TakeWrapperLock
<1>8. ASSUME NEW u \in Units, AlreadyRunning(u) PROVE OwnDays'
  BY <1>8 DEF AlreadyRunning, UnitFails
<1>9. ASSUME NEW u \in Units, StartJob(u) PROVE OwnDays'
  <2> DEFINE d == daily_coo_business_date(u)
  <2>1. d = IF u = "closeout" THEN today ELSE today - 1
    BY DateIsDay DEF CountsOK
  <2> HIDE DEF d
  <2>2. day' = [day EXCEPT ![u] = d] /\ today' = today /\ given' = given
    BY <1>9 DEF StartJob, d
  <2>3. \A v \in Units : v # u => step'[v] = step[v]
    BY <1>9 DEF StartJob
  <2> QED
    BY <2>1, <2>2, <2>3
<1>10. ASSUME NEW u \in Units, Import(u) PROVE OwnDays'
  BY <1>10 DEF Import
<1>11. ASSUME NEW u \in Units, _sales_outbox_is_mutable(u) PROVE OwnDays'
  BY <1>11 DEF _sales_outbox_is_mutable
<1>30. ASSUME NEW u \in Units, _upsert_sales_outbox(u) PROVE OwnDays'
  BY <1>30 DEF _upsert_sales_outbox
<1>31. CASE HandSender
  BY <1>31, HandSenderElsewhere
<1>12. ASSUME NEW u \in Units, Reconcile(u) PROVE OwnDays'
  BY <1>12 DEF Reconcile
<1>13. ASSUME NEW u \in Units, _ensure_alert_outbox(u) PROVE OwnDays'
  BY <1>13 DEF _ensure_alert_outbox
<1>14. ASSUME NEW u \in Units, FinishJob(u) PROVE OwnDays'
  BY <1>14 DEF FinishJob
<1>15. ASSUME NEW u \in Units, SenderDelivers(u) PROVE OwnDays'
  BY <1>15 DEF SenderDelivers, WrapperExits, UnitFails
<1>16. ASSUME NEW u \in Units, WrapperLockTimesOut(u) PROVE OwnDays'
  BY <1>16 DEF WrapperLockTimesOut, UnitFails
<1>17. ASSUME NEW u \in Units, ImportFails(u) PROVE OwnDays'
  BY <1>17 DEF ImportFails
<1>18. ASSUME NEW u \in Units, JobRaises(u) PROVE OwnDays'
  BY <1>18 DEF JobRaises
<1>19. ASSUME NEW u \in Units, JobCrashes(u) PROVE OwnDays'
  BY <1>19 DEF JobCrashes, UnitFails
<1>20. ASSUME NEW u \in Units, SenderFails(u) PROVE OwnDays'
  BY <1>20 DEF SenderFails, WrapperExits, UnitFails
<1>21. ASSUME NEW u \in Units, SenderIsLocked(u) PROVE OwnDays'
  BY <1>21 DEF SenderIsLocked, WrapperExits, UnitFails
<1>22. CASE UNCHANGED vars
  BY <1>22 DEF vars
<1> QED
  BY <1>1, <1>2, <1>3, <1>4, <1>5, <1>6, <1>7, <1>8, <1>9, <1>10, <1>11, <1>12, <1>13,
     <1>14, <1>15, <1>16, <1>17, <1>18, <1>19, <1>20, <1>21, <1>22, <1>30, <1>31
     DEF Next, Environment, UnitStep, UnitFault

\* A day's corrections come after it has ended, and quote its report.
Quoted ==
    /\ CorrectionsStartFromTheReport
    /\ \A i \in DOMAIN outbox : outbox[i].type = "correction" => outbox[i].day < today

\* The invariant of the timers in the parts the lemmas speak of.
LEMMA TimersParts == TimersInv <=> CooInv /\ OwnDays /\ Quoted
BY DEF TimersInv, OwnDays, Quoted

\* Time does not go back.
LEMMA TodayGrows ==
    ASSUME CountsOK, [Next]_vars
    PROVE  today \in Nat /\ today' \in Nat /\ today =< today'
<1>0. HandSender => today' = today
  BY HandSenderElsewhere
<1>1. today' = today \/ today' = today + 1
  BY <1>0, ZenonT(40) DEF Next, vars, unitVars, Environment, MidnightPasses, FiguresChange, OtherLocks, OtherUnlocks,
         TimerFires, ManualRun, UnitStep, TakeWrapperLock, AlreadyRunning, StartJob, Import,
         _sales_outbox_is_mutable, _upsert_sales_outbox,
         Reconcile, _ensure_alert_outbox, FinishJob, SenderDelivers, UnitFault,
         WrapperLockTimesOut, ImportFails, JobRaises, JobCrashes, SenderFails, SenderIsLocked
<1>2. today \in Nat
  BY DaysAreNumbers DEF CountsOK
<1> QED
  BY <1>1, <1>2

\* As long as no report of a past day is rewritten, and corrections quote one.
LEMMA QuotedStep ==
    ASSUME CooInv, OwnDays, Quoted, [Next]_vars
    PROVE  Quoted'
<1>1. OutboxOK /\ HandOK /\ PlacesOK /\ CountsOK /\ (\A u \in Units : JobKnows(u)) /\ UniqueKeys
  BY CooParts
<1>2. today \in Nat /\ today' \in Nat /\ today =< today'
  BY <1>1, TodayGrows
<1>3. \A i \in DOMAIN outbox : outbox[i].day \in Nat /\ outbox[i].day \in Days
  BY <1>1, Positions, DaysAreNumbers DEF OutboxOK, Rows
<1> USE DEF CorrectionsStartFromTheReport, SalesReports, OfDay
<1>4. ASSUME Kept PROVE Quoted'
  <2>1. \A i \in DOMAIN outbox : Same(outbox'[i], outbox[i])
    BY <1>4 DEF Kept
  <2>2. \A i \in DOMAIN outbox' : outbox'[i].type = "correction" => outbox'[i].day < today'
    BY <1>2, <1>3, <1>4, <2>1 DEF Kept, Same, Quoted
  <2>3. CorrectionsStartFromTheReport'
    BY <1>4, <2>1 DEF Kept, Same, Quoted, FiguresOf
  <2> QED
    BY <2>2, <2>3 DEF Quoted
<1>5. outbox' = outbox => Kept
  BY <1>1, Positions DEF Kept, Same, OutboxOK
<1>6. ASSUME NEW row \in Rows, Grows(row),
             row.type = "correction" =>
               /\ row.day < today
               /\ \E j \in SalesReports(outbox, row.day) : row.text[1] = Shown[FiguresOf(outbox[j])]
      PROVE  Quoted'
  <2>1. /\ DOMAIN outbox' = DOMAIN outbox \cup {Len(outbox) + 1} /\ outbox'[Len(outbox) + 1] = row
        /\ \A i \in DOMAIN outbox : outbox'[i] = outbox[i]
    BY <1>1, <1>6, GrowsBy
  <2>2. row.day \in Nat
    BY DaysAreNumbers DEF Rows
  <2>3. \A i \in DOMAIN outbox' : outbox'[i].type = "correction" => outbox'[i].day < today'
    BY <1>2, <1>3, <1>6, <2>1, <2>2 DEF Quoted
  <2>4. \A i \in DOMAIN outbox : outbox[i].type = "correction" =>
          \E j \in SalesReports(outbox', outbox[i].day) :
            outbox[i].text[1] = Shown[FiguresOf(outbox'[j])]
    BY <2>1 DEF Quoted, FiguresOf
  <2>5. row.type = "correction" =>
          \E j \in SalesReports(outbox', row.day) : row.text[1] = Shown[FiguresOf(outbox'[j])]
    BY <1>6, <2>1 DEF FiguresOf
  <2> QED
    BY <2>1, <2>3, <2>4, <2>5 DEF Quoted
<1>7. ASSUME NEW i \in DOMAIN outbox, Rewrites(i, today) PROVE Quoted'
  <2>1. today \in Days
    BY <1>7 DEF Rewrites
  <2>2. /\ DOMAIN outbox' = DOMAIN outbox /\ outbox'[i].type = "sales" /\ outbox[i].type = "sales"
        /\ outbox'[i].day = today /\ outbox[i].day = today
        /\ \A j \in DOMAIN outbox : j # i => outbox'[j] = outbox[j]
    BY <1>1, <1>7, <2>1, RewritesOne
  <2>3. \A j \in DOMAIN outbox' : outbox'[j].type = "correction" => outbox'[j].day < today'
    BY <1>2, <1>3, <2>2 DEF Quoted
  <2>4. ASSUME NEW j \in DOMAIN outbox', outbox'[j].type = "correction"
        PROVE  \E k \in SalesReports(outbox', outbox'[j].day) :
                 outbox'[j].text[1] = Shown[FiguresOf(outbox'[k])]
    <3>1. j # i /\ outbox'[j] = outbox[j] /\ j \in DOMAIN outbox
      BY <2>2, <2>4
    <3>2. PICK k \in SalesReports(outbox, outbox[j].day) :
            outbox[j].text[1] = Shown[FiguresOf(outbox[k])]
      BY <2>4, <3>1 DEF Quoted
    <3>3. k # i
      BY <1>2, <1>3, <2>2, <2>4, <3>1, <3>2 DEF Quoted
    <3>4. outbox'[k] = outbox[k] /\ k \in SalesReports(outbox', outbox'[j].day)
      BY <2>2, <3>1, <3>2, <3>3
    <3> QED
      BY <3>1, <3>2, <3>4
  <2> QED
    BY <2>3, <2>4 DEF Quoted
<1>8. ASSUME NEW u \in Units, _upsert_sales_outbox(u) PROVE Quoted'
  <2>1. step[u] = "upsert" /\ JobKnows(u) /\ day[u] \in Days
    BY <1>1, <1>8 DEF _upsert_sales_outbox, JobKnows, JobSteps
  <2>2. /\ u = "closeout"
        /\ \/ \E row \in Rows : Grows(row) /\ row.type = "sales"
           \/ \E i \in DOMAIN outbox : Rewrites(i, day[u])
    BY <1>1, <1>8, <2>1, UpsertStep
  <2>3. day[u] = today
    BY <2>1, <2>2 DEF OwnDays, JobSteps
  <2> QED
    BY <1>6, <1>7, <2>2, <2>3
<1>9. ASSUME NEW u \in Units, Reconcile(u) PROVE Quoted'
  <2>1. u = "reconcile" /\ step[u] = "report"
    BY <1>9 DEF Reconcile
  <2>2. day[u] = today - 1 /\ day[u] \in Days /\ base[u] \in SalesReports(outbox, day[u])
    BY <1>1, <2>1 DEF OwnDays, JobSteps, JobKnows
  <2>3. \/ outbox' = outbox
        \/ \E row \in Rows :
             /\ Grows(row) /\ row.type = "correction" /\ row.day = day[u]
             /\ row.text[1] = Shown[FiguresOf(outbox[base[u]])]
    BY <1>1, <1>9, <2>2, ReconcileStep
  <2>4. day[u] < today
    BY <1>2, <2>2
  <2> QED
    BY <1>4, <1>5, <1>6, <2>2, <2>3, <2>4
<1>10. ASSUME NEW u \in Units, _ensure_alert_outbox(u) PROVE Quoted'
  <2>1. day[u] \in Days
    BY <1>1, <1>10 DEF JobKnows, JobSteps, _ensure_alert_outbox
  <2>2. \/ outbox' = outbox
        \/ \E row \in Rows : Grows(row) /\ row.type = "alert"
    BY <1>1, <1>10, <2>1, AlertStep
  <2> QED
    BY <1>4, <1>5, <1>6, <2>2
<1>11. ASSUME NEW u \in Units, SenderDelivers(u) \/ SenderFails(u) PROVE Quoted'
  BY <1>1, <1>4, <1>11, SenderStep
<1>12. ASSUME HandSender PROVE Quoted'
  BY <1>1, <1>4, <1>12, HandSenderStep
<1> QED
  BY <1>4, <1>5, <1>8, <1>9, <1>10, <1>11, <1>12, OutboxWriters

\* The invariant of the timers holds at first.
LEMMA TimersInit == Init => TimersInv
<1> SUFFICES ASSUME Init PROVE TimersInv
  OBVIOUS
<1>1. CooInv
  BY CooInit
<1>2. OwnDays /\ Quoted
  BY DEF Init, OwnDays, Quoted, JobSteps, Units, CorrectionsStartFromTheReport
<1> QED
  BY <1>1, <1>2, TimersParts

\* Every step keeps it, under the two conditions.
LEMMA TimersStep ==
    ASSUME MaxManualRuns = 0, RunsPassMidnight = FALSE
    PROVE  TimersInv /\ [Next]_vars => TimersInv'
<1> SUFFICES ASSUME TimersInv, [Next]_vars PROVE TimersInv'
  OBVIOUS
<1>1. CooInv /\ OwnDays /\ Quoted
  BY TimersParts
<1>2. CooInv'
  BY <1>1, CooStep
<1>3. OwnDays' /\ Quoted'
  BY <1>1, CooParts, OwnDaysStep, QuotedStep
<1> QED
  BY <1>2, <1>3 DEF TimersInv, OwnDays, Quoted

\* Without runs by hand, and without units that are late or wait past midnight,
\* units keep to their days.
THEOREM TimersInvariant ==
    ASSUME MaxManualRuns = 0, RunsPassMidnight = FALSE
    PROVE  Spec => []TimersInv
<1>1. TimersInv /\ [Next]_vars => TimersInv'
  BY TimersStep
<1> QED
  BY <1>1, TimersInit, PTL DEF Spec

\* Under the same conditions a correction's old metrics are those of the day's
\* sales report, for any figures, any number of faults and any restarts.
THEOREM CorrectionsQuoteTheReport ==
    ASSUME MaxManualRuns = 0, RunsPassMidnight = FALSE
    PROVE  Spec => []CorrectionsStartFromTheReport
<1>1. TimersInv => CorrectionsStartFromTheReport
  BY DEF TimersInv
<1> QED
  BY <1>1, TimersInvariant, PTL

-----------------------------------------------------------------------------
(* Readers are told what reconcile imported *)

\* Figures are numbers, with or without the lack of them.
LEMMA FiguresAreNumbers == Figures \cup {None} \subseteq Nat
BY DailyCooAssumption DEF None

\* Metrics seen no later than some figures that show what those show are not
\* behind others that are.
LEMMA NoReturn ==
    ASSUME MetricsNeverReturn, NEW s \in Figures, NEW h \in Figures, h <= s,
           Before(Shown[s], Shown[h])
    PROVE  Shown[h] = Shown[s]
<1>1. PICK f, g \in Figures : f <= g /\ Shown[f] = Shown[s] /\ Shown[g] = Shown[h]
  BY DEF Before
<1>2. f \in Nat /\ g \in Nat /\ h \in Nat /\ s \in Nat
  BY FiguresAreNumbers
<1>3. CASE g <= s
  BY <1>1, <1>3 DEF MetricsNeverReturn
<1>4. CASE s <= g
  BY <1>1, <1>4 DEF MetricsNeverReturn
<1> QED
  BY <1>2, <1>3, <1>4

\* A report of a day that says what was imported last is as good as the newest.
LEMMA NewestSaysIt ==
    ASSUME outbox \in Seq(Rows), MetricsNeverReturn, NEW d, sales[d] \in Figures, TellsInOrder(d),
           NEW k \in ReportsOf(outbox, d), Says(outbox[k]) = Shown[sales[d]]
    PROVE  Told(outbox, d) = Shown[sales[d]]
<1> DEFINE M == Max(ReportsOf(outbox, d))
<1>1. ReportsOf(outbox, d) \subseteq 1 .. Len(outbox) /\ Len(outbox) \in Nat
  BY Positions DEF ReportsOf, OfDay
<1>2. M \in ReportsOf(outbox, d) /\ k <= M
  BY <1>1, MaxIsMember
<1> HIDE DEF M
<1>3. PICK h \in Figures : h <= sales[d] /\ Shown[h] = Says(outbox[M])
  BY <1>2 DEF TellsInOrder
<1>4. Before(Shown[sales[d]], Shown[h])
  BY <1>2, <1>3 DEF TellsInOrder
<1>5. Shown[h] = Shown[sales[d]]
  BY <1>3, <1>4, NoReturn
<1> QED
  BY <1>3, <1>5 DEF Told, M

\* An import takes what iiko says; nothing else changes what was imported, and
\* nobody writes the outbox meanwhile.
LEMMA SalesWriters ==
    ASSUME CountsOK, [Next]_vars
    PROVE  \/ sales' = sales
           \/ \E d \in Days : /\ sales' = [sales EXCEPT ![d] = iiko[d]]
                              /\ iiko' = iiko /\ outbox' = outbox
<1>0. HandSender => sales' = sales
  BY HandSenderElsewhere
<1>1. \/ sales' = sales
      \/ \E u \in Units : Import(u) \/ ImportFails(u)
  BY <1>0, ZenonT(40) DEF Next, vars, unitVars, Environment, MidnightPasses, FiguresChange, OtherLocks, OtherUnlocks,
         TimerFires, ManualRun, UnitStep, TakeWrapperLock, AlreadyRunning, StartJob,
         _sales_outbox_is_mutable, _upsert_sales_outbox,
         Reconcile, _ensure_alert_outbox, FinishJob, SenderDelivers, UnitFault,
         WrapperLockTimesOut, JobRaises, JobCrashes, SenderFails, SenderIsLocked
<1>2. ASSUME NEW u \in Units, Import(u) \/ ImportFails(u)
      PROVE  \/ sales' = sales
             \/ \E d \in Days : /\ sales' = [sales EXCEPT ![d] = iiko[d]]
                                /\ iiko' = iiko /\ outbox' = outbox
  BY <1>2 DEF Import, ImportFails, sync_day
<1> QED
  BY <1>1, <1>2

\* iiko's figures of a day do not fall, unless figures may recur.
LEMMA IikoGrows ==
    ASSUME CountsOK, Recurring = FALSE, [Next]_vars, NEW d \in Days
    PROVE  iiko[d] \in Nat /\ iiko'[d] \in Nat /\ iiko[d] <= iiko'[d]
<1>0. HandSender => iiko' = iiko
  BY HandSenderElsewhere
<1>1. iiko' = iiko \/ FiguresChange
  BY <1>0, ZenonT(40) DEF Next, vars, unitVars, Environment, MidnightPasses, OtherLocks, OtherUnlocks,
         TimerFires, ManualRun, UnitStep, TakeWrapperLock, AlreadyRunning, StartJob, Import,
         _sales_outbox_is_mutable, _upsert_sales_outbox,
         Reconcile, _ensure_alert_outbox, FinishJob, SenderDelivers, UnitFault, ImportFails,
         WrapperLockTimesOut, JobRaises, JobCrashes, SenderFails, SenderIsLocked
<1>2. iiko[d] \in Nat
  BY FiguresAreNumbers DEF CountsOK
<1>3. CASE FiguresChange
  <2>1. PICK e \in 1 .. today, f \in Figures : f > iiko[e] /\ iiko' = [iiko EXCEPT ![e] = f]
    BY <1>3 DEF FiguresChange
  <2>2. f \in Nat
    BY FiguresAreNumbers
  <2> QED
    BY <1>2, <2>1, <2>2 DEF CountsOK
<1> QED
  BY <1>1, <1>2, <1>3

\* So what is imported of a day does not fall either, and stays behind iiko.
LEMMA SalesGrow ==
    ASSUME CountsOK, Recurring = FALSE, [Next]_vars, NEW d \in Days, sales[d] <= iiko[d]
    PROVE  /\ sales[d] \in Nat /\ sales'[d] \in Nat
           /\ sales[d] <= sales'[d] /\ sales'[d] <= iiko'[d]
<1>1. sales[d] \in Nat
  BY FiguresAreNumbers DEF CountsOK
<1>2. iiko[d] \in Nat /\ iiko'[d] \in Nat /\ iiko[d] <= iiko'[d]
  BY IikoGrows
<1>3. sales'[d] \in {sales[d], iiko[d]}
  BY SalesWriters DEF CountsOK
<1> QED
  BY <1>1, <1>2, <1>3

\* A row that keeps its text keeps what it says, and whose report it is.
LEMMA SameSays ==
    ASSUME NEW new, NEW old, Same(new, old)
    PROVE  /\ Says(new) = Says(old) /\ new.day = old.day
           /\ new.type # "alert" <=> old.type # "alert"
BY DEF Same, Says, FiguresOf

\* Reports that stay are in the order they were in.
LEMMA OrderStays ==
    ASSUME CountsOK, Recurring = FALSE, [Next]_vars, NEW d \in Days, TellsInOrder(d),
           ReportsOf(outbox', d) = ReportsOf(outbox, d),
           \A i \in ReportsOf(outbox, d) : Says(outbox'[i]) = Says(outbox[i])
    PROVE  TellsInOrder(d)'
<1>1. /\ sales[d] \in Nat /\ sales'[d] \in Nat
      /\ sales[d] <= sales'[d] /\ sales'[d] <= iiko'[d]
  BY SalesGrow DEF TellsInOrder
<1>2. ASSUME NEW i \in ReportsOf(outbox', d)
      PROVE  \E f \in Figures : f <= sales'[d] /\ Shown[f] = Says(outbox'[i])
  <2>1. PICK f \in Figures : f <= sales[d] /\ Shown[f] = Says(outbox[i])
    BY <1>2 DEF TellsInOrder
  <2>2. f \in Nat /\ Says(outbox'[i]) = Says(outbox[i])
    BY <1>2, FiguresAreNumbers
  <2> QED
    BY <1>1, <2>1, <2>2
<1>3. \A i, j \in ReportsOf(outbox', d) : i <= j => Before(Says(outbox'[i]), Says(outbox'[j]))
  BY DEF TellsInOrder
<1> QED
  BY <1>1, <1>2, <1>3 DEF TellsInOrder

\* A report that says what was imported last goes behind the others.
LEMMA OrderGrows ==
    ASSUME CountsOK, OutboxOK, NEW d \in Days, TellsInOrder(d), sales' = sales, iiko' = iiko,
           NEW row \in Rows, Grows(row), row.day = d, sales[d] \in Figures,
           Says(row) = Shown[sales[d]]
    PROVE  TellsInOrder(d)'
<1> DEFINE n == Len(outbox) + 1
           R == ReportsOf(outbox, d)
<1>1. /\ DOMAIN outbox' = DOMAIN outbox \cup {n} /\ outbox'[n] = row
      /\ \A i \in DOMAIN outbox : outbox'[i] = outbox[i]
  BY GrowsBy
<1>2. n \in Nat /\ \A i \in R : i \in Nat /\ i < n /\ i \in DOMAIN outbox
  BY Positions DEF OutboxOK, ReportsOf, OfDay
<1>3. ReportsOf(outbox', d) \subseteq R \cup {n}
  BY <1>1 DEF ReportsOf, OfDay
<1>4. Says(outbox'[n]) = Shown[sales[d]] /\ \A i \in R : Says(outbox'[i]) = Says(outbox[i])
  BY <1>1, <1>2
<1>5. sales[d] \in Nat /\ sales[d] <= sales[d]
  BY FiguresAreNumbers
<1> HIDE DEF n, R
<1>6. ASSUME NEW i \in R \cup {n}
      PROVE  \E f \in Figures : f <= sales[d] /\ Shown[f] = Says(outbox'[i])
  BY <1>4, <1>5, <1>6 DEF TellsInOrder, R
<1>7. ASSUME NEW i \in R \cup {n}, NEW j \in R \cup {n}, i <= j
      PROVE  Before(Says(outbox'[i]), Says(outbox'[j]))
  <2>1. CASE j = n
    BY <1>4, <1>6, <2>1 DEF Before
  <2>2. CASE j \in R
    <3>1. i \in R
      BY <1>2, <1>7, <2>2
    <3> QED
      BY <1>4, <1>7, <2>2, <3>1 DEF TellsInOrder, R
  <2> QED
    BY <2>1, <2>2
<1> QED
  BY <1>3, <1>6, <1>7 DEF TellsInOrder

\* Today's report is rewritten while today has no other.
LEMMA OrderRewritten ==
    ASSUME CooInv, OwnDays, Quoted, NEW d \in Days, TellsInOrder(d), sales' = sales, iiko' = iiko,
           NEW i \in DOMAIN outbox, d = today, Rewrites(i, d)
    PROVE  TellsInOrder(d)'
<1>1. OutboxOK /\ NoTwoReports /\ CountsOK
  BY CooParts
<1>2. /\ DOMAIN outbox' = DOMAIN outbox /\ outbox'[i].type = "sales" /\ outbox[i].type = "sales"
      /\ outbox'[i].day = d /\ outbox[i].day = d
      /\ outbox'[i].text = <<sales[d]>> /\ sales[d] \in Figures
      /\ \A j \in DOMAIN outbox : j # i => outbox'[j] = outbox[j]
  BY <1>1, RewritesOne
<1>3. ASSUME NEW j \in ReportsOf(outbox', d) PROVE j = i
  <2> SUFFICES ASSUME j # i PROVE FALSE
    OBVIOUS
  <2>1. j \in DOMAIN outbox /\ outbox[j].day = d /\ outbox[j].type # "alert"
    BY <1>2 DEF ReportsOf, OfDay
  <2>2. outbox[j].type \in {"sales", "correction", "alert"}
    BY <1>1, <2>1, Positions DEF OutboxOK, Rows, ReportTypes
  <2>3. d \in Nat /\ ~ (d < today)
    BY DaysAreNumbers
  <2> QED
    BY <1>2, <2>1, <2>2, <2>3, <1>1 DEF NoTwoReports, Quoted
<1>4. Says(outbox'[i]) = Shown[sales[d]]
  BY <1>2 DEF Says, FiguresOf
<1>5. sales[d] \in Nat /\ sales[d] <= sales[d]
  BY <1>2, FiguresAreNumbers
<1>6. Before(Shown[sales[d]], Shown[sales[d]])
  BY <1>2, <1>5 DEF Before
<1> QED
  BY <1>2, <1>3, <1>4, <1>5, <1>6 DEF TellsInOrder

\* Every step keeps the reports of a day in order.
LEMMA OrderStep ==
    ASSUME CooInv, OwnDays, Quoted, Recurring = FALSE, [Next]_vars,
           NEW d \in Days, TellsInOrder(d)
    PROVE  TellsInOrder(d)'
<1>1. /\ OutboxOK /\ HandOK /\ PlacesOK /\ CountsOK /\ UniqueKeys /\ OutboxOK'
      /\ \A u \in Units : JobKnows(u)
  BY CooParts, CooChange, OutboxOKStep
<1>2. ASSUME Kept PROVE TellsInOrder(d)'
  <2>1. \A i \in DOMAIN outbox : Same(outbox'[i], outbox[i])
    BY <1>2 DEF Kept
  <2>2. ReportsOf(outbox', d) = ReportsOf(outbox, d)
    BY <1>2, <2>1, SameSays DEF Kept, ReportsOf, OfDay
  <2>3. \A i \in ReportsOf(outbox, d) : Says(outbox'[i]) = Says(outbox[i])
    BY <2>1, SameSays DEF ReportsOf, OfDay
  <2> QED
    BY <1>1, <2>2, <2>3, OrderStays
<1>3. outbox' = outbox => Kept
  BY <1>1, Positions DEF Kept, Same, OutboxOK
<1>4. ASSUME NEW row \in Rows, Grows(row), row.type = "alert" \/ row.day # d PROVE TellsInOrder(d)'
  <2>1. /\ DOMAIN outbox' = DOMAIN outbox \cup {Len(outbox) + 1} /\ outbox'[Len(outbox) + 1] = row
        /\ \A i \in DOMAIN outbox : outbox'[i] = outbox[i]
    BY <1>1, <1>4, GrowsBy
  <2>2. ReportsOf(outbox', d) = ReportsOf(outbox, d)
    BY <1>4, <2>1 DEF ReportsOf, OfDay
  <2>3. \A i \in ReportsOf(outbox, d) : Says(outbox'[i]) = Says(outbox[i])
    BY <2>1 DEF ReportsOf, OfDay
  <2> QED
    BY <1>1, <2>2, <2>3, OrderStays
<1>5. ASSUME NEW e \in Days, e # d, NEW i \in DOMAIN outbox, Rewrites(i, e) PROVE TellsInOrder(d)'
  <2>1. /\ DOMAIN outbox' = DOMAIN outbox /\ outbox'[i].day = e /\ outbox[i].day = e
        /\ \A j \in DOMAIN outbox : j # i => outbox'[j] = outbox[j]
    BY <1>1, <1>5, RewritesOne
  <2>2. ReportsOf(outbox', d) = ReportsOf(outbox, d)
    BY <1>5, <2>1 DEF ReportsOf, OfDay
  <2>3. \A j \in ReportsOf(outbox, d) : Says(outbox'[j]) = Says(outbox[j])
    BY <1>5, <2>1 DEF ReportsOf, OfDay
  <2> QED
    BY <1>1, <2>2, <2>3, OrderStays
<1>6. ASSUME NEW u \in Units, _upsert_sales_outbox(u) PROVE TellsInOrder(d)'
  <2>1. /\ step[u] = "upsert" /\ JobKnows(u) /\ day[u] \in Days
        /\ sales' = sales /\ iiko' = iiko
    BY <1>1, <1>6 DEF _upsert_sales_outbox, JobKnows, JobSteps
  <2>2. /\ u = "closeout" /\ sales[day[u]] \in Figures
        /\ \/ \E row \in Rows : /\ Grows(row) /\ row.type = "sales" /\ row.day = day[u]
                                /\ Says(row) = Shown[sales[day[u]]]
           \/ \E i \in DOMAIN outbox : Rewrites(i, day[u])
    BY <1>1, <1>6, <2>1, UpsertStep DEF Says
  <2>3. day[u] = today
    BY <2>1, <2>2 DEF OwnDays, JobSteps
  <2>5. CASE d = today
    BY <1>1, <2>1, <2>2, <2>3, <2>5, OrderGrows, OrderRewritten
  <2>6. CASE d # today
    BY <1>4, <1>5, <2>1, <2>2, <2>3, <2>6
  <2> QED
    BY <2>5, <2>6
<1>7. ASSUME NEW u \in Units, Reconcile(u) PROVE TellsInOrder(d)'
  <2>1. step[u] = "report" /\ sales' = sales /\ iiko' = iiko
    BY <1>7 DEF Reconcile
  <2>2. day[u] \in Days
    BY <1>1, <2>1 DEF JobSteps, JobKnows
  <2>3. /\ sales[day[u]] \in Figures
        /\ \/ outbox' = outbox
           \/ \E row \in Rows : /\ Grows(row) /\ row.type = "correction" /\ row.day = day[u]
                                /\ Says(row) = Shown[sales[day[u]]]
    BY <1>1, <1>7, <2>2, ReconcileStep DEF Says
  <2>4. CASE d = day[u]
    BY <1>1, <1>2, <1>3, <2>1, <2>3, <2>4, OrderGrows
  <2>5. CASE d # day[u]
    BY <1>2, <1>3, <1>4, <2>3, <2>5
  <2> QED
    BY <2>4, <2>5
<1>8. ASSUME NEW u \in Units, _ensure_alert_outbox(u) PROVE TellsInOrder(d)'
  <2>1. day[u] \in Days
    BY <1>1, <1>8 DEF JobKnows, JobSteps, _ensure_alert_outbox
  <2>2. \/ outbox' = outbox
        \/ \E row \in Rows : Grows(row) /\ row.type = "alert"
    BY <1>1, <1>8, <2>1, AlertStep
  <2> QED
    BY <1>2, <1>3, <1>4, <2>2
<1>9. ASSUME NEW u \in Units, SenderDelivers(u) \/ SenderFails(u) PROVE TellsInOrder(d)'
  BY <1>1, <1>2, <1>9, SenderStep
<1>10. ASSUME HandSender PROVE TellsInOrder(d)'
  BY <1>1, <1>2, <1>10, HandSenderStep
<1> QED
  BY <1>2, <1>3, <1>6, <1>7, <1>8, <1>9, <1>10, OutboxWriters

\* What reconcile has decided stands until its sender has run: the wrapper's lock
\* keeps closeout away from the outbox and the figures.
Decided ==
    /\ step["reconcile"] \in {"finish", "sender"}
    /\ outbox' = outbox \/ HandSender
    /\ sales' = sales
    /\ day'["reconcile"] = day["reconcile"] /\ result'["reconcile"] = result["reconcile"]

\* Reconcile comes to its end by what it decides or fails with, or is there already.
LEMMA DecisionStep ==
    ASSUME PlacesOK, WorkOK, JobKnows("reconcile"), [Next]_vars, step'["reconcile"] \in {"finish", "sender"}
    PROVE  \/ Decided \/ Reconcile("reconcile")
           \/ _ensure_alert_outbox("reconcile") \/ JobRaises("reconcile")
<1> DEFINE goal == \/ Decided \/ Reconcile("reconcile")
                   \/ _ensure_alert_outbox("reconcile") \/ JobRaises("reconcile")
<1> HIDE DEF goal
<1> SUFFICES goal
  BY DEF goal
<1>0. goal <=> \/ Decided \/ Reconcile("reconcile")
               \/ _ensure_alert_outbox("reconcile") \/ JobRaises("reconcile")
  BY DEF goal
<1> USE <1>0 DEF Decided, PlacesOK, WorkOK, unitVars, Go, Units, JobSteps, WrapperSteps
<1>1. CASE MidnightPasses
  BY <1>1 DEF MidnightPasses
<1>2. CASE FiguresChange
  BY <1>2 DEF FiguresChange
<1>3. CASE OtherLocks
  BY <1>3 DEF OtherLocks
<1>4. CASE OtherUnlocks
  BY <1>4 DEF OtherUnlocks
<1>5. ASSUME NEW u \in Units, TimerFires(u) PROVE goal
  BY <1>5 DEF TimerFires
<1>6. ASSUME NEW u \in Units, ManualRun(u) PROVE goal
  BY <1>6 DEF ManualRun
<1>7. ASSUME NEW u \in Units, TakeWrapperLock(u) PROVE goal
  BY <1>7 DEF TakeWrapperLock
<1>8. ASSUME NEW u \in Units, AlreadyRunning(u) PROVE goal
  BY <1>8 DEF AlreadyRunning, UnitFails
<1>9. ASSUME NEW u \in Units, StartJob(u) PROVE goal
  BY <1>9 DEF StartJob
<1>10. ASSUME NEW u \in Units, Import(u) PROVE goal
  BY <1>10 DEF Import
<1>11. ASSUME NEW u \in Units, _sales_outbox_is_mutable(u) PROVE goal
  BY <1>11 DEF _sales_outbox_is_mutable
<1>30. ASSUME NEW u \in Units, _upsert_sales_outbox(u) PROVE goal
  <2>1. u # "reconcile"
    BY <1>30 DEF _upsert_sales_outbox, JobKnows
  <2> QED
    BY <1>30, <2>1 DEF _upsert_sales_outbox
<1>31. CASE HandSender
  BY <1>31, HandSenderElsewhere
<1>12. ASSUME NEW u \in Units, Reconcile(u) PROVE goal
  <2>1. u = "reconcile"
    BY <1>12 DEF Reconcile
  <2> QED
    BY <1>12, <2>1
<1>13. ASSUME NEW u \in Units, _ensure_alert_outbox(u) PROVE goal
  BY <1>13 DEF _ensure_alert_outbox
<1>14. ASSUME NEW u \in Units, FinishJob(u) PROVE goal
  BY <1>14 DEF FinishJob
<1>15. ASSUME NEW u \in Units, SenderDelivers(u) PROVE goal
  BY <1>15 DEF SenderDelivers, WrapperExits, UnitFails
<1>16. ASSUME NEW u \in Units, WrapperLockTimesOut(u) PROVE goal
  BY <1>16 DEF WrapperLockTimesOut, UnitFails
<1>17. ASSUME NEW u \in Units, ImportFails(u) PROVE goal
  BY <1>17 DEF ImportFails
<1>18. ASSUME NEW u \in Units, JobRaises(u) PROVE goal
  BY <1>18 DEF JobRaises
<1>19. ASSUME NEW u \in Units, JobCrashes(u) PROVE goal
  BY <1>19 DEF JobCrashes, UnitFails
<1>20. ASSUME NEW u \in Units, SenderFails(u) PROVE goal
  BY <1>20 DEF SenderFails, WrapperExits, UnitFails
<1>21. ASSUME NEW u \in Units, SenderIsLocked(u) PROVE goal
  BY <1>21 DEF SenderIsLocked, WrapperExits, UnitFails
<1>22. CASE UNCHANGED vars
  BY <1>22 DEF vars
<1> QED
  BY <1>1, <1>2, <1>3, <1>4, <1>5, <1>6, <1>7, <1>8, <1>9, <1>10, <1>11, <1>12, <1>13,
     <1>14, <1>15, <1>16, <1>17, <1>18, <1>19, <1>20, <1>21, <1>22, <1>30, <1>31
     DEF Next, Environment, UnitStep, UnitFault

\* Whatever it decides, the newest report of its day then says what it imported.
LEMMA ReconcileTells ==
    ASSUME CooInv, MetricsNeverReturn, NEW u \in Units, Reconcile(u),
           \A d \in Days : TellsInOrder(d)
    PROVE  /\ ReportsOf(outbox', day[u]) # {}
           /\ Told(outbox', day[u]) = Shown[sales[day[u]]]
<1> DEFINE d == day[u]
<1>1. OutboxOK /\ JobKnows(u)
  BY CooParts
<1>2. d \in Days
  BY <1>1 DEF JobSteps, JobKnows, Reconcile
<1>3. /\ sales[d] \in Figures
      /\ \/ /\ outbox' = outbox
            /\ \E k \in ReportsOf(outbox, d) : Says(outbox[k]) = Shown[sales[d]]
         \/ \E row \in Rows : /\ Grows(row) /\ row.type = "correction" /\ row.day = d
                              /\ Says(row) = Shown[sales[d]]
  BY <1>1, <1>2, ReconcileStep DEF Says
<1> HIDE DEF d
<1>4. ASSUME outbox' = outbox, NEW k \in ReportsOf(outbox, d), Says(outbox[k]) = Shown[sales[d]]
      PROVE  ReportsOf(outbox', d) # {} /\ Told(outbox', d) = Shown[sales[d]]
  BY <1>1, <1>2, <1>3, <1>4, NewestSaysIt DEF OutboxOK
<1>5. ASSUME NEW row \in Rows, Grows(row), row.type = "correction", row.day = d,
             Says(row) = Shown[sales[d]]
      PROVE  ReportsOf(outbox', d) # {} /\ Told(outbox', d) = Shown[sales[d]]
  <2> DEFINE n == Len(outbox) + 1
             R == ReportsOf(outbox', d)
  <2>1. /\ DOMAIN outbox' = DOMAIN outbox \cup {n} /\ outbox'[n] = row
    BY <1>1, <1>5, GrowsBy
  <2>2. n \in Nat /\ DOMAIN outbox = 1 .. Len(outbox) /\ Len(outbox) \in Nat
    BY <1>1, Positions DEF OutboxOK
  <2>3. R \subseteq 1 .. n /\ n \in R
    BY <1>5, <2>1, <2>2 DEF ReportsOf, OfDay
  <2>4. Max(R) \in R /\ n <= Max(R)
    BY <2>2, <2>3, MaxIsMember
  <2>5. Max(R) = n
    BY <2>2, <2>3, <2>4
  <2> QED
    BY <1>5, <2>1, <2>3, <2>5 DEF Told
<1> QED
  BY <1>3, <1>4, <1>5 DEF d

\* Rows that are kept say last what they said last.
LEMMA KeptTold ==
    ASSUME OutboxOK, Kept, NEW d, ReportsOf(outbox, d) # {}
    PROVE  ReportsOf(outbox', d) # {} /\ Told(outbox', d) = Told(outbox, d)
<1>1. DOMAIN outbox' = DOMAIN outbox /\ \A i \in DOMAIN outbox : Same(outbox'[i], outbox[i])
  BY DEF Kept
<1>2. ReportsOf(outbox', d) = ReportsOf(outbox, d)
  BY <1>1, SameSays DEF ReportsOf, OfDay
<1>3. Max(ReportsOf(outbox, d)) \in DOMAIN outbox
  BY Positions, MaxIsMember DEF ReportsOf, OfDay, OutboxOK
<1> QED
  BY <1>1, <1>2, <1>3, SameSays DEF Told

\* Once told, it stays told until the sender has run.
LEMMA HasToldStep ==
    ASSUME CooInv, MetricsNeverReturn, HasTold, \A d \in Days : TellsInOrder(d), [Next]_vars
    PROVE  HasTold'
<1> DEFINE good == {"reconciled", "correction_created", "unchanged"}
<1> SUFFICES ASSUME step'["reconcile"] \in {"finish", "sender"}, result'["reconcile"] \in good
             PROVE  /\ ReportsOf(outbox', day'["reconcile"]) # {}
                    /\ Told(outbox', day'["reconcile"]) = Shown[sales'[day'["reconcile"]]]
  BY DEF HasTold
<1>1. PlacesOK /\ WorkOK /\ OutboxOK /\ HandOK /\ JobKnows("reconcile")
  BY CooParts DEF Units
<1>2. CASE Decided
  <2>1. Kept
    BY <1>1, <1>2, HandSenderStep, Positions DEF Decided, Kept, Same, OutboxOK
  <2>2. /\ ReportsOf(outbox, day["reconcile"]) # {}
        /\ Told(outbox, day["reconcile"]) = Shown[sales[day["reconcile"]]]
    BY <1>2 DEF Decided, HasTold
  <2> QED
    BY <1>1, <1>2, <2>1, <2>2, KeptTold DEF Decided
<1>3. CASE Reconcile("reconcile")
  <2>1. day' = day /\ sales' = sales
    BY <1>3 DEF Reconcile
  <2> QED
    BY <1>3, <2>1, ReconcileTells DEF Units
<1>4. CASE _ensure_alert_outbox("reconcile")
  <2>1. result' = result /\ result["reconcile"] \in Errors
    BY <1>1, <1>4 DEF _ensure_alert_outbox, JobKnows
  <2> QED
    BY <2>1 DEF Errors
<1>5. CASE JobRaises("reconcile")
  <2>1. result'["reconcile"] = "failed"
    BY <1>1, <1>5 DEF JobRaises, WorkOK, Units
  <2> QED
    BY <2>1
<1> QED
  BY <1>1, <1>2, <1>3, <1>4, <1>5, DecisionStep

\* Readers know nothing of any day at first.
LEMMA ToldInit == Init => ToldInv
<1> SUFFICES ASSUME Init PROVE ToldInv
  OBVIOUS
<1>1. HasTold
  BY DEF Init, HasTold, Units
<1>2. ASSUME NEW d \in Days PROVE TellsInOrder(d)
  <2>1. ReportsOf(outbox, d) = {}
    BY DEF Init, ReportsOf, OfDay
  <2>2. TimersInv /\ CountsOK
    BY TimersInit, TimersParts, CooParts
  <2>3. iiko[d] \in Nat /\ sales[d] = 0
    BY <2>2, FiguresAreNumbers DEF CountsOK, Init, None
  <2> QED
    BY <2>1, <2>3 DEF TellsInOrder
<1> QED
  BY <1>1, <1>2, TimersInit DEF ToldInv

\* While units keep to their days and figures grow, a report that says what was
\* imported last is the last word on its day.
LEMMA ToldStep ==
    ASSUME MaxManualRuns = 0, RunsPassMidnight = FALSE, Recurring = FALSE, MetricsNeverReturn
    PROVE  ToldInv /\ [Next]_vars => ToldInv'
<1> SUFFICES ASSUME ToldInv, [Next]_vars PROVE ToldInv'
  OBVIOUS
<1>1. TimersInv /\ HasTold /\ \A d \in Days : TellsInOrder(d)
  BY DEF ToldInv
<1>2. CooInv /\ OwnDays /\ Quoted
  BY <1>1, TimersParts
<1>3. TimersInv'
  BY <1>1, TimersStep
<1>4. \A d \in Days : TellsInOrder(d)'
  BY <1>1, <1>2, OrderStep
<1>5. HasTold'
  BY <1>1, <1>2, HasToldStep
<1> QED
  BY <1>3, <1>4, <1>5 DEF ToldInv

\* The invariant behind it: as long as units keep to their days and the metrics that
\* iiko shows of a day do not return to what they were before, the reports of a day
\* say in the order of their rows what its imports have shown.
THEOREM ToldInvariant ==
    ASSUME MaxManualRuns = 0, RunsPassMidnight = FALSE, Recurring = FALSE, MetricsNeverReturn
    PROVE  Spec => []ToldInv
<1>1. ToldInv /\ [Next]_vars => ToldInv'
  BY ToldStep
<1> QED
  BY <1>1, ToldInit, PTL DEF Spec

\* When reconcile has succeeded, the newest report of its day gives the metrics it
\* has imported, for any days and figures, any number of failures and restarts, under
\* the same conditions (reconcile compares with the original report, not with the
\* corrections since).
THEOREM ReconcileTellsTheImport ==
    ASSUME MaxManualRuns = 0, RunsPassMidnight = FALSE, Recurring = FALSE, MetricsNeverReturn
    PROVE  Spec => []ReconciledMeansTold
<1>1. ToldInv => ReconciledMeansTold
  BY DEF ToldInv, HasTold, ReconciledMeansTold
<1> QED
  BY <1>1, ToldInvariant, PTL

-----------------------------------------------------------------------------
(* Jobs and sender implement DailyPromise *)

\* The reports as readers see them: of each day one, those some chat may have, and
\* the corrections.
Reports == [d \in Days |-> Reported(outbox, d)]

\* The only report of a day is the one looked at.
LEMMA TheReport ==
    ASSUME NEW rows \in Seq(Rows), NEW d, NEW i \in SalesReports(rows, d),
           \A j \in SalesReports(rows, d) : j = i
    PROVE  LatestSalesReport(rows, d) = i /\ Reported(rows, d) = FiguresOf(rows[i])
<1>1. SalesReports(rows, d) \subseteq 1 .. Len(rows) /\ Len(rows) \in Nat
  BY DEF SalesReports, OfDay
<1>2. Max(SalesReports(rows, d)) \in SalesReports(rows, d)
  BY <1>1, MaxIsMember
<1> QED
  BY <1>2 DEF Reported, LatestSalesReport

\* A day whose rows stay reports what it did.
LEMMA SameReport ==
    ASSUME NEW rows \in Seq(Rows), NEW new, NEW d,
           SalesReports(new, d) = SalesReports(rows, d),
           \A i \in SalesReports(rows, d) : new[i].text = rows[i].text
    PROVE  Reported(new, d) = Reported(rows, d)
<1>1. SalesReports(rows, d) \subseteq 1 .. Len(rows) /\ Len(rows) \in Nat
  BY DEF SalesReports, OfDay
<1>2. CASE SalesReports(rows, d) # {}
  <2>1. Max(SalesReports(rows, d)) \in SalesReports(rows, d)
    BY <1>1, <1>2, MaxIsMember
  <2> QED
    BY <1>2, <2>1 DEF Reported, LatestSalesReport, FiguresOf
<1> QED
  BY <1>2 DEF Reported

\* Rows that are kept say what they said.
LEMMA KeptViews ==
    ASSUME OutboxOK, Kept
    PROVE  Reports' = Reports /\ Corrections(outbox') = Corrections(outbox)
<1>1. /\ DOMAIN outbox' = DOMAIN outbox
      /\ \A i \in DOMAIN outbox :
           /\ outbox'[i].type = outbox[i].type /\ outbox'[i].day = outbox[i].day
           /\ outbox'[i].text = outbox[i].text
  BY DEF Kept, Same
<1>2. \A d : SalesReports(outbox', d) = SalesReports(outbox, d)
  BY <1>1 DEF SalesReports, OfDay
<1>3. \A d : Reported(outbox', d) = Reported(outbox, d)
  BY <1>1, <1>2, SameReport DEF OutboxOK, SalesReports, OfDay
<1>4. CorrectionRows(outbox') = CorrectionRows(outbox)
  BY <1>1 DEF CorrectionRows
<1>5. Corrections(outbox') = Corrections(outbox)
  BY <1>1, <1>4 DEF Corrections, CorrectionRows
<1> QED
  BY <1>3, <1>5 DEF Reports

\* A new row, which nobody has yet, is a day's first report, one more correction or
\* an alert.
LEMMA GrownViews ==
    ASSUME OutboxOK, NEW row \in Rows, Grows(row)
    PROVE  /\ Sent(outbox') = Sent(outbox)
           /\ row.type # "sales" => Reports' = Reports
           /\ row.type = "sales" => Reports' = [Reports EXCEPT ![row.day] = FiguresOf(row)]
           /\ Corrections(outbox') = Corrections(outbox) \cup
                (IF row.type = "correction" THEN {<<row.day, row.text[1], row.text[2]>>} ELSE {})
<1> DEFINE n == Len(outbox) + 1
<1>1. /\ DOMAIN outbox' = DOMAIN outbox \cup {n} /\ outbox'[n] = row /\ n \notin DOMAIN outbox
      /\ \A i \in DOMAIN outbox : outbox'[i] = outbox[i]
      /\ outbox' \in Seq(Rows)
  BY GrowsBy
<1> HIDE DEF n
<1>2. \A d : ~ (row.type = "sales" /\ row.day = d) => SalesReports(outbox', d) = SalesReports(outbox, d)
  BY <1>1 DEF SalesReports, OfDay
<1>3. \A d : ~ (row.type = "sales" /\ row.day = d) => Reported(outbox', d) = Reported(outbox, d)
  BY <1>1, <1>2, SameReport DEF OutboxOK, SalesReports, OfDay
<1>4. ASSUME row.type = "sales"
      PROVE  /\ SalesReports(outbox, row.day) = {} /\ SalesReports(outbox', row.day) = {n}
             /\ Reported(outbox', row.day) = FiguresOf(row)
  <2>1. SalesReports(outbox, row.day) = {}
    BY <1>4 DEF Grows
  <2>2. SalesReports(outbox', row.day) = {n}
    BY <1>1, <1>4, <2>1 DEF SalesReports, OfDay
  <2>3. n \in SalesReports(outbox', row.day) /\ \A j \in SalesReports(outbox', row.day) : j = n
    BY <2>2
  <2>4. Reported(outbox', row.day) = FiguresOf(outbox'[n])
    BY <1>1, <2>3, TheReport
  <2> QED
    BY <1>1, <2>1, <2>2, <2>4
<1>5. Sent(outbox') = Sent(outbox)
  <2>1. ~ row.registered
    BY DEF Grows
  <2>2. ASSUME NEW d \in Days
        PROVE  (\E i \in SalesReports(outbox', d) : outbox'[i].registered)
                 <=> (\E i \in SalesReports(outbox, d) : outbox[i].registered)
    <3>1. CASE row.type = "sales" /\ row.day = d
      BY <1>1, <1>4, <2>1, <3>1
    <3>2. CASE ~ (row.type = "sales" /\ row.day = d)
      BY <1>1, <1>2, <3>2 DEF SalesReports, OfDay
    <3> QED
      BY <3>1, <3>2
  <2> QED
    BY <2>2 DEF Sent
<1>6. row.type # "sales" => Reports' = Reports
  BY <1>3 DEF Reports
<1>7. row.type = "sales" => Reports' = [Reports EXCEPT ![row.day] = FiguresOf(row)]
  BY <1>3, <1>4 DEF Reports
<1>8. Corrections(outbox') = Corrections(outbox) \cup
                (IF row.type = "correction" THEN {<<row.day, row.text[1], row.text[2]>>} ELSE {})
  <2>1. CorrectionRows(outbox') =
          CorrectionRows(outbox) \cup (IF row.type = "correction" THEN {n} ELSE {})
    BY <1>1 DEF CorrectionRows
  <2>2. \A i \in CorrectionRows(outbox) : outbox'[i] = outbox[i]
    BY <1>1 DEF CorrectionRows
  <2> QED
    BY <1>1, <2>1, <2>2 DEF Corrections
<1> QED
  BY <1>4, <1>5, <1>6, <1>7, <1>8 DEF Sent

\* A rewritten report says what was imported last.
LEMMA RewrittenViews ==
    ASSUME OutboxOK, NoTwoReports, NEW i \in DOMAIN outbox, NEW d \in Days, Rewrites(i, d)
    PROVE  /\ Sent(outbox') = Sent(outbox)
           /\ Reports' = [Reports EXCEPT ![d] = sales[d]]
           /\ Corrections(outbox') = Corrections(outbox)
<1>1. /\ DOMAIN outbox' = DOMAIN outbox /\ outbox'[i].type = "sales" /\ outbox[i].type = "sales"
      /\ outbox'[i].day = d /\ outbox[i].day = d /\ outbox'[i].text = <<sales[d]>>
      /\ outbox'[i].registered = outbox[i].registered
      /\ \A j \in DOMAIN outbox : j # i => outbox'[j] = outbox[j]
      /\ outbox' \in Seq(Rows)
  BY RewritesOne
<1>2. \A e : SalesReports(outbox', e) = SalesReports(outbox, e)
  BY <1>1 DEF SalesReports, OfDay
<1>3. SalesReports(outbox', d) = {i}
  BY <1>1, <1>2 DEF SalesReports, OfDay, NoTwoReports
<1>4. Reported(outbox', d) = sales[d]
  <2>1. i \in SalesReports(outbox', d) /\ \A j \in SalesReports(outbox', d) : j = i
    BY <1>3
  <2>2. Reported(outbox', d) = FiguresOf(outbox'[i])
    BY <1>1, <2>1, TheReport
  <2> QED
    BY <1>1, <2>2 DEF FiguresOf
<1>5. ASSUME NEW e \in Days, e # d PROVE Reported(outbox', e) = Reported(outbox, e)
  <2>1. \A j \in SalesReports(outbox, e) : outbox'[j] = outbox[j]
    BY <1>1, <1>5 DEF SalesReports, OfDay
  <2> QED
    BY <1>2, <2>1, SameReport DEF OutboxOK
<1>6. Sent(outbox') = Sent(outbox)
  BY <1>1, <1>2, <1>3 DEF Sent, SalesReports, OfDay
<1>7. CorrectionRows(outbox') = CorrectionRows(outbox)
  BY <1>1 DEF CorrectionRows
<1>8. \A j \in CorrectionRows(outbox) : outbox'[j] = outbox[j]
  BY <1>1 DEF CorrectionRows
<1> QED
  BY <1>4, <1>5, <1>6, <1>7, <1>8 DEF Reports, Corrections

\* Rows that are kept make no report final but those of the day they are of.
LEMMA SentViews ==
    ASSUME OutboxOK, Kept, NEW e,
           \A i \in DOMAIN outbox : outbox[i].day # e => outbox'[i] = outbox[i]
    PROVE  /\ Reports' = Reports /\ Corrections(outbox') = Corrections(outbox)
           /\ \/ Sent(outbox') = Sent(outbox)
              \/ /\ e \in Days /\ Reports[e] # None
                 /\ Sent(outbox') = Sent(outbox) \cup {e}
<1>3. /\ DOMAIN outbox' = DOMAIN outbox
      /\ \A i \in DOMAIN outbox :
           /\ outbox'[i].type = outbox[i].type /\ outbox'[i].day = outbox[i].day
           /\ outbox[i].registered => outbox'[i].registered
  BY DEF Kept, Same
<1>4. \A d : SalesReports(outbox', d) = SalesReports(outbox, d)
  BY <1>3 DEF SalesReports, OfDay
<1>5. Sent(outbox) \subseteq Sent(outbox')
  BY <1>3, <1>4 DEF Sent, SalesReports, OfDay
<1>6. ASSUME NEW d \in Sent(outbox'), d \notin Sent(outbox)
      PROVE  d = e /\ d \in Days /\ Reports[d] # None
  <2>1. PICK i \in SalesReports(outbox, d) : outbox'[i].registered
    BY <1>4, <1>6 DEF Sent
  <2>2. d \in Days /\ i \in DOMAIN outbox /\ outbox[i].day = d /\ ~ outbox[i].registered
    BY <1>6, <2>1 DEF Sent, SalesReports, OfDay
  <2>3. d = e
    BY <2>1, <2>2
  <2>4. Reported(outbox, d) \in Figures
    <3>1. SalesReports(outbox, d) \subseteq 1 .. Len(outbox) /\ Len(outbox) \in Nat
      BY Positions DEF OutboxOK, SalesReports, OfDay
    <3>2. Max(SalesReports(outbox, d)) \in SalesReports(outbox, d)
      BY <2>1, <3>1, MaxIsMember
    <3> DEFINE k == Max(SalesReports(outbox, d))
    <3>3. k \in DOMAIN outbox /\ outbox[k].type = "sales"
      BY <3>2 DEF SalesReports, OfDay
    <3> HIDE DEF k
    <3>4. PICK f \in Figures : outbox[k].text = <<f>>
      BY <3>3 DEF OutboxOK, Fits
    <3>5. Reported(outbox, d) = f
      BY <2>1, <3>4 DEF Reported, LatestSalesReport, FiguresOf, k
    <3> QED
      BY <3>5
  <2>5. None \notin Figures
    BY DailyCooAssumption DEF None
  <2> QED
    BY <2>2, <2>3, <2>4, <2>5 DEF Reports
<1> QED
  BY <1>5, <1>6, KeptViews

\* A sender run makes no other day's report final than its own.
LEMMA SenderViews ==
    ASSUME OutboxOK, NEW u \in Units, SenderDelivers(u) \/ SenderFails(u)
    PROVE  /\ Reports' = Reports /\ Corrections(outbox') = Corrections(outbox)
           /\ \/ Sent(outbox') = Sent(outbox)
              \/ /\ day[u] \in Days /\ Reports[day[u]] # None
                 /\ Sent(outbox') = Sent(outbox) \cup {day[u]}
<1>1. Kept
  BY SenderStep
<1>2. \A i \in DOMAIN outbox : outbox[i].day # day[u] => outbox'[i] = outbox[i]
  BY DEF SenderDelivers, SenderFails, Unsent, OfDay
<1> QED
  BY <1>1, <1>2, SentViews

\* A sender run by hand takes one report at a time.
LEMMA HandViews ==
    ASSUME OutboxOK, HandOK, HandSender
    PROVE  /\ Reports' = Reports /\ Corrections(outbox') = Corrections(outbox)
           /\ \/ Sent(outbox') = Sent(outbox)
              \/ \E e \in Days : Reports[e] # None /\ Sent(outbox') = Sent(outbox) \cup {e}
<1>1. Kept
  BY HandSenderStep
<1>2. \E e : \A i \in DOMAIN outbox : outbox[i].day # e => outbox'[i] = outbox[i]
  <2>1. ASSUME NEW k, NEW row, outbox' = [outbox EXCEPT ![k] = row]
        PROVE  \E e : \A i \in DOMAIN outbox : outbox[i].day # e => outbox'[i] = outbox[i]
    <3>1. \A i \in DOMAIN outbox : outbox[i].day # outbox[k].day => outbox'[i] = outbox[i]
      BY <2>1
    <3> QED
      BY <3>1
  <2>2. CASE HandSenderRegisters
    BY <2>1, <2>2 DEF HandSenderRegisters
  <2>3. CASE HandSenderConcludes
    BY <2>1, <2>3 DEF HandSenderConcludes
  <2>4. CASE HandSenderStarts \/ HandSenderEnds
    BY <2>4 DEF HandSenderStarts, HandSenderEnds
  <2> QED
    BY <2>2, <2>3, <2>4 DEF HandSender
<1>3. PICK e : \A i \in DOMAIN outbox : outbox[i].day # e => outbox'[i] = outbox[i]
  BY <1>2
<1> QED
  BY <1>1, <1>3, SentViews

\* The day whose report closeout is about to write.
Writing == IF step["closeout"] = "upsert" THEN day["closeout"] ELSE None

\* Closeout gets there by its test, and away by its commit or by giving up.
LEMMA WritingStep ==
    ASSUME PlacesOK, WorkOK, [Next]_vars
    PROVE  \/ Writing' = Writing
           \/ Writing' = None /\ outbox' = outbox /\ sales' = sales
           \/ \E u \in Units : _sales_outbox_is_mutable(u) \/ _upsert_sales_outbox(u)
<1> DEFINE goal == \/ Writing' = Writing
                   \/ Writing' = None /\ outbox' = outbox /\ sales' = sales
                   \/ \E u \in Units : _sales_outbox_is_mutable(u) \/ _upsert_sales_outbox(u)
<1> HIDE DEF goal
<1> SUFFICES goal
  BY DEF goal
<1>0. /\ (step'["closeout"] = "upsert" <=> step["closeout"] = "upsert")
         /\ (step["closeout"] = "upsert" => day'["closeout"] = day["closeout"]) => goal
      /\ step'["closeout"] # "upsert" /\ outbox' = outbox /\ sales' = sales => goal
  BY DEF goal, Writing
<1> USE <1>0 DEF PlacesOK, WorkOK, unitVars, Go, Units, JobSteps, WrapperSteps, Idle
<1>1. CASE MidnightPasses
  BY <1>1 DEF MidnightPasses
<1>2. CASE FiguresChange
  BY <1>2 DEF FiguresChange
<1>3. CASE OtherLocks
  BY <1>3 DEF OtherLocks
<1>4. CASE OtherUnlocks
  BY <1>4 DEF OtherUnlocks
<1>5. ASSUME NEW u \in Units, TimerFires(u) PROVE goal
  BY <1>5 DEF TimerFires
<1>6. ASSUME NEW u \in Units, ManualRun(u) PROVE goal
  BY <1>6 DEF ManualRun
<1>7. ASSUME NEW u \in Units, TakeWrapperLock(u) PROVE goal
  BY <1>7 DEF TakeWrapperLock
<1>8. ASSUME NEW u \in Units, AlreadyRunning(u) PROVE goal
  BY <1>8 DEF AlreadyRunning, UnitFails
<1>9. ASSUME NEW u \in Units, StartJob(u) PROVE goal
  BY <1>9 DEF StartJob
<1>10. ASSUME NEW u \in Units, Import(u) PROVE goal
  BY <1>10 DEF Import
<1>11. ASSUME NEW u \in Units, _sales_outbox_is_mutable(u) PROVE goal
  BY <1>11, Zenon DEF goal
<1>12. ASSUME NEW u \in Units, _upsert_sales_outbox(u) PROVE goal
  BY <1>12, Zenon DEF goal
<1>13. ASSUME NEW u \in Units, Reconcile(u) PROVE goal
  BY <1>13 DEF Reconcile
<1>14. ASSUME NEW u \in Units, _ensure_alert_outbox(u) PROVE goal
  BY <1>14 DEF _ensure_alert_outbox
<1>15. ASSUME NEW u \in Units, FinishJob(u) PROVE goal
  BY <1>15 DEF FinishJob
<1>16. ASSUME NEW u \in Units, SenderDelivers(u) PROVE goal
  BY <1>16 DEF SenderDelivers, WrapperExits, UnitFails
<1>17. ASSUME NEW u \in Units, SenderIsLocked(u) PROVE goal
  BY <1>17 DEF SenderIsLocked, WrapperExits, UnitFails
<1>18. ASSUME NEW u \in Units, WrapperLockTimesOut(u) PROVE goal
  BY <1>18 DEF WrapperLockTimesOut, UnitFails
<1>19. ASSUME NEW u \in Units, ImportFails(u) PROVE goal
  BY <1>19 DEF ImportFails
<1>20. ASSUME NEW u \in Units, JobRaises(u) PROVE goal
  BY <1>20 DEF JobRaises
<1>21. ASSUME NEW u \in Units, JobCrashes(u) PROVE goal
  BY <1>21 DEF JobCrashes, UnitFails
<1>22. ASSUME NEW u \in Units, SenderFails(u) PROVE goal
  BY <1>22 DEF SenderFails, WrapperExits, UnitFails
<1>23. CASE HandSender
  BY <1>23, HandSenderElsewhere
<1>24. CASE UNCHANGED vars
  BY <1>24 DEF vars, handVars
<1> QED
  BY <1>1, <1>2, <1>3, <1>4, <1>5, <1>6, <1>7, <1>8, <1>9, <1>10, <1>11, <1>12, <1>13,
     <1>14, <1>15, <1>16, <1>17, <1>18, <1>19, <1>20, <1>21, <1>22, <1>23, <1>24
     DEF Next, Environment, UnitStep, UnitFault

\* Nothing is known, reported or corrected at first.
LEMMA PromiseInit == Init => Promise!Init
<1> SUFFICES ASSUME Init PROVE Promise!Init
  OBVIOUS
<1>1. outbox = << >> /\ sales = [d \in Days |-> None]
  BY DEF Init
<1>2. \A d : SalesReports(outbox, d) = {}
  BY <1>1 DEF SalesReports, OfDay
<1>3. [d \in Days |-> Reported(outbox, d)] = [d \in Days |-> None]
  BY <1>2 DEF Reported
<1>4. Sent(outbox) = {} /\ Corrections(outbox) = {}
  BY <1>1, <1>2 DEF Sent, Corrections, CorrectionRows
<1> QED
  BY <1>1, <1>3, <1>4 DEF Promise!Init, Promise!None, None, Init, Units

\* Every step of the jobs, the units and the sender is one of the promise, or none.
LEMMA PromiseStep ==
    ASSUME CooInv, [Next]_vars
    PROVE  [Promise!Next]_(Promise!dailyVars)
<1>1. /\ CountsOK /\ WorkOK /\ PlacesOK /\ HandOK /\ OutboxOK /\ UniqueKeys /\ NoTwoReports
      /\ \A u \in Units : JobKnows(u)
  BY CooParts
<1>2. Reports = [d \in Days |-> Reported(outbox, d)] /\ Reports' = [d \in Days |-> Reported(outbox', d)]
  BY DEF Reports
<1>3. None \notin Figures /\ Promise!None = None
  BY DailyCooAssumption DEF None, Promise!None
<1> DEFINE goal == [Promise!Next]_(Promise!dailyVars)
<1>4. ASSUME sales' = sales, Reports' = Reports, Sent(outbox') = Sent(outbox),
             Corrections(outbox') = Corrections(outbox), Writing' = Writing
      PROVE  goal
  BY <1>2, <1>4 DEF Promise!dailyVars, Writing
<1>5. ASSUME outbox' = outbox, Writing' = Writing PROVE goal
  <2>1. CASE sales' = sales
    BY <1>4, <1>5, <2>1 DEF Reports
  <2>2. CASE \E d \in Days : sales' = [sales EXCEPT ![d] = iiko[d]]
    <3>1. PICK d \in Days : sales' = [sales EXCEPT ![d] = iiko[d]]
      BY <2>2
    <3>2. iiko[d] \in Figures
      BY <1>1 DEF CountsOK
    <3>3. Promise!Learn(d)
      BY <1>2, <1>5, <3>1, <3>2 DEF Promise!Learn, Writing
    <3> QED
      BY <3>3 DEF Promise!Next
  <2> QED
    BY <1>1, <2>1, <2>2, SalesWriters
<1>6. ASSUME Writing' = None, outbox' = outbox, sales' = sales PROVE goal
  <2>1. Promise!GiveUp
    BY <1>3, <1>6 DEF Promise!GiveUp, Writing
  <2> QED
    BY <2>1 DEF Promise!Next
<1>7. ASSUME NEW u \in Units, _sales_outbox_is_mutable(u) PROVE goal
  <2> DEFINE d == day[u]
             i == ReportToUpsert(d)
  <2>1. /\ u = "closeout" /\ step[u] = "report" /\ JobKnows(u)
        /\ outbox' = outbox /\ sales' = sales /\ day' = day
        /\ \/ /\ i # None => IsMutable(outbox[i])
              /\ step' = [step EXCEPT ![u] = "upsert"]
           \/ step' = [step EXCEPT ![u] = "finish"]
    BY <1>1, <1>7 DEF _sales_outbox_is_mutable, Go
  <2>2. d \in Days /\ sales[d] \in Figures
    BY <2>1 DEF JobKnows, JobSteps
  <2>3. IF i = None THEN SalesReports(outbox, d) = {} ELSE i \in SalesReports(outbox, d)
    BY <1>1, <2>2, UpsertRow
  <2> HIDE DEF d, i
  <2>4. CASE step' = [step EXCEPT ![u] = "finish"]
    <3>1. Writing' = None
      BY <1>1, <2>1, <2>4 DEF Writing, PlacesOK
    <3> QED
      BY <1>6, <2>1, <3>1
  <2>5. CASE (i # None => IsMutable(outbox[i])) /\ step' = [step EXCEPT ![u] = "upsert"]
    <3>1. Writing' = d
      BY <1>1, <2>1, <2>5 DEF Writing, PlacesOK, d
    <3>2. d \notin Sent(outbox)
      BY <1>1, <2>3, <2>5 DEF Sent, NoTwoReports, SalesReports, OfDay, IsMutable
    <3>3. Promise!Begin(d)
      BY <1>2, <1>3, <2>1, <2>2, <3>1, <3>2 DEF Promise!Begin, Writing
    <3> QED
      BY <2>2, <3>3 DEF Promise!Next
  <2> QED
    BY <2>1, <2>4, <2>5
<1>8. ASSUME NEW u \in Units, _upsert_sales_outbox(u) PROVE goal
  <2>1. /\ step[u] = "upsert" /\ JobKnows(u) /\ day[u] \in Days
        /\ sales' = sales /\ step' = [step EXCEPT ![u] = "finish"]
    BY <1>1, <1>8 DEF _upsert_sales_outbox, JobKnows, JobSteps, Go
  <2> DEFINE d == day[u]
  <2>2. /\ u = "closeout" /\ sales[d] \in Figures
        /\ \/ \E row \in Rows : /\ Grows(row) /\ row.type = "sales" /\ row.day = d
                                /\ FiguresOf(row) = sales[d]
           \/ \E i \in DOMAIN outbox : Rewrites(i, d)
    BY <1>1, <1>8, <2>1, UpsertStep
  <2>3. Writing = d /\ Writing' = None
    BY <1>1, <2>1, <2>2 DEF Writing, PlacesOK
  <2>4. ASSUME Sent(outbox') = Sent(outbox), Corrections(outbox') = Corrections(outbox),
               Reports' = [Reports EXCEPT ![d] = sales[d]]
        PROVE  goal
    <3>1. Promise!Write(d)
      BY <1>2, <1>3, <2>1, <2>3, <2>4 DEF Promise!Write, Writing
    <3> QED
      BY <2>1, <3>1 DEF Promise!Next
  <2>5. ASSUME NEW row \in Rows, Grows(row), row.type = "sales", row.day = d, FiguresOf(row) = sales[d]
        PROVE  goal
    <3>1. Corrections(outbox') = Corrections(outbox)
      BY <1>1, <2>5, GrownViews
    <3> QED
      BY <1>1, <2>4, <2>5, <3>1, GrownViews
  <2>6. ASSUME NEW i \in DOMAIN outbox, Rewrites(i, d) PROVE goal
    BY <1>1, <2>1, <2>4, <2>6, RewrittenViews
  <2> QED
    BY <2>2, <2>5, <2>6
<1>9. ASSUME Writing' = Writing, NEW u \in Units, Reconcile(u) PROVE goal
  <2>1. step[u] = "report" /\ u = "reconcile" /\ sales' = sales
    BY <1>9 DEF Reconcile
  <2>2. day[u] \in Days /\ sales[day[u]] \in Figures /\ base[u] \in SalesReports(outbox, day[u])
    BY <1>1, <2>1 DEF JobKnows, JobSteps
  <2> DEFINE d == day[u]
  <2>3. Reported(outbox, d) = FiguresOf(outbox[base[u]])
    <3>1. \A j \in SalesReports(outbox, d) : j = base[u]
      BY <1>1, <2>2 DEF NoTwoReports, SalesReports, OfDay
    <3> QED
      BY <1>1, <2>2, <3>1, TheReport DEF OutboxOK
  <2>4. Reported(outbox, d) \in Figures
    <3>1. base[u] \in DOMAIN outbox /\ outbox[base[u]].type = "sales"
      BY <2>2 DEF SalesReports, OfDay
    <3>2. PICK f \in Figures : outbox[base[u]].text = <<f>>
      BY <1>1, <3>1 DEF OutboxOK, Fits
    <3> QED
      BY <2>3, <3>2 DEF FiguresOf
  <2>5. \/ outbox' = outbox
        \/ \E row \in Rows :
             /\ Grows(row) /\ row.type = "correction" /\ row.day = d
             /\ row.text[1] = Shown[Reported(outbox, d)]
             /\ row.text[2] = Shown[sales[d]]
             /\ row.text[1] # row.text[2]
    BY <1>1, <1>9, <2>2, <2>3, ReconcileStep
  <2>6. ASSUME NEW row \in Rows, Grows(row), row.type = "correction", row.day = d,
               row.text[1] = Shown[Reported(outbox, d)], row.text[2] = Shown[sales[d]],
               row.text[1] # row.text[2]
        PROVE  goal
    <3>1. /\ Sent(outbox') = Sent(outbox) /\ Reports' = Reports
          /\ Corrections(outbox') = Corrections(outbox) \cup {<<d, row.text[1], row.text[2]>>}
      BY <1>1, <2>6, GrownViews
    <3>2. Reports[d] = Reported(outbox, d)
      BY <1>2, <2>2
    <3>3. Promise!Correct(d)
      BY <1>2, <1>3, <1>9, <2>1, <2>2, <2>4, <2>6, <3>1, <3>2 DEF Promise!Correct, Writing
    <3> QED
      BY <2>2, <3>3 DEF Promise!Next
  <2> QED
    BY <1>5, <1>9, <2>5, <2>6
<1>10. ASSUME Writing' = Writing, NEW u \in Units, _ensure_alert_outbox(u) PROVE goal
  <2>1. day[u] \in Days /\ sales' = sales
    BY <1>1, <1>10 DEF JobKnows, JobSteps, _ensure_alert_outbox
  <2>2. \/ outbox' = outbox
        \/ \E row \in Rows : Grows(row) /\ row.type = "alert"
    BY <1>1, <1>10, <2>1, AlertStep
  <2>3. ASSUME NEW row \in Rows, Grows(row), row.type = "alert" PROVE goal
    <3>1. Sent(outbox') = Sent(outbox) /\ Reports' = Reports /\ Corrections(outbox') = Corrections(outbox)
      BY <1>1, <2>3, GrownViews
    <3> QED
      BY <1>4, <1>10, <2>1, <3>1
  <2> QED
    BY <1>5, <1>10, <2>2, <2>3
<1>11. ASSUME Writing' = Writing, NEW u \in Units, SenderDelivers(u) \/ SenderFails(u) PROVE goal
  <2>1. /\ Reports' = Reports /\ Corrections(outbox') = Corrections(outbox) /\ sales' = sales
        /\ \/ Sent(outbox') = Sent(outbox)
           \/ /\ day[u] \in Days /\ Reports[day[u]] # None
              /\ Sent(outbox') = Sent(outbox) \cup {day[u]}
    BY <1>1, <1>11, SenderViews DEF SenderDelivers, SenderFails
  <2>2. CASE day[u] \in Days /\ Reports[day[u]] # None /\ Sent(outbox') = Sent(outbox) \cup {day[u]}
    <3>1. Promise!Send(day[u])
      BY <1>2, <1>3, <1>11, <2>1, <2>2 DEF Promise!Send, Writing
    <3> QED
      BY <2>2, <3>1 DEF Promise!Next
  <2> QED
    BY <1>4, <1>11, <2>1, <2>2
<1>12. ASSUME Writing' = Writing, HandSender PROVE goal
  <2>1. /\ Reports' = Reports /\ Corrections(outbox') = Corrections(outbox) /\ sales' = sales
        /\ \/ Sent(outbox') = Sent(outbox)
           \/ \E e \in Days : Reports[e] # None /\ Sent(outbox') = Sent(outbox) \cup {e}
    BY <1>1, <1>12, HandViews, HandSenderElsewhere
  <2>2. ASSUME NEW e \in Days, Reports[e] # None, Sent(outbox') = Sent(outbox) \cup {e} PROVE goal
    <3>1. Promise!Send(e)
      BY <1>2, <1>3, <1>12, <2>1, <2>2 DEF Promise!Send, Writing
    <3> QED
      BY <3>1 DEF Promise!Next
  <2> QED
    BY <1>4, <1>12, <2>1, <2>2
<1>13. CASE Writing' = Writing
  BY <1>5, <1>8, <1>9, <1>10, <1>11, <1>12, <1>13, OutboxWriters
<1>14. CASE Writing' # Writing
  BY <1>1, <1>6, <1>7, <1>8, <1>14, WritingStep
<1> QED
  BY <1>13, <1>14

\* Daily reports keep DailyPromise: whatever operators run by hand, the sender
\* included, however late units are and wherever anything fails, no closeout sets out
\* to change a report that a chat may have, and each correction leads from the report
\* as it then is to the figures imported when it was made.
THEOREM DailyKeepsPromise == Spec => KeepsPromise
<1>1. Init => Promise!Init
  BY PromiseInit
<1>2. CooInv /\ [Next]_vars => [Promise!Next]_(Promise!dailyVars)
  BY PromiseStep
<1> QED
  BY <1>1, <1>2, CooInvariant, PTL DEF Spec, KeepsPromise, Promise!Spec
==============================================================================
