----------------------------- MODULE SalesImport -----------------------------
(***************************************************************************)
(* IikoSalesSyncService and IikoSalesRepository: imports of a day, or of a *)
(* range of days, by processes that run next to each other.  The jobs of   *)
(* Core take turns by the advisory lock; the command line of the import    *)
(* takes no lock, and what keeps a day whole beside it is in here.         *)
(*                                                                         *)
(* A fetch reads the three reports one after the other (IikoClient says    *)
(* how) while iiko changes.  A transaction is its statements under READ    *)
(* COMMITTED: a DELETE takes the rows committed when it starts, waits for  *)
(* a transaction that has deleted one of them already, and then takes what *)
(* is left of them.  The inserts are flushed by the commit.                *)
(*                                                                         *)
(* A table holds, per day, rows with a key (the unique constraint), the    *)
(* import that wrote them and what they say.  Any day may be imported:     *)
(* --allow-open-day lifts the refusal of the open one.  Left out:          *)
(* requires_resync, which no code sets.                                    *)
(***************************************************************************)
EXTENDS SalesNormalization, Sequences

CONSTANTS
    Days,           \* consecutive local dates
    MaxRangeDays,   \* the longest range
    Books,          \* what iiko may say of a day
    FirstBooks,     \* what it may say at first
    ReportOf,       \* the three reports of a book
    PaymentTypes,   \* payment types an operator may put in a category
    Importers,      \* processes that import
    TakeTurns,      \* those that hold the advisory lock: jobs of Core
    Automation,     \* those that are the sales automation: run_date
    DryRuns,        \* those that may be asked for a dry run
    MaxImports,     \* bound on imports started
    MaxFaults,      \* bound on failing fetches, failing statements and crashes
    MaxChanges      \* bound on changes of iiko or of the category map

ASSUME SalesImportAssumption ==
    /\ FirstBooks \subseteq Books
    /\ \A a, b \in Days : a .. b \subseteq Days
    /\ Days \subseteq Nat \ {0} /\ MaxRangeDays \in Nat \ {0}
    /\ TakeTurns \subseteq Importers /\ Automation \subseteq TakeTurns
    /\ DryRuns \subseteq Importers \ Automation
    /\ {MaxImports, MaxFaults, MaxChanges} \subseteq Nat

\* The rows of two imports of a day meet in a key: every day has a payment of one
\* type, like cash.
PaymentKeysMeet ==
    \A a, b \in Books :
        \E r \in Normal(ReportOf[a].payments), q \in Normal(ReportOf[b].payments) : r.key = q.key

\* No import runs next to another.
OneAtATime == \A i, k \in Importers : i # k => {i, k} \subseteq TakeTurns

\* What keeps two imports of a day apart is the lock or a key of the payments.
\* With neither, the command line next to a job of Core, and a day without sales
\* or with other types of payment, one import leaves rows of the other behind.
DaysDoNotMix == OneAtATime \/ PaymentKeysMeet

NoDay == 0

VARIABLES
    iiko,        \* the book iiko holds for each day
    categoryMap, \* IIKO_PAYMENT_CATEGORY_MAP: the mapped payment types
    db,          \* the committed rows of each day, per table
    runs,        \* iiko_sales_sync_runs
    imp,         \* what each process does
    started, faults, changes   \* how much of the bounds is used

vars == <<iiko, categoryMap, db, runs, imp, started, faults, changes>>

-----------------------------------------------------------------------------

\* iiko_sales_daily_payments and _products are emptied first, iiko_sales_daily last.
Tables == Reports

NoRows == [t \in Tables |-> {}]

\* A process: its import and range, the answers of the fetch, the checksum its
\* session remembers, what its transaction has seen and deleted, and what
\* sync_range has added up so far.
Idle ==
    [step |-> "idle", import |-> 0, day |-> NoDay, first |-> NoDay, last |-> NoDay,
     dry |-> FALSE, map |-> {}, known |-> {}, answers |-> << >>, existing |-> {},
     seen |-> {}, gone |-> NoRows, status |-> "proven"]

Init ==
    /\ iiko \in [Days -> FirstBooks]
    /\ categoryMap = {}
    /\ db = [d \in Days |-> NoRows]
    /\ runs = {}
    /\ imp = [i \in Importers |-> Idle]
    /\ started = 0 /\ faults = 0 /\ changes = 0

Step(i)   == imp[i].step
Day(i)    == imp[i].day
Active(i) == Step(i) \notin {"idle", "done"}
MayFail   == faults < MaxFaults /\ faults' = faults + 1
MayChange == changes < MaxChanges /\ changes' = changes + 1

\* The reports as the fetch has read them, each when its turn came.
ReadingOf(a, b, c) == [daily    |-> ReportOf[a].daily,
                       payments |-> ReportOf[b].payments,
                       products |-> ReportOf[c].products]

Reading(i) == ReadingOf(imp[i].answers[1], imp[i].answers[2], imp[i].answers[3])

Checksum(i) == calculate_sales_checksum(Reading(i))
Status(i)   == ResultStatus(Reading(i), imp[i].map)

\* The checksum of the day's row, if there is one.
get_daily(d) == {r.what.checksum : r \in db[d].daily}

-----------------------------------------------------------------------------
(* The environment *)

\* Orders are booked, reversed or deleted, of closed days too.
IikoChanges ==
    /\ MayChange
    /\ \E d \in Days, b \in Books : b # iiko[d] /\ iiko' = [iiko EXCEPT ![d] = b]
    /\ UNCHANGED <<categoryMap, db, runs, imp, started, faults>>

\* An operator maps a payment type; processes that run have read the old map.
MapChanges ==
    /\ MayChange
    /\ \E p \in PaymentTypes \ categoryMap : categoryMap' = categoryMap \cup {p}
    /\ UNCHANGED <<iiko, db, runs, imp, started, faults>>

-----------------------------------------------------------------------------
(* sync_range *)

validate_date_range(first, last) == first <= last /\ last - first < MaxRangeDays

\* A job of Core has the lock and imports one day.  The automation has looked at its
\* row before: the session keeps the row it found, with the checksum of that moment.
StartRange(i) ==
    /\ Step(i) = "idle" /\ started < MaxImports
    /\ i \in TakeTurns => \A k \in TakeTurns : ~ Active(k)
    /\ \E first, last \in Days, dry \in BOOLEAN :
        /\ validate_date_range(first, last)
        /\ i \in TakeTurns => first = last
        /\ dry => i \in DryRuns
        /\ imp' = [imp EXCEPT ![i] =
             [Idle EXCEPT !.step = "fetch", !.import = started + 1, !.day = first,
                          !.first = first, !.last = last, !.dry = dry, !.map = categoryMap,
                          !.known = IF i \in Automation THEN get_daily(first) ELSE {}]]
    /\ started' = started + 1
    /\ UNCHANGED <<iiko, categoryMap, db, runs, faults, changes>>

\* Mutant: the last day decides.
Worse_Last(a, b) == b

Rank == [proven |-> 1, partial |-> 2, blocked |-> 3, unknown |-> 4]

Worse(a, b) == IF Rank[b] > Rank[a] THEN b ELSE a

\* Mutants: the loop stays where it is; what was deleted is still held.
EndDay_Again(i, status) ==
    imp' = [imp EXCEPT ![i].step = "fetch", ![i].status = status, ![i].answers = << >>,
                       ![i].existing = {}, ![i].seen = {}, ![i].gone = NoRows]

EndDay_Holding(i, status) ==
    imp' = [imp EXCEPT ![i].step = IF Day(i) = imp[i].last THEN "done" ELSE "fetch",
                       ![i].day = IF Day(i) = imp[i].last THEN @ ELSE @ + 1,
                       ![i].status = Worse(@, status), ![i].answers = << >>]

\* The day's result is added up, and the next day begins.
EndDay(i, status) ==
    imp' = [imp EXCEPT ![i].step = IF Day(i) = imp[i].last THEN "done" ELSE "fetch",
                       ![i].day = IF Day(i) = imp[i].last THEN @ ELSE @ + 1,
                       ![i].status = Worse(@, status), ![i].answers = << >>,
                       ![i].existing = {}, ![i].seen = {}, ![i].gone = NoRows]

\* The result is printed.
Finish(i) ==
    /\ Step(i) = "done"
    /\ imp' = [imp EXCEPT ![i] = Idle]
    /\ UNCHANGED <<iiko, categoryMap, db, runs, started, faults, changes>>

-----------------------------------------------------------------------------
(* sync_day: the reading *)

ReadReport(i) ==
    /\ Step(i) = "fetch" /\ Len(imp[i].answers) < 3
    /\ imp' = [imp EXCEPT ![i].answers = Append(@, iiko[Day(i)])]
    /\ UNCHANGED <<iiko, categoryMap, db, runs, started, faults, changes>>

HasRead(i) == Step(i) = "fetch" /\ Len(imp[i].answers) = 3

\* The row of the day's run; a dry run leaves none.
Recorded(i, status) ==
    IF imp[i].dry THEN runs
    ELSE runs \cup {[import |-> imp[i].import, day |-> Day(i), status |-> status]}

\* The fetch ends without the figures, and the range goes on.
FetchFails(i) ==
    /\ Step(i) = "fetch" /\ Len(imp[i].answers) < 3
    /\ MayFail
    /\ \E status \in {"blocked", "unknown"} :
        runs' = Recorded(i, status) /\ EndDay(i, status)
    /\ UNCHANGED <<iiko, categoryMap, db, started, changes>>

\* SalesNormalizationError: the stored day stays as it is, and the range goes on.
NormalizationFails(i) ==
    /\ HasRead(i) /\ "refused" \in Faults(Reading(i))
    /\ runs' = Recorded(i, "unknown") /\ EndDay(i, "unknown")
    /\ UNCHANGED <<iiko, categoryMap, db, started, faults, changes>>

\* Anything else that raises ends the range, and nothing tells of the day.
NormalizationRaises(i) ==
    /\ HasRead(i) /\ "garbled" \in Faults(Reading(i))
    /\ imp' = [imp EXCEPT ![i] = Idle]
    /\ UNCHANGED <<iiko, categoryMap, db, runs, started, faults, changes>>

DryRun(i) ==
    /\ HasRead(i) /\ Faults(Reading(i)) = {} /\ imp[i].dry
    /\ EndDay(i, Status(i))
    /\ UNCHANGED <<iiko, categoryMap, db, runs, started, faults, changes>>

-----------------------------------------------------------------------------
(* sync_day: the transaction of persist_report *)

\* The row of the day is read, from the session if it has it.
PersistBegins(i) ==
    /\ HasRead(i) /\ Faults(Reading(i)) = {} /\ ~ imp[i].dry
    /\ LET existing == IF imp[i].known # {} THEN imp[i].known ELSE get_daily(Day(i))
       IN  imp' = [imp EXCEPT ![i].existing = existing,
                              ![i].step = IF existing = {Checksum(i)} THEN "unchanged"
                                          ELSE "delete payments"]
    /\ UNCHANGED <<iiko, categoryMap, db, runs, started, faults, changes>>

\* The same rows as before: the day is left alone.
RecordUnchanged(i) ==
    /\ Step(i) = "unchanged"
    /\ runs' = Recorded(i, Status(i)) /\ EndDay(i, Status(i))
    /\ UNCHANGED <<iiko, categoryMap, db, started, faults, changes>>

LockSteps == {"lock payments", "lock products", "lock daily"}

TableOf(step) ==
    CASE step \in {"delete payments", "lock payments"} -> "payments"
      [] step \in {"delete products", "lock products"} -> "products"
      [] OTHER -> "daily"

LockOf == [payments |-> "lock payments", products |-> "lock products", daily |-> "lock daily"]

\* A DELETE starts: these rows are committed.
DeleteStarts(i) ==
    /\ Step(i) \in {"delete payments", "delete products", "delete daily"}
    /\ LET t == TableOf(Step(i))
       IN  imp' = [imp EXCEPT ![i].seen = db[Day(i)][t], ![i].step = LockOf[t]]
    /\ UNCHANGED <<iiko, categoryMap, db, runs, started, faults, changes>>

\* Another transaction of the day has deleted this row of table t.
DeletedBy(k, d, t, row) == Day(k) = d /\ row \in imp[k].gone[t]

\* What the tables say of a day after an import.
Row(key, import, what) == [key |-> key, import |-> import, what |-> what]

StoredRows(import, reading, map, t) ==
    CASE t = "daily" ->
           {Row("day", import, [checksum |-> calculate_sales_checksum(reading),
                                status   |-> ResultStatus(reading, map),
                                net      |-> Net(reading.daily),
                                gross    |-> Gross(reading.daily)])}
      [] t = "payments" ->
           {Row(r.key, import, [row |-> r, category |-> categorize_payment(r, map)]) :
              r \in Normal(reading.payments)}
      [] t = "products" ->
           {Row(r.key, import, [row |-> r]) : r \in Normal(reading.products)}

NewRows(i, t) == StoredRows(imp[i].import, Reading(i), imp[i].map, t)

\* Mutant: payments have no unique key.
InTheWay_NoPaymentKey(i, t) ==
    LET keys == {n.key : n \in NewRows(i, t)}
    IN  {row \in db[Day(i)][t] \ imp[i].gone[t] : t # "payments" /\ row.key \in keys}

\* The rows of the day whose keys the new rows of i need.
InTheWay(i, t) ==
    LET keys == {n.key : n \in NewRows(i, t)}
    IN  {row \in db[Day(i)][t] \ imp[i].gone[t] : row.key \in keys}

Waits(i, k) ==
    /\ i # k
    /\ \/ /\ Step(i) \in LockSteps
          /\ \E row \in imp[i].seen : DeletedBy(k, Day(i), TableOf(Step(i)), row)
       \/ /\ Step(i) = "insert"
          /\ \E t \in Tables : \E row \in InTheWay(i, t) : DeletedBy(k, Day(i), t, row)

\* Mutant: the products are left where they are.
StepAfter_KeepsProducts(i) ==
    CASE Step(i) = "lock payments" /\ imp[i].existing # {} -> "delete daily"
      [] OTHER -> "insert"

\* The mapped delete of the daily row is flushed, and only if it was found.
StepAfter(i) ==
    CASE Step(i) = "lock payments" -> "delete products"
      [] Step(i) = "lock products" /\ imp[i].existing # {} -> "delete daily"
      [] OTHER -> "insert"

\* The rows seen that are still there are deleted, when nobody else deletes them.
DeleteEnds(i) ==
    /\ Step(i) \in LockSteps
    /\ \A k \in Importers : ~ Waits(i, k)
    /\ LET t == TableOf(Step(i))
       IN  imp' = [imp EXCEPT ![i].gone[t] = imp[i].seen \cap db[Day(i)][t],
                              ![i].seen = {}, ![i].step = StepAfter(i)]
    /\ UNCHANGED <<iiko, categoryMap, db, runs, started, faults, changes>>

KeysAreUnique(rows) == \A a, b \in rows : a.key = b.key => a = b

\* The flush inserts the rows and the run, and the commit keeps them.
FlushAndCommit(i) ==
    /\ Step(i) = "insert"
    /\ \A t \in Tables : InTheWay(i, t) = {} /\ KeysAreUnique(NewRows(i, t))
    /\ db' = [db EXCEPT ![Day(i)] =
                [t \in Tables |-> (@[t] \ imp[i].gone[t]) \cup NewRows(i, t)]]
    /\ runs' = Recorded(i, Status(i)) /\ EndDay(i, Status(i))
    /\ UNCHANGED <<iiko, categoryMap, started, faults, changes>>

\* A unique key is taken: IntegrityError, rollback, and the range ends.
FlushRaises(i) ==
    /\ Step(i) = "insert"
    /\ \E t \in Tables :
        \/ ~ KeysAreUnique(NewRows(i, t))
        \/ \E row \in InTheWay(i, t) : \A k \in Importers : ~ DeletedBy(k, Day(i), t, row)
    /\ imp' = [imp EXCEPT ![i] = Idle]
    /\ UNCHANGED <<iiko, categoryMap, db, runs, started, faults, changes>>

\* PostgreSQL ends one of the transactions that wait for one another.
Deadlocked(i) ==
    /\ Step(i) \in LockSteps \cup {"insert"}
    /\ \E s \in SUBSET Importers : i \in s /\ \A a \in s : \E b \in s : Waits(a, b)
    /\ imp' = [imp EXCEPT ![i] = Idle]
    /\ UNCHANGED <<iiko, categoryMap, db, runs, started, faults, changes>>

\* A statement fails, or the process ends: what is not committed is undone.
ImportRaises(i) ==
    /\ Step(i) \notin {"idle", "done"}
    /\ MayFail
    /\ imp' = [imp EXCEPT ![i] = Idle]
    /\ UNCHANGED <<iiko, categoryMap, db, runs, started, changes>>

-----------------------------------------------------------------------------

Proceed(i) ==
    \/ ReadReport(i) \/ NormalizationFails(i) \/ NormalizationRaises(i) \/ DryRun(i)
    \/ PersistBegins(i) \/ RecordUnchanged(i) \/ DeleteStarts(i) \/ DeleteEnds(i)
    \/ FlushAndCommit(i) \/ FlushRaises(i) \/ Deadlocked(i) \/ Finish(i)

Next ==
    \/ IikoChanges \/ MapChanges
    \/ \E i \in Importers : StartRange(i) \/ Proceed(i) \/ FetchFails(i) \/ ImportRaises(i)

Spec == Init /\ [][Next]_vars

\* A process goes on unless its transaction waits.
FairSpec == Spec /\ \A i \in Importers : WF_vars(Proceed(i))

-----------------------------------------------------------------------------
(* Properties *)

\* The shape of the state: a transaction is as far as its step says, and has
\* deleted rows that are still committed for everybody else.
TypeOK ==
    /\ iiko \in [Days -> Books] /\ categoryMap \subseteq PaymentTypes
    /\ \A d \in Days, t \in Tables : KeysAreUnique(db[d][t])
    /\ \A i \in Importers :
        /\ DOMAIN imp[i] = DOMAIN Idle
        /\ Step(i) # "idle" => Day(i) \in Days /\ imp[i].import \in 1 .. started
        /\ imp[i].status \in DOMAIN Rank
        /\ \A t \in Tables : imp[i].gone[t] # {} => imp[i].gone[t] \subseteq db[Day(i)][t]

\* Where days do not mix, the three tables of a day are of one import.
DayIsWhole ==
    \A d \in Days : \A t, u \in Tables : \A r \in db[d][t], s \in db[d][u] :
        r.import = s.import

\* A stored day that says it can be trusted adds up, although its reports were
\* read one after the other while iiko changed.
TrustedDaysAddUp ==
    \A d \in Days : \A r \in db[d].daily : r.what.status \in {"proven", "partial"} =>
        /\ ~ Mismatch(Net({p.what.row : p \in db[d].payments}), r.what.net)
        /\ ~ Mismatch(Net({p.what.row : p \in db[d].products}), r.what.net)
        /\ ~ Mismatch(Gross({p.what.row : p \in db[d].products}), r.what.gross)

RunsOf(i) == {r \in runs : r.import = imp[i].import}

\* An import that prints a result has recorded every day of its range, and its
\* status is no better than that of any of them and as bad as that of one.
ResultTellsOfEveryDay ==
    \A i \in Importers : Step(i) = "done" /\ ~ imp[i].dry =>
        /\ {r.day : r \in RunsOf(i)} = imp[i].first .. imp[i].last
        /\ imp[i].status \in {r.status : r \in RunsOf(i)}
        /\ \A r \in RunsOf(i) : Worse(imp[i].status, r.status) = imp[i].status

\* What makes a result tell of every day: imports that run or have a result to
\* print have their own numbers, and what an import has added up so far is of the
\* days it has behind it.
DaysBehind(i) == imp[i].first .. IF Step(i) = "done" THEN imp[i].last ELSE Day(i) - 1

AddedUp(i) ==
    /\ {r.day : r \in RunsOf(i)} = DaysBehind(i)
    /\ IF RunsOf(i) = {} THEN imp[i].status = "proven"
       ELSE imp[i].status \in {r.status : r \in RunsOf(i)}
    /\ \A r \in RunsOf(i) : Worse(imp[i].status, r.status) = imp[i].status

ResultInv ==
    /\ \A r \in runs : r.import \in 1 .. started /\ r.status \in DOMAIN Rank
    /\ \A i, k \in Importers :
        Step(i) # "idle" /\ Step(k) # "idle" /\ imp[i].import = imp[k].import => i = k
    /\ \A i \in Importers : Step(i) # "idle" =>
        /\ imp[i].first \in Days /\ imp[i].first <= Day(i)
        /\ imp[i].dry \/ AddedUp(i)

\* What keeps a day whole: a stored day is what one import made of one reading;
\* imports have their own numbers; a transaction deletes all rows of a table or
\* none, two never the same, and the products with the payments; one that runs
\* alone deletes what there is.
NotStored(d) == \A t \in Tables : db[d][t] = {}

MadeBy(d, n, reading, map) ==
    \A t \in Tables : db[d][t] = StoredRows(n, reading, map, t) /\ KeysAreUnique(db[d][t])

StoredOnce(d) ==
    \E n \in 1 .. started, a, b, c \in Books, map \in SUBSET PaymentTypes :
        MadeBy(d, n, ReadingOf(a, b, c), map)

OwnNumbers ==
    /\ \A i, k \in Importers : imp[i].import = imp[k].import => i = k \/ ~ Active(i) \/ ~ Active(k)
    /\ \A i, k \in Importers : \A r \in imp[k].seen :
        /\ r.import \in 1 .. started
        /\ Active(i) /\ Day(i) <= Day(k) => r.import # imp[i].import
    /\ \A d \in Days, t \in Tables : \A r \in db[d][t] :
        /\ r.import \in 1 .. started
        /\ \A i \in Importers : Active(i) /\ Day(i) <= d => r.import # imp[i].import

AllOrNothing ==
    /\ \A i \in Importers, t \in Tables :
        imp[i].gone[t] # {} => Active(i) /\ imp[i].gone[t] = db[Day(i)][t]
    /\ \A i \in Importers : Step(i) \in LockSteps =>
        \/ imp[i].seen \cap db[Day(i)][TableOf(Step(i))] = {}
        \/ db[Day(i)][TableOf(Step(i))] \subseteq imp[i].seen

OneDeletes ==
    \A i, k \in Importers, t \in Tables :
        i # k /\ Day(i) = Day(k) /\ imp[i].gone[t] # {} => imp[k].gone[t] = {}

ProductsGoToo ==
    \A i \in Importers : imp[i].gone["payments"] # {} =>
        /\ Step(i) = "lock products" => imp[i].seen = db[Day(i)]["products"]
        /\ Step(i) \in {"delete daily", "lock daily", "insert"} =>
            imp[i].gone["products"] = db[Day(i)]["products"]

TurnsAreTaken ==
    LET last == {"delete daily", "lock daily", "insert"}
    IN  OneAtATime =>
          /\ \A i, k \in Importers : Active(i) /\ Active(k) => i = k
          /\ \A i \in Importers :
              /\ Step(i) \in LockSteps => imp[i].seen = db[Day(i)][TableOf(Step(i))]
              /\ Step(i) \in last \cup {"delete products", "lock products"} =>
                  imp[i].gone["payments"] = db[Day(i)]["payments"]
              /\ Step(i) \in last => imp[i].gone["products"] = db[Day(i)]["products"]

\* The inductive invariant, where days do not mix.
ImportInv ==
    /\ \A d \in Days : NotStored(d) \/ StoredOnce(d)
    /\ OwnNumbers /\ AllOrNothing /\ OneDeletes /\ ProductsGoToo /\ TurnsAreTaken

-----------------------------------------------------------------------------
(* What the imports implement together *)

\* Readings that can be made sense of.
Readable ==
    {r \in {ReadingOf(a, b, c) : a, b, c \in Books} : Faults(r) = {}}

\* What import n makes of a reading, with the map it was given.
Version(n, reading, map) ==
    [import |-> n, status |-> ResultStatus(reading, map),
     tables |-> [t \in Tables |-> StoredRows(n, reading, map, t)]]

Versions ==
    {Version(n, reading, map) :
        n \in 1 .. MaxImports, reading \in Readable, map \in SUBSET PaymentTypes}

Promise == INSTANCE SalesStore WITH
    Imports <- 1 .. MaxImports,
    Statuses <- DOMAIN Rank,
    Nothing <- NoRows,
    stored <- db,
    results <- runs

\* Where days do not mix: whatever runs next to what and fails where, an import deals
\* with its days in turn: it replaces a day at once, by what it made of one reading,
\* together with the run that says so, or leaves it and records a trusted run only if
\* the day is stored (SalesStore).
KeepsPromise == Promise!Spec

\* A writer is no dry run and has read its day well; a row once found is a row of a
\* stored day, which is not emptied again.
WritersAreSure ==
    \A i \in Importers :
        /\ Step(i) \notin {"idle", "fetch", "done"} => ~ imp[i].dry /\ Faults(Reading(i)) = {}
        /\ Active(i) /\ imp[i].known # {} =>
            imp[i].first = imp[i].last /\ db[imp[i].first].daily # {}
        /\ Step(i) = "unchanged" => db[Day(i)].daily # {}

\* The invariant that makes every step one of SalesStore's.
StoreInv == TypeOK /\ ImportInv /\ ResultInv /\ started <= MaxImports /\ WritersAreSure

\* An import that nobody disturbed and that read its days well leaves payments in
\* the categories of the map it was given.
PaymentsFollowTheMap ==
    \A i \in Importers :
        Step(i) = "done" /\ ~ imp[i].dry /\ imp[i].status \in {"proven", "partial"} =>
            \A d \in imp[i].first .. imp[i].last : \A p \in db[d].payments :
                p.what.category = categorize_payment(p.what.row, imp[i].map)

\* Whatever another transaction holds, an import ends: its process is at rest again.
EveryImportEnds == \A i \in Importers : []<>(Step(i) = "idle")
=============================================================================
