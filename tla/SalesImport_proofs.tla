------------------------- MODULE SalesImport_proofs -------------------------
(***************************************************************************)
(* Proofs about SalesImport, for any number of importers, days, books and  *)
(* imports.  Without any condition: unique keys, and results that tell of  *)
(* every day.  Where days do not mix, because no import runs next to       *)
(* another or because the payments of two readings share a key: a stored   *)
(* day is what one import made of one reading of the three reports, and    *)
(* what is stored as trustworthy adds up.                                  *)
(***************************************************************************)
EXTENDS SalesImport, TLAPS

Steps == {"idle", "fetch", "unchanged", "delete payments", "lock payments", "delete products",
          "lock products", "delete daily", "lock daily", "insert", "done"}

\* The shape of a process, without the safety of what it has deleted.
ImpShape(r) ==
    /\ r = [step |-> r.step, import |-> r.import, day |-> r.day, first |-> r.first,
            last |-> r.last, dry |-> r.dry, map |-> r.map, known |-> r.known,
            answers |-> r.answers, existing |-> r.existing, seen |-> r.seen,
            gone |-> r.gone, status |-> r.status]
    /\ r.gone = [t \in Tables |-> r.gone[t]]

ImpValues(r, n) ==
    /\ r.step \in Steps
    /\ r.import \in Nat /\ r.import <= n
    /\ r.day \in Nat /\ r.last \in Nat
    /\ r.map \subseteq PaymentTypes
    /\ r.answers \in Seq(Books)
    /\ r.status \in DOMAIN Rank
    /\ r.step # "idle" => r.day \in Days /\ r.last \in Days /\ r.day <= r.last /\ r.import >= 1
    /\ r.step \notin {"idle", "fetch", "done"} => Len(r.answers) = 3
    /\ r.step \notin LockSteps => r.seen = {}
    /\ r.step \in {"idle", "fetch", "unchanged", "delete payments", "lock payments", "done"} =>
        \A t \in Tables : r.gone[t] = {}

DbShape ==
    /\ db = [d \in Days |-> db[d]]
    /\ \A d \in Days : db[d] = [t \in Tables |-> db[d][t]]

Shape ==
    /\ started \in Nat
    /\ iiko \in [Days -> Books] /\ categoryMap \subseteq PaymentTypes
    /\ DbShape
    /\ imp = [i \in Importers |-> imp[i]]
    /\ \A i \in Importers : ImpShape(imp[i]) /\ ImpValues(imp[i], started)

-----------------------------------------------------------------------------
(* The shape of the state *)

\* Adding up statuses gives a status.
LEMMA WorseIsStatus ==
    ASSUME NEW a \in DOMAIN Rank, NEW b \in DOMAIN Rank PROVE Worse(a, b) \in DOMAIN Rank
BY DEF Worse

\* A reading has a status.
LEMMA StatusIsStatus ==
    ASSUME NEW i PROVE Status(i) \in DOMAIN Rank /\ Status(i) \in {"proven", "partial", "unknown"}
BY DEF Status, ResultStatus, Rank

\* A process at rest has the shape.
LEMMA IdleShape == ASSUME started \in Nat PROVE ImpShape(Idle) /\ ImpValues(Idle, started)
BY DEF ImpShape, ImpValues, Idle, NoRows, Tables, Reports, Steps, NoDay, Rank, LockSteps

\* The next day of a range is a day.
LEMMA NextDay ==
    ASSUME NEW a \in Days, NEW b \in Days, a <= b, a # b PROVE a + 1 \in Days /\ a + 1 <= b
<1>1. a \in Nat /\ b \in Nat BY SalesImportAssumption
<1>2. a + 1 \in a .. b BY <1>1
<1> QED BY <1>1, <1>2, SalesImportAssumption

\* What the end of a day makes of its process.
LEMMA EndDayFields ==
    ASSUME Shape, NEW i \in Importers, NEW s, EndDay(i, s)
    PROVE  LET last == Day(i) = imp[i].last
           IN  /\ \A k \in Importers : k # i => imp'[k] = imp[k]
               /\ imp' = [k \in Importers |-> imp'[k]]
               /\ imp'[i] = [step |-> IF last THEN "done" ELSE "fetch", import |-> imp[i].import,
                             day |-> IF last THEN imp[i].day ELSE imp[i].day + 1,
                             first |-> imp[i].first, last |-> imp[i].last, dry |-> imp[i].dry,
                             map |-> imp[i].map, known |-> imp[i].known, answers |-> << >>,
                             existing |-> {}, seen |-> {}, gone |-> NoRows,
                             status |-> Worse(imp[i].status, s)]
<1> DEFINE last == Day(i) = imp[i].last
<1>1. ImpShape(imp[i]) /\ imp = [k \in Importers |-> imp[k]] BY DEF Shape
<1>2. imp' = [imp EXCEPT ![i] = [imp[i] EXCEPT
          !.step = IF last THEN "done" ELSE "fetch", !.day = IF last THEN @ ELSE @ + 1,
          !.status = Worse(@, s), !.answers = << >>, !.existing = {}, !.seen = {}, !.gone = NoRows]]
  BY DEF EndDay
<1>3. imp'[i] = [imp[i] EXCEPT
          !.step = IF last THEN "done" ELSE "fetch", !.day = IF last THEN @ ELSE @ + 1,
          !.status = Worse(@, s), !.answers = << >>, !.existing = {}, !.seen = {}, !.gone = NoRows]
  BY <1>1, <1>2
<1>4. (\A k \in Importers : k # i => imp'[k] = imp[k]) /\ imp' = [k \in Importers |-> imp'[k]]
  BY <1>1, <1>2
<1>5. imp'[i] = [step |-> IF last THEN "done" ELSE "fetch", import |-> imp[i].import,
                 day |-> IF last THEN imp[i].day ELSE imp[i].day + 1, first |-> imp[i].first,
                 last |-> imp[i].last, dry |-> imp[i].dry, map |-> imp[i].map,
                 known |-> imp[i].known, answers |-> << >>, existing |-> {}, seen |-> {},
                 gone |-> NoRows, status |-> Worse(imp[i].status, s)]
  BY ZenonT(40), <1>1, <1>3 DEF ImpShape
<1> QED BY <1>4, <1>5

\* The end of a day keeps the shape of its process.
LEMMA EndDayShape ==
    ASSUME Shape, NEW i \in Importers, Step(i) # "idle", NEW s \in DOMAIN Rank, EndDay(i, s)
    PROVE  /\ \A k \in Importers : k # i => imp'[k] = imp[k]
           /\ imp' = [k \in Importers |-> imp'[k]]
           /\ ImpShape(imp'[i]) /\ ImpValues(imp'[i], started)
           /\ imp'[i].seen = {} /\ imp'[i].gone = NoRows
           /\ imp'[i].step \in {"fetch", "done"} /\ imp'[i].import = imp[i].import
           /\ imp'[i].day >= imp[i].day
           /\ imp'[i].step = "fetch" => imp'[i].day = imp[i].day + 1
<1> DEFINE last == Day(i) = imp[i].last
<1>1. ImpShape(imp[i]) /\ ImpValues(imp[i], started) /\ imp = [k \in Importers |-> imp[k]]
  BY DEF Shape
<1>4. (\A k \in Importers : k # i => imp'[k] = imp[k]) /\ imp' = [k \in Importers |-> imp'[k]]
  BY EndDayFields
<1>5. imp'[i] = [step |-> IF last THEN "done" ELSE "fetch", import |-> imp[i].import,
                 day |-> IF last THEN imp[i].day ELSE imp[i].day + 1, first |-> imp[i].first,
                 last |-> imp[i].last, dry |-> imp[i].dry, map |-> imp[i].map,
                 known |-> imp[i].known, answers |-> << >>, existing |-> {}, seen |-> {},
                 gone |-> NoRows, status |-> Worse(imp[i].status, s)]
  BY EndDayFields
<1>6. Worse(imp[i].status, s) \in DOMAIN Rank BY <1>1, WorseIsStatus DEF ImpValues
<1>7. imp[i].day \in Days /\ imp[i].last \in Days /\ imp[i].day <= imp[i].last /\ imp[i].day \in Nat
  BY <1>1 DEF ImpValues, Step
<1>8. ~ last => imp[i].day + 1 \in Days /\ imp[i].day + 1 <= imp[i].last
  BY <1>7, NextDay DEF Day
<1>9. ImpShape(imp'[i]) BY <1>5 DEF ImpShape, NoRows
<1>10. ImpValues(imp'[i], started)
  <2> DEFINE r == imp'[i]
  <2>1. /\ r.step \in {"fetch", "done"} /\ r.import = imp[i].import
        /\ r.day = IF last THEN imp[i].day ELSE imp[i].day + 1
        /\ r.last = imp[i].last /\ r.map = imp[i].map /\ r.answers = << >>
        /\ r.seen = {} /\ r.gone = NoRows /\ r.status = Worse(imp[i].status, s)
    BY <1>5
  <2>2. r.answers \in Seq(Books) BY <2>1
  <2>3. r.step # "idle" /\ r.step \in Steps BY <2>1 DEF Steps
  <2>4. \A t \in Tables : r.gone[t] = {} BY <2>1 DEF NoRows
  <2>5. r.day \in Days /\ r.day \in Nat /\ r.day <= r.last
    BY <1>7, <1>8, <2>1, SalesImportAssumption DEF Day
  <2>6. r.import \in Nat /\ r.import <= started /\ r.import >= 1 /\ r.map \subseteq PaymentTypes
        /\ r.last \in Nat /\ r.last \in Days
    BY <1>1, <2>1 DEF ImpValues, Step
  <2> HIDE DEF r, last
  <2>7. ImpValues(r, started)
    BY <1>6, <2>1, <2>2, <2>3, <2>4, <2>5, <2>6 DEF ImpValues
  <2> QED BY <2>7 DEF r
<1> QED BY <1>4, <1>5, <1>7, <1>9, <1>10 DEF Day

-----------------------------------------------------------------------------
(* What a step of one process does *)

OthersStay(i) == \A k \in Importers : k # i => imp'[k] = imp[k]

\* The other processes stay as they are, and this one keeps the shape.
Alone(i) ==
    /\ \A k \in Importers : k # i => imp'[k] = imp[k]
    /\ imp' = [k \in Importers |-> imp'[k]]
    /\ ImpShape(imp'[i]) /\ ImpValues(imp'[i], started')

\* Whatever a process of this day does, Shape needs no more.
LEMMA AloneShape ==
    ASSUME Shape, NEW i \in Importers, Alone(i), started' \in Nat, started <= started',
           iiko' = iiko, categoryMap' = categoryMap, DbShape'
    PROVE  Shape'
<1>1. ASSUME NEW k \in Importers PROVE ImpShape(imp'[k]) /\ ImpValues(imp'[k], started')
  <2>1. CASE k = i BY <2>1 DEF Alone
  <2>2. CASE k # i
    <3>1. imp'[k] = imp[k] BY <2>2 DEF Alone
    <3>2. ImpShape(imp[k]) /\ ImpValues(imp[k], started) /\ started \in Nat BY DEF Shape
    <3>5. imp[k].import \in Nat /\ imp[k].import <= started BY <3>2 DEF ImpValues
    <3>3. imp[k].import \in Nat /\ imp[k].import <= started' BY <3>2, <3>5
    <3>4. ImpValues(imp'[k], started') BY <3>1, <3>2, <3>3 DEF ImpValues
    <3> QED BY <3>1, <3>2, <3>4
  <2> QED BY <2>1, <2>2
<1> QED BY <1>1 DEF Shape, Alone, ImpShape

\* It holds nothing, deletes nothing, and is in no transaction that does.
LetsGo(i) ==
    /\ Alone(i) /\ UNCHANGED <<iiko, categoryMap, db, started>>
    /\ imp'[i].step \in {"idle", "fetch", "unchanged", "delete payments", "done"}
    /\ imp'[i].step \notin {"idle", "done"} =>
        /\ imp[i].step \notin {"idle", "done"}
        /\ imp'[i].import = imp[i].import /\ imp'[i].day >= imp[i].day

\* The end of a day.
LEMMA EndDayLetsGo ==
    ASSUME Shape, NEW i \in Importers, Active(i), NEW s \in DOMAIN Rank, EndDay(i, s),
           UNCHANGED <<iiko, categoryMap, db, started>>
    PROVE  LetsGo(i)
<1>1. Step(i) # "idle" /\ Step(i) # "done" BY DEF Active
<1>2. started' = started OBVIOUS
<1> QED BY <1>1, <1>2, EndDayShape DEF LetsGo, Alone, Step

\* A process that gives up or has finished.
LEMMA ToIdle ==
    ASSUME Shape, NEW i \in Importers, imp' = [imp EXCEPT ![i] = Idle],
           UNCHANGED <<iiko, categoryMap, db, started>>
    PROVE  LetsGo(i)
<1>1. imp = [k \in Importers |-> imp[k]] /\ started \in Nat BY DEF Shape
<1>2. imp'[i] = Idle /\ imp' = [k \in Importers |-> imp'[k]] /\ \A k \in Importers : k # i => imp'[k] = imp[k]
  BY <1>1
<1>3. ImpValues(Idle, started) /\ started' = started BY <1>1, IdleShape
<1>4. imp'[i].step = "idle" BY <1>2 DEF Idle
<1> QED BY <1>1, <1>2, <1>3, <1>4, IdleShape DEF LetsGo, Alone

\* One more report has been read.
LEMMA ReadReportLetsGo ==
    ASSUME Shape, NEW i \in Importers, ReadReport(i) PROVE LetsGo(i)
<1>1. ImpShape(imp[i]) /\ ImpValues(imp[i], started) /\ imp = [k \in Importers |-> imp[k]] BY DEF Shape
<1> DEFINE a == Append(imp[i].answers, iiko[Day(i)])
<1>2. imp' = [imp EXCEPT ![i] = [imp[i] EXCEPT !.answers = a]] BY DEF ReadReport
<1>3. imp'[i] = [imp[i] EXCEPT !.answers = a] BY <1>1, <1>2
<1>4. (\A k \in Importers : k # i => imp'[k] = imp[k]) /\ imp' = [k \in Importers |-> imp'[k]]
  BY <1>1, <1>2
<1>5. a \in Seq(Books)
  <2>1. Day(i) \in Days BY <1>1 DEF ImpValues, ReadReport, Day, Step
  <2>2. iiko[Day(i)] \in Books BY <2>1 DEF Shape
  <2>3. imp[i].answers \in Seq(Books) BY <1>1 DEF ImpValues
  <2> QED BY <2>2, <2>3
<1> HIDE DEF a
<1>6. imp'[i] = [step |-> "fetch", import |-> imp[i].import, day |-> imp[i].day,
                 first |-> imp[i].first, last |-> imp[i].last, dry |-> imp[i].dry,
                 map |-> imp[i].map, known |-> imp[i].known, answers |-> a,
                 existing |-> imp[i].existing, seen |-> imp[i].seen, gone |-> imp[i].gone,
                 status |-> imp[i].status]
  BY <1>1, <1>3 DEF ImpShape, ReadReport, Step
<1>7. ImpShape(imp'[i]) BY <1>1, <1>6 DEF ImpShape
<1>8. ImpValues(imp'[i], started')
  BY ZenonT(40), <1>1, <1>5, <1>6 DEF ImpValues, ReadReport, Step, Steps, LockSteps
<1>9. imp[i].day \in Nat BY <1>1 DEF ImpValues
<1>10. imp[i].step = "fetch" /\ UNCHANGED <<iiko, categoryMap, db, started>>
  BY DEF ReadReport, Step
<1>11. imp'[i].step = "fetch" /\ imp'[i].import = imp[i].import /\ imp'[i].day = imp[i].day
  BY <1>6
<1> QED BY <1>4, <1>7, <1>8, <1>9, <1>10, <1>11 DEF LetsGo, Alone

\* The transaction begins, or finds nothing to do.
LEMMA PersistBeginsLetsGo ==
    ASSUME Shape, NEW i \in Importers, PersistBegins(i) PROVE LetsGo(i)
<1>1. ImpShape(imp[i]) /\ ImpValues(imp[i], started) /\ imp = [k \in Importers |-> imp[k]] BY DEF Shape
<1>2. PICK e, s : /\ s \in {"unchanged", "delete payments"}
                  /\ imp' = [imp EXCEPT ![i] = [imp[i] EXCEPT !.existing = e, !.step = s]]
  BY DEF PersistBegins
<1>3. imp'[i] = [imp[i] EXCEPT !.existing = e, !.step = s] BY <1>1, <1>2
<1>4. (\A k \in Importers : k # i => imp'[k] = imp[k]) /\ imp' = [k \in Importers |-> imp'[k]]
  BY <1>1, <1>2
<1>5. imp'[i] = [step |-> s, import |-> imp[i].import, day |-> imp[i].day,
                 first |-> imp[i].first, last |-> imp[i].last, dry |-> imp[i].dry,
                 map |-> imp[i].map, known |-> imp[i].known, answers |-> imp[i].answers,
                 existing |-> e, seen |-> imp[i].seen, gone |-> imp[i].gone,
                 status |-> imp[i].status]
  BY <1>1, <1>3 DEF ImpShape
<1>6. imp[i].step = "fetch" /\ Len(imp[i].answers) = 3 BY DEF PersistBegins, HasRead, Step
<1>7. ImpShape(imp'[i]) BY <1>1, <1>5 DEF ImpShape
<1>8. UNCHANGED <<iiko, categoryMap, db, started>> BY DEF PersistBegins
<1>9. /\ imp'[i].step = s /\ imp'[i].import = imp[i].import /\ imp'[i].day = imp[i].day
      /\ imp'[i].last = imp[i].last /\ imp'[i].map = imp[i].map
      /\ imp'[i].answers = imp[i].answers /\ imp'[i].seen = imp[i].seen
      /\ imp'[i].gone = imp[i].gone /\ imp'[i].status = imp[i].status
  BY <1>5
<1>10. ImpValues(imp'[i], started')
  <2>1. s \in Steps /\ s \notin LockSteps /\ s # "idle" BY <1>2 DEF Steps, LockSteps
  <2>2. imp[i].seen = {} /\ \A t \in Tables : imp[i].gone[t] = {}
    BY <1>1, <1>6 DEF ImpValues, LockSteps
  <2>3. /\ imp[i].day \in Days /\ imp[i].last \in Days /\ imp[i].day <= imp[i].last /\ imp[i].import >= 1
        /\ imp[i].import \in Nat /\ imp[i].import <= started /\ imp[i].day \in Nat
        /\ imp[i].last \in Nat /\ imp[i].map \subseteq PaymentTypes
        /\ imp[i].answers \in Seq(Books) /\ imp[i].status \in DOMAIN Rank
    BY <1>1, <1>6 DEF ImpValues
  <2> DEFINE r == imp'[i]
  <2>4. started' = started BY <1>8
  <2>5. r.step \in Steps /\ r.step \notin LockSteps /\ r.step # "idle" BY <1>9, <2>1
  <2>6. r.seen = {} /\ (\A t \in Tables : r.gone[t] = {}) BY <1>9, <2>2
  <2>7. Len(r.answers) = 3 BY <1>9, <1>6
  <2>8. /\ r.day \in Days /\ r.last \in Days /\ r.day <= r.last /\ r.import >= 1
        /\ r.import \in Nat /\ r.import <= started /\ r.day \in Nat
        /\ r.last \in Nat /\ r.map \subseteq PaymentTypes
        /\ r.answers \in Seq(Books) /\ r.status \in DOMAIN Rank
    BY <1>9, <2>3
  <2> HIDE DEF r
  <2>9. ImpValues(r, started) BY <2>5, <2>6, <2>7, <2>8 DEF ImpValues
  <2> QED BY <2>4, <2>9 DEF r
<1>11. imp[i].day \in Nat BY <1>1 DEF ImpValues
<1>12. Alone(i) BY <1>4, <1>7, <1>10 DEF Alone
<1>13. imp'[i].step \in {"unchanged", "delete payments"} BY <1>2, <1>9
<1>14. imp'[i].day >= imp[i].day BY <1>9, <1>11
<1> QED BY <1>6, <1>8, <1>9, <1>12, <1>13, <1>14 DEF LetsGo

\* A new import begins.
Begins(i) ==
    /\ Alone(i) /\ UNCHANGED <<iiko, categoryMap, db>> /\ started' = started + 1
    /\ imp'[i].step = "fetch" /\ imp'[i].import = started + 1
    /\ OneAtATime => \A k \in Importers : k # i => ~ Active(k)

\* A range that is asked for begins with its first day.
LEMMA StartRangeBegins ==
    ASSUME Shape, NEW i \in Importers, StartRange(i) PROVE Begins(i)
<1>1. imp = [k \in Importers |-> imp[k]] /\ started \in Nat /\ categoryMap \subseteq PaymentTypes
  BY DEF Shape
<1> DEFINE known(first) == IF i \in Automation THEN get_daily(first) ELSE {}
<1>2. PICK first \in Days, last \in Days, dry \in BOOLEAN :
        /\ first <= last
        /\ imp' = [imp EXCEPT ![i] =
             [Idle EXCEPT !.step = "fetch", !.import = started + 1, !.day = first,
                          !.first = first, !.last = last, !.dry = dry, !.map = categoryMap,
                          !.known = known(first)]]
  BY Zenon DEF StartRange, validate_date_range
<1> HIDE DEF known
<1>3. imp'[i] = [step |-> "fetch", import |-> started + 1, day |-> first, first |-> first,
                 last |-> last, dry |-> dry, map |-> categoryMap, known |-> known(first),
                 answers |-> << >>, existing |-> {}, seen |-> {}, gone |-> NoRows,
                 status |-> "proven"]
  BY <1>1, <1>2 DEF Idle
<1>4. (\A k \in Importers : k # i => imp'[k] = imp[k]) /\ imp' = [k \in Importers |-> imp'[k]]
  BY <1>1, <1>2
<1>5. ImpShape(imp'[i]) BY <1>3 DEF ImpShape, NoRows
<1>6. started' = started + 1 /\ UNCHANGED <<iiko, categoryMap, db>> BY DEF StartRange
<1>7. ImpValues(imp'[i], started')
  <2>1. first \in Nat /\ last \in Nat BY SalesImportAssumption
  <2>2. << >> \in Seq(Books) OBVIOUS
  <2>3. \A t \in Tables : NoRows[t] = {} BY DEF NoRows
  <2>4. "proven" \in DOMAIN Rank BY DEF Rank
  <2>5. "fetch" \in Steps /\ "fetch" \notin LockSteps BY DEF Steps, LockSteps
  <2>6. started + 1 \in Nat /\ started + 1 >= 1 /\ started + 1 <= started' BY <1>1, <1>6
  <2>7. /\ imp'[i].step = "fetch" /\ imp'[i].import = started + 1 /\ imp'[i].day = first
        /\ imp'[i].last = last /\ imp'[i].map = categoryMap /\ imp'[i].answers = << >>
        /\ imp'[i].seen = {} /\ imp'[i].gone = NoRows /\ imp'[i].status = "proven"
    BY <1>3
  <2> QED BY <1>1, <1>2, <2>1, <2>2, <2>3, <2>4, <2>5, <2>6, <2>7 DEF ImpValues
<1>8. Alone(i) BY <1>4, <1>5, <1>7 DEF Alone
<1>9. OneAtATime => \A k \in Importers : k # i => ~ Active(k) BY DEF OneAtATime, StartRange
<1> QED BY <1>3, <1>6, <1>8, <1>9 DEF Begins

\* Which import, of what, a step leaves as it was.
SameImport(i) ==
    /\ imp'[i].import = imp[i].import /\ imp'[i].day = imp[i].day
    /\ imp'[i].map = imp[i].map /\ imp'[i].answers = imp[i].answers

\* A DELETE of table t has seen the rows of the day.
Sees(i, t) ==
    /\ Alone(i) /\ SameImport(i) /\ UNCHANGED <<iiko, categoryMap, db, started>>
    /\ Active(i) /\ imp'[i].step = LockOf[t]
    /\ imp'[i].seen = db[Day(i)][t] /\ imp'[i].gone = imp[i].gone
    /\ t = "daily" => imp[i].step = "delete daily"
    /\ t = "products" => imp[i].step = "delete products"

\* The tables and their steps.
LEMMA TableSteps ==
    /\ Tables = {"daily", "payments", "products"}
    /\ \A t \in Tables : /\ LockOf[t] \in LockSteps /\ TableOf(LockOf[t]) = t
                         /\ LockOf[t] \in Steps /\ LockOf[t] \notin {"idle", "fetch", "unchanged", "delete payments", "done"}
    /\ \A s \in LockSteps : TableOf(s) \in Tables /\ s = LockOf[TableOf(s)]
    /\ LockOf["daily"] = "lock daily" /\ LockOf["payments"] = "lock payments"
    /\ LockOf["products"] = "lock products"
<1>1. Tables = {"daily", "payments", "products"} BY DEF Tables, Reports
<1>2. LockOf["daily"] = "lock daily" /\ LockOf["payments"] = "lock payments" /\ LockOf["products"] = "lock products"
  BY DEF LockOf
<1>3. /\ TableOf("lock daily") = "daily" /\ TableOf("lock payments") = "payments"
      /\ TableOf("lock products") = "products"
  BY DEF TableOf
<1> QED BY <1>1, <1>2, <1>3 DEF LockSteps, Steps

\* A step that changes no more than step, seen and gone.
Moves(i, s, seen, gone) ==
    imp' = [imp EXCEPT ![i] = [imp[i] EXCEPT !.gone = gone, !.seen = seen, !.step = s]]

PerTable(gone) == gone = [t \in Tables |-> gone[t]]

\* Fields of a process that has only changed its step, seen and gone.
LEMMA MovesOn ==
    ASSUME Shape, NEW i \in Importers, NEW s \in Steps, NEW seen, NEW gone,
           Moves(i, s, seen, gone), PerTable(gone), started' = started,
           imp[i].step \notin {"idle", "fetch", "done"}, s # "idle",
           s \in LockSteps \/ seen = {},
           s \in {"fetch", "unchanged", "delete payments", "lock payments", "done"} =>
               \A t \in Tables : gone[t] = {}
    PROVE  /\ Alone(i) /\ SameImport(i)
           /\ imp'[i].step = s /\ imp'[i].seen = seen /\ imp'[i].gone = gone
<1>1. ImpShape(imp[i]) /\ ImpValues(imp[i], started) /\ imp = [k \in Importers |-> imp[k]] BY DEF Shape
<1>2. imp'[i] = [imp[i] EXCEPT !.gone = gone, !.seen = seen, !.step = s] BY <1>1 DEF Moves
<1>3. (\A k \in Importers : k # i => imp'[k] = imp[k]) /\ imp' = [k \in Importers |-> imp'[k]]
  BY <1>1 DEF Moves
<1>4. imp'[i] = [step |-> s, import |-> imp[i].import, day |-> imp[i].day,
                 first |-> imp[i].first, last |-> imp[i].last, dry |-> imp[i].dry,
                 map |-> imp[i].map, known |-> imp[i].known, answers |-> imp[i].answers,
                 existing |-> imp[i].existing, seen |-> seen, gone |-> gone,
                 status |-> imp[i].status]
  BY <1>1, <1>2 DEF ImpShape
<1> DEFINE q == imp'[i]
<1>10. q = [step |-> s, import |-> imp[i].import, day |-> imp[i].day,
            first |-> imp[i].first, last |-> imp[i].last, dry |-> imp[i].dry,
            map |-> imp[i].map, known |-> imp[i].known, answers |-> imp[i].answers,
            existing |-> imp[i].existing, seen |-> seen, gone |-> gone,
            status |-> imp[i].status]
  BY <1>4
<1> HIDE DEF q
<1>11. q.step = s /\ q.seen = seen /\ q.gone = gone BY <1>10
<1>12. q.import = imp[i].import /\ q.day = imp[i].day /\ q.map = imp[i].map BY <1>10
<1>13. q.answers = imp[i].answers /\ q.last = imp[i].last /\ q.status = imp[i].status BY <1>10
<1>14. /\ q.first = imp[i].first /\ q.dry = imp[i].dry /\ q.known = imp[i].known
       /\ q.existing = imp[i].existing
  BY <1>10
<1>6. /\ imp'[i].step = s /\ imp'[i].seen = seen /\ imp'[i].gone = gone
      /\ imp'[i].import = imp[i].import /\ imp'[i].day = imp[i].day
      /\ imp'[i].map = imp[i].map /\ imp'[i].answers = imp[i].answers
      /\ imp'[i].last = imp[i].last /\ imp'[i].status = imp[i].status
      /\ imp'[i].first = imp[i].first /\ imp'[i].dry = imp[i].dry
      /\ imp'[i].known = imp[i].known /\ imp'[i].existing = imp[i].existing
  BY <1>11, <1>12, <1>13, <1>14 DEF q
<1>5. ImpShape(imp'[i])
  <2>1. imp'[i].gone = [t \in Tables |-> imp'[i].gone[t]] BY <1>6 DEF PerTable
  <2> QED BY <1>4, <1>6, <2>1 DEF ImpShape
<1>7. /\ imp[i].day \in Days /\ imp[i].last \in Days /\ imp[i].day <= imp[i].last /\ imp[i].import >= 1
      /\ imp[i].import \in Nat /\ imp[i].import <= started /\ imp[i].day \in Nat
      /\ imp[i].last \in Nat /\ imp[i].map \subseteq PaymentTypes
      /\ imp[i].answers \in Seq(Books) /\ imp[i].status \in DOMAIN Rank /\ Len(imp[i].answers) = 3
  BY <1>1 DEF ImpValues
<1>8. ImpValues(imp'[i], started') BY <1>6, <1>7 DEF ImpValues
<1>9. Alone(i) BY <1>3, <1>5, <1>8 DEF Alone
<1> QED BY <1>6, <1>9 DEF SameImport

\* DeleteStarts is one of the three.
LEMMA DeleteStartsSees ==
    ASSUME Shape, NEW i \in Importers, DeleteStarts(i)
    PROVE  \E t \in Tables : Sees(i, t)
<1> DEFINE t == TableOf(Step(i))
           r == [imp[i] EXCEPT !.gone = imp[i].gone, !.seen = db[Day(i)][t], !.step = LockOf[t]]
<1>1. ImpShape(imp[i]) /\ ImpValues(imp[i], started) /\ imp = [k \in Importers |-> imp[k]] BY DEF Shape
<1>2. t \in Tables /\ Step(i) \in {"delete payments", "delete products", "delete daily"}
  BY TableSteps DEF DeleteStarts, TableOf
<1>3. t = "daily" => Step(i) = "delete daily" BY <1>2 DEF TableOf
<1>4. t = "payments" => Step(i) = "delete payments" BY <1>2 DEF TableOf
<1>13. t = "products" => Step(i) = "delete products" BY <1>2 DEF TableOf
<1>5. Moves(i, LockOf[t], db[Day(i)][t], imp[i].gone)
  <2>1. imp' = [imp EXCEPT ![i] = [imp[i] EXCEPT !.seen = db[Day(i)][t], !.step = LockOf[t]]]
    BY DEF DeleteStarts
  <2>2. r = [imp[i] EXCEPT !.seen = db[Day(i)][t], !.step = LockOf[t]]
    BY <1>1 DEF ImpShape
  <2> QED BY <2>1, <2>2 DEF Moves
<1>6. UNCHANGED <<iiko, categoryMap, db, started>> BY DEF DeleteStarts
<1>7. LockOf[t] \in LockSteps /\ LockOf[t] \in Steps /\ LockOf[t] # "idle"
      /\ LockOf[t] \notin {"fetch", "unchanged", "delete payments", "done"}
  BY <1>2, TableSteps
<1>8. LockOf[t] = "lock payments" => \A u \in Tables : imp[i].gone[u] = {}
  BY <1>1, <1>2, <1>4 DEF LockOf, ImpValues, Step, TableOf
<1>9. PerTable(imp[i].gone) BY <1>1 DEF ImpShape, PerTable
<1>12. imp[i].step \notin {"idle", "fetch", "done"} BY <1>2 DEF Step
<1> HIDE DEF t
<1>10. /\ Alone(i) /\ SameImport(i)
       /\ imp'[i].step = LockOf[t] /\ imp'[i].seen = db[Day(i)][t] /\ imp'[i].gone = imp[i].gone
  BY <1>5, <1>6, <1>7, <1>8, <1>9, <1>12, MovesOn
<1>11. Active(i) BY <1>2 DEF Active
<1> QED BY <1>2, <1>3, <1>6, <1>10, <1>11, <1>13 DEF Sees, Step

\* A DELETE of table t ends, with what is left of the rows it has seen.
Ends(i, t) ==
    /\ Alone(i) /\ SameImport(i) /\ UNCHANGED <<iiko, categoryMap, db, started>>
    /\ imp[i].step = LockOf[t]
    /\ imp'[i].step \in {"delete products", "delete daily", "insert"}
    /\ t = "payments" => imp'[i].step = "delete products"
    /\ t # "payments" => imp'[i].step # "delete products"
    /\ imp'[i].seen = {}
    /\ imp'[i].gone = [u \in Tables |-> IF u = t THEN imp[i].seen \cap db[Day(i)][t] ELSE imp[i].gone[u]]
    /\ \A k \in Importers : k # i /\ Day(k) = Day(i) => imp[i].seen \cap imp[k].gone[t] = {}

\* DeleteEnds is one of the three.
LEMMA DeleteEndsEnds ==
    ASSUME Shape, NEW i \in Importers, DeleteEnds(i) PROVE \E t \in Tables : Ends(i, t)
<1> DEFINE t == TableOf(Step(i))
           gone == [u \in Tables |-> IF u = t THEN imp[i].seen \cap db[Day(i)][t] ELSE imp[i].gone[u]]
           s == StepAfter(i)
<1>1. ImpShape(imp[i]) /\ ImpValues(imp[i], started) /\ imp = [k \in Importers |-> imp[k]] BY DEF Shape
<1>2. t \in Tables /\ imp[i].step \in LockSteps /\ imp[i].step = LockOf[t]
  BY TableSteps DEF DeleteEnds, Step
<1>3. s \in {"delete products", "delete daily", "insert"} BY DEF StepAfter
<1>4. t = "payments" => s = "delete products"
  <2>1. t = "payments" => Step(i) = "lock payments" BY <1>2 DEF LockSteps, TableOf, Step
  <2> QED BY <2>1 DEF StepAfter
<1>13. t # "payments" => s # "delete products" BY DEF StepAfter, TableOf
<1>5. Moves(i, s, {}, gone)
  <2>1. imp' = [imp EXCEPT ![i] = [imp[i] EXCEPT !.gone = [imp[i].gone EXCEPT ![t] = imp[i].seen \cap db[Day(i)][t]],
                                              !.seen = {}, !.step = s]]
    BY DEF DeleteEnds
  <2>2. gone = [imp[i].gone EXCEPT ![t] = imp[i].seen \cap db[Day(i)][t]]
    BY <1>1, <1>2 DEF ImpShape
  <2> QED BY <2>1, <2>2 DEF Moves
<1>6. UNCHANGED <<iiko, categoryMap, db, started>> BY DEF DeleteEnds
<1>7. s \in Steps /\ s # "idle" /\ s \notin {"fetch", "unchanged", "delete payments", "lock payments", "done"}
  BY <1>3 DEF Steps
<1>8. PerTable(gone) BY DEF PerTable
<1>9. imp[i].step \notin {"idle", "fetch", "done"} BY <1>2 DEF LockSteps
<1>10. ASSUME NEW k \in Importers, k # i, Day(k) = Day(i) PROVE imp[i].seen \cap imp[k].gone[t] = {}
  BY <1>2, <1>10 DEF DeleteEnds, Waits, DeletedBy, Step, Day
<1> HIDE DEF t, gone, s
<1>11. /\ Alone(i) /\ SameImport(i)
       /\ imp'[i].step = s /\ imp'[i].seen = {} /\ imp'[i].gone = gone
  BY <1>5, <1>6, <1>7, <1>8, <1>9, MovesOn
<1>12. Ends(i, t) BY <1>2, <1>3, <1>4, <1>6, <1>10, <1>11, <1>13 DEF Ends, gone
<1> QED BY <1>2, <1>12

\* The rows of the day are replaced.
Commits(i) ==
    /\ Alone(i) /\ UNCHANGED <<iiko, categoryMap, started>>
    /\ imp[i].step = "insert"
    /\ \A t \in Tables : InTheWay(i, t) = {} /\ KeysAreUnique(NewRows(i, t))
    /\ db' = [db EXCEPT ![Day(i)] = [t \in Tables |-> (db[Day(i)][t] \ imp[i].gone[t]) \cup NewRows(i, t)]]
    /\ imp'[i].step \in {"fetch", "done"} /\ imp'[i].import = imp[i].import
    /\ imp'[i].step = "fetch" => imp'[i].day = imp[i].day + 1

\* FlushAndCommit ends the day.
LEMMA FlushAndCommitCommits ==
    ASSUME Shape, NEW i \in Importers, FlushAndCommit(i) PROVE Commits(i)
<1>1. EndDay(i, Status(i)) /\ Step(i) = "insert" BY DEF FlushAndCommit
<1>2. UNCHANGED <<iiko, categoryMap, started>> BY DEF FlushAndCommit
<1>3. Status(i) \in DOMAIN Rank BY StatusIsStatus
<1>4. /\ \A k \in Importers : k # i => imp'[k] = imp[k]
      /\ imp' = [k \in Importers |-> imp'[k]]
      /\ ImpShape(imp'[i]) /\ ImpValues(imp'[i], started)
      /\ imp'[i].step \in {"fetch", "done"} /\ imp'[i].import = imp[i].import
      /\ imp'[i].step = "fetch" => imp'[i].day = imp[i].day + 1
  BY <1>1, <1>3, EndDayShape
<1>5. Alone(i) BY <1>2, <1>4 DEF Alone
<1> QED BY <1>1, <1>2, <1>4, <1>5 DEF Commits, FlushAndCommit, Step

-----------------------------------------------------------------------------
(* The kinds of steps, and what they keep in any case *)

\* iiko or the operator does something.
Environment ==
    /\ UNCHANGED <<db, imp, started>>
    /\ iiko' \in [Days -> Books] /\ categoryMap' \subseteq PaymentTypes

\* Every step is of one of these kinds.
LEMMA StepKinds ==
    ASSUME Shape, [Next]_vars
    PROVE  \/ Environment
           \/ \E i \in Importers : LetsGo(i) \/ Begins(i) \/ Commits(i)
           \/ \E i \in Importers, t \in Tables : Sees(i, t) \/ Ends(i, t)
<1> DEFINE kinds == \/ Environment
                    \/ \E i \in Importers : LetsGo(i) \/ Begins(i) \/ Commits(i)
                    \/ \E i \in Importers, t \in Tables : Sees(i, t) \/ Ends(i, t)
<1>1. iiko \in [Days -> Books] /\ categoryMap \subseteq PaymentTypes BY DEF Shape
<1>2. CASE IikoChanges \/ MapChanges \/ UNCHANGED vars
  BY <1>1, <1>2 DEF IikoChanges, MapChanges, vars, Environment
<1>5. ASSUME NEW i \in Importers, StartRange(i) PROVE Begins(i)
  BY <1>5, StartRangeBegins
<1>6. ASSUME NEW i \in Importers, FetchFails(i) PROVE LetsGo(i)
  <2>1. PICK s \in {"blocked", "unknown"} : EndDay(i, s) BY <1>6 DEF FetchFails
  <2>2. s \in DOMAIN Rank BY DEF Rank
  <2>3. Active(i) /\ UNCHANGED <<iiko, categoryMap, db, started>>
    BY <1>6 DEF FetchFails, Active
  <2> QED BY <2>1, <2>2, <2>3, EndDayLetsGo
<1>7. ASSUME NEW i \in Importers, ImportRaises(i) PROVE LetsGo(i)
  <2>1. imp' = [imp EXCEPT ![i] = Idle] /\ UNCHANGED <<iiko, categoryMap, db, started>>
    BY <1>7 DEF ImportRaises
  <2> QED BY <2>1, ToIdle
<1>8. ASSUME NEW i \in Importers, Proceed(i)
      PROVE  LetsGo(i) \/ Commits(i) \/ \E t \in Tables : Sees(i, t) \/ Ends(i, t)
  <2>1. CASE ReadReport(i) BY <2>1, ReadReportLetsGo
  <2>2. CASE NormalizationFails(i)
    <3>1. EndDay(i, "unknown") /\ Active(i) /\ UNCHANGED <<iiko, categoryMap, db, started>>
      BY <2>2 DEF NormalizationFails, HasRead, Active
    <3>2. "unknown" \in DOMAIN Rank BY DEF Rank
    <3> QED BY <3>1, <3>2, EndDayLetsGo
  <2>3. CASE DryRun(i)
    <3>1. EndDay(i, Status(i)) /\ Active(i) /\ UNCHANGED <<iiko, categoryMap, db, started>>
      BY <2>3 DEF DryRun, HasRead, Active
    <3> QED BY <3>1, StatusIsStatus, EndDayLetsGo
  <2>4. CASE RecordUnchanged(i)
    <3>1. EndDay(i, Status(i)) /\ Active(i) /\ UNCHANGED <<iiko, categoryMap, db, started>>
      BY <2>4 DEF RecordUnchanged, Active
    <3> QED BY <3>1, StatusIsStatus, EndDayLetsGo
  <2>5. CASE NormalizationRaises(i) \/ FlushRaises(i) \/ Deadlocked(i) \/ Finish(i)
    <3>1. imp' = [imp EXCEPT ![i] = Idle] /\ UNCHANGED <<iiko, categoryMap, db, started>>
      BY <2>5 DEF NormalizationRaises, FlushRaises, Deadlocked, Finish
    <3> QED BY <3>1, ToIdle
  <2>6. CASE PersistBegins(i) BY <2>6, PersistBeginsLetsGo
  <2>7. CASE DeleteStarts(i) BY <2>7, DeleteStartsSees
  <2>8. CASE DeleteEnds(i) BY <2>8, DeleteEndsEnds
  <2>9. CASE FlushAndCommit(i) BY <2>9, FlushAndCommitCommits
  <2> QED BY <1>8, <2>1, <2>2, <2>3, <2>4, <2>5, <2>6, <2>7, <2>8, <2>9 DEF Proceed
<1>9. ASSUME NEW i \in Importers, StartRange(i) \/ Proceed(i) \/ FetchFails(i) \/ ImportRaises(i)
      PROVE  kinds
  <2>1. LetsGo(i) \/ Begins(i) \/ Commits(i) \/ \E t \in Tables : Sees(i, t) \/ Ends(i, t)
    BY <1>5, <1>6, <1>7, <1>8, <1>9
  <2> QED BY <2>1
<1> QED BY <1>2, <1>9 DEF Next

\* Every step keeps the shape.
LEMMA NextShape == ASSUME Shape, [Next]_vars PROVE Shape'
<1>1. CASE Environment BY <1>1 DEF Environment, Shape, DbShape
<1>2. ASSUME NEW i \in Importers, Alone(i), started' \in {started, started + 1},
             UNCHANGED <<iiko, categoryMap, db>>
      PROVE  Shape'
  <2>1. started' \in Nat /\ started <= started' BY <1>2 DEF Shape
  <2>2. DbShape' BY <1>2 DEF Shape, DbShape
  <2> QED BY <1>2, <2>1, <2>2, AloneShape
<1>3. ASSUME NEW i \in Importers, Commits(i) PROVE Shape'
  <2> DEFINE new == [t \in Tables |-> (db[Day(i)][t] \ imp[i].gone[t]) \cup NewRows(i, t)]
  <2>1. db' = [e \in Days |-> IF e = Day(i) THEN new ELSE db[e]]
    BY <1>3 DEF Commits, Shape, DbShape
  <2>2. new = [t \in Tables |-> new[t]] OBVIOUS
  <2> HIDE DEF new
  <2>3. DbShape' BY <2>1, <2>2 DEF Shape, DbShape
  <2>4. started' \in Nat /\ started <= started' BY <1>3 DEF Commits, Shape
  <2> QED BY <1>3, <2>3, <2>4, AloneShape DEF Commits
<1>4. ASSUME NEW i \in Importers, LetsGo(i) \/ Begins(i) PROVE Shape'
  BY <1>2, <1>4 DEF LetsGo, Begins
<1>5. ASSUME NEW i \in Importers, NEW t \in Tables, Sees(i, t) \/ Ends(i, t) PROVE Shape'
  BY <1>2, <1>5 DEF Sees, Ends
<1> QED BY <1>1, <1>3, <1>4, <1>5, StepKinds

\* Keys are unique, and what a transaction has deleted is committed, and deleted by
\* nobody else.
KeysInv ==
    /\ \A d \in Days, t \in Tables : KeysAreUnique(db[d][t])
    /\ \A i \in Importers, t \in Tables :
        imp[i].gone[t] # {} => Active(i) /\ imp[i].gone[t] \subseteq db[Day(i)][t]
    /\ \A i, k \in Importers, t \in Tables :
        i # k /\ Day(i) = Day(k) => imp[i].gone[t] \cap imp[k].gone[t] = {}

\* A step that deletes nothing and stores nothing keeps the keys.
LEMMA NothingGoes ==
    ASSUME KeysInv, NEW i \in Importers, OthersStay(i), db' = db,
           \/ \A t \in Tables : imp'[i].gone[t] = {}
           \/ imp'[i].gone = imp[i].gone /\ imp'[i].day = imp[i].day /\ Active(i)'
    PROVE  KeysInv'
<1>1. \A k \in Importers : k # i => imp'[k] = imp[k] BY DEF OthersStay
<1>2. ASSUME NEW k \in Importers, NEW t \in Tables, imp'[k].gone[t] # {}
      PROVE  imp'[k].gone = imp[k].gone /\ imp'[k].day = imp[k].day /\ (Active(k) => Active(k)')
  BY <1>1, <1>2 DEF Active, Step
<1>3. ASSUME NEW k \in Importers, NEW t \in Tables, imp'[k].gone[t] # {}
      PROVE  Active(k)' /\ imp'[k].gone[t] \subseteq db'[imp'[k].day][t]
  BY <1>2, <1>3 DEF KeysInv, Day
<1>4. ASSUME NEW k \in Importers, NEW l \in Importers, NEW t \in Tables, k # l,
             imp'[k].day = imp'[l].day
      PROVE  imp'[k].gone[t] \cap imp'[l].gone[t] = {}
  BY <1>2, <1>4 DEF KeysInv, Day
<1> QED BY <1>3, <1>4 DEF KeysInv, Day

\* Every step keeps the keys, whatever runs next to what.
LEMMA NextKeys == ASSUME Shape, KeysInv, [Next]_vars PROVE KeysInv'
<1>1. CASE Environment
  BY <1>1 DEF Environment, KeysInv, Active, Step, Day
<1>2. ASSUME NEW i \in Importers, LetsGo(i) \/ Begins(i) PROVE KeysInv'
  <2>1. OthersStay(i) /\ db' = db /\ ImpValues(imp'[i], started')
    BY <1>2 DEF LetsGo, Begins, Alone, OthersStay
  <2>2. imp'[i].step \in {"idle", "fetch", "unchanged", "delete payments", "done"}
    BY <1>2 DEF LetsGo, Begins
  <2>3. \A t \in Tables : imp'[i].gone[t] = {} BY <2>1, <2>2 DEF ImpValues
  <2> QED BY <2>1, <2>3, NothingGoes
<1>3. ASSUME NEW i \in Importers, NEW t \in Tables, Sees(i, t) PROVE KeysInv'
  <2>1. OthersStay(i) /\ db' = db /\ imp'[i].gone = imp[i].gone /\ imp'[i].day = imp[i].day
    BY <1>3 DEF Sees, Alone, OthersStay, SameImport
  <2>2. Active(i)' BY <1>3, TableSteps DEF Sees, Active, Step
  <2> QED BY <2>1, <2>2, NothingGoes
<1>4. ASSUME NEW i \in Importers, NEW t \in Tables, Ends(i, t) PROVE KeysInv'
  <2>1. /\ \A k \in Importers : k # i => imp'[k] = imp[k]
        /\ db' = db /\ imp'[i].day = imp[i].day
    BY <1>4 DEF Ends, Alone, SameImport
  <2>2. \A u \in Tables : imp'[i].gone[u] = IF u = t THEN imp[i].seen \cap db[Day(i)][t] ELSE imp[i].gone[u]
    BY <1>4 DEF Ends
  <2>3. \A k \in Importers : k # i /\ Day(k) = Day(i) => imp[i].seen \cap imp[k].gone[t] = {}
    BY <1>4 DEF Ends
  <2>4. Active(i)' BY <1>4 DEF Ends, Active, Step
  <2>5. ASSUME NEW k \in Importers, NEW u \in Tables, imp'[k].gone[u] # {}
        PROVE  Active(k)' /\ imp'[k].gone[u] \subseteq db'[imp'[k].day][u]
    <3>1. CASE k = i BY <2>1, <2>2, <2>4, <2>5, <3>1 DEF KeysInv, Day
    <3>2. CASE k # i BY <2>1, <2>5, <3>2 DEF KeysInv, Active, Step, Day
    <3> QED BY <3>1, <3>2
  <2>6. ASSUME NEW k \in Importers, NEW u \in Tables, k # i, imp[k].day = imp[i].day
        PROVE  imp'[i].gone[u] \cap imp[k].gone[u] = {}
    <3>1. CASE u = t BY <2>2, <2>3, <2>6, <3>1 DEF Day
    <3>2. CASE u # t BY <2>2, <2>6, <3>2 DEF KeysInv, Day
    <3> QED BY <3>1, <3>2
  <2>7. ASSUME NEW k \in Importers, NEW l \in Importers, NEW u \in Tables, k # l,
               imp'[k].day = imp'[l].day
        PROVE  imp'[k].gone[u] \cap imp'[l].gone[u] = {}
    <3>1. CASE k = i BY <2>1, <2>6, <2>7, <3>1
    <3>2. CASE l = i BY <2>1, <2>6, <2>7, <3>2
    <3>3. CASE k # i /\ l # i BY <2>1, <2>7, <3>3 DEF KeysInv, Day
    <3> QED BY <3>1, <3>2, <3>3
  <2> QED BY <2>1, <2>5, <2>7 DEF KeysInv, Day
<1>5. ASSUME NEW i \in Importers, Commits(i) PROVE KeysInv'
  <2>1. \A k \in Importers : k # i => imp'[k] = imp[k] BY <1>5 DEF Commits, Alone
  <2>2. \A t \in Tables : imp'[i].gone[t] = {} BY <1>5 DEF Commits, Alone, ImpValues
  <2>3. PICK d \in Days : d = Day(i) BY <1>5 DEF Commits, Shape, ImpValues, Day
  <2>4. /\ \A t \in Tables : db'[d][t] = (db[d][t] \ imp[i].gone[t]) \cup NewRows(i, t)
        /\ \A e \in Days : e # d => db'[e] = db[e]
    <3>1. db' = [db EXCEPT ![d] = [t \in Tables |-> (db[d][t] \ imp[i].gone[t]) \cup NewRows(i, t)]]
      BY <1>5, <2>3 DEF Commits
    <3>2. DOMAIN db = Days BY DEF Shape, DbShape
    <3> QED BY <3>1, <3>2
  <2>5. ASSUME NEW t \in Tables PROVE KeysAreUnique(db'[d][t])
    <3>1. InTheWay(i, t) = {} /\ KeysAreUnique(NewRows(i, t)) BY <1>5 DEF Commits
    <3>2. \A r \in db[d][t] \ imp[i].gone[t], n \in NewRows(i, t) : r.key # n.key
      BY <2>3, <3>1 DEF InTheWay
    <3>3. KeysAreUnique(db[d][t]) BY DEF KeysInv
    <3> QED BY <2>4, <3>1, <3>2, <3>3 DEF KeysAreUnique
  <2>6. ASSUME NEW e \in Days, NEW t \in Tables PROVE KeysAreUnique(db'[e][t])
    BY <2>4, <2>5 DEF KeysInv
  <2>7. ASSUME NEW k \in Importers, NEW t \in Tables, imp'[k].gone[t] # {}
        PROVE  Active(k)' /\ imp'[k].gone[t] \subseteq db'[imp'[k].day][t]
    <3>1. k # i /\ imp'[k] = imp[k] BY <2>1, <2>2, <2>7
    <3>2. Active(k) /\ imp[k].gone[t] \subseteq db[imp[k].day][t] BY <2>7, <3>1 DEF KeysInv, Day
    <3>3. imp[k].day \in Days BY <3>2 DEF Shape, ImpValues, Active, Step
    <3>4. CASE imp[k].day # d BY <2>4, <3>1, <3>2, <3>3, <3>4 DEF Active, Step
    <3>5. CASE imp[k].day = d
      <4>1. imp[i].gone[t] \cap imp[k].gone[t] = {} BY <2>3, <3>1, <3>5 DEF KeysInv, Day
      <4> QED BY <2>4, <3>1, <3>2, <3>5, <4>1 DEF Active, Step
    <3> QED BY <3>4, <3>5
  <2>8. ASSUME NEW k \in Importers, NEW l \in Importers, NEW t \in Tables, k # l,
               imp'[k].day = imp'[l].day
        PROVE  imp'[k].gone[t] \cap imp'[l].gone[t] = {}
    BY <2>1, <2>2, <2>8 DEF KeysInv, Day
  <2> QED BY <2>6, <2>7, <2>8 DEF KeysInv, Day
<1> QED BY <1>1, <1>2, <1>3, <1>4, <1>5, StepKinds

-----------------------------------------------------------------------------
(* Where days do not mix, the steps keep the invariant *)

\* What a process that runs alone has seen and deleted.
TookItsTurn(i) ==
    LET last == {"delete daily", "lock daily", "insert"}
    IN  /\ Step(i) \in LockSteps => imp[i].seen = db[Day(i)][TableOf(Step(i))]
        /\ Step(i) \in last \cup {"delete products", "lock products"} =>
            imp[i].gone["payments"] = db[Day(i)]["payments"]
        /\ Step(i) \in last => imp[i].gone["products"] = db[Day(i)]["products"]

\* A process that lets go takes nothing with it.
LEMMA LetsGoInv ==
    ASSUME Shape, ImportInv, NEW i \in Importers, LetsGo(i) PROVE ImportInv'
<1>1. /\ imp'[i].seen = {} /\ \A t \in Tables : imp'[i].gone[t] = {}
  BY DEF LetsGo, Alone, ImpValues, LockSteps
<1>2. started' = started /\ db' = db /\ \A k \in Importers : k # i => imp'[k] = imp[k]
  BY DEF LetsGo, Alone
<1>3. imp[i].day \in Nat /\ imp'[i].day \in Nat BY DEF Shape, LetsGo, Alone, ImpValues
<1>4. \A d \in Days : (NotStored(d) \/ StoredOnce(d))'
  BY <1>2 DEF ImportInv, NotStored, StoredOnce, MadeBy
<1>5. OwnNumbers'
  <2>1. Active(i)' => Active(i) /\ imp'[i].import = imp[i].import /\ imp'[i].day >= imp[i].day
    BY DEF LetsGo, Active, Step
  <2>2. ASSUME NEW k \in Importers, NEW l \in Importers, imp'[k].import = imp'[l].import,
               Active(k)', Active(l)'
        PROVE  k = l
    BY <1>2, <2>1, <2>2 DEF ImportInv, OwnNumbers, Active, Step
  <2>3. ASSUME NEW k \in Importers, NEW l \in Importers, NEW r \in imp'[l].seen
        PROVE  /\ r.import \in 1 .. started'
               /\ Active(k)' /\ Day(k)' <= Day(l)' => r.import # imp'[k].import
    <3>1. l # i /\ r \in imp[l].seen BY <1>1, <1>2, <2>3
    <3>2. imp'[l] = imp[l] BY <1>2, <3>1
    <3>3. imp[l].day \in Nat BY DEF Shape, ImpValues
    <3> QED BY <1>2, <1>3, <2>1, <3>1, <3>2, <3>3 DEF ImportInv, OwnNumbers, Active, Step, Day
  <2>4. ASSUME NEW d \in Days, NEW t \in Tables, NEW r \in db[d][t]
        PROVE  /\ r.import \in 1 .. started'
               /\ \A k \in Importers : Active(k)' /\ Day(k)' <= d => r.import # imp'[k].import
    <3>1. d \in Nat BY SalesImportAssumption
    <3> QED BY <1>2, <1>3, <2>1, <3>1 DEF ImportInv, OwnNumbers, Active, Step, Day
  <2> QED BY <1>2, <2>2, <2>3, <2>4 DEF OwnNumbers
<1>6. AllOrNothing'
  <2>1. ASSUME NEW k \in Importers, NEW t \in Tables, imp'[k].gone[t] # {}
        PROVE  Active(k)' /\ imp'[k].gone[t] = db'[Day(k)'][t]
    BY <1>1, <1>2, <2>1 DEF ImportInv, AllOrNothing, Active, Step, Day
  <2>2. ASSUME NEW k \in Importers, Step(k)' \in LockSteps
        PROVE  \/ imp'[k].seen \cap db'[Day(k)'][TableOf(Step(k)')] = {}
               \/ db'[Day(k)'][TableOf(Step(k)')] \subseteq imp'[k].seen
    BY <1>1, <1>2, <2>2 DEF ImportInv, AllOrNothing, Step, Day
  <2> QED BY <2>1, <2>2 DEF AllOrNothing
<1>7. OneDeletes'
  BY <1>1, <1>2 DEF ImportInv, OneDeletes, Day
<1>8. ProductsGoToo'
  <2>1. "payments" \in Tables BY TableSteps
  <2> QED BY <1>1, <1>2, <2>1 DEF ImportInv, ProductsGoToo, Step, Day
<1>9. TurnsAreTaken'
  <2>1. ASSUME NEW k \in Importers, Active(k)' PROVE Active(k)
    BY <1>2, <2>1 DEF LetsGo, Active, Step
  <2>2. imp'[i].step \notin LockSteps
        /\ imp'[i].step \notin {"delete products", "delete daily", "insert"}
    BY DEF LetsGo, LockSteps
  <2> QED BY <1>2, <2>1, <2>2 DEF ImportInv, TurnsAreTaken, Step, Day, LockSteps
<1> QED BY <1>4, <1>5, <1>6, <1>7, <1>8, <1>9 DEF ImportInv

\* A new import has a number of its own.
LEMMA BeginsInv ==
    ASSUME Shape, ImportInv, NEW i \in Importers, Begins(i) PROVE ImportInv'
<1>1. /\ imp'[i].seen = {} /\ \A t \in Tables : imp'[i].gone[t] = {}
  BY DEF Begins, Alone, ImpValues, LockSteps
<1>2. started' = started + 1 /\ db' = db /\ \A k \in Importers : k # i => imp'[k] = imp[k]
  BY DEF Begins, Alone
<1>3. started \in Nat BY DEF Shape
<1>4. ASSUME NEW k \in Importers PROVE imp[k].import \in Nat /\ imp[k].import <= started
  BY DEF Shape, ImpValues
<1>5. \A d \in Days : (NotStored(d) \/ StoredOnce(d))'
  <2>1. 1 .. started \subseteq 1 .. started' BY <1>2, <1>3
  <2>2. ASSUME NEW d \in Days, StoredOnce(d) PROVE StoredOnce(d)'
    <3>1. PICK n \in 1 .. started, a \in Books, b \in Books, c \in Books, map \in SUBSET PaymentTypes :
            MadeBy(d, n, ReadingOf(a, b, c), map)
      BY <2>2 DEF StoredOnce
    <3>2. n \in 1 .. started' BY <2>1
    <3>3. MadeBy(d, n, ReadingOf(a, b, c), map)' BY <1>2, <3>1 DEF MadeBy
    <3> QED BY <3>2, <3>3 DEF StoredOnce
  <2>3. ASSUME NEW d \in Days, NotStored(d) PROVE NotStored(d)'
    BY <1>2, <2>3 DEF NotStored
  <2> QED BY <2>2, <2>3 DEF ImportInv
<1>6. OwnNumbers'
  <2>1. imp'[i].import = started + 1 BY DEF Begins
  <2>2. ASSUME NEW k \in Importers, NEW l \in Importers, imp'[k].import = imp'[l].import,
               Active(k)', Active(l)'
        PROVE  k = l
    <3>1. k # i /\ l # i => k = l
      BY <1>2, <2>2 DEF ImportInv, OwnNumbers, Active, Step
    <3>2. ASSUME NEW m \in Importers, m # i PROVE imp'[m].import # started + 1
      BY <1>2, <1>3, <1>4, <3>2
    <3> QED BY <2>1, <2>2, <3>1, <3>2
  <2>3. ASSUME NEW n \in 1 .. started PROVE n # started + 1 /\ n \in 1 .. started'
    BY <1>2, <1>3, <2>3
  <2>4. ASSUME NEW k \in Importers, NEW l \in Importers, NEW r \in imp'[l].seen
        PROVE  /\ r.import \in 1 .. started'
               /\ Active(k)' /\ Day(k)' <= Day(l)' => r.import # imp'[k].import
    <3>1. l # i /\ r \in imp[l].seen BY <1>1, <1>2, <2>4
    <3>2. imp'[l] = imp[l] BY <1>2, <3>1
    <3>3. r.import \in 1 .. started BY <3>1 DEF ImportInv, OwnNumbers
    <3>4. CASE k = i BY <2>1, <2>3, <3>3, <3>4
    <3>5. CASE k # i
      BY <1>2, <2>3, <3>1, <3>2, <3>3, <3>5 DEF ImportInv, OwnNumbers, Active, Step, Day
    <3> QED BY <3>4, <3>5
  <2>5. ASSUME NEW d \in Days, NEW t \in Tables, NEW r \in db[d][t]
        PROVE  /\ r.import \in 1 .. started'
               /\ \A k \in Importers : Active(k)' /\ Day(k)' <= d => r.import # imp'[k].import
    <3>1. r.import \in 1 .. started BY DEF ImportInv, OwnNumbers
    <3>2. ASSUME NEW k \in Importers, Active(k)', Day(k)' <= d PROVE r.import # imp'[k].import
      <4>1. CASE k = i BY <2>1, <2>3, <3>1, <4>1
      <4>2. CASE k # i BY <1>2, <3>2, <4>2 DEF ImportInv, OwnNumbers, Active, Step, Day
      <4> QED BY <4>1, <4>2
    <3> QED BY <2>3, <3>1, <3>2
  <2> QED BY <1>2, <2>2, <2>4, <2>5 DEF OwnNumbers
<1>7. AllOrNothing'
  <2>1. ASSUME NEW k \in Importers, NEW t \in Tables, imp'[k].gone[t] # {}
        PROVE  Active(k)' /\ imp'[k].gone[t] = db'[Day(k)'][t]
    BY <1>1, <1>2, <2>1 DEF ImportInv, AllOrNothing, Active, Step, Day
  <2>2. ASSUME NEW k \in Importers, Step(k)' \in LockSteps
        PROVE  \/ imp'[k].seen \cap db'[Day(k)'][TableOf(Step(k)')] = {}
               \/ db'[Day(k)'][TableOf(Step(k)')] \subseteq imp'[k].seen
    BY <1>1, <1>2, <2>2 DEF ImportInv, AllOrNothing, Step, Day
  <2> QED BY <2>1, <2>2 DEF AllOrNothing
<1>8. OneDeletes'
  BY <1>1, <1>2 DEF ImportInv, OneDeletes, Day
<1>9. ProductsGoToo'
  <2>1. "payments" \in Tables BY TableSteps
  <2> QED BY <1>1, <1>2, <2>1 DEF ImportInv, ProductsGoToo, Step, Day
<1>10. TurnsAreTaken'
  <2>1. imp'[i].step = "fetch" BY DEF Begins
  <2>2. OneAtATime => \A k \in Importers : k # i => ~ Active(k) BY DEF Begins
  <2>3. ASSUME OneAtATime, NEW k \in Importers, Step(k)' \notin {"idle", "fetch", "done"} PROVE FALSE
    BY <1>2, <2>1, <2>2, <2>3 DEF Active, Step
  <2>4. ASSUME OneAtATime, NEW k \in Importers, Active(k)' PROVE k = i
    BY <1>2, <2>2, <2>4 DEF Active, Step
  <2> QED BY <2>3, <2>4 DEF TurnsAreTaken, LockSteps
<1> QED BY <1>5, <1>6, <1>7, <1>8, <1>9, <1>10 DEF ImportInv

\* A process that has only seen rows has deleted none.
LEMMA SeesInv ==
    ASSUME Shape, ImportInv, NEW i \in Importers, NEW t \in Tables, Sees(i, t)
    PROVE  ImportInv'
<1>1. /\ imp'[i].seen = db[Day(i)][t] /\ imp'[i].gone = imp[i].gone /\ imp'[i].step = LockOf[t]
      /\ Active(i) /\ Active(i)' /\ TableOf(LockOf[t]) = t
  BY TableSteps DEF Sees, Active, Step
<1>2. started' = started /\ db' = db /\ \A k \in Importers : k # i => imp'[k] = imp[k]
  BY DEF Sees, Alone
<1>3. imp'[i].import = imp[i].import /\ imp'[i].day = imp[i].day BY DEF Sees, SameImport
<1>10. Day(i) \in Days BY <1>1 DEF Shape, ImpValues, Active, Step, Day
<1>4. \A d \in Days : (NotStored(d) \/ StoredOnce(d))'
  BY <1>2 DEF ImportInv, NotStored, StoredOnce, MadeBy
<1>5. OwnNumbers'
  <2>1. ASSUME NEW k \in Importers
        PROVE  imp'[k].import = imp[k].import /\ imp'[k].day = imp[k].day /\ (Active(k)' => Active(k))
    BY <1>1, <1>2, <1>3 DEF Active, Step
  <2>2. ASSUME NEW k \in Importers, NEW l \in Importers, NEW r \in imp'[l].seen
        PROVE  /\ r.import \in 1 .. started'
               /\ Active(k)' /\ Day(k)' <= Day(l)' => r.import # imp'[k].import
    <3>1. CASE l = i
      <4>1. r \in db[Day(i)][t] /\ Day(l)' = Day(i) BY <1>1, <1>3, <2>2, <3>1 DEF Day
      <4> QED BY <1>2, <1>10, <2>1, <4>1 DEF ImportInv, OwnNumbers, Day
    <3>2. CASE l # i
      BY <1>2, <2>1, <2>2, <3>2 DEF ImportInv, OwnNumbers, Day
    <3> QED BY <3>1, <3>2
  <2>3. ASSUME NEW d \in Days, NEW t2 \in Tables, NEW r \in db[d][t2]
        PROVE  /\ r.import \in 1 .. started'
               /\ \A k \in Importers : Active(k)' /\ Day(k)' <= d => r.import # imp'[k].import
    BY <1>2, <2>1 DEF ImportInv, OwnNumbers, Day
  <2>4. ASSUME NEW k \in Importers, NEW l \in Importers, imp'[k].import = imp'[l].import,
               Active(k)', Active(l)'
        PROVE  k = l
    BY <2>1, <2>4 DEF ImportInv, OwnNumbers
  <2> QED BY <1>2, <2>2, <2>3, <2>4 DEF OwnNumbers
<1>6. AllOrNothing'
  <2>1. ASSUME NEW k \in Importers, NEW u \in Tables, imp'[k].gone[u] # {}
        PROVE  Active(k)' /\ imp'[k].gone[u] = db'[Day(k)'][u]
    BY <1>1, <1>2, <1>3, <2>1 DEF ImportInv, AllOrNothing, Active, Step, Day
  <2>2. ASSUME NEW k \in Importers, Step(k)' \in LockSteps
        PROVE  \/ imp'[k].seen \cap db'[Day(k)'][TableOf(Step(k)')] = {}
               \/ db'[Day(k)'][TableOf(Step(k)')] \subseteq imp'[k].seen
    <3>1. CASE k = i BY <1>1, <1>2, <1>3, <3>1 DEF Step, Day
    <3>2. CASE k # i BY <1>2, <2>2, <3>2 DEF ImportInv, AllOrNothing, Step, Day
    <3> QED BY <3>1, <3>2
  <2> QED BY <2>1, <2>2 DEF AllOrNothing
<1>7. OneDeletes'
  BY <1>1, <1>2, <1>3 DEF ImportInv, OneDeletes, Day
<1>8. ProductsGoToo'
  <2>1. ASSUME NEW k \in Importers, k # i, imp'[k].gone["payments"] # {}
        PROVE  /\ Step(k)' = "lock products" => imp'[k].seen = db'[Day(k)']["products"]
               /\ Step(k)' \in {"delete daily", "lock daily", "insert"} =>
                    imp'[k].gone["products"] = db'[Day(k)']["products"]
    BY <1>2, <2>1 DEF ImportInv, ProductsGoToo, Step, Day
  <2>2. ASSUME imp'[i].gone["payments"] # {}
        PROVE  /\ Step(i)' = "lock products" => imp'[i].seen = db'[Day(i)']["products"]
               /\ Step(i)' \in {"delete daily", "lock daily", "insert"} =>
                    imp'[i].gone["products"] = db'[Day(i)']["products"]
    <3>1. t \in {"daily", "payments", "products"} BY TableSteps
    <3>2. CASE t = "daily"
      <4>3. Step(i) = "delete daily" BY <3>2 DEF Sees, Step
      <4>1. imp[i].gone["products"] = db[Day(i)]["products"]
        BY <1>1, <2>2, <4>3 DEF ImportInv, ProductsGoToo
      <4>2. Step(i)' = "lock daily" BY <1>1, <3>2 DEF LockOf, Step
      <4> QED BY <1>1, <1>2, <1>3, <4>1, <4>2 DEF Day
    <3>3. CASE t = "payments"
      <4>1. Step(i)' = "lock payments" BY <1>1, <3>3 DEF LockOf, Step
      <4> QED BY <4>1
    <3>4. CASE t = "products"
      <4>1. Step(i)' = "lock products" BY <1>1, <3>4 DEF LockOf, Step
      <4> QED BY <1>1, <1>2, <1>3, <3>4, <4>1 DEF Day
    <3> QED BY <3>1, <3>2, <3>3, <3>4
  <2> QED BY <2>1, <2>2 DEF ProductsGoToo
<1>9. TurnsAreTaken'
  <2> SUFFICES ASSUME OneAtATime
               PROVE  /\ \A k, l \in Importers : Active(k)' /\ Active(l)' => k = l
                      /\ \A k \in Importers : TookItsTurn(k)'
    BY DEF TurnsAreTaken, TookItsTurn
  <2>1. /\ \A k, l \in Importers : Active(k) /\ Active(l) => k = l
        /\ \A k \in Importers : TookItsTurn(k)
    BY DEF ImportInv, TurnsAreTaken, TookItsTurn
  <2>2. \A k \in Importers : Active(k)' => Active(k) BY <1>1, <1>2 DEF Active, Step
  <2>3. ASSUME NEW k \in Importers, k # i PROVE TookItsTurn(k)'
    BY <1>2, <2>1, <2>3 DEF TookItsTurn, Step, Day
  <2>4. TookItsTurn(i)'
    <3>1. t \in {"daily", "payments", "products"} BY TableSteps
    <3>2. imp'[i].step = LockOf[t] /\ imp'[i].seen = db'[imp'[i].day][t] /\ TableOf(imp'[i].step) = t
      BY <1>1, <1>2, <1>3 DEF Day
    <3>3. CASE t = "payments"
      <4>1. imp'[i].step = "lock payments" BY <3>2, <3>3, TableSteps
      <4> QED BY <3>2, <3>3, <4>1 DEF TookItsTurn, Step, Day
    <3>4. CASE t = "products"
      <4>1. imp[i].step = "delete products" BY <3>4 DEF Sees
      <4>2. imp[i].gone["payments"] = db[imp[i].day]["payments"] BY <2>1, <4>1 DEF TookItsTurn, Step, Day
      <4>3. imp'[i].step = "lock products" BY <3>2, <3>4, TableSteps
      <4> QED BY <1>1, <1>2, <1>3, <3>2, <3>4, <4>2, <4>3 DEF TookItsTurn, Step, Day
    <3>5. CASE t = "daily"
      <4>1. imp[i].step = "delete daily" BY <3>5 DEF Sees
      <4>2. /\ imp[i].gone["payments"] = db[imp[i].day]["payments"]
            /\ imp[i].gone["products"] = db[imp[i].day]["products"]
        BY <2>1, <4>1 DEF TookItsTurn, Step, Day
      <4>3. imp'[i].step = "lock daily" BY <3>2, <3>5, TableSteps
      <4> QED BY <1>1, <1>2, <1>3, <3>2, <3>5, <4>2, <4>3 DEF TookItsTurn, Step, Day
    <3> QED BY <3>1, <3>3, <3>4, <3>5
  <2> QED BY <2>1, <2>2, <2>3, <2>4
<1> QED BY <1>4, <1>5, <1>6, <1>7, <1>8, <1>9 DEF ImportInv

\* A process that has waited for its rows has them alone.
LEMMA EndsInv ==
    ASSUME Shape, ImportInv, NEW i \in Importers, NEW t \in Tables, Ends(i, t)
    PROVE  ImportInv'
<1>1. /\ imp'[i].seen = {} /\ Active(i) /\ Active(i)' /\ imp[i].step = LockOf[t]
      /\ imp[i].step \in LockSteps /\ TableOf(imp[i].step) = t
      /\ imp'[i].step \in {"delete products", "delete daily", "insert"}
      /\ imp'[i].step \notin LockSteps
  <2>1. /\ imp[i].step = LockOf[t] /\ imp'[i].seen = {}
        /\ imp'[i].step \in {"delete products", "delete daily", "insert"}
    BY DEF Ends
  <2>2. LockOf[t] \in LockSteps /\ TableOf(LockOf[t]) = t BY TableSteps
  <2>3. Active(i) /\ Active(i)' /\ imp'[i].step \notin LockSteps
    BY <2>1, <2>2 DEF Active, Step, LockSteps
  <2> QED BY <2>1, <2>2, <2>3
<1>2. started' = started /\ db' = db /\ \A k \in Importers : k # i => imp'[k] = imp[k]
  BY DEF Ends, Alone
<1>3. imp'[i].import = imp[i].import /\ imp'[i].day = imp[i].day BY DEF Ends, SameImport
<1>10. Day(i) \in Days BY <1>1 DEF Shape, ImpValues, Active, Step, Day
<1>11. \A u \in Tables : imp'[i].gone[u] = IF u = t THEN imp[i].seen \cap db[Day(i)][t] ELSE imp[i].gone[u]
  BY DEF Ends
<1>12. imp'[i].gone[t] = {} \/ (imp'[i].gone[t] = db[Day(i)][t] /\ db[Day(i)][t] \subseteq imp[i].seen)
  <2>1. \/ imp[i].seen \cap db[Day(i)][t] = {}
        \/ db[Day(i)][t] \subseteq imp[i].seen
    BY <1>1 DEF ImportInv, AllOrNothing, Step
  <2> QED BY <1>11, <2>1
<1>13. \A k \in Importers : k # i /\ Day(k) = Day(i) => imp[i].seen \cap imp[k].gone[t] = {}
  BY DEF Ends
<1>4. \A d \in Days : (NotStored(d) \/ StoredOnce(d))'
  BY <1>2 DEF ImportInv, NotStored, StoredOnce, MadeBy
<1>5. OwnNumbers'
  <2>1. ASSUME NEW k \in Importers
        PROVE  imp'[k].import = imp[k].import /\ imp'[k].day = imp[k].day /\ (Active(k)' => Active(k))
    BY <1>1, <1>2, <1>3 DEF Active, Step
  <2>2. ASSUME NEW k \in Importers, NEW l \in Importers, NEW r \in imp'[l].seen
        PROVE  /\ r.import \in 1 .. started'
               /\ Active(k)' /\ Day(k)' <= Day(l)' => r.import # imp'[k].import
    <3>1. imp'[i].seen = {} BY DEF Ends
    <3>2. l # i /\ r \in imp[l].seen BY <1>2, <2>2, <3>1
    <3> QED BY <1>2, <2>1, <3>2 DEF ImportInv, OwnNumbers, Day
  <2>3. ASSUME NEW d \in Days, NEW t2 \in Tables, NEW r \in db[d][t2]
        PROVE  /\ r.import \in 1 .. started'
               /\ \A k \in Importers : Active(k)' /\ Day(k)' <= d => r.import # imp'[k].import
    BY <1>2, <2>1 DEF ImportInv, OwnNumbers, Day
  <2>4. ASSUME NEW k \in Importers, NEW l \in Importers, imp'[k].import = imp'[l].import,
               Active(k)', Active(l)'
        PROVE  k = l
    BY <2>1, <2>4 DEF ImportInv, OwnNumbers
  <2> QED BY <1>2, <2>2, <2>3, <2>4 DEF OwnNumbers
<1>6. AllOrNothing'
  <2>1. ASSUME NEW k \in Importers, NEW u \in Tables, imp'[k].gone[u] # {}
        PROVE  Active(k)' /\ imp'[k].gone[u] = db'[Day(k)'][u]
    <3>1. CASE k # i
      BY <1>2, <2>1, <3>1 DEF ImportInv, AllOrNothing, Active, Step, Day
    <3>2. CASE k = i /\ u # t
      <4>1. imp'[i].gone[u] = imp[i].gone[u] /\ imp[i].gone[u] # {} BY <1>11, <2>1, <3>2
      <4>2. imp[i].gone[u] = db[Day(i)][u] BY <4>1 DEF ImportInv, AllOrNothing
      <4>3. Active(i)' BY <1>1
      <4> QED BY <1>2, <1>3, <3>2, <4>1, <4>2, <4>3 DEF Day
    <3>3. CASE k = i /\ u = t
      BY <1>1, <1>2, <1>3, <1>12, <2>1, <3>3 DEF Day
    <3> QED BY <3>1, <3>2, <3>3
  <2>2. ASSUME NEW k \in Importers, Step(k)' \in LockSteps
        PROVE  \/ imp'[k].seen \cap db'[Day(k)'][TableOf(Step(k)')] = {}
               \/ db'[Day(k)'][TableOf(Step(k)')] \subseteq imp'[k].seen
    <3>1. k # i BY <1>1, <2>2 DEF Step
    <3> QED BY <1>2, <2>2, <3>1 DEF ImportInv, AllOrNothing, Step, Day
  <2> QED BY <2>1, <2>2 DEF AllOrNothing
<1>7. OneDeletes'
  <2>1. ASSUME NEW k \in Importers, k # i, Day(k) = Day(i), imp[k].gone[t] # {}
        PROVE  imp'[i].gone[t] = {}
    <3>1. imp[k].gone[t] = db[Day(i)][t] BY <2>1 DEF ImportInv, AllOrNothing
    <3> QED BY <1>12, <1>13, <2>1, <3>1
  <2>2. ASSUME NEW k \in Importers, NEW l \in Importers, NEW u \in Tables,
               k # l, imp'[k].day = imp'[l].day, imp'[k].gone[u] # {}
        PROVE  imp'[l].gone[u] = {}
    <3>1. CASE k = i
      BY <1>2, <1>3, <1>11, <2>1, <2>2, <3>1 DEF ImportInv, OneDeletes, Day
    <3>2. CASE l = i
      BY <1>2, <1>3, <1>11, <2>1, <2>2, <3>2 DEF ImportInv, OneDeletes, Day
    <3>3. CASE k # i /\ l # i
      BY <1>2, <2>2, <3>3 DEF ImportInv, OneDeletes, Day
    <3> QED BY <3>1, <3>2, <3>3
  <2> QED BY <2>2 DEF OneDeletes, Day
<1>8. ProductsGoToo'
  <2>1. ASSUME NEW k \in Importers, k # i, imp'[k].gone["payments"] # {}
        PROVE  /\ Step(k)' = "lock products" => imp'[k].seen = db'[Day(k)']["products"]
               /\ Step(k)' \in {"delete daily", "lock daily", "insert"} =>
                    imp'[k].gone["products"] = db'[Day(k)']["products"]
    BY <1>2, <2>1 DEF ImportInv, ProductsGoToo, Step, Day
  <2>2. ASSUME imp'[i].gone["payments"] # {}
        PROVE  Step(i)' \in {"delete daily", "lock daily", "insert"} =>
                    imp'[i].gone["products"] = db'[Day(i)']["products"]
    <3>1. t \in {"daily", "payments", "products"} /\ "payments" \in Tables /\ "products" \in Tables
      BY TableSteps
    <3>2. CASE t = "daily"
      <4>1. Step(i) = "lock daily" BY <3>2 DEF Ends, LockOf, Step
      <4>2. imp[i].gone["payments"] # {} BY <1>11, <2>2, <3>1, <3>2
      <4>3. imp[i].gone["products"] = db[Day(i)]["products"]
        BY <4>1, <4>2 DEF ImportInv, ProductsGoToo
      <4> QED BY <1>2, <1>3, <1>11, <3>1, <3>2, <4>3 DEF Day
    <3>3. CASE t = "payments"
      BY <3>3 DEF Ends, Step
    <3>4. CASE t = "products"
      <4>1. Step(i) = "lock products" BY <3>4 DEF Ends, LockOf, Step
      <4>2. imp[i].gone["payments"] # {} BY <1>11, <2>2, <3>1, <3>4
      <4>3. imp[i].seen = db[Day(i)]["products"] BY <4>1, <4>2 DEF ImportInv, ProductsGoToo
      <4> QED BY <1>2, <1>3, <1>11, <3>1, <3>4, <4>3 DEF Day
    <3> QED BY <3>1, <3>2, <3>3, <3>4
  <2>3. Step(i)' # "lock products" BY <1>1 DEF Step
  <2> QED BY <2>1, <2>2, <2>3 DEF ProductsGoToo
<1>9. TurnsAreTaken'
  <2> SUFFICES ASSUME OneAtATime
               PROVE  /\ \A k, l \in Importers : Active(k)' /\ Active(l)' => k = l
                      /\ \A k \in Importers : TookItsTurn(k)'
    BY DEF TurnsAreTaken, TookItsTurn
  <2>1. /\ \A k, l \in Importers : Active(k) /\ Active(l) => k = l
        /\ \A k \in Importers : TookItsTurn(k)
    BY DEF ImportInv, TurnsAreTaken, TookItsTurn
  <2>2. \A k \in Importers : Active(k)' => Active(k) BY <1>1, <1>2 DEF Active, Step
  <2>3. ASSUME NEW k \in Importers, k # i PROVE TookItsTurn(k)'
    BY <1>2, <2>1, <2>3 DEF TookItsTurn, Step, Day
  <2>4. TookItsTurn(i)'
    <3>1. t \in {"daily", "payments", "products"} /\ "payments" \in Tables /\ "products" \in Tables
      BY TableSteps
    <3>2. imp'[i].gone[t] = db'[imp'[i].day][t]
      <4>1. imp[i].seen = db[Day(i)][t] BY <1>1, <2>1 DEF TookItsTurn, Step
      <4> QED BY <1>2, <1>3, <1>11, <4>1 DEF Day
    <3>3. \A u \in Tables : u # t => imp'[i].gone[u] = imp[i].gone[u] BY <1>11
    <3>4. CASE t = "payments"
      <4>1. imp'[i].step = "delete products" BY <3>4 DEF Ends
      <4> QED BY <3>2, <3>4, <4>1 DEF TookItsTurn, LockSteps, Step, Day
    <3>5. CASE t # "payments"
      <4>1. imp'[i].step \in {"delete daily", "insert"} BY <1>1, <3>5 DEF Ends
      <4>2. (t = "products" /\ imp[i].step = "lock products") \/ (t = "daily" /\ imp[i].step = "lock daily")
        <5>1. imp[i].step = LockOf[t] BY <1>1
        <5>2. CASE t = "products" BY <5>1, <5>2 DEF LockOf
        <5>3. CASE t = "daily" BY <5>1, <5>3 DEF LockOf
        <5> QED BY <3>1, <3>5, <5>2, <5>3
      <4>3. imp'[i].gone["payments"] = db'[imp'[i].day]["payments"]
        BY <1>2, <1>3, <2>1, <3>1, <3>3, <3>5, <4>2 DEF TookItsTurn, Step, Day
      <4>4. imp'[i].gone["products"] = db'[imp'[i].day]["products"]
        <5>1. CASE t = "products" BY <3>2, <5>1
        <5>2. CASE t = "daily"
          <6>1. imp[i].step = "lock daily" BY <4>2, <5>2
          <6> QED BY <1>2, <1>3, <2>1, <3>1, <3>3, <5>2, <6>1 DEF TookItsTurn, Step, Day
        <5> QED BY <3>1, <3>5, <5>1, <5>2
      <4> QED BY <4>1, <4>3, <4>4 DEF TookItsTurn, LockSteps, Step, Day
    <3> QED BY <3>4, <3>5
  <2> QED BY <2>1, <2>2, <2>3, <2>4
<1> QED BY <1>4, <1>5, <1>6, <1>7, <1>8, <1>9 DEF ImportInv

\* What an import stores is under its number.
LEMMA StoredRowsAreItsOwn ==
    ASSUME NEW n, NEW reading, NEW map, NEW t \in Tables, NEW r \in StoredRows(n, reading, map, t)
    PROVE  r.import = n
<1>1. t \in {"daily", "payments", "products"} BY TableSteps
<1>2. CASE t = "daily" BY <1>2 DEF StoredRows, Row
<1>3. CASE t = "payments" BY <1>3 DEF StoredRows, Row
<1>4. CASE t = "products" BY <1>4 DEF StoredRows, Row
<1> QED BY <1>1, <1>2, <1>3, <1>4

KeyInBoth(rows, others) == \E r \in rows, q \in others : r.key = q.key

\* Whatever two imports make of a day, a key of the daily rows is in both, and one
\* of the payments if their keys meet.
LEMMA StoredRowsMeet ==
    ASSUME NEW n, NEW m, NEW map, NEW map2, NEW a, NEW a2, NEW b \in Books, NEW b2 \in Books,
           NEW c, NEW c2, NEW t \in {"daily", "payments"}, t = "daily" \/ PaymentKeysMeet
    PROVE  KeyInBoth(StoredRows(n, ReadingOf(a, b, c), map, t),
                     StoredRows(m, ReadingOf(a2, b2, c2), map2, t))
<1>1. CASE t = "daily" BY <1>1 DEF StoredRows, Row, KeyInBoth
<1>2. CASE t = "payments"
  <2>1. PICK r \in Normal(ReportOf[b].payments), q \in Normal(ReportOf[b2].payments) : r.key = q.key
    BY <1>2 DEF PaymentKeysMeet
  <2>2. /\ ReadingOf(a, b, c).payments = ReportOf[b].payments
        /\ ReadingOf(a2, b2, c2).payments = ReportOf[b2].payments
    BY DEF ReadingOf
  <2> DEFINE x == Row(r.key, n, [row |-> r, category |-> categorize_payment(r, map)])
             y == Row(q.key, m, [row |-> q, category |-> categorize_payment(q, map2)])
  <2>3. x \in StoredRows(n, ReadingOf(a, b, c), map, t) BY <1>2, <2>2 DEF StoredRows
  <2>4. y \in StoredRows(m, ReadingOf(a2, b2, c2), map2, t) BY <1>2, <2>2 DEF StoredRows
  <2>5. x.key = y.key BY <2>1 DEF Row
  <2> HIDE DEF x, y
  <2> QED BY <2>3, <2>4, <2>5 DEF KeyInBoth
<1> QED BY <1>1, <1>2

\* A transaction at its inserts has read three reports.
LEMMA HasReading ==
    ASSUME Shape, NEW i \in Importers, imp[i].step \notin {"idle", "fetch", "done"}
    PROVE  \E a, b, c \in Books : Reading(i) = ReadingOf(a, b, c)
<1>1. imp[i].answers \in Seq(Books) /\ Len(imp[i].answers) = 3 BY DEF Shape, ImpValues
<1>2. imp[i].answers[1] \in Books /\ imp[i].answers[2] \in Books /\ imp[i].answers[3] \in Books
  BY <1>1
<1> QED BY <1>2 DEF Reading

\* A transaction whose keys are free has deleted all there was.
LEMMA CommitReplaces ==
    ASSUME DaysDoNotMix, Shape, ImportInv, NEW i \in Importers, Commits(i), NEW t \in Tables
    PROVE  db[Day(i)][t] \subseteq imp[i].gone[t]
<1> DEFINE d == Day(i)
<1>1. d \in Days /\ Step(i) = "insert" BY DEF Commits, Shape, ImpValues, Step, Day
<1>2. NotStored(d) \/ StoredOnce(d) BY <1>1 DEF ImportInv
<1>3. CASE NotStored(d) BY <1>3 DEF NotStored
<1>4. CASE StoredOnce(d)
  <2>1. PICK m \in 1 .. started, a2 \in Books, b2 \in Books, c2 \in Books, map2 \in SUBSET PaymentTypes :
          \A u \in Tables : db[d][u] = StoredRows(m, ReadingOf(a2, b2, c2), map2, u)
    BY <1>4 DEF StoredOnce, MadeBy
  <2>2. PICK a \in Books, b \in Books, c \in Books : Reading(i) = ReadingOf(a, b, c)
    BY HasReading DEF Commits
  <2>3. ASSUME NEW u \in {"daily", "payments"}, u = "daily" \/ PaymentKeysMeet
        PROVE  imp[i].gone[u] # {} /\ imp[i].gone[u] = db[d][u]
    <3>1. u \in Tables BY <2>3, TableSteps
    <3>2. PICK r \in StoredRows(imp[i].import, ReadingOf(a, b, c), imp[i].map, u),
               q \in StoredRows(m, ReadingOf(a2, b2, c2), map2, u) : r.key = q.key
      <4>1. KeyInBoth(StoredRows(imp[i].import, ReadingOf(a, b, c), imp[i].map, u),
                      StoredRows(m, ReadingOf(a2, b2, c2), map2, u))
        BY <2>3, StoredRowsMeet
      <4> QED BY <4>1 DEF KeyInBoth
    <3>3. r \in NewRows(i, u) /\ q \in db[d][u] BY <2>1, <2>2, <3>1, <3>2 DEF NewRows
    <3>4. InTheWay(i, u) = {} BY <3>1 DEF Commits
    <3>5. q \in imp[i].gone[u] BY <3>2, <3>3, <3>4 DEF InTheWay
    <3> QED BY <3>1, <3>5 DEF ImportInv, AllOrNothing
  <2>4. imp[i].gone["payments"] = db[d]["payments"] /\ imp[i].gone["products"] = db[d]["products"]
    <3>1. CASE PaymentKeysMeet BY <1>1, <2>3, <3>1 DEF ImportInv, ProductsGoToo
    <3>2. CASE OneAtATime BY <1>1, <3>2 DEF ImportInv, TurnsAreTaken
    <3> QED BY <3>1, <3>2 DEF DaysDoNotMix
  <2> QED BY <2>3, <2>4, TableSteps
<1> QED BY <1>2, <1>3, <1>4

\* A commit leaves what one import made of one reading, and nothing that
\* another transaction has deleted or counts on.
LEMMA CommitsInv ==
    ASSUME DaysDoNotMix, Shape, ImportInv, NEW i \in Importers, Commits(i) PROVE ImportInv'
<1>18. Active(i) /\ ImpValues(imp[i], started) /\ started \in Nat
  BY DEF Commits, Shape, Active, Step
<1>19. PICK d \in Days : d = Day(i) BY <1>18 DEF ImpValues, Active, Step, Day
<1>1. imp[i].import \in 1 .. started /\ d \in Nat /\ imp[i].map \in SUBSET PaymentTypes
  <2>1. imp[i].import \in Nat /\ imp[i].import <= started /\ imp[i].import >= 1 /\ imp[i].map \subseteq PaymentTypes
    BY <1>18 DEF ImpValues, Active, Step
  <2>2. d \in Nat BY SalesImportAssumption
  <2> QED BY <1>18, <2>1, <2>2
<1>2. started' = started /\ \A k \in Importers : k # i => imp'[k] = imp[k]
  BY DEF Commits, Alone
<1>3. /\ imp'[i].seen = {} /\ \A t \in Tables : imp'[i].gone[t] = {}
  BY DEF Commits, Alone, ImpValues, LockSteps
<1>4. \A t \in Tables : db'[d][t] = NewRows(i, t)
  <2>1. db' = [db EXCEPT ![d] = [t \in Tables |-> (db[d][t] \ imp[i].gone[t]) \cup NewRows(i, t)]]
    BY <1>19 DEF Commits
  <2>2. DOMAIN db = Days BY DEF Shape, DbShape
  <2>3. db'[d] = [t \in Tables |-> (db[d][t] \ imp[i].gone[t]) \cup NewRows(i, t)]
    BY <1>1, <2>1, <2>2
  <2> QED BY <1>19, <2>3, CommitReplaces
<1>5. \A e \in Days : e # d => db'[e] = db[e]
  BY <1>19 DEF Commits, Shape, DbShape
<1>7. \A t \in Tables : \A r \in db'[d][t] : r.import = imp[i].import
  BY <1>4, StoredRowsAreItsOwn DEF NewRows
<1>8. ASSUME NEW k \in Importers, k # i, imp[k].day = d, NEW t \in Tables PROVE imp[k].gone[t] = {}
  <2>1. SUFFICES ASSUME imp[k].gone[t] # {} PROVE FALSE OBVIOUS
  <2>2. imp[k].gone[t] = db[d][t] BY <1>8, <2>1 DEF ImportInv, AllOrNothing, Day
  <2>3. imp[i].gone[t] # {} BY <1>19, <2>1, <2>2, CommitReplaces
  <2> QED BY <1>8, <1>19, <2>1, <2>3 DEF ImportInv, OneDeletes, Day
<1>9. Active(i) BY <1>18
<1>10. Active(i)' => imp'[i].day = d + 1 /\ imp'[i].import = imp[i].import
  BY <1>19 DEF Commits, Active, Step, Day
<1>11. ASSUME NEW k \in Importers, k # i, imp[k].day = d PROVE \A r \in imp[k].seen : r.import # imp[i].import
  <2>1. Day(k) = d /\ Day(i) = d BY <1>11, <1>19 DEF Day
  <2> QED BY <1>1, <1>9, <2>1 DEF ImportInv, OwnNumbers
<1>12. \A e \in Days : (NotStored(e) \/ StoredOnce(e))'
  <2>1. ASSUME NEW e \in Days, e # d PROVE (NotStored(e) \/ StoredOnce(e))'
    <3>1. db'[e] = db[e] BY <1>5, <2>1
    <3>2. ASSUME NotStored(e) PROVE NotStored(e)' BY <3>1, <3>2 DEF NotStored
    <3>3. ASSUME StoredOnce(e) PROVE StoredOnce(e)' BY <1>2, <3>1, <3>3 DEF StoredOnce, MadeBy
    <3> QED BY <3>2, <3>3 DEF ImportInv
  <2>2. StoredOnce(d)'
    <3>1. PICK a \in Books, b \in Books, c \in Books : Reading(i) = ReadingOf(a, b, c)
      BY HasReading DEF Commits
    <3>2. PICK n \in 1 .. started', map \in SUBSET PaymentTypes : n = imp[i].import /\ map = imp[i].map
      BY <1>1, <1>2
    <3>3. MadeBy(d, n, ReadingOf(a, b, c), map)'
      <4>1. ASSUME NEW t \in Tables
            PROVE  db'[d][t] = StoredRows(n, ReadingOf(a, b, c), map, t) /\ KeysAreUnique(db'[d][t])
        BY <1>4, <3>1, <3>2 DEF NewRows, Commits
      <4> QED BY <4>1 DEF MadeBy
    <3> QED BY <3>2, <3>3 DEF StoredOnce
  <2> QED BY <2>1, <2>2
<1>13. OwnNumbers'
  <2>1. ASSUME NEW k \in Importers, Active(k)'
        PROVE  Active(k) /\ imp'[k].import = imp[k].import /\ (k # i => imp'[k].day = imp[k].day)
    <3>1. CASE k = i BY <1>9, <1>10, <2>1, <3>1
    <3>2. CASE k # i BY <1>2, <2>1, <3>2 DEF Active, Step
    <3> QED BY <3>1, <3>2
  <2>2. ASSUME NEW k \in Importers, NEW l \in Importers, imp'[k].import = imp'[l].import,
               Active(k)', Active(l)'
        PROVE  k = l
    BY <2>1, <2>2 DEF ImportInv, OwnNumbers
  <2>3. ASSUME NEW k \in Importers, NEW l \in Importers, NEW r \in imp'[l].seen
        PROVE  /\ r.import \in 1 .. started'
               /\ Active(k)' /\ imp'[k].day <= imp'[l].day => r.import # imp'[k].import
    <3>1. l # i /\ r \in imp[l].seen /\ imp'[l].day = imp[l].day BY <1>2, <1>3, <2>3
    <3>2. r.import \in 1 .. started BY <3>1 DEF ImportInv, OwnNumbers
    <3>3. ASSUME Active(k)', imp'[k].day <= imp'[l].day PROVE imp[k].day <= imp[l].day
      <4>1. CASE k # i BY <2>1, <3>1, <3>3, <4>1
      <4>2. CASE k = i
        <5>1. imp'[k].day = d + 1 /\ imp[k].day = d BY <1>10, <1>19, <3>3, <4>2 DEF Day
        <5>2. imp[l].day \in Nat BY DEF Shape, ImpValues
        <5> QED BY <1>1, <3>1, <3>3, <5>1, <5>2
      <4> QED BY <4>1, <4>2
    <3>4. ASSUME Active(k)', imp'[k].day <= imp'[l].day PROVE r.import # imp'[k].import
      <4>1. Active(k) /\ imp'[k].import = imp[k].import BY <2>1, <3>4
      <4>2. Day(k) <= Day(l) BY <3>3, <3>4 DEF Day
      <4> QED BY <3>1, <4>1, <4>2 DEF ImportInv, OwnNumbers
    <3> QED BY <1>2, <3>2, <3>4
  <2>4. ASSUME NEW e \in Days, NEW t \in Tables, NEW r \in db'[e][t]
        PROVE  /\ r.import \in 1 .. started'
               /\ \A k \in Importers : Active(k)' /\ imp'[k].day <= e => r.import # imp'[k].import
    <3>1. CASE e = d
      <4>1. r.import = imp[i].import BY <1>7, <2>4, <3>1
      <4>2. ASSUME NEW k \in Importers, Active(k)', imp'[k].day <= e PROVE r.import # imp'[k].import
        <5>1. k # i BY <1>1, <1>10, <3>1, <4>2
        <5>2. Active(k) /\ imp'[k].import = imp[k].import BY <2>1, <4>2
        <5> QED BY <1>9, <4>1, <5>1, <5>2 DEF ImportInv, OwnNumbers
      <4> QED BY <1>1, <1>2, <4>1, <4>2
    <3>2. CASE e # d
      <4>1. r \in db[e][t] BY <1>5, <2>4, <3>2
      <4>2. r.import \in 1 .. started BY <4>1 DEF ImportInv, OwnNumbers
      <4>3. ASSUME NEW k \in Importers, Active(k)', imp'[k].day <= e PROVE r.import # imp'[k].import
        <5>1. Active(k) /\ imp'[k].import = imp[k].import BY <2>1, <4>3
        <5>2. e \in Nat BY SalesImportAssumption
        <5>3. Day(k) <= e
          <6>1. CASE k # i BY <2>1, <4>3, <6>1 DEF Day
          <6>2. CASE k = i
            <7>1. imp'[k].day = d + 1 /\ imp[k].day = d BY <1>10, <1>19, <4>3, <6>2 DEF Day
            <7> QED BY <1>1, <4>3, <5>2, <7>1 DEF Day
          <6> QED BY <6>1, <6>2
        <5> QED BY <4>1, <5>1, <5>3 DEF ImportInv, OwnNumbers
      <4> QED BY <1>2, <4>2, <4>3
    <3> QED BY <3>1, <3>2
  <2> QED BY <2>2, <2>3, <2>4 DEF OwnNumbers, Day
<1>14. AllOrNothing'
  <2>1. ASSUME NEW k \in Importers, NEW t \in Tables, imp'[k].gone[t] # {}
        PROVE  Active(k)' /\ imp'[k].gone[t] = db'[Day(k)'][t]
    <3>1. k # i /\ imp'[k] = imp[k] BY <1>2, <1>3, <2>1
    <3>2. Active(k) /\ imp[k].gone[t] = db[Day(k)][t] BY <2>1, <3>1 DEF ImportInv, AllOrNothing
    <3>3. imp[k].day \in Days BY <3>2 DEF Shape, ImpValues, Active, Step
    <3>4. imp[k].day # d BY <1>8, <2>1, <3>1
    <3>5. db'[imp[k].day] = db[imp[k].day] BY <1>5, <3>3, <3>4
    <3> QED BY <3>1, <3>2, <3>5 DEF Active, Step, Day
  <2>2. ASSUME NEW k \in Importers, Step(k)' \in LockSteps
        PROVE  \/ imp'[k].seen \cap db'[Day(k)'][TableOf(Step(k)')] = {}
               \/ db'[Day(k)'][TableOf(Step(k)')] \subseteq imp'[k].seen
    <3>1. k # i BY <2>2 DEF Commits, Step, LockSteps
    <3>2. imp'[k] = imp[k] BY <1>2, <3>1
    <3> DEFINE t == TableOf(imp[k].step)
    <3>3. imp[k].step \in LockSteps /\ t \in Tables BY <2>2, <3>2, TableSteps DEF Step
    <3>4. CASE imp[k].day = d
      <4>1. imp[k].seen \cap db'[d][t] = {} BY <1>7, <1>11, <3>1, <3>3, <3>4
      <4> QED BY <3>2, <3>4, <4>1 DEF Step, Day
    <3>5. CASE imp[k].day # d
      <4>1. imp[k].day \in Days BY <3>3 DEF Shape, ImpValues, LockSteps
      <4>2. db'[imp[k].day] = db[imp[k].day] BY <1>5, <3>5, <4>1
      <4> QED BY <3>2, <3>3, <4>2 DEF ImportInv, AllOrNothing, Step, Day
    <3> QED BY <3>4, <3>5
  <2> QED BY <2>1, <2>2 DEF AllOrNothing
<1>15. OneDeletes' BY <1>2, <1>3 DEF ImportInv, OneDeletes, Day
<1>16. ProductsGoToo'
  <2>1. ASSUME NEW k \in Importers, imp'[k].gone["payments"] # {}
        PROVE  /\ Step(k)' = "lock products" => imp'[k].seen = db'[Day(k)']["products"]
               /\ Step(k)' \in {"delete daily", "lock daily", "insert"} =>
                    imp'[k].gone["products"] = db'[Day(k)']["products"]
    <3>1. "payments" \in Tables BY TableSteps
    <3>2. k # i /\ imp'[k] = imp[k] BY <1>2, <1>3, <2>1, <3>1
    <3>3. Active(k) BY <2>1, <3>1, <3>2 DEF ImportInv, AllOrNothing
    <3>4. imp[k].day \in Days BY <3>3 DEF Shape, ImpValues, Active, Step
    <3>5. imp[k].day # d BY <1>8, <2>1, <3>1, <3>2
    <3>6. db'[imp[k].day] = db[imp[k].day] BY <1>5, <3>4, <3>5
    <3> QED BY <2>1, <3>2, <3>6 DEF ImportInv, ProductsGoToo, Step, Day
  <2> QED BY <2>1 DEF ProductsGoToo
<1>17. TurnsAreTaken'
  <2>1. imp'[i].step \in {"fetch", "done"} BY DEF Commits
  <2>2. OneAtATime => \A k \in Importers : k # i => ~ Active(k)
    BY <1>9 DEF ImportInv, TurnsAreTaken
  <2>3. ASSUME OneAtATime, NEW k \in Importers, Step(k)' \notin {"idle", "fetch", "done"} PROVE FALSE
    BY <1>2, <2>1, <2>2, <2>3 DEF Active, Step
  <2>4. ASSUME OneAtATime, NEW k \in Importers, Active(k)' PROVE k = i
    BY <1>2, <2>2, <2>4 DEF Active, Step
  <2> QED BY <2>3, <2>4 DEF TurnsAreTaken, LockSteps
<1> QED BY <1>12, <1>13, <1>14, <1>15, <1>16, <1>17 DEF ImportInv

\* iiko and the operator change nothing that is stored.
LEMMA EnvironmentInv ==
    ASSUME ImportInv, Environment PROVE ImportInv'
<1>1. UNCHANGED <<db, imp, started>> BY DEF Environment
<1>2. \A d \in Days : (NotStored(d) \/ StoredOnce(d))'
  BY <1>1 DEF ImportInv, NotStored, StoredOnce, MadeBy
<1>3. OwnNumbers' BY <1>1 DEF ImportInv, OwnNumbers, Active, Step, Day
<1>4. AllOrNothing' BY <1>1 DEF ImportInv, AllOrNothing, Active, Step, Day
<1>5. OneDeletes' BY <1>1 DEF ImportInv, OneDeletes, Day
<1>6. ProductsGoToo' BY <1>1 DEF ImportInv, ProductsGoToo, Step, Day
<1>7. TurnsAreTaken' BY <1>1 DEF ImportInv, TurnsAreTaken, Active, Step, Day
<1> QED BY <1>2, <1>3, <1>4, <1>5, <1>6, <1>7 DEF ImportInv

\* At first nothing is stored and nobody imports.
LEMMA InitInv == Init => ImportInv /\ Shape
<1> SUFFICES ASSUME Init PROVE ImportInv /\ Shape OBVIOUS
<1>1. /\ started = 0 /\ categoryMap = {} /\ iiko \in [Days -> FirstBooks]
      /\ db = [d \in Days |-> NoRows] /\ imp = [i \in Importers |-> Idle]
  BY DEF Init
<1>2. \A i \in Importers : imp[i] = Idle BY <1>1
<1>3. \A d \in Days : db[d] = NoRows BY <1>1
<1>4. /\ Idle.step = "idle" /\ Idle.import = 0 /\ Idle.seen = {} /\ Idle.gone = NoRows
  BY DEF Idle
<1>5. \A t \in Tables : NoRows[t] = {} BY DEF NoRows
<1>6. Shape
  <2>1. iiko \in [Days -> Books] BY <1>1, SalesImportAssumption
  <2>2. DbShape BY <1>1, <1>3 DEF DbShape, NoRows
  <2>3. started \in Nat BY <1>1
  <2> QED BY <1>1, <1>2, <2>1, <2>2, <2>3, IdleShape DEF Shape
<1>7. \A d \in Days : NotStored(d) BY <1>3, <1>5 DEF NotStored
<1>8. \A i \in Importers : ~ Active(i) BY <1>2, <1>4 DEF Active, Step
<1>9. OwnNumbers BY <1>2, <1>3, <1>4, <1>5, <1>8 DEF OwnNumbers
<1>10. AllOrNothing
  <2>1. \A i \in Importers, t \in Tables : imp[i].gone[t] = {} BY <1>2, <1>4, <1>5
  <2>2. \A i \in Importers : Step(i) \notin LockSteps BY <1>2, <1>4 DEF Step, LockSteps
  <2> QED BY <2>1, <2>2 DEF AllOrNothing
<1>11. OneDeletes BY <1>2, <1>4, <1>5 DEF OneDeletes
<1>12. ProductsGoToo
  <2>1. "payments" \in Tables BY TableSteps
  <2>2. \A i \in Importers : imp[i].gone["payments"] = {} BY <1>2, <1>4, <1>5, <2>1
  <2> QED BY <2>2 DEF ProductsGoToo
<1>13. TurnsAreTaken
  <2>1. \A i \in Importers : Step(i) = "idle" BY <1>2, <1>4 DEF Step
  <2> QED BY <1>8, <2>1 DEF TurnsAreTaken, LockSteps
<1> QED BY <1>6, <1>7, <1>9, <1>10, <1>11, <1>12, <1>13 DEF ImportInv

\* Every step keeps the invariant.
LEMMA NextInv ==
    ASSUME DaysDoNotMix, Shape, ImportInv, [Next]_vars PROVE ImportInv'
<1>1. CASE Environment BY <1>1, EnvironmentInv
<1>2. ASSUME NEW i \in Importers, LetsGo(i) PROVE ImportInv' BY <1>2, LetsGoInv
<1>3. ASSUME NEW i \in Importers, Begins(i) PROVE ImportInv' BY <1>3, BeginsInv
<1>4. ASSUME NEW i \in Importers, Commits(i) PROVE ImportInv' BY <1>4, CommitsInv
<1>5. ASSUME NEW i \in Importers, NEW t \in Tables, Sees(i, t) PROVE ImportInv' BY <1>5, SeesInv
<1>6. ASSUME NEW i \in Importers, NEW t \in Tables, Ends(i, t) PROVE ImportInv' BY <1>6, EndsInv
<1> QED BY <1>1, <1>2, <1>3, <1>4, <1>5, <1>6, StepKinds

-----------------------------------------------------------------------------
(* What follows *)

\* Initially all that follows holds.
LEMMA InitKeys == Init => Shape /\ KeysInv
<1> SUFFICES ASSUME Init PROVE Shape /\ KeysInv OBVIOUS
<1>1. Shape BY InitInv
<1>2. (\A i \in Importers : imp[i] = Idle) /\ \A d \in Days : db[d] = NoRows BY DEF Init
<1>3. \A t \in Tables : Idle.gone[t] = {} /\ NoRows[t] = {} BY DEF Idle, NoRows
<1> QED BY <1>1, <1>2, <1>3 DEF KeysInv, KeysAreUnique

\* The shape of the state, the unique keys of the tables included, whatever imports
\* run next to each other.
LEMMA TypeFollows == ASSUME Shape, KeysInv PROVE TypeOK
<1>1. iiko \in [Days -> Books] /\ categoryMap \subseteq PaymentTypes BY DEF Shape
<1>2. \A d \in Days, t \in Tables : KeysAreUnique(db[d][t]) BY DEF KeysInv
<1>3. ASSUME NEW i \in Importers
      PROVE  /\ DOMAIN imp[i] = DOMAIN Idle
             /\ Step(i) # "idle" => Day(i) \in Days /\ imp[i].import \in 1 .. started
             /\ imp[i].status \in DOMAIN Rank
             /\ \A t \in Tables : imp[i].gone[t] # {} => imp[i].gone[t] \subseteq db[Day(i)][t]
  <2>1. ImpShape(imp[i]) /\ ImpValues(imp[i], started) /\ started \in Nat BY DEF Shape
  <2>2. DOMAIN imp[i] = DOMAIN Idle BY <2>1 DEF ImpShape, Idle
  <2>3. Step(i) # "idle" => Day(i) \in Days /\ imp[i].import \in 1 .. started
    <3>1. Step(i) # "idle" => /\ Day(i) \in Days /\ imp[i].import \in Nat
                             /\ imp[i].import <= started /\ imp[i].import >= 1
      BY <2>1 DEF ImpValues, Step, Day
    <3> QED BY <2>1, <3>1
  <2>4. imp[i].status \in DOMAIN Rank BY <2>1 DEF ImpValues
  <2>5. \A t \in Tables : imp[i].gone[t] # {} => imp[i].gone[t] \subseteq db[Day(i)][t]
    BY DEF KeysInv
  <2> QED BY <2>2, <2>3, <2>4, <2>5
<1> QED BY <1>1, <1>2, <1>3 DEF TypeOK

\* The shape of the state, and unique keys, without any condition.
THEOREM TypeCorrect == Spec => []TypeOK
<1>1. Shape /\ KeysInv /\ [Next]_vars => Shape' /\ KeysInv' BY NextShape, NextKeys
<1>2. Shape /\ KeysInv => TypeOK BY TypeFollows
<1> QED BY <1>1, <1>2, InitKeys, PTL DEF Spec

\* Where days do not mix, a stored day is what one import made of one reading, and
\* no transaction deletes part of a table.
THEOREM ImportInvariant ==
    ASSUME DaysDoNotMix
    PROVE  Spec => []ImportInv
<1>1. ImportInv /\ Shape /\ [Next]_vars => ImportInv' /\ Shape' BY NextInv, NextShape
<1> QED BY <1>1, InitInv, PTL DEF Spec

\* Where days do not mix, the three tables of a day are of one import: however many
\* imports run next to each other, if the payments of any two readings share a key;
\* and for any readings, days without sales included, if no import runs next to
\* another.
THEOREM DayIsAlwaysWhole ==
    ASSUME DaysDoNotMix
    PROVE  Spec => []DayIsWhole
<1>1. ImportInv => DayIsWhole
  <2> SUFFICES ASSUME ImportInv, NEW d \in Days, NEW t \in Tables, NEW u \in Tables,
                      NEW r \in db[d][t], NEW s \in db[d][u]
               PROVE  r.import = s.import
    BY DEF DayIsWhole
  <2>1. StoredOnce(d) BY DEF ImportInv, NotStored
  <2>2. PICK n \in 1 .. started, a \in Books, b \in Books, c \in Books, map \in SUBSET PaymentTypes :
          MadeBy(d, n, ReadingOf(a, b, c), map)
    BY <2>1 DEF StoredOnce
  <2> QED BY <2>2, StoredRowsAreItsOwn DEF MadeBy
<1> QED BY <1>1, ImportInvariant, PTL

\* The rows that count are counted once.
LEMMA NormalTwice == ASSUME NEW rows PROVE Normal(Normal(rows)) = Normal(rows)
BY DEF Normal

\* Where days do not mix, a day stored as proven or partial adds up, although its
\* reports were read one after the other while iiko changed.
THEOREM TrustedDaysAlwaysAddUp ==
    ASSUME DaysDoNotMix
    PROVE  Spec => []TrustedDaysAddUp
<1>1. ImportInv => TrustedDaysAddUp
  <2> SUFFICES ASSUME ImportInv, NEW d \in Days, NEW r \in db[d].daily,
                      r.what.status \in {"proven", "partial"}
               PROVE  /\ ~ Mismatch(Net({p.what.row : p \in db[d].payments}), r.what.net)
                      /\ ~ Mismatch(Net({p.what.row : p \in db[d].products}), r.what.net)
                      /\ ~ Mismatch(Gross({p.what.row : p \in db[d].products}), r.what.gross)
    BY DEF TrustedDaysAddUp
  <2>1. StoredOnce(d) BY TableSteps DEF ImportInv, NotStored
  <2>2. PICK n \in 1 .. started, a \in Books, b \in Books, c \in Books, map \in SUBSET PaymentTypes :
          MadeBy(d, n, ReadingOf(a, b, c), map)
    BY <2>1 DEF StoredOnce
  <2> DEFINE reading == ReadingOf(a, b, c)
  <2>3. /\ db[d].daily = StoredRows(n, reading, map, "daily")
        /\ db[d].payments = StoredRows(n, reading, map, "payments")
        /\ db[d].products = StoredRows(n, reading, map, "products")
    BY <2>2, TableSteps DEF MadeBy
  <2> HIDE DEF reading
  <2>4. r.what = [checksum |-> calculate_sales_checksum(reading), status |-> ResultStatus(reading, map),
                  net |-> Net(reading.daily), gross |-> Gross(reading.daily)]
    BY <2>3 DEF StoredRows, Row
  <2>5. {p.what.row : p \in db[d].payments} = Normal(reading.payments)
    <3> DEFINE P(x) == [key |-> x.key, import |-> n,
                        what |-> [row |-> x, category |-> categorize_payment(x, map)]]
    <3>1. db[d].payments = {P(x) : x \in Normal(reading.payments)} BY <2>3 DEF StoredRows, Row
    <3>2. \A x : P(x).what.row = x OBVIOUS
    <3> HIDE DEF P
    <3>3. \A x \in Normal(reading.payments) : P(x) \in db[d].payments BY <3>1
    <3>4. \A p \in db[d].payments : p.what.row \in Normal(reading.payments) BY <3>1, <3>2
    <3> QED BY <3>2, <3>3, <3>4
  <2>6. {p.what.row : p \in db[d].products} = Normal(reading.products)
    <3> DEFINE Q(x) == [key |-> x.key, import |-> n, what |-> [row |-> x]]
    <3>1. db[d].products = {Q(x) : x \in Normal(reading.products)} BY <2>3 DEF StoredRows, Row
    <3>2. \A x : Q(x).what.row = x OBVIOUS
    <3> HIDE DEF Q
    <3>3. \A x \in Normal(reading.products) : Q(x) \in db[d].products BY <3>1
    <3>4. \A p \in db[d].products : p.what.row \in Normal(reading.products) BY <3>1, <3>2
    <3> QED BY <3>2, <3>3, <3>4
  <2>7. ~ Untrusted(reading) BY <2>4 DEF ResultStatus
  <2>8. r.what.net = Net(reading.daily) /\ r.what.gross = Gross(reading.daily) BY <2>4
  <2> QED BY <2>5, <2>6, <2>7, <2>8, NormalTwice DEF Untrusted, Net, Gross
<1> QED BY <1>1, ImportInvariant, PTL

-----------------------------------------------------------------------------
(* What an import has added up *)

\* What a result is added up from.
SameAccount(i) ==
    /\ imp'[i].import = imp[i].import /\ imp'[i].day = imp[i].day
    /\ imp'[i].first = imp[i].first /\ imp'[i].last = imp[i].last
    /\ imp'[i].dry = imp[i].dry /\ imp'[i].status = imp[i].status
    /\ imp'[i].known = imp[i].known

\* A step within a day: nothing is recorded, nothing added up.
GoesOn(i) ==
    /\ OthersStay(i) /\ SameAccount(i) /\ UNCHANGED <<runs, started>>
    /\ Step(i) \notin {"idle", "done"} /\ imp'[i].step \notin {"idle", "done"}

\* The steps within a day leave the account of the import alone.
LEMMA WithinADay ==
    ASSUME Shape, NEW i \in Importers,
           ReadReport(i) \/ PersistBegins(i) \/ DeleteStarts(i) \/ DeleteEnds(i)
    PROVE  GoesOn(i)
<1>1. ImpShape(imp[i]) /\ imp = [k \in Importers |-> imp[k]] BY DEF Shape
<1>2. CASE ReadReport(i)
  <2>1. imp'[i] = [imp[i] EXCEPT !.answers = Append(@, iiko[Day(i)])] /\ OthersStay(i)
    BY <1>1, <1>2 DEF ReadReport, OthersStay
  <2>2. SameAccount(i) /\ imp'[i].step = imp[i].step
    BY <1>1, <2>1 DEF ImpShape, SameAccount
  <2> QED BY <1>2, <2>1, <2>2 DEF ReadReport, GoesOn, Step
<1>3. CASE PersistBegins(i)
  <2>1. PICK e, s : /\ s \in {"unchanged", "delete payments"}
                    /\ imp' = [imp EXCEPT ![i] = [imp[i] EXCEPT !.existing = e, !.step = s]]
    BY <1>3 DEF PersistBegins
  <2>2. imp'[i] = [imp[i] EXCEPT !.existing = e, !.step = s] /\ OthersStay(i)
    BY <1>1, <2>1 DEF OthersStay
  <2>3. SameAccount(i) /\ imp'[i].step = s BY <1>1, <2>2 DEF ImpShape, SameAccount
  <2> QED BY <1>3, <2>1, <2>2, <2>3 DEF PersistBegins, HasRead, GoesOn, Step
<1>4. CASE DeleteStarts(i)
  <2> DEFINE t == TableOf(Step(i))
             e == db[Day(i)][t]
             s == LockOf[t]
  <2>1. /\ s \in LockSteps
        /\ imp' = [imp EXCEPT ![i] = [imp[i] EXCEPT !.seen = e, !.step = s]]
    BY <1>4, TableSteps DEF DeleteStarts, TableOf
  <2> HIDE DEF e, s
  <2>2. imp'[i] = [imp[i] EXCEPT !.seen = e, !.step = s] /\ OthersStay(i)
    BY <1>1, <2>1 DEF OthersStay
  <2>3. SameAccount(i) /\ imp'[i].step = s BY <1>1, <2>2 DEF ImpShape, SameAccount
  <2> QED BY <1>4, <2>1, <2>2, <2>3 DEF DeleteStarts, LockSteps, GoesOn, Step
<1>5. CASE DeleteEnds(i)
  <2> DEFINE t == TableOf(Step(i))
             g == [imp[i].gone EXCEPT ![t] = imp[i].seen \cap db[Day(i)][t]]
             s == StepAfter(i)
  <2>1. imp' = [imp EXCEPT ![i] = [imp[i] EXCEPT !.gone = g, !.seen = {}, !.step = s]]
    BY <1>5 DEF DeleteEnds
  <2>4. s \in {"delete products", "delete daily", "insert"} BY DEF StepAfter
  <2> HIDE DEF g, s
  <2>2. imp'[i] = [imp[i] EXCEPT !.gone = g, !.seen = {}, !.step = s] /\ OthersStay(i)
    BY <1>1, <2>1 DEF OthersStay
  <2>3. SameAccount(i) /\ imp'[i].step = s BY <1>1, <2>2 DEF ImpShape, SameAccount
  <2> QED BY <1>5, <2>2, <2>3, <2>4 DEF DeleteEnds, LockSteps, GoesOn, Step
<1> QED BY <1>2, <1>3, <1>4, <1>5

\* The worse of two statuses is one of them, and no better than either.
LEMMA WorseOfBoth ==
    ASSUME NEW a \in DOMAIN Rank, NEW b \in DOMAIN Rank
    PROVE  /\ Worse(a, b) \in {a, b} /\ Worse(Worse(a, b), b) = Worse(a, b)
           /\ Worse("proven", b) = b /\ Worse(b, b) = b
           /\ \A c \in DOMAIN Rank : Worse(a, c) = a => Worse(Worse(a, b), c) = Worse(a, b)
BY DEF Worse, Rank

\* The processes that stay as they are keep what they have added up, as long as
\* what is recorded is of another import.
LEMMA OtherAccounts ==
    ASSUME ResultInv, NEW i \in Importers, OthersStay(i), NEW k \in Importers, k # i,
           Step(k) # "idle", runs \subseteq runs',
           \A r \in runs' : r \in runs \/ r.import # imp[k].import
    PROVE  imp'[k].first \in Days /\ imp'[k].first <= imp'[k].day /\ (imp'[k].dry \/ AddedUp(k)')
<1>1. imp'[k] = imp[k] BY DEF OthersStay
<1>2. RunsOf(k)' = RunsOf(k) BY <1>1 DEF RunsOf
<1>3. DaysBehind(k)' = DaysBehind(k) BY <1>1 DEF DaysBehind, Step, Day
<1>4. imp[k].first \in Days /\ imp[k].first <= imp[k].day /\ (imp[k].dry \/ AddedUp(k))
  BY DEF ResultInv, Day
<1> QED BY <1>1, <1>2, <1>3, <1>4 DEF AddedUp

\* A step within a day, or one that gives up, leaves all accounts as they are.
LEMMA QuietResults ==
    ASSUME Shape, ResultInv, NEW i \in Importers, OthersStay(i), UNCHANGED <<runs, started>>,
           imp'[i].step = "idle" \/ GoesOn(i)
    PROVE  ResultInv'
<1>1. \A r \in runs' : r.import \in 1 .. started' /\ r.status \in DOMAIN Rank BY DEF ResultInv
<1>2. ASSUME NEW k \in Importers, Step(k)' # "idle"
      PROVE  /\ Step(k) # "idle" /\ imp'[k].import = imp[k].import
             /\ imp'[k].first \in Days /\ imp'[k].first <= imp'[k].day
             /\ imp'[k].dry \/ AddedUp(k)'
  <2>1. CASE k # i
    <3>1. Step(k) # "idle" /\ imp'[k].import = imp[k].import BY <1>2, <2>1 DEF OthersStay, Step
    <3> QED BY <2>1, <3>1, OtherAccounts
  <2>2. CASE k = i
    <3>1. SameAccount(i) /\ Step(i) \notin {"idle", "done"} /\ imp'[i].step \notin {"idle", "done"}
      BY <1>2, <2>2 DEF GoesOn, Step
    <3>2. RunsOf(i)' = RunsOf(i) BY <3>1 DEF RunsOf, SameAccount
    <3>3. DaysBehind(i)' = DaysBehind(i) BY <3>1 DEF DaysBehind, SameAccount, Step, Day
    <3>4. imp[i].first \in Days /\ imp[i].first <= imp[i].day /\ (imp[i].dry \/ AddedUp(i))
      BY <3>1 DEF ResultInv, Day
    <3>5. AddedUp(i) => AddedUp(i)' BY <3>1, <3>2, <3>3 DEF AddedUp, SameAccount
    <3> QED BY <2>2, <3>1, <3>4, <3>5 DEF SameAccount
  <2> QED BY <2>1, <2>2
<1>3. ASSUME NEW k \in Importers, NEW l \in Importers, Step(k)' # "idle", Step(l)' # "idle",
             imp'[k].import = imp'[l].import
      PROVE  k = l
  BY <1>2, <1>3 DEF ResultInv
<1> QED BY <1>1, <1>2, <1>3 DEF ResultInv, Day

\* The end of a day: it is recorded with its status, and added up.
LEMMA EndOfDayResults ==
    ASSUME Shape, ResultInv, NEW i \in Importers, Active(i), NEW s \in DOMAIN Rank,
           EndDay(i, s), runs' = Recorded(i, s), started' = started
    PROVE  ResultInv'
<1> DEFINE run == [import |-> imp[i].import, day |-> Day(i), status |-> s]
           last == Day(i) = imp[i].last
<1>1. OthersStay(i) BY EndDayFields DEF OthersStay
<1>2. /\ imp'[i].import = imp[i].import /\ imp'[i].first = imp[i].first
      /\ imp'[i].last = imp[i].last /\ imp'[i].dry = imp[i].dry
      /\ imp'[i].status = Worse(imp[i].status, s)
      /\ imp'[i].step = IF last THEN "done" ELSE "fetch"
      /\ imp'[i].day = IF last THEN imp[i].day ELSE imp[i].day + 1
  <2>1. imp'[i] = [step |-> IF last THEN "done" ELSE "fetch", import |-> imp[i].import,
                   day |-> IF last THEN imp[i].day ELSE imp[i].day + 1, first |-> imp[i].first,
                   last |-> imp[i].last, dry |-> imp[i].dry, map |-> imp[i].map,
                   known |-> imp[i].known, answers |-> << >>, existing |-> {}, seen |-> {},
                   gone |-> NoRows, status |-> Worse(imp[i].status, s)]
    BY EndDayFields
  <2> QED BY <2>1
<1>3. /\ Step(i) # "idle" /\ Step(i) # "done" /\ imp[i].status \in DOMAIN Rank
      /\ imp[i].import \in 1 .. started /\ imp[i].day \in Nat /\ imp[i].last \in Nat
      /\ started \in Nat
  <2>1. ImpValues(imp[i], started) /\ started \in Nat BY DEF Shape
  <2>2. imp[i].import \in Nat /\ imp[i].import <= started /\ imp[i].import >= 1
    BY <2>1 DEF ImpValues, Active, Step
  <2>3. imp[i].import \in 1 .. started BY <2>1, <2>2
  <2> QED BY <2>1, <2>3 DEF ImpValues, Active, Step
<1>4. imp[i].first \in Days /\ imp[i].first \in Nat /\ imp[i].first <= imp[i].day
      /\ (imp[i].dry \/ AddedUp(i))
  BY <1>3, SalesImportAssumption DEF ResultInv, Day
<1>5. runs \subseteq runs' /\ runs' \subseteq runs \cup {run} BY DEF Recorded
<1>6. \A r \in runs' : r.import \in 1 .. started' /\ r.status \in DOMAIN Rank
  <2>1. run.import \in 1 .. started /\ run.status \in DOMAIN Rank BY <1>3
  <2> HIDE DEF run
  <2> QED BY <1>5, <2>1 DEF ResultInv
<1>7. ASSUME NEW k \in Importers, NEW l \in Importers, Step(k)' # "idle", Step(l)' # "idle",
             imp'[k].import = imp'[l].import
      PROVE  k = l
  <2>1. ASSUME NEW m \in Importers, Step(m)' # "idle"
        PROVE  Step(m) # "idle" /\ imp'[m].import = imp[m].import
    BY <1>1, <1>2, <1>3, <2>1 DEF OthersStay, Step
  <2> QED BY <1>7, <2>1 DEF ResultInv
<1>8. ASSUME NEW k \in Importers, Step(k)' # "idle", k # i
      PROVE  imp'[k].first \in Days /\ imp'[k].first <= imp'[k].day /\ (imp'[k].dry \/ AddedUp(k)')
  <2>1. Step(k) # "idle" BY <1>1, <1>8 DEF OthersStay, Step
  <2>2. imp[k].import # imp[i].import BY <1>3, <1>8, <2>1 DEF ResultInv
  <2>3. \A r \in runs' : r \in runs \/ r.import # imp[k].import BY <1>5, <2>2
  <2> QED BY <1>1, <1>5, <1>8, <2>1, <2>3, OtherAccounts
<1>9. imp'[i].first \in Days /\ imp'[i].first <= imp'[i].day BY <1>2, <1>3, <1>4
<1>10. ASSUME ~ imp[i].dry PROVE AddedUp(i)'
  <2>1. AddedUp(i) /\ runs' = runs \cup {run} BY <1>4, <1>10 DEF Recorded
  <2>2. RunsOf(i)' = RunsOf(i) \cup {run} BY <1>2, <2>1 DEF RunsOf
  <2>3. DaysBehind(i)' = imp[i].first .. imp[i].day
    BY <1>2, <1>3, <1>4 DEF DaysBehind, Step, Day
  <2>4. DaysBehind(i) = imp[i].first .. imp[i].day - 1 BY <1>3 DEF DaysBehind, Day
  <2>5. imp[i].first .. imp[i].day = (imp[i].first .. imp[i].day - 1) \cup {imp[i].day}
    BY <1>3, <1>4
  <2>6. run.day = imp[i].day /\ run.status = s BY DEF Day
  <2> HIDE DEF run
  <2>7. {r.day : r \in RunsOf(i)'} = {r.day : r \in RunsOf(i)} \cup {imp[i].day} BY <2>2, <2>6
  <2>8. {r.day : r \in RunsOf(i)'} = DaysBehind(i)'
    BY <2>1, <2>3, <2>4, <2>5, <2>7 DEF AddedUp
  <2>9. RunsOf(i)' # {} /\ {r.status : r \in RunsOf(i)'} = {r.status : r \in RunsOf(i)} \cup {s}
    BY <2>2, <2>6
  <2>10. imp'[i].status \in {r.status : r \in RunsOf(i)'}
    <3>1. CASE RunsOf(i) = {}
      <4>1. imp[i].status = "proven" BY <2>1, <3>1 DEF AddedUp
      <4> QED BY <1>2, <2>9, <4>1, WorseOfBoth
    <3>2. CASE RunsOf(i) # {}
      <4>1. imp[i].status \in {r.status : r \in RunsOf(i)} BY <2>1, <3>2 DEF AddedUp
      <4> QED BY <1>2, <1>3, <2>9, <4>1, WorseOfBoth
    <3> QED BY <3>1, <3>2
  <2>11. ASSUME NEW r \in RunsOf(i)' PROVE Worse(imp'[i].status, r.status) = imp'[i].status
    <3>1. CASE r = run BY <1>2, <1>3, <2>6, <3>1, WorseOfBoth
    <3>2. CASE r # run
      <4>1. r \in RunsOf(i) BY <2>2, <2>11, <3>2
      <4>2. Worse(imp[i].status, r.status) = imp[i].status BY <2>1, <4>1 DEF AddedUp
      <4>3. r.status \in DOMAIN Rank BY <4>1 DEF RunsOf, ResultInv
      <4> QED BY <1>2, <1>3, <4>2, <4>3, WorseOfBoth
    <3> QED BY <3>1, <3>2
  <2> QED BY <2>8, <2>9, <2>10, <2>11 DEF AddedUp
<1>11. ASSUME NEW k \in Importers, Step(k)' # "idle"
       PROVE  imp'[k].first \in Days /\ imp'[k].first <= imp'[k].day /\ (imp'[k].dry \/ AddedUp(k)')
  BY <1>2, <1>8, <1>9, <1>10, <1>11
<1> QED BY <1>6, <1>7, <1>11 DEF ResultInv, Day

\* A range that begins has nothing behind it, and a number of its own.
LEMMA StartResults ==
    ASSUME Shape, ResultInv, NEW i \in Importers, StartRange(i) PROVE ResultInv'
<1>1. imp = [k \in Importers |-> imp[k]] /\ started \in Nat BY DEF Shape
<1> DEFINE known(first) == IF i \in Automation THEN get_daily(first) ELSE {}
<1>2. PICK first \in Days, last \in Days, dry \in BOOLEAN :
        imp' = [imp EXCEPT ![i] =
             [Idle EXCEPT !.step = "fetch", !.import = started + 1, !.day = first,
                          !.first = first, !.last = last, !.dry = dry, !.map = categoryMap,
                          !.known = known(first)]]
  BY Zenon DEF StartRange
<1> HIDE DEF known
<1>3. imp'[i] = [step |-> "fetch", import |-> started + 1, day |-> first, first |-> first,
                 last |-> last, dry |-> dry, map |-> categoryMap, known |-> known(first),
                 answers |-> << >>, existing |-> {}, seen |-> {}, gone |-> NoRows,
                 status |-> "proven"]
  BY <1>1, <1>2 DEF Idle
<1>4. OthersStay(i) BY <1>1, <1>2 DEF OthersStay
<1>5. started' = started + 1 /\ runs' = runs BY DEF StartRange
<1>6. /\ imp'[i].step = "fetch" /\ imp'[i].import = started + 1 /\ imp'[i].day = first
      /\ imp'[i].first = first /\ imp'[i].status = "proven"
  BY <1>3
<1>7. ASSUME NEW r \in runs
      PROVE  r.import \in 1 .. started' /\ r.import # started + 1 /\ r.status \in DOMAIN Rank
  BY <1>1, <1>5 DEF ResultInv
<1>8. ASSUME NEW k \in Importers, k # i PROVE imp'[k].import # started + 1
  <2>1. ImpValues(imp[k], started) BY DEF Shape
  <2>2. imp[k].import \in Nat /\ imp[k].import <= started BY <2>1 DEF ImpValues
  <2> QED BY <1>1, <1>4, <1>8, <2>2 DEF OthersStay
<1>9. RunsOf(i)' = {} BY <1>5, <1>6, <1>7 DEF RunsOf
<1>10. first \in Nat BY SalesImportAssumption
<1>11. AddedUp(i)'
  <2>1. DaysBehind(i)' = {} BY <1>6, <1>10 DEF DaysBehind, Step, Day
  <2> QED BY <1>6, <1>9, <2>1 DEF AddedUp
<1>12. ASSUME NEW k \in Importers, Step(k)' # "idle"
       PROVE  imp'[k].first \in Days /\ imp'[k].first <= imp'[k].day /\ (imp'[k].dry \/ AddedUp(k)')
  <2>1. CASE k = i BY <1>6, <1>10, <1>11, <2>1
  <2>2. CASE k # i
    <3>1. Step(k) # "idle" BY <1>4, <1>12, <2>2 DEF OthersStay, Step
    <3> QED BY <1>4, <1>5, <2>2, <3>1, OtherAccounts
  <2> QED BY <2>1, <2>2
<1>13. ASSUME NEW k \in Importers, NEW l \in Importers, Step(k)' # "idle", Step(l)' # "idle",
              imp'[k].import = imp'[l].import
       PROVE  k = l
  <2>1. CASE k # i /\ l # i BY <1>4, <1>13, <2>1 DEF ResultInv, OthersStay, Step
  <2>2. CASE k = i \/ l = i BY <1>6, <1>8, <1>13, <2>2
  <2> QED BY <2>1, <2>2
<1> QED BY <1>5, <1>7, <1>12, <1>13 DEF ResultInv, Day

\* Every step keeps the accounts.
LEMMA NextResults == Shape /\ ResultInv /\ [Next]_vars => ResultInv'
<1> SUFFICES ASSUME Shape, ResultInv, [Next]_vars PROVE ResultInv' OBVIOUS
<1>1. imp = [k \in Importers |-> imp[k]] BY DEF Shape
<1>2. CASE IikoChanges \/ MapChanges \/ UNCHANGED vars
  <2>1. UNCHANGED <<imp, runs, started>> BY <1>2 DEF IikoChanges, MapChanges, vars
  <2> QED BY <2>1 DEF ResultInv, AddedUp, RunsOf, DaysBehind, Step, Day
<1>3. ASSUME NEW i \in Importers, imp' = [imp EXCEPT ![i] = Idle], UNCHANGED <<runs, started>>
      PROVE  ResultInv'
  <2>1. OthersStay(i) /\ imp'[i].step = "idle" BY <1>1, <1>3 DEF OthersStay, Idle
  <2> QED BY <1>3, <2>1, QuietResults
<1>4. ASSUME NEW i \in Importers, StartRange(i) PROVE ResultInv' BY <1>4, StartResults
<1>5. ASSUME NEW i \in Importers, FetchFails(i) PROVE ResultInv'
  <2>1. PICK s \in {"blocked", "unknown"} : runs' = Recorded(i, s) /\ EndDay(i, s)
    BY <1>5 DEF FetchFails
  <2>2. s \in DOMAIN Rank BY DEF Rank
  <2>3. Active(i) /\ started' = started BY <1>5 DEF FetchFails, Active
  <2> QED BY <2>1, <2>2, <2>3, EndOfDayResults
<1>6. ASSUME NEW i \in Importers, ImportRaises(i) PROVE ResultInv'
  BY <1>3, <1>6 DEF ImportRaises
<1>7. ASSUME NEW i \in Importers, Proceed(i) PROVE ResultInv'
  <2>1. CASE ReadReport(i) \/ PersistBegins(i) \/ DeleteStarts(i) \/ DeleteEnds(i)
    <3>1. GoesOn(i) BY <2>1, WithinADay
    <3> QED BY <3>1, QuietResults DEF GoesOn
  <2>2. CASE NormalizationRaises(i) \/ FlushRaises(i) \/ Deadlocked(i) \/ Finish(i)
    BY <1>3, <2>2 DEF NormalizationRaises, FlushRaises, Deadlocked, Finish
  <2>3. CASE NormalizationFails(i)
    <3>1. EndDay(i, "unknown") /\ runs' = Recorded(i, "unknown") /\ Active(i) /\ started' = started
      BY <2>3 DEF NormalizationFails, HasRead, Active
    <3>2. "unknown" \in DOMAIN Rank BY DEF Rank
    <3> QED BY <3>1, <3>2, EndOfDayResults
  <2>4. CASE DryRun(i)
    <3>1. EndDay(i, Status(i)) /\ runs' = Recorded(i, Status(i)) /\ Active(i) /\ started' = started
      BY <2>4 DEF DryRun, HasRead, Active, Recorded
    <3> QED BY <3>1, StatusIsStatus, EndOfDayResults
  <2>5. CASE RecordUnchanged(i) \/ FlushAndCommit(i)
    <3>1. EndDay(i, Status(i)) /\ runs' = Recorded(i, Status(i)) /\ Active(i) /\ started' = started
      BY <2>5 DEF RecordUnchanged, FlushAndCommit, Active
    <3> QED BY <3>1, StatusIsStatus, EndOfDayResults
  <2> QED BY <1>7, <2>1, <2>2, <2>3, <2>4, <2>5 DEF Proceed
<1> QED BY <1>2, <1>4, <1>5, <1>6, <1>7 DEF Next

\* However many imports run next to each other, fail, or find other rows to be
\* newer: a result that is printed tells of every day of its range, and is as bad
\* as the worst of them.
THEOREM ResultsTellOfEveryDay == Spec => []ResultTellsOfEveryDay
<1>1. Init => ResultInv
  <2> SUFFICES ASSUME Init PROVE ResultInv OBVIOUS
  <2>1. runs = {} /\ \A i \in Importers : Step(i) = "idle" BY DEF Init, Idle, Step
  <2> QED BY <2>1 DEF ResultInv
<1>2. ResultInv /\ Shape => ResultTellsOfEveryDay
  <2> SUFFICES ASSUME ResultInv, Shape, NEW i \in Importers, Step(i) = "done", ~ imp[i].dry
               PROVE  /\ {r.day : r \in RunsOf(i)} = imp[i].first .. imp[i].last
                      /\ imp[i].status \in {r.status : r \in RunsOf(i)}
                      /\ \A r \in RunsOf(i) : Worse(imp[i].status, r.status) = imp[i].status
    BY DEF ResultTellsOfEveryDay
  <2>1. AddedUp(i) /\ imp[i].first <= imp[i].day /\ imp[i].first \in Days
    BY DEF ResultInv, Day
  <2>2. {r.day : r \in RunsOf(i)} = imp[i].first .. imp[i].last BY <2>1 DEF AddedUp, DaysBehind
  <2>3. imp[i].first \in imp[i].first .. imp[i].last
    <3>1. imp[i].day <= imp[i].last /\ imp[i].day \in Nat /\ imp[i].last \in Nat
      BY DEF Shape, ImpValues, Step
    <3>2. imp[i].first \in Nat BY <2>1, SalesImportAssumption
    <3> QED BY <2>1, <3>1, <3>2
  <2>4. RunsOf(i) # {} BY <2>2, <2>3
  <2> QED BY <2>1, <2>2, <2>4 DEF AddedUp
<1>3. Shape /\ [Next]_vars => Shape' BY NextShape
<1> QED BY <1>1, <1>2, <1>3, InitInv, NextResults, PTL DEF Spec

-----------------------------------------------------------------------------
(* What the imports implement together *)

\* Only a commit changes what is stored.
LEMMA OnlyCommitsStore ==
    ASSUME [Next]_vars PROVE db' = db \/ \E i \in Importers : FlushAndCommit(i)
<1>1. ASSUME NEW i \in Importers, Proceed(i), ~ FlushAndCommit(i) PROVE db' = db
  BY <1>1 DEF Proceed, ReadReport, NormalizationFails, NormalizationRaises, DryRun, PersistBegins,
     RecordUnchanged, DeleteStarts, DeleteEnds, FlushRaises, Deadlocked, Finish
<1> QED BY <1>1 DEF Next, vars, IikoChanges, MapChanges, StartRange, FetchFails, ImportRaises

\* What a commit leaves of its day, and that it leaves the other days.
LEMMA CommitStores ==
    ASSUME DaysDoNotMix, Shape, ImportInv, NEW i \in Importers, FlushAndCommit(i)
    PROVE  /\ Day(i) \in Days
           /\ db' = [db EXCEPT ![Day(i)] =
                [t \in Tables |-> StoredRows(imp[i].import, Reading(i), imp[i].map, t)]]
<1>1. Commits(i) BY FlushAndCommitCommits
<1>2. Day(i) \in Days BY <1>1 DEF Commits, Shape, ImpValues, Day
<1>3. ASSUME NEW t \in Tables
      PROVE  (db[Day(i)][t] \ imp[i].gone[t]) \cup NewRows(i, t)
              = StoredRows(imp[i].import, Reading(i), imp[i].map, t)
  <2>1. db[Day(i)][t] \subseteq imp[i].gone[t] BY <1>1, CommitReplaces
  <2> QED BY <2>1 DEF NewRows
<1>4. [t \in Tables |-> (db[Day(i)][t] \ imp[i].gone[t]) \cup NewRows(i, t)]
        = [t \in Tables |-> StoredRows(imp[i].import, Reading(i), imp[i].map, t)]
  BY <1>3
<1> QED BY <1>1, <1>2, <1>4 DEF Commits

\* A day that is stored stays so.
LEMMA StoredForGood ==
    ASSUME DaysDoNotMix, Shape, ImportInv, [Next]_vars, NEW d \in Days, db[d].daily # {}
    PROVE  db'[d].daily # {}
<1>1. CASE db' = db BY <1>1
<1>2. ASSUME NEW i \in Importers, FlushAndCommit(i) PROVE db'[d].daily # {}
  <2> DEFINE new == [t \in Tables |-> StoredRows(imp[i].import, Reading(i), imp[i].map, t)]
  <2>1. db' = [db EXCEPT ![Day(i)] = new] BY <1>2, CommitStores
  <2>2. "daily" \in Tables BY TableSteps
  <2>3. StoredRows(imp[i].import, Reading(i), imp[i].map, "daily") # {} BY DEF StoredRows
  <2>4. new.daily # {} BY <2>2, <2>3
  <2> HIDE DEF new
  <2>5. DOMAIN db = Days BY DEF Shape, DbShape
  <2> QED BY <2>1, <2>4, <2>5
<1> QED BY <1>1, <1>2, OnlyCommitsStore

\* What one importer must be sure of.
Sure(i) ==
    /\ Step(i) \notin {"idle", "fetch", "done"} => ~ imp[i].dry /\ Faults(Reading(i)) = {}
    /\ Active(i) /\ imp[i].known # {} =>
        imp[i].first = imp[i].last /\ db[imp[i].first].daily # {}
    /\ Step(i) = "unchanged" => db[Day(i)].daily # {}

\* A process that found its row beforehand imports one day.
LEMMA KnownIsOfTheDay ==
    ASSUME Shape, StoreInv, NEW i \in Importers, Active(i), imp[i].known # {}
    PROVE  Day(i) = imp[i].first /\ Day(i) = imp[i].last /\ db[Day(i)].daily # {}
<1>1. imp[i].first = imp[i].last /\ db[imp[i].first].daily # {} BY DEF StoreInv, WritersAreSure
<1>2. imp[i].first <= imp[i].day /\ imp[i].first \in Days
  BY DEF StoreInv, ResultInv, Active, Day
<1>3. imp[i].day <= imp[i].last /\ imp[i].day \in Nat /\ imp[i].last \in Nat
  BY DEF Shape, ImpValues, Active, Step
<1>4. imp[i].first \in Nat BY <1>2, SalesImportAssumption
<1> QED BY <1>1, <1>2, <1>3, <1>4 DEF Day

\* Whoever does not move stays sure of what it knows.
LEMMA OthersStaySure ==
    ASSUME DaysDoNotMix, Shape, StoreInv, [Next]_vars, NEW k \in Importers, imp'[k] = imp[k]
    PROVE  Sure(k)'
<1>1. Sure(k) BY DEF StoreInv, WritersAreSure, Sure
<1>2. Step(k)' = Step(k) /\ Day(k)' = Day(k) /\ Reading(k)' = Reading(k) /\ Active(k)' = Active(k)
  BY DEF Step, Day, Reading, Active
<1>3. Step(k) # "idle" => imp[k].first \in Days /\ Day(k) \in Days
  BY DEF StoreInv, ResultInv, Shape, ImpValues, Step, Day
<1>6. ImportInv BY DEF StoreInv
<1>4. Active(k) /\ imp[k].known # {} => db'[imp[k].first].daily # {}
  BY <1>1, <1>3, <1>6, StoredForGood DEF Sure, Active, Step
<1>5. Step(k) = "unchanged" => db'[Day(k)].daily # {}
  BY <1>1, <1>3, <1>6, StoredForGood DEF Sure
<1> QED BY <1>1, <1>2, <1>4, <1>5 DEF Sure

\* The end of a day leaves nothing to be sure of.
LEMMA EndDaySure ==
    ASSUME Shape, StoreInv, NEW i \in Importers, Active(i), NEW s, EndDay(i, s) PROVE Sure(i)'
<1>1. /\ imp'[i].step = IF Day(i) = imp[i].last THEN "done" ELSE "fetch"
      /\ imp'[i].known = imp[i].known
  <2>1. imp'[i] = [step |-> IF Day(i) = imp[i].last THEN "done" ELSE "fetch", import |-> imp[i].import,
                   day |-> IF Day(i) = imp[i].last THEN imp[i].day ELSE imp[i].day + 1,
                   first |-> imp[i].first, last |-> imp[i].last, dry |-> imp[i].dry,
                   map |-> imp[i].map, known |-> imp[i].known, answers |-> << >>, existing |-> {},
                   seen |-> {}, gone |-> NoRows, status |-> Worse(imp[i].status, s)]
    BY EndDayFields
  <2> QED BY <2>1
<1>2. Active(i)' => imp[i].known = {} BY <1>1, KnownIsOfTheDay DEF Active, Step
<1> QED BY <1>1, <1>2 DEF Sure, Step

\* An importer at rest need not be sure of anything.
LEMMA IdleSure ==
    ASSUME Shape, NEW i \in Importers, imp' = [imp EXCEPT ![i] = Idle] PROVE Sure(i)'
<1>1. imp'[i].step = "idle" BY DEF Shape, Idle
<1> QED BY <1>1 DEF Sure, Step, Active

\* A range that begins has found the row of its only day, if it knows one.
LEMMA StartSure ==
    ASSUME Shape, NEW i \in Importers, StartRange(i) PROVE Sure(i)' /\ started' <= MaxImports
<1>1. imp = [k \in Importers |-> imp[k]] /\ started \in Nat BY DEF Shape
<1> DEFINE known(first) == IF i \in Automation THEN get_daily(first) ELSE {}
<1>2. PICK first \in Days, last \in Days, dry \in BOOLEAN :
        /\ i \in TakeTurns => first = last
        /\ imp' = [imp EXCEPT ![i] =
             [Idle EXCEPT !.step = "fetch", !.import = started + 1, !.day = first,
                          !.first = first, !.last = last, !.dry = dry, !.map = categoryMap,
                          !.known = known(first)]]
  BY Zenon DEF StartRange
<1>3. known(first) # {} => first = last /\ db[first].daily # {}
  BY <1>2, SalesImportAssumption DEF get_daily
<1> HIDE DEF known
<1>4. imp'[i] = [step |-> "fetch", import |-> started + 1, day |-> first, first |-> first,
                 last |-> last, dry |-> dry, map |-> categoryMap, known |-> known(first),
                 answers |-> << >>, existing |-> {}, seen |-> {}, gone |-> NoRows,
                 status |-> "proven"]
  BY <1>1, <1>2 DEF Idle
<1>5. /\ imp'[i].step = "fetch" /\ imp'[i].first = first /\ imp'[i].last = last
      /\ imp'[i].known = known(first)
  BY <1>4
<1>6. db' = db /\ started' = started + 1 /\ started < MaxImports BY DEF StartRange
<1>7. started' <= MaxImports BY <1>1, <1>6, SalesImportAssumption
<1> QED BY <1>3, <1>5, <1>6, <1>7 DEF Sure, Step, Active

\* The transaction begins with a reading that is well, and knows of a row only if
\* there is one.
LEMMA PersistSure ==
    ASSUME Shape, StoreInv, NEW i \in Importers, PersistBegins(i) PROVE Sure(i)'
<1>1. ImpShape(imp[i]) /\ imp = [k \in Importers |-> imp[k]] BY DEF Shape
<1> DEFINE e == IF imp[i].known # {} THEN imp[i].known ELSE get_daily(Day(i))
           s == IF e = {Checksum(i)} THEN "unchanged" ELSE "delete payments"
<1>2. imp' = [imp EXCEPT ![i] = [imp[i] EXCEPT !.existing = e, !.step = s]]
  BY DEF PersistBegins
<1>3. s = "unchanged" => e # {} OBVIOUS
<1>4. Active(i) /\ Faults(Reading(i)) = {} /\ ~ imp[i].dry /\ db' = db
  BY DEF PersistBegins, HasRead, Active
<1>5. e # {} => db[Day(i)].daily # {}
  <2>1. CASE imp[i].known # {} BY <1>4, <2>1, KnownIsOfTheDay
  <2>2. CASE imp[i].known = {} BY <2>2 DEF get_daily
  <2> QED BY <2>1, <2>2
<1> HIDE DEF e, s
<1>6. imp'[i] = [imp[i] EXCEPT !.existing = e, !.step = s] BY <1>1, <1>2
<1>7. /\ imp'[i].answers = imp[i].answers /\ imp'[i].day = imp[i].day /\ imp'[i].dry = imp[i].dry
      /\ imp'[i].known = imp[i].known /\ imp'[i].first = imp[i].first /\ imp'[i].last = imp[i].last
      /\ imp'[i].step = s
  BY <1>1, <1>6 DEF ImpShape
<1>8. Reading(i)' = Reading(i) /\ Day(i)' = Day(i) BY <1>7 DEF Reading, Day
<1>9. imp[i].known # {} => imp[i].first = imp[i].last /\ db[imp[i].first].daily # {}
  BY <1>4 DEF StoreInv, WritersAreSure
<1> QED BY <1>3, <1>4, <1>5, <1>7, <1>8, <1>9 DEF Sure, Step

\* A statement changes neither the reading nor what the process knows.
LEMMA StatementSure ==
    ASSUME Shape, StoreInv, NEW i \in Importers, ReadReport(i) \/ DeleteStarts(i) \/ DeleteEnds(i)
    PROVE  Sure(i)'
<1>1. SameAccount(i) /\ Active(i) BY WithinADay DEF GoesOn, Active
<1>2. Sure(i) /\ db' = db
  BY DEF StoreInv, WritersAreSure, Sure, ReadReport, DeleteStarts, DeleteEnds
<1>3. Active(i) /\ imp[i].known # {} => imp[i].first = imp[i].last /\ db[imp[i].first].daily # {}
  BY <1>2 DEF Sure
<1>4. CASE ReadReport(i)
  <2>1. ImpShape(imp[i]) /\ imp = [k \in Importers |-> imp[k]] BY DEF Shape
  <2>2. imp'[i] = [imp[i] EXCEPT !.answers = Append(@, iiko[Day(i)])]
    BY <1>4, <2>1 DEF ReadReport
  <2>3. imp'[i].step = "fetch" BY <1>4, <2>1, <2>2 DEF ReadReport, ImpShape, Step
  <2> QED BY <1>1, <1>2, <1>3, <2>3 DEF Sure, SameAccount, Step
<1>5. ASSUME NEW t \in Tables, Sees(i, t) \/ Ends(i, t),
             Step(i) \notin {"idle", "fetch", "done"}, imp'[i].step # "unchanged"
      PROVE  Sure(i)'
  <2>1. Reading(i)' = Reading(i) BY <1>5 DEF Sees, Ends, SameImport, Reading
  <2>2. ~ imp[i].dry /\ Faults(Reading(i)) = {} BY <1>2, <1>5 DEF Sure
  <2> QED BY <1>1, <1>2, <1>3, <1>5, <2>1, <2>2 DEF Sure, SameAccount, Step
<1>6. CASE DeleteStarts(i)
  <2>1. PICK t \in Tables : Sees(i, t) BY <1>6, DeleteStartsSees
  <2>2. imp'[i].step # "unchanged" BY <2>1, TableSteps DEF Sees, LockSteps
  <2>3. Step(i) \notin {"idle", "fetch", "done"} BY <1>6 DEF DeleteStarts
  <2> QED BY <1>5, <2>1, <2>2, <2>3
<1>7. CASE DeleteEnds(i)
  <2>1. PICK t \in Tables : Ends(i, t) BY <1>7, DeleteEndsEnds
  <2>2. imp'[i].step # "unchanged" BY <2>1 DEF Ends
  <2>3. Step(i) \notin {"idle", "fetch", "done"} BY <1>7 DEF DeleteEnds, LockSteps
  <2> QED BY <1>5, <2>1, <2>2, <2>3
<1> QED BY <1>4, <1>6, <1>7

\* Whoever moves stays sure, too.
LEMMA MoverSure ==
    ASSUME DaysDoNotMix, Shape, StoreInv, NEW i \in Importers, StartRange(i) \/ Proceed(i) \/ FetchFails(i) \/ ImportRaises(i)
    PROVE  Sure(i)' /\ OthersStay(i) /\ started' <= MaxImports
<1>1. imp = [k \in Importers |-> imp[k]] /\ started <= MaxImports BY DEF Shape, StoreInv
<1>2. ASSUME imp' = [imp EXCEPT ![i] = Idle] PROVE Sure(i)' /\ OthersStay(i)
  BY <1>1, <1>2, IdleSure DEF OthersStay
<1>3. ASSUME NEW s, EndDay(i, s), Active(i) PROVE Sure(i)' /\ OthersStay(i)
  BY <1>3, EndDaySure, EndDayFields DEF OthersStay
<1>4. CASE StartRange(i)
  <2>1. OthersStay(i) BY <1>4, StartRangeBegins DEF Begins, Alone, OthersStay
  <2> QED BY <1>4, <2>1, StartSure
<1>5. CASE FetchFails(i)
  <2>1. (\E s : EndDay(i, s)) /\ Active(i) /\ started' = started BY <1>5 DEF FetchFails, Active
  <2> QED BY <1>1, <1>3, <2>1
<1>6. CASE ImportRaises(i) BY <1>1, <1>2, <1>6 DEF ImportRaises
<1>7. CASE ReadReport(i) \/ PersistBegins(i) \/ DeleteStarts(i) \/ DeleteEnds(i)
  <2>1. OthersStay(i) /\ started' = started BY <1>7, WithinADay DEF GoesOn
  <2> QED BY <1>1, <1>7, <2>1, PersistSure, StatementSure
<1>8. CASE NormalizationRaises(i) \/ FlushRaises(i) \/ Deadlocked(i) \/ Finish(i)
  BY <1>1, <1>2, <1>8 DEF NormalizationRaises, FlushRaises, Deadlocked, Finish
<1>9. CASE NormalizationFails(i) \/ DryRun(i) \/ RecordUnchanged(i) \/ FlushAndCommit(i)
  <2>1. (\E s : EndDay(i, s)) /\ Active(i) /\ started' = started
    BY <1>9 DEF NormalizationFails, DryRun, RecordUnchanged, FlushAndCommit, HasRead, Active
  <2> QED BY <1>1, <1>3, <2>1
<1> QED BY <1>4, <1>5, <1>6, <1>7, <1>8, <1>9 DEF Proceed

\* Every step keeps what the importers are sure of.
LEMMA SureStep ==
    ASSUME DaysDoNotMix, Shape, KeysInv, StoreInv, [Next]_vars PROVE StoreInv' /\ Shape' /\ KeysInv'
<1>1. ImportInv' /\ Shape' /\ KeysInv' BY NextInv, NextShape, NextKeys DEF StoreInv
<1>5. TypeOK'
  <2>1. Shape' /\ KeysInv' => TypeOK' BY TypeFollows, PTL
  <2> QED BY <1>1, <2>1
<1>2. ResultInv' BY NextResults DEF StoreInv
<1>3. started' <= MaxImports /\ \A k \in Importers : Sure(k)'
  <2>1. CASE IikoChanges \/ MapChanges \/ UNCHANGED vars
    <3>1. UNCHANGED <<imp, started>> BY <2>1 DEF IikoChanges, MapChanges, vars
    <3> QED BY <3>1, OthersStaySure DEF StoreInv
  <2>2. ASSUME NEW i \in Importers, StartRange(i) \/ Proceed(i) \/ FetchFails(i) \/ ImportRaises(i)
        PROVE  started' <= MaxImports /\ \A k \in Importers : Sure(k)'
    <3>1. Sure(i)' /\ OthersStay(i) /\ started' <= MaxImports BY <2>2, MoverSure
    <3> QED BY <3>1, OthersStaySure DEF OthersStay
  <2> QED BY <2>1, <2>2 DEF Next
<1>4. WritersAreSure' BY <1>3 DEF WritersAreSure, Sure
<1> QED BY <1>1, <1>2, <1>3, <1>4, <1>5 DEF StoreInv

\* What the abstract specification needs to know of every state.
LEMMA StoreInit == Init => StoreInv /\ Shape /\ KeysInv
<1> SUFFICES ASSUME Init PROVE StoreInv /\ Shape /\ KeysInv OBVIOUS
<1>1. ImportInv /\ Shape /\ KeysInv /\ TypeOK BY InitInv, InitKeys, TypeFollows
<1>2. runs = {} /\ started = 0 /\ \A i \in Importers : Step(i) = "idle" BY DEF Init, Idle, Step
<1>3. ResultInv BY <1>2 DEF ResultInv
<1>4. started <= MaxImports BY <1>2, SalesImportAssumption
<1>5. WritersAreSure BY <1>2 DEF WritersAreSure, Active
<1> QED BY <1>1, <1>3, <1>4, <1>5 DEF StoreInv

\* The invariant behind the refinement, where days do not mix.
THEOREM StoreInvariant ==
    ASSUME DaysDoNotMix
    PROVE  Spec => []StoreInv
<1>1. StoreInv /\ Shape /\ KeysInv /\ [Next]_vars => StoreInv' /\ Shape' /\ KeysInv' BY SureStep
<1> QED BY <1>1, StoreInit, PTL DEF Spec

\* Runs are recorded in the order of the days, one of each day.
LEMMA DaysInTurn ==
    ASSUME Shape, StoreInv, NEW i \in Importers, Active(i), ~ imp[i].dry
    PROVE  /\ Day(i) \in Days /\ imp[i].import \in 1 .. MaxImports
           /\ Promise!InTurn(imp[i].import, Day(i))
<1>1. /\ Day(i) \in Days /\ Day(i) \in Nat
      /\ imp[i].import \in Nat /\ imp[i].import >= 1 /\ imp[i].import <= started
  BY SalesImportAssumption DEF Shape, ImpValues, Active, Step, Day
<1>2. started <= MaxImports /\ started \in Nat /\ MaxImports \in Nat
  BY SalesImportAssumption DEF StoreInv, Shape
<1>3. imp[i].import \in 1 .. MaxImports BY <1>1, <1>2
<1>4. AddedUp(i) /\ imp[i].first \in Days BY DEF StoreInv, ResultInv, Active
<1>5. imp[i].first \in Nat BY <1>4, SalesImportAssumption
<1>6. {r.day : r \in RunsOf(i)} = imp[i].first .. Day(i) - 1
  BY <1>4 DEF AddedUp, DaysBehind, Active
<1>7. ASSUME NEW r \in runs, r.import = imp[i].import PROVE r.day < Day(i)
  <2>1. r.day \in imp[i].first .. Day(i) - 1 BY <1>6, <1>7 DEF RunsOf
  <2> QED BY <1>1, <1>5, <2>1
<1> QED BY <1>1, <1>3, <1>7 DEF Promise!InTurn

\* A day that ends without a commit is left as it is.
LEMMA LeavesTheDay ==
    ASSUME Shape, StoreInv, NEW i \in Importers, Active(i), NEW s \in DOMAIN Rank,
           runs' = Recorded(i, s), db' = db,
           s \in {"proven", "partial"} /\ ~ imp[i].dry => db[Day(i)].daily # {}
    PROVE  [Promise!Next]_(Promise!storeVars)
<1>1. CASE imp[i].dry BY <1>1 DEF Recorded, Promise!storeVars
<1>2. CASE ~ imp[i].dry
  <2>1. /\ Day(i) \in Days /\ imp[i].import \in 1 .. MaxImports
        /\ Promise!InTurn(imp[i].import, Day(i))
    BY <1>2, DaysInTurn
  <2>2. runs' = runs \cup {Promise!Result(imp[i].import, Day(i), s)}
    BY <1>2 DEF Recorded, Promise!Result
  <2>3. s \in {"proven", "partial"} => db[Day(i)] # NoRows
    BY <1>2, TableSteps DEF NoRows
  <2>4. Promise!Leave(Day(i)) BY <2>1, <2>2, <2>3 DEF Promise!Leave
  <2> QED BY <2>1, <2>4 DEF Promise!Next
<1> QED BY <1>1, <1>2

\* A commit replaces the day by a version of this import.
LEMMA ReplacesTheDay ==
    ASSUME DaysDoNotMix, Shape, StoreInv, NEW i \in Importers, FlushAndCommit(i)
    PROVE  Promise!Next
<1> DEFINE v == Version(imp[i].import, Reading(i), imp[i].map)
<1>1. Step(i) = "insert" /\ runs' = Recorded(i, Status(i)) BY DEF FlushAndCommit
<1>2. Active(i) /\ ~ imp[i].dry /\ Faults(Reading(i)) = {}
  BY <1>1 DEF Active, StoreInv, WritersAreSure
<1>3. /\ Day(i) \in Days /\ imp[i].import \in 1 .. MaxImports
      /\ Promise!InTurn(imp[i].import, Day(i))
  BY <1>2, DaysInTurn
<1>4. Reading(i) \in Readable BY <1>1, <1>2, HasReading DEF Readable, Step
<1>5. imp[i].map \in SUBSET PaymentTypes BY DEF Shape, ImpValues
<1>6. v \in Versions BY <1>3, <1>4, <1>5 DEF Versions
<1>7. /\ v.import = imp[i].import /\ v.status = Status(i)
      /\ v.tables = [t \in Tables |-> StoredRows(imp[i].import, Reading(i), imp[i].map, t)]
  BY DEF Version, Status
<1>8. ImportInv BY DEF StoreInv
<1> HIDE DEF v
<1>9. db' = [db EXCEPT ![Day(i)] = v.tables] BY <1>7, <1>8, CommitStores
<1>10. runs' = runs \cup {Promise!Result(v.import, Day(i), v.status)}
  BY <1>1, <1>2, <1>7 DEF Recorded, Promise!Result
<1>11. Promise!Replace(Day(i)) BY <1>3, <1>6, <1>7, <1>9, <1>10 DEF Promise!Replace
<1> QED BY <1>3, <1>11 DEF Promise!Next

\* Every step is one that the abstract specification allows, or none for it.
LEMMA StoreStep ==
    ASSUME DaysDoNotMix, Shape, StoreInv, [Next]_vars PROVE [Promise!Next]_(Promise!storeVars)
<1>1. ASSUME UNCHANGED <<db, runs>> PROVE [Promise!Next]_(Promise!storeVars)
  BY <1>1 DEF Promise!storeVars
<1>2. CASE IikoChanges \/ MapChanges \/ UNCHANGED vars
  BY <1>1, <1>2 DEF IikoChanges, MapChanges, vars
<1>3. ASSUME NEW i \in Importers, StartRange(i) \/ ImportRaises(i)
      PROVE  [Promise!Next]_(Promise!storeVars)
  BY <1>1, <1>3 DEF StartRange, ImportRaises
<1>4. ASSUME NEW i \in Importers, FetchFails(i) PROVE [Promise!Next]_(Promise!storeVars)
  <2>1. PICK s \in {"blocked", "unknown"} : runs' = Recorded(i, s) BY <1>4 DEF FetchFails
  <2>2. Active(i) /\ db' = db /\ s \in DOMAIN Rank /\ s \notin {"proven", "partial"}
    BY <1>4 DEF FetchFails, Active, Rank
  <2> QED BY <2>1, <2>2, LeavesTheDay
<1>5. ASSUME NEW i \in Importers, NormalizationFails(i) PROVE [Promise!Next]_(Promise!storeVars)
  <2>1. runs' = Recorded(i, "unknown") /\ Active(i) /\ db' = db
    BY <1>5 DEF NormalizationFails, HasRead, Active
  <2>2. "unknown" \in DOMAIN Rank BY DEF Rank
  <2> QED BY <2>1, <2>2, LeavesTheDay
<1>6. ASSUME NEW i \in Importers, RecordUnchanged(i) PROVE [Promise!Next]_(Promise!storeVars)
  <2>1. runs' = Recorded(i, Status(i)) /\ Active(i) /\ db' = db /\ Step(i) = "unchanged"
    BY <1>6 DEF RecordUnchanged, Active
  <2>2. db[Day(i)].daily # {} BY <2>1 DEF StoreInv, WritersAreSure
  <2>3. Status(i) \in DOMAIN Rank BY StatusIsStatus
  <2> QED BY <2>1, <2>2, <2>3, LeavesTheDay
<1>7. ASSUME NEW i \in Importers, FlushAndCommit(i) PROVE [Promise!Next]_(Promise!storeVars)
  BY <1>7, ReplacesTheDay
<1>8. ASSUME NEW i \in Importers, Proceed(i), ~ FlushAndCommit(i), ~ NormalizationFails(i),
             ~ RecordUnchanged(i)
      PROVE  UNCHANGED <<db, runs>>
  BY <1>8 DEF Proceed, ReadReport, NormalizationRaises, DryRun, PersistBegins,
     DeleteStarts, DeleteEnds, FlushRaises, Deadlocked, Finish
<1> QED BY <1>1, <1>2, <1>3, <1>4, <1>5, <1>6, <1>7, <1>8 DEF Next

\* Where days do not mix: whatever imports run next to each other, lock each other
\* out or fail, together they replace days at once, in turn, and record what they did
\* with them.
THEOREM ImportsKeepPromise ==
    ASSUME DaysDoNotMix
    PROVE  Spec => KeepsPromise
<1>1. Init => Promise!Init BY DEF Init, Promise!Init
<1>2. StoreInv /\ Shape /\ KeysInv /\ [Next]_vars => StoreInv' /\ Shape' /\ KeysInv' BY SureStep
<1>3. StoreInv /\ Shape /\ [Next]_vars => [Promise!Next]_(Promise!storeVars) BY StoreStep
<1> QED BY <1>1, <1>2, <1>3, StoreInit, PTL DEF Spec, KeepsPromise, Promise!Spec
=============================================================================
