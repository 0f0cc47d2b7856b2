---------------------------- MODULE DailyPromise ----------------------------
(***************************************************************************)
(* What the daily reports promise, without units, locks, keys, rows or     *)
(* failures: a day has one report, which says what was imported when it    *)
(* was written, and nobody begins to change it once a chat may have it.    *)
(* What was begun before is written all the same: a chat that gets the     *)
(* report in between has it in words it loses.  A correction leads from    *)
(* what the report says to what was imported since, and is never taken     *)
(* back.  DailyCoo implements it.                                          *)
(***************************************************************************)
EXTENDS Naturals

CONSTANTS Days, Figures, Shown

None == 0    \* no figures

VARIABLES
    known,       \* the figures last imported for each day
    report,      \* the figures in each day's report
    final,       \* days whose report some chat may have
    corrections, \* <<day, old metrics, new metrics>>
    writing      \* the day whose report is being written

dailyVars == <<known, report, final, corrections, writing>>

Init ==
    /\ known = [d \in Days |-> None]
    /\ report = [d \in Days |-> None]
    /\ final = {}
    /\ corrections = {}
    /\ writing = None

Learn(d) ==
    /\ \E f \in Figures : known' = [known EXCEPT ![d] = f]
    /\ UNCHANGED <<report, final, corrections, writing>>

\* To write the first report of a day, or a newer version of one nobody has.
Begin(d) ==
    /\ known[d] # None
    /\ d \notin final
    /\ writing' = d
    /\ UNCHANGED <<known, report, final, corrections>>

Write(d) ==
    /\ writing = d
    /\ report' = [report EXCEPT ![d] = known[d]]
    /\ writing' = None
    /\ UNCHANGED <<known, final, corrections>>

GiveUp ==
    /\ writing' = None
    /\ UNCHANGED <<known, report, final, corrections>>

Send(d) ==
    /\ report[d] # None
    /\ final' = final \cup {d}
    /\ UNCHANGED <<known, report, corrections, writing>>

Correct(d) ==
    /\ report[d] # None /\ known[d] # None
    /\ Shown[known[d]] # Shown[report[d]]
    /\ corrections' = corrections \cup {<<d, Shown[report[d]], Shown[known[d]]>>}
    /\ UNCHANGED <<known, report, final, writing>>

Next ==
    \/ \E d \in Days : Learn(d) \/ Begin(d) \/ Write(d) \/ Send(d) \/ Correct(d)
    \/ GiveUp

Spec == Init /\ [][Next]_dailyVars
=============================================================================
