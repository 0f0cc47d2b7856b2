--------------------------- MODULE ReportVersions ---------------------------
(***************************************************************************)
(* What the sales automation promises of its reports, without runs, locks, *)
(* keys, timers or crashes: a day has one report for each version of its   *)
(* figures, written after the figures are known; a new one may withdraw    *)
(* what still waits of that day and nothing else; what is delivered stays. *)
(* A day is called done only if it has a report, or a run was turned away  *)
(* from it or told to write none.  SalesAutomation implements it.          *)
(***************************************************************************)
EXTENDS Naturals, Sequences

CONSTANTS Days, Figures

VARIABLES
    known,     \* days whose figures are known
    versions,  \* the reports, in the order they were written
    done,      \* days that count as done
    excused    \* days a run was turned away from, or was to write no report of

promiseVars == <<known, versions, done, excused>>

Init ==
    /\ known = {} /\ done = {} /\ excused = {}
    /\ versions = << >>

VersionsOf(d) == {i \in DOMAIN versions : versions[i].day = d}
Waiting(d)    == {i \in VersionsOf(d) : versions[i].status = "pending"}

Learn(d) ==
    /\ known' = known \cup {d}
    /\ UNCHANGED <<versions, done, excused>>

Write(d) ==
    /\ d \in known
    /\ \E f \in Figures, old \in SUBSET Waiting(d) :
        /\ \A i \in VersionsOf(d) : versions[i].figures # f
        /\ versions' =
             Append([i \in DOMAIN versions |->
                        IF i \in old THEN [versions[i] EXCEPT !.status = "superseded"]
                        ELSE versions[i]],
                    [day |-> d, figures |-> f, status |-> "pending"])
    /\ UNCHANGED <<known, done, excused>>

Conclude(i) ==
    /\ versions[i].status # "delivered"
    /\ \E s \in {"delivered", "failed"} : versions' = [versions EXCEPT ![i].status = s]
    /\ UNCHANGED <<known, done, excused>>

TurnAway(d) ==
    /\ excused' = excused \cup {d}
    /\ UNCHANGED <<known, versions, done>>

Finish(d) ==
    /\ VersionsOf(d) # {} \/ d \in excused
    /\ done' = done \cup {d}
    /\ UNCHANGED <<known, versions, excused>>

\* A run that was to write no report calls its day done.
Forgo(d) ==
    /\ done' = done \cup {d} /\ excused' = excused \cup {d}
    /\ UNCHANGED <<known, versions>>

Next ==
    \/ \E d \in Days : Learn(d) \/ Write(d) \/ TurnAway(d) \/ Finish(d) \/ Forgo(d)
    \/ \E i \in DOMAIN versions : Conclude(i)

Spec == Init /\ [][Next]_promiseVars
=============================================================================
