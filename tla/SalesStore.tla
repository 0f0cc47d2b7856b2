----------------------------- MODULE SalesStore -----------------------------
(***************************************************************************)
(* What imports promise of the stored days, without fetches, statements,   *)
(* locks or crashes: an import deals with the days of its range in turn,   *)
(* each once.  It replaces a day at once, by a version made of one         *)
(* reading, with the result that goes with it; or it leaves the day as it  *)
(* is, with a result that is trusted only if the day is stored.            *)
(* SalesImport implements it.                                              *)
(***************************************************************************)
EXTENDS Naturals

CONSTANTS
    Days, Imports, Statuses,
    Nothing,    \* what is stored of a day at first
    Versions    \* what an import can make of a day: its import, status and tables

VARIABLES
    stored,     \* the tables of each day
    results     \* what imports have recorded

storeVars == <<stored, results>>

Init ==
    /\ stored = [d \in Days |-> Nothing]
    /\ results = {}

InTurn(n, d) == \A r \in results : r.import = n => r.day < d

Result(n, d, status) == [import |-> n, day |-> d, status |-> status]

Replace(d) ==
    \E v \in Versions :
        /\ InTurn(v.import, d)
        /\ stored' = [stored EXCEPT ![d] = v.tables]
        /\ results' = results \cup {Result(v.import, d, v.status)}

Leave(d) ==
    \E n \in Imports, status \in Statuses :
        /\ InTurn(n, d)
        /\ status \in {"proven", "partial"} => stored[d] # Nothing
        /\ results' = results \cup {Result(n, d, status)}
        /\ UNCHANGED stored

Next == \E d \in Days : Replace(d) \/ Leave(d)

Spec == Init /\ [][Next]_storeVars
=============================================================================
