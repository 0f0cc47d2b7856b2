------------------------------- MODULE Outbox -------------------------------
(***************************************************************************)
(* hermes_report_outbox as the jobs of Core see it: a sequence of rows in  *)
(* the order of their creation.  Several jobs and the sender share it, so  *)
(* what they all ask of it is defined here, for any sequence of rows.      *)
(*                                                                         *)
(* A text is what the module that writes the row makes of it; an alert's   *)
(* says no more than its key.                                              *)
(***************************************************************************)
EXTENDS Naturals, Sequences, FiniteSetsExt

ReportTypes == {"sales", "correction", "alert"}
RowStatuses == {"pending", "failed", "delivered", "superseded"}

\* Mutant: one correction a day.
CorrectionKey_PerDay(day, old, new) == <<"correction", day>>

\* Mutant: days with equal figures share a key.
SalesKey_WithoutDay(day, figures) == <<"sales", figures>>

\* Idempotency keys: one per figures, per change and per kind of failure.
SalesKey(day, figures)        == <<"sales", day, figures>>
CorrectionKey(day, old, new)  == <<"correction", day, old, new>>
AlertKey(day, mode, error)    == <<"alert", day, mode, error>>

\* A row as it is created; registered once it has recipient rows.
NewRow(type, day, key, text) ==
    [type |-> type, day |-> day, key |-> key, text |-> text,
     status |-> "pending", registered |-> FALSE]

OfDay(rows, day)        == {i \in DOMAIN rows : rows[i].day = day}
SalesReports(rows, day) == {i \in OfDay(rows, day) : rows[i].type = "sales"}
\* Mutant: a delivered row is not found.
WithKey_Undelivered(rows, key) ==
    {i \in DOMAIN rows : rows[i].key = key /\ rows[i].status # "delivered"}

WithKey(rows, key)      == {i \in DOMAIN rows : rows[i].key = key}

LatestSalesReport(rows, day) == Max(SalesReports(rows, day))

\* Mutant: chats that may have the text do not count.
IsMutable_IgnoringChats(row) == row.status # "delivered"

\* A sales report may be rewritten until it is delivered or registered.
IsMutable(row) == row.status # "delivered" /\ ~ row.registered

\* What the sender lists for a day with --retry-failed.
Unsent(rows, day) == {i \in OfDay(rows, day) : rows[i].status \in {"pending", "failed"}}

\* No two rows have one key: the table's unique constraint.
KeysAreUnique(rows) ==
    \A i, j \in DOMAIN rows : rows[i].key = rows[j].key => i = j
=============================================================================
