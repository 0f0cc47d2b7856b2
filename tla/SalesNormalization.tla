-------------------------- MODULE SalesNormalization --------------------------
(***************************************************************************)
(* What normalize_iiko_sales_payload makes of the three reports of a day.  *)
(*                                                                         *)
(* A report is a set of rows: iiko groups by the fields that tell rows     *)
(* apart.  Amounts are whole cents.  A row's adjustment is its discounts   *)
(* less its increases.  Names, sizes, quantities and refunds are copied    *)
(* and never compared, so they are left out, as are the codes of a         *)
(* mismatch.  row.fault says what is wrong with a row: "refused" raises    *)
(* SalesNormalizationError (another organization or date, a float, no      *)
(* product id), "garbled" raises from Decimal or date.fromisoformat.       *)
(***************************************************************************)
EXTENDS Integers, FiniteSetsExt

\* The rows that count: neither reversed nor deleted.
Normal(rows) == {r \in rows : r.storned = "FALSE" /\ r.deleted = "NOT_DELETED"}

\* Rows left out for a reason this code does not know.
UnknownStatuses(rows) ==
    {r \in rows : r.storned \notin {"FALSE", "TRUE"} \/ r.deleted \notin {"NOT_DELETED", "DELETED"}}

_sum(rows, field) == MapThenSumSet(LAMBDA r : r[field], rows)

Gross(rows)      == _sum(Normal(rows), "gross")
Net(rows)        == _sum(Normal(rows), "net")
Adjustment(rows) == _sum(Normal(rows), "adjustment")

\* More than a cent apart.
Mismatch(a, b) == a - b > 1 \/ b - a > 1

\* map: the payment types somebody has put in a category by hand.
categorize_payment(row, map) ==
    CASE row.key \in map -> "mapped"
      [] row.key \notin map /\ row.group \in {"CASH", "CARD"} -> row.group
      [] row.key \notin map /\ row.group = "NON_CASH" -> "other"
      [] OTHER -> "unknown"

Reports == {"daily", "payments", "products"}

Faults(reading) == {r.fault : r \in UNION {reading[t] : t \in Reports}} \ {"none"}

Untrusted(reading) ==
    \/ \E t \in Reports : UnknownStatuses(reading[t]) # {}
    \/ Mismatch(Net(reading.payments), Net(reading.daily))
    \/ Mismatch(Net(reading.products), Net(reading.daily))
    \/ Mismatch(Gross(reading.products), Gross(reading.daily))

Incomplete(reading, map) ==
    \/ Mismatch(Gross(reading.daily) - Adjustment(reading.daily), Net(reading.daily))
    \/ \E r \in Normal(reading.payments) : categorize_payment(r, map) \in {"other", "unknown"}

\* Mutant: the products are not added up.
ResultStatus_ProductsUnseen(reading, map) ==
    IF Mismatch(Net(reading.payments), Net(reading.daily)) THEN "unknown"
    ELSE IF Incomplete(reading, map) THEN "partial" ELSE "proven"

ResultStatus(reading, map) ==
    IF Untrusted(reading) THEN "unknown"
    ELSE IF Incomplete(reading, map) THEN "partial" ELSE "proven"

\* The checksum tells readings apart by the rows that count, in any order.
calculate_sales_checksum(reading) == [t \in Reports |-> Normal(reading[t])]
=============================================================================
