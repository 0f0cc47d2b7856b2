---------------------------- MODULE MCSalesImport ----------------------------
(***************************************************************************)
(* Small instances of SalesImport.  "plain" adds up; "more" was booked     *)
(* later and is paid with a voucher as well; "gift" is paid with a voucher *)
(* only, and "closed" has no sales; "odd" is "more" with a row of a status *)
(* nobody knows; "garbled" and "refused" cannot be read.                   *)
(***************************************************************************)
EXTENDS SalesImport

Sale(key, amount) ==
    [key |-> key, net |-> amount, gross |-> amount, adjustment |-> 0, storned |-> "FALSE",
     deleted |-> "NOT_DELETED", group |-> "CASH", fault |-> "none"]

Voucher(amount) == [Sale("voucher", amount) EXCEPT !.group = "NON_CASH"]
Deleted(r)      == [r EXCEPT !.deleted = "DELETED"]
Odd(r)          == [r EXCEPT !.deleted = "ODD"]

Plain == [daily |-> {Sale("day", 100)}, payments |-> {Sale("cash", 100)},
          products |-> {Sale("tea", 100)}]

More == [daily    |-> {Sale("day", 300), Deleted(Sale("day", 900))},
         payments |-> {Sale("cash", 100), Voucher(200)},
         products |-> {Sale("tea", 101), Sale("cake", 200), Deleted(Sale("cake", 900))}]

Gift == [daily |-> {Sale("day", 70)}, payments |-> {Voucher(70)}, products |-> {Sale("cake", 70)}]

Closed == [daily |-> {}, payments |-> {}, products |-> {}]

Broken(fault) == [More EXCEPT !.products = {[Sale("tea", 300) EXCEPT !.fault = fault]}]

MCReportOf ==
    [plain |-> Plain, more |-> More, gift |-> Gift, closed |-> Closed,
     odd |-> [More EXCEPT !.payments = @ \cup {Odd(Sale("cash", 900))}],
     garbled |-> Broken("garbled"), refused |-> Broken("refused")]
=============================================================================
