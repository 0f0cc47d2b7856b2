---------------------------- MODULE SalesReading ----------------------------
(***************************************************************************)
(* What a fetch of sales promises, without sessions, requests or retries:  *)
(* three reports, each as iiko had it at one moment of this fetch, one     *)
(* after the other; or nothing.  IikoClient implements it.                 *)
(***************************************************************************)
EXTENDS Naturals, Sequences

VARIABLES
    books,   \* how often iiko has changed what it says of the day
    busy,    \* whether a fetch is under way
    read,    \* the reports it has read, as versions of the books
    sales    \* the reports the caller has been given, if any

readingVars == <<books, busy, read, sales>>

Init ==
    /\ books = 0
    /\ busy = FALSE
    /\ read = << >>
    /\ sales = << >>

BooksChange ==
    /\ books' = books + 1
    /\ UNCHANGED <<busy, read, sales>>

Begin ==
    /\ ~busy
    /\ busy' = TRUE
    /\ read' = << >>
    /\ sales' = << >>
    /\ UNCHANGED books

Read ==
    /\ busy
    /\ Len(read) < 2
    /\ read' = Append(read, books)
    /\ UNCHANGED <<books, busy, sales>>

Complete ==
    /\ busy
    /\ Len(read) = 2
    /\ busy' = FALSE
    /\ read' = << >>
    /\ sales' = Append(read, books)
    /\ UNCHANGED books

\* A fetch that fails leaves nothing behind.
GiveUp ==
    /\ busy
    /\ busy' = FALSE
    /\ read' = << >>
    /\ UNCHANGED <<books, sales>>

\* The caller asks for something else, or is a new process.
Forget ==
    /\ ~busy
    /\ sales' = << >>
    /\ UNCHANGED <<books, busy, read>>

Next == BooksChange \/ Begin \/ Read \/ Complete \/ GiveUp \/ Forget

Spec == Init /\ [][Next]_readingVars
=============================================================================
