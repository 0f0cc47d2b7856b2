--------------------------- MODULE DeliveryPromise ---------------------------
(***************************************************************************)
(* What the delivery of reports promises, without processes, calls or      *)
(* retries: at-least-once delivery with an acknowledgement per recipient.  *)
(* ReportDelivery implements it.                                           *)
(***************************************************************************)
EXTENDS FiniteSets

CONSTANTS
    Reports, Recipients, Texts,
    Whole,       \* the messages that make up each text
    Audiences    \* the sets of recipients a report may be meant for

VARIABLES
    heard,    \* messages each recipient has received of each report
    acked,    \* <<report, recipient>> acknowledged
    closed    \* reports concluded

promiseVars == <<heard, acked, closed>>

HasWhole(r, k) == \E t \in Texts : Whole[t] \subseteq heard[r][k]

Init ==
    /\ heard = [r \in Reports |-> [k \in Recipients |-> {}]]
    /\ acked = {}
    /\ closed = {}

\* A message may be repeated, but not to a recipient who has acknowledged.
Hear(r, k) ==
    /\ <<r, k>> \notin acked
    /\ \E t \in Texts : \E m \in Whole[t] :
        heard' = [heard EXCEPT ![r][k] = @ \cup {m}]
    /\ UNCHANGED <<acked, closed>>

Acknowledge(r, k) ==
    /\ HasWhole(r, k)
    /\ acked' = acked \cup {<<r, k>>}
    /\ UNCHANGED <<heard, closed>>

Conclude(r) ==
    /\ \E audience \in Audiences : \A k \in audience : HasWhole(r, k)
    /\ closed' = closed \cup {r}
    /\ UNCHANGED <<heard, acked>>

Next ==
    \E r \in Reports :
        \/ \E k \in Recipients : Hear(r, k) \/ Acknowledge(r, k)
        \/ Conclude(r)

Spec == Init /\ [][Next]_promiseVars
=============================================================================
