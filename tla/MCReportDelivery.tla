------------------------- MODULE MCReportDelivery -------------------------
(* Instances of ReportDelivery for TLC. *)
EXTENDS ReportDelivery

CONSTANTS a, b, short, long

MCReports1 == {1}
MCReports2 == {1, 2}
MCRecipients2 == {a, b}
MCTexts == {short, long}

\* One text fits a message, the other is cut into two.
MCNChunks == [t \in MCTexts |-> IF t = long THEN 2 ELSE 1]

\* ALLOWED_IDS names both chats.
MCBoth == {<<a, b>>}
\* ALLOWED_IDS names a chat twice, or loses a chat between two runs.
MCChanging == {<<a, b, a>>, <<b>>}

MCNobody == {}
===========================================================================
