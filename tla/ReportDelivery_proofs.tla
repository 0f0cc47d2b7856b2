------------------------ MODULE ReportDelivery_proofs ------------------------
(***************************************************************************)
(* Proofs about ReportDelivery, for every set of reports, recipients,      *)
(* texts and ALLOWED_IDS values, and any number of late handlers.          *)
(***************************************************************************)
EXTENDS ReportDelivery, FiniteSetTheorems, TLAPS

-----------------------------------------------------------------------------
(* Type correctness *)

\* The handlers keep the database well formed and change no text.
LEMMA HandlerType ==
    ASSUME TypeOK, NEW c \in Calls, HandlerCommits(c)
    PROVE  /\ rows' \in [Reports -> [Recipients -> RowStatuses]]
           /\ outbox' \in [Reports -> [status : ReportStatuses, text : Texts \cup {NoText}]]
           /\ \A r \in Reports : outbox'[r].status # "absent" <=> outbox'[r].text \in Texts
           /\ \A r \in Reports : Present(r) => outbox'[r].status # "absent"
<1> USE DEF TypeOK, RowStatuses, ReportStatuses, Calls
<1>1. c.id \in Reports /\ outbox[c.id].text \in Texts
  BY DEF HandlerCommits, Present
<1>2. CASE register_report_recipients(c)
  BY <1>2 DEF register_report_recipients, Present
<1>3. ASSUME NEW status \in {"delivered", "failed"}, MarkRecipients(c, status)
      PROVE  /\ rows' \in [Reports -> [Recipients -> RowStatuses]] /\ UNCHANGED outbox
  BY <1>3 DEF MarkRecipients
<1>4. ASSUME NEW status \in {"delivered", "failed"}, MarkReport(c, status)
      PROVE  /\ UNCHANGED rows
             /\ outbox' \in [Reports -> [status : ReportStatuses, text : Texts \cup {NoText}]]
             /\ \A r \in Reports : outbox'[r].status # "absent" <=> outbox'[r].text \in Texts
             /\ \A r \in Reports : Present(r) => outbox'[r].status # "absent"
  <2>1. CASE c.phase = "write"
    <3>1. outbox' = [outbox EXCEPT ![c.id].status = status] /\ UNCHANGED rows
      BY <1>4, <2>1 DEF MarkReport
    <3>2. /\ outbox' \in [Reports -> [status : ReportStatuses, text : Texts \cup {NoText}]]
          /\ outbox'[c.id].text = outbox[c.id].text
          /\ \A r \in Reports : r # c.id => outbox'[r] = outbox[r]
      BY <1>1, <3>1
    <3> QED BY <1>1, <3>1, <3>2 DEF Present
  <2>2. CASE c.phase # "write"
    BY <1>4, <2>2 DEF MarkReport, Present
  <2> QED BY <2>1, <2>2
<1>5. CASE \E status \in {"delivered", "failed"} : MarkRecipients(c, status)
  BY <1>3, <1>5 DEF Present
<1>6. CASE \E status \in {"delivered", "failed"} : MarkReport(c, status)
  BY <1>4, <1>6
<1> QED
  BY <1>2, <1>5, <1>6
  DEF HandlerCommits, mark_report_recipient_delivered, mark_report_recipient_failed,
      mark_report_delivered, mark_report_failed

\* Ending a run leaves the sender's variables well formed.
LEMMA EndRunType ==
    ASSUME TypeOK, EndRun
    PROVE  /\ pc' = "idle" /\ queue' = {} /\ item' = NoItem /\ allowed' = << >>
           /\ local' \in [Recipients -> RowStatuses]
           /\ pos' = 1 /\ chunk' = 1 /\ live' = NoCall
BY DEF EndRun, TypeOK, RowStatuses

\* What the sender does with an answer.
LEMMA OnReplyType ==
    ASSUME TypeOK, pc = "call", OnReply,
           rows' \in [Reports -> [Recipients -> RowStatuses]]
    PROVE  /\ pc' \in {"report", "chat", "call"} /\ (pc' = "call" <=> live' # NoCall)
           /\ live' \in Calls \cup {NoCall}
           /\ local' \in [Recipients -> RowStatuses]
           /\ pos' \in Nat \ {0}
           /\ UNCHANGED <<queue, item, allowed, chunk>>
<1> USE DEF TypeOK, Calls, RecipientOps, ReportOps, RowStatuses
<1>1. live \in Calls /\ item \in Items /\ item.id \in Reports
  BY DEF Items
<1>2. \A op \in ReportOps : Call(op, item.id, {}) \in Calls /\ Call(op, item.id, {}) # NoCall
  BY <1>1, NullsAssumption DEF Call
<1>3. CASE live.op = "register"
  BY <1>1, <1>3 DEF OnReply
<1>4. CASE live.op = "recipient_delivered"
  <2>1. /\ local' = [local EXCEPT ![CurrentRecipient] = "delivered"]
        /\ pos' = pos + 1 /\ pc' = "chat" /\ live' = NoCall
        /\ UNCHANGED <<queue, item, allowed, chunk>>
    BY <1>4 DEF OnReply
  <2>2. local' \in [Recipients -> RowStatuses]
    BY <2>1
  <2> QED BY <2>1, <2>2
<1>5. CASE live.op = "recipient_failed"
  BY <1>1, <1>2, <1>5 DEF OnReply, AwaitCall
<1>6. CASE live.op \in ReportOps
  BY <1>1, <1>6 DEF OnReply
<1> QED BY <1>1, <1>3, <1>4, <1>5, <1>6

\* A call that raises leaves the sender's variables well formed.
LEMMA OnCallErrorType ==
    ASSUME TypeOK, pc = "call", OnCallError
    PROVE  /\ queue' \subseteq Items /\ item' \in Items \cup {NoItem}
           /\ allowed' \in AllowedLists \cup {<< >>}
           /\ local' \in [Recipients -> RowStatuses]
           /\ pos' \in Nat \ {0} /\ chunk' \in Nat \ {0}
           /\ live' \in Calls \cup {NoCall} /\ (pc' = "call" <=> live' # NoCall)
           /\ \/ pc' = "idle"
              \/ pc' = "call" /\ item' \in Items /\ allowed' \in AllowedLists
<1>1. live \in Calls /\ item \in Items /\ item.id \in Reports
  BY DEF TypeOK, Items
<1>2. CASE live.op = "recipient_delivered"
  <2>1. Call("recipient_failed", item.id, live.rcpts) \in Calls
    BY <1>1 DEF Call, Calls, RecipientOps
  <2>2. live' \in Calls /\ live' # NoCall /\ pc' = "call"
    BY <1>2, <2>1, NullsAssumption DEF OnCallError, AwaitCall
  <2>3. UNCHANGED <<queue, item, allowed, local, pos, chunk>>
    BY <1>2 DEF OnCallError
  <2> QED BY <2>2, <2>3 DEF TypeOK
<1>3. CASE live.op # "recipient_delivered"
  BY <1>3, EndRunType DEF OnCallError
<1> QED BY <1>2, <1>3

\* The recipient being served is a recipient.
LEMMA CurrentRecipientType ==
    ASSUME TypeOK, pos \in DOMAIN allowed, allowed \in AllowedLists
    PROVE  CurrentRecipient \in Recipients /\ CurrentRecipient \in KeysOf(allowed)
BY ConstantsAssumption DEF CurrentRecipient, KeysOf

\* ALLOWED_IDS names recipients only.
LEMMA KeysOfType ==
    ASSUME NEW list \in AllowedLists
    PROVE  KeysOf(list) \subseteq Recipients
BY ConstantsAssumption DEF KeysOf

\* A handler's decision concerns its phase only.
LEMMA HandlerReadsType ==
    ASSUME NEW c \in Calls
    PROVE  /\ HandlerReads(c) \in Calls
           /\ HandlerReads(c).op = c.op /\ HandlerReads(c).id = c.id
           /\ HandlerReads(c).rcpts = c.rcpts
           /\ HandlerReads(c).phase = "write" => NotYetDelivered(c)
<1> HIDE DEF NotYetDelivered
<1> QED BY DEF HandlerReads, Calls

\* Every step keeps the state well formed.
LEMMA TypeStep == TypeOK /\ [Next]_vars => TypeOK'
<1> SUFFICES ASSUME TypeOK, [Next]_vars PROVE TypeOK'
  OBVIOUS
<1> USE DEF dbVars, senderVars, vars
<1>1. CASE Publish
  BY <1>1 DEF Publish, NextRow, TypeOK, ReportStatuses, Present
<1>2. CASE PublishSuperseding
  BY <1>2 DEF PublishSuperseding, AfterSuperseding, NextRow, TypeOK, ReportStatuses, Present
<1>3. CASE CloseoutDecides
  BY <1>3 DEF CloseoutDecides, TypeOK, Present
<1>4. CASE AutomationDecides
  BY <1>4 DEF AutomationDecides, TypeOK, Present
<1>5. CASE JobCommits
  BY ZenonT(40), <1>5 DEF JobCommits, TypeOK, Present
<1>6. CASE JobCrashes
  BY <1>6 DEF JobCrashes, TypeOK, Present
<1>7. ASSUME NEW retry \in BOOLEAN, StartRun(retry) PROVE TypeOK'
  <2>1. pending_reports(retry) \subseteq Items
    <3>1. \A x \in pending_reports(retry) : \E r \in Reports :
             outbox[r].status \in {"pending", "failed"} /\ x = [id |-> r, text |-> outbox[r].text]
      BY DEF pending_reports
    <3> QED BY <3>1 DEF TypeOK, Items, Present
  <2> QED BY <1>7, <2>1 DEF StartRun, TypeOK, Present
<1>8. CASE EmptyRun
  BY <1>8 DEF EmptyRun, TypeOK, Present
<1>9. CASE TakeReport
  <2>1. PICK it \in queue : /\ item' = it /\ queue' = queue \ {it}
                            /\ live' = Call("register", it.id, KeysOf(allowed))
    BY <1>9 DEF TakeReport
  <2>2. allowed \in AllowedLists /\ it \in Items /\ it.id \in Reports
    BY <1>9 DEF TakeReport, TypeOK, Items
  <2>3. live' \in Calls /\ live' # NoCall
    BY <2>1, <2>2, KeysOfType, NullsAssumption DEF Call, Calls
  <2> QED BY <1>9, <2>1, <2>2, <2>3 DEF TakeReport, TypeOK, Present
<1>10. CASE FinishRun
  BY <1>10, EndRunType DEF FinishRun, TypeOK, Present
<1>11. CASE SkipChat
  BY <1>11 DEF SkipChat, TypeOK, Present
<1>12. CASE OpenChat
  <2>1. pos \in DOMAIN allowed
    BY <1>12, ConstantsAssumption DEF OpenChat, TypeOK
  <2> QED BY <1>12, <2>1 DEF OpenChat, TypeOK, Present
<1>13. CASE LeaveChats
  <2>1. item \in Items /\ item.id \in Reports /\ allowed \in AllowedLists
    BY <1>13 DEF LeaveChats, TypeOK, Items
  <2>2. Call("report_delivered", item.id, {}) \in Calls
    BY <2>1 DEF Call, Calls, ReportOps
  <2>3. live' \in Calls \cup {NoCall} /\ pc' \in {"call", "report"} /\ (pc' = "call" <=> live' # NoCall)
    BY <1>13, <2>2, NullsAssumption DEF LeaveChats, AwaitCall
  <2> QED BY <1>13, <2>1, <2>3 DEF LeaveChats, TypeOK, Present
<1>14. ASSUME pc = "send", SendMessage \/ SendRaises PROVE TypeOK'
  <2>1. /\ item \in Items /\ item.id \in Reports /\ item.text \in Texts
        /\ allowed \in AllowedLists /\ pos \in DOMAIN allowed
    BY <1>14 DEF TypeOK, Items
  <2>2. CurrentRecipient \in Recipients
    BY <2>1, CurrentRecipientType
  <2>3. \A op \in RecipientOps : Call(op, item.id, {CurrentRecipient}) \in Calls
    BY <2>1, <2>2 DEF Call, Calls
  <2>4. inbox' \in [Reports -> [Recipients -> SUBSET [text : Texts, part : Nat]]]
    <3>1. [text |-> item.text, part |-> chunk] \in [text : Texts, part : Nat]
      BY <2>1 DEF TypeOK
    <3>2. CASE MessageArrives
      BY <3>1, <3>2, <2>1, <2>2 DEF MessageArrives, TypeOK
    <3> QED BY <1>14, <3>2 DEF SendMessage, SendRaises, TypeOK
  <2>5. /\ live' \in Calls \cup {NoCall} /\ (pc' = "call" <=> live' # NoCall)
        /\ pc' \in {"send", "call"} /\ chunk' \in Nat \ {0}
    BY <1>14, <2>3, NullsAssumption DEF SendMessage, SendRaises, AwaitCall, RecipientOps, TypeOK
  <2>6. UNCHANGED <<outbox, rows, queue, item, allowed, local, pos, orphans, job, calm>>
    BY <1>14 DEF SendMessage, SendRaises
  <2> QED BY <2>1, <2>4, <2>5, <2>6 DEF TypeOK, Present
<1>15. CASE CallIsRead
  <2>1. live \in Calls /\ live' = HandlerReads(live)
    BY <1>15 DEF CallIsRead, TypeOK
  <2>2. live' \in Calls /\ live' # NoCall
    BY <2>1, HandlerReadsType, NullsAssumption
  <2> QED BY <1>15, <2>2 DEF CallIsRead, TypeOK, Present
<1>16. CASE CallReturns
  <2>1. live \in Calls /\ pc = "call"
    BY <1>16 DEF CallReturns, TypeOK
  <2>2. HandlerCommits(live) /\ OnReply /\ UNCHANGED <<inbox, orphans, job, calm>>
    BY <1>16 DEF CallReturns
  <2>3. /\ rows' \in [Reports -> [Recipients -> RowStatuses]]
        /\ outbox' \in [Reports -> [status : ReportStatuses, text : Texts \cup {NoText}]]
        /\ \A r \in Reports : outbox'[r].status # "absent" <=> outbox'[r].text \in Texts
        /\ \A r \in Reports : Present(r) => outbox'[r].status # "absent"
    BY <2>1, <2>2, HandlerType
  <2>4. /\ pc' \in {"report", "chat", "call"} /\ (pc' = "call" <=> live' # NoCall)
        /\ live' \in Calls \cup {NoCall}
        /\ local' \in [Recipients -> RowStatuses]
        /\ pos' \in Nat \ {0}
        /\ UNCHANGED <<queue, item, allowed, chunk>>
    BY <2>1, <2>2, <2>3, OnReplyType
  <2> QED BY <2>1, <2>2, <2>3, <2>4 DEF TypeOK, Present
<1>17. CASE CallRefused
  BY <1>17, OnCallErrorType DEF CallRefused, TypeOK, Present
<1>18. CASE ReplyLost
  <2>1. live \in Calls /\ pc = "call"
    BY <1>18 DEF ReplyLost, TypeOK
  <2>2. HandlerCommits(live) /\ OnCallError /\ UNCHANGED <<inbox, orphans, job, calm>>
    BY <1>18 DEF ReplyLost
  <2>3. /\ rows' \in [Reports -> [Recipients -> RowStatuses]]
        /\ outbox' \in [Reports -> [status : ReportStatuses, text : Texts \cup {NoText}]]
        /\ \A r \in Reports : outbox'[r].status # "absent" <=> outbox'[r].text \in Texts
        /\ \A r \in Reports : Present(r) => outbox'[r].status # "absent"
    BY <2>1, <2>2, HandlerType
  <2> QED BY <2>1, <2>2, <2>3, OnCallErrorType DEF TypeOK, Present
<1>19. CASE CallTimesOut
  BY <1>19, OnCallErrorType DEF CallTimesOut, TypeOK, Present
<1>20. CASE SenderCrashes
  BY <1>20, EndRunType DEF SenderCrashes, TypeOK, Present
<1>21. CASE OrphanIsRead
  BY <1>21, HandlerReadsType DEF OrphanIsRead, TypeOK, Present
<1>22. CASE OrphanCommits
  <2>1. PICK c \in orphans : HandlerCommits(c) /\ orphans' = orphans \ {c}
    BY <1>22 DEF OrphanCommits
  <2>2. c \in Calls
    BY DEF TypeOK
  <2>3. /\ rows' \in [Reports -> [Recipients -> RowStatuses]]
        /\ outbox' \in [Reports -> [status : ReportStatuses, text : Texts \cup {NoText}]]
        /\ \A r \in Reports : outbox'[r].status # "absent" <=> outbox'[r].text \in Texts
        /\ \A r \in Reports : Present(r) => outbox'[r].status # "absent"
    BY <2>1, <2>2, HandlerType
  <2> QED BY <1>22, <2>1, <2>3 DEF OrphanCommits, TypeOK, Present
<1>23. CASE OrphanDropped
  BY <1>23 DEF OrphanDropped, TypeOK, Present
<1>24. CASE UNCHANGED vars
  BY <1>24 DEF TypeOK, Present
<1> QED
  BY <1>1, <1>2, <1>3, <1>4, <1>5, <1>6, <1>7, <1>8, <1>9, <1>10, <1>11, <1>12, <1>13,
     <1>14, <1>15, <1>16, <1>17, <1>18, <1>19, <1>20, <1>21, <1>22, <1>23, <1>24
  DEF Next, CoreStep, SenderStep, OrphanStep, Fault, SendMessage, SendRaises

\* The initial state is well formed.
LEMMA InitType == Init => TypeOK
<1> SUFFICES ASSUME Init PROVE TypeOK
  OBVIOUS
<1>1. /\ outbox \in [Reports -> [status : ReportStatuses, text : Texts \cup {NoText}]]
      /\ \A r \in Reports : ~ Present(r) /\ outbox[r].text \notin Texts
  BY NullsAssumption DEF Init, ReportStatuses, Present
<1>2. /\ rows \in [Reports -> [Recipients -> RowStatuses]]
      /\ local \in [Recipients -> RowStatuses]
  BY DEF Init, RowStatuses
<1>3. inbox \in [Reports -> [Recipients -> SUBSET [text : Texts, part : Nat]]]
  BY DEF Init
<1>4. allowed \in AllowedLists \cup {<< >>} /\ pos \in Nat \ {0} /\ chunk \in Nat \ {0}
  BY DEF Init
<1>5. /\ queue \subseteq Items /\ item \in Items \cup {NoItem}
      /\ live \in Calls \cup {NoCall} /\ orphans \subseteq Calls /\ calm \in BOOLEAN
      /\ job = NoJob /\ pc = "idle" /\ live = NoCall
  BY DEF Init
<1> QED BY <1>1, <1>2, <1>3, <1>4, <1>5 DEF TypeOK

\* Every state the program reaches is well formed.
THEOREM TypeCorrect == Spec => []TypeOK
<1>1. Init => TypeOK
  BY InitType
<1>2. TypeOK /\ [Next]_vars => TypeOK'
  BY TypeStep
<1> QED BY <1>1, <1>2, PTL DEF Spec

-----------------------------------------------------------------------------
(* The messages are there before anything is called delivered *)

MessagesStay == \A r \in Reports, k \in Recipients : inbox[r][k] \subseteq inbox'[r][k]

\* No step takes a message out of a chat.
LEMMA MessagesAreKept == TypeOK /\ [Next]_vars => MessagesStay
<1> SUFFICES ASSUME TypeOK, [Next]_vars PROVE MessagesStay
  OBVIOUS
<1>1. CASE MessageArrives
  BY <1>1 DEF MessageArrives, MessagesStay, TypeOK
<1>2. CASE UNCHANGED inbox
  BY <1>2 DEF MessagesStay
<1> QED
  BY <1>1, <1>2
  DEF Next, CoreStep, SenderStep, OrphanStep, Fault, Publish, PublishSuperseding,
      CloseoutDecides, AutomationDecides, JobCommits, JobCrashes, StartRun, EmptyRun,
      TakeReport, FinishRun, SkipChat, OpenChat, LeaveChats, SendMessage, SendRaises,
      CallIsRead, CallReturns, CallRefused, ReplyLost, CallTimesOut, SenderCrashes,
      OrphanIsRead, OrphanCommits, OrphanDropped, vars

\* Being informed lasts.
LEMMA InformedStays ==
    ASSUME MessagesStay, NEW r \in Reports, NEW k \in Recipients, Informed(r, k)
    PROVE  Informed(r, k)'
BY DEF MessagesStay, Informed, Received

\* So what a call reports stays true while the call is under way.
LEMMA CallStaysTrue ==
    ASSUME MessagesStay, NEW c \in Calls, CallIsTrue(c)
    PROVE  CallIsTrue(c)'
BY InformedStays, KeysOfType DEF CallIsTrue, Calls

\* A handler that commits a true call leaves the database true.
LEMMA HandlerTruth ==
    ASSUME TypeOK, DeliveredRowMeansInformed, DeliveredReportMeansAllInformed,
           NEW c \in Calls, CallIsTrue(c), HandlerCommits(c), MessagesStay
    PROVE  DeliveredRowMeansInformed' /\ DeliveredReportMeansAllInformed'
<1> USE DEF TypeOK, Calls
<1>1. \A r \in Reports, k \in Recipients : rows'[r][k] = "delivered" =>
          rows[r][k] = "delivered" \/ (c.op = "recipient_delivered" /\ r = c.id /\ k \in c.rcpts)
  BY DEF HandlerCommits, register_report_recipients, mark_report_recipient_delivered,
         mark_report_recipient_failed, mark_report_delivered, mark_report_failed,
         MarkRecipients, MarkReport
<1>2. \A r \in Reports : outbox'[r].status = "delivered" =>
          outbox[r].status = "delivered" \/ (c.op = "report_delivered" /\ r = c.id)
  BY DEF HandlerCommits, register_report_recipients, mark_report_recipient_delivered,
         mark_report_recipient_failed, mark_report_delivered, mark_report_failed,
         MarkRecipients, MarkReport
<1>3. DeliveredRowMeansInformed'
  BY <1>1, InformedStays DEF DeliveredRowMeansInformed, CallIsTrue
<1>4. DeliveredReportMeansAllInformed'
  BY <1>2, InformedStays, KeysOfType DEF DeliveredReportMeansAllInformed, CallIsTrue
<1> QED BY <1>3, <1>4

\* Any other step leaves what is called delivered as it is, or less.
LEMMA DatabaseTruth == DeliveryInv /\ [Next]_vars =>
                         DeliveredRowMeansInformed' /\ DeliveredReportMeansAllInformed'
<1> SUFFICES ASSUME DeliveryInv, [Next]_vars
             PROVE  DeliveredRowMeansInformed' /\ DeliveredReportMeansAllInformed'
  OBVIOUS
<1>1. TypeOK /\ MessagesStay
  BY MessagesAreKept DEF DeliveryInv
<1>2. ASSUME rows' = rows,
             \A r \in Reports : outbox'[r].status = "delivered" => outbox[r].status = "delivered"
      PROVE  DeliveredRowMeansInformed' /\ DeliveredReportMeansAllInformed'
  BY <1>1, <1>2, InformedStays, KeysOfType
  DEF DeliveryInv, DeliveredRowMeansInformed, DeliveredReportMeansAllInformed
<1>3. CASE Publish
  BY <1>1, <1>2, <1>3 DEF Publish, TypeOK
<1>4. CASE PublishSuperseding
  BY <1>1, <1>2, <1>4 DEF PublishSuperseding, AfterSuperseding, TypeOK
<1>5. CASE JobCommits
  BY <1>1, <1>2, <1>5 DEF JobCommits, TypeOK
<1>6. CASE CallReturns \/ ReplyLost
  BY <1>1, <1>6, HandlerTruth DEF CallReturns, ReplyLost, TypeOK, DeliveryInv
<1>7. CASE OrphanCommits
  BY <1>1, <1>7, HandlerTruth DEF OrphanCommits, TypeOK, DeliveryInv
<1>8. CASE UNCHANGED dbVars
  BY <1>2, <1>8 DEF dbVars
<1> QED
  BY <1>3, <1>4, <1>5, <1>6, <1>7, <1>8
  DEF Next, CoreStep, SenderStep, OrphanStep, Fault,
      CloseoutDecides, AutomationDecides, JobCrashes, StartRun, EmptyRun,
      TakeReport, FinishRun, SkipChat, OpenChat, LeaveChats, SendMessage, SendRaises,
      CallIsRead, CallRefused, CallTimesOut, SenderCrashes,
      OrphanIsRead, OrphanDropped, vars

\* A call whose client has gone still reports the truth.
LEMMA OrphanTruth == DeliveryInv /\ [Next]_vars => \A c \in orphans' : CallIsTrue(c)'
<1> SUFFICES ASSUME DeliveryInv, [Next]_vars, NEW c \in orphans' PROVE CallIsTrue(c)'
  OBVIOUS
<1>1. TypeOK /\ MessagesStay
  BY MessagesAreKept DEF DeliveryInv
<1>2. CASE c \in orphans
  BY <1>1, <1>2, CallStaysTrue DEF DeliveryInv, TypeOK
<1>3. CASE pc = "call" /\ c = live
  BY <1>1, <1>3, CallStaysTrue DEF DeliveryInv, TypeOK
<1>4. CASE OrphanIsRead
  <2>1. PICK d \in orphans : orphans' = (orphans \ {d}) \cup {HandlerReads(d)}
    BY <1>4 DEF OrphanIsRead
  <2>2. CallIsTrue(HandlerReads(d)) /\ HandlerReads(d) \in Calls
    BY <1>1, HandlerReadsType DEF DeliveryInv, TypeOK, CallIsTrue
  <2> QED BY <1>1, <1>2, <2>1, <2>2, CallStaysTrue
<1> QED
  BY <1>2, <1>3, <1>4
  DEF Next, CoreStep, SenderStep, OrphanStep, Fault, Publish, PublishSuperseding,
      CloseoutDecides, AutomationDecides, JobCommits, JobCrashes, StartRun, EmptyRun,
      TakeReport, FinishRun, SkipChat, OpenChat, LeaveChats, SendMessage, SendRaises,
      CallIsRead, CallReturns, CallRefused, ReplyLost, CallTimesOut, SenderCrashes,
      OrphanCommits, OrphanDropped, vars

SenderIsTrue ==
    /\ ChatProgress
    /\ LocalIsTrue
    /\ pc = "call" => CallIsTrue(live)
    /\ CallFits

\* The sender learns nothing false.
LEMMA SenderTruth == DeliveryInv /\ [Next]_vars => SenderIsTrue'
<1> SUFFICES ASSUME DeliveryInv, [Next]_vars PROVE SenderIsTrue'
  OBVIOUS
<1>1. TypeOK /\ MessagesStay /\ SenderIsTrue /\ TypeOK'
  BY MessagesAreKept, TypeStep DEF DeliveryInv, SenderIsTrue
<1>2. DeliveredRowMeansInformed'
  BY DatabaseTruth
<1>3. pc \in {"chat", "send", "call"} => item \in Items /\ item.id \in Reports /\ allowed \in AllowedLists
  BY <1>1 DEF TypeOK, Items
<1>4. CASE UNCHANGED senderVars
  <2> USE <1>4 DEF senderVars
  <2>1. ChatProgress'
    BY <1>1, <1>3, CurrentRecipientType
    DEF SenderIsTrue, ChatProgress, MessagesStay, CurrentRecipient, TypeOK
  <2>2. LocalIsTrue'
    BY <1>1, <1>3, InformedStays DEF SenderIsTrue, LocalIsTrue, HasStatuses
  <2>3. (pc = "call" => CallIsTrue(live))'
    BY <1>1, CallStaysTrue DEF SenderIsTrue, TypeOK
  <2>4. CallFits'
    BY <1>1 DEF SenderIsTrue, CallFits, CurrentRecipient
  <2> QED BY <2>1, <2>2, <2>3, <2>4 DEF SenderIsTrue
<1>5. CASE pc' \in {"idle", "report"}
  BY <1>5 DEF SenderIsTrue, ChatProgress, LocalIsTrue, HasStatuses, CallFits
<1>6. CASE TakeReport
  BY <1>6 DEF TakeReport, Call, SenderIsTrue, ChatProgress, LocalIsTrue, HasStatuses,
              CallFits, CallIsTrue, RecipientOps
<1>7. CASE SkipChat
  BY <1>1, <1>3, <1>7, InformedStays
  DEF SkipChat, SenderIsTrue, ChatProgress, LocalIsTrue, HasStatuses, CallFits
<1>8. CASE OpenChat
  <2>1. NChunks[item.text] \in Nat \ {0}
    BY <1>3, <1>8, ConstantsAssumption DEF OpenChat, Items
  <2> QED
    BY <1>1, <1>3, <1>8, <2>1, InformedStays
    DEF OpenChat, SenderIsTrue, ChatProgress, LocalIsTrue, HasStatuses, CallFits
<1>9. CASE LeaveChats /\ pc' = "call"
  <2>1. \A k \in KeysOf(allowed) : local[k] = "delivered"
    BY <1>9 DEF LeaveChats, HasReport
  <2>2. live' = Call("report_delivered", item.id, {}) /\ UNCHANGED <<inbox, item, local, allowed>>
    BY <1>9, <2>1 DEF LeaveChats, AwaitCall, HasReport
  <2>3. \A k \in Recipients : local[k] = "delivered" => Informed(item.id, k)'
    BY <1>1, <1>3, <1>9, InformedStays DEF LeaveChats, SenderIsTrue, LocalIsTrue, HasStatuses
  <2>4. CallIsTrue(live)'
    BY <1>3, <1>9, <2>1, <2>2, <2>3, KeysOfType DEF LeaveChats, Call, CallIsTrue
  <2> QED
    BY <1>9, <2>2, <2>3, <2>4
    DEF Call, SenderIsTrue, ChatProgress, LocalIsTrue, CallFits, RecipientOps
<1>10. CASE SendMessage
  <2>1. /\ pos \in DOMAIN allowed /\ CurrentRecipient \in Recipients
        /\ UNCHANGED <<item, allowed, local, pos>> /\ CurrentRecipient' = CurrentRecipient
    BY <1>1, <1>3, <1>10, CurrentRecipientType DEF SendMessage, TypeOK, CurrentRecipient
  <2>2. [text |-> item.text, part |-> chunk] \in inbox'[item.id][CurrentRecipient]
    BY <1>1, <1>3, <1>10, <2>1 DEF SendMessage, MessageArrives, TypeOK
  <2>3. \A c \in 1 .. chunk : [text |-> item.text, part |-> c] \in inbox'[item.id][CurrentRecipient]
    <3>1. \A c \in 1 .. chunk : c \in 1 .. chunk - 1 \/ c = chunk
      BY <1>1 DEF TypeOK
    <3> QED
      BY <1>1, <1>3, <1>10, <2>1, <2>2, <3>1
      DEF SendMessage, SenderIsTrue, ChatProgress, MessagesStay
  <2>4. \A k \in Recipients : local[k] = "delivered" => Informed(item.id, k)'
    BY <1>1, <1>3, <1>10, InformedStays DEF SendMessage, SenderIsTrue, LocalIsTrue, HasStatuses
  <2>5. CASE IsLastChunk
    <3>1. live' = Call("recipient_delivered", item.id, {CurrentRecipient}) /\ pc' = "call"
      BY <1>10, <2>5 DEF SendMessage, AwaitCall
    <3>2. Informed(item.id, CurrentRecipient)'
      BY <1>3, <1>10, <2>1, <2>3, <2>5 DEF SendMessage, Items, IsLastChunk, Informed, Received
    <3> QED
      BY <2>1, <2>4, <3>1, <3>2
      DEF Call, CallIsTrue, SenderIsTrue, ChatProgress, LocalIsTrue, CallFits
  <2>6. CASE ~ IsLastChunk
    <3>1. pc' = "send" /\ chunk' = chunk + 1 /\ chunk' <= NChunks[item.text]
      <4>1. /\ NChunks[item.text] \in Nat /\ chunk \in Nat
            /\ chunk <= NChunks[item.text] /\ chunk # NChunks[item.text]
        BY <1>1, <1>3, <1>10, <2>6, ConstantsAssumption
        DEF SendMessage, Items, TypeOK, SenderIsTrue, ChatProgress, IsLastChunk
      <4> QED BY <1>10, <2>6, <4>1 DEF SendMessage
    <3> QED
      BY <1>1, <2>1, <2>3, <2>4, <3>1
      DEF TypeOK, SenderIsTrue, ChatProgress, LocalIsTrue, CallFits
  <2> QED BY <2>5, <2>6
<1>11. CASE SendRaises
  <2>1. /\ live' = Call("recipient_failed", item.id, {CurrentRecipient}) /\ pc' = "call"
        /\ UNCHANGED <<item, allowed, local, pos>> /\ CurrentRecipient' = CurrentRecipient
        /\ pos \in DOMAIN allowed
    BY <1>1, <1>11 DEF SendRaises, AwaitCall, TypeOK, CurrentRecipient
  <2>2. \A k \in Recipients : local[k] = "delivered" => Informed(item.id, k)'
    BY <1>1, <1>3, <1>11, InformedStays DEF SendRaises, SenderIsTrue, LocalIsTrue, HasStatuses
  <2> QED
    BY <2>1, <2>2 DEF Call, CallIsTrue, SenderIsTrue, ChatProgress, LocalIsTrue, CallFits
<1>12. CASE CallIsRead
  <2>1. /\ live \in Calls /\ live' = HandlerReads(live) /\ pc' = "call" /\ pc = "call"
        /\ UNCHANGED <<inbox, item, allowed, local, pos>> /\ CurrentRecipient' = CurrentRecipient
    BY <1>1, <1>12 DEF CallIsRead, TypeOK, CurrentRecipient
  <2>2. live'.op = live.op /\ live'.id = live.id /\ live'.rcpts = live.rcpts
    BY <2>1, HandlerReadsType
  <2>3. CallIsTrue(live)'
    BY <1>1, <2>1, <2>2, CallStaysTrue DEF SenderIsTrue, CallIsTrue
  <2>4. LocalIsTrue'
    BY <1>1, <1>3, <1>12, <2>1, <2>2, InformedStays DEF CallIsRead, SenderIsTrue, LocalIsTrue, HasStatuses
  <2> QED
    BY <1>1, <2>1, <2>2, <2>3, <2>4 DEF SenderIsTrue, ChatProgress, CallFits
<1>13. CASE CallReturns /\ pc' \notin {"idle", "report"}
  <2>1. /\ pc = "call" /\ live \in Calls /\ live.id = item.id /\ OnReply
    BY <1>1, <1>13 DEF CallReturns, SenderIsTrue, CallFits, TypeOK
  <2>2. CASE live.op = "register"
    BY <1>2, <1>3, <2>1, <2>2
    DEF OnReply, SenderIsTrue, ChatProgress, LocalIsTrue, HasStatuses, CallFits,
        DeliveredRowMeansInformed
  <2>3. CASE live.op = "recipient_delivered"
    <3>1. /\ local' = [local EXCEPT ![CurrentRecipient] = "delivered"]
          /\ pc' = "chat" /\ item' = item /\ allowed' = allowed
      BY <2>1, <2>3 DEF OnReply, ReportOps
    <3>2. \A k \in Recipients : local[k] = "delivered" => Informed(item.id, k)'
      BY <1>1, <1>3, <2>1, <2>3, <3>1, InformedStays DEF SenderIsTrue, LocalIsTrue, HasStatuses
    <3>3. \A k \in Recipients : k = CurrentRecipient => Informed(item.id, k)'
      BY <1>1, <1>3, <2>1, <2>3, <3>1, InformedStays
      DEF SenderIsTrue, CallIsTrue, CallFits, RecipientOps
    <3> QED
      BY <1>1, <3>1, <3>2, <3>3
      DEF TypeOK, SenderIsTrue, ChatProgress, LocalIsTrue, HasStatuses, CallFits
  <2>4. CASE live.op = "recipient_failed"
    <3>1. /\ live' = Call("report_failed", item.id, {}) /\ pc' = "call"
          /\ UNCHANGED <<item, allowed, local, pos>>
      BY <2>1, <2>4 DEF OnReply, ReportOps, AwaitCall
    <3>2. \A k \in Recipients : local[k] = "delivered" => Informed(item.id, k)'
      BY <1>1, <1>3, <2>1, <2>4, <3>1, InformedStays DEF SenderIsTrue, LocalIsTrue, HasStatuses
    <3> QED
      BY <3>1, <3>2
      DEF Call, CallIsTrue, SenderIsTrue, ChatProgress, LocalIsTrue, CallFits, RecipientOps
  <2>5. CASE live.op \in ReportOps
    BY <1>13, <2>1, <2>5 DEF OnReply, ReportOps
  <2> QED BY <2>1, <2>2, <2>3, <2>4, <2>5 DEF Calls, RecipientOps
<1>14. CASE pc = "call" /\ OnCallError /\ pc' # "idle"
  <2>1. /\ live \in Calls /\ live.id = item.id /\ live.op = "recipient_delivered"
        /\ pos \in DOMAIN allowed /\ live.rcpts = {CurrentRecipient}
    BY <1>1, <1>14 DEF OnCallError, EndRun, SenderIsTrue, CallFits, RecipientOps, TypeOK
  <2>2. /\ live' = Call("recipient_failed", item.id, live.rcpts) /\ pc' = "call"
        /\ UNCHANGED <<item, allowed, local, pos>> /\ CurrentRecipient' = CurrentRecipient
    BY <1>14, <2>1 DEF OnCallError, AwaitCall, CurrentRecipient
  <2>3. \A k \in Recipients : local[k] = "delivered" => Informed(item.id, k)'
    BY <1>1, <1>3, <1>14, <2>1, <2>2, InformedStays DEF SenderIsTrue, LocalIsTrue, HasStatuses
  <2> QED
    BY <2>1, <2>2, <2>3
    DEF Call, CallIsTrue, SenderIsTrue, ChatProgress, LocalIsTrue, CallFits
<1> QED
  BY <1>4, <1>5, <1>6, <1>7, <1>8, <1>9, <1>10, <1>11, <1>12, <1>13, <1>14
  DEF Next, CoreStep, SenderStep, OrphanStep, Fault, Publish, PublishSuperseding,
      CloseoutDecides, AutomationDecides, JobCommits, JobCrashes, StartRun, EmptyRun,
      FinishRun, EndRun, LeaveChats, CallReturns, CallRefused, ReplyLost, CallTimesOut,
      SenderCrashes, OrphanIsRead, OrphanCommits, OrphanDropped, vars, AwaitCall

\* DeliveryInv is inductive.
LEMMA DeliveryInit == Init => DeliveryInv
<1> SUFFICES ASSUME Init PROVE DeliveryInv
  OBVIOUS
<1>1. TypeOK
  BY InitType
<1> QED
  BY <1>1
  DEF Init, DeliveryInv, DeliveredRowMeansInformed, DeliveredReportMeansAllInformed,
      ChatProgress, LocalIsTrue, HasStatuses, CallFits

LEMMA DeliveryStep == DeliveryInv /\ [Next]_vars => DeliveryInv'
BY TypeStep, DatabaseTruth, OrphanTruth, SenderTruth DEF DeliveryInv, SenderIsTrue

\* DeliveryInv holds in every reachable state.
THEOREM DeliveryInvariant == Spec => []DeliveryInv
BY DeliveryInit, DeliveryStep, PTL DEF Spec

\* A row or a report that says "delivered" is true, in every reachable state.
THEOREM DeliveredMeansInformed == Spec => []DeliveredRowMeansInformed
<1>1. DeliveryInv => DeliveredRowMeansInformed
  BY DEF DeliveryInv
<1> QED BY <1>1, DeliveryInvariant, PTL

\* A report is called delivered only when every chat of a finished run over
\* ALLOWED_IDS holds a whole text of it (run_once, mark_report_delivered).
THEOREM DeliveredReportsMeanInformed == Spec => []DeliveredReportMeansAllInformed
<1>1. DeliveryInv => DeliveredReportMeansAllInformed
  BY DEF DeliveryInv
<1> QED BY <1>1, DeliveryInvariant, PTL

-----------------------------------------------------------------------------
(* Without late handlers: nothing is taken back, nobody is written to twice *)

SenderIsFresh ==
    /\ LocalIsFresh
    /\ DecisionIsFresh
    /\ pc = "send" => ~ HasReport(CurrentRecipient)

\* No handler is left behind.
LEMMA NoOrphans ==
    ASSUME MaxOrphans = 0, orphans = {}, [Next]_vars
    PROVE  orphans' = {}
<1>1. ~ MayLinger
  BY FS_EmptySet DEF MayLinger
<1> QED
  BY <1>1
  DEF Next, CoreStep, SenderStep, OrphanStep, Fault, Publish, PublishSuperseding,
      CloseoutDecides, AutomationDecides, JobCommits, JobCrashes, StartRun, EmptyRun,
      TakeReport, FinishRun, SkipChat, OpenChat, LeaveChats, SendMessage, SendRaises,
      CallIsRead, CallReturns, CallRefused, ReplyLost, CallTimesOut, SenderCrashes,
      OrphanIsRead, OrphanCommits, OrphanDropped, vars

\* The sender's knowledge of the rows stays up to date.
LEMMA FreshStep == PromptInv /\ [Next]_vars => SenderIsFresh'
<1> SUFFICES ASSUME PromptInv, [Next]_vars PROVE SenderIsFresh'
  OBVIOUS
<1>1. TypeOK /\ TypeOK' /\ CallFits /\ SenderIsFresh /\ orphans = {}
  BY TypeStep DEF PromptInv, DeliveryInv, SenderIsFresh
<1>2. pc \in {"chat", "send", "call"} =>
          /\ item \in Items /\ item.id \in Reports
          /\ allowed \in AllowedLists /\ KeysOf(allowed) \subseteq Recipients
  BY <1>1, KeysOfType DEF TypeOK, Items
<1> USE DEF SenderIsFresh
<1>3. CASE UNCHANGED senderVars /\ rows' = rows /\
           \A r \in Reports : outbox'[r].status = "delivered" => outbox[r].status = "delivered"
  BY <1>1, <1>3
  DEF senderVars, LocalIsFresh, DecisionIsFresh, HasReport, CurrentRecipient,
      NotYetDelivered, TypeOK, Calls
<1>4. CASE pc' \in {"idle", "report"}
  BY <1>4 DEF LocalIsFresh, DecisionIsFresh
<1>5. CASE TakeReport
  BY <1>5 DEF TakeReport, Call, LocalIsFresh, DecisionIsFresh
<1>6. CASE SkipChat
  BY <1>1, <1>6 DEF SkipChat, dbVars, LocalIsFresh, DecisionIsFresh, HasReport
<1>7. CASE OpenChat
  BY <1>1, <1>7
  DEF OpenChat, dbVars, LocalIsFresh, DecisionIsFresh, HasReport, CurrentRecipient
<1>8. CASE LeaveChats /\ pc' = "call"
  BY <1>8 DEF LeaveChats, AwaitCall, Call, LocalIsFresh, DecisionIsFresh
<1>9. CASE SendMessage
  BY <1>1, <1>9
  DEF SendMessage, dbVars, AwaitCall, Call, LocalIsFresh, DecisionIsFresh, HasReport,
      CurrentRecipient
<1>10. CASE SendRaises
  BY <1>10 DEF SendRaises, AwaitCall, Call, LocalIsFresh, DecisionIsFresh
<1>11. CASE CallIsRead
  <2>1. /\ live \in Calls /\ live' = HandlerReads(live) /\ pc' = "call" /\ pc = "call"
        /\ UNCHANGED <<outbox, rows, item, allowed, local, pos>> /\ live.op # "register"
    BY <1>1, <1>11 DEF CallIsRead, TypeOK, dbVars
  <2>2. /\ live'.op = live.op /\ live'.id = live.id /\ live'.rcpts = live.rcpts
        /\ live'.phase = "write" => NotYetDelivered(live)
    BY <2>1, HandlerReadsType
  <2> QED
    BY <1>1, <2>1, <2>2
    DEF LocalIsFresh, DecisionIsFresh, HasReport, CurrentRecipient, NotYetDelivered
<1>12. CASE CallReturns /\ pc' \notin {"idle", "report"}
  <2>1. /\ pc = "call" /\ live \in Calls /\ live.id = item.id /\ OnReply /\ HandlerCommits(live)
    BY <1>1, <1>12 DEF CallReturns, CallFits, TypeOK
  <2>2. CASE live.op = "register"
    <3>1. /\ pc' = "chat" /\ UNCHANGED <<item, allowed>> /\ live.rcpts = KeysOf(allowed)
          /\ local' = [k \in Recipients |-> IF k \in live.rcpts THEN rows'[live.id][k] ELSE "none"]
      BY <1>1, <2>1, <2>2 DEF OnReply, ReportOps, CallFits
    <3> QED BY <1>2, <2>1, <3>1 DEF LocalIsFresh, DecisionIsFresh, HasReport
  <2>3. CASE live.op = "recipient_delivered"
    <3>1. /\ pc' = "chat" /\ UNCHANGED <<item, allowed>> /\ live.rcpts = {CurrentRecipient}
          /\ local' = [local EXCEPT ![CurrentRecipient] = "delivered"]
      BY <1>1, <2>1, <2>3 DEF OnReply, ReportOps, CallFits, RecipientOps
    <3>2. \A k \in Recipients : k # CurrentRecipient => rows'[item.id][k] = rows[item.id][k]
      BY <1>1, <1>2, <2>1, <2>3, <3>1
      DEF HandlerCommits, mark_report_recipient_delivered, MarkRecipients, TypeOK,
          register_report_recipients, mark_report_recipient_failed, mark_report_delivered,
          mark_report_failed
    <3>3. \A k \in Recipients : local'[k] = IF k = CurrentRecipient THEN "delivered" ELSE local[k]
      BY <1>1, <3>1 DEF TypeOK
    <3> QED
      BY <1>1, <1>2, <2>1, <2>3, <3>1, <3>2, <3>3 DEF LocalIsFresh, DecisionIsFresh, HasReport
  <2>4. CASE live.op \in ReportOps \cup {"recipient_failed"}
    BY <1>12, <2>1, <2>4
    DEF OnReply, ReportOps, AwaitCall, Call, LocalIsFresh, DecisionIsFresh
  <2> QED BY <2>1, <2>2, <2>3, <2>4 DEF Calls, RecipientOps
<1>13. CASE pc = "call" /\ OnCallError /\ pc' # "idle"
  BY <1>13 DEF OnCallError, EndRun, AwaitCall, Call, LocalIsFresh, DecisionIsFresh
<1>14. CASE OrphanStep \/ OrphanDropped
  BY <1>1, <1>14 DEF OrphanStep, OrphanIsRead, OrphanCommits, OrphanDropped
<1>15. CASE Publish \/ PublishSuperseding \/ JobCommits
  <2>1. \A r \in Reports : outbox'[r].status = "delivered" => outbox[r].status = "delivered"
    <3>1. CASE Publish
      BY <1>1, <3>1 DEF Publish, TypeOK
    <3>2. CASE PublishSuperseding
      BY <1>1, <3>2 DEF PublishSuperseding, AfterSuperseding, TypeOK
    <3>3. CASE JobCommits
      BY <1>1, <3>3 DEF JobCommits, TypeOK
    <3> QED BY <1>15, <3>1, <3>2, <3>3
  <2> QED BY <1>3, <1>15, <2>1 DEF Publish, PublishSuperseding, JobCommits
<1>16. CASE UNCHANGED <<senderVars, dbVars>>
  BY <1>3, <1>16 DEF dbVars
<1> QED
  BY <1>4, <1>5, <1>6, <1>7, <1>8, <1>9, <1>10, <1>11, <1>12, <1>13, <1>14, <1>15, <1>16
  DEF Next, CoreStep, SenderStep, Fault, CloseoutDecides, AutomationDecides, JobCrashes,
      StartRun, EmptyRun, FinishRun, EndRun, LeaveChats, CallReturns, CallRefused,
      ReplyLost, CallTimesOut, SenderCrashes, vars, AwaitCall

\* PromptInv holds in every reachable state when no handler outlives its client.
THEOREM PromptInvariant ==
    ASSUME MaxOrphans = 0
    PROVE  Spec => []PromptInv
<1>1. Init => PromptInv
  <2>1. Init => DeliveryInv
    BY DeliveryInit
  <2> QED BY <2>1 DEF Init, PromptInv, LocalIsFresh, DecisionIsFresh
<1>2. PromptInv /\ [Next]_vars => PromptInv'
  BY NoOrphans, DeliveryStep, FreshStep DEF PromptInv, SenderIsFresh
<1> QED BY <1>1, <1>2, PTL DEF Spec

\* A chat whose row says "delivered" is not written to again.
THEOREM NobodyIsWrittenToTwice ==
    ASSUME MaxOrphans = 0
    PROVE  Spec => []NoMessageAfterDelivery
<1>1. PromptInv => NoMessageAfterDelivery
  BY CurrentRecipientType
  DEF PromptInv, DeliveryInv, TypeOK, LocalIsFresh, NoMessageAfterDelivery
<1> QED BY <1>1, PromptInvariant, PTL

\* No step takes "delivered" back, of a recipient or of a report.
LEMMA DeliveredStep == PromptInv /\ [Next]_vars => DeliveredStays
<1> SUFFICES ASSUME PromptInv, [Next]_vars PROVE DeliveredStays
  OBVIOUS
<1>1. TypeOK /\ DecisionIsFresh /\ orphans = {}
  BY DEF PromptInv, DeliveryInv
<1>2. ASSUME pc = "call", HandlerCommits(live) PROVE DeliveredStays
  <2>1. live \in Calls
    BY <1>1, <1>2 DEF TypeOK
  <2>2. CASE register_report_recipients(live)
    BY <1>1, <2>1, <2>2 DEF register_report_recipients, TypeOK, Calls, DeliveredStays
  <2>3. CASE mark_report_recipient_delivered(live)
    BY <1>1, <2>1, <2>3
    DEF mark_report_recipient_delivered, MarkRecipients, TypeOK, Calls, DeliveredStays
  <2>4. CASE mark_report_recipient_failed(live)
    <3>1. live.phase = "write" => \A k \in live.rcpts : rows[live.id][k] # "delivered"
      BY <1>1, <1>2, <2>4
      DEF mark_report_recipient_failed, DecisionIsFresh, NotYetDelivered, ReportOps
    <3> QED
      BY <1>1, <2>1, <2>4, <3>1
      DEF mark_report_recipient_failed, MarkRecipients, TypeOK, Calls, DeliveredStays
  <2>5. CASE mark_report_delivered(live)
    BY <1>1, <2>1, <2>5 DEF mark_report_delivered, MarkReport, TypeOK, Calls, DeliveredStays
  <2>6. CASE mark_report_failed(live)
    <3>1. live.phase = "write" => outbox[live.id].status # "delivered"
      BY <1>1, <1>2, <2>6 DEF mark_report_failed, DecisionIsFresh, NotYetDelivered, ReportOps
    <3> QED
      BY <1>1, <2>1, <2>6, <3>1 DEF mark_report_failed, MarkReport, TypeOK, Calls, DeliveredStays
  <2> QED BY <1>2, <2>2, <2>3, <2>4, <2>5, <2>6 DEF HandlerCommits
<1>3. CASE Publish
  BY <1>1, <1>3 DEF Publish, NextRow, Present, TypeOK, DeliveredStays
<1>4. CASE PublishSuperseding
  BY <1>1, <1>4 DEF PublishSuperseding, AfterSuperseding, NextRow, Present, TypeOK, DeliveredStays
<1>5. CASE JobCommits
  BY <1>1, <1>5 DEF JobCommits, TypeOK, DeliveredStays
<1>6. CASE UNCHANGED dbVars
  BY <1>6 DEF dbVars, DeliveredStays
<1> QED
  BY <1>1, <1>2, <1>3, <1>4, <1>5, <1>6
  DEF Next, CoreStep, SenderStep, OrphanStep, Fault,
      CloseoutDecides, AutomationDecides, JobCrashes, StartRun, EmptyRun,
      TakeReport, FinishRun, SkipChat, OpenChat, LeaveChats, SendMessage, SendRaises,
      CallIsRead, CallReturns, CallRefused, ReplyLost, CallTimesOut, SenderCrashes,
      OrphanIsRead, OrphanCommits, OrphanDropped, vars

\* Once delivered, always delivered.
THEOREM DeliveredForGood ==
    ASSUME MaxOrphans = 0
    PROVE  Spec => DeliveredIsFinal
<1>1. PromptInv /\ [Next]_vars => [DeliveredStays]_vars
  BY DeliveredStep
<1> QED BY <1>1, PromptInvariant, PTL DEF Spec, DeliveredIsFinal

-----------------------------------------------------------------------------
(* The promise is kept *)

\* A handler that commits acknowledges one chat, concludes one report, or
\* changes neither.
LEMMA HandlerKeepsPromise ==
    ASSUME PromptInv, pc = "call", HandlerCommits(live), UNCHANGED inbox
    PROVE  [Promise!Next]_(Promise!promiseVars)
<1>1. /\ TypeOK /\ DecisionIsFresh /\ CallFits /\ CallIsTrue(live)
      /\ live \in Calls /\ live.id \in Reports
  BY DEF PromptInv, DeliveryInv, TypeOK, Calls
<1>2. CASE UNCHANGED <<Acknowledged, Concluded>>
  BY <1>2 DEF Promise!promiseVars
<1>3. CASE register_report_recipients(live)
  <2>1. /\ UNCHANGED outbox
        /\ \A r \in Reports, k \in Recipients : rows'[r][k] = "delivered" <=> rows[r][k] = "delivered"
    BY <1>1, <1>3 DEF register_report_recipients, TypeOK
  <2> QED BY <1>2, <2>1 DEF Acknowledged, Concluded
<1>4. CASE mark_report_recipient_delivered(live) /\ live.phase = "write"
  <2>1. /\ live.rcpts = {CurrentRecipient} /\ CurrentRecipient \in Recipients
    BY <1>1, <1>4, CurrentRecipientType
    DEF mark_report_recipient_delivered, CallFits, RecipientOps, TypeOK
  <2>2. /\ UNCHANGED outbox
        /\ \A r \in Reports, k \in Recipients :
              rows'[r][k] = "delivered" <=>
                  rows[r][k] = "delivered" \/ (r = live.id /\ k = CurrentRecipient)
    BY <1>1, <1>4, <2>1 DEF mark_report_recipient_delivered, MarkRecipients, TypeOK
  <2>3. /\ UNCHANGED Concluded
        /\ Acknowledged' = Acknowledged \cup {<<live.id, CurrentRecipient>>}
    BY <1>1, <2>1, <2>2 DEF Acknowledged, Concluded
  <2>4. Promise!HasWhole(live.id, CurrentRecipient)
    BY <1>1, <1>4, <2>1
    DEF mark_report_recipient_delivered, CallIsTrue, Informed, Received, Promise!HasWhole, MessagesOf
  <2>5. Promise!Acknowledge(live.id, CurrentRecipient)
    BY <2>3, <2>4 DEF Promise!Acknowledge
  <2> QED BY <1>1, <2>1, <2>5 DEF Promise!Next
<1>5. CASE mark_report_recipient_failed(live) /\ live.phase = "write"
  <2>1. \A k \in live.rcpts : rows[live.id][k] # "delivered"
    BY <1>1, <1>5 DEF mark_report_recipient_failed, DecisionIsFresh, NotYetDelivered, ReportOps
  <2>2. /\ UNCHANGED outbox
        /\ \A r \in Reports, k \in Recipients : rows'[r][k] = "delivered" <=> rows[r][k] = "delivered"
    BY <1>1, <1>5, <2>1 DEF mark_report_recipient_failed, MarkRecipients, TypeOK
  <2> QED BY <1>2, <2>2 DEF Acknowledged, Concluded
<1>6. CASE mark_report_delivered(live) /\ live.phase = "write"
  <2>1. /\ UNCHANGED rows
        /\ \A r \in Reports : outbox'[r].status = "delivered" <=>
              outbox[r].status = "delivered" \/ r = live.id
    BY <1>1, <1>6 DEF mark_report_delivered, MarkReport, TypeOK
  <2>2. UNCHANGED Acknowledged /\ Concluded' = Concluded \cup {live.id}
    BY <1>1, <2>1 DEF Acknowledged, Concluded
  <2>3. PICK list \in AllowedLists : \A k \in KeysOf(list) : Informed(live.id, k)
    BY <1>1, <1>6 DEF mark_report_delivered, CallIsTrue
  <2>4. KeysOf(list) \in PossibleAudiences
    BY DEF PossibleAudiences
  <2>5. \A k \in KeysOf(list) : Promise!HasWhole(live.id, k)
    BY <2>3 DEF Informed, Received, Promise!HasWhole, MessagesOf
  <2>6. Promise!Conclude(live.id)
    BY <2>2, <2>4, <2>5 DEF Promise!Conclude
  <2> QED BY <1>1, <2>6 DEF Promise!Next
<1>7. CASE mark_report_failed(live) /\ live.phase = "write"
  <2>1. outbox[live.id].status # "delivered"
    BY <1>1, <1>7 DEF mark_report_failed, DecisionIsFresh, NotYetDelivered, ReportOps
  <2>2. /\ UNCHANGED rows
        /\ \A r \in Reports : outbox'[r].status = "delivered" <=> outbox[r].status = "delivered"
    BY <1>1, <1>7, <2>1 DEF mark_report_failed, MarkReport, TypeOK
  <2> QED BY <1>2, <2>2 DEF Acknowledged, Concluded
<1>8. CASE UNCHANGED <<rows, outbox>>
  BY <1>2, <1>8 DEF Acknowledged, Concluded
<1> QED
  BY <1>3, <1>4, <1>5, <1>6, <1>7, <1>8
  DEF HandlerCommits, mark_report_recipient_delivered, mark_report_recipient_failed,
      mark_report_delivered, mark_report_failed, MarkRecipients, MarkReport

\* Every step of the program is a step of the promise, or changes nothing it sees.
LEMMA PromiseStep ==
    PromptInv /\ [Next]_vars => [Promise!Next]_(Promise!promiseVars)
<1> SUFFICES ASSUME PromptInv, [Next]_vars PROVE [Promise!Next]_(Promise!promiseVars)
  OBVIOUS
<1>1. TypeOK /\ ChatProgress /\ orphans = {}
  BY DEF PromptInv, DeliveryInv
<1>2. CASE UNCHANGED <<inbox, rows>> /\
           \A r \in Reports : outbox'[r].status = "delivered" <=> outbox[r].status = "delivered"
  BY <1>2 DEF Acknowledged, Concluded, Promise!promiseVars
<1>3. CASE Publish
  BY <1>1, <1>2, <1>3 DEF Publish, NextRow, Present, TypeOK
<1>4. CASE PublishSuperseding
  BY <1>1, <1>2, <1>4 DEF PublishSuperseding, AfterSuperseding, NextRow, Present, TypeOK
<1>5. CASE JobCommits
  BY <1>1, <1>2, <1>5 DEF JobCommits, TypeOK
<1>6. ASSUME pc = "send", MessageArrives, UNCHANGED dbVars
      PROVE  [Promise!Next]_(Promise!promiseVars)
  <2>1. /\ item.id \in Reports /\ item.text \in Texts /\ CurrentRecipient \in Recipients
        /\ chunk \in 1 .. NChunks[item.text]
    BY <1>1, <1>6, CurrentRecipientType, ConstantsAssumption DEF TypeOK, Items, ChatProgress
  <2>2. rows[item.id][CurrentRecipient] # "delivered"
    BY <1>6, CurrentRecipientType DEF PromptInv, DeliveryInv, TypeOK, LocalIsFresh
  <2>3. [text |-> item.text, part |-> chunk] \in MessagesOf[item.text]
    BY <2>1 DEF MessagesOf
  <2>4. Promise!Hear(item.id, CurrentRecipient)
    BY <1>6, <2>1, <2>2, <2>3 DEF Promise!Hear, MessageArrives, Acknowledged, Concluded, dbVars
  <2> QED BY <2>1, <2>4 DEF Promise!Next
<1>7. CASE CallReturns \/ ReplyLost
  BY <1>7, HandlerKeepsPromise DEF CallReturns, ReplyLost
<1>8. CASE UNCHANGED <<dbVars, inbox>>
  BY <1>2, <1>8 DEF dbVars
<1> QED
  BY <1>1, <1>3, <1>4, <1>5, <1>6, <1>7, <1>8
  DEF Next, CoreStep, SenderStep, OrphanStep, Fault,
      CloseoutDecides, AutomationDecides, JobCrashes, StartRun, EmptyRun,
      TakeReport, FinishRun, SkipChat, OpenChat, LeaveChats, SendMessage, SendRaises,
      CallIsRead, CallRefused, CallTimesOut, SenderCrashes,
      OrphanIsRead, OrphanCommits, OrphanDropped, vars

\* The sender and the internal API implement DeliveryPromise.
THEOREM DeliveryKeepsPromise ==
    ASSUME MaxOrphans = 0
    PROVE  Spec => KeepsPromise
<1>1. Init => Promise!Init
  BY DEF Init, Promise!Init, Acknowledged, Concluded
<1>2. PromptInv /\ [Next]_vars => [Promise!Next]_(Promise!promiseVars)
  BY PromiseStep
<1> QED BY <1>1, <1>2, PromptInvariant, PTL DEF Spec, KeepsPromise, Promise!Spec

-----------------------------------------------------------------------------
(* Under the wrapper's lock: one text per report *)

\* A registered report stays registered, and only a job changes a text.
LEMMA RowsAndTexts ==
    ASSUME TypeOK, [Next]_vars, ~ Automation
    PROVE  /\ \A r \in Reports : Registered(r) => Registered(r)'
           /\ JobCommits \/ \A r \in Reports : Present(r) => outbox'[r].text = outbox[r].text
<1>1. ASSUME NEW c \in Calls, HandlerCommits(c)
      PROVE  /\ \A r \in Reports : Registered(r) => Registered(r)'
             /\ \A r \in Reports : outbox'[r].text = outbox[r].text
  <2>0. c.id \in Reports /\ c.rcpts \subseteq Recipients
    BY DEF Calls
  <2>1. CASE c.op = "register" /\ register_report_recipients(c)
    <3>1. \A r \in Reports, k \in Recipients : rows[r][k] # "none" => rows'[r][k] # "none"
      BY <2>0, <2>1 DEF register_report_recipients, TypeOK
    <3> QED BY <2>1, <3>1 DEF Registered, register_report_recipients
  <2>2. ASSUME NEW s \in {"delivered", "failed"}, MarkRecipients(c, s)
        PROVE  /\ \A r \in Reports : Registered(r) => Registered(r)'
               /\ \A r \in Reports : outbox'[r].text = outbox[r].text
    <3>1. \A r \in Reports, k \in Recipients : rows[r][k] # "none" => rows'[r][k] # "none"
      BY <2>0, <2>2 DEF MarkRecipients, TypeOK
    <3> QED BY <2>2, <3>1 DEF Registered, MarkRecipients
  <2>3. ASSUME NEW s \in {"delivered", "failed"}, MarkReport(c, s)
        PROVE  /\ \A r \in Reports : Registered(r) => Registered(r)'
               /\ \A r \in Reports : outbox'[r].text = outbox[r].text
    <3>1. \A r \in Reports : outbox'[r].text = outbox[r].text
      BY <2>0, <2>3 DEF MarkReport, TypeOK
    <3> QED BY <2>3, <3>1 DEF Registered, MarkReport
  <2> QED
    BY <1>1, <2>1, <2>2, <2>3
    DEF HandlerCommits, register_report_recipients, mark_report_recipient_delivered,
        mark_report_recipient_failed, mark_report_delivered, mark_report_failed
<1>2. CASE CallReturns \/ ReplyLost
  BY <1>1, <1>2 DEF CallReturns, ReplyLost, TypeOK
<1>3. CASE OrphanCommits
  BY <1>1, <1>3 DEF OrphanCommits, TypeOK
<1>4. CASE Publish
  BY <1>4 DEF Publish, NextRow, Registered, Present, TypeOK
<1>5. CASE JobCommits
  BY <1>5 DEF JobCommits, Registered
<1>6. CASE UNCHANGED dbVars
  BY <1>6 DEF dbVars, Registered
<1> QED
  BY <1>2, <1>3, <1>4, <1>5, <1>6
  DEF Next, CoreStep, SenderStep, OrphanStep, Fault, PublishSuperseding,
      CloseoutDecides, AutomationDecides, JobCrashes, StartRun, EmptyRun,
      TakeReport, FinishRun, SkipChat, OpenChat, LeaveChats, SendMessage, SendRaises,
      CallIsRead, CallRefused, CallTimesOut, SenderCrashes,
      OrphanIsRead, OrphanDropped, vars

\* A chat has heard only of reports that have rows.
LEMMA HeardIsPresent ==
    ASSUME TypeOK, ChatsAgree, NEW r \in Reports, NEW k \in Recipients, inbox[r][k] # {}
    PROVE  Present(r)
BY DEF TypeOK, ChatsAgree

\* The chats keep agreeing with the row.
LEMMA ChatsAgreeStep ==
    ASSUME WrapperInv, [Next]_vars, ~ Automation
    PROVE  ChatsAgree'
<1>1. TypeOK /\ TypeOK' /\ ChatsAgree /\ SenderAgrees /\ JobIsAlone
  BY TypeStep DEF WrapperInv, DeliveryInv
<1>2. \A r \in Reports : Registered(r) => Registered(r)'
  BY <1>1, RowsAndTexts
<1>3. CASE JobCommits
  <2>1. /\ job # NoJob /\ UNCHANGED inbox
        /\ \A k \in Recipients : inbox[job.id][k] = {}
        /\ \A r \in Reports : r # job.id => outbox'[r].text = outbox[r].text
    BY <1>1, <1>3 DEF JobCommits, JobIsAlone, TypeOK
  <2>2. ASSUME NEW r \in Reports, NEW k \in Recipients
        PROVE  /\ inbox'[r][k] # {} => Registered(r)'
               /\ \A m \in inbox'[r][k] : m.text = outbox'[r].text
    <3>1. CASE r = job.id
      BY <2>1, <3>1
    <3>2. CASE r # job.id
      <4>1. /\ inbox[r][k] # {} => Registered(r)
            /\ \A m \in inbox[r][k] : m.text = outbox[r].text
        BY <1>1, <2>2 DEF ChatsAgree
      <4>2. outbox'[r].text = outbox[r].text /\ inbox'[r][k] = inbox[r][k]
        BY <2>1, <2>2, <3>2
      <4>3. Registered(r) => Registered(r)'
        BY <1>2, <2>2
      <4> QED BY <4>1, <4>2, <4>3
    <3> QED BY <3>1, <3>2
  <2> QED BY <2>2 DEF ChatsAgree
<1>4. CASE MessageArrives /\ pc = "send" /\ UNCHANGED dbVars
  <2>1. /\ item.id \in Reports /\ CurrentRecipient \in Recipients
        /\ Registered(item.id) /\ item.text = outbox[item.id].text
    BY <1>1, <1>4, CurrentRecipientType DEF SenderAgrees, HasStatuses, TypeOK, Items
  <2>2. \A r \in Reports, k \in Recipients : \A m : m \in inbox'[r][k] =>
            m \in inbox[r][k] \/ (r = item.id /\ m.text = item.text)
    BY <1>1, <1>4, <2>1 DEF MessageArrives, TypeOK
  <2> QED BY <1>1, <1>2, <1>4, <2>1, <2>2 DEF ChatsAgree, dbVars
<1>5. CASE UNCHANGED inbox /\ ~ JobCommits
  BY <1>1, <1>2, <1>5, RowsAndTexts, HeardIsPresent DEF ChatsAgree
<1> QED
  BY <1>3, <1>4, <1>5
  DEF Next, CoreStep, SenderStep, OrphanStep, Fault, Publish, PublishSuperseding,
      CloseoutDecides, AutomationDecides, JobCrashes, StartRun, EmptyRun,
      TakeReport, FinishRun, SkipChat, OpenChat, LeaveChats, SendMessage, SendRaises,
      CallIsRead, CallReturns, CallRefused, ReplyLost, CallTimesOut, SenderCrashes,
      OrphanIsRead, OrphanCommits, OrphanDropped, vars

\* A registration that commits leaves a row behind.
LEMMA RegistrationRegisters ==
    ASSUME TypeOK, pc = "call", live.op = "register", CallFits, HandlerCommits(live)
    PROVE  Registered(item.id)'  \/ item' # item
<1>1. /\ allowed \in AllowedLists /\ live.rcpts = KeysOf(allowed) /\ live.id = item.id
      /\ live.id \in Reports
  BY DEF TypeOK, CallFits, Calls
<1>2. PICK k \in Recipients : k \in live.rcpts
  <2>1. allowed \in Seq(Recipients) /\ allowed # << >>
    BY <1>1, ConstantsAssumption
  <2>2. 1 \in DOMAIN allowed /\ allowed[1] \in Recipients
    BY <2>1
  <2> QED BY <1>1, <2>2 DEF KeysOf
<1>3. rows'[live.id][k] # "none"
  BY SMTT(40), <1>1, <1>2
  DEF HandlerCommits, register_report_recipients, mark_report_recipient_delivered,
      mark_report_recipient_failed, mark_report_delivered, mark_report_failed, TypeOK
<1> QED BY <1>1, <1>2, <1>3 DEF Registered

\* The sender's texts keep agreeing with the rows.
LEMMA SenderAgreesStep ==
    ASSUME WrapperInv, [Next]_vars, ~ Automation, WrapperOnly
    PROVE  SenderAgrees'
<1>1. /\ TypeOK /\ TypeOK' /\ SenderAgrees /\ JobIsAlone /\ CallFits
      /\ (pc = "call" => live \in Calls)
  BY TypeStep DEF WrapperInv, DeliveryInv, TypeOK
<1>2. \A r \in Reports : Registered(r) => Registered(r)'
  BY <1>1, RowsAndTexts
<1>3. CASE pc = "idle" /\ UNCHANGED senderVars
  BY <1>1, <1>3 DEF SenderAgrees, HasStatuses, senderVars
<1>4. CASE pc' = "idle" /\ queue' = {}
  BY <1>4 DEF SenderAgrees, HasStatuses
<1>5. ASSUME NEW retry \in BOOLEAN, StartRun(retry) PROVE SenderAgrees'
  <2>1. \A it \in pending_reports(retry) :
            \E r \in Reports : it = [id |-> r, text |-> outbox[r].text]
    BY DEF pending_reports
  <2> QED BY <1>5, <2>1 DEF StartRun, dbVars, SenderAgrees, HasStatuses
<1>6. ASSUME pc # "idle", ~ JobCommits
      PROVE  /\ \A it \in queue : it.text = outbox'[it.id].text
             /\ pc \in {"chat", "send", "call"} => item.text = outbox'[item.id].text
  <2>1. \A it \in Items : it.text = outbox[it.id].text => it.text = outbox'[it.id].text
    BY <1>1, <1>6, RowsAndTexts DEF TypeOK, Items
  <2> QED BY <1>1, <2>1 DEF SenderAgrees, TypeOK
<1>7. CASE TakeReport
  <2>1. PICK it \in queue : /\ item' = it /\ queue' = queue \ {it}
                            /\ live' = Call("register", it.id, KeysOf(allowed))
    BY <1>7 DEF TakeReport
  <2> QED
    BY <1>6, <1>7, <2>1 DEF TakeReport, JobCommits, Call, SenderAgrees, HasStatuses, dbVars, senderVars
<1>8. ASSUME pc # "idle", pc' # "idle", ~ JobCommits, UNCHANGED <<queue, item>>,
             HasStatuses' => Registered(item.id)', pc' # "report" => pc # "report"
      PROVE  SenderAgrees'
  BY <1>1, <1>6, <1>8 DEF SenderAgrees, TypeOK
<1>9. ASSUME HasStatuses, UNCHANGED item PROVE Registered(item.id)'
  <2>1. item.id \in Reports /\ Registered(item.id)
    BY <1>1, <1>9 DEF SenderAgrees, HasStatuses, TypeOK, Items
  <2> QED BY <1>2, <1>9, <2>1 DEF Registered
<1>10. CASE pc # "idle" /\ UNCHANGED senderVars /\ ~ JobCommits
  BY <1>8, <1>9, <1>10 DEF senderVars, HasStatuses
<1>11. CASE JobCommits
  BY <1>1, <1>3, <1>11 DEF JobCommits, JobIsAlone
<1>12. CASE (SkipChat \/ OpenChat \/ LeaveChats \/ SendMessage \/ SendRaises \/ CallIsRead) /\ ~ JobCommits
  <2>1. /\ pc # "idle" /\ pc' # "idle" /\ UNCHANGED <<queue, item>> /\ pc # "report" /\ HasStatuses
    BY <1>12
    DEF SkipChat, OpenChat, LeaveChats, SendMessage, SendRaises, CallIsRead, AwaitCall, HasStatuses
  <2> QED BY <1>8, <1>9, <1>12, <2>1
<1>13. CASE CallReturns /\ ~ JobCommits
  <2>1. /\ pc = "call" /\ HandlerCommits(live) /\ UNCHANGED <<queue, item>> /\ pc' # "idle"
    BY <1>13 DEF CallReturns, OnReply, AwaitCall
  <2>2. HasStatuses' => Registered(item.id)'
    BY <1>1, <1>9, <2>1, RegistrationRegisters DEF HasStatuses
  <2> QED BY <1>8, <1>13, <2>1, <2>2
<1>14. CASE pc = "call" /\ OnCallError /\ ~ JobCommits
  <2>1. CASE live.op = "recipient_delivered"
    BY <1>8, <1>9, <1>14, <2>1 DEF OnCallError, AwaitCall, HasStatuses
  <2>2. CASE live.op # "recipient_delivered"
    BY <1>4, <1>14, <2>2 DEF OnCallError, EndRun
  <2> QED BY <2>1, <2>2
<1>15. CASE FinishRun \/ SenderCrashes
  BY <1>4, <1>15 DEF FinishRun, SenderCrashes, EndRun
<1>16. CASE UNCHANGED senderVars
  BY <1>3, <1>10, <1>11, <1>16
<1> QED
  BY <1>5, <1>7, <1>11, <1>12, <1>13, <1>14, <1>15, <1>16
  DEF Next, CoreStep, SenderStep, OrphanStep, Fault, Publish, PublishSuperseding,
      CloseoutDecides, AutomationDecides, JobCrashes, EmptyRun,
      CallRefused, ReplyLost, CallTimesOut,
      OrphanIsRead, OrphanCommits, OrphanDropped, vars

\* A job about to rewrite a row stays alone until it commits.
LEMMA JobIsAloneStep ==
    ASSUME WrapperInv, [Next]_vars, ~ Automation, WrapperOnly
    PROVE  JobIsAlone'
<1>1. /\ TypeOK /\ TypeOK' /\ ChatsAgree /\ SenderAgrees /\ JobIsAlone
  BY TypeStep DEF WrapperInv, DeliveryInv
<1>2. CASE CloseoutDecides
  BY <1>1, <1>2
  DEF CloseoutDecides, CoreMayRun, SalesOutboxIsMutable, JobIsAlone, ChatsAgree,
      Registered, TypeOK, dbVars, senderVars
<1>3. CASE job' = NoJob
  <2>1. MaxOrphans = 0 => orphans' = {}
    BY <1>1, <1>3, NoOrphans DEF JobIsAlone
  <2> QED BY <1>3, <2>1 DEF JobIsAlone
<1>4. ASSUME job # NoJob, job' = job PROVE JobIsAlone'
  <2>1. job.by = "closeout" /\ pc = "idle"
    BY <1>1, <1>4 DEF JobIsAlone
  <2>2. OrphanIsRead \/ OrphanCommits \/ OrphanDropped \/ UNCHANGED <<rows, inbox, pc, orphans>>
    BY <1>4, <2>1
    DEF Next, CoreStep, SenderStep, OrphanStep, Fault, Publish, PublishSuperseding,
        CloseoutDecides, AutomationDecides, JobCommits, JobCrashes, StartRun, SenderMayRun,
        EmptyRun, TakeReport, FinishRun, SkipChat, OpenChat, LeaveChats, SendMessage,
        SendRaises, CallIsRead, CallReturns, CallRefused, ReplyLost, CallTimesOut,
        SenderCrashes, vars, dbVars, senderVars
  <2>3. CASE UNCHANGED <<rows, inbox, pc, orphans>>
    BY <1>1, <1>4, <2>3 DEF JobIsAlone, Registered
  <2>4. CASE OrphanIsRead \/ OrphanCommits \/ OrphanDropped
    <3>1. MaxOrphans # 0 /\ UNCHANGED <<inbox, pc>>
      BY <1>1, <2>4 DEF JobIsAlone, OrphanIsRead, OrphanCommits, OrphanDropped, senderVars
    <3> QED BY <1>1, <1>4, <3>1 DEF JobIsAlone
  <2> QED BY <2>2, <2>3, <2>4
<1> QED
  BY <1>2, <1>3, <1>4
  DEF Next, CoreStep, SenderStep, OrphanStep, Fault, Publish, PublishSuperseding,
      AutomationDecides, JobCommits, JobCrashes, StartRun, EmptyRun,
      TakeReport, FinishRun, SkipChat, OpenChat, LeaveChats, SendMessage, SendRaises,
      CallIsRead, CallReturns, CallRefused, ReplyLost, CallTimesOut, SenderCrashes,
      OrphanIsRead, OrphanCommits, OrphanDropped, vars

\* No row loses its report.
LEMMA RowsHaveReportsStep ==
    ASSUME TypeOK, RowsHaveReports, [Next]_vars
    PROVE  RowsHaveReports'
<1>1. ASSUME NEW c \in Calls, HandlerCommits(c) PROVE RowsHaveReports'
  <2>1. \A r \in Reports : Present(r) => Present(r)'
    BY <1>1, HandlerType DEF Present
  <2>2. c.id \in Reports /\ Present(c.id)
    BY <1>1 DEF HandlerCommits, Calls
  <2>3. \A r \in Reports : r # c.id => rows'[r] = rows[r]
    BY <1>1, <2>2
    DEF HandlerCommits, register_report_recipients, mark_report_recipient_delivered,
        mark_report_recipient_failed, mark_report_delivered, mark_report_failed,
        MarkRecipients, MarkReport, TypeOK
  <2> QED BY <2>1, <2>2, <2>3 DEF RowsHaveReports, Registered
<1>2. CASE CallReturns \/ ReplyLost
  BY <1>1, <1>2 DEF CallReturns, ReplyLost, TypeOK
<1>3. CASE OrphanCommits
  BY <1>1, <1>3 DEF OrphanCommits, TypeOK
<1>4. CASE UNCHANGED rows /\ \A r \in Reports : Present(r) => Present(r)'
  BY <1>4 DEF RowsHaveReports, Registered
<1>5. CASE Publish \/ PublishSuperseding
  <2>1. UNCHANGED rows
    BY <1>5 DEF Publish, PublishSuperseding
  <2>2. ASSUME NEW r \in Reports, Present(r) PROVE Present(r)'
    <3>1. CASE Publish
      BY <2>2, <3>1 DEF Publish, Present, TypeOK
    <3>2. CASE PublishSuperseding
      BY <2>2, <3>2 DEF PublishSuperseding, AfterSuperseding, Present, TypeOK
    <3> QED BY <1>5, <3>1, <3>2
  <2> QED BY <1>4, <2>1, <2>2
<1>6. CASE JobCommits
  BY <1>4, <1>6 DEF JobCommits, Present, TypeOK
<1>7. CASE UNCHANGED dbVars
  BY <1>4, <1>7 DEF dbVars, Present
<1> QED
  BY <1>2, <1>3, <1>5, <1>6, <1>7
  DEF Next, CoreStep, SenderStep, OrphanStep, Fault,
      CloseoutDecides, AutomationDecides, JobCrashes, StartRun, EmptyRun,
      TakeReport, FinishRun, SkipChat, OpenChat, LeaveChats, SendMessage, SendRaises,
      CallIsRead, CallRefused, CallTimesOut, SenderCrashes,
      OrphanIsRead, OrphanDropped, vars

\* When everything that writes the outbox or delivers it runs under the
\* wrapper's lock, chats, rows and the sender agree on every report's text.
THEOREM WrapperInvariant ==
    ASSUME WrapperOnly, ~ Automation
    PROVE  Spec => []WrapperInv
<1>1. Init => WrapperInv
  <2> SUFFICES ASSUME Init PROVE WrapperInv
    OBVIOUS
  <2>1. ChatsAgree /\ SenderAgrees /\ JobIsAlone /\ RowsHaveReports
    BY DEF Init, ChatsAgree, SenderAgrees, JobIsAlone, HasStatuses, RowsHaveReports, Registered
  <2> QED BY <2>1, DeliveryInit DEF WrapperInv
<1>2. WrapperInv /\ [Next]_vars => WrapperInv'
  <2> SUFFICES ASSUME WrapperInv, [Next]_vars PROVE WrapperInv'
    OBVIOUS
  <2>1. DeliveryInv'
    BY DeliveryStep DEF WrapperInv
  <2> QED BY <2>1, ChatsAgreeStep, SenderAgreesStep, JobIsAloneStep, RowsHaveReportsStep
         DEF WrapperInv, DeliveryInv
<1> QED BY <1>1, <1>2, PTL DEF Spec

\* All recipients of a report see one text, over all runs and retries, and late
\* handlers do not matter for this.
THEOREM OneText ==
    ASSUME WrapperOnly, ~ Automation
    PROVE  Spec => []OneTextPerReport
<1>1. WrapperInv => OneTextPerReport
  BY DEF WrapperInv, ChatsAgree, OneTextPerReport
<1> QED BY <1>1, WrapperInvariant, PTL

\* A report's text is frozen by the first recipient row.
THEOREM RegisteredForGood ==
    ASSUME WrapperOnly, ~ Automation, MaxOrphans = 0
    PROVE  Spec => RegisteredTextIsImmutable
<1>1. WrapperInv /\ [Next]_vars => [RegisteredStays]_vars
  <2> SUFFICES ASSUME WrapperInv, Next PROVE RegisteredStays
    BY DEF RegisteredStays, vars, dbVars
  <2>1. TypeOK /\ JobIsAlone /\ RowsHaveReports
    BY DEF WrapperInv, DeliveryInv
  <2>2. CASE JobCommits
    BY <2>1, <2>2 DEF JobCommits, JobIsAlone, RegisteredStays, TypeOK
  <2>3. CASE ~ JobCommits
    <3>1. \A r \in Reports : Present(r) => outbox'[r].text = outbox[r].text
      BY <2>1, <2>3, RowsAndTexts
    <3> QED BY <2>1, <3>1 DEF RegisteredStays, RowsHaveReports
  <2> QED BY <2>2, <2>3
<1> QED BY <1>1, WrapperInvariant, PTL DEF Spec, RegisteredTextIsImmutable
=============================================================================
