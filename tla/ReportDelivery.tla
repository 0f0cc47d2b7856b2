--------------------------- MODULE ReportDelivery ---------------------------
(***************************************************************************)
(* Delivery of the report outbox to Telegram: the host process             *)
(* ops/telegram/report_sender.py, the internal API of Core it calls        *)
(* (apps/core/app/api/routes/report_outbox.py), the Telegram chats, and    *)
(* the Core jobs that create and rewrite outbox rows meanwhile.            *)
(*                                                                         *)
(* A report text is an element of Texts; split_telegram_message cuts the   *)
(* text t into NChunks[t] messages.  Reports are numbered in the order in  *)
(* which their rows are created, the order in which the API lists them.    *)
(* Attempt counters, timestamps and error texts are left out.              *)
(***************************************************************************)
EXTENDS Naturals, Sequences, FiniteSets

CONSTANTS
    Reports,       \* outbox rows of one business date, in creation order
    Recipients,    \* recipient keys (one per chat)
    Texts,         \* report texts
    NChunks,       \* how many Telegram messages each text needs
    AllowedLists,  \* the values ALLOWED_IDS has in the sender's environment
    Blocked,       \* recipients to whom Telegram always refuses a message
    Limit,         \* --limit of the sender
    WrapperOnly,   \* TRUE: Core jobs and sender run under the wrapper's lock
    Automation,    \* TRUE: the hourly sales automation writes the outbox too
    MaxOrphans,    \* how many handlers may outlive their client's 30 s timeout
    NoText, NoItem, NoCall, NoJob

ASSUME ConstantsAssumption ==
    /\ Reports \subseteq Nat
    /\ NChunks \in [Texts -> Nat \ {0}]
    /\ AllowedLists \subseteq Seq(Recipients) \ {<< >>}
    /\ Blocked \subseteq Recipients
    /\ Limit \in Nat \ {0}
    /\ WrapperOnly \in BOOLEAN /\ Automation \in BOOLEAN
    /\ MaxOrphans \in Nat

VARIABLES
    outbox,    \* hermes_report_outbox: status and text of each report
    rows,      \* hermes_report_recipient_deliveries: status per report and key
    inbox,     \* what each chat has received of each report
    pc,        \* where the sender is in run_once
    queue,     \* reports fetched and not yet taken, with the text fetched
    item,      \* the report being delivered
    allowed,   \* ALLOWED_IDS of this sender run
    local,     \* recipient_statuses, the sender's copy of the rows
    pos,       \* position of the current chat in allowed
    chunk,     \* message of the text to send next
    live,      \* the API call the sender is waiting for
    orphans,   \* API calls still being handled whose client has given up
    job,       \* a Core job between its decision to rewrite a row and its commit
    calm       \* TRUE once no more faults happen (liveness only)

dbVars     == <<outbox, rows>>
senderVars == <<pc, queue, item, allowed, local, pos, chunk, live>>
vars       == <<dbVars, inbox, senderVars, orphans, job, calm>>

-----------------------------------------------------------------------------
(* Data *)

ReportStatuses == {"absent", "pending", "failed", "delivered", "superseded"}
RowStatuses    == {"none", "pending", "delivered", "failed"}
Items          == [id : Reports, text : Texts]
RecipientOps   == {"recipient_delivered", "recipient_failed"}
ReportOps      == {"report_delivered", "report_failed"}

\* A call: its endpoint, the report and recipients it names, and how far its
\* handler is: it has not read the row yet ("sent"), or it has read it and will
\* overwrite its status ("write") or leave it alone ("keep").
Calls == [op : {"register"} \cup RecipientOps \cup ReportOps, id : Reports,
          rcpts : SUBSET Recipients, phase : {"sent", "write", "keep"}]

Call(op, id, rcpts) == [op |-> op, id |-> id, rcpts |-> rcpts, phase |-> "sent"]

ASSUME NullsAssumption ==
    /\ NoText \notin Texts /\ NoItem \notin Items /\ NoCall \notin Calls

KeysOf(list)     == {list[i] : i \in DOMAIN list}
Present(r)       == outbox[r].status # "absent"
Registered(r)    == \E k \in Recipients : rows[r][k] # "none"
CurrentRecipient == allowed[pos]

\* The chat of k has every message of text t of report r.
Received(r, k, t) == \A c \in 1 .. NChunks[t] : [text |-> t, part |-> c] \in inbox[r][k]

\* The chat of k has one whole text of report r.
Informed(r, k) == \E t \in Texts : Received(r, k, t)

-----------------------------------------------------------------------------
(* Core: the jobs that create and rewrite outbox rows.  They hold the        *)
(* advisory lock of sales automation, so at most one is under way.           *)

Init ==
    /\ outbox = [r \in Reports |-> [status |-> "absent", text |-> NoText]]
    /\ rows = [r \in Reports |-> [k \in Recipients |-> "none"]]
    /\ inbox = [r \in Reports |-> [k \in Recipients |-> {}]]
    /\ pc = "idle" /\ queue = {} /\ item = NoItem /\ allowed = << >>
    /\ local = [k \in Recipients |-> "none"] /\ pos = 1 /\ chunk = 1
    /\ live = NoCall /\ orphans = {} /\ job = NoJob /\ calm = FALSE

\* run-daily-coo-report.sh holds its lock over the Core CLI and the sender.
CoreMayRun == WrapperOnly => pc = "idle"
SenderMayRun_Unlocked == TRUE

SenderMayRun == WrapperOnly /\ job # NoJob => job.by # "closeout"

NextRow(r) == ~ Present(r) /\ \A q \in Reports : q < r => Present(q)

\* A Core job inserts a row: a sales report, a correction or an alert.
Publish ==
    /\ CoreMayRun
    /\ job = NoJob
    /\ \E r \in Reports, t \in Texts :
        /\ NextRow(r)
        /\ outbox' = [outbox EXCEPT ![r] = [status |-> "pending", text |-> t]]
    /\ UNCHANGED <<rows, inbox, senderVars, orphans, job, calm>>

AfterSuperseding(status) == IF status = "pending" THEN "superseded" ELSE status

\* Sales automation inserts a row for a new checksum and, in the same
\* transaction, supersedes the pending rows of the date.
PublishSuperseding ==
    /\ Automation
    /\ job = NoJob
    /\ \E r \in Reports, t \in Texts :
        /\ NextRow(r)
        /\ outbox' = [q \in Reports |->
                        IF q = r THEN [status |-> "pending", text |-> t]
                        ELSE [status |-> AfterSuperseding(outbox[q].status),
                              text   |-> outbox[q].text]]
    /\ UNCHANGED <<rows, inbox, senderVars, orphans, job, calm>>

SalesOutboxIsMutable_IgnoringRows(r) == outbox[r].status # "delivered"

SalesOutboxIsMutable(r) == outbox[r].status # "delivered" /\ ~ Registered(r)

\* Closeout finds a row for the date that it may still rewrite.
CloseoutDecides ==
    /\ CoreMayRun
    /\ job = NoJob
    /\ \E r \in Reports, t \in Texts :
        /\ Present(r) /\ t # outbox[r].text
        /\ SalesOutboxIsMutable(r)
        /\ job' = [id |-> r, text |-> t, by |-> "closeout"]
    /\ UNCHANGED <<dbVars, inbox, senderVars, orphans, calm>>

\* ensure_outbox finds the row of the checksum undelivered with another text.
AutomationDecides ==
    /\ Automation
    /\ job = NoJob
    /\ \E r \in Reports, t \in Texts :
        /\ Present(r) /\ t # outbox[r].text
        /\ outbox[r].status # "delivered"
        /\ job' = [id |-> r, text |-> t, by |-> "automation"]
    /\ UNCHANGED <<dbVars, inbox, senderVars, orphans, calm>>

\* The job's UPDATE names the changed columns only, and no condition on the row.
JobCommits ==
    /\ job # NoJob
    /\ outbox' = [outbox EXCEPT ![job.id].text = job.text]
    /\ job' = NoJob
    /\ UNCHANGED <<rows, inbox, senderVars, orphans, calm>>

JobCrashes ==
    /\ ~ calm
    /\ job # NoJob
    /\ job' = NoJob
    /\ UNCHANGED <<dbVars, inbox, senderVars, orphans, calm>>

-----------------------------------------------------------------------------
(* Core: the handlers of the internal API.  Each runs in a transaction that  *)
(* reads the row, decides, and later commits its decision.                   *)

NotYetDelivered_Unchecked(c) == TRUE

\* Every mark leaves a delivered row alone.
NotYetDelivered(c) ==
    IF c.op \in ReportOps THEN outbox[c.id].status # "delivered"
    ELSE \A k \in c.rcpts : rows[c.id][k] # "delivered"

HandlerReads(c) == [c EXCEPT !.phase = IF NotYetDelivered(c) THEN "write" ELSE "keep"]

register_report_recipients(c) ==
    /\ c.op = "register"
    /\ rows' = [rows EXCEPT ![c.id] = [k \in Recipients |->
                    IF k \in c.rcpts /\ @[k] = "none" THEN "pending" ELSE @[k]]]
    /\ UNCHANGED outbox

MarkRecipients(c, status) ==
    /\ c.phase # "sent"
    /\ rows' = IF c.phase = "write"
               THEN [rows EXCEPT ![c.id] = [k \in Recipients |->
                        IF k \in c.rcpts THEN status ELSE @[k]]]
               ELSE rows
    /\ UNCHANGED outbox

mark_report_recipient_delivered(c) ==
    c.op = "recipient_delivered" /\ MarkRecipients(c, "delivered")

mark_report_recipient_failed_AsDelivered(c) ==
    c.op = "recipient_failed" /\ MarkRecipients(c, "delivered")

mark_report_recipient_failed(c) ==
    c.op = "recipient_failed" /\ MarkRecipients(c, "failed")

MarkReport(c, status) ==
    /\ c.phase # "sent"
    /\ outbox' = IF c.phase = "write" THEN [outbox EXCEPT ![c.id].status = status]
                 ELSE outbox
    /\ UNCHANGED rows

mark_report_delivered(c) == c.op = "report_delivered" /\ MarkReport(c, "delivered")

mark_report_failed(c) == c.op = "report_failed" /\ MarkReport(c, "failed")

\* A handler whose report does not exist answers 404 instead.
HandlerCommits(c) ==
    /\ Present(c.id)
    /\ \/ register_report_recipients(c)
       \/ mark_report_recipient_delivered(c)
       \/ mark_report_recipient_failed(c)
       \/ mark_report_delivered(c)
       \/ mark_report_failed(c)

-----------------------------------------------------------------------------
(* The sender: run_once *)

\* The process ends: nothing of the run survives it.
EndRun ==
    /\ pc' = "idle" /\ queue' = {} /\ item' = NoItem /\ allowed' = << >>
    /\ local' = [k \in Recipients |-> "none"] /\ pos' = 1 /\ chunk' = 1
    /\ live' = NoCall

pending_reports_PendingOnly(retry) ==
    LET listed == {r \in Reports : outbox[r].status = "pending"}
        first  == {r \in listed : Cardinality({q \in listed : q < r}) < Limit}
    IN  {[id |-> r, text |-> outbox[r].text] : r \in first}

\* What the API lists: pending rows, with --retry-failed the failed ones too,
\* the oldest Limit of them, each with its text at that moment.
pending_reports(retry) ==
    LET listed == {r \in Reports : outbox[r].status \in
                        (IF retry THEN {"pending", "failed"} ELSE {"pending"})}
        first  == {r \in listed : Cardinality({q \in listed : q < r}) < Limit}
    IN  {[id |-> r, text |-> outbox[r].text] : r \in first}

\* send-telegram-reports.sh takes its lock and the sender fetches its work.
StartRun(retry) ==
    /\ pc = "idle"
    /\ SenderMayRun
    /\ pending_reports(retry) # {}
    /\ queue' = pending_reports(retry)
    /\ \E list \in AllowedLists : allowed' = list
    /\ pc' = "report"
    /\ UNCHANGED <<dbVars, inbox, item, local, pos, chunk, live, orphans, job, calm>>

\* A run that finds nothing, or a --dry-run, changes nothing.
EmptyRun ==
    /\ pc = "idle"
    /\ UNCHANGED vars

TakeReport ==
    /\ pc = "report"
    /\ \E it \in queue :
        /\ \A other \in queue : it.id <= other.id
        /\ item' = it
        /\ queue' = queue \ {it}
        /\ live' = Call("register", it.id, KeysOf(allowed))
    /\ pc' = "call"
    /\ UNCHANGED <<dbVars, inbox, allowed, local, pos, chunk, orphans, job, calm>>

FinishRun ==
    /\ pc = "report"
    /\ queue = {}
    /\ EndRun
    /\ UNCHANGED <<dbVars, inbox, orphans, job, calm>>

AwaitCall(op, rcpts) ==
    /\ pc' = "call"
    /\ live' = Call(op, item.id, rcpts)

HasReport_Forgotten(k) == FALSE
HasReport_NotFailed(k) == local[k] # "failed"
HasReport_NotPending(k) == local[k] # "pending"

HasReport(k) == local[k] = "delivered"

\* The chat at pos already has the report: the loop's continue.
SkipChat ==
    /\ pc = "chat"
    /\ pos <= Len(allowed)
    /\ HasReport(CurrentRecipient)
    /\ pos' = pos + 1
    /\ UNCHANGED <<dbVars, inbox, pc, queue, item, allowed, local, chunk, live,
                   orphans, job, calm>>

OpenChat ==
    /\ pc = "chat"
    /\ pos <= Len(allowed)
    /\ ~ HasReport(CurrentRecipient)
    /\ pc' = "send"
    /\ chunk' = 1
    /\ UNCHANGED <<dbVars, inbox, queue, item, allowed, local, pos, live, orphans, job, calm>>

\* After the last chat: the report is delivered if every chat is.
LeaveChats ==
    /\ pc = "chat"
    /\ pos > Len(allowed)
    /\ IF \A k \in KeysOf(allowed) : HasReport(k)
       THEN AwaitCall("report_delivered", {})
       ELSE pc' = "report" /\ live' = NoCall
    /\ UNCHANGED <<dbVars, inbox, queue, item, allowed, local, pos, chunk, orphans, job, calm>>

MessageArrives ==
    inbox' = [inbox EXCEPT ![item.id][CurrentRecipient] =
                            @ \cup {[text |-> item.text, part |-> chunk]}]

IsLastChunk_Early == chunk + 1 >= NChunks[item.text]

IsLastChunk == chunk = NChunks[item.text]

SendMessage ==
    /\ pc = "send"
    /\ CurrentRecipient \notin Blocked
    /\ MessageArrives
    /\ IF IsLastChunk
       THEN AwaitCall("recipient_delivered", {CurrentRecipient}) /\ UNCHANGED chunk
       ELSE chunk' = chunk + 1 /\ UNCHANGED <<pc, live>>
    /\ UNCHANGED <<dbVars, queue, item, allowed, local, pos, orphans, job, calm>>

\* send_message raises: the chat is blocked, or a fault, after which the
\* message may have arrived all the same.
SendRaises ==
    /\ pc = "send"
    /\ \/ UNCHANGED inbox /\ (CurrentRecipient \in Blocked \/ ~ calm)
       \/ MessageArrives /\ CurrentRecipient \notin Blocked /\ ~ calm
    /\ AwaitCall("recipient_failed", {CurrentRecipient})
    /\ UNCHANGED <<dbVars, queue, item, allowed, local, pos, chunk, orphans, job, calm>>

\* The sender goes on with the answer to its call.
OnReply ==
    \/ /\ live.op = "register"
       /\ local' = [k \in Recipients |-> IF k \in live.rcpts THEN rows'[live.id][k] ELSE "none"]
       /\ pos' = 1 /\ pc' = "chat" /\ live' = NoCall
       /\ UNCHANGED <<queue, item, allowed, chunk>>
    \/ /\ live.op = "recipient_delivered"
       /\ local' = [local EXCEPT ![CurrentRecipient] = "delivered"]
       /\ pos' = pos + 1 /\ pc' = "chat" /\ live' = NoCall
       /\ UNCHANGED <<queue, item, allowed, chunk>>
    \/ /\ live.op = "recipient_failed"
       /\ AwaitCall("report_failed", {})
       /\ UNCHANGED <<queue, item, allowed, local, pos, chunk>>
    \/ /\ live.op \in ReportOps
       /\ pc' = "report" /\ live' = NoCall
       /\ UNCHANGED <<queue, item, allowed, local, pos, chunk>>

\* The call raises.  Only mark_recipient_delivered stands in the try block; any
\* other call that raises ends the whole run.
OnCallError ==
    IF live.op = "recipient_delivered"
    THEN /\ AwaitCall("recipient_failed", live.rcpts)
         /\ UNCHANGED <<queue, item, allowed, local, pos, chunk>>
    ELSE EndRun

CallIsRead ==
    /\ pc = "call"
    /\ live.op # "register" /\ live.phase = "sent"
    /\ live' = HandlerReads(live)
    /\ UNCHANGED <<dbVars, inbox, pc, queue, item, allowed, local, pos, chunk,
                   orphans, job, calm>>

CallReturns ==
    /\ pc = "call"
    /\ HandlerCommits(live)
    /\ OnReply
    /\ UNCHANGED <<inbox, orphans, job, calm>>

\* Core refuses the call, or rolls it back.
CallRefused ==
    /\ ~ calm
    /\ pc = "call"
    /\ OnCallError
    /\ UNCHANGED <<dbVars, inbox, orphans, job, calm>>

\* Core commits, but its answer does not reach the sender.
ReplyLost ==
    /\ ~ calm
    /\ pc = "call"
    /\ HandlerCommits(live)
    /\ OnCallError
    /\ UNCHANGED <<inbox, orphans, job, calm>>

MayLinger == Cardinality(orphans) < MaxOrphans

\* The sender stops waiting while the handler is still running.
CallTimesOut ==
    /\ ~ calm
    /\ pc = "call"
    /\ MayLinger
    /\ orphans' = orphans \cup {live}
    /\ OnCallError
    /\ UNCHANGED <<dbVars, inbox, job, calm>>

SenderCrashes ==
    /\ ~ calm
    /\ pc # "idle"
    /\ EndRun
    /\ orphans' = IF pc = "call" /\ MayLinger THEN orphans \cup {live} ELSE orphans
    /\ UNCHANGED <<dbVars, inbox, job, calm>>

-----------------------------------------------------------------------------
(* Handlers whose client has gone *)

OrphanIsRead ==
    /\ \E c \in orphans :
        /\ c.op # "register" /\ c.phase = "sent"
        /\ orphans' = (orphans \ {c}) \cup {HandlerReads(c)}
    /\ UNCHANGED <<dbVars, inbox, senderVars, job, calm>>

OrphanCommits ==
    /\ \E c \in orphans :
        /\ HandlerCommits(c)
        /\ orphans' = orphans \ {c}
    /\ UNCHANGED <<inbox, senderVars, job, calm>>

OrphanDropped ==
    /\ ~ calm
    /\ \E c \in orphans : orphans' = orphans \ {c}
    /\ UNCHANGED <<dbVars, inbox, senderVars, job, calm>>

\* Only the fair specification, below, takes this step.
FaultsEnd ==
    /\ ~ calm
    /\ calm' = TRUE
    /\ UNCHANGED <<dbVars, inbox, senderVars, orphans, job>>

-----------------------------------------------------------------------------

CoreStep ==
    \/ Publish \/ PublishSuperseding
    \/ CloseoutDecides \/ AutomationDecides \/ JobCommits

\* What the sender and the handler it waits for do when nothing goes wrong;
\* a blocked chat is a result, not a fault.
SenderStep ==
    \/ TakeReport \/ FinishRun
    \/ SkipChat \/ OpenChat \/ LeaveChats
    \/ SendMessage
    \/ SendRaises
    \/ CallIsRead \/ CallReturns

OrphanStep == OrphanIsRead \/ OrphanCommits

Fault ==
    \/ JobCrashes \/ CallRefused \/ ReplyLost \/ CallTimesOut
    \/ SenderCrashes \/ OrphanDropped

Next ==
    \/ CoreStep
    \/ \E retry \in BOOLEAN : StartRun(retry)
    \/ EmptyRun
    \/ SenderStep
    \/ OrphanStep
    \/ Fault

Spec == Init /\ [][Next]_vars

\* A started process and a handler keep running; a Core job ends; faults cease;
\* the sender keeps being started with --retry-failed.  Strong fairness for the
\* start: the wrapper starts the sender after every Core run, so it cannot be
\* kept out for ever by closeouts that begin again and again.
Fairness ==
    /\ WF_vars(SenderStep)
    /\ WF_vars(OrphanStep)
    /\ WF_vars(JobCommits)
    /\ WF_vars(FaultsEnd)
    /\ SF_vars(StartRun(TRUE))

FairSpec == Init /\ [][Next \/ FaultsEnd]_vars /\ Fairness

-----------------------------------------------------------------------------
(* Properties *)

\* The shape of the state.
TypeOK ==
    /\ outbox \in [Reports -> [status : ReportStatuses, text : Texts \cup {NoText}]]
    /\ \A r \in Reports : Present(r) <=> outbox[r].text \in Texts
    /\ rows \in [Reports -> [Recipients -> RowStatuses]]
    /\ inbox \in [Reports -> [Recipients -> SUBSET [text : Texts, part : Nat]]]
    /\ pc \in {"idle", "report", "chat", "send", "call"}
    /\ queue \subseteq Items
    /\ item \in Items \cup {NoItem}
    /\ allowed \in AllowedLists \cup {<< >>}
    /\ local \in [Recipients -> RowStatuses]
    /\ pos \in Nat \ {0} /\ chunk \in Nat \ {0}
    /\ live \in Calls \cup {NoCall}
    /\ orphans \subseteq Calls
    /\ job \in [id : Reports, text : Texts, by : {"closeout", "automation"}] \cup {NoJob}
    /\ calm \in BOOLEAN
    /\ pc \in {"chat", "send", "call"} => item \in Items
    /\ pc \in {"report", "chat", "send", "call"} => allowed \in AllowedLists
    /\ pc = "call" <=> live # NoCall
    /\ pc = "send" => pos \in DOMAIN allowed
    /\ job # NoJob => Present(job.id)

\* A recipient row says "delivered" only when the chat holds one whole text of
\* the report, whatever calls were lost, late or repeated on the way
\* (report_sender.py marks a recipient after its last chunk).
DeliveredRowMeansInformed ==
    \A r \in Reports, k \in Recipients : rows[r][k] = "delivered" => Informed(r, k)

\* A report says "delivered" only when every chat of some run's ALLOWED_IDS
\* holds it whole, those served by earlier, failed runs included.
DeliveredReportMeansAllInformed ==
    \A r \in Reports : outbox[r].status = "delivered" =>
        \E list \in AllowedLists : \A k \in KeysOf(list) : Informed(r, k)

\* A retry never writes to a chat whose row is already "delivered", although
\* the sender looked at the rows only once, when it registered the recipients.
NoMessageAfterDelivery ==
    pc = "send" => rows[item.id][CurrentRecipient] # "delivered"

\* "delivered" is final, for a recipient and for a report: neither a failure
\* reported after an answer was lost nor sales automation takes it back.
DeliveredStays ==
    \A r \in Reports :
        /\ outbox[r].status = "delivered" => outbox'[r].status = "delivered"
        /\ \A k \in Recipients : rows[r][k] = "delivered" => rows'[r][k] = "delivered"

DeliveredIsFinal == [][DeliveredStays]_vars

\* All recipients of one report see the same text, over all runs and retries.
OneTextPerReport ==
    \A r \in Reports, k, l \in Recipients :
        \A m \in inbox[r][k], n \in inbox[r][l] : m.text = n.text

\* Once a recipient row exists the report's text does not change.
RegisteredStays ==
    \A r \in Reports : Registered(r) => outbox'[r].text = outbox[r].text

RegisteredTextIsImmutable == [][RegisteredStays]_vars

\* Every report comes to rest: delivered, or superseded by a newer one.
EveryReportSettles ==
    \A r \in Reports :
        Present(r) ~> outbox[r].status \in {"delivered", "superseded"}

\* Every report reaches every chat Telegram does not refuse.
EveryReachableChatIsInformed ==
    \A r \in Reports, k \in Recipients \ Blocked : Present(r) ~> Informed(r, k)
-----------------------------------------------------------------------------
(* Inductive invariants *)

\* The messages sent so far to the chat being served.
ChatProgress ==
    pc = "send" =>
        /\ chunk <= NChunks[item.text]
        /\ \A c \in 1 .. chunk - 1 :
              [text |-> item.text, part |-> c] \in inbox[item.id][CurrentRecipient]

\* The sender has the answer to its registration of the report in hand.
HasStatuses == pc \in {"chat", "send"} \/ (pc = "call" /\ live.op # "register")

\* What the sender believes delivered is delivered.
LocalIsTrue ==
    HasStatuses => \A k \in Recipients : local[k] = "delivered" => Informed(item.id, k)

\* Whenever a call is handled, what it reports is true.
CallIsTrue(c) ==
    /\ c.op = "recipient_delivered" => \A k \in c.rcpts : Informed(c.id, k)
    /\ c.op = "report_delivered" =>
            \E list \in AllowedLists : \A k \in KeysOf(list) : Informed(c.id, k)

\* The call waited for concerns the report and the chat at hand.
CallFits ==
    pc = "call" =>
        /\ live.id = item.id
        /\ live.op = "register" => live.rcpts = KeysOf(allowed)
        /\ live.op \in RecipientOps => pos \in DOMAIN allowed /\ live.rcpts = {CurrentRecipient}

\* What makes the two "means informed" invariants inductive: the sender's and
\* every handler's knowledge is true, late handlers included.
DeliveryInv ==
    /\ TypeOK
    /\ DeliveredRowMeansInformed
    /\ DeliveredReportMeansAllInformed
    /\ ChatProgress
    /\ LocalIsTrue
    /\ pc = "call" => CallIsTrue(live)
    /\ \A c \in orphans : CallIsTrue(c)
    /\ CallFits

\* The sender's copy of the rows misses no delivery, but the one just reported.
LocalIsFresh ==
    pc \in {"chat", "send"} \/ (pc = "call" /\ live.op = "recipient_delivered") =>
        \A k \in KeysOf(allowed) :
            rows[item.id][k] = "delivered" =>
                HasReport(k) \/ (pc = "call" /\ k = CurrentRecipient)

\* A handler's decision to write is still right when it commits.
DecisionIsFresh ==
    pc = "call" =>
        /\ live.op = "register" => live.phase = "sent"
        /\ live.phase = "write" => NotYetDelivered(live)

\* With no late handlers the sender and the one handler serving it are the only
\* writers of a status, so what they have read stays true until they write.
PromptInv ==
    /\ DeliveryInv
    /\ orphans = {}
    /\ LocalIsFresh
    /\ DecisionIsFresh
    /\ pc = "send" => ~ HasReport(CurrentRecipient)

\* What the chats have received of a report is the text in its row.
ChatsAgree ==
    \A r \in Reports, k \in Recipients :
        /\ inbox[r][k] # {} => Registered(r)
        /\ \A m \in inbox[r][k] : m.text = outbox[r].text

\* So is the text the sender holds.
SenderAgrees ==
    /\ pc = "idle" => queue = {}
    /\ \A it \in queue : it.text = outbox[it.id].text
    /\ pc \in {"chat", "send", "call"} => item.text = outbox[item.id].text
    /\ HasStatuses => Registered(item.id)

\* A recipient row belongs to a report: the foreign key.
RowsHaveReports == \A r \in Reports : Registered(r) => Present(r)

\* A job that is about to rewrite a row runs alone, and no chat has any of it.
JobIsAlone ==
    /\ job # NoJob => /\ job.by = "closeout" /\ pc = "idle"
                      /\ \A k \in Recipients : inbox[job.id][k] = {}
    /\ MaxOrphans = 0 => orphans = {} /\ (job # NoJob => ~ Registered(job.id))

\* Under the wrapper's lock no job rewrites a text that a sender has fetched.
WrapperInv ==
    /\ DeliveryInv
    /\ ChatsAgree
    /\ SenderAgrees
    /\ JobIsAlone
    /\ RowsHaveReports

-----------------------------------------------------------------------------
(* What delivery promises, and the promise kept: DeliveryPromise over the    *)
(* messages received, the rows acknowledged and the reports concluded.       *)

Acknowledged == {p \in Reports \X Recipients : rows[p[1]][p[2]] = "delivered"}
Concluded    == {r \in Reports : outbox[r].status = "delivered"}

MessagesOf   == [t \in Texts |-> {[text |-> t, part |-> c] : c \in 1 .. NChunks[t]}]
PossibleAudiences == {KeysOf(list) : list \in AllowedLists}

Promise == INSTANCE DeliveryPromise WITH
             heard <- inbox, acked <- Acknowledged, closed <- Concluded,
             Whole <- MessagesOf, Audiences <- PossibleAudiences

\* While no handler outlives its client, the sender and the API together keep
\* the promise: no message to a chat that has acknowledged the report, nothing
\* acknowledged or concluded before the messages are there, nothing taken back.
KeepsPromise == Promise!Spec
=============================================================================
