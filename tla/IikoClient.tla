----------------------------- MODULE IikoClient -----------------------------
(***************************************************************************)
(* ServerRestIikoClient: the sessions it opens at iiko, the requests it    *)
(* repeats, and the reports it puts together.  One process uses the client *)
(* for a few calls, one after the other, and closes it; then another       *)
(* process builds its own.                                                 *)
(*                                                                         *)
(* A request and its answer are one action: while a call awaits, only iiko *)
(* moves.  What a lost answer leaves at iiko is an outcome of the action.  *)
(* Sessions are numbered as iiko opens them (the code's UUID tokens).      *)
(***************************************************************************)
EXTENDS Naturals, FiniteSets, Sequences

CONSTANTS
    Settings,     \* kinds of .env a process may find, out of SettingsKinds
    MaxRetries,   \* IIKO_MAX_RETRIES
    MaxCalls,     \* bound on calls
    MaxFaults,    \* bound on lost or useless answers that cost a session
    MaxChanges    \* bound on changes of the books

\* "usable"; IIKO_MODE of another API; no user and password; no organization.
SettingsKinds == {"usable", "other_mode", "no_credentials", "no_organization"}

ASSUME IikoClientAssumption ==
    /\ Settings \subseteq SettingsKinds
    /\ {MaxRetries, MaxCalls, MaxFaults, MaxChanges} \subseteq Nat

NoToken == 0
Ops     == {"probe", "list_organizations", "fetch_orders_or_sales"}

VARIABLES
    settings,   \* what build_iiko_client was given
    token,      \* self._token
    pc,         \* "idle", the request awaited, or "closed"
    op,         \* the call in progress
    attempt,    \* requests of this kind that failed before this one
    read,       \* reports: the versions of the books read so far
    answer,     \* what the last call returned
    sessions,   \* sessions open at iiko
    issued,     \* sessions iiko has opened so far
    refused,    \* sessions iiko has answered 401 to
    failed,     \* failures in a row of the request awaited, as the wire saw them
    books,      \* how often iiko has changed what it says of the day
    calls, faults   \* how much of the bounds is used

clientVars == <<settings, token, pc, op, attempt, read, answer>>
iikoVars   == <<sessions, issued, refused>>
vars       == <<clientVars, iikoVars, failed, books, calls, faults>>

-----------------------------------------------------------------------------

NoAnswer == [op |-> "none", status |-> "none", at |-> "none", sales |-> << >>]

\* A result: its status, the request it gave up on, and the reports.
Result(o, status, at, sales) == [op |-> o, status |-> status, at |-> at, sales |-> sales]

Init ==
    /\ settings \in Settings
    /\ token = NoToken /\ pc = "idle" /\ op = "none" /\ attempt = 0
    /\ read = << >> /\ answer = NoAnswer
    /\ sessions = {} /\ issued = 0 /\ refused = {}
    /\ failed = 0 /\ books = 0 /\ calls = 0 /\ faults = 0

Costs == faults < MaxFaults /\ faults' = faults + 1

\* The call returns.
Return(status, at, sales) ==
    /\ pc' = "idle" /\ op' = "none" /\ attempt' = 0 /\ failed' = 0 /\ read' = << >>
    /\ answer' = Result(op, status, at, sales)

\* Mutant: the attempts are counted over all three reports.
Await_OneCount(request) == pc' = request /\ attempt' = attempt /\ failed' = 0

\* The next request goes out, for the first time.
Await(request) == pc' = request /\ attempt' = 0 /\ failed' = 0

-----------------------------------------------------------------------------
(* iiko *)

\* iiko ends a session on its own.
SessionExpires ==
    /\ \E s \in sessions : sessions' = sessions \ {s}
    /\ UNCHANGED <<clientVars, issued, refused, failed, books, calls, faults>>

\* Orders are booked, reversed or deleted while reports are read.
BooksChange ==
    /\ books < MaxChanges
    /\ books' = books + 1
    /\ UNCHANGED <<clientVars, iikoVars, failed, calls, faults>>

-----------------------------------------------------------------------------
(* The beginning of a call *)

\* Mutant: every call authenticates anew.
NeedsAuth_Always == TRUE

\* authenticate(): a token is kept for the life of the client.
NeedsAuth == token = NoToken

\* The request a call makes once it is authenticated; a probe makes none.
RequestOf == [list_organizations |-> "departments", fetch_orders_or_sales |-> "report"]

\* Refused without a request.
Blocked(o) ==
    \/ settings = "other_mode"
    \/ settings = "no_organization" /\ o = "fetch_orders_or_sales"
    \/ settings = "no_credentials"

CallBlocked ==
    /\ pc = "idle" /\ calls < MaxCalls
    /\ \E o \in Ops : Blocked(o) /\ answer' = Result(o, "blocked", "idle", << >>)
    /\ calls' = calls + 1
    /\ UNCHANGED <<settings, token, pc, op, attempt, read, iikoVars, failed, books, faults>>

\* The cached token answers a probe: nothing is sent.
ProbeCached ==
    /\ pc = "idle" /\ calls < MaxCalls
    /\ ~Blocked("probe") /\ ~NeedsAuth
    /\ answer' = Result("probe", "proven", "idle", << >>)
    /\ calls' = calls + 1
    /\ UNCHANGED <<settings, token, pc, op, attempt, read, iikoVars, failed, books, faults>>

StartCall ==
    /\ pc = "idle" /\ calls < MaxCalls
    /\ \E o \in Ops :
        /\ ~Blocked(o)
        /\ op' = o
        /\ \/ NeedsAuth /\ Await("auth")
           \/ ~NeedsAuth /\ o # "probe" /\ Await(RequestOf[o])
    /\ read' = << >> /\ answer' = NoAnswer
    /\ calls' = calls + 1
    /\ UNCHANGED <<settings, token, iikoVars, books, faults>>

-----------------------------------------------------------------------------
(* authenticate: GET api/auth, never repeated *)

AuthAccepted ==
    /\ pc = "auth"
    /\ issued' = issued + 1
    /\ sessions' = sessions \cup {issued + 1}
    /\ token' = issued + 1
    /\ \/ op = "probe" /\ Return("proven", "auth", << >>)
       \/ op # "probe" /\ Await(RequestOf[op]) /\ UNCHANGED <<op, read, answer>>
    /\ UNCHANGED <<settings, refused, books, calls, faults>>

\* 401; another status; a connection that fails before iiko has the request.
AuthRefused ==
    /\ pc = "auth"
    /\ \E status \in {"blocked", "unknown"} : Return(status, "auth", << >>)
    /\ UNCHANGED <<settings, token, iikoVars, books, calls, faults>>

\* iiko opens a session, but its answer is lost, or holds no UUID.
AuthLost ==
    /\ pc = "auth"
    /\ Costs
    /\ issued' = issued + 1
    /\ sessions' = sessions \cup {issued + 1}
    /\ Return("unknown", "auth", << >>)
    /\ UNCHANGED <<settings, token, refused, books, calls>>

-----------------------------------------------------------------------------
(* Requests under a token: GET departments, POST reports/olap *)

Reading == pc \in {"departments", "report"}

DepartmentsAnswered ==
    /\ pc = "departments" /\ token \in sessions
    /\ Return("proven", "departments", << >>)
    /\ UNCHANGED <<settings, token, iikoVars, books, calls, faults>>

\* Mutant: the last report is not asked for.
IsLastReport_Early == Len(read) >= 1

\* "daily", "payments", "products"
IsLastReport == Len(read) = 2

ReportAnswered ==
    /\ pc = "report" /\ token \in sessions
    /\ \/ IsLastReport /\ Return("proven", "report", Append(read, books))
       \/ ~IsLastReport /\ read' = Append(read, books) /\ Await("report")
                        /\ UNCHANGED <<op, answer>>
    /\ UNCHANGED <<settings, token, iikoVars, books, calls, faults>>

\* Another status, or an answer that is not what was asked for.
AnswerUnusable ==
    /\ Reading
    /\ \E status \in {"blocked", "unknown"} :
        /\ pc = "departments" => status = "unknown"
        /\ Return(status, pc, << >>)
    /\ UNCHANGED <<settings, token, iikoVars, books, calls, faults>>

\* Mutant: only a report that is refused drops the token.
TokenAfterRefusal_Kept == IF pc = "report" THEN NoToken ELSE token

\* 401 drops the token; no logout is sent.
TokenAfterRefusal == NoToken

\* iiko no longer knows the session, or refuses one it still holds.
SessionRefused ==
    /\ Reading
    /\ token \in sessions => Costs
    /\ token \notin sessions => UNCHANGED faults
    /\ refused' = refused \cup {token}
    /\ token' = TokenAfterRefusal
    /\ Return("blocked", pc, << >>)
    /\ UNCHANGED <<settings, sessions, issued, books, calls>>

MayRetry == attempt < MaxRetries

\* Mutant: the counter starts again.
NextAttempt_StartsAgain == IF attempt = 0 THEN 1 ELSE 0

NextAttempt == attempt + 1

\* A connection error or a timeout; of a report also 429, 502, 503, 504.
RequestFails ==
    /\ Reading
    /\ \/ /\ MayRetry
          /\ attempt' = NextAttempt
          /\ failed' = IF failed > MaxRetries THEN failed ELSE failed + 1
          /\ UNCHANGED <<pc, op, read, answer>>
       \/ ~MayRetry /\ Return("unknown", "retries", << >>)
    /\ UNCHANGED <<settings, token, iikoVars, books, calls, faults>>

-----------------------------------------------------------------------------
(* close, and the next process *)

NeedsLogout == token # NoToken

Close ==
    /\ pc = "idle"
    /\ \/ NeedsLogout /\ pc' = "logout" /\ UNCHANGED token
       \/ ~NeedsLogout /\ pc' = "closed" /\ token' = NoToken
    /\ UNCHANGED <<settings, op, attempt, read, answer, iikoVars, failed, books, calls, faults>>

\* Whatever api/logout answers, and also if it does not, the token is dropped.
LoggedOut ==
    /\ pc = "logout"
    /\ \/ sessions' = sessions \ {token} /\ UNCHANGED faults
       \/ Costs /\ UNCHANGED sessions
    /\ token' = NoToken /\ pc' = "closed"
    /\ UNCHANGED <<settings, op, attempt, read, answer, issued, refused, failed, books, calls>>

\* A client of a new process, with the settings found then.
NewClient ==
    /\ settings' \in Settings
    /\ token' = NoToken /\ pc' = "idle" /\ op' = "none" /\ attempt' = 0
    /\ read' = << >> /\ answer' = NoAnswer /\ failed' = 0

NewProcess ==
    /\ pc = "closed"
    /\ NewClient
    /\ UNCHANGED <<iikoVars, books, calls, faults>>

\* The process is killed: nothing is closed, and a request on its way may arrive.
Crash ==
    /\ pc # "closed"
    /\ Costs
    /\ NewClient
    /\ \/ UNCHANGED <<sessions, issued>>
       \/ pc = "auth" /\ issued' = issued + 1 /\ sessions' = sessions \cup {issued + 1}
       \/ pc = "logout" /\ sessions' = sessions \ {token} /\ UNCHANGED issued
    /\ UNCHANGED <<refused, books, calls>>

-----------------------------------------------------------------------------

Answers ==
    \/ AuthAccepted \/ AuthRefused \/ AuthLost
    \/ DepartmentsAnswered \/ ReportAnswered \/ AnswerUnusable \/ SessionRefused
    \/ RequestFails \/ LoggedOut

Next ==
    \/ SessionExpires \/ BooksChange
    \/ CallBlocked \/ ProbeCached \/ StartCall
    \/ Answers
    \/ Close \/ NewProcess \/ Crash

Spec == Init /\ [][Next]_vars

\* httpx ends every request with an answer or, after the configured timeouts, an
\* error; every program that builds a client closes it in a finally clause.
FairSpec == Spec /\ WF_vars(Answers) /\ WF_vars(Close)

-----------------------------------------------------------------------------
(* Properties *)

\* The state is well formed: no request under a token is made without one, and a
\* call in progress has returned nothing yet (ServerRestIikoClient).
TypeOK ==
    /\ settings \in Settings
    /\ token \in 0 .. issued
    /\ pc \in {"idle", "auth", "departments", "report", "logout", "closed"}
    /\ op \in Ops \cup {"none"}
    /\ attempt \in 0 .. MaxRetries /\ failed = attempt
    /\ read \in Seq(0 .. books)
    /\ answer \in [op : Ops \cup {"none"}, status : {"none", "proven", "blocked", "unknown"},
                   at : {"none", "idle", "auth", "departments", "report", "retries"},
                   sales : Seq(0 .. books)]
    /\ issued \in Nat /\ sessions \subseteq 1 .. issued /\ refused \subseteq 1 .. issued
    /\ books \in 0 .. MaxChanges /\ calls \in 0 .. MaxCalls /\ faults \in 0 .. MaxFaults

\* Sessions pile up at iiko only by answers that were lost or useless and by killed
\* processes: apart from these, every session but the client's is closed, however
\* many calls, refusals and processes there were (authenticate, close).
EverySessionIsGivenBack == Cardinality(sessions \ {token}) <= faults

\* A request goes out under a token, and never under one iiko has refused before:
\* after a 401 the next call authenticates, and no report is asked for with an
\* empty key (_fetch_olap_sales_report, list_organizations, close).
RefusedIsNotUsedAgain ==
    Reading \/ pc = "logout" => token # NoToken /\ token \notin refused

\* A request is given up for a transient failure only when it has failed
\* MaxRetries + 1 times in a row, whatever the reports before it took (_get,
\* _post_json).
GivesUpAfterEveryTry ==
    [][op # "none" /\ answer'.at = "retries" => failed = MaxRetries]_vars

\* A fetch is answered with three reports of this fetch, in the order they were
\* read, or with none (fetch_orders_or_sales).
Promise == INSTANCE SalesReading WITH
    busy <- op = "fetch_orders_or_sales", sales <- answer.sales

KeepsPromise == Promise!Spec

\* Every client is closed in the end, whatever iiko answers (close, _post_json).
EveryClientCloses == pc # "closed" ~> pc = "closed"
=============================================================================
