-------------------------- MODULE IikoClient_proofs --------------------------
(***************************************************************************)
(* Proofs about IikoClient, for every number of retries, calls, faults and *)
(* changes: what the client knows of its call and of its session, and that *)
(* it keeps what SalesReading promises.                                    *)
(***************************************************************************)
EXTENDS IikoClient, FiniteSetTheorems, TLAPS

\* What the request awaited says about the call, and what a call has of its
\* reports before it ends.
CallShape ==
    /\ op = "none" <=> pc \in {"idle", "logout", "closed"}
    /\ pc = "departments" => op = "list_organizations"
    /\ pc = "report" => op = "fetch_orders_or_sales"
    /\ op # "none" => answer = NoAnswer
    /\ pc # "report" => read = << >>
    /\ Len(read) =< 2
    /\ ~Reading => attempt = 0

\* What the client knows of its session.
SessionShape ==
    /\ Reading \/ pc = "logout" => token # NoToken
    /\ pc \in {"auth", "closed"} => token = NoToken
    /\ token \notin refused

\* The inductive invariant: TypeOK and RefusedIsNotUsedAgain do not carry over a
\* step without knowing which call awaits which request.
ClientInv == TypeOK /\ CallShape /\ SessionShape

\* The sessions only iiko knows of.
Rest == sessions \ {token}

-----------------------------------------------------------------------------
(* Sequences of versions *)

\* A sequence over a set is one over a larger set.
LEMMA SeqGrows ==
    ASSUME NEW n \in Nat, NEW s \in Seq(0 .. n)
    PROVE  s \in Seq(0 .. n + 1)
<1>1. 0 .. n \subseteq 0 .. n + 1
  OBVIOUS
<1> QED
  BY <1>1

\* Results and the absence of one are answers.
LEMMA ResultIsAnswer ==
    ASSUME TypeOK, NEW o \in Ops \cup {"none"},
           NEW status \in {"none", "proven", "blocked", "unknown"},
           NEW at \in {"none", "idle", "auth", "departments", "report", "retries"},
           NEW sales \in Seq(0 .. books)
    PROVE  Result(o, status, at, sales) \in
             [op : Ops \cup {"none"}, status : {"none", "proven", "blocked", "unknown"},
              at : {"none", "idle", "auth", "departments", "report", "retries"},
              sales : Seq(0 .. books)]
BY DEF Result

\* The same of the answer before any call.
LEMMA NoAnswerIsAnswer ==
    NoAnswer \in
      [op : Ops \cup {"none"}, status : {"none", "proven", "blocked", "unknown"},
       at : {"none", "idle", "auth", "departments", "report", "retries"},
       sales : Seq(0 .. books)]
BY DEF NoAnswer

-----------------------------------------------------------------------------
(* The invariant *)

\* The client begins with nothing.
LEMMA ClientInvInit == Init => ClientInv
BY IikoClientAssumption
   DEF Init, ClientInv, TypeOK, CallShape, SessionShape, NoAnswer, NoToken, Reading, Ops

\* What iiko does on its own leaves the client alone.
LEMMA IikoKeepsInv ==
    ASSUME ClientInv, SessionExpires \/ BooksChange
    PROVE  ClientInv'
<1> USE DEF ClientInv
<1>1. CASE SessionExpires
  BY <1>1 DEF SessionExpires, clientVars, TypeOK, CallShape, SessionShape, Reading
<1>2. CASE BooksChange
  <2>1. read' \in Seq(0 .. books')
    BY <1>2, SeqGrows, IikoClientAssumption DEF BooksChange, clientVars, TypeOK
  <2>2. answer.sales \in Seq(0 .. books')
    BY <1>2, SeqGrows, IikoClientAssumption DEF BooksChange, TypeOK
  <2>3. answer' \in
          [op : Ops \cup {"none"}, status : {"none", "proven", "blocked", "unknown"},
           at : {"none", "idle", "auth", "departments", "report", "retries"},
           sales : Seq(0 .. books')]
    BY <1>2, <2>2 DEF BooksChange, clientVars, TypeOK
  <2>4. TypeOK'
    BY <1>2, <2>1, <2>3, IikoClientAssumption DEF BooksChange, clientVars, iikoVars, TypeOK
  <2> QED
    BY <1>2, <2>4 DEF BooksChange, clientVars, iikoVars, CallShape, SessionShape, Reading
<1> QED
  BY <1>1, <1>2

\* What a call returns is an answer, and leaves the client idle.
LEMMA ReturnKeepsInv ==
    ASSUME ClientInv, op # "none",
           NEW status \in {"proven", "blocked", "unknown"},
           NEW at \in {"auth", "departments", "report", "retries"},
           NEW sales \in Seq(0 .. books),
           Return(status, at, sales),
           token' \in 0 .. issued', token' \notin refused',
           issued' \in Nat, sessions' \subseteq 1 .. issued', refused' \subseteq 1 .. issued',
           faults' \in 0 .. MaxFaults, UNCHANGED <<settings, books, calls>>
    PROVE  ClientInv'
<1>1. answer' \in
        [op : Ops \cup {"none"}, status : {"none", "proven", "blocked", "unknown"},
         at : {"none", "idle", "auth", "departments", "report", "retries"},
         sales : Seq(0 .. books')]
  BY SMTT(40), ResultIsAnswer DEF ClientInv, TypeOK, Return
<1>2. TypeOK'
  BY SMTT(40), <1>1, IikoClientAssumption DEF ClientInv, TypeOK, Return
<1>3. CallShape'
  BY DEF Return, CallShape, Reading
<1>4. SessionShape'
  BY DEF Return, SessionShape, Reading
<1> QED
  BY <1>2, <1>3, <1>4 DEF ClientInv

\* A call that is blocked or answered from the cached token stays idle.
LEMMA ShortCallsKeepInv ==
    ASSUME ClientInv, CallBlocked \/ ProbeCached
    PROVE  ClientInv'
<1>1. /\ pc = "idle" /\ calls < MaxCalls /\ calls' = calls + 1
      /\ UNCHANGED <<settings, token, pc, op, attempt, read, iikoVars, failed, books, faults>>
  BY DEF CallBlocked, ProbeCached
<1>2. answer' \in
        [op : Ops \cup {"none"}, status : {"none", "proven", "blocked", "unknown"},
         at : {"none", "idle", "auth", "departments", "report", "retries"},
         sales : Seq(0 .. books)]
  <2>1. PICK o \in Ops, status \in {"blocked", "proven"} : answer' = Result(o, status, "idle", << >>)
    BY DEF CallBlocked, ProbeCached, Ops
  <2>2. TypeOK /\ << >> \in Seq(0 .. books)
    BY DEF ClientInv
  <2>3. Result(o, status, "idle", << >>) \in
          [op : Ops \cup {"none"}, status : {"none", "proven", "blocked", "unknown"},
           at : {"none", "idle", "auth", "departments", "report", "retries"},
           sales : Seq(0 .. books)]
    BY <2>2 DEF Result
  <2> QED
    BY <2>1, <2>3
<1>3. TypeOK'
  BY <1>1, <1>2, IikoClientAssumption DEF ClientInv, TypeOK, iikoVars
<1> QED
  BY <1>1, <1>3 DEF ClientInv, CallShape, SessionShape, Reading, iikoVars

\* A call that begins awaits its first request.
LEMMA StartKeepsInv ==
    ASSUME ClientInv, StartCall
    PROVE  ClientInv'
<1>1. PICK o \in Ops :
        /\ op' = o
        /\ \/ NeedsAuth /\ Await("auth")
           \/ ~NeedsAuth /\ o # "probe" /\ Await(RequestOf[o])
  BY DEF StartCall
<1>2. /\ pc = "idle" /\ calls < MaxCalls /\ calls' = calls + 1
      /\ read' = << >> /\ answer' = NoAnswer
      /\ UNCHANGED <<settings, token, iikoVars, books, faults>>
  BY DEF StartCall
<1>3. /\ attempt' = 0 /\ failed' = 0
      /\ \/ pc' = "auth" /\ token = NoToken
         \/ token # NoToken /\ o = "list_organizations" /\ pc' = "departments"
         \/ token # NoToken /\ o = "fetch_orders_or_sales" /\ pc' = "report"
  BY <1>1 DEF Await, NeedsAuth, RequestOf, Ops
<1>4. TypeOK'
  BY <1>1, <1>2, <1>3, NoAnswerIsAnswer, IikoClientAssumption DEF ClientInv, TypeOK, iikoVars
<1>5. CallShape'
  BY <1>1, <1>2, <1>3 DEF CallShape, Reading, Ops
<1>6. SessionShape'
  BY <1>2, <1>3 DEF ClientInv, SessionShape, Reading, iikoVars
<1> QED
  BY <1>4, <1>5, <1>6 DEF ClientInv

\* The three answers to authenticate.
LEMMA AuthKeepsInv ==
    ASSUME ClientInv, AuthAccepted \/ AuthRefused \/ AuthLost
    PROVE  ClientInv'
<1>0. pc = "auth" /\ op # "none" /\ token = NoToken /\ << >> \in Seq(0 .. books)
  BY DEF AuthAccepted, AuthRefused, AuthLost, ClientInv, CallShape, SessionShape
<1>1. CASE AuthAccepted /\ op = "probe"
  <2>1. Return("proven", "auth", << >>)
    BY <1>1, <1>0 DEF AuthAccepted
  <2>2. /\ token' = issued + 1 /\ issued' = issued + 1 /\ sessions' = sessions \cup {issued + 1}
        /\ UNCHANGED <<settings, refused, books, calls, faults>>
    BY <1>1 DEF AuthAccepted
  <2>3. /\ token' \in 0 .. issued' /\ token' \notin refused' /\ issued' \in Nat
        /\ sessions' \subseteq 1 .. issued' /\ refused' \subseteq 1 .. issued'
        /\ faults' \in 0 .. MaxFaults
    BY <2>2 DEF ClientInv, TypeOK
  <2> QED
    BY <1>0, <2>1, <2>2, <2>3, ReturnKeepsInv
<1>2. CASE AuthAccepted /\ op # "probe"
  <2>1. /\ token' = issued + 1 /\ issued' = issued + 1 /\ sessions' = sessions \cup {issued + 1}
        /\ Await(RequestOf[op])
        /\ UNCHANGED <<settings, op, read, answer, refused, books, calls, faults>>
    BY <1>2 DEF AuthAccepted
  <2>2. /\ attempt' = 0 /\ failed' = 0
        /\ \/ op = "list_organizations" /\ pc' = "departments"
           \/ op = "fetch_orders_or_sales" /\ pc' = "report"
    BY <1>0, <1>2, <2>1 DEF Await, RequestOf, ClientInv, TypeOK, Ops
  <2>3. TypeOK'
    BY <2>1, <2>2, IikoClientAssumption DEF ClientInv, TypeOK
  <2>4. CallShape'
    BY <1>0, <2>1, <2>2 DEF ClientInv, CallShape, Reading
  <2>5. SessionShape'
    BY <2>1, <2>2 DEF ClientInv, TypeOK, SessionShape, Reading, NoToken
  <2> QED
    BY <2>3, <2>4, <2>5 DEF ClientInv
<1>3. CASE AuthRefused
  <2>1. PICK status \in {"blocked", "unknown"} : Return(status, "auth", << >>)
    BY <1>3 DEF AuthRefused
  <2> QED
    BY <1>0, <1>3, <2>1, ReturnKeepsInv
       DEF AuthRefused, iikoVars, ClientInv, TypeOK, SessionShape
<1>4. CASE AuthLost
  <2>1. /\ Return("unknown", "auth", << >>)
        /\ issued' = issued + 1 /\ sessions' = sessions \cup {issued + 1}
        /\ faults < MaxFaults /\ faults' = faults + 1
        /\ UNCHANGED <<settings, token, refused, books, calls>>
    BY <1>4 DEF AuthLost, Costs
  <2>2. /\ token' \in 0 .. issued' /\ token' \notin refused' /\ issued' \in Nat
        /\ sessions' \subseteq 1 .. issued' /\ refused' \subseteq 1 .. issued'
    BY <2>1 DEF ClientInv, TypeOK, SessionShape
  <2>3. faults' \in 0 .. MaxFaults
    BY <2>1, IikoClientAssumption DEF ClientInv, TypeOK
  <2> QED
    BY <1>0, <2>1, <2>2, <2>3, ReturnKeepsInv
<1> QED
  BY <1>1, <1>2, <1>3, <1>4

\* The answers to a request under a token, and its failures.
LEMMA ReadingKeepsInv ==
    ASSUME ClientInv, \/ DepartmentsAnswered \/ ReportAnswered
                      \/ AnswerUnusable \/ SessionRefused \/ RequestFails
    PROVE  ClientInv'
<1>0. /\ pc \in {"departments", "report"} /\ op # "none" /\ token # NoToken
      /\ << >> \in Seq(0 .. books) /\ read \in Seq(0 .. books) /\ books \in 0 .. books
  BY IikoClientAssumption
     DEF DepartmentsAnswered, ReportAnswered, AnswerUnusable, SessionRefused, RequestFails,
         Reading, ClientInv, TypeOK, CallShape, SessionShape
<1>1. CASE DepartmentsAnswered
  <2>1. Return("proven", "departments", << >>)
    BY <1>1 DEF DepartmentsAnswered
  <2> QED
    BY <1>0, <1>1, <2>1, ReturnKeepsInv
       DEF DepartmentsAnswered, iikoVars, ClientInv, TypeOK, SessionShape
<1>2. CASE ReportAnswered /\ IsLastReport
  <2>1. Return("proven", "report", Append(read, books)) /\ Append(read, books) \in Seq(0 .. books)
    BY <1>0, <1>2 DEF ReportAnswered
  <2> QED
    BY <1>0, <1>2, <2>1, ReturnKeepsInv
       DEF ReportAnswered, iikoVars, ClientInv, TypeOK, SessionShape
<1>3. CASE ReportAnswered /\ ~IsLastReport
  <2>1. /\ pc = "report" /\ pc' = "report" /\ attempt' = 0 /\ failed' = 0
        /\ read' = Append(read, books)
        /\ UNCHANGED <<op, answer, settings, token, iikoVars, books, calls, faults>>
    BY <1>3 DEF ReportAnswered, Await
  <2>2. read' \in Seq(0 .. books') /\ Len(read') = Len(read) + 1 /\ Len(read) \in Nat
    BY <1>0, <2>1
  <2>3. TypeOK'
    BY <2>1, <2>2, IikoClientAssumption DEF ClientInv, TypeOK, iikoVars
  <2>4. Len(read') =< 2
    <3>1. Len(read) =< 2 /\ Len(read) # 2
      BY <1>3 DEF ClientInv, CallShape, IsLastReport
    <3>2. \A n \in Nat : n =< 2 /\ n # 2 => n + 1 =< 2
      OBVIOUS
    <3>3. Len(read) + 1 =< 2
      BY <2>2, <3>1, <3>2
    <3> QED
      BY <2>2, <3>3, Zenon
  <2>6. CallShape'
    BY <2>1, <2>4 DEF ClientInv, CallShape, Reading
  <2>5. SessionShape'
    BY <2>1 DEF ClientInv, SessionShape, Reading, iikoVars
  <2> QED
    BY <2>3, <2>5, <2>6 DEF ClientInv
<1>4. CASE AnswerUnusable
  <2>1. PICK status \in {"blocked", "unknown"} : Return(status, pc, << >>)
    BY <1>4 DEF AnswerUnusable
  <2> QED
    BY <1>0, <1>4, <2>1, ReturnKeepsInv
       DEF AnswerUnusable, iikoVars, ClientInv, TypeOK, SessionShape
<1>5. CASE SessionRefused
  <2>1. Return("blocked", pc, << >>) /\ token' = NoToken /\ refused' = refused \cup {token}
    BY <1>5 DEF SessionRefused, TokenAfterRefusal
  <2>2. faults' \in 0 .. MaxFaults
    BY <1>5, IikoClientAssumption DEF SessionRefused, Costs, ClientInv, TypeOK
  <2>3. refused' \subseteq 1 .. issued /\ token' \notin refused' /\ token' \in 0 .. issued
    BY <1>0, <2>1 DEF ClientInv, TypeOK, NoToken
  <2> QED
    BY <1>0, <1>5, <2>1, <2>2, <2>3, ReturnKeepsInv DEF SessionRefused, ClientInv, TypeOK
<1>6. CASE RequestFails /\ MayRetry /\ UNCHANGED <<pc, op, read, answer>>
  <2>1. /\ attempt' = attempt + 1 /\ attempt < MaxRetries
        /\ failed' = IF failed > MaxRetries THEN failed ELSE failed + 1
        /\ UNCHANGED <<pc, op, read, answer, settings, token, iikoVars, books, calls, faults>>
    BY <1>6 DEF RequestFails, MayRetry, NextAttempt
  <2>2. TypeOK'
    BY <2>1, IikoClientAssumption DEF ClientInv, TypeOK, iikoVars
  <2>3. CallShape' /\ SessionShape'
    BY <1>0, <2>1 DEF ClientInv, CallShape, SessionShape, Reading, iikoVars
  <2> QED
    BY <2>2, <2>3 DEF ClientInv
<1>7. CASE RequestFails /\ ~MayRetry
  <2>1. Return("unknown", "retries", << >>)
    BY <1>7 DEF RequestFails
  <2> QED
    BY <1>0, <1>7, <2>1, ReturnKeepsInv
       DEF RequestFails, iikoVars, ClientInv, TypeOK, SessionShape
<1> QED
  BY <1>1, <1>2, <1>3, <1>4, <1>5, <1>6, <1>7 DEF RequestFails

\* A new client begins with nothing, whatever the last one left at iiko.
LEMMA NewClientKeepsInv ==
    ASSUME ClientInv, NewClient,
           issued' \in Nat, issued =< issued', sessions' \subseteq 1 .. issued',
           UNCHANGED <<refused, books, calls>>, faults' \in 0 .. MaxFaults
    PROVE  ClientInv'
<1>1. refused' \subseteq 1 .. issued' /\ 0 \notin refused'
  BY DEF ClientInv, TypeOK
<1>2. TypeOK'
  BY SMTT(40), <1>1, NoAnswerIsAnswer, IikoClientAssumption
     DEF NewClient, ClientInv, TypeOK, NoToken
<1>3. CallShape' /\ SessionShape'
  BY <1>1 DEF NewClient, CallShape, SessionShape, Reading, NoToken
<1> QED
  BY <1>2, <1>3 DEF ClientInv

\* close, the process that follows, and a process that is killed.
LEMMA EndKeepsInv ==
    ASSUME ClientInv, Close \/ LoggedOut \/ NewProcess \/ Crash
    PROVE  ClientInv'
<1>1. CASE Close
  <2>1. TypeOK'
    BY <1>1, IikoClientAssumption DEF Close, iikoVars, ClientInv, TypeOK, NoToken
  <2>2. CallShape' /\ SessionShape'
    BY <1>1 DEF Close, NeedsLogout, iikoVars, ClientInv, TypeOK, CallShape, SessionShape,
                Reading, NoToken
  <2> QED
    BY <2>1, <2>2 DEF ClientInv
<1>2. CASE LoggedOut
  <2>0. faults' \in 0 .. MaxFaults /\ sessions' \subseteq 1 .. issued'
    <3>1. /\ faults \in 0 .. MaxFaults /\ sessions \subseteq 1 .. issued
          /\ MaxFaults \in Nat
      BY IikoClientAssumption DEF ClientInv, TypeOK
    <3>2. /\ issued' = issued
          /\ sessions' = sessions \ {token} \/ sessions' = sessions
          /\ faults' = faults \/ (faults < MaxFaults /\ faults' = faults + 1)
      BY <1>2 DEF LoggedOut, Costs
    <3>3. faults' \in 0 .. MaxFaults
      BY <3>1, <3>2
    <3> QED
      BY <3>1, <3>2, <3>3
  <2>1. TypeOK'
    BY <1>2, <2>0 DEF LoggedOut, ClientInv, TypeOK, NoToken
  <2>2. CallShape' /\ SessionShape'
    BY <1>2 DEF LoggedOut, ClientInv, TypeOK, CallShape, SessionShape, Reading, NoToken
  <2> QED
    BY <2>1, <2>2 DEF ClientInv
<1>3. CASE NewProcess
  BY <1>3, NewClientKeepsInv DEF NewProcess, iikoVars, ClientInv, TypeOK
<1>4. CASE Crash
  <2>1. faults' \in 0 .. MaxFaults
    BY <1>4, IikoClientAssumption DEF Crash, Costs, ClientInv, TypeOK
  <2>2. issued \in Nat /\ sessions \subseteq 1 .. issued
    BY DEF ClientInv, TypeOK
  <2>3. \/ UNCHANGED <<sessions, issued>>
        \/ issued' = issued + 1 /\ sessions' = sessions \cup {issued + 1}
        \/ sessions' = sessions \ {token} /\ issued' = issued
    BY <1>4 DEF Crash
  <2>4. issued' \in Nat /\ issued =< issued' /\ sessions' \subseteq 1 .. issued'
    <3>1. CASE UNCHANGED <<sessions, issued>>
      BY <2>2, <3>1
    <3>2. CASE issued' = issued + 1 /\ sessions' = sessions \cup {issued + 1}
      BY <2>2, <3>2
    <3>3. CASE sessions' = sessions \ {token} /\ issued' = issued
      <4>1. sessions' \subseteq sessions
        BY <3>3, Zenon
      <4>2. issued' \in Nat /\ issued =< issued'
        BY <2>2, <3>3
      <4> QED
        BY <2>2, <3>3, <4>1, <4>2, Zenon
    <3> QED
      BY <2>3, <3>1, <3>2, <3>3
  <2> QED
    BY <1>4, <2>1, <2>4, NewClientKeepsInv DEF Crash
<1> QED
  BY <1>1, <1>2, <1>3, <1>4

\* Every step keeps the invariant.
LEMMA ClientInvStep ==
    ASSUME ClientInv, [Next]_vars
    PROVE  ClientInv'
<1>1. CASE UNCHANGED vars
  BY <1>1 DEF vars, clientVars, iikoVars, ClientInv, TypeOK, CallShape, SessionShape, Reading
<1>2. CASE Next
  BY <1>2, IikoKeepsInv, ShortCallsKeepInv, StartKeepsInv, AuthKeepsInv, ReadingKeepsInv,
     EndKeepsInv, Zenon DEF Next, Answers
<1> QED
  BY <1>1, <1>2

\* The inductive invariant of the client, for every value of the constants.
THEOREM ClientInvariant == Spec => []ClientInv
BY ClientInvInit, ClientInvStep, PTL DEF Spec

\* The state is always well formed.
THEOREM TypeCorrect == Spec => []TypeOK
<1>1. ClientInv => TypeOK
  BY DEF ClientInv
<1> QED
  BY <1>1, ClientInvariant, PTL

\* No request goes out without a token, or under one iiko has refused.
THEOREM RefusedIsNeverUsedAgain == Spec => []RefusedIsNotUsedAgain
<1>1. ClientInv => RefusedIsNotUsedAgain
  BY DEF ClientInv, SessionShape, RefusedIsNotUsedAgain
<1> QED
  BY <1>1, ClientInvariant, PTL

\* A request is given up only after every try: attempts and failures agree.
THEOREM GivenUpAfterEveryTry == Spec => GivesUpAfterEveryTry
<1> DEFINE Tried == op # "none" /\ answer'.at = "retries" => failed = MaxRetries
<1>1. ASSUME ClientInv, [Next]_vars, op # "none", answer'.at = "retries"
      PROVE  failed = MaxRetries
  <2>0. /\ pc \in {"auth", "departments", "report"} /\ answer = NoAnswer
        /\ attempt \in 0 .. MaxRetries /\ failed = attempt /\ MaxRetries \in Nat
    BY <1>1, IikoClientAssumption DEF ClientInv, TypeOK, CallShape
  <2>1. answer' # answer /\ answer' # NoAnswer
    BY <1>1, <2>0 DEF NoAnswer
  <2>2. CASE RequestFails
    <3>1. attempt >= MaxRetries
      BY <2>0, <2>1, <2>2 DEF RequestFails, MayRetry
    <3> QED
      BY <2>0, <3>1
  <2>3. ASSUME NEW status, NEW at, NEW sales, Return(status, at, sales)
        PROVE  at = "retries"
    BY <1>1, <2>3 DEF Return, Result
  <2>4. ~(AuthAccepted \/ AuthRefused \/ AuthLost \/ DepartmentsAnswered \/ ReportAnswered)
    BY <2>1, <2>3
       DEF AuthAccepted, AuthRefused, AuthLost, DepartmentsAnswered, ReportAnswered
  <2>5. ~(AnswerUnusable \/ SessionRefused)
    BY <2>0, <2>3 DEF AnswerUnusable, SessionRefused
  <2>6. ~(SessionExpires \/ BooksChange \/ UNCHANGED vars)
    BY <2>1 DEF SessionExpires, BooksChange, clientVars, vars
  <2>7. ~(CallBlocked \/ ProbeCached \/ StartCall \/ Close \/ NewProcess \/ LoggedOut)
    BY <2>0 DEF CallBlocked, ProbeCached, StartCall, Close, NewProcess, LoggedOut
  <2>8. ~Crash
    BY <2>1 DEF Crash, NewClient
  <2> QED
    BY <1>1, <2>2, <2>4, <2>5, <2>6, <2>7, <2>8 DEF Next, Answers
<1>2. ClientInv /\ [Next]_vars => [Tried]_vars
  BY <1>1
<1> QED
  BY <1>2, ClientInvariant, PTL DEF Spec, GivesUpAfterEveryTry

-----------------------------------------------------------------------------
(* The sessions left at iiko *)

\* A step leaves no session behind, or one, at the price of a fault.
LEMMA NothingPilesUp ==
    ASSUME ClientInv, [Next]_vars
    PROVE  \/ Rest' \subseteq Rest /\ faults' \in Nat /\ faults' >= faults
           \/ \E s : Rest' \subseteq Rest \cup {s} /\ faults' = faults + 1
<1>0. /\ sessions \subseteq 1 .. issued /\ issued \in Nat /\ faults \in Nat /\ token \in Nat
      /\ (pc \in {"auth", "closed"} => token = 0) /\ 0 \notin sessions
  BY IikoClientAssumption DEF ClientInv, TypeOK, SessionShape, NoToken
<1>1. CASE sessions' \subseteq sessions /\ token' = token /\ faults' = faults
  BY <1>0, <1>1 DEF Rest
<1>2. CASE AuthAccepted
  BY <1>0, <1>2 DEF AuthAccepted, Rest
<1>3. CASE AuthLost
  BY <1>0, <1>3 DEF AuthLost, Costs, Rest
<1>4. CASE SessionRefused
  <2>1. CASE token \in sessions
    BY <1>0, <1>4, <2>1 DEF SessionRefused, TokenAfterRefusal, Costs, Rest
  <2>2. CASE token \notin sessions
    BY <1>0, <1>4, <2>2 DEF SessionRefused, Rest
  <2> QED
    BY <2>1, <2>2
<1>5. CASE LoggedOut
  BY <1>0, <1>5 DEF LoggedOut, Costs, Rest
<1>6. CASE Crash
  <2>1. faults' = faults + 1
    BY <1>6 DEF Crash, Costs
  <2>2. CASE sessions' \subseteq sessions
    BY <2>1, <2>2 DEF Rest
  <2>3. CASE pc = "auth" /\ sessions' = sessions \cup {issued + 1}
    BY <1>0, <2>1, <2>3 DEF Rest
  <2> QED
    BY <1>6, <2>2, <2>3 DEF Crash
<1>7. CASE Close \/ NewProcess
  BY <1>0, <1>7 DEF Close, NeedsLogout, NewProcess, NewClient, iikoVars, NoToken, Rest
<1>8. CASE UNCHANGED vars
  BY <1>1, <1>8 DEF vars, clientVars, iikoVars
<1>9. CASE SessionExpires \/ BooksChange
  BY <1>1, <1>9 DEF SessionExpires, BooksChange, clientVars, iikoVars
<1>10. CASE CallBlocked \/ ProbeCached \/ StartCall
  BY <1>1, <1>10 DEF CallBlocked, ProbeCached, StartCall, iikoVars
<1>11. CASE AuthRefused \/ DepartmentsAnswered \/ ReportAnswered \/ AnswerUnusable \/ RequestFails
  BY <1>1, <1>11
     DEF AuthRefused, DepartmentsAnswered, ReportAnswered, AnswerUnusable, RequestFails, iikoVars
<1> QED
  BY <1>2, <1>3, <1>4, <1>5, <1>6, <1>7, <1>8, <1>9, <1>10, <1>11 DEF Next, Answers

\* Sessions only iiko knows of are paid for with faults, one each.
THEOREM SessionsAreGivenBack == Spec => []EverySessionIsGivenBack
<1>1. ASSUME ClientInv PROVE IsFiniteSet(Rest) /\ faults \in Nat
  <2>1. Rest \subseteq 1 .. issued /\ issued \in Int /\ 1 \in Int /\ faults \in Nat
    BY <1>1, IikoClientAssumption DEF ClientInv, TypeOK, Rest
  <2>2. IsFiniteSet(1 .. issued)
    BY <2>1, FS_Interval
  <2> QED
    BY <2>1, <2>2, FS_Subset
<1>2. Init => EverySessionIsGivenBack
  <2> SUFFICES ASSUME Init PROVE EverySessionIsGivenBack
    OBVIOUS
  <2>1. sessions \ {token} = {} /\ faults = 0
    BY DEF Init
  <2> QED
    BY <2>1, FS_EmptySet DEF EverySessionIsGivenBack
<1>3. ASSUME ClientInv, EverySessionIsGivenBack, [Next]_vars
      PROVE  EverySessionIsGivenBack'
  <2>1. IsFiniteSet(Rest) /\ faults \in Nat
    BY <1>1, <1>3
  <2>2. Cardinality(Rest) =< faults
    BY <1>3 DEF EverySessionIsGivenBack, Rest
  <2>3. Cardinality(Rest) \in Nat
    BY <2>1, FS_CardinalityType
  <2>4. CASE Rest' \subseteq Rest /\ faults' \in Nat /\ faults' >= faults
    <3>1. IsFiniteSet(Rest') /\ Cardinality(Rest') =< Cardinality(Rest)
      BY <2>1, <2>4, FS_Subset
    <3>2. Cardinality(Rest') \in Nat
      BY <3>1, FS_CardinalityType
    <3>3. Cardinality(Rest') =< faults'
      BY <2>1, <2>2, <2>3, <2>4, <3>1, <3>2
    <3> QED
      BY <3>3 DEF EverySessionIsGivenBack, Rest
  <2>5. ASSUME NEW s, Rest' \subseteq Rest \cup {s}, faults' = faults + 1
        PROVE  EverySessionIsGivenBack'
    <3>1. IsFiniteSet(Rest \cup {s})
      BY <2>1, FS_AddElement
    <3>2. \/ Cardinality(Rest \cup {s}) = Cardinality(Rest)
          \/ Cardinality(Rest \cup {s}) = Cardinality(Rest) + 1
      BY <2>1, FS_AddElement
    <3>3. IsFiniteSet(Rest') /\ Cardinality(Rest') =< Cardinality(Rest \cup {s})
      BY <2>5, <3>1, FS_Subset
    <3>4. Cardinality(Rest') \in Nat
      BY <3>3, FS_CardinalityType
    <3>5. Cardinality(Rest') =< faults'
      BY <2>1, <2>2, <2>3, <2>5, <3>2, <3>3, <3>4
    <3> QED
      BY <3>5 DEF EverySessionIsGivenBack, Rest
  <2> QED
    BY <1>3, <2>4, <2>5, NothingPilesUp
<1> QED
  BY <1>2, <1>3, ClientInvariant, PTL DEF Spec

-----------------------------------------------------------------------------
(* The promise *)

\* Every step of the client is a step of SalesReading, or changes nothing of it.
LEMMA StepKeepsPromise ==
    ASSUME ClientInv, [Next]_vars
    PROVE  [Promise!Next]_(Promise!readingVars)
<1> USE DEF Promise!Next, Promise!readingVars
<1>0. /\ op \in Ops \cup {"none"} /\ read \in Seq(0 .. books) /\ NoAnswer.sales = << >>
      /\ op # "none" => answer.sales = << >>
      /\ (op = "none" <=> pc \in {"idle", "logout", "closed"})
      /\ (pc = "report" => op = "fetch_orders_or_sales")
      /\ (pc = "departments" => op = "list_organizations")
      /\ (pc # "report" => read = << >>) /\ Len(read) =< 2
  BY DEF ClientInv, TypeOK, CallShape, NoAnswer
<1>1. ASSUME NEW status, NEW at, Return(status, at, << >>), op # "none", books' = books
      PROVE  [Promise!Next]_(Promise!readingVars)
  <2>1. op' = "none" /\ read' = << >> /\ answer'.sales = << >>
    BY <1>1 DEF Return, Result
  <2>2. CASE op = "fetch_orders_or_sales"
    BY <1>0, <1>1, <2>1, <2>2 DEF Promise!GiveUp
  <2>3. CASE op # "fetch_orders_or_sales"
    <3>1. pc # "report"
      BY <1>0, <2>3
    <3> QED
      BY <1>0, <1>1, <2>1, <2>3, <3>1
  <2> QED
    BY <2>2, <2>3
<1>2. CASE SessionExpires \/ UNCHANGED vars
  BY <1>2 DEF SessionExpires, vars, clientVars
<1>3. CASE BooksChange
  BY <1>3 DEF BooksChange, clientVars, Promise!BooksChange
<1>4. CASE CallBlocked \/ ProbeCached
  <2>1. /\ answer'.sales = << >> /\ pc = "idle"
        /\ UNCHANGED <<op, read, books>>
    BY <1>4 DEF CallBlocked, ProbeCached, Result
  <2> QED
    BY <1>0, <2>1 DEF Promise!Forget
<1>5. CASE StartCall
  <2>1. pc = "idle" /\ read' = << >> /\ answer'.sales = << >> /\ books' = books
    BY <1>0, <1>5 DEF StartCall
  <2>2. CASE op' = "fetch_orders_or_sales"
    BY <1>0, <2>1, <2>2 DEF Promise!Begin
  <2>3. CASE op' # "fetch_orders_or_sales"
    BY <1>0, <2>1, <2>3 DEF Promise!Forget
  <2> QED
    BY <2>2, <2>3
<1>6. CASE AuthAccepted /\ op # "probe"
  BY <1>6 DEF AuthAccepted
<1>7. CASE AuthAccepted /\ op = "probe"
  BY <1>0, <1>1, <1>7 DEF AuthAccepted
<1>8. CASE AuthRefused \/ AuthLost \/ DepartmentsAnswered \/ AnswerUnusable \/ SessionRefused
  BY <1>0, <1>1, <1>8
     DEF AuthRefused, AuthLost, DepartmentsAnswered, AnswerUnusable, SessionRefused, Reading
<1>9. CASE RequestFails
  BY <1>0, <1>1, <1>9 DEF RequestFails, Reading
<1>10. CASE ReportAnswered /\ IsLastReport
  <2>1. /\ pc = "report" /\ Len(read) = 2 /\ op' = "none" /\ read' = << >>
        /\ answer'.sales = Append(read, books) /\ books' = books
    BY <1>10 DEF ReportAnswered, IsLastReport, Return, Result
  <2> QED
    BY <1>0, <2>1 DEF Promise!Complete
<1>11. CASE ReportAnswered /\ ~IsLastReport
  <2>1. /\ pc = "report" /\ Len(read) # 2 /\ read' = Append(read, books)
        /\ UNCHANGED <<op, answer, books>>
    BY <1>11 DEF ReportAnswered, IsLastReport
  <2>2. Len(read) < 2
    <3>1. \A n \in Nat : n =< 2 /\ n # 2 => n < 2
      OBVIOUS
    <3>2. Len(read) \in Nat
      BY <1>0
    <3> QED
      BY <1>0, <2>1, <3>1, <3>2, Zenon
  <2> QED
    BY <1>0, <2>1, <2>2 DEF Promise!Read
<1>12. CASE Close \/ LoggedOut
  BY <1>12 DEF Close, LoggedOut, iikoVars
<1>13. CASE NewProcess \/ Crash
  <2>1. op' = "none" /\ read' = << >> /\ answer'.sales = << >> /\ books' = books
    BY <1>0, <1>13 DEF NewProcess, Crash, NewClient
  <2>2. CASE op = "fetch_orders_or_sales"
    BY <1>0, <2>1, <2>2 DEF Promise!GiveUp
  <2>3. CASE op # "fetch_orders_or_sales"
    <3>1. read = << >>
      BY <1>0, <2>3
    <3> QED
      BY <2>1, <2>3, <3>1 DEF Promise!Forget
  <2> QED
    BY <2>2, <2>3
<1> QED
  BY <1>2, <1>3, <1>4, <1>5, <1>6, <1>7, <1>8, <1>9, <1>10, <1>11, <1>12, <1>13
     DEF Next, Answers

\* A fetch returns three reports of its own, in order, or none.
THEOREM ClientKeepsPromise == Spec => KeepsPromise
<1>1. Init => Promise!Init
  BY DEF Init, Promise!Init, NoAnswer
<1>2. ClientInv /\ [Next]_vars => [Promise!Next]_(Promise!readingVars)
  BY StepKeepsPromise
<1> QED
  BY <1>1, <1>2, ClientInvariant, PTL DEF Spec, KeepsPromise, Promise!Spec
=============================================================================
