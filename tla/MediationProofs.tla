--------------------------- MODULE MediationProofs ---------------------------
(***************************************************************************)
(* Theorems about Mediation, for every value of its constants.             *)
(***************************************************************************)
EXTENDS Mediation, SequenceTheorems, FiniteSetTheorems, TLAPS

\* A status change of attempts keeps their numbers and providers.
LEMMA WithAttemptStatusType ==
  ASSUME NEW attempts \in SUBSET AttemptRow, NEW n \in Nat,
         NEW status \in AttemptStatus
  PROVE  WithAttemptStatus(attempts, n, status) \in SUBSET AttemptRow
BY DEF WithAttemptStatus, AttemptRow

\* A new session row is well formed, with or without a provider to try.
LEMMA NewSessionType ==
  ASSUME NEW t, t.user \in Users, t.fortune \in Fortunes, t.key \in Keys,
         t.at \in Nat, NEW order \in Orders
  PROVE  NewSession(t, order) \in SessionRow
<1>1. order \in Seq(Providers)
  BY OrdersAssumption
<1>2. order # << >> => order[1] \in Providers
  BY <1>1, EmptySeq, LenProperties
<1>3. t.at + SessionTtl \in Nat
  BY LimitsAssumption
<1>4. order # << >> => FirstAttempt(order[1]) \in AttemptRow
  BY <1>2 DEF FirstAttempt, AttemptRow, AttemptStatus
<1> QED
  BY <1>1, <1>2, <1>3, <1>4 DEF NewSession, SessionRow, SessionStatus

\* Writing one row of a table keeps the table well formed.
LEMMA UpdateRow ==
  ASSUME NEW T, NEW table \in Seq(T), NEW i, NEW row,
         i \in DOMAIN table => row \in T
  PROVE  /\ [table EXCEPT ![i] = row] \in Seq(T)
         /\ DOMAIN [table EXCEPT ![i] = row] = DOMAIN table
<1>1. CASE i \in DOMAIN table
  BY <1>1, ExceptSeq, LenProperties
<1>2. CASE i \notin DOMAIN table
  <2>1. [table EXCEPT ![i] = row] = table
    BY <1>2, ElementOfSeq
  <2> QED
    BY <2>1
<1> QED
  BY <1>1, <1>2

\* Only a request's own task changes when it moves on.
LEMMA BecomeType ==
  ASSUME tasks \in [Handlers -> Task], NEW h \in Handlers, NEW t \in Task,
         Become(h, t)
  PROVE  tasks' \in [Handlers -> Task]
BY DEF Become

\* A handler between requests carries nothing.
LEMMA IdleType == Idle \in Task
BY DEF Task

\* A sequence read inside its domain gives a member of its element set.
LEMMA RowOf ==
  ASSUME NEW T, NEW table \in Seq(T), NEW i \in DOMAIN table
  PROVE  i \in Nat /\ table[i] \in T
BY ElementOfSeq, LenProperties

\* A session or an entitlement read by its id.
LEMMA RowType ==
  ASSUME TypeOK
  PROVE  /\ \A s \in SessionIds : s \in Nat /\ sessions[s] \in SessionRow
         /\ \A e \in EntitlementIds : /\ e \in Nat
                                      /\ entitlements[e] \in EntitlementRow
BY RowOf DEF TypeOK, SessionIds, EntitlementIds

-----------------------------------------------------------------------------
(***************************************************************************)
(* Type correctness, one lemma for each action that changes a table.       *)
(***************************************************************************)
\* Nothing is stored or in flight to begin with.
LEMMA TypeInit == Init => TypeOK
<1> SUFFICES ASSUME Init PROVE TypeOK
  OBVIOUS
<1>1. tasks \in [Handlers -> Task]
  BY IdleType DEF Init
<1> QED
  BY <1>1, EmptySeq DEF Init, TypeOK

\* createSession starts with a well-formed request and no write.
LEMMA TypeCreateSession ==
  ASSUME TypeOK, NEW h \in Handlers, NEW u \in Users, NEW f \in Fortunes,
         NEW k \in Keys, CreateSession(h, u, f, k)
  PROVE  TypeOK'
<1>1. [pc |-> "lookup", user |-> u, fortune |-> f, key |-> k, at |-> now]
        \in Task
  BY DEF Task, TypeOK
<1> QED
  BY <1>1, BecomeType DEF CreateSession, TypeOK

\* The idempotency lookup keeps the fields the request carries.
LEMMA TypeLookupSession ==
  ASSUME TypeOK, NEW h \in Handlers, LookupSession(h)
  PROVE  TypeOK'
<1>0. tasks[h] \in Task /\ tasks[h].pc = "lookup"
  BY DEF LookupSession, IsAt, TypeOK
<1>1. [tasks[h] EXCEPT !.pc = "insert"] \in Task
  BY <1>0 DEF Task, Idle
<1>2. tasks' \in [Handlers -> Task]
  BY <1>1, IdleType, BecomeType DEF LookupSession, TypeOK
<1> QED
  BY <1>2 DEF LookupSession, TypeOK

\* What a task in the insert state carries.
LEMMA InsertTask ==
  ASSUME TypeOK, NEW h \in Handlers, IsAt(h, "insert")
  PROVE  /\ tasks[h].user \in Users /\ tasks[h].fortune \in Fortunes
         /\ tasks[h].key \in Keys /\ tasks[h].at \in Nat
BY DEF IsAt, TypeOK, Task, Idle

\* The insert appends a well-formed session row or none.
LEMMA TypeInsertSession ==
  ASSUME TypeOK, NEW h \in Handlers, NEW order \in Orders,
         InsertSession(h, order)
  PROVE  TypeOK'
<1>1. tasks' \in [Handlers -> Task]
  BY IdleType, BecomeType DEF InsertSession, TypeOK
<1>2. NewSession(tasks[h], order) \in SessionRow
  BY InsertTask, NewSessionType DEF InsertSession
<1>3. Append(sessions, NewSession(tasks[h], order)) \in Seq(SessionRow)
  BY <1>2, AppendProperties DEF TypeOK
<1>4. sessions' \in Seq(SessionRow)
  BY <1>3 DEF InsertSession, TypeOK
<1> QED
  BY <1>1, <1>4 DEF InsertSession, TypeOK

\* reportFailure remembers the attempt number it read.
LEMMA TypeReportFailure ==
  ASSUME TypeOK, NEW h \in Handlers, NEW s \in SessionIds,
         NEW reason \in Reported, ReportFailure(h, s, reason)
  PROVE  TypeOK'
<1>1. s \in Nat /\ sessions[s].count \in Nat
  BY RowType DEF SessionRow
<1>2. [pc |-> "mark", session |-> s, attempt |-> sessions[s].count,
       reason |-> reason] \in Task
  BY <1>1, ReportedAssumption DEF Task
<1> QED
  BY <1>2, BecomeType DEF ReportFailure, TypeOK

\* What a task that settles a report carries.
LEMMA ReportFields ==
  ASSUME NEW t \in Task, t.pc \in {"mark", "settle"}
  PROVE  t.session \in Nat /\ t.attempt \in Nat /\ t.reason \in Reasons
BY DEF Task, Idle

\* The same for the task a handler is at.
LEMMA ReportTask ==
  ASSUME TypeOK, NEW h \in Handlers, IsAt(h, "mark") \/ IsAt(h, "settle")
  PROVE  /\ tasks[h].session \in Nat /\ tasks[h].attempt \in Nat
         /\ tasks[h].reason \in Reasons
BY ReportFields DEF IsAt, TypeOK

\* Closing the reported attempt keeps its session row well formed.
LEMMA TypeMarkAttempt ==
  ASSUME TypeOK, NEW h \in Handlers, MarkAttempt(h)
  PROVE  TypeOK'
<1> DEFINE t == tasks[h]
           row == [sessions[t.session] EXCEPT !.attempts =
                     WithAttemptStatus(@, t.attempt, MarkedStatus(t.reason))]
<1>1. /\ t.session \in Nat /\ t.attempt \in Nat /\ t.reason \in Reasons
  BY ReportTask DEF MarkAttempt
<1>2. MarkedStatus(t.reason) \in AttemptStatus
  BY DEF MarkedStatus, AttemptStatus
<1>3. ASSUME t.session \in DOMAIN sessions PROVE row \in SessionRow
  <2>1. sessions[t.session] \in SessionRow
    BY <1>3, ElementOfSeq, LenProperties DEF TypeOK
  <2>2. WithAttemptStatus(sessions[t.session].attempts, t.attempt,
                          MarkedStatus(t.reason)) \in SUBSET AttemptRow
    BY <2>1, <1>1, <1>2, WithAttemptStatusType DEF SessionRow
  <2> QED
    BY <2>1, <2>2 DEF SessionRow
<1>4. sessions' = [sessions EXCEPT ![t.session] = row]
  BY DEF MarkAttempt
<1>5. sessions' \in Seq(SessionRow)
  BY <1>3, <1>4, UpdateRow DEF TypeOK
<1>6. [t EXCEPT !.pc = "settle"] \in Task
  BY DEF MarkAttempt, IsAt, TypeOK, Task, Idle
<1>7. tasks' \in [Handlers -> Task]
  BY <1>6, BecomeType DEF MarkAttempt, TypeOK
<1> QED
  BY <1>5, <1>7 DEF MarkAttempt, TypeOK

\* The next attempt is a loading one on a provider of the order.
LEMMA TypeNextAttempt ==
  ASSUME TypeOK, NEW h \in Handlers, NextAttempt(h)
  PROVE  TypeOK'
<1> DEFINE s == tasks[h].session
           n == tasks[h].attempt + 1
<1>1. n \in Nat
  BY ReportTask DEF NextAttempt
<1>2. ASSUME s \in DOMAIN sessions
      PROVE  Advanced(sessions[s], n) \in SessionRow
  <2>1. sessions[s] \in SessionRow
    BY <1>2, ElementOfSeq, LenProperties DEF TypeOK
  <2>2. sessions[s].order[n] \in Providers
    <3>1. tasks[h].attempt < Len(sessions[s].order)
      BY DEF NextAttempt, HasNext
    <3>2. sessions[s].order \in Seq(Providers)
      BY <2>1 DEF SessionRow
    <3>3. n \in 1..Len(sessions[s].order)
      BY <3>1, <3>2, ReportTask, LenProperties DEF NextAttempt
    <3> QED
      BY <3>2, <3>3, ElementOfSeq
  <2>3. [number |-> n, provider |-> sessions[s].order[n],
         status |-> "loading"] \in AttemptRow
    BY <1>1, <2>2 DEF AttemptRow, AttemptStatus
  <2> QED
    BY <1>1, <2>1, <2>2, <2>3 DEF Advanced, SessionRow
<1>3. [sessions EXCEPT ![s] = Advanced(sessions[s], n)] \in Seq(SessionRow)
  BY <1>2, UpdateRow DEF TypeOK
<1>4. sessions' \in Seq(SessionRow)
  BY <1>3 DEF NextAttempt, TypeOK
<1>5. tasks' \in [Handlers -> Task]
  BY IdleType, BecomeType DEF NextAttempt, TypeOK
<1> QED
  BY <1>4, <1>5 DEF NextAttempt, TypeOK

\* The shape shared by EndChain and CancelSession: the chain stops.
Stopped(row, status) == [row EXCEPT !.status = status, !.current = NoProvider]

\* Stopping the chain keeps the session row well formed.
LEMMA StoppedType ==
  ASSUME NEW row \in SessionRow, NEW status \in SessionStatus
  PROVE  Stopped(row, status) \in SessionRow
BY DEF Stopped, SessionRow

\* The end of the chain writes one of the final statuses.
LEMMA TypeEndChain ==
  ASSUME TypeOK, NEW h \in Handlers, EndChain(h)
  PROVE  TypeOK'
<1> DEFINE s == tasks[h].session
           row == Stopped(sessions[s], FinalStatus(tasks[h].reason))
<1>1. FinalStatus(tasks[h].reason) \in SessionStatus
  BY ReportTask DEF EndChain, FinalStatus, SessionStatus, Reasons, IsFallbackReason
<1>2. s \in DOMAIN sessions => row \in SessionRow
  BY <1>1, StoppedType, ElementOfSeq, LenProperties DEF TypeOK
<1>3. sessions' = [sessions EXCEPT ![s] = row]
  BY DEF EndChain, Stopped
<1>4. sessions' \in Seq(SessionRow)
  BY <1>2, <1>3, UpdateRow DEF TypeOK
<1>5. tasks' \in [Handlers -> Task]
  BY IdleType, BecomeType DEF EndChain, TypeOK
<1> QED
  BY <1>4, <1>5 DEF EndChain, TypeOK

\* cancel remembers the session it read.
LEMMA TypeCancel ==
  ASSUME TypeOK, NEW h \in Handlers, NEW s \in SessionIds, Cancel(h, s)
  PROVE  TypeOK'
<1>1. [pc |-> "cancel", session |-> s] \in Task
  BY LenProperties DEF Task, TypeOK, SessionIds
<1> QED
  BY <1>1, BecomeType DEF Cancel, TypeOK

\* cancel's write keeps the session row well formed.
LEMMA TypeCancelSession ==
  ASSUME TypeOK, NEW h \in Handlers, CancelSession(h)
  PROVE  TypeOK'
<1> DEFINE s == tasks[h].session
           row == Stopped(sessions[s], "cancelled")
<1>1. s \in DOMAIN sessions => row \in SessionRow
  BY StoppedType, ElementOfSeq, LenProperties DEF TypeOK, SessionStatus
<1>2. sessions' = [sessions EXCEPT ![s] = row]
  BY DEF CancelSession, Stopped
<1>3. sessions' \in Seq(SessionRow)
  BY <1>1, <1>2, UpdateRow DEF TypeOK
<1>4. tasks' \in [Handlers -> Task]
  BY IdleType, BecomeType DEF CancelSession, TypeOK
<1> QED
  BY <1>3, <1>4 DEF CancelSession, TypeOK

\* What a task that is about to grant carries.
LEMMA GrantTaskType ==
  ASSUME TypeOK, NEW h \in Handlers, IsAt(h, "grant")
  PROVE  /\ tasks[h].session \in Nat /\ tasks[h].attempt \in Nat
         /\ tasks[h].provider \in Providers /\ tasks[h].reward \in RewardIds
         /\ tasks[h].at \in Nat
BY DEF IsAt, TypeOK, Task, Idle

\* Both reward paths begin with a well-formed grant request.
LEMMA NewGrantTask ==
  ASSUME TypeOK, NEW s \in SessionIds, NEW p,
         NEW a \in LatestAttempts(s, p), NEW reward \in RewardIds
  PROVE  GrantTask(s, p, a, reward) \in Task
<1>1. s \in Nat /\ a \in AttemptRow /\ a.provider = p
  BY RowType DEF LatestAttempts, SessionRow
<1>2. p \in Providers /\ a.number \in Nat /\ now \in Nat
  BY <1>1 DEF AttemptRow, TypeOK
<1> QED
  BY <1>1, <1>2 DEF GrantTask, Task

\* The client's completion starts a grant of its own session.
LEMMA TypeCompleteByClient ==
  ASSUME TypeOK, NEW h \in Handlers, NEW s \in SessionIds,
         CompleteByClient(h, s)
  PROVE  TypeOK'
<1>1. PICK a \in LatestAttempts(s, sessions[s].current) :
        Become(h, GrantTask(s, sessions[s].current, a, SessionReward(s)))
  BY DEF CompleteByClient
<1>2. SessionReward(s) \in RewardIds
  BY RowType DEF SessionReward, RewardIds
<1>3. tasks' \in [Handlers -> Task]
  BY <1>1, <1>2, NewGrantTask, BecomeType DEF TypeOK
<1> QED
  BY <1>3 DEF CompleteByClient, TypeOK

\* The postback starts a grant of the session it is bound to.
LEMMA TypeVerifyRewardCallback ==
  ASSUME TypeOK, NEW h \in Handlers, NEW v \in views, NEW s \in SessionIds,
         VerifyRewardCallback(h, v, s)
  PROVE  TypeOK'
<1> DEFINE p == ViewAttempt(v).provider
<1>1. PICK a \in LatestAttempts(s, p) :
        Become(h, GrantTask(s, p, a, RewardOf(v, p, s)))
  BY DEF VerifyRewardCallback
<1>2. RewardOf(v, p, s) \in RewardIds
  BY RowType DEF RewardOf, SessionReward, RewardIds, TypeOK
<1>3. tasks' \in [Handlers -> Task]
  BY <1>1, <1>2, NewGrantTask, BecomeType DEF TypeOK
<1> QED
  BY <1>3 DEF VerifyRewardCallback, TypeOK

\* The row GrantReward writes.
Rewarded(row, n) ==
  [row EXCEPT !.status = "rewarded",
              !.attempts = WithAttemptStatus(@, n, "verified")]

\* The reward transaction's session write keeps the row well formed.
LEMMA RewardedType ==
  ASSUME NEW row \in SessionRow, NEW n \in Nat
  PROVE  Rewarded(row, n) \in SessionRow
<1>1. WithAttemptStatus(row.attempts, n, "verified") \in SUBSET AttemptRow
  BY WithAttemptStatusType DEF SessionRow, AttemptStatus
<1> QED
  BY <1>1 DEF Rewarded, SessionRow, SessionStatus

\* The entitlement of a grant is well formed.
LEMMA NewEntitlementType ==
  ASSUME TypeOK, NEW h \in Handlers, IsAt(h, "grant"),
         tasks[h].session \in SessionIds
  PROVE  NewEntitlement(tasks[h]) \in EntitlementRow
<1>1. sessions[tasks[h].session] \in SessionRow
  BY RowType
<1>2. now \in Nat /\ tasks[h].at + EntitlementTtl \in Nat
  BY GrantTaskType, LimitsAssumption DEF TypeOK
<1> QED
  BY <1>1, <1>2, GrantTaskType
     DEF NewEntitlement, EntitlementRow, SessionRow, EntitlementStatus

\* The reward transaction keeps both tables well formed.
LEMMA TypeGrantReward ==
  ASSUME TypeOK, TasksPointToRows, NEW h \in Handlers, GrantReward(h)
  PROVE  TypeOK'
<1> DEFINE s == tasks[h].session
           row == Rewarded(sessions[s], tasks[h].attempt)
<1>1. IsAt(h, "grant") /\ s \in SessionIds
  BY DEF GrantReward, TasksPointToRows, IsAt
<1>2. row \in SessionRow
  BY <1>1, RowType, GrantTaskType, RewardedType
<1>3. sessions' = [sessions EXCEPT ![s] = row]
  BY DEF GrantReward, Rewarded
<1>4. sessions' \in Seq(SessionRow)
  BY <1>2, <1>3, UpdateRow DEF TypeOK
<1>5. Append(entitlements, NewEntitlement(tasks[h])) \in Seq(EntitlementRow)
  BY <1>1, NewEntitlementType, AppendProperties DEF TypeOK
<1>6. tasks' \in [Handlers -> Task]
  BY IdleType, BecomeType DEF GrantReward, TypeOK
<1> QED
  BY <1>4, <1>5, <1>6 DEF GrantReward, TypeOK

\* Consuming and restoring change a status and nothing else.
LEMMA TypeEntitlementStatus ==
  ASSUME TypeOK, NEW e \in EntitlementIds,
         ConsumeEntitlement(e) \/ RestoreEntitlement(e)
  PROVE  TypeOK'
<1>1. PICK status \in EntitlementStatus :
        entitlements' = [entitlements EXCEPT ![e].status = status]
  BY DEF ConsumeEntitlement, RestoreEntitlement, EntitlementStatus
<1>2. [entitlements[e] EXCEPT !.status = status] \in EntitlementRow
  BY RowType DEF EntitlementRow
<1>3. entitlements' \in Seq(EntitlementRow)
  BY <1>1, <1>2, UpdateRow DEF TypeOK
<1> QED
  BY <1>3 DEF ConsumeEntitlement, RestoreEntitlement, TypeOK

\* A view names a session and one of its attempts.
LEMMA TypeWatchAd ==
  ASSUME TypeOK, NEW s \in SessionIds, WatchAd(s)
  PROVE  TypeOK'
<1>1. <<s, sessions[s].count>> \in Nat \X Nat
  BY RowType DEF SessionRow
<1> QED
  BY <1>1 DEF WatchAd, TypeOK

\* Refusals and crashes only free the handler.
LEMMA TypeFreed ==
  ASSUME TypeOK, NEW h \in Handlers, RefuseReward(h) \/ Crash(h)
  PROVE  TypeOK'
<1>1. tasks' \in [Handlers -> Task]
  BY IdleType, BecomeType DEF RefuseReward, Crash, TypeOK
<1> QED
  BY <1>1 DEF RefuseReward, Crash, TypeOK

\* Every step preserves the types.
LEMMA TypeNext ==
  ASSUME TypeOK, TasksPointToRows, [Next]_vars
  PROVE  TypeOK'
<1>1. CASE UNCHANGED vars
  BY <1>1 DEF TypeOK, vars
<1>2. ASSUME NEW h \in Handlers, Start(h) PROVE TypeOK'
  <2>1. ASSUME NEW u \in Users, RefuseSession(h, u) PROVE TypeOK'
    BY <2>1 DEF RefuseSession, TypeOK, vars
  <2> QED
    BY <1>2, <2>1, TypeCreateSession, TypeReportFailure, TypeCancel,
       TypeCompleteByClient, TypeVerifyRewardCallback DEF Start
<1>3. ASSUME NEW h \in Handlers, Continue(h) PROVE TypeOK'
  BY <1>3, TypeLookupSession, TypeInsertSession, TypeMarkAttempt,
     TypeNextAttempt, TypeEndChain, TypeCancelSession, TypeGrantReward,
     TypeFreed DEF Continue
<1>4. ASSUME Environment PROVE TypeOK'
  <2>1. CASE Tick
    BY <2>1 DEF Tick, TypeOK
  <2> QED
    BY <1>4, <2>1, TypeEntitlementStatus, TypeWatchAd DEF Environment
<1> QED
  BY <1>1, <1>2, <1>3, <1>4, TypeFreed DEF Next
-----------------------------------------------------------------------------
(***************************************************************************)
(* Requests in flight.  Sessions are only added and their attemptCount     *)
(* only grows, so what a request read stays a lower bound.                 *)
(***************************************************************************)
SessionsGrow ==
  \A s \in SessionIds : /\ s \in SessionIds'
                        /\ sessions'[s].count >= sessions[s].count

\* What a task must satisfy when a request takes it up.
Justified(t) ==
  /\ t.pc \in {"mark", "settle", "cancel", "grant"} => t.session \in SessionIds
  /\ t.pc \in {"mark", "settle"} => t.attempt <= sessions[t.session].count

\* An idle handler promises nothing about any session.
LEMMA IdleJustified == Justified(Idle)
BY DEF Justified, Idle

\* A request moves on while sessions at most grow: all requests stay justified.
LEMMA TaskStep ==
  ASSUME TypeOK, TypeOK', TaskInv, SessionsGrow,
         NEW h \in Handlers, NEW t, Become(h, t), Justified(t)
  PROVE  TaskInv'
<1> SUFFICES ASSUME NEW g \in Handlers,
                    tasks'[g].pc \in {"mark", "settle", "cancel", "grant"}
             PROVE  /\ tasks'[g].session \in SessionIds'
                    /\ tasks'[g].pc \in {"mark", "settle"} =>
                         tasks'[g].attempt <= sessions'[tasks'[g].session].count
  BY DEF TaskInv, TasksPointToRows, ReportsNotAhead
<1> DEFINE u == tasks'[g]
<1>1. Justified(u)
  BY DEF Become, TypeOK, TaskInv, TasksPointToRows, ReportsNotAhead, Justified
<1>2. u.session \in SessionIds /\ u.session \in SessionIds'
  BY <1>1 DEF Justified, SessionsGrow
<1>3. ASSUME u.pc \in {"mark", "settle"}
      PROVE  u.attempt <= sessions'[u.session].count
  <2>1. u.attempt \in Nat
    BY <1>3, ReportFields DEF TypeOK
  <2>2. /\ sessions[u.session] \in SessionRow
        /\ sessions'[u.session] \in SessionRow
    BY <1>2, RowOf DEF TypeOK, SessionIds
  <2>3. /\ sessions[u.session].count \in Nat
        /\ sessions'[u.session].count \in Nat
    BY <2>2 DEF SessionRow
  <2> QED
    BY <1>1, <1>2, <1>3, <2>1, <2>3 DEF Justified, SessionsGrow
<1> QED
  BY <1>2, <1>3

\* Steps that leave the sessions alone.
LEMMA TaskStepSameSessions ==
  ASSUME TypeOK, TypeOK', TaskInv, UNCHANGED sessions,
         NEW h \in Handlers, NEW t, Become(h, t), Justified(t)
  PROVE  TaskInv'
<1>1. SessionsGrow
  BY RowType DEF SessionsGrow, SessionIds, SessionRow
<1> QED
  BY <1>1, TaskStep

\* No request is in flight at the start.
LEMMA TaskInit == Init => TaskInv
BY DEF Init, TaskInv, TasksPointToRows, ReportsNotAhead, Idle
-----------------------------------------------------------------------------
(***************************************************************************)
(* What each write of a session row does to the row's own invariant.       *)
(***************************************************************************)
RowInv(row) == FollowsOrder(row) /\ PointsAtNewest(row)

\* A session begins on the first provider of its order, or already exhausted.
LEMMA NewSessionInv ==
  ASSUME NEW t, NEW order \in Orders
  PROVE  RowInv(NewSession(t, order))
<1> DEFINE row == NewSession(t, order)
<1>1. order \in Seq(Providers)
  BY OrdersAssumption
<1>2. CASE order = << >>
  <2>1. row.attempts = {} /\ row.count = 0 /\ row.status = "exhausted"
    BY <1>2 DEF NewSession
  <2> QED
    BY <2>1 DEF RowInv, FollowsOrder, PointsAtNewest
<1>3. CASE order # << >>
  <2>1. Len(order) \in Nat \ {0}
    BY <1>1, <1>3, EmptySeq, LenProperties
  <2>2. /\ row.attempts = {FirstAttempt(order[1])}
        /\ row.count = 1 /\ row.order = order /\ row.current = order[1]
    BY <1>3 DEF NewSession
  <2>3. FollowsOrder(row)
    BY <2>1, <2>2 DEF FollowsOrder, FirstAttempt
  <2> QED
    BY <2>1, <2>2, <2>3 DEF RowInv, PointsAtNewest
<1> QED
  BY <1>2, <1>3

\* The numbers of a set of attempts with one more attempt in it.
LEMMA NumbersUnion ==
  ASSUME NEW S, NEW x
  PROVE  {a.number : a \in S \cup {x}} = {a.number : a \in S} \cup {x.number}
OBVIOUS

\* A change of attempt statuses keeps a row in line with its order.
LEMMA FollowsOrderMarked ==
  ASSUME NEW row \in SessionRow, FollowsOrder(row), NEW n, NEW status,
         NEW new, new.attempts = WithAttemptStatus(row.attempts, n, status),
         new.count = row.count, new.order = row.order
  PROVE  FollowsOrder(new)
<1> DEFINE Write(a) == IF a.number = n THEN [a EXCEPT !.status = status] ELSE a
<1>1. new.attempts = {Write(a) : a \in row.attempts}
  BY DEF WithAttemptStatus
<1>2. \A a \in row.attempts : /\ Write(a).number = a.number
                              /\ Write(a).provider = a.provider
  BY DEF SessionRow, AttemptRow
<1> HIDE DEF Write
<1>3. {a.number : a \in new.attempts} = {a.number : a \in row.attempts}
  BY <1>1, <1>2
<1>4. \A a \in new.attempts : /\ a.number <= Len(new.order)
                              /\ a.provider = new.order[a.number]
  BY <1>1, <1>2 DEF FollowsOrder
<1>5. ASSUME NEW a \in new.attempts, NEW b \in new.attempts,
             a.number = b.number
      PROVE  a = b
  <2>1. PICK c \in row.attempts : a = Write(c)
    BY <1>1
  <2>2. PICK d \in row.attempts : b = Write(d)
    BY <1>1
  <2>3. c = d
    BY <1>2, <1>5, <2>1, <2>2 DEF FollowsOrder
  <2> QED
    BY <2>1, <2>2, <2>3
<1> QED
  BY <1>3, <1>4, <1>5 DEF FollowsOrder

\* The row MarkAttempt writes.
Marked(row, n, status) ==
  [row EXCEPT !.attempts = WithAttemptStatus(@, n, status)]

\* Closing an attempt preserves the row's invariant.
LEMMA MarkedInv ==
  ASSUME NEW row \in SessionRow, RowInv(row), NEW n, NEW status
  PROVE  RowInv(Marked(row, n, status))
<1> DEFINE new == Marked(row, n, status)
<1>1. /\ new.attempts = WithAttemptStatus(row.attempts, n, status)
      /\ new.count = row.count /\ new.order = row.order
      /\ new.status = row.status /\ new.current = row.current
  BY DEF SessionRow, Marked
<1>2. FollowsOrder(new)
  BY <1>1, FollowsOrderMarked DEF RowInv
<1>3. PointsAtNewest(new)
  BY <1>1 DEF RowInv, PointsAtNewest
<1> QED
  BY <1>2, <1>3 DEF RowInv

\* Rewarding preserves the row's invariant.
LEMMA RewardedInv ==
  ASSUME NEW row \in SessionRow, RowInv(row), NEW n
  PROVE  RowInv(Rewarded(row, n))
<1> DEFINE new == Rewarded(row, n)
<1>1. /\ new.attempts = WithAttemptStatus(row.attempts, n, "verified")
      /\ new.count = row.count /\ new.order = row.order
      /\ new.status = "rewarded"
  BY DEF SessionRow, Rewarded
<1>2. FollowsOrder(new)
  BY <1>1, FollowsOrderMarked DEF RowInv
<1>3. PointsAtNewest(new)
  BY <1>1 DEF PointsAtNewest
<1> QED
  BY <1>2, <1>3 DEF RowInv

\* Stopping the chain preserves the row's invariant.
LEMMA StoppedInv ==
  ASSUME NEW row \in SessionRow, RowInv(row),
         NEW status \in SessionStatus \ {"attempting"}
  PROVE  RowInv(Stopped(row, status))
BY DEF SessionRow, Stopped, RowInv, FollowsOrder, PointsAtNewest

\* The unique attempt number makes a late report harmless: the only number
\* that is still free and not beyond count + 1 is count + 1 itself.
LEMMA AdvancedInv ==
  ASSUME NEW row \in SessionRow, RowInv(row), NEW m \in Nat,
         m <= row.count, m < Len(row.order),
         ~ \E a \in row.attempts : a.number = m + 1
  PROVE  RowInv(Advanced(row, m + 1)) /\ Advanced(row, m + 1).count >= row.count
<1> DEFINE new == Advanced(row, m + 1)
           attempt == [number |-> m + 1, provider |-> row.order[m + 1],
                       status |-> "loading"]
<1>1. row.count \in Nat /\ Len(row.order) \in Nat
  BY LenProperties DEF SessionRow
<1>2. m = row.count
  <2>1. m + 1 \notin 1..row.count
    BY DEF RowInv, FollowsOrder
  <2> QED
    BY <1>1, <2>1
<1>3. /\ new.attempts = row.attempts \cup {attempt}
      /\ new.count = m + 1 /\ new.order = row.order
      /\ new.current = row.order[m + 1]
  BY DEF SessionRow, Advanced
<1>4. {a.number : a \in new.attempts} = 1..new.count
  <2>1. {a.number : a \in new.attempts}
          = {a.number : a \in row.attempts} \cup {attempt.number}
    BY ZenonT(60), <1>3, NumbersUnion
  <2>2. {a.number : a \in row.attempts} = 1..m
    BY <1>2 DEF RowInv, FollowsOrder
  <2>3. (1..m) \cup {m + 1} = 1..(m + 1)
    OBVIOUS
  <2> QED
    BY <1>3, <2>1, <2>2, <2>3
<1>5. \A a \in new.attempts : /\ a.number <= Len(new.order)
                              /\ a.provider = new.order[a.number]
  BY <1>1, <1>3 DEF RowInv, FollowsOrder
<1>6. \A a, b \in new.attempts : a.number = b.number => a = b
  BY <1>3 DEF RowInv, FollowsOrder
<1>7. PointsAtNewest(new)
  BY <1>1, <1>3 DEF PointsAtNewest
<1>8. RowInv(new)
  BY <1>4, <1>5, <1>6, <1>7 DEF RowInv, FollowsOrder
<1> QED
  BY <1>1, <1>2, <1>3, <1>8
-----------------------------------------------------------------------------
(***************************************************************************)
(* The tables.  Each action replaces one row, adds one, or leaves them.    *)
(***************************************************************************)
\* What the tables say depends on nothing else.
LEMMA TablesSame ==
  ASSUME TableInv, UNCHANGED <<sessions, entitlements>>
  PROVE  TableInv'
BY DEF TableInv, AttemptsFollowOrder, AttemptingHasCurrent, NoDoubleReward,
       RewardedHasEntitlement, SessionIds, EntitlementIds

\* A write that keeps the session's owner and does not make it rewarded.
LEMMA TablesUpdateRow ==
  ASSUME TypeOK, TableInv, UNCHANGED entitlements, NEW s \in SessionIds,
         NEW row, sessions' = [sessions EXCEPT ![s] = row], RowInv(row),
         row.user = sessions[s].user, row.fortune = sessions[s].fortune,
         row.status = "rewarded" => sessions[s].status = "rewarded"
  PROVE  TableInv'
<1>1. SessionIds' = SessionIds /\ EntitlementIds' = EntitlementIds
  BY DEF SessionIds, EntitlementIds, TypeOK
<1>2. \A r \in SessionIds :
        sessions'[r] = IF r = s THEN row ELSE sessions[r]
  BY DEF SessionIds, TypeOK
<1>3. AttemptsFollowOrder' /\ AttemptingHasCurrent'
  BY <1>1, <1>2
     DEF RowInv, AttemptsFollowOrder, AttemptingHasCurrent, TableInv
<1>4. NoDoubleReward'
  BY <1>1 DEF NoDoubleReward, TableInv
<1>5. RewardedHasEntitlement'
  BY <1>1, <1>2 DEF RewardedHasEntitlement, TableInv
<1> QED
  BY <1>3, <1>4, <1>5 DEF TableInv

\* A new session row, not yet rewarded, keeps the tables consistent.
LEMMA TablesInsertSession ==
  ASSUME TypeOK, TableInv, UNCHANGED entitlements, NEW row,
         sessions' = Append(sessions, row), RowInv(row),
         row.status # "rewarded"
  PROVE  TableInv'
<1> DEFINE new == Len(sessions) + 1
<1>1. /\ SessionIds' = SessionIds \cup {new} /\ new \notin SessionIds
      /\ \A s \in SessionIds : sessions'[s] = sessions[s]
      /\ sessions'[new] = row
  BY LenProperties DEF SessionIds, TypeOK
<1>2. EntitlementIds' = EntitlementIds
  BY DEF EntitlementIds
<1> HIDE DEF new
<1>3. AttemptsFollowOrder' /\ AttemptingHasCurrent'
  BY <1>1 DEF RowInv, AttemptsFollowOrder, AttemptingHasCurrent, TableInv
<1>4. NoDoubleReward'
  BY <1>2 DEF NoDoubleReward, TableInv
<1>5. RewardedHasEntitlement'
  <2> SUFFICES ASSUME NEW r \in SessionIds', sessions'[r].status = "rewarded"
               PROVE  \E e \in EntitlementIds' :
                        /\ entitlements'[e].session = r
                        /\ entitlements'[e].user = sessions'[r].user
                        /\ entitlements'[e].fortune = sessions'[r].fortune
    BY DEF RewardedHasEntitlement
  <2>1. r \in SessionIds /\ sessions'[r] = sessions[r]
    BY <1>1
  <2> QED
    BY <1>2, <2>1 DEF RewardedHasEntitlement, TableInv
<1> QED
  BY <1>3, <1>4, <1>5 DEF TableInv

\* The grant: the unique keys let the new entitlement in, and it is the one
\* the session now announces.
LEMMA TablesGrant ==
  ASSUME TypeOK, TypeOK', TableInv, TaskInv, NEW h \in Handlers, GrantReward(h)
  PROVE  TableInv'
<1> DEFINE t == tasks[h]
           s == t.session
           row == Rewarded(sessions[s], t.attempt)
           grant == NewEntitlement(t)
           new == Len(entitlements) + 1
<1>1. s \in SessionIds
  BY DEF GrantReward, IsAt, TaskInv, TasksPointToRows
<1>2. sessions[s] \in SessionRow
  BY <1>1, RowType
<1>3. sessions' = [sessions EXCEPT ![s] = row]
  BY DEF GrantReward, Rewarded
<1>4. /\ SessionIds' = SessionIds
      /\ \A r \in SessionIds : sessions'[r] = IF r = s THEN row ELSE sessions[r]
  BY <1>3 DEF SessionIds, TypeOK
<1>5. /\ EntitlementIds' = EntitlementIds \cup {new}
      /\ new \notin EntitlementIds
      /\ \A e \in EntitlementIds : entitlements'[e] = entitlements[e]
      /\ entitlements'[new] = grant
  BY LenProperties DEF GrantReward, EntitlementIds, TypeOK
<1>6. /\ grant.session = s /\ grant.provider = t.provider
      /\ grant.reward = t.reward /\ grant.user = sessions[s].user
      /\ grant.fortune = sessions[s].fortune
  BY DEF NewEntitlement
<1>7. /\ row.user = sessions[s].user /\ row.fortune = sessions[s].fortune
  BY <1>2 DEF Rewarded, SessionRow
<1>8. RowInv(row)
  BY <1>1, <1>2, RewardedInv
     DEF RowInv, TableInv, AttemptsFollowOrder, AttemptingHasCurrent
<1>9. ~EntitlementCollides(t)
  BY DEF GrantReward
<1> HIDE DEF t, s, row, grant, new
<1>10. AttemptsFollowOrder' /\ AttemptingHasCurrent'
  BY <1>4, <1>8
     DEF RowInv, AttemptsFollowOrder, AttemptingHasCurrent, TableInv
<1>11. NoDoubleReward'
  <2>1. \A e \in EntitlementIds :
          /\ entitlements[e].session # grant.session
          /\ \/ entitlements[e].provider # grant.provider
             \/ entitlements[e].reward # grant.reward
    BY <1>6, <1>9 DEF EntitlementCollides, s
  <2> QED
    BY <1>5, <2>1 DEF NoDoubleReward, TableInv
<1>12. RewardedHasEntitlement'
  <2> SUFFICES ASSUME NEW r \in SessionIds', sessions'[r].status = "rewarded"
               PROVE  \E e \in EntitlementIds' :
                        /\ entitlements'[e].session = r
                        /\ entitlements'[e].user = sessions'[r].user
                        /\ entitlements'[e].fortune = sessions'[r].fortune
    BY DEF RewardedHasEntitlement
  <2>1. CASE r = s
    BY <2>1, <1>1, <1>4, <1>5, <1>6, <1>7
  <2>2. CASE r # s
    BY <2>2, <1>4, <1>5 DEF RewardedHasEntitlement, TableInv
  <2> QED
    BY <2>1, <2>2
<1> QED
  BY <1>10, <1>11, <1>12 DEF TableInv

\* Consuming and restoring do not touch what the unique keys range over.
LEMMA TablesEntitlementStatus ==
  ASSUME TypeOK, TableInv, UNCHANGED sessions, NEW e \in EntitlementIds,
         NEW status, entitlements' = [entitlements EXCEPT ![e].status = status]
  PROVE  TableInv'
<1>1. EntitlementIds' = EntitlementIds /\ SessionIds' = SessionIds
  BY DEF EntitlementIds, SessionIds, TypeOK
<1>2. \A d \in EntitlementIds :
        /\ entitlements'[d].session = entitlements[d].session
        /\ entitlements'[d].user = entitlements[d].user
        /\ entitlements'[d].fortune = entitlements[d].fortune
        /\ entitlements'[d].provider = entitlements[d].provider
        /\ entitlements'[d].reward = entitlements[d].reward
  BY RowType DEF EntitlementIds, EntitlementRow, TypeOK
<1>3. AttemptsFollowOrder' /\ AttemptingHasCurrent'
  BY <1>1 DEF TableInv, AttemptsFollowOrder, AttemptingHasCurrent
<1>4. NoDoubleReward'
  BY <1>1, <1>2 DEF NoDoubleReward, TableInv
<1>5. RewardedHasEntitlement'
  BY <1>1, <1>2 DEF RewardedHasEntitlement, TableInv
<1> QED
  BY <1>3, <1>4, <1>5 DEF TableInv
-----------------------------------------------------------------------------
(***************************************************************************)
(* The inductive step, one lemma for each action that writes a session.    *)
(***************************************************************************)
\* A row whose counter does not fall lets the sessions grow.
LEMMA GrowOnUpdate ==
  ASSUME TypeOK, NEW s \in SessionIds, NEW row \in SessionRow,
         sessions' = [sessions EXCEPT ![s] = row],
         row.count >= sessions[s].count
  PROVE  SessionsGrow
<1>1. \A r \in SessionIds : sessions[r].count \in Nat
  BY RowType DEF SessionRow
<1> QED
  BY <1>1 DEF SessionsGrow, SessionIds, TypeOK

\* The insert preserves the invariant.
LEMMA InvInsertSession ==
  ASSUME IInv, TypeOK', NEW h \in Handlers, NEW order \in Orders,
         InsertSession(h, order)
  PROVE  TaskInv' /\ TableInv'
<1> DEFINE row == NewSession(tasks[h], order)
<1>1. CASE UNCHANGED sessions
  BY <1>1, IdleJustified, TaskStepSameSessions, TablesSame
     DEF InsertSession, IInv
<1>2. CASE sessions' = Append(sessions, row)
  <2>1. RowInv(row) /\ row.status # "rewarded"
    BY NewSessionInv DEF NewSession
  <2>2. TableInv'
    BY <1>2, <2>1, TablesInsertSession DEF InsertSession, IInv
  <2>3. \A s \in SessionIds : sessions[s].count \in Nat
    BY RowType DEF SessionRow, IInv
  <2>4. SessionsGrow
    BY <1>2, <2>3, LenProperties DEF SessionsGrow, SessionIds, IInv, TypeOK
  <2>5. TaskInv'
    BY <2>4, IdleJustified, TaskStep DEF InsertSession, IInv
  <2> QED
    BY <2>2, <2>5
<1> QED
  BY <1>1, <1>2 DEF InsertSession

\* Closing the reported attempt preserves the invariant.
LEMMA InvMarkAttempt ==
  ASSUME IInv, TypeOK', NEW h \in Handlers, MarkAttempt(h)
  PROVE  TaskInv' /\ TableInv'
<1> DEFINE t == tasks[h]
           s == t.session
           row == Marked(sessions[s], t.attempt, MarkedStatus(t.reason))
           next == [t EXCEPT !.pc = "settle"]
<1>1. /\ s \in SessionIds /\ t.pc = "mark"
      /\ t.attempt <= sessions[s].count
  BY DEF MarkAttempt, IsAt, IInv, TaskInv, TasksPointToRows, ReportsNotAhead
<1>2. sessions[s] \in SessionRow
  BY <1>1, RowType DEF IInv
<1>3. sessions' = [sessions EXCEPT ![s] = row]
  BY DEF MarkAttempt, Marked
<1>4. /\ row.user = sessions[s].user /\ row.fortune = sessions[s].fortune
      /\ row.status = sessions[s].status /\ row.count = sessions[s].count
  BY <1>2 DEF Marked, SessionRow
<1>5. RowInv(row)
  BY <1>1, <1>2, MarkedInv
     DEF RowInv, IInv, TableInv, AttemptsFollowOrder, AttemptingHasCurrent
<1>6. row \in SessionRow
  <2>1. row = sessions'[s] /\ s \in DOMAIN sessions'
    BY <1>1, <1>3 DEF SessionIds, IInv, TypeOK
  <2> QED
    BY <2>1, RowOf DEF TypeOK
<1>7. next.session = s /\ next.attempt = t.attempt /\ next.pc = "settle"
  BY <1>1 DEF IInv, TypeOK, Task, Idle
<1> HIDE DEF row
<1>8. TableInv'
  BY <1>1, <1>3, <1>4, <1>5, TablesUpdateRow DEF MarkAttempt, IInv
<1>9. SessionsGrow
  <2>1. row.count >= sessions[s].count
    BY <1>2, <1>4 DEF SessionRow
  <2> QED
    BY <1>1, <1>3, <1>6, <2>1, GrowOnUpdate DEF IInv
<1>10. Justified(next)
  BY <1>1, <1>7 DEF Justified
<1>11. TaskInv'
  BY <1>9, <1>10, TaskStep DEF MarkAttempt, IInv
<1> QED
  BY <1>8, <1>11

\* Opening the next attempt preserves the invariant, also from a stale read.
LEMMA InvNextAttempt ==
  ASSUME IInv, TypeOK', NEW h \in Handlers, NextAttempt(h)
  PROVE  TaskInv' /\ TableInv'
<1> DEFINE t == tasks[h]
           s == t.session
           row == Advanced(sessions[s], t.attempt + 1)
<1>1. CASE UNCHANGED sessions
  BY <1>1, IdleJustified, TaskStepSameSessions, TablesSame DEF NextAttempt, IInv
<1>2. CASE ~AttemptTaken(s, t.attempt + 1)
  <2>1. /\ s \in SessionIds /\ t.attempt <= sessions[s].count
        /\ t.attempt \in Nat
    BY ReportTask DEF NextAttempt, IsAt, IInv, TaskInv, TasksPointToRows,
                      ReportsNotAhead
  <2>2. sessions[s] \in SessionRow
    BY <2>1, RowType DEF IInv
  <2>3. RowInv(row) /\ row.count >= sessions[s].count
    <3>1. RowInv(sessions[s])
      BY <2>1 DEF RowInv, IInv, TableInv, AttemptsFollowOrder,
                  AttemptingHasCurrent
    <3> QED
      BY <1>2, <2>1, <2>2, <3>1, AdvancedInv
         DEF NextAttempt, HasNext, AttemptTaken
  <2>4. sessions' = [sessions EXCEPT ![s] = row]
    BY <1>2 DEF NextAttempt
  <2>5. /\ row.user = sessions[s].user /\ row.fortune = sessions[s].fortune
        /\ row.status = sessions[s].status
    BY <2>2 DEF Advanced, SessionRow
  <2>6. row \in SessionRow
    <3>1. row = sessions'[s] /\ s \in DOMAIN sessions'
      BY <2>1, <2>4 DEF SessionIds, IInv, TypeOK
    <3> QED
      BY <3>1, RowOf DEF TypeOK
  <2> HIDE DEF row
  <2>7. TableInv'
    BY <2>1, <2>3, <2>4, <2>5, TablesUpdateRow DEF NextAttempt, IInv
  <2>8. SessionsGrow
    BY <2>1, <2>3, <2>4, <2>6, GrowOnUpdate DEF IInv
  <2>9. TaskInv'
    BY <2>8, IdleJustified, TaskStep DEF NextAttempt, IInv
  <2> QED
    BY <2>7, <2>9
<1> QED
  BY <1>1, <1>2 DEF NextAttempt
\* EndChain and CancelSession.
LEMMA InvStop ==
  ASSUME IInv, TypeOK', NEW h \in Handlers,
         NEW status \in SessionStatus \ {"attempting", "rewarded"},
         tasks[h].pc \in {"settle", "cancel"}, Become(h, Idle),
         UNCHANGED entitlements,
         sessions' = [sessions EXCEPT
           ![tasks[h].session] = Stopped(sessions[tasks[h].session], status)]
  PROVE  TaskInv' /\ TableInv'
<1> DEFINE s == tasks[h].session
           row == Stopped(sessions[s], status)
<1>1. s \in SessionIds
  BY DEF IInv, TaskInv, TasksPointToRows
<1>2. sessions[s] \in SessionRow
  BY <1>1, RowType DEF IInv
<1>3. RowInv(row)
  BY <1>1, <1>2, StoppedInv
     DEF RowInv, IInv, TableInv, AttemptsFollowOrder, AttemptingHasCurrent
<1>4. /\ row.user = sessions[s].user /\ row.fortune = sessions[s].fortune
      /\ row.status = status /\ row.count = sessions[s].count
      /\ sessions[s].count \in Nat
  BY <1>2 DEF Stopped, SessionRow
<1>5. row \in SessionRow
  BY <1>2, StoppedType
<1>6. sessions' = [sessions EXCEPT ![s] = row] /\ row.count >= sessions[s].count
  BY <1>4
<1> HIDE DEF row
<1>7. TableInv'
  BY <1>1, <1>3, <1>4, <1>6, TablesUpdateRow DEF IInv
<1>8. SessionsGrow
  BY <1>1, <1>5, <1>6, GrowOnUpdate DEF IInv
<1>9. TaskInv'
  BY <1>8, IdleJustified, TaskStep DEF IInv
<1> QED
  BY <1>7, <1>9

\* The end of the chain preserves the invariant, whatever it overwrites.
LEMMA InvEndChain ==
  ASSUME IInv, TypeOK', NEW h \in Handlers, EndChain(h)
  PROVE  TaskInv' /\ TableInv'
<1> DEFINE status == FinalStatus(tasks[h].reason)
<1>1. status \in SessionStatus \ {"attempting", "rewarded"}
  BY ReportTask DEF EndChain, IInv, FinalStatus, SessionStatus, Reasons,
                    IsFallbackReason
<1>2. sessions' = [sessions EXCEPT
        ![tasks[h].session] = Stopped(sessions[tasks[h].session], status)]
  BY DEF EndChain, Stopped
<1> HIDE DEF status
<1> QED
  BY <1>1, <1>2, InvStop DEF EndChain, IsAt

\* A cancel preserves the invariant, whatever it overwrites.
LEMMA InvCancelSession ==
  ASSUME IInv, TypeOK', NEW h \in Handlers, CancelSession(h)
  PROVE  TaskInv' /\ TableInv'
<1>1. "cancelled" \in SessionStatus \ {"attempting", "rewarded"}
  BY DEF SessionStatus
<1>2. sessions' = [sessions EXCEPT
        ![tasks[h].session] = Stopped(sessions[tasks[h].session], "cancelled")]
  BY DEF CancelSession, Stopped
<1> QED
  BY <1>1, <1>2, InvStop DEF CancelSession, IsAt

\* The reward transaction preserves the invariant.
LEMMA InvGrantReward ==
  ASSUME IInv, TypeOK', NEW h \in Handlers, GrantReward(h)
  PROVE  TaskInv' /\ TableInv'
<1> DEFINE s == tasks[h].session
           row == Rewarded(sessions[s], tasks[h].attempt)
<1>1. s \in SessionIds
  BY DEF GrantReward, IsAt, IInv, TaskInv, TasksPointToRows
<1>2. sessions[s] \in SessionRow
  BY <1>1, RowType DEF IInv
<1>3. row \in SessionRow
  BY <1>2, GrantTaskType, RewardedType DEF GrantReward, IInv
<1>4. sessions' = [sessions EXCEPT ![s] = row]
  BY DEF GrantReward, Rewarded
<1>5. row.count >= sessions[s].count
  BY <1>2 DEF Rewarded, SessionRow
<1> HIDE DEF row
<1>6. SessionsGrow
  BY <1>1, <1>3, <1>4, <1>5, GrowOnUpdate DEF IInv
<1>7. TaskInv'
  BY <1>6, IdleJustified, TaskStep DEF GrantReward, IInv
<1>8. TableInv'
  BY TablesGrant DEF IInv
<1> QED
  BY <1>7, <1>8

\* The steps that only read the tables and move one request along.
LEMMA InvTaskOnly ==
  ASSUME IInv, TypeOK', UNCHANGED <<sessions, entitlements>>,
         NEW h \in Handlers, NEW t, Become(h, t), Justified(t)
  PROVE  TaskInv' /\ TableInv'
BY TablesSame, TaskStepSameSessions DEF IInv

\* Starting a request preserves the invariant.
LEMMA InvStart ==
  ASSUME IInv, TypeOK', NEW h \in Handlers, Start(h)
  PROVE  TaskInv' /\ TableInv'
<1>1. ASSUME NEW u \in Users, NEW f \in Fortunes, NEW k \in Keys,
             CreateSession(h, u, f, k)
      PROVE  TaskInv' /\ TableInv'
  <2> DEFINE t == [pc |-> "lookup", user |-> u, fortune |-> f, key |-> k,
                   at |-> now]
  <2>1. Justified(t)
    BY DEF Justified
  <2> QED
    BY <1>1, <2>1, InvTaskOnly DEF CreateSession
<1>2. ASSUME NEW u \in Users, RefuseSession(h, u)
      PROVE  TaskInv' /\ TableInv'
  BY <1>2, TablesSame
     DEF RefuseSession, vars, IInv, TaskInv, TasksPointToRows, ReportsNotAhead,
         SessionIds
<1>3. ASSUME NEW s \in SessionIds, NEW reason \in Reported,
             ReportFailure(h, s, reason)
      PROVE  TaskInv' /\ TableInv'
  <2> DEFINE t == [pc |-> "mark", session |-> s, attempt |-> sessions[s].count,
                   reason |-> reason]
  <2>1. Justified(t)
    BY RowType DEF Justified, IInv, SessionRow
  <2> QED
    BY <1>3, <2>1, InvTaskOnly DEF ReportFailure
<1>4. ASSUME NEW s \in SessionIds, Cancel(h, s)
      PROVE  TaskInv' /\ TableInv'
  <2> DEFINE t == [pc |-> "cancel", session |-> s]
  <2>1. Justified(t)
    BY DEF Justified
  <2> QED
    BY <1>4, <2>1, InvTaskOnly DEF Cancel
<1>5. ASSUME NEW s \in SessionIds, NEW p, NEW a, NEW reward
      PROVE  Justified(GrantTask(s, p, a, reward))
  BY DEF Justified, GrantTask
<1>6. ASSUME NEW s \in SessionIds, CompleteByClient(h, s)
      PROVE  TaskInv' /\ TableInv'
  BY <1>5, <1>6, InvTaskOnly DEF CompleteByClient
<1>7. ASSUME NEW s \in SessionIds, NEW v \in views,
             VerifyRewardCallback(h, v, s)
      PROVE  TaskInv' /\ TableInv'
  BY <1>5, <1>7, InvTaskOnly DEF VerifyRewardCallback
<1> QED
  BY <1>1, <1>2, <1>3, <1>4, <1>6, <1>7 DEF Start

\* Every step preserves the invariant.
LEMMA InvNext ==
  ASSUME IInv, [Next]_vars
  PROVE  IInv'
<1>1. TypeOK'
  BY TypeNext DEF IInv, TaskInv
<1>2. CASE UNCHANGED vars
  BY <1>1, <1>2, TablesSame
     DEF vars, IInv, TaskInv, TasksPointToRows, ReportsNotAhead, SessionIds
<1>3. ASSUME NEW h \in Handlers, Start(h) PROVE IInv'
  BY <1>1, <1>3, InvStart DEF IInv
<1>4. ASSUME NEW h \in Handlers, LookupSession(h) PROVE TaskInv' /\ TableInv'
  <2>1. Justified([tasks[h] EXCEPT !.pc = "insert"])
    BY <1>4 DEF Justified, LookupSession, IsAt, IInv, TypeOK, Task, Idle
  <2> QED
    BY <1>1, <1>4, <2>1, IdleJustified, InvTaskOnly DEF LookupSession
<1>5. ASSUME NEW h \in Handlers, RefuseReward(h) \/ Crash(h)
      PROVE  TaskInv' /\ TableInv'
  BY <1>1, <1>5, IdleJustified, InvTaskOnly DEF RefuseReward, Crash
<1>6. ASSUME NEW h \in Handlers, Continue(h) PROVE IInv'
  BY <1>1, <1>4, <1>5, <1>6, InvInsertSession, InvMarkAttempt, InvNextAttempt,
     InvEndChain, InvCancelSession, InvGrantReward DEF Continue, IInv
<1>7. ASSUME UNCHANGED <<sessions, tasks>> PROVE TaskInv'
  BY <1>7 DEF IInv, TaskInv, TasksPointToRows, ReportsNotAhead, SessionIds
<1>8. ASSUME NEW e \in EntitlementIds,
             ConsumeEntitlement(e) \/ RestoreEntitlement(e)
      PROVE  IInv'
  <2>1. TableInv'
    BY <1>8, TablesEntitlementStatus
       DEF ConsumeEntitlement, RestoreEntitlement, IInv
  <2> QED
    BY <1>1, <1>7, <1>8, <2>1 DEF ConsumeEntitlement, RestoreEntitlement, IInv
<1>9. ASSUME (\E s \in SessionIds : WatchAd(s)) \/ Tick PROVE IInv'
  BY <1>1, <1>7, <1>9, TablesSame DEF WatchAd, Tick, IInv
<1> QED
  BY <1>1, <1>2, <1>3, <1>5, <1>6, <1>8, <1>9 DEF Next, Environment, IInv

\* The invariant holds initially.
LEMMA InvInit == Init => IInv
<1> SUFFICES ASSUME Init PROVE IInv
  OBVIOUS
<1>1. TypeOK
  BY TypeInit
<1>2. SessionIds = {} /\ EntitlementIds = {}
  BY DEF Init, SessionIds, EntitlementIds
<1>3. TableInv
  BY <1>2 DEF TableInv, AttemptsFollowOrder, AttemptingHasCurrent,
              NoDoubleReward, RewardedHasEntitlement
<1> QED
  BY <1>1, <1>3, TaskInit DEF IInv

-----------------------------------------------------------------------------
\* In every reachable state the tables and the requests in flight agree.
THEOREM Invariance == Spec => []IInv
<1> QED
  BY InvInit, InvNext, PTL DEF Spec

\* Every row and every request in flight keeps the shape the service gives it.
THEOREM TypeCorrect == Spec => []TypeOK
<1>1. IInv => TypeOK
  BY DEF IInv
<1> QED
  BY <1>1, Invariance, PTL

\* Attempts are numbered without gap or repetition, in the provider order,
\* whatever reports interleave.
THEOREM OrderKept == Spec => []AttemptsFollowOrder
<1>1. IInv => AttemptsFollowOrder
  BY DEF IInv, TableInv
<1> QED
  BY <1>1, Invariance, PTL

\* A session that can reward points at the provider of its newest attempt.
THEOREM CurrentKept == Spec => []AttemptingHasCurrent
<1>1. IInv => AttemptingHasCurrent
  BY DEF IInv, TableInv
<1> QED
  BY <1>1, Invariance, PTL

\* Completions, postbacks and their repetitions grant at most one entitlement
\* for a session and honour no reward id twice.
THEOREM SingleReward == Spec => []NoDoubleReward
<1>1. IInv => NoDoubleReward
  BY DEF IInv, TableInv
<1> QED
  BY <1>1, Invariance, PTL

\* A session announced as rewarded has its entitlement.
THEOREM RewardBacked == Spec => []RewardedHasEntitlement
<1>1. IInv => RewardedHasEntitlement
  BY DEF IInv, TableInv
<1> QED
  BY <1>1, Invariance, PTL

-----------------------------------------------------------------------------
(***************************************************************************)
(* How a session row may change.                                           *)
(***************************************************************************)
\* Rows stay, keep their owner and their expiry, and once ended are not made active again.
RowsKept ==
  \A s \in SessionIds :
    /\ s \in SessionIds'
    /\ sessions'[s].user = sessions[s].user
    /\ sessions'[s].expires = sessions[s].expires
    /\ sessions[s].status # "attempting" => sessions'[s].status # "attempting"

\* Writing one row that keeps its owner and expiry and is not reopened.
LEMMA RowsKeptOnUpdate ==
  ASSUME TypeOK, NEW i, NEW row, sessions' = [sessions EXCEPT ![i] = row],
         i \in SessionIds =>
           /\ row.user = sessions[i].user /\ row.expires = sessions[i].expires
           /\ sessions[i].status # "attempting" => row.status # "attempting"
  PROVE  RowsKept
BY DEF RowsKept, SessionIds, TypeOK

\* No request rewrites an expiry or reopens an ended session.
LEMMA RowsKeptNext ==
  ASSUME TypeOK, TasksPointToRows, [Next]_vars
  PROVE  RowsKept
<1>1. CASE UNCHANGED sessions
  BY <1>1 DEF RowsKept, SessionIds
<1>2. ASSUME NEW h \in Handlers, NEW order \in Orders, InsertSession(h, order)
      PROVE  RowsKept
  <2>1. CASE sessions' = Append(sessions, NewSession(tasks[h], order))
    <3>1. NewSession(tasks[h], order) \in SessionRow
      BY <1>2, InsertTask, NewSessionType DEF InsertSession
    <3> QED
      BY <2>1, <3>1, AppendProperties, LenProperties
         DEF RowsKept, SessionIds, TypeOK
  <2> QED
    BY <1>1, <1>2, <2>1 DEF InsertSession
<1>3. ASSUME NEW h \in Handlers, MarkAttempt(h) \/ EndChain(h) \/ NextAttempt(h)
      PROVE  RowsKept
  <2> DEFINE s == tasks[h].session
  <2>1. s \in SessionIds
    BY <1>3 DEF MarkAttempt, EndChain, NextAttempt, IsAt, TasksPointToRows
  <2>2. sessions[s] \in SessionRow
    BY <2>1, RowType
  <2>3. CASE MarkAttempt(h)
    <3>1. PICK attempts :
            sessions' = [sessions EXCEPT
                           ![s] = [sessions[s] EXCEPT !.attempts = attempts]]
      BY <2>3 DEF MarkAttempt
    <3> QED
      BY <2>2, <3>1, RowsKeptOnUpdate DEF SessionRow
  <2>4. CASE EndChain(h)
    <3> DEFINE row == Stopped(sessions[s], FinalStatus(tasks[h].reason))
    <3>1. sessions' = [sessions EXCEPT ![s] = row]
      BY <2>4 DEF EndChain, Stopped
    <3>2. /\ row.user = sessions[s].user /\ row.expires = sessions[s].expires
          /\ row.status # "attempting"
      BY <2>2, <2>4, ReportTask
         DEF Stopped, SessionRow, EndChain, FinalStatus, Reasons,
             IsFallbackReason
    <3> HIDE DEF row
    <3> QED
      BY <3>1, <3>2, RowsKeptOnUpdate
  <2>5. CASE NextAttempt(h)
    <3> DEFINE row == Advanced(sessions[s], tasks[h].attempt + 1)
    <3>1. UNCHANGED sessions \/ sessions' = [sessions EXCEPT ![s] = row]
      BY <2>5 DEF NextAttempt
    <3>2. /\ row.user = sessions[s].user /\ row.expires = sessions[s].expires
          /\ row.status = sessions[s].status
      BY <2>2 DEF Advanced, SessionRow
    <3> HIDE DEF row
    <3> QED
      BY <1>1, <3>1, <3>2, RowsKeptOnUpdate
  <2> QED
    BY <1>3, <2>3, <2>4, <2>5
<1>4. ASSUME NEW h \in Handlers, CancelSession(h)
      PROVE  RowsKept
  <2> DEFINE s == tasks[h].session
             row == Stopped(sessions[s], "cancelled")
  <2>1. sessions[s] \in SessionRow
    BY <1>4, RowType DEF CancelSession, IsAt, TasksPointToRows
  <2>2. sessions' = [sessions EXCEPT ![s] = row]
    BY <1>4 DEF CancelSession, Stopped
  <2>3. /\ row.user = sessions[s].user /\ row.expires = sessions[s].expires
        /\ row.status # "attempting"
    BY <2>1 DEF Stopped, SessionRow
  <2> HIDE DEF row
  <2> QED
    BY <2>2, <2>3, RowsKeptOnUpdate
<1>5. ASSUME NEW h \in Handlers, GrantReward(h)
      PROVE  RowsKept
  <2> DEFINE s == tasks[h].session
             row == Rewarded(sessions[s], tasks[h].attempt)
  <2>1. sessions[s] \in SessionRow
    BY <1>5, RowType DEF GrantReward, IsAt, TasksPointToRows
  <2>2. sessions' = [sessions EXCEPT ![s] = row]
    BY <1>5 DEF GrantReward, Rewarded
  <2>3. /\ row.user = sessions[s].user /\ row.expires = sessions[s].expires
        /\ row.status # "attempting"
    BY <2>1 DEF Rewarded, SessionRow
  <2> HIDE DEF row
  <2> QED
    BY <2>2, <2>3, RowsKeptOnUpdate
<1> QED
  BY <1>1, <1>2, <1>3, <1>4, <1>5
     DEF Next, Start, Continue, Environment, CreateSession, RefuseSession,
         ReportFailure, Cancel, CompleteByClient, VerifyRewardCallback,
         LookupSession, RefuseReward, ConsumeEntitlement, RestoreEntitlement,
         WatchAd, Tick, Crash, vars

-----------------------------------------------------------------------------
(***************************************************************************)
(* Rewards and the expiry of the session they are for.                     *)
(***************************************************************************)
\* The request's own read is the only check, and the row it read keeps its
\* expiry while the request waits.
LEMMA GrantsBeganLiveNext ==
  ASSUME TypeOK, TasksPointToRows, GrantsBeganLive, RowsKept, [Next]_vars
  PROVE  GrantsBeganLive'
<1>1. CASE UNCHANGED tasks
  BY <1>1 DEF GrantsBeganLive, RowsKept, TasksPointToRows
<1>2. ASSUME NEW h \in Handlers, NEW t, Become(h, t),
             t.pc = "grant" => t.at < sessions'[t.session].expires
      PROVE  GrantsBeganLive'
  BY <1>2 DEF GrantsBeganLive, RowsKept, TasksPointToRows, Become, TypeOK
<1>3. ASSUME NEW h \in Handlers, NEW s \in SessionIds, NEW p, NEW a, NEW reward,
             IsLive(s, now), Become(h, GrantTask(s, p, a, reward))
      PROVE  GrantsBeganLive'
  <2>1. sessions[s].expires \in Nat /\ now \in Nat
    BY RowType DEF SessionRow, TypeOK
  <2>2. now < sessions'[s].expires
    BY <1>3, <2>1 DEF IsLive, RowsKept
  <2> QED
    BY <1>2, <1>3, <2>2 DEF GrantTask
<1>4. ASSUME NEW h \in Handlers, NEW s \in SessionIds, CompleteByClient(h, s)
      PROVE  GrantsBeganLive'
  BY <1>3, <1>4 DEF CompleteByClient
<1>5. ASSUME NEW h \in Handlers, NEW s \in SessionIds, NEW v \in views,
             VerifyRewardCallback(h, v, s)
      PROVE  GrantsBeganLive'
  <2>1. IsLive(s, now)
    BY <1>5 DEF VerifyRewardCallback, ResolvesTo, ActiveOn
  <2> QED
    BY <1>3, <1>5, <2>1 DEF VerifyRewardCallback
<1>6. ASSUME NEW h \in Handlers, Become(h, Idle)
      PROVE  GrantsBeganLive'
  BY <1>2, <1>6 DEF Idle
<1>7. ASSUME NEW h \in Handlers, Start(h)
      PROVE  GrantsBeganLive'
  <2>1. ASSUME NEW u \in Users, NEW f \in Fortunes, NEW k \in Keys,
               CreateSession(h, u, f, k)
        PROVE  GrantsBeganLive'
    BY <1>2, <2>1 DEF CreateSession
  <2>2. ASSUME NEW s \in SessionIds, NEW reason \in Reported,
               ReportFailure(h, s, reason)
        PROVE  GrantsBeganLive'
    BY <1>2, <2>2 DEF ReportFailure
  <2>3. ASSUME NEW s \in SessionIds, Cancel(h, s)
        PROVE  GrantsBeganLive'
    BY <1>2, <2>3 DEF Cancel
  <2> QED
    BY <1>1, <1>4, <1>5, <1>7, <2>1, <2>2, <2>3 DEF Start, RefuseSession, vars
<1>8. ASSUME NEW h \in Handlers, LookupSession(h) \/ MarkAttempt(h)
      PROVE  GrantsBeganLive'
  <2>1. CASE LookupSession(h)
    <3>1. [tasks[h] EXCEPT !.pc = "insert"].pc = "insert"
      BY <2>1 DEF LookupSession, IsAt, TypeOK, Task, Idle
    <3> QED
      BY <1>2, <1>6, <2>1, <3>1 DEF LookupSession
  <2>2. CASE MarkAttempt(h)
    <3>1. [tasks[h] EXCEPT !.pc = "settle"].pc = "settle"
      BY <2>2 DEF MarkAttempt, IsAt, TypeOK, Task, Idle
    <3> QED
      BY <1>2, <2>2, <3>1 DEF MarkAttempt
  <2> QED
    BY <1>8, <2>1, <2>2
<1> QED
  BY <1>1, <1>6, <1>7, <1>8
     DEF Next, Continue, Environment, InsertSession, NextAttempt, EndChain,
         CancelSession, GrantReward, RefuseReward, ConsumeEntitlement,
         RestoreEntitlement, WatchAd, Tick, Crash, vars

\* An entitlement is inserted with its request's own instant and never moved to
\* another session or another expiry.
LEMMA RewardsInTimeNext ==
  ASSUME TypeOK, TasksPointToRows, ExpiryInv, RowsKept, [Next]_vars
  PROVE  RewardsHaveSessions' /\ LateRewardEndsInTime'
<1>1. CASE UNCHANGED entitlements
  BY <1>1 DEF ExpiryInv, RewardsHaveSessions, LateRewardEndsInTime, RowsKept,
              EntitlementIds
<1>2. ASSUME NEW e \in EntitlementIds,
             ConsumeEntitlement(e) \/ RestoreEntitlement(e)
      PROVE  RewardsHaveSessions' /\ LateRewardEndsInTime'
  <2>1. PICK status :
          entitlements' = [entitlements EXCEPT
                             ![e] = [entitlements[e] EXCEPT !.status = status]]
    BY <1>2 DEF ConsumeEntitlement, RestoreEntitlement
  <2>2. /\ EntitlementIds' = EntitlementIds
        /\ \A d \in EntitlementIds :
             /\ entitlements'[d].session = entitlements[d].session
             /\ entitlements'[d].expires = entitlements[d].expires
    BY <2>1, RowType DEF EntitlementIds, TypeOK, EntitlementRow
  <2> QED
    BY <2>2 DEF ExpiryInv, RewardsHaveSessions, LateRewardEndsInTime, RowsKept
<1>3. ASSUME NEW h \in Handlers, GrantReward(h)
      PROVE  RewardsHaveSessions' /\ LateRewardEndsInTime'
  <2> DEFINE t == tasks[h]
             new == NewEntitlement(t)
             n == Len(entitlements) + 1
  <2>1. t.pc = "grant" /\ t.session \in SessionIds /\ t.at \in Nat
    BY <1>3, GrantTaskType DEF GrantReward, IsAt, TasksPointToRows
  <2>2. t.at < sessions[t.session].expires
    BY <2>1 DEF ExpiryInv, GrantsBeganLive
  <2>3. new.session = t.session /\ new.expires = t.at + EntitlementTtl
    BY <2>1, LimitsAssumption DEF NewEntitlement
  <2>4. entitlements' = Append(entitlements, new)
    BY <1>3 DEF GrantReward
  <2>5. new \in EntitlementRow
    BY <1>3, <2>1, NewEntitlementType DEF GrantReward
  <2> HIDE DEF new
  <2>6. /\ EntitlementIds' = EntitlementIds \cup {n}
        /\ entitlements'[n] = new
        /\ \A d \in EntitlementIds : entitlements'[d] = entitlements[d]
    BY <2>4, <2>5, AppendProperties, LenProperties DEF EntitlementIds, TypeOK
  <2>7. ASSUME NEW d \in EntitlementIds'
        PROVE  /\ entitlements'[d].session \in SessionIds'
               /\ entitlements'[d].expires
                    < sessions'[entitlements'[d].session].expires + EntitlementTtl
    <3>1. CASE d = n
      <4>1. sessions[t.session].expires \in Nat /\ EntitlementTtl \in Nat
        BY <2>1, RowType, LimitsAssumption DEF SessionRow
      <4>2. sessions'[t.session].expires = sessions[t.session].expires
            /\ t.session \in SessionIds'
        BY <2>1 DEF RowsKept
      <4> QED
        BY <2>1, <2>2, <2>3, <2>6, <3>1, <4>1, <4>2
    <3>2. CASE d \in EntitlementIds
      BY <2>6, <3>2 DEF RowsKept, ExpiryInv, RewardsHaveSessions,
                        LateRewardEndsInTime
    <3> QED
      BY <2>6, <3>1, <3>2
  <2> QED
    BY <2>7 DEF RewardsHaveSessions, LateRewardEndsInTime
<1> QED
  BY ZenonT(60), <1>1, <1>2, <1>3
     DEF Next, Start, Continue, Environment, CreateSession, RefuseSession,
         ReportFailure, Cancel, CompleteByClient, VerifyRewardCallback,
         LookupSession, InsertSession, MarkAttempt, NextAttempt, EndChain,
         CancelSession, RefuseReward, WatchAd, Tick, Crash, vars

\* Nothing is granted initially.
LEMMA ExpiryInvInit == Init => ExpiryInv
BY DEF Init, ExpiryInv, GrantsBeganLive, RewardsHaveSessions,
       LateRewardEndsInTime, EntitlementIds, Idle

\* Every step keeps ExpiryInv.
LEMMA ExpiryInvNext == IInv /\ ExpiryInv /\ [Next]_vars => ExpiryInv'
BY RowsKeptNext, GrantsBeganLiveNext, RewardsInTimeNext
   DEF IInv, TaskInv, ExpiryInv

\* A reward may be written after its session expired, but not for a session that
\* had expired when the completion or the postback was checked; and it is over
\* within EntitlementTtl of the session's expiry.
THEOREM LateRewardBounded == Spec => []LateRewardEndsInTime
<1>1. ExpiryInv => LateRewardEndsInTime
  BY DEF ExpiryInv
<1> QED
  BY <1>1, ExpiryInvInit, ExpiryInvNext, Invariance, PTL DEF Spec

\* Late failure reports, cancels and rewards overwrite an ended session's
\* status but never make it active.
THEOREM NotReopened == Spec => EndedStaysEnded
<1>1. IInv /\ [Next]_vars
        => [\A s \in SessionIds :
              sessions[s].status # "attempting" =>
                sessions'[s].status # "attempting"]_vars
  BY RowsKeptNext DEF IInv, TaskInv, RowsKept
<1> QED
  BY <1>1, Invariance, PTL DEF Spec, EndedStaysEnded

-----------------------------------------------------------------------------
(***************************************************************************)
(* Rewards and the ads that were watched for them, when every network      *)
(* echoes the session id in its postback.                                  *)
(***************************************************************************)
\* An ad that was watched stays watched.
LEMMA ViewsGrow == [Next]_vars => views \subseteq views'
BY ZenonT(60) DEF Next, Start, Continue, Environment, CreateSession, RefuseSession,
       ReportFailure, Cancel, CompleteByClient, VerifyRewardCallback,
       LookupSession, InsertSession, MarkAttempt, NextAttempt, EndChain,
       CancelSession, GrantReward, RefuseReward, ConsumeEntitlement,
       RestoreEntitlement, WatchAd, Tick, Crash, vars

\* Both reward paths start from a view of the session they are about: the
\* postback because its network showed the ad, the completion because the
\* client is honest.
LEMMA GrantsHaveViewsNext ==
  ASSUME Providers \subseteq SidProviders,
         TypeOK, GrantsHaveViews, [Next]_vars
  PROVE  GrantsHaveViews'
<1>1. views \subseteq views'
  BY ViewsGrow
<1>2. CASE UNCHANGED tasks
  BY <1>1, <1>2 DEF GrantsHaveViews
<1>3. ASSUME NEW h \in Handlers, NEW t, Become(h, t),
             t.pc = "grant" => \E v \in views : v[1] = t.session
      PROVE  GrantsHaveViews'
  BY <1>1, <1>3 DEF GrantsHaveViews, Become, TypeOK
<1>4. ASSUME NEW h \in Handlers, NEW s \in SessionIds,
             HonestClaim(s), CompleteByClient(h, s)
      PROVE  GrantsHaveViews'
  BY <1>3, <1>4 DEF CompleteByClient, GrantTask, HonestClaim
<1>5. ASSUME NEW h \in Handlers, NEW s \in SessionIds, NEW v \in views,
             VerifyRewardCallback(h, v, s)
      PROVE  GrantsHaveViews'
  <2> DEFINE p == ViewAttempt(v).provider
  <2>1. PICK a \in LatestAttempts(s, p) :
          Become(h, GrantTask(s, p, a, RewardOf(v, p, s)))
    BY <1>5 DEF VerifyRewardCallback
  <2>2. p \in Providers
    BY <2>1, RowType DEF LatestAttempts, SessionRow, AttemptRow
  <2>3. s = v[1]
    BY <1>5, <2>2 DEF VerifyRewardCallback, ResolvesTo
  <2> QED
    BY <1>3, <2>1, <2>3 DEF GrantTask
<1>6. ASSUME NEW h \in Handlers, NEW pc \in {"insert", "settle"},
             Become(h, [tasks[h] EXCEPT !.pc = pc]),
             tasks[h].pc \in {"lookup", "mark"}
      PROVE  GrantsHaveViews'
  <2>1. [tasks[h] EXCEPT !.pc = pc].pc = pc
    BY <1>6 DEF TypeOK, Task, Idle
  <2> QED
    BY <1>3, <1>6, <2>1
<1>7. ASSUME NEW h \in Handlers, Become(h, Idle)
      PROVE  GrantsHaveViews'
  BY <1>3, <1>7 DEF Idle
<1>8. ASSUME NEW h \in Handlers, Start(h)
      PROVE  GrantsHaveViews'
  <2>1. ASSUME NEW u \in Users, NEW f \in Fortunes, NEW k \in Keys,
               CreateSession(h, u, f, k)
        PROVE  GrantsHaveViews'
    BY <1>3, <2>1 DEF CreateSession
  <2>2. ASSUME NEW s \in SessionIds, NEW reason \in Reported,
               ReportFailure(h, s, reason)
        PROVE  GrantsHaveViews'
    BY <1>3, <2>2 DEF ReportFailure
  <2>3. ASSUME NEW s \in SessionIds, Cancel(h, s)
        PROVE  GrantsHaveViews'
    BY <1>3, <2>3 DEF Cancel
  <2> QED
    BY <1>2, <1>4, <1>5, <1>8, <2>1, <2>2, <2>3 DEF Start, RefuseSession, vars
<1> QED
  BY <1>2, <1>6, <1>7, <1>8
     DEF Next, Continue, Environment, LookupSession, InsertSession, MarkAttempt,
         NextAttempt, EndChain, CancelSession, GrantReward, RefuseReward,
         ConsumeEntitlement, RestoreEntitlement, WatchAd, Tick, Crash, vars,
         IsAt

\* Entitlements keep their session and owner, views stay, and a new one takes
\* both from the request that grants it.
LEMMA RewardsHaveViewsNext ==
  ASSUME TypeOK, TasksPointToRows, AdInv, RowsKept, [Next]_vars
  PROVE  RewardsHaveViews'
<1>1. views \subseteq views'
  BY ZenonT(60) DEF Next, Start, Continue, Environment, CreateSession, RefuseSession,
         ReportFailure, Cancel, CompleteByClient, VerifyRewardCallback,
         LookupSession, InsertSession, MarkAttempt, NextAttempt, EndChain,
         CancelSession, GrantReward, RefuseReward, ConsumeEntitlement,
         RestoreEntitlement, WatchAd, Tick, Crash, vars
<1>2. CASE UNCHANGED entitlements
  BY <1>1, <1>2 DEF AdInv, RewardsHaveViews, RowsKept, EntitlementIds
<1>3. ASSUME NEW e \in EntitlementIds,
             ConsumeEntitlement(e) \/ RestoreEntitlement(e)
      PROVE  RewardsHaveViews'
  <2>1. PICK status :
          entitlements' = [entitlements EXCEPT
                             ![e] = [entitlements[e] EXCEPT !.status = status]]
    BY <1>3 DEF ConsumeEntitlement, RestoreEntitlement
  <2>2. /\ EntitlementIds' = EntitlementIds
        /\ \A d \in EntitlementIds :
             /\ entitlements'[d].session = entitlements[d].session
             /\ entitlements'[d].user = entitlements[d].user
    BY <2>1, RowType DEF EntitlementIds, TypeOK, EntitlementRow
  <2> QED
    BY <1>1, <2>2 DEF AdInv, RewardsHaveViews, RowsKept
<1>4. ASSUME NEW h \in Handlers, GrantReward(h)
      PROVE  RewardsHaveViews'
  <2> DEFINE t == tasks[h]
             new == NewEntitlement(t)
             n == Len(entitlements) + 1
  <2>1. /\ t.pc = "grant" /\ t.session \in SessionIds
        /\ \E v \in views : v[1] = t.session
    BY <1>4 DEF GrantReward, IsAt, TasksPointToRows, AdInv, GrantsHaveViews
  <2>2. new.session = t.session /\ new.user = sessions[t.session].user
    BY DEF NewEntitlement
  <2>3. new \in EntitlementRow
    BY <1>4, <2>1, NewEntitlementType DEF GrantReward
  <2>4. entitlements' = Append(entitlements, new)
    BY <1>4 DEF GrantReward
  <2> HIDE DEF new
  <2>5. /\ EntitlementIds' = EntitlementIds \cup {n}
        /\ entitlements'[n] = new
        /\ \A d \in EntitlementIds : entitlements'[d] = entitlements[d]
    BY <2>3, <2>4, AppendProperties, LenProperties DEF EntitlementIds, TypeOK
  <2>6. ASSUME NEW d \in EntitlementIds'
        PROVE  /\ entitlements'[d].session \in SessionIds'
               /\ entitlements'[d].user
                    = sessions'[entitlements'[d].session].user
               /\ \E v \in views' : v[1] = entitlements'[d].session
    <3>1. CASE d = n
      BY <1>1, <2>1, <2>2, <2>5, <3>1 DEF RowsKept
    <3>2. CASE d \in EntitlementIds
      BY <1>1, <2>5, <3>2 DEF RowsKept, AdInv, RewardsHaveViews
    <3> QED
      BY <2>5, <3>1, <3>2
  <2> QED
    BY <2>6 DEF RewardsHaveViews
<1> QED
  BY ZenonT(60), <1>2, <1>3, <1>4
     DEF Next, Start, Continue, Environment, CreateSession, RefuseSession,
         ReportFailure, Cancel, CompleteByClient, VerifyRewardCallback,
         LookupSession, InsertSession, MarkAttempt, NextAttempt, EndChain,
         CancelSession, RefuseReward, WatchAd, Tick, Crash, vars

\* Ads are watched one at a time.
LEMMA ViewsFiniteNext ==
  ASSUME IsFiniteSet(views), [Next]_vars
  PROVE  IsFiniteSet(views')
<1>1. CASE UNCHANGED views
  BY <1>1
<1>2. ASSUME NEW s \in SessionIds, WatchAd(s)
      PROVE  IsFiniteSet(views')
  BY <1>2, FS_AddElement DEF WatchAd
<1> QED
  BY ZenonT(60), <1>1, <1>2
     DEF Next, Start, Continue, Environment, CreateSession, RefuseSession,
         ReportFailure, Cancel, CompleteByClient, VerifyRewardCallback,
         LookupSession, InsertSession, MarkAttempt, NextAttempt, EndChain,
         CancelSession, GrantReward, RefuseReward, ConsumeEntitlement,
         RestoreEntitlement, Tick, Crash, vars

\* Nothing is watched or granted initially.
LEMMA AdInvInit == Init => AdInv
<1> SUFFICES ASSUME Init PROVE AdInv
  OBVIOUS
<1>1. IsFiniteSet(views)
  BY FS_EmptySet DEF Init
<1> QED
  BY <1>1 DEF Init, AdInv, GrantsHaveViews, RewardsHaveViews, EntitlementIds,
              Idle

\* Two entitlements are of two sessions, so their ads are two.
LEMMA AdsCovered ==
  ASSUME AdInv, NoDoubleReward
  PROVE  OneUnlockPerAd
<1> SUFFICES ASSUME NEW u \in Users
             PROVE  Cardinality({e \in EntitlementIds :
                                   entitlements[e].user = u})
                      <= Cardinality({v \in views :
                                        sessions[v[1]].user = u})
  BY DEF OneUnlockPerAd
<1> DEFINE E == {e \in EntitlementIds : entitlements[e].user = u}
           V == {v \in views : sessions[v[1]].user = u}
           f == [e \in E |-> CHOOSE v \in views :
                               v[1] = entitlements[e].session]
<1>1. \A e \in E : f[e] \in views /\ f[e][1] = entitlements[e].session
  BY DEF AdInv, RewardsHaveViews
<1>2. \A e \in E : f[e] \in V
  BY <1>1 DEF AdInv, RewardsHaveViews
<1> HIDE DEF f
<1>3. \A d, e \in E : f[d] = f[e] => d = e
  BY <1>1 DEF NoDoubleReward
<1>4. f \in [E -> V]
  BY <1>2 DEF f
<1>5. f \in Injection(E, V)
  BY <1>3, <1>4 DEF Injection, IsInjective
<1>6. IsFiniteSet(V)
  BY FS_Subset DEF AdInv
<1> QED
  BY <1>5, <1>6, FS_Injection

\* "A single ad can never unlock more than one fortune": a user never has more
\* entitlements than watched ads when every network echoes the session id.
\* (Without the echo the run MediationOneUnlock shows it can be violated.)
THEOREM OneAdOneUnlock ==
  ASSUME Providers \subseteq SidProviders
  PROVE  Spec => []OneUnlockPerAd
<1>1. IInv /\ AdInv /\ [Next]_vars => AdInv'
  BY RowsKeptNext, GrantsHaveViewsNext, RewardsHaveViewsNext, ViewsFiniteNext
     DEF IInv, TaskInv, AdInv
<1>2. IInv /\ AdInv => OneUnlockPerAd
  BY AdsCovered DEF IInv, TableInv
<1> QED
  BY <1>1, <1>2, AdInvInit, Invariance, PTL DEF Spec
=============================================================================
