-------------------------- MODULE AccessFlowProofs --------------------------
(***************************************************************************)
(* Theorems about AccessFlow, for every value of its constants: the page   *)
(* drives its server as Mediation and Readings allow, so that what is      *)
(* proved of them holds of the whole; and the safety of the page itself.   *)
(***************************************************************************)
EXTENDS AccessFlow, SequenceTheorems, FiniteSetTheorems, TLAPS

\* The theorems of the two server modules, for the instances of AccessFlow.
AdsP == INSTANCE MediationProofs WITH
  Users <- {User}, Fortunes <- {Fortune}, Keys <- 1..MaxWatches,
  SessionTtl <- 1, EntitlementTtl <- 1, DayLength <- 1,
  Reported <- {"no_fill", "skipped", "verification_failed"},
  Handlers <- AdHandlers,
  MaxSessions <- MaxWatches, MaxNow <- 0, tasks <- adTasks
ApiP == INSTANCE ReadingsProofs WITH
  Users <- {User}, Fortunes <- {Fortune},
  Unlocks <- 1..MaxWatches, NoUnlock <- 0, Keys <- 1..MaxKeys, NoKey <- 0,
  Requests <- Bodies, Allowance <- [f \in {Fortune} |-> Allowance],
  Handlers <- ReadingHandlers, MaxDay <- 0, tasks <- readTasks

-----------------------------------------------------------------------------
(***************************************************************************)
(* Both names of an instance mean the same formulas.                       *)
(***************************************************************************)
\* The initial states and the steps of Mediation.
LEMMA AdsSpecSame ==
  /\ Ads!Init <=> AdsP!Init
  /\ Ads!Next <=> AdsP!Next
  /\ Ads!vars = AdsP!vars /\ Ads!vars' = AdsP!vars'
BY DEF Ads!Init, AdsP!Init, Ads!Idle, AdsP!Idle, Ads!Next, AdsP!Next, Ads!Start,
       AdsP!Start, Ads!CreateSession, AdsP!CreateSession, Ads!IsAt, AdsP!IsAt,
       Ads!UsedToday, AdsP!UsedToday, Ads!EntitlementIds, AdsP!EntitlementIds,
       Ads!DayStart, AdsP!DayStart, Ads!Become, AdsP!Become, Ads!RefuseSession,
       AdsP!RefuseSession, Ads!vars, AdsP!vars, Ads!SessionIds, AdsP!SessionIds,
       Ads!ReportFailure, AdsP!ReportFailure, Ads!IsLive, AdsP!IsLive,
       Ads!Cancel, AdsP!Cancel, Ads!CompleteByClient, AdsP!CompleteByClient,
       Ads!HonestClaim, AdsP!HonestClaim,
       Ads!LatestAttempts, AdsP!LatestAttempts, Ads!GrantTask, AdsP!GrantTask,
       Ads!SessionReward, AdsP!SessionReward, Ads!VerifyRewardCallback,
       AdsP!VerifyRewardCallback, Ads!ViewAttempt, AdsP!ViewAttempt,
       Ads!ResolvesTo, AdsP!ResolvesTo, Ads!ActiveOn, AdsP!ActiveOn,
       Ads!RewardOf, AdsP!RewardOf, Ads!Continue, AdsP!Continue,
       Ads!LookupSession, AdsP!LookupSession, Ads!Replayable, AdsP!Replayable,
       Ads!InsertSession, AdsP!InsertSession, Ads!KeyTaken, AdsP!KeyTaken,
       Ads!NewSession, AdsP!NewSession, Ads!FirstAttempt, AdsP!FirstAttempt,
       Ads!MarkAttempt, AdsP!MarkAttempt, Ads!WithAttemptStatus,
       AdsP!WithAttemptStatus, Ads!MarkedStatus, AdsP!MarkedStatus,
       Ads!NextAttempt, AdsP!NextAttempt, Ads!HasNext, AdsP!HasNext,
       Ads!IsFallbackReason, AdsP!IsFallbackReason, Ads!Reasons, AdsP!Reasons,
       Ads!AttemptTaken, AdsP!AttemptTaken, Ads!Advanced, AdsP!Advanced,
       Ads!EndChain, AdsP!EndChain, Ads!FinalStatus, AdsP!FinalStatus,
       Ads!CancelSession, AdsP!CancelSession, Ads!GrantReward, AdsP!GrantReward,
       Ads!EntitlementCollides, AdsP!EntitlementCollides, Ads!NewEntitlement,
       AdsP!NewEntitlement, Ads!RefuseReward, AdsP!RefuseReward, Ads!Crash,
       AdsP!Crash, Ads!Environment, AdsP!Environment, Ads!ConsumeEntitlement,
       AdsP!ConsumeEntitlement, Ads!RestoreEntitlement, AdsP!RestoreEntitlement,
       Ads!WatchAd, AdsP!WatchAd, Ads!Tick, AdsP!Tick, Ads!Cardinality,
       AdsP!Cardinality

\* The invariants of Mediation, now and after a step.
LEMMA AdsInvSame ==
  /\ Ads!IInv <=> AdsP!IInv
  /\ Ads!ExpiryInv <=> AdsP!ExpiryInv
  /\ Ads!IInv' <=> AdsP!IInv'
  /\ Ads!ExpiryInv' <=> AdsP!ExpiryInv'
BY DEF Ads!IInv, AdsP!IInv, Ads!TypeOK, AdsP!TypeOK, Ads!SessionRow,
       AdsP!SessionRow, Ads!SessionStatus, AdsP!SessionStatus, Ads!AttemptRow,
       AdsP!AttemptRow, Ads!AttemptStatus, AdsP!AttemptStatus,
       Ads!EntitlementRow, AdsP!EntitlementRow, Ads!RewardIds, AdsP!RewardIds,
       Ads!EntitlementStatus, AdsP!EntitlementStatus, Ads!Task, AdsP!Task,
       Ads!Idle, AdsP!Idle, Ads!Reasons, AdsP!Reasons, Ads!TaskInv,
       AdsP!TaskInv, Ads!TasksPointToRows, AdsP!TasksPointToRows,
       Ads!SessionIds, AdsP!SessionIds, Ads!ReportsNotAhead,
       AdsP!ReportsNotAhead, Ads!TableInv, AdsP!TableInv,
       Ads!AttemptsFollowOrder, AdsP!AttemptsFollowOrder, Ads!FollowsOrder,
       AdsP!FollowsOrder, Ads!AttemptingHasCurrent, AdsP!AttemptingHasCurrent,
       Ads!PointsAtNewest, AdsP!PointsAtNewest, Ads!NoDoubleReward,
       AdsP!NoDoubleReward, Ads!EntitlementIds, AdsP!EntitlementIds,
       Ads!RewardedHasEntitlement, AdsP!RewardedHasEntitlement, Ads!ExpiryInv,
       AdsP!ExpiryInv, Ads!GrantsBeganLive, AdsP!GrantsBeganLive,
       Ads!RewardsHaveSessions, AdsP!RewardsHaveSessions,
       Ads!LateRewardEndsInTime, AdsP!LateRewardEndsInTime

\* The initial states and the steps of Readings.
LEMMA ApiSpecSame ==
  /\ Api!Init <=> ApiP!Init
  /\ Api!Next <=> ApiP!Next
  /\ Api!vars = ApiP!vars /\ Api!vars' = ApiP!vars'
BY DEF Api!Init, ApiP!Init, Api!Days, ApiP!Days, Api!NoRecord, ApiP!NoRecord,
       Api!Idle, ApiP!Idle, Api!Next, ApiP!Next, Api!Submit, ApiP!Submit,
       Api!IsAt, ApiP!IsAt, Api!Busy, ApiP!Busy, Api!Become, ApiP!Become,
       Api!tables, ApiP!tables, Api!RejectRequest, ApiP!RejectRequest, Api!vars,
       ApiP!vars, Api!Continue, ApiP!Continue, Api!CheckReplay,
       ApiP!CheckReplay, Api!Req, ApiP!Req, Api!Fingerprint, ApiP!Fingerprint,
       Api!Answer, ApiP!Answer, Api!DecideAccess, ApiP!DecideAccess,
       Api!FreeRemaining, ApiP!FreeRemaining, Api!Generating, ApiP!Generating,
       Api!ConsumeUnlock, ApiP!ConsumeUnlock, Api!Consumable, ApiP!Consumable,
       Api!GenerateReading, ApiP!GenerateReading, Api!Persist, ApiP!Persist,
       Api!NewReading, ApiP!NewReading, Api!AfterPersist, ApiP!AfterPersist,
       Api!GenerationFails, ApiP!GenerationFails, Api!AfterFailure,
       ApiP!AfterFailure, Api!PersistReplyLost, ApiP!PersistReplyLost,
       Api!RestoreUnlock, ApiP!RestoreUnlock, Api!Restored, ApiP!Restored,
       Api!RestoreFails, ApiP!RestoreFails, Api!CountFree, ApiP!CountFree,
       Api!CountFails, ApiP!CountFails, Api!RecordResult, ApiP!RecordResult,
       Api!Recorded, ApiP!Recorded, Api!RecordFails, ApiP!RecordFails,
       Api!Crash, ApiP!Crash, Api!Environment, ApiP!Environment,
       Api!GrantUnlock, ApiP!GrantUnlock, Api!ExpireUnlock, ApiP!ExpireUnlock,
       Api!Midnight, ApiP!Midnight, Api!Cardinality, ApiP!Cardinality

\* The invariant of Readings, now and after a step.
LEMMA ApiInvSame ==
  /\ Api!IInv <=> ApiP!IInv
  /\ Api!IInv' <=> ApiP!IInv'
BY DEF Api!IInv, ApiP!IInv, Api!TypeOK, ApiP!TypeOK, Api!Days, ApiP!Days,
       Api!UnlockRow, ApiP!UnlockRow, Api!RecordRow, ApiP!RecordRow,
       Api!NoRecord, ApiP!NoRecord, Api!ReadingRow, ApiP!ReadingRow,
       Api!Methods, ApiP!Methods, Api!AnswerRow, ApiP!AnswerRow,
       Api!RequestType, ApiP!RequestType, Api!Task, ApiP!Task, Api!Idle,
       ApiP!Idle, Api!TasksServe, ApiP!TasksServe, Api!Serves, ApiP!Serves,
       Api!Req, ApiP!Req, Api!RecordsServe, ApiP!RecordsServe, Api!Recording,
       ApiP!Recording, Api!AnswersServe, ApiP!AnswersServe, Api!TasksCarry,
       ApiP!TasksCarry, Api!RoomForUncounted, ApiP!RoomForUncounted,
       Api!Uncounted, ApiP!Uncounted, Api!FutureUncounted, ApiP!FutureUncounted,
       Api!Cardinality, ApiP!Cardinality

-----------------------------------------------------------------------------
(***************************************************************************)
(* The assumptions of the server modules, and their invariants.            *)
(***************************************************************************)
\* What Mediation assumes of its constants.
LEMMA AdsAssumptions ==
  /\ AdsP!OrdersAssumption /\ AdsP!ProvidersAssumption
  /\ AdsP!LimitsAssumption /\ AdsP!ReportedAssumption
BY FlowBoundsAssumption, FlowInputsAssumption
   DEF AdsP!OrdersAssumption, AdsP!ProvidersAssumption, AdsP!LimitsAssumption,
       AdsP!ReportedAssumption, AdsP!Reasons

\* What Readings assumes of its constants.
LEMMA ApiAssumptions ==
  /\ ApiP!RequestsAssumption /\ ApiP!NullsAssumption
  /\ ApiP!BoundsAssumption
<1>1. MaxWatches \in Nat /\ MaxKeys \in Nat /\ MaxReadings \in Nat
      /\ Allowance \in Nat
  BY FlowBoundsAssumption
<1>2. 0..MaxWatches = 1..MaxWatches \cup {0}
  BY <1>1
<1>3. 1..MaxKeys \subseteq 1..MaxKeys \cup {0}
  OBVIOUS
<1>4. ApiP!RequestsAssumption
  BY <1>2, <1>3 DEF ApiP!RequestsAssumption, ApiP!RequestType, Bodies
<1>5. ApiP!BoundsAssumption
  BY <1>1, FlowInputsAssumption
     DEF ApiP!BoundsAssumption, ApiP!IsFiniteSet, IsFiniteSet
<1> QED
  BY <1>1, <1>4, <1>5 DEF ApiP!NullsAssumption

\* A step of Mediation keeps its invariants.
LEMMA AdsNext ==
  ASSUME Ads!IInv, Ads!ExpiryInv, [Ads!Next]_(Ads!vars)
  PROVE  Ads!IInv' /\ Ads!ExpiryInv'
BY AdsAssumptions, AdsP!InvNext, AdsP!ExpiryInvNext, AdsSpecSame, AdsInvSame

\* A step of Readings keeps its invariant.
LEMMA ApiNext ==
  ASSUME Api!IInv, [Api!Next]_(Api!vars)
  PROVE  Api!IInv'
BY ApiAssumptions, ApiP!IInvNext, ApiSpecSame, ApiInvSame

\* The invariants of the server hold at the start.
LEMMA ServerInit == Init => Ads!IInv /\ Ads!ExpiryInv /\ Api!IInv
BY AdsAssumptions, ApiAssumptions, AdsP!InvInit, AdsP!ExpiryInvInit,
   ApiP!IInvInit, AdsSpecSame, AdsInvSame, ApiSpecSame, ApiInvSame DEF Init

-----------------------------------------------------------------------------
(***************************************************************************)
(* What the work of Mediation does to its tables.                          *)
(***************************************************************************)
OpensSession(h) == adTasks[h].pc \in {"lookup", "insert"}

\* Rows stay under their keys.
KeysStay ==
  \A s \in DOMAIN sessions :
    s \in DOMAIN sessions' /\ sessions'[s].key = sessions[s].key

\* Writing one row that keeps its key.
LEMMA WriteKeepsKeys ==
  ASSUME Ads!TypeOK, NEW i, NEW row, sessions' = [sessions EXCEPT ![i] = row],
         i \in DOMAIN sessions => row.key = sessions[i].key
  PROVE  KeysStay /\ Len(sessions') = Len(sessions)
<1>1. sessions \in Seq(Ads!SessionRow)
  BY DEF Ads!TypeOK
<1>2. DOMAIN sessions' = DOMAIN sessions /\ Len(sessions') = Len(sessions)
  BY <1>1
<1> QED
  BY <1>1, <1>2 DEF KeysStay

\* A row of a report, a cancellation or a reward.
LEMMA AdRow ==
  ASSUME Ads!TypeOK, Ads!TaskInv, NEW h \in AdHandlers,
         adTasks[h].pc \in {"mark", "settle", "cancel", "grant"}
  PROVE  /\ adTasks[h].session \in DOMAIN sessions
         /\ sessions[adTasks[h].session] \in Ads!SessionRow
BY DEF Ads!TypeOK, Ads!TaskInv, Ads!TasksPointToRows, Ads!SessionIds, AdHandlers

\* Failure reports and cancellations rewrite a row in place.
LEMMA MarkKeepsKeys ==
  ASSUME Ads!TypeOK, Ads!TaskInv, NEW h \in AdHandlers,
         \/ Ads!MarkAttempt(h) \/ Ads!NextAttempt(h) \/ Ads!EndChain(h)
         \/ Ads!CancelSession(h) \/ Ads!GrantReward(h)
  PROVE  KeysStay /\ Len(sessions') = Len(sessions)
<1> DEFINE s == adTasks[h].session
           n == adTasks[h].attempt
<1>1. s \in DOMAIN sessions /\ sessions[s] \in Ads!SessionRow
  BY AdRow DEF Ads!MarkAttempt, Ads!NextAttempt, Ads!EndChain,
               Ads!CancelSession, Ads!GrantReward, Ads!IsAt
<1>2. PICK row \in Ads!SessionRow : row = sessions[s]
  BY <1>1
<1>3. sessions[s].key = row.key
  BY <1>2
<1>4. CASE Ads!MarkAttempt(h)
  <2> DEFINE new == [row EXCEPT !.attempts =
                       Ads!WithAttemptStatus(@, n,
                         Ads!MarkedStatus(adTasks[h].reason))]
  <2>1. sessions' = [sessions EXCEPT ![s] = new] /\ new.key = row.key
    BY <1>2, <1>4 DEF Ads!MarkAttempt, Ads!SessionRow
  <2> QED
    BY <1>3, <2>1, WriteKeepsKeys
<1>5. CASE Ads!NextAttempt(h)
  <2>1. CASE UNCHANGED sessions
    BY <2>1 DEF KeysStay
  <2>2. CASE sessions' = [sessions EXCEPT ![s] = Ads!Advanced(@, n + 1)]
    <3> DEFINE new == Ads!Advanced(row, n + 1)
    <3>1. sessions' = [sessions EXCEPT ![s] = new] /\ new.key = row.key
      BY <1>2, <2>2 DEF Ads!Advanced, Ads!SessionRow
    <3> QED
      BY <1>3, <3>1, WriteKeepsKeys
  <2> QED
    BY <1>5, <2>1, <2>2 DEF Ads!NextAttempt
<1>6. CASE Ads!EndChain(h)
  <2> DEFINE new == [row EXCEPT !.status = Ads!FinalStatus(adTasks[h].reason),
                                !.current = NoProvider]
  <2>1. sessions' = [sessions EXCEPT ![s] = new] /\ new.key = row.key
    BY <1>2, <1>6 DEF Ads!EndChain, Ads!SessionRow
  <2> QED
    BY <1>3, <2>1, WriteKeepsKeys
<1>7. CASE Ads!CancelSession(h)
  <2> DEFINE new == [row EXCEPT !.status = "cancelled", !.current = NoProvider]
  <2>1. sessions' = [sessions EXCEPT ![s] = new] /\ new.key = row.key
    BY <1>2, <1>7 DEF Ads!CancelSession, Ads!SessionRow
  <2> QED
    BY <1>3, <2>1, WriteKeepsKeys
<1>8. CASE Ads!GrantReward(h)
  <2> DEFINE new == [row EXCEPT !.status = "rewarded",
                                !.attempts =
                                  Ads!WithAttemptStatus(@, n, "verified")]
  <2>1. sessions' = [sessions EXCEPT ![s] = new] /\ new.key = row.key
    BY <1>2, <1>8 DEF Ads!GrantReward, Ads!SessionRow
  <2> QED
    BY <1>3, <2>1, WriteKeepsKeys
<1> QED
  BY <1>4, <1>5, <1>6, <1>7, <1>8

\* A session is opened under a key that has none.
LEMMA InsertOpens ==
  ASSUME Ads!TypeOK, NEW h \in AdHandlers, NEW order \in Orders,
         Ads!InsertSession(h, order)
  PROVE  /\ KeysStay
         /\ \E s \in DOMAIN sessions' : sessions'[s].key = adTasks[h].key
         /\ \/ UNCHANGED sessions
            \/ /\ Len(sessions') = Len(sessions) + 1
               /\ Len(sessions) < MaxWatches
               /\ sessions'[Len(sessions')].key = adTasks[h].key
               /\ \A s \in DOMAIN sessions : sessions[s].key # adTasks[h].key
<1>1. sessions \in Seq(Ads!SessionRow) /\ adTasks \in [AdHandlers -> Ads!Task]
  BY DEF Ads!TypeOK, AdHandlers
<1>2. PICK t \in Ads!Task : t = adTasks[h] /\ t.pc = "insert"
  BY <1>1 DEF Ads!InsertSession, Ads!IsAt
<1>3. t.user = User
  BY <1>2 DEF Ads!Task, Ads!Idle
<1>6. \A s \in DOMAIN sessions : sessions[s].user = User
  <2>1. \A s \in DOMAIN sessions : sessions[s] \in Ads!SessionRow
    BY <1>1
  <2>2. \A row \in Ads!SessionRow : row.user = User
    BY DEF Ads!SessionRow
  <2> QED
    BY <2>1, <2>2
<1>4. CASE Ads!KeyTaken(t) /\ UNCHANGED sessions
  BY <1>2, <1>4 DEF Ads!KeyTaken, Ads!SessionIds, KeysStay
<1>5. CASE /\ ~Ads!KeyTaken(t) /\ Len(sessions) < MaxWatches
           /\ sessions' = Append(sessions, Ads!NewSession(t, order))
  <2> DEFINE row == Ads!NewSession(t, order)
  <2>1. row.key = t.key
    BY DEF Ads!NewSession
  <2> HIDE DEF row
  <2>2. /\ Len(sessions') = Len(sessions) + 1
        /\ sessions'[Len(sessions')] = row
        /\ \A s \in DOMAIN sessions :
             s \in DOMAIN sessions' /\ sessions'[s] = sessions[s]
        /\ Len(sessions') \in DOMAIN sessions'
    <3> DEFINE T == Ads!SessionRow \cup {row}
    <3>1. sessions \in Seq(T) /\ row \in T
      BY <1>1
    <3> HIDE DEF T
    <3> QED
      BY <1>5, <3>1, AppendProperties, LenProperties DEF row
  <2>3. \A s \in DOMAIN sessions : sessions[s].key # t.key
    BY <1>3, <1>5, <1>6 DEF Ads!KeyTaken, Ads!SessionIds
  <2> QED
    BY <1>2, <1>5, <2>1, <2>2, <2>3 DEF KeysStay
<1> QED
  BY <1>2, <1>4, <1>5 DEF Ads!InsertSession

\* A reward is a new available row, on a session that is there.
LEMMA AdRewards ==
  ASSUME Ads!TypeOK, Ads!TaskInv, NEW h \in AdHandlers, Ads!Continue(h)
  PROVE  \/ UNCHANGED entitlements
         \/ \E row : /\ row.status = "available"
                     /\ row.session \in DOMAIN sessions
                     /\ entitlements' = Append(entitlements, row)
<1>1. CASE Ads!GrantReward(h)
  <2> DEFINE row == Ads!NewEntitlement(adTasks[h])
  <2>1. row.status = "available" /\ row.session = adTasks[h].session
    BY DEF Ads!NewEntitlement
  <2>2. row.session \in DOMAIN sessions
    BY <1>1, <2>1, AdRow DEF Ads!GrantReward, Ads!IsAt
  <2>3. entitlements' = Append(entitlements, row)
    BY <1>1 DEF Ads!GrantReward
  <2> QED
    BY <2>1, <2>2, <2>3
<1> QED
  BY <1>1 DEF Ads!Continue, Ads!LookupSession, Ads!InsertSession,
              Ads!MarkAttempt, Ads!NextAttempt, Ads!EndChain, Ads!CancelSession,
              Ads!RefuseReward

\* A request that opens a session goes on under its key until the session is
\* there; no other request begins to open one.
LEMMA AdTasksMove ==
  ASSUME Ads!TypeOK, NEW h \in AdHandlers, Ads!Continue(h)
  PROVE  /\ \A g \in AdHandlers : g # h => adTasks'[g] = adTasks[g]
         /\ OpensSession(h)'
              => OpensSession(h) /\ adTasks'[h].key = adTasks[h].key
         /\ OpensSession(h) => OpensSession(h)' \/ adTasks'[h].pc = "idle"
         /\ OpensSession(h) /\ adTasks'[h].pc = "idle"
              => \E s \in DOMAIN sessions' : sessions'[s].key = adTasks[h].key
<1>1. adTasks \in [AdHandlers -> Ads!Task]
  BY DEF Ads!TypeOK, AdHandlers
<1>2. PICK t \in Ads!Task : t = adTasks[h]
  BY <1>1
<1>3. CASE Ads!LookupSession(h)
  <2>1. t.pc = "lookup" /\ sessions' = sessions
    BY <1>2, <1>3 DEF Ads!LookupSession, Ads!IsAt
  <2>2. CASE Ads!Replayable(t) /\ adTasks' = [adTasks EXCEPT ![h] = Ads!Idle]
    BY <1>1, <1>2, <2>1, <2>2
       DEF Ads!Replayable, Ads!SessionIds, Ads!Idle, OpensSession
  <2>3. CASE adTasks' = [adTasks EXCEPT ![h] = [t EXCEPT !.pc = "insert"]]
    <3>1. [t EXCEPT !.pc = "insert"].pc = "insert"
          /\ [t EXCEPT !.pc = "insert"].key = t.key
      BY <2>1 DEF Ads!Task, Ads!Idle
    <3> QED
      BY <1>1, <1>2, <2>1, <2>3, <3>1 DEF OpensSession
  <2> QED
    BY <1>2, <1>3, <2>2, <2>3 DEF Ads!LookupSession, Ads!Become
<1>4. ASSUME NEW order \in Orders, Ads!InsertSession(h, order)
      PROVE  /\ \A g \in AdHandlers : g # h => adTasks'[g] = adTasks[g]
             /\ adTasks'[h] = Ads!Idle
             /\ \E s \in DOMAIN sessions' : sessions'[s].key = adTasks[h].key
  BY <1>1, <1>4, InsertOpens DEF Ads!InsertSession, Ads!Become
<1>5. CASE \/ Ads!MarkAttempt(h) \/ Ads!NextAttempt(h) \/ Ads!EndChain(h)
           \/ Ads!CancelSession(h) \/ Ads!GrantReward(h) \/ Ads!RefuseReward(h)
  <2>1. t.pc \in {"mark", "settle", "cancel", "grant"}
    BY <1>2, <1>5 DEF Ads!MarkAttempt, Ads!NextAttempt, Ads!EndChain,
         Ads!CancelSession, Ads!GrantReward, Ads!RefuseReward, Ads!IsAt
  <2>2. PICK new : adTasks' = [adTasks EXCEPT ![h] = new]
                   /\ (new = Ads!Idle \/ new = [t EXCEPT !.pc = "settle"])
    BY <1>2, <1>5 DEF Ads!MarkAttempt, Ads!NextAttempt, Ads!EndChain,
         Ads!CancelSession, Ads!GrantReward, Ads!RefuseReward, Ads!Become
  <2>3. new.pc \in {"idle", "settle"}
    BY <2>1, <2>2 DEF Ads!Task, Ads!Idle
  <2> QED
    BY <1>1, <1>2, <2>1, <2>2, <2>3 DEF OpensSession
<1> QED
  BY <1>3, <1>4, <1>5 DEF Ads!Continue, OpensSession, Ads!Idle

\* Sessions are kept under their keys, and a new one has its request's key.
LEMMA AdSessions ==
  ASSUME Ads!TypeOK, Ads!TaskInv, NEW h \in AdHandlers, Ads!Continue(h)
  PROVE  /\ KeysStay
         /\ \/ Len(sessions') = Len(sessions)
            \/ /\ Len(sessions') = Len(sessions) + 1
               /\ Len(sessions) < MaxWatches
               /\ OpensSession(h)
               /\ sessions'[Len(sessions')].key = adTasks[h].key
               /\ \A s \in DOMAIN sessions : sessions[s].key # adTasks[h].key
<1>1. CASE \E order \in Orders : Ads!InsertSession(h, order)
  <2>1. OpensSession(h)
    BY <1>1 DEF Ads!InsertSession, Ads!IsAt, OpensSession
  <2> QED
    BY <1>1, <2>1, InsertOpens
<1>2. CASE UNCHANGED sessions
  BY <1>2 DEF KeysStay
<1> QED
  BY <1>1, <1>2, MarkKeepsKeys
     DEF Ads!Continue, Ads!LookupSession, Ads!RefuseReward

-----------------------------------------------------------------------------
(***************************************************************************)
(* Every step of the page is a step, or no step, of both server modules.   *)
(***************************************************************************)
\* An entitlement is of a session of its own, so there are no more of them
\* than sessions, and each has a row in the unlocks of Readings.
LEMMA RewardsFit ==
  ASSUME NEW rows, NEW table, NEW S, NEW T, rows \in Seq(S), table \in Seq(T),
         \A e \in DOMAIN table : table[e].session \in DOMAIN rows,
         \A d, e \in DOMAIN table : d # e => table[d].session # table[e].session
  PROVE  Len(table) <= Len(rows)
<1> DEFINE f == [e \in 1..Len(table) |-> table[e].session]
<1>1. /\ Len(rows) \in Nat /\ DOMAIN rows = 1..Len(rows)
      /\ Len(table) \in Nat /\ DOMAIN table = 1..Len(table)
  BY LenProperties
<1>2. f \in [1..Len(table) -> 1..Len(rows)]
  BY <1>1
<1>3. f \in Injection(1..Len(table), 1..Len(rows))
  BY <1>1, <1>2 DEF Injection, IsInjective
<1>4. \A n \in Nat : IsFiniteSet(1..n) /\ Cardinality(1..n) = n
  <2> SUFFICES ASSUME NEW n \in Nat
               PROVE  IsFiniteSet(1..n) /\ Cardinality(1..n) = n
    OBVIOUS
  <2>1. /\ IsFiniteSet(1..n)
        /\ Cardinality(1..n) = IF 1 > n THEN 0 ELSE n - 1 + 1
    BY FS_Interval
  <2> QED
    BY <2>1
<1>5. Cardinality(1..Len(table)) <= Cardinality(1..Len(rows))
  BY <1>1, <1>3, <1>4, FS_Injection
<1> QED
  BY <1>1, <1>4, <1>5

\* After a step of Mediation the rewards still fit.
LEMMA RewardsFitNext ==
  ASSUME Ads!IInv', Ads!ExpiryInv', Len(sessions') <= MaxWatches
  PROVE  Len(entitlements') <= MaxWatches
<1>1. /\ sessions' \in Seq(Ads!SessionRow)
      /\ entitlements' \in Seq(Ads!EntitlementRow)
  BY DEF Ads!IInv, Ads!TypeOK
<1>2. \A e \in DOMAIN entitlements' :
        entitlements'[e].session \in DOMAIN sessions'
  BY DEF Ads!ExpiryInv, Ads!RewardsHaveSessions, Ads!EntitlementIds,
         Ads!SessionIds
<1>3. \A d, e \in DOMAIN entitlements' :
        d # e => entitlements'[d].session # entitlements'[e].session
  BY DEF Ads!IInv, Ads!TableInv, Ads!NoDoubleReward, Ads!EntitlementIds
<1>4. Len(entitlements') <= Len(sessions')
  <2>1. PICK rows \in Seq(Ads!SessionRow) : rows = sessions'
    BY <1>1
  <2>2. PICK table \in Seq(Ads!EntitlementRow) : table = entitlements'
    BY <1>1
  <2>3. Len(table) <= Len(rows)
    BY <1>2, <1>3, <2>1, <2>2, RewardsFit
  <2> QED
    BY <2>1, <2>2, <2>3
<1>5. Len(entitlements') \in Nat /\ Len(sessions') \in Nat /\ MaxWatches \in Nat
  BY <1>1, LenProperties, FlowBoundsAssumption
<1> QED
  BY <1>4, <1>5

\* The state of the page, by what it waits for.
LEMMA AccessFields ==
  ASSUME TypeOK
  PROVE  /\ access.pc = "reporting"
              => /\ access.session \in Nat /\ access.attempt \in Nat
                 /\ access.reason \in {"no_fill", "skipped",
                                       "verification_failed"}
                 /\ access.call \in ClientHandlers \cup {0}
         /\ access.pc = "claiming"
              => /\ access.session \in Nat /\ access.attempt \in Nat
                 /\ access.call \in ClientHandlers \cup {0}
         /\ access.pc \in {"playing", "polling"}
              => access.session \in Nat /\ access.attempt \in Nat
         /\ access.pc = "proceed" => access.unlock \in 0..MaxWatches
         /\ access.pc = "creating" => access.call \in ClientHandlers \cup {0}
BY DEF TypeOK, AccessType


\* WatchAd asks for a session under a key of its own.
LEMMA WatchAdStep ==
  ASSUME ClientInv, WatchAd
  PROVE  [Ads!Next]_(Ads!vars) /\ UNCHANGED api
<1>1. accessKey = 0 /\ minted.access < MaxWatches
  BY DEF WatchAd, ClientInv, ChainStands
<1>2. minted.access + 1 \in 1..MaxWatches
  BY <1>1, FlowBoundsAssumption DEF ClientInv, TypeOK
<1>3. ASSUME NEW h \in ClientHandlers,
             \/ Ads!CreateSession(h, User, Fortune, minted.access + 1)
             \/ Ads!RefuseSession(h, User)
      PROVE  [Ads!Next]_(Ads!vars)
  BY <1>2, <1>3 DEF Ads!Next, Ads!Start, AdHandlers
<1>5. ASSUME UNCHANGED ads
      PROVE  [Ads!Next]_(Ads!vars)
  BY <1>5 DEF ads, Ads!vars
<1> QED
  BY <1>1, <1>3, <1>5 DEF WatchAd

\* An ad, a claim and a report are about a session that is there.
LEMMA ChainStep ==
  ASSUME ClientInv, ClaimIsHonest, PlayAd \/ SendClaim \/ SendReport
  PROVE  [Ads!Next]_(Ads!vars) /\ UNCHANGED api
<1>1. access.session \in Ads!SessionIds
  BY DEF PlayAd, SendClaim, SendReport, ClientInv, ChainStands, Ads!SessionIds
<1>2. SendReport => access.reason \in {"no_fill", "skipped",
                                       "verification_failed"}
  BY AccessFields DEF SendReport, ClientInv
<1>3. ASSUME Ads!WatchAd(access.session)
      PROVE  [Ads!Next]_(Ads!vars)
  BY <1>1, <1>3 DEF Ads!Next, Ads!Environment
<1>4. ASSUME SendClaim, NEW h \in ClientHandlers,
             Ads!CompleteByClient(h, access.session)
      PROVE  [Ads!Next]_(Ads!vars)
  <2>1. Ads!HonestClaim(access.session)
    BY <1>4 DEF SendClaim, ClaimIsHonest, Ads!CompleteByClient, Ads!IsLive
  <2> QED
    BY <1>1, <1>4, <2>1 DEF Ads!Next, Ads!Start, AdHandlers
<1>5. ASSUME SendReport, NEW h \in ClientHandlers,
             Ads!ReportFailure(h, access.session, access.reason)
      PROVE  [Ads!Next]_(Ads!vars)
  BY <1>1, <1>2, <1>5 DEF Ads!Next, Ads!Start, AdHandlers
<1>6. ASSUME UNCHANGED ads
      PROVE  [Ads!Next]_(Ads!vars)
  BY <1>6 DEF ads, Ads!vars
<1> QED
  BY <1>3, <1>4, <1>5, <1>6 DEF PlayAd, SendClaim, SendReport

\* The chain's calls at work, and the unlock they may grant.
LEMMA AdStepServer ==
  ASSUME IInv, NEW h \in AdHandlers, AdStep(h)
  PROVE  /\ [Ads!Next]_(Ads!vars) /\ [Api!Next]_(Api!vars)
         /\ Len(sessions') <= MaxWatches /\ Len(entitlements') <= MaxWatches
         /\ Ads!IInv' /\ Ads!ExpiryInv'
<1>1. Ads!TypeOK /\ Ads!TaskInv /\ Ads!Continue(h)
  BY DEF IInv, Ads!IInv, AdStep
<1>2. [Ads!Next]_(Ads!vars)
  BY <1>1 DEF Ads!Next, AdHandlers
<1>3. Len(sessions') <= MaxWatches
  <2>1. Len(sessions) \in Nat /\ MaxWatches \in Nat
    BY <1>1, FlowBoundsAssumption, LenProperties DEF Ads!TypeOK
  <2> QED
    BY <1>1, <2>1, AdSessions DEF IInv, ClientInv, KeysOpenOnce
<1>4. Ads!IInv' /\ Ads!ExpiryInv'
  BY <1>2, AdsNext DEF IInv
<1>5. Len(entitlements') <= MaxWatches
  BY <1>3, <1>4, RewardsFitNext
<1>6. [Api!Next]_(Api!vars)
  <2>1. CASE UNCHANGED api
    BY <2>1 DEF api, Api!vars
  <2>2. CASE Len(entitlements') > Len(entitlements)
             /\ Api!GrantUnlock(Len(entitlements'))
    <3>1. Len(entitlements') \in Nat /\ Len(entitlements) \in Nat
          /\ MaxWatches \in Nat
      BY <1>1, <1>4, LenProperties, FlowBoundsAssumption
         DEF Ads!TypeOK, Ads!IInv
    <3>2. Len(entitlements') \in 1..MaxWatches
      BY <1>5, <2>2, <3>1
    <3> QED
      BY <2>2, <3>2 DEF Api!Next, Api!Environment
  <2> QED
    BY <2>1, <2>2 DEF AdStep, SameGrant
<1> QED
  BY <1>2, <1>3, <1>4, <1>5, <1>6

\* The submission is one of the bodies the page can send.
LEMMA SubmitStep ==
  ASSUME ClientInv, SubmitPending
  PROVE  UNCHANGED ads /\ [Api!Next]_(Api!vars)
<1> DEFINE key == IF submitKey # 0 THEN submitKey ELSE minted.submit + 1
           request == [user |-> User, fortune |-> Fortune,
                       unlock |-> access.unlock, key |-> key, exempt |-> FALSE]
<1>1. access.pc = "proceed" /\ access.unlock \in 0..MaxWatches
  BY AccessFields DEF SubmitPending, ClientInv
<1>2. submitKey # 0 \/ minted.submit < MaxKeys
  BY <1>1 DEF ClientInv, CycleStands
<1>3. /\ minted.submit \in Nat /\ minted.submit <= MaxKeys /\ MaxKeys \in Nat
      /\ submitKey \in 0..minted.submit
  BY FlowBoundsAssumption DEF ClientInv, TypeOK
<1>4. key \in 1..MaxKeys
  BY <1>2, <1>3
<1>5. request \in Bodies
  BY <1>1, <1>4 DEF Bodies
<1>6. ASSUME NEW h \in ReadingHandlers, Api!Submit(h, request)
      PROVE  Api!Next
  BY <1>5, <1>6 DEF Api!Next
<1>7. ASSUME UNCHANGED api
      PROVE  UNCHANGED Api!vars
  BY <1>7 DEF api, Api!vars
<1> QED
  BY <1>6, <1>7 DEF SubmitPending

\* A submission at work is a request of Readings.
LEMMA ReadStepApi ==
  ASSUME NEW h \in ReadingHandlers, ReadStep(h)
  PROVE  Api!Continue(h) /\ [Api!Next]_(Api!vars)
<1>1. Api!Continue(h)
  BY DEF ReadStep, Checked, Decided, Worked, Recorded, Api!Continue
<1> QED
  BY <1>1 DEF Api!Next

\* It writes the status of no unlock but its own, which is one that was granted.
LEMMA ReadStepUnlock ==
  ASSUME Api!IInv, RequestsNameRows, NEW h \in ReadingHandlers, Api!Continue(h)
  PROVE  \/ UNCHANGED unlocks
         \/ /\ readTasks[h].pc \in {"consume", "restore"}
            /\ readTasks[h].request.unlock \in 1..MaxWatches
            /\ readTasks[h].request.unlock \in DOMAIN entitlements
<1>1. ASSUME readTasks[h].pc \in {"consume", "restore"}
      PROVE  /\ readTasks[h].request.unlock \in 1..MaxWatches
             /\ readTasks[h].request.unlock \in DOMAIN entitlements
  <2>1. readTasks[h].request.unlock \in 1..MaxWatches
    BY <1>1 DEF Api!IInv, Api!TasksCarry, Api!Req
  <2>2. readTasks[h].request.unlock # 0
    BY <2>1, FlowBoundsAssumption
  <2> QED
    BY <1>1, <2>1, <2>2 DEF RequestsNameRows
<1>2. \/ UNCHANGED unlocks
      \/ readTasks[h].pc \in {"consume", "restore"}
  BY DEF Api!Continue, Api!CheckReplay, Api!DecideAccess, Api!ConsumeUnlock,
         Api!GenerateReading, Api!GenerationFails, Api!PersistReplyLost,
         Api!RestoreUnlock, Api!RestoreFails, Api!CountFree, Api!CountFails,
         Api!RecordResult, Api!RecordFails, Api!tables, Api!IsAt
<1> QED
  BY <1>1, <1>2

\* So Mediation sees one of its own writes.
LEMMA ReadStepAds ==
  ASSUME IInv, NEW h \in ReadingHandlers, ReadStep(h)
  PROVE  [Ads!Next]_(Ads!vars)
<1>1. CASE UNCHANGED ads
  BY <1>1 DEF ads, Ads!vars
<1>2. CASE ~UNCHANGED unlocks
  <2>1. readTasks[h].request.unlock \in Ads!EntitlementIds
    BY <1>2, ReadStepApi, ReadStepUnlock
       DEF IInv, ClientInv, Ads!EntitlementIds
  <2> QED
    BY <1>2, <2>1 DEF ReadStep, SameStatus, Ads!Next, Ads!Environment
<1> QED
  BY <1>1, <1>2 DEF ReadStep, SameStatus

\* A postback is a call of Mediation.
LEMMA PostbackStep ==
  ASSUME Postback
  PROVE  [Ads!Next]_(Ads!vars) /\ UNCHANGED api
BY DEF Postback, Ads!Next, Ads!Start, Ads!SessionIds, AdHandlers

\* What the page does alone touches neither module.
PageAlone ==
  \/ Seal \/ Dismiss \/ Leave \/ OptionsAnswered \/ Poll \/ Confirm
  \/ AdCallFails \/ SubmissionTimesOut

\* The page drives its server only as Mediation and Readings allow.
LEMMA ServerStep ==
  ASSUME IInv, [Next]_vars
  PROVE  [Ads!Next]_(Ads!vars) /\ [Api!Next]_(Api!vars)
<1>1. CASE UNCHANGED <<ads, api>>
  BY <1>1 DEF ads, api, Ads!vars, Api!vars
<1>2. CASE PageAlone
  BY <1>1, <1>2 DEF PageAlone, Seal, Dismiss, Leave, OptionsAnswered, Poll,
                    Confirm, AdCallFails, SubmissionTimesOut
<1>3. CASE UNCHANGED vars
  BY <1>1, <1>3 DEF vars
<1>4. ASSUME UNCHANGED api
      PROVE  UNCHANGED Api!vars
  BY <1>4 DEF api, Api!vars
<1>5. ASSUME UNCHANGED ads
      PROVE  UNCHANGED Ads!vars
  BY <1>5 DEF ads, Ads!vars
<1>6. CASE WatchAd \/ PlayAd \/ SendClaim \/ SendReport
  BY <1>4, <1>6, WatchAdStep, ChainStep DEF IInv
<1>7. CASE Postback
  BY <1>4, <1>7, PostbackStep
<1>8. CASE SubmitPending
  BY <1>5, <1>8, SubmitStep DEF IInv
<1>9. ASSUME NEW h \in AdHandlers, AdStep(h)
      PROVE  [Ads!Next]_(Ads!vars) /\ [Api!Next]_(Api!vars)
  BY <1>9, AdStepServer
<1>10. ASSUME NEW h \in ReadingHandlers, ReadStep(h)
       PROVE  [Ads!Next]_(Ads!vars) /\ [Api!Next]_(Api!vars)
  BY <1>10, ReadStepApi, ReadStepAds
<1> QED
  BY <1>2, <1>3, <1>6, <1>7, <1>8, <1>9, <1>10
     DEF Next, Reader, Client, PageAlone, AdHandlers

-----------------------------------------------------------------------------
(***************************************************************************)
(* The invariant of the page: moves of the access flow while the tables    *)
(* stay as they are.                                                       *)
(***************************************************************************)
AtRest == {"idle", "checking", "sheet", "limit", "exhausted"}
InChain == {"playing", "polling", "claiming", "reporting", "confirming"}

\* A move to a resting page, on with the session in hand, or to an unlock of it.
AccessMoves ==
  /\ access' \in AccessType /\ access'.pc # "creating"
  /\ accessKey' \in {0, accessKey}
  /\ access'.pc \in AtRest => accessKey' = 0
  /\ access'.pc \in InChain
       => access.pc \in InChain /\ access'.session = access.session
  /\ access'.pc = "proceed" /\ access'.unlock # 0
       => /\ access.pc \in InChain
          /\ access'.unlock \in DOMAIN entitlements
          /\ entitlements[access'.unlock].session = access.session
  /\ earned' \in BOOLEAN
  /\ earned' => /\ access'.pc # "playing"
                /\ access'.pc = "reporting"
                     => ~Ads!IsFallbackReason(access'.reason)
  /\ access'.pc # "idle"
       => /\ submission.pc # "inflight"
          /\ submitKey # 0 \/ minted.submit < MaxKeys

\* Such a move keeps the invariant.
LEMMA AccessMove ==
  ASSUME Ads!TypeOK, ClientInv, AccessMoves, lost' \in 0..MaxLost,
         UNCHANGED <<sessions, entitlements, api, monetized, submission,
                     submitKey, minted, shown>>,
         \A h \in AdHandlers : OpensSession(h)' => adTasks'[h] = adTasks[h]
  PROVE  ClientInv'
<1>1. TypeOK'
  BY DEF AccessMoves, ClientInv, TypeOK
<1>2. OneTable'
  BY DEF ClientInv, OneTable, api
<1>3. KeysOpenOnce'
  BY DEF ClientInv, KeysOpenOnce, OpensSession, AdHandlers
<1>4. ChainStands'
  BY DEF AccessMoves, ClientInv, ChainStands, AtRest, InChain
<1>5. RequestsNameRows'
  BY DEF ClientInv, RequestsNameRows, api
<1>6. CarriedIsNew'
  <2>1. ASSUME NEW e \in DOMAIN entitlements, Carried(e)'
        PROVE  Carried(e)
    <3>1. e # 0
      <4>1. entitlements \in Seq(Ads!EntitlementRow)
        BY DEF Ads!TypeOK
      <4>2. DOMAIN entitlements = 1..Len(entitlements)
        BY <4>1, LenProperties
      <4> QED
        BY <2>1, <4>2
    <3> QED
      BY <2>1, <3>1 DEF AccessMoves, Carried, InChain
  <2>2. \A e \in DOMAIN entitlements : Offered(e)' => Offered(e)
    BY DEF Offered, api
  <2> QED
    BY <2>1, <2>2 DEF ClientInv, CarriedIsNew
<1>7. EarnedEnds'
  BY DEF AccessMoves, EarnedEnds
<1>8. CycleStands'
  BY DEF AccessMoves, ClientInv, CycleStands, api
<1>9. EachReadingShownOnce'
  BY DEF ClientInv, EachReadingShownOnce
<1> QED
  BY <1>1, <1>2, <1>3, <1>4, <1>5, <1>6, <1>7, <1>8, <1>9 DEF ClientInv

\* The entitlement of a session, when there is one.
LEMMA UnlockOfType ==
  ASSUME NEW rows, NEW s
  PROVE  \/ UnlockOf(s, rows) = 0
         \/ /\ UnlockOf(s, rows) \in DOMAIN rows
            /\ rows[UnlockOf(s, rows)].session = s
BY DEF UnlockOf

\* The ids of the unlocks that were granted.
LEMMA UnlockIds ==
  ASSUME Ads!TypeOK, OneTable
  PROVE  /\ DOMAIN entitlements = 1..Len(entitlements)
         /\ Len(entitlements) \in Nat /\ MaxWatches \in Nat
         /\ DOMAIN entitlements \subseteq 1..MaxWatches
<1>1. entitlements \in Seq(Ads!EntitlementRow)
  BY DEF Ads!TypeOK
<1>2. /\ DOMAIN entitlements = 1..Len(entitlements)
      /\ Len(entitlements) \in Nat /\ MaxWatches \in Nat
  BY <1>1, LenProperties, FlowBoundsAssumption
<1> QED
  BY <1>2 DEF OneTable

\* The two kinds of move of a chain: to a page, with the key given up, and on
\* with the session in hand.
LEMMA ToPage ==
  ASSUME ClientInv, access'.pc \in {"idle", "sheet", "limit", "exhausted"},
         access' = Page(access'.pc), accessKey' = RotatedKey,
         access'.pc # "idle" => access.pc # "idle",
         earned' = earned
  PROVE  AccessMoves
<1>1. access' \in AccessType
  BY DEF Page, AccessType
<1>2. access'.pc # "idle" => /\ submission.pc # "inflight"
                             /\ submitKey # 0 \/ minted.submit < MaxKeys
  BY DEF ClientInv, CycleStands
<1>3. earned' \in BOOLEAN
  BY DEF ClientInv, TypeOK
<1> QED
  BY <1>1, <1>2, <1>3 DEF AccessMoves, AtRest, InChain, RotatedKey

\* A claim that comes back: with the unlock of the session, or to the poll.
LEMMA AfterClaimMoves ==
  ASSUME ClientInv, Ads!TypeOK, access.pc \in {"claiming", "polling"},
         NEW unlock,
         unlock = 0 \/ /\ unlock \in DOMAIN entitlements
                       /\ entitlements[unlock].session = access.session,
         access' = AfterClaim(unlock), accessKey' = accessKey, earned' = earned
  PROVE  AccessMoves
<1>1. access.session \in Nat /\ access.attempt \in Nat
  BY AccessFields DEF ClientInv
<1>2. /\ submission.pc # "inflight"
      /\ submitKey # 0 \/ minted.submit < MaxKeys
      /\ earned \in BOOLEAN
  BY DEF ClientInv, CycleStands, TypeOK
<1>3. CASE unlock = 0
  <2>1. access' = [pc |-> "polling", session |-> access.session,
                   attempt |-> access.attempt]
    BY <1>3 DEF AfterClaim, Playing
  <2>2. access' \in AccessType
    BY <1>1, <2>1 DEF AccessType
  <2> QED
    BY <1>2, <2>1, <2>2 DEF AccessMoves, AtRest, InChain
<1>4. CASE unlock # 0
  <2>1. access' = [pc |-> "proceed", unlock |-> unlock]
    BY <1>4 DEF AfterClaim, Proceed
  <2>2. access' \in AccessType
    BY <1>4, <2>1, UnlockIds DEF AccessType, ClientInv
  <2> QED
    BY <1>2, <1>4, <2>1, <2>2 DEF AccessMoves, AtRest, InChain
<1> QED
  BY <1>3, <1>4

\* A report that is begun.
LEMMA ReportMoves ==
  ASSUME ClientInv, access.pc \in {"playing", "polling"},
         NEW reason \in {"no_fill", "skipped", "verification_failed"},
         access' = Reporting(reason), accessKey' = accessKey,
         earned' = earned, earned => ~Ads!IsFallbackReason(reason)
  PROVE  AccessMoves
<1>1. access.session \in Nat /\ access.attempt \in Nat
  BY AccessFields DEF ClientInv
<1>2. /\ submission.pc # "inflight"
      /\ submitKey # 0 \/ minted.submit < MaxKeys
      /\ earned \in BOOLEAN
  BY DEF ClientInv, CycleStands, TypeOK
<1>3. access' \in AccessType
  BY <1>1 DEF Reporting, AccessType
<1> QED
  BY <1>2, <1>3 DEF AccessMoves, AtRest, InChain, Reporting

\* A call of the chain that is sent, or sent and still in the air.
LEMMA SentMoves ==
  ASSUME ClientInv, access.pc \in {"claiming", "reporting"},
         NEW h \in ClientHandlers, access' = [access EXCEPT !.call = h], accessKey' = accessKey,
         earned' = earned
  PROVE  AccessMoves
<1>1. /\ submission.pc # "inflight"
      /\ submitKey # 0 \/ minted.submit < MaxKeys
      /\ earned \in BOOLEAN
  BY DEF ClientInv, CycleStands, TypeOK
<1>2. /\ access' \in AccessType /\ access'.pc = access.pc
      /\ access'.session = access.session
      /\ access.pc = "reporting" => access'.reason = access.reason
  BY DEF ClientInv, TypeOK, AccessType
<1> QED
  BY <1>1, <1>2 DEF AccessMoves, AtRest, InChain, ClientInv, EarnedEnds

\* A call that gets no answer.
LEMMA LostType ==
  ASSUME ClientInv, Lose \/ UNCHANGED lost
  PROVE  lost' \in 0..MaxLost
BY FlowBoundsAssumption DEF ClientInv, TypeOK, Lose

\* A request that starts with a claim, a report or a reward opens no session.
LEMMA NotOpening ==
  ASSUME Ads!TypeOK, NEW h \in AdHandlers, NEW task,
         task.pc \notin {"lookup", "insert"}, Ads!Become(h, task)
  PROVE  \A g \in AdHandlers : OpensSession(g)' => adTasks'[g] = adTasks[g]
<1>1. adTasks \in [AdHandlers -> Ads!Task]
  BY DEF Ads!TypeOK, AdHandlers
<1> QED
  BY <1>1 DEF Ads!Become, OpensSession

\* The offering is sealed, and what the page may do is answered.
LEMMA BeginInv ==
  ASSUME Ads!TypeOK, ClientInv, Seal \/ OptionsAnswered \/ Dismiss
  PROVE  ClientInv'
<1>1. /\ lost' \in 0..MaxLost /\ earned' = earned /\ UNCHANGED <<ads, api>>
      /\ UNCHANGED <<monetized, submission, submitKey, minted, shown>>
  BY LostType DEF Seal, OptionsAnswered, Dismiss, Reset
<1>2. ASSUME AccessMoves
      PROVE  ClientInv'
  BY <1>1, <1>2, AccessMove DEF ads
<1>3. /\ earned \in BOOLEAN /\ MaxWatches \in Nat
      /\ accessKey = 0
  BY FlowBoundsAssumption
     DEF ClientInv, TypeOK, ChainStands, Seal, OptionsAnswered, Dismiss
<1>4. CASE access' \in {Page("checking"), Page("sheet"), Page("limit"),
                        Proceed(0)}
           /\ UNCHANGED accessKey /\ ~Dismiss
  <2>1. access' \in AccessType
    BY <1>3, <1>4 DEF Page, Proceed, AccessType
  <2>2. /\ access'.pc \in {"checking", "sheet", "limit", "proceed"}
        /\ access'.pc = "proceed" => access'.unlock = 0
    BY <1>4 DEF Page, Proceed
  <2>3. submission.pc # "inflight" /\ (submitKey # 0 \/ minted.submit < MaxKeys)
    BY <1>4 DEF Seal, MaySubmit, OptionsAnswered, Dismiss, ClientInv,
                CycleStands
  <2> QED
    BY <1>1, <1>2, <1>3, <1>4, <2>1, <2>2, <2>3 DEF AccessMoves, AtRest, InChain
<1>5. CASE Reset
  <2>1. access' = Page("idle") /\ access'.pc = "idle"
    BY <1>5 DEF Reset, Page
  <2> QED
    BY <1>1, <1>2, <1>5, <2>1, ToPage DEF Reset
<1>6. CASE Seal
  BY <1>4, <1>6 DEF Seal, Dismiss, Page
<1>7. CASE OptionsAnswered
  BY <1>4, <1>5, <1>7 DEF OptionsAnswered, Dismiss
<1> QED
  BY <1>5, <1>6, <1>7 DEF Dismiss

\* The ad ends: it is claimed or reported, and only then earned.
LEMMA PlayAdInv ==
  ASSUME Ads!TypeOK, ClientInv, PlayAd
  PROVE  ClientInv'
<1>1. /\ UNCHANGED <<sessions, entitlements, adTasks, api, monetized, accessKey,
                     submission, submitKey, minted, shown, lost>>
      /\ access.pc = "playing"
  BY DEF PlayAd, Ads!WatchAd, ads
<1>2. ~earned /\ earned \in BOOLEAN
  BY <1>1 DEF ClientInv, EarnedEnds, TypeOK
<1>3. AccessMoves
  <2>1. CASE access' = Claiming
    <3>1. access.session \in Nat /\ access.attempt \in Nat
      BY <1>1, AccessFields DEF ClientInv
    <3>2. access' \in AccessType
      BY <2>1, <3>1 DEF Claiming, AccessType
    <3>3. /\ submission.pc # "inflight"
          /\ submitKey # 0 \/ minted.submit < MaxKeys
      BY <1>1 DEF ClientInv, CycleStands
    <3> QED
      BY <1>1, <1>2, <2>1, <3>2, <3>3
         DEF AccessMoves, AtRest, InChain, Claiming, PlayAd, AfterAd
  <2>2. CASE (\E outcome \in {"skipped", "no_fill"} :
                access' = Reporting(outcome)) /\ earned' = earned
    BY <1>1, <1>2, <2>2, ReportMoves
  <2> QED
    BY <1>2, <2>1, <2>2 DEF PlayAd, AfterAd
<1>4. lost' \in 0..MaxLost
  BY <1>1 DEF ClientInv, TypeOK
<1> QED
  BY <1>1, <1>3, <1>4, AccessMove

\* The claim is sent, or answered as the session stands.
LEMMA SendClaimInv ==
  ASSUME Ads!TypeOK, ClientInv, SendClaim
  PROVE  ClientInv'
<1>1. /\ UNCHANGED <<sessions, entitlements, api, monetized, accessKey,
                     submission, submitKey, minted, shown, lost, earned>>
      /\ access.pc = "claiming"
  BY DEF SendClaim, Ads!CompleteByClient, ads
<1>2. lost' \in 0..MaxLost
  BY <1>1 DEF ClientInv, TypeOK
<1>3. ASSUME NEW h \in ClientHandlers,
             Ads!CompleteByClient(h, access.session),
             access' = [access EXCEPT !.call = h]
      PROVE  ClientInv'
  <2>1. AccessMoves
    BY <1>1, <1>3, SentMoves
  <2>2. PICK a : Ads!Become(h,
                   Ads!GrantTask(access.session,
                                 sessions[access.session].current, a,
                                 Ads!SessionReward(access.session)))
    BY <1>3 DEF Ads!CompleteByClient
  <2>3. \A g \in AdHandlers : OpensSession(g)' => adTasks'[g] = adTasks[g]
    BY <2>2, NotOpening DEF Ads!GrantTask, AdHandlers
  <2> QED
    BY <1>1, <1>2, <2>1, <2>3, AccessMove
<1>4. CASE access' = AfterClaim(UnlockOf(access.session, entitlements))
           /\ UNCHANGED ads
  <2>1. AccessMoves
    BY <1>1, <1>4, UnlockOfType, AfterClaimMoves
  <2> QED
    BY <1>1, <1>2, <1>4, <2>1, AccessMove DEF ads
<1> QED
  BY <1>3, <1>4 DEF SendClaim

\* A poll ends in the unlock or in a report.
LEMMA PollInv ==
  ASSUME Ads!TypeOK, ClientInv, Poll
  PROVE  ClientInv'
<1>1. /\ UNCHANGED <<ads, api, monetized, accessKey, submission, submitKey,
                     minted, shown, earned>>
      /\ access.pc = "polling" /\ lost' \in 0..MaxLost
  BY LostType DEF Poll
<1>2. CASE access' = Reporting(Unverified)
  BY <1>1, <1>2, ReportMoves, AccessMove
     DEF Unverified, Ads!IsFallbackReason, ads
<1>3. CASE access' = Proceed(UnlockOf(access.session, entitlements))
           /\ UnlockOf(access.session, entitlements) # 0
  <2>1. access' = AfterClaim(UnlockOf(access.session, entitlements))
    BY <1>3 DEF AfterClaim
  <2> QED
    BY <1>1, <2>1, UnlockOfType, AfterClaimMoves, AccessMove DEF ads
<1> QED
  BY <1>2, <1>3 DEF Poll

\* A chain that ended rewarded proceeds with its unlock or empty-handed.
LEMMA ConfirmInv ==
  ASSUME Ads!TypeOK, ClientInv, Confirm
  PROVE  ClientInv'
<1>1. /\ UNCHANGED <<ads, api, monetized, accessKey, submission, submitKey,
                     minted, shown, earned>>
      /\ access.pc = "confirming" /\ lost' \in 0..MaxLost
  BY LostType DEF Confirm
<1>2. PICK unlock : /\ access' = [pc |-> "proceed", unlock |-> unlock]
                    /\ \/ unlock = 0
                       \/ unlock = UnlockOf(access.session, entitlements)
  BY DEF Confirm, Proceed
<1>3. unlock = 0 \/ /\ unlock \in DOMAIN entitlements
                    /\ entitlements[unlock].session = access.session
  BY <1>2, UnlockOfType
<1>4. access' \in AccessType
  BY <1>2, <1>3, UnlockIds DEF AccessType, ClientInv
<1>5. /\ submission.pc # "inflight" /\ earned \in BOOLEAN
      /\ submitKey # 0 \/ minted.submit < MaxKeys
  BY <1>1 DEF ClientInv, CycleStands, TypeOK
<1>6. AccessMoves
  BY <1>1, <1>2, <1>3, <1>4, <1>5 DEF AccessMoves, AtRest, InChain
<1> QED
  BY <1>1, <1>6, AccessMove DEF ads

\* A report that need not or cannot be answered gives the chain up.
LEMMA ReportFailedMoves ==
  ASSUME ClientInv, access.pc = "reporting", ReportFailed, earned' = earned
  PROVE  AccessMoves
<1>1. /\ access' = Page(access'.pc)
      /\ access'.pc \in {"idle", "sheet", "exhausted"}
  BY AccessFields DEF ReportFailed, Page, ClientInv
<1> QED
  BY <1>1, ToPage DEF ReportFailed

\* The report is sent, or the session has gone on without it.
LEMMA SendReportInv ==
  ASSUME Ads!TypeOK, ClientInv, SendReport
  PROVE  ClientInv'
<1>1. /\ UNCHANGED <<sessions, entitlements, api, monetized, submission,
                     submitKey, minted, shown, lost, earned>>
      /\ access.pc = "reporting"
  BY DEF SendReport, Ads!ReportFailure, ads
<1>2. lost' \in 0..MaxLost
  BY <1>1 DEF ClientInv, TypeOK
<1>3. ASSUME NEW h \in ClientHandlers,
             Ads!ReportFailure(h, access.session, access.reason),
             access' = [access EXCEPT !.call = h], UNCHANGED accessKey
      PROVE  ClientInv'
  <2>1. AccessMoves
    BY <1>1, <1>3, SentMoves
  <2>2. \A g \in AdHandlers : OpensSession(g)' => adTasks'[g] = adTasks[g]
    BY <1>3, NotOpening DEF Ads!ReportFailure, AdHandlers
  <2> QED
    BY <1>1, <1>2, <2>1, <2>2, AccessMove
<1>4. CASE ReportFailed /\ UNCHANGED ads
  BY <1>1, <1>2, <1>4, ReportFailedMoves, AccessMove DEF ads
<1> QED
  BY <1>3, <1>4 DEF SendReport

\* A call of the chain fails.
LEMMA AdCallFailsInv ==
  ASSUME Ads!TypeOK, ClientInv, AdCallFails
  PROVE  ClientInv'
<1>1. /\ UNCHANGED <<ads, api, monetized, submission, submitKey, minted, shown,
                     earned>>
      /\ lost' \in 0..MaxLost
  BY LostType DEF AdCallFails
<1>2. ASSUME AccessMoves
      PROVE  ClientInv'
  BY <1>1, <1>2, AccessMove DEF ads
<1>3. CASE Reset
  <2>1. access' = Page("idle") /\ access'.pc = "idle"
    BY <1>3 DEF Reset, Page
  <2> QED
    BY <1>1, <1>2, <1>3, <2>1, ToPage DEF Reset
<1>4. CASE /\ access.pc = "claiming" /\ access' = AfterClaim(0)
           /\ UNCHANGED accessKey
  BY <1>1, <1>2, <1>4, AfterClaimMoves
<1>5. CASE access.pc = "reporting" /\ ReportFailed
  BY <1>1, <1>2, <1>5, ReportFailedMoves
<1> QED
  BY <1>3, <1>4, <1>5 DEF AdCallFails

\* A new chain has a key that nothing has yet, so it carries no old unlock.
LEMMA WatchAdInv ==
  ASSUME Ads!TypeOK, Ads!ExpiryInv, ClientInv, WatchAd
  PROVE  ClientInv'
<1> DEFINE key == minted.access + 1
<1>1. /\ accessKey = 0 /\ minted.access < MaxWatches /\ access.pc # "idle"
      /\ minted.access \in Nat /\ minted.submit \in 0..MaxKeys
      /\ MaxWatches \in Nat /\ minted \in [access: 0..MaxWatches,
                                           submit: 0..MaxKeys]
  BY FlowBoundsAssumption DEF WatchAd, ClientInv, ChainStands, TypeOK
<1>2. /\ accessKey' = key /\ minted' = [minted EXCEPT !.access = key]
      /\ earned' = FALSE
      /\ UNCHANGED <<api, monetized, submission, submitKey, shown, sessions,
                     entitlements>>
      /\ lost' \in 0..MaxLost
  BY <1>1, LostType DEF WatchAd, Ads!CreateSession, Ads!RefuseSession, Ads!vars,
                        ads
<1>3. minted'.access = key /\ minted'.submit = minted.submit
      /\ minted' \in [access: 0..MaxWatches, submit: 0..MaxKeys]
  BY <1>1, <1>2
<1>4. PICK call \in ClientHandlers \cup {0} :
        /\ access' = [pc |-> "creating", call |-> call]
        /\ \/ /\ call \in ClientHandlers
              /\ Ads!CreateSession(call, User, Fortune, key)
           \/ call = 0 /\ UNCHANGED adTasks
  BY <1>1 DEF WatchAd, Ads!RefuseSession, Ads!vars, ads
<1>5. adTasks \in [AdHandlers -> Ads!Task]
  BY DEF Ads!TypeOK, AdHandlers
<1>6. \A g \in AdHandlers :
        \/ adTasks'[g] = adTasks[g]
        \/ g = call /\ adTasks'[g].key = key
  BY <1>4, <1>5 DEF Ads!CreateSession, Ads!Become
<1>7. call # 0 => adTasks'[call].pc = "lookup" /\ adTasks'[call].key = key
  BY <1>4, <1>5 DEF Ads!CreateSession, Ads!Become, AdHandlers
<1>8. TypeOK'
  <2>1. access' \in AccessType
    BY <1>4 DEF AccessType
  <2>2. accessKey' \in 0..minted'.access
    BY <1>1, <1>2, <1>3
  <2>3. submitKey' \in 0..minted'.submit
    BY <1>2, <1>3 DEF ClientInv, TypeOK
  <2> QED
    BY <1>2, <1>3, <2>1, <2>2, <2>3 DEF ClientInv, TypeOK
<1>9. OneTable' /\ RequestsNameRows'
  BY <1>2 DEF ClientInv, OneTable, RequestsNameRows, api
<1>10. KeysOpenOnce'
  <2>1. \A s \in DOMAIN sessions : sessions[s].key <= key
    <3>1. ASSUME NEW s \in DOMAIN sessions
          PROVE  sessions[s].key \in Nat /\ sessions[s].key <= minted.access
      <4>1. sessions[s] \in Ads!SessionRow
        BY DEF Ads!TypeOK
      <4>2. sessions[s].key \in 1..MaxWatches
        BY <4>1 DEF Ads!SessionRow
      <4> QED
        BY <1>1, <4>2 DEF ClientInv, KeysOpenOnce
    <3> QED
      BY <1>1, <3>1
  <2>2. ASSUME NEW g \in AdHandlers, adTasks'[g].pc \in {"lookup", "insert"}
        PROVE  adTasks'[g].key <= key
    <3>1. CASE adTasks'[g] = adTasks[g]
      <4>1. adTasks[g].key \in 1..MaxWatches
        BY <1>5, <2>2, <3>1 DEF Ads!Task, Ads!Idle
      <4>2. adTasks[g].key <= minted.access
        BY <2>2, <3>1 DEF ClientInv, KeysOpenOnce, AdHandlers
      <4> QED
        BY <1>1, <3>1, <4>1, <4>2
    <3> QED
      BY <1>1, <1>6, <3>1
  <2> QED
    BY <1>2, <1>3, <2>1, <2>2 DEF ClientInv, KeysOpenOnce, AdHandlers
<1>11. ChainStands'
  BY <1>2, <1>4, <1>7 DEF ChainStands
<1>12. CarriedIsNew'
  <2>1. ASSUME NEW e \in DOMAIN entitlements
        PROVE  sessions[entitlements[e].session].key # key
    <3>1. entitlements[e].session \in DOMAIN sessions
      BY DEF Ads!ExpiryInv, Ads!RewardsHaveSessions, Ads!EntitlementIds,
             Ads!SessionIds
    <3>2. sessions[entitlements[e].session].key <= minted.access
      BY <3>1 DEF ClientInv, KeysOpenOnce
    <3> QED
      BY <1>1, <3>2
  <2> QED
    BY <1>2, <1>4, <2>1 DEF CarriedIsNew, Carried
<1>13. EarnedEnds'
  BY <1>2 DEF EarnedEnds
<1>14. CycleStands' /\ EachReadingShownOnce'
  BY <1>1, <1>2, <1>3, <1>4
     DEF ClientInv, CycleStands, EachReadingShownOnce, api
<1> QED
  BY <1>8, <1>9, <1>10, <1>11, <1>12, <1>13, <1>14 DEF ClientInv

-----------------------------------------------------------------------------
(***************************************************************************)
(* The invariant of the page: the chain's calls at work.                   *)
(***************************************************************************)
\* What the chain carries, when the tables have moved and it has not.
StillCarried(e) ==
  \/ /\ access.pc = "creating"
     /\ sessions'[entitlements'[e].session].key = accessKey
  \/ access.pc \in InChain /\ entitlements'[e].session = access.session
  \/ access.pc = "proceed" /\ access.unlock = e

\* The tables after the work of a call: a new reward is a new row of both
\* modules, which no request names yet.
LEMMA AdTables ==
  ASSUME IInv, NEW h \in AdHandlers, AdStep(h)
  PROVE  /\ DOMAIN entitlements \subseteq DOMAIN entitlements'
         /\ \A e \in DOMAIN entitlements : entitlements'[e] = entitlements[e]
         /\ \A e \in DOMAIN entitlements' \ DOMAIN entitlements :
              e # 0 /\ entitlements'[e].status = "available"
         /\ OneTable'
         /\ UNCHANGED <<created, readTasks>>
<1>1. /\ Ads!TypeOK /\ Ads!TaskInv /\ Ads!Continue(h) /\ ClientInv
      /\ Api!TypeOK
  BY DEF IInv, Ads!IInv, Api!IInv, AdStep
<1>2. Len(entitlements') <= MaxWatches
  BY AdStepServer
<1>3. /\ entitlements \in Seq(Ads!EntitlementRow)
      /\ unlocks \in [1..MaxWatches -> Api!UnlockRow]
  BY <1>1 DEF Ads!TypeOK, Api!TypeOK
<1>4. /\ DOMAIN entitlements = 1..Len(entitlements)
      /\ Len(entitlements) \in Nat /\ MaxWatches \in Nat
      /\ DOMAIN entitlements \subseteq 1..MaxWatches
  BY <1>1, UnlockIds DEF ClientInv
<1>5. CASE UNCHANGED entitlements
  <2>1. UNCHANGED api
    BY <1>4, <1>5 DEF AdStep, SameGrant
  <2> QED
    BY <1>1, <1>5, <2>1 DEF ClientInv, OneTable, api
<1>6. ASSUME NEW row, row.status = "available",
             entitlements' = Append(entitlements, row)
      PROVE  /\ DOMAIN entitlements \subseteq DOMAIN entitlements'
             /\ \A e \in DOMAIN entitlements : entitlements'[e] = entitlements[e]
             /\ \A e \in DOMAIN entitlements' \ DOMAIN entitlements :
                  e # 0 /\ entitlements'[e].status = "available"
             /\ OneTable'
             /\ UNCHANGED <<created, readTasks>>
  <2> DEFINE n == Len(entitlements) + 1
  <2>1. /\ Len(entitlements') = n /\ DOMAIN entitlements' = 1..n
        /\ entitlements'[n] = row
        /\ \A e \in DOMAIN entitlements : entitlements'[e] = entitlements[e]
    <3> DEFINE T == Ads!EntitlementRow \cup {row}
    <3>1. entitlements \in Seq(T) /\ row \in T
      BY <1>3
    <3> HIDE DEF T
    <3> QED
      BY <1>4, <1>6, <3>1, AppendProperties, LenProperties
  <2>2. n \in 1..MaxWatches
    BY <1>2, <1>4, <2>1
  <2>3. Api!GrantUnlock(n)
    BY <1>4, <2>1 DEF AdStep, SameGrant
  <2>4. /\ UNCHANGED <<created, readTasks>>
        /\ unlocks' = [unlocks EXCEPT ![n].status = "available"]
    BY <2>3 DEF Api!GrantUnlock
  <2>5. /\ unlocks'[n].status = "available"
        /\ \A e \in 1..MaxWatches : e # n => unlocks'[e] = unlocks[e]
    BY <1>3, <2>2, <2>4 DEF Api!UnlockRow
  <2>6. OneTable'
    <3>1. ASSUME NEW e \in 1..MaxWatches
          PROVE  unlocks'[e].status = IF e \in DOMAIN entitlements'
                                      THEN entitlements'[e].status ELSE "none"
      <4>1. CASE e = n
        BY <1>6, <2>1, <2>5, <4>1, <2>2
      <4>2. CASE e # n
        <5>1. e \in DOMAIN entitlements' <=> e \in DOMAIN entitlements
          BY <1>4, <2>1, <4>2
        <5> QED
          BY <1>1, <2>1, <2>5, <4>2, <5>1 DEF ClientInv, OneTable
      <4> QED
        BY <4>1, <4>2
    <3> QED
      BY <1>2, <3>1 DEF OneTable
  <2>7. DOMAIN entitlements' \ DOMAIN entitlements = {n} /\ n # 0
    BY <1>4, <2>1
  <2> QED
    BY <1>4, <1>6, <2>1, <2>4, <2>6, <2>7
<1> QED
  BY <1>1, <1>5, <1>6, AdRewards

\* Keys still open one session, and requests still name rows.
LEMMA AdKeys ==
  ASSUME IInv, NEW h \in AdHandlers, AdStep(h)
  PROVE  KeysOpenOnce' /\ RequestsNameRows'
<1>1. /\ Ads!TypeOK /\ Ads!TaskInv /\ Ads!Continue(h) /\ ClientInv
      /\ UNCHANGED minted
  BY DEF IInv, Ads!IInv, AdStep
<1>2. RequestsNameRows'
  BY <1>1, AdTables DEF ClientInv, RequestsNameRows
<1>3. \A g \in AdHandlers :
        OpensSession(g)'
          => OpensSession(g) /\ adTasks'[g].key = adTasks[g].key
  <2>1. ASSUME NEW g \in AdHandlers, g # h, OpensSession(g)'
        PROVE  OpensSession(g) /\ adTasks'[g].key = adTasks[g].key
    BY <1>1, <2>1, AdTasksMove DEF OpensSession
  <2> QED
    BY <1>1, <2>1, AdTasksMove
<1>4. KeysOpenOnce'
  <2>1. /\ Len(sessions') <= MaxWatches /\ Ads!IInv'
        /\ KeysStay
    BY <1>1, AdStepServer, AdSessions
  <2>2. /\ DOMAIN sessions = 1..Len(sessions) /\ Len(sessions) \in Nat
        /\ DOMAIN sessions' = 1..Len(sessions') /\ Len(sessions') \in Nat
    BY <1>1, <2>1, LenProperties DEF Ads!IInv, Ads!TypeOK
  <2>3. CASE Len(sessions') = Len(sessions)
    BY <1>1, <1>3, <2>1, <2>2, <2>3
       DEF ClientInv, KeysOpenOnce, KeysStay, OpensSession, AdHandlers
  <2>4. CASE /\ Len(sessions') = Len(sessions) + 1 /\ OpensSession(h)
             /\ sessions'[Len(sessions')].key = adTasks[h].key
             /\ \A s \in DOMAIN sessions : sessions[s].key # adTasks[h].key
    <3>1. adTasks[h].key <= minted.access
      BY <1>1, <2>4 DEF ClientInv, KeysOpenOnce, OpensSession, AdHandlers
    <3>2. \A s \in DOMAIN sessions' : s \in DOMAIN sessions \/ s = Len(sessions')
      BY <2>2, <2>4
    <3>3. /\ \A s \in DOMAIN sessions' : sessions'[s].key <= minted.access
          /\ \A s, t \in DOMAIN sessions' :
               sessions'[s].key = sessions'[t].key => s = t
      BY <1>1, <2>1, <2>4, <3>1, <3>2 DEF ClientInv, KeysOpenOnce, KeysStay
    <3> QED
      BY <1>1, <1>3, <2>1, <3>3
         DEF ClientInv, KeysOpenOnce, OpensSession, AdHandlers
  <2> QED
    BY <1>1, <2>3, <2>4, AdSessions
<1> QED
  BY <1>2, <1>4

\* What is still carried was carried, or is the new row: no request has it.
LEMMA StillNew ==
  ASSUME IInv, NEW h \in AdHandlers, AdStep(h),
         NEW e \in DOMAIN entitlements', StillCarried(e)
  PROVE  ~Offered(e)'
<1>1. /\ Ads!TypeOK /\ Ads!TaskInv /\ Ads!Continue(h) /\ ClientInv
      /\ Ads!ExpiryInv /\ UNCHANGED readTasks
  BY AdTables DEF IInv, Ads!IInv, AdStep
<1>2. CASE e \in DOMAIN entitlements
  <2>1. entitlements'[e] = entitlements[e]
    BY <1>2, AdTables
  <2>2. entitlements[e].session \in DOMAIN sessions
    BY <1>1, <1>2 DEF Ads!ExpiryInv, Ads!RewardsHaveSessions,
                      Ads!EntitlementIds, Ads!SessionIds
  <2>3. sessions'[entitlements[e].session].key
          = sessions[entitlements[e].session].key
    BY <1>1, <2>2, AdSessions DEF KeysStay
  <2>4. Carried(e)
    BY <2>1, <2>3 DEF StillCarried, Carried, InChain
  <2> QED
    BY <1>1, <1>2, <2>1, <2>4 DEF ClientInv, CarriedIsNew, Offered
<1>3. CASE e \notin DOMAIN entitlements
  <2>1. e # 0 /\ entitlements'[e].status = "available"
    BY <1>3, AdTables
  <2>2. \A g \in ReadingHandlers :
          readTasks[g].pc # "idle" => readTasks[g].request.unlock # e
    BY <1>1, <1>3, <2>1 DEF ClientInv, RequestsNameRows
  <2> QED
    BY <1>1, <2>1, <2>2 DEF Offered
<1> QED
  BY <1>2, <1>3

\* A move of the chain while a call does its work.
LEMMA AdMove ==
  ASSUME IInv, NEW h \in AdHandlers, AdStep(h),
         access' \in AccessType, accessKey' \in {0, accessKey},
         ChainStands', EarnedEnds',
         access'.pc # "idle" => access.pc # "idle",
         \A e \in DOMAIN entitlements' : Carried(e)' => StillCarried(e)
  PROVE  ClientInv'
<1>1. /\ UNCHANGED <<monetized, submission, submitKey, minted, earned, shown,
                     lost>>
      /\ ClientInv
  BY DEF AdStep, IInv
<1>2. UNCHANGED <<created, readTasks>> /\ OneTable'
  BY AdTables
<1>3. TypeOK'
  <2>1. accessKey' \in 0..minted.access
    BY <1>1 DEF ClientInv, TypeOK
  <2> QED
    BY <1>1, <2>1 DEF ClientInv, TypeOK
<1>4. CarriedIsNew'
  BY StillNew DEF CarriedIsNew
<1>5. CycleStands' /\ EachReadingShownOnce'
  BY <1>1, <1>2 DEF ClientInv, CycleStands, EachReadingShownOnce
<1> QED
  BY <1>2, <1>3, <1>4, <1>5, AdKeys DEF ClientInv

\* What stands for the chain still stands after the work of any call.
LEMMA AdStays ==
  ASSUME IInv, NEW h \in AdHandlers, AdStep(h)
  PROVE  /\ access.pc \in InChain => access.session \in DOMAIN sessions'
         /\ access.pc = "proceed"
              => access.unlock \in {0} \cup DOMAIN entitlements'
         /\ Len(sessions') \in Nat /\ DOMAIN sessions' = 1..Len(sessions')
         /\ \A s \in DOMAIN sessions' : sessions'[s].count \in Nat
         /\ \A e \in DOMAIN entitlements' : e \in 1..MaxWatches
<1>1. /\ Ads!TypeOK /\ Ads!TaskInv /\ Ads!Continue(h) /\ ClientInv
  BY DEF IInv, Ads!IInv, AdStep
<1>2. /\ sessions' \in Seq(Ads!SessionRow)
      /\ entitlements' \in Seq(Ads!EntitlementRow)
      /\ Len(entitlements') <= MaxWatches
  BY AdStepServer DEF Ads!IInv, Ads!TypeOK
<1>3. PICK rows \in Seq(Ads!SessionRow) : rows = sessions'
  BY <1>2
<1>4. PICK table \in Seq(Ads!EntitlementRow) : table = entitlements'
  BY <1>2
<1>5. /\ Len(sessions') \in Nat /\ DOMAIN sessions' = 1..Len(sessions')
      /\ Len(entitlements') \in Nat
      /\ DOMAIN entitlements' = 1..Len(entitlements')
      /\ MaxWatches \in Nat
  BY <1>3, <1>4, LenProperties, FlowBoundsAssumption
<1>6. \A s \in DOMAIN sessions' : sessions'[s].count \in Nat
  <2>1. \A row \in Ads!SessionRow : row.count \in Nat
    BY DEF Ads!SessionRow
  <2> QED
    BY <1>3, <2>1
<1>7. \A e \in DOMAIN entitlements' : e \in 1..MaxWatches
  BY <1>2, <1>5
<1>8. access.pc \in InChain => access.session \in DOMAIN sessions'
  BY <1>1, AdSessions DEF ClientInv, ChainStands, InChain, KeysStay
<1>9. access.pc = "proceed" => access.unlock \in {0} \cup DOMAIN entitlements'
  BY <1>1, AdTables DEF ClientInv, ChainStands
<1> QED
  BY <1>5, <1>6, <1>7, <1>8, <1>9

\* The page waits on: for another call, for the rest of this one, or for none.
LEMMA AdWaitsInv ==
  ASSUME IInv, NEW h \in AdHandlers, AdStep(h), UNCHANGED <<access, accessKey>>,
         ~(/\ access.pc = "creating"
           /\ access.call = h /\ adTasks'[h].pc = "idle")
  PROVE  ClientInv'
<1>1. /\ Ads!TypeOK /\ Ads!Continue(h) /\ ClientInv /\ UNCHANGED earned
  BY DEF IInv, Ads!IInv, AdStep
<1>2. access.pc = "creating" /\ access.call # 0 => access.call \in AdHandlers
  BY <1>1, AccessFields DEF AdHandlers, ClientInv
<1>3. ASSUME access.pc = "creating", access.call # 0
      PROVE  OpensSession(access.call)' /\ adTasks'[access.call].key = accessKey
  <2>1. CASE h = access.call
    BY <1>1, <1>3, <2>1, AdTasksMove DEF ClientInv, ChainStands, OpensSession
  <2>2. CASE h # access.call
    <3>1. adTasks'[access.call] = adTasks[access.call]
      BY <1>1, <1>2, <1>3, <2>2, AdTasksMove
    <3> QED
      BY <1>1, <1>3, <3>1 DEF ClientInv, ChainStands, OpensSession
  <2> QED
    BY <2>1, <2>2
<1>4. ChainStands'
  BY <1>1, <1>3, AdStays DEF ClientInv, ChainStands, InChain, OpensSession
<1>5. EarnedEnds'
  BY <1>1 DEF ClientInv, EarnedEnds, Ads!IsFallbackReason
<1>6. \A e \in DOMAIN entitlements' : Carried(e)' => StillCarried(e)
  BY DEF Carried, StillCarried, InChain
<1>7. access' \in AccessType /\ accessKey' \in {0, accessKey}
  BY <1>1 DEF ClientInv, TypeOK
<1> QED
  BY <1>4, <1>5, <1>6, <1>7, AdMove

\* Where the loop goes with a session.
LEMMA LoopMoves ==
  ASSUME NEW s \in Nat, sessions'[s].count \in Nat, Loop(s, sessions')
  PROVE  /\ access' \in AccessType /\ accessKey' \in {0, accessKey}
         /\ access'.pc \in {"playing", "confirming", "exhausted"}
         /\ access'.pc \in {"playing", "confirming"} => access'.session = s
         /\ access'.pc = "exhausted" => accessKey' = 0
BY DEF Loop, Playing, Page, RotatedKey, AccessType

\* The loop goes on with the session that was opened, or with the one reported.
LEMMA AdLoopInv ==
  ASSUME IInv, NEW h \in AdHandlers, AdStep(h),
         NEW s \in DOMAIN sessions', Loop(s, sessions'), ~earned,
         \/ access.pc = "creating" /\ sessions'[s].key = accessKey
         \/ access.pc \in InChain /\ access.session = s
  PROVE  ClientInv'
<1>1. /\ access' \in AccessType /\ accessKey' \in {0, accessKey}
      /\ access'.pc \in {"playing", "confirming", "exhausted"}
      /\ access'.pc \in {"playing", "confirming"} => access'.session = s
      /\ access'.pc = "exhausted" => accessKey' = 0
  BY AdStays, LoopMoves
<1>2. UNCHANGED earned
  BY DEF AdStep
<1>3. ChainStands'
  BY <1>1 DEF ChainStands
<1>4. EarnedEnds'
  BY <1>2 DEF EarnedEnds
<1>5. \A e \in DOMAIN entitlements' : Carried(e)' => StillCarried(e)
  BY <1>1 DEF Carried, StillCarried
<1>6. access.pc # "idle"
  BY DEF InChain
<1> QED
  BY <1>1, <1>3, <1>4, <1>5, <1>6, AdMove

\* The chain is told how its call ended.
LEMMA AdAnsweredInv ==
  ASSUME IInv, NEW h \in AdHandlers, AdStep(h), AdAnswered,
         access.pc \in {"creating", "claiming", "reporting"},
         access.call = h, access.call # 0, adTasks'[h].pc = "idle"
  PROVE  ClientInv'
<1>1. /\ Ads!TypeOK /\ Ads!Continue(h) /\ ClientInv
      /\ UNCHANGED <<earned, minted, submission, submitKey>>
  BY DEF IInv, Ads!IInv, AdStep
<1>2. CASE access.pc = "creating"
  <2> DEFINE s == SessionUnder(accessKey, sessions')
  <2>1. \E t \in DOMAIN sessions' : sessions'[t].key = accessKey
    BY <1>1, <1>2, AdTasksMove DEF ClientInv, ChainStands, OpensSession
  <2>2. s \in DOMAIN sessions' /\ sessions'[s].key = accessKey
    BY <2>1 DEF SessionUnder
  <2>3. Loop(s, sessions')
    BY <1>2 DEF AdAnswered
  <2>4. ~earned
    BY <1>1, <1>2 DEF ClientInv, EarnedEnds
  <2> HIDE DEF s
  <2> QED
    BY <1>2, <2>2, <2>3, <2>4, AdLoopInv
<1>3. CASE access.pc = "claiming"
  <2> DEFINE unlock == UnlockOf(access.session, entitlements')
  <2>1. /\ access' = AfterClaim(unlock) /\ accessKey' = accessKey
        /\ access.session \in Nat /\ access.attempt \in Nat
        /\ earned \in BOOLEAN
    BY <1>1, <1>3, AccessFields DEF AdAnswered, ClientInv, TypeOK
  <2>2. \/ unlock = 0
        \/ /\ unlock \in DOMAIN entitlements'
           /\ entitlements'[unlock].session = access.session
    BY UnlockOfType
  <2> HIDE DEF unlock
  <2>3. CASE unlock = 0
    <3>1. access' = [pc |-> "polling", session |-> access.session,
                     attempt |-> access.attempt]
      BY <2>1, <2>3 DEF AfterClaim, Playing
    <3>2. access' \in AccessType
      BY <2>1, <3>1 DEF AccessType
    <3>3. ChainStands'
      BY <1>3, <3>1, AdStays DEF ChainStands, InChain
    <3>4. EarnedEnds'
      BY <3>1 DEF EarnedEnds
    <3>5. \A e \in DOMAIN entitlements' : Carried(e)' => StillCarried(e)
      BY <1>3, <3>1 DEF Carried, StillCarried, InChain
    <3> QED
      BY <1>3, <2>1, <3>2, <3>3, <3>4, <3>5, AdMove
  <2>4. CASE unlock # 0
    <3>1. access' = [pc |-> "proceed", unlock |-> unlock]
      BY <2>1, <2>4 DEF AfterClaim, Proceed
    <3>2. access' \in AccessType
      <4>1. unlock \in 0..MaxWatches
        BY <2>2, <2>4, AdStays
      <4> QED
        BY <3>1, <4>1 DEF AccessType
    <3>3. ChainStands'
      BY <2>2, <2>4, <3>1 DEF ChainStands
    <3>4. EarnedEnds'
      BY <3>1 DEF EarnedEnds
    <3>5. \A e \in DOMAIN entitlements' : Carried(e)' => StillCarried(e)
      BY <1>3, <2>2, <2>4, <3>1 DEF Carried, StillCarried, InChain
    <3> QED
      BY <1>3, <2>1, <3>2, <3>3, <3>4, <3>5, AdMove
  <2> QED
    BY <2>3, <2>4
<1>4. CASE access.pc = "reporting" /\ Ads!IsFallbackReason(access.reason)
  <2>1. Loop(access.session, sessions') /\ access.session \in DOMAIN sessions'
    BY <1>4, AdStays DEF AdAnswered, ReportAnswered, InChain
  <2>2. ~earned
    BY <1>1, <1>4 DEF ClientInv, EarnedEnds
  <2> QED
    BY <1>4, <2>1, <2>2, AdLoopInv DEF InChain
<1>5. CASE access.pc = "reporting" /\ ReportFailed
  <2>1. /\ access' = Page(access'.pc) /\ accessKey' = 0
        /\ access'.pc \in {"idle", "sheet", "exhausted"}
    BY <1>5 DEF ReportFailed, Page, RotatedKey
  <2>2. access' \in AccessType
    BY <2>1 DEF Page, AccessType
  <2>3. ChainStands' /\ EarnedEnds'
    BY <2>1 DEF ChainStands, EarnedEnds
  <2>4. \A e \in DOMAIN entitlements' : Carried(e)' => StillCarried(e)
    BY <2>1 DEF Carried
  <2> QED
    BY <1>5, <2>1, <2>2, <2>3, <2>4, AdMove
<1> QED
  BY <1>2, <1>3, <1>4, <1>5 DEF AdAnswered, ReportAnswered

\* A call of the chain does its work, whether or not anyone waits for it.
LEMMA AdStepInv ==
  ASSUME IInv, NEW h \in AdHandlers, AdStep(h)
  PROVE  ClientInv'
<1>1. h # 0
  BY HandlersAssumption DEF AdHandlers
<1> QED
  BY <1>1, AdWaitsInv, AdAnsweredInv DEF AdStep

-----------------------------------------------------------------------------
(***************************************************************************)
(* The invariant of the page: postbacks, submissions and their answers.    *)
(***************************************************************************)
\* While the chain stays where it is and no unlock is offered anew, its part
\* of the invariant stays.
LEMMA ChainStays ==
  ASSUME ClientInv,
         UNCHANGED <<sessions, access, accessKey, minted, earned>>,
         \A h \in ClientHandlers : adTasks'[h] = adTasks[h],
         \A h \in AdHandlers : OpensSession(h)' => adTasks'[h] = adTasks[h],
         DOMAIN entitlements' = DOMAIN entitlements,
         \A e \in DOMAIN entitlements :
           /\ entitlements'[e].session = entitlements[e].session
           /\ Offered(e)' => Offered(e)
  PROVE  KeysOpenOnce' /\ ChainStands' /\ CarriedIsNew' /\ EarnedEnds'
<1>1. KeysOpenOnce'
  BY DEF ClientInv, KeysOpenOnce, OpensSession, AdHandlers
<1>2. ChainStands'
  BY AccessFields DEF ClientInv, ChainStands
<1>3. CarriedIsNew'
  BY DEF ClientInv, CarriedIsNew, Carried
<1>4. EarnedEnds'
  BY DEF ClientInv, EarnedEnds, Ads!IsFallbackReason
<1> QED
  BY <1>1, <1>2, <1>3, <1>4

\* A postback starts a grant of its own.
LEMMA PostbackInv ==
  ASSUME Ads!TypeOK, ClientInv, Postback
  PROVE  ClientInv'
<1>1. /\ UNCHANGED <<sessions, entitlements, api, client>>
      /\ \E task : /\ task.pc \notin {"lookup", "insert"}
                   /\ Ads!Become(NetworkHandler, task)
  BY DEF Postback, Ads!VerifyRewardCallback, Ads!GrantTask
<1>2. \A h \in AdHandlers : OpensSession(h)' => adTasks'[h] = adTasks[h]
  BY <1>1, NotOpening DEF AdHandlers
<1>3. \A h \in ClientHandlers : adTasks'[h] = adTasks[h]
  BY <1>1, HandlersAssumption DEF Ads!Become, Ads!TypeOK
<1>4. \A e \in DOMAIN entitlements : Offered(e)' => Offered(e)
  BY <1>1 DEF Offered, api
<1>5. KeysOpenOnce' /\ ChainStands' /\ CarriedIsNew' /\ EarnedEnds'
  BY <1>1, <1>2, <1>3, <1>4, ChainStays DEF client
<1>6. TypeOK' /\ OneTable' /\ RequestsNameRows'
  BY <1>1 DEF ClientInv, TypeOK, OneTable, RequestsNameRows, client, api
<1>7. CycleStands' /\ EachReadingShownOnce'
  BY <1>1 DEF ClientInv, CycleStands, EachReadingShownOnce, client, api
<1> QED
  BY <1>5, <1>6, <1>7 DEF ClientInv

\* The submission is given up, or left behind with the page.
LEMMA GivenUpInv ==
  ASSUME ClientInv, SubmissionTimesOut \/ Leave
  PROVE  ClientInv'
<1>1. /\ UNCHANGED <<ads, api, monetized, access, accessKey, minted, earned,
                     shown>>
      /\ lost' \in 0..MaxLost
  BY LostType DEF SubmissionTimesOut, Leave, Fails
<1>2. \/ /\ submission' = Page("failed") /\ submitKey' = submitKey
         /\ submission.pc = "inflight"
      \/ submission' = Page("idle") /\ submitKey' = 0 /\ access.pc = "idle"
  BY DEF SubmissionTimesOut, Leave, Fails, NoSubmitKey
<1>3. submission' \in SubmissionType /\ submission'.pc # "inflight"
  BY <1>2 DEF SubmissionType, Page
<1>4. TypeOK'
  BY <1>1, <1>2, <1>3 DEF ClientInv, TypeOK
<1>5. KeysOpenOnce' /\ ChainStands' /\ CarriedIsNew' /\ EarnedEnds'
  BY <1>1, ChainStays DEF ads, api, Offered, OpensSession
<1>6. OneTable' /\ RequestsNameRows' /\ EachReadingShownOnce'
  BY <1>1 DEF ClientInv, OneTable, RequestsNameRows, EachReadingShownOnce, ads,
              api
<1>7. CycleStands'
  BY <1>1, <1>2, <1>3 DEF ClientInv, CycleStands, api
<1> QED
  BY <1>4, <1>5, <1>6, <1>7 DEF ClientInv

\* A submission takes the unlock of the chain, and the chain is over.
LEMMA SubmitPendingInv ==
  ASSUME Api!TypeOK, ClientInv, SubmitPending
  PROVE  ClientInv'
<1> DEFINE key == IF submitKey # 0 THEN submitKey ELSE minted.submit + 1
           request == [user |-> User, fortune |-> Fortune,
                       unlock |-> access.unlock, key |-> key, exempt |-> FALSE]
<1>1. /\ access.pc = "proceed" /\ access' = Page("idle") /\ accessKey' = 0
      /\ UNCHANGED <<ads, monetized, earned, shown>>
      /\ submitKey' = key /\ lost' \in 0..MaxLost
      /\ minted' = IF submitKey # 0 THEN minted
                   ELSE [minted EXCEPT !.submit = key]
  BY LostType DEF SubmitPending, Reset, RotatedKey
<1>2. /\ submitKey # 0 \/ minted.submit < MaxKeys
      /\ minted \in [access: 0..MaxWatches, submit: 0..MaxKeys]
      /\ submitKey \in 0..minted.submit /\ minted.submit \in 0..MaxKeys
      /\ accessKey \in 0..minted.access /\ minted.access \in 0..MaxWatches
      /\ MaxKeys \in Nat
  BY <1>1, FlowBoundsAssumption DEF ClientInv, CycleStands, TypeOK
<1>3. /\ minted' \in [access: 0..MaxWatches, submit: 0..MaxKeys]
      /\ key \in 0..minted'.submit /\ key # 0
      /\ minted'.access = minted.access
      /\ (1..minted.submit) \ {submitKey} \subseteq (1..minted'.submit) \ {key}
  <2>1. CASE submitKey # 0
    BY <1>1, <1>2, <2>1
  <2>2. CASE submitKey = 0
    <3>1. key = minted.submit + 1 /\ key \in 1..MaxKeys
      BY <1>2, <2>2
    <3>2. /\ minted'.submit = key /\ minted'.access = minted.access
          /\ minted' \in [access: 0..MaxWatches, submit: 0..MaxKeys]
      BY <1>1, <1>2, <2>2, <3>1
    <3> QED
      BY <1>2, <3>1, <3>2
  <2> QED
    BY <2>1, <2>2
<1> HIDE DEF key
<1>4. PICK call \in ReadingHandlers \cup {0} :
        /\ submission' = [pc |-> "inflight", call |-> call]
        /\ \/ call = 0 /\ UNCHANGED api
           \/ call \in ReadingHandlers /\ Api!Submit(call, request)
  BY DEF SubmitPending, key
<1>5. readTasks \in [ReadingHandlers -> Api!Task]
  BY DEF Api!TypeOK
<1>6. /\ UNCHANGED <<unlocks, created>>
      /\ \A h \in ReadingHandlers :
           \/ readTasks'[h] = readTasks[h]
           \/ readTasks'[h].request = request
      /\ call # 0 => /\ readTasks'[call].pc # "idle"
                     /\ readTasks'[call].request = request
  <2>1. CASE call = 0 /\ UNCHANGED api
    BY <2>1 DEF api
  <2>2. CASE call \in ReadingHandlers /\ Api!Submit(call, request)
    <3>1. PICK pc \in {"access", "check"} :
            readTasks' = [readTasks EXCEPT ![call] =
                            [pc |-> pc, request |-> request]]
      BY <2>2 DEF Api!Submit, Api!Become
    <3>2. UNCHANGED <<unlocks, created>>
      BY <2>2 DEF Api!Submit, Api!tables
    <3> QED
      BY <1>5, <2>2, <3>1, <3>2
  <2> QED
    BY <1>4, <2>1, <2>2
<1>7. TypeOK'
  <2>1. access' \in AccessType /\ submission' \in SubmissionType
    BY <1>1, <1>4 DEF AccessType, SubmissionType, Page
  <2> QED
    BY <1>1, <1>2, <1>3, <2>1 DEF ClientInv, TypeOK
<1>8. OneTable' /\ EachReadingShownOnce'
  BY <1>1, <1>6 DEF ClientInv, OneTable, EachReadingShownOnce, ads
<1>9. KeysOpenOnce'
  BY <1>1, <1>3 DEF ClientInv, KeysOpenOnce, ads
<1>10. ChainStands' /\ CarriedIsNew' /\ EarnedEnds'
  BY <1>1 DEF ChainStands, CarriedIsNew, Carried, EarnedEnds, Page
<1>11. RequestsNameRows'
  <2>1. access.unlock \in {0} \cup DOMAIN entitlements
    BY <1>1 DEF ClientInv, ChainStands
  <2>2. request.unlock = access.unlock
    OBVIOUS
  <2> QED
    BY <1>1, <1>6, <2>1, <2>2 DEF ClientInv, RequestsNameRows, ads
<1>12. CycleStands'
  <2>1. access'.pc = "idle" /\ submission'.call = call
    BY <1>1, <1>4 DEF Page
  <2>2. call # 0 => readTasks'[call].pc # "idle"
                    /\ readTasks'[call].request.key = submitKey'
    BY <1>1, <1>6
  <2>3. \A i \in DOMAIN shown :
          /\ shown[i] \in DOMAIN created
          /\ created[shown[i]].key \in (1..minted'.submit) \ {key}
    BY <1>3 DEF ClientInv, CycleStands
  <2> QED
    BY <1>1, <1>3, <1>6, <2>1, <2>2, <2>3 DEF CycleStands
<1> QED
  BY <1>7, <1>8, <1>9, <1>10, <1>11, <1>12 DEF ClientInv

-----------------------------------------------------------------------------
(***************************************************************************)
(* The invariant of the page: a submission at work.                        *)
(***************************************************************************)
\* A request goes on with its body until it ends, and the rows of readings
\* stay.
LEMMA ReadMoves ==
  ASSUME Api!TypeOK, NEW h \in ReadingHandlers, Api!Continue(h)
  PROVE  /\ readTasks[h].pc # "idle"
         /\ \A g \in ReadingHandlers : g # h => readTasks'[g] = readTasks[g]
         /\ readTasks'[h].pc # "idle"
              => readTasks'[h].request = readTasks[h].request
         /\ \A i \in DOMAIN created :
              i \in DOMAIN created' /\ created'[i] = created[i]
<1>1. /\ readTasks \in [ReadingHandlers -> Api!Task]
      /\ created \in Seq(Api!ReadingRow)
  BY DEF Api!TypeOK
<1>2. PICK t \in Api!Task : t = readTasks[h]
  BY <1>1
<1>3. t.pc # "idle"
  BY <1>2 DEF Api!Continue, Api!CheckReplay, Api!DecideAccess,
         Api!ConsumeUnlock, Api!GenerateReading, Api!GenerationFails,
         Api!PersistReplyLost, Api!RestoreUnlock, Api!RestoreFails,
         Api!CountFree, Api!CountFails, Api!RecordResult, Api!RecordFails,
         Api!IsAt
<1>4. \E task : /\ readTasks' = [readTasks EXCEPT ![h] = task]
                /\ task.pc # "idle" => task.request = t.request
  <2>1. ASSUME NEW task, Api!Become(h, task),
               task.pc # "idle" => task.request = t.request
        PROVE  \E new : /\ readTasks' = [readTasks EXCEPT ![h] = new]
                        /\ new.pc # "idle" => new.request = t.request
    BY <2>1 DEF Api!Become
  <2>2. Api!Idle.pc = "idle" /\ Api!Req(h) = t.request
    BY <1>2 DEF Api!Idle, Api!Req
  <2>3. CASE Api!CheckReplay(h)
    BY <2>1, <2>2, <2>3 DEF Api!CheckReplay
  <2>4. CASE Api!DecideAccess(h)
    BY <2>1, <2>2, <2>4 DEF Api!DecideAccess, Api!Generating
  <2>5. CASE Api!ConsumeUnlock(h)
    BY <2>1, <2>2, <2>5 DEF Api!ConsumeUnlock, Api!Generating
  <2>6. CASE Api!GenerateReading(h)
    <3>1. Api!AfterPersist(h).request = t.request
      BY <2>2 DEF Api!AfterPersist
    <3> QED
      BY <2>1, <2>6, <3>1 DEF Api!GenerateReading
  <2>7. CASE Api!GenerationFails(h) \/ Api!PersistReplyLost(h)
    <3>1. \/ Api!AfterFailure(h) = Api!Idle
          \/ Api!AfterFailure(h) = [t EXCEPT !.pc = "restore"]
      BY <1>2 DEF Api!AfterFailure
    <3>2. [t EXCEPT !.pc = "restore"].request = t.request
      BY <1>3 DEF Api!Task, Api!Idle
    <3> QED
      BY <2>1, <2>2, <2>7, <3>1, <3>2
         DEF Api!GenerationFails, Api!PersistReplyLost
  <2>8. CASE Api!RestoreUnlock(h) \/ Api!RestoreFails(h)
    BY <2>1, <2>2, <2>8 DEF Api!RestoreUnlock, Api!RestoreFails
  <2>9. CASE Api!CountFree(h) \/ Api!CountFails(h)
    <3>1. [t EXCEPT !.pc = "record"].request = t.request
      BY <1>3 DEF Api!Task, Api!Idle
    <3>2. Api!Become(h, [t EXCEPT !.pc = "record"])
      BY <1>2, <2>9 DEF Api!CountFree, Api!CountFails
    <3> QED
      BY <2>1, <3>1, <3>2
  <2>10. CASE Api!RecordResult(h) \/ Api!RecordFails(h)
    BY <2>1, <2>2, <2>10 DEF Api!RecordResult, Api!RecordFails
  <2> QED
    BY <2>3, <2>4, <2>5, <2>6, <2>7, <2>8, <2>9, <2>10 DEF Api!Continue
<1>5. \A i \in DOMAIN created : i \in DOMAIN created' /\ created'[i] = created[i]
  <2>1. CASE UNCHANGED created
    BY <2>1
  <2>2. ASSUME NEW row, created' = Append(created, row)
        PROVE  \A i \in DOMAIN created :
                 i \in DOMAIN created' /\ created'[i] = created[i]
    <3> DEFINE T == Api!ReadingRow \cup {row}
    <3>1. created \in Seq(T) /\ row \in T
      BY <1>1
    <3> HIDE DEF T
    <3> QED
      BY <2>2, <3>1, AppendProperties, LenProperties
  <2> QED
    BY <2>1, <2>2
       DEF Api!Continue, Api!CheckReplay, Api!DecideAccess, Api!ConsumeUnlock,
           Api!GenerateReading, Api!GenerationFails, Api!PersistReplyLost,
           Api!Persist, Api!RestoreUnlock, Api!RestoreFails, Api!CountFree,
           Api!CountFails, Api!RecordResult, Api!RecordFails, Api!tables
<1> QED
  BY <1>1, <1>2, <1>3, <1>4, <1>5

\* Both modules write the same status to the row, and to no other.
LEMMA ReadTables ==
  ASSUME IInv, NEW h \in ReadingHandlers, ReadStep(h)
  PROVE  /\ UNCHANGED <<sessions, adTasks>>
         /\ DOMAIN entitlements' = DOMAIN entitlements
         /\ \A e \in DOMAIN entitlements :
              /\ entitlements'[e].session = entitlements[e].session
              /\ Offered(e)' => Offered(e)
         /\ OneTable'
<1> DEFINE u == readTasks[h].request.unlock
<1>1. /\ ClientInv /\ Ads!TypeOK /\ Api!TypeOK /\ Api!IInv /\ RequestsNameRows
      /\ Api!Continue(h) /\ SameStatus(h)
  BY ReadStepApi DEF IInv, Ads!IInv, Api!IInv, ClientInv, ReadStep
<1>2. /\ entitlements \in Seq(Ads!EntitlementRow)
      /\ unlocks \in [1..MaxWatches -> Api!UnlockRow]
      /\ readTasks \in [ReadingHandlers -> Api!Task]
  BY <1>1 DEF Ads!TypeOK, Api!TypeOK
<1>3. \A e \in DOMAIN entitlements :
        (\E g \in ReadingHandlers : /\ readTasks'[g].pc # "idle"
                                    /\ readTasks'[g].request.unlock = e)
          => Offered(e)
  BY <1>1, ReadMoves DEF Offered
<1>4. CASE unlocks' = unlocks
  <2>1. UNCHANGED <<sessions, adTasks, entitlements>>
    BY <1>1, <1>4 DEF SameStatus, ads
  <2>2. \A e \in DOMAIN entitlements : Offered(e)' => Offered(e)
    BY <1>3, <2>1 DEF Offered
  <2> QED
    BY <1>1, <1>4, <2>1, <2>2 DEF ClientInv, OneTable
<1>5. CASE unlocks' # unlocks
  <2>1. /\ readTasks[h].pc \in {"consume", "restore"}
        /\ u \in 1..MaxWatches /\ u \in DOMAIN entitlements
    BY <1>1, <1>5, ReadStepUnlock
  <2>2. unlocks[u].status = entitlements[u].status
    BY <1>1, <2>1 DEF ClientInv, OneTable
  <2>3. PICK row \in Api!UnlockRow : row = unlocks[u]
    BY <1>2, <2>1
  <2>4. PICK ent \in Ads!EntitlementRow : ent = entitlements[u]
    BY <1>2, <2>1
  <2>5. PICK status \in {"available", "consumed"} :
          /\ unlocks' = [unlocks EXCEPT ![u] = [row EXCEPT !.status = status]]
          /\ status = IF row.status = "available" THEN "consumed" ELSE "available"
          /\ row.status \in {"available", "consumed"}
    <3>1. CASE Api!ConsumeUnlock(h)
      <4>1. /\ unlocks' = [unlocks EXCEPT ![u] = [row EXCEPT !.status = "consumed"]]
            /\ row.status = "available"
        BY <1>5, <2>3, <3>1
           DEF Api!ConsumeUnlock, Api!Consumable, Api!Req
      <4> QED
        BY <4>1
    <3>2. CASE Api!RestoreUnlock(h)
      <4>1. /\ unlocks' = [unlocks EXCEPT ![u] = [row EXCEPT !.status = "available"]]
            /\ row.status = "consumed"
        BY <1>5, <2>3, <3>2
           DEF Api!RestoreUnlock, Api!Restored, Api!Req
      <4> QED
        BY <4>1
    <3> QED
      BY <1>1, <1>5, <2>1, <3>1, <3>2
         DEF Api!Continue, Api!CheckReplay, Api!DecideAccess,
             Api!GenerateReading, Api!GenerationFails, Api!PersistReplyLost,
             Api!RestoreFails, Api!CountFree, Api!CountFails, Api!RecordResult,
             Api!RecordFails, Api!tables
  <2>6. /\ entitlements' = [entitlements EXCEPT ![u] = [ent EXCEPT !.status = status]]
        /\ UNCHANGED <<sessions, adTasks>>
    <3>1. Ads!ConsumeEntitlement(u) \/ Ads!RestoreEntitlement(u)
      BY <1>1, <1>5 DEF SameStatus
    <3>2. CASE Ads!ConsumeEntitlement(u)
      <4>1. status = "consumed"
        BY <2>2, <2>3, <2>5, <3>2 DEF Ads!ConsumeEntitlement
      <4> QED
        BY <2>4, <3>2, <4>1 DEF Ads!ConsumeEntitlement
    <3>3. CASE Ads!RestoreEntitlement(u)
      <4>1. status = "available"
        BY <2>2, <2>3, <2>5, <3>3 DEF Ads!RestoreEntitlement
      <4> QED
        BY <2>4, <3>3, <4>1 DEF Ads!RestoreEntitlement
    <3> QED
      BY <3>1, <3>2, <3>3
  <2>7. /\ [ent EXCEPT !.status = status].status = status
        /\ [ent EXCEPT !.status = status].session = ent.session
    BY DEF Ads!EntitlementRow
  <2>8. [row EXCEPT !.status = status].status = status
    BY DEF Api!UnlockRow
  <2>9. /\ DOMAIN entitlements' = DOMAIN entitlements
        /\ Len(entitlements') = Len(entitlements)
        /\ entitlements'[u].status = status
        /\ entitlements'[u].session = entitlements[u].session
        /\ \A e \in DOMAIN entitlements : e # u =>
             entitlements'[e] = entitlements[e]
    <3> DEFINE new == [ent EXCEPT !.status = status]
    <3>1. new.status = status /\ new.session = entitlements[u].session
      BY <2>4, <2>7
    <3>2. entitlements' = [entitlements EXCEPT ![u] = new]
      BY <2>6
    <3> HIDE DEF new
    <3>3. /\ DOMAIN entitlements' = DOMAIN entitlements
          /\ Len(entitlements') = Len(entitlements)
      BY <1>2, <3>2
    <3>4. /\ entitlements'[u] = new
          /\ \A e \in DOMAIN entitlements : e # u =>
               entitlements'[e] = entitlements[e]
      BY <2>1, <3>2
    <3> QED
      BY <3>1, <3>3, <3>4
  <2>10. /\ unlocks'[u].status = status
         /\ \A e \in 1..MaxWatches : e # u => unlocks'[e] = unlocks[e]
    BY <1>2, <2>1, <2>5, <2>8
  <2>11. OneTable'
    <3>1. ASSUME NEW e \in 1..MaxWatches
          PROVE  unlocks'[e].status = IF e \in DOMAIN entitlements'
                                      THEN entitlements'[e].status ELSE "none"
      <4>1. CASE e = u
        BY <2>1, <2>9, <2>10, <4>1
      <4>2. CASE e # u
        BY <1>1, <2>9, <2>10, <4>2 DEF ClientInv, OneTable
      <4> QED
        BY <4>1, <4>2
    <3> QED
      BY <1>1, <2>9, <3>1 DEF ClientInv, OneTable
  <2>12. Offered(u)
    BY <2>1 DEF Offered
  <2>13. \A e \in DOMAIN entitlements : Offered(e)' => Offered(e)
    BY <1>3, <2>9, <2>12 DEF Offered
  <2> QED
    BY <2>6, <2>9, <2>11, <2>13
<1> QED
  BY <1>4, <1>5

\* The reading that ends a submission was made under the key of its cycle.
LEMMA SuccessShows ==
  ASSUME IInv, NEW h \in ReadingHandlers, Ends(h),
         NEW reading, Succeeds(reading),
         \/ /\ Checked(h)
            /\ records[User][readTasks[h].request.key].fingerprint
                 = Api!Fingerprint(readTasks[h].request)
            /\ reading = records[User][readTasks[h].request.key].reading
         \/ Recorded(h) /\ reading = readTasks[h].reading
  PROVE  reading \in DOMAIN created /\ created[reading].key = submitKey
<1> DEFINE k == readTasks[h].request.key
<1>1. /\ ClientInv /\ Api!TypeOK /\ Api!TasksServe /\ Api!RecordsServe
      /\ Api!TasksCarry
  BY DEF IInv, Api!IInv
<1>2. /\ submission.pc = "inflight" /\ submission.call = h /\ readTasks'[h].pc = "idle"
      /\ h # 0
  BY HandlersAssumption DEF Ends
<1>3. k = submitKey
  BY <1>1, <1>2 DEF ClientInv, CycleStands
<1>4. CASE Checked(h) /\ reading = records[User][k].reading
  <2>1. Api!CheckReplay(h) /\ readTasks[h].pc = "check"
    BY <1>4 DEF Checked, Api!CheckReplay, Api!IsAt
  <2>2. k \in 1..MaxKeys
    BY <1>1, <2>1 DEF Api!TasksCarry, Api!Req
  <2>3. readTasks[h].request.user = User
    <3>1. PICK t \in Api!Task : t = readTasks[h]
      BY <1>1 DEF Api!TypeOK
    <3> QED
      BY <2>1, <3>1 DEF Api!Task, Api!Idle, Api!RequestType
  <2>4. records[User][k] # Api!NoRecord
    <3>1. \A task : Api!Become(h, task) => readTasks'[h] = task
      BY <1>1 DEF Api!Become, Api!TypeOK
    <3> QED
      BY <1>2, <2>1, <2>3, <3>1 DEF Api!CheckReplay, Api!Req
  <2>5. Api!Serves(created, records[User][k].reading,
                   Api!Recording(User, k, records[User][k]))
    BY <1>1, <2>2, <2>4 DEF Api!RecordsServe
  <2> QED
    BY <1>3, <1>4, <2>5 DEF Api!Serves, Api!Recording
<1>5. CASE Recorded(h) /\ reading = readTasks[h].reading
  <2>1. readTasks[h].pc = "record"
    BY <1>5 DEF Recorded, Api!RecordResult, Api!IsAt
  <2>2. Api!Serves(created, reading, readTasks[h].request)
    BY <1>1, <1>5, <2>1 DEF Api!TasksServe, Api!Req
  <2> QED
    BY <1>3, <2>2 DEF Api!Serves
<1> QED
  BY <1>4, <1>5

\* What the answer, or none, does to the submission.
LEMMA ReadAnswers ==
  ASSUME IInv, NEW h \in ReadingHandlers, ReadStep(h)
  PROVE  \/ UNCHANGED <<submission, submitKey, shown>> /\ ~Ends(h)
         \/ /\ Ends(h) /\ submission' = Page("failed")
            /\ submitKey' \in {0, submitKey} /\ UNCHANGED shown
         \/ /\ Ends(h) /\ submission' = Page("idle") /\ submitKey' = 0
            /\ \E reading \in DOMAIN created :
                 /\ created[reading].key = submitKey
                 /\ shown' = Append(shown, reading)
<1>1. ASSUME Ends(h), NEW retryable, Fails(retryable)
      PROVE  /\ submission' = Page("failed")
             /\ submitKey' \in {0, submitKey} /\ UNCHANGED shown
  BY <1>1 DEF Fails, NoSubmitKey
<1>2. ASSUME Ends(h), NEW reading, Succeeds(reading),
             reading \in DOMAIN created /\ created[reading].key = submitKey
      PROVE  /\ submission' = Page("idle") /\ submitKey' = 0
             /\ \E r \in DOMAIN created : /\ created[r].key = submitKey
                                          /\ shown' = Append(shown, r)
  BY <1>2 DEF Succeeds, NoSubmitKey
<1>3. CASE ~Ends(h)
  BY <1>3 DEF ReadStep, Checked, Decided, Worked, Recorded, Ignored
<1>4. CASE Ends(h) /\ Checked(h)
  BY <1>1, <1>2, <1>4, SuccessShows DEF Checked
<1>5. CASE Ends(h) /\ Recorded(h)
  BY <1>2, <1>5, SuccessShows DEF Recorded
<1>6. CASE Ends(h) /\ (Decided(h) \/ Worked(h))
  BY <1>1, <1>6 DEF Decided, Worked
<1> QED
  BY <1>3, <1>4, <1>5, <1>6 DEF ReadStep

\* A submission at work, and its answer to the page.
LEMMA ReadStepInv ==
  ASSUME IInv, NEW h \in ReadingHandlers, ReadStep(h)
  PROVE  ClientInv'
<1>1. /\ ClientInv /\ Api!TypeOK /\ Api!Continue(h)
      /\ UNCHANGED <<monetized, access, accessKey, minted, earned, lost>>
  BY ReadStepApi DEF IInv, Api!IInv, ReadStep
<1>2. /\ minted.submit \in Nat /\ submitKey \in 0..minted.submit
      /\ shown \in Seq(Nat) /\ created \in Seq(Api!ReadingRow)
  BY <1>1, FlowBoundsAssumption DEF ClientInv, TypeOK, Api!TypeOK
<1>3. KeysOpenOnce' /\ ChainStands' /\ CarriedIsNew' /\ EarnedEnds' /\ OneTable'
  BY <1>1, ReadTables, ChainStays
<1>4. RequestsNameRows'
  BY <1>1, ReadTables, ReadMoves DEF ClientInv, RequestsNameRows
<1>5. \A i \in DOMAIN shown :
        /\ shown[i] \in DOMAIN created'
        /\ created'[shown[i]].key \in (1..minted.submit) \ {submitKey}
  BY <1>1, ReadMoves DEF ClientInv, CycleStands
<1>6. Ends(h) => submission.pc = "inflight" /\ submitKey # 0 /\ access.pc = "idle"
  BY <1>1 DEF Ends, ClientInv, CycleStands
<1>7. CASE UNCHANGED <<submission, submitKey, shown>> /\ ~Ends(h)
  <2>1. TypeOK' /\ EachReadingShownOnce'
    BY <1>1, <1>7 DEF ClientInv, TypeOK, EachReadingShownOnce
  <2>2. submission.pc = "inflight" /\ submission.call # 0
          => /\ readTasks'[submission.call].pc # "idle"
             /\ readTasks'[submission.call].request.key = submitKey
    <3> SUFFICES ASSUME submission.pc = "inflight", submission.call # 0
                 PROVE  /\ readTasks'[submission.call].pc # "idle"
                        /\ readTasks'[submission.call].request.key = submitKey
      OBVIOUS
    <3>1. /\ submission.call \in ReadingHandlers
          /\ submission = [pc |-> "inflight", call |-> submission.call]
      BY <1>1 DEF ClientInv, TypeOK, SubmissionType
    <3>2. /\ readTasks[submission.call].pc # "idle"
          /\ readTasks[submission.call].request.key = submitKey
      BY <1>1 DEF ClientInv, CycleStands
    <3>3. CASE submission.call = h
      <4>1. readTasks'[h].pc # "idle"
        BY <1>7, <3>1, <3>3 DEF Ends
      <4> QED
        BY <1>1, <3>2, <3>3, <4>1, ReadMoves
    <3>4. CASE submission.call # h
      BY <1>1, <3>1, <3>2, <3>4, ReadMoves
    <3> QED
      BY <3>3, <3>4
  <2>3. CycleStands'
    BY <1>1, <1>5, <1>7, <2>2 DEF ClientInv, CycleStands
  <2> QED
    BY <1>3, <1>4, <2>1, <2>3 DEF ClientInv
<1>8. CASE /\ Ends(h) /\ submission' = Page("failed")
           /\ submitKey' \in {0, submitKey} /\ UNCHANGED shown
  <2>1. submission' \in SubmissionType /\ submission'.pc = "failed"
    BY <1>8 DEF SubmissionType, Page
  <2>2. TypeOK' /\ EachReadingShownOnce'
    BY <1>1, <1>2, <1>8, <2>1 DEF ClientInv, TypeOK, EachReadingShownOnce
  <2>3. (1..minted.submit) \ {submitKey} \subseteq (1..minted.submit) \ {submitKey'}
    BY <1>2, <1>8
  <2>4. CycleStands'
    BY <1>1, <1>5, <1>6, <1>8, <2>1, <2>3 DEF CycleStands
  <2> QED
    BY <1>3, <1>4, <2>2, <2>4 DEF ClientInv
<1>9. CASE /\ Ends(h) /\ submission' = Page("idle") /\ submitKey' = 0
           /\ \E reading \in DOMAIN created :
                /\ created[reading].key = submitKey
                /\ shown' = Append(shown, reading)
  <2>1. PICK reading \in DOMAIN created :
          created[reading].key = submitKey /\ shown' = Append(shown, reading)
    BY <1>9
  <2>2. reading \in Nat
    BY <1>2
  <2>3. /\ shown' \in Seq(Nat) /\ DOMAIN shown' = 1..(Len(shown) + 1)
        /\ shown'[Len(shown) + 1] = reading
        /\ \A i \in DOMAIN shown : shown'[i] = shown[i]
        /\ DOMAIN shown = 1..Len(shown) /\ Len(shown) \in Nat
    BY <1>2, <2>1, <2>2, AppendProperties, LenProperties
  <2>4. \A i \in DOMAIN shown' : i \in DOMAIN shown \/ i = Len(shown) + 1
    BY <2>3
  <2>5. \A i \in DOMAIN shown : shown[i] # reading
    BY <1>1, <2>1 DEF ClientInv, CycleStands
  <2>6. EachReadingShownOnce'
    BY <1>1, <2>3, <2>4, <2>5 DEF ClientInv, EachReadingShownOnce
  <2>7. submission' \in SubmissionType /\ submission'.pc = "idle"
    BY <1>9 DEF SubmissionType, Page
  <2>8. TypeOK'
    BY <1>1, <1>2, <1>9, <2>3, <2>7 DEF ClientInv, TypeOK
  <2>9. \A i \in DOMAIN shown' :
          /\ shown'[i] \in DOMAIN created'
          /\ created'[shown'[i]].key \in (1..minted.submit) \ {0}
    <3>1. /\ reading \in DOMAIN created'
          /\ created'[reading].key \in (1..minted.submit) \ {0}
      BY <1>1, <1>2, <1>6, <1>9, <2>1, ReadMoves
    <3>2. ASSUME NEW i \in DOMAIN shown'
          PROVE  /\ shown'[i] \in DOMAIN created'
                 /\ created'[shown'[i]].key \in (1..minted.submit) \ {0}
      <4>1. CASE i \in DOMAIN shown
        <5>1. (1..minted.submit) \ {submitKey} \subseteq (1..minted.submit) \ {0}
          BY <1>2
        <5>2. shown'[i] = shown[i]
          BY <2>3, <4>1
        <5> QED
          BY <1>5, <4>1, <5>1, <5>2
      <4>2. CASE i = Len(shown) + 1
        BY <2>3, <3>1, <4>2
      <4> QED
        BY <2>4, <4>1, <4>2
    <3> QED
      BY <3>2
  <2>10. CycleStands'
    BY <1>1, <1>6, <1>9, <2>7, <2>9 DEF CycleStands
  <2> QED
    BY <1>3, <1>4, <2>6, <2>8, <2>10 DEF ClientInv
<1> QED
  BY <1>7, <1>8, <1>9, ReadAnswers

-----------------------------------------------------------------------------
(***************************************************************************)
(* The theorems.                                                           *)
(***************************************************************************)
\* The page opens with nothing under way.
LEMMA ClientInvInit == Init => ClientInv
<1> SUFFICES ASSUME Init
             PROVE  ClientInv
  OBVIOUS
<1>1. /\ entitlements = << >> /\ sessions = << >>
      /\ \A h \in AdHandlers : adTasks[h] = Ads!Idle
      /\ \A e \in 1..MaxWatches : unlocks[e].status = "none"
      /\ \A h \in ReadingHandlers : readTasks[h] = Api!Idle
  BY DEF Init, Ads!Init, Api!Init, AdHandlers
<1>2. access = Page("idle") /\ submission = Page("idle")
      /\ access.pc = "idle" /\ submission.pc = "idle"
  BY DEF Init, Page
<1>3. TypeOK
  <2>1. access \in AccessType /\ submission \in SubmissionType
    BY <1>2 DEF AccessType, SubmissionType, Page
  <2>2. /\ minted \in [access: 0..MaxWatches, submit: 0..MaxKeys]
        /\ accessKey \in 0..minted.access /\ submitKey \in 0..minted.submit
        /\ lost \in 0..MaxLost
    BY FlowBoundsAssumption DEF Init
  <2>3. monetized \in BOOLEAN /\ earned \in BOOLEAN
    BY Zenon DEF Init
  <2>4. shown \in Seq(Nat)
    BY DEF Init
  <2> QED
    BY <2>1, <2>2, <2>3, <2>4 DEF TypeOK
<1>4. OneTable /\ KeysOpenOnce
  <2>1. Len(entitlements) = 0 /\ Len(sessions) = 0 /\ MaxWatches \in Nat
        /\ DOMAIN entitlements = {} /\ DOMAIN sessions = {}
    BY <1>1, FlowBoundsAssumption
  <2> QED
    BY <1>1, <2>1 DEF OneTable, KeysOpenOnce, Ads!Idle, AdHandlers
<1>5. ChainStands /\ RequestsNameRows /\ CarriedIsNew /\ EarnedEnds
  BY <1>1, <1>2
     DEF Init, ChainStands, RequestsNameRows, CarriedIsNew, EarnedEnds, Api!Idle
<1>6. CycleStands /\ EachReadingShownOnce
  BY <1>2 DEF Init, CycleStands, EachReadingShownOnce
<1> QED
  BY <1>3, <1>4, <1>5, <1>6 DEF ClientInv

\* Every step keeps the invariant of the page.
LEMMA ClientInvNext ==
  ASSUME IInv, [Next]_vars
  PROVE  ClientInv'
<1>1. Ads!TypeOK /\ Ads!ExpiryInv /\ Api!TypeOK /\ ClientInv
  BY DEF IInv, Ads!IInv, Api!IInv
<1>2. CASE Reader
  BY <1>1, <1>2, BeginInv, WatchAdInv, GivenUpInv DEF Reader
<1>3. CASE Client
  BY <1>1, <1>3, BeginInv, PlayAdInv, SendClaimInv, PollInv, SendReportInv,
     ConfirmInv, AdCallFailsInv, SubmitPendingInv, GivenUpInv DEF Client
<1>4. CASE Postback
  BY <1>1, <1>4, PostbackInv
<1>5. CASE \E h \in AdHandlers : AdStep(h)
  BY <1>5, AdStepInv
<1>6. CASE \E h \in ReadingHandlers : ReadStep(h)
  BY <1>6, ReadStepInv
<1>7. CASE UNCHANGED vars
  <2>1. TypeOK' /\ OneTable' /\ KeysOpenOnce' /\ ChainStands'
    BY <1>1, <1>7 DEF ClientInv, TypeOK, OneTable, KeysOpenOnce, ChainStands,
                      vars, ads, api, client
  <2>2. RequestsNameRows' /\ CarriedIsNew' /\ EarnedEnds'
    BY <1>1, <1>7 DEF ClientInv, RequestsNameRows, CarriedIsNew, Carried,
                      Offered, EarnedEnds, Ads!IsFallbackReason, vars, ads, api,
                      client
  <2>3. CycleStands' /\ EachReadingShownOnce'
    BY <1>1, <1>7 DEF ClientInv, CycleStands, EachReadingShownOnce, vars, api,
                      client
  <2> QED
    BY <2>1, <2>2, <2>3 DEF ClientInv
<1> QED
  BY <1>2, <1>3, <1>4, <1>5, <1>6, <1>7 DEF Next

\* What Mediation keeps: the views of ads, and that an ended session has ended.
LEMMA AdsKept ==
  ASSUME Ads!IInv, [Ads!Next]_(Ads!vars)
  PROVE  /\ views \subseteq views'
         /\ \A s \in DOMAIN sessions :
              sessions'[s].status = "attempting" => sessions[s].status = "attempting"
<1>1. AdsP!IInv /\ [AdsP!Next]_(AdsP!vars)
  BY AdsSpecSame, AdsInvSame
<1>2. AdsP!RowsKept
  BY <1>1, AdsAssumptions, AdsP!RowsKeptNext DEF AdsP!IInv, AdsP!TaskInv
<1>3. views \subseteq views'
  BY <1>1, AdsAssumptions, AdsP!ViewsGrow
<1> QED
  BY <1>2, <1>3 DEF AdsP!RowsKept, AdsP!SessionIds

\* A page comes to claim when the ad of its session was completed.
LEMMA ClaimsBegin ==
  ASSUME ClientInv, [Next]_vars, access'.pc = "claiming"
  PROVE  /\ access.pc \in {"playing", "claiming"}
         /\ access'.session = access.session
         /\ access.pc = "playing" => PlayAd /\ access' = Claiming
<1>1. CASE Reader
  BY <1>1 DEF Reader, Seal, WatchAd, Dismiss, Leave, Reset, Page, Proceed
<1>2. CASE PlayAd
  <2>1. access.pc = "playing"
    BY <1>2 DEF PlayAd
  <2>2. access' = Claiming \/ \E reason : access' = Reporting(reason)
    BY <1>2 DEF PlayAd, AfterAd
  <2> QED
    BY <1>2, <2>1, <2>2 DEF Claiming, Reporting
<1>3. \A unlock : AfterClaim(unlock).pc # "claiming"
  BY DEF AfterClaim, Proceed, Playing
<1>4. CASE SendClaim \/ SendReport
  <2>1. access.pc \in {"claiming", "reporting"}
    BY <1>4 DEF SendClaim, SendReport
  <2>2. CASE \E h \in ClientHandlers : access' = [access EXCEPT !.call = h]
    <3>1. access \in AccessType
      BY DEF ClientInv, TypeOK
    <3>2. access'.pc = access.pc /\ access'.session = access.session
      BY <2>1, <2>2, <3>1 DEF AccessType
    <3> QED
      BY <2>1, <3>2
  <2>3. CASE ~\E h \in ClientHandlers : access' = [access EXCEPT !.call = h]
    BY <1>3, <1>4, <2>3 DEF SendClaim, SendReport, ReportFailed, Page
  <2> QED
    BY <2>2, <2>3
<1>5. CASE Poll \/ Confirm \/ OptionsAnswered \/ SubmitPending \/ AdCallFails
  BY <1>3, <1>5 DEF Poll, Confirm, OptionsAnswered, SubmitPending, AdCallFails,
     Reset, Page, Proceed, Reporting, ReportFailed
<1>6. ASSUME NEW h \in AdHandlers, AdStep(h), access' # access
      PROVE  FALSE
  <2>1. AdAnswered /\ access.pc \in {"creating", "claiming", "reporting"}
    BY <1>6 DEF AdStep
  <2>2. ASSUME NEW s, Loop(s, sessions')
        PROVE  FALSE
    BY <2>2 DEF Loop, Playing, Page
  <2>3. ASSUME ReportFailed
        PROVE  FALSE
    BY <2>3 DEF ReportFailed, Page
  <2>4. CASE access.pc = "creating"
    BY <2>1, <2>2, <2>4 DEF AdAnswered
  <2>5. CASE access.pc = "claiming"
    BY <1>3, <2>1, <2>5 DEF AdAnswered
  <2>6. CASE access.pc = "reporting"
    BY <2>1, <2>2, <2>3, <2>6 DEF AdAnswered, ReportAnswered
  <2> QED
    BY <2>1, <2>4, <2>5, <2>6
<1>7. CASE UNCHANGED access
  <2>1. access.pc = "claiming"
    BY <1>7
  <2> QED
    BY <1>7, <2>1
<1>8. CASE SubmissionTimesOut \/ Postback \/ (\E h \in ReadingHandlers : ReadStep(h))
  BY <1>7, <1>8 DEF SubmissionTimesOut, Postback, ReadStep, client
<1>9. CASE UNCHANGED vars
  BY <1>7, <1>9 DEF vars, client
<1> QED
  BY <1>1, <1>2, <1>4, <1>5, <1>6, <1>7, <1>8, <1>9 DEF Next, Client, AdHandlers

\* So its claims are honest, whatever became of the session meanwhile.
LEMMA ClaimIsHonestNext ==
  ASSUME IInv, [Next]_vars
  PROVE  ClaimIsHonest'
<1>1. SUFFICES ASSUME access'.pc = "claiming",
                      sessions'[access'.session].status = "attempting"
               PROVE  \E v \in views' : v[1] = access'.session
  BY DEF ClaimIsHonest, Ads!HonestClaim
<1>2. /\ access.pc \in {"playing", "claiming"}
      /\ access'.session = access.session
      /\ access.pc = "playing" => PlayAd /\ access' = Claiming
  BY <1>1, ClaimsBegin DEF IInv
<1>3. access.session \in DOMAIN sessions
  BY <1>2 DEF IInv, ClientInv, ChainStands
<1>4. /\ views \subseteq views'
      /\ sessions[access.session].status = "attempting"
  BY <1>1, <1>2, <1>3, ServerStep, AdsKept DEF IInv
<1>5. CASE access.pc = "claiming"
  BY <1>2, <1>4, <1>5 DEF IInv, ClaimIsHonest, Ads!HonestClaim
<1>6. CASE access.pc = "playing"
  <2> DEFINE s == access.session
             v == <<s, sessions[s].count>>
  <2>1. v \in views'
    BY <1>2, <1>4, <1>6 DEF PlayAd, AfterAd, Claiming, Reporting, Ads!WatchAd
  <2>2. v[1] = s
    OBVIOUS
  <2> QED
    BY <1>2, <2>1, <2>2
<1> QED
  BY <1>2, <1>5, <1>6

\* Every reachable state of the page and of its server satisfies the invariant.
THEOREM Invariance == Spec => []IInv
<1>1. Init => IInv
  BY ServerInit, ClientInvInit DEF IInv, Init, ClaimIsHonest, Page
<1>2. IInv /\ [Next]_vars => IInv'
  <2> SUFFICES ASSUME IInv, [Next]_vars
               PROVE  IInv'
    OBVIOUS
  <2>1. [Ads!Next]_(Ads!vars) /\ [Api!Next]_(Api!vars)
    BY ServerStep
  <2>2. Ads!IInv' /\ Ads!ExpiryInv'
    BY <2>1, AdsNext DEF IInv
  <2>3. Api!IInv'
    BY <2>1, ApiNext DEF IInv
  <2> QED
    BY <2>2, <2>3, ClientInvNext, ClaimIsHonestNext DEF IInv
<1> QED
  BY <1>1, <1>2, PTL DEF Spec

\* The page's state, and all that it keeps in hand, has the shape it gives it.
THEOREM TypeCorrect == Spec => []TypeOK
<1>1. IInv => TypeOK
  BY DEF IInv, ClientInv
<1> QED
  BY <1>1, Invariance, PTL

\* The page drives its server as Mediation and Readings allow: sessions, claims
\* and reports come to Mediation in an order it is verified for, submissions
\* name bodies that Readings is verified for, and the one table of unlocks that
\* both write is to each a table that only it and its environment write.  So
\* what is proved of the two modules holds of the page's server.
THEOREM DrivesBothServices == Spec => Ads!Spec /\ Api!Spec
<1>1. Init => Ads!Init /\ Api!Init
  BY DEF Init
<1>2. IInv /\ [Next]_vars => [Ads!Next]_(Ads!vars) /\ [Api!Next]_(Api!vars)
  BY ServerStep
<1> QED
  BY <1>1, <1>2, Invariance, PTL DEF Spec, Ads!Spec, Api!Spec

\* The page never proceeds with an unlock that is already used: whatever the
\* chain would proceed with has never been sent with a submission, since the
\* key of the chain is given up with it (access_flow_controller.dart 83-84).
THEOREM UnlockFresh == Spec => []UnlockIsFresh
<1>1. IInv => UnlockIsFresh
  <2> SUFFICES ASSUME IInv, access.pc = "proceed", access.unlock # 0
               PROVE  unlocks[access.unlock].status = "available"
    BY DEF UnlockIsFresh
  <2>1. /\ access.unlock \in DOMAIN entitlements
        /\ access.unlock \in 1..MaxWatches
    BY UnlockIds DEF IInv, Ads!IInv, ClientInv, ChainStands
  <2>2. entitlements[access.unlock].status = "available"
    BY <2>1 DEF IInv, ClientInv, CarriedIsNew, Carried, Offered
  <2> QED
    BY <2>1, <2>2 DEF IInv, ClientInv, OneTable
<1> QED
  BY <1>1, Invariance, PTL

\* Once an ad of the chain was completed, the chain shows no other.
THEOREM NoSecondAd == Spec => []NoSecondAdAfterReward
<1>1. IInv => NoSecondAdAfterReward
  BY DEF IInv, ClientInv, EarnedEnds, NoSecondAdAfterReward
<1> QED
  BY <1>1, Invariance, PTL

\* The page only claims sessions of which an ad was watched: the client that
\* Mediation supposes is the client that there is.
THEOREM ClaimsAreHonest == Spec => []ClaimIsHonest
<1>1. IInv => ClaimIsHonest
  BY DEF IInv
<1> QED
  BY <1>1, Invariance, PTL

\* No two cycles of the page open the same reading.
THEOREM ShownOnce == Spec => []EachReadingShownOnce
<1>1. IInv => EachReadingShownOnce
  BY DEF IInv, ClientInv
<1> QED
  BY <1>1, Invariance, PTL
=============================================================================
