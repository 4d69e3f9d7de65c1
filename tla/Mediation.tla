------------------------------ MODULE Mediation ------------------------------
(***************************************************************************)
(* Rewarded-ad mediation of the API (MediationService).  A user without a  *)
(* free reading left opens a session; the backend hands out one ad         *)
(* provider at a time; a failed attempt falls through to the next one; a   *)
(* watched ad is turned into one entitlement, either by the client's       *)
(* completion call or by the provider's server-to-server postback.         *)
(*                                                                         *)
(* The three tables are the variables sessions, entitlements and, inside a *)
(* session, its attempts.  A row's position is its id and its creation     *)
(* order.  A request runs on a handler; the statements of one request are  *)
(* separate steps, because the service awaits between them and the         *)
(* database runs at READ COMMITTED, so other requests interleave.          *)
(***************************************************************************)
EXTENDS Integers, Sequences, FiniteSets

CONSTANTS
  Users, Fortunes, Keys,  \* callers, the fortune catalogue, Idempotency-Keys
  Providers, NoProvider,  \* ad networks; the null currentProvider
  Orders,                 \* what orderProviders can return (ProviderOrdering)
  SidProviders,           \* networks whose postback echoes our session id
  RewardIdProviders,      \* networks whose postback carries a reward id
  ClientRewardEnabled,    \* AD_CLIENT_REWARD_ENABLED
  DailyLimit,             \* rewardedAdsDailyLimit
  SessionTtl, EntitlementTtl, DayLength,  \* in ticks of the clock
  Reported,               \* the reasons this instance's clients report
  Handlers,               \* requests the API serves at the same time
  MaxSessions, MaxNow     \* bounds of the exploration

ASSUME OrdersAssumption == Orders \subseteq Seq(Providers)
ASSUME ProvidersAssumption == NoProvider \notin Providers
ASSUME LimitsAssumption ==
  /\ DailyLimit \in Nat /\ SessionTtl \in Nat /\ EntitlementTtl \in Nat
  /\ DayLength \in Nat \ {0} /\ MaxSessions \in Nat /\ MaxNow \in Nat

\* One representative per class of reportable reason.
Reasons == {"no_fill", "skipped", "cancelled", "verification_failed"}
IsFallbackReason(reason) == reason = "no_fill"

ASSUME ReportedAssumption == Reported \subseteq Reasons

VARIABLES
  now,           \* the clock
  sessions,      \* AdMediationSession, each row with its AdProviderAttempts
  entitlements,  \* RewardedAdEntitlement
  views,         \* ads watched to the end: <<session, attempt>>
  tasks          \* where each handler is in the request it serves

vars == <<now, sessions, entitlements, views, tasks>>

-----------------------------------------------------------------------------
SessionStatus == {"attempting", "rewarded", "exhausted", "cancelled", "failed"}
AttemptStatus == {"loading", "verified", "failed", "skipped"}
EntitlementStatus == {"available", "consumed"}

AttemptRow ==
  [number: Nat, provider: Providers, status: AttemptStatus]

SessionRow ==
  [user: Users, fortune: Fortunes, key: Keys, order: Seq(Providers),
   status: SessionStatus, current: Providers \cup {NoProvider},
   count: Nat, expires: Nat, attempts: SUBSET AttemptRow]

\* providerRewardId: the postback's reward id <<session, attempt>> of the ad
\* it is about, or the session's own id, written <<session, 0>>.
RewardIds == Nat \X Nat

EntitlementRow ==
  [session: Nat, user: Users, fortune: Fortunes, provider: Providers,
   reward: RewardIds, status: EntitlementStatus, created: Nat, expires: Nat]

Idle == [pc |-> "idle"]

Task ==
  {Idle}
  \cup [pc: {"lookup", "insert"},
        user: Users, fortune: Fortunes, key: Keys, at: Nat]
  \cup [pc: {"mark", "settle"}, session: Nat, attempt: Nat, reason: Reasons]
  \cup [pc: {"cancel"}, session: Nat]
  \cup [pc: {"grant"}, session: Nat, provider: Providers, attempt: Nat,
        reward: RewardIds, at: Nat]

SessionIds == DOMAIN sessions
EntitlementIds == DOMAIN entitlements

IsLive(s, at) == sessions[s].status = "attempting" /\ sessions[s].expires > at

DayStart(at) == (at \div DayLength) * DayLength

UsedToday(u, at) ==
  Cardinality({e \in EntitlementIds :
    entitlements[e].user = u /\ entitlements[e].created >= DayStart(at)})

\* The newest attempt of a session on one provider.
LatestAttempts(s, p) ==
  {a \in sessions[s].attempts :
     /\ a.provider = p
     /\ \A b \in sessions[s].attempts : b.provider = p => b.number <= a.number}

Become(h, task) == tasks' = [tasks EXCEPT ![h] = task]
IsAt(h, pc) == tasks[h].pc = pc

-----------------------------------------------------------------------------
Init ==
  /\ now = 0
  /\ sessions = << >>
  /\ entitlements = << >>
  /\ views = {}
  /\ tasks = [h \in Handlers |-> Idle]

(***************************************************************************)
(* createSession: the allowance count, the lookup of an earlier session    *)
(* under the same Idempotency-Key, the provider order, the insert.         *)
(***************************************************************************)
CreateSession(h, u, f, k) ==
  /\ IsAt(h, "idle")
  /\ UsedToday(u, now) < DailyLimit
  /\ Become(h, [pc |-> "lookup", user |-> u, fortune |-> f, key |-> k,
                at |-> now])
  /\ UNCHANGED <<now, sessions, entitlements, views>>

\* AD_LIMIT_REACHED.
RefuseSession(h, u) ==
  /\ IsAt(h, "idle")
  /\ UsedToday(u, now) >= DailyLimit
  /\ UNCHANGED vars

Replayable(t) ==
  \E s \in SessionIds : /\ sessions[s].user = t.user
                        /\ sessions[s].key = t.key
                        /\ sessions[s].expires > t.at

LookupSession(h) ==
  /\ IsAt(h, "lookup")
  /\ Become(h, IF Replayable(tasks[h]) THEN Idle
               ELSE [tasks[h] EXCEPT !.pc = "insert"])
  /\ UNCHANGED <<now, sessions, entitlements, views>>

FirstAttempt(p) == [number |-> 1, provider |-> p, status |-> "loading"]

\* Nothing configured leaves an exhausted session without an attempt.
NewSession(t, order) ==
  LET none == order = << >>
  IN  [user |-> t.user, fortune |-> t.fortune, key |-> t.key, order |-> order,
       status   |-> IF none THEN "exhausted" ELSE "attempting",
       current  |-> IF none THEN NoProvider ELSE order[1],
       count    |-> IF none THEN 0 ELSE 1,
       expires  |-> t.at + SessionTtl,
       attempts |-> IF none THEN {} ELSE {FirstAttempt(order[1])}]

KeyTaken(t) ==
  \E s \in SessionIds : sessions[s].user = t.user /\ sessions[s].key = t.key

\* The insert; a taken (userId, idempotencyKey) makes the request fail.
InsertSession(h, order) ==
  /\ IsAt(h, "insert")
  /\ \/ KeyTaken(tasks[h]) /\ UNCHANGED sessions
     \/ /\ ~KeyTaken(tasks[h])
        /\ Len(sessions) < MaxSessions
        /\ sessions' = Append(sessions, NewSession(tasks[h], order))
  /\ Become(h, Idle)
  /\ UNCHANGED <<now, entitlements, views>>

(***************************************************************************)
(* reportFailure: the ownership, status, expiry and attempt-number checks  *)
(* on a read row, the attempt's own update, then either the next attempt   *)
(* or the end of the chain.  The last write does not look at the session's *)
(* status again.                                                           *)
(***************************************************************************)
ReportFailure(h, s, reason) ==
  /\ IsAt(h, "idle")
  /\ IsLive(s, now)
  /\ Become(h, [pc |-> "mark", session |-> s, attempt |-> sessions[s].count,
                reason |-> reason])
  /\ UNCHANGED <<now, sessions, entitlements, views>>

\* Slip: the reported reason is stored as the attempt's status.
ReasonAsStatus(reason) == reason

MarkedStatus(reason) ==
  IF reason \in {"skipped", "cancelled"} THEN "skipped" ELSE "failed"

WithAttemptStatus(attempts, n, status) ==
  {IF a.number = n THEN [a EXCEPT !.status = status] ELSE a : a \in attempts}

MarkAttempt(h) ==
  /\ IsAt(h, "mark")
  /\ LET t == tasks[h]
     IN  sessions' = [sessions EXCEPT ![t.session].attempts =
                        WithAttemptStatus(@, t.attempt, MarkedStatus(t.reason))]
  /\ Become(h, [tasks[h] EXCEPT !.pc = "settle"])
  /\ UNCHANGED <<now, entitlements, views>>

HasNext(t) ==
  IsFallbackReason(t.reason) /\ t.attempt < Len(sessions[t.session].order)

AttemptTaken(s, n) == \E a \in sessions[s].attempts : a.number = n

\* Slip: the next attempt also sets the session's status.
AdvancedReopening(row, n) ==
  [row EXCEPT !.count = n, !.current = row.order[n], !.status = "attempting",
              !.attempts = @ \cup {[number |-> n, provider |-> row.order[n],
                                    status |-> "loading"]}]

Advanced(row, n) ==
  [row EXCEPT !.count = n, !.current = row.order[n],
              !.attempts = @ \cup {[number |-> n, provider |-> row.order[n],
                                    status |-> "loading"]}]

\* Slip: without the unique (mediationSessionId, attemptNumber) key.
NextAttemptUnguarded(h) ==
  /\ IsAt(h, "settle")
  /\ HasNext(tasks[h])
  /\ sessions' = [sessions EXCEPT
       ![tasks[h].session] = Advanced(@, tasks[h].attempt + 1)]
  /\ Become(h, Idle)
  /\ UNCHANGED <<now, entitlements, views>>

\* One transaction: a taken attempt number rolls the session's update back.
NextAttempt(h) ==
  /\ IsAt(h, "settle")
  /\ HasNext(tasks[h])
  /\ LET s == tasks[h].session
         n == tasks[h].attempt + 1
     IN  sessions' = IF AttemptTaken(s, n) THEN sessions
                     ELSE [sessions EXCEPT ![s] = Advanced(@, n)]
  /\ Become(h, Idle)
  /\ UNCHANGED <<now, entitlements, views>>

FinalStatus(reason) ==
  CASE IsFallbackReason(reason) -> "exhausted"
    [] reason = "cancelled"     -> "cancelled"
    [] OTHER                    -> "failed"

EndChain(h) ==
  /\ IsAt(h, "settle")
  /\ ~HasNext(tasks[h])
  /\ sessions' = [sessions EXCEPT
       ![tasks[h].session].status = FinalStatus(tasks[h].reason),
       ![tasks[h].session].current = NoProvider]
  /\ Become(h, Idle)
  /\ UNCHANGED <<now, entitlements, views>>

(***************************************************************************)
(* cancel                                                                  *)
(***************************************************************************)
Cancel(h, s) ==
  /\ IsAt(h, "idle")
  /\ IsLive(s, now)
  /\ Become(h, [pc |-> "cancel", session |-> s])
  /\ UNCHANGED <<now, sessions, entitlements, views>>

CancelSession(h) ==
  /\ IsAt(h, "cancel")
  /\ sessions' = [sessions EXCEPT ![tasks[h].session].status = "cancelled",
                                  ![tasks[h].session].current = NoProvider]
  /\ Become(h, Idle)
  /\ UNCHANGED <<now, entitlements, views>>

(***************************************************************************)
(* completeByClient and verifyRewardCallback: each reads a rewardable      *)
(* session, then runs the same batch transaction.                          *)
(***************************************************************************)
\* providerRewardId when the network sends no reward id of its own.
SessionReward(s) == <<s, 0>>

GrantTask(s, p, a, reward) ==
  [pc |-> "grant", session |-> s, provider |-> p, attempt |-> a.number,
   reward |-> reward, at |-> now]

\* The service asks for no proof: it rewards any live session of the caller's.
CompleteByClient(h, s) ==
  /\ ClientRewardEnabled
  /\ IsAt(h, "idle")
  /\ IsLive(s, now)
  /\ \E a \in LatestAttempts(s, sessions[s].current) :
       Become(h, GrantTask(s, sessions[s].current, a, SessionReward(s)))
  /\ UNCHANGED <<now, sessions, entitlements, views>>

\* What a network knows of an ad that it showed: the attempt it was shown for.
ViewAttempt(v) == CHOOSE a \in sessions[v[1]].attempts : a.number = v[2]

\* The sessions a postback without a session id may be bound to.
ActiveOn(u, p) ==
  {s \in SessionIds : /\ sessions[s].user = u
                      /\ sessions[s].current = p
                      /\ IsLive(s, now)}

\* Slip: the echoed session id is not looked at.
ResolvesToNewest(v, p, s) ==
  LET active == ActiveOn(sessions[v[1]].user, p)
  IN  s \in active /\ \A r \in active : r <= s

\* resolveRewardSession
ResolvesTo(v, p, s) ==
  IF p \in SidProviders
  THEN s = v[1] /\ IsLive(s, now)
  ELSE LET active == ActiveOn(sessions[v[1]].user, p)
       IN  s \in active /\ \A r \in active : r <= s

RewardOf(v, p, s) == IF p \in RewardIdProviders THEN v ELSE SessionReward(s)

\* A postback about a watched ad.  The network may delay it, repeat it and
\* reorder it: the view stays in views.
VerifyRewardCallback(h, v, s) ==
  LET p == ViewAttempt(v).provider
  IN  /\ IsAt(h, "idle")
      /\ ResolvesTo(v, p, s)
      /\ \E a \in LatestAttempts(s, p) :
           Become(h, GrantTask(s, p, a, RewardOf(v, p, s)))
      /\ UNCHANGED <<now, sessions, entitlements, views>>

\* Slip: only (provider, providerRewardId) is unique.
CollidesOnReward(t) ==
  \E e \in EntitlementIds : /\ entitlements[e].provider = t.provider
                           /\ entitlements[e].reward = t.reward

\* The two unique keys of RewardedAdEntitlement.
EntitlementCollides(t) ==
  \E e \in EntitlementIds :
    \/ entitlements[e].session = t.session
    \/ entitlements[e].provider = t.provider /\ entitlements[e].reward = t.reward

\* Slip: the reward lives from the moment it is written.
LivesFromNow(t) ==
  [session |-> t.session, user |-> sessions[t.session].user,
   fortune |-> sessions[t.session].fortune, provider |-> t.provider,
   reward |-> t.reward, status |-> "available", created |-> now,
   expires |-> now + EntitlementTtl]

NewEntitlement(t) ==
  [session |-> t.session, user |-> sessions[t.session].user,
   fortune |-> sessions[t.session].fortune, provider |-> t.provider,
   reward |-> t.reward, status |-> "available", created |-> now,
   expires |-> t.at + EntitlementTtl]

\* Slip: no transaction, so the session may flip without its entitlement.
GrantInPieces(h) ==
  LET t == tasks[h]
  IN  /\ IsAt(h, "grant")
      /\ ~EntitlementCollides(t)
      /\ \/ entitlements' = Append(entitlements, NewEntitlement(t))
         \/ UNCHANGED entitlements
      /\ sessions' = [sessions EXCEPT ![t.session].status = "rewarded"]
      /\ Become(h, Idle)
      /\ UNCHANGED <<now, views>>

\* The transaction: the entitlement, the session's and the attempt's status.
GrantReward(h) ==
  LET t == tasks[h]
  IN  /\ IsAt(h, "grant")
      /\ ~EntitlementCollides(t)
      /\ entitlements' = Append(entitlements, NewEntitlement(t))
      /\ sessions' = [sessions EXCEPT
           ![t.session].status = "rewarded",
           ![t.session].attempts = WithAttemptStatus(@, t.attempt, "verified")]
      /\ Become(h, Idle)
      /\ UNCHANGED <<now, views>>

\* P2002: the client path re-reads the session, the postback is refused.
RefuseReward(h) ==
  /\ IsAt(h, "grant")
  /\ EntitlementCollides(tasks[h])
  /\ Become(h, Idle)
  /\ UNCHANGED <<now, sessions, entitlements, views>>

(***************************************************************************)
(* consumeEntitlement and restoreEntitlement: single conditional updates,  *)
(* called by the readings pipeline.                                        *)
(***************************************************************************)
ConsumeEntitlement(e) ==
  /\ entitlements[e].status = "available"
  /\ entitlements[e].expires > now
  /\ entitlements' = [entitlements EXCEPT ![e].status = "consumed"]
  /\ UNCHANGED <<now, sessions, views, tasks>>

RestoreEntitlement(e) ==
  /\ entitlements[e].status = "consumed"
  /\ entitlements' = [entitlements EXCEPT ![e].status = "available"]
  /\ UNCHANGED <<now, sessions, views, tasks>>

(***************************************************************************)
(* The environment: the user watches the ad of the attempt in hand, time   *)
(* passes, a request is lost half way when its process stops.              *)
(***************************************************************************)
\* An honest client: it completes a session when its SDK reported an ad of that
\* session watched.
HonestClaim(s) == \E v \in views : v[1] = s

WatchAd(s) ==
  /\ sessions[s].status = "attempting"
  /\ <<s, sessions[s].count>> \notin views
  /\ views' = views \cup {<<s, sessions[s].count>>}
  /\ UNCHANGED <<now, sessions, entitlements, tasks>>

Tick ==
  /\ now < MaxNow
  /\ now' = now + 1
  /\ UNCHANGED <<sessions, entitlements, views, tasks>>

Crash(h) ==
  /\ ~IsAt(h, "idle")
  /\ Become(h, Idle)
  /\ UNCHANGED <<now, sessions, entitlements, views>>

-----------------------------------------------------------------------------
Start(h) ==
  \/ \E u \in Users, f \in Fortunes, k \in Keys : CreateSession(h, u, f, k)
  \/ \E u \in Users : RefuseSession(h, u)
  \/ \E s \in SessionIds :
       \/ \E reason \in Reported : ReportFailure(h, s, reason)
       \/ Cancel(h, s)
       \/ HonestClaim(s) /\ CompleteByClient(h, s)
       \/ \E v \in views : VerifyRewardCallback(h, v, s)

Continue(h) ==
  \/ LookupSession(h)
  \/ \E order \in Orders : InsertSession(h, order)
  \/ MarkAttempt(h)
  \/ NextAttempt(h)
  \/ EndChain(h)
  \/ CancelSession(h)
  \/ GrantReward(h)
  \/ RefuseReward(h)

Environment ==
  \/ \E e \in EntitlementIds : ConsumeEntitlement(e) \/ RestoreEntitlement(e)
  \/ \E s \in SessionIds : WatchAd(s)
  \/ Tick

Next ==
  \/ \E h \in Handlers : Start(h) \/ Continue(h) \/ Crash(h)
  \/ Environment

Spec == Init /\ [][Next]_vars

-----------------------------------------------------------------------------
(***************************************************************************)
(* Properties                                                              *)
(***************************************************************************)

\* Every row and every request in flight has the shape the service gives it.
TypeOK ==
  /\ now \in Nat
  /\ sessions \in Seq(SessionRow)
  /\ entitlements \in Seq(EntitlementRow)
  /\ views \subseteq Nat \X Nat
  /\ tasks \in [Handlers -> Task]

FollowsOrder(row) ==
  /\ {a.number : a \in row.attempts} = 1..row.count
  /\ \A a \in row.attempts : /\ a.number <= Len(row.order)
                             /\ a.provider = row.order[a.number]
  /\ \A a, b \in row.attempts : a.number = b.number => a = b

\* However failure reports, retries and crashes interleave, a session's
\* attempts are numbered 1..attemptCount without gap or repetition and attempt
\* n was made with the n-th provider of its order: reportFailure never skips
\* a provider, shows one twice or steps back from a stale read.
AttemptsFollowOrder == \A s \in SessionIds : FollowsOrder(sessions[s])

PointsAtNewest(row) ==
  row.status = "attempting" =>
    /\ row.count \in 1..Len(row.order)
    /\ row.current = row.order[row.count]

\* A session that can still reward points at the provider of its newest
\* attempt, which is what the userId-only postback is matched against.
AttemptingHasCurrent == \A s \in SessionIds : PointsAtNewest(sessions[s])

\* A client completion, a postback and their repetitions grant at most one
\* entitlement for a session, and no reward id is honoured twice.
NoDoubleReward ==
  \A d, e \in EntitlementIds :
    d # e => /\ entitlements[d].session # entitlements[e].session
             /\ \/ entitlements[d].provider # entitlements[e].provider
                \/ entitlements[d].reward # entitlements[e].reward

\* A session shown as rewarded has its entitlement, held by its own user for
\* its own fortune: getStatus never announces an unlock that does not exist.
RewardedHasEntitlement ==
  \A s \in SessionIds :
    sessions[s].status = "rewarded" =>
      \E e \in EntitlementIds : /\ entitlements[e].session = s
                               /\ entitlements[e].user = sessions[s].user
                               /\ entitlements[e].fortune = sessions[s].fortune

\* "A single ad can never unlock more than one fortune" (RewardedAdEntitlement).
OneUnlockPerAd ==
  \A u \in Users :
    Cardinality({e \in EntitlementIds : entitlements[e].user = u})
      <= Cardinality({v \in views : sessions[v[1]].user = u})

\* The expiry of a session is checked when a request begins, and its transaction
\* may commit after it.  What is true of such a late reward: it lives from the
\* time of the check (mediation.service.ts:277), so however long the transaction
\* waited, the unlock is over within EntitlementTtl of its session's expiry.
LateRewardEndsInTime ==
  \A e \in EntitlementIds :
    entitlements[e].expires
      < sessions[entitlements[e].session].expires + EntitlementTtl

\* A chain that has ended is never reopened: a report or a cancel that read
\* the session while it was active may still write it (it may even add the
\* next attempt to a rewarded session), but never makes it active again, and
\* only an active session can be completed, cancelled or reported on.
EndedStaysEnded ==
  [][\A s \in SessionIds :
       sessions[s].status # "attempting" =>
         sessions'[s].status # "attempting"]_vars

-----------------------------------------------------------------------------
(***************************************************************************)
(* The inductive invariant of MediationProofs: what the statements of a    *)
(* request may rely on although other requests ran since it read its row.  *)
(***************************************************************************)
\* Rows are never deleted, so a request's session is still there.
TasksPointToRows ==
  \A h \in Handlers :
    tasks[h].pc \in {"mark", "settle", "cancel", "grant"}
      => tasks[h].session \in SessionIds

\* A report may be about an attempt the session has left behind, never about
\* one it has not reached.
ReportsNotAhead ==
  \A h \in Handlers :
    tasks[h].pc \in {"mark", "settle"}
      => tasks[h].attempt <= sessions[tasks[h].session].count

TaskInv == TasksPointToRows /\ ReportsNotAhead

TableInv ==
  /\ AttemptsFollowOrder
  /\ AttemptingHasCurrent
  /\ NoDoubleReward
  /\ RewardedHasEntitlement

IInv == TypeOK /\ TaskInv /\ TableInv

\* A request at the reward transaction read its session before it expired,
\* and every entitlement comes from such a request.
GrantsBeganLive ==
  \A h \in Handlers :
    tasks[h].pc = "grant" => tasks[h].at < sessions[tasks[h].session].expires

RewardsHaveSessions ==
  \A e \in EntitlementIds : entitlements[e].session \in SessionIds

ExpiryInv == GrantsBeganLive /\ RewardsHaveSessions /\ LateRewardEndsInTime

\* The reward requests and the entitlements of a session stand on an ad of
\* that session which was watched to the end.
GrantsHaveViews ==
  \A h \in Handlers :
    tasks[h].pc = "grant" => \E v \in views : v[1] = tasks[h].session

RewardsHaveViews ==
  \A e \in EntitlementIds :
    /\ entitlements[e].session \in SessionIds
    /\ entitlements[e].user = sessions[entitlements[e].session].user
    /\ \E v \in views : v[1] = entitlements[e].session

AdInv == IsFiniteSet(views) /\ GrantsHaveViews /\ RewardsHaveViews
=============================================================================
