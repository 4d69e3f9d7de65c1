------------------------------ MODULE Readings ------------------------------
(***************************************************************************)
(* The readings pipeline (ReadingsService.create) with the services it     *)
(* calls: the idempotency store, the free-daily counter, the consumption   *)
(* and restoration of rewarded-ad unlocks, and the readings table.         *)
(*                                                                         *)
(* Every await of create is a step boundary, so requests of one user, a    *)
(* double submit or a retry after a client-side timeout, interleave.  The  *)
(* timeout interceptor answers the client and leaves the handler running;  *)
(* here that is simply another request arriving meanwhile.                 *)
(***************************************************************************)
EXTENDS Integers, Sequences, FiniteSets

CONSTANTS
  Users, Fortunes,
  Unlocks, NoUnlock,    \* RewardedAdEntitlement ids; no adEntitlementId sent
  Keys, NoKey,          \* Idempotency-Keys; no key sent
  Requests,             \* the requests clients may send
  Allowance,            \* freeDailyAllowance, per fortune
  EnforceAccessLimits,  \* ENFORCE_ACCESS_LIMITS
  Faults,               \* what may fail besides the generation itself
  Handlers,             \* requests the API serves at the same time
  MaxReadings, MaxDay   \* bounds of the exploration

\* The validated body and headers of POST /readings: assertOfferingComplete and
\* findFortune have passed.  exempt is isPlatformUnlimited of its platform.
RequestType ==
  [user: Users, fortune: Fortunes, unlock: Unlocks \cup {NoUnlock},
   key: Keys \cup {NoKey}, exempt: BOOLEAN]

ASSUME RequestsAssumption == Requests \subseteq RequestType
ASSUME NullsAssumption == NoUnlock \notin Unlocks /\ NoKey \notin Keys
ASSUME BoundsAssumption ==
  /\ Allowance \in [Fortunes -> Nat]
  /\ EnforceAccessLimits \in BOOLEAN
  /\ MaxReadings \in Nat /\ MaxDay \in Nat
  /\ IsFiniteSet(Handlers)

Days == 0..MaxDay

VARIABLES
  day,      \* the calendar day in the app timezone
  unlocks,  \* RewardedAdEntitlement: owner, fortune, status, past expiresAt
  usage,    \* DailyFortuneUsage.successfulFreeUsageCount
  records,  \* IdempotencyKey rows of readings.create
  created,  \* every reading ever persisted, with what paid for it
  answers,  \* successful responses
  tasks     \* where each handler is in create

tables == <<unlocks, usage, records, created>>
vars == <<day, unlocks, usage, records, created, answers, tasks>>

-----------------------------------------------------------------------------
Methods == {"free_daily", "rewarded_ad", "free"}

UnlockRow ==
  [user: Users, fortune: Fortunes, status: {"none", "available", "consumed"},
   expired: BOOLEAN]

ReadingRow ==
  [user: Users, fortune: Fortunes, method: Methods,
   unlock: Unlocks \cup {NoUnlock}, key: Keys \cup {NoKey}]

\* Slip: every body has the same fingerprint.
BlindFingerprint(r) == <<>>

\* The fingerprint is a digest of the body, here the body itself.
Fingerprint(r) == <<r.fortune, r.unlock>>

NoRecord == [reading |-> 0]
RecordRow ==
  [fingerprint: Fortunes \X (Unlocks \cup {NoUnlock}), reading: Nat \ {0}]

AnswerRow == [request: RequestType, reading: Nat]

Idle == [pc |-> "idle"]
Task ==
  {Idle}
  \cup [pc: {"check", "access", "consume"}, request: RequestType]
  \cup [pc: {"generate", "restore"}, request: RequestType, method: Methods]
  \cup [pc: {"count", "record"}, request: RequestType, method: Methods,
        reading: Nat]

Become(h, task) == tasks' = [tasks EXCEPT ![h] = task]
IsAt(h, pc) == tasks[h].pc = pc
Req(h) == tasks[h].request

Generating(r, method) == [pc |-> "generate", request |-> r, method |-> method]

-----------------------------------------------------------------------------
Init ==
  /\ day = 0
  /\ unlocks \in [Unlocks -> [user: Users, fortune: Fortunes,
                              status: {"none"}, expired: {FALSE}]]
  /\ usage = [u \in Users |-> [f \in Fortunes |-> [d \in Days |-> 0]]]
  /\ records = [u \in Users |-> [k \in Keys |-> NoRecord]]
  /\ created = << >>
  /\ answers = {}
  /\ tasks = [h \in Handlers |-> Idle]

Busy == {h \in Handlers : ~IsAt(h, "idle")}

Submit(h, r) ==
  /\ IsAt(h, "idle")
  /\ Len(created) + Cardinality(Busy) < MaxReadings
  /\ Become(h, [pc |-> IF r.key = NoKey THEN "access" ELSE "check",
                request |-> r])
  /\ UNCHANGED <<day, tables, answers>>

\* findFortune or assertOfferingComplete refuse the body: nothing is touched.
RejectRequest(h) == IsAt(h, "idle") /\ UNCHANGED vars

(***************************************************************************)
(* IdempotencyService.check: replay the stored result, refuse another body *)
(* under the same key, or go on.                                           *)
(***************************************************************************)
Answer(h, reading) ==
  answers' = answers \cup {[request |-> Req(h), reading |-> reading]}

CheckReplay(h) ==
  /\ IsAt(h, "check")
  /\ LET row == records[Req(h).user][Req(h).key]
     IN  \/ /\ row = NoRecord
            /\ Become(h, [pc |-> "access", request |-> Req(h)])
            /\ UNCHANGED answers
         \/ /\ row # NoRecord
            /\ row.fingerprint = Fingerprint(Req(h))
            /\ Answer(h, row.reading)
            /\ Become(h, Idle)
         \/ /\ row # NoRecord
            /\ row.fingerprint # Fingerprint(Req(h))
            /\ Become(h, Idle)
            /\ UNCHANGED answers
  /\ UNCHANGED <<day, tables>>

(***************************************************************************)
(* The access decision: platform exemption, free daily, ad, or refusal.    *)
(***************************************************************************)
\* Slip: the last free reading is found again after it was counted.
FreeRemainingOffByOne(r) ==
  Allowance[r.fortune] + 1 - usage[r.user][r.fortune][day]

FreeRemaining(r) == Allowance[r.fortune] - usage[r.user][r.fortune][day]

DecideAccess(h) ==
  /\ IsAt(h, "access")
  /\ LET r == Req(h)
         gated == ~r.exempt
         free == FreeRemaining(r) > 0
     IN  \/ /\ ~gated
            /\ Become(h, Generating(r, "free"))
         \/ /\ gated /\ free
            /\ Become(h, Generating(r, "free_daily"))
         \/ /\ gated /\ ~free /\ r.unlock # NoUnlock
            /\ Become(h, [pc |-> "consume", request |-> r])
         \/ /\ gated /\ ~free /\ r.unlock = NoUnlock
            /\ Become(h, IF EnforceAccessLimits THEN Idle
                         ELSE Generating(r, "free"))
  /\ UNCHANGED <<day, tables, answers>>

\* The conditional update of consumeEntitlement.
Consumable(r) ==
  LET row == unlocks[r.unlock]
  IN  /\ row.user = r.user /\ row.fortune = r.fortune
      /\ row.status = "available" /\ ~row.expired

ConsumeUnlock(h) ==
  /\ IsAt(h, "consume")
  /\ \/ /\ Consumable(Req(h))
        /\ unlocks' = [unlocks EXCEPT ![Req(h).unlock].status = "consumed"]
        /\ Become(h, Generating(Req(h), "rewarded_ad"))
     \/ /\ ~Consumable(Req(h))
        /\ Become(h, Idle)
        /\ UNCHANGED unlocks
  /\ UNCHANGED <<day, usage, records, created, answers>>

(***************************************************************************)
(* Generation and persistence, and the catch block when either fails.      *)
(***************************************************************************)
NewReading(h) ==
  [user |-> Req(h).user, fortune |-> Req(h).fortune,
   method |-> tasks[h].method,
   unlock |-> IF tasks[h].method = "rewarded_ad" THEN Req(h).unlock
              ELSE NoUnlock,
   key |-> Req(h).key]

Persist(h) == created' = Append(created, NewReading(h))

AfterPersist(h) ==
  [pc |-> IF tasks[h].method = "free_daily" THEN "count" ELSE "record",
   request |-> Req(h), method |-> tasks[h].method,
   reading |-> Len(created) + 1]

GenerateReading(h) ==
  /\ IsAt(h, "generate")
  /\ Persist(h)
  /\ Become(h, AfterPersist(h))
  /\ UNCHANGED <<day, unlocks, usage, records, answers>>

\* Slip: the catch block does not restore.
AfterFailureForget(h) == Idle

\* Slip: the count runs whether or not the generation succeeded.
AfterFailureCount(h) ==
  IF tasks[h].method = "free_daily"
  THEN [pc |-> "count", request |-> Req(h), method |-> "free_daily",
        reading |-> Len(created)]
  ELSE Idle

AfterFailure(h) ==
  IF tasks[h].method = "rewarded_ad" THEN [tasks[h] EXCEPT !.pc = "restore"]
  ELSE Idle

GenerationFails(h) ==
  /\ IsAt(h, "generate")
  /\ Become(h, AfterFailure(h))
  /\ UNCHANGED <<day, tables, answers>>

\* The insert commits but its reply is lost: the catch block runs as well.
PersistReplyLost(h) ==
  /\ "lost_reply" \in Faults
  /\ IsAt(h, "generate")
  /\ Persist(h)
  /\ Become(h, AfterFailure(h))
  /\ UNCHANGED <<day, unlocks, usage, records, answers>>

\* Slip: the restore looks for the wrong status and matches no row.
RestoredNever(e) == unlocks

Restored(e) ==
  IF unlocks[e].status = "consumed"
  THEN [unlocks EXCEPT ![e].status = "available"] ELSE unlocks

RestoreUnlock(h) ==
  /\ IsAt(h, "restore")
  /\ unlocks' = Restored(Req(h).unlock)
  /\ Become(h, Idle)
  /\ UNCHANGED <<day, usage, records, created, answers>>

\* restoreAdEntitlement logs a failed restore and goes on.
RestoreFails(h) ==
  /\ "restore" \in Faults
  /\ IsAt(h, "restore")
  /\ Become(h, Idle)
  /\ UNCHANGED <<day, tables, answers>>

(***************************************************************************)
(* After success: count a free reading, record the result, answer.         *)
(***************************************************************************)
CountFree(h) ==
  /\ IsAt(h, "count")
  /\ usage' = [usage EXCEPT ![Req(h).user][Req(h).fortune][day] = @ + 1]
  /\ Become(h, [tasks[h] EXCEPT !.pc = "record"])
  /\ UNCHANGED <<day, unlocks, records, created, answers>>

CountFails(h) ==
  /\ "count" \in Faults
  /\ IsAt(h, "count")
  /\ Become(h, [tasks[h] EXCEPT !.pc = "record"])
  /\ UNCHANGED <<day, tables, answers>>

\* Slip: the upsert also updates.
RecordedLast(r, reading) ==
  [records EXCEPT ![r.user][r.key] =
     [fingerprint |-> Fingerprint(r), reading |-> reading]]

\* The upsert's update part is empty: the first result under a key stays.
Recorded(r, reading) ==
  IF records[r.user][r.key] = NoRecord
  THEN [records EXCEPT ![r.user][r.key] =
          [fingerprint |-> Fingerprint(r), reading |-> reading]]
  ELSE records

RecordResult(h) ==
  /\ IsAt(h, "record")
  /\ records' = IF Req(h).key = NoKey THEN records
                ELSE Recorded(Req(h), tasks[h].reading)
  /\ Answer(h, tasks[h].reading)
  /\ Become(h, Idle)
  /\ UNCHANGED <<day, unlocks, usage, created>>

\* The request fails although the reading is in the history.
RecordFails(h) ==
  /\ "record" \in Faults
  /\ IsAt(h, "record") /\ Req(h).key # NoKey
  /\ Become(h, Idle)
  /\ UNCHANGED <<day, tables, answers>>

(***************************************************************************)
(* The environment: mediation grants an unlock, an unlock expires, midnight*)
(* passes, the process stops.                                              *)
(***************************************************************************)
GrantUnlock(e) ==
  /\ unlocks[e].status = "none"
  /\ unlocks' = [unlocks EXCEPT ![e].status = "available"]
  /\ UNCHANGED <<day, usage, records, created, answers, tasks>>

ExpireUnlock(e) ==
  /\ unlocks[e].status # "none" /\ ~unlocks[e].expired
  /\ unlocks' = [unlocks EXCEPT ![e].expired = TRUE]
  /\ UNCHANGED <<day, usage, records, created, answers, tasks>>

Midnight ==
  /\ day < MaxDay
  /\ day' = day + 1
  /\ UNCHANGED <<tables, answers, tasks>>

Crash(h) ==
  /\ "crash" \in Faults
  /\ ~IsAt(h, "idle")
  /\ Become(h, Idle)
  /\ UNCHANGED <<day, tables, answers>>

-----------------------------------------------------------------------------
Continue(h) ==
  \/ CheckReplay(h)
  \/ DecideAccess(h)
  \/ ConsumeUnlock(h)
  \/ GenerateReading(h)
  \/ GenerationFails(h)
  \/ PersistReplyLost(h)
  \/ RestoreUnlock(h)
  \/ RestoreFails(h)
  \/ CountFree(h)
  \/ CountFails(h)
  \/ RecordResult(h)
  \/ RecordFails(h)

Environment ==
  \/ \E e \in Unlocks : GrantUnlock(e) \/ ExpireUnlock(e)
  \/ Midnight

Next ==
  \/ \E h \in Handlers : \/ \E r \in Requests : Submit(h, r)
                         \/ RejectRequest(h)
                         \/ Continue(h)
                         \/ Crash(h)
  \/ Environment

Spec == Init /\ [][Next]_vars

\* A started request is carried on: Node's event loop resumes every pending
\* await, and the provider call is bounded by its own timeout.
FairSpec == Spec /\ \A h \in Handlers : WF_vars(Continue(h))

-----------------------------------------------------------------------------
(***************************************************************************)
(* Properties                                                              *)
(***************************************************************************)

\* Every row and every request in flight has the shape the service gives it.
TypeOK ==
  /\ day \in Days
  /\ unlocks \in [Unlocks -> UnlockRow]
  /\ usage \in [Users -> [Fortunes -> [Days -> Nat]]]
  /\ records \in [Users -> [Keys -> RecordRow \cup {NoRecord}]]
  /\ created \in Seq(ReadingRow)
  /\ answers \subseteq AnswerRow
  /\ tasks \in [Handlers -> Task]

ReadingsOn(e) == {i \in DOMAIN created : created[i].unlock = e}

Holders(e) ==
  {h \in Handlers : /\ tasks[h].pc \in {"generate", "restore"}
                    /\ tasks[h].method = "rewarded_ad"
                    /\ Req(h).unlock = e}

\* Every unlock is accounted for: one that is not consumed has no reading and no
\* request at work on it, and one that is consumed has just one of the two, so
\* it pays for one reading and "the user never re-watches an ad for a reading
\* they did not receive", whatever double submits, failed generations and
\* restores happen around it.
UnlockAccounted ==
  \A e \in Unlocks :
    Cardinality(ReadingsOn(e)) + Cardinality(Holders(e))
      = IF unlocks[e].status = "consumed" THEN 1 ELSE 0

\* The phase of an unlock as Unlock.tla sees it.
Phase(e) ==
  IF unlocks[e].status # "consumed" THEN unlocks[e].status
  ELSE IF ReadingsOn(e) # {} THEN "spent" ELSE "held"

Promise == INSTANCE Unlock WITH phase <- [e \in Unlocks |-> Phase(e)]

\* The pipeline implements Unlock: no spent unlock comes back, no held one is
\* taken by another request, and every held one is settled.
ImplementsUnlock == Promise!FairSpec

FreeReadings(u, f) ==
  {i \in DOMAIN created : /\ created[i].user = u /\ created[i].fortune = f
                          /\ created[i].method = "free_daily"}

\* The counters of a user's days for a fortune, added up to each day.
AddsUp(u, f, sum) ==
  sum = [d \in Days |-> usage[u][f][d] + (IF d = 0 THEN 0 ELSE sum[d - 1])]

\* Every reading counted for a user and a fortune, on any day.
Counted(u, f) ==
  LET sum[d \in Days] ==
        usage[u][f][d] + (IF d = 0 THEN 0 ELSE sum[d - 1])
  IN  sum[MaxDay]

\* "Only ever incremented after a successful reading": the counters never add
\* up to more than the free readings delivered, so no failed generation burns
\* an allowance, across midnight too.
CountedAfterSuccess ==
  \A u \in Users, f \in Fortunes :
    Counted(u, f) <= Cardinality(FreeReadings(u, f))

\* How far simultaneous requests can push a day's counter past the allowance:
\* each of them may have read it before any was counted.
OvershootBounded ==
  \A u \in Users, f \in Fortunes :
    Allowance[f] > 0 =>
      usage[u][f][day] <= Allowance[f] + Cardinality(Handlers) - 1

\* A response, replayed or not, is a reading of the caller, for the fortune
\* and the unlock this very request names.
AnswersMatchRequests ==
  \A a \in answers :
    LET reading == created[a.reading]
    IN  /\ reading.user = a.request.user
        /\ reading.fortune = a.request.fortune
        /\ reading.key = a.request.key
        /\ reading.unlock \in {a.request.unlock, NoUnlock}

\* What a key replays never changes, even when the requests that race under
\* it finish in another order than they began.
RecordsAreFinal ==
  [][\A u \in Users, k \in Keys :
       records[u][k] # NoRecord => records'[u][k] = records[u][k]]_vars

-----------------------------------------------------------------------------
(***************************************************************************)
(* The inductive invariant of ReadingsProofs.                              *)
(***************************************************************************)
\* Row i of a table of readings is what request r asked for.
Serves(table, i, r) ==
  /\ i \in DOMAIN table
  /\ table[i].user = r.user /\ table[i].fortune = r.fortune
  /\ table[i].key = r.key
  /\ table[i].unlock \in {r.unlock, NoUnlock}

\* A request that has persisted its reading carries the id of that reading.
TasksServe ==
  \A h \in Handlers :
    tasks[h].pc \in {"count", "record"}
      => Serves(created, tasks[h].reading, Req(h))

\* The request a record is about.
Recording(u, k, row) ==
  [user |-> u, key |-> k,
   fortune |-> row.fingerprint[1], unlock |-> row.fingerprint[2]]

\* A record's reading is its user's, made under its key from its body.
RecordsServe ==
  \A u \in Users, k \in Keys :
    LET row == records[u][k]
    IN  row # NoRecord => Serves(created, row.reading, Recording(u, k, row))

AnswersServe == \A a \in answers : Serves(created, a.reading, a.request)

\* Only a request with a key looks its record up, only one that names an
\* unlock consumes it, only one that consumed it restores it, and only a free
\* reading is counted.
TasksCarry ==
  \A h \in Handlers :
    /\ tasks[h].pc = "check" => Req(h).key \in Keys
    /\ tasks[h].pc = "consume" => Req(h).unlock \in Unlocks
    /\ tasks[h].pc = "generate" /\ tasks[h].method = "rewarded_ad"
         => Req(h).unlock \in Unlocks
    /\ tasks[h].pc = "restore"
         => tasks[h].method = "rewarded_ad" /\ Req(h).unlock \in Unlocks
    /\ tasks[h].pc = "count" => tasks[h].method = "free_daily"

\* The requests that found a free reading left and have not counted it yet.
Uncounted(u, f) ==
  {h \in Handlers : /\ tasks[h].pc \in {"generate", "count"}
                    /\ tasks[h].method = "free_daily"
                    /\ Req(h).user = u /\ Req(h).fortune = f}

\* They are what a day's counter may still grow by.
RoomForUncounted ==
  \A u \in Users, f \in Fortunes :
    Allowance[f] > 0 =>
      usage[u][f][day] + Cardinality(Uncounted(u, f))
        <= Allowance[f] + Cardinality(Handlers) - 1

\* Only the current day is ever counted on.
FutureUncounted ==
  \A u \in Users, f \in Fortunes, d \in Days : d > day => usage[u][f][d] = 0

\* The requests that persisted a free reading and have not counted it yet.
Delivered(u, f) ==
  {h \in Handlers : /\ tasks[h].pc = "count" /\ tasks[h].method = "free_daily"
                    /\ Req(h).user = u /\ Req(h).fortune = f}

\* There is a reading for every one counted and for every one about to be.
ReadingsCoverCounts ==
  \A u \in Users, f \in Fortunes :
    Counted(u, f) + Cardinality(Delivered(u, f))
      <= Cardinality(FreeReadings(u, f))

IInv ==
  /\ TypeOK
  /\ TasksServe /\ RecordsServe /\ AnswersServe
  /\ TasksCarry
  /\ RoomForUncounted /\ FutureUncounted

\* With these faults an unlock may be lost with the request that consumed it.
NothingLost == {"lost_reply", "crash", "restore"} \cap Faults = {}

\* What UnlockAccounted says of one unlock, without counting: unless it is
\* consumed it has neither a reading nor a request at work on it ...
OneClaim(e) ==
  /\ unlocks[e].status # "consumed" => ReadingsOn(e) = {} /\ Holders(e) = {}
  /\ ReadingsOn(e) = {} \/ Holders(e) = {}
  /\ \A i, j \in ReadingsOn(e) : i = j
  /\ \A g, h \in Holders(e) : g = h

\* ... and once consumed it has one of the two.
SomeClaim(e) ==
  unlocks[e].status = "consumed" => ReadingsOn(e) # {} \/ Holders(e) # {}

UnlockInv ==
  \A e \in Unlocks : OneClaim(e) /\ (NothingLost => SomeClaim(e))
=============================================================================
