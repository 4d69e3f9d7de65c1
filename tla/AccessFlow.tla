----------------------------- MODULE AccessFlow -----------------------------
(***************************************************************************)
(* The ritual page of the mobile client against the API it drives: the     *)
(* access decision (AccessOptionsService), the rewarded-ad chain           *)
(* (AccessFlowController over Mediation) and the submission                *)
(* (ReadingSubmissionController over Readings).                            *)
(*                                                                         *)
(* One reader on one page: the client has one call of each kind in the     *)
(* air, but a call it gave up goes on at the server beside the next one,   *)
(* and postbacks of the ad networks come whenever they like.  Every state  *)
(* of the page that awaits something is a value of access.pc; call is the  *)
(* handler that serves what it awaits, 0 while nothing reached the server. *)
(***************************************************************************)
EXTENDS Integers, Sequences, FiniteSets

CONSTANTS
  User, Fortune,
  Providers, NoProvider, Orders, SidProviders, RewardIdProviders,
  ClientRewardEnabled, DailyLimit,       \* see Mediation
  Allowance, EnforceAccessLimits, Faults,  \* see Readings
  ClientHandlers,                 \* serve the calls of the chain
  NetworkHandler,                 \* serves the postbacks
  ReadingHandlers,                \* serve the submissions
  MaxWatches, MaxKeys,            \* bounds: chain keys, submission keys
  MaxReadings,                    \* bound: rows of readings
  MaxLost                         \* bound: calls that fail or time out

ASSUME HandlersAssumption ==
  /\ ClientHandlers \subseteq Nat \ {0} /\ NetworkHandler \notin ClientHandlers \cup {0}
  /\ ReadingHandlers \subseteq Nat \ {0}
ASSUME FlowBoundsAssumption ==
  {Allowance, DailyLimit, MaxWatches, MaxKeys, MaxReadings, MaxLost}
    \subseteq Nat
ASSUME FlowInputsAssumption ==
  /\ Orders \subseteq Seq(Providers) /\ NoProvider \notin Providers
  /\ EnforceAccessLimits \in BOOLEAN /\ IsFiniteSet(ReadingHandlers)

VARIABLES
  now, sessions, entitlements, views, adTasks,                \* Mediation
  day, unlocks, usage, records, created, answers, readTasks,  \* Readings
  monetized,   \* kMonetizationEnabled, a switch of the build
  access,      \* AccessFlowState and what watchAd awaits
  accessKey,   \* AccessFlowController._idempotencyKey, 0 when null
  submission,  \* ReadingSubmissionState
  submitKey,   \* _pendingIdempotencyKey, 0 when null
  minted,      \* how many keys of each kind were made
  earned,      \* whether an ad of the running chain was completed
  shown,       \* the readings the page has opened
  lost         \* how many calls got no answer

\* What the page can submit; a null id or key is 0.
Bodies == [user: {User}, fortune: {Fortune}, unlock: 0..MaxWatches,
           key: 1..MaxKeys, exempt: {FALSE}]

AdHandlers == ClientHandlers \cup {NetworkHandler}

\* Nothing expires within an exploration.
Ads == INSTANCE Mediation WITH
  Users <- {User}, Fortunes <- {Fortune}, Keys <- 1..MaxWatches,
  SessionTtl <- 1, EntitlementTtl <- 1, DayLength <- 1,
  Reported <- {"no_fill", "skipped", "verification_failed"},
  Handlers <- AdHandlers,
  MaxSessions <- MaxWatches, MaxNow <- 0, tasks <- adTasks
Api == INSTANCE Readings WITH
  Users <- {User}, Fortunes <- {Fortune},
  Unlocks <- 1..MaxWatches, NoUnlock <- 0, Keys <- 1..MaxKeys, NoKey <- 0,
  Requests <- Bodies, Allowance <- [f \in {Fortune} |-> Allowance],
  Handlers <- ReadingHandlers, MaxDay <- 0, tasks <- readTasks

ads == <<now, sessions, entitlements, views, adTasks>>
api == <<day, unlocks, usage, records, created, answers, readTasks>>
client == <<monetized, access, accessKey, submission, submitKey, minted,
            earned, shown, lost>>
vars == <<ads, api, client>>

-----------------------------------------------------------------------------
Page(pc) == [pc |-> pc]
Proceed(unlock) == [pc |-> "proceed", unlock |-> unlock]
Playing(s, attempt) == [pc |-> "playing", session |-> s, attempt |-> attempt]
Claiming == [session |-> access.session, attempt |-> access.attempt,
             pc |-> "claiming", call |-> 0]
Reporting(reason) == [session |-> access.session, attempt |-> access.attempt,
                      pc |-> "reporting", call |-> 0, reason |-> reason]

\* The entitlement of a session as a status view has it, 0 when there is none.
UnlockOf(s, rows) ==
  IF \E e \in DOMAIN rows : rows[e].session = s
  THEN CHOOSE e \in DOMAIN rows : rows[e].session = s ELSE 0

\* Some free handler; the lowest, since they are all alike.
Serves(h, handlers, tasks) ==
  /\ tasks[h].pc = "idle"
  /\ \A g \in handlers : g < h => tasks[g].pc # "idle"

TakesCall(h) == Serves(h, ClientHandlers, adTasks)

\* Slip: the chain ends and its key stays.
KeptKey == accessKey
\* _rotateKey
RotatedKey == 0

\* AccessError shows a message and resets, like a dismissed dialog.
Reset == access' = Page("idle") /\ accessKey' = RotatedKey

Init ==
  /\ Ads!Init /\ Api!Init
  /\ monetized \in BOOLEAN
  /\ access = Page("idle") /\ accessKey = 0
  /\ submission = Page("idle") /\ submitKey = 0
  /\ minted = [access |-> 0, submit |-> 0]
  /\ earned = FALSE
  /\ shown = << >>
  /\ lost = 0

\* A call fails, on its way or by a timeout; the server may well go on with it.
Lose == lost < MaxLost /\ lost' = lost + 1

(***************************************************************************)
(* begin and AccessOptionsService: free, ad, or nothing today.             *)
(***************************************************************************)
MaySubmit ==
  /\ submitKey # 0 \/ minted.submit < MaxKeys
  /\ Len(created) + Cardinality(Api!Busy) < MaxReadings

Seal ==
  /\ access.pc = "idle" /\ submission.pc # "inflight"
  /\ MaySubmit
  /\ access' = IF monetized THEN Page("checking") ELSE Proceed(0)
  /\ UNCHANGED <<ads, api, monetized, accessKey, submission, submitKey, minted,
                 earned, shown, lost>>

\* forFortune
AccessState ==
  IF usage[User][Fortune][day] < Allowance THEN "free"
  ELSE IF Ads!UsedToday(User, now) < DailyLimit
          /\ \E order \in Orders : order # << >>
       THEN "ad_required" ELSE "unavailable"

OptionsAnswered ==
  /\ access.pc = "checking"
  /\ \/ /\ access' = CASE AccessState = "free"        -> Proceed(0)
                       [] AccessState = "ad_required" -> Page("sheet")
                       [] OTHER                       -> Page("limit")
        /\ UNCHANGED <<accessKey, lost>>
     \/ Reset /\ Lose
  /\ UNCHANGED <<ads, api, monetized, submission, submitKey, minted, earned,
                 shown>>

\* The sheet closed without an ad, the limit and exhausted dialogs closed.
Dismiss ==
  /\ access.pc \in {"sheet", "limit", "exhausted"}
  /\ Reset
  /\ UNCHANGED <<ads, api, monetized, submission, submitKey, minted, earned,
                 shown, lost>>

(***************************************************************************)
(* watchAd: open a session, then play, claim or report, attempt by attempt.*)
(***************************************************************************)
WatchAd ==
  /\ access.pc \in {"sheet", "exhausted"}
  /\ accessKey # 0 \/ minted.access < MaxWatches
  /\ LET key == IF accessKey # 0 THEN accessKey ELSE minted.access + 1
     IN  /\ accessKey' = key
         /\ minted' = IF accessKey # 0 THEN minted
                      ELSE [minted EXCEPT !.access = key]
         /\ \/ \E h \in ClientHandlers :
                 /\ TakesCall(h)
                 /\ Ads!CreateSession(h, User, Fortune, key)
                 /\ access' = [pc |-> "creating", call |-> h]
                 /\ UNCHANGED lost
            \/ /\ access' = [pc |-> "creating", call |-> 0]
               /\ \/ \E h \in ClientHandlers : Ads!RefuseSession(h, User)
                     /\ UNCHANGED lost
                  \/ Lose /\ UNCHANGED ads
  /\ earned' = FALSE
  /\ UNCHANGED <<api, monetized, submission, submitKey, shown>>

\* Slip: an ad that was closed early is claimed like one that was watched.
ClaimAnyway(outcome) ==
  IF outcome # "no_fill" THEN Claiming ELSE Reporting(outcome)

AfterAd(outcome) ==
  IF outcome = "completed" THEN Claiming ELSE Reporting(outcome)

\* The ad of the attempt ends.  Only a promise that resolved counts as completed;
\* an ad left open past _watchCap, or rejected by its SDK, may all the same be one
\* that its network takes for watched.
PlayAd ==
  /\ access.pc = "playing"
  /\ \E outcome \in {"completed", "skipped", "no_fill"}, seen \in BOOLEAN :
       /\ outcome = "completed" => seen
       /\ LET s == access.session
          IN  IF seen /\ sessions[s].status = "attempting"
                 /\ <<s, sessions[s].count>> \notin views
              THEN Ads!WatchAd(s) ELSE UNCHANGED ads
       /\ access' = AfterAd(outcome)
       /\ earned' = (earned \/ outcome = "completed")
  /\ UNCHANGED <<api, monetized, accessKey, submission, submitKey, minted,
                 shown, lost>>

\* A null unlock makes the client poll.
AfterClaim(unlock) ==
  IF unlock # 0 THEN Proceed(unlock)
  ELSE [Playing(access.session, access.attempt) EXCEPT !.pc = "polling"]

\* complete: a session that cannot be rewarded is reported as it stands.
SendClaim ==
  /\ access.pc = "claiming" /\ access.call = 0
  /\ IF ClientRewardEnabled /\ Ads!IsLive(access.session, now)
     THEN \E h \in ClientHandlers :
            /\ TakesCall(h)
            /\ Ads!CompleteByClient(h, access.session)
            /\ access' = [access EXCEPT !.call = h]
     ELSE /\ access' = AfterClaim(UnlockOf(access.session, entitlements))
          /\ UNCHANGED ads
  /\ UNCHANGED <<api, monetized, accessKey, submission, submitKey, minted,
                 earned, shown, lost>>

\* Slip: an unverified ad is reported like one that could not be shown.
NothingShown == "no_fill"
Unverified == "verification_failed"

\* _awaitVerification: the unlock, or the session ended or patience ran out.
Poll ==
  /\ access.pc = "polling"
  /\ LET unlock == UnlockOf(access.session, entitlements)
     IN  \/ unlock # 0 /\ access' = Proceed(unlock) /\ UNCHANGED lost
         \/ unlock = 0 /\ access' = Reporting(Unverified) /\ UNCHANGED lost
         \/ access' = Reporting(Unverified) /\ Lose
  /\ UNCHANGED <<ads, api, monetized, accessKey, submission, submitKey, minted,
                 earned, shown>>

\* What the loop does with a session it was sent.
Loop(s, rows) ==
  IF rows[s].status = "attempting"
  THEN access' = Playing(s, rows[s].count) /\ UNCHANGED accessKey
  ELSE /\ access' = IF rows[s].status = "rewarded"
                    THEN [pc |-> "confirming", session |-> s]
                    ELSE Page("exhausted")
       /\ accessKey' = RotatedKey

\* Slip: a report is sent until it succeeds.
ReportAgain == access' = [access EXCEPT !.call = 0] /\ UNCHANGED accessKey

\* Only a report that lets the chain fall through needs its answer.
ReportFailed ==
  /\ access' = CASE access.reason = "skipped"             -> Page("sheet")
                 [] access.reason = "verification_failed" -> Page("exhausted")
                 [] OTHER                                 -> Page("idle")
  /\ accessKey' = RotatedKey

ReportAnswered(s, rows) ==
  IF Ads!IsFallbackReason(access.reason) THEN Loop(s, rows) ELSE ReportFailed

SendReport ==
  /\ access.pc = "reporting" /\ access.call = 0
  /\ IF /\ Ads!IsLive(access.session, now)
        /\ sessions[access.session].count = access.attempt
     THEN \E h \in ClientHandlers :
            /\ TakesCall(h)
            /\ Ads!ReportFailure(h, access.session, access.reason)
            /\ access' = [access EXCEPT !.call = h]
            /\ UNCHANGED accessKey
     ELSE ReportFailed /\ UNCHANGED ads
  /\ UNCHANGED <<api, monetized, submission, submitKey, minted, earned, shown,
                 lost>>

\* The chain ended rewarded; without an answer the page proceeds empty-handed.
Confirm ==
  /\ access.pc = "confirming"
  /\ \/ /\ access' = Proceed(UnlockOf(access.session, entitlements))
        /\ UNCHANGED lost
     \/ access' = Proceed(0) /\ Lose
  /\ UNCHANGED <<ads, api, monetized, accessKey, submission, submitKey, minted,
                 earned, shown>>

\* An awaited call of the chain is lost, or the session was refused.
AdCallFails ==
  /\ \/ access.pc = "creating" /\ Reset
     \/ /\ access.pc = "claiming"
        /\ access' = AfterClaim(0) /\ UNCHANGED accessKey
     \/ access.pc = "reporting" /\ ReportFailed
  /\ IF access.pc = "creating" /\ access.call = 0 THEN UNCHANGED lost ELSE Lose
  /\ UNCHANGED <<ads, api, monetized, submission, submitKey, minted, earned,
                 shown>>

(***************************************************************************)
(* Mediation at work, for the call in the air and for those given up.      *)
(***************************************************************************)
\* A row of rewarded_ad_entitlements is a row of both modules.
SameGrant ==
  IF Len(entitlements') > Len(entitlements)
  THEN Api!GrantUnlock(Len(entitlements')) ELSE UNCHANGED api

SessionUnder(key, rows) == CHOOSE s \in DOMAIN rows : rows[s].key = key

AdAnswered ==
  CASE access.pc = "creating" ->
         Loop(SessionUnder(accessKey, sessions'), sessions')
    [] access.pc = "claiming" ->
         /\ access' = AfterClaim(UnlockOf(access.session, entitlements'))
         /\ UNCHANGED accessKey
    [] access.pc = "reporting" -> ReportAnswered(access.session, sessions')

AdStep(h) ==
  /\ Ads!Continue(h)
  /\ SameGrant
  /\ IF /\ access.pc \in {"creating", "claiming", "reporting"}
        /\ access.call = h /\ adTasks'[h].pc = "idle"
     THEN AdAnswered ELSE UNCHANGED <<access, accessKey>>
  /\ UNCHANGED <<monetized, submission, submitKey, minted, earned, shown,
                 lost>>

Postback ==
  /\ \E v \in views, s \in DOMAIN sessions :
       Ads!VerifyRewardCallback(NetworkHandler, v, s)
  /\ UNCHANGED <<api, client>>

(***************************************************************************)
(* _submitPending and submit: the access flow is reset, the key of a       *)
(* failed attempt is used again.                                           *)
(***************************************************************************)
SubmitPending ==
  /\ access.pc = "proceed"
  /\ Reset
  /\ LET key == IF submitKey # 0 THEN submitKey ELSE minted.submit + 1
         request == [user |-> User, fortune |-> Fortune,
                     unlock |-> access.unlock, key |-> key, exempt |-> FALSE]
     IN  /\ submitKey' = key
         /\ minted' = IF submitKey # 0 THEN minted
                      ELSE [minted EXCEPT !.submit = key]
         /\ \/ \E h \in ReadingHandlers :
                 /\ Serves(h, ReadingHandlers, readTasks)
                 /\ Api!Submit(h, request)
                 /\ submission' = [pc |-> "inflight", call |-> h]
                 /\ UNCHANGED lost
            \/ /\ submission' = [pc |-> "inflight", call |-> 0]
               /\ Lose /\ UNCHANGED api
  /\ UNCHANGED <<ads, monetized, earned, shown>>

\* Slip: the cycle ends and its key stays.
KeptSubmitKey == submitKey
NoSubmitKey == 0

\* The page opens the reading and resets the submission.
Succeeds(reading) ==
  /\ submission' = Page("idle") /\ submitKey' = NoSubmitKey
  /\ shown' = Append(shown, reading)

\* A retryable failure keeps the key.
Fails(retryable) ==
  /\ submission' = Page("failed")
  /\ submitKey' = IF retryable THEN submitKey ELSE NoSubmitKey
  /\ UNCHANGED shown

Ends(h) == submission = [pc |-> "inflight", call |-> h]
           /\ readTasks'[h].pc = "idle"
Ignored == UNCHANGED <<submission, submitKey, shown>>

\* IdempotencyService.check: a replay, DUPLICATE_REQUEST, or no answer yet.
Checked(h) ==
  LET r == readTasks[h].request
      row == records[User][r.key]
  IN  /\ Api!CheckReplay(h)
      /\ IF ~Ends(h) THEN Ignored
         ELSE IF row.fingerprint = Api!Fingerprint(r)
              THEN Succeeds(row.reading) ELSE Fails(FALSE)

\* ACCESS_REQUIRED (402) and AD_VERIFICATION_FAILED (403) are definitive.
Decided(h) ==
  /\ Api!DecideAccess(h) \/ Api!ConsumeUnlock(h)
  /\ IF Ends(h) THEN Fails(FALSE) ELSE Ignored

\* READING_FAILED (502) and an error of the record (500) are retryable.
Worked(h) ==
  /\ \/ readTasks[h].pc \in {"generate", "restore", "count"} /\ Api!Continue(h)
     \/ Api!RecordFails(h)
  /\ IF Ends(h) THEN Fails(TRUE) ELSE Ignored

Recorded(h) ==
  /\ Api!RecordResult(h)
  /\ IF Ends(h) THEN Succeeds(readTasks[h].reading) ELSE Ignored

\* Consumed and restored rows are rows of both modules, too.
SameStatus(h) ==
  IF unlocks' = unlocks THEN UNCHANGED ads
  ELSE LET e == readTasks[h].request.unlock
       IN  Ads!ConsumeEntitlement(e) \/ Ads!RestoreEntitlement(e)

ReadStep(h) ==
  /\ Checked(h) \/ Decided(h) \/ Worked(h) \/ Recorded(h)
  /\ SameStatus(h)
  /\ UNCHANGED <<monetized, access, accessKey, minted, earned, lost>>

\* Lost, or timed out at either end: the key is kept for the retry.
SubmissionTimesOut ==
  /\ submission.pc = "inflight"
  /\ Fails(TRUE)
  /\ IF submission.call = 0 THEN UNCHANGED lost ELSE Lose
  /\ UNCHANGED <<ads, api, monetized, access, accessKey, minted,
                 earned>>

\* Leaving the page disposes both controllers; answers come to nobody.
Leave ==
  /\ access.pc = "idle"
  /\ submission' = Page("idle") /\ submitKey' = NoSubmitKey
  /\ UNCHANGED <<ads, api, monetized, access, accessKey, minted, earned, shown,
                 lost>>

-----------------------------------------------------------------------------
Reader == Seal \/ WatchAd \/ Dismiss \/ Leave

Client ==
  \/ OptionsAnswered \/ PlayAd \/ SendClaim \/ Poll \/ SendReport \/ Confirm
  \/ AdCallFails \/ SubmitPending \/ SubmissionTimesOut

Next ==
  \/ Reader \/ Client \/ Postback
  \/ \E h \in AdHandlers : AdStep(h)
  \/ \E h \in ReadingHandlers : ReadStep(h)

Spec == Init /\ [][Next]_vars

\* Every await of the client ends: ads by their load timeout and _watchCap (on
\* Android by a callback of the SDK), polls by their deadline, calls because the
\* event loop of the server carries every request on.  Nothing is asked of
\* postbacks or of the reader.
FairSpec ==
  /\ Spec
  /\ WF_vars(\/ Client
             \/ \E h \in ClientHandlers : AdStep(h)
             \/ \E h \in ReadingHandlers : ReadStep(h))

-----------------------------------------------------------------------------
\* Types of what the client keeps; what the server keeps is typed in its modules.
AccessType ==
  [pc: {"idle", "checking", "sheet", "limit", "exhausted"}]
  \cup [pc: {"creating"}, call: ClientHandlers \cup {0}]
  \cup [pc: {"playing", "polling"}, session: Nat, attempt: Nat]
  \cup [pc: {"claiming"}, session: Nat, attempt: Nat,
        call: ClientHandlers \cup {0}]
  \cup [pc: {"reporting"}, session: Nat, attempt: Nat,
        call: ClientHandlers \cup {0},
        reason: {"no_fill", "skipped", "verification_failed"}]
  \cup [pc: {"confirming"}, session: Nat]
  \cup [pc: {"proceed"}, unlock: 0..MaxWatches]

SubmissionType ==
  [pc: {"idle", "failed"}]
  \cup [pc: {"inflight"}, call: ReadingHandlers \cup {0}]

TypeOK ==
  /\ monetized \in BOOLEAN /\ earned \in BOOLEAN
  /\ access \in AccessType /\ submission \in SubmissionType
  /\ minted \in [access: 0..MaxWatches, submit: 0..MaxKeys]
  /\ accessKey \in 0..minted.access /\ submitKey \in 0..minted.submit
  /\ shown \in Seq(Nat) /\ lost \in 0..MaxLost

\* The page never proceeds with an unlock that is already used: a chain that
\* was rewarded is not replayed for the next reading, whatever calls were given
\* up, answered late or confirmed by a postback in between.  It is what the
\* rotation of the key is for (access_flow_controller.dart 83-84).
UnlockIsFresh ==
  access.pc = "proceed" /\ access.unlock # 0 =>
    unlocks[access.unlock].status = "available"

\* "Neither path confirmed: no unlock, and NO fallback to another provider (could
\* double-show ads for one reward)": once the SDK said that an ad of the chain was
\* completed, the chain shows no other.
NoSecondAdAfterReward == access.pc = "playing" => ~earned

\* The page is the honest client that Mediation supposes: the session it claims is
\* one whose ad was watched to the end, unless it is over, whatever reports, lost
\* answers and postbacks came between (access_flow_controller.dart 158-162).
ClaimIsHonest ==
  access.pc = "claiming" /\ sessions[access.session].status = "attempting"
    => Ads!HonestClaim(access.session)

\* The page opens a reading once: a retry may end in the reading of the attempt
\* before it, but a new offering never brings back the reading of an old one.
EachReadingShownOnce ==
  \A i, j \in DOMAIN shown : shown[i] = shown[j] => i = j

\* Waiting for anything but the reader.
Busy ==
  \/ access.pc \notin {"idle", "sheet", "limit", "exhausted"}
  \/ submission.pc = "inflight"

\* However calls fail, the page comes back to the reader: the loading button is
\* never left behind.
PageComesBack == Busy ~> ~Busy

-----------------------------------------------------------------------------
(***************************************************************************)
(* The inductive invariant of AccessFlowProofs.                            *)
(***************************************************************************)
\* RewardedAdEntitlement is one table, whichever service writes it.
OneTable ==
  /\ Len(entitlements) <= MaxWatches
  /\ \A e \in 1..MaxWatches :
       unlocks[e].status = IF e \in DOMAIN entitlements
                           THEN entitlements[e].status ELSE "none"

\* A key opens one session, and nothing has a key that was not made yet.
KeysOpenOnce ==
  /\ Len(sessions) <= MaxWatches
  /\ \A s \in DOMAIN sessions : sessions[s].key <= minted.access
  /\ \A s, t \in DOMAIN sessions : sessions[s].key = sessions[t].key => s = t
  /\ \A h \in AdHandlers :
       adTasks[h].pc \in {"lookup", "insert"} => adTasks[h].key <= minted.access

\* Away from a chain no key is kept; in a chain its call, its session or its
\* unlock is there.
ChainStands ==
  /\ access.pc \in {"idle", "checking", "sheet", "limit", "exhausted"}
       => accessKey = 0
  /\ access.pc = "creating" /\ access.call # 0
       => /\ adTasks[access.call].pc \in {"lookup", "insert"}
          /\ adTasks[access.call].key = accessKey
  /\ access.pc \in {"playing", "polling", "claiming", "reporting", "confirming"}
       => access.session \in DOMAIN sessions
  /\ access.pc = "proceed" => access.unlock \in {0} \cup DOMAIN entitlements

\* Every request for a reading names an unlock that was granted, or none.
RequestsNameRows ==
  \A h \in ReadingHandlers :
    readTasks[h].pc # "idle"
      => readTasks[h].request.unlock \in {0} \cup DOMAIN entitlements

\* The unlock that the running chain would proceed with ...
Carried(e) ==
  \/ access.pc = "creating" /\ sessions[entitlements[e].session].key = accessKey
  \/ /\ access.pc \in {"playing", "polling", "claiming", "reporting",
                       "confirming"}
     /\ entitlements[e].session = access.session
  \/ access.pc = "proceed" /\ access.unlock = e

\* ... and the unlocks that a request took, or has been sent to take.
Offered(e) ==
  \/ entitlements[e].status # "available"
  \/ \E h \in ReadingHandlers :
       readTasks[h].pc # "idle" /\ readTasks[h].request.unlock = e

CarriedIsNew == \A e \in DOMAIN entitlements : Carried(e) => ~Offered(e)

\* After a completed ad the chain is on its way to an unlock or to its end.
EarnedEnds ==
  earned => /\ access.pc \notin {"playing", "creating"}
            /\ access.pc = "reporting" => ~Ads!IsFallbackReason(access.reason)

\* A page on its way to a reading has no submission in the air and a key left.
\* A call in the air runs under the key of the cycle, and the readings that
\* were opened have keys of other cycles.
CycleStands ==
  /\ access.pc # "idle" => /\ submission.pc # "inflight"
                           /\ submitKey # 0 \/ minted.submit < MaxKeys
  /\ submission.pc = "inflight" => submitKey # 0
  /\ submission.pc = "inflight" /\ submission.call # 0
       => /\ readTasks[submission.call].pc # "idle"
          /\ readTasks[submission.call].request.key = submitKey
  /\ \A i \in DOMAIN shown :
       /\ shown[i] \in DOMAIN created
       /\ created[shown[i]].key \in (1..minted.submit) \ {submitKey}

ClientInv ==
  /\ TypeOK
  /\ OneTable /\ KeysOpenOnce /\ ChainStands
  /\ RequestsNameRows /\ CarriedIsNew
  /\ EarnedEnds /\ CycleStands /\ EachReadingShownOnce

IInv == Ads!IInv /\ Ads!ExpiryInv /\ Api!IInv /\ ClientInv /\ ClaimIsHonest
=============================================================================
