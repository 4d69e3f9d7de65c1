# Specifications of the fortune app

TLA+ models of the fortune app's API (`apps/api`) and of the mobile page that
drives it: rewarded-ad mediation, the readings pipeline and the engines behind
it, accounts and tokens, the reader's history, the coin wallet, the notification
sweep, and the ritual page over mediation and readings together. TLC checks them
on small instances; TLAPS proves the safety properties for all of them.

    tlc -config MediationChain.cfg MCMediation.tla     # one run
    tlapm MediationProofs.tla                          # the proofs of one module

Paths below are relative to `apps/api/src` unless they begin with `prisma/` or
`apps/`.

## 1. The system

A NestJS API over PostgreSQL (Prisma) and Redis serves a Flutter client. Node
runs one callback at a time and lets go of control at every `await`, and the
database runs at READ COMMITTED. So the unit of interleaving is the statement,
not the request, and what protects a multi-statement operation is what the code
puts there: a transaction, a conditional update, a unique key, a shared promise.

| component | state | operations | talks to | what is hard |
|---|---|---|---|---|
| Rewarded-ad mediation (`modules/ads/mediation.service.ts`) | AdMediationSession, AdProviderAttempt, RewardedAdEntitlement | createSession, reportFailure, cancel, completeByClient, verifyRewardCallback, consume, restore | the ad networks (postbacks), Readings (consume, restore) | two reward paths for one ad; late and repeated postbacks; reports from stale reads |
| Provider ordering and health (`modules/ads/provider-ordering.ts`) | none; reads attempts | orderProviders, recentHealth | Mediation | the order feeds back from the attempts |
| Readings (`modules/readings/readings.service.ts`) | Reading | create | idempotency store, free-daily, mediation, engines | many awaits, each may fail; double submits |
| Free-daily allowance (`modules/entitlements/free-daily.service.ts`) | DailyFortuneUsage | remaining, consume | Readings | checked before, counted after; midnight |
| HTTP idempotency (`infrastructure/idempotency`) | IdempotencyKey | check, record | Readings | nothing is reserved while a request runs |
| Fortune engines (`modules/readings/<engine>`, `providers`) | none | generate | flags, AI endpoint, Ghazal corpus | eight engines around one; retries; two languages in one answer; midnight inside a call |
| Ghazal corpus (`modules/readings/hafez/hafez-corpus.service.ts`, `prisma/seed.ts`) | Ghazal rows, a shared promise | ensureImported, getGhazal, seed | Hafez engine | one import for many; failing, restarted or rival importers |
| History, saving, deletion (`modules/readings`) | Reading | list, listSaved, setSaved, deleteReading, clearHistory | client | a cursor over rows that change |
| History summary (`modules/history-summary`) | AiSummaryCache | summarize | AI endpoint, profile | a sentence cached for other numbers |
| Reflections (`modules/reflections`) | ReflectionEntry | save, list, remove | Readings | find, then insert |
| Users, profiles (`modules/users`) | User | both upserts, completeOnboarding, updateProfile, syncLocale | auth | first-login races; confirmed names |
| Auth, tokens (`modules/auth`) | process keys | both logins, sign, verify, guard | users, flags | clocks and keys of several instances |
| Feature flags and cache (`infrastructure/feature-flags`, `cache`) | a row, a Redis entry | isEnabled | auth, engines, sweep | read, await, then cache |
| Coin wallet (`modules/wallet`) | Wallet, CoinTransaction | getOrCreate, debit, refund | – | transactions, unique keys, locks |
| Notifications (`modules/notifications`) | NotificationPreference, NotificationDelivery | update, sweep | scheduler, Telegram | overlapping sweeps, crashes, days and hours |
| Access options (`modules/entitlements/access-options.service.ts`) | none | forFortune | free-daily, mediation | advice acted upon later |
| Ritual page (`apps/mobile/lib/features/{access,reading,ritual_entry}`) | two controllers | begin, watchAd, reset, submit | Access options, Mediation, Readings | lost calls that the server finishes; keys kept or rotated |
| Telegram bot, search, health, events and outbox, other screens | none or caches | – | – | – |

What makes each of the modelled parts correct:

- **Mediation**: a chain of providers is walked in order, once, and never
  reopened; an ad gives one unlock, to the session it was watched for; a session
  that says "rewarded" has its unlock.
- **Readings**: an unlock pays for one reading or is given back; a key replays
  one answer, always the same; failed readings do not use up the allowance.
- **Engines**: the same intention draws the same card on the same day; a reading
  states the card its prompt named, in the language and the digits of its reader;
  a ghazal that is drawn is stored; every request ends.
- **History**: a walk shows each row once; a summary speaks of the numbers beside
  it; a save fails only when it was raced.
- **Accounts**: one row per identity; a confirmed profile is its reader's; a flag
  is obeyed within its time to live; a token is good for as long as was told.
- **Wallet**: the balance is the sum of the ledger; it is never negative; a
  reason moves coins once; a user has one wallet with one starter; calls do not
  wait for each other for ever.
- **Notifications**: no message twice; the cap holds up to a known overshoot;
  every reader has their turn.
- **Ritual page**: only watched ads are claimed; a used unlock is never carried into
  a reading; no second ad follows a completed one; no reading is opened twice; the page
  comes back.

`PROJECT.json` lists every component with its status, and every hazard with the
line where it bites and the properties that watch it.

## 2. The modules

| module | models | variables |
|---|---|---|
| `Mediation` | MediationService | `sessions` (with their attempts), `entitlements`, `views`, `tasks`, `now` |
| `ProviderOrdering` | orderProviders, recentHealth | (operators) |
| `Unlock` | the abstract promise about an unlock: none, available, held, spent | `phase` |
| `Readings` | ReadingsService.create with idempotency, free-daily, consume and restore | `unlocks`, `usage`, `records`, `created`, `answers`, `tasks`, `day` |
| `Draws` | decks, folding of letters, every draw | (operators) |
| `Engines` | READING_PROVIDER and the ghazal corpus; extends `Draws` | `configured`, `file`, `ghazals`, `import`, `today`, `tasks` |
| `History` | list, save, delete, summary, reflections | `readings`, `used`, `reflections`, `cache`, `optOut`, `tasks`, `now` |
| `Accounts` | AuthService, TokenService, UsersService, FeatureFlagsService | `users`, `flag`, `cache`, `configured`, `keys`, `tokens`, `tasks`, `now` |
| `Wallet` | WalletService, WalletRepository, TransactionService | `wallets`, `ledger`, `tasks`, `reply` |
| `Notifications` | NotificationsService and notification-plan | `deliveries`, `messages`, `prefs`, `lastReading`, `eligible`, `tasks`, `now` |
| `AccessFlow` | the ritual page, composed with `Mediation` and `Readings` | theirs, and `monetized`, `access`, `accessKey`, `submission`, `submitKey`, `minted`, `earned`, `shown`, `lost` |
| `<Module>Proofs` | theorems about `Mediation`, `Readings`, `Engines`, `History`, `Accounts`, `Wallet`, `Notifications`, `AccessFlow` | |
| `MC*` | instances for TLC | |

Conventions shared by all of them:

- A request runs on a *handler*; `tasks[h]` is its program counter with exactly
  the values the code holds in local variables across the await. An action is
  the code between two awaits, and its name says which.
- A table is a sequence (position = id = creation order), a set of rows or a
  function of its key, one argument for each column (`usage[u][f][d]`,
  `records[u][k]`, `messages[u][k][d]`); a unique key is a guard of the insert,
  with the rollback or the error path as the other disjunct.
- Checks that touch no state (ownership, unknown fortune, malformed body) are
  part of the guard; a request they refuse changes nothing.
- A definition commented `Slip:` is a plausible mistake in the definition that
  follows it. It is used only to show that a property would notice.

### Mediation and ProviderOrdering

`createSession` is three steps (count and check the daily limit; look the
Idempotency-Key up; insert under the unique `(userId, idempotencyKey)`),
`reportFailure` three (check on a read row; close the attempt; open the next
attempt or end the chain), `cancel` two, and both reward paths two (read a
rewardable session; the batch transaction, which either commits its three writes
or hits one of the two unique keys of RewardedAdEntitlement). The session's last
write in `reportFailure` and in `cancel` is unconditional, as in the code: it may
overwrite a status written meanwhile. `views` remembers the ads that were
watched, so that a postback can be late, repeated and out of order.
`completeByClient` asks for no proof of an ad: it rewards any live session of the
caller, and so does `CompleteByClient`. That clients complete what they watched is
an assumption about the environment, `HonestClaim`, made where requests begin.
`SidProviders` are the networks that echo our session id; for the others
`resolveRewardSession` picks the user's newest active session on that provider.
Three representative reasons stand for the terminal ones, one for the fallback
ones. `Orders` is the set of orders a new session may be given. `ProviderOrdering`
defines that order; `MCMediation` computes every order that some set of
configured networks and some history of attempts can produce, checks
(`DemotedNeverRemoved`) that demotion loses no network, and uses the result as
`Orders`.

### Readings and Unlock

`create` is followed await by await: idempotency check, access decision,
conditional consumption of an unlock, generation and insert, the catch block's
restore, the daily count, the idempotency record. `Faults` names what may fail in
an instance besides the generation itself: the process (`crash`), the restore,
the count and the record (whose errors the code treats differently), and the
reply of a committed insert (`lost_reply`). Unlocks appear as granted rows;
mediation is in `Mediation`. `Unlock` is what a reader of the schema expects of
an unlock, and `Promise == INSTANCE Unlock WITH phase <- ...` maps the rows, the
readings and the requests in flight onto its four phases.

### Draws and Engines

A character is a letter in a form (plain, Arabic, Persian, digit, diacritic), and
`NormalizeIntention` folds and trims in the code's order. Decks are sequences of
ids in the code's order. SHA-256 is the constant `Digest`; each draw reads from it
what the code reads (a modulus, an orientation, three numbers), with the salt and
the day where the code puts them.

`Engines` is one call of `generate()` per task. The chain of raw engines is
followed from outside in: an engine whose fortune, flag and configuration fit
draws and asks the model, else it passes the request inwards to the AI provider
or, without a configured model, to the mock. `RequestOnce` is one attempt with
its possible ends (refused with a status, no answer, an answer that parses or
not), `AttemptFails` the loop around it. Wording is left out; what is kept of a
prompt and of a reading is the card it names and, line by line, what the line is,
the languages of its words and the script of its digits, which is what
`OneCardThroughout` and `OneLanguage` tell apart. A line is not simply in the
reader's language: cards and runes have their English name for every reader but
the Persian (`CardName`), a surah, a poem, a verse and the word that was counted
have one script, meanings are left out for those who do not read Persian
(`Source`), and digits are the reader's where the code passes them through
`digits()` (`Counting`), Persian in the abjad working (`RenderBreakdown`, for
words of at most `MaxBreakdownLetters` letters) and those of the deck in the
reference of a verse. The import of the
ghazals is a task of its own that readings join, as `importing ??=` makes it:
validate the file, count, upsert, count again; it may fail at each step, the
process may restart, and the seed script may write beside it.

### History

Rows of one reader. `list`, `listSaved` and the list of reflections are walks: a
page is a query with the cursor of the page before, and `lost` marks a walk whose
cursor's row was deleted or unmarked between two pages. `summarize` counts the
digest, reads the profile, looks in the cache by fingerprint, asks the model with
the facts of the digest and remembers the sentence; rules speak when the model
does not. `used` has the ids that were ever given out: an id, and with it a
fingerprint, never comes back for another row. `save` finds the entry, then
updates or creates it; the pair (user, reading) is unique, and an entry on no
reading is always new.

### Accounts

Instances have clocks of their own (`Offset`, at most `Skew` apart) and, when no
key pair is configured, keys of their own run. Both logins are followed through
flag, find, create, the adoption of the winner's row after a unique violation,
the update that may take Telegram's name, and the token. The model's clock ticks
`TicksPerSecond` times a second, and `Seconds` cuts what an instance reads of it,
as signing and verifying do. The flag is read
through Redis: the value found in the database is cached after an await, with the
time to live counted from the write. An edit of a profile may be refused for its
name or its month (`Invalid`). Input arrives verified: the HMAC of Telegram
and the parsing of a JWT are decided before.

### Wallet

A transaction's writes stay in its task until `Commit`; a wallet row it updated
is locked until then (`Locked`), and an insert waits for an open transaction that
inserted the same unique key (`AwaitsRival`). A unique violation leaves a
transaction aborted: statements after it fail. No other module calls
`debitForReading` or `refundDebit` in this commit; they are modelled as their
callers may use them, racing and repeated.

### Notifications

A preference request carries some of the fields: `Patches` are functions on
subsets of `Columns`, and `Patched` stores those over the row, or over the
defaults. `decideNotifications` is an operator (quiet hours, mute, cap, the three kinds in
their priority); the sweep is a process that keeps the clock it started with and
the page of preferences it loaded. A delivery row is written before the message
is sent and stays whatever becomes of the message. Time is counted in hours and a
day has `HoursPerDay` of them. MiniApp opens are `OpenFortune`; the feature flag
off is a sweep that does nothing. Where `Faults` allows it, a query of a page may
throw, which ends that sweep (`QueryFails`), or the process may stop, which ends
all of them (`Crash`); `BudgetMayEnd` says whether a sweep may run out of time
after a page.

### AccessFlow

The page of one reader and one fortune: `Ads == INSTANCE Mediation` and
`Api == INSTANCE Readings` are the server, and the variables of the client are
the states of AccessFlowController and ReadingSubmissionController with their
two keys. A call of the client is taken up by one of the `ClientHandlers`
(`access.call` and its like remember which) and begins an operation of the server
module; when that handler is idle again the client takes the answer in the same
step. A call may also be lost on its way or given up (`Lose`): the server then
goes on with it, nobody hears, and the next call of the chain runs beside it on
another handler. So a claim that timed out races the report that follows it, and
a creation or a submission that timed out races its retry. A row of RewardedAdEntitlement is a row of both server modules,
and `SameGrant` and `SameStatus` keep them the same. `forFortune` is a read of
both, and its answer is acted upon later. Only the AccessPreparingAd state of the
page is split, into the awaits of `watchAd`.

## 3. The runs

| run | what it shows |
|---|---|
| `MediationChain` | one session with every order (also the empty one), every class of reason, two concurrent handlers, expiry, crashes: attempts follow the order without gap, an ended chain stays ended, a reward committed after the expiry is over within the unlock's time to live of it |
| `MediationSessions` | two users, two sessions, networks that echo the session id: one unlock per session, per reward id and per ad, and every rewarded session has its entitlement |
| `MediationOneUnlock` | *violated*: without the echoed id one ad unlocks two fortunes |
| `ReadingsFaults` | every fault, two fortunes under one key, midnight: replayed answers match their requests, records never change, failures never count, the overshoot is bounded by the number of handlers |
| `ReadingsNoWaste` | three racing requests for one unlock: it is spent once or given back, and the pipeline implements `Unlock` with its liveness |
| `Engines` | two requests of eight engines and an ordinary fortune in four languages and one that is not supported, one import, failing models and databases, restarts, midnight: the same words draw the same, the card of the prompt is the card of the reading, the reader's language and digits with the exceptions listed in `OneLanguage`, no hole in the corpus, errors of the import are not remembered, every request ends |
| `History` | two requests walk, summarise and save while the reader creates, saves, deletes and clears: each row once, sentences about their own numbers, failed saves only when raced |
| `Accounts` | two instances and handlers, a switched flag, failing stores, restarts: one row per identity, confirmed profiles kept, the flag obeyed within its time to live, tokens good for as long as was told, on clocks a second apart that are cut to seconds |
| `WalletRaces` | three racing calls, failures and crashes: the ledger is the truth, nothing is overdrawn, coins move once per reason, a user has one wallet and one starter, every call ends |
| `NotificationsRace` | two sweeps, changing preferences, crashes: no duplicate message, bounded overshoot of the cap |
| `NotificationsPaging` | three readers in pages of two, readers joining: everyone is considered again and again |
| `AccessFlow` | the page over the whole server, one lost call that goes on beside the next ones, late postbacks, failing records: `ClaimIsHonest`, `UnlockIsFresh`, `NoSecondAdAfterReward`, `EachReadingShownOnce`, `PageComesBack` |

Every passing run's properties have a mutant in `PROJECT.json`: a `Slip:` that
TLC finds with the run's own configuration. `TypeOK` of Readings, Wallet,
Notifications, Engines, Accounts and AccessFlow is no property of a run: it is
proved. Every inductive invariant below was an invariant of its runs before it
was proved. (The readings as they were
made, which the invariant of History says exist, were a variable of their own for
that.)

### Disagreements between code and text

*"A single ad can never unlock more than one fortune"*
(`prisma/schema.prisma:388`), checked by `MediationOneUnlock` and violated: the
client's completion of session A and the delayed postback about the same ad,
which names no session and is bound to session B (`mediation.service.ts:443`),
use different reward ids.

Visible in the models and left without a run of their own:

- *"Persian eyes read Persian digits; everyone else reads their own"*
  (`modules/readings/providers/reading-labels.ts:32`): the values of an abjad
  working are in Persian digits for everyone (`abjad-numerology.ts:118`), the
  ayah of a verse in Latin digits (`quran-reading.provider.ts:247`). These are
  the lines of `OddDigits`, and `OneLanguage` shows that there is no other.
  English card names for Arabic and Turkish readers are what
  `reading-labels.ts:98-103` announces, and no disagreement.
- *"A retry after a timeout replays the same reading instead of paying twice"*
  (`apps/mobile/.../reading_submission_controller.dart:35`): the record is
  written last (`readings.service.ts:180`), so a retry that arrives while the
  first request still runs makes a second reading under its key.
- *"The one-time fortune unlock"* (`prisma/schema.prisma:386`): when the insert
  commits and its reply is lost, the unlock is given back although its reading is
  there (`readings.service.ts:145-155`), and pays for another.
- *"A second refund attempt returns the existing refund"*
  (`wallet.service.ts:130`): it is looked up in the transaction that the unique
  violation has aborted (`wallet.service.ts:160`), and the call fails. The coins
  are safe.
- *"The next tick ... picks up where this one stopped"*
  (`notifications.service.ts:175`): a sweep out of budget starts again at the
  first page, and readers of later pages may never be considered.
  `EveryReaderConsidered` fails with `BudgetMayEnd = TRUE`.
- A rewarded session may still turn cancelled or failed, by a report or a cancel
  that read it before (`mediation.service.ts:184`, 194). No text says otherwise,
  and the unlock stays.
- The client's retry after a timed-out free or unlocked reading that the server
  finished meets the ad sheet, carries another unlock under the same key and is
  refused as DUPLICATE_REQUEST (`_submitPending` resets the access flow and
  forgets the unlock).
- An unlock granted after the page gave up (late postback), or given back after a
  failed generation, cannot be found by the client: it is asked for another ad.
- Two simultaneous readings pass an allowance of one: the check is before the
  generation and the count after it (`readings.service.ts:121`;
  `prisma/schema.prisma:316-319` calls the grant atomic). `OvershootBounded` is
  what holds.
- The daily ad limit is counted only when a session opens
  (`mediation.service.ts:70`); a restored unlock keeps its old expiry
  (`mediation.service.ts:488-494`).
- A retried debit can be refused with INSUFFICIENT_COINS before its key is
  looked at (`wallet.service.ts:64-74`, 95).
- The weekly reminder can come on two consecutive days: the gap is counted in
  24-hour days, the deliveries in calendar days (`notification-plan.ts:221-224`).
  A preference changed while a sweep runs is not seen by it
  (`notifications.service.ts:154`).
- The loser of two racing saves of a reflection gets the error of the store
  (`modules/reflections/reflections.service.ts:90-93` calls the save idempotent).
- A cursor whose row was deleted gives an empty page, where
  `readings.service.ts:193-196` says that a stale cursor starts from the top.

### Bounds, and why they are enough

- *Handlers*: two requests are enough for every race between two steps. The
  readings of one unlock use three, because a restore, a second consumption and
  the insert are three parties; the wallet uses three, so that two calls can wait
  for one that holds a lock.
- *Mediation*: `MediationChain` has one session because its properties are about
  one chain; two providers give a first, a next and a last attempt. The second
  key lets an exhausted or expired session be asked for again. `MaxNow = 1` with
  `SessionTtl = 1` puts the expiry between any two steps.
  `MediationSessions` has two sessions, which a collision needs, on one
  provider, where all the reward ids are comparable, and no clock.
- *Readings*: `MaxReadings` is the number of inserts; running requests count
  against it, so no handler is cut off half way. `MaxDay = 1` is one midnight,
  which may fall between any two awaits.
- *Engines*: one handler tries each of nine fortunes with the Arabic or Persian
  spelling of one word or with silence, the other brings the Persian spelling to
  tarot and Hafez. One retry (`MaxRetries = 1`) gives a first, a repeated and a
  last attempt; the statuses are one that is retried and one that is not; the
  completions are of each shape the extractor tells apart, with and without the
  sections an engine requires. `MaxBreakdownLetters = 2` puts words on both sides
  of the limit, which is 24 in the code. One midnight, one restart and one database fault
  may fall anywhere. The corpus file is one that proves itself or one with a gap;
  the rows present at the start are any subset.
- *History*: days of two hours and a range of one day, so that a window and the
  one before it fit in four hours; pages of one row make every row a cursor; four
  ids, given in an order that is not that of time; two requests and two changes
  beside them. `Notes` are interchangeable and used as a symmetry set.
- *Accounts*: two clocks a second apart, which is `Skew`; time to live, skew and
  flag time to live of one second. Two ticks a second let a token be signed in the
  middle of one; the clock has three ticks, enough for the flag's time to pass,
  and `TokenLivesAsTold` judges a token for all the time it may be good;
  three calls, the most a race for a row and a later login need; one fault, which
  may be a failing store or a restart.
- *Wallet*: a starter of one coin, debits of one coin with a key, again with
  it, and without one: one debit is affordable, a second only after a refund.
  `MaxLedger = 5` leaves room for the starter, a debit, its refund, a second
  debit and its refund. Running calls count against the bound.
- *Notifications*: days of two hours, a night and a morning. The race covers the
  night before and the weekly day, where all kinds compete for a cap of one. The
  paging run has a full and a partial page. It leaves crashes and the budget out,
  as either may cut every sweep short (see hazards).
- *AccessFlow*: two chains and two submission keys, so that a cycle can meet what
  the cycle before it left; two client handlers, so that a call that was given up
  runs beside the next one; two networks, one of which echoes the session id; two
  readings; one lost call, and the record may fail as well. The allowance is zero
  and limits are not enforced, so that a page without monetisation (`monetized` is
  either) submits without an unlock; `UnlockIsFresh` concerns the pages with ads.
  The same properties hold with a free reading and enforced limits, and with two
  lost calls, at less than three times the states. Nothing expires.

`MediationChain`, `MediationSessions` and the Readings runs without liveness use
the symmetry of handlers, the only set whose members no definition tells apart.
The action properties checked with it are symmetric in the handlers too.

Deadlock is checked except in `Engines`, `History` and `Accounts`, whose calls
are bounded by `MaxCalls`: when they are used up nothing is left to do. In the
others a refused request (`RefuseSession`, `RejectRequest`, a debit of no coins,
`SweepDisabled`) or a reader leaving the page is always possible.

### Fairness

- `Readings!FairSpec`: weak fairness of each handler's next step. The event loop
  resumes every settled promise, and the content provider has a timeout. Nothing
  obliges a client to send a request. `ReadingsNoWaste` excludes crashes,
  failed restores and lost replies: there is no recovery code, so with either of
  the first two an unlock may stay consumed for ever, and with the last one a
  spent unlock comes back. `ReadingsFaults` has all of them.
- `Engines!Fairness`: weak fairness of each request's step and of the import's.
  The AI call has a deadline, and the database answers or fails. Which of an
  attempt's ends happens is never assumed; the number of attempts is bounded by
  the code, not by the model.
- `Wallet!FairSpec`: strong fairness of each handler's step. PostgreSQL queues
  the waiters of a lock, so one that can repeatedly take it is served. Failures
  are never assumed.
- `Notifications!FairSpec`: weak fairness of the scheduler's tick together with
  the sweep's step.
- `AccessFlow!FairSpec`: weak fairness of the client's awaits together with the
  server's steps for the client. Calls have timeouts, polls a deadline, ads a load
  timeout and, on the web, a cap. Neither postbacks nor the reader need do
  anything.
- `Mediation`, `History` and `Accounts` have no liveness property. A client that
  disappears leaves its session as it is, and that is intended.

## 4. The proofs

TLAPS checks every theorem for all values of the constants that the named
assumptions of the modules allow: any number of users, handlers, providers,
readings, faults and bounds. The properties are those the runs check, so each
run is a small instance of its theorems.

| module | theorem | statement |
|---|---|---|
| `MediationProofs` | `Invariance`, `TypeCorrect` | `Spec => []IInv`, `Spec => []TypeOK` |
| | `OrderKept`, `CurrentKept` | `[]AttemptsFollowOrder`, `[]AttemptingHasCurrent` |
| | `SingleReward`, `RewardBacked` | `[]NoDoubleReward`, `[]RewardedHasEntitlement` |
| | `LateRewardBounded`, `NotReopened` | `[]LateRewardEndsInTime`, `EndedStaysEnded` |
| | `OneAdOneUnlock` | `[]OneUnlockPerAd`, if `Providers \subseteq SidProviders` |
| `ReadingsProofs` | `Invariance`, `TypeCorrect` | `[]IInv`, `[]TypeOK` |
| | `AnswersMatch`, `RecordsFinal` | `[]AnswersMatchRequests`, `RecordsAreFinal` |
| | `Overshoot`, `CountedWereDelivered` | `[]OvershootBounded`, `[]CountedAfterSuccess` |
| | `UnlockClaims`, `ImplementsPromise` | `[]UnlockInv`, `Promise!Spec`, if no reply is lost |
| | `UnlockAccount` | `[]UnlockAccounted`, if `NothingLost` |
| `EnginesProofs` | `Invariance`, `TypeCorrect` | `[]IInv`, `[]TypeOK` |
| | `CardThroughout`, `DrawnIsStored` | `[]OneCardThroughout`, `[]DrawnGhazalIsStored` |
| | `ErrorsAreFresh` | `ImportErrorsAreFresh` |
| | `SpeaksOneLanguage` | `[]OneLanguage`, if `HeadsKnown` |
| | `DrawsAgree` | `[]SameDraw`, if `WordsKnown` and `AbjadOfLetters` |
| `HistoryProofs` | `Invariance`, `TypeCorrect` | `[]IInv`, `[]TypeOK` |
| | `WalksShowEachOnce`, `FailedSaves` | `[]WalkShowsEachOnce`, `[]FailedSaveWasRaced` |
| | `SummariesTellTheirNumbers` | `[]SummaryTellsItsNumbers` |
| `AccountsProofs` | `Invariance`, `TypeCorrect` | `[]IInv`, `[]TypeOK` |
| | `OneUser`, `ProfileKept` | `[]OneUserPerIdentity`, `ConfirmedProfileKept` |
| | `FlagObeyed`, `TokenLife` | `[]FlagLagsByItsTtl`, `[]TokenLivesAsTold` |
| `WalletProofs` | `Invariance`, `TypeCorrect` | `[]IInv`, `[]TypeOK` |
| | `Solvent`, `MovedOnce` | `[]NeverOverdrawn`, `[]MovedOncePerReason` |
| | `BalanceIsLedgerSum`, `OneStarter` | `[]LedgerIsTruth`, `[]OneStarterPerUser` |
| `NotificationsProofs` | `Invariance`, `TypeCorrect` | `[]IInv`, `[]TypeOK` |
| | `NoDuplicates`, `CapOvershoot` | `[]NoDuplicateMessage`, `[]CapOvershootBounded` |
| `AccessFlowProofs` | `Invariance`, `TypeCorrect` | `[]IInv`, `[]TypeOK` |
| | `DrivesBothServices` | `Ads!Spec /\ Api!Spec` |
| | `ClaimsAreHonest` | `[]ClaimIsHonest` |
| | `UnlockFresh`, `NoSecondAd`, `ShownOnce` | `[]UnlockIsFresh`, `[]NoSecondAdAfterReward`, `[]EachReadingShownOnce` |

### What is assumed

The constants have the types their modules name in ASSUMEs, which TLC evaluates
on every run: orders are sequences of providers, limits are natural numbers,
handlers are finitely many where they are counted, null values are none of the
values. Some assumptions say more:

- `Providers \subseteq SidProviders` (`OneAdOneUnlock`): every network echoes the
  session id. Without it the property is false, as `MediationOneUnlock` shows.
- `HonestClaim` of Mediation (`OneAdOneUnlock`): a client completes a session when
  an ad of it was watched. The server does not check it, so it is a conjunct of
  the environment and not of `CompleteByClient`; `ClaimsAreHonest` shows that the
  page is such a client, whatever becomes of its calls.
- `"lost_reply" \notin Faults` (`UnlockClaims`, `ImplementsPromise`): the reply of
  a committed insert is not lost. With it the restore gives back an unlock that
  has its reading, as the code does. `UnlockAccount` excludes crashes and failed
  restores as well (`NothingLost`), after which an unlock may stay consumed with
  nobody at work on it. All other theorems of Readings hold with every fault.
- `ClocksAssumption` of Accounts: two instances' clocks are at most `Skew` apart,
  the tolerance of the verifier, and seconds have at least one tick.
  `InputsAssumption` says which inputs are
  verified ones and that a Telegram id is not a device id.
- `FilesAssumption`, `DigestAssumption` of Engines: the corpus file has the
  shape of its type (it may have gaps, or lie about its count), and the digits of
  a digest are a natural number.
- `HeadsKnown`: the model opens its advice in a language the app strips, or not at
  all. `WordsKnown`: but for vocalisation, words are written in forms the folds
  know. `AbjadOfLetters`: words of the same letters have the same abjad count;
  that is what `SelectSeq` computes, which only an induction over sequences could
  show, so TLC evaluates it (`SupposedHere` in `MCEngines`). For the seven other
  engines the draw is proved to depend on the letters alone.
- `HistoryAssumption`, `StoredAssumption`: ids are finitely many naturals (the
  order of the list needs one of ids), and the rows the history starts with have
  ids of their own, one reflection for a reading and times that are past: they
  were written by this program. When the summary is taken is arbitrary, and so are
  the hours at which the parts of the day begin and the order of the catalogue.
- In AccessFlow nothing expires and no day passes, as in its run; allowances,
  limits, keys and lost calls are arbitrary.

### The arguments

Few of the properties are inductive as they stand. What each invariant adds is
what a request holds in its local variables across an await, and why that is
still good when it is used.

*Mediation.* A request that settles a report writes from what it read earlier and
could, from an arbitrary state, be ahead of its session. `TaskInv` says that a
request points to an existing session (`TasksPointToRows`) and that the attempt
it reports is at most the session's count (`ReportsNotAhead`), which is kept
because counts only grow (`SessionsGrow`). The heart is lemma `AdvancedInv`: a
report about attempt m <= count wants to insert attempt m + 1; the numbers
1..count are taken, so the unique key lets it through only if m = count, which is
the correct next attempt. For the expiry, `GrantsBeganLive` keeps what a reward
request checked when it read its session, with the time of the check, from which
the unlock lives however late the transaction commits; for the ads, `AdInv` keeps for every
reward, granted or under way, the watched ad it stands on.

*Readings.* `TasksServe`, `RecordsServe` and `AnswersServe` say that the id a
request, a record or an answer carries names a reading made for that body under
that key; a reading's row is never written again, so they survive every step.
The allowance is overshot by the requests between the check and the count:
`RoomForUncounted` bounds counter and `Uncounted` requests together, and needs
`FutureUncounted` for midnight. `ReadingsCoverCounts` counts the readings on the
one side and the counters, day by day, with the requests about to count on the
other. `UnlockInv` states `UnlockAccounted` without cardinalities; `PromiseNext`
maps every step to one of `Unlock` or to a stutter. The part of the refinement
that is about fairness stays with TLC.

*Engines.* The invariant is stated call by call (`Sound`) and does not mention
other calls, so a step of one call is one lemma for the action and one
(`BecomesSound`) for all. A call keeps its engine's draw of its day and words
(`DrawnSo`), a prompt for that draw, and a directive for the keys of its engine;
for each engine a lemma shows that the lines it composes have the languages and
digits that `Readable` allows a line of their kind, and say "For today:" once. `CorpusInv` says that an import has its
rows up to the next one. The step that is easy to get wrong is the count: rows
are counted, not compared. `FileProves` shows by the surjection from positions to
numbers that a file that proved itself is a numbering of 1..count, and
`CountedRows` that as many rows of it as it counts are all of them; so what is
drawn from 1..count is a row, and the recount after the last row never rejects.

*History.* A list is sorted by `Before`; `RowsCanBeSorted` puts each row at the
place given by how many come before it, so a sorted list exists and `NewestLists`
says what every one of them is. `Walk` states what a walk owes: behind the row of
its cursor is all it began with, was left alone and did not show, and nothing it
showed. A row that is created comes before the cursor, unless it is of the same
hour; then its id decides, and the last conjunct of `Walk` (nothing shown has a
smaller id than a cursor of the present hour) is why it cannot have been shown.
`Saves` says that a save that nobody raced still finds what it found. For the
summaries, `Fingerprints` says that there is a fortune and a time for every
reading there has been, from which the ids in a fingerprint determine the counts
told beside it (`Known`); rows come and go, but what a reading was given never
changes, so two requests with the same fingerprint tell the same, at whatever
times they counted. `TellsOfRows` is why: counting rows is counting their ids.

*Accounts.* `Fits` keeps for each login the row of the identity it was verified
for, and for each write of a profile whether its user was confirmed when it
began; `Grows` says that rows are never removed or given to another identity.
`CacheLags` relates the time the flag was read to the time it was last changed:
what is stale was read before the change. `TokensSigned` gives each token the
clock it was signed with; `SecondsCut` bounds what cutting a clock to seconds
costs.

*Wallet.* The balance a debit checked is the balance it writes (`FundsInv`),
because the row is locked by one transaction (`LockInv`) until it commits.
`KeyInv` says that an inserted row has no rival, committed or in another open
transaction, which is what waiting for the rival (`AwaitsRival`) buys.
`BalanceIsLedgerSum` needs that a sum over ledger rows grows by the row that is
appended: the sums are functions on the naturals, and the induction is done by
taking the least counterexample (`SetInduction`). `StarterInv` says that a wallet
with an open creation has no starter yet and that a committed one has its own;
the unique user id decides the race (`StarterNext`).

*Notifications.* A message is sent by the sweep that inserted its row
(`SendsItsOwn`), and the unique key lets one sweep insert it. For the cap,
`Planned` is the set of what each sweep still has planned for a reader's day:
rows and plans together stay within one cap per sweep, where the cap is the
highest a reader may store (`Cap`, over the clamped patches). A plan is made from
rows counted before any of it is claimed, so two sweeps may each fill a cap.

*AccessFlow.* `ServerStep` shows that every step of the page is a step of
`Mediation` and of `Readings`, or leaves them alone; then their invariants,
proved once, hold of the composition. On top of them `OneTable` keeps the unlocks
of both modules the same rows, `KeysOpenOnce` ties a chain to its one session, whichever calls for it were given
up and still run on a handler,
and `CarriedIsNew` says that no request was ever sent with the unlock a running
chain would carry: it is why an answer replayed under a kept key never hands out
a spent one. `EarnedEnds` and `CycleStands` do the same for the ads and for the
submission keys.

### Only model-checked

- Liveness: `EveryCallEnds`, `EveryReaderConsidered`, `EveryRequestEnds`,
  `PageComesBack` and the fairness part of `ImplementsUnlock`. The provers do not
  treat fairness.
- What folds and sorts of the library compute: `AbjadOfLetters`; and that the
  digest of `History` takes the leading part of the day and the most read fortunes
  as its code does. The theorems about summaries hold whatever these operators
  return, as long as equal counts give equal answers. They are defined by
  `SelectSeq`, `SetToSortSeq` and `FoldLeft`, whose theorems take operators as
  parameters.

## 5. Not modelled

- Wording: prompts, labels and readings beyond their card, their languages and the
  script of their digits;
  what a fortune's offering asks of the reader beyond its kind.
- Telegram's HMAC, JWT and cursor parsing, rate limits, the HTTP
  shell: decided from one request, before the handlers above run.
- The Telegram bot's replies and statistics, search, the prompt suggested for a
  reflection: one stateless call with a fallback.
- Events, outbox, queue: no module publishes to them in this commit.
- On the mobile side: leaving the ritual page while an ad chain runs (its
  controller is disposed and its state can no longer be set), the warm cache of
  the AdMob player, the lists of history and saved readings, the login
  controller, theming and local storage.
- Expiry of idempotency records: no code reads it.

## 6. Plan

Proofs that are left:

1. The invariants behind the liveness properties (a call that waits for a lock
   waits for one that holds it and does not wait; a request has attempts left), as
   far as they can be stated without fairness.
2. That an order `ProviderOrdering` computes has every configured network once, for
   any number of networks: it has to be stated as the choice of a sorted list, as
   `Newest` is in `History`, since nothing can be proved of `SelectSeq`.

Modules that are left: the lists of the mobile client (a deletion answered after
a refresh), its session (a login begun twice), and leaving the ritual page while
an ad chain runs.
