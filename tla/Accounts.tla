------------------------------ MODULE Accounts ------------------------------
(***************************************************************************)
(* AuthService, TokenService, UsersService and FeatureFlagsService: logins *)
(* by Telegram and by device, the user rows they find or create, the       *)
(* tokens they sign, the calls that present one, and the feature flag that *)
(* opens the guest login.                                                  *)
(*                                                                         *)
(* API instances share the database and Redis, each with a clock of its    *)
(* own and the keys its process holds.  A handler awaits at every call to  *)
(* either store, so handlers interleave there; a store that fails throws.  *)
(***************************************************************************)
EXTENDS Integers, Sequences, FiniteSets

CONSTANTS
  Handlers, Instances,
  Does,            \* the requests a handler may be given
  InstanceOf,      \* the instance that serves a handler
  TicksPerSecond,  \* of the clocks; a token counts whole seconds
  Offset,          \* how far an instance's clock is ahead
  Null,            \* a field or a header that is not there
  Telegrams,       \* verified initData (telegram, name, locale) with a header
  Devices,         \* device ids, each with a header: Accept-Language or Null
  Edits,           \* profile input: displayName, birthMonth, optOut, or Null
  Clean,           \* normalizeDisplayName: a typed name |-> the stored one
  Refused,         \* what Clean gives for a name that is not valid
  NoMonth,         \* a birthMonth that names no month
  Ttl,             \* AuthConfig.tokenTtlSeconds
  Skew,            \* CLOCK_SKEW_SECONDS of token.service.ts
  FlagTtl,         \* FeatureFlagsService.CACHE_TTL_SECONDS, in ticks
  FlagDefault,     \* defaults['auth.guest']
  FlagRows,        \* what operators put in the feature_flags row, or Null
  MaxNow, MaxCalls, MaxFaults     \* bounds of the exploration: restarts are faults

ASSUME ClocksAssumption ==
  /\ InstanceOf \in [Handlers -> Instances]
  /\ Offset \in [Instances -> Int]
  \* Clocks that differ by more than the tolerated skew are out of scope.
  /\ \A i, j \in Instances : Offset[i] - Offset[j] <= TicksPerSecond * Skew
  /\ TicksPerSecond \in Nat \ {0}
  /\ Ttl \in Nat \ {0} /\ Skew \in Nat /\ FlagTtl \in Nat \ {0}

TelegramIds == {t.telegram : t \in Telegrams}
DeviceIds == {d.device : d \in Devices}
Cleaned == {Clean[n] : n \in DOMAIN Clean}
Months == ({e.birthMonth : e \in Edits} \cup {Null}) \ {NoMonth}

\* Input as the pipes let it through; telegramId and deviceId are two columns,
\* and a name that is refused is none.
ASSUME InputsAssumption ==
  /\ Null \notin TelegramIds /\ TelegramIds \cap DeviceIds = {}
  /\ Refused \notin {t.name : t \in Telegrams} \cup {Null}
  /\ Null \notin Cleaned \cup {NoMonth}
  /\ Edits \subseteq [displayName: DOMAIN Clean \cup {Null},
                     birthMonth: Months \cup {NoMonth}, optOut: BOOLEAN \cup {Null}]
  /\ FlagRows \subseteq {Null} \cup BOOLEAN /\ FlagDefault \in BOOLEAN

VARIABLES
  users,       \* the User rows in the order of their creation
  flag,        \* the feature_flags row of auth.guest, and when it changed
  cache,       \* its entry in Redis
  configured,  \* whether a key pair is configured
  keys,        \* the key pair each process signs and verifies with
  tokens,      \* the access tokens handed out
  now,
  tasks,       \* where each handler is
  calls, faults      \* used up of their bounds

stores == <<users, flag, cache>>
spent == <<calls, faults>>
vars == <<stores, configured, keys, tokens, now, tasks, spent>>

-----------------------------------------------------------------------------
Users == DOMAIN users

\* A clock cut to whole seconds, as a token has it.
Seconds(i, at) == (at + Offset[i]) \div TicksPerSecond
Clock(i) == Seconds(i, now)

\* Where a handler is, and what it holds there.
Idle ==
  [pc |-> "idle", op |-> Null,
   anchor |-> Null, name |-> Null, locale |-> Null, header |-> Null,
   user |-> Null, rename |-> FALSE, edit |-> Null,
   value |-> Null, read |-> 0,     \* the flag as read, and when: history
   confirmed |-> {}]               \* profiles confirmed at the call: history

IsAt(h, pc) == tasks[h].pc = pc
Become(h, task) == tasks' = [tasks EXCEPT ![h] = task]
Goto(h, pc) == Become(h, [tasks[h] EXCEPT !.pc = pc])
Reply(h) == Become(h, Idle)

\* A store that does not answer, or a process that stops.
Fault == faults < MaxFaults /\ faults' = faults + 1

Confirmed == {u \in Users : users[u].onboarded}

\* A call the server takes up.
Call(h, task) ==
  /\ IsAt(h, "idle") /\ task.op \in Does[h] /\ calls < MaxCalls
  /\ calls' = calls + 1
  /\ Become(h, [task EXCEPT !.confirmed = Confirmed])

NewUser(anchor, name, locale) ==
  [anchor |-> anchor, name |-> name, month |-> Null,
   locale |-> IF locale = Null THEN "fa" ELSE locale,
   onboarded |-> FALSE, optOut |-> FALSE, version |-> 0]

-----------------------------------------------------------------------------
(***************************************************************************)
(* TokenService.                                                           *)
(***************************************************************************)
\* The token a login ends with; a guest's has no Telegram anchor.
Sign(h, u) ==
  LET i == InstanceOf[h]
      t == tasks[h]
  IN  [user |-> u, telegram |-> IF t.op = "telegram" THEN t.anchor ELSE Null,
       key |-> keys[i], iat |-> Clock(i), exp |-> Clock(i) + Ttl,
       login |-> t.anchor, handed |-> now]     \* login, handed: history

\* Slip: the skew is taken off the token's life and not added to it.
VerifyStrictly(i, t, at) ==
  /\ t.key = keys[i]
  /\ t.exp > Seconds(i, at) + Skew
  /\ t.iat <= Seconds(i, at) + Skew

\* Whether an instance accepts a token at a time, with the key it has now.
Verify(i, t, at) ==
  /\ t.key = keys[i]
  /\ t.exp > Seconds(i, at) - Skew
  /\ t.iat <= Seconds(i, at) + Skew

-----------------------------------------------------------------------------
(***************************************************************************)
(* Both logins begin: Telegram's once its initData is verified, the        *)
(* guest's with the flag.                                                  *)
(***************************************************************************)
LoginWithTelegram(h) ==
  /\ \E t \in Telegrams :
       Call(h, [Idle EXCEPT !.pc = "find", !.op = "telegram",
                            !.anchor = t.telegram, !.name = t.name,
                            !.locale = t.locale, !.header = t.header])
  /\ UNCHANGED <<stores, configured, keys, tokens, now, faults>>

LoginAsGuest(h) ==
  /\ \E d \in Devices :
       Call(h, [Idle EXCEPT !.pc = "cached", !.op = "guest",
                            !.anchor = d.device, !.header = d.header])
  /\ UNCHANGED <<stores, configured, keys, tokens, now, faults>>

\* The rest of loginAsGuest: a closed flag answers NOT_FOUND.
Answer(h, enabled) == IF enabled THEN Goto(h, "find") ELSE Reply(h)

RowSays == IF flag.row = Null THEN FlagDefault ELSE flag.row

Served == cache # Null /\ now < cache.expires

FlagFails(h) ==
  /\ tasks[h].pc \in {"cached", "row", "remember"}
  /\ Fault
  /\ Answer(h, FlagDefault)
  /\ UNCHANGED <<stores, configured, keys, tokens, now, calls>>

GetCached(h) ==
  /\ IsAt(h, "cached")
  /\ IF Served THEN Answer(h, cache.value) ELSE Goto(h, "row")
  /\ UNCHANGED <<stores, configured, keys, tokens, now, spent>>

FindFlag(h) ==
  /\ IsAt(h, "row")
  /\ Become(h, [tasks[h] EXCEPT !.pc = "remember", !.value = RowSays, !.read = now])
  /\ UNCHANGED <<stores, configured, keys, tokens, now, spent>>

\* Slip: a flag that is cached stays cached.
SetCachedForGood(h) ==
  /\ IsAt(h, "remember")
  /\ cache' = [value |-> tasks[h].value, expires |-> MaxNow + 1,
               read |-> tasks[h].read, set |-> now]
  /\ Answer(h, tasks[h].value)
  /\ UNCHANGED <<users, flag, configured, keys, tokens, now, spent>>

SetCached(h) ==
  /\ IsAt(h, "remember")
  /\ cache' = [value |-> tasks[h].value, expires |-> now + FlagTtl,
               read |-> tasks[h].read, set |-> now]     \* read, set: history
  /\ Answer(h, tasks[h].value)
  /\ UNCHANGED <<users, flag, configured, keys, tokens, now, spent>>

-----------------------------------------------------------------------------
(***************************************************************************)
(* upsertTelegramUser and upsertGuestUser, and the end of both logins.     *)
(***************************************************************************)
Of(anchor) == {u \in Users : users[u].anchor = anchor}

\* The login holds its user, whose row it read or wrote with this locale.
Holding(h, u, locale) ==
  LET header == tasks[h].header
  IN  IF header \notin {Null, locale}
      THEN /\ Become(h, [tasks[h] EXCEPT !.pc = "sync", !.user = u])
           /\ UNCHANGED tokens
      ELSE /\ tokens' = tokens \cup {Sign(h, u)}
           /\ Reply(h)

\* Slip: Telegram's name is taken whenever there is one.
TakesName(h, u) == tasks[h].name # Null

MayUpdateName(h, u) == ~users[u].onboarded /\ tasks[h].name # Null

FindUser(h) ==
  /\ IsAt(h, "find")
  /\ \/ /\ Of(tasks[h].anchor) = {}
        /\ Goto(h, "create")
        /\ UNCHANGED tokens
     \/ \E u \in Of(tasks[h].anchor) :
          IF tasks[h].op = "guest"
          THEN Holding(h, u, users[u].locale)
          ELSE /\ Become(h, [tasks[h] EXCEPT !.pc = "update", !.user = u,
                                             !.rename = MayUpdateName(h, u)])
               /\ UNCHANGED tokens
  /\ UNCHANGED <<stores, configured, keys, now, spent>>

Taken(anchor) == Of(anchor) # {}

\* The insert meets the unique index, fails, or is made and seems to fail.
CreateUser(h) ==
  LET row == NewUser(tasks[h].anchor, tasks[h].name, tasks[h].locale)
  IN  /\ IsAt(h, "create")
      /\ \/ /\ Taken(tasks[h].anchor)
            /\ Goto(h, "adopt")
            /\ UNCHANGED <<users, tokens, faults>>
         \/ /\ ~Taken(tasks[h].anchor)
            /\ users' = Append(users, row)
            /\ Holding(h, Len(users) + 1, row.locale)
            /\ UNCHANGED faults
         \/ /\ Fault
            /\ users' \in {users} \cup
                 IF Taken(tasks[h].anchor) THEN {} ELSE {Append(users, row)}
            /\ Goto(h, "adopt")
            /\ UNCHANGED tokens
      /\ UNCHANGED <<flag, cache, configured, keys, now, calls>>

\* Slip: whoever created a row last is taken for the winner.
AdoptNewest(h) ==
  /\ IsAt(h, "adopt")
  /\ \/ /\ users = << >>
        /\ Reply(h)
        /\ UNCHANGED tokens
     \/ users # << >> /\ Holding(h, Len(users), users[Len(users)].locale)
  /\ UNCHANGED <<stores, configured, keys, now, spent>>

\* The winner's row, as it is; without one the error of the insert is thrown.
Adopt(h) ==
  /\ IsAt(h, "adopt")
  /\ \/ /\ Of(tasks[h].anchor) = {}
        /\ Reply(h)
        /\ UNCHANGED tokens
     \/ \E u \in Of(tasks[h].anchor) : Holding(h, u, users[u].locale)
  /\ UNCHANGED <<stores, configured, keys, now, spent>>

Updated(row, t) ==
  [row EXCEPT !.locale = IF t.locale = Null THEN @ ELSE t.locale,
              !.name = IF t.rename THEN t.name ELSE @]

UpdateUser(h) ==
  LET t == tasks[h]
  IN  /\ IsAt(h, "update")
      /\ users' = [users EXCEPT ![t.user] = Updated(@, t)]
      /\ Holding(h, t.user, Updated(users[t.user], t).locale)
      /\ UNCHANGED <<flag, cache, configured, keys, now, spent>>

\* The row takes the client's own language, and so does the answer.
SyncLocale(h) ==
  /\ IsAt(h, "sync")
  /\ users' = [users EXCEPT ![tasks[h].user].locale = tasks[h].header]
  /\ Holding(h, tasks[h].user, tasks[h].header)
  /\ UNCHANGED <<flag, cache, configured, keys, now, spent>>

-----------------------------------------------------------------------------
(***************************************************************************)
(* A call with a token: AuthGuard, then completeOnboarding or              *)
(* updateProfile of the user the token names.                              *)
(***************************************************************************)
Present(h) ==
  /\ \E t \in tokens, e \in Edits, op \in {"onboarding", "edit"} :
       /\ Verify(InstanceOf[h], t, now)
       /\ op = "onboarding" => Null \notin {e.displayName, e.birthMonth}
       /\ Call(h, [Idle EXCEPT !.pc = "require", !.op = op, !.user = t.user,
                               !.edit = e])
  /\ UNCHANGED <<stores, configured, keys, tokens, now, faults>>

\* normalizeDisplayName and parseBirthMonth throw.
Invalid(e) ==
  \/ e.displayName # Null /\ Clean[e.displayName] = Refused
  \/ e.birthMonth = NoMonth

\* The user is there: nothing in the API removes one.
RequireUser(h) ==
  /\ IsAt(h, "require")
  /\ IF \/ tasks[h].op = "onboarding" /\ users[tasks[h].user].onboarded
        \/ Invalid(tasks[h].edit)
     THEN Reply(h)
     ELSE Goto(h, "write")
  /\ UNCHANGED <<stores, configured, keys, tokens, now, spent>>

Written(row, op, e) ==
  [row EXCEPT
     !.name = IF e.displayName = Null THEN @ ELSE Clean[e.displayName],
     !.month = IF e.birthMonth = Null THEN @ ELSE e.birthMonth,
     !.optOut = IF op = "onboarding" \/ e.optOut = Null THEN @ ELSE e.optOut,
     !.onboarded = @ \/ op = "onboarding",
     !.version = @ + 1]

WriteProfile(h) ==
  LET t == tasks[h]
  IN  /\ IsAt(h, "write")
      /\ users' = [users EXCEPT ![t.user] = Written(@, t.op, t.edit)]
      /\ Reply(h)
      /\ UNCHANGED <<flag, cache, configured, keys, tokens, now, spent>>

-----------------------------------------------------------------------------
Init ==
  /\ users = << >>
  /\ flag = [row |-> Null, changed |-> 0]
  /\ cache = Null
  /\ configured \in BOOLEAN
  /\ keys = [i \in Instances |->
               IF configured THEN [of |-> Null, run |-> 0] ELSE [of |-> i, run |-> 0]]
  /\ tokens = {}
  /\ now = 0
  /\ tasks = [h \in Handlers |-> Idle]
  /\ calls = 0 /\ faults = 0

\* A query of the database that throws ends the call with an error.
QueryFails(h) ==
  /\ tasks[h].pc \in {"find", "adopt", "update", "sync", "require", "write"}
  /\ Fault
  /\ Reply(h)
  /\ UNCHANGED <<stores, configured, keys, tokens, now, calls>>

\* Operators switch the flag in the database.
SwitchFlag ==
  /\ now > flag.changed
  /\ \E row \in FlagRows \ {flag.row} :
       flag' = [row |-> row, changed |-> now]
  /\ UNCHANGED <<users, cache, configured, keys, tokens, now, tasks, spent>>

\* A process without configured keys makes a pair when it starts.
Restart(i) ==
  /\ Fault
  /\ tasks' = [h \in Handlers |-> IF InstanceOf[h] = i THEN Idle ELSE tasks[h]]
  /\ keys' = IF configured THEN keys ELSE [keys EXCEPT ![i].run = faults + 1]
  /\ UNCHANGED <<stores, configured, tokens, now, calls>>

Tick ==
  /\ now < MaxNow
  /\ now' = now + 1
  /\ UNCHANGED <<stores, configured, keys, tokens, tasks, spent>>

HandlerStep(h) ==
  \/ LoginWithTelegram(h) \/ LoginAsGuest(h) \/ Present(h)
  \/ GetCached(h) \/ FindFlag(h) \/ SetCached(h) \/ FlagFails(h)
  \/ FindUser(h) \/ CreateUser(h) \/ Adopt(h) \/ UpdateUser(h)
  \/ SyncLocale(h) \/ RequireUser(h) \/ WriteProfile(h) \/ QueryFails(h)

Next ==
  \/ \E h \in Handlers : HandlerStep(h)
  \/ \E i \in Instances : Restart(i)
  \/ SwitchFlag \/ Tick

Spec == Init /\ [][Next]_vars

-----------------------------------------------------------------------------
FlagPcs == {"cached", "row", "remember"}
Pcs ==
  {"idle"} \cup FlagPcs
  \cup {"find", "create", "adopt", "update", "sync", "require", "write"}
Ops == {"telegram", "guest", "onboarding", "edit"}
Names == (Cleaned \cup {t.name : t \in Telegrams} \cup {Null}) \ {Refused}
Locales ==
  {"fa", Null} \cup {t.locale : t \in Telegrams} \cup {t.header : t \in Telegrams}
  \cup {d.header : d \in Devices}
Anchors == TelegramIds \cup DeviceIds

UserRow ==
  [anchor: Anchors, name: Names, month: Months, locale: Locales,
   onboarded: BOOLEAN, optOut: BOOLEAN, version: Nat]

Token ==
  [user: Nat, telegram: TelegramIds \cup {Null}, login: Anchors,
   key: [of: Instances \cup {Null}, run: Nat],
   iat: Int, exp: Int, handed: Nat]

Task ==
  [pc: Pcs, op: Ops \cup {Null}, anchor: Anchors \cup {Null}, name: Names,
   locale: Locales, header: Locales, user: Nat \cup {Null}, rename: BOOLEAN,
   edit: Edits \cup {Null}, value: BOOLEAN \cup {Null}, read: Nat,
   confirmed: SUBSET Nat]

\* Every row, token and cached flag is one the code writes.
TypeOK ==
  /\ users \in Seq(UserRow)
  /\ flag \in [row: {Null} \cup BOOLEAN, changed: Nat]
  /\ cache = Null \/ cache \in [value: BOOLEAN, expires: Nat, read: Nat, set: Nat]
  /\ configured \in BOOLEAN
  /\ keys \in [Instances -> [of: Instances \cup {Null}, run: Nat]]
  /\ tokens \subseteq Token
  /\ now \in Nat
  /\ tasks \in [Handlers -> Task]
  /\ calls \in Nat /\ faults \in Nat

\* An identity has one user row, and whichever handler won the race to create
\* it, a token names the row of the identity that logged in
\* (UsersService.upsertTelegramUser and upsertGuestUser).
OneUserPerIdentity ==
  /\ \A u, v \in Users : users[u].anchor = users[v].anchor => u = v
  /\ \A t \in tokens :
       /\ t.user \in Users /\ users[t.user].anchor = t.login
       /\ t.telegram = IF t.login \in TelegramIds THEN t.login ELSE Null

\* A confirmed profile is its reader's: its name and month change by an edit,
\* or by a login or an onboarding that was under way when it was confirmed,
\* never by one that began later (UsersService, the scope-16 comment).
ConfirmedProfileKept ==
  [][\A u \in Users :
       /\ users[u].onboarded
       /\ <<users'[u].name, users'[u].month>> # <<users[u].name, users[u].month>>
       => \E h \in Handlers :
            /\ tasks'[h] # tasks[h]
            /\ tasks[h].op = "edit" \/ u \notin tasks[h].confirmed]_vars

\* A flag that was switched is obeyed once the time to live has passed, and the
\* time between the read and the write of the entry
\* (FeatureFlagsService.isEnabled writes what it read before an await).
FlagLagsByItsTtl ==
  Served /\ cache.value # RowSays =>
    now < flag.changed + FlagTtl + (cache.set - cache.read)

\* For as long as expiresIn told the client, less the fraction of a second that
\* is cut off when it is signed, a token is accepted by every instance that has
\* the key, whatever its clock, and no longer than the two tolerated skews after
\* (TokenService.sign and verify).  Times to come are judged by the keys of now.
TokenLivesAsTold ==
  \A t \in tokens, i \in Instances :
    LET told == t.handed + TicksPerSecond * Ttl
        over == told + TicksPerSecond * (2 * Skew)
    IN  \A at \in t.handed .. over :
          /\ (configured \/ t.key = keys[i]) /\ at + TicksPerSecond <= told
               => Verify(i, t, at)
          /\ Verify(i, t, at) => at < over

-----------------------------------------------------------------------------
(***************************************************************************)
(* The inductive invariant of AccountsProofs.                              *)
(***************************************************************************)
\* What a login carries: the identity it was verified for.
CarriesIdentity(t) ==
  t.pc \in {"find", "create", "adopt", "update", "sync"} \cup FlagPcs =>
    \/ t.op = "telegram" /\ t.anchor \in TelegramIds /\ t.pc \notin FlagPcs
    \/ t.op = "guest" /\ t.anchor \in DeviceIds /\ t.pc # "update"

\* A login that holds a user holds the row of its identity, and renames only
\* one that was not confirmed when it began.
HoldsItsRow(t) ==
  /\ t.pc \in {"update", "sync"} =>
       t.user \in Users /\ users[t.user].anchor = t.anchor
  /\ t.pc = "update" /\ t.rename => t.name # Null /\ t.user \notin t.confirmed

\* A write is of a valid profile, and an onboarding writes to a user that was
\* not confirmed when it began.
WritesProfile(t) ==
  /\ t.pc \in {"require", "write"} =>
       /\ t.op \in {"onboarding", "edit"} /\ t.user \in Users /\ t.edit \in Edits
       /\ t.op = "onboarding" => Null \notin {t.edit.displayName, t.edit.birthMonth}
  /\ t.pc = "write" =>
       ~Invalid(t.edit) /\ (t.op = "onboarding" => t.user \notin t.confirmed)

\* A flag read and since changed was read before the change.
ReadsFlag(t) ==
  t.pc = "remember" =>
    /\ t.value \in BOOLEAN /\ t.read <= now
    /\ t.value # RowSays => t.read <= flag.changed

Fits(t) ==
  /\ t.confirmed \subseteq Confirmed
  /\ CarriesIdentity(t) /\ HoldsItsRow(t) /\ WritesProfile(t) /\ ReadsFlag(t)

\* Profiles are confirmed whole.
RowsWhole ==
  \A u \in Users :
    users[u].onboarded =>
      Null \notin {users[u].name, users[u].month} /\ users[u].version > 0

\* A token was signed by an instance, with its clock and a key it had.
TokensSigned ==
  /\ \A t \in tokens :
       /\ \E i \in Instances : t.iat = Seconds(i, t.handed)
       /\ t.exp = t.iat + Ttl /\ t.handed <= now
       /\ configured => t.key = [of |-> Null, run |-> 0]
  /\ configured => \A i \in Instances : keys[i] = [of |-> Null, run |-> 0]

\* What is cached expires in time, and if it is stale was read before the change.
CacheLags ==
  /\ flag.changed <= now
  /\ cache # Null =>
       /\ cache.expires = cache.set + FlagTtl
       /\ cache.read <= cache.set /\ cache.set <= now
       /\ cache.value # RowSays => cache.read <= flag.changed

IInv ==
  /\ TypeOK /\ OneUserPerIdentity /\ RowsWhole
  /\ \A h \in Handlers : Fits(tasks[h])
  /\ TokensSigned /\ CacheLags
=============================================================================
