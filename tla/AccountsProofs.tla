--------------------------- MODULE AccountsProofs ---------------------------
(***************************************************************************)
(* Theorems about Accounts, for every value of its constants: whatever the *)
(* handlers, the clocks within the tolerated skew, the inputs and the      *)
(* faults.                                                                 *)
(***************************************************************************)
EXTENDS Accounts, SequenceTheorems, TLAPS

-----------------------------------------------------------------------------
(***************************************************************************)
(* What every step keeps of the tables.                                    *)
(***************************************************************************)
\* Rows are added or written, never removed, moved to another identity or
\* unconfirmed.
Grows ==
  /\ users' \in Seq(UserRow)
  /\ \A u \in Users :
       /\ u \in Users'
       /\ users'[u].anchor = users[u].anchor
       /\ users[u].onboarded => users'[u].onboarded

\* The clock goes on, and a flag that changes does so now.
Passes ==
  /\ now' \in Nat /\ now <= now'
  /\ flag' = flag \/ flag'.changed = now

\* A clock cut to seconds is within the second.
LEMMA SecondsCut ==
  ASSUME NEW i \in Instances, NEW at \in Int
  PROVE  /\ Seconds(i, at) \in Int
         /\ TicksPerSecond * Seconds(i, at) <= at + Offset[i]
         /\ at + Offset[i] < TicksPerSecond * Seconds(i, at) + TicksPerSecond
<1>1. at + Offset[i] \in Int /\ TicksPerSecond \in Nat /\ TicksPerSecond > 0
  BY ClocksAssumption
<1> QED
  BY <1>1, Z3 DEF Seconds

\* Of two products by the same number the greater has the greater factor.
LEMMA GreaterFactor ==
  ASSUME NEW g \in Nat, g > 0, NEW a \in Int, NEW b \in Int, g * a < g * b
  PROVE  a < b
<1>1. ASSUME b <= a PROVE FALSE
  <2>1. g * b <= g * a
    BY <1>1, Z3
  <2>2. g * a \in Int /\ g * b \in Int
    OBVIOUS
  <2> QED
    BY <2>1, <2>2
<1> QED
  BY <1>1

\* A task that fits keeps fitting.
LEMMA FitsKept ==
  ASSUME TypeOK, Grows, Passes, NEW t \in Task, Fits(t)
  PROVE  Fits(t)'
<1>1. \A u \in Users : /\ u \in Users'
                       /\ users'[u].anchor = users[u].anchor
                       /\ users[u].onboarded => users'[u].onboarded
  BY DEF Grows
<1>2. Confirmed \subseteq Confirmed'
  BY <1>1 DEF Confirmed
<1>3. CarriesIdentity(t)' /\ HoldsItsRow(t)' /\ WritesProfile(t)'
  BY <1>1 DEF Fits, CarriesIdentity, HoldsItsRow, WritesProfile, Invalid
<1>4. ReadsFlag(t)'
  BY DEF Fits, ReadsFlag, Passes, TypeOK, Task, RowSays
<1> QED
  BY <1>2, <1>3, <1>4 DEF Fits

\* Only a handler's own task changes when it moves on.
LEMMA BecomeMoves ==
  ASSUME TypeOK, NEW h \in Handlers, NEW t \in Task, Become(h, t)
  PROVE  /\ tasks' \in [Handlers -> Task]
         /\ tasks'[h] = t
         /\ \A g \in Handlers \ {h} : tasks'[g] = tasks[g]
BY DEF TypeOK, Become

\* A handler that moves on to a task that fits leaves all of them fitting.
LEMMA TaskMove ==
  ASSUME IInv, NEW h \in Handlers, NEW t \in Task, Become(h, t),
         Grows, Passes, Fits(t)'
  PROVE  tasks' \in [Handlers -> Task] /\ \A g \in Handlers : Fits(tasks[g])'
<1>1. /\ tasks' \in [Handlers -> Task]
      /\ tasks'[h] = t
      /\ \A g \in Handlers \ {h} : tasks'[g] = tasks[g]
  BY BecomeMoves DEF IInv
<1>2. ASSUME NEW g \in Handlers
      PROVE  Fits(tasks[g])'
  <2>1. \A r : r = tasks'[g] => Fits(r)'
    <3> SUFFICES ASSUME NEW r, r = tasks'[g] PROVE Fits(r)'
      OBVIOUS
    <3>1. CASE g = h
      BY <1>1, <3>1
    <3>2. CASE g # h
      <4>1. r = tasks[g] /\ r \in Task
        BY <1>1, <3>2 DEF IInv, TypeOK
      <4>2. Fits(r)
        BY <4>1 DEF IInv
      <4> QED
        BY <4>1, <4>2, FitsKept DEF IInv
    <3> QED
      BY <3>1, <3>2
  <2> QED
    BY <2>1 DEF Fits, CarriesIdentity, HoldsItsRow, WritesProfile, ReadsFlag,
                Confirmed, Invalid, RowSays
<1> QED
  BY <1>1, <1>2

\* Tasks left alone fit on.
LEMMA TasksStay ==
  ASSUME IInv, UNCHANGED tasks, Grows, Passes
  PROVE  tasks' \in [Handlers -> Task] /\ \A g \in Handlers : Fits(tasks[g])'
<1>1. ASSUME NEW g \in Handlers
      PROVE  Fits(tasks[g])'
  <2>1. \A r : r = tasks'[g] => Fits(r)'
    <3> SUFFICES ASSUME NEW r, r = tasks'[g] PROVE Fits(r)'
      OBVIOUS
    <3>1. r = tasks[g] /\ r \in Task /\ Fits(r)
      BY DEF IInv, TypeOK
    <3> QED
      BY <3>1, FitsKept DEF IInv
  <2> QED
    BY <2>1 DEF Fits, CarriesIdentity, HoldsItsRow, WritesProfile, ReadsFlag,
                Confirmed, Invalid, RowSays
<1> QED
  BY <1>1 DEF IInv, TypeOK

\* A handler at rest carries nothing.
LEMMA IdleFits == Idle \in Task /\ Idle.pc = "idle" /\ Fits(Idle)'
<1>1. Null \in Names /\ Null \in Locales
  BY InputsAssumption DEF Names, Locales
<1>2. Idle \in Task
  BY <1>1 DEF Idle, Task, Pcs
<1>3. Fits(Idle)'
  BY DEF Idle, Fits, CarriesIdentity, HoldsItsRow, WritesProfile, ReadsFlag, FlagPcs
<1> QED
  BY <1>2, <1>3 DEF Idle

\* Rows left alone.
LEMMA RowsStay ==
  ASSUME IInv, UNCHANGED users
  PROVE  Grows /\ RowsWhole'
BY DEF IInv, TypeOK, Grows, RowsWhole, Users

\* A row written.
LEMMA RowWritten ==
  ASSUME IInv, NEW u \in Users, NEW row \in UserRow,
         users' = [users EXCEPT ![u] = row],
         row.anchor = users[u].anchor, users[u].onboarded => row.onboarded,
         row.onboarded =>
           Null \notin {row.name, row.month} /\ row.version > 0
  PROVE  /\ Grows /\ RowsWhole' /\ Users' = Users /\ users'[u] = row
         /\ \A v \in Users \ {u} : users'[v] = users[v]
         /\ \A v, w \in Users' : users'[v].anchor = users'[w].anchor => v = w
<1>1. users \in Seq(UserRow)
  BY DEF IInv, TypeOK
<1>2. Users = 1 .. Len(users)
  BY <1>1, LenProperties DEF Users
<1>3. /\ users' \in Seq(UserRow) /\ Len(users') = Len(users)
      /\ \A v \in Users : users'[v] = IF v = u THEN row ELSE users[v]
  BY <1>1, <1>2, ExceptSeq
<1>4. Users' = Users
  <2>1. DOMAIN users' = 1 .. Len(users')
    BY <1>3, LenProperties
  <2> QED
    BY <1>2, <1>3, <2>1 DEF Users
<1>5. Grows
  BY <1>3, <1>4 DEF Grows
<1>6. RowsWhole'
  BY <1>3, <1>4 DEF IInv, RowsWhole
<1>7. \A v, w \in Users' : users'[v].anchor = users'[w].anchor => v = w
  BY <1>3, <1>4 DEF IInv, OneUserPerIdentity
<1> QED
  BY <1>3, <1>4, <1>5, <1>6, <1>7

\* A row added, for an identity that had none.
LEMMA RowAdded ==
  ASSUME IInv, NEW row \in UserRow, users' = Append(users, row),
         ~Taken(row.anchor), ~row.onboarded
  PROVE  /\ Grows /\ RowsWhole'
         /\ Len(users) + 1 \in Users' /\ users'[Len(users) + 1] = row
         /\ \A v, w \in Users' : users'[v].anchor = users'[w].anchor => v = w
<1>1. users \in Seq(UserRow)
  BY DEF IInv, TypeOK
<1>2. Users = 1 .. Len(users) /\ Len(users) \in Nat
  BY <1>1, LenProperties DEF Users
<1>3. /\ users' \in Seq(UserRow) /\ Len(users') = Len(users) + 1
      /\ \A v \in Users : users'[v] = users[v]
      /\ users'[Len(users) + 1] = row
  BY <1>1, <1>2, AppendProperties
<1>4. Users' = Users \cup {Len(users) + 1}
  <2>1. DOMAIN users' = 1 .. Len(users')
    BY <1>3, LenProperties
  <2> QED
    BY <1>2, <1>3, <2>1 DEF Users
<1>5. Grows
  BY <1>3, <1>4 DEF Grows
<1>6. RowsWhole'
  BY <1>3, <1>4 DEF IInv, RowsWhole
<1>7. \A v \in Users : users[v].anchor # row.anchor
  BY DEF Taken, Of
<1>8. \A v, w \in Users' : users'[v].anchor = users'[w].anchor => v = w
  <2>1. \A v, w \in Users : users[v].anchor = users[w].anchor => v = w
    BY DEF IInv, OneUserPerIdentity
  <2>2. \A v \in Users :
          users'[v].anchor = users[v].anchor /\ users'[v].anchor # row.anchor
    BY <1>3, <1>7
  <2> SUFFICES ASSUME NEW v \in Users', NEW w \in Users',
                      users'[v].anchor = users'[w].anchor
               PROVE  v = w
    OBVIOUS
  <2>3. CASE v \in Users /\ w \in Users
    BY <2>1, <2>2, <2>3
  <2>4. CASE v \notin Users \/ w \notin Users
    BY <1>3, <1>4, <2>2, <2>4
  <2> QED
    BY <2>3, <2>4
<1> QED
  BY <1>3, <1>4, <1>5, <1>6, <1>8

\* Tokens handed out name their rows on.
LEMMA TokensStay ==
  ASSUME IInv, UNCHANGED tokens, Grows,
         \A v, w \in Users' : users'[v].anchor = users'[w].anchor => v = w
  PROVE  OneUserPerIdentity'
BY DEF IInv, OneUserPerIdentity, Grows

\* As long as keys and tokens stay, time takes nothing from their signatures.
LEMMA SignaturesStay ==
  ASSUME IInv, UNCHANGED <<configured, keys, tokens>>, Passes
  PROVE  TokensSigned'
BY DEF IInv, TypeOK, TokensSigned, Token, Passes

\* What a cached flag says of the row is kept by time and by a switch.
LEMMA CacheStays ==
  ASSUME IInv, UNCHANGED cache, flag' \in [row: {Null} \cup BOOLEAN, changed: Nat],
         Passes
  PROVE  CacheLags'
<1>1. flag'.changed <= now'
  BY DEF IInv, TypeOK, CacheLags, Passes
<1>2. cache # Null =>
        /\ cache.read \in Nat /\ cache.set \in Nat
        /\ cache.read <= cache.set /\ cache.set <= now
        /\ cache.expires = cache.set + FlagTtl
        /\ cache.value # RowSays => cache.read <= flag.changed
  BY DEF IInv, TypeOK, CacheLags
<1>3. now \in Nat /\ now' \in Nat /\ now <= now'
  BY DEF IInv, TypeOK, Passes
<1>4. cache # Null => cache.set <= now' /\ cache.read <= now
  BY <1>2, <1>3
<1>5. CASE flag' = flag
  <2>1. RowSays' = RowSays
    BY <1>5 DEF RowSays
  <2> QED
    BY <1>1, <1>2, <1>4, <1>5, <2>1 DEF CacheLags
<1>6. CASE flag'.changed = now
  BY <1>1, <1>2, <1>4, <1>6 DEF CacheLags
<1> QED
  BY <1>5, <1>6 DEF Passes

-----------------------------------------------------------------------------
(***************************************************************************)
(* The end of a login, which holds its user.                               *)
(***************************************************************************)
LoginPcs == {"find", "create", "adopt", "update", "sync"}

\* A login that holds the row of its identity goes on or signs, and everything
\* holds on.
LEMMA HoldingKeeps ==
  ASSUME IInv, NEW h \in Handlers, tasks[h].pc \in LoginPcs,
         NEW u, NEW locale, Holding(h, u, locale),
         Grows, UNCHANGED <<flag, configured, keys, now>>,
         u \in Users', users'[u].anchor = tasks[h].anchor,
         \A v, w \in Users' : users'[v].anchor = users'[w].anchor => v = w
  PROVE  /\ tasks' \in [Handlers -> Task] /\ \A g \in Handlers : Fits(tasks[g])'
         /\ tokens' \subseteq Token
         /\ OneUserPerIdentity' /\ TokensSigned'
<1>0. /\ tasks[h] \in Task /\ Fits(tasks[h]) /\ Passes
      /\ u \in Nat
  <2>1. u \in Nat
    <3>1. DOMAIN users' = 1 .. Len(users') /\ Len(users') \in Nat
      BY LenProperties DEF Grows
    <3> QED
      BY <3>1 DEF Users
  <2> QED
    BY <2>1 DEF IInv, TypeOK, Passes
<1>1. CASE Become(h, [tasks[h] EXCEPT !.pc = "sync", !.user = u]) /\ UNCHANGED tokens
  <2>1. PICK t \in Task :
          /\ t = [tasks[h] EXCEPT !.pc = "sync", !.user = u]
          /\ t.pc = "sync" /\ t.user = u /\ t.op = tasks[h].op
          /\ t.anchor = tasks[h].anchor /\ t.confirmed = tasks[h].confirmed
    <3> DEFINE e == [tasks[h] EXCEPT !.pc = "sync", !.user = u]
    <3>1. /\ e \in Task /\ e.pc = "sync" /\ e.user = u /\ e.op = tasks[h].op
          /\ e.anchor = tasks[h].anchor /\ e.confirmed = tasks[h].confirmed
      BY <1>0 DEF Task, Pcs
    <3> QED
      BY <3>1
  <2>2. Become(h, t)
    BY <1>1, <2>1
  <2>3. CarriesIdentity(t)'
    BY <1>0, <2>1 DEF CarriesIdentity, Fits, LoginPcs, FlagPcs
  <2>4. t.confirmed \subseteq Confirmed'
    BY <1>0, <2>1 DEF Fits, Confirmed, Grows
  <2>5. Fits(t)'
    BY <2>1, <2>3, <2>4 DEF Fits, HoldsItsRow, WritesProfile, ReadsFlag
  <2> QED
    BY <1>0, <1>1, <2>1, <2>2, <2>5, TaskMove, TokensStay, SignaturesStay
       DEF IInv, TypeOK
<1>2. CASE Become(h, Idle) /\ tokens' = tokens \cup {Sign(h, u)}
  <2>1. tasks' \in [Handlers -> Task] /\ \A g \in Handlers : Fits(tasks[g])'
    BY <1>0, <1>2, IdleFits, TaskMove
  <2>2. CarriesIdentity(tasks[h])
    BY <1>0 DEF Fits
  <2> DEFINE i == InstanceOf[h]
             tg == IF tasks[h].op = "telegram" THEN tasks[h].anchor ELSE Null
             k == Sign(h, u)
  <2>3. /\ i \in Instances /\ Offset[i] \in Int /\ Ttl \in Nat
        /\ keys[i] \in [of: Instances \cup {Null}, run: Nat] /\ now \in Nat
    BY ClocksAssumption DEF IInv, TypeOK
  <2>4. /\ tg \in TelegramIds \cup {Null}
        /\ tg = IF tasks[h].anchor \in TelegramIds THEN tasks[h].anchor ELSE Null
        /\ tasks[h].anchor \in Anchors
    BY <1>0, <2>2, InputsAssumption DEF CarriesIdentity, LoginPcs, Anchors
  <2>5. /\ k.user = u /\ k.login = tasks[h].anchor /\ k.telegram = tg /\ k.key = keys[i]
        /\ k.iat = Clock(i) /\ k.exp = Clock(i) + Ttl
        /\ k.handed = now
    BY DEF Sign
  <2>6. k \in Token /\ Clock(i) \in Int
    <3>1. Clock(i) \in Int
      BY <2>3, SecondsCut DEF Clock
    <3> QED
      BY <1>0, <2>3, <2>4, <3>1 DEF Sign, Token
  <2> HIDE DEF i, tg, k
  <2>7. tokens' = tokens \cup {k}
    BY <1>2 DEF k
  <2>8. tokens' \subseteq Token
    BY <2>6, <2>7 DEF IInv, TypeOK
  <2>9. OneUserPerIdentity'
    <3>1. ASSUME NEW x \in tokens'
          PROVE  /\ x.user \in Users' /\ users'[x.user].anchor = x.login
                 /\ x.telegram = IF x.login \in TelegramIds THEN x.login ELSE Null
      <4>1. CASE x = k
        BY <2>4, <2>5, <4>1
      <4>2. CASE x \in tokens
        BY <4>2 DEF IInv, OneUserPerIdentity, Grows
      <4> QED
        BY <2>7, <4>1, <4>2
    <3> QED
      BY <3>1 DEF OneUserPerIdentity
  <2>10. TokensSigned'
    <3>1. k.exp = k.iat + Ttl /\ k.iat = Seconds(i, k.handed)
      BY <2>5 DEF Clock
    <3>2. configured => k.key = [of |-> Null, run |-> 0]
      BY <2>3, <2>5 DEF IInv, TokensSigned
    <3> QED
      BY <2>3, <2>5, <2>7, <3>1, <3>2 DEF IInv, TokensSigned
  <2> QED
    BY <2>1, <2>8, <2>9, <2>10
<1> QED
  BY <1>1, <1>2 DEF Holding, Reply

-----------------------------------------------------------------------------
(***************************************************************************)
(* Steps that move a handler on and leave the tables alone.                *)
(***************************************************************************)
\* A handler that moves on alone.
LEMMA QuietMove ==
  ASSUME IInv, NEW h \in Handlers, NEW t \in Task, Become(h, t), Fits(t)',
         UNCHANGED <<stores, configured, keys, tokens, now>>,
         calls' \in Nat, faults' \in Nat
  PROVE  IInv'
<1>1. Passes /\ Grows /\ RowsWhole'
  BY RowsStay DEF IInv, TypeOK, Passes, stores
<1>2. tasks' \in [Handlers -> Task] /\ \A g \in Handlers : Fits(tasks[g])'
  BY <1>1, TaskMove
<1>3. OneUserPerIdentity'
  BY DEF IInv, OneUserPerIdentity, Users, stores
<1>4. TokensSigned' /\ CacheLags'
  BY <1>1, SignaturesStay, CacheStays DEF stores, IInv, TypeOK
<1> QED
  BY <1>1, <1>2, <1>3, <1>4 DEF IInv, TypeOK, stores

\* Counters stay numbers.
LEMMA CountersType ==
  ASSUME IInv
  PROVE  /\ calls \in Nat /\ faults \in Nat
         /\ calls' = calls + 1 => calls' \in Nat
         /\ Fault => faults' \in Nat
         /\ UNCHANGED spent => calls' \in Nat /\ faults' \in Nat
BY DEF IInv, TypeOK, Fault, spent

\* What a handler holds is kept when it goes on to another place.
LEMMA GotoMoves ==
  ASSUME IInv, NEW h \in Handlers, NEW pc \in Pcs, Goto(h, pc)
  PROVE  \E t \in Task :
           /\ Become(h, t) /\ t.pc = pc
           /\ t.op = tasks[h].op /\ t.anchor = tasks[h].anchor
           /\ t.user = tasks[h].user /\ t.edit = tasks[h].edit
           /\ t.value = tasks[h].value /\ t.read = tasks[h].read
           /\ t.confirmed = tasks[h].confirmed
<1> DEFINE t == [tasks[h] EXCEPT !.pc = pc]
<1>1. tasks[h] \in Task
  BY DEF IInv, TypeOK
<1>2. /\ t \in Task /\ t.pc = pc
      /\ t.op = tasks[h].op /\ t.anchor = tasks[h].anchor
      /\ t.user = tasks[h].user /\ t.edit = tasks[h].edit
      /\ t.value = tasks[h].value /\ t.read = tasks[h].read
      /\ t.confirmed = tasks[h].confirmed
  BY <1>1 DEF Task
<1>3. Become(h, t)
  BY DEF Goto
<1> QED
  BY <1>2, <1>3

\* Going on leaves everything in order when the new place asks for no more.
LEMMA GotoKeeps ==
  ASSUME IInv, NEW h \in Handlers, NEW pc \in Pcs, Goto(h, pc),
         pc \in {"find", "create", "adopt", "row"} =>
           \/ /\ tasks[h].pc \in {"find", "create"} /\ pc \in {"create", "adopt"}
           \/ tasks[h].pc \in FlagPcs /\ pc \in {"find", "row"},
         pc = "write" =>
           /\ tasks[h].pc = "require" /\ ~Invalid(tasks[h].edit)
           /\ tasks[h].op = "onboarding" => tasks[h].user \notin Confirmed,
         pc \in {"find", "create", "adopt", "row", "write"},
         UNCHANGED <<stores, configured, keys, tokens, now>>,
         calls' \in Nat, faults' \in Nat
  PROVE  IInv'
<1>1. PICK t \in Task :
        /\ Become(h, t) /\ t.pc = pc
        /\ t.op = tasks[h].op /\ t.anchor = tasks[h].anchor
        /\ t.user = tasks[h].user /\ t.edit = tasks[h].edit
        /\ t.value = tasks[h].value /\ t.read = tasks[h].read
        /\ t.confirmed = tasks[h].confirmed
  BY GotoMoves
<1>2. Fits(tasks[h])
  BY DEF IInv
<1>3. Fits(t)
  <2>1. t.confirmed \subseteq Confirmed
    BY <1>1, <1>2 DEF Fits
  <2>2. CarriesIdentity(t)
    BY <1>1, <1>2 DEF Fits, CarriesIdentity, FlagPcs
  <2>3. WritesProfile(t)
    BY <1>1, <1>2, <2>1 DEF Fits, WritesProfile, Invalid
  <2> QED
    BY <1>1, <2>1, <2>2, <2>3 DEF Fits, HoldsItsRow, ReadsFlag
<1>4. Fits(t)'
  BY <1>3, RowsStay, FitsKept DEF IInv, TypeOK, Passes, stores
<1> QED
  BY <1>1, <1>4, QuietMove

\* An answer ends a call whatever it was.
LEMMA ReplyKeeps ==
  ASSUME IInv, NEW h \in Handlers, Reply(h),
         UNCHANGED <<stores, configured, keys, tokens, now>>,
         calls' \in Nat, faults' \in Nat
  PROVE  IInv'
BY IdleFits, QuietMove DEF Reply

\* The flag answers, or fails to: the login goes on or ends.
LEMMA AnswerKeeps ==
  ASSUME IInv, NEW h \in Handlers, NEW enabled, Answer(h, enabled),
         tasks[h].pc \in FlagPcs,
         UNCHANGED <<stores, configured, keys, tokens, now>>,
         calls' \in Nat, faults' \in Nat
  PROVE  IInv'
<1>1. CASE Goto(h, "find")
  <2>1. "find" \in Pcs
    BY DEF Pcs
  <2> QED
    BY <1>1, <2>1, GotoKeeps
<1>2. CASE Reply(h)
  BY <1>2, ReplyKeeps
<1> QED
  BY <1>1, <1>2 DEF Answer

\* A call taken up fits.
LEMMA CallKeeps ==
  ASSUME IInv, NEW h \in Handlers, NEW task \in Task, Call(h, task),
         CarriesIdentity(task), HoldsItsRow(task), WritesProfile(task),
         task.pc \in {"find", "cached", "require"},
         UNCHANGED <<stores, configured, keys, tokens, now, faults>>
  PROVE  IInv'
<1>1. \E t \in Task :
        /\ Become(h, t) /\ t.confirmed = Confirmed
        /\ t.pc = task.pc /\ t.op = task.op /\ t.anchor = task.anchor
        /\ t.user = task.user /\ t.edit = task.edit
  <2> DEFINE t == [task EXCEPT !.confirmed = Confirmed]
  <2>1. Confirmed \in SUBSET Nat
    <3>1. DOMAIN users = 1 .. Len(users) /\ Len(users) \in Nat
      BY LenProperties DEF IInv, TypeOK
    <3> QED
      BY <3>1 DEF Confirmed, Users
  <2>2. /\ t \in Task /\ t.confirmed = Confirmed
        /\ t.pc = task.pc /\ t.op = task.op /\ t.anchor = task.anchor
        /\ t.user = task.user /\ t.edit = task.edit
    BY <2>1 DEF Task
  <2>3. Become(h, t)
    BY DEF Call
  <2> QED
    BY <2>2, <2>3
<1>2. PICK t \in Task :
        /\ Become(h, t) /\ t.confirmed = Confirmed
        /\ t.pc = task.pc /\ t.op = task.op /\ t.anchor = task.anchor
        /\ t.user = task.user /\ t.edit = task.edit
  BY <1>1
<1>3. Fits(t)
  BY <1>2 DEF Fits, CarriesIdentity, HoldsItsRow, WritesProfile, ReadsFlag, Invalid
<1>4. Fits(t)'
  BY <1>3, RowsStay, FitsKept DEF IInv, TypeOK, Passes, stores
<1>5. calls' \in Nat /\ faults' \in Nat
  BY CountersType DEF Call
<1> QED
  BY <1>2, <1>4, <1>5, QuietMove

-----------------------------------------------------------------------------
(***************************************************************************)
(* One lemma per operation.                                                *)
(***************************************************************************)
\* A login begins with the identity it was verified for, a call with the user
\* of its token.
LEMMA InvCalls ==
  ASSUME IInv, NEW h \in Handlers,
         LoginWithTelegram(h) \/ LoginAsGuest(h) \/ Present(h)
  PROVE  IInv'
<1>0. Null \in Names /\ Null \in Locales
  BY InputsAssumption DEF Names, Locales
<1>1. CASE LoginWithTelegram(h)
  <2>1. PICK x \in Telegrams :
          Call(h, [Idle EXCEPT !.pc = "find", !.op = "telegram",
                               !.anchor = x.telegram, !.name = x.name,
                               !.locale = x.locale, !.header = x.header])
    BY <1>1 DEF LoginWithTelegram
  <2> DEFINE e == [Idle EXCEPT !.pc = "find", !.op = "telegram",
                               !.anchor = x.telegram, !.name = x.name,
                               !.locale = x.locale, !.header = x.header]
  <2>2. /\ x.telegram \in TelegramIds /\ x.telegram \in Anchors
        /\ x.name \in Names /\ x.locale \in Locales /\ x.header \in Locales
    BY InputsAssumption DEF TelegramIds, Anchors, Names, Locales
  <2>3. /\ e \in Task /\ e.pc = "find" /\ e.op = "telegram"
        /\ e.anchor = x.telegram
    BY <1>0, <2>2 DEF Idle, Task, Pcs, Ops
  <2>4. Call(h, e)
    BY <2>1
  <2> HIDE DEF e
  <2>5. CarriesIdentity(e) /\ HoldsItsRow(e) /\ WritesProfile(e)
    BY <2>2, <2>3 DEF CarriesIdentity, HoldsItsRow, WritesProfile, FlagPcs
  <2> QED
    BY <1>1, <2>3, <2>4, <2>5, CallKeeps DEF LoginWithTelegram
<1>2. CASE LoginAsGuest(h)
  <2>1. PICK x \in Devices :
          Call(h, [Idle EXCEPT !.pc = "cached", !.op = "guest",
                               !.anchor = x.device, !.header = x.header])
    BY <1>2 DEF LoginAsGuest
  <2> DEFINE e == [Idle EXCEPT !.pc = "cached", !.op = "guest",
                               !.anchor = x.device, !.header = x.header]
  <2>2. /\ x.device \in DeviceIds /\ x.device \in Anchors /\ x.header \in Locales
    BY DEF DeviceIds, Anchors, Locales
  <2>3. /\ e \in Task /\ e.pc = "cached" /\ e.op = "guest"
        /\ e.anchor = x.device
    BY <1>0, <2>2 DEF Idle, Task, Pcs, Ops, FlagPcs
  <2>4. Call(h, e)
    BY <2>1
  <2> HIDE DEF e
  <2>5. CarriesIdentity(e) /\ HoldsItsRow(e) /\ WritesProfile(e)
    BY <2>2, <2>3 DEF CarriesIdentity, HoldsItsRow, WritesProfile, FlagPcs
  <2> QED
    BY <1>2, <2>3, <2>4, <2>5, CallKeeps DEF LoginAsGuest
<1>3. CASE Present(h)
  <2>1. PICK k \in tokens, x \in Edits, op \in {"onboarding", "edit"} :
          /\ op = "onboarding" => Null \notin {x.displayName, x.birthMonth}
          /\ Call(h, [Idle EXCEPT !.pc = "require", !.op = op, !.user = k.user,
                                  !.edit = x])
    BY <1>3 DEF Present
  <2> DEFINE e == [Idle EXCEPT !.pc = "require", !.op = op, !.user = k.user,
                               !.edit = x]
  <2>2. k.user \in Users /\ k.user \in Nat
    BY DEF IInv, OneUserPerIdentity, TypeOK, Token
  <2>3. /\ e \in Task /\ e.pc = "require" /\ e.op = op /\ e.user = k.user
        /\ e.edit = x
    BY <1>0, <2>2 DEF Idle, Task, Pcs, Ops
  <2>4. Call(h, e)
    BY <2>1
  <2> HIDE DEF e
  <2>5. CarriesIdentity(e) /\ HoldsItsRow(e) /\ WritesProfile(e)
    BY <2>1, <2>2, <2>3 DEF CarriesIdentity, HoldsItsRow, WritesProfile, FlagPcs
  <2> QED
    BY <1>3, <2>3, <2>4, <2>5, CallKeeps DEF Present
<1> QED
  BY <1>1, <1>2, <1>3

\* The flag read from the cache or from its row, or not at all.
LEMMA InvFlagReads ==
  ASSUME IInv, NEW h \in Handlers, GetCached(h) \/ FindFlag(h) \/ FlagFails(h)
  PROVE  IInv'
<1>1. CASE GetCached(h)
  <2>1. tasks[h].pc = "cached" /\ tasks[h].pc \in FlagPcs /\ "row" \in Pcs
    BY <1>1 DEF GetCached, IsAt, FlagPcs, Pcs
  <2>2. CASE Answer(h, cache.value)
    BY <1>1, <2>1, <2>2, AnswerKeeps, CountersType DEF GetCached
  <2>3. CASE Goto(h, "row")
    BY <1>1, <2>1, <2>3, GotoKeeps, CountersType DEF GetCached
  <2> QED
    BY <1>1, <2>2, <2>3 DEF GetCached
<1>2. CASE FlagFails(h)
  BY <1>2, AnswerKeeps, CountersType DEF FlagFails, FlagPcs
<1>3. CASE FindFlag(h)
  <2>1. tasks[h] \in Task /\ Fits(tasks[h]) /\ tasks[h].pc = "row"
        /\ RowSays \in BOOLEAN /\ now \in Nat
    BY <1>3, InputsAssumption DEF IInv, TypeOK, FindFlag, IsAt, RowSays
  <2>2. PICK t \in Task :
          /\ Become(h, t) /\ t.pc = "remember"
          /\ t.op = tasks[h].op /\ t.anchor = tasks[h].anchor
          /\ t.value = RowSays /\ t.read = now
          /\ t.confirmed = tasks[h].confirmed
    <3> DEFINE e == [tasks[h] EXCEPT !.pc = "remember", !.value = RowSays,
                                     !.read = now]
    <3>1. /\ e \in Task /\ e.pc = "remember"
          /\ e.op = tasks[h].op /\ e.anchor = tasks[h].anchor
          /\ e.value = RowSays /\ e.read = now
          /\ e.confirmed = tasks[h].confirmed
      BY <2>1 DEF Task, Pcs, FlagPcs
    <3>2. Become(h, e)
      BY <1>3 DEF FindFlag
    <3> QED
      BY <3>1, <3>2
  <2>3. CarriesIdentity(t)
    BY <2>1, <2>2 DEF Fits, CarriesIdentity, FlagPcs
  <2>4. Fits(t)
    BY <2>1, <2>2, <2>3 DEF Fits, HoldsItsRow, WritesProfile, ReadsFlag
  <2>5. Fits(t)'
    BY <1>3, <2>4, RowsStay, FitsKept DEF IInv, TypeOK, Passes, stores, FindFlag
  <2> QED
    BY <1>3, <2>2, <2>5, QuietMove, CountersType DEF FindFlag
<1> QED
  BY <1>1, <1>2, <1>3

\* What was read of the flag is cached, stale as it may be by now.
LEMMA InvSetCached ==
  ASSUME IInv, NEW h \in Handlers, SetCached(h)
  PROVE  IInv'
<1>1. /\ tasks[h] \in Task /\ tasks[h].pc = "remember" /\ now \in Nat
      /\ tasks[h].value \in BOOLEAN /\ tasks[h].read \in Nat
      /\ tasks[h].read <= now
      /\ tasks[h].value # RowSays => tasks[h].read <= flag.changed
      /\ CarriesIdentity(tasks[h]) /\ FlagTtl \in Nat
  BY ClocksAssumption DEF IInv, TypeOK, SetCached, IsAt, Fits, ReadsFlag, Task
<1>2. /\ UNCHANGED <<users, flag, configured, keys, tokens, now, spent>>
      /\ cache' = [value |-> tasks[h].value, expires |-> now + FlagTtl,
                   read |-> tasks[h].read, set |-> now]
  BY DEF SetCached
<1>3. /\ cache' \in [value: BOOLEAN, expires: Nat, read: Nat, set: Nat]
      /\ cache'.value = tasks[h].value /\ cache'.read = tasks[h].read
      /\ cache'.set = now /\ cache'.expires = now + FlagTtl
  BY <1>1, <1>2
<1>4. CacheLags'
  <2>1. RowSays' = RowSays
    BY <1>2 DEF RowSays
  <2>2. flag.changed <= now
    BY DEF IInv, CacheLags
  <2> QED
    BY <1>1, <1>2, <1>3, <2>1, <2>2 DEF CacheLags
<1>5. Grows /\ RowsWhole' /\ Passes
  BY <1>1, <1>2, RowsStay DEF Passes
<1>6. \E t \in Task : Become(h, t) /\ Fits(t)'
  <2>1. CASE Reply(h)
    BY <2>1, IdleFits DEF Reply
  <2>2. CASE Goto(h, "find")
    <3>1. "find" \in Pcs
      BY DEF Pcs
    <3>2. PICK t \in Task :
            /\ Become(h, t) /\ t.pc = "find"
            /\ t.op = tasks[h].op /\ t.anchor = tasks[h].anchor
            /\ t.confirmed = tasks[h].confirmed
      BY <2>2, <3>1, GotoMoves
    <3>3. CarriesIdentity(t) /\ t.confirmed \subseteq Confirmed
      BY <1>1, <3>2 DEF IInv, Fits, CarriesIdentity, FlagPcs
    <3>4. Fits(t)
      BY <3>2, <3>3 DEF Fits, HoldsItsRow, WritesProfile, ReadsFlag
    <3> QED
      BY <1>5, <3>2, <3>4, FitsKept DEF IInv
  <2> QED
    BY <2>1, <2>2 DEF SetCached, Answer
<1>7. tasks' \in [Handlers -> Task] /\ \A g \in Handlers : Fits(tasks[g])'
  BY <1>5, <1>6, TaskMove
<1>8. OneUserPerIdentity' /\ TokensSigned'
  BY <1>2, <1>5, SignaturesStay DEF IInv, OneUserPerIdentity, Users
<1> QED
  BY <1>2, <1>3, <1>4, <1>5, <1>7, <1>8 DEF IInv, TypeOK, spent

\* A login that ends with the row of its identity keeps everything in order.
LEMMA HoldingInv ==
  ASSUME IInv, NEW h \in Handlers, tasks[h].pc \in LoginPcs,
         NEW u, NEW locale, Holding(h, u, locale),
         Grows, RowsWhole', UNCHANGED <<flag, cache, configured, keys, now>>,
         u \in Users', users'[u].anchor = tasks[h].anchor,
         \A v, w \in Users' : users'[v].anchor = users'[w].anchor => v = w,
         calls' \in Nat, faults' \in Nat
  PROVE  IInv'
<1>1. Passes
  BY DEF Passes, IInv, TypeOK
<1>2. CacheLags'
  BY <1>1, CacheStays DEF IInv, TypeOK
<1>3. /\ tasks' \in [Handlers -> Task] /\ \A g \in Handlers : Fits(tasks[g])'
      /\ tokens' \subseteq Token
      /\ OneUserPerIdentity' /\ TokensSigned'
  BY HoldingKeeps
<1> QED
  BY <1>2, <1>3 DEF IInv, TypeOK, Grows

\* The row of the identity, found or adopted.
LEMMA HoldingFound ==
  ASSUME IInv, NEW h \in Handlers, tasks[h].pc \in LoginPcs,
         NEW u \in Of(tasks[h].anchor), NEW locale, Holding(h, u, locale),
         UNCHANGED <<stores, configured, keys, now, spent>>
  PROVE  IInv'
<1>1. Grows /\ RowsWhole'
  BY RowsStay DEF stores
<1>2. u \in Users' /\ users'[u].anchor = tasks[h].anchor
  BY DEF Of, stores, Users
<1>3. \A v, w \in Users' : users'[v].anchor = users'[w].anchor => v = w
  BY DEF IInv, OneUserPerIdentity, stores, Users
<1> QED
  BY <1>1, <1>2, <1>3, HoldingInv, CountersType DEF stores

\* The user of an identity is looked up.
LEMMA InvFindUser ==
  ASSUME IInv, NEW h \in Handlers, FindUser(h)
  PROVE  IInv'
<1>0. /\ tasks[h].pc = "find" /\ tasks[h].pc \in LoginPcs /\ tasks[h] \in Task
      /\ Fits(tasks[h])
      /\ UNCHANGED <<stores, configured, keys, now, spent>>
  BY DEF FindUser, IsAt, LoginPcs, IInv, TypeOK
<1>1. CASE Goto(h, "create") /\ UNCHANGED tokens
  <2>1. "create" \in Pcs
    BY DEF Pcs
  <2> QED
    BY <1>0, <1>1, <2>1, GotoKeeps, CountersType
<1>2. ASSUME NEW u \in Of(tasks[h].anchor), Holding(h, u, users[u].locale)
      PROVE  IInv'
  BY <1>0, <1>2, HoldingFound
<1>3. ASSUME NEW u \in Of(tasks[h].anchor), tasks[h].op # "guest",
             UNCHANGED tokens,
             Become(h, [tasks[h] EXCEPT !.pc = "update", !.user = u,
                                        !.rename = MayUpdateName(h, u)])
      PROVE  IInv'
  <2>1. /\ u \in Users /\ users[u].anchor = tasks[h].anchor /\ u \in Nat
        /\ MayUpdateName(h, u) \in BOOLEAN
    <3>1. DOMAIN users = 1 .. Len(users) /\ Len(users) \in Nat
          /\ users \in Seq(UserRow)
      BY LenProperties DEF IInv, TypeOK
    <3>2. u \in Users /\ u \in 1 .. Len(users) /\ users[u].anchor = tasks[h].anchor
      BY <3>1 DEF Of, Users
    <3> QED
      BY <3>1, <3>2 DEF MayUpdateName
  <2>2. PICK t \in Task :
          /\ Become(h, t) /\ t.pc = "update" /\ t.user = u
          /\ t.rename = MayUpdateName(h, u)
          /\ t.op = tasks[h].op /\ t.anchor = tasks[h].anchor
          /\ t.name = tasks[h].name /\ t.confirmed = tasks[h].confirmed
    <3> DEFINE e == [tasks[h] EXCEPT !.pc = "update", !.user = u,
                                     !.rename = MayUpdateName(h, u)]
    <3>1. /\ e \in Task /\ e.pc = "update" /\ e.user = u
          /\ e.rename = MayUpdateName(h, u)
          /\ e.op = tasks[h].op /\ e.anchor = tasks[h].anchor
          /\ e.name = tasks[h].name /\ e.confirmed = tasks[h].confirmed
      BY <1>0, <2>1 DEF Task, Pcs
    <3> QED
      BY <1>3, <3>1
  <2>3. t.rename => t.name # Null /\ t.user \notin t.confirmed
    BY <1>0, <2>2 DEF MayUpdateName, Fits, Confirmed
  <2>4. CarriesIdentity(t)
    BY <1>0, <1>3, <2>2 DEF Fits, CarriesIdentity, FlagPcs
  <2>5. Fits(t)
    BY <1>0, <2>1, <2>2, <2>3, <2>4 DEF Fits, HoldsItsRow, WritesProfile, ReadsFlag
  <2>6. Fits(t)'
    BY <1>0, <2>5, RowsStay, FitsKept DEF IInv, TypeOK, Passes, stores
  <2> QED
    BY <1>0, <1>3, <2>2, <2>6, QuietMove, CountersType
<1> QED
  BY <1>1, <1>2, <1>3 DEF FindUser

\* A row is created, found taken, or its insert seems to fail.
LEMMA InvCreateUser ==
  ASSUME IInv, NEW h \in Handlers, CreateUser(h)
  PROVE  IInv'
<1> DEFINE row == NewUser(tasks[h].anchor, tasks[h].name, tasks[h].locale)
<1>0. /\ tasks[h].pc = "create" /\ tasks[h].pc \in LoginPcs /\ tasks[h] \in Task
      /\ Fits(tasks[h]) /\ "adopt" \in Pcs
      /\ UNCHANGED <<flag, cache, configured, keys, now, calls>>
  BY DEF CreateUser, IsAt, LoginPcs, IInv, TypeOK, Pcs
<1>1. /\ row \in UserRow /\ row.anchor = tasks[h].anchor /\ ~row.onboarded
      /\ row.locale \in Locales
  <2>1. tasks[h].anchor \in Anchors
    BY <1>0 DEF Fits, CarriesIdentity, Anchors, FlagPcs
  <2>2. /\ tasks[h].name \in Names /\ tasks[h].locale \in Locales
        /\ "fa" \in Locales /\ Null \in Months
    BY <1>0, InputsAssumption DEF Task, Locales, Months
  <2> QED
    BY <2>1, <2>2 DEF NewUser, UserRow
<1> HIDE DEF row
<1>2. CASE Goto(h, "adopt") /\ UNCHANGED <<users, tokens, faults>>
  BY <1>0, <1>2, GotoKeeps, CountersType DEF stores
<1>3. CASE /\ ~Taken(tasks[h].anchor) /\ users' = Append(users, row)
           /\ Holding(h, Len(users) + 1, row.locale) /\ UNCHANGED faults
  <2>1. /\ Grows /\ RowsWhole'
        /\ Len(users) + 1 \in Users' /\ users'[Len(users) + 1] = row
        /\ \A v, w \in Users' : users'[v].anchor = users'[w].anchor => v = w
    BY <1>1, <1>3, RowAdded
  <2>2. calls' \in Nat /\ faults' \in Nat
    BY <1>0, <1>3 DEF IInv, TypeOK
  <2> QED
    BY <1>0, <1>1, <1>3, <2>1, <2>2, HoldingInv
<1>4. CASE /\ Fault /\ Goto(h, "adopt") /\ UNCHANGED tokens
           /\ users' = users \/ (~Taken(tasks[h].anchor) /\ users' = Append(users, row))
  <2>1. calls' \in Nat /\ faults' \in Nat
    BY <1>0, <1>4, CountersType
  <2>2. CASE users' = users
    BY <1>0, <1>4, <2>1, <2>2, GotoKeeps DEF stores
  <2>3. CASE ~Taken(tasks[h].anchor) /\ users' = Append(users, row)
    <3>1. /\ Grows /\ RowsWhole'
          /\ \A v, w \in Users' : users'[v].anchor = users'[w].anchor => v = w
      BY <1>1, <2>3, RowAdded
    <3>2. Passes
      BY <1>0 DEF Passes, IInv, TypeOK
    <3>3. PICK t \in Task :
            /\ Become(h, t) /\ t.pc = "adopt"
            /\ t.op = tasks[h].op /\ t.anchor = tasks[h].anchor
            /\ t.confirmed = tasks[h].confirmed
      BY <1>0, <1>4, GotoMoves
    <3>4. CarriesIdentity(t) /\ t.confirmed \subseteq Confirmed
      BY <1>0, <3>3 DEF Fits, CarriesIdentity, FlagPcs
    <3>5. Fits(t)
      BY <3>3, <3>4 DEF Fits, HoldsItsRow, WritesProfile, ReadsFlag
    <3>6. tasks' \in [Handlers -> Task] /\ \A g \in Handlers : Fits(tasks[g])'
      BY <3>1, <3>2, <3>3, <3>5, FitsKept, TaskMove DEF IInv
    <3>7. OneUserPerIdentity' /\ TokensSigned' /\ CacheLags'
      BY <1>0, <1>4, <3>1, <3>2, TokensStay, SignaturesStay, CacheStays
         DEF IInv, TypeOK
    <3> QED
      BY <1>0, <1>4, <2>1, <3>1, <3>6, <3>7 DEF IInv, TypeOK, Grows
  <2> QED
    BY <1>4, <2>2, <2>3
<1> QED
  BY <1>2, <1>3, <1>4 DEF CreateUser, row

\* The winner's row is adopted.
LEMMA InvAdopt ==
  ASSUME IInv, NEW h \in Handlers, Adopt(h)
  PROVE  IInv'
<1>0. tasks[h].pc = "adopt" /\ tasks[h].pc \in LoginPcs
      /\ UNCHANGED <<stores, configured, keys, now, spent>>
  BY DEF Adopt, IsAt, LoginPcs
<1>1. CASE Reply(h) /\ UNCHANGED tokens
  BY <1>0, <1>1, ReplyKeeps, CountersType
<1>2. ASSUME NEW u \in Of(tasks[h].anchor), Holding(h, u, users[u].locale)
      PROVE  IInv'
  BY <1>0, <1>2, HoldingFound
<1> QED
  BY <1>1, <1>2 DEF Adopt

\* A login writes the locale of its row, and the name if it may.
LEMMA InvUpdates ==
  ASSUME IInv, NEW h \in Handlers, UpdateUser(h) \/ SyncLocale(h)
  PROVE  IInv'
<1> DEFINE u == tasks[h].user
           row == IF tasks[h].pc = "sync"
                  THEN [users[u] EXCEPT !.locale = tasks[h].header]
                  ELSE Updated(users[u], tasks[h])
<1>0. /\ tasks[h].pc \in {"update", "sync"} /\ tasks[h].pc \in LoginPcs
      /\ tasks[h] \in Task /\ Fits(tasks[h])
      /\ UNCHANGED <<flag, cache, configured, keys, now, spent>>
  BY DEF UpdateUser, SyncLocale, IsAt, LoginPcs, IInv, TypeOK
<1>1. /\ u \in Users /\ users[u].anchor = tasks[h].anchor
      /\ users[u] \in UserRow
  <2>1. u \in Users /\ users[u].anchor = tasks[h].anchor
    BY <1>0 DEF Fits, HoldsItsRow
  <2>2. users \in Seq(UserRow) /\ DOMAIN users = 1 .. Len(users)
    BY LenProperties DEF IInv, TypeOK
  <2> QED
    BY <2>1, <2>2, ElementOfSeq DEF Users
<1>2. tasks[h].pc = "update" /\ tasks[h].rename => tasks[h].name # Null
  BY <1>0 DEF Fits, HoldsItsRow
<1>3. users' = [users EXCEPT ![u] = row] /\ Holding(h, u, row.locale)
  <2>1. CASE UpdateUser(h)
    <3>1. tasks[h].pc = "update"
      BY <2>1 DEF UpdateUser, IsAt
    <3> QED
      BY <2>1, <3>1 DEF UpdateUser
  <2>2. CASE SyncLocale(h)
    <3>1. tasks[h].pc = "sync"
      BY <2>2 DEF SyncLocale, IsAt
    <3>2. row.locale = tasks[h].header
      BY <1>1, <3>1 DEF UserRow
    <3> QED
      BY <2>2, <3>1, <3>2 DEF SyncLocale
  <2> QED
    BY <2>1, <2>2
<1>4. /\ row \in UserRow /\ row.anchor = users[u].anchor
      /\ row.onboarded = users[u].onboarded
      /\ row.month = users[u].month /\ row.version = users[u].version
      /\ row.name = users[u].name
           \/ (tasks[h].pc = "update" /\ tasks[h].rename /\ row.name = tasks[h].name)
  <2>1. tasks[h].name \in Names /\ tasks[h].locale \in Locales
        /\ tasks[h].header \in Locales
    BY <1>0 DEF Task
  <2>2. CASE tasks[h].pc = "sync"
    BY <1>1, <2>1, <2>2 DEF UserRow
  <2>3. CASE tasks[h].pc = "update"
    BY <1>1, <2>1, <2>3 DEF UserRow, Updated
  <2> QED
    BY <1>0, <2>2, <2>3
<1>5. users[u].onboarded =>
        Null \notin {users[u].name, users[u].month} /\ users[u].version > 0
  BY <1>1 DEF IInv, RowsWhole
<1>6. users[u].onboarded => row.name # Null
  BY <1>2, <1>4, <1>5
<1> HIDE DEF row, u
<1>7. /\ Grows /\ RowsWhole' /\ Users' = Users /\ users'[u] = row
      /\ \A v, w \in Users' : users'[v].anchor = users'[w].anchor => v = w
  BY <1>1, <1>3, <1>4, <1>5, <1>6, RowWritten
<1> QED
  BY <1>0, <1>1, <1>3, <1>4, <1>7, HoldingInv, CountersType

\* A profile is asked for and its input refused, or written.
LEMMA InvProfile ==
  ASSUME IInv, NEW h \in Handlers, RequireUser(h) \/ WriteProfile(h)
  PROVE  IInv'
<1>0. tasks[h] \in Task /\ Fits(tasks[h]) /\ tasks[h].pc \in {"require", "write"}
  BY DEF RequireUser, WriteProfile, IsAt, IInv, TypeOK
<1>1. CASE RequireUser(h)
  <2>1. /\ tasks[h].pc = "require" /\ "write" \in Pcs
        /\ UNCHANGED <<stores, configured, keys, tokens, now, spent>>
    BY <1>1 DEF RequireUser, IsAt, Pcs
  <2>2. CASE Reply(h)
    BY <2>1, <2>2, ReplyKeeps, CountersType
  <2>3. CASE /\ ~(tasks[h].op = "onboarding" /\ users[tasks[h].user].onboarded)
             /\ ~Invalid(tasks[h].edit) /\ Goto(h, "write")
    <3>1. tasks[h].op = "onboarding" => tasks[h].user \notin Confirmed
      BY <2>3 DEF Confirmed
    <3> QED
      BY <2>1, <2>3, <3>1, GotoKeeps, CountersType
  <2> QED
    BY <1>1, <2>2, <2>3 DEF RequireUser
<1>2. CASE WriteProfile(h)
  <2> DEFINE u == tasks[h].user
             e == tasks[h].edit
             row == Written(users[u], tasks[h].op, e)
  <2>1. /\ tasks[h].pc = "write" /\ users' = [users EXCEPT ![u] = row]
        /\ Become(h, Idle)
        /\ UNCHANGED <<flag, cache, configured, keys, tokens, now, spent>>
    BY <1>2 DEF WriteProfile, IsAt, Reply
  <2>2. /\ u \in Users /\ e \in Edits /\ ~Invalid(e)
        /\ tasks[h].op = "onboarding" => Null \notin {e.displayName, e.birthMonth}
    BY <1>0, <2>1 DEF Fits, WritesProfile
  <2>3. users[u] \in UserRow
    <3>1. users \in Seq(UserRow) /\ DOMAIN users = 1 .. Len(users)
      BY LenProperties DEF IInv, TypeOK
    <3> QED
      BY <2>2, <3>1, ElementOfSeq DEF Users
  <2>4. /\ e.displayName \in DOMAIN Clean \cup {Null}
        /\ e.birthMonth \in Months /\ e.optOut \in BOOLEAN \cup {Null}
    BY <2>2, InputsAssumption DEF Invalid
  <2>5. e.displayName # Null =>
          Clean[e.displayName] \in Names /\ Clean[e.displayName] # Null
    BY <2>2, <2>4, InputsAssumption DEF Invalid, Names, Cleaned
  <2>6. users[u].onboarded =>
          Null \notin {users[u].name, users[u].month} /\ users[u].version > 0
    BY <2>2 DEF IInv, RowsWhole
  <2> HIDE DEF u, e
  <2>7. /\ row \in UserRow /\ row.anchor = users[u].anchor
        /\ row.onboarded <=> (users[u].onboarded \/ tasks[h].op = "onboarding")
        /\ row.name = IF e.displayName = Null THEN users[u].name
                      ELSE Clean[e.displayName]
        /\ row.month = IF e.birthMonth = Null THEN users[u].month ELSE e.birthMonth
        /\ row.version = users[u].version + 1
    <3> DEFINE name == IF e.displayName = Null THEN users[u].name
                       ELSE Clean[e.displayName]
               month == IF e.birthMonth = Null THEN users[u].month ELSE e.birthMonth
               optOut == IF tasks[h].op = "onboarding" \/ e.optOut = Null
                         THEN users[u].optOut ELSE e.optOut
               onboarded == users[u].onboarded \/ tasks[h].op = "onboarding"
    <3>1. name \in Names /\ month \in Months
      BY <2>3, <2>4, <2>5 DEF UserRow
    <3>2. optOut \in BOOLEAN
      BY <2>3, <2>4 DEF UserRow
    <3>3. onboarded \in BOOLEAN
      OBVIOUS
    <3>4. users[u].version + 1 \in Nat
      BY <2>3 DEF UserRow
    <3>5. row = [users[u] EXCEPT !.name = name, !.month = month, !.optOut = optOut,
                   !.onboarded = onboarded, !.version = users[u].version + 1]
      BY <2>3 DEF Written, UserRow
    <3> HIDE DEF row, name, month, optOut, onboarded
    <3>6. row = [anchor |-> users[u].anchor, name |-> name, month |-> month,
                 locale |-> users[u].locale, onboarded |-> onboarded,
                 optOut |-> optOut, version |-> users[u].version + 1]
      BY <2>3, <3>5 DEF UserRow
    <3>7. /\ row.anchor = users[u].anchor /\ row.name = name /\ row.month = month
          /\ row.onboarded = onboarded /\ row.version = users[u].version + 1
      BY <3>6
    <3>8. row \in UserRow
      BY <2>3, <3>1, <3>2, <3>3, <3>4, <3>6 DEF UserRow
    <3> QED
      BY <3>7, <3>8 DEF name, month, onboarded
  <2> HIDE DEF row
  <2>8. row.onboarded => Null \notin {row.name, row.month} /\ row.version > 0
    BY <2>2, <2>3, <2>5, <2>6, <2>7 DEF UserRow
  <2>9. /\ Grows /\ RowsWhole'
        /\ \A v, w \in Users' : users'[v].anchor = users'[w].anchor => v = w
    BY <2>1, <2>2, <2>7, <2>8, RowWritten
  <2>10. Passes
    BY <2>1 DEF Passes, IInv, TypeOK
  <2>11. tasks' \in [Handlers -> Task] /\ \A g \in Handlers : Fits(tasks[g])'
    BY <2>1, <2>9, <2>10, IdleFits, TaskMove
  <2>12. OneUserPerIdentity' /\ TokensSigned' /\ CacheLags'
    BY <2>1, <2>9, <2>10, TokensStay, SignaturesStay, CacheStays DEF IInv, TypeOK
  <2> QED
    BY <2>1, <2>9, <2>11, <2>12 DEF IInv, TypeOK, Grows, spent
<1> QED
  BY <1>1, <1>2

\* A query that throws ends the call.
LEMMA InvQueryFails ==
  ASSUME IInv, NEW h \in Handlers, QueryFails(h)
  PROVE  IInv'
BY ReplyKeeps, CountersType DEF QueryFails

\* Operators switch the flag: what was read of it was read before.
LEMMA InvSwitchFlag ==
  ASSUME IInv, SwitchFlag
  PROVE  IInv'
<1>1. /\ flag' \in [row: {Null} \cup BOOLEAN, changed: Nat] /\ flag'.changed = now
      /\ UNCHANGED <<users, cache, configured, keys, tokens, now, tasks, spent>>
  <2>1. PICK row \in FlagRows : flag' = [row |-> row, changed |-> now]
    BY DEF SwitchFlag
  <2> QED
    BY <2>1, InputsAssumption DEF SwitchFlag, IInv, TypeOK
<1>2. Passes /\ Grows /\ RowsWhole'
  BY <1>1, RowsStay DEF Passes, IInv, TypeOK
<1>3. tasks' \in [Handlers -> Task] /\ \A g \in Handlers : Fits(tasks[g])'
  BY <1>1, <1>2, TasksStay
<1>4. CacheLags' /\ TokensSigned'
  BY <1>1, <1>2, CacheStays, SignaturesStay
<1>5. OneUserPerIdentity'
  BY <1>1 DEF IInv, OneUserPerIdentity, Users
<1> QED
  BY <1>1, <1>2, <1>3, <1>4, <1>5 DEF IInv, TypeOK, spent

\* Time passes.
LEMMA InvTick ==
  ASSUME IInv, Tick
  PROVE  IInv'
<1>1. Passes /\ Grows /\ RowsWhole'
  BY RowsStay DEF Passes, IInv, TypeOK, Tick, stores
<1>2. tasks' \in [Handlers -> Task] /\ \A g \in Handlers : Fits(tasks[g])'
  BY <1>1, TasksStay DEF Tick
<1>3. CacheLags' /\ TokensSigned'
  BY <1>1, CacheStays, SignaturesStay DEF Tick, stores, IInv, TypeOK
<1>4. OneUserPerIdentity'
  BY DEF Tick, stores, IInv, OneUserPerIdentity, Users
<1> QED
  BY <1>1, <1>2, <1>3, <1>4 DEF IInv, TypeOK, Tick, stores, spent

\* An instance that restarts forgets its calls, and its key if it made it.
LEMMA InvRestart ==
  ASSUME IInv, NEW i \in Instances, Restart(i)
  PROVE  IInv'
<1>1. /\ UNCHANGED <<stores, configured, tokens, now, calls>>
      /\ tasks' = [h \in Handlers |-> IF InstanceOf[h] = i THEN Idle ELSE tasks[h]]
      /\ keys' = IF configured THEN keys ELSE [keys EXCEPT ![i].run = faults + 1]
      /\ faults' \in Nat /\ faults \in Nat
  BY CountersType DEF Restart
<1>2. Passes /\ Grows /\ RowsWhole'
  BY <1>1, RowsStay DEF Passes, IInv, TypeOK, stores
<1>3. tasks' \in [Handlers -> Task]
  BY <1>1, IdleFits DEF IInv, TypeOK
<1>4. ASSUME NEW h \in Handlers
      PROVE  Fits(tasks[h])'
  <2>1. \A r : r = tasks'[h] => Fits(r)'
    <3> SUFFICES ASSUME NEW r, r = tasks'[h] PROVE Fits(r)'
      OBVIOUS
    <3>1. CASE r = Idle
      BY <3>1, IdleFits
    <3>2. CASE r = tasks[h]
      <4>1. r \in Task /\ Fits(r)
        BY <3>2 DEF IInv, TypeOK
      <4> QED
        BY <1>2, <4>1, FitsKept DEF IInv
    <3> QED
      BY <1>1, <3>1, <3>2
  <2> QED
    BY <2>1 DEF Fits, CarriesIdentity, HoldsItsRow, WritesProfile, ReadsFlag,
                Confirmed, Invalid, RowSays
<1>5. /\ keys' \in [Instances -> [of: Instances \cup {Null}, run: Nat]]
      /\ configured => keys' = keys
  <2>1. CASE configured
    BY <1>1, <2>1 DEF IInv, TypeOK
  <2>2. CASE ~configured
    BY <1>1, <2>2 DEF IInv, TypeOK
  <2> QED
    BY <2>1, <2>2
<1>6. TokensSigned'
  BY <1>1, <1>5 DEF IInv, TokensSigned
<1>7. CacheLags' /\ OneUserPerIdentity'
  BY <1>1, <1>2, CacheStays DEF stores, IInv, TypeOK, OneUserPerIdentity, Users
<1> QED
  BY <1>1, <1>2, <1>3, <1>4, <1>5, <1>6, <1>7 DEF IInv, TypeOK, stores

\* Nobody has a row, a token or a call to begin with.
LEMMA InvInit == Init => IInv
<1> SUFFICES ASSUME Init PROVE IInv
  OBVIOUS
<1>1. /\ users = << >> /\ Users = {} /\ users \in Seq(UserRow)
  BY EmptySeq DEF Init, Users
<1>2. Idle \in Task /\ Fits(Idle)
  <2>1. Idle \in Task
    BY IdleFits
  <2> QED
    BY <2>1 DEF Idle, Fits, CarriesIdentity, HoldsItsRow, WritesProfile, ReadsFlag, FlagPcs
<1>3. \A h \in Handlers : Fits(tasks[h])
  BY <1>2 DEF Init
<1>4. keys \in [Instances -> [of: Instances \cup {Null}, run: Nat]]
  BY DEF Init
<1>5. TypeOK
  BY <1>1, <1>2, <1>4 DEF Init, TypeOK
<1> QED
  BY <1>1, <1>3, <1>5
     DEF Init, IInv, OneUserPerIdentity, RowsWhole, TokensSigned, CacheLags

\* Every step keeps the invariant.
LEMMA InvNext == IInv /\ [Next]_vars => IInv'
<1> SUFFICES ASSUME IInv, [Next]_vars PROVE IInv'
  OBVIOUS
<1>1. CASE UNCHANGED vars
  <2>1. Passes /\ Grows /\ RowsWhole'
    BY <1>1, RowsStay DEF Passes, IInv, TypeOK, vars, stores
  <2>2. tasks' \in [Handlers -> Task] /\ \A g \in Handlers : Fits(tasks[g])'
    BY <1>1, <2>1, TasksStay DEF vars
  <2>3. CacheLags' /\ TokensSigned' /\ OneUserPerIdentity'
    BY <1>1, <2>1, CacheStays, SignaturesStay
       DEF vars, stores, IInv, TypeOK, OneUserPerIdentity, Users
  <2> QED
    BY <1>1, <2>1, <2>2, <2>3 DEF IInv, TypeOK, vars, stores, spent
<1>2. ASSUME NEW h \in Handlers, HandlerStep(h)
      PROVE  IInv'
  BY <1>2, InvCalls, InvFlagReads, InvSetCached, InvFindUser, InvCreateUser,
     InvAdopt, InvUpdates, InvProfile, InvQueryFails DEF HandlerStep
<1>3. ASSUME NEW i \in Instances, Restart(i)
      PROVE  IInv'
  BY <1>3, InvRestart
<1> QED
  BY <1>1, <1>2, <1>3, InvSwitchFlag, InvTick DEF Next

-----------------------------------------------------------------------------
(***************************************************************************)
(* The theorems.                                                           *)
(***************************************************************************)
\* The invariant holds in every reachable state.
THEOREM Invariance == Spec => []IInv
BY InvInit, InvNext, PTL DEF Spec

\* Type correctness.
THEOREM TypeCorrect == Spec => []TypeOK
<1>1. IInv => TypeOK
  BY DEF IInv
<1> QED
  BY <1>1, Invariance, PTL

\* However first logins race, fail and are repeated, an identity has one row
\* and every token names the row of the identity that logged in.
THEOREM OneUser == Spec => []OneUserPerIdentity
<1>1. IInv => OneUserPerIdentity
  BY DEF IInv
<1> QED
  BY <1>1, Invariance, PTL

\* A switched flag is obeyed in time, whoever caches it and when.
THEOREM FlagObeyed == Spec => []FlagLagsByItsTtl
<1>1. IInv => FlagLagsByItsTtl
  <2> SUFFICES ASSUME IInv, Served, cache.value # RowSays
               PROVE  now < flag.changed + FlagTtl + (cache.set - cache.read)
    BY DEF FlagLagsByItsTtl
  <2>1. /\ cache.read \in Nat /\ cache.set \in Nat /\ FlagTtl \in Nat
        /\ flag.changed \in Nat /\ now \in Nat
    BY ClocksAssumption DEF IInv, TypeOK, Served
  <2>2. /\ now < cache.expires /\ cache.expires = cache.set + FlagTtl
        /\ cache.read <= flag.changed
    BY DEF IInv, CacheLags, Served
  <2> QED
    BY <2>1, <2>2
<1> QED
  BY <1>1, Invariance, PTL

\* Clocks that differ by the tolerated skew refuse no token more than the cut
\* fraction of a second early, and keep none for longer than two skews.
THEOREM TokenLife == Spec => []TokenLivesAsTold
<1>1. IInv => TokenLivesAsTold
  <2> SUFFICES ASSUME IInv, NEW t \in tokens, NEW i \in Instances,
                      NEW at \in Int, t.handed <= at
               PROVE  /\ (configured \/ t.key = keys[i])
                           /\ at + TicksPerSecond
                                <= t.handed + TicksPerSecond * Ttl
                         => Verify(i, t, at)
                      /\ Verify(i, t, at) =>
                           at < t.handed + TicksPerSecond * Ttl
                                  + TicksPerSecond * (2 * Skew)
    BY DEF TokenLivesAsTold
  <2> DEFINE G == TicksPerSecond
             cut == Seconds(i, at)
  <2>1. PICK j \in Instances : t.iat = Seconds(j, t.handed)
    BY DEF IInv, TokensSigned
  <2>2. /\ t.exp = t.iat + Ttl
        /\ configured => t.key = keys[i]
    BY DEF IInv, TokensSigned
  <2>3. /\ Offset[i] \in Int /\ Offset[j] \in Int /\ Ttl \in Nat /\ Skew \in Nat
        /\ Offset[i] - Offset[j] <= G * Skew /\ Offset[j] - Offset[i] <= G * Skew
        /\ t.handed \in Nat /\ G \in Nat /\ G > 0
    BY ClocksAssumption DEF IInv, TypeOK, Token
  <2>4. /\ t.iat \in Int /\ G * t.iat <= t.handed + Offset[j]
        /\ t.handed + Offset[j] < G * t.iat + G
        /\ cut \in Int /\ G * cut <= at + Offset[i] /\ at + Offset[i] < G * cut + G
    BY <2>1, <2>3, SecondsCut
  <2>5. /\ G * Ttl \in Int /\ G * Skew \in Int /\ G * t.iat \in Int /\ G * cut \in Int
        /\ G * (t.iat + Ttl + Skew) = G * t.iat + G * Ttl + G * Skew
        /\ G * (cut + Skew + 1) = G * cut + G * Skew + G
        /\ G * (2 * Skew) = 2 * (G * Skew)
    BY <2>3, <2>4, Z3
  <2>6. Verify(i, t, at) <=> /\ t.key = keys[i] /\ cut < t.iat + Ttl + Skew
                             /\ t.iat < cut + Skew + 1
    BY <2>2, <2>3, <2>4 DEF Verify
  <2> HIDE DEF G, cut
  <2>7. t.iat < cut + Skew + 1
    <3>1. G * t.iat < G * (cut + Skew + 1)
      BY <2>2, <2>3, <2>4, <2>5
    <3> QED
      BY <2>3, <2>4, <3>1, GreaterFactor
  <2>8. ASSUME at + G <= t.handed + G * Ttl PROVE cut < t.iat + Ttl + Skew
    <3>1. G * cut < G * (t.iat + Ttl + Skew)
      BY <2>3, <2>4, <2>5, <2>8
    <3> QED
      BY <2>3, <2>4, <3>1, GreaterFactor
  <2>9. ASSUME cut < t.iat + Ttl + Skew
        PROVE  at < t.handed + G * Ttl + G * (2 * Skew)
    <3>1. cut + 1 <= t.iat + Ttl + Skew
      BY <2>3, <2>4, <2>9
    <3>2. G * (cut + 1) = G * cut + G
      BY <2>3, <2>4, Z3
    <3>3. cut + 1 \in Int /\ t.iat + Ttl + Skew \in Int
      BY <2>3, <2>4
    <3>4. G * (cut + 1) <= G * (t.iat + Ttl + Skew)
      BY <2>3, <3>1, <3>3, GreaterFactor
    <3> QED
      BY <2>3, <2>4, <2>5, <3>2, <3>4
  <2> QED
    BY <2>2, <2>6, <2>7, <2>8, <2>9 DEF G
<1> QED
  BY <1>1, Invariance, PTL

\* The name and month of a confirmed profile change by an edit, or by a call
\* that began before it was confirmed, and by nothing else.
THEOREM ProfileKept == Spec => ConfirmedProfileKept
<1>1. IInv /\ [Next]_vars =>
        [\A u \in Users :
           /\ users[u].onboarded
           /\ <<users'[u].name, users'[u].month>> # <<users[u].name, users[u].month>>
           => \E h \in Handlers :
                /\ tasks'[h] # tasks[h]
                /\ tasks[h].op = "edit" \/ u \notin tasks[h].confirmed]_vars
  <2> SUFFICES ASSUME IInv, Next, NEW u \in Users, users[u].onboarded,
                      <<users'[u].name, users'[u].month>>
                        # <<users[u].name, users[u].month>>
               PROVE  \E h \in Handlers :
                        /\ tasks'[h] # tasks[h]
                        /\ tasks[h].op = "edit" \/ u \notin tasks[h].confirmed
    BY DEF vars, stores
  <2>1. users \in Seq(UserRow) /\ Users = 1 .. Len(users) /\ users[u] \in UserRow
    <3>1. users \in Seq(UserRow) /\ Users = 1 .. Len(users)
      BY LenProperties DEF IInv, TypeOK, Users
    <3> QED
      BY <3>1, ElementOfSeq
  <2>2. PICK h \in Handlers :
          CreateUser(h) \/ UpdateUser(h) \/ SyncLocale(h) \/ WriteProfile(h)
    BY DEF Next, HandlerStep, LoginWithTelegram, LoginAsGuest, Present, GetCached,
           FindFlag, SetCached, FlagFails, FindUser, Adopt, RequireUser,
           QueryFails, Restart, SwitchFlag, Tick, stores
  <2>3. tasks[h] \in Task /\ Fits(tasks[h]) /\ tasks \in [Handlers -> Task]
    BY DEF IInv, TypeOK
  <2>4. ASSUME CreateUser(h) PROVE FALSE
    <3>1. users' = users \/ \E row : users' = Append(users, row)
      BY <2>4 DEF CreateUser
    <3>2. users'[u] = users[u]
      BY <2>1, <3>1
    <3> QED
      BY <3>2
  <2>5. ASSUME UpdateUser(h)
        PROVE  tasks'[h] # tasks[h] /\ u \notin tasks[h].confirmed
    <3>1. tasks[h].pc = "update"
          /\ users' = [users EXCEPT ![tasks[h].user] = Updated(@, tasks[h])]
      BY <2>5 DEF UpdateUser, IsAt
    <3>2. u = tasks[h].user /\ tasks[h].rename
      BY <2>1, <3>1 DEF Updated, UserRow
    <3>3. u \notin tasks[h].confirmed
      BY <2>3, <3>1, <3>2 DEF Fits, HoldsItsRow
    <3>4. tasks'[h].pc # "update"
      <4>1. \/ Become(h, [tasks[h] EXCEPT !.pc = "sync", !.user = tasks[h].user])
            \/ Become(h, Idle)
        BY <2>5 DEF UpdateUser, Holding, Reply
      <4>2. [tasks[h] EXCEPT !.pc = "sync", !.user = tasks[h].user].pc = "sync"
        BY <2>3 DEF Task
      <4>3. Idle.pc = "idle"
        BY DEF Idle
      <4> QED
        BY <2>3, <4>1, <4>2, <4>3 DEF Become
    <3> QED
      BY <3>1, <3>3, <3>4
  <2>6. ASSUME SyncLocale(h) PROVE FALSE
    <3>1. users' = [users EXCEPT ![tasks[h].user].locale = tasks[h].header]
      BY <2>6 DEF SyncLocale
    <3> QED
      BY <2>1, <3>1 DEF UserRow
  <2>7. ASSUME WriteProfile(h)
        PROVE  /\ tasks'[h] # tasks[h]
               /\ tasks[h].op = "edit" \/ u \notin tasks[h].confirmed
    <3>1. /\ tasks[h].pc = "write" /\ Become(h, Idle)
          /\ users' = [users EXCEPT ![tasks[h].user] =
                         Written(@, tasks[h].op, tasks[h].edit)]
      BY <2>7 DEF WriteProfile, IsAt, Reply
    <3>2. u = tasks[h].user
      BY <2>1, <3>1
    <3>3. /\ tasks[h].op \in {"onboarding", "edit"}
          /\ tasks[h].op = "onboarding" => tasks[h].user \notin tasks[h].confirmed
      BY <2>3, <3>1 DEF Fits, WritesProfile
    <3>4. tasks'[h].pc = "idle"
      BY <2>3, <3>1 DEF Become, Idle
    <3> QED
      BY <3>1, <3>2, <3>3, <3>4
  <2> QED
    BY <2>2, <2>4, <2>5, <2>6, <2>7
<1> QED
  BY <1>1, Invariance, PTL DEF Spec, ConfirmedProfileKept
=============================================================================
