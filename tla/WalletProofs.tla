---------------------------- MODULE WalletProofs ----------------------------
(***************************************************************************)
(* Theorems about Wallet, for every value of its constants.                *)
(***************************************************************************)
EXTENDS Wallet, WellFoundedInduction, SequenceTheorems, FiniteSetTheorems,
        TLAPS

\* A handler between calls carries nothing.
LEMMA IdleType == Idle \in Task
BY DEF Task

\* What a call carries depends on how far it has come.
LEMMA TaskFields ==
  ASSUME TypeOK, NEW h \in Handlers
  PROVE  /\ tasks[h] \in Task
         /\ tasks[h].pc \in {"find", "create", "winner", "decrement", "append"}
              => tasks[h].request \in DebitType
         /\ tasks[h].pc \in {"decrement", "append", "increment", "commit"}
              => tasks[h].wallet \in Nat \ {0}
         /\ tasks[h].pc \in {"insert", "existing"}
              => tasks[h].debit \in Nat \ {0}
         /\ tasks[h].pc \in {"increment", "commit"} => tasks[h].row \in LedgerRow
BY DEF TypeOK, Task, Idle

\* A wallet or a ledger row read by its id.
LEMMA RowType ==
  ASSUME TypeOK
  PROVE  /\ \A w \in Wallets : w \in Nat \ {0} /\ wallets[w] \in WalletRow
         /\ \A i \in Rows : i \in Nat \ {0} /\ ledger[i] \in LedgerRow
BY ElementOfSeq, LenProperties DEF TypeOK, Wallets, Rows

\* Only a call's own task changes when it moves on.
LEMMA BecomeType ==
  ASSUME tasks \in [Handlers -> Task], NEW h \in Handlers, NEW t \in Task,
         Become(h, t)
  PROVE  /\ tasks' \in [Handlers -> Task]
         /\ tasks'[h] = t
         /\ \A g \in Handlers \ {h} : tasks'[g] = tasks[g]
BY DEF Become

\* A row appended to a table leaves the others in place.
LEMMA AppendRow ==
  ASSUME NEW T, NEW table \in Seq(T), NEW row \in T
  PROVE  /\ Append(table, row) \in Seq(T)
         /\ Len(table) + 1 \notin DOMAIN table
         /\ Len(table) + 1 \in Nat \ {0}
         /\ DOMAIN Append(table, row) = DOMAIN table \cup {Len(table) + 1}
         /\ Append(table, row)[Len(table) + 1] = row
         /\ \A i \in DOMAIN table : Append(table, row)[i] = table[i]
<1>1. /\ Len(Append(table, row)) = Len(table) + 1
      /\ Append(table, row) \in Seq(T)
      /\ \A i \in 1 .. Len(table) : Append(table, row)[i] = table[i]
      /\ Append(table, row)[Len(table) + 1] = row
  BY AppendProperties
<1>2. /\ Len(table) \in Nat /\ DOMAIN table = 1 .. Len(table)
      /\ DOMAIN Append(table, row) = 1 .. Len(Append(table, row))
  BY <1>1, LenProperties
<1> QED
  BY <1>1, <1>2

\* The debit row, the refund row and the starter row are well formed.
LEMMA RowsType ==
  ASSUME TypeOK
  PROVE  /\ \A w \in Nat \ {0}, d \in DebitType :
              Row(w, -d.cost, "debit", KeyRef(d.key)) \in LedgerRow
         /\ \A i \in Rows :
              Row(ledger[i].wallet, -ledger[i].amount, "refund", DebitRef(i))
                \in LedgerRow
         /\ \A w \in Nat \ {0} :
              Row(w, StarterCoins, "starter", NoRef) \in LedgerRow
<1>1. \A d \in DebitType : KeyRef(d.key) \in RefType /\ -d.cost \in Int
  BY DebitsAssumption DEF KeyRef, RefType, DebitType
<1>2. \A i \in Rows : DebitRef(i) \in RefType
  BY RowType DEF DebitRef, RefType
<1>3. NoRef \in RefType /\ StarterCoins \in Int
  BY WalletBounds DEF RefType
<1>4. \A i \in Rows : /\ ledger[i].wallet \in Nat \ {0}
                      /\ -ledger[i].amount \in Int
  BY RowType DEF LedgerRow
<1> QED
  BY <1>1, <1>2, <1>3, <1>4 DEF Row, LedgerRow

\* What may follow a wallet that was found: an answer or a transaction.
LEMMA FoundType ==
  ASSUME TypeOK, NEW h \in Handlers, NEW w \in Nat \ {0}, Found(h, w),
         tasks[h].pc \in {"find", "create", "winner"}
  PROVE  tasks' \in [Handlers -> Task] /\ reply' \in Replies
<1>1. [pc |-> "decrement", request |-> tasks[h].request, wallet |-> w] \in Task
  BY TaskFields DEF Task
<1> QED
  BY <1>1, IdleType, BecomeType DEF Found, Reply, TypeOK, Replies

-----------------------------------------------------------------------------
(***************************************************************************)
(* Type correctness.                                                       *)
(***************************************************************************)
\* No wallet, no row and no call to begin with.
LEMMA TypeInit == Init => TypeOK
<1> SUFFICES ASSUME Init PROVE TypeOK
  OBVIOUS
<1>1. tasks \in [Handlers -> Task]
  BY IdleType DEF Init
<1> QED
  BY <1>1, EmptySeq DEF Init, TypeOK, Replies

\* A call begins, or is refused at once.
LEMMA TypeCall ==
  ASSUME TypeOK, NEW h \in Handlers, Call(h)
  PROVE  TypeOK'
<1>1. ASSUME NEW u \in Users, GetWalletForUser(h, u)
      PROVE  TypeOK'
  <2>1. [pc |-> "find", request |-> [user |-> u, cost |-> 0, key |-> NoKey]]
          \in Task
    BY DEF Task, DebitType
  <2> QED
    BY <1>1, <2>1, BecomeType DEF GetWalletForUser, TypeOK, tables
<1>2. ASSUME NEW d \in Debits, DebitForReading(h, d)
      PROVE  TypeOK'
  <2>1. [pc |-> "find", request |-> d] \in Task
    BY DebitsAssumption DEF Task
  <2> QED
    BY <1>2, <2>1, IdleType, BecomeType
       DEF DebitForReading, Reply, TypeOK, tables, Replies
<1>3. ASSUME NEW i \in Rows, RefundDebit(h, i)
      PROVE  TypeOK'
  <2>1. [pc |-> "insert", debit |-> i] \in Task
    BY RowType DEF Task
  <2> QED
    BY <1>3, <2>1, IdleType, BecomeType
       DEF RefundDebit, Reply, TypeOK, tables, Replies
<1> QED
  BY <1>1, <1>2, <1>3 DEF Call

\* The steps that leave both tables alone.
LEMMA TypeQuiet ==
  ASSUME TypeOK, TaskInv, NEW h \in Handlers,
         \/ FindWallet(h) \/ FindWinner(h) \/ DecrementIfAffordable(h)
         \/ AppendDebit(h) \/ InsertRefund(h) \/ FindExisting(h)
         \/ IncrementBalance(h) \/ Fail(h)
  PROVE  TypeOK'
<1> SUFFICES tasks' \in [Handlers -> Task] /\ reply' \in Replies
  BY DEF FindWallet, FindWinner, DecrementIfAffordable, AppendDebit,
         InsertRefund, FindExisting, IncrementBalance, Fail, RollBack, TypeOK,
         tables
<1>1. ASSUME NEW outcome \in Replies, RollBack(h, outcome)
      PROVE  tasks' \in [Handlers -> Task] /\ reply' \in Replies
  BY <1>1, IdleType, BecomeType DEF RollBack, Reply, TypeOK
<1>2. CASE FindWallet(h)
  <2>1. [tasks[h] EXCEPT !.pc = "create"] \in Task
    BY <1>2, TaskFields DEF FindWallet, IsAt, Task, Idle
  <2>2. ASSUME NEW w \in Wallets, Found(h, w)
        PROVE  tasks' \in [Handlers -> Task] /\ reply' \in Replies
    BY <1>2, <2>2, RowType, FoundType DEF FindWallet, IsAt
  <2> QED
    BY <1>2, <2>1, <2>2, BecomeType DEF FindWallet, TypeOK
<1>3. CASE FindWinner(h)
  BY <1>3, RowType, FoundType DEF FindWinner, IsAt, OwnedBy
<1>4. CASE DecrementIfAffordable(h)
  <2>1. [tasks[h] EXCEPT !.pc = "append"] \in Task
    BY <1>4, TaskFields DEF DecrementIfAffordable, IsAt, Task, Idle
  <2> QED
    BY <1>1, <1>4, <2>1, BecomeType
       DEF DecrementIfAffordable, TypeOK, Replies
<1>5. CASE AppendDebit(h)
  <2> DEFINE d == tasks[h].request
             row == Row(tasks[h].wallet, -d.cost, "debit", KeyRef(d.key))
  <2>1. row \in LedgerRow /\ row.wallet \in Nat \ {0}
    BY <1>5, TaskFields, RowsType DEF AppendDebit, IsAt, LedgerRow
  <2>2. [pc |-> "commit", wallet |-> row.wallet, row |-> row] \in Task
    BY <2>1 DEF Task
  <2> HIDE DEF row
  <2> QED
    BY <1>1, <1>5, <2>2, BecomeType DEF AppendDebit, TypeOK, Replies, row
<1>6. CASE InsertRefund(h)
  <2> DEFINE i == tasks[h].debit
             row == Row(ledger[i].wallet, -ledger[i].amount, "refund",
                        DebitRef(i))
  <2>1. row \in LedgerRow /\ row.wallet \in Nat \ {0} /\ i \in Nat \ {0}
    BY <1>6, TaskFields, RowsType DEF InsertRefund, IsAt, LedgerRow, TaskInv
  <2>2. /\ [pc |-> "increment", wallet |-> row.wallet, row |-> row] \in Task
        /\ [pc |-> "existing", debit |-> i] \in Task
    BY <2>1 DEF Task
  <2> HIDE DEF row
  <2> QED
    BY <1>6, <2>2, BecomeType DEF InsertRefund, TypeOK, row
<1>7. CASE FindExisting(h) \/ Fail(h)
  BY <1>1, <1>7 DEF FindExisting, Fail, Replies
<1>8. CASE IncrementBalance(h)
  <2>1. [tasks[h] EXCEPT !.pc = "commit"] \in Task
    BY <1>8, TaskFields DEF IncrementBalance, IsAt, Task, Idle
  <2> QED
    BY <1>8, <2>1, BecomeType DEF IncrementBalance, TypeOK
<1> QED
  BY <1>2, <1>3, <1>4, <1>5, <1>6, <1>7, <1>8

\* A new wallet and its starter row, or the news that another call made one.
LEMMA TypeCreateWithStarter ==
  ASSUME TypeOK, NEW h \in Handlers, CreateWithStarter(h)
  PROVE  TypeOK'
<1> DEFINE u == tasks[h].request.user
           w == Len(wallets) + 1
           new == [user |-> u, balance |-> StarterCoins]
           row == Row(w, StarterCoins, "starter", NoRef)
<1>1. new \in WalletRow /\ tasks[h].pc = "create"
  BY TaskFields, WalletBounds DEF CreateWithStarter, IsAt, WalletRow, DebitType
<1>2. w \in Nat \ {0} /\ row \in LedgerRow
  BY LenProperties, RowsType DEF TypeOK
<1>3. CASE /\ wallets' = Append(wallets, new) /\ ledger' = Append(ledger, row)
           /\ Found(h, w)
  <2>1. wallets' \in Seq(WalletRow) /\ ledger' \in Seq(LedgerRow)
    BY <1>1, <1>2, <1>3, AppendRow DEF TypeOK
  <2> QED
    BY <1>1, <1>2, <1>3, <2>1, FoundType DEF TypeOK
<1>4. CASE /\ Become(h, [tasks[h] EXCEPT !.pc = "winner"])
           /\ UNCHANGED <<tables, reply>>
  <2>1. [tasks[h] EXCEPT !.pc = "winner"] \in Task
    BY <1>1, TaskFields DEF Task, Idle
  <2> QED
    BY <1>4, <2>1, BecomeType DEF TypeOK, tables
<1> QED
  BY <1>3, <1>4 DEF CreateWithStarter

\* The row the commit writes back: the balance and nothing else.
Paid(h) ==
  [wallets[tasks[h].wallet] EXCEPT !.balance = @ + tasks[h].row.amount]

\* The commit writes one wallet and one row.
LEMMA CommitWrites ==
  ASSUME TypeOK, TaskInv, NEW h \in Handlers, Commit(h)
  PROVE  /\ tasks[h].wallet \in Wallets /\ tasks[h].row \in LedgerRow
         /\ tasks[h].row.wallet = tasks[h].wallet
         /\ wallets' \in Seq(WalletRow) /\ Wallets' = Wallets
         /\ \A w \in Wallets :
              /\ wallets'[w].user = wallets[w].user
              /\ wallets'[w].balance =
                   IF w = tasks[h].wallet
                   THEN wallets[w].balance + tasks[h].row.amount
                   ELSE wallets[w].balance
         /\ ledger' = Append(ledger, tasks[h].row)
         /\ ledger' \in Seq(LedgerRow)
         /\ Rows' = Rows \cup {Len(ledger) + 1}
         /\ Len(ledger) + 1 \notin Rows
         /\ ledger'[Len(ledger) + 1] = tasks[h].row
         /\ \A i \in Rows : ledger'[i] = ledger[i]
<1> DEFINE w == tasks[h].wallet
<1>1. w \in Wallets /\ tasks[h].row \in LedgerRow /\ tasks[h].row.wallet = w
  BY TaskFields DEF Commit, IsAt, TaskInv, RowInv
<1>2. wallets[w] \in WalletRow /\ tasks[h].row.amount \in Int
  BY <1>1, RowType DEF LedgerRow
<1>3. Paid(h) \in WalletRow
  BY <1>2 DEF Paid, WalletRow
<1>4. wallets' = [wallets EXCEPT ![w] = Paid(h)]
  BY DEF Commit, Paid
<1>5. wallets' \in Seq(WalletRow) /\ Wallets' = Wallets
  BY <1>1, <1>3, <1>4, ExceptSeq, LenProperties DEF TypeOK, Wallets
<1>6. \A v \in Wallets : wallets'[v] = IF v = w THEN Paid(h) ELSE wallets[v]
  BY <1>4 DEF Wallets
<1>7. /\ Paid(h).user = wallets[w].user
      /\ Paid(h).balance = wallets[w].balance + tasks[h].row.amount
  BY <1>2 DEF Paid, WalletRow
<1>8. ledger' = Append(ledger, tasks[h].row)
  BY DEF Commit
<1>9. /\ ledger' \in Seq(LedgerRow)
      /\ Rows' = Rows \cup {Len(ledger) + 1}
      /\ Len(ledger) + 1 \notin Rows
      /\ ledger'[Len(ledger) + 1] = tasks[h].row
      /\ \A i \in Rows : ledger'[i] = ledger[i]
  BY <1>1, <1>8, AppendRow DEF TypeOK, Rows
<1> QED
  BY <1>1, <1>5, <1>6, <1>7, <1>8, <1>9

\* Every step keeps the types.
LEMMA TypeNext ==
  ASSUME TypeOK, TaskInv, [Next]_vars
  PROVE  TypeOK'
<1>1. CASE UNCHANGED vars
  BY <1>1 DEF vars, tables, TypeOK
<1>2. ASSUME NEW h \in Handlers, Commit(h)
      PROVE  TypeOK'
  <2>1. tasks' \in [Handlers -> Task] /\ reply' \in Replies
    BY <1>2, IdleType, BecomeType DEF Commit, Reply, TypeOK, Replies
  <2> QED
    BY <1>2, <2>1, CommitWrites DEF TypeOK
<1>3. CASE Crash
  BY <1>3, IdleType DEF Crash, TypeOK, tables
<1> QED
  BY <1>1, <1>2, <1>3, TypeCall, TypeQuiet, TypeCreateWithStarter
     DEF Next, Step

-----------------------------------------------------------------------------
(***************************************************************************)
(* The invariant, for the steps that leave the tables alone.               *)
(***************************************************************************)
Rest == LedgerInv /\ TaskInv /\ LockInv /\ FundsInv /\ KeyInv /\ NeverOverdrawn

\* What TaskInv and FundsInv say of one task.
Fits(t) ==
  /\ t.pc \in {"find", "create", "winner"} => t.request.cost >= 0
  /\ t.pc \in {"decrement", "append"} =>
       t.request.cost > 0 /\ t.wallet \in Wallets
  /\ t.pc \in {"insert", "existing"} =>
       t.debit \in Rows /\ ledger[t.debit].kind = "debit"
  /\ t.pc \in {"increment", "commit"} => t.wallet = t.row.wallet /\ RowInv(t.row)
  /\ t.pc = "append" => wallets[t.wallet].balance >= t.request.cost
  /\ t.pc = "commit" => wallets[t.wallet].balance + t.row.amount >= 0
  /\ t.pc = "increment" => t.row.amount > 0

\* The tables say the same after a step that leaves them alone.
LEMMA SameTables ==
  ASSUME UNCHANGED tables
  PROVE  /\ \A t : Fits(t) => Fits(t)'
         /\ LedgerInv => LedgerInv'
         /\ NeverOverdrawn => NeverOverdrawn'
         /\ \A row : Taken(row) <=> Taken(row)'
<1>1. \A row : RowInv(row) <=> RowInv(row)'
  BY DEF tables, RowInv, GivesBack, Wallets, Rows
<1> QED
  BY <1>1 DEF tables, Fits, Wallets, Rows, LedgerInv, NeverOverdrawn, Taken

\* One call moves on: it may take a lock that is free or keep its own, and
\* insert a row without a rival or keep its own.
LEMMA MoveStep ==
  ASSUME TypeOK, Rest, UNCHANGED tables,
         NEW h \in Handlers, NEW t \in Task, Become(h, t), Fits(t),
         t.pc \in {"append", "commit"} =>
           \/ tasks[h].pc \in {"append", "commit"} /\ tasks[h].wallet = t.wallet
           \/ ~Locked(t.wallet),
         t.pc \in {"increment", "commit"} =>
           \/ Inserted(h) /\ tasks[h].row = t.row
           \/ ~Taken(t.row) /\ ~AwaitsRival(h, t.row)
  PROVE  Rest'
<1>1. /\ tasks' \in [Handlers -> Task] /\ tasks'[h] = t
      /\ \A g \in Handlers \ {h} : tasks'[g] = tasks[g]
  BY BecomeType DEF TypeOK
<1>2. \A g \in Handlers : Fits(tasks[g])
  BY DEF Rest, TaskInv, FundsInv, Fits
<1>3. \A g \in Handlers : Fits(tasks'[g])
  BY <1>1, <1>2
<1>4. ASSUME NEW g \in Handlers PROVE Fits(tasks[g])'
  BY <1>3, SameTables DEF Fits, tables, RowInv, GivesBack, Wallets, Rows
<1>5. TaskInv' /\ FundsInv'
  BY <1>4 DEF TaskInv, FundsInv, Fits
<1>6. LockInv'
  <2> SUFFICES ASSUME NEW f \in Handlers, NEW g \in Handlers, f # g,
                      tasks'[f].pc \in {"append", "commit"},
                      tasks'[g].pc \in {"append", "commit"},
                      tasks'[f].wallet = tasks'[g].wallet
               PROVE  FALSE
    BY DEF LockInv
  <2>1. CASE f # h /\ g # h
    BY <1>1, <2>1 DEF Rest, LockInv
  <2>2. CASE f = h
    BY <1>1, <2>2 DEF Rest, LockInv, Locked
  <2>3. CASE g = h
    BY <1>1, <2>3 DEF Rest, LockInv, Locked
  <2> QED
    BY <2>1, <2>2, <2>3
<1>7. KeyInv'
  <2> SUFFICES ASSUME NEW g \in Handlers,
                      tasks'[g].pc \in {"increment", "commit"}
               PROVE  /\ ~Taken(tasks'[g].row)
                      /\ \A o \in Handlers \ {g} :
                           tasks'[o].pc \in {"increment", "commit"}
                             => ~SameKey(tasks'[g].row, tasks'[o].row)
    BY SameTables DEF KeyInv, Inserted, AwaitsRival, Taken, tables, Rows
  <2>1. \A row, other : SameKey(row, other) => SameKey(other, row)
    BY DEF SameKey
  <2>2. \A f \in Handlers : Inserted(f) =>
          /\ ~Taken(tasks[f].row)
          /\ \A o \in Handlers \ {f} :
               Inserted(o) => ~SameKey(tasks[f].row, tasks[o].row)
    BY DEF Rest, KeyInv, AwaitsRival
  <2>3. t.pc \in {"increment", "commit"} =>
          /\ ~Taken(t.row)
          /\ \A o \in Handlers \ {h} :
               Inserted(o) => ~SameKey(t.row, tasks[o].row)
    BY <2>2 DEF AwaitsRival
  <2>4. CASE g = h
    BY <1>1, <2>3, <2>4 DEF Inserted
  <2>5. CASE g # h
    BY <1>1, <2>1, <2>2, <2>3, <2>5 DEF Inserted
  <2> QED
    BY <2>4, <2>5
<1> QED
  BY <1>5, <1>6, <1>7, SameTables DEF Rest

\* A call ends, or its transaction is rolled back.
LEMMA EndStep ==
  ASSUME TypeOK, Rest, UNCHANGED tables, NEW h \in Handlers, Become(h, Idle)
  PROVE  Rest'
<1>1. Fits(Idle)
  BY DEF Fits, Idle
<1> QED
  BY <1>1, IdleType, MoveStep DEF Idle

\* A transaction opens for a wallet that was found.
LEMMA FoundStep ==
  ASSUME TypeOK, Rest, UNCHANGED tables, NEW h \in Handlers, NEW w \in Wallets,
         tasks[h].pc \in {"find", "winner"}, Found(h, w)
  PROVE  Rest'
<1> DEFINE t == [pc |-> "decrement", request |-> tasks[h].request, wallet |-> w]
<1>1. CASE tasks[h].request.cost = 0
  BY <1>1, EndStep DEF Found, Reply
<1>2. CASE tasks[h].request.cost # 0
  <2>1. /\ tasks[h].request \in DebitType /\ tasks[h].request.cost >= 0
        /\ w \in Nat \ {0}
    BY TaskFields, RowType DEF Rest, TaskInv
  <2>2. t \in Task /\ tasks[h].request.cost > 0
    BY <1>2, <2>1 DEF Task, DebitType
  <2>3. Fits(t) /\ t.pc = "decrement"
    BY <2>2 DEF Fits
  <2>4. Become(h, t)
    BY <1>2 DEF Found
  <2> HIDE DEF t
  <2> QED
    BY <2>2, <2>3, <2>4, MoveStep
<1> QED
  BY <1>1, <1>2

\* The steps of a call that leave the tables alone.
LEMMA InvQuiet ==
  ASSUME TypeOK, Rest, NEW h \in Handlers,
         \/ Call(h)
         \/ FindWallet(h) \/ FindWinner(h) \/ DecrementIfAffordable(h)
         \/ AppendDebit(h) \/ InsertRefund(h) \/ FindExisting(h)
         \/ IncrementBalance(h) \/ Fail(h)
  PROVE  Rest'
<1>0. UNCHANGED tables
  BY DEF Call, GetWalletForUser, DebitForReading, RefundDebit, FindWallet,
         FindWinner, DecrementIfAffordable, AppendDebit, InsertRefund,
         FindExisting, IncrementBalance, Fail, RollBack
<1>1. ASSUME NEW outcome, Reply(h, outcome)
      PROVE  Rest'
  BY <1>0, <1>1, EndStep DEF Reply
<1>2. CASE Call(h)
  <2>1. ASSUME NEW r \in DebitType, r.cost >= 0,
               Become(h, [pc |-> "find", request |-> r])
        PROVE  Rest'
    <3>1. /\ [pc |-> "find", request |-> r] \in Task
          /\ Fits([pc |-> "find", request |-> r])
      BY <2>1 DEF Task, Fits
    <3> QED
      BY <1>0, <2>1, <3>1, MoveStep
  <2>2. ASSUME NEW u \in Users, GetWalletForUser(h, u)
        PROVE  Rest'
    <3>1. [user |-> u, cost |-> 0, key |-> NoKey] \in DebitType
      BY DEF DebitType
    <3> QED
      BY <2>1, <2>2, <3>1 DEF GetWalletForUser
  <2>3. ASSUME NEW d \in Debits, DebitForReading(h, d)
        PROVE  Rest'
    <3>1. d \in DebitType /\ d.cost \in Int
      BY DebitsAssumption DEF DebitType
    <3> QED
      BY <1>1, <2>1, <2>3, <3>1 DEF DebitForReading
  <2>4. ASSUME NEW i \in Rows, RefundDebit(h, i)
        PROVE  Rest'
    <3>1. [pc |-> "insert", debit |-> i] \in Task
      BY RowType DEF Task
    <3>2. ledger[i].kind = "debit" => Fits([pc |-> "insert", debit |-> i])
      BY DEF Fits
    <3> QED
      BY <1>0, <1>1, <2>4, <3>1, <3>2, MoveStep DEF RefundDebit
  <2> QED
    BY <1>2, <2>2, <2>3, <2>4 DEF Call
<1>3. CASE FindWallet(h)
  <2> DEFINE t == [tasks[h] EXCEPT !.pc = "create"]
  <2>1. /\ t \in Task /\ t.pc = "create" /\ t.request = tasks[h].request
        /\ tasks[h].request.cost >= 0
    BY <1>3, TaskFields DEF FindWallet, IsAt, Task, Idle, Rest, TaskInv
  <2> HIDE DEF t
  <2>2. Fits(t)
    BY <2>1 DEF Fits
  <2>3. CASE Become(h, t)
    BY <1>0, <2>1, <2>2, <2>3, MoveStep
  <2> QED
    BY <1>0, <1>3, <2>3, FoundStep DEF FindWallet, IsAt, t
<1>4. CASE FindWinner(h)
  BY <1>0, <1>4, FoundStep DEF FindWinner, IsAt, OwnedBy
<1>5. CASE DecrementIfAffordable(h)
  <2> DEFINE t == [tasks[h] EXCEPT !.pc = "append"]
  <2>1. /\ t \in Task /\ t.pc = "append" /\ t.request = tasks[h].request
        /\ t.wallet = tasks[h].wallet
        /\ tasks[h].request.cost > 0 /\ tasks[h].wallet \in Wallets
    BY <1>5, TaskFields
       DEF DecrementIfAffordable, IsAt, Task, Idle, Rest, TaskInv
  <2> HIDE DEF t
  <2>2. CASE Affordable(tasks[h].wallet, tasks[h].request.cost) /\ Become(h, t)
    <3>1. Fits(t)
      BY <2>1, <2>2 DEF Fits, Affordable
    <3> QED
      BY <1>0, <1>5, <2>1, <2>2, <3>1, MoveStep DEF DecrementIfAffordable
  <2> QED
    BY <1>1, <1>5, <2>2 DEF DecrementIfAffordable, RollBack, t
<1>6. CASE AppendDebit(h)
  <2> DEFINE d == tasks[h].request
             row == Row(tasks[h].wallet, -d.cost, "debit", KeyRef(d.key))
             t == [pc |-> "commit", wallet |-> row.wallet, row |-> row]
  <2>1. /\ IsAt(h, "append") /\ d \in DebitType /\ tasks[h].wallet \in Wallets
        /\ d.cost > 0 /\ wallets[tasks[h].wallet].balance >= d.cost
        /\ wallets[tasks[h].wallet].balance \in Int /\ d.cost \in Int
    BY <1>6, TaskFields, RowType
       DEF AppendDebit, IsAt, Rest, TaskInv, FundsInv, WalletRow, DebitType
  <2>2. /\ row \in LedgerRow /\ row.wallet = tasks[h].wallet
        /\ row.amount = -d.cost /\ row.kind = "debit"
        /\ row.ref = KeyRef(d.key)
    BY <2>1, RowType, RowsType DEF Row
  <2>3. row.ref.kind # "debit"
    BY <2>2 DEF KeyRef, NoRef
  <2>4. row.amount < 0
    BY <2>1, <2>2
  <2>5. t \in Task /\ t.pc = "commit" /\ t.wallet = row.wallet /\ t.row = row
    BY <2>1, <2>2, RowType DEF Task
  <2> HIDE DEF t, row
  <2>6. RowInv(row)
    BY <2>1, <2>2, <2>3, <2>4 DEF RowInv, GivesBack
  <2>7. Fits(t)
    BY <2>1, <2>2, <2>5, <2>6 DEF Fits
  <2>8. CASE /\ ~AwaitsRival(h, row) /\ ~Taken(row) /\ Become(h, t)
    BY <1>0, <2>1, <2>2, <2>5, <2>7, <2>8, MoveStep DEF IsAt
  <2> QED
    BY <1>1, <1>6, <2>8 DEF AppendDebit, RollBack, t, row
<1>7. CASE InsertRefund(h)
  <2> DEFINE i == tasks[h].debit
             row == Row(ledger[i].wallet, -ledger[i].amount, "refund",
                        DebitRef(i))
             t == [pc |-> "increment", wallet |-> row.wallet, row |-> row]
  <2>1. i \in Rows /\ ledger[i].kind = "debit"
    BY <1>7 DEF InsertRefund, IsAt, Rest, TaskInv
  <2>2. /\ ledger[i].amount < 0 /\ ledger[i].wallet \in Wallets
        /\ ledger[i].amount \in Int /\ i \in Nat \ {0}
    BY <2>1, RowType DEF Rest, LedgerInv, RowInv, LedgerRow
  <2>3. /\ row \in LedgerRow /\ row.wallet = ledger[i].wallet
        /\ row.amount = -ledger[i].amount /\ row.kind = "refund"
        /\ row.ref.kind = "debit" /\ row.ref.debit = i
    BY <2>1, RowsType DEF Row, DebitRef
  <2>4. t \in Task /\ t.pc = "increment" /\ t.wallet = row.wallet /\ t.row = row
    BY <2>2, <2>3, RowType DEF Task
  <2> HIDE DEF t, row
  <2>5. RowInv(row) /\ row.amount > 0
    BY <2>1, <2>2, <2>3 DEF RowInv, GivesBack
  <2>6. Fits(t)
    BY <2>4, <2>5 DEF Fits
  <2>7. CASE ~AwaitsRival(h, row) /\ ~Taken(row) /\ Become(h, t)
    BY <1>0, <2>4, <2>6, <2>7, MoveStep
  <2>8. CASE Become(h, [pc |-> "existing", debit |-> i])
    <3>1. /\ [pc |-> "existing", debit |-> i] \in Task
          /\ Fits([pc |-> "existing", debit |-> i])
      BY <2>1, <2>2 DEF Task, Fits
    <3> QED
      BY <1>0, <2>8, <3>1, MoveStep
  <2> QED
    BY <1>7, <2>7, <2>8 DEF InsertRefund, t, row
<1>8. CASE FindExisting(h) \/ Fail(h)
  BY <1>1, <1>8 DEF FindExisting, Fail, RollBack
<1>9. CASE IncrementBalance(h)
  <2> DEFINE t == [tasks[h] EXCEPT !.pc = "commit"]
  <2>1. /\ t \in Task /\ t.pc = "commit" /\ t.row = tasks[h].row
        /\ t.wallet = tasks[h].wallet /\ tasks[h].row \in LedgerRow
        /\ tasks[h].pc = "increment"
    BY <1>9, TaskFields DEF IncrementBalance, IsAt, Task, Idle
  <2>2. /\ t.wallet = t.row.wallet /\ RowInv(t.row) /\ t.row.amount > 0
        /\ t.wallet \in Wallets /\ t.row.amount \in Int
    BY <2>1 DEF Rest, TaskInv, FundsInv, LedgerRow, RowInv
  <2> HIDE DEF t
  <2>3. wallets[t.wallet].balance >= 0 /\ wallets[t.wallet].balance \in Int
    BY <2>2, RowType DEF Rest, NeverOverdrawn, WalletRow
  <2>4. Fits(t)
    BY <2>1, <2>2, <2>3 DEF Fits
  <2>5. Become(h, t) /\ ~Locked(t.wallet) /\ Inserted(h)
    BY <1>9, <2>1 DEF IncrementBalance, Inserted, t
  <2> QED
    BY <1>0, <2>1, <2>4, <2>5, MoveStep
<1> QED
  BY <1>2, <1>3, <1>4, <1>5, <1>6, <1>7, <1>8, <1>9
-----------------------------------------------------------------------------
(***************************************************************************)
(* The invariant, for the steps that write.                                *)
(***************************************************************************)
\* What is true of a row stays true while the tables only grow.
LEMMA RowInvGrows ==
  ASSUME Wallets \subseteq Wallets', Rows \subseteq Rows',
         \A i \in Rows : ledger'[i] = ledger[i]
  PROVE  \A row : RowInv(row) => RowInv(row)'
<1>1. \A row : GivesBack(row) => GivesBack(row)'
  <2> SUFFICES ASSUME NEW row, GivesBack(row), row.ref.kind = "debit"
               PROVE  GivesBack(row)'
    BY DEF GivesBack
  <2>1. row.ref.debit \in Rows
    BY DEF GivesBack
  <2>2. row.ref.debit \in Rows' /\ ledger'[row.ref.debit] = ledger[row.ref.debit]
    BY <2>1
  <2> QED
    BY <2>2 DEF GivesBack
<1> QED
  BY <1>1 DEF RowInv

\* A row that no other has the key of keeps the keys of the ledger unique.
LEMMA LedgerGrows ==
  ASSUME LedgerInv, Wallets \subseteq Wallets', NEW n, NEW row,
         Rows' = Rows \cup {n}, ledger'[n] = row,
         \A i \in Rows : ledger'[i] = ledger[i],
         RowInv(row)', ~Taken(row)
  PROVE  LedgerInv'
<1>1. \A i \in Rows' : RowInv(ledger[i])'
  <2> SUFFICES ASSUME NEW i \in Rows', NEW r, r = ledger'[i]
               PROVE  RowInv(r)'
    BY DEF RowInv, GivesBack, Rows, Wallets
  <2>1. CASE i = n
    BY <2>1
  <2>2. CASE i # n
    <3>1. i \in Rows /\ r = ledger[i] /\ RowInv(r)
      BY <2>2 DEF LedgerInv
    <3> QED
      BY <3>1, RowInvGrows
  <2> QED
    BY <2>1, <2>2
<1>2. ASSUME NEW i \in Rows', NEW j \in Rows', SameKey(ledger'[i], ledger'[j])
      PROVE  i = j
  <2>1. CASE i \in Rows /\ j \in Rows
    BY <1>2, <2>1 DEF LedgerInv
  <2>2. CASE i = n /\ j \in Rows
    BY <1>2, <2>2 DEF Taken
  <2>3. CASE i \in Rows /\ j = n
    BY <1>2, <2>3 DEF Taken, SameKey
  <2> QED
    BY <2>1, <2>2, <2>3
<1> QED
  BY <1>1, <1>2 DEF LedgerInv, SameKey, Rows

\* A new wallet: its starter row has no key, and its maker holds no lock yet.
LEMMA InvCreate ==
  ASSUME TypeOK, Rest, NEW h \in Handlers, CreateWithStarter(h)
  PROVE  Rest'
<1> DEFINE u == tasks[h].request.user
           w == Len(wallets) + 1
           new == [user |-> u, balance |-> StarterCoins]
           row == Row(w, StarterCoins, "starter", NoRef)
           t == [pc |-> "decrement", request |-> tasks[h].request, wallet |-> w]
<1>1. /\ tasks[h].pc = "create" /\ tasks[h].request.cost >= 0
      /\ tasks[h].request \in DebitType /\ tasks[h].request.cost \in Int
      /\ new \in WalletRow
  BY TaskFields, WalletBounds
     DEF CreateWithStarter, IsAt, WalletRow, DebitType, Rest, TaskInv
<1>2. CASE /\ wallets' = Append(wallets, new) /\ ledger' = Append(ledger, row)
           /\ Found(h, w)
  <2> DEFINE n == Len(ledger) + 1
  <2>1. /\ w \notin Wallets /\ Wallets' = Wallets \cup {w}
        /\ wallets'[w].balance = StarterCoins
        /\ \A v \in Wallets : wallets'[v] = wallets[v]
        /\ w \in Nat \ {0}
    BY <1>1, <1>2, AppendRow DEF TypeOK, Wallets
  <2>2. row \in LedgerRow
    BY <2>1, RowsType
  <2>3. /\ Rows' = Rows \cup {n} /\ ledger'[n] = row
        /\ \A i \in Rows : ledger'[i] = ledger[i]
    BY <1>2, <2>2, AppendRow DEF TypeOK, Rows
  <2>4. /\ row.wallet = w /\ row.kind = "starter" /\ row.ref = NoRef
        /\ row.ref.kind = "null"
    BY DEF Row, NoRef
  <2>5. /\ tasks' \in [Handlers -> Task]
        /\ \A g \in Handlers \ {h} : tasks'[g] = tasks[g]
        /\ tasks'[h] = Idle \/ (tasks'[h] = t /\ tasks[h].request.cost > 0)
    <3>1. t \in Task
      BY <1>1, <2>1 DEF Task
    <3> QED
      BY <1>1, <1>2, <3>1, IdleType, BecomeType DEF Found, Reply, TypeOK
  <2> HIDE DEF row, w, n, new
  <2>6. \A r : r = row => RowInv(r)'
    BY <2>1, <2>4 DEF RowInv, GivesBack
  <2>7. \A r : RowInv(r) => RowInv(r)'
    BY <2>1, <2>3, RowInvGrows
  <2>8. \A r : Taken(r)' => Taken(r)
    BY <2>3, <2>4 DEF Taken, SameKey
  <2>9. LedgerInv'
    BY <2>1, <2>3, <2>4, <2>6, LedgerGrows DEF Rest, Taken, SameKey
  <2>10. NeverOverdrawn'
    BY <2>1, WalletBounds DEF Rest, NeverOverdrawn
  <2>11. ASSUME NEW g \in Handlers PROVE Fits(tasks[g])'
    <3>1. CASE g = h
      <4>1. CASE tasks'[h] = Idle
        BY <3>1, <4>1 DEF Fits, Idle
      <4>2. CASE tasks'[h] = t /\ tasks[h].request.cost > 0
        <5>1. /\ tasks'[h].pc = "decrement" /\ tasks'[h].wallet = w
              /\ tasks'[h].request.cost > 0
          BY <4>2
        <5> QED
          BY <2>1, <3>1, <5>1 DEF Fits
      <4> QED
        BY <2>5, <4>1, <4>2
    <3>2. CASE g # h
      <4>1. tasks'[g] = tasks[g]
        BY <2>5, <3>2
      <4>2. Fits(tasks[g])
        BY DEF Rest, TaskInv, FundsInv, Fits
      <4>3. tasks[g].pc = "commit" => tasks[g].wallet \in Wallets
        BY <4>2 DEF Fits, RowInv
      <4> QED
        BY <2>1, <2>3, <2>7, <4>1, <4>2, <4>3 DEF Fits
    <3> QED
      BY <3>1, <3>2
  <2>12. TaskInv' /\ FundsInv'
    BY <2>11 DEF TaskInv, FundsInv, Fits
  <2>13. \A g \in Handlers :
           tasks'[g].pc \in {"append", "increment", "commit"} =>
             g # h /\ tasks'[g] = tasks[g]
    BY <2>5 DEF Idle
  <2>14. LockInv'
    BY <2>13 DEF LockInv, Rest
  <2>15. KeyInv'
    BY <2>8, <2>13 DEF KeyInv, Rest, Inserted, AwaitsRival
  <2> QED
    BY <2>9, <2>10, <2>12, <2>14, <2>15 DEF Rest
<1>3. CASE /\ Become(h, [tasks[h] EXCEPT !.pc = "winner"])
           /\ UNCHANGED <<tables, reply>>
  <2> DEFINE next == [tasks[h] EXCEPT !.pc = "winner"]
  <2>1. /\ next \in Task /\ next.pc = "winner"
        /\ next.request = tasks[h].request
    BY <1>1, TaskFields DEF Task, Idle
  <2> HIDE DEF next
  <2>2. Fits(next)
    BY <1>1, <2>1 DEF Fits
  <2> QED
    BY <1>3, <2>1, <2>2, MoveStep DEF next
<1> QED
  BY <1>2, <1>3 DEF CreateWithStarter

\* The commit writes the balance its transaction locked and a row whose key no
\* other has.
LEMMA InvCommit ==
  ASSUME TypeOK, Rest, NEW h \in Handlers, Commit(h)
  PROVE  Rest'
<1> DEFINE w == tasks[h].wallet
           row == tasks[h].row
           n == Len(ledger) + 1
<1>0. tasks[h].pc = "commit" /\ Inserted(h) /\ TaskInv
  BY DEF Commit, IsAt, Inserted, Rest
<1>1. /\ w \in Wallets /\ row \in LedgerRow /\ row.wallet = w
      /\ Wallets' = Wallets
      /\ \A v \in Wallets :
           wallets'[v].balance = IF v = w THEN wallets[v].balance + row.amount
                                 ELSE wallets[v].balance
      /\ Rows' = Rows \cup {n} /\ ledger'[n] = row
      /\ \A i \in Rows : ledger'[i] = ledger[i]
  BY <1>0, CommitWrites
<1>2. /\ tasks'[h] = Idle
      /\ \A g \in Handlers \ {h} : tasks'[g] = tasks[g]
  BY IdleType, BecomeType DEF Commit, Reply, TypeOK
<1>3. \A g \in Handlers : tasks'[g].pc # "idle" => g # h /\ tasks'[g] = tasks[g]
  BY <1>2 DEF Idle
<1> HIDE DEF w, row, n
<1>4. RowInv(row) /\ wallets[w].balance + row.amount >= 0 /\ ~Taken(row)
  BY <1>0 DEF Rest, TaskInv, FundsInv, KeyInv, w, row
<1>5. \A r : RowInv(r) => RowInv(r)'
  BY <1>1, RowInvGrows
<1>6. LedgerInv'
  BY <1>1, <1>4, <1>5, LedgerGrows DEF Rest
<1>7. NeverOverdrawn'
  BY <1>1, <1>4 DEF Rest, NeverOverdrawn
<1>8. ASSUME NEW g \in Handlers PROVE Fits(tasks[g])'
  <2>1. CASE tasks'[g].pc = "idle"
    BY <2>1 DEF Fits
  <2>2. CASE tasks'[g].pc # "idle"
    <3>1. g # h /\ tasks'[g] = tasks[g]
      BY <1>3, <2>2
    <3>2. Fits(tasks[g])
      BY DEF Rest, TaskInv, FundsInv, Fits
    <3>3. tasks[g].pc \in {"append", "commit"} =>
            tasks[g].wallet \in Wallets /\ tasks[g].wallet # w
      BY <1>0, <3>1, <3>2 DEF Fits, RowInv, Rest, LockInv, w
    <3> QED
      BY <1>1, <1>5, <3>1, <3>2, <3>3 DEF Fits
  <2> QED
    BY <2>1, <2>2
<1>9. TaskInv' /\ FundsInv'
  BY <1>8 DEF TaskInv, FundsInv, Fits
<1>10. LockInv'
  BY <1>3 DEF LockInv, Rest
<1>11. KeyInv'
  <2> SUFFICES ASSUME NEW g \in Handlers, Inserted(g)'
               PROVE  /\ ~Taken(tasks[g].row)'
                      /\ ~AwaitsRival(g, tasks[g].row)'
    BY DEF KeyInv, Taken, AwaitsRival
  <2>1. g # h /\ tasks'[g] = tasks[g] /\ Inserted(g)
    BY <1>3 DEF Inserted
  <2>2. ~SameKey(tasks[g].row, row)
    BY <1>0, <2>1 DEF Rest, KeyInv, AwaitsRival, row
  <2>3. ~Taken(tasks[g].row)'
    BY <1>1, <2>1, <2>2 DEF Rest, KeyInv, Taken
  <2>4. ~AwaitsRival(g, tasks[g].row)'
    BY <1>3, <2>1 DEF Rest, KeyInv, AwaitsRival, Inserted
  <2> QED
    BY <2>3, <2>4
<1> QED
  BY <1>6, <1>7, <1>9, <1>10, <1>11 DEF Rest

\* Every step keeps the invariant.
LEMMA InvNext ==
  ASSUME TypeOK, Rest, [Next]_vars
  PROVE  Rest'
<1>1. CASE UNCHANGED vars
  <2>1. wallets' = wallets /\ ledger' = ledger /\ tasks' = tasks
    BY <1>1 DEF vars
  <2>2. UNCHANGED tables
    BY <2>1 DEF tables
  <2>3. TaskInv'
    BY <2>1 DEF Rest, TaskInv, RowInv, GivesBack, Wallets, Rows
  <2>4. LockInv' /\ FundsInv'
    BY <2>1 DEF Rest, LockInv, FundsInv, Wallets, Rows, Inserted
  <2>5. KeyInv'
    BY <2>1 DEF Rest, KeyInv, Inserted, Taken, AwaitsRival, Rows
  <2> QED
    BY <2>2, <2>3, <2>4, <2>5, SameTables, Zenon DEF Rest
<1>2. CASE Crash
  <2>1. UNCHANGED tables /\ \A h \in Handlers : tasks'[h] = Idle
    BY <1>2 DEF Crash
  <2>2. Idle.pc = "idle"
    BY DEF Idle
  <2>3. TaskInv' /\ LockInv' /\ FundsInv' /\ KeyInv'
    BY <2>1, <2>2 DEF TaskInv, LockInv, FundsInv, KeyInv, Inserted
  <2> QED
    BY <2>1, <2>3, SameTables DEF Rest
<1>3. ASSUME NEW h \in Handlers, Call(h) \/ Step(h) \/ Fail(h)
      PROVE  Rest'
  <2>1. CASE CreateWithStarter(h)
    BY <2>1, InvCreate, Zenon
  <2>2. CASE Commit(h)
    BY <2>2, InvCommit, Zenon
  <2>3. CASE ~CreateWithStarter(h) /\ ~Commit(h)
    <3>1. \/ Call(h)
          \/ FindWallet(h) \/ FindWinner(h) \/ DecrementIfAffordable(h)
          \/ AppendDebit(h) \/ InsertRefund(h) \/ FindExisting(h)
          \/ IncrementBalance(h) \/ Fail(h)
      BY <1>3, <2>3, Zenon DEF Step
    <3> QED
      BY <3>1, InvQuiet, Zenon
  <2> QED
    BY <2>1, <2>2, <2>3, Zenon
<1> QED
  BY <1>1, <1>2, <1>3, Zenon DEF Next

-----------------------------------------------------------------------------
(***************************************************************************)
(* The theorems.                                                           *)
(***************************************************************************)
\* The invariant holds in every reachable state.
THEOREM Invariance == Spec => []IInv
<1>1. Init => TypeOK
  BY TypeInit
<1>2. Init => Rest
  <2> SUFFICES ASSUME Init PROVE Rest
    OBVIOUS
  <2>1. Wallets = {} /\ Rows = {}
    BY EmptySeq, LenProperties DEF Init, Wallets, Rows
  <2>2. \A h \in Handlers : tasks[h].pc = "idle"
    BY DEF Init, Idle
  <2> QED
    BY <2>1, <2>2 DEF Rest, LedgerInv, TaskInv, LockInv, FundsInv, KeyInv,
                      NeverOverdrawn, Inserted
<1>3. TypeOK /\ Rest /\ [Next]_vars => (TypeOK /\ Rest)'
  BY TypeNext, InvNext DEF Rest
<1>4. TypeOK /\ Rest => IInv
  BY DEF Rest, IInv
<1> QED
  BY <1>1, <1>2, <1>3, <1>4, PTL DEF Spec

\* Type correctness.
THEOREM TypeCorrect == Spec => []TypeOK
<1>1. IInv => TypeOK
  BY DEF IInv
<1> QED
  BY <1>1, Invariance, PTL

\* Racing debits never take a wallet below zero: the conditional decrement keeps
\* the row locked until the commit that writes the balance it checked.
THEOREM Solvent == Spec => []NeverOverdrawn
<1>1. IInv => NeverOverdrawn
  BY DEF IInv
<1> QED
  BY <1>1, Invariance, PTL

\* An Idempotency-Key is charged once to a wallet, and a debit given back at
\* most once, in full, to the wallet that paid, however calls race and fail.
THEOREM MovedOnce == Spec => []MovedOncePerReason
<1>1. IInv => MovedOncePerReason
  <2> SUFFICES ASSUME IInv PROVE MovedOncePerReason
    OBVIOUS
  <2>1. \A i, j \in Rows : SameKey(ledger[i], ledger[j]) => i = j
    BY DEF IInv, LedgerInv
  <2>2. ASSUME NEW i \in Rows, NEW j \in RefundsOf(i)
        PROVE  /\ j \in Rows
               /\ ledger[i].kind = "debit" /\ ledger[j].kind = "refund"
               /\ ledger[j].wallet = ledger[i].wallet
               /\ ledger[j].amount = -ledger[i].amount
    <3>1. j \in Rows /\ ledger[j].ref = DebitRef(i)
      BY DEF RefundsOf
    <3>2. ledger[j].ref.kind = "debit" /\ ledger[j].ref.debit = i
      BY <3>1 DEF DebitRef
    <3> QED
      BY <3>1, <3>2 DEF IInv, LedgerInv, RowInv, GivesBack
  <2>3. ASSUME NEW i \in Rows PROVE Cardinality(RefundsOf(i)) <= 1
    <3>1. \A j, k \in RefundsOf(i) : j = k
      <4> SUFFICES ASSUME NEW j \in RefundsOf(i), NEW k \in RefundsOf(i)
                   PROVE  j = k
        OBVIOUS
      <4>1. SameKey(ledger[j], ledger[k])
        <5>1. /\ ledger[j].ref = DebitRef(i) /\ ledger[k].ref = DebitRef(i)
              /\ DebitRef(i).kind # NoRef.kind
          BY DEF RefundsOf, DebitRef, NoRef
        <5> QED
          BY <2>2, <5>1 DEF SameKey
      <4> QED
        BY <2>1, <2>2, <4>1
    <3>2. CASE RefundsOf(i) = {}
      BY <3>2, FS_EmptySet
    <3>3. CASE RefundsOf(i) # {}
      <4>1. PICK j \in RefundsOf(i) : RefundsOf(i) = {j}
        BY <3>1, <3>3
      <4>2. Cardinality({j}) = 1
        BY FS_Singleton
      <4> QED
        BY <4>1, <4>2
    <3> QED
      BY <3>2, <3>3
  <2> QED
    BY <2>1, <2>2, <2>3 DEF MovedOncePerReason
<1> QED
  BY <1>1, Invariance, PTL
-----------------------------------------------------------------------------
(***************************************************************************)
(* The balance and the ledger.  Every wallet has a running sum of its rows *)
(* that ends in its balance; a commit and a new wallet extend it by a row. *)
(***************************************************************************)
Balanced(w) == \E s : AddsUp(w, s) /\ s[Len(ledger)] = wallets[w].balance

Truth == \A w \in Wallets : Balanced(w)

\* What a running sum says of its steps.
LEMMA SumSteps ==
  ASSUME TypeOK, NEW w, NEW s, AddsUp(w, s)
  PROVE  /\ s[0] = 0
         /\ \A n \in 0 .. Len(ledger) : n # 0 =>
              s[n] = s[n - 1] + (IF ledger[n].wallet = w THEN ledger[n].amount
                                 ELSE 0)
<1>1. 0 \in 0 .. Len(ledger)
  BY LenProperties DEF TypeOK
<1>2. \A n \in 0 .. Len(ledger) :
        s[n] = IF n = 0 THEN 0
               ELSE s[n - 1] + (IF ledger[n].wallet = w THEN ledger[n].amount
                                ELSE 0)
  BY DEF AddsUp
<1> QED
  BY <1>1, <1>2

\* The order of the naturals, as a relation.
Less == {ss \in Nat \X Nat : ss[1] < ss[2]}

\* A set that holds 0, and n + 1 with every n, holds every natural.
LEMMA SetInduction ==
  ASSUME NEW S, 0 \in S, \A n \in Nat : n \in S => n + 1 \in S
  PROVE  Nat \subseteq S
<1> SUFFICES ASSUME Nat \ S # {} PROVE FALSE
  OBVIOUS
<1>1. IsWellFoundedOn(Less, Nat)
  BY NatLessThanWellFounded DEF OpToRel, Less
<1>2. PICK x \in Nat \ S : \A y \in Nat \ S : ~(<<y, x>> \in Less)
  BY <1>1, WFMin
<1>3. x # 0 /\ x - 1 \in Nat
  OBVIOUS
<1>4. <<x - 1, x>> \in Nat \X Nat /\ <<x - 1, x>>[1] = x - 1 /\ <<x - 1, x>>[2] = x
  BY <1>3
<1>5. <<x - 1, x>> \in Less
  BY <1>3, <1>4 DEF Less
<1>6. x - 1 \in S
  BY <1>2, <1>3, <1>5
<1>7. x - 1 + 1 \in S
  BY <1>3, <1>6
<1> QED
  BY <1>3, <1>7

\* The rows have one running sum.
LEMMA SumUnique ==
  ASSUME TypeOK, NEW w, NEW s, NEW r, AddsUp(w, s), AddsUp(w, r)
  PROVE  s = r
<1> DEFINE N == Len(ledger)
           Agree == {n \in Nat : n <= N => s[n] = r[n]}
<1>0. N \in Nat
  BY LenProperties DEF TypeOK
<1>1. 0 \in Agree
  BY SumSteps
<1>2. ASSUME NEW n \in Nat, n \in Agree PROVE n + 1 \in Agree
  <2> SUFFICES ASSUME n + 1 <= N PROVE s[n + 1] = r[n + 1]
    OBVIOUS
  <2>1. n + 1 \in 0 .. N /\ n + 1 # 0 /\ (n + 1) - 1 = n
    BY <1>0
  <2>2. s[n] = r[n]
    BY <1>0, <1>2
  <2>3. \A f : AddsUp(w, f) =>
          f[n + 1] = f[(n + 1) - 1] + (IF ledger[n + 1].wallet = w
                                       THEN ledger[n + 1].amount ELSE 0)
    BY <2>1, SumSteps
  <2> QED
    BY <2>1, <2>2, <2>3
<1> HIDE DEF Agree
<1>3. Nat \subseteq Agree
  BY <1>1, <1>2, SetInduction
<1>4. \A n \in 0 .. N : s[n] = r[n]
  BY <1>0, <1>3 DEF Agree
<1>5. \A f : AddsUp(w, f) => f = [n \in 0 .. N |-> f[n]]
  BY DEF AddsUp
<1>6. [n \in 0 .. N |-> s[n]] = [n \in 0 .. N |-> r[n]]
  BY <1>4
<1> QED
  BY <1>5, <1>6

\* A row appended to the ledger takes a running sum one step further.
LEMMA SumGrows ==
  ASSUME TypeOK, NEW w, NEW s, AddsUp(w, s), NEW row \in LedgerRow,
         ledger' = Append(ledger, row)
  PROVE  \E r : /\ AddsUp(w, r)'
                /\ r[Len(ledger')] =
                     s[Len(ledger)] + (IF row.wallet = w THEN row.amount ELSE 0)
<1> DEFINE N == Len(ledger)
           more == s[N] + (IF row.wallet = w THEN row.amount ELSE 0)
           r == [n \in 0 .. N + 1 |-> IF n = N + 1 THEN more ELSE s[n]]
<1>1. /\ N \in Nat /\ Len(ledger') = N + 1 /\ ledger'[N + 1] = row
      /\ \A i \in 1 .. N : ledger'[i] = ledger[i]
  BY AppendProperties, LenProperties DEF TypeOK
<1>2. /\ s[0] = 0
      /\ \A n \in 0 .. N : n # 0 =>
           s[n] = s[n - 1] + (IF ledger[n].wallet = w THEN ledger[n].amount
                              ELSE 0)
  BY SumSteps
<1> HIDE DEF N
<1>3. ASSUME NEW n \in 0 .. N + 1
      PROVE  r[n] = IF n = 0 THEN 0
                    ELSE r[n - 1] + (IF ledger'[n].wallet = w
                                     THEN ledger'[n].amount ELSE 0)
  <2>1. CASE n = 0
    BY <1>1, <1>2, <2>1
  <2>2. CASE n = N + 1
    <3>1. n - 1 = N /\ n # 0 /\ n - 1 \in 0 .. N + 1 /\ n - 1 # N + 1
      BY <1>1, <2>2
    <3>2. r[n - 1] = s[N] /\ r[n] = more
      BY <2>2, <3>1
    <3> QED
      BY <1>1, <2>2, <3>1, <3>2
  <2>3. CASE n # 0 /\ n # N + 1
    <3>1. n \in 1 .. N /\ n \in 0 .. N /\ n - 1 \in 0 .. N + 1 /\ n - 1 # N + 1
      BY <1>1, <2>3
    <3>2. r[n] = s[n] /\ r[n - 1] = s[n - 1] /\ ledger'[n] = ledger[n]
      BY <1>1, <2>3, <3>1
    <3> QED
      BY <1>2, <2>3, <3>1, <3>2
  <2> QED
    BY <2>1, <2>2, <2>3
<1>4. r = [n \in 0 .. N + 1 |->
             IF n = 0 THEN 0
             ELSE r[n - 1] + (IF ledger'[n].wallet = w THEN ledger'[n].amount
                              ELSE 0)]
  BY <1>3
<1>5. r[N + 1] = more
  BY <1>1
<1> HIDE DEF r, more
<1>6. \E f : /\ f = [n \in 0 .. N + 1 |->
                       IF n = 0 THEN 0
                       ELSE f[n - 1] + (IF ledger'[n].wallet = w
                                        THEN ledger'[n].amount ELSE 0)]
             /\ f[N + 1] = more
  BY <1>4, <1>5
<1> QED
  BY <1>1, <1>6 DEF AddsUp, more, N

\* A wallet that no row is about yet adds up to nothing.
LEMMA SumOfNone ==
  ASSUME TypeOK, NEW w, \A i \in Rows : ledger[i].wallet # w
  PROVE  \E s : AddsUp(w, s) /\ s[Len(ledger)] = 0
<1> DEFINE N == Len(ledger)
           s == [n \in 0 .. N |-> 0]
<1>1. N \in Nat /\ Rows = 1 .. N
  BY LenProperties DEF TypeOK, Rows
<1>2. s = [n \in 0 .. N |->
             IF n = 0 THEN 0
             ELSE s[n - 1] + (IF ledger[n].wallet = w THEN ledger[n].amount
                              ELSE 0)]
  BY <1>1
<1> QED
  BY <1>1, <1>2 DEF AddsUp

\* Only a commit and a new wallet write the tables.
LEMMA TablesMove ==
  ASSUME [Next]_vars, ~UNCHANGED tables
  PROVE  \E h \in Handlers : Commit(h) \/ CreateWithStarter(h)
BY DEF Next, Call, Step, vars, tables, GetWalletForUser, DebitForReading,
       RefundDebit, FindWallet, FindWinner, DecrementIfAffordable,
       AppendDebit, InsertRefund, FindExisting, IncrementBalance, Fail,
       RollBack, Crash

\* Every commit moves the balance by what it appends.
LEMMA TruthNext ==
  ASSUME TypeOK, Rest, Truth, [Next]_vars
  PROVE  Truth'
<1>1. CASE UNCHANGED tables
  BY <1>1 DEF tables, Truth, Balanced, AddsUp, Wallets
<1>2. ASSUME NEW h \in Handlers, Commit(h)
      PROVE  Truth'
  <2>1. /\ tasks[h].row \in LedgerRow
        /\ tasks[h].row.wallet = tasks[h].wallet
        /\ ledger' = Append(ledger, tasks[h].row)
        /\ Wallets' = Wallets
        /\ \A w \in Wallets :
             wallets'[w].balance =
               IF w = tasks[h].wallet
               THEN wallets[w].balance + tasks[h].row.amount
               ELSE wallets[w].balance
        /\ \A w \in Wallets : wallets[w].balance \in Int
    BY <1>2, CommitWrites, RowType DEF Rest, WalletRow
  <2>2. ASSUME NEW w \in Wallets PROVE Balanced(w)'
    <3>1. PICK s : AddsUp(w, s) /\ s[Len(ledger)] = wallets[w].balance
      BY DEF Truth, Balanced
    <3>2. PICK r : /\ AddsUp(w, r)'
                   /\ r[Len(ledger')] =
                        s[Len(ledger)] +
                          (IF tasks[h].row.wallet = w THEN tasks[h].row.amount
                           ELSE 0)
      BY <2>1, <3>1, SumGrows
    <3>3. r[Len(ledger')] = wallets'[w].balance
      BY <2>1, <3>1, <3>2
    <3> QED
      BY <3>2, <3>3 DEF Balanced
  <2> QED
    BY <2>1, <2>2 DEF Truth
<1>3. ASSUME NEW h \in Handlers, CreateWithStarter(h), ~UNCHANGED tables
      PROVE  Truth'
  <2> DEFINE u == tasks[h].request.user
             v == Len(wallets) + 1
             new == [user |-> u, balance |-> StarterCoins]
             row == Row(v, StarterCoins, "starter", NoRef)
  <2>1. /\ wallets' = Append(wallets, new) /\ ledger' = Append(ledger, row)
        /\ new \in WalletRow
    BY <1>3, TaskFields, WalletBounds
       DEF CreateWithStarter, IsAt, WalletRow, DebitType
  <2>2. /\ v \notin Wallets /\ Wallets' = Wallets \cup {v} /\ v \in Nat \ {0}
        /\ wallets'[v].balance = StarterCoins
        /\ \A w \in Wallets : wallets'[w] = wallets[w]
    BY <2>1, AppendRow DEF TypeOK, Wallets
  <2>3. row \in LedgerRow /\ row.wallet = v /\ row.amount = StarterCoins
    BY <2>2, RowsType DEF Row
  <2>4. \A i \in Rows : ledger[i].wallet # v
    BY <2>2 DEF Rest, LedgerInv, RowInv
  <2>5. \A w \in Wallets : wallets[w].balance \in Int
    BY RowType DEF WalletRow
  <2> HIDE DEF row, v, new
  <2>6. ASSUME NEW w \in Wallets PROVE Balanced(w)'
    <3>1. PICK s : AddsUp(w, s) /\ s[Len(ledger)] = wallets[w].balance
      BY DEF Truth, Balanced
    <3>2. PICK r : AddsUp(w, r)' /\ r[Len(ledger')] = s[Len(ledger)] + 0
      BY <2>1, <2>2, <2>3, <3>1, SumGrows
    <3>3. r[Len(ledger')] = wallets'[w].balance
      BY <2>2, <2>5, <3>1, <3>2
    <3> QED
      BY <3>2, <3>3 DEF Balanced
  <2>7. \A w : w = v => Balanced(w)'
    <3> SUFFICES ASSUME NEW w, w = v PROVE Balanced(w)'
      OBVIOUS
    <3>1. PICK s : AddsUp(w, s) /\ s[Len(ledger)] = 0
      BY <2>4, SumOfNone
    <3>2. PICK r : /\ AddsUp(w, r)'
                   /\ r[Len(ledger')] = s[Len(ledger)] + StarterCoins
      BY <2>1, <2>3, <3>1, SumGrows
    <3>3. r[Len(ledger')] = wallets'[w].balance
      BY <2>2, <3>1, <3>2, WalletBounds
    <3> QED
      BY <3>2, <3>3 DEF Balanced
  <2> QED
    BY <2>2, <2>6, <2>7 DEF Truth
<1> QED
  BY <1>1, <1>2, <1>3, TablesMove

\* The balance of every wallet is the sum of its ledger rows in every reachable
\* state: the wallet row is a cache of the ledger that no race, failure or
\* crash parts from it.
THEOREM BalanceIsLedgerSum == Spec => []LedgerIsTruth
<1>1. Init => Truth
  <2>1. Init => Wallets = {}
    BY EmptySeq, LenProperties DEF Init, Wallets
  <2> QED
    BY <2>1 DEF Truth
<1>2. IInv => TypeOK /\ Rest
  BY DEF IInv, Rest
<1>3. IInv /\ Truth /\ [Next]_vars => Truth'
  BY <1>2, TruthNext
<1>4. IInv /\ Truth => LedgerIsTruth
  <2> SUFFICES ASSUME IInv, Truth, NEW w \in Wallets
               PROVE  wallets[w].balance = LedgerSum(w)
    BY DEF LedgerIsTruth
  <2> DEFINE sum == CHOOSE s : AddsUp(w, s)
  <2>1. PICK s : AddsUp(w, s) /\ s[Len(ledger)] = wallets[w].balance
    BY DEF Truth, Balanced
  <2>2. AddsUp(w, sum)
    BY <2>1
  <2>3. sum = s
    BY <1>2, <2>1, <2>2, SumUnique
  <2>4. LedgerSum(w) = sum[Len(ledger)]
    BY DEF LedgerSum, AddsUp
  <2> QED
    BY <2>1, <2>3, <2>4
<1> QED
  BY <1>1, <1>3, <1>4, Invariance, PTL DEF Spec

-----------------------------------------------------------------------------
(***************************************************************************)
(* One wallet and one starter row for a user.                              *)
(***************************************************************************)
\* No starter is appended by a transaction: what it inserts is not one.
NoStarter(t) == t.pc \in {"increment", "commit"} => t.row.kind # "starter"

\* One call moves on, to a task that inserts no starter.
LEMMA StarterMove ==
  ASSUME TypeOK, StarterInv, NEW h \in Handlers, NEW t, Become(h, t),
         NoStarter(t)
  PROVE  \A g \in Handlers : NoStarter(tasks'[g])
BY DEF TypeOK, Become, StarterInv, Inserted, NoStarter

\* Every step leaves the open transactions without a starter to append.
LEMMA NoOpenStarter ==
  ASSUME TypeOK, StarterInv, [Next]_vars
  PROVE  \A g \in Handlers : NoStarter(tasks'[g])
<1>0. NoStarter(Idle)
  BY DEF NoStarter, Idle
<1>1. CASE UNCHANGED vars
  BY <1>1 DEF vars, StarterInv, Inserted, NoStarter
<1>2. CASE Crash
  BY <1>0, <1>2 DEF Crash
<1>3. ASSUME NEW h \in Handlers, Call(h) \/ Step(h) \/ Fail(h)
      PROVE  \A g \in Handlers : NoStarter(tasks'[g])
  <2>1. ASSUME NEW outcome, Reply(h, outcome)
        PROVE  \A g \in Handlers : NoStarter(tasks'[g])
    BY <1>0, <2>1, StarterMove DEF Reply
  <2>2. ASSUME NEW w, Found(h, w)
        PROVE  \A g \in Handlers : NoStarter(tasks'[g])
    BY <2>1, <2>2, StarterMove DEF Found, NoStarter
  <2>3. CASE Call(h)
    <3>1. /\ \A r : NoStarter([pc |-> "find", request |-> r])
          /\ \A i : NoStarter([pc |-> "insert", debit |-> i])
      BY DEF NoStarter
    <3> QED
      BY <2>1, <2>3, <3>1, StarterMove
         DEF Call, GetWalletForUser, DebitForReading, RefundDebit
  <2>4. CASE Fail(h) \/ FindExisting(h) \/ Commit(h)
    BY <2>1, <2>4 DEF Fail, FindExisting, Commit, RollBack
  <2>5. CASE FindWallet(h) \/ CreateWithStarter(h) \/ FindWinner(h)
             \/ DecrementIfAffordable(h)
    <3>1. /\ tasks[h] \in Task
          /\ tasks[h].pc \in {"find", "create", "winner", "decrement"}
      BY <2>5, TaskFields DEF FindWallet, CreateWithStarter, FindWinner,
                              DecrementIfAffordable, IsAt
    <3>2. \A pc \in {"create", "winner", "append"} :
            NoStarter([tasks[h] EXCEPT !.pc = pc])
      BY <3>1 DEF NoStarter, Task, Idle
    <3> QED
      BY <2>1, <2>2, <2>5, <3>2, StarterMove
         DEF FindWallet, CreateWithStarter, FindWinner, DecrementIfAffordable,
             RollBack
  <2>6. CASE AppendDebit(h)
    <3>1. \A w, w1, amount, ref :
            NoStarter([pc |-> "commit", wallet |-> w,
                       row |-> Row(w1, amount, "debit", ref)])
      BY DEF NoStarter, Row
    <3> QED
      BY <2>1, <2>6, <3>1, StarterMove DEF AppendDebit, RollBack
  <2>7. CASE InsertRefund(h)
    <3>1. /\ \A w, w1, amount, ref :
               NoStarter([pc |-> "increment", wallet |-> w,
                          row |-> Row(w1, amount, "refund", ref)])
          /\ \A i : NoStarter([pc |-> "existing", debit |-> i])
      BY DEF NoStarter, Row
    <3> QED
      BY <2>7, <3>1, StarterMove DEF InsertRefund
  <2>8. CASE IncrementBalance(h)
    <3>1. tasks[h].pc = "increment" /\ tasks[h] \in Task
      BY <2>8, TaskFields DEF IncrementBalance, IsAt
    <3>2. /\ [tasks[h] EXCEPT !.pc = "commit"].row = tasks[h].row
          /\ tasks[h].row.kind # "starter"
      BY <3>1 DEF StarterInv, Inserted, Task, Idle
    <3> QED
      BY <2>8, <3>2, StarterMove DEF IncrementBalance, NoStarter
  <2> QED
    BY <1>3, <2>3, <2>4, <2>5, <2>6, <2>7, <2>8 DEF Step
<1> QED
  BY <1>1, <1>2, <1>3 DEF Next

\* A wallet is created for a user who has none, with its one starter; no other
\* row is a starter.
LEMMA StarterNext ==
  ASSUME TypeOK, Rest, StarterInv, [Next]_vars
  PROVE  StarterInv'
<1>0. \A g \in Handlers : Inserted(g)' => tasks'[g].row.kind # "starter"
  BY NoOpenStarter DEF NoStarter, Inserted
<1>1. CASE UNCHANGED tables
  <2>1. OneStarterPerUser'
    BY <1>1 DEF tables, StarterInv, OneStarterPerUser, Wallets, Rows
  <2> QED
    BY <1>0, <2>1 DEF StarterInv
<1>2. ASSUME NEW h \in Handlers, Commit(h)
      PROVE  OneStarterPerUser'
  <2>1. /\ Wallets' = Wallets
        /\ \A w \in Wallets : wallets'[w].user = wallets[w].user
        /\ Rows' = Rows \cup {Len(ledger) + 1}
        /\ ledger'[Len(ledger) + 1] = tasks[h].row
        /\ \A i \in Rows : ledger'[i] = ledger[i]
    BY <1>2, CommitWrites DEF Rest
  <2>2. tasks[h].row.kind # "starter"
    BY <1>2 DEF Commit, IsAt, StarterInv, Inserted
  <2> QED
    BY <2>1, <2>2 DEF StarterInv, OneStarterPerUser
<1>3. ASSUME NEW h \in Handlers, CreateWithStarter(h), ~UNCHANGED tables
      PROVE  OneStarterPerUser'
  <2> DEFINE u == tasks[h].request.user
             v == Len(wallets) + 1
             new == [user |-> u, balance |-> StarterCoins]
             n == Len(ledger) + 1
             row == Row(v, StarterCoins, "starter", NoRef)
  <2>1. /\ OwnedBy(u) = {}
        /\ wallets' = Append(wallets, new) /\ ledger' = Append(ledger, row)
        /\ new \in WalletRow
    BY <1>3, TaskFields, WalletBounds
       DEF CreateWithStarter, IsAt, WalletRow, DebitType
  <2>2. /\ v \notin Wallets /\ Wallets' = Wallets \cup {v} /\ v \in Nat \ {0}
        /\ wallets'[v] = new
        /\ \A w \in Wallets : wallets'[w] = wallets[w]
    BY <2>1, AppendRow DEF TypeOK, Wallets
  <2>3. row \in LedgerRow /\ row.wallet = v
    BY <2>2, RowsType DEF Row
  <2>4. /\ Rows' = Rows \cup {n} /\ ledger'[n] = row
        /\ \A i \in Rows : ledger'[i] = ledger[i]
    BY <2>1, <2>3, AppendRow DEF TypeOK, Rows
  <2>5. \A i \in Rows : ledger[i].wallet # v
    BY <2>2 DEF Rest, LedgerInv, RowInv
  <2>6. \A w \in Wallets : wallets[w].user # new.user
    BY <2>1 DEF OwnedBy
  <2> HIDE DEF row, v, new, n
  <2>7. \A w, x \in Wallets' : wallets'[w].user = wallets'[x].user => w = x
    BY <2>2, <2>6 DEF StarterInv, OneStarterPerUser
  <2>8. \A i, j \in Rows' :
          /\ ledger'[i].kind = "starter" /\ ledger'[j].kind = "starter"
          /\ ledger'[i].wallet = ledger'[j].wallet
          => i = j
    BY <2>3, <2>4, <2>5 DEF StarterInv, OneStarterPerUser
  <2> QED
    BY <2>7, <2>8 DEF OneStarterPerUser
<1> QED
  BY <1>0, <1>1, <1>2, <1>3, TablesMove DEF StarterInv

\* First calls that race give a user one wallet and the starter coins once: the
\* nested write of createWithStarter adds both or neither.
THEOREM OneStarter == Spec => []OneStarterPerUser
<1>1. Init => StarterInv
  <2> SUFFICES ASSUME Init PROVE StarterInv
    OBVIOUS
  <2>1. Wallets = {} /\ Rows = {}
    BY EmptySeq, LenProperties DEF Init, Wallets, Rows
  <2>2. \A h \in Handlers : tasks[h].pc = "idle"
    BY DEF Init, Idle
  <2> QED
    BY <2>1, <2>2 DEF StarterInv, OneStarterPerUser, Inserted
<1>2. IInv => TypeOK /\ Rest
  BY DEF IInv, Rest
<1>3. IInv /\ StarterInv /\ [Next]_vars => StarterInv'
  BY <1>2, StarterNext
<1>4. StarterInv => OneStarterPerUser
  BY DEF StarterInv
<1> QED
  BY <1>1, <1>3, <1>4, Invariance, PTL DEF Spec
=============================================================================
