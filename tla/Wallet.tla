------------------------------- MODULE Wallet -------------------------------
(***************************************************************************)
(* WalletService and WalletRepository: the coin wallet, its append-only    *)
(* ledger, and the two transactions that move coins, a debit and the       *)
(* refund of a debit.                                                      *)
(*                                                                         *)
(* A handler awaits at every database call, so calls interleave there.     *)
(* Transactions run at READ COMMITTED: what one writes is held in its task *)
(* until it commits, an updated wallet row stays locked until the end of   *)
(* the transaction, an insert waits for an open transaction that inserted  *)
(* the same unique key, and a unique violation leaves the transaction      *)
(* aborted, so that every later statement of it fails.                     *)
(***************************************************************************)
EXTENDS Integers, Sequences, FiniteSets

CONSTANTS
  Users,
  Keys, NoKey,     \* Idempotency-Keys; idempotencyRefId = null
  Debits,          \* the debits asked for: user, cost, key
  StarterCoins,    \* WalletConfig.starterCoins
  Handlers,        \* calls the API serves at the same time
  MaxLedger        \* bound of the exploration: ledger rows, starters apart

DebitType == [user: Users, cost: Int, key: Keys \cup {NoKey}]

ASSUME DebitsAssumption == Debits \subseteq DebitType /\ NoKey \notin Keys
ASSUME WalletBounds == StarterCoins \in Nat /\ MaxLedger \in Nat

VARIABLES
  wallets,  \* Wallet rows in the order of their creation
  ledger,   \* CoinTransaction rows in the order of their commit
  tasks,    \* where each handler is
  reply     \* how the call that ended last ended

tables == <<wallets, ledger>>
vars == <<wallets, ledger, tasks, reply>>

-----------------------------------------------------------------------------
Wallets == DOMAIN wallets
Rows == DOMAIN ledger

NoRef == [kind |-> "null"]

KeyRef(k) == IF k = NoKey THEN NoRef ELSE [kind |-> "idempotency", key |-> k]
DebitRef(i) == [kind |-> "debit", debit |-> i]

Row(w, amount, kind, ref) ==
  [wallet |-> w, amount |-> amount, kind |-> kind, ref |-> ref]

Idle == [pc |-> "idle"]
Become(h, task) == tasks' = [tasks EXCEPT ![h] = task]
IsAt(h, pc) == tasks[h].pc = pc
Busy == {h \in Handlers : ~IsAt(h, "idle")}

Reply(h, outcome) ==
  /\ Become(h, Idle)
  /\ reply' = outcome

\* Slip: the decrement was not part of the transaction.
RollBackLeavingDecrement(h, outcome) ==
  /\ Reply(h, outcome)
  /\ wallets' = IF IsAt(h, "append")
                THEN [wallets EXCEPT ![tasks[h].wallet].balance =
                        @ - tasks[h].request.cost]
                ELSE wallets
  /\ UNCHANGED ledger

\* The callback throws: nothing it wrote was ever visible.
RollBack(h, outcome) == Reply(h, outcome) /\ UNCHANGED tables

\* A transaction holds the row of the wallet it updated until it ends.
Locked(w) ==
  \E h \in Handlers : tasks[h].pc \in {"append", "commit"} /\ tasks[h].wallet = w

\* The ledger row an open transaction has inserted, if it has.
Inserted(h) == tasks[h].pc \in {"increment", "commit"}

SameKey(row, other) ==
  /\ row.ref # NoRef
  /\ <<row.wallet, row.kind, row.ref>> = <<other.wallet, other.kind, other.ref>>

\* The unique index (walletId, kind, refId), on rows not yet committed...
AwaitsRival(h, row) ==
  \E o \in Handlers \ {h} : Inserted(o) /\ SameKey(row, tasks[o].row)

\* Slip: without the unique index.
NeverTaken(row) == FALSE

\* ... and on committed rows.
Taken(row) == \E i \in Rows : SameKey(row, ledger[i])

-----------------------------------------------------------------------------
Init ==
  /\ wallets = << >>
  /\ ledger = << >>
  /\ tasks = [h \in Handlers |-> Idle]
  /\ reply = "none"

\* Every call that is running may append a row.
HasRoom == Len(ledger) + Cardinality(Busy) < MaxLedger

GetWalletForUser(h, u) ==
  /\ IsAt(h, "idle") /\ HasRoom
  /\ Become(h, [pc |-> "find",
                request |-> [user |-> u, cost |-> 0, key |-> NoKey]])
  /\ UNCHANGED <<tables, reply>>

DebitForReading(h, d) ==
  /\ IsAt(h, "idle")
  /\ \/ /\ d.cost <= 0
        /\ Reply(h, "invalid")
     \/ /\ d.cost > 0 /\ HasRoom
        /\ Become(h, [pc |-> "find", request |-> d])
        /\ UNCHANGED reply
  /\ UNCHANGED tables

(***************************************************************************)
(* getOrCreate, outside any transaction.  A view (cost 0) is answered once *)
(* the wallet is there; a debit opens its transaction.                     *)
(***************************************************************************)
OwnedBy(u) == {w \in Wallets : wallets[w].user = u}

Found(h, w) ==
  IF tasks[h].request.cost = 0
  THEN Reply(h, "ok")
  ELSE /\ Become(h, [pc |-> "decrement", request |-> tasks[h].request,
                     wallet |-> w])
       /\ UNCHANGED reply

FindWallet(h) ==
  /\ IsAt(h, "find")
  /\ LET owned == {w \in Wallets : wallets[w].user = tasks[h].request.user}
     IN  \/ \E w \in owned : Found(h, w)
         \/ /\ owned = {}
            /\ Become(h, [tasks[h] EXCEPT !.pc = "create"])
            /\ UNCHANGED reply
  /\ UNCHANGED tables

\* Slip: the loser of the race tries to create again.
CreateRetrying(h) ==
  /\ IsAt(h, "create")
  /\ LET u == tasks[h].request.user
         w == Len(wallets) + 1
     IN  /\ OwnedBy(u) = {}
         /\ wallets' = Append(wallets, [user |-> u, balance |-> StarterCoins])
         /\ ledger' = Append(ledger, Row(w, StarterCoins, "starter", NoRef))
         /\ Found(h, w)

\* Slip: no unique index on userId.
CreateAnyway(h) ==
  /\ IsAt(h, "create")
  /\ LET u == tasks[h].request.user
         w == Len(wallets) + 1
     IN  /\ wallets' = Append(wallets, [user |-> u, balance |-> StarterCoins])
         /\ ledger' = Append(ledger, Row(w, StarterCoins, "starter", NoRef))
         /\ Found(h, w)

\* One nested write: the wallet and its starter row, or a unique violation.
CreateWithStarter(h) ==
  /\ IsAt(h, "create")
  /\ LET u == tasks[h].request.user
         w == Len(wallets) + 1
     IN  \/ /\ OwnedBy(u) = {}
            /\ wallets' = Append(wallets, [user |-> u, balance |-> StarterCoins])
            /\ ledger' = Append(ledger, Row(w, StarterCoins, "starter", NoRef))
            /\ Found(h, w)
         \/ /\ OwnedBy(u) # {}
            /\ Become(h, [tasks[h] EXCEPT !.pc = "winner"])
            /\ UNCHANGED <<tables, reply>>

\* The loser of the race reads the winner's wallet.
FindWinner(h) ==
  /\ IsAt(h, "winner")
  /\ \E w \in OwnedBy(tasks[h].request.user) : Found(h, w)
  /\ UNCHANGED tables

(***************************************************************************)
(* The debit transaction: the conditional decrement, the ledger row, the   *)
(* commit.                                                                 *)
(***************************************************************************)
\* Slip: a wallet may go one coin below what it holds.
AffordableOnCredit(w, cost) == wallets[w].balance + 1 >= cost

Affordable(w, cost) == wallets[w].balance >= cost

DecrementIfAffordable(h) ==
  /\ IsAt(h, "decrement") /\ ~Locked(tasks[h].wallet)
  /\ \/ /\ Affordable(tasks[h].wallet, tasks[h].request.cost)
        /\ Become(h, [tasks[h] EXCEPT !.pc = "append"])
        /\ UNCHANGED <<tables, reply>>
     \/ /\ ~Affordable(tasks[h].wallet, tasks[h].request.cost)
        /\ RollBack(h, "insufficient")

AppendDebit(h) ==
  /\ IsAt(h, "append")
  /\ LET d == tasks[h].request
         row == Row(tasks[h].wallet, -d.cost, "debit", KeyRef(d.key))
     IN  /\ ~AwaitsRival(h, row)
         /\ \/ /\ Taken(row)
               /\ RollBack(h, "duplicate")
            \/ /\ ~Taken(row)
               /\ Become(h, [pc |-> "commit", wallet |-> row.wallet, row |-> row])
               /\ UNCHANGED <<tables, reply>>

(***************************************************************************)
(* The refund transaction: read the debit, insert the refund row, credit   *)
(* the wallet, commit.  After a unique violation the service looks for the *)
(* existing refund in the same, aborted, transaction: the lookup fails and *)
(* its error is what the caller gets.                                      *)
(***************************************************************************)
RefundDebit(h, i) ==
  /\ IsAt(h, "idle") /\ HasRoom
  /\ \/ /\ ledger[i].kind = "debit"
        /\ Become(h, [pc |-> "insert", debit |-> i])
        /\ UNCHANGED reply
     \/ /\ ledger[i].kind # "debit"
        /\ Reply(h, "conflict")
  /\ UNCHANGED tables

InsertRefund(h) ==
  /\ IsAt(h, "insert")
  /\ LET i == tasks[h].debit
         row == Row(ledger[i].wallet, -ledger[i].amount, "refund", DebitRef(i))
     IN  /\ ~AwaitsRival(h, row)
         /\ Become(h, IF Taken(row)
                      THEN [pc |-> "existing", debit |-> i]
                      ELSE [pc |-> "increment", wallet |-> row.wallet, row |-> row])
  /\ UNCHANGED <<tables, reply>>

FindExisting(h) == IsAt(h, "existing") /\ RollBack(h, "aborted")

IncrementBalance(h) ==
  /\ IsAt(h, "increment") /\ ~Locked(tasks[h].wallet)
  /\ Become(h, [tasks[h] EXCEPT !.pc = "commit"])
  /\ UNCHANGED <<tables, reply>>

\* The row locked since its update, the committed balance is the one it read.
Commit(h) ==
  /\ IsAt(h, "commit")
  /\ wallets' = [wallets EXCEPT ![tasks[h].wallet].balance =
                   @ + tasks[h].row.amount]
  /\ ledger' = Append(ledger, tasks[h].row)
  /\ Reply(h, "ok")

\* A statement fails, the connection drops or the transaction times out.
Fail(h) == ~IsAt(h, "idle") /\ RollBack(h, "failed")

\* The API process dies; the database rolls its open transactions back.
Crash ==
  /\ Busy # {}
  /\ tasks' = [h \in Handlers |-> Idle]
  /\ UNCHANGED <<tables, reply>>

-----------------------------------------------------------------------------
Step(h) ==
  \/ FindWallet(h) \/ CreateWithStarter(h) \/ FindWinner(h)
  \/ DecrementIfAffordable(h) \/ AppendDebit(h)
  \/ InsertRefund(h) \/ FindExisting(h) \/ IncrementBalance(h)
  \/ Commit(h)

Call(h) ==
  \/ \E u \in Users : GetWalletForUser(h, u)
  \/ \E d \in Debits : DebitForReading(h, d)
  \/ \E i \in Rows : RefundDebit(h, i)

Next ==
  \/ \E h \in Handlers : Call(h) \/ Step(h) \/ Fail(h)
  \/ Crash

Spec == Init /\ [][Next]_vars

\* Every awaited statement is answered, and the database hands a lock on to
\* those who wait for it: none is passed over for ever.
FairSpec == Spec /\ \A h \in Handlers : SF_vars(Step(h))

-----------------------------------------------------------------------------
WalletRow == [user: Users, balance: Int]
RefType ==
  {NoRef} \cup [kind: {"idempotency"}, key: Keys]
  \cup [kind: {"debit"}, debit: Nat \ {0}]
LedgerRow ==
  [wallet: Nat \ {0}, amount: Int, kind: {"starter", "debit", "refund"},
   ref: RefType]

Task ==
  {Idle}
  \cup [pc: {"find", "create", "winner"}, request: DebitType]
  \cup [pc: {"decrement", "append"}, request: DebitType, wallet: Nat \ {0}]
  \cup [pc: {"insert", "existing"}, debit: Nat \ {0}]
  \cup [pc: {"increment", "commit"}, wallet: Nat \ {0}, row: LedgerRow]

Replies == {"none", "ok", "invalid", "insufficient", "duplicate", "conflict",
            "aborted", "failed"}

\* Types of the tables, the tasks and the reply.
TypeOK ==
  /\ wallets \in Seq(WalletRow)
  /\ ledger \in Seq(LedgerRow)
  /\ tasks \in [Handlers -> Task]
  /\ reply \in Replies

\* The amounts of wallet w among the first n rows, added up, for every n.
AddsUp(w, sum) ==
  sum = [n \in 0..Len(ledger) |->
           IF n = 0 THEN 0
           ELSE sum[n - 1] + (IF ledger[n].wallet = w THEN ledger[n].amount
                              ELSE 0)]

\* Starter, debit and refund rows of wallet w, added up.
LedgerSum(w) ==
  LET sum[n \in 0..Len(ledger)] ==
        IF n = 0 THEN 0
        ELSE sum[n - 1] + (IF ledger[n].wallet = w THEN ledger[n].amount ELSE 0)
  IN  sum[Len(ledger)]

\* The ledger is the truth and the balance its cache: they agree after every
\* commit, whatever failed or rolled back on the way.
LedgerIsTruth == \A w \in Wallets : wallets[w].balance = LedgerSum(w)

\* Racing debits never take a wallet below zero.
NeverOverdrawn == \A w \in Wallets : wallets[w].balance >= 0

RefundsOf(i) == {j \in Rows : ledger[j].ref = DebitRef(i)}

\* Coins move once for each reason, also when a call is retried while the first
\* one is still running: an Idempotency-Key is charged to a wallet at most once,
\* and a debit is given back at most once, in full, to the wallet that paid.
MovedOncePerReason ==
  /\ \A i, j \in Rows :
       /\ ledger[i].kind = "debit" /\ ledger[j].kind = "debit"
       /\ SameKey(ledger[i], ledger[j])
       => i = j
  /\ \A i \in Rows : Cardinality(RefundsOf(i)) <= 1
  /\ \A i \in Rows : \A j \in RefundsOf(i) :
       /\ ledger[i].kind = "debit" /\ ledger[j].kind = "refund"
       /\ ledger[j].wallet = ledger[i].wallet
       /\ ledger[j].amount = -ledger[i].amount

\* First calls that race give a user one wallet, with the starter coins once:
\* whoever loses the race adds neither (getOrCreate, createWithStarter).
OneStarterPerUser ==
  /\ \A v, w \in Wallets : wallets[v].user = wallets[w].user => v = w
  /\ \A i, j \in Rows :
       /\ ledger[i].kind = "starter" /\ ledger[j].kind = "starter"
       /\ ledger[i].wallet = ledger[j].wallet
       => i = j

\* The row and key locks never make calls wait for each other for ever.
EveryCallEnds == \A h \in Handlers : ~IsAt(h, "idle") ~> IsAt(h, "idle")

-----------------------------------------------------------------------------
(***************************************************************************)
(* The inductive invariant of WalletProofs.                                *)
(***************************************************************************)
\* What a row that refers to a debit is: that debit given back in full.
GivesBack(row) ==
  row.ref.kind = "debit" =>
    LET i == row.ref.debit
    IN  /\ i \in Rows /\ ledger[i].kind = "debit"
        /\ row.kind = "refund" /\ row.wallet = ledger[i].wallet
        /\ row.amount = -ledger[i].amount

\* Rows are about existing wallets, take coins only as debits, and refer to a
\* debit only as its refund.
RowInv(row) ==
  /\ row.wallet \in Wallets
  /\ row.kind = "debit" => row.amount < 0
  /\ row.kind = "refund" => row.amount > 0
  /\ GivesBack(row)

LedgerInv ==
  /\ \A i \in Rows : RowInv(ledger[i])
  /\ \A i, j \in Rows : SameKey(ledger[i], ledger[j]) => i = j

\* What a call in flight has to hand.
TaskInv ==
  \A h \in Handlers :
    LET t == tasks[h]
    IN  /\ t.pc \in {"find", "create", "winner"} => t.request.cost >= 0
        /\ t.pc \in {"decrement", "append"} =>
             t.request.cost > 0 /\ t.wallet \in Wallets
        /\ t.pc \in {"insert", "existing"} =>
             t.debit \in Rows /\ ledger[t.debit].kind = "debit"
        /\ t.pc \in {"increment", "commit"} =>
             t.wallet = t.row.wallet /\ RowInv(t.row)

\* An updated wallet row is locked by one transaction ...
LockInv ==
  \A g, h \in Handlers :
    /\ tasks[g].pc \in {"append", "commit"}
    /\ tasks[h].pc \in {"append", "commit"}
    /\ tasks[g].wallet = tasks[h].wallet
    => g = h

\* ... so the balance it checked is the balance it will write.
FundsInv ==
  \A h \in Handlers :
    LET t == tasks[h]
    IN  /\ t.pc = "append" => wallets[t.wallet].balance >= t.request.cost
        /\ t.pc = "commit" => wallets[t.wallet].balance + t.row.amount >= 0
        /\ t.pc = "increment" => t.row.amount > 0

\* A row inserted by an open transaction has no rival, committed or open.
KeyInv ==
  \A h \in Handlers :
    Inserted(h) => /\ ~Taken(tasks[h].row)
                   /\ ~AwaitsRival(h, tasks[h].row)

\* Only the starter of a new wallet is a starter.
StarterInv ==
  OneStarterPerUser
  /\ \A h \in Handlers : Inserted(h) => tasks[h].row.kind # "starter"

IInv == TypeOK /\ LedgerInv /\ TaskInv /\ LockInv /\ FundsInv /\ KeyInv
        /\ NeverOverdrawn
=============================================================================
