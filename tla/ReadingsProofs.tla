--------------------------- MODULE ReadingsProofs ---------------------------
(***************************************************************************)
(* Theorems about Readings, for every value of its constants.              *)
(***************************************************************************)
EXTENDS Readings, WellFoundedInduction, SequenceTheorems, FiniteSetTheorems,
        TLAPS

\* A handler between requests carries nothing.
LEMMA IdleType == Idle \in Task
BY DEF Task

\* What a request carries depends on how far create has come.
LEMMA TaskFields ==
  ASSUME TypeOK, NEW h \in Handlers
  PROVE  /\ tasks[h] \in Task
         /\ tasks[h].pc # "idle" => Req(h) \in RequestType
         /\ tasks[h].pc \in {"generate", "restore", "count", "record"}
              => tasks[h].method \in Methods
         /\ tasks[h].pc \in {"count", "record"} => tasks[h].reading \in Nat
BY DEF TypeOK, Task, Idle, Req

\* Only a request's own task changes when it moves on.
LEMMA BecomeType ==
  ASSUME tasks \in [Handlers -> Task], NEW h \in Handlers, NEW t \in Task,
         Become(h, t)
  PROVE  /\ tasks' \in [Handlers -> Task]
         /\ tasks'[h] = t
         /\ \A g \in Handlers \ {h} : tasks'[g] = tasks[g]
BY DEF Become

\* The reading about to be persisted is well formed.
LEMMA NewReadingType ==
  ASSUME TypeOK, NEW h \in Handlers, IsAt(h, "generate")
  PROVE  NewReading(h) \in ReadingRow
BY TaskFields DEF NewReading, ReadingRow, IsAt, RequestType

\* What follows persisting, and what follows a failure, is well formed.
LEMMA AfterType ==
  ASSUME TypeOK, NEW h \in Handlers, IsAt(h, "generate")
  PROVE  AfterPersist(h) \in Task /\ AfterFailure(h) \in Task
<1>1. /\ Req(h) \in RequestType /\ tasks[h].method \in Methods
      /\ tasks[h] \in Task
  BY TaskFields DEF IsAt
<1>2. Len(created) + 1 \in Nat
  BY LenProperties DEF TypeOK
<1>3. AfterPersist(h) \in Task
  BY <1>1, <1>2 DEF AfterPersist, Task
<1>4. [tasks[h] EXCEPT !.pc = "restore"] \in Task
  BY <1>1 DEF Task, IsAt, Idle
<1> QED
  BY <1>3, <1>4, IdleType DEF AfterFailure

\* Persisting adds one well-formed row behind the others.
LEMMA PersistType ==
  ASSUME TypeOK, NEW h \in Handlers, IsAt(h, "generate"), Persist(h)
  PROVE  /\ created' \in Seq(ReadingRow)
         /\ DOMAIN created' = DOMAIN created \cup {Len(created) + 1}
         /\ Len(created) + 1 \notin DOMAIN created
         /\ created'[Len(created) + 1] = NewReading(h)
         /\ \A i \in DOMAIN created : created'[i] = created[i]
<1>1. NewReading(h) \in ReadingRow /\ created \in Seq(ReadingRow)
  BY NewReadingType DEF TypeOK
<1>2. /\ Len(created') = Len(created) + 1 /\ created' \in Seq(ReadingRow)
      /\ \A i \in 1 .. Len(created) : created'[i] = created[i]
      /\ created'[Len(created) + 1] = NewReading(h)
  BY <1>1, AppendProperties DEF Persist
<1>3. Len(created) \in Nat /\ DOMAIN created = 1 .. Len(created)
      /\ DOMAIN created' = 1 .. Len(created')
  BY <1>1, <1>2, LenProperties
<1> QED
  BY <1>2, <1>3

-----------------------------------------------------------------------------
(***************************************************************************)
(* Type correctness, one lemma for each action that changes a table.       *)
(***************************************************************************)
\* Nothing is stored or in flight to begin with.
LEMMA TypeInit == Init => TypeOK
<1> SUFFICES ASSUME Init PROVE TypeOK
  OBVIOUS
<1>1. tasks \in [Handlers -> Task]
  BY IdleType DEF Init
<1>2. unlocks \in [Unlocks -> UnlockRow]
  BY DEF Init, UnlockRow
<1>3. usage \in [Users -> [Fortunes -> [Days -> Nat]]]
  BY DEF Init
<1>4. records \in [Users -> [Keys -> RecordRow \cup {NoRecord}]]
  BY DEF Init
<1>5. created \in Seq(ReadingRow) /\ answers \subseteq AnswerRow
  BY EmptySeq DEF Init
<1>6. day \in Days
  BY BoundsAssumption DEF Init, Days
<1> QED
  BY <1>1, <1>2, <1>3, <1>4, <1>5, <1>6 DEF TypeOK

\* A new request starts at the idempotency check or at the access decision.
LEMMA TypeSubmit ==
  ASSUME TypeOK, NEW h \in Handlers, NEW r \in Requests, Submit(h, r)
  PROVE  TypeOK'
<1>1. [pc |-> IF r.key = NoKey THEN "access" ELSE "check", request |-> r]
        \in Task
  BY RequestsAssumption DEF Task
<1> QED
  BY <1>1, BecomeType DEF Submit, TypeOK, tables

\* A replayed answer carries the recorded reading's id.
LEMMA TypeCheckReplay ==
  ASSUME TypeOK, TasksCarry, NEW h \in Handlers, CheckReplay(h)
  PROVE  TypeOK'
<1> DEFINE row == records[Req(h).user][Req(h).key]
<1>1. Req(h) \in RequestType
  BY TaskFields DEF CheckReplay, IsAt
<1>2. [pc |-> "access", request |-> Req(h)] \in Task
  BY <1>1 DEF Task
<1>3. tasks' \in [Handlers -> Task]
  BY <1>2, IdleType, BecomeType DEF CheckReplay, TypeOK
<1>4. ASSUME row # NoRecord, Answer(h, row.reading)
      PROVE  answers' \subseteq AnswerRow
  <2>1. Req(h).user \in Users /\ Req(h).key \in Keys
    BY <1>1 DEF TasksCarry, CheckReplay, IsAt, RequestType
  <2>2. row \in RecordRow
    BY <1>4, <2>1 DEF TypeOK
  <2>3. row.reading \in Nat
    BY <2>2 DEF RecordRow
  <2> QED
    BY <1>1, <1>4, <2>3 DEF Answer, AnswerRow, TypeOK
<1> QED
  BY <1>3, <1>4 DEF CheckReplay, TypeOK, tables

\* The access decision keeps the request and names the method it chose.
LEMMA TypeDecideAccess ==
  ASSUME TypeOK, NEW h \in Handlers, DecideAccess(h)
  PROVE  TypeOK'
<1>1. Req(h) \in RequestType
  BY TaskFields DEF DecideAccess, IsAt
<1>2. /\ Generating(Req(h), "free") \in Task
      /\ Generating(Req(h), "free_daily") \in Task
      /\ [pc |-> "consume", request |-> Req(h)] \in Task
  BY <1>1 DEF Generating, Task, Methods
<1>3. tasks' \in [Handlers -> Task]
  BY <1>2, IdleType, BecomeType DEF DecideAccess, TypeOK
<1> QED
  BY <1>3 DEF DecideAccess, TypeOK, tables

\* The conditional update only writes the status.
LEMMA TypeConsumeUnlock ==
  ASSUME TypeOK, NEW h \in Handlers, ConsumeUnlock(h)
  PROVE  TypeOK'
<1>1. Req(h) \in RequestType
  BY TaskFields DEF ConsumeUnlock, IsAt
<1>2. Generating(Req(h), "rewarded_ad") \in Task
  BY <1>1 DEF Generating, Task, Methods
<1>3. tasks' \in [Handlers -> Task]
  BY <1>2, IdleType, BecomeType DEF ConsumeUnlock, TypeOK
<1>4. unlocks' \in [Unlocks -> UnlockRow]
  BY ZenonT(60) DEF ConsumeUnlock, TypeOK, UnlockRow
<1> QED
  BY <1>3, <1>4 DEF ConsumeUnlock, TypeOK

\* Generation, with or without the reply of the insert, and its failure.
LEMMA TypeGenerate ==
  ASSUME TypeOK, NEW h \in Handlers,
         GenerateReading(h) \/ GenerationFails(h) \/ PersistReplyLost(h)
  PROVE  TypeOK'
<1>1. IsAt(h, "generate")
  BY DEF GenerateReading, GenerationFails, PersistReplyLost
<1>2. tasks' \in [Handlers -> Task]
  BY <1>1, AfterType, BecomeType
     DEF GenerateReading, GenerationFails, PersistReplyLost, TypeOK
<1>3. created' \in Seq(ReadingRow)
  BY <1>1, PersistType
     DEF GenerateReading, GenerationFails, PersistReplyLost, TypeOK, tables
<1> QED
  BY <1>2, <1>3
     DEF GenerateReading, GenerationFails, PersistReplyLost, TypeOK, tables

\* A restore only writes the status.
LEMMA TypeRestoreUnlock ==
  ASSUME TypeOK, NEW h \in Handlers, RestoreUnlock(h)
  PROVE  TypeOK'
<1>1. tasks' \in [Handlers -> Task]
  BY IdleType, BecomeType DEF RestoreUnlock, TypeOK
<1>2. unlocks' \in [Unlocks -> UnlockRow]
  BY ZenonT(60) DEF RestoreUnlock, Restored, TypeOK, UnlockRow
<1> QED
  BY <1>1, <1>2 DEF RestoreUnlock, TypeOK

\* Counting a free reading, or failing to, keeps the reading's id.
LEMMA TypeCountFree ==
  ASSUME TypeOK, NEW h \in Handlers, CountFree(h) \/ CountFails(h)
  PROVE  TypeOK'
<1>1. [tasks[h] EXCEPT !.pc = "record"] \in Task
  BY TaskFields DEF CountFree, CountFails, IsAt, Task, Idle
<1>2. tasks' \in [Handlers -> Task]
  BY <1>1, BecomeType DEF CountFree, CountFails, TypeOK
<1>3. CASE CountFree(h)
  <2>1. Req(h).user \in Users /\ Req(h).fortune \in Fortunes /\ day \in Days
    BY <1>3, TaskFields DEF CountFree, IsAt, RequestType, TypeOK
  <2>2. usage[Req(h).user][Req(h).fortune][day] + 1 \in Nat
    BY <2>1 DEF TypeOK
  <2>3. usage' \in [Users -> [Fortunes -> [Days -> Nat]]]
    BY <1>3, <2>1, <2>2 DEF CountFree, TypeOK
  <2> QED
    BY <1>2, <1>3, <2>3 DEF CountFree, TypeOK
<1> QED
  BY <1>2, <1>3 DEF CountFails, TypeOK, tables

\* The id a request is about to record is not zero: the row exists.
LEMMA TypeRecordResult ==
  ASSUME TypeOK, TasksServe, NEW h \in Handlers, RecordResult(h)
  PROVE  TypeOK'
<1>1. Req(h) \in RequestType /\ tasks[h].reading \in Nat \ {0}
  <2>1. tasks[h].reading \in DOMAIN created
    BY DEF TasksServe, Serves, RecordResult, IsAt
  <2> QED
    BY <2>1, TaskFields, LenProperties DEF RecordResult, IsAt, TypeOK
<1>2. tasks' \in [Handlers -> Task]
  BY IdleType, BecomeType DEF RecordResult, TypeOK
<1>3. answers' \subseteq AnswerRow
  BY <1>1 DEF RecordResult, Answer, AnswerRow, TypeOK
<1>4. [fingerprint |-> Fingerprint(Req(h)), reading |-> tasks[h].reading]
        \in RecordRow
  BY <1>1 DEF Fingerprint, RecordRow, RequestType
<1>5. records' \in [Users -> [Keys -> RecordRow \cup {NoRecord}]]
  BY <1>4 DEF RecordResult, Recorded, TypeOK
<1> QED
  BY <1>2, <1>3, <1>5 DEF RecordResult, TypeOK

\* A request that is refused, fails or is lost with its process.
LEMMA TypeGiveUp ==
  ASSUME TypeOK, NEW h \in Handlers,
         RestoreFails(h) \/ RecordFails(h) \/ Crash(h)
  PROVE  TypeOK'
<1>1. tasks' \in [Handlers -> Task]
  BY IdleType, BecomeType DEF RestoreFails, RecordFails, Crash, TypeOK
<1> QED
  BY <1>1 DEF RestoreFails, RecordFails, Crash, TypeOK, tables

\* Grants, expiries and midnight.
LEMMA TypeEnvironment ==
  ASSUME TypeOK, Environment
  PROVE  TypeOK'
<1>1. ASSUME NEW e \in Unlocks, GrantUnlock(e) \/ ExpireUnlock(e)
      PROVE  TypeOK'
  <2>1. unlocks' \in [Unlocks -> UnlockRow]
    <3>1. CASE GrantUnlock(e)
      BY <3>1 DEF GrantUnlock, TypeOK, UnlockRow
    <3>2. CASE ExpireUnlock(e)
      BY <3>2 DEF ExpireUnlock, TypeOK, UnlockRow
    <3> QED
      BY <1>1, <3>1, <3>2
  <2> QED
    BY <1>1, <2>1 DEF GrantUnlock, ExpireUnlock, TypeOK
<1>2. CASE Midnight
  BY <1>2, BoundsAssumption DEF Midnight, TypeOK, Days, tables
<1> QED
  BY <1>1, <1>2 DEF Environment

\* Stuttering, and a body refused before anything is read.
LEMMA Unchanged ==
  ASSUME UNCHANGED vars
  PROVE  /\ TypeOK => TypeOK'
         /\ IInv => IInv'
BY SMTT(30) DEF vars, IInv, TypeOK, TasksServe, RecordsServe, AnswersServe, Serves,
       TasksCarry, RoomForUncounted, Uncounted, FutureUncounted, Req

\* Every step keeps the types.
LEMMA TypeNext ==
  ASSUME TypeOK, TasksCarry, TasksServe, [Next]_vars
  PROVE  TypeOK'
BY TypeSubmit, TypeCheckReplay, TypeDecideAccess, TypeConsumeUnlock,
   TypeGenerate, TypeRestoreUnlock, TypeCountFree, TypeRecordResult,
   TypeGiveUp, TypeEnvironment, Unchanged
   DEF Next, Continue, RejectRequest

-----------------------------------------------------------------------------
(***************************************************************************)
(* What a request carries from one statement to the next.                  *)
(***************************************************************************)
\* It is enough to look at the task that moved.
LEMMA CarryStep ==
  ASSUME TypeOK, TasksCarry, NEW h \in Handlers, NEW t \in Task, Become(h, t),
         t.pc = "check" => t.request.key \in Keys,
         t.pc = "consume" => t.request.unlock \in Unlocks,
         t.pc = "generate" /\ t.method = "rewarded_ad"
           => t.request.unlock \in Unlocks,
         t.pc = "restore"
           => t.method = "rewarded_ad" /\ t.request.unlock \in Unlocks,
         t.pc = "count" => t.method = "free_daily"
  PROVE  TasksCarry'
BY BecomeType DEF TasksCarry, Req, TypeOK

\* A task that waits for nothing carries nothing.
LEMMA CarryIdle ==
  ASSUME TypeOK, TasksCarry, NEW h \in Handlers, Become(h, Idle)
  PROVE  TasksCarry'
BY CarryStep, IdleType DEF Idle

\* Only a keyed request is looked up.
LEMMA CarrySubmit ==
  ASSUME TypeOK, TasksCarry, NEW h \in Handlers, NEW r \in Requests,
         Submit(h, r)
  PROVE  TasksCarry'
<1> DEFINE t == [pc |-> IF r.key = NoKey THEN "access" ELSE "check",
                 request |-> r]
<1>1. r \in RequestType
  BY RequestsAssumption
<1>2. t \in Task
  BY <1>1 DEF Task
<1>3. t.pc = "check" => t.request.key \in Keys
  BY <1>1 DEF RequestType
<1>4. t.pc \in {"access", "check"}
  OBVIOUS
<1>5. Become(h, t)
  BY DEF Submit
<1> HIDE DEF t
<1> QED
  BY <1>2, <1>3, <1>4, <1>5, CarryStep

\* Only a request that names an unlock goes on to consume it.
LEMMA CarryDecideAccess ==
  ASSUME TypeOK, TasksCarry, NEW h \in Handlers, DecideAccess(h)
  PROVE  TasksCarry'
<1>1. Req(h) \in RequestType
  BY TaskFields DEF DecideAccess, IsAt
<1>2. /\ Generating(Req(h), "free") \in Task
      /\ Generating(Req(h), "free_daily") \in Task
      /\ [pc |-> "consume", request |-> Req(h)] \in Task
  BY <1>1 DEF Generating, Task, Methods
<1>3. ASSUME NEW m \in {"free", "free_daily"}, Become(h, Generating(Req(h), m))
      PROVE  TasksCarry'
  BY <1>2, <1>3, CarryStep DEF Generating
<1>4. ASSUME Req(h).unlock # NoUnlock,
             Become(h, [pc |-> "consume", request |-> Req(h)])
      PROVE  TasksCarry'
  BY <1>1, <1>2, <1>4, CarryStep DEF RequestType
<1> QED
  BY <1>3, <1>4, CarryIdle DEF DecideAccess

\* Consuming names the unlock the reading is generated for.
LEMMA CarryConsumeUnlock ==
  ASSUME TypeOK, TasksCarry, NEW h \in Handlers, ConsumeUnlock(h)
  PROVE  TasksCarry'
<1>1. Req(h) \in RequestType /\ Req(h).unlock \in Unlocks
  BY TaskFields DEF ConsumeUnlock, IsAt, TasksCarry
<1>2. Generating(Req(h), "rewarded_ad") \in Task
  BY <1>1 DEF Generating, Task, Methods
<1>3. CASE Become(h, Generating(Req(h), "rewarded_ad"))
  BY <1>1, <1>2, <1>3, CarryStep DEF Generating
<1> QED
  BY <1>3, CarryIdle DEF ConsumeUnlock

\* Only a consumed unlock is restored.
LEMMA CarryGenerate ==
  ASSUME TypeOK, TasksCarry, NEW h \in Handlers,
         GenerateReading(h) \/ GenerationFails(h) \/ PersistReplyLost(h)
  PROVE  TasksCarry'
<1>1. IsAt(h, "generate") /\ AfterPersist(h) \in Task /\ AfterFailure(h) \in Task
  BY AfterType DEF GenerateReading, GenerationFails, PersistReplyLost
<1>2. CASE Become(h, AfterPersist(h))
  <2>1. /\ AfterPersist(h).pc \in {"count", "record"}
        /\ AfterPersist(h).pc = "count" => AfterPersist(h).method = "free_daily"
    BY DEF AfterPersist
  <2> QED
    BY <1>1, <1>2, <2>1, CarryStep
<1>3. CASE Become(h, AfterFailure(h))
  <2>1. CASE tasks[h].method = "rewarded_ad"
    <3> DEFINE t == [tasks[h] EXCEPT !.pc = "restore"]
    <3>1. t \in Task /\ Become(h, t)
      BY <1>1, <1>3, <2>1 DEF AfterFailure
    <3>2. /\ t.pc = "restore" /\ t.method = "rewarded_ad"
          /\ t.request.unlock \in Unlocks
      BY <1>1, <2>1, TaskFields DEF IsAt, TasksCarry, Req, Task, Idle
    <3> HIDE DEF t
    <3> QED
      BY <3>1, <3>2, CarryStep
  <2>2. CASE tasks[h].method # "rewarded_ad"
    BY <1>3, <2>2, CarryIdle DEF AfterFailure
  <2> QED
    BY <2>1, <2>2
<1> QED
  BY <1>2, <1>3 DEF GenerateReading, GenerationFails, PersistReplyLost

\* The steps after success carry no unlock.
LEMMA CarryRest ==
  ASSUME TypeOK, TasksCarry, NEW h \in Handlers,
         \/ CheckReplay(h) \/ CountFree(h) \/ CountFails(h)
         \/ RestoreUnlock(h) \/ RestoreFails(h)
         \/ RecordResult(h) \/ RecordFails(h) \/ Crash(h)
  PROVE  TasksCarry'
<1>1. ASSUME CheckReplay(h), Become(h, [pc |-> "access", request |-> Req(h)])
      PROVE  TasksCarry'
  <2>1. [pc |-> "access", request |-> Req(h)] \in Task
    BY <1>1, TaskFields DEF CheckReplay, IsAt, Task
  <2> QED
    BY <1>1, <2>1, CarryStep
<1>2. CASE CountFree(h) \/ CountFails(h)
  <2> DEFINE t == [tasks[h] EXCEPT !.pc = "record"]
  <2>1. t \in Task /\ t.pc = "record" /\ Become(h, t)
    BY <1>2, TaskFields DEF CountFree, CountFails, IsAt, Task, Idle
  <2> HIDE DEF t
  <2> QED
    BY <2>1, CarryStep
<1> QED
  BY <1>1, <1>2, CarryIdle DEF CheckReplay, RestoreUnlock, RestoreFails,
                              RecordResult, RecordFails, Crash

\* Every step keeps what the requests carry.
LEMMA CarryNext ==
  ASSUME TypeOK, TasksCarry, [Next]_vars
  PROVE  TasksCarry'
<1>1. CASE Environment \/ UNCHANGED vars
  BY <1>1 DEF Environment, GrantUnlock, ExpireUnlock, Midnight, vars,
              TasksCarry, Req
<1> QED
  BY <1>1, CarrySubmit, CarryDecideAccess, CarryConsumeUnlock, CarryGenerate,
     CarryRest DEF Next, Continue, RejectRequest

-----------------------------------------------------------------------------
(***************************************************************************)
(* Which reading a request in flight, a record and an answer are about.    *)
(***************************************************************************)
\* Readings are only ever added, so what one serves it goes on serving.
LEMMA CreatedGrows ==
  ASSUME TypeOK, [Next]_vars, NEW i, NEW r, Serves(created, i, r)
  PROVE  Serves(created', i, r)
<1>1. CASE created' = created
  BY <1>1
<1>2. ASSUME NEW h \in Handlers, IsAt(h, "generate"), Persist(h)
      PROVE  Serves(created', i, r)
  BY <1>2, PersistType DEF Serves
<1> QED
  BY <1>1, <1>2
     DEF Next, Continue, Environment, Submit, RejectRequest, CheckReplay,
         DecideAccess, ConsumeUnlock, GenerateReading, GenerationFails,
         PersistReplyLost, RestoreUnlock, RestoreFails, CountFree, CountFails,
         RecordResult, RecordFails, GrantUnlock, ExpireUnlock, Midnight, Crash,
         vars, tables

\* The reading a request has just persisted is what it asked for.
LEMMA PersistedServes ==
  ASSUME TypeOK, NEW h \in Handlers, IsAt(h, "generate"), Persist(h)
  PROVE  Serves(created', Len(created) + 1, Req(h))
<1>1. /\ NewReading(h).user = Req(h).user
      /\ NewReading(h).fortune = Req(h).fortune
      /\ NewReading(h).key = Req(h).key
      /\ NewReading(h).unlock \in {Req(h).unlock, NoUnlock}
  BY DEF NewReading
<1>2. /\ created'[Len(created) + 1] = NewReading(h)
      /\ Len(created) + 1 \in DOMAIN created'
  BY PersistType
<1> QED
  BY <1>1, <1>2 DEF Serves

\* It is enough to look at the task that moved.
LEMMA ServeStep ==
  ASSUME TypeOK, TasksServe, [Next]_vars, NEW h \in Handlers, NEW t \in Task,
         Become(h, t),
         t.pc \in {"count", "record"} => Serves(created', t.reading, t.request)
  PROVE  TasksServe'
BY BecomeType, CreatedGrows DEF TasksServe, Req, TypeOK

\* A request that has persisted goes on with the id of the row it inserted.
LEMMA TasksServeNext ==
  ASSUME TypeOK, TasksServe, [Next]_vars
  PROVE  TasksServe'
<1>1. CASE UNCHANGED tasks
  BY <1>1, CreatedGrows DEF TasksServe, Req
<1>2. ASSUME NEW h \in Handlers, NEW t \in Task, Become(h, t),
             t.pc \notin {"count", "record"}
      PROVE  TasksServe'
  BY <1>2, ServeStep
<1>3. ASSUME NEW h \in Handlers, NEW r \in Requests, Submit(h, r)
      PROVE  TasksServe'
  <2> DEFINE t == [pc |-> IF r.key = NoKey THEN "access" ELSE "check",
                   request |-> r]
  <2>1. t \in Task /\ t.pc \in {"access", "check"} /\ Become(h, t)
    BY <1>3, RequestsAssumption DEF Task, Submit
  <2> HIDE DEF t
  <2> QED
    BY <1>2, <2>1
<1>4. ASSUME NEW h \in Handlers, Become(h, Idle)
      PROVE  TasksServe'
  BY <1>2, <1>4, IdleType DEF Idle
<1>5. ASSUME NEW h \in Handlers, CheckReplay(h)
      PROVE  TasksServe'
  <2>1. [pc |-> "access", request |-> Req(h)] \in Task
    BY <1>5, TaskFields DEF CheckReplay, IsAt, Task
  <2> QED
    BY <1>2, <1>4, <1>5, <2>1 DEF CheckReplay
<1>6. ASSUME NEW h \in Handlers, DecideAccess(h) \/ ConsumeUnlock(h)
      PROVE  TasksServe'
  <2>1. Req(h) \in RequestType
    BY <1>6, TaskFields DEF DecideAccess, ConsumeUnlock, IsAt
  <2>2. \A m \in Methods : Generating(Req(h), m) \in Task
    BY <2>1 DEF Generating, Task
  <2>3. [pc |-> "consume", request |-> Req(h)] \in Task
    BY <2>1 DEF Task
  <2>4. ASSUME NEW m \in Methods, Become(h, Generating(Req(h), m))
        PROVE  TasksServe'
    BY <1>2, <2>2, <2>4 DEF Generating
  <2>5. ASSUME Become(h, [pc |-> "consume", request |-> Req(h)])
        PROVE  TasksServe'
    BY <1>2, <2>3, <2>5
  <2> QED
    BY <1>4, <1>6, <2>4, <2>5 DEF DecideAccess, ConsumeUnlock, Methods
<1>7. ASSUME NEW h \in Handlers, GenerateReading(h)
      PROVE  TasksServe'
  <2>1. IsAt(h, "generate") /\ Persist(h) /\ Become(h, AfterPersist(h))
    BY <1>7 DEF GenerateReading
  <2>2. /\ AfterPersist(h) \in Task
        /\ AfterPersist(h).reading = Len(created) + 1
        /\ AfterPersist(h).request = Req(h)
    BY <2>1, AfterType DEF AfterPersist
  <2> QED
    BY <2>1, <2>2, PersistedServes, ServeStep
<1>8. ASSUME NEW h \in Handlers, GenerationFails(h) \/ PersistReplyLost(h)
      PROVE  TasksServe'
  <2>1. /\ IsAt(h, "generate") /\ AfterFailure(h) \in Task
        /\ Become(h, AfterFailure(h))
    BY <1>8, AfterType DEF GenerationFails, PersistReplyLost
  <2>2. AfterFailure(h).pc \in {"idle", "restore"}
    BY <2>1, TaskFields DEF AfterFailure, Idle, Task, IsAt
  <2> QED
    BY <1>2, <2>1, <2>2
<1>9. ASSUME NEW h \in Handlers, CountFree(h) \/ CountFails(h)
      PROVE  TasksServe'
  <2> DEFINE t == [tasks[h] EXCEPT !.pc = "record"]
  <2>1. /\ t \in Task /\ Become(h, t)
        /\ t.reading = tasks[h].reading /\ t.request = Req(h)
    <3>1. tasks[h] \in Task /\ tasks[h].pc = "count"
      BY <1>9, TaskFields DEF CountFree, CountFails, IsAt
    <3>2. t \in Task /\ t.reading = tasks[h].reading /\ t.request = Req(h)
      BY <3>1 DEF Task, Idle, Req
    <3>3. Become(h, t)
      BY <1>9 DEF CountFree, CountFails
    <3> QED
      BY <3>2, <3>3
  <2>2. Serves(created, tasks[h].reading, Req(h))
    BY <1>9 DEF CountFree, CountFails, IsAt, TasksServe
  <2> HIDE DEF t
  <2> QED
    BY <2>1, <2>2, CreatedGrows, ServeStep
<1> QED
  BY <1>1, <1>3, <1>4, <1>5, <1>6, <1>7, <1>8, <1>9
     DEF Next, Continue, Environment, RejectRequest, RestoreUnlock,
         RestoreFails, RecordResult, RecordFails, GrantUnlock, ExpireUnlock,
         Midnight, Crash, vars, tables

\* A record of another request changes nothing; the own one is written once,
\* with the reading in hand.
LEMMA RecordsServeNext ==
  ASSUME TypeOK, TasksServe, RecordsServe, [Next]_vars
  PROVE  RecordsServe'
<1>1. CASE records' = records
  BY <1>1, CreatedGrows DEF RecordsServe
<1>2. ASSUME NEW h \in Handlers, RecordResult(h)
      PROVE  RecordsServe'
  <2> DEFINE new == [fingerprint |-> Fingerprint(Req(h)),
                     reading |-> tasks[h].reading]
  <2>1. Req(h) \in RequestType /\ Serves(created, tasks[h].reading, Req(h))
    BY <1>2, TaskFields DEF RecordResult, IsAt, TasksServe
  <2>2. Serves(created, new.reading, Recording(Req(h).user, Req(h).key, new))
    BY <2>1 DEF Serves, Recording, Fingerprint
  <2>3. ASSUME NEW u \in Users, NEW k \in Keys, records'[u][k] # NoRecord
        PROVE  Serves(created', records'[u][k].reading,
                      Recording(u, k, records'[u][k]))
    <3>1. CASE records'[u][k] = records[u][k]
      <4>1. Serves(created, records[u][k].reading,
                   Recording(u, k, records[u][k]))
        BY <2>3, <3>1 DEF RecordsServe
      <4> QED
        BY <3>1, <4>1, CreatedGrows
    <3>2. CASE records'[u][k] # records[u][k]
      <4>1. /\ u = Req(h).user /\ k = Req(h).key
            /\ records'[u][k] = new
        BY <1>2, <3>2 DEF RecordResult, Recorded, TypeOK
      <4> HIDE DEF new
      <4> QED
        BY <2>2, <4>1, CreatedGrows
    <3> QED
      BY <3>1, <3>2
  <2> QED
    BY <2>3 DEF RecordsServe
<1> QED
  BY <1>1, <1>2
     DEF Next, Continue, Environment, Submit, RejectRequest, CheckReplay,
         DecideAccess, ConsumeUnlock, GenerateReading, GenerationFails,
         PersistReplyLost, RestoreUnlock, RestoreFails, CountFree, CountFails,
         RecordFails, GrantUnlock, ExpireUnlock, Midnight, Crash, vars, tables

\* An answer is given once its reading is persisted, or replayed from a record
\* with the caller's own user, key and body.
LEMMA AnswersServeNext ==
  ASSUME TypeOK, TasksServe, RecordsServe, TasksCarry, AnswersServe,
         [Next]_vars
  PROVE  AnswersServe'
<1>1. CASE answers' = answers
  BY <1>1, CreatedGrows DEF AnswersServe
<1>2. ASSUME NEW h \in Handlers, NEW reading, Answer(h, reading),
             Serves(created, reading, Req(h))
      PROVE  AnswersServe'
  BY <1>2, CreatedGrows DEF Answer, AnswersServe
<1>3. ASSUME NEW h \in Handlers, RecordResult(h)
      PROVE  AnswersServe'
  BY <1>2, <1>3 DEF RecordResult, IsAt, TasksServe
<1>4. ASSUME NEW h \in Handlers, CheckReplay(h)
      PROVE  AnswersServe'
  <2> DEFINE row == records[Req(h).user][Req(h).key]
  <2>1. Req(h) \in RequestType /\ Req(h).key \in Keys
    BY <1>4, TaskFields DEF CheckReplay, IsAt, TasksCarry
  <2>2. ASSUME row # NoRecord, row.fingerprint = Fingerprint(Req(h))
        PROVE  Serves(created, row.reading, Req(h))
    <3>1. Serves(created, row.reading,
                 Recording(Req(h).user, Req(h).key, row))
      BY <2>1, <2>2 DEF RecordsServe, RequestType
    <3>2. /\ row.fingerprint[1] = Req(h).fortune
          /\ row.fingerprint[2] = Req(h).unlock
      BY <2>2 DEF Fingerprint
    <3> QED
      BY <3>1, <3>2 DEF Serves, Recording
  <2> QED
    BY <1>1, <1>2, <1>4, <2>2 DEF CheckReplay
<1> QED
  BY <1>1, <1>3, <1>4
     DEF Next, Continue, Environment, Submit, RejectRequest, DecideAccess,
         ConsumeUnlock, GenerateReading, GenerationFails, PersistReplyLost,
         RestoreUnlock, RestoreFails, CountFree, CountFails, RecordFails,
         GrantUnlock, ExpireUnlock, Midnight, Crash, vars, tables

-----------------------------------------------------------------------------
(***************************************************************************)
(* The day's counter and the requests that have not counted yet.           *)
(***************************************************************************)
\* There are no more requests left to count than handlers.
LEMMA UncountedFinite ==
  ASSUME NEW u, NEW f
  PROVE  /\ IsFiniteSet(Uncounted(u, f))
         /\ Cardinality(Uncounted(u, f)) \in Nat
         /\ Cardinality(Handlers) \in Nat
         /\ Cardinality(Uncounted(u, f)) <= Cardinality(Handlers)
<1>1. Uncounted(u, f) \subseteq Handlers
  BY DEF Uncounted
<1> QED
  BY <1>1, BoundsAssumption, FS_Subset, FS_CardinalityType

\* Counts only go up when Uncounted grows.
LEMMA UncountedMonotonic ==
  ASSUME NEW u, NEW f, Uncounted(u, f)' \subseteq Uncounted(u, f)
  PROVE  /\ Cardinality(Uncounted(u, f))' \in Nat
         /\ Cardinality(Uncounted(u, f))' <= Cardinality(Uncounted(u, f))
BY UncountedFinite, FS_Subset, FS_CardinalityType

\* Only the current day's row is written, and only upwards by one.
LEMMA FutureUncountedNext ==
  ASSUME TypeOK, FutureUncounted, [Next]_vars
  PROVE  FutureUncounted'
<1>1. CASE UNCHANGED <<usage, day>>
  BY <1>1 DEF FutureUncounted
<1>2. ASSUME NEW h \in Handlers, CountFree(h)
      PROVE  FutureUncounted'
  BY <1>2 DEF CountFree, FutureUncounted, TypeOK, Days
<1>3. CASE Midnight
  BY <1>3, BoundsAssumption DEF Midnight, FutureUncounted, TypeOK, Days, tables
<1> QED
  BY <1>1, <1>2, <1>3
     DEF Next, Continue, Environment, Submit, RejectRequest, CheckReplay,
         DecideAccess, ConsumeUnlock, GenerateReading, GenerationFails,
         PersistReplyLost, RestoreUnlock, RestoreFails, CountFails,
         RecordResult, RecordFails, GrantUnlock, ExpireUnlock, Crash, vars,
         tables

\* A step that neither starts a free reading nor counts one.
LEMMA RoomQuiet ==
  ASSUME TypeOK, RoomForUncounted, UNCHANGED <<usage, day>>,
         \A u \in Users, f \in Fortunes :
           Uncounted(u, f)' \subseteq Uncounted(u, f)
  PROVE  RoomForUncounted'
<1> SUFFICES ASSUME NEW u \in Users, NEW f \in Fortunes, Allowance[f] > 0
             PROVE  usage[u][f][day] + Cardinality(Uncounted(u, f))'
                      <= Allowance[f] + Cardinality(Handlers) - 1
  BY DEF RoomForUncounted
<1>1. usage[u][f][day] \in Nat /\ Allowance[f] \in Nat
  BY BoundsAssumption DEF TypeOK
<1> QED
  BY <1>1, UncountedMonotonic, UncountedFinite DEF RoomForUncounted

\* A task that moves to a state in which nothing is left to count.
LEMMA RoomMove ==
  ASSUME TypeOK, RoomForUncounted, UNCHANGED <<usage, day>>,
         NEW h \in Handlers, NEW t \in Task, Become(h, t),
         t.pc \in {"generate", "count"} /\ t.method = "free_daily"
           => /\ tasks[h].pc \in {"generate", "count"}
              /\ tasks[h].method = "free_daily" /\ t.request = Req(h)
  PROVE  RoomForUncounted'
<1>1. ASSUME NEW u \in Users, NEW f \in Fortunes
      PROVE  Uncounted(u, f)' \subseteq Uncounted(u, f)
  BY ZenonT(60), BecomeType DEF Uncounted, Req, TypeOK
<1> QED
  BY <1>1, RoomQuiet

\* The request that finds a free reading left saw a counter below the
\* allowance.
LEMMA RoomDecideAccess ==
  ASSUME TypeOK, RoomForUncounted, NEW h \in Handlers,
         FreeRemaining(Req(h)) > 0, IsAt(h, "access"), UNCHANGED <<usage, day>>,
         Become(h, Generating(Req(h), "free_daily"))
  PROVE  RoomForUncounted'
<1> SUFFICES ASSUME NEW u \in Users, NEW f \in Fortunes, Allowance[f] > 0
             PROVE  usage[u][f][day] + Cardinality(Uncounted(u, f))'
                      <= Allowance[f] + Cardinality(Handlers) - 1
  BY DEF RoomForUncounted
<1>1. usage[u][f][day] \in Nat /\ Allowance[f] \in Nat
  BY BoundsAssumption DEF TypeOK
<1>2. Req(h) \in RequestType
  BY TaskFields DEF IsAt
<1>3. Generating(Req(h), "free_daily") \in Task
  BY <1>2 DEF Generating, Task, Methods
<1>4. CASE Req(h).user = u /\ Req(h).fortune = f
  <2>1. usage[u][f][day] <= Allowance[f] - 1
    BY <1>1, <1>4 DEF FreeRemaining
  <2>2. Uncounted(u, f)' \subseteq Handlers
    BY DEF Uncounted
  <2>3. /\ Cardinality(Uncounted(u, f)') \in Nat
        /\ Cardinality(Handlers) \in Nat
        /\ Cardinality(Uncounted(u, f)') <= Cardinality(Handlers)
    BY <2>2, BoundsAssumption, FS_Subset, FS_CardinalityType
  <2> QED
    BY <1>1, <2>1, <2>3
<1>5. CASE ~(Req(h).user = u /\ Req(h).fortune = f)
  <2>1. Uncounted(u, f)' \subseteq Uncounted(u, f)
    <3>1. tasks'[h] = Generating(Req(h), "free_daily")
      BY <1>3, BecomeType DEF TypeOK
    <3>2. Req(h)' = Req(h)
      BY <3>1 DEF Req, Generating
    <3>3. h \notin Uncounted(u, f)'
      BY <1>5, <3>2 DEF Uncounted
    <3>4. \A g \in Handlers \ {h} : tasks'[g] = tasks[g]
      BY <1>3, BecomeType DEF TypeOK
    <3> QED
      BY <3>3, <3>4 DEF Uncounted, Req
  <2> QED
    BY <1>1, <2>1, UncountedMonotonic, UncountedFinite DEF RoomForUncounted
<1> QED
  BY <1>4, <1>5

\* Counting moves one request from the waiting ones to the counter.
LEMMA RoomCountFree ==
  ASSUME TypeOK, RoomForUncounted, NEW h \in Handlers, CountFree(h),
         tasks[h].method = "free_daily"
  PROVE  RoomForUncounted'
<1> SUFFICES ASSUME NEW u \in Users, NEW f \in Fortunes, Allowance[f] > 0
             PROVE  usage'[u][f][day] + Cardinality(Uncounted(u, f)')
                      <= Allowance[f] + Cardinality(Handlers) - 1
  BY DEF RoomForUncounted, CountFree
<1> DEFINE t == [tasks[h] EXCEPT !.pc = "record"]
<1>1. usage[u][f][day] \in Nat /\ Allowance[f] \in Nat
  BY BoundsAssumption DEF TypeOK
<1>2. Req(h) \in RequestType /\ t \in Task /\ t.pc = "record" /\ Become(h, t)
  BY TaskFields DEF CountFree, IsAt, Task, Idle
<1> HIDE DEF t
<1>3. usage[u][f][day] + Cardinality(Uncounted(u, f))
        <= Allowance[f] + Cardinality(Handlers) - 1
  BY DEF RoomForUncounted
<1>4. CASE Req(h).user = u /\ Req(h).fortune = f
  <2>1. usage'[u][f][day] = usage[u][f][day] + 1
    BY <1>4 DEF CountFree, TypeOK
  <2>2. h \in Uncounted(u, f)
    BY <1>4 DEF Uncounted, CountFree, IsAt
  <2>3. Uncounted(u, f)' = Uncounted(u, f) \ {h}
    BY <1>2, BecomeType DEF Uncounted, Req, TypeOK
  <2>4. Cardinality(Uncounted(u, f)') = Cardinality(Uncounted(u, f)) - 1
    BY <2>2, <2>3, UncountedFinite, FS_RemoveElement
  <2> QED
    BY <1>1, <1>3, <2>1, <2>4, UncountedFinite
<1>5. CASE ~(Req(h).user = u /\ Req(h).fortune = f)
  <2>1. usage'[u][f][day] = usage[u][f][day]
    BY <1>2, <1>5 DEF CountFree, TypeOK, RequestType
  <2>2. Uncounted(u, f)' \subseteq Uncounted(u, f)
    BY <1>2, BecomeType DEF Uncounted, Req, TypeOK
  <2> QED
    BY <1>1, <1>3, <2>1, <2>2, UncountedMonotonic, UncountedFinite
<1> QED
  BY <1>4, <1>5

\* Midnight: nothing is counted on the new day yet.
LEMMA RoomMidnight ==
  ASSUME TypeOK, FutureUncounted, Midnight
  PROVE  RoomForUncounted'
<1> SUFFICES ASSUME NEW u \in Users, NEW f \in Fortunes, Allowance[f] > 0
             PROVE  usage[u][f][day'] + Cardinality(Uncounted(u, f)')
                      <= Allowance[f] + Cardinality(Handlers) - 1
  BY DEF RoomForUncounted, Midnight, tables
<1>1. usage[u][f][day'] = 0 /\ Allowance[f] \in Nat
  BY BoundsAssumption DEF FutureUncounted, Midnight, TypeOK, Days
<1>2. Uncounted(u, f)' \subseteq Handlers
  BY DEF Uncounted
<1>3. /\ Cardinality(Uncounted(u, f)') \in Nat
      /\ Cardinality(Handlers) \in Nat
      /\ Cardinality(Uncounted(u, f)') <= Cardinality(Handlers)
  BY <1>2, BoundsAssumption, FS_Subset, FS_CardinalityType
<1> QED
  BY <1>1, <1>3

\* Every step keeps room for the requests that have not counted yet.
LEMMA RoomNext ==
  ASSUME TypeOK, TasksCarry, RoomForUncounted, FutureUncounted, [Next]_vars
  PROVE  RoomForUncounted'
<1>1. CASE UNCHANGED <<usage, day, tasks>>
  BY <1>1, RoomQuiet DEF Uncounted, Req
<1>2. ASSUME NEW h \in Handlers, Become(h, Idle), UNCHANGED <<usage, day>>
      PROVE  RoomForUncounted'
  BY <1>2, IdleType, RoomMove DEF Idle
<1>3. ASSUME NEW h \in Handlers, NEW r \in Requests, Submit(h, r)
      PROVE  RoomForUncounted'
  <2> DEFINE t == [pc |-> IF r.key = NoKey THEN "access" ELSE "check",
                   request |-> r]
  <2>1. t \in Task /\ t.pc \in {"access", "check"} /\ Become(h, t)
    BY <1>3, RequestsAssumption DEF Task, Submit
  <2> HIDE DEF t
  <2> QED
    BY <1>3, <2>1, RoomMove DEF Submit, tables
<1>4. ASSUME NEW h \in Handlers, CheckReplay(h)
      PROVE  RoomForUncounted'
  <2>1. [pc |-> "access", request |-> Req(h)] \in Task
    BY <1>4, TaskFields DEF CheckReplay, IsAt, Task
  <2>2. CASE Become(h, [pc |-> "access", request |-> Req(h)])
    BY <1>4, <2>1, <2>2, RoomMove DEF CheckReplay, tables
  <2> QED
    BY <1>2, <1>4, <2>2 DEF CheckReplay, tables
<1>5. ASSUME NEW h \in Handlers, DecideAccess(h)
      PROVE  RoomForUncounted'
  <2>1. Req(h) \in RequestType /\ UNCHANGED <<usage, day>> /\ IsAt(h, "access")
    BY <1>5, TaskFields DEF DecideAccess, IsAt, tables
  <2>2. /\ Generating(Req(h), "free") \in Task
        /\ [pc |-> "consume", request |-> Req(h)] \in Task
    BY <2>1 DEF Generating, Task, Methods
  <2>3. CASE Become(h, Generating(Req(h), "free"))
    <3>1. /\ Generating(Req(h), "free").pc = "generate"
          /\ Generating(Req(h), "free").method = "free"
      BY DEF Generating
    <3> QED
      BY <2>1, <2>2, <2>3, <3>1, RoomMove
  <2>4. CASE /\ FreeRemaining(Req(h)) > 0
             /\ Become(h, Generating(Req(h), "free_daily"))
    BY <2>1, <2>4, RoomDecideAccess
  <2>5. CASE Become(h, [pc |-> "consume", request |-> Req(h)])
    BY <2>1, <2>2, <2>5, RoomMove
  <2> QED
    BY <1>2, <1>5, <2>1, <2>3, <2>4, <2>5 DEF DecideAccess
<1>6. ASSUME NEW h \in Handlers, ConsumeUnlock(h)
      PROVE  RoomForUncounted'
  <2>1. Req(h) \in RequestType /\ UNCHANGED <<usage, day>>
    BY <1>6, TaskFields DEF ConsumeUnlock, IsAt
  <2>2. /\ Generating(Req(h), "rewarded_ad") \in Task
        /\ Generating(Req(h), "rewarded_ad").method = "rewarded_ad"
    BY <2>1 DEF Generating, Task, Methods
  <2>3. CASE Become(h, Generating(Req(h), "rewarded_ad"))
    BY <2>1, <2>2, <2>3, RoomMove
  <2> QED
    BY <1>2, <1>6, <2>1, <2>3 DEF ConsumeUnlock
<1>7. ASSUME NEW h \in Handlers,
             GenerateReading(h) \/ GenerationFails(h) \/ PersistReplyLost(h)
      PROVE  RoomForUncounted'
  <2>1. /\ IsAt(h, "generate") /\ UNCHANGED <<usage, day>>
        /\ Become(h, AfterPersist(h)) \/ Become(h, AfterFailure(h))
    BY <1>7 DEF GenerateReading, GenerationFails, PersistReplyLost, tables
  <2>2. AfterPersist(h) \in Task /\ AfterFailure(h) \in Task
    BY <2>1, AfterType
  <2>3. /\ AfterPersist(h).method = tasks[h].method
        /\ AfterPersist(h).request = Req(h)
    BY DEF AfterPersist
  <2>4. AfterFailure(h).pc \in {"idle", "restore"}
    BY <2>1, TaskFields DEF AfterFailure, Idle, Task, IsAt
  <2>5. CASE Become(h, AfterPersist(h))
    BY <2>1, <2>2, <2>3, <2>5, RoomMove DEF IsAt
  <2>6. CASE Become(h, AfterFailure(h))
    BY <2>1, <2>2, <2>4, <2>6, RoomMove
  <2> QED
    BY <2>1, <2>5, <2>6
<1>8. ASSUME NEW h \in Handlers, CountFails(h)
      PROVE  RoomForUncounted'
  <2> DEFINE t == [tasks[h] EXCEPT !.pc = "record"]
  <2>1. /\ t \in Task /\ t.pc = "record" /\ Become(h, t)
        /\ UNCHANGED <<usage, day>>
    BY <1>8, TaskFields DEF CountFails, IsAt, Task, Idle, tables
  <2> HIDE DEF t
  <2> QED
    BY <2>1, RoomMove
<1>9. ASSUME NEW h \in Handlers, CountFree(h)
      PROVE  RoomForUncounted'
  BY <1>9, RoomCountFree DEF CountFree, IsAt, TasksCarry
<1> QED
  BY <1>1, <1>2, <1>3, <1>4, <1>5, <1>6, <1>7, <1>8, <1>9, RoomMidnight
     DEF Next, Continue, Environment, RejectRequest, RestoreUnlock,
         RestoreFails, RecordResult, RecordFails, GrantUnlock, ExpireUnlock,
         Crash, vars, tables

-----------------------------------------------------------------------------
(***************************************************************************)
(* The theorems.                                                           *)
(***************************************************************************)
\* Nothing is recorded, counted or in flight to begin with.
LEMMA IInvInit == Init => IInv
<1> SUFFICES ASSUME Init PROVE IInv
  OBVIOUS
<1>1. TypeOK
  BY TypeInit
<1>2. TasksServe /\ TasksCarry
  BY DEF Init, TasksServe, TasksCarry, Idle
<1>3. RecordsServe /\ AnswersServe
  BY DEF Init, RecordsServe, AnswersServe
<1>4. FutureUncounted
  BY DEF Init, FutureUncounted
<1>5. ASSUME NEW u \in Users, NEW f \in Fortunes, Allowance[f] > 0
      PROVE  usage[u][f][day] + Cardinality(Uncounted(u, f))
               <= Allowance[f] + Cardinality(Handlers) - 1
  <2>1. Uncounted(u, f) = {}
    BY DEF Init, Uncounted, Idle
  <2>2. Cardinality(Uncounted(u, f)) = 0
    BY <2>1, FS_EmptySet
  <2>3. usage[u][f][day] = 0
    BY BoundsAssumption DEF Init, Days
  <2> QED
    BY <1>5, <2>2, <2>3, UncountedFinite, BoundsAssumption
<1>6. RoomForUncounted
  BY <1>5 DEF RoomForUncounted
<1> QED
  BY <1>1, <1>2, <1>3, <1>4, <1>6 DEF IInv

\* The invariant is inductive.
LEMMA IInvNext == IInv /\ [Next]_vars => IInv'
BY TypeNext, CarryNext, TasksServeNext, RecordsServeNext, AnswersServeNext,
   RoomNext, FutureUncountedNext DEF IInv

\* Whatever faults occur and however requests interleave, every row and every
\* request in flight stays well formed and consistent with the others.
THEOREM Invariance == Spec => []IInv
BY IInvInit, IInvNext, PTL DEF Spec

\* Every row and every request in flight has the shape the service gives it.
THEOREM TypeCorrect == Spec => []TypeOK
<1>1. IInv => TypeOK
  BY DEF IInv
<1> QED
  BY <1>1, Invariance, PTL

\* A response, fresh or replayed by IdempotencyService, is a reading of the
\* caller for the fortune, the key and the unlock the request names.
THEOREM AnswersMatch == Spec => []AnswersMatchRequests
<1>1. IInv => AnswersMatchRequests
  BY DEF IInv, AnswersServe, Serves, AnswersMatchRequests
<1> QED
  BY <1>1, Invariance, PTL

\* However many requests read the day's counter before any was counted, it ends
\* at most one less than their number above the allowance.
THEOREM Overshoot == Spec => []OvershootBounded
<1>1. IInv => OvershootBounded
  <2> SUFFICES ASSUME IInv, NEW u \in Users, NEW f \in Fortunes,
                      Allowance[f] > 0
               PROVE  usage[u][f][day]
                        <= Allowance[f] + Cardinality(Handlers) - 1
    BY DEF OvershootBounded
  <2>1. usage[u][f][day] \in Nat /\ Allowance[f] \in Nat
    BY BoundsAssumption DEF IInv, TypeOK
  <2> QED
    BY <2>1, UncountedFinite DEF IInv, RoomForUncounted
<1> QED
  BY <1>1, Invariance, PTL

\* The upsert of a completed request never replaces what a key replays.
THEOREM RecordsFinal == Spec => RecordsAreFinal
<1>1. IInv /\ [Next]_vars
        => [\A u \in Users, k \in Keys :
              records[u][k] # NoRecord => records'[u][k] = records[u][k]]_vars
  <2> SUFFICES ASSUME TypeOK, [Next]_vars, NEW u \in Users, NEW k \in Keys,
                      records[u][k] # NoRecord
               PROVE  records'[u][k] = records[u][k]
    BY DEF IInv
  <2>1. ASSUME NEW h \in Handlers, RecordResult(h)
        PROVE  records'[u][k] = records[u][k]
    BY <2>1 DEF RecordResult, Recorded, TypeOK
  <2> QED
    BY <2>1
       DEF Next, Continue, Environment, Submit, RejectRequest, CheckReplay,
           DecideAccess, ConsumeUnlock, GenerateReading, GenerationFails,
           PersistReplyLost, RestoreUnlock, RestoreFails, CountFree,
           CountFails, RecordFails, GrantUnlock, ExpireUnlock, Midnight,
           Crash, vars, tables
<1> QED
  BY <1>1, Invariance, PTL DEF Spec, RecordsAreFinal

-----------------------------------------------------------------------------
(***************************************************************************)
(* The account of an unlock: how a step moves it between its phases.       *)
(***************************************************************************)
\* A request with this task has consumed e and neither delivered nor restored.
Holds(t, e) ==
  /\ t.pc \in {"generate", "restore"}
  /\ t.method = "rewarded_ad"
  /\ t.request.unlock = e

\* The step leaves e alone, or loses the request that held it.
Quiet(e) ==
  /\ unlocks'[e].status = unlocks[e].status
  /\ ReadingsOn(e)' = ReadingsOn(e)
  /\ Holders(e)' \subseteq Holders(e)
  /\ NothingLost => Holders(e)' = Holders(e)

Granted(e) ==
  /\ unlocks[e].status = "none" /\ unlocks'[e].status = "available"
  /\ ReadingsOn(e)' = ReadingsOn(e) /\ Holders(e)' = Holders(e)

Taken(e) ==
  \E h \in Handlers :
    /\ unlocks[e].status = "available" /\ unlocks'[e].status = "consumed"
    /\ ReadingsOn(e)' = ReadingsOn(e) /\ Holders(e)' = Holders(e) \cup {h}

Spent(e) ==
  \E h \in Holders(e) :
    /\ unlocks'[e].status = unlocks[e].status
    /\ ReadingsOn(e)' = ReadingsOn(e) \cup {Len(created) + 1}
    /\ Holders(e)' = Holders(e) \ {h}

GivenBack(e) ==
  \E h \in Holders(e) :
    /\ unlocks'[e].status = IF unlocks[e].status = "consumed" THEN "available"
                            ELSE unlocks[e].status
    /\ ReadingsOn(e)' = ReadingsOn(e)
    /\ Holders(e)' = Holders(e) \ {h}

\* A step is about one unlock at most.
ClaimStep ==
  \/ \A e \in Unlocks : Quiet(e)
  \/ \E e \in Unlocks : /\ Granted(e) \/ Taken(e) \/ Spent(e) \/ GivenBack(e)
                        /\ \A d \in Unlocks \ {e} : Quiet(d)

\* Who holds an unlock after one request moved on.
LEMMA HoldersMove ==
  ASSUME TypeOK, NEW h \in Handlers, NEW t \in Task, Become(h, t), NEW e
  PROVE  Holders(e)' = {g \in Handlers : IF g = h THEN Holds(t, e)
                                         ELSE g \in Holders(e)}
BY BecomeType DEF Holders, Holds, Req, TypeOK

\* And before.
LEMMA HoldersAre ==
  ASSUME NEW e
  PROVE  Holders(e) = {g \in Handlers : Holds(tasks[g], e)}
BY DEF Holders, Holds, Req

\* A step that only moves a request on, and keeps what it holds.
LEMMA QuietMove ==
  ASSUME TypeOK, NEW h \in Handlers, NEW t \in Task, Become(h, t),
         UNCHANGED <<unlocks, created>>,
         \A e \in Unlocks : Holds(t, e) => Holds(tasks[h], e),
         NothingLost => \A e \in Unlocks : Holds(tasks[h], e) => Holds(t, e)
  PROVE  \A e \in Unlocks : Quiet(e)
<1> SUFFICES ASSUME NEW e \in Unlocks PROVE Quiet(e)
  OBVIOUS
<1>1. Holders(e)' = {g \in Handlers : IF g = h THEN Holds(t, e)
                                      ELSE g \in Holders(e)}
  BY HoldersMove
<1>2. h \in Holders(e) <=> Holds(tasks[h], e)
  BY HoldersAre
<1>3. Holders(e)' \subseteq Holders(e)
  BY <1>1, <1>2
<1>4. NothingLost => Holders(e)' = Holders(e)
  BY <1>1, <1>2, HoldersAre
<1>5. ReadingsOn(e)' = ReadingsOn(e)
  BY DEF ReadingsOn
<1> QED
  BY <1>3, <1>4, <1>5 DEF Quiet

\* A request that holds nothing and goes on to hold nothing.
LEMMA QuietFree ==
  ASSUME TypeOK, NEW h \in Handlers, NEW t \in Task, Become(h, t),
         UNCHANGED <<unlocks, created>>,
         ~(t.pc \in {"generate", "restore"} /\ t.method = "rewarded_ad"),
         NothingLost =>
           ~(/\ tasks[h].pc \in {"generate", "restore"}
             /\ tasks[h].method = "rewarded_ad")
  PROVE  \A e \in Unlocks : Quiet(e)
BY QuietMove DEF Holds

\* The steps of a request that touch neither the unlocks nor the readings.
LEMMA ClaimQuiet ==
  ASSUME TypeOK, TasksCarry, NEW h \in Handlers,
         \/ \E r \in Requests : Submit(h, r)
         \/ CheckReplay(h) \/ DecideAccess(h) \/ GenerationFails(h)
         \/ RestoreFails(h) \/ CountFree(h) \/ CountFails(h)
         \/ RecordResult(h) \/ RecordFails(h) \/ Crash(h)
  PROVE  \A e \in Unlocks : Quiet(e)
<1>0. UNCHANGED <<unlocks, created>>
  BY DEF Submit, CheckReplay, DecideAccess, GenerationFails, RestoreFails,
         CountFree, CountFails, RecordResult, RecordFails, Crash, tables
<1>1. ASSUME NEW r \in Requests, Submit(h, r)
      PROVE  \A e \in Unlocks : Quiet(e)
  <2> DEFINE t == [pc |-> IF r.key = NoKey THEN "access" ELSE "check",
                   request |-> r]
  <2>1. t \in Task /\ t.pc \in {"access", "check"} /\ Become(h, t)
    BY <1>1, RequestsAssumption DEF Task, Submit
  <2>2. tasks[h].pc = "idle"
    BY <1>1 DEF Submit, IsAt
  <2> HIDE DEF t
  <2> QED
    BY <1>0, <2>1, <2>2, QuietFree
<1>2. ASSUME Become(h, Idle),
             NothingLost => tasks[h].pc \notin {"generate", "restore"}
      PROVE  \A e \in Unlocks : Quiet(e)
  BY <1>0, <1>2, IdleType, QuietFree DEF Idle
<1>3. CASE CheckReplay(h)
  <2>1. tasks[h].pc = "check" /\ [pc |-> "access", request |-> Req(h)] \in Task
    BY <1>3, TaskFields DEF CheckReplay, IsAt, Task
  <2>2. CASE Become(h, [pc |-> "access", request |-> Req(h)])
    BY <1>0, <2>1, <2>2, QuietFree
  <2> QED
    BY <1>2, <1>3, <2>1, <2>2 DEF CheckReplay
<1>4. CASE DecideAccess(h)
  <2>1. Req(h) \in RequestType /\ tasks[h].pc = "access"
    BY <1>4, TaskFields DEF DecideAccess, IsAt
  <2>2. [pc |-> "consume", request |-> Req(h)] \in Task
    BY <2>1 DEF Task
  <2>3. ASSUME NEW m \in {"free", "free_daily"}, Become(h, Generating(Req(h), m))
        PROVE  \A e \in Unlocks : Quiet(e)
    <3>1. /\ Generating(Req(h), m) \in Task
          /\ Generating(Req(h), m).method # "rewarded_ad"
      BY <2>1 DEF Generating, Task, Methods
    <3> QED
      BY <1>0, <2>1, <2>3, <3>1, QuietFree
  <2>4. CASE Become(h, [pc |-> "consume", request |-> Req(h)])
    BY <1>0, <2>1, <2>2, <2>4, QuietFree
  <2> QED
    BY <1>2, <1>4, <2>1, <2>3, <2>4 DEF DecideAccess
<1>5. CASE GenerationFails(h)
  <2>1. tasks[h].pc = "generate" /\ AfterFailure(h) \in Task
    BY <1>5, AfterType DEF GenerationFails, IsAt
  <2>2. CASE tasks[h].method = "rewarded_ad"
    <3>1. /\ AfterFailure(h).pc = "restore"
          /\ AfterFailure(h).method = tasks[h].method
          /\ AfterFailure(h).request = tasks[h].request
      BY <2>1, <2>2, TaskFields DEF AfterFailure, Task, Idle
    <3> QED
      BY <1>0, <1>5, <2>1, <3>1, QuietMove DEF GenerationFails, Holds
  <2>3. CASE tasks[h].method # "rewarded_ad"
    <3>1. AfterFailure(h) = Idle
      BY <2>3 DEF AfterFailure
    <3> QED
      BY <1>0, <1>5, <2>1, <2>3, <3>1, QuietFree DEF GenerationFails, Idle
  <2> QED
    BY <2>2, <2>3
<1>6. CASE RestoreFails(h) \/ Crash(h)
  <2>1. ~NothingLost
    BY <1>6 DEF RestoreFails, Crash, NothingLost
  <2> QED
    BY <1>2, <1>6, <2>1 DEF RestoreFails, Crash
<1>7. CASE CountFree(h) \/ CountFails(h)
  <2> DEFINE t == [tasks[h] EXCEPT !.pc = "record"]
  <2>1. /\ t \in Task /\ t.pc = "record" /\ Become(h, t)
        /\ tasks[h].pc = "count"
    BY <1>7, TaskFields DEF CountFree, CountFails, IsAt, Task, Idle
  <2> HIDE DEF t
  <2> QED
    BY <1>0, <2>1, QuietFree
<1>8. CASE RecordResult(h) \/ RecordFails(h)
  BY <1>2, <1>8 DEF RecordResult, RecordFails, IsAt
<1> QED
  BY <1>1, <1>3, <1>4, <1>5, <1>6, <1>7, <1>8

\* Consuming is the one step that makes a request hold an unlock.
LEMMA ClaimConsume ==
  ASSUME TypeOK, TasksCarry, NEW h \in Handlers, ConsumeUnlock(h)
  PROVE  ClaimStep
<1>0. PICK e \in Unlocks : e = Req(h).unlock
  BY DEF ConsumeUnlock, IsAt, TasksCarry
<1>1. Req(h) \in RequestType /\ tasks[h].pc = "consume" /\ UNCHANGED created
  BY TaskFields DEF ConsumeUnlock, IsAt, TasksCarry
<1>2. CASE Become(h, Idle) /\ UNCHANGED unlocks
  BY <1>1, <1>2, IdleType, QuietFree DEF Idle, ClaimStep
<1>3. CASE /\ Consumable(Req(h))
           /\ unlocks' = [unlocks EXCEPT ![e].status = "consumed"]
           /\ Become(h, Generating(Req(h), "rewarded_ad"))
  <2> DEFINE t == Generating(Req(h), "rewarded_ad")
  <2>1. t \in Task
    BY <1>1 DEF Generating, Task, Methods
  <2>2. \A d : Holds(t, d) <=> d = e
    BY <1>0 DEF Generating, Holds
  <2>3. \A d : h \notin Holders(d)
    BY <1>1 DEF Holders
  <2>4. \A d : ReadingsOn(d)' = ReadingsOn(d)
    BY <1>1 DEF ReadingsOn
  <2>5. unlocks[e].status = "available" /\ unlocks'[e].status = "consumed"
    BY <1>0, <1>3 DEF Consumable, TypeOK, UnlockRow
  <2>6. \A d \in Unlocks \ {e} : unlocks'[d] = unlocks[d]
    BY <1>3 DEF TypeOK
  <2> HIDE DEF t
  <2>7. \A d : Holders(d)' = {g \in Handlers : IF g = h THEN Holds(t, d)
                                               ELSE g \in Holders(d)}
    BY <1>3, <2>1, HoldersMove DEF t
  <2>8. Holders(e)' = Holders(e) \cup {h}
    BY <2>2, <2>7 DEF Holders
  <2>9. \A d \in Unlocks \ {e} : Holders(d)' = Holders(d)
    BY <2>2, <2>3, <2>7 DEF Holders
  <2>10. Taken(e)
    BY <2>4, <2>5, <2>8 DEF Taken
  <2>11. \A d \in Unlocks \ {e} : Quiet(d)
    BY <2>4, <2>6, <2>9 DEF Quiet
  <2> QED
    BY <2>10, <2>11 DEF ClaimStep
<1> QED
  BY <1>0, <1>1, <1>2, <1>3 DEF ConsumeUnlock

\* A reading persisted for an unlock takes the place of its holder.
LEMMA ClaimGenerate ==
  ASSUME TypeOK, TasksCarry, NEW h \in Handlers, GenerateReading(h)
  PROVE  ClaimStep
<1> DEFINE t == AfterPersist(h)
<1>0. PICK e : e = NewReading(h).unlock
  OBVIOUS
<1>1. /\ IsAt(h, "generate") /\ Persist(h) /\ Become(h, t)
      /\ UNCHANGED unlocks
  BY DEF GenerateReading
<1>2. t \in Task /\ t.pc \in {"count", "record"}
  BY <1>1, AfterType DEF AfterPersist
<1>3. \A d : ~Holds(t, d)
  BY <1>2 DEF Holds
<1>4. \A d \in Unlocks : h \in Holders(d) <=> d = e
  BY <1>0, <1>1, NullsAssumption DEF Holders, NewReading, IsAt, Req
<1> HIDE DEF t
<1>5. \A d : Holders(d)' = Holders(d) \ {h}
  <2>1. \A d : Holders(d)' = {g \in Handlers : IF g = h THEN Holds(t, d)
                                               ELSE g \in Holders(d)}
    BY <1>1, <1>2, HoldersMove
  <2> QED
    BY <1>3, <2>1 DEF Holders
<1>6. /\ DOMAIN created' = DOMAIN created \cup {Len(created) + 1}
      /\ Len(created) + 1 \notin DOMAIN created
      /\ created'[Len(created) + 1].unlock = e
      /\ \A i \in DOMAIN created : created'[i] = created[i]
  BY <1>0, <1>1, PersistType
<1>7. \A d \in Unlocks \ {e} : Quiet(d)
  <2>1. \A d \in Unlocks \ {e} : ReadingsOn(d)' = ReadingsOn(d)
    BY <1>6 DEF ReadingsOn
  <2>2. \A d \in Unlocks \ {e} : Holders(d)' = Holders(d)
    BY <1>4, <1>5
  <2> QED
    BY <1>1, <2>1, <2>2 DEF Quiet
<1>8. CASE e \in Unlocks
  <2>1. ReadingsOn(e)' = ReadingsOn(e) \cup {Len(created) + 1}
    BY <1>6 DEF ReadingsOn
  <2>2. Spent(e)
    BY <1>1, <1>4, <1>5, <1>8, <2>1 DEF Spent
  <2> QED
    BY <1>7, <1>8, <2>2 DEF ClaimStep
<1>9. CASE e \notin Unlocks
  BY <1>7, <1>9 DEF ClaimStep
<1> QED
  BY <1>8, <1>9

\* restoreAdEntitlement gives back what its own request consumed.
LEMMA ClaimRestore ==
  ASSUME TypeOK, TasksCarry, NEW h \in Handlers, RestoreUnlock(h)
  PROVE  ClaimStep
<1>0. PICK e \in Unlocks : e = Req(h).unlock
  BY DEF RestoreUnlock, IsAt, TasksCarry
<1>1. /\ tasks[h].pc = "restore"
      /\ tasks[h].method = "rewarded_ad"
      /\ Become(h, Idle) /\ UNCHANGED created /\ unlocks' = Restored(e)
  BY <1>0 DEF RestoreUnlock, IsAt, TasksCarry
<1>2. \A d : ~Holds(Idle, d)
  BY DEF Holds, Idle
<1>3. \A d : h \in Holders(d) <=> d = e
  BY <1>0, <1>1 DEF Holders
<1>4. \A d : Holders(d)' = Holders(d) \ {h}
  <2>1. \A d : Holders(d)' = {g \in Handlers : IF g = h THEN Holds(Idle, d)
                                               ELSE g \in Holders(d)}
    BY <1>1, IdleType, HoldersMove
  <2> QED
    BY <1>2, <2>1 DEF Holders
<1>5. \A d : ReadingsOn(d)' = ReadingsOn(d)
  BY <1>1 DEF ReadingsOn
<1>6. unlocks'[e].status = IF unlocks[e].status = "consumed" THEN "available"
                           ELSE unlocks[e].status
  BY <1>1 DEF Restored, TypeOK, UnlockRow
<1>7. \A d \in Unlocks \ {e} : unlocks'[d] = unlocks[d]
  BY <1>1 DEF Restored, TypeOK
<1>8. GivenBack(e)
  BY <1>3, <1>4, <1>5, <1>6 DEF GivenBack
<1>9. \A d \in Unlocks \ {e} : Quiet(d)
  BY <1>3, <1>4, <1>5, <1>7 DEF Quiet
<1> QED
  BY <1>8, <1>9 DEF ClaimStep

\* A grant concerns one unlock; its expiry and midnight concern none.
LEMMA ClaimEnvironment ==
  ASSUME TypeOK, Environment
  PROVE  ClaimStep
<1>1. \A d : ReadingsOn(d)' = ReadingsOn(d) /\ Holders(d)' = Holders(d)
  BY DEF Environment, GrantUnlock, ExpireUnlock, Midnight, ReadingsOn, Holders,
         Req, tables
<1>2. ASSUME NEW e \in Unlocks, GrantUnlock(e)
      PROVE  ClaimStep
  <2>1. unlocks[e].status = "none" /\ unlocks'[e].status = "available"
    BY <1>2 DEF GrantUnlock, TypeOK, UnlockRow
  <2>2. \A d \in Unlocks \ {e} : unlocks'[d] = unlocks[d]
    BY <1>2 DEF GrantUnlock, TypeOK
  <2> QED
    BY <1>1, <2>1, <2>2 DEF ClaimStep, Granted, Quiet
<1>3. ASSUME NEW e \in Unlocks, ExpireUnlock(e)
      PROVE  ClaimStep
  <2>1. \A d \in Unlocks : unlocks'[d].status = unlocks[d].status
    BY <1>3 DEF ExpireUnlock, TypeOK, UnlockRow
  <2> QED
    BY <1>1, <2>1 DEF ClaimStep, Quiet
<1>4. CASE Midnight
  BY <1>1, <1>4 DEF Midnight, tables, ClaimStep, Quiet
<1> QED
  BY <1>2, <1>3, <1>4 DEF Environment

\* Every step moves at most one unlock, unless the reply of an insert is lost.
LEMMA ClaimNext ==
  ASSUME TypeOK, TasksCarry, "lost_reply" \notin Faults, [Next]_vars
  PROVE  ClaimStep
<1>1. CASE UNCHANGED vars
  BY <1>1 DEF vars, ClaimStep, Quiet, ReadingsOn, Holders, Req
<1>2. ASSUME NEW h \in Handlers, \A e \in Unlocks : Quiet(e)
      PROVE  ClaimStep
  BY <1>2 DEF ClaimStep
<1> QED
  BY <1>1, <1>2, ClaimQuiet, ClaimConsume, ClaimGenerate, ClaimRestore,
     ClaimEnvironment
     DEF Next, Continue, RejectRequest, PersistReplyLost

\* What a step leaves of the account of one unlock.
LEMMA OneClaimKept ==
  ASSUME NEW e, OneClaim(e),
         Quiet(e) \/ Granted(e) \/ Taken(e) \/ Spent(e) \/ GivenBack(e)
  PROVE  OneClaim(e)'
<1>1. CASE Quiet(e)
  BY <1>1 DEF OneClaim, Quiet
<1>2. CASE Granted(e)
  BY <1>2 DEF OneClaim, Granted
<1>3. CASE Taken(e)
  BY <1>3 DEF OneClaim, Taken
<1>4. CASE Spent(e)
  BY <1>4 DEF OneClaim, Spent
<1>5. CASE GivenBack(e)
  BY <1>5 DEF OneClaim, GivenBack
<1> QED
  BY <1>1, <1>2, <1>3, <1>4, <1>5

\* A consumed unlock is not lost on the way from its holder to its reading.
LEMMA SomeClaimKept ==
  ASSUME NEW e, NothingLost, OneClaim(e), SomeClaim(e),
         Quiet(e) \/ Granted(e) \/ Taken(e) \/ Spent(e) \/ GivenBack(e)
  PROVE  SomeClaim(e)'
<1>1. CASE Quiet(e)
  BY <1>1 DEF SomeClaim, Quiet
<1>2. CASE Granted(e)
  BY <1>2 DEF SomeClaim, Granted
<1>3. CASE Taken(e)
  BY <1>3 DEF SomeClaim, Taken
<1>4. CASE Spent(e)
  BY <1>4 DEF SomeClaim, Spent
<1>5. CASE GivenBack(e)
  BY <1>5 DEF OneClaim, SomeClaim, GivenBack
<1> QED
  BY <1>1, <1>2, <1>3, <1>4, <1>5

\* No unlock is granted, held or spent to begin with.
LEMMA UnlockInvInit == Init => UnlockInv
<1> SUFFICES ASSUME Init, NEW e \in Unlocks
             PROVE  OneClaim(e) /\ SomeClaim(e)
  BY DEF UnlockInv
<1>1. unlocks[e].status = "none"
  BY DEF Init
<1>2. ReadingsOn(e) = {}
  BY DEF Init, ReadingsOn
<1>3. Holders(e) = {}
  BY DEF Init, Holders, Idle
<1> QED
  BY <1>1, <1>2, <1>3 DEF OneClaim, SomeClaim

\* The account of every unlock survives every step.
LEMMA UnlockInvNext ==
  ASSUME IInv, UnlockInv, "lost_reply" \notin Faults, [Next]_vars
  PROVE  UnlockInv'
<1>1. ClaimStep
  BY ClaimNext DEF IInv
<1>2. \A e \in Unlocks :
        Quiet(e) \/ Granted(e) \/ Taken(e) \/ Spent(e) \/ GivenBack(e)
  BY <1>1 DEF ClaimStep
<1> QED
  BY <1>2, OneClaimKept, SomeClaimKept DEF UnlockInv

\* With or without crashes and failed restores, an unlock never has two of a
\* reading, another reading, and a request at work on it.
THEOREM UnlockClaims ==
  ASSUME "lost_reply" \notin Faults
  PROVE  Spec => []UnlockInv
<1>1. IInv /\ UnlockInv /\ [Next]_vars => UnlockInv'
  BY UnlockInvNext
<1> QED
  BY <1>1, UnlockInvInit, Invariance, PTL DEF Spec

\* When the insert's reply, the restore and the process are not lost, the
\* account is exact: a consumed unlock has one reading or one request at work
\* on it, any other unlock has neither.
THEOREM UnlockAccount ==
  ASSUME NothingLost
  PROVE  Spec => []UnlockAccounted
<1>1. UnlockInv => UnlockAccounted
  <2> SUFFICES ASSUME UnlockInv, NEW e \in Unlocks
               PROVE  Cardinality(ReadingsOn(e)) + Cardinality(Holders(e))
                        = IF unlocks[e].status = "consumed" THEN 1 ELSE 0
    BY DEF UnlockAccounted
  <2>1. OneClaim(e) /\ SomeClaim(e)
    BY DEF UnlockInv
  <2>2. ReadingsOn(e) = {} => Cardinality(ReadingsOn(e)) = 0
    BY FS_EmptySet
  <2>3. Holders(e) = {} => Cardinality(Holders(e)) = 0
    BY FS_EmptySet
  <2>4. ASSUME ReadingsOn(e) # {}
        PROVE  Cardinality(ReadingsOn(e)) = 1
    <3>1. PICK i : i \in ReadingsOn(e)
      BY <2>4
    <3>2. ReadingsOn(e) = {i}
      BY <2>1, <3>1 DEF OneClaim
    <3> QED
      BY <3>2, FS_Singleton
  <2>5. ASSUME Holders(e) # {}
        PROVE  Cardinality(Holders(e)) = 1
    <3>1. PICK h : h \in Holders(e)
      BY <2>5
    <3>2. Holders(e) = {h}
      BY <2>1, <3>1 DEF OneClaim
    <3> QED
      BY <3>2, FS_Singleton
  <2> QED
    BY <2>1, <2>2, <2>3, <2>4, <2>5 DEF OneClaim, SomeClaim
<1>2. "lost_reply" \notin Faults
  BY DEF NothingLost
<1> QED
  BY <1>1, <1>2, UnlockClaims, PTL

-----------------------------------------------------------------------------
(***************************************************************************)
(* Readings implements Unlock.                                             *)
(***************************************************************************)
\* A phase is decided by the status and by whether there is a reading.
LEMMA PhaseIs ==
  ASSUME TypeOK, NEW e \in Unlocks
  PROVE  /\ unlocks[e].status \in {"none", "available", "consumed"}
         /\ unlocks[e].status = "none" => Phase(e) = "none"
         /\ unlocks[e].status = "available" => Phase(e) = "available"
         /\ unlocks[e].status = "consumed" =>
              Phase(e) = IF ReadingsOn(e) # {} THEN "spent" ELSE "held"
BY DEF TypeOK, UnlockRow, Phase

\* Each change of an unlock's account is a step of its phase.
LEMMA PhaseStep ==
  ASSUME TypeOK, TypeOK', NEW e \in Unlocks, OneClaim(e)
  PROVE  /\ Quiet(e) => Phase(e)' = Phase(e)
         /\ Granted(e) => Phase(e) = "none" /\ Phase(e)' = "available"
         /\ Taken(e) => Phase(e) = "available" /\ Phase(e)' = "held"
         /\ Spent(e) => Phase(e) = "held" /\ Phase(e)' = "spent"
         /\ GivenBack(e) => Phase(e) = "held" /\ Phase(e)' = "available"
<1>1. /\ unlocks[e].status \in {"none", "available", "consumed"}
      /\ unlocks[e].status = "none" => Phase(e) = "none"
      /\ unlocks[e].status = "available" => Phase(e) = "available"
      /\ unlocks[e].status = "consumed" =>
           Phase(e) = IF ReadingsOn(e) # {} THEN "spent" ELSE "held"
  BY PhaseIs
<1>2. /\ unlocks'[e].status \in {"none", "available", "consumed"}
      /\ unlocks'[e].status = "none" => Phase(e)' = "none"
      /\ unlocks'[e].status = "available" => Phase(e)' = "available"
      /\ unlocks'[e].status = "consumed" =>
           Phase(e)' = IF ReadingsOn(e)' # {} THEN "spent" ELSE "held"
  BY DEF TypeOK, UnlockRow, Phase
<1>3. Quiet(e) => Phase(e)' = Phase(e)
  BY <1>1, <1>2 DEF Quiet
<1>4. Granted(e) => Phase(e) = "none" /\ Phase(e)' = "available"
  BY <1>1, <1>2 DEF Granted
<1>5. Taken(e) => Phase(e) = "available" /\ Phase(e)' = "held"
  BY <1>1, <1>2 DEF Taken, OneClaim
<1>6. Spent(e) => Phase(e) = "held" /\ Phase(e)' = "spent"
  BY <1>1, <1>2 DEF Spent, OneClaim
<1>7. GivenBack(e) => Phase(e) = "held" /\ Phase(e)' = "available"
  BY <1>1, <1>2 DEF GivenBack, OneClaim
<1> QED
  BY <1>3, <1>4, <1>5, <1>6, <1>7

\* The mapped phases, as a function.
LEMMA PhaseMoves ==
  ASSUME NEW e \in Unlocks, NEW from, NEW to,
         Phase(e) = from, Phase(e)' = to,
         \A d \in Unlocks \ {e} : Phase(d)' = Phase(d)
  PROVE  Promise!Move(e, from, to)
<1>1. [d \in Unlocks |-> Phase(d)]' = [d \in Unlocks |-> Phase(d)']
  OBVIOUS
<1>2. [d \in Unlocks |-> Phase(d)']
        = [[d \in Unlocks |-> Phase(d)] EXCEPT ![e] = to]
  OBVIOUS
<1> QED
  BY <1>1, <1>2 DEF Promise!Move

\* Initially, and at every step, the pipeline does what Unlock allows.
LEMMA PromiseInit ==
  ASSUME Init
  PROVE  Promise!Init
<1>1. \A e \in Unlocks : Phase(e) = "none"
  BY DEF Init, Phase
<1> QED
  BY <1>1 DEF Promise!Init

\* Every step of the pipeline is one of Unlock, or changes no phase.
LEMMA PromiseNext ==
  ASSUME IInv, IInv', UnlockInv, "lost_reply" \notin Faults, [Next]_vars
  PROVE  [Promise!Next]_([e \in Unlocks |-> Phase(e)])
<1>1. ClaimStep /\ TypeOK /\ TypeOK'
  BY ClaimNext DEF IInv
<1>2. ASSUME NEW e \in Unlocks PROVE OneClaim(e)
  BY DEF UnlockInv
<1>3. \A e \in Unlocks : Quiet(e) => Phase(e)' = Phase(e)
  BY <1>1, <1>2, PhaseStep
<1>4. CASE \A e \in Unlocks : Quiet(e)
  <2>1. \A e \in Unlocks : Phase(e)' = Phase(e)
    BY <1>3, <1>4
  <2>2. [e \in Unlocks |-> Phase(e)'] = [e \in Unlocks |-> Phase(e)]
    BY <2>1
  <2>3. [e \in Unlocks |-> Phase(e)]' = [e \in Unlocks |-> Phase(e)']
    OBVIOUS
  <2> QED
    BY <2>2, <2>3
<1>5. ASSUME NEW e \in Unlocks,
             Granted(e) \/ Taken(e) \/ Spent(e) \/ GivenBack(e),
             \A d \in Unlocks \ {e} : Quiet(d)
      PROVE  Promise!Next
  <2>1. \A d \in Unlocks \ {e} : Phase(d)' = Phase(d)
    BY <1>3, <1>5
  <2>2. \/ Promise!Move(e, "none", "available")
        \/ Promise!Move(e, "available", "held")
        \/ Promise!Move(e, "held", "spent")
        \/ Promise!Move(e, "held", "available")
    BY <1>1, <1>2, <1>5, <2>1, PhaseStep, PhaseMoves
  <2> QED
    BY <2>2 DEF Promise!Next, Promise!Grant, Promise!Take, Promise!Spend,
                Promise!GiveBack
<1> QED
  BY <1>1, <1>4, <1>5 DEF ClaimStep

\* Whatever double submits, failures, crashes and failed restores happen: a
\* spent unlock never comes back and a held one is not taken by a second
\* request.  (That a held one is settled is liveness, and TLC's.)
THEOREM ImplementsPromise ==
  ASSUME "lost_reply" \notin Faults
  PROVE  Spec => Promise!Spec
<1>1. IInv /\ IInv' /\ UnlockInv /\ [Next]_vars
        => [Promise!Next]_([e \in Unlocks |-> Phase(e)])
  BY PromiseNext
<1>2. Init => Promise!Init
  BY PromiseInit
<1> QED
  BY <1>1, <1>2, Invariance, UnlockClaims, PTL DEF Spec, Promise!Spec
-----------------------------------------------------------------------------
(***************************************************************************)
(* The free-daily counters and the readings they count.  The counters of a *)
(* fortune add up, day by day, to a sum that the free readings cover, also *)
(* when those that are about to be counted have been.                      *)
(***************************************************************************)
Covered(u, f) ==
  \E s \in [Days -> Nat] :
    /\ AddsUp(u, f, s)
    /\ s[MaxDay] + Cardinality(Delivered(u, f))
         <= Cardinality(FreeReadings(u, f))

Covering == \A u \in Users, f \in Fortunes : Covered(u, f)

\* What a running sum says of its steps.
LEMMA SumSteps ==
  ASSUME NEW u, NEW f, NEW s, AddsUp(u, f, s)
  PROVE  /\ s[0] = usage[u][f][0] + 0
         /\ \A d \in Days : d # 0 => s[d] = usage[u][f][d] + s[d - 1]
<1>1. 0 \in Days
  BY BoundsAssumption DEF Days
<1>2. \A d \in Days :
        s[d] = usage[u][f][d] + (IF d = 0 THEN 0 ELSE s[d - 1])
  BY DEF AddsUp
<1> QED
  BY <1>1, <1>2

\* The order of the naturals, as a relation.
Less == {ss \in Nat \X Nat : ss[1] < ss[2]}

\* A set that holds 0, and n + 1 with every n, holds every natural.
LEMMA SetInduction ==
  ASSUME NEW S, 0 \in S, \A n \in Nat : n \in S => n + 1 \in S
  PROVE  Nat \subseteq S
<1> SUFFICES ASSUME Nat \ S # {} PROVE FALSE
  OBVIOUS
<1>1. IsWellFoundedOn(Less, Nat)
  BY NatLessThanWellFounded DEF OpToRel, Less
<1>2. PICK x \in Nat \ S : \A y \in Nat \ S : ~(<<y, x>> \in Less)
  BY <1>1, WFMin
<1>3. x # 0 /\ x - 1 \in Nat
  OBVIOUS
<1>4. <<x - 1, x>> \in Nat \X Nat /\ <<x - 1, x>>[1] = x - 1 /\ <<x - 1, x>>[2] = x
  BY <1>3
<1>5. <<x - 1, x>> \in Less
  BY <1>3, <1>4 DEF Less
<1>6. x - 1 \in S
  BY <1>2, <1>3, <1>5
<1>7. x - 1 + 1 \in S
  BY <1>3, <1>6
<1> QED
  BY <1>3, <1>7

\* The counters have one running sum.
LEMMA SumUnique ==
  ASSUME NEW u, NEW f, NEW s, NEW r, AddsUp(u, f, s), AddsUp(u, f, r)
  PROVE  s = r
<1> DEFINE Agree == {d \in Nat : d <= MaxDay => s[d] = r[d]}
<1>1. 0 \in Agree
  BY SumSteps
<1>2. ASSUME NEW d \in Nat, d \in Agree PROVE d + 1 \in Agree
  <2> SUFFICES ASSUME d + 1 <= MaxDay PROVE s[d + 1] = r[d + 1]
    OBVIOUS
  <2>1. d + 1 \in Days /\ d + 1 # 0 /\ (d + 1) - 1 = d
    BY BoundsAssumption DEF Days
  <2>2. s[d] = r[d]
    BY <1>2, BoundsAssumption
  <2>3. \A g : AddsUp(u, f, g) =>
          g[d + 1] = usage[u][f][d + 1] + g[(d + 1) - 1]
    BY <2>1, SumSteps
  <2> QED
    BY <2>1, <2>2, <2>3
<1> HIDE DEF Agree
<1>3. Nat \subseteq Agree
  BY <1>1, <1>2, SetInduction
<1>4. \A d \in Days : s[d] = r[d]
  BY <1>3 DEF Agree, Days
<1>5. \A g : AddsUp(u, f, g) => g = [d \in Days |-> g[d]]
  BY DEF AddsUp
<1>6. [d \in Days |-> s[d]] = [d \in Days |-> r[d]]
  BY <1>4
<1> QED
  BY <1>5, <1>6

\* One more on the day's counter is one more in the sum.
LEMMA SumCounts ==
  ASSUME TypeOK, NEW u \in Users, NEW f \in Fortunes,
         NEW s \in [Days -> Nat], AddsUp(u, f, s),
         \A d \in Days : usage'[u][f][d] =
           IF d = day THEN usage[u][f][d] + 1 ELSE usage[u][f][d]
  PROVE  \E r \in [Days -> Nat] : AddsUp(u, f, r)' /\ r[MaxDay] = s[MaxDay] + 1
<1> DEFINE r == [d \in Days |-> IF d >= day THEN s[d] + 1 ELSE s[d]]
<1>1. /\ day \in Days /\ MaxDay \in Days /\ 0 \in Days
      /\ \A d \in Days : d \in Nat /\ d <= MaxDay /\ usage[u][f][d] \in Nat
      /\ r \in [Days -> Nat]
  BY BoundsAssumption DEF TypeOK, Days
<1>2. /\ s[0] = usage[u][f][0] + 0
      /\ \A d \in Days : d # 0 => s[d] = usage[u][f][d] + s[d - 1]
  BY SumSteps
<1>3. ASSUME NEW d \in Days
      PROVE  r[d] = usage'[u][f][d] + (IF d = 0 THEN 0 ELSE r[d - 1])
  <2>1. CASE d = 0
    BY <1>1, <1>2, <2>1 DEF Days
  <2>2. CASE d # 0
    <3>1. d - 1 \in Days /\ s[d - 1] \in Nat /\ s[d] \in Nat
      BY SMTT(30), <1>1, <2>2 DEF Days
    <3>2. r[d - 1] = IF d - 1 >= day THEN s[d - 1] + 1 ELSE s[d - 1]
      BY <3>1
    <3>3. r[d] = IF d >= day THEN s[d] + 1 ELSE s[d]
      OBVIOUS
    <3>4. s[d] = usage[u][f][d] + s[d - 1]
      BY <1>2, <2>2
    <3>5. day \in Nat /\ d \in Nat /\ usage[u][f][d] \in Nat
      BY <1>1
    <3> HIDE DEF r
    <3>6. CASE d = day
      BY <2>2, <3>1, <3>2, <3>3, <3>4, <3>5, <3>6
    <3>7. CASE d > day
      BY <2>2, <3>1, <3>2, <3>3, <3>4, <3>5, <3>7
    <3>8. CASE d < day
      BY <2>2, <3>1, <3>2, <3>3, <3>4, <3>5, <3>8
    <3> QED
      BY <3>5, <3>6, <3>7, <3>8
  <2> QED
    BY <2>1, <2>2
<1>4. r = [d \in Days |->
             usage'[u][f][d] + (IF d = 0 THEN 0 ELSE r[d - 1])]
  BY <1>3
<1>5. r[MaxDay] = s[MaxDay] + 1
  BY <1>1
<1> HIDE DEF r
<1> QED
  BY <1>1, <1>4, <1>5 DEF AddsUp

\* The sets that are counted are finite.
LEMMA CountsFinite ==
  ASSUME TypeOK, NEW u, NEW f
  PROVE  /\ IsFiniteSet(Delivered(u, f))
         /\ Cardinality(Delivered(u, f)) \in Nat
         /\ IsFiniteSet(FreeReadings(u, f))
         /\ Cardinality(FreeReadings(u, f)) \in Nat
<1>1. Delivered(u, f) \subseteq Handlers
  BY DEF Delivered
<1>2. IsFiniteSet(DOMAIN created)
  BY LenProperties, FS_Interval DEF TypeOK
<1>3. FreeReadings(u, f) \subseteq DOMAIN created
  BY DEF FreeReadings
<1> QED
  BY <1>1, <1>2, <1>3, BoundsAssumption, FS_Subset, FS_CardinalityType

\* A step that delivers nothing new to count: readings may be added.
LEMMA CoveredQuiet ==
  ASSUME TypeOK, TypeOK', Covering, UNCHANGED usage,
         \A u \in Users, f \in Fortunes :
           /\ Delivered(u, f)' \subseteq Delivered(u, f)
           /\ FreeReadings(u, f) \subseteq FreeReadings(u, f)'
  PROVE  Covering'
<1> SUFFICES ASSUME NEW u \in Users, NEW f \in Fortunes
             PROVE  Covered(u, f)'
  BY DEF Covering
<1>1. PICK s \in [Days -> Nat] :
        /\ AddsUp(u, f, s)
        /\ s[MaxDay] + Cardinality(Delivered(u, f))
             <= Cardinality(FreeReadings(u, f))
  BY DEF Covering, Covered
<1>2. /\ Cardinality(Delivered(u, f))' <= Cardinality(Delivered(u, f))
      /\ Cardinality(Delivered(u, f))' \in Nat
  BY CountsFinite, FS_Subset, FS_CardinalityType
<1>3. /\ Cardinality(FreeReadings(u, f)) <= Cardinality(FreeReadings(u, f))'
      /\ Cardinality(FreeReadings(u, f))' \in Nat
  <2>1. IsFiniteSet(FreeReadings(u, f))'
    <3>1. IsFiniteSet(DOMAIN created')
      BY LenProperties, FS_Interval DEF TypeOK
    <3>2. FreeReadings(u, f)' \subseteq DOMAIN created'
      BY DEF FreeReadings
    <3> QED
      BY <3>1, <3>2, FS_Subset
  <2> QED
    BY <2>1, FS_Subset, FS_CardinalityType
<1>4. s[MaxDay] \in Nat
  BY BoundsAssumption DEF Days
<1>5. s[MaxDay] + Cardinality(Delivered(u, f))'
        <= Cardinality(FreeReadings(u, f))'
  BY <1>1, <1>2, <1>3, <1>4, CountsFinite
<1>6. AddsUp(u, f, s)'
  BY <1>1 DEF AddsUp
<1> QED
  BY <1>5, <1>6 DEF Covered

\* A task that moves without a reading to count.
LEMMA CoveredMove ==
  ASSUME TypeOK, TypeOK', Covering, UNCHANGED usage,
         NEW h \in Handlers, NEW t \in Task, Become(h, t),
         t.pc # "count",
         UNCHANGED created \/ (IsAt(h, "generate") /\ Persist(h))
  PROVE  Covering'
<1>1. \A u \in Users, f \in Fortunes :
        Delivered(u, f)' \subseteq Delivered(u, f)
  BY ZenonT(60), BecomeType DEF Delivered, Req, TypeOK
<1>2. \A u \in Users, f \in Fortunes :
        FreeReadings(u, f) \subseteq FreeReadings(u, f)'
  BY PersistType DEF FreeReadings
<1> QED
  BY <1>1, <1>2, CoveredQuiet

\* A free reading is persisted and is yet to be counted.
LEMMA CoveredPersist ==
  ASSUME TypeOK, TypeOK', Covering, NEW h \in Handlers, GenerateReading(h),
         tasks[h].method = "free_daily"
  PROVE  Covering'
<1> SUFFICES ASSUME NEW u \in Users, NEW f \in Fortunes
             PROVE  Covered(u, f)'
  BY DEF Covering
<1> DEFINE n == Len(created) + 1
<1>0. IsAt(h, "generate") /\ Persist(h) /\ UNCHANGED usage
  BY DEF GenerateReading
<1>1. /\ DOMAIN created' = DOMAIN created \cup {n} /\ n \notin DOMAIN created
      /\ created'[n] = NewReading(h)
      /\ \A i \in DOMAIN created : created'[i] = created[i]
  BY <1>0, PersistType
<1>2. /\ NewReading(h).user = Req(h).user
      /\ NewReading(h).fortune = Req(h).fortune
      /\ NewReading(h).method = "free_daily"
  BY DEF NewReading
<1>3. /\ tasks'[h] = AfterPersist(h)
      /\ \A g \in Handlers \ {h} : tasks'[g] = tasks[g]
  BY <1>0, AfterType, BecomeType DEF GenerateReading, TypeOK
<1>4. AfterPersist(h).pc = "count" /\ AfterPersist(h).request = Req(h)
      /\ AfterPersist(h).method = "free_daily"
  BY DEF AfterPersist
<1>5. CASE Req(h).user = u /\ Req(h).fortune = f
  <2>1. FreeReadings(u, f)' = FreeReadings(u, f) \cup {n}
    BY <1>1, <1>2, <1>5 DEF FreeReadings
  <2>2. n \notin FreeReadings(u, f)
    BY <1>1 DEF FreeReadings
  <2>3. Cardinality(FreeReadings(u, f))' = Cardinality(FreeReadings(u, f)) + 1
    BY <2>1, <2>2, CountsFinite, FS_AddElement
  <2>4. Delivered(u, f)' = Delivered(u, f) \cup {h}
    BY <1>0, <1>3, <1>4, <1>5 DEF Delivered, Req, IsAt
  <2>5. h \notin Delivered(u, f)
    BY <1>0 DEF Delivered, IsAt
  <2>6. Cardinality(Delivered(u, f))' = Cardinality(Delivered(u, f)) + 1
    BY <2>4, <2>5, CountsFinite, FS_AddElement
  <2>7. PICK s \in [Days -> Nat] :
          /\ AddsUp(u, f, s)
          /\ s[MaxDay] + Cardinality(Delivered(u, f))
               <= Cardinality(FreeReadings(u, f))
    BY DEF Covering, Covered
  <2>8. s[MaxDay] \in Nat
    BY BoundsAssumption DEF Days
  <2>9. s[MaxDay] + Cardinality(Delivered(u, f))'
          <= Cardinality(FreeReadings(u, f))'
    BY <2>3, <2>6, <2>7, <2>8, CountsFinite
  <2>10. AddsUp(u, f, s)'
    BY <1>0, <2>7 DEF AddsUp
  <2> QED
    BY <2>9, <2>10 DEF Covered
<1>6. CASE ~(Req(h).user = u /\ Req(h).fortune = f)
  <2>1. FreeReadings(u, f)' = FreeReadings(u, f)
    BY <1>1, <1>2, <1>6 DEF FreeReadings
  <2>2. Delivered(u, f)' = Delivered(u, f)
    BY <1>0, <1>3, <1>4, <1>6 DEF Delivered, Req, IsAt
  <2>3. PICK s \in [Days -> Nat] :
          /\ AddsUp(u, f, s)
          /\ s[MaxDay] + Cardinality(Delivered(u, f))
               <= Cardinality(FreeReadings(u, f))
    BY DEF Covering, Covered
  <2>4. AddsUp(u, f, s)'
    BY <1>0, <2>3 DEF AddsUp
  <2> QED
    BY <2>1, <2>2, <2>3, <2>4 DEF Covered
<1> QED
  BY <1>5, <1>6

\* Counting moves one reading from those about to be counted to the counter.
LEMMA CoveredCount ==
  ASSUME TypeOK, TypeOK', Covering, NEW h \in Handlers, CountFree(h),
         tasks[h].method = "free_daily"
  PROVE  Covering'
<1> SUFFICES ASSUME NEW u \in Users, NEW f \in Fortunes
             PROVE  Covered(u, f)'
  BY DEF Covering
<1> DEFINE t == [tasks[h] EXCEPT !.pc = "record"]
<1>0. IsAt(h, "count") /\ UNCHANGED created
  BY DEF CountFree
<1>1. Req(h) \in RequestType /\ t \in Task /\ t.pc = "record" /\ Become(h, t)
  BY TaskFields DEF CountFree, IsAt, Task, Idle
<1> HIDE DEF t
<1>2. tasks'[h] = t /\ \A g \in Handlers \ {h} : tasks'[g] = tasks[g]
  BY <1>1, BecomeType DEF TypeOK
<1>3. FreeReadings(u, f)' = FreeReadings(u, f)
  BY <1>0 DEF FreeReadings
<1>4. PICK s \in [Days -> Nat] :
        /\ AddsUp(u, f, s)
        /\ s[MaxDay] + Cardinality(Delivered(u, f))
             <= Cardinality(FreeReadings(u, f))
  BY DEF Covering, Covered
<1>5. s[MaxDay] \in Nat
  BY BoundsAssumption DEF Days
<1>6. CASE Req(h).user = u /\ Req(h).fortune = f
  <2>1. h \in Delivered(u, f)
    BY <1>0, <1>6 DEF Delivered, IsAt
  <2>2. Delivered(u, f)' = Delivered(u, f) \ {h}
    BY <1>1, <1>2 DEF Delivered, Req
  <2>3. Cardinality(Delivered(u, f))' = Cardinality(Delivered(u, f)) - 1
    BY <2>1, <2>2, CountsFinite, FS_RemoveElement
  <2>4. \A d \in Days : usage'[u][f][d] =
          IF d = day THEN usage[u][f][d] + 1 ELSE usage[u][f][d]
    BY <1>6 DEF CountFree, TypeOK
  <2>5. PICK r \in [Days -> Nat] : AddsUp(u, f, r)' /\ r[MaxDay] = s[MaxDay] + 1
    BY <1>4, <2>4, SumCounts
  <2>6. r[MaxDay] + Cardinality(Delivered(u, f))'
          <= Cardinality(FreeReadings(u, f))'
    BY <1>3, <1>4, <1>5, <2>3, <2>5, CountsFinite
  <2> QED
    BY <2>5, <2>6 DEF Covered
<1>7. CASE ~(Req(h).user = u /\ Req(h).fortune = f)
  <2>1. usage'[u][f] = usage[u][f]
    BY <1>1, <1>7 DEF CountFree, TypeOK, RequestType
  <2>2. Delivered(u, f)' = Delivered(u, f)
    BY <1>1, <1>2, <1>7 DEF Delivered, Req
  <2>3. AddsUp(u, f, s)'
    BY <1>4, <2>1 DEF AddsUp
  <2> QED
    BY <1>3, <1>4, <2>2, <2>3 DEF Covered
<1> QED
  BY <1>6, <1>7
\* Every step keeps the counters covered.
LEMMA CoveringNext ==
  ASSUME TypeOK, TypeOK', TasksCarry, Covering, [Next]_vars
  PROVE  Covering'
<1>1. CASE UNCHANGED <<usage, created, tasks>>
  BY <1>1, CoveredQuiet DEF Delivered, FreeReadings, Req
<1>2. ASSUME NEW h \in Handlers, Become(h, Idle), UNCHANGED <<usage, created>>
      PROVE  Covering'
  BY <1>2, IdleType, CoveredMove DEF Idle
<1>3. ASSUME NEW h \in Handlers, NEW r \in Requests, Submit(h, r)
      PROVE  Covering'
  <2> DEFINE t == [pc |-> IF r.key = NoKey THEN "access" ELSE "check",
                   request |-> r]
  <2>1. t \in Task /\ t.pc # "count" /\ Become(h, t)
    BY <1>3, RequestsAssumption DEF Task, Submit
  <2> HIDE DEF t
  <2> QED
    BY <1>3, <2>1, CoveredMove DEF Submit, tables
<1>4. ASSUME NEW h \in Handlers, CheckReplay(h)
      PROVE  Covering'
  <2>1. [pc |-> "access", request |-> Req(h)] \in Task
    BY <1>4, TaskFields DEF CheckReplay, IsAt, Task
  <2>2. CASE Become(h, [pc |-> "access", request |-> Req(h)])
    BY <1>4, <2>1, <2>2, CoveredMove DEF CheckReplay, tables
  <2> QED
    BY <1>2, <1>4, <2>2 DEF CheckReplay, tables
<1>5. ASSUME NEW h \in Handlers, DecideAccess(h)
      PROVE  Covering'
  <2>1. Req(h) \in RequestType /\ UNCHANGED <<usage, created>>
    BY <1>5, TaskFields DEF DecideAccess, IsAt, tables
  <2>2. ASSUME NEW method \in Methods, Become(h, Generating(Req(h), method))
        PROVE  Covering'
    <3>1. /\ Generating(Req(h), method) \in Task
          /\ Generating(Req(h), method).pc = "generate"
      BY <2>1 DEF Generating, Task
    <3> QED
      BY <2>1, <2>2, <3>1, CoveredMove
  <2>3. CASE Become(h, [pc |-> "consume", request |-> Req(h)])
    <3>1. [pc |-> "consume", request |-> Req(h)] \in Task
      BY <2>1 DEF Task
    <3> QED
      BY <2>1, <2>3, <3>1, CoveredMove
  <2> QED
    BY <1>2, <1>5, <2>1, <2>2, <2>3 DEF DecideAccess, Methods
<1>6. ASSUME NEW h \in Handlers, ConsumeUnlock(h)
      PROVE  Covering'
  <2>1. Req(h) \in RequestType /\ UNCHANGED <<usage, created>>
    BY <1>6, TaskFields DEF ConsumeUnlock, IsAt
  <2>2. /\ Generating(Req(h), "rewarded_ad") \in Task
        /\ Generating(Req(h), "rewarded_ad").pc = "generate"
    BY <2>1 DEF Generating, Task, Methods
  <2>3. CASE Become(h, Generating(Req(h), "rewarded_ad"))
    BY <2>1, <2>2, <2>3, CoveredMove
  <2> QED
    BY <1>2, <1>6, <2>1, <2>3 DEF ConsumeUnlock
<1>7. ASSUME NEW h \in Handlers, GenerateReading(h)
      PROVE  Covering'
  <2>1. CASE tasks[h].method = "free_daily"
    BY <1>7, <2>1, CoveredPersist
  <2>2. CASE tasks[h].method # "free_daily"
    <3>1. AfterPersist(h) \in Task /\ AfterPersist(h).pc # "count"
      BY <1>7, <2>2, AfterType DEF GenerateReading, AfterPersist
    <3> QED
      BY <1>7, <3>1, CoveredMove DEF GenerateReading
  <2> QED
    BY <2>1, <2>2
<1>8. ASSUME NEW h \in Handlers, GenerationFails(h) \/ PersistReplyLost(h)
      PROVE  Covering'
  <2>1. /\ IsAt(h, "generate") /\ UNCHANGED usage
        /\ Become(h, AfterFailure(h))
        /\ UNCHANGED created \/ Persist(h)
    BY <1>8 DEF GenerationFails, PersistReplyLost, tables
  <2>2. AfterFailure(h) \in Task
    BY <2>1, AfterType
  <2>3. AfterFailure(h).pc \in {"idle", "restore"}
    BY <2>1, TaskFields DEF AfterFailure, Idle, Task, IsAt
  <2> QED
    BY <2>1, <2>2, <2>3, CoveredMove
<1>9. ASSUME NEW h \in Handlers, CountFails(h)
      PROVE  Covering'
  <2> DEFINE t == [tasks[h] EXCEPT !.pc = "record"]
  <2>1. /\ t \in Task /\ t.pc = "record" /\ Become(h, t)
        /\ UNCHANGED <<usage, created>>
    BY <1>9, TaskFields DEF CountFails, IsAt, Task, Idle, tables
  <2> HIDE DEF t
  <2> QED
    BY <2>1, CoveredMove
<1>10. ASSUME NEW h \in Handlers, CountFree(h)
       PROVE  Covering'
  BY <1>10, CoveredCount DEF CountFree, IsAt, TasksCarry
<1> QED
  BY <1>1, <1>2, <1>3, <1>4, <1>5, <1>6, <1>7, <1>8, <1>9, <1>10
     DEF Next, Continue, Environment, RejectRequest, RestoreUnlock,
         RestoreFails, RecordResult, RecordFails, GrantUnlock, ExpireUnlock,
         Midnight, Crash, vars, tables

\* Before the first request nothing is counted.
LEMMA CoveringInit == Init => Covering
<1> SUFFICES ASSUME Init, NEW u \in Users, NEW f \in Fortunes
             PROVE  Covered(u, f)
  BY DEF Covering
<1> DEFINE s == [d \in Days |-> 0]
<1>1. s \in [Days -> Nat] /\ s[MaxDay] = 0
  BY BoundsAssumption DEF Days
<1>2. AddsUp(u, f, s)
  <2>1. ASSUME NEW d \in Days
        PROVE  0 = usage[u][f][d] + (IF d = 0 THEN 0 ELSE s[d - 1])
    <3>1. d = 0 \/ d - 1 \in Days
      BY BoundsAssumption DEF Days
    <3>2. usage[u][f][d] = 0
      BY DEF Init
    <3> QED
      BY <3>1, <3>2
  <2> QED
    BY <2>1 DEF AddsUp
<1>3. Delivered(u, f) = {}
  BY DEF Init, Delivered, Idle
<1>4. Cardinality(FreeReadings(u, f)) \in Nat
  BY TypeInit, CountsFinite
<1>5. Cardinality(Delivered(u, f)) = 0
  BY <1>3, FS_EmptySet
<1> HIDE DEF s
<1>6. s[MaxDay] + Cardinality(Delivered(u, f)) <= Cardinality(FreeReadings(u, f))
  BY <1>1, <1>4, <1>5
<1> QED
  BY <1>1, <1>2, <1>6 DEF Covered

\* The daily counters never count more than the free readings delivered,
\* whatever fails and however requests and midnights fall.
THEOREM CountedWereDelivered == Spec => []CountedAfterSuccess
<1>1. IInv /\ Covering /\ [Next]_vars => Covering'
  BY IInvNext, CoveringNext DEF IInv
<1>2. IInv /\ Covering => CountedAfterSuccess
  <2> SUFFICES ASSUME IInv, Covering, NEW u \in Users, NEW f \in Fortunes
               PROVE  Counted(u, f) <= Cardinality(FreeReadings(u, f))
    BY DEF CountedAfterSuccess
  <2> DEFINE sum == CHOOSE g : AddsUp(u, f, g)
  <2>1. PICK s \in [Days -> Nat] :
          /\ AddsUp(u, f, s)
          /\ s[MaxDay] + Cardinality(Delivered(u, f))
               <= Cardinality(FreeReadings(u, f))
    BY DEF Covering, Covered
  <2>2. AddsUp(u, f, sum)
    BY <2>1
  <2>3. sum = s
    BY <2>1, <2>2, SumUnique
  <2>4. Counted(u, f) = sum[MaxDay]
    BY DEF Counted, AddsUp
  <2>5. s[MaxDay] \in Nat
    BY BoundsAssumption DEF Days
  <2>6. /\ Cardinality(Delivered(u, f)) \in Nat
        /\ Cardinality(FreeReadings(u, f)) \in Nat
    BY CountsFinite DEF IInv
  <2>7. Counted(u, f) = s[MaxDay]
    BY <2>3, <2>4
  <2> HIDE DEF sum
  <2> QED
    BY <2>1, <2>5, <2>6, <2>7
<1> QED
  BY <1>1, <1>2, CoveringInit, Invariance, PTL DEF Spec
=============================================================================
