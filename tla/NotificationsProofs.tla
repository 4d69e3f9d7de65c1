------------------------ MODULE NotificationsProofs ------------------------
(***************************************************************************)
(* Theorems about Notifications, for every value of its constants.         *)
(***************************************************************************)
EXTENDS Notifications, WellFoundedInduction, SequenceTheorems, FiniteSetTheorems,
        TLAPS

-----------------------------------------------------------------------------
(***************************************************************************)
(* The plan, the page and the preferences.                                 *)
(***************************************************************************)
\* What is clamped lies between the bounds.
LEMMA Clamped ==
  ASSUME NEW value \in Int, NEW low \in Int, NEW high \in Int, low <= high
  PROVE  Clamp(value, low, high) \in low .. high
BY DEF Clamp

\* The values a request brings make a row of preferences.
LEMMA StoredIsRow ==
  ASSUME NEW patch \in PrefsType, NEW at \in Nat
  PROVE  /\ Stored(patch, at) \in StoredType
         /\ Stored(patch, at).dailyCap = Clamp(patch.dailyCap, 0, 5)
<1>1. /\ Clamp(patch.quietFromHour, 0, HoursPerDay - 1) \in 0 .. (HoursPerDay - 1)
      /\ Clamp(patch.quietToHour, 0, HoursPerDay - 1) \in 0 .. (HoursPerDay - 1)
      /\ Clamp(patch.dailyCap, 0, 5) \in 0 .. 5
  <2>1. /\ 0 \in Int /\ HoursPerDay - 1 \in Int /\ 0 <= HoursPerDay - 1
        /\ 5 \in Int /\ 0 <= 5
    BY ClockAssumption
  <2>2. /\ patch.quietFromHour \in Int /\ patch.quietToHour \in Int
        /\ patch.dailyCap \in Int
    BY DEF PrefsType
  <2> QED
    BY <2>1, <2>2, Clamped
<1>2. (IF patch.muteHours > 0 THEN at + patch.muteHours ELSE Never)
        \in Nat \cup {Never}
  BY DEF PrefsType
<1> QED
  BY <1>1, <1>2 DEF Stored, StoredType, PrefsType

\* A row that takes some columns of another is a row of preferences.
LEMMA PatchedIsRow ==
  ASSUME NEW row \in StoredType, NEW patch \in PatchType, NEW at \in Nat
  PROVE  /\ Patched(row, patch, at) \in StoredType
         /\ Patched(row, patch, at).dailyCap =
              IF "dailyCap" \in patch.mentions
              THEN Clamp(patch.values.dailyCap, 0, 5) ELSE row.dailyCap
<1> DEFINE stored == Stored(patch.values, at)
           new == Patched(row, patch, at)
<1>1. patch.values \in PrefsType
  BY DEF PatchType
<1>2. stored \in StoredType /\ stored.dailyCap = Clamp(patch.values.dailyCap, 0, 5)
  BY <1>1, StoredIsRow
<1>3. new = [column \in Columns |->
               IF column \in patch.mentions THEN stored[column] ELSE row[column]]
  BY DEF Patched
<1> HIDE DEF stored, new
<1>4. new = [dailyFortune |-> new.dailyFortune,
             streakReminder |-> new.streakReminder,
             weeklySummary |-> new.weeklySummary,
             quietFromHour |-> new.quietFromHour,
             quietToHour |-> new.quietToHour, dailyCap |-> new.dailyCap,
             zone |-> new.zone, mutedUntil |-> new.mutedUntil]
  BY <1>3 DEF Columns
<1>5. /\ new.dailyFortune \in BOOLEAN /\ new.streakReminder \in BOOLEAN
      /\ new.weeklySummary \in BOOLEAN
      /\ new.quietFromHour \in 0 .. (HoursPerDay - 1)
      /\ new.quietToHour \in 0 .. (HoursPerDay - 1)
      /\ new.dailyCap \in 0 .. 5 /\ new.zone \in -MaxZone .. MaxZone
      /\ new.mutedUntil \in Nat \cup {Never}
      /\ new.dailyCap = IF "dailyCap" \in patch.mentions
                        THEN stored.dailyCap ELSE row.dailyCap
  BY <1>2, <1>3 DEF Columns, StoredType
<1>6. new \in StoredType
  BY <1>4, <1>5 DEF StoredType
<1> QED
  BY <1>2, <1>5, <1>6 DEF new

\* Dividing by the hours of a day keeps the order.
LEMMA DivisionMonotonic ==
  ASSUME NEW a \in Int, NEW b \in Int, a <= b
  PROVE  /\ a \div HoursPerDay \in Int /\ b \div HoursPerDay \in Int
         /\ a \div HoursPerDay <= b \div HoursPerDay
<1> DEFINE H == HoursPerDay
           q == a \div H
           r == b \div H
<1>1. H \in Nat /\ H > 0
  BY ClockAssumption
<1>2. /\ q \in Int /\ H * q <= a /\ a < H * q + H
      /\ r \in Int /\ H * r <= b /\ b < H * r + H
  BY <1>1, Z3
<1> HIDE DEF q, r, H
<1>3. ASSUME r < q PROVE FALSE
  <2>1. r + 1 <= q
    BY <1>2, <1>3
  <2>2. H * (r + 1) <= H * q
    BY <1>1, <1>2, <2>1, Z3
  <2>3. H * (r + 1) = H * r + H
    BY <1>1, <1>2, Z3
  <2> QED
    BY <1>1, <1>2, <2>2, <2>3
<1> QED
  BY <1>2, <1>3 DEF q, r, H

\* A reader's local day has a key.
LEMMA DateKeyType ==
  ASSUME NEW at \in 0 .. MaxNow, NEW zone \in -MaxZone .. MaxZone
  PROVE  DateKey(at, zone) \in DateKeys
<1>1. HoursPerDay \in Nat /\ HoursPerDay > 0 /\ MaxNow \in Nat
  BY ClockAssumption
<1>2. /\ at + zone \in Int /\ -HoursPerDay <= at + zone
      /\ at + zone <= MaxNow + HoursPerDay
  BY <1>1 DEF MaxZone
<1>3. (-HoursPerDay) \div HoursPerDay = -1
  BY <1>1, Z3
<1> QED
  BY <1>1, <1>2, <1>3, DivisionMonotonic DEF DateKey, DateKeys, MaxZone

\* The order of the naturals, as a relation.
Less == {ss \in Nat \X Nat : ss[1] < ss[2]}

\* A set of naturals that is not empty has a least element.
LEMMA LeastElement ==
  ASSUME NEW T \in SUBSET Nat, T # {}
  PROVE  \E x \in T : \A y \in T : x <= y
<1>1. IsWellFoundedOn(Less, Nat)
  BY NatLessThanWellFounded DEF OpToRel, Less
<1>2. PICK x \in T : \A y \in T : ~(<<y, x>> \in Less)
  BY <1>1, WFMin
<1>3. ASSUME NEW y \in T PROVE x <= y
  <2>1. <<y, x>> \in Nat \X Nat /\ <<y, x>>[1] = y /\ <<y, x>>[2] = x
    OBVIOUS
  <2>2. ~(y < x)
    BY <1>2, <1>3, <2>1 DEF Less
  <2> QED
    BY <2>2
<1> QED
  BY <1>3

\* A page that is not empty has a first and a last reader.
LEMMA PageEnds ==
  ASSUME NEW page \in SUBSET Users, page # {}
  PROVE  /\ (CHOOSE u \in page : \A v \in page : u <= v) \in page
         /\ (CHOOSE u \in page : \A v \in page : v <= u) \in page
<1>1. NumUsers \in Nat /\ \A u \in page : u \in Nat /\ u <= NumUsers
  BY SweepAssumption DEF Users
<1>2. \E u \in page : \A v \in page : u <= v
  <2>1. page \in SUBSET Nat
    BY <1>1
  <2> QED
    BY <2>1, LeastElement
<1>3. \E u \in page : \A v \in page : v <= u
  <2> DEFINE Behind == {NumUsers - u : u \in page}
  <2>1. Behind \in SUBSET Nat /\ Behind # {}
    BY <1>1
  <2>2. PICK b \in Behind : \A c \in Behind : b <= c
    BY <2>1, LeastElement
  <2>3. PICK u \in page : b = NumUsers - u
    BY <2>2
  <2>4. ASSUME NEW v \in page PROVE v <= u
    <3>1. NumUsers - u <= NumUsers - v
      BY <2>2, <2>3
    <3> QED
      BY <1>1, <3>1
  <2> QED
    BY <2>4
<1> QED
  BY <1>2, <1>3

\* A plan is a list of kinds that the cap leaves room for.
LEMMA PlanFits ==
  ASSUME NEW at, NEW last, NEW p \in StoredType, NEW sent, IsFiniteSet(sent)
  PROVE  LET plans == DecideNotifications(at, p, last, sent)
         IN  /\ plans \in Seq(Kinds)
             /\ Len(plans) = 0 \/ Len(plans) <= p.dailyCap - Cardinality(sent)
<1> DEFINE remaining == p.dailyCap - Cardinality(sent)
           After(plans, kind) ==
             IF /\ kind \notin sent /\ Wanted(kind, at, p, last)
                /\ Len(plans) < remaining
             THEN Append(plans, kind) ELSE plans
           Good(plans) ==
             plans \in Seq(Kinds) /\ (Len(plans) = 0 \/ Len(plans) <= remaining)
<1>1. remaining \in Int
  BY FS_CardinalityType DEF StoredType
<1> HIDE DEF remaining
<1>2. ASSUME NEW plans, Good(plans), NEW kind \in Kinds
      PROVE  Good(After(plans, kind))
  <2>1. /\ Append(plans, kind) \in Seq(Kinds) /\ Len(plans) \in Nat
        /\ Len(Append(plans, kind)) = Len(plans) + 1
    BY <1>2, AppendProperties, LenProperties
  <2>2. CASE /\ kind \notin sent /\ Wanted(kind, at, p, last)
             /\ Len(plans) < remaining
    BY <1>1, <2>1, <2>2
  <2> QED
    BY <1>2, <2>2
<1>3. Good(<< >>)
  BY EmptySeq
<1> HIDE DEF After, Good
<1>4. Good(After(After(After(<< >>, "streakReminder"), "dailyFortune"),
                 "weeklySummary"))
  BY <1>2, <1>3 DEF Kinds
<1>5. \/ DecideNotifications(at, p, last, sent) = << >>
      \/ DecideNotifications(at, p, last, sent) =
           After(After(After(<< >>, "streakReminder"), "dailyFortune"),
                 "weeklySummary")
  BY DEF DecideNotifications, After, remaining
<1> QED
  BY <1>3, <1>4, <1>5 DEF Good, remaining
-----------------------------------------------------------------------------
(***************************************************************************)
(* Type correctness.                                                       *)
(***************************************************************************)
\* What a sweep has to hand depends on where it is.
LEMMA TaskFields ==
  ASSUME TypeOK, NEW s \in Sweeps
  PROVE  /\ tasks[s].pc \in {"idle", "page", "readers", "claim", "send"}
         /\ tasks[s].pc = "idle" => tasks[s] = Idle
         /\ tasks[s].pc \in {"page", "readers", "claim", "send"} =>
              tasks[s].now \in 0 .. MaxNow /\ tasks[s].cursor \in Nat
         /\ tasks[s].pc \in {"readers", "claim", "send"} =>
              /\ tasks[s].exhausted \in BOOLEAN
              /\ DOMAIN tasks[s].readers \in SUBSET Users
              /\ tasks[s].readers \in [DOMAIN tasks[s].readers -> StoredType]
         /\ tasks[s].pc \in {"claim", "send"} =>
              /\ tasks[s].user \in Users /\ tasks[s].dateKey \in DateKeys
              /\ tasks[s].plans \in Seq(Kinds)
<1>1. PICK rest \in SUBSET Users : tasks[s] \in Task(rest)
  BY DEF TypeOK, TaskOK
<1> QED
  BY <1>1 DEF Task, Idle

\* A sweep with these to hand is well formed.
LEMMA TaskForms ==
  ASSUME NEW at \in 0 .. MaxNow, NEW cursor \in Nat
  PROVE  /\ TaskOK(Idle)
         /\ TaskOK([pc |-> "page", now |-> at, cursor |-> cursor])
         /\ \A rest \in SUBSET Users :
              \A readers \in [rest -> StoredType], exhausted \in BOOLEAN :
                /\ TaskOK([pc |-> "readers", now |-> at, readers |-> readers,
                           cursor |-> cursor, exhausted |-> exhausted])
                /\ \A user \in Users, dateKey \in DateKeys, plans \in Seq(Kinds) :
                     TaskOK([pc |-> "claim", now |-> at, readers |-> readers,
                             cursor |-> cursor, exhausted |-> exhausted,
                             user |-> user, dateKey |-> dateKey,
                             plans |-> plans])
BY ZenonT(60) DEF TaskOK, Task

\* A sweep that claims or sends, before any of its moves.
AtPlans(rest) ==
  [pc: {"claim", "send"}, now: 0 .. MaxNow, readers: [rest -> StoredType],
   cursor: Nat, exhausted: BOOLEAN, user: Users, dateKey: DateKeys,
   plans: Seq(Kinds)]

\* A sweep at a plan holds what AtPlans lists.
LEMMA TaskAtPlans ==
  ASSUME TypeOK, NEW s \in Sweeps, tasks[s].pc \in {"claim", "send"}
  PROVE  \E rest \in SUBSET Users : tasks[s] \in AtPlans(rest)
BY DEF TypeOK, TaskOK, Task, Idle, AtPlans

Sending(s) == [tasks[s] EXCEPT !.pc = "send"]
Done(s) == [tasks[s] EXCEPT !.pc = "claim", !.plans = Tail(@)]

\* A sweep that goes on to send its first plan.
LEMMA SendingOK ==
  ASSUME TypeOK, NEW s \in Sweeps, tasks[s].pc = "claim"
  PROVE  /\ TaskOK(Sending(s)) /\ Sending(s).pc = "send"
         /\ Sending(s).plans = tasks[s].plans
         /\ Sending(s).user = tasks[s].user
         /\ Sending(s).dateKey = tasks[s].dateKey
         /\ Sending(s).readers = tasks[s].readers
<1>1. PICK rest \in SUBSET Users : tasks[s] \in AtPlans(rest)
  BY TaskAtPlans
<1>2. Sending(s) \in AtPlans(rest)
  BY <1>1 DEF AtPlans, Sending
<1>3. TaskOK(Sending(s))
  BY <1>2 DEF TaskOK, Task, AtPlans
<1> QED
  BY <1>1, <1>3 DEF Sending, AtPlans

\* A sweep that is done with its first plan.
LEMMA DoneOK ==
  ASSUME TypeOK, NEW s \in Sweeps, tasks[s].pc \in {"claim", "send"},
         tasks[s].plans # << >>
  PROVE  /\ TaskOK(Done(s)) /\ Done(s).pc = "claim"
         /\ Done(s).plans = Tail(tasks[s].plans)
         /\ Len(Done(s).plans) = Len(tasks[s].plans) - 1
         /\ Done(s).user = tasks[s].user
         /\ Done(s).dateKey = tasks[s].dateKey
         /\ Done(s).readers = tasks[s].readers
<1>1. PICK rest \in SUBSET Users : tasks[s] \in AtPlans(rest)
  BY TaskAtPlans
<1>2. /\ Tail(tasks[s].plans) \in Seq(Kinds)
      /\ Len(Tail(tasks[s].plans)) = Len(tasks[s].plans) - 1
  BY <1>1, HeadTailProperties DEF AtPlans
<1>3. Done(s) \in AtPlans(rest)
  BY <1>1, <1>2 DEF AtPlans, Done
<1>4. TaskOK(Done(s))
  BY <1>3 DEF TaskOK, Task, AtPlans
<1> QED
  BY <1>1, <1>2, <1>4 DEF Done, AtPlans

\* Only a sweep's own task changes when it moves on.
LEMMA BecomeMoves ==
  ASSUME TypeOK, NEW s \in Sweeps, NEW t, Become(s, t)
  PROVE  /\ tasks' = [r \in Sweeps |-> tasks'[r]]
         /\ tasks'[s] = t
         /\ \A r \in Sweeps \ {s} : tasks'[r] = tasks[r]
<1>1. DOMAIN tasks = Sweeps
  BY DEF TypeOK
<1> QED
  BY <1>1 DEF Become

\* A well-formed task is all that a moving sweep has to bring.
LEMMA TypeMove ==
  ASSUME TypeOK, NEW s \in Sweeps, NEW t, Become(s, t), TaskOK(t),
         UNCHANGED <<now, eligible, prefs, lastReading>>,
         deliveries' \subseteq DeliveryRow,
         messages' \in [Users -> [Kinds -> [DateKeys -> Nat]]]
  PROVE  TypeOK'
<1>1. /\ tasks' = [r \in Sweeps |-> tasks'[r]]
      /\ tasks'[s] = t
      /\ \A r \in Sweeps \ {s} : tasks'[r] = tasks[r]
  BY BecomeMoves
<1>2. \A r \in Sweeps : TaskOK(tasks'[r])
  BY <1>1 DEF TypeOK
<1> HIDE DEF TaskOK
<1>3. \A r \in Sweeps : TaskOK(tasks[r])'
  BY <1>2 DEF TaskOK, Task, Idle
<1> QED
  BY <1>1, <1>3 DEF TypeOK

\* Where the page of a sweep leads it.
LoadedPage(s) ==
  LET page == PageAfter(tasks[s].cursor)
  IN  [pc |-> "readers", now |-> tasks[s].now,
       readers |-> [u \in page |-> prefs[u]],
       cursor |-> CHOOSE u \in page : \A v \in page : v <= u,
       exhausted |-> Cardinality(page) < SweepBatch]

\* A page comes with the preferences of some eligible readers.
LEMMA PageLoaded ==
  ASSUME TypeOK, NEW s \in Sweeps, IsAt(s, "page"),
         PageAfter(tasks[s].cursor) # {}
  PROVE  TaskOK(LoadedPage(s))
<1> DEFINE page == PageAfter(tasks[s].cursor)
<1>1. page \in SUBSET Users
  BY DEF PageAfter, TypeOK
<1>2. (CHOOSE u \in page : \A v \in page : v <= u) \in Nat
  BY <1>1, PageEnds DEF Users
<1>3. [u \in page |-> prefs[u]] \in [page -> StoredType]
  BY <1>1 DEF TypeOK
<1>4. tasks[s].now \in 0 .. MaxNow
  BY TaskFields DEF IsAt
<1>5. (Cardinality(page) < SweepBatch) \in BOOLEAN
  OBVIOUS
<1> HIDE DEF page
<1> QED
  BY <1>1, <1>2, <1>3, <1>4, <1>5, TaskForms DEF LoadedPage, page

\* What a sweep plans for the reader at hand.
Consideration(s) ==
  LET u == Current(s)
      p == tasks[s].readers[u]
      dateKey == DateKey(tasks[s].now, p.zone)
  IN  [pc |-> "claim", now |-> tasks[s].now, readers |-> Others(s),
       cursor |-> tasks[s].cursor, exhausted |-> tasks[s].exhausted,
       user |-> u, dateKey |-> dateKey,
       plans |-> DecideNotifications(tasks[s].now, p, lastReading[u],
                                     SentToday(u, dateKey))]

\* The kinds sent are those of the reader's rows, one row each.
LEMMA SentTodayCounts ==
  ASSUME RowsUnique, NEW u, NEW d
  PROVE  /\ IsFiniteSet(SentToday(u, d)) /\ IsFiniteSet(RowsOf(u, d))
         /\ Cardinality(SentToday(u, d)) \in Nat
         /\ Cardinality(RowsOf(u, d)) = Cardinality(SentToday(u, d))
<1> DEFINE kindOf == [row \in RowsOf(u, d) |-> row.kind]
<1>1. IsFiniteSet(RowsOf(u, d))
  BY FS_Subset DEF RowsOf, RowsUnique
<1>2. kindOf \in Injection(RowsOf(u, d), SentToday(u, d))
  <2>1. kindOf \in [RowsOf(u, d) -> SentToday(u, d)]
    BY DEF RowsOf, SentToday
  <2>2. \A r, q \in RowsOf(u, d) : kindOf[r] = kindOf[q] => r = q
    BY DEF RowsOf, RowsUnique
  <2> QED
    BY <2>1, <2>2 DEF Injection, IsInjective
<1>3. kindOf \in Surjection(RowsOf(u, d), SentToday(u, d))
  <2>1. kindOf \in [RowsOf(u, d) -> SentToday(u, d)]
    BY <1>2 DEF Injection
  <2>2. \A k \in SentToday(u, d) : \E r \in RowsOf(u, d) : kindOf[r] = k
    BY DEF RowsOf, SentToday
  <2> QED
    BY <2>1, <2>2 DEF Surjection
<1> HIDE DEF kindOf
<1> QED
  BY <1>1, <1>2, <1>3, FS_Surjection, FS_CardinalityType

\* The consideration of a reader of the page is well formed.
LEMMA ConsiderationOK ==
  ASSUME TypeOK, RowsUnique, NEW s \in Sweeps, IsAt(s, "readers"),
         DOMAIN tasks[s].readers # {}
  PROVE  LET t == Consideration(s)
         IN  /\ TaskOK(t) /\ t.pc = "claim"
             /\ t.user \in Users /\ t.dateKey \in DateKeys
             /\ t.user = Current(s)
             /\ t.user \in DOMAIN tasks[s].readers
             /\ t.readers = Others(s)
             /\ t.plans \in Seq(Kinds)
             /\ tasks[s].readers[t.user] \in StoredType
             /\ \/ Len(t.plans) = 0
                \/ Len(t.plans) <= tasks[s].readers[t.user].dailyCap
                                     - Cardinality(SentToday(t.user, t.dateKey))
<1> DEFINE page == DOMAIN tasks[s].readers
           u == Current(s)
           p == tasks[s].readers[u]
           dateKey == DateKey(tasks[s].now, p.zone)
           plans == DecideNotifications(tasks[s].now, p, lastReading[u],
                                        SentToday(u, dateKey))
<1>1. /\ page \in SUBSET Users /\ tasks[s].readers \in [page -> StoredType]
      /\ tasks[s].now \in 0 .. MaxNow /\ tasks[s].cursor \in Nat
      /\ tasks[s].exhausted \in BOOLEAN
  BY TaskFields DEF IsAt
<1>2. u \in page /\ u \in Users
  BY <1>1, PageEnds DEF Current
<1>3. p \in StoredType
  BY <1>1, <1>2
<1>4. dateKey \in DateKeys
  BY <1>1, <1>3, DateKeyType DEF StoredType
<1>5. /\ plans \in Seq(Kinds)
      /\ \/ Len(plans) = 0
         \/ Len(plans) <= p.dailyCap - Cardinality(SentToday(u, dateKey))
  BY <1>3, SentTodayCounts, PlanFits
<1>6. /\ page \ {u} \in SUBSET Users
      /\ Others(s) \in [page \ {u} -> StoredType]
  BY <1>1 DEF Others
<1> HIDE DEF page, u, p, dateKey, plans
<1>7. /\ Consideration(s) =
           [pc |-> "claim", now |-> tasks[s].now, readers |-> Others(s),
            cursor |-> tasks[s].cursor, exhausted |-> tasks[s].exhausted,
            user |-> u, dateKey |-> dateKey, plans |-> plans]
      /\ u = Current(s)
  BY DEF Consideration, u, p, dateKey, plans
<1>8. TaskOK(Consideration(s))
  <2>1. \A readers \in [page \ {u} -> StoredType], exhausted \in BOOLEAN :
          \A user \in Users, day \in DateKeys, list \in Seq(Kinds) :
            TaskOK([pc |-> "claim", now |-> tasks[s].now, readers |-> readers,
                    cursor |-> tasks[s].cursor, exhausted |-> exhausted,
                    user |-> user, dateKey |-> day, plans |-> list])
    BY <1>1, <1>6, TaskForms
  <2>2. TaskOK([pc |-> "claim", now |-> tasks[s].now, readers |-> Others(s),
                cursor |-> tasks[s].cursor, exhausted |-> tasks[s].exhausted,
                user |-> u, dateKey |-> dateKey, plans |-> plans])
    BY <1>1, <1>2, <1>4, <1>5, <1>6, <2>1, Zenon
  <2> QED
    BY <1>7, <2>2, Zenon
<1>9. /\ Consideration(s).pc = "claim"
      /\ Consideration(s).user = u
      /\ Consideration(s).dateKey = dateKey
      /\ Consideration(s).readers = Others(s)
      /\ Consideration(s).plans = plans
  BY <1>7
<1>10. /\ u \in DOMAIN tasks[s].readers
       /\ tasks[s].readers[u] = p
  BY <1>2 DEF page, p
<1> QED
  BY <1>2, <1>3, <1>4, <1>5, <1>7, <1>8, <1>9, <1>10, Zenon
-----------------------------------------------------------------------------
(***************************************************************************)
(* The invariant.                                                          *)
(***************************************************************************)
\* The tables say the same, so the invariant is about the tasks that send.
LEMMA QuietMove ==
  ASSUME IInv, NEW s \in Sweeps, NEW t, Become(s, t), TaskOK(t), t.pc # "send",
         UNCHANGED <<now, eligible, prefs, lastReading, deliveries, messages>>
  PROVE  IInv'
<1>1. TypeOK'
  BY TypeMove DEF IInv, TypeOK
<1>2. /\ tasks'[s] = t
      /\ \A r \in Sweeps \ {s} : tasks'[r] = tasks[r]
  BY BecomeMoves DEF IInv
<1>3. \A r \in Sweeps : IsAt(r, "send")' => IsAt(r, "send") /\ tasks'[r] = tasks[r]
  BY <1>2 DEF IsAt
<1>4. SendsItsOwn'
  BY <1>3 DEF IInv, SendsItsOwn, SlotTaken
<1> QED
  BY <1>1, <1>4 DEF IInv, RowsUnique, DeliveredOnce, SlotTaken

\* What a sweep does that writes no row and sends nothing.
LEMMA QuietSteps ==
  ASSUME IInv, NEW s \in Sweeps,
         \/ StartSweep(s) \/ LoadPage(s) \/ ConsiderReader(s)
         \/ PlansExhausted(s) \/ EndPage(s) \/ QueryFails(s)
  PROVE  IInv'
<1>0. TypeOK /\ RowsUnique
  BY DEF IInv
<1>1. CASE Become(s, Idle) /\ UNCHANGED <<now, eligible, prefs, lastReading, deliveries, messages>>
  <2>1. TaskOK(Idle) /\ Idle.pc # "send"
    BY ClockAssumption DEF TaskOK, Task, Idle
  <2> QED
    BY <1>1, <2>1, QuietMove
<1>2. CASE StartSweep(s)
  <2> DEFINE t == [pc |-> "page", now |-> now, cursor |-> 0]
  <2>1. TaskOK(t) /\ t.pc # "send"
    BY <1>0, TaskForms DEF TypeOK
  <2> HIDE DEF t
  <2> QED
    BY <1>2, <2>1, QuietMove DEF StartSweep, t
<1>3. CASE LoadPage(s)
  <2>1. CASE PageAfter(tasks[s].cursor) = {}
    BY <1>1, <1>3, <2>1 DEF LoadPage
  <2>2. CASE PageAfter(tasks[s].cursor) # {}
    <3>1. TaskOK(LoadedPage(s)) /\ LoadedPage(s).pc # "send"
      BY <1>0, <1>3, <2>2, PageLoaded DEF LoadPage, LoadedPage
    <3>2. Become(s, LoadedPage(s))
      BY <1>3, <2>2 DEF LoadPage, LoadedPage
    <3> QED
      BY <1>3, <3>1, <3>2, QuietMove DEF LoadPage
  <2> QED
    BY <2>1, <2>2
<1>4. CASE ConsiderReader(s)
  <2>1. TaskOK(Consideration(s)) /\ Consideration(s).pc = "claim"
    BY <1>0, <1>4, ConsiderationOK DEF ConsiderReader
  <2>2. Become(s, Consideration(s))
    BY <1>4 DEF ConsiderReader, Consideration
  <2> QED
    BY <1>4, <2>1, <2>2, QuietMove DEF ConsiderReader
<1>5. CASE PlansExhausted(s)
  <2> DEFINE t == [pc |-> "readers", now |-> tasks[s].now,
                   readers |-> tasks[s].readers, cursor |-> tasks[s].cursor,
                   exhausted |-> tasks[s].exhausted]
  <2>1. PICK rest \in SUBSET Users : tasks[s] \in Task(rest)
    BY <1>0 DEF TypeOK, TaskOK
  <2>2. t \in Task(rest)
    BY <1>5, <2>1 DEF PlansExhausted, IsAt, Task, Idle
  <2>3. TaskOK(t) /\ t.pc # "send"
    BY <2>2 DEF TaskOK
  <2> HIDE DEF t
  <2> QED
    BY <1>5, <2>3, QuietMove DEF PlansExhausted, t
<1>6. CASE EndPage(s)
  <2> DEFINE t == [pc |-> "page", now |-> tasks[s].now,
                   cursor |-> tasks[s].cursor]
  <2>1. TaskOK(t) /\ t.pc # "send"
    BY <1>0, <1>6, TaskFields, TaskForms DEF EndPage, IsAt
  <2> HIDE DEF t
  <2>2. CASE Become(s, t)
    BY <1>6, <2>1, <2>2, QuietMove DEF EndPage
  <2> QED
    BY <1>1, <1>6, <2>2 DEF EndPage, t
<1>7. CASE QueryFails(s)
  BY <1>1, <1>7 DEF QueryFails
<1> QED
  BY <1>2, <1>3, <1>4, <1>5, <1>6, <1>7

\* The row a claim writes.
Claimed(s) ==
  [user |-> tasks[s].user, kind |-> Head(tasks[s].plans),
   dateKey |-> tasks[s].dateKey, createdAt |-> now]

\* A claim writes a row for a slot that had none, or gives the plan up.
LEMMA ClaimMoves ==
  ASSUME IInv, NEW s \in Sweeps, Claim(s)
  PROVE  /\ tasks[s].pc = "claim" /\ tasks[s].plans # << >>
         /\ Claimed(s) \in DeliveryRow
         /\ \/ /\ ~SlotTaken(tasks[s].user, Head(tasks[s].plans),
                             tasks[s].dateKey)
               /\ deliveries' = deliveries \cup {Claimed(s)}
               /\ Become(s, Sending(s))
            \/ UNCHANGED deliveries /\ Become(s, Done(s))
         /\ UNCHANGED <<now, eligible, prefs, lastReading, messages>>
<1>1. /\ tasks[s].pc = "claim" /\ tasks[s].plans # << >>
      /\ tasks[s].plans \in Seq(Kinds)
      /\ tasks[s].user \in Users /\ tasks[s].dateKey \in DateKeys
  BY TaskFields DEF IInv, Claim, IsAt
<1>2. Head(tasks[s].plans) \in Kinds
  BY <1>1, HeadTailProperties
<1>3. Claimed(s) \in DeliveryRow
  BY <1>1, <1>2, ClockAssumption DEF Claimed, DeliveryRow, IInv, TypeOK
<1> QED
  BY <1>1, <1>3 DEF Claim, Claimed, PlanDone, Sending, Done

\* A claimed slot is the claiming sweep's alone.
LEMMA InvClaim ==
  ASSUME IInv, NEW s \in Sweeps, Claim(s)
  PROVE  IInv'
<1> DEFINE u == tasks[s].user
           k == Head(tasks[s].plans)
           d == tasks[s].dateKey
           t == Sending(s)
<1>0. TypeOK /\ RowsUnique /\ SendsItsOwn /\ DeliveredOnce
  BY DEF IInv
<1>1. CASE /\ ~SlotTaken(u, k, d) /\ Become(s, t)
           /\ deliveries' = deliveries \cup {Claimed(s)}
  <2>1. /\ TaskOK(t) /\ t.pc = "send" /\ t.plans = tasks[s].plans
        /\ t.user = u /\ t.dateKey = d
    BY <1>0, ClaimMoves, SendingOK
  <2>2. /\ Claimed(s) \in DeliveryRow /\ tasks[s].plans # << >>
        /\ UNCHANGED <<now, eligible, prefs, lastReading, messages>>
        /\ Claimed(s).user = u /\ Claimed(s).kind = k /\ Claimed(s).dateKey = d
        /\ u \in Users /\ k \in Kinds /\ d \in DateKeys
    BY ClaimMoves DEF Claimed, DeliveryRow
  <2> HIDE DEF u, k, d, t
  <2>3. TypeOK'
    BY <1>0, <1>1, <2>1, <2>2, TypeMove DEF TypeOK
  <2>4. RowsUnique'
    <3>1. IsFiniteSet(deliveries')
      BY <1>0, <1>1, FS_AddElement DEF RowsUnique
    <3> QED
      BY <1>0, <1>1, <2>2, <3>1 DEF RowsUnique, SlotTaken
  <2>5. \A v, l, e : SlotTaken(v, l, e) => SlotTaken(v, l, e)'
    BY <1>1 DEF SlotTaken
  <2>6. \E row \in deliveries' : <<row.user, row.kind, row.dateKey>> = <<u, k, d>>
    BY <1>1, <2>2
  <2>7. messages[u][k][d] = 0
    BY <1>0, <1>1, <2>2 DEF DeliveredOnce, TypeOK
  <2>8. /\ tasks'[s] = t
        /\ \A r \in Sweeps \ {s} : tasks'[r] = tasks[r]
    BY <1>0, <1>1, BecomeMoves
  <2>9. Head(t.plans) = k
    BY <2>1 DEF k
  <2>10. ASSUME NEW r \in Sweeps, tasks'[r].pc = "send"
         PROVE  /\ tasks'[r].plans # << >>
                /\ \E row \in deliveries' :
                     <<row.user, row.kind, row.dateKey>> =
                       <<tasks'[r].user, Head(tasks'[r].plans), tasks'[r].dateKey>>
                /\ messages[tasks'[r].user][Head(tasks'[r].plans)]
                     [tasks'[r].dateKey] = 0
    <3>1. CASE r = s
      BY <2>1, <2>2, <2>6, <2>7, <2>8, <2>9, <3>1
    <3>2. CASE r # s
      <4>1. tasks'[r] = tasks[r] /\ IsAt(r, "send")
        BY <2>8, <2>10, <3>2 DEF IsAt
      <4> QED
        BY <1>0, <1>1, <4>1 DEF SendsItsOwn, SlotTaken
    <3> QED
      BY <3>1, <3>2
  <2>11. \A r \in Sweeps \ {s} :
           tasks'[r].pc = "send" =>
             <<tasks'[r].user, Head(tasks'[r].plans), tasks'[r].dateKey>>
               # <<u, k, d>>
    BY <1>0, <1>1, <2>8 DEF SendsItsOwn, SlotTaken, IsAt
  <2>12. SendsItsOwn'
    <3>1. \A r \in Sweeps : IsAt(r, "send")' =>
            /\ (tasks[r].plans # << >>)'
            /\ SlotTaken(tasks[r].user, Head(tasks[r].plans), tasks[r].dateKey)'
            /\ (messages[tasks[r].user][Head(tasks[r].plans)]
                 [tasks[r].dateKey] = 0)'
      BY <2>2, <2>10 DEF SlotTaken, IsAt
    <3>2. ASSUME NEW r \in Sweeps, NEW q \in Sweeps,
                 tasks'[r].pc = "send", tasks'[q].pc = "send",
                 <<tasks'[r].user, Head(tasks'[r].plans), tasks'[r].dateKey>> =
                   <<tasks'[q].user, Head(tasks'[q].plans), tasks'[q].dateKey>>
          PROVE  r = q
      <4>1. CASE r # s /\ q # s
        BY <1>0, <2>8, <3>2, <4>1 DEF SendsItsOwn, IsAt
      <4>2. CASE r = s
        BY <2>1, <2>8, <2>9, <2>11, <3>2, <4>2
      <4>3. CASE q = s
        BY <2>1, <2>8, <2>9, <2>11, <3>2, <4>3
      <4> QED
        BY <4>1, <4>2, <4>3
    <3> QED
      BY <3>1, <3>2 DEF SendsItsOwn, IsAt
  <2>13. DeliveredOnce'
    BY <1>0, <2>2, <2>5 DEF DeliveredOnce
  <2> QED
    BY <2>3, <2>4, <2>12, <2>13 DEF IInv
<1>2. CASE UNCHANGED deliveries /\ Become(s, Done(s))
  <2>1. TaskOK(Done(s)) /\ Done(s).pc # "send"
    BY <1>0, ClaimMoves, DoneOK
  <2> QED
    BY <1>2, <2>1, ClaimMoves, QuietMove
<1> QED
  BY <1>1, <1>2, ClaimMoves

\* A message is delivered the first time, or not at all.
LEMMA InvSend ==
  ASSUME IInv, NEW s \in Sweeps, Send(s)
  PROVE  IInv'
<1> DEFINE u == tasks[s].user
           k == Head(tasks[s].plans)
           d == tasks[s].dateKey
           done == Done(s)
<1>0. TypeOK /\ RowsUnique /\ SendsItsOwn /\ DeliveredOnce
  BY DEF IInv
<1>1. /\ tasks[s].pc = "send" /\ tasks[s].plans \in Seq(Kinds)
      /\ tasks[s].plans # << >> /\ u \in Users /\ d \in DateKeys
  BY <1>0, TaskFields DEF Send, IsAt, SendsItsOwn
<1>2. k \in Kinds
  BY <1>1, HeadTailProperties
<1>3. TaskOK(done) /\ done.pc = "claim"
  BY <1>0, <1>1, DoneOK
<1>4. /\ Become(s, done)
      /\ UNCHANGED <<now, eligible, prefs, lastReading, deliveries>>
  BY DEF Send, PlanDone, Done
<1>5. CASE messages' = [messages EXCEPT ![u][k][d] = @ + 1]
  <2>1. SlotTaken(u, k, d) /\ messages[u][k][d] = 0
    BY <1>0, <1>1 DEF SendsItsOwn, IsAt
  <2> HIDE DEF u, k, d, done
  <2>2. /\ messages' \in [Users -> [Kinds -> [DateKeys -> Nat]]]
        /\ messages'[u][k][d] = 1
        /\ \A v \in Users, l \in Kinds, e \in DateKeys :
             <<v, l, e>> # <<u, k, d>> => messages'[v][l][e] = messages[v][l][e]
    BY <1>0, <1>1, <1>2, <1>5, <2>1 DEF TypeOK
  <2>3. TypeOK'
    BY <1>0, <1>3, <1>4, <2>2, TypeMove DEF TypeOK
  <2>4. DeliveredOnce'
    <3>1. ASSUME NEW v \in Users, NEW l \in Kinds, NEW e \in DateKeys
          PROVE  /\ messages'[v][l][e] <= 1
                 /\ messages'[v][l][e] = 1 => SlotTaken(v, l, e)
      <4>1. CASE <<v, l, e>> = <<u, k, d>>
        BY <2>1, <2>2, <4>1
      <4>2. CASE <<v, l, e>> # <<u, k, d>>
        BY <1>0, <2>2, <4>2 DEF DeliveredOnce
      <4> QED
        BY <4>1, <4>2
    <3> QED
      BY <1>4, <3>1 DEF DeliveredOnce, SlotTaken
  <2>5. \A r \in Sweeps : tasks'[r].pc = "send" =>
          /\ r # s /\ tasks'[r] = tasks[r] /\ tasks[r].pc = "send"
    BY <1>0, <1>3, <1>4, BecomeMoves
  <2>6. ASSUME NEW r \in Sweeps, tasks'[r].pc = "send"
        PROVE  /\ tasks[r].plans # << >>
               /\ SlotTaken(tasks[r].user, Head(tasks[r].plans), tasks[r].dateKey)
               /\ messages'[tasks[r].user][Head(tasks[r].plans)]
                    [tasks[r].dateKey] = 0
    <3>1. r # s /\ tasks[r].pc = "send"
      BY <2>5, <2>6
    <3>2. /\ tasks[r].plans # << >>
          /\ SlotTaken(tasks[r].user, Head(tasks[r].plans), tasks[r].dateKey)
          /\ messages[tasks[r].user][Head(tasks[r].plans)][tasks[r].dateKey] = 0
      BY <1>0, <3>1 DEF SendsItsOwn, IsAt
    <3>3. <<tasks[r].user, Head(tasks[r].plans), tasks[r].dateKey>> # <<u, k, d>>
      BY <1>0, <1>1, <3>1 DEF SendsItsOwn, IsAt, u, k, d
    <3>4. /\ tasks[r].user \in Users /\ tasks[r].dateKey \in DateKeys
          /\ Head(tasks[r].plans) \in Kinds
      BY <1>0, <3>1, <3>2, TaskFields, HeadTailProperties
    <3> QED
      BY <2>2, <3>2, <3>3, <3>4
  <2>7. SendsItsOwn'
    BY SMTT(30), <1>0, <1>4, <2>5, <2>6 DEF SendsItsOwn, SlotTaken, IsAt
  <2> QED
    BY <1>0, <1>4, <2>3, <2>4, <2>7 DEF IInv, RowsUnique
<1>6. CASE UNCHANGED messages
  <2> HIDE DEF done
  <2> QED
    BY <1>3, <1>4, <1>6, QuietMove
<1> QED
  BY <1>5, <1>6 DEF Send

\* Readers, the clock and a crash: no row, no message, no sweep that sends anew.
LEMMA InvEnvironment ==
  ASSUME IInv, Environment
  PROVE  IInv'
<1>0. TypeOK /\ RowsUnique /\ SendsItsOwn /\ DeliveredOnce
  BY DEF IInv
<1>1. UNCHANGED <<deliveries, messages>>
  BY DEF Environment, Update, OpenFortune, CompleteOnboarding, Tick, Crash
<1>2. CASE UNCHANGED tasks
  <2>1. SendsItsOwn' /\ RowsUnique' /\ DeliveredOnce'
    BY SMTT(30), <1>0, <1>1, <1>2 DEF SendsItsOwn, RowsUnique, DeliveredOnce, SlotTaken, IsAt
  <2>2. ASSUME NEW u \in Users, NEW patch \in Patches, Update(u, patch)
        PROVE  prefs' \in [Users -> StoredType] /\ UNCHANGED <<now, eligible, lastReading>>
    <3>1. Patched(prefs[u], patch, now) \in StoredType
      BY <1>0, PatchesAssumption, ClockAssumption, PatchedIsRow DEF TypeOK
    <3> QED
      BY <1>0, <2>2, <3>1 DEF Update, TypeOK
  <2>3. ASSUME NEW u \in Users, OpenFortune(u)
        PROVE  /\ lastReading' \in [Users -> Nat \cup {Never}]
               /\ UNCHANGED <<now, eligible, prefs>>
    BY <1>0, <2>3, ClockAssumption DEF OpenFortune, TypeOK
  <2>4. ASSUME NEW u \in Users, CompleteOnboarding(u)
        PROVE  eligible' \subseteq Users /\ UNCHANGED <<now, prefs, lastReading>>
    BY <1>0, <2>4 DEF CompleteOnboarding, TypeOK
  <2>5. ASSUME Tick
        PROVE  now' \in 0 .. MaxNow /\ UNCHANGED <<eligible, prefs, lastReading>>
    BY <1>0, <2>5, ClockAssumption DEF Tick, TypeOK
  <2>6. ASSUME Crash
        PROVE  UNCHANGED <<now, eligible, prefs, lastReading>>
    BY <2>6 DEF Crash
  <2>7. /\ now' \in 0 .. MaxNow /\ eligible' \subseteq Users
        /\ prefs' \in [Users -> StoredType]
        /\ lastReading' \in [Users -> Nat \cup {Never}]
    BY <1>0, <2>2, <2>3, <2>4, <2>5, <2>6 DEF Environment, TypeOK
  <2>8. TypeOK'
    BY <1>0, <1>1, <1>2, <2>7 DEF TypeOK, TaskOK, Task, Idle, DeliveryRow
  <2> QED
    BY <2>1, <2>8 DEF IInv
<1>3. CASE Crash
  <2>1. tasks' = [s \in Sweeps |-> Idle] /\ Idle.pc = "idle"
    BY <1>3 DEF Crash, Idle
  <2>2. TaskOK(Idle)
    BY DEF TaskOK, Task
  <2>3. TypeOK'
    <3>1. /\ tasks' = [s \in Sweeps |-> tasks'[s]]
          /\ \A s \in Sweeps : TaskOK(tasks[s])'
      BY <2>1, <2>2 DEF TaskOK, Task, Idle
    <3> QED
      BY <1>0, <1>3, <3>1 DEF TypeOK, Crash
  <2> QED
    BY SMTT(30), <1>0, <1>1, <2>1, <2>3
       DEF IInv, SendsItsOwn, RowsUnique, DeliveredOnce, SlotTaken, IsAt
<1> QED
  BY <1>2, <1>3 DEF Environment, Update, OpenFortune, CompleteOnboarding, Tick

\* Nothing is claimed, sent or under way to begin with.
LEMMA InvInit == Init => IInv
<1> SUFFICES ASSUME Init PROVE IInv
  OBVIOUS
<1>1. TypeOK
  <2>1. Stored(InitialPrefs, StartNow) \in StoredType
    BY PatchesAssumption, ClockAssumption, StoredIsRow
  <2>2. \A s \in Sweeps : TaskOK(tasks[s])
    BY DEF Init, TaskOK, Task
  <2>3. /\ now \in 0 .. MaxNow /\ eligible \subseteq Users
        /\ prefs \in [Users -> StoredType]
        /\ lastReading \in [Users -> Nat \cup {Never}]
        /\ messages \in [Users -> [Kinds -> [DateKeys -> Nat]]]
    BY <2>1, ClockAssumption DEF Init
  <2> QED
    BY <2>2, <2>3 DEF Init, TypeOK
<1>2. \A s \in Sweeps : tasks[s].pc = "idle"
  BY DEF Init, Idle
<1>3. \A u \in Users, k \in Kinds, d \in DateKeys : messages[u][k][d] = 0
  BY DEF Init
<1>4. IsFiniteSet(deliveries)
  BY FS_EmptySet DEF Init
<1> QED
  BY <1>1, <1>2, <1>3, <1>4
     DEF Init, IInv, RowsUnique, SendsItsOwn, DeliveredOnce, IsAt

\* Every step keeps the invariant.
LEMMA InvNext == IInv /\ [Next]_vars => IInv'
<1> SUFFICES ASSUME IInv, [Next]_vars PROVE IInv'
  OBVIOUS
<1>1. CASE UNCHANGED vars
  <2>1. TypeOK'
    BY <1>1 DEF vars, IInv, TypeOK, TaskOK, Task, Idle, DeliveryRow
  <2>2. RowsUnique' /\ SendsItsOwn' /\ DeliveredOnce'
    BY SMTT(30), <1>1 DEF vars, IInv, RowsUnique, SendsItsOwn, DeliveredOnce, SlotTaken,
                IsAt
  <2> QED
    BY <2>1, <2>2 DEF IInv
<1>2. CASE Environment
  BY <1>2, InvEnvironment
<1>3. ASSUME NEW s \in Sweeps, StartSweep(s) \/ SweepDisabled(s) \/ QueryFails(s) \/ Step(s)
      PROVE  IInv'
  <2>1. CASE SweepDisabled(s)
    BY <1>1, <2>1 DEF SweepDisabled
  <2>2. CASE Claim(s)
    BY <2>2, InvClaim
  <2>3. CASE Send(s)
    BY <2>3, InvSend
  <2>4. CASE StartSweep(s) \/ QueryFails(s) \/ (Step(s) /\ ~Claim(s) /\ ~Send(s))
    BY <2>4, QuietSteps DEF Step
  <2> QED
    BY <1>3, <2>1, <2>2, <2>3, <2>4
<1> QED
  BY <1>1, <1>2, <1>3 DEF Next

-----------------------------------------------------------------------------
(***************************************************************************)
(* The theorems.                                                           *)
(***************************************************************************)
\* The invariant holds in every reachable state.
THEOREM Invariance == Spec => []IInv
BY InvInit, InvNext, PTL DEF Spec

\* Type correctness.
THEOREM TypeCorrect == Spec => []TypeOK
<1>1. IInv => TypeOK
  BY DEF IInv
<1> QED
  BY <1>1, Invariance, PTL

\* However sweeps race, run again or die, a message is delivered at most once
\* and never without its row.
THEOREM NoDuplicates == Spec => []NoDuplicateMessage
<1>1. IInv => NoDuplicateMessage
  <2> SUFFICES ASSUME IInv, NEW u \in Users, NEW k \in Kinds, NEW d \in DateKeys
               PROVE  /\ messages[u][k][d]
                           <= Cardinality({r \in RowsOf(u, d) : r.kind = k})
                      /\ messages[u][k][d] <= 1
    BY DEF NoDuplicateMessage
  <2> DEFINE rows == {r \in RowsOf(u, d) : r.kind = k}
  <2>1. messages[u][k][d] \in Nat /\ messages[u][k][d] <= 1
    BY DEF IInv, TypeOK, DeliveredOnce
  <2>2. IsFiniteSet(rows)
    BY FS_Subset DEF IInv, RowsUnique, RowsOf
  <2>3. messages[u][k][d] = 1 => rows # {}
    BY DEF IInv, DeliveredOnce, SlotTaken, RowsOf
  <2> HIDE DEF rows
  <2>4. Cardinality(rows) \in Nat /\ (rows # {} => Cardinality(rows) # 0)
    BY <2>2, FS_CardinalityType, FS_EmptySet
  <2> QED
    BY <2>1, <2>3, <2>4 DEF rows
<1> QED
  BY <1>1, Invariance, PTL
-----------------------------------------------------------------------------
(***************************************************************************)
(* The daily cap.  The rows of a reader's day and the messages planned for *)
(* it stay, together, within one cap for each sweep: a plan starts from    *)
(* the rows it read, and every other sweep holds a cap's worth at most.    *)
(***************************************************************************)
\* Numbers up to a bound have a largest one.
LEMMA LargestOf ==
  ASSUME NEW S \in SUBSET (0 .. 5), S # {}
  PROVE  \E c \in S : \A d \in S : d <= c
<1>1. CASE 5 \in S
  BY <1>1
<1>2. CASE 5 \notin S /\ 4 \in S
  BY <1>2
<1>3. CASE 5 \notin S /\ 4 \notin S /\ 3 \in S
  BY <1>3
<1>4. CASE 5 \notin S /\ 4 \notin S /\ 3 \notin S /\ 2 \in S
  BY <1>4
<1>5. CASE 5 \notin S /\ 4 \notin S /\ 3 \notin S /\ 2 \notin S
  <2>1. PICK c \in S : TRUE
    OBVIOUS
  <2>2. S \subseteq {0, 1}
    BY <1>5
  <2> QED
    BY <2>1, <2>2
<1> QED
  BY <1>1, <1>2, <1>3, <1>4, <1>5

\* The cap is one of those stored, and none stored is higher.
LEMMA CapType ==
  /\ Cap \in 0 .. 5
  /\ \A p \in CapPrefs : Clamp(p.dailyCap, 0, 5) <= Cap
<1> DEFINE caps == {Clamp(p.dailyCap, 0, 5) : p \in CapPrefs}
<1>1. \A p \in CapPrefs : Clamp(p.dailyCap, 0, 5) \in 0 .. 5
  <2>1. \A p \in CapPrefs : p.dailyCap \in Int
    BY PatchesAssumption DEF CapPrefs, PatchType, PrefsType
  <2>2. 0 \in Int /\ 5 \in Int /\ 0 <= 5
    OBVIOUS
  <2> QED
    BY <2>1, <2>2, Clamped
<1>2. caps \in SUBSET (0 .. 5) /\ caps # {}
  BY <1>1 DEF CapPrefs
<1>3. \A p \in CapPrefs : Clamp(p.dailyCap, 0, 5) \in caps
  OBVIOUS
<1> HIDE DEF caps
<1>4. \E c \in caps : \A d \in caps : d <= c
  BY <1>2, LargestOf
<1>5. Cap \in caps /\ \A d \in caps : d <= Cap
  BY <1>4, Zenon DEF Cap, caps
<1> QED
  BY <1>2, <1>3, <1>5

\* As many pairs as the product of the two counts.
LEMMA GridCount ==
  ASSUME NEW S, IsFiniteSet(S), NEW n \in Nat
  PROVE  /\ IsFiniteSet(S \X (1 .. n))
         /\ Cardinality(S \X (1 .. n)) = Cardinality(S) * n
<1>1. 1 \in Int /\ n \in Int
  OBVIOUS
<1>2. /\ IsFiniteSet(1 .. n)
      /\ Cardinality(1 .. n) = IF 1 > n THEN 0 ELSE n - 1 + 1
  BY <1>1, FS_Interval
<1>3. Cardinality(1 .. n) = n
  BY <1>2
<1>4. /\ IsFiniteSet(S \X (1 .. n))
      /\ Cardinality(S \X (1 .. n)) = Cardinality(S) * Cardinality(1 .. n)
  BY <1>2, FS_Product
<1> QED
  BY <1>3, <1>4

\* One element more, or one less.
LEMMA OneElement ==
  ASSUME NEW S, IsFiniteSet(S), NEW x
  PROVE  /\ Cardinality(S) \in Nat
         /\ Cardinality(S \cup {x}) \in Nat
         /\ Cardinality(S \cup {x}) <= Cardinality(S) + 1
         /\ x \in S => /\ IsFiniteSet(S \ {x})
                        /\ Cardinality(S \ {x}) = Cardinality(S) - 1
<1>1. Cardinality(S) \in Nat
  BY FS_CardinalityType
<1>2. /\ IsFiniteSet(S \cup {x})
      /\ Cardinality(S \cup {x}) =
           IF x \in S THEN Cardinality(S) ELSE Cardinality(S) + 1
  BY FS_AddElement
<1>3. Cardinality(S \cup {x}) \in Nat
  BY <1>2, FS_CardinalityType
<1>4. x \in S => /\ IsFiniteSet(S \ {x})
                 /\ Cardinality(S \ {x}) = Cardinality(S) - 1
  BY FS_RemoveElement
<1> QED
  BY <1>1, <1>2, <1>3, <1>4

\* No stored cap exceeds it.
LEMMA StoredCap ==
  ASSUME NEW at \in Nat
  PROVE  /\ Stored(InitialPrefs, at).dailyCap <= Cap
         /\ \A row \in StoredType, patch \in Patches :
              row.dailyCap <= Cap => Patched(row, patch, at).dailyCap <= Cap
<1>1. Stored(InitialPrefs, at).dailyCap <= Cap
  <2>1. InitialPrefs \in PrefsType /\ InitialPrefs \in CapPrefs
    BY PatchesAssumption DEF CapPrefs
  <2> QED
    BY <2>1, StoredIsRow, CapType
<1>2. ASSUME NEW row \in StoredType, NEW patch \in Patches, row.dailyCap <= Cap
      PROVE  Patched(row, patch, at).dailyCap <= Cap
  <2>1. patch \in PatchType
    BY PatchesAssumption
  <2>2. "dailyCap" \in patch.mentions => patch.values \in CapPrefs
    BY DEF CapPrefs
  <2>3. "dailyCap" \in patch.mentions => Clamp(patch.values.dailyCap, 0, 5) <= Cap
    BY <2>2, CapType
  <2> QED
    BY <1>2, <2>1, <2>3, PatchedIsRow
<1> QED
  BY <1>1, <1>2

\* A sweep that sends has a plan, so what it has left is a number.
LEMMA LeftType ==
  ASSUME IInv, NEW s \in Sweeps, NEW u, NEW d
  PROVE  Left(tasks[s], u, d) \in Nat
<1>1. tasks[s].pc \in {"claim", "send"} => tasks[s].plans \in Seq(Kinds)
  BY TaskFields DEF IInv
<1>2. tasks[s].pc = "send" => tasks[s].plans # << >>
  BY DEF IInv, SendsItsOwn, IsAt
<1>3. tasks[s].pc \in {"claim", "send"} =>
        /\ Len(tasks[s].plans) \in Nat
        /\ tasks[s].pc = "send" => Len(tasks[s].plans) # 0
  BY <1>1, <1>2, LenProperties, EmptySeq
<1> QED
  BY <1>3 DEF Left

\* The plans of all sweeps are as many as pairs of a sweep and a number.
LEMMA PlannedFinite ==
  ASSUME IInv, NEW u \in Users, NEW d \in DateKeys,
         \A s \in Sweeps : Left(tasks[s], u, d) <= Cap
  PROVE  /\ IsFiniteSet(Planned(u, d)) /\ Cardinality(Planned(u, d)) \in Nat
         /\ Planned(u, d) \subseteq Sweeps \X (1 .. Cap)
<1>1. Planned(u, d) \subseteq Sweeps \X (1 .. Cap)
  <2> SUFFICES ASSUME NEW s \in Sweeps, NEW i \in 1 .. Left(tasks[s], u, d)
               PROVE  i \in 1 .. Cap
    BY DEF Planned
  <2> QED
    BY LeftType, CapType
<1>2. IsFiniteSet(Sweeps \X (1 .. Cap))
  <2>1. IsFiniteSet(Sweeps) /\ Cap \in Nat
    BY CapType, SweepAssumption
  <2> QED
    BY <2>1, GridCount
<1> QED
  BY <1>1, <1>2, FS_Subset, FS_CardinalityType

\* Preferences in store and on a page respect the cap.
CapsFit ==
  /\ \A u \in Users : prefs[u].dailyCap <= Cap
  /\ \A s \in Sweeps :
       tasks[s].pc \in {"readers", "claim", "send"} =>
         \A u \in DOMAIN tasks[s].readers : tasks[s].readers[u].dailyCap <= Cap

\* Every sweep has at most what it had, and no row was written.
LEMMA CapQuiet ==
  ASSUME IInv, IInv', CapInv, CapsFit', UNCHANGED deliveries,
         \A s \in Sweeps, u \in Users, d \in DateKeys :
           Left(tasks'[s], u, d) <= Left(tasks[s], u, d)
  PROVE  CapInv'
<1>1. \A s \in Sweeps, u \in Users, d \in DateKeys :
        /\ Left(tasks[s], u, d) \in Nat
        /\ Left(tasks'[s], u, d) <= Left(tasks[s], u, d)
        /\ Left(tasks[s], u, d) <= Cap
  BY LeftType DEF CapInv
<1>2. ASSUME NEW s \in Sweeps, NEW u \in Users, NEW d \in DateKeys
      PROVE  Left(tasks'[s], u, d) \in Int
  <2>0. \E rest \in SUBSET Users : tasks'[s] \in Task(rest)
    BY DEF IInv, TypeOK, TaskOK, Task, Idle, DeliveryRow
  <2>1. tasks'[s].pc \in {"claim", "send"} => tasks'[s].plans \in Seq(Kinds)
    BY <2>0 DEF Task, Idle
  <2>2. tasks'[s].pc \in {"claim", "send"} => Len(tasks'[s].plans) \in Nat
    BY <2>1, LenProperties
  <2> QED
    BY <2>2 DEF Left
<1>3. \A s \in Sweeps, u \in Users, d \in DateKeys :
        Left(tasks'[s], u, d) <= Cap
  BY <1>1, <1>2, CapType
<1>4. ASSUME NEW u \in Users, NEW d \in DateKeys
      PROVE  Cardinality(RowsOf(u, d)') + Cardinality(Planned(u, d)')
               <= Cardinality(Sweeps) * Cap
  <2>1. RowsOf(u, d)' = RowsOf(u, d)
    BY DEF RowsOf
  <2>2. Planned(u, d)' \subseteq Planned(u, d)
    <3> SUFFICES ASSUME NEW s \in Sweeps, NEW i \in 1 .. Left(tasks'[s], u, d)
                 PROVE  i \in 1 .. Left(tasks[s], u, d)
      BY DEF Planned
    <3> QED
      BY <1>1, <1>2
  <2>3. IsFiniteSet(Planned(u, d)) /\ Cardinality(Planned(u, d)) \in Nat
    BY <1>1, PlannedFinite
  <2>4. /\ Cardinality(Planned(u, d)') <= Cardinality(Planned(u, d))
        /\ Cardinality(Planned(u, d)') \in Nat
    BY <2>2, <2>3, FS_Subset, FS_CardinalityType
  <2>5. Cardinality(RowsOf(u, d)) \in Nat
    BY SentTodayCounts, FS_CardinalityType DEF IInv
  <2>6. Cardinality(RowsOf(u, d)) + Cardinality(Planned(u, d))
          <= Cardinality(Sweeps) * Cap
    BY DEF CapInv
  <2>7. Cardinality(Sweeps) * Cap \in Nat
    <3>1. Cardinality(Sweeps) \in Nat /\ Cap \in Nat
      BY SweepAssumption, FS_CardinalityType, CapType
    <3> QED
      BY <3>1
  <2> QED
    BY <2>1, <2>3, <2>4, <2>5, <2>6, <2>7
<1> QED
  BY <1>3, <1>4 DEF CapInv, CapsFit

\* A claim turns one of the sweep's plans into a row.
LEMMA CapClaim ==
  ASSUME IInv, IInv', CapInv, CapsFit', NEW s \in Sweeps, Claim(s),
         Become(s, Sending(s)), deliveries' = deliveries \cup {Claimed(s)}
  PROVE  CapInv'
<1> DEFINE t == tasks[s]
           n == Len(t.plans)
<1>0. /\ t.pc = "claim" /\ t.plans \in Seq(Kinds) /\ t.plans # << >>
      /\ n \in Nat /\ n # 0
  BY ClaimMoves, TaskFields, LenProperties, EmptySeq DEF IInv
<1>1. /\ tasks'[s] = Sending(s)
      /\ \A r \in Sweeps \ {s} : tasks'[r] = tasks[r]
      /\ Sending(s).pc = "send" /\ Sending(s).plans = t.plans
      /\ Sending(s).user = t.user /\ Sending(s).dateKey = t.dateKey
  BY <1>0, BecomeMoves, SendingOK DEF IInv
<1>2. \A r \in Sweeps, u \in Users, d \in DateKeys :
        /\ Left(tasks[r], u, d) \in Nat /\ Left(tasks[r], u, d) <= Cap
  BY LeftType DEF CapInv
<1>3. \A r \in Sweeps, u \in Users, d \in DateKeys :
        Left(tasks'[r], u, d) =
          IF r = s /\ t.user = u /\ t.dateKey = d THEN n - 1
          ELSE Left(tasks[r], u, d)
  BY ZenonT(60), <1>0, <1>1 DEF Left
<1>4. ASSUME NEW u \in Users, NEW d \in DateKeys, t.user = u, t.dateKey = d
      PROVE  Left(t, u, d) = n
  BY <1>0, <1>4 DEF Left
<1>5. \A r \in Sweeps, u \in Users, d \in DateKeys : Left(tasks'[r], u, d) <= Cap
  BY <1>0, <1>2, <1>3, <1>4, CapType
<1>6. ASSUME NEW u \in Users, NEW d \in DateKeys
      PROVE  Cardinality(RowsOf(u, d)') + Cardinality(Planned(u, d)')
               <= Cardinality(Sweeps) * Cap
  <2>0. /\ IsFiniteSet(Planned(u, d)) /\ Cardinality(Planned(u, d)) \in Nat
        /\ IsFiniteSet(RowsOf(u, d)) /\ Cardinality(RowsOf(u, d)) \in Nat
    BY <1>2, PlannedFinite, SentTodayCounts, FS_CardinalityType DEF IInv
  <2>1. Cardinality(RowsOf(u, d)) + Cardinality(Planned(u, d))
          <= Cardinality(Sweeps) * Cap
    BY DEF CapInv
  <2>2. CASE t.user = u /\ t.dateKey = d
    <3>1. RowsOf(u, d)' = RowsOf(u, d) \cup {Claimed(s)}
      BY <2>2 DEF RowsOf, Claimed
    <3>2. Cardinality(RowsOf(u, d)') <= Cardinality(RowsOf(u, d)) + 1
      BY <2>0, <3>1, OneElement
    <3>3. Cardinality(RowsOf(u, d)') \in Nat
      BY <2>0, <3>1, OneElement
    <3>4. <<s, n>> \in Planned(u, d)
      BY <1>0, <1>4, <2>2 DEF Planned
    <3>5. Planned(u, d)' \subseteq Planned(u, d) \ {<<s, n>>}
      <4> SUFFICES ASSUME NEW r \in Sweeps, NEW i \in 1 .. Left(tasks'[r], u, d)
                   PROVE  /\ i \in 1 .. Left(tasks[r], u, d)
                          /\ <<r, i>> # <<s, n>>
        BY DEF Planned
      <4> QED
        BY <1>0, <1>2, <1>3, <1>4, <2>2
    <3>6. /\ Cardinality(Planned(u, d) \ {<<s, n>>})
               = Cardinality(Planned(u, d)) - 1
          /\ IsFiniteSet(Planned(u, d) \ {<<s, n>>})
      BY <2>0, <3>4, OneElement
    <3>7. /\ Cardinality(Planned(u, d)') <= Cardinality(Planned(u, d)) - 1
          /\ Cardinality(Planned(u, d)') \in Nat
      BY <3>5, <3>6, FS_Subset, FS_CardinalityType
    <3>8. Cardinality(Sweeps) * Cap \in Nat
      <4>1. Cardinality(Sweeps) \in Nat /\ Cap \in Nat
        BY SweepAssumption, FS_CardinalityType, CapType
      <4> QED
        BY <4>1
    <3> QED
      BY <2>0, <2>1, <3>2, <3>3, <3>7, <3>8
  <2>3. CASE ~(t.user = u /\ t.dateKey = d)
    <3>1. RowsOf(u, d)' = RowsOf(u, d)
      BY <2>3 DEF RowsOf, Claimed
    <3>2. \A r \in Sweeps : Left(tasks'[r], u, d) = Left(tasks[r], u, d)
      BY <1>3, <2>3
    <3>3. Planned(u, d)' = Planned(u, d)
      BY <3>2 DEF Planned
    <3> QED
      BY <2>1, <3>1, <3>3
  <2> QED
    BY <2>2, <2>3
<1> QED
  BY <1>5, <1>6 DEF CapInv, CapsFit

\* A plan starts from the rows of the day, so with them it is within one cap.
LEMMA CapConsider ==
  ASSUME IInv, IInv', CapInv, CapsFit', NEW s \in Sweeps, ConsiderReader(s)
  PROVE  CapInv'
<1> DEFINE t == Consideration(s)
           v == t.user
           e == t.dateKey
           n == Len(t.plans)
<1>0. /\ t.pc = "claim" /\ n \in Nat
      /\ v \in Users /\ e \in DateKeys /\ v \in DOMAIN tasks[s].readers
      /\ tasks[s].readers[v].dailyCap \in Nat
      /\ n = 0 \/ n <= tasks[s].readers[v].dailyCap - Cardinality(SentToday(v, e))
  <2>1. /\ TypeOK /\ RowsUnique
        /\ IsAt(s, "readers") /\ DOMAIN tasks[s].readers # {}
    BY DEF IInv, ConsiderReader
  <2>2. /\ t.pc = "claim" /\ t.user \in Users /\ t.dateKey \in DateKeys
        /\ t.user \in DOMAIN tasks[s].readers
        /\ t.plans \in Seq(Kinds)
        /\ tasks[s].readers[t.user] \in StoredType
        /\ \/ Len(t.plans) = 0
           \/ Len(t.plans) <= tasks[s].readers[t.user].dailyCap
                                - Cardinality(SentToday(t.user, t.dateKey))
    BY <2>1, ConsiderationOK, Zenon
  <2> HIDE DEF t
  <2>3. Len(t.plans) \in Nat
    BY <2>2, LenProperties
  <2>4. tasks[s].readers[t.user].dailyCap \in Nat
    BY <2>2 DEF StoredType
  <2> QED
    BY <2>2, <2>3, <2>4
<1>1. /\ tasks'[s] = t
      /\ \A r \in Sweeps \ {s} : tasks'[r] = tasks[r]
      /\ deliveries' = deliveries
  <2>1. Become(s, t)
    BY DEF ConsiderReader, Consideration
  <2> QED
    BY <2>1, BecomeMoves DEF IInv, ConsiderReader
<1>2. n = 0 \/ n + Cardinality(RowsOf(v, e)) <= Cap
  <2>1. tasks[s].readers[v].dailyCap <= Cap
    BY <1>0 DEF CapInv, ConsiderReader, IsAt
  <2>2. /\ Cardinality(RowsOf(v, e)) = Cardinality(SentToday(v, e))
        /\ Cardinality(SentToday(v, e)) \in Nat
    BY SentTodayCounts DEF IInv
  <2> HIDE DEF n, v, e, t
  <2> QED
    BY <1>0, <2>1, <2>2, CapType
<1> HIDE DEF v, e, n, t
<1>3. \A u \in Users, d \in DateKeys :
        Left(t, u, d) = IF v = u /\ e = d THEN n ELSE 0
  BY <1>0 DEF Left, v, e, n
<1>4. \A r \in Sweeps, u \in Users, d \in DateKeys :
        /\ Left(tasks[r], u, d) \in Nat /\ Left(tasks[r], u, d) <= Cap
  BY LeftType DEF CapInv
<1>5. \A u, d : IsFiniteSet(RowsOf(u, d)) /\ Cardinality(RowsOf(u, d)) \in Nat
  BY SentTodayCounts, FS_CardinalityType DEF IInv
<1>6. n <= Cap
  BY <1>0, <1>2, <1>5, CapType
<1>7. \A r \in Sweeps, u \in Users, d \in DateKeys : Left(tasks'[r], u, d) <= Cap
  BY <1>1, <1>3, <1>4, <1>6, CapType
<1>8. ASSUME NEW u \in Users, NEW d \in DateKeys
      PROVE  Cardinality(RowsOf(u, d)') + Cardinality(Planned(u, d)')
               <= Cardinality(Sweeps) * Cap
  <2>0. /\ IsFiniteSet(Planned(u, d)) /\ Cardinality(Planned(u, d)) \in Nat
        /\ RowsOf(u, d)' = RowsOf(u, d)
        /\ Cardinality(Sweeps) \in Nat /\ IsFiniteSet(Sweeps) /\ Cap \in Nat
    BY <1>1, <1>4, PlannedFinite, FS_CardinalityType, SweepAssumption, CapType
       DEF RowsOf
  <2>1. CASE v = u /\ e = d /\ n # 0
    <3> DEFINE Mine == {s} \X (1 .. n)
               Theirs == (Sweeps \ {s}) \X (1 .. Cap)
    <3>1. Planned(u, d)' \subseteq Mine \cup Theirs
      <4> SUFFICES ASSUME NEW r \in Sweeps, NEW i \in 1 .. Left(tasks'[r], u, d)
                   PROVE  <<r, i>> \in Mine \cup Theirs
        BY DEF Planned
      <4> QED
        BY <1>1, <1>3, <1>4, <2>0, <2>1
    <3>2. /\ IsFiniteSet({s}) /\ Cardinality({s}) = 1
          /\ IsFiniteSet(Sweeps \ {s})
          /\ Cardinality(Sweeps \ {s}) = Cardinality(Sweeps) - 1
      BY <2>0, FS_Singleton, OneElement
    <3>3. IsFiniteSet(Mine) /\ Cardinality(Mine) = 1 * n
      <4>1. IsFiniteSet({s} \X (1 .. n)) /\ Cardinality({s} \X (1 .. n)) = 1 * n
        BY <1>0, <3>2, GridCount
      <4> QED
        BY <4>1
    <3>4. /\ IsFiniteSet(Theirs)
          /\ Cardinality(Theirs) = (Cardinality(Sweeps) - 1) * Cap
      <4>1. LET R == Sweeps \ {s}
            IN  /\ IsFiniteSet(R \X (1 .. Cap))
                /\ Cardinality(R \X (1 .. Cap)) = Cardinality(R) * Cap
        BY <2>0, <3>2, GridCount
      <4> QED
        BY <3>2, <4>1
    <3> HIDE DEF Mine, Theirs
    <3>5. /\ IsFiniteSet(Mine \cup Theirs)
          /\ Cardinality(Mine \cup Theirs) =
               Cardinality(Mine) + Cardinality(Theirs)
                 - Cardinality(Mine \cap Theirs)
          /\ Cardinality(Mine \cap Theirs) \in Nat
      BY <3>3, <3>4, FS_Union, FS_Intersection, FS_CardinalityType
    <3>6. /\ Cardinality(Planned(u, d)') <= Cardinality(Mine \cup Theirs)
          /\ Cardinality(Planned(u, d)') \in Nat
      BY <3>1, <3>5, FS_Subset, FS_CardinalityType
    <3>7. (Cardinality(Sweeps) - 1) * Cap + Cap = Cardinality(Sweeps) * Cap
      BY <2>0, Z3
    <3>8. (Cardinality(Sweeps) - 1) * Cap \in Int /\ Cardinality(Sweeps) * Cap \in Int
      BY <2>0
    <3>9. n + Cardinality(RowsOf(u, d)) <= Cap
      BY <1>2, <2>1
    <3> QED
      BY <1>0, <1>5, <2>0, <3>3, <3>4, <3>5, <3>6, <3>7, <3>8, <3>9
  <2>2. CASE ~(v = u /\ e = d /\ n # 0)
    <3>1. \A r \in Sweeps : Left(tasks'[r], u, d) <= Left(tasks[r], u, d)
      BY <1>0, <1>1, <1>3, <1>4, <2>2
    <3>2. Planned(u, d)' \subseteq Planned(u, d)
      <4> SUFFICES ASSUME NEW r \in Sweeps, NEW i \in 1 .. Left(tasks'[r], u, d)
                   PROVE  i \in 1 .. Left(tasks[r], u, d)
        BY DEF Planned
      <4>1. Left(tasks'[r], u, d) \in Int
        BY <1>0, <1>1, <1>3, <1>4
      <4> QED
        BY <1>4, <3>1, <4>1
    <3>3. /\ Cardinality(Planned(u, d)') <= Cardinality(Planned(u, d))
          /\ Cardinality(Planned(u, d)') \in Nat
      BY <2>0, <3>2, FS_Subset, FS_CardinalityType
    <3>4. Cardinality(RowsOf(u, d)) + Cardinality(Planned(u, d))
            <= Cardinality(Sweeps) * Cap
      BY DEF CapInv
    <3>5. Cardinality(Sweeps) * Cap \in Int
      BY <2>0
    <3> QED
      BY <1>5, <2>0, <3>3, <3>4, <3>5
  <2> QED
    BY <2>1, <2>2
<1> QED
  BY <1>7, <1>8 DEF CapInv, CapsFit

\* A moving sweep that brings no preferences above the cap keeps them all below.
LEMMA CapsMove ==
  ASSUME IInv, CapInv, NEW s \in Sweeps, NEW t, Become(s, t), UNCHANGED prefs,
         t.pc \in {"readers", "claim", "send"} =>
           \A u \in DOMAIN t.readers : t.readers[u].dailyCap <= Cap
  PROVE  CapsFit'
<1>1. /\ tasks'[s] = t
      /\ \A r \in Sweeps \ {s} : tasks'[r] = tasks[r]
  BY BecomeMoves DEF IInv
<1> QED
  BY <1>1 DEF CapsFit, CapInv

\* A moving sweep that plans no more than it had, and writes no row.
LEMMA CapMove ==
  ASSUME IInv, IInv', CapInv, NEW s \in Sweeps, NEW t, Become(s, t),
         UNCHANGED <<prefs, deliveries>>,
         t.pc \in {"readers", "claim", "send"} =>
           \A u \in DOMAIN t.readers : t.readers[u].dailyCap <= Cap,
         \A u \in Users, d \in DateKeys : Left(t, u, d) <= Left(tasks[s], u, d)
  PROVE  CapInv'
<1>1. CapsFit'
  BY CapsMove
<1>2. /\ tasks'[s] = t
      /\ \A r \in Sweeps \ {s} : tasks'[r] = tasks[r]
  BY BecomeMoves DEF IInv
<1>3. \A r \in Sweeps, u \in Users, d \in DateKeys :
        /\ Left(tasks[r], u, d) \in Nat
        /\ Left(tasks'[r], u, d) <= Left(tasks[r], u, d)
  <2> TAKE r \in Sweeps, u \in Users, d \in DateKeys
  <2>1. Left(tasks[r], u, d) \in Nat
    BY LeftType
  <2>2. CASE r = s
    BY <1>2, <2>1, <2>2
  <2>3. CASE r # s
    <3>1. tasks'[r] = tasks[r]
      BY <1>2, <2>3
    <3> QED
      BY <2>1, <3>1
  <2> QED
    BY <2>2, <2>3
<1> QED
  BY <1>1, <1>3, CapQuiet

\* No sweep moves and no row is written; preferences stay below the cap.
LEMMA CapSame ==
  ASSUME IInv, IInv', CapInv, UNCHANGED <<deliveries, tasks>>,
         \A u \in Users : prefs'[u].dailyCap <= Cap
  PROVE  CapInv'
<1>1. CapsFit'
  BY DEF CapsFit, CapInv
<1>2. \A s \in Sweeps, u \in Users, d \in DateKeys :
        Left(tasks'[s], u, d) <= Left(tasks[s], u, d)
  <2> TAKE s \in Sweeps, u \in Users, d \in DateKeys
  <2>1. Left(tasks[s], u, d) \in Nat /\ tasks'[s] = tasks[s]
    BY LeftType
  <2> QED
    BY <2>1
<1> QED
  BY <1>1, <1>2, CapQuiet

\* Outside a page a sweep has nothing planned, whoever it is about.
LEMMA NothingPlanned ==
  ASSUME IInv, NEW s \in Sweeps, NEW t, t.pc \notin {"claim", "send"}
  PROVE  \A u \in Users, d \in DateKeys : Left(t, u, d) <= Left(tasks[s], u, d)
<1>1. \A u \in Users, d \in DateKeys :
        Left(t, u, d) = 0 /\ Left(tasks[s], u, d) \in Nat
  BY LeftType DEF Left
<1> QED
  BY <1>1

\* Between pages, and at their start, no plan is under way.
LEMMA CapPages ==
  ASSUME IInv, IInv', CapInv, NEW s \in Sweeps,
         StartSweep(s) \/ LoadPage(s) \/ PlansExhausted(s) \/ EndPage(s)
           \/ QueryFails(s)
  PROVE  CapInv'
<1>1. ASSUME NEW t, Become(s, t), UNCHANGED <<prefs, deliveries>>,
             t.pc \in {"idle", "page"}
      PROVE  CapInv'
  <2>1. t.pc \notin {"readers", "claim", "send"}
    BY <1>1
  <2>2. \A u \in Users, d \in DateKeys : Left(t, u, d) <= Left(tasks[s], u, d)
    BY <2>1, NothingPlanned
  <2> QED
    BY <1>1, <2>1, <2>2, CapMove
<1>2. Idle.pc = "idle"
  BY DEF Idle
<1>3. CASE StartSweep(s)
  <2> DEFINE t == [pc |-> "page", now |-> now, cursor |-> 0]
  <2>1. t.pc = "page"
    OBVIOUS
  <2> HIDE DEF t
  <2> QED
    BY <1>1, <1>3, <2>1 DEF StartSweep, t
<1>4. CASE LoadPage(s)
  <2>1. CASE PageAfter(tasks[s].cursor) = {}
    <3>1. Become(s, Idle) /\ UNCHANGED <<prefs, deliveries>>
      BY <1>4, <2>1 DEF LoadPage
    <3> QED
      BY <1>1, <1>2, <3>1
  <2>2. CASE PageAfter(tasks[s].cursor) # {}
    <3>1. Become(s, LoadedPage(s)) /\ UNCHANGED <<prefs, deliveries>>
      BY <1>4, <2>2 DEF LoadPage, LoadedPage
    <3>2. /\ LoadedPage(s).pc = "readers"
          /\ LoadedPage(s).readers =
               [u \in PageAfter(tasks[s].cursor) |-> prefs[u]]
          /\ PageAfter(tasks[s].cursor) \subseteq Users
      BY DEF LoadedPage, PageAfter, IInv, TypeOK
    <3>3. \A u \in DOMAIN LoadedPage(s).readers :
            LoadedPage(s).readers[u].dailyCap <= Cap
      BY <3>2 DEF CapInv
    <3>4. \A u \in Users, d \in DateKeys :
            Left(LoadedPage(s), u, d) <= Left(tasks[s], u, d)
      BY <3>2, NothingPlanned
    <3> QED
      BY <3>1, <3>3, <3>4, CapMove
  <2> QED
    BY <2>1, <2>2
<1>5. CASE PlansExhausted(s)
  <2> DEFINE t == [pc |-> "readers", now |-> tasks[s].now,
                   readers |-> tasks[s].readers, cursor |-> tasks[s].cursor,
                   exhausted |-> tasks[s].exhausted]
  <2>1. /\ t.pc = "readers" /\ t.readers = tasks[s].readers
        /\ tasks[s].pc = "claim"
        /\ Become(s, t) /\ UNCHANGED <<prefs, deliveries>>
    BY <1>5 DEF PlansExhausted, IsAt
  <2> HIDE DEF t
  <2>2. \A u \in DOMAIN t.readers : t.readers[u].dailyCap <= Cap
    BY <2>1 DEF CapInv
  <2>3. \A u \in Users, d \in DateKeys : Left(t, u, d) <= Left(tasks[s], u, d)
    BY <2>1, NothingPlanned
  <2> QED
    BY <2>1, <2>2, <2>3, CapMove
<1>6. CASE EndPage(s)
  <2> DEFINE t == [pc |-> "page", now |-> tasks[s].now,
                   cursor |-> tasks[s].cursor]
  <2>1. t.pc = "page"
    OBVIOUS
  <2> HIDE DEF t
  <2>2. CASE Become(s, t)
    BY <1>1, <1>6, <2>1, <2>2 DEF EndPage
  <2>3. CASE Become(s, Idle)
    BY <1>1, <1>2, <1>6, <2>3 DEF EndPage
  <2> QED
    BY <1>6, <2>2, <2>3 DEF EndPage, t
<1>7. CASE QueryFails(s)
  <2>1. Become(s, Idle) /\ UNCHANGED <<prefs, deliveries>>
    BY <1>7 DEF QueryFails
  <2> QED
    BY <1>1, <1>2, <2>1
<1> QED
  BY <1>3, <1>4, <1>5, <1>6, <1>7

\* Done with a plan, a sweep has one less to send or was to send it already.
LEMMA CapDone ==
  ASSUME IInv, IInv', CapInv, NEW s \in Sweeps, Become(s, Done(s)),
         tasks[s].pc \in {"claim", "send"}, tasks[s].plans # << >>,
         UNCHANGED <<prefs, deliveries>>
  PROVE  CapInv'
<1>1. /\ Done(s).pc = "claim"
      /\ Len(Done(s).plans) = Len(tasks[s].plans) - 1
      /\ Done(s).user = tasks[s].user /\ Done(s).dateKey = tasks[s].dateKey
      /\ Done(s).readers = tasks[s].readers
  BY DoneOK DEF IInv
<1>2. Len(tasks[s].plans) \in Nat
  <2>1. tasks[s].plans \in Seq(Kinds)
    BY TaskFields DEF IInv
  <2> QED
    BY <2>1, LenProperties
<1>3. \A u \in DOMAIN Done(s).readers : Done(s).readers[u].dailyCap <= Cap
  BY <1>1 DEF CapInv
<1>4. \A u \in Users, d \in DateKeys : Left(Done(s), u, d) <= Left(tasks[s], u, d)
  <2> TAKE u \in Users, d \in DateKeys
  <2>1. CASE tasks[s].user = u /\ tasks[s].dateKey = d
    <3>1. Left(Done(s), u, d) = Len(tasks[s].plans) - 1
      BY <1>1, <1>2, <2>1 DEF Left
    <3>2. Left(tasks[s], u, d) >= Len(tasks[s].plans) - 1
      BY <1>2, <2>1 DEF Left
    <3>3. Left(tasks[s], u, d) \in Nat
      BY LeftType
    <3> QED
      BY <1>2, <3>1, <3>2, <3>3
  <2>2. CASE ~(tasks[s].user = u /\ tasks[s].dateKey = d)
    <3>1. Left(Done(s), u, d) = 0 /\ Left(tasks[s], u, d) = 0
      BY <1>1, <2>2 DEF Left
    <3> QED
      BY <3>1
  <2> QED
    BY <2>1, <2>2
<1> QED
  BY <1>3, <1>4, CapMove

\* A reader under consideration is one of the page, the others are its rest.
LEMMA CapConsiders ==
  ASSUME IInv, IInv', CapInv, NEW s \in Sweeps, ConsiderReader(s)
  PROVE  CapInv'
<1>1. Become(s, Consideration(s)) /\ UNCHANGED prefs
  BY DEF ConsiderReader, Consideration
<1>2. /\ Consideration(s).readers = Others(s)
      /\ DOMAIN Others(s) \subseteq DOMAIN tasks[s].readers
      /\ \A u \in DOMAIN Others(s) : Others(s)[u] = tasks[s].readers[u]
  BY DEF Consideration, Others
<1>3. \A u \in DOMAIN tasks[s].readers : tasks[s].readers[u].dailyCap <= Cap
  BY DEF CapInv, ConsiderReader, IsAt
<1>4. CapsFit'
  <2> HIDE DEF Consideration
  <2>1. \A u \in DOMAIN Consideration(s).readers :
          Consideration(s).readers[u].dailyCap <= Cap
    BY <1>2, <1>3
  <2> QED
    BY <1>1, <2>1, CapsMove
<1> QED
  BY <1>4, CapConsider

\* Readers store no cap above the one they started with; a crash forgets plans.
LEMMA CapEnvironment ==
  ASSUME IInv, IInv', CapInv, Environment
  PROVE  CapInv'
<1>1. CASE UNCHANGED tasks /\ UNCHANGED prefs
  <2>1. UNCHANGED deliveries
    BY DEF Environment, Update, OpenFortune, CompleteOnboarding, Tick, Crash
  <2> QED
    BY <1>1, <2>1, CapSame DEF CapInv
<1>2. ASSUME NEW u \in Users, NEW patch \in Patches, Update(u, patch)
      PROVE  CapInv'
  <2>1. Patched(prefs[u], patch, now).dailyCap <= Cap
    <3>1. prefs[u] \in StoredType /\ prefs[u].dailyCap <= Cap /\ now \in Nat
      BY ClockAssumption DEF CapInv, IInv, TypeOK
    <3> QED
      BY <3>1, StoredCap
  <2>2. \A v \in Users : prefs'[v].dailyCap <= Cap
    BY <1>2, <2>1 DEF Update, CapInv, IInv, TypeOK
  <2>3. UNCHANGED <<deliveries, tasks>>
    BY <1>2 DEF Update
  <2> QED
    BY <2>2, <2>3, CapSame
<1>3. CASE Crash
  <2>1. /\ tasks' = [s \in Sweeps |-> Idle] /\ Idle.pc = "idle"
        /\ UNCHANGED <<prefs, deliveries>>
    BY <1>3 DEF Crash, Idle
  <2>2. CapsFit'
    BY <2>1 DEF CapsFit, CapInv
  <2>3. \A s \in Sweeps, u \in Users, d \in DateKeys :
          Left(tasks'[s], u, d) <= Left(tasks[s], u, d)
    <3>1. \A s \in Sweeps : tasks'[s].pc \notin {"claim", "send"}
      BY <2>1
    <3> QED
      BY <3>1, NothingPlanned
  <2> QED
    BY <2>1, <2>2, <2>3, CapQuiet
<1> QED
  BY <1>1, <1>2, <1>3 DEF Environment, OpenFortune, CompleteOnboarding, Tick

\* Every step keeps rows and plans within the sweeps' shares.
LEMMA CapNext ==
  ASSUME IInv, IInv', CapInv, [Next]_vars
  PROVE  CapInv'
<1>1. CASE UNCHANGED vars
  BY <1>1, CapSame DEF vars, CapInv
<1>2. CASE Environment
  BY <1>2, CapEnvironment
<1>3. ASSUME NEW s \in Sweeps, StartSweep(s) \/ SweepDisabled(s) \/ QueryFails(s) \/ Step(s)
      PROVE  CapInv'
  <2>1. CASE SweepDisabled(s)
    BY <1>1, <2>1 DEF SweepDisabled
  <2>2. CASE StartSweep(s) \/ LoadPage(s) \/ PlansExhausted(s) \/ EndPage(s)
               \/ QueryFails(s)
    BY <2>2, CapPages
  <2>3. CASE ConsiderReader(s)
    BY <2>3, CapConsiders
  <2>4. CASE Claim(s)
    <3>1. /\ tasks[s].pc = "claim" /\ tasks[s].plans # << >> /\ UNCHANGED prefs
          /\ \/ /\ deliveries' = deliveries \cup {Claimed(s)}
                /\ Become(s, Sending(s))
             \/ UNCHANGED deliveries /\ Become(s, Done(s))
      BY <2>4, ClaimMoves
    <3>2. CASE UNCHANGED deliveries /\ Become(s, Done(s))
      BY <3>1, <3>2, CapDone
    <3>3. CASE deliveries' = deliveries \cup {Claimed(s)} /\ Become(s, Sending(s))
      <4>1. Sending(s).readers = tasks[s].readers
        BY <3>1, SendingOK DEF IInv
      <4>2. \A u \in DOMAIN Sending(s).readers :
              Sending(s).readers[u].dailyCap <= Cap
        BY <3>1, <4>1 DEF CapInv
      <4>3. CapsFit'
        BY <3>1, <3>3, <4>2, CapsMove
      <4> QED
        BY <2>4, <3>3, <4>3, CapClaim
    <3> QED
      BY <3>1, <3>2, <3>3
  <2>5. CASE Send(s)
    <3>1. /\ tasks[s].pc = "send" /\ UNCHANGED <<prefs, deliveries>>
          /\ Become(s, Done(s))
      BY <2>5 DEF Send, PlanDone, Done, IsAt
    <3>2. tasks[s].plans # << >>
      BY <3>1 DEF IInv, SendsItsOwn, IsAt
    <3> QED
      BY <3>1, <3>2, CapDone
  <2> QED
    BY <1>3, <2>1, <2>2, <2>3, <2>4, <2>5 DEF Step
<1> QED
  BY <1>1, <1>2, <1>3 DEF Next

\* Nobody has rows or plans to begin with.
LEMMA CapInit == Init => CapInv
<1> SUFFICES ASSUME Init PROVE CapInv
  OBVIOUS
<1>1. Stored(InitialPrefs, StartNow).dailyCap <= Cap
  BY ClockAssumption, StoredCap
<1>2. \A s \in Sweeps : tasks[s].pc = "idle"
  BY DEF Init, Idle
<1>3. \A s \in Sweeps, u \in Users, d \in DateKeys : Left(tasks[s], u, d) = 0
  BY <1>2 DEF Left
<1>4. ASSUME NEW u \in Users, NEW d \in DateKeys
      PROVE  Cardinality(RowsOf(u, d)) + Cardinality(Planned(u, d))
               <= Cardinality(Sweeps) * Cap
  <2>1. RowsOf(u, d) = {}
    BY DEF Init, RowsOf
  <2>2. Planned(u, d) = {}
    BY <1>3 DEF Planned
  <2>3. Cardinality(RowsOf(u, d)) + Cardinality(Planned(u, d)) = 0
    BY <2>1, <2>2, FS_EmptySet
  <2>4. Cardinality(Sweeps) \in Nat /\ Cap \in Nat
    BY SweepAssumption, FS_CardinalityType, CapType
  <2>5. Cardinality(Sweeps) * Cap >= 0
    BY <2>4
  <2> QED
    BY <2>3, <2>5
<1>5. Cap \in 0 .. 5
  BY CapType
<1> QED
  BY <1>1, <1>2, <1>3, <1>4, <1>5 DEF Init, CapInv

\* Sweeps that race exceed the cap by their shares at most, whatever readers do
\* to their caps meanwhile: a plan is made from rows that others may add to.
THEOREM CapOvershoot == Spec => []CapOvershootBounded
<1>1. Init => IInv /\ CapInv
  BY InvInit, CapInit
<1>2. IInv /\ CapInv /\ [Next]_vars => (IInv /\ CapInv)'
  BY InvNext, CapNext
<1>3. IInv /\ CapInv => CapOvershootBounded
  <2> SUFFICES ASSUME IInv, CapInv, NEW u \in Users, NEW d \in DateKeys
               PROVE  Cardinality(RowsOf(u, d)) <= Cardinality(Sweeps) * Cap
    BY DEF CapOvershootBounded
  <2>1. \A s \in Sweeps : Left(tasks[s], u, d) <= Cap
    BY DEF CapInv
  <2>2. Cardinality(Planned(u, d)) \in Nat
    BY <2>1, PlannedFinite
  <2>3. Cardinality(RowsOf(u, d)) \in Nat
    BY SentTodayCounts, FS_CardinalityType DEF IInv
  <2>4. Cardinality(Sweeps) \in Nat /\ Cap \in Nat
    BY SweepAssumption, FS_CardinalityType, CapType
  <2>5. Cardinality(Sweeps) * Cap \in Nat
    BY <2>4
  <2>6. Cardinality(RowsOf(u, d)) + Cardinality(Planned(u, d))
          <= Cardinality(Sweeps) * Cap
    BY DEF CapInv
  <2> QED
    BY <2>2, <2>3, <2>5, <2>6
<1> QED
  BY <1>1, <1>2, <1>3, PTL DEF Spec
=============================================================================
