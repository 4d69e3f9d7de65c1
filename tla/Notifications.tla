--------------------------- MODULE Notifications ----------------------------
(***************************************************************************)
(* NotificationsService: the sweep an external scheduler drives, paging    *)
(* through the readers, deciding what to say to each (notification-plan),  *)
(* claiming a delivery row and sending.                                    *)
(*                                                                         *)
(* A sweep keeps the clock it started with and the preferences of the page *)
(* it has loaded.  Meanwhile readers read and change their preferences,    *)
(* time passes, and another sweep may run.  The clock counts hours; a day  *)
(* has HoursPerDay of them.                                                *)
(***************************************************************************)
EXTENDS Integers, Sequences, FiniteSets

CONSTANTS
  NumUsers,        \* users, in the order of their ids
  Sweeps,          \* sweeps that may run at the same time
  SweepBatch,      \* NotificationsConfig.sweepBatch
  BudgetMayEnd,    \* whether a sweep may run out of sweepBudgetMs
  HoursPerDay,     \* 24
  MorningHour,     \* 8: no dailyFortune before it
  Friday,          \* the weekday of the weekly summary, in 0..6
  Patches,         \* what readers may ask to store
  InitialPrefs,    \* the preferences they start with
  Faults,          \* whether a query may fail and the process die in a sweep
  StartNow, MaxNow \* bounds of the exploration: the first and last hour

Users == 1..NumUsers
Never == -1

\* Zones are less than a day ahead or behind.
MaxZone == HoursPerDay

PrefsType ==
  [dailyFortune: BOOLEAN, streakReminder: BOOLEAN, weeklySummary: BOOLEAN,
   quietFromHour: Int, quietToHour: Int, dailyCap: Int,
   zone: -MaxZone..MaxZone, muteHours: Nat]

\* The columns a request may mention; the duration of a mute sets mutedUntil.
Columns == {"dailyFortune", "streakReminder", "weeklySummary", "quietFromHour",
            "quietToHour", "dailyCap", "zone", "mutedUntil"}

PatchType == [mentions: SUBSET Columns, values: PrefsType]

ASSUME SweepAssumption ==
  /\ NumUsers \in Nat /\ SweepBatch \in Nat \ {0} /\ BudgetMayEnd \in BOOLEAN
  /\ IsFiniteSet(Sweeps)
ASSUME ClockAssumption ==
  /\ HoursPerDay \in Nat \ {0} /\ MorningHour \in 0..(HoursPerDay - 1)
  /\ Friday \in 0..6
  /\ MaxNow \in Nat /\ StartNow \in 0..MaxNow /\ Faults \in BOOLEAN
ASSUME PatchesAssumption == Patches \subseteq PatchType /\ InitialPrefs \in PrefsType

VARIABLES
  now,         \* the server clock
  eligible,    \* users with onboarding completed and a Telegram chat
  prefs,       \* NotificationPreference rows
  lastReading, \* when each user last opened a fortune
  deliveries,  \* NotificationDelivery rows
  messages,    \* how often Telegram delivered each message
  tasks        \* where each sweep is

vars == <<now, eligible, prefs, lastReading, deliveries, messages, tasks>>

-----------------------------------------------------------------------------
(* The plan: pure rules over a clock, preferences and recent history.      *)

Kinds == {"streakReminder", "dailyFortune", "weeklySummary"}

\* Local wall-clock fields of a time in a zone, an offset in hours.
DateKey(at, zone) == (at + zone) \div HoursPerDay
LocalHour(at, zone) == (at + zone) % HoursPerDay
Weekday(at, zone) == DateKey(at, zone) % 7

IsQuiet(hour, from, to) ==
  \/ from < to /\ from <= hour /\ hour < to
  \/ from > to /\ (from <= hour \/ hour < to)

Clamp(value, low, high) ==
  IF value < low THEN low ELSE IF value > high THEN high ELSE value

DaysSince(at, last) == (at - last) \div HoursPerDay

\* Which kinds are worth saying to a reader at a time, whatever was sent.
Wanted(kind, at, p, last) ==
  CASE kind = "streakReminder" ->
         /\ p.streakReminder /\ last # Never
         /\ DaysSince(at, last) >= 3 /\ DaysSince(at, last) % 7 = 3
    [] kind = "dailyFortune" ->
         /\ p.dailyFortune /\ LocalHour(at, p.zone) >= MorningHour
         /\ ~(last # Never /\ DateKey(last, p.zone) = DateKey(at, p.zone))
    [] kind = "weeklySummary" ->
         p.weeklySummary /\ Weekday(at, p.zone) = Friday

\* Slip: each kind is checked against the cap on its own.
UncutPlan(at, p, last, sentToday) ==
  LET After(plans, kind) ==
        IF /\ kind \notin sentToday /\ Wanted(kind, at, p, last)
           /\ Cardinality(sentToday) < p.dailyCap
        THEN Append(plans, kind) ELSE plans
  IN  IF \/ p.mutedUntil > at
         \/ IsQuiet(LocalHour(at, p.zone), p.quietFromHour, p.quietToHour)
      THEN << >>
      ELSE After(After(After(<< >>, "streakReminder"), "dailyFortune"),
                 "weeklySummary")

\* Every gate is a reason not to send; the kinds are considered in the order of
\* their priority and the daily cap cuts the list.
DecideNotifications(at, p, last, sentToday) ==
  LET remaining == p.dailyCap - Cardinality(sentToday)
      After(plans, kind) ==
        IF /\ kind \notin sentToday /\ Wanted(kind, at, p, last)
           /\ Len(plans) < remaining
        THEN Append(plans, kind) ELSE plans
  IN  IF \/ p.mutedUntil > at
         \/ IsQuiet(LocalHour(at, p.zone), p.quietFromHour, p.quietToHour)
         \/ remaining <= 0
      THEN << >>
      ELSE After(After(After(<< >>, "streakReminder"), "dailyFortune"),
                 "weeklySummary")

-----------------------------------------------------------------------------
\* The values as the row holds them.
Stored(values, at) ==
  [dailyFortune |-> values.dailyFortune,
   streakReminder |-> values.streakReminder,
   weeklySummary |-> values.weeklySummary,
   quietFromHour |-> Clamp(values.quietFromHour, 0, HoursPerDay - 1),
   quietToHour |-> Clamp(values.quietToHour, 0, HoursPerDay - 1),
   dailyCap |-> Clamp(values.dailyCap, 0, 5),
   zone |-> values.zone,
   mutedUntil |-> IF values.muteHours > 0 THEN at + values.muteHours ELSE Never]

\* A row after a request: the columns it does not mention stay as they are.
Patched(row, patch, at) ==
  LET stored == Stored(patch.values, at)
  IN  [column \in Columns |->
         IF column \in patch.mentions THEN stored[column] ELSE row[column]]

DateKeys == -1..((MaxNow + MaxZone) \div HoursPerDay)

Idle == [pc |-> "idle"]
Become(s, task) == tasks' = [tasks EXCEPT ![s] = task]
IsAt(s, pc) == tasks[s].pc = pc

Init ==
  /\ now = StartNow
  /\ eligible \in SUBSET Users
  /\ prefs = [u \in Users |-> Stored(InitialPrefs, StartNow)]
  /\ lastReading \in [Users -> {Never, 0}]
  /\ deliveries = {}
  /\ messages = [u \in Users |-> [k \in Kinds |-> [d \in DateKeys |-> 0]]]
  /\ tasks = [s \in Sweeps |-> Idle]

\* The scheduler's tick, with the feature flag on; off, nothing happens.
StartSweep(s) ==
  /\ IsAt(s, "idle")
  /\ Become(s, [pc |-> "page", now |-> now, cursor |-> 0])
  /\ UNCHANGED <<now, eligible, prefs, lastReading, deliveries, messages>>

SweepDisabled(s) == IsAt(s, "idle") /\ UNCHANGED vars

\* Slip: the cursor stays at the first page.
PageFromStart(cursor) ==
  {u \in eligible : Cardinality({v \in eligible : v <= u}) <= SweepBatch}

\* The next SweepBatch eligible users after the cursor, in id order.
PageAfter(cursor) ==
  LET rest == {u \in eligible : u > cursor}
  IN  {u \in rest : Cardinality({v \in rest : v <= u}) <= SweepBatch}

\* The page comes with the preferences of its readers, as they are now.
LoadPage(s) ==
  /\ IsAt(s, "page")
  /\ LET page == PageAfter(tasks[s].cursor)
     IN  Become(s,
           IF page = {} THEN Idle
           ELSE [pc |-> "readers", now |-> tasks[s].now,
                 readers |-> [u \in page |-> prefs[u]],
                 cursor |-> CHOOSE u \in page : \A v \in page : v <= u,
                 exhausted |-> Cardinality(page) < SweepBatch])
  /\ UNCHANGED <<now, eligible, prefs, lastReading, deliveries, messages>>

SentToday(u, dateKey) ==
  {d.kind : d \in {e \in deliveries : e.user = u /\ e.dateKey = dateKey}}

\* The reader a sweep considers next.
Current(s) ==
  LET page == DOMAIN tasks[s].readers
  IN  CHOOSE u \in page : \A v \in page : u <= v

Others(s) ==
  [v \in DOMAIN tasks[s].readers \ {Current(s)} |-> tasks[s].readers[v]]

\* History is read and the plan decided, for the reader at hand.
ConsiderReader(s) ==
  /\ IsAt(s, "readers") /\ DOMAIN tasks[s].readers # {}
  /\ LET u == Current(s)
         p == tasks[s].readers[u]
         dateKey == DateKey(tasks[s].now, p.zone)
     IN  Become(s, [pc |-> "claim", now |-> tasks[s].now,
                    readers |-> Others(s), cursor |-> tasks[s].cursor,
                    exhausted |-> tasks[s].exhausted,
                    user |-> u, dateKey |-> dateKey,
                    plans |-> DecideNotifications(tasks[s].now, p,
                                lastReading[u], SentToday(u, dateKey))])
  /\ UNCHANGED <<now, eligible, prefs, lastReading, deliveries, messages>>

\* A plan done with, the sweep turns to the next one.
PlanDone(s) ==
  Become(s, [tasks[s] EXCEPT !.pc = "claim", !.plans = Tail(@)])

PlansExhausted(s) ==
  /\ IsAt(s, "claim") /\ tasks[s].plans = << >>
  /\ Become(s, [pc |-> "readers", now |-> tasks[s].now,
                readers |-> tasks[s].readers, cursor |-> tasks[s].cursor,
                exhausted |-> tasks[s].exhausted])
  /\ UNCHANGED <<now, eligible, prefs, lastReading, deliveries, messages>>

\* Slip: no unique key on (userId, kind, dateKey).
SlotNeverTaken(u, kind, dateKey) == FALSE

SlotTaken(u, kind, dateKey) ==
  \E d \in deliveries : <<d.user, d.kind, d.dateKey>> = <<u, kind, dateKey>>

\* The delivery row first; a duplicate key, or any error, gives the plan up.
Claim(s) ==
  /\ IsAt(s, "claim") /\ tasks[s].plans # << >>
  /\ LET u == tasks[s].user
         kind == Head(tasks[s].plans)
         dateKey == tasks[s].dateKey
     IN  \/ /\ ~SlotTaken(u, kind, dateKey)
            /\ deliveries' = deliveries \cup
                 {[user |-> u, kind |-> kind, dateKey |-> dateKey,
                   createdAt |-> now]}
            /\ Become(s, [tasks[s] EXCEPT !.pc = "send"])
         \/ /\ PlanDone(s)
            /\ UNCHANGED deliveries
  /\ UNCHANGED <<now, eligible, prefs, lastReading, messages>>

\* Delivered, refused or lost on the way: the row stays, nothing is retried.
Send(s) ==
  /\ IsAt(s, "send")
  /\ \/ messages' = [messages EXCEPT
          ![tasks[s].user][Head(tasks[s].plans)][tasks[s].dateKey] = @ + 1]
     \/ UNCHANGED messages
  /\ PlanDone(s)
  /\ UNCHANGED <<now, eligible, prefs, lastReading, deliveries>>

\* After a page: stop when it was the last or the budget is spent, or go on.
EndPage(s) ==
  /\ IsAt(s, "readers") /\ DOMAIN tasks[s].readers = {}
  /\ \/ /\ tasks[s].exhausted \/ BudgetMayEnd
        /\ Become(s, Idle)
     \/ /\ ~tasks[s].exhausted
        /\ Become(s, [pc |-> "page", now |-> tasks[s].now,
                      cursor |-> tasks[s].cursor])
  /\ UNCHANGED <<now, eligible, prefs, lastReading, deliveries, messages>>

\* The query for a page, or for a reader's history, fails: this sweep throws.
QueryFails(s) ==
  /\ Faults
  /\ IsAt(s, "page") \/ (IsAt(s, "readers") /\ DOMAIN tasks[s].readers # {})
  /\ Become(s, Idle)
  /\ UNCHANGED <<now, eligible, prefs, lastReading, deliveries, messages>>

-----------------------------------------------------------------------------
(* Readers, the clock, and the process.                                    *)

Update(u, patch) ==
  /\ prefs' = [prefs EXCEPT ![u] = Patched(@, patch, now)]
  /\ UNCHANGED <<now, eligible, lastReading, deliveries, messages, tasks>>

OpenFortune(u) ==
  /\ lastReading' = [lastReading EXCEPT ![u] = now]
  /\ UNCHANGED <<now, eligible, prefs, deliveries, messages, tasks>>

CompleteOnboarding(u) ==
  /\ u \notin eligible
  /\ eligible' = eligible \cup {u}
  /\ UNCHANGED <<now, prefs, lastReading, deliveries, messages, tasks>>

Tick ==
  /\ now < MaxNow
  /\ now' = now + 1
  /\ UNCHANGED <<eligible, prefs, lastReading, deliveries, messages, tasks>>

Crash ==
  /\ Faults
  /\ \E s \in Sweeps : ~IsAt(s, "idle")
  /\ tasks' = [s \in Sweeps |-> Idle]
  /\ UNCHANGED <<now, eligible, prefs, lastReading, deliveries, messages>>

Step(s) ==
  \/ LoadPage(s) \/ ConsiderReader(s) \/ PlansExhausted(s)
  \/ Claim(s) \/ Send(s) \/ EndPage(s)

Environment ==
  \/ \E u \in Users :
       \/ OpenFortune(u) \/ CompleteOnboarding(u)
       \/ \E patch \in Patches : Update(u, patch)
  \/ Tick \/ Crash

Next ==
  \/ \E s \in Sweeps :
       StartSweep(s) \/ SweepDisabled(s) \/ QueryFails(s) \/ Step(s)
  \/ Environment

Spec == Init /\ [][Next]_vars

\* The scheduler keeps ticking, the flag stays on, and awaits are answered.
FairSpec == Spec /\ \A s \in Sweeps : WF_vars(StartSweep(s) \/ Step(s))

-----------------------------------------------------------------------------
StoredType ==
  [dailyFortune: BOOLEAN, streakReminder: BOOLEAN, weeklySummary: BOOLEAN,
   quietFromHour: 0..(HoursPerDay - 1), quietToHour: 0..(HoursPerDay - 1),
   dailyCap: 0..5, zone: -MaxZone..MaxZone, mutedUntil: Nat \cup {Never}]

DeliveryRow == [user: Users, kind: Kinds, dateKey: DateKeys, createdAt: Nat]

\* Where a sweep is; rest are the readers of its page not considered yet, with
\* the preferences the page came with.
Task(rest) ==
  {Idle}
  \cup [pc: {"page"}, now: 0..MaxNow, cursor: Nat]
  \cup [pc: {"readers"}, now: 0..MaxNow, readers: [rest -> StoredType],
        cursor: Nat, exhausted: BOOLEAN]
  \cup [pc: {"claim", "send"}, now: 0..MaxNow, readers: [rest -> StoredType],
        cursor: Nat, exhausted: BOOLEAN, user: Users, dateKey: DateKeys,
        plans: Seq(Kinds)]

TaskOK(task) == \E rest \in SUBSET Users : task \in Task(rest)

\* Types of the tables, and of where a sweep stands.
TypeOK ==
  /\ now \in 0..MaxNow
  /\ eligible \subseteq Users
  /\ prefs \in [Users -> StoredType]
  /\ lastReading \in [Users -> Nat \cup {Never}]
  /\ deliveries \subseteq DeliveryRow
  /\ messages \in [Users -> [Kinds -> [DateKeys -> Nat]]]
  /\ tasks = [s \in Sweeps |-> tasks[s]]
  /\ \A s \in Sweeps : TaskOK(tasks[s])

RowsOf(u, dateKey) == {d \in deliveries : d.user = u /\ d.dateKey = dateKey}

\* Sweeps that race, run twice or are cut short by a crash never deliver a
\* message twice, and none is delivered without its row.
NoDuplicateMessage ==
  \A u \in Users, k \in Kinds, d \in DateKeys :
    messages[u][k][d] <= Cardinality({r \in RowsOf(u, d) : r.kind = k})
    /\ messages[u][k][d] <= 1

\* The highest daily cap that any reader starts with or stores.
CapPrefs ==
  {InitialPrefs} \cup {p.values : p \in {q \in Patches : "dailyCap" \in q.mentions}}
Cap ==
  LET caps == {Clamp(p.dailyCap, 0, 5) : p \in CapPrefs}
  IN  CHOOSE c \in caps : \A d \in caps : d <= c

\* What racing sweeps can add to the cap: each its own share, no more, however
\* readers change their caps meanwhile.
CapOvershootBounded ==
  \A u \in Users, d \in DateKeys :
    Cardinality(RowsOf(u, d)) <= Cardinality(Sweeps) * Cap

Considered(u) ==
  \E s \in Sweeps : IsAt(s, "claim") /\ tasks[s].user = u

\* Every eligible reader is considered again and again, also those whose page
\* comes last.
EveryReaderConsidered ==
  \A u \in Users : u \in eligible ~> Considered(u)

-----------------------------------------------------------------------------
(***************************************************************************)
(* The inductive invariant of NotificationsProofs.                         *)
(***************************************************************************)
\* One row for each message of a day, as the unique key has it.
RowsUnique ==
  /\ IsFiniteSet(deliveries)
  /\ \A d, e \in deliveries :
       <<d.user, d.kind, d.dateKey>> = <<e.user, e.kind, e.dateKey>> => d = e

\* The message a sweep is about to send is claimed, by it alone, and was never
\* delivered.
SendsItsOwn ==
  /\ \A s \in Sweeps :
       IsAt(s, "send") =>
         LET t == tasks[s]
             kind == Head(t.plans)
         IN  /\ t.plans # << >>
             /\ SlotTaken(t.user, kind, t.dateKey)
             /\ messages[t.user][kind][t.dateKey] = 0
  /\ \A r, s \in Sweeps :
       /\ IsAt(r, "send") /\ IsAt(s, "send")
       /\ <<tasks[r].user, Head(tasks[r].plans), tasks[r].dateKey>> =
            <<tasks[s].user, Head(tasks[s].plans), tasks[s].dateKey>>
       => r = s

\* A delivered message was delivered once, and has its row.
DeliveredOnce ==
  \A u \in Users, k \in Kinds, d \in DateKeys :
    /\ messages[u][k][d] <= 1
    /\ messages[u][k][d] = 1 => SlotTaken(u, k, d)

IInv == TypeOK /\ RowsUnique /\ SendsItsOwn /\ DeliveredOnce

\* How many messages of a reader's day a sweep has planned and not claimed.
Left(t, u, d) ==
  IF t.pc \in {"claim", "send"} /\ t.user = u /\ t.dateKey = d
  THEN Len(t.plans) - (IF t.pc = "send" THEN 1 ELSE 0)
  ELSE 0

Planned(u, d) == UNION {{s} \X (1..Left(tasks[s], u, d)) : s \in Sweeps}

\* Rows and plans together stay within every sweep's share.
CapInv ==
  /\ \A u \in Users : prefs[u].dailyCap <= Cap
  /\ \A s \in Sweeps :
       /\ tasks[s].pc \in {"readers", "claim", "send"} =>
            \A u \in DOMAIN tasks[s].readers : tasks[s].readers[u].dailyCap <= Cap
       /\ \A u \in Users, d \in DateKeys : Left(tasks[s], u, d) <= Cap
  /\ \A u \in Users, d \in DateKeys :
       Cardinality(RowsOf(u, d)) + Cardinality(Planned(u, d))
         <= Cardinality(Sweeps) * Cap
=============================================================================
