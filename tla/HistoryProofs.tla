--------------------------- MODULE HistoryProofs ----------------------------
(***************************************************************************)
(* What is proved of History, for any number of requests, readings and     *)
(* reflections and for pages of any size: the inductive invariant, and     *)
(* from it every invariant the run checks.                                 *)
(***************************************************************************)
EXTENDS History, FiniteSetTheorems, SequenceTheorems, TLAPS

-----------------------------------------------------------------------------
(* Rows in order.                                                          *)

\* Rows with ids of their own are as many as their ids.
LEMMA RowsAndIds ==
  ASSUME NEW rows, Distinct(rows), IdsOf(rows) \subseteq Ids
  PROVE  IsFiniteSet(rows) /\ Cardinality(IdsOf(rows)) = Cardinality(rows)
<1> DEFINE id == [r \in rows |-> r.id]
<1>1. id \in Injection(rows, Ids)
  BY DEF Distinct, IdsOf, Injection, IsInjective
<1>2. IsFiniteSet(rows)
  BY <1>1, FS_Injection, HistoryAssumption
<1>3. id \in Bijection(rows, IdsOf(rows))
  BY DEF Distinct, IdsOf, Bijection, Injection, Surjection, IsInjective
<1>4. ExistsBijection(rows, IdsOf(rows))
  BY <1>3 DEF ExistsBijection
<1> QED
  BY <1>2, <1>4, FS_Bijection

\* What Newest needs of rows.
Dated(rows) ==
  IsFiniteSet(rows) /\ Distinct(rows) /\ \A r \in rows : r.at \in Int /\ r.id \in Int

\* Of two rows, one comes before the other, and the order is transitive.
LEMMA BeforeIsAnOrder ==
  ASSUME NEW rows, Dated(rows)
  PROVE  /\ \A r, s \in rows : r = s \/ Before(r, s) \/ Before(s, r)
         /\ \A r, s \in rows : ~(Before(r, s) /\ Before(s, r))
         /\ \A r, s, t \in rows : Before(r, s) /\ Before(s, t) => Before(r, t)
BY DEF Dated, Distinct, Before

\* Rows can be put in order: each at the place given by how many come before it.
LEMMA RowsCanBeSorted ==
  ASSUME NEW rows, Dated(rows)
  PROVE  \E list \in [1..Cardinality(rows) -> rows] :
           \A i, j \in DOMAIN list : i < j => Before(list[i], list[j])
<1> DEFINE n == Cardinality(rows)
           ahead(r) == {s \in rows : Before(s, r)}
           place == [r \in rows |-> Cardinality(ahead(r)) + 1]
<1>0. IsFiniteSet(rows) /\ n \in Nat
  BY FS_CardinalityType DEF Dated
<1>1. ASSUME NEW r \in rows
      PROVE  IsFiniteSet(ahead(r)) /\ Cardinality(ahead(r)) \in Nat /\ place[r] \in 1..n
  <2>1. ahead(r) \in SUBSET rows /\ r \notin ahead(r)
    BY BeforeIsAnOrder
  <2>2. IsFiniteSet(ahead(r)) /\ Cardinality(ahead(r)) <= n
    BY <1>0, <2>1, FS_Subset
  <2>3. Cardinality(ahead(r)) \in Nat
    BY <2>2, FS_CardinalityType
  <2>4. Cardinality(ahead(r)) # n
    BY <1>0, <2>1, FS_Subset
  <2> QED
    BY <1>0, <2>2, <2>3, <2>4
<1>2. ASSUME NEW r \in rows, NEW s \in rows, Before(r, s)
      PROVE  place[r] < place[s]
  <2>1. ahead(r) \in SUBSET ahead(s) /\ r \in ahead(s) /\ r \notin ahead(r)
    BY <1>2, BeforeIsAnOrder
  <2>2. Cardinality(ahead(r)) <= Cardinality(ahead(s))
    BY <1>1, <2>1, FS_Subset
  <2>3. Cardinality(ahead(r)) # Cardinality(ahead(s))
    BY <1>1, <2>1, FS_Subset
  <2> QED
    BY <1>1, <2>2, <2>3
<1>3. place \in Surjection(rows, 1..n)
  <2>1. place \in [rows -> 1..n]
    BY <1>1
  <2>2. \A r, s \in rows : place[r] = place[s] => r = s
    <3> SUFFICES ASSUME NEW r \in rows, NEW s \in rows, place[r] = place[s], r # s
                 PROVE  FALSE
      OBVIOUS
    <3>1. place[r] < place[s] \/ place[s] < place[r]
      BY <1>2, BeforeIsAnOrder
    <3>2. place[r] \in Int /\ place[s] \in Int
      BY <1>1
    <3> HIDE DEF place
    <3> QED
      BY <3>1, <3>2
  <2> HIDE DEF place
  <2>3. place \in Injection(rows, 1..n)
    BY <2>1, <2>2 DEF Injection, IsInjective
  <2>4. IsFiniteSet(1..n) /\ Cardinality(1..n) = n
    BY <1>0, FS_Interval
  <2> QED
    BY <2>3, <2>4, FS_Injection
<1> HIDE DEF place
<1> DEFINE list == [k \in 1..n |-> CHOOSE r \in rows : place[r] = k]
<1>4. \A k \in 1..n : list[k] \in rows /\ place[list[k]] = k
  BY <1>3 DEF Surjection
<1>5. ASSUME NEW i \in 1..n, NEW j \in 1..n, i < j
      PROVE  Before(list[i], list[j])
  <2>1. list[i] # list[j]
    BY <1>4, <1>5
  <2>2. ~Before(list[j], list[i])
    BY <1>2, <1>4, <1>5
  <2> QED
    BY <1>4, <2>1, <2>2, BeforeIsAnOrder
<1>6. list \in [1..n -> rows] /\ DOMAIN list = 1..n
  BY <1>4
<1> HIDE DEF list
<1> QED
  BY <1>5, <1>6

\* Newest lists each row once, in order.
LEMMA NewestLists ==
  ASSUME NEW rows, Dated(rows)
  PROVE  LET list == Newest(rows)
         IN  /\ list \in Seq(rows) /\ Len(list) = Cardinality(rows)
             /\ DOMAIN list = 1..Len(list) /\ Len(list) \in Nat
             /\ Range(list) = rows /\ IsInjective(list)
             /\ \A i, j \in DOMAIN list : i < j => Before(list[i], list[j])
<1> DEFINE n == Cardinality(rows)
           list == Newest(rows)
<1>0. IsFiniteSet(rows) /\ n \in Nat
  BY FS_CardinalityType DEF Dated
<1>1. /\ list \in [1..n -> rows]
      /\ \A i, j \in DOMAIN list : i < j => Before(list[i], list[j])
  BY RowsCanBeSorted DEF Newest
<1> HIDE DEF list, n
<1>2. list \in Seq(rows) /\ Len(list) = n /\ DOMAIN list = 1..n
  BY <1>0, <1>1, SeqDef
<1>3. \A i, j \in 1..n : list[i] = list[j] => i = j
  <2> SUFFICES ASSUME NEW i \in 1..n, NEW j \in 1..n, list[i] = list[j], i < j
               PROVE  FALSE
    BY <1>0
  <2>1. Before(list[i], list[j])
    BY <1>1
  <2> QED
    BY <1>1, <2>1, BeforeIsAnOrder
<1>4. list \in Injection(1..n, rows) /\ IsInjective(list)
  BY <1>1, <1>3 DEF Injection, IsInjective
<1>5. IsFiniteSet(1..n) /\ Cardinality(1..n) = n
  BY <1>0, FS_Interval
<1>6. list \in Surjection(1..n, rows)
  BY <1>0, <1>4, <1>5, FS_Injection DEF n
<1>7. Range(list) = rows
  BY <1>1, <1>2, <1>6 DEF Surjection, Range
<1> QED
  BY <1>0, <1>1, <1>2, <1>4, <1>7 DEF list, n

-----------------------------------------------------------------------------
(* The steps that write rows.                                              *)

\* What the step a request is at says of what it carries.
LEMMA CarriedBy ==
  ASSUME NEW t, Carries(t)
  PROVE  /\ t.pc = "page" => t \in Pages
         /\ t.pc \in {"find", "create"} => t \in Looks
         /\ t.pc = "update" => t \in Updates
BY DEF Carries, Idle, Pages, Looks, Updates

Stand == UNCHANGED <<now, readings, used, reflections>>

\* Only the changes the reader makes, two steps of a save, and time change them.
LEMMA Writers ==
  ASSUME [Next]_vars
  PROVE  \/ Stand
         \/ \E h \in Handlers : UpdateReflection(h) \/ CreateReflection(h)
         \/ CreateReading \/ DeleteReading \/ ClearHistory \/ SetSaved
         \/ RemoveReflection \/ Hour
<1>1. CASE UNCHANGED vars
  BY <1>1 DEF vars, Stand
<1>2. ASSUME NEW h \in Handlers,
             \/ Summarize(h) \/ StartWalk(h) \/ SaveReflection(h) \/ QueryFails(h)
             \/ ReadProfile(h) \/ Cached(h) \/ AskModel(h) \/ Remember(h) \/ Page(h)
             \/ ExistingId(h)
      PROVE  Stand
  BY <1>2 DEF Stand, Summarize, StartWalk, SaveReflection, QueryFails, ReadProfile,
              Cached, AskModel, Remember, Page, ExistingId
<1>3. CASE SetOptOut
  BY <1>3 DEF SetOptOut, Stand
<1> QED
  BY <1>1, <1>2, <1>3 DEF Next, HandlerStep

\* The start.
LEMMA RowsInit ==
  ASSUME Init
  PROVE  Rows
<1>1. /\ now = StartNow /\ now \in 0..MaxNow /\ reflections = StoredReflections
      /\ used = [readings |-> IdsOf(readings), reflections |-> IdsOf(reflections)]
      /\ readings \in Stored
  BY HistoryAssumption DEF Init
<1>2. /\ readings \subseteq Reading /\ Distinct(readings)
      /\ \A r \in readings : r.at <= now /\ r.savedAt <= now
      /\ reflections \subseteq Entry /\ Distinct(reflections) /\ OnePerReading(reflections)
      /\ \A e \in reflections : e.at <= now
  BY <1>1, StoredAssumption
<1>3. IdsOf(readings) \subseteq Ids /\ IdsOf(reflections) \subseteq Ids
  BY <1>2 DEF IdsOf, Reading, Entry
<1> QED
  BY <1>1, <1>2, <1>3 DEF Rows

\* Every write keeps ids apart, and no two reflections are on one reading.
LEMMA RowsStep ==
  ASSUME Rows, Tasks, [Next]_vars
  PROVE  Rows'
<1> USE DEF Rows
<1>1. CASE Stand
  BY <1>1 DEF Stand
<1>2. ASSUME NEW h \in Handlers, UpdateReflection(h)
      PROVE  Rows'
  <2> DEFINE t == tasks[h]
             there == {e \in reflections : e.id = t.id}
             edited(e) == [e EXCEPT !.note = t.note]
             written == {edited(e) : e \in there}
  <2>1. /\ reflections' = (reflections \ there) \cup written
        /\ UNCHANGED <<now, readings, used>>
    BY <1>2 DEF UpdateReflection
  <2>2. t.note \in Notes
    BY <1>2, CarriedBy DEF UpdateReflection, IsAt, Tasks, Updates
  <2>3. \A e \in reflections :
          /\ edited(e) \in Entry /\ edited(e).id = e.id
          /\ edited(e).at = e.at /\ edited(e).reading = e.reading
    BY <2>2 DEF Entry
  <2> HIDE DEF t, edited
  <2>4. \A e \in reflections' : \E d \in reflections :
          /\ d.id = e.id /\ d.at = e.at /\ d.reading = e.reading
          /\ e = IF d.id = t.id THEN edited(d) ELSE d
    <3> TAKE e \in reflections'
    <3>1. CASE e \in reflections \ there
      BY <3>1
    <3>2. CASE e \in written
      BY <2>3, <3>2
    <3> QED
      BY <2>1, <3>1, <3>2
  <2>6. Distinct(reflections')
    BY <2>4 DEF Distinct
  <2>7. OnePerReading(reflections')
    BY <2>4 DEF OnePerReading
  <2>8. /\ reflections' \subseteq Entry /\ \A e \in reflections' : e.at <= now
        /\ IdsOf(reflections') \subseteq used.reflections
    BY <2>1, <2>3, <2>4 DEF IdsOf
  <2> QED
    BY <2>1, <2>6, <2>7, <2>8
<1>3. ASSUME NEW h \in Handlers, CreateReflection(h)
      PROVE  Rows'
  <2> DEFINE t == tasks[h]
  <2>1. t.note \in Notes /\ t.reading \in Reflected /\ UNCHANGED <<now, readings>>
    BY <1>3, CarriedBy DEF CreateReflection, IsAt, Tasks, Looks
  <2>2. CASE EntriesOn(t.reading) = {}
    <3>1. PICK n \in Ids \ used.reflections :
            /\ reflections' = reflections \cup
                 {[id |-> n, reading |-> t.reading, note |-> t.note, at |-> now]}
            /\ used' = [used EXCEPT !.reflections = @ \cup {n}]
      BY <1>3, <2>2 DEF CreateReflection
    <3> DEFINE e == [id |-> n, reading |-> t.reading, note |-> t.note, at |-> now]
    <3>2. /\ e \in Entry /\ e.id = n /\ e.at = now /\ e.reading = t.reading
          /\ now <= now
      BY <2>1 DEF Entry
    <3>3. \A d \in reflections : d.id # n
      BY DEF IdsOf
    <3>4. \A d \in reflections : d.reading = t.reading => t.reading = Standalone
      BY <2>2 DEF EntriesOn
    <3>5. /\ used'.readings = used.readings
          /\ used'.reflections = used.reflections \cup {n}
          /\ used' = [readings |-> used'.readings, reflections |-> used'.reflections]
      BY <3>1
    <3> HIDE DEF e, t
    <3>6. reflections' = reflections \cup {e}
      BY <3>1 DEF e
    <3>7. Distinct(reflections') /\ OnePerReading(reflections')
      BY <3>2, <3>3, <3>4, <3>6 DEF Distinct, OnePerReading
    <3>8. IdsOf(reflections') \subseteq used'.reflections
      BY <3>2, <3>5, <3>6 DEF IdsOf
    <3>9. IdsOf(readings') \subseteq used'.readings /\ Distinct(readings')
      BY <2>1, <3>5
    <3> QED
      BY <2>1, <3>2, <3>5, <3>6, <3>7, <3>8, <3>9
  <2>3. CASE EntriesOn(t.reading) # {}
    BY <1>3, <2>1, <2>3 DEF CreateReflection
  <2> QED
    BY <2>2, <2>3
<1>4. CASE CreateReading
  <2>1. PICK id \in Ids \ used.readings, f \in Fortunes :
          /\ readings' = readings \cup
               {[id |-> id, fortune |-> f, at |-> now, savedAt |-> NotSaved]}
          /\ used' = [used EXCEPT !.readings = @ \cup {id}]
          /\ UNCHANGED <<now, reflections>>
    BY <1>4 DEF CreateReading
  <2> DEFINE r == [id |-> id, fortune |-> f, at |-> now, savedAt |-> NotSaved]
  <2>2. r \in Reading /\ r.id = id /\ r.at <= now /\ r.savedAt <= now
    BY DEF Reading, NotSaved
  <2>3. \A s \in readings : s.id # id
    BY DEF IdsOf
  <2>4. /\ used'.reflections = used.reflections
        /\ used'.readings = used.readings \cup {id}
        /\ used' = [readings |-> used'.readings, reflections |-> used'.reflections]
    BY <2>1
  <2> HIDE DEF r
  <2>5. readings' = readings \cup {r}
    BY <2>1 DEF r
  <2>6. Distinct(readings') /\ IdsOf(readings') \subseteq used'.readings
    BY <2>2, <2>3, <2>4, <2>5 DEF Distinct, IdsOf
  <2>7. /\ IdsOf(reflections') \subseteq used'.reflections
        /\ Distinct(reflections') /\ OnePerReading(reflections')
    BY <2>1, <2>4
  <2> QED
    BY <2>1, <2>2, <2>4, <2>5, <2>6, <2>7
<1>5. CASE DeleteReading \/ ClearHistory
  <2>1. readings' \subseteq readings /\ UNCHANGED <<now, used, reflections>>
    BY <1>5 DEF DeleteReading, ClearHistory
  <2>2. Distinct(readings') /\ IdsOf(readings') \subseteq used.readings
    BY <2>1 DEF Distinct, IdsOf
  <2> QED
    BY <2>1, <2>2
<1>6. CASE SetSaved
  <2>1. PICK r \in readings, at \in {now, NotSaved} :
          /\ readings' = (readings \ {r}) \cup {[r EXCEPT !.savedAt = at]}
          /\ UNCHANGED <<now, used, reflections>>
    BY <1>6 DEF SetSaved
  <2> DEFINE s == [r EXCEPT !.savedAt = at]
  <2>2. s \in Reading /\ s.id = r.id /\ s.at <= now /\ s.savedAt <= now
    BY <2>1 DEF Reading, NotSaved
  <2> HIDE DEF s
  <2>3. readings' = (readings \ {r}) \cup {s}
    BY <2>1 DEF s
  <2>4. Distinct(readings') /\ IdsOf(readings') \subseteq used.readings
    BY <2>2, <2>3 DEF Distinct, IdsOf
  <2> QED
    BY <2>1, <2>2, <2>3, <2>4
<1>7. CASE RemoveReflection
  <2>1. reflections' \subseteq reflections /\ UNCHANGED <<now, used, readings>>
    BY <1>7 DEF RemoveReflection
  <2>2. /\ Distinct(reflections') /\ OnePerReading(reflections')
        /\ IdsOf(reflections') \subseteq used.reflections
    BY <2>1 DEF Distinct, OnePerReading, IdsOf
  <2> QED
    BY <2>1, <2>2
<1>8. CASE Hour
  <2>1. now' \in 0..MaxNow /\ now' = now + 1 /\ UNCHANGED <<readings, used, reflections>>
    BY <1>8, HistoryAssumption DEF Hour
  <2>2. \A r \in readings : r.at <= now' /\ r.savedAt <= now'
    BY <2>1, HistoryAssumption DEF Reading, NotSaved
  <2>3. \A e \in reflections : e.at <= now'
    BY <2>1, HistoryAssumption DEF Entry
  <2> QED
    BY <2>1, <2>2, <2>3
<1> QED
  BY Writers, <1>1, <1>2, <1>3, <1>4, <1>5, <1>6, <1>7, <1>8

-----------------------------------------------------------------------------
(* What requests carry.                                                    *)

LEMMA BecomesOne ==
  ASSUME Tasks, NEW h \in Handlers, NEW task, Become(h, task)
  PROVE  /\ tasks'[h] = task /\ \A g \in Handlers \ {h} : tasks'[g] = tasks[g]
         /\ tasks' = [g \in Handlers |-> tasks'[g]]
BY DEF Become, Tasks

LEMMA CarriesOn ==
  ASSUME Tasks, NEW h \in Handlers, NEW task, Become(h, task), Carries(task)
  PROVE  Tasks'
BY BecomesOne DEF Tasks

\* A walk that takes note of a touched row, a save that takes note of a race.
LEMMA TakesNote ==
  ASSUME NEW t, Carries(t), NEW ids \in SUBSET Ids
  PROVE  /\ t.pc = "page" => [t EXCEPT !.touched = @ \cup ids] \in Pages
         /\ t.pc \in {"find", "create"} => [t EXCEPT !.raced = TRUE] \in Looks
         /\ t.pc = "update" => [t EXCEPT !.raced = TRUE] \in Updates
<1>1. ASSUME t \in Pages PROVE [t EXCEPT !.touched = @ \cup ids] \in Pages
  BY <1>1 DEF Pages
<1>2. ASSUME t \in Looks PROVE [t EXCEPT !.raced = TRUE] \in Looks
  BY <1>2 DEF Looks
<1>3. ASSUME t \in Updates PROVE [t EXCEPT !.raced = TRUE] \in Updates
  BY <1>3 DEF Updates
<1> QED
  BY <1>1, <1>2, <1>3, CarriedBy, Zenon

LEMMA TouchingCarries ==
  ASSUME Tasks, NEW walks, NEW ids \in SUBSET Ids, Touching(walks, ids)
  PROVE  Tasks'
<1>1. \A h \in Handlers : tasks'[h] =
        IF IsAt(h, "page") /\ tasks[h].kind \in walks
        THEN [tasks[h] EXCEPT !.touched = @ \cup ids] ELSE tasks[h]
  BY DEF Touching
<1>2. ASSUME NEW h \in Handlers
      PROVE  Carries(tasks'[h])
  <2>1. Carries(tasks[h])
    BY DEF Tasks
  <2>2. IsAt(h, "page") => [tasks[h] EXCEPT !.touched = @ \cup ids] \in Pages
    BY <2>1, TakesNote DEF IsAt
  <2> QED
    BY <1>1, <2>1, <2>2, Zenon DEF Carries
<1> QED
  BY <1>2 DEF Tasks, Touching

LEMMA RacingCarries ==
  ASSUME Tasks, NEW reading, NEW h \in Handlers, NEW task, Carries(task),
         RacingSaves(reading, h, task)
  PROVE  Tasks'
<1>1. \A g \in Handlers : tasks'[g] =
        IF g = h THEN task
        ELSE IF tasks[g].pc \in {"find", "update", "create"}
                /\ reading # Standalone /\ tasks[g].reading = reading
        THEN [tasks[g] EXCEPT !.raced = TRUE] ELSE tasks[g]
  BY DEF RacingSaves
<1>2. ASSUME NEW g \in Handlers
      PROVE  Carries(tasks'[g])
  <2>1. Carries(tasks[g])
    BY DEF Tasks
  <2>2. tasks[g].pc \in {"find", "update", "create"} =>
          [tasks[g] EXCEPT !.raced = TRUE] \in Looks \cup Updates
    BY <2>1, TakesNote
  <2> QED
    BY <1>1, <2>1, <2>2, Zenon DEF Carries
<1> QED
  BY <1>2 DEF Tasks, RacingSaves

\* The rows of a list are in order of their times and ids.
LEMMA ListsAreDated ==
  ASSUME Rows, NEW walk \in Walks
  PROVE  /\ Dated(RowsOf(walk)) /\ IdsOf(RowsOf(walk)) \subseteq Ids
         /\ \A r \in RowsOf(walk) : r.at \in 0..now
<1> DEFINE rows == RowsOf(walk)
<1>0. now \in Nat /\ Ids \subseteq Nat
  BY HistoryAssumption DEF Rows
<1>1. /\ Distinct(rows) /\ IdsOf(rows) \subseteq Ids
      /\ \A r \in rows : r.at \in 0..now
  <2>1. CASE walk = "history"
    <3>1. rows = {[id |-> r.id, at |-> r.at] : r \in readings}
      BY <2>1 DEF RowsOf
    <3> QED
      BY <1>0, <3>1 DEF Rows, Distinct, IdsOf, Reading
  <2>2. CASE walk = "saved"
    <3>1. rows = {[id |-> r.id, at |-> r.savedAt] :
                   r \in {r \in readings : r.savedAt # NotSaved}}
      BY <2>2 DEF RowsOf
    <3> QED
      BY <1>0, <3>1 DEF Rows, Distinct, IdsOf, Reading
  <2>3. CASE walk = "reflections"
    <3>1. rows = {[id |-> e.id, at |-> e.at] : e \in reflections}
      BY <2>3 DEF RowsOf
    <3> QED
      BY <1>0, <3>1 DEF Rows, Distinct, IdsOf, Entry
  <2> QED
    BY <2>1, <2>2, <2>3 DEF Walks
<1> HIDE DEF rows
<1>2. IsFiniteSet(rows)
  BY <1>1, RowsAndIds
<1>3. \A r \in rows : r.id \in Ids
  BY <1>1 DEF IdsOf
<1>4. ASSUME NEW r \in rows PROVE r.at \in Int /\ r.id \in Int
  <2>1. r.at \in 0..now /\ r.id \in Ids
    BY <1>1, <1>3
  <2>2. \A i \in Ids : i \in Int
    BY <1>0
  <2>3. \A at \in 0..now : at \in Int
    BY <1>0
  <2> QED
    BY <2>1, <2>2, <2>3, Zenon
<1>5. Dated(rows)
  BY <1>1, <1>2, <1>4, Zenon DEF Dated
<1> QED
  BY <1>1, <1>5 DEF rows

\* What a page finds: everything, or what is behind the row of its cursor.
FoundBy(t) ==
  IF t.cursor = << >> THEN RowsOf(t.kind)
  ELSE IF t.cursor[1] \in IdsOf(RowsOf(t.kind))
  THEN RowsAfter(RowsOf(t.kind), t.cursor[1]) ELSE {}

LEMMA FoundIsDated ==
  ASSUME Rows, NEW t, t.kind \in Walks
  PROVE  /\ FoundBy(t) \in SUBSET RowsOf(t.kind)
         /\ Dated(FoundBy(t)) /\ IdsOf(FoundBy(t)) \subseteq Ids
<1>1. FoundBy(t) \in SUBSET RowsOf(t.kind)
  BY DEF FoundBy, RowsAfter
<1>2. Dated(RowsOf(t.kind)) /\ IdsOf(RowsOf(t.kind)) \subseteq Ids
  BY ListsAreDated
<1>3. IsFiniteSet(FoundBy(t))
  BY <1>1, <1>2, FS_Subset DEF Dated
<1> QED
  BY <1>1, <1>2, <1>3 DEF Dated, Distinct, IdsOf

LEMMA Smaller ==
  ASSUME NEW a \in Int, NEW b \in Int
  PROVE  Min({a, b}) = IF b > a THEN a ELSE b
<1> DEFINE m == IF b > a THEN a ELSE b
<1>1. m \in {a, b} /\ \A y \in {a, b} : m <= y
  OBVIOUS
<1>2. \A x \in {a, b} : (\A y \in {a, b} : x <= y) => x = m
  OBVIOUS
<1> HIDE DEF m
<1>3. Min({a, b}) = m
  BY <1>1, <1>2, Zenon DEF Min
<1> QED
  BY <1>3 DEF m

\* A page appends the first rows it finds, at most Limit, to what was shown.
ShownBy(t) ==
  LET list == Newest(FoundBy(t))
  IN  t.shown \o [i \in 1..Min({Limit, Len(list)}) |-> list[i].id]

LEMMA PageOf ==
  ASSUME Rows, NEW t \in Pages
  PROVE  LET list == Newest(FoundBy(t))
             size == Min({Limit, Len(list)})
         IN  /\ Len(list) \in Nat /\ DOMAIN list = 1..Len(list)
             /\ Range(list) = FoundBy(t) /\ IsInjective(list)
             /\ \A i, j \in DOMAIN list : i < j => Before(list[i], list[j])
             /\ size = IF Len(list) > Limit THEN Limit ELSE Len(list)
             /\ size \in 0..Len(list)
             /\ \A i \in DOMAIN list : list[i].id \in Ids
             /\ ShownBy(t) \in Seq(Ids)
             /\ Len(ShownBy(t)) = Len(t.shown) + size
             /\ \A i \in 1..Len(t.shown) : ShownBy(t)[i] = t.shown[i]
             /\ \A i \in 1..size : ShownBy(t)[Len(t.shown) + i] = list[i].id
<1> DEFINE list == Newest(FoundBy(t))
           size == Min({Limit, Len(list)})
           more == [i \in 1..size |-> list[i].id]
<1>0. t.kind \in Walks /\ t.shown \in Seq(Ids) /\ Limit \in Nat
  BY HistoryAssumption DEF Pages
<1>1. /\ Len(list) \in Nat /\ DOMAIN list = 1..Len(list)
      /\ Range(list) = FoundBy(t) /\ IsInjective(list)
      /\ \A i, j \in DOMAIN list : i < j => Before(list[i], list[j])
  BY <1>0, FoundIsDated, NewestLists
<1>2. \A i \in DOMAIN list : list[i].id \in Ids
  <2>1. \A i \in DOMAIN list : list[i] \in FoundBy(t)
    BY <1>1 DEF Range
  <2> QED
    BY <1>0, <2>1, FoundIsDated DEF IdsOf
<1> HIDE DEF list
<1>3. size = IF Len(list) > Limit THEN Limit ELSE Len(list)
  BY <1>0, <1>1, Smaller
<1>4. size \in 0..Len(list)
  BY <1>0, <1>1, <1>3
<1> HIDE DEF size
<1>5. more \in Seq(Ids) /\ Len(more) = size /\ \A i \in 1..size : more[i] = list[i].id
  BY <1>1, <1>2, <1>4
<1>6. ShownBy(t) = t.shown \o more
  BY DEF ShownBy, list, size
<1> HIDE DEF more
<1>7. /\ ShownBy(t) \in Seq(Ids) /\ Len(ShownBy(t)) = Len(t.shown) + size
      /\ \A i \in 1..Len(t.shown) : ShownBy(t)[i] = t.shown[i]
      /\ \A i \in 1..size : ShownBy(t)[Len(t.shown) + i] = list[i].id
  <2>1. /\ ShownBy(t) \in Seq(Ids) /\ Len(ShownBy(t)) = Len(t.shown) + size
        /\ \A i \in 1..(Len(t.shown) + size) : ShownBy(t)[i] =
             IF i <= Len(t.shown) THEN t.shown[i] ELSE more[i - Len(t.shown)]
    <3>1. /\ t.shown \o more \in Seq(Ids)
          /\ Len(t.shown \o more) = Len(t.shown) + Len(more)
          /\ \A i \in 1..(Len(t.shown) + Len(more)) : (t.shown \o more)[i] =
               IF i <= Len(t.shown) THEN t.shown[i] ELSE more[i - Len(t.shown)]
      BY <1>0, <1>5, ConcatProperties, Zenon
    <3>2. Len(more) = size
      BY <1>5
    <3> QED
      BY <1>6, <3>1, <3>2, Zenon
  <2>2. Len(t.shown) \in Nat /\ size \in Nat
    BY <1>0, <1>1, <1>4, LenProperties
  <2>3. ASSUME NEW i \in 1..size PROVE ShownBy(t)[Len(t.shown) + i] = list[i].id
    <3>1. /\ Len(t.shown) + i \in 1..(Len(t.shown) + size) /\ ~(Len(t.shown) + i <= Len(t.shown))
          /\ (Len(t.shown) + i) - Len(t.shown) = i
      BY <2>2
    <3> QED
      BY <1>5, <2>1, <3>1
  <2>4. ASSUME NEW i \in 1..Len(t.shown) PROVE ShownBy(t)[i] = t.shown[i]
    BY <2>1, <2>2
  <2> QED
    BY <2>1, <2>3, <2>4
<1> QED
  BY <1>1, <1>2, <1>3, <1>4, <1>7 DEF list, size

\* A walk notes that the row of its cursor was touched.
LostBy(t) == t.lost \/ (t.cursor # << >> /\ t.cursor[1] \in t.touched)

LEMMA PageGoes ==
  ASSUME NEW h, Page(h)
  PROVE  LET t == tasks[h]
             list == Newest(FoundBy(t))
         IN  Become(h, IF Len(list) > Limit
                       THEN [t EXCEPT !.shown = ShownBy(t), !.lost = LostBy(t),
                               !.cursor = <<list[Min({Limit, Len(list)})].id>>]
                       ELSE [pc |-> "done", kind |-> t.kind, shown |-> ShownBy(t),
                             lost |-> LostBy(t), began |-> t.began,
                             touched |-> t.touched])
BY DEF Page, FoundBy, ShownBy, LostBy

LEMMA PageCarries ==
  ASSUME Rows, NEW h, Carries(tasks[h]), Page(h)
  PROVE  \E task : Become(h, task) /\ Carries(task)
<1> DEFINE t == tasks[h]
           list == Newest(FoundBy(t))
           next == [t EXCEPT !.shown = ShownBy(t), !.lost = LostBy(t),
                             !.cursor = <<list[Min({Limit, Len(list)})].id>>]
<1>1. t \in Pages
  BY CarriedBy DEF Page, IsAt
<1>2. CASE Len(list) > Limit
  <2>0. Limit \in Nat \ {0}
    BY HistoryAssumption
  <2>1. list[Min({Limit, Len(list)})].id \in Ids
    <3>1. /\ Min({Limit, Len(list)}) = Limit /\ Len(list) \in Nat
          /\ DOMAIN list = 1..Len(list) /\ \A i \in DOMAIN list : list[i].id \in Ids
      BY <1>1, <1>2, PageOf
    <3> QED
      BY <1>2, <2>0, <3>1
  <2>2. ShownBy(t) \in Seq(Ids) /\ LostBy(t) \in BOOLEAN
    BY <1>1, PageOf DEF LostBy, Pages
  <2>3. next \in Pages
    BY <1>1, <2>1, <2>2 DEF Pages
  <2> QED
    BY <1>2, <2>3, PageGoes DEF Carries
<1>3. CASE ~(Len(list) > Limit)
  <2>1. t.kind \in Walks
    BY <1>1 DEF Pages
  <2>2. Carries([pc |-> "done", kind |-> t.kind, shown |-> ShownBy(t),
                 lost |-> LostBy(t), began |-> t.began, touched |-> t.touched])
    BY <2>1 DEF Carries
  <2> QED
    BY <1>3, <2>2, PageGoes
<1> QED
  BY <1>2, <1>3

LEMMA SummaryCarries ==
  ASSUME NEW digest, NEW sentence
  PROVE  Carries(Summary(digest, sentence))
BY DEF Carries, Summary

LEMMA TasksInit ==
  ASSUME Init
  PROVE  Tasks
BY DEF Init, Tasks, Carries

LEMMA TasksStep ==
  ASSUME Rows, Tasks, [Next]_vars
  PROVE  Tasks'
<1>1. CASE UNCHANGED tasks
  BY <1>1 DEF Tasks, Carries, Pages, Looks, Updates, Idle
<1>2. ASSUME NEW h \in Handlers, Summarize(h)
      PROVE  Tasks'
  <2>1. PICK digest : \/ Become(h, Summary(digest, Plainly))
                      \/ Become(h, [pc |-> "profile", digest |-> digest])
    BY <1>2 DEF Summarize
  <2>2. Carries([pc |-> "profile", digest |-> digest])
    BY DEF Carries
  <2> QED
    BY <2>1, <2>2, CarriesOn, SummaryCarries
<1>3. ASSUME NEW h \in Handlers, StartWalk(h)
      PROVE  Tasks'
  <2>1. PICK walk \in Walks :
          Become(h, [pc |-> "page", kind |-> walk, cursor |-> << >>, shown |-> << >>,
                     began |-> IdsOf(RowsOf(walk)), touched |-> {}, lost |-> FALSE])
    BY <1>3 DEF StartWalk
  <2>2. IdsOf(RowsOf(walk)) \subseteq Ids
    BY ListsAreDated
  <2>3. [pc |-> "page", kind |-> walk, cursor |-> << >>, shown |-> << >>,
         began |-> IdsOf(RowsOf(walk)), touched |-> {}, lost |-> FALSE] \in Pages
    BY <2>2 DEF Pages
  <2> QED
    BY <2>1, <2>3, CarriesOn DEF Carries
<1>4. ASSUME NEW h \in Handlers, SaveReflection(h)
      PROVE  Tasks'
  <2>1. PICK reading \in Reflected, note \in Notes :
          Become(h, [pc |-> "find", reading |-> reading, note |-> note, raced |-> FALSE])
    BY <1>4 DEF SaveReflection
  <2>2. Carries([pc |-> "find", reading |-> reading, note |-> note, raced |-> FALSE])
    BY DEF Carries, Looks
  <2> QED
    BY <2>1, <2>2, CarriesOn
<1>5. ASSUME NEW h \in Handlers, QueryFails(h)
      PROVE  Tasks'
  BY <1>5, CarriesOn DEF QueryFails, Carries
<1>6. ASSUME NEW h \in Handlers, ReadProfile(h) \/ Cached(h) \/ AskModel(h) \/ Remember(h)
      PROVE  Tasks'
  <2> DEFINE d == tasks[h].digest
  <2>1. \/ \E sentence : Become(h, Summary(d, sentence))
        \/ \E pc \in {"cached", "ask"} : Become(h, [pc |-> pc, digest |-> d])
        \/ Become(h, [pc |-> "remember", digest |-> d, told |-> DigestFacts(d)])
    BY <1>6 DEF ReadProfile, Cached, AskModel, Remember
  <2>2. /\ \A pc \in {"cached", "ask"} : Carries([pc |-> pc, digest |-> d])
        /\ Carries([pc |-> "remember", digest |-> d, told |-> DigestFacts(d)])
    BY DEF Carries
  <2> QED
    BY <2>1, <2>2, CarriesOn, SummaryCarries
<1>7. ASSUME NEW h \in Handlers, Page(h)
      PROVE  Tasks'
  BY <1>7, PageCarries, CarriesOn DEF Tasks
<1>8. ASSUME NEW h \in Handlers, ExistingId(h)
      PROVE  Tasks'
  <2> DEFINE t == tasks[h]
  <2>1. t \in Looks
    BY <1>8, CarriedBy DEF ExistingId, IsAt, Tasks
  <2>2. [t EXCEPT !.pc = "create"] \in Looks
    BY <2>1 DEF Looks
  <2>3. \A id \in Ids : [pc |-> "update", reading |-> t.reading, note |-> t.note,
                         raced |-> t.raced, id |-> id] \in Updates
    BY <2>1 DEF Looks, Updates
  <2>4. \A e \in EntriesOn(t.reading) : e.id \in Ids
    BY DEF EntriesOn, Rows, Entry
  <2>5. \/ Become(h, [t EXCEPT !.pc = "create"])
        \/ \E id \in Ids : Become(h, [pc |-> "update", reading |-> t.reading,
                                      note |-> t.note, raced |-> t.raced, id |-> id])
    BY <1>8, <2>4 DEF ExistingId
  <2> QED
    BY <2>2, <2>3, <2>5, CarriesOn DEF Carries
<1>9. ASSUME NEW h \in Handlers, UpdateReflection(h) \/ CreateReflection(h)
      PROVE  Tasks'
  <2>1. PICK ok : \/ RacingSaves(tasks[h].reading, h, Saved(tasks[h], ok))
                  \/ Become(h, Saved(tasks[h], ok))
    BY <1>9 DEF UpdateReflection, CreateReflection
  <2>2. Carries(Saved(tasks[h], ok))
    BY DEF Carries, Saved
  <2> QED
    BY <2>1, <2>2, CarriesOn, RacingCarries
<1>10. CASE CreateReading \/ SetOptOut \/ Hour
  BY <1>1, <1>10 DEF CreateReading, SetOptOut, Hour
<1>11. CASE DeleteReading \/ ClearHistory \/ SetSaved
  <2>1. \E walks : \E ids \in SUBSET Ids : Touching(walks, ids)
    BY <1>11 DEF DeleteReading, ClearHistory, SetSaved, IdsOf, Rows, Reading
  <2> QED
    BY <2>1, TouchingCarries
<1>12. CASE RemoveReflection
  <2>1. PICK e \in reflections : tasks' = [h \in Handlers |->
            IF IsAt(h, "page") /\ tasks[h].kind = "reflections"
            THEN [tasks[h] EXCEPT !.touched = @ \cup {e.id}]
            ELSE IF tasks[h].pc \in {"find", "update", "create"}
                    /\ e.reading # Standalone /\ tasks[h].reading = e.reading
            THEN [tasks[h] EXCEPT !.raced = TRUE] ELSE tasks[h]]
    BY <1>12 DEF RemoveReflection
  <2>2. {e.id} \in SUBSET Ids
    BY DEF Rows, Entry
  <2>3. ASSUME NEW h \in Handlers
        PROVE  Carries(tasks'[h])
    <3>1. Carries(tasks[h])
      BY DEF Tasks
    <3>2. IsAt(h, "page") => [tasks[h] EXCEPT !.touched = @ \cup {e.id}] \in Pages
      BY <2>2, <3>1, TakesNote DEF IsAt
    <3>3. tasks[h].pc \in {"find", "update", "create"} =>
            [tasks[h] EXCEPT !.raced = TRUE] \in Looks \cup Updates
      BY <3>1, <2>2, TakesNote
    <3> QED
      BY <2>1, <3>1, <3>2, <3>3, Zenon DEF Carries
  <2> QED
    BY <2>1, <2>3 DEF Tasks
<1>13. CASE UNCHANGED vars
  BY <1>1, <1>13 DEF vars
<1> QED
  BY <1>2, <1>3, <1>4, <1>5, <1>6, <1>7, <1>8, <1>9, <1>10, <1>11, <1>12, <1>13
  DEF Next, HandlerStep

-----------------------------------------------------------------------------
(* Saves and what they found.                                              *)

\* What Saves and FailedSaveWasRaced say of one request, of some entries.
SaveOf(t, entries) ==
  /\ t.pc = "create" /\ ~t.raced =>
       \A e \in entries : t.reading # Standalone => e.reading # t.reading
  /\ t.pc = "update" /\ ~t.raced =>
       \E e \in entries : t.reading # Standalone /\ e.reading = t.reading /\ e.id = t.id
  /\ t.pc = "done" /\ t.kind = "save" /\ ~t.ok => t.raced

SavesAreSound == \A h \in Handlers : SaveOf(tasks[h], reflections)

LEMMA SavesSay == SavesAreSound <=> Saves /\ FailedSaveWasRaced
BY DEF SavesAreSound, Saves, FailedSaveWasRaced, SaveOf, EntriesOn, IsAt

LEMMA SavesInit ==
  ASSUME Init
  PROVE  SavesAreSound
BY DEF Init, SavesAreSound, SaveOf, Idle

\* Only requests that look, edit or add are about entries.
LEMMA SavesAlone ==
  ASSUME NEW t, NEW entries, t.pc \notin {"create", "update", "done"}
  PROVE  SaveOf(t, entries)
BY DEF SaveOf

LEMMA SaveBecomes ==
  ASSUME Tasks, SavesAreSound, NEW h \in Handlers, NEW task, Become(h, task),
         SaveOf(task, reflections), UNCHANGED reflections
  PROVE  SavesAreSound'
BY BecomesOne DEF SavesAreSound

\* The notes that a race is marked with.
LEMMA RaceIsNoted ==
  ASSUME NEW t, Carries(t), t.pc \in {"find", "update", "create"}
  PROVE  LET u == [t EXCEPT !.raced = TRUE] IN u.raced /\ u.pc = t.pc
<1>1. ASSUME t \in Looks PROVE LET u == [t EXCEPT !.raced = TRUE] IN u.raced /\ u.pc = t.pc
  BY <1>1 DEF Looks
<1>2. ASSUME t \in Updates PROVE LET u == [t EXCEPT !.raced = TRUE] IN u.raced /\ u.pc = t.pc
  BY <1>2 DEF Updates
<1> QED
  BY <1>1, <1>2, CarriedBy, Zenon

LEMMA SaveMarked ==
  ASSUME NEW t, Carries(t), t.pc \in {"find", "update", "create"}, NEW entries
  PROVE  SaveOf([t EXCEPT !.raced = TRUE], entries)
<1> DEFINE u == [t EXCEPT !.raced = TRUE]
<1>1. u.raced /\ u.pc \in {"find", "update", "create"}
  BY RaceIsNoted
<1> HIDE DEF u
<1>2. SaveOf(u, entries)
  BY <1>1 DEF SaveOf
<1> QED
  BY <1>2 DEF u

\* Editing notes leaves what other saves found.
LEMMA SaveEdited ==
  ASSUME NEW t, NEW entries, NEW entries2, SaveOf(t, entries),
         \A e \in entries2 : \E d \in entries : d.id = e.id /\ d.reading = e.reading,
         \A d \in entries : \E e \in entries2 : d.id = e.id /\ d.reading = e.reading
  PROVE  SaveOf(t, entries2)
<1>1. ASSUME t.pc = "update" /\ ~t.raced
      PROVE  \E e \in entries2 :
               t.reading # Standalone /\ e.reading = t.reading /\ e.id = t.id
  <2>1. PICK d \in entries :
          t.reading # Standalone /\ d.reading = t.reading /\ d.id = t.id
    BY <1>1 DEF SaveOf
  <2> QED
    BY <2>1
<1>2. ASSUME t.pc = "create" /\ ~t.raced, NEW e \in entries2, t.reading # Standalone
      PROVE  e.reading # t.reading
  BY <1>2 DEF SaveOf
<1>3. t.pc = "done" /\ t.kind = "save" /\ ~t.ok => t.raced
  BY DEF SaveOf
<1> QED
  BY <1>1, <1>2, <1>3 DEF SaveOf

LEMMA SavesStep ==
  ASSUME Rows, Tasks, SavesAreSound, [Next]_vars
  PROVE  SavesAreSound'
<1>1. CASE UNCHANGED <<tasks, reflections>>
  BY <1>1 DEF SavesAreSound
<1>2. ASSUME NEW h \in Handlers,
             \/ Summarize(h) \/ StartWalk(h) \/ SaveReflection(h) \/ QueryFails(h)
             \/ ReadProfile(h) \/ Cached(h) \/ AskModel(h) \/ Remember(h) \/ Page(h)
      PROVE  SavesAreSound'
  <2>1. UNCHANGED reflections
    BY <1>2 DEF Summarize, StartWalk, SaveReflection, QueryFails, ReadProfile, Cached,
                AskModel, Remember, Page
  <2>2. \E task : /\ Become(h, task)
                  /\ \/ task.pc \notin {"create", "update", "done"}
                     \/ task.pc = "done" /\ task.kind # "save"
    <3>1. CASE Page(h)
      <4>1. tasks[h] \in Pages
        BY <3>1, CarriedBy DEF Page, IsAt, Tasks
      <4>2. \A shown, lost, cursor :
              [tasks[h] EXCEPT !.shown = shown, !.lost = lost, !.cursor = cursor].pc = "page"
        BY <4>1 DEF Pages
      <4>3. tasks[h].kind # "save"
        BY <4>1 DEF Pages, Walks
      <4>4. \/ \E shown, lost, cursor : Become(h,
                  [tasks[h] EXCEPT !.shown = shown, !.lost = lost, !.cursor = cursor])
            \/ \E shown, lost, began, touched : Become(h,
                  [pc |-> "done", kind |-> tasks[h].kind, shown |-> shown, lost |-> lost,
                   began |-> began, touched |-> touched])
        BY <3>1, PageGoes, Zenon
      <4>5. ASSUME NEW shown, NEW lost, NEW cursor, Become(h,
                  [tasks[h] EXCEPT !.shown = shown, !.lost = lost, !.cursor = cursor])
            PROVE  \E task : Become(h, task) /\ task.pc = "page"
        BY <4>2, <4>5, Zenon
      <4>6. ASSUME NEW shown, NEW lost, NEW began, NEW touched, Become(h,
                  [pc |-> "done", kind |-> tasks[h].kind, shown |-> shown, lost |-> lost,
                   began |-> began, touched |-> touched])
            PROVE  \E task : Become(h, task) /\ task.pc = "done" /\ task.kind # "save"
        BY <4>3, <4>6
      <4>7. \E task : /\ Become(h, task)
                      /\ task.pc = "page" \/ (task.pc = "done" /\ task.kind # "save")
        BY <4>4, <4>5, <4>6, Zenon
      <4> QED
        BY <4>7
    <3>2. ASSUME NEW d, NEW sentence
          PROVE  Summary(d, sentence).pc = "done" /\ Summary(d, sentence).kind # "save"
      BY DEF Summary
    <3>3. CASE Summarize(h)
      <4>1. \E d : Become(h, Summary(d, Plainly)) \/ Become(h, [pc |-> "profile", digest |-> d])
        BY <3>3 DEF Summarize
      <4> QED
        BY <3>2, <4>1
    <3>4. CASE StartWalk(h)
      BY <3>4 DEF StartWalk
    <3>5. CASE SaveReflection(h)
      BY <3>5 DEF SaveReflection
    <3>6. CASE QueryFails(h)
      BY <3>6 DEF QueryFails, Idle
    <3>7. CASE ReadProfile(h) \/ Cached(h) \/ AskModel(h) \/ Remember(h)
      <4> DEFINE d == tasks[h].digest
      <4>1. \/ \E sentence : Become(h, Summary(d, sentence))
            \/ \E pc \in {"cached", "ask"} : Become(h, [pc |-> pc, digest |-> d])
            \/ Become(h, [pc |-> "remember", digest |-> d, told |-> DigestFacts(d)])
        BY <3>7 DEF ReadProfile, Cached, AskModel, Remember
      <4> QED
        BY <3>2, <4>1
    <3> QED
      BY <1>2, <3>1, <3>3, <3>4, <3>5, <3>6, <3>7
  <2>3. PICK task : /\ Become(h, task)
                    /\ \/ task.pc \notin {"create", "update", "done"}
                       \/ task.pc = "done" /\ task.kind # "save"
    BY <2>2
  <2>4. SaveOf(task, reflections)
    BY <2>3 DEF SaveOf
  <2> QED
    BY <2>1, <2>3, <2>4, SaveBecomes
<1>3. ASSUME NEW h \in Handlers, ExistingId(h)
      PROVE  SavesAreSound'
  <2> DEFINE t == tasks[h]
  <2>1. t \in Looks /\ UNCHANGED reflections
    BY <1>3, CarriedBy DEF ExistingId, IsAt, Tasks
  <2>2. CASE EntriesOn(t.reading) = {}
    <3> DEFINE u == [t EXCEPT !.pc = "create"]
    <3>1. Become(h, u)
      BY <1>3, <2>2 DEF ExistingId
    <3>2. u.pc = "create" /\ u.reading = t.reading
      BY <2>1 DEF Looks
    <3>3. \A e \in reflections : t.reading # Standalone => e.reading # t.reading
      BY <2>2 DEF EntriesOn
    <3> HIDE DEF u
    <3>4. SaveOf(u, reflections)
      BY <3>2, <3>3 DEF SaveOf
    <3> QED
      BY <2>1, <3>1, <3>4, SaveBecomes
  <2>3. CASE EntriesOn(t.reading) # {}
    <3> DEFINE e == CHOOSE e \in EntriesOn(t.reading) : TRUE
               u == [pc |-> "update", reading |-> t.reading, note |-> t.note,
                     raced |-> t.raced, id |-> e.id]
    <3>1. Become(h, u)
      BY <1>3, <2>3 DEF ExistingId
    <3>2. e \in reflections /\ t.reading # Standalone /\ e.reading = t.reading
      BY <2>3 DEF EntriesOn
    <3>3. u.pc = "update" /\ u.reading = t.reading /\ u.id = e.id
      OBVIOUS
    <3> HIDE DEF u, e, t
    <3>4. SaveOf(u, reflections)
      BY <3>2, <3>3 DEF SaveOf
    <3> QED
      BY <2>1, <3>1, <3>4, SaveBecomes DEF t
  <2> QED
    BY <2>2, <2>3
<1>4. ASSUME NEW h \in Handlers, UpdateReflection(h)
      PROVE  SavesAreSound'
  <2> DEFINE t == tasks[h]
             there == {e \in reflections : e.id = t.id}
             edited(e) == [e EXCEPT !.note = t.note]
             written == {edited(e) : e \in there}
  <2>1. /\ reflections' = (reflections \ there) \cup written
        /\ RacingSaves(t.reading, h, Saved(t, there # {}))
    BY <1>4 DEF UpdateReflection
  <2>2. t \in Updates
    BY <1>4, CarriedBy DEF UpdateReflection, IsAt, Tasks
  <2>3. \A e \in reflections : edited(e).id = e.id /\ edited(e).reading = e.reading
    BY DEF Rows, Entry
  <2>4. SaveOf(t, reflections)
    BY DEF SavesAreSound
  <2>5. SaveOf(Saved(t, there # {}), reflections')
    BY <2>2, <2>4 DEF SaveOf, Saved, Updates
  <2> HIDE DEF edited, t
  <2>6. \A e \in reflections' : \E d \in reflections : d.id = e.id /\ d.reading = e.reading
    BY <2>1, <2>3
  <2>7. \A d \in reflections : \E e \in reflections' : d.id = e.id /\ d.reading = e.reading
    <3> SUFFICES ASSUME NEW d \in reflections
                 PROVE  \E e \in reflections' : d.id = e.id /\ d.reading = e.reading
      OBVIOUS
    <3>1. CASE d \in there
      <4>1. edited(d) \in reflections'
        BY <2>1, <3>1
      <4> QED
        BY <2>3, <4>1
    <3>2. CASE d \notin there
      BY <2>1, <3>2
    <3> QED
      BY <3>1, <3>2
  <2>8. ASSUME NEW g \in Handlers
        PROVE  SaveOf(tasks'[g], reflections')
    <3>1. \/ g = h /\ tasks'[g] = Saved(t, there # {})
          \/ /\ tasks[g].pc \in {"find", "update", "create"}
             /\ tasks'[g] = [tasks[g] EXCEPT !.raced = TRUE]
          \/ tasks'[g] = tasks[g]
      BY <2>1 DEF RacingSaves
    <3>2. Carries(tasks[g]) /\ SaveOf(tasks[g], reflections)
      BY DEF Tasks, SavesAreSound
    <3>3. SaveOf(tasks[g], reflections')
      BY <2>6, <2>7, <3>2, SaveEdited
    <3> QED
      BY <2>5, <3>1, <3>2, <3>3, SaveMarked
  <2> QED
    BY <2>8 DEF SavesAreSound
<1>5. ASSUME NEW h \in Handlers, CreateReflection(h)
      PROVE  SavesAreSound'
  <2> DEFINE t == tasks[h]
  <2>1. t \in Looks /\ t.pc = "create"
    BY <1>5, CarriedBy DEF CreateReflection, IsAt, Tasks
  <2>2. SaveOf(t, reflections)
    BY DEF SavesAreSound
  <2>3. CASE EntriesOn(t.reading) # {}
    <3>1. Become(h, Saved(t, FALSE)) /\ UNCHANGED reflections
      BY <1>5, <2>3 DEF CreateReflection
    <3>2. t.raced
      BY <2>1, <2>2, <2>3 DEF SaveOf, EntriesOn, Looks
    <3>3. SaveOf(Saved(t, FALSE), reflections)
      BY <3>2 DEF SaveOf, Saved
    <3> QED
      BY <3>1, <3>3, SaveBecomes
  <2>4. CASE EntriesOn(t.reading) = {}
    <3>1. PICK n \in Ids \ used.reflections :
            /\ reflections' = reflections \cup
                 {[id |-> n, reading |-> t.reading, note |-> t.note, at |-> now]}
            /\ RacingSaves(t.reading, h, Saved(t, TRUE))
      BY <1>5, <2>4 DEF CreateReflection
    <3> DEFINE e == [id |-> n, reading |-> t.reading, note |-> t.note, at |-> now]
    <3>2. reflections' = reflections \cup {e} /\ e.reading = t.reading
      BY <3>1
    <3>3. SaveOf(Saved(t, TRUE), reflections')
      BY DEF SaveOf, Saved
    <3> HIDE DEF e, t
    <3>4. ASSUME NEW g \in Handlers
          PROVE  SaveOf(tasks'[g], reflections')
      <4>1. \/ g = h /\ tasks'[g] = Saved(t, TRUE)
            \/ /\ tasks[g].pc \in {"find", "update", "create"}
               /\ tasks'[g] = [tasks[g] EXCEPT !.raced = TRUE]
            \/ /\ tasks'[g] = tasks[g]
               /\ tasks[g].pc \in {"update", "create"} =>
                    t.reading = Standalone \/ tasks[g].reading # t.reading
        BY <3>1 DEF RacingSaves
      <4>2. Carries(tasks[g]) /\ SaveOf(tasks[g], reflections)
        BY DEF Tasks, SavesAreSound
      <4>3. ASSUME tasks[g].pc \in {"update", "create"} =>
                     t.reading = Standalone \/ tasks[g].reading # t.reading
            PROVE  SaveOf(tasks[g], reflections')
        BY <3>2, <4>2, <4>3 DEF SaveOf
      <4>4. CASE /\ tasks[g].pc \in {"find", "update", "create"}
                 /\ tasks'[g] = [tasks[g] EXCEPT !.raced = TRUE]
        BY <4>2, <4>4, SaveMarked
      <4> QED
        BY <3>3, <4>1, <4>3, <4>4, Zenon
    <3> QED
      BY <3>4 DEF SavesAreSound
  <2> QED
    BY <2>3, <2>4
<1>6. CASE RemoveReflection
  <2>1. PICK e \in reflections :
          /\ reflections' = reflections \ {e}
          /\ tasks' = [h \in Handlers |->
            IF IsAt(h, "page") /\ tasks[h].kind = "reflections"
            THEN [tasks[h] EXCEPT !.touched = @ \cup {e.id}]
            ELSE IF tasks[h].pc \in {"find", "update", "create"}
                    /\ e.reading # Standalone /\ tasks[h].reading = e.reading
            THEN [tasks[h] EXCEPT !.raced = TRUE] ELSE tasks[h]]
    BY <1>6 DEF RemoveReflection
  <2>2. ASSUME NEW g \in Handlers
        PROVE  SaveOf(tasks'[g], reflections')
    <3>1. Carries(tasks[g]) /\ SaveOf(tasks[g], reflections)
      BY DEF Tasks, SavesAreSound
    <3>2. CASE tasks[g].pc = "page"
      <4>1. tasks[g] \in Pages
        BY <3>1, <3>2, CarriedBy
      <4>2. [tasks[g] EXCEPT !.touched = @ \cup {e.id}].pc = "page"
        BY <4>1 DEF Pages
      <4>3. tasks'[g] \in {tasks[g], [tasks[g] EXCEPT !.touched = @ \cup {e.id}]}
        BY <2>1, <3>2 DEF IsAt
      <4>4. tasks'[g].pc \notin {"create", "update", "done"}
        BY <3>2, <4>2, <4>3
      <4> QED
        BY <4>4, Zenon DEF SaveOf
    <3>3. CASE /\ tasks[g].pc \in {"find", "update", "create"}
               /\ e.reading # Standalone /\ tasks[g].reading = e.reading
      BY <2>1, <3>1, <3>3, SaveMarked DEF IsAt
    <3>4. CASE /\ tasks[g].pc # "page"
               /\ ~(/\ tasks[g].pc \in {"find", "update", "create"}
                    /\ e.reading # Standalone /\ tasks[g].reading = e.reading)
      <4>1. tasks'[g] = tasks[g]
        BY <2>1, <3>4 DEF IsAt
      <4> QED
        BY <2>1, <3>1, <3>4, <4>1 DEF SaveOf
    <3> QED
      BY <3>2, <3>3, <3>4
  <2> QED
    BY <2>2 DEF SavesAreSound
<1>7. CASE DeleteReading \/ ClearHistory \/ SetSaved
  <2>1. PICK walks, ids : Touching(walks, ids) /\ UNCHANGED reflections
    BY <1>7 DEF DeleteReading, ClearHistory, SetSaved
  <2>2. ASSUME NEW g \in Handlers
        PROVE  SaveOf(tasks'[g], reflections)
    <3>1. CASE tasks[g].pc = "page"
      <4>1. tasks[g] \in Pages
        BY <3>1, CarriedBy DEF Tasks
      <4>2. [tasks[g] EXCEPT !.touched = @ \cup ids].pc = "page"
        BY <4>1 DEF Pages
      <4> QED
        BY <2>1, <3>1, <4>2, SavesAlone DEF Touching
    <3>2. CASE tasks[g].pc # "page"
      BY <2>1, <3>2 DEF Touching, IsAt, SavesAreSound
    <3> QED
      BY <3>1, <3>2
  <2> QED
    BY <2>1, <2>2 DEF SavesAreSound
<1>8. CASE CreateReading \/ SetOptOut \/ Hour \/ UNCHANGED vars
  BY <1>1, <1>8 DEF CreateReading, SetOptOut, Hour, vars
<1> QED
  BY <1>2, <1>3, <1>4, <1>5, <1>6, <1>7, <1>8 DEF Next, HandlerStep

-----------------------------------------------------------------------------
(* Walks.                                                                  *)

\* What Walk says of a walk t through the rows of a list, at an hour.
WalkOf(t, rows, at) ==
  /\ ~t.lost /\ t.cursor = << >> => t.shown = << >> /\ t.began \ t.touched \subseteq IdsOf(rows)
  /\ ~t.lost => IsInjective(t.shown)
  /\ ~t.lost /\ t.cursor # << >> /\ t.cursor[1] \notin t.touched =>
       \E c \in rows :
         /\ c.id = t.cursor[1]
         /\ \A i \in (t.began \ t.touched) \ Range(t.shown) :
              \E r \in rows : r.id = i /\ Before(c, r)
         /\ \A r \in rows : r.id \in Range(t.shown) => ~Before(c, r)
         /\ c.at = at => \A i \in Range(t.shown) : i >= c.id

Walked(t) ==
  t.kind \in Walks /\ ~t.lost
    => IsInjective(t.shown) /\ t.began \ t.touched \subseteq Range(t.shown)

WalksAreSound ==
  \A h \in Handlers :
    LET t == tasks[h]
    IN  /\ t.pc = "page" => WalkOf(t, RowsOf(t.kind), now)
        /\ t.pc = "done" => Walked(t)

LEMMA WalksSay == WalksAreSound <=> WalksGoOn /\ WalkShowsEachOnce
BY DEF WalksAreSound, WalksGoOn, WalkShowsEachOnce, WalkOf, Walk, Walked, IsAt

LEMMA WalksInit ==
  ASSUME Init
  PROVE  WalksAreSound
BY DEF Init, WalksAreSound, Idle

\* A walk goes on when rows leave its list or move in it, as long as it notes
\* them, and when rows come to it, as long as they are of the present hour.
LEMMA WalkGoesOn ==
  ASSUME NEW t, NEW u, NEW rows, NEW rows2, NEW at \in Int, NEW at2 \in Int,
         WalkOf(t, rows, at), at <= at2,
         u.cursor = t.cursor, u.shown = t.shown, u.began = t.began, u.lost = t.lost,
         t.touched \subseteq u.touched,
         \A r \in rows : r \in rows2 \/ r.id \in u.touched,
         \A r \in rows2 : r \in rows \/ (r.at = at /\ r.id \in Int),
         Dated(rows), \A r \in rows : r.at <= at
  PROVE  WalkOf(u, rows2, at2)
<1>1. ASSUME ~u.lost, u.cursor = << >>
      PROVE  u.shown = << >> /\ u.began \ u.touched \subseteq IdsOf(rows2)
  BY <1>1 DEF WalkOf, IdsOf
<1>2. ~u.lost => IsInjective(u.shown)
  BY DEF WalkOf
<1>3. ASSUME ~u.lost, u.cursor # << >>, u.cursor[1] \notin u.touched
      PROVE  \E c \in rows2 :
               /\ c.id = u.cursor[1]
               /\ \A i \in (u.began \ u.touched) \ Range(u.shown) :
                    \E r \in rows2 : r.id = i /\ Before(c, r)
               /\ \A r \in rows2 : r.id \in Range(u.shown) => ~Before(c, r)
               /\ c.at = at2 => \A i \in Range(u.shown) : i >= c.id
  <2>1. PICK c \in rows :
          /\ c.id = t.cursor[1]
          /\ \A i \in (t.began \ t.touched) \ Range(t.shown) :
               \E r \in rows : r.id = i /\ Before(c, r)
          /\ \A r \in rows : r.id \in Range(t.shown) => ~Before(c, r)
          /\ c.at = at => \A i \in Range(t.shown) : i >= c.id
    BY <1>3 DEF WalkOf
  <2>2. c \in rows2
    BY <1>3, <2>1
  <2>3. ASSUME NEW i \in (u.began \ u.touched) \ Range(u.shown)
        PROVE  \E r \in rows2 : r.id = i /\ Before(c, r)
    <3>1. i \in (t.began \ t.touched) \ Range(t.shown)
      BY <2>3
    <3>2. PICK r \in rows : r.id = i /\ Before(c, r)
      BY <2>1, <3>1
    <3>3. r \in rows2
      BY <2>3, <3>2
    <3> QED
      BY <3>2, <3>3
  <2>4. c.at \in Int /\ c.id \in Int /\ c.at <= at
    BY <2>1 DEF Dated
  <2>5. ASSUME NEW r \in rows2, r.id \in Range(u.shown)
        PROVE  ~Before(c, r)
    <3>1. r.at \in Int /\ r.id \in Int
      BY DEF Dated
    <3>2. CASE r \in rows
      BY <2>1, <2>5, <3>2
    <3>3. CASE r.at = at
      <4>1. c.at = at => r.id >= c.id
        BY <2>1, <2>5
      <4> QED
        BY <2>4, <3>1, <3>3, <4>1 DEF Before
    <3> QED
      BY <3>2, <3>3
  <2>6. c.at = at2 => \A i \in Range(u.shown) : i >= c.id
    BY <2>1, <2>4
  <2> QED
    BY <2>1, <2>2, <2>3, <2>5, <2>6
<1> QED
  BY <1>1, <1>2, <1>3 DEF WalkOf

\* What a page adds to a walk that is not lost: rows it did not show yet, and
\* behind them all that is left of the rows it began with.
LEMMA PageAdds ==
  ASSUME Rows, NEW t \in Pages, WalkOf(t, RowsOf(t.kind), now), ~LostBy(t)
  PROVE  /\ \A r \in FoundBy(t) : r.id \notin Range(t.shown)
         /\ t.began \ t.touched \subseteq Range(t.shown) \cup IdsOf(FoundBy(t))
         /\ IsInjective(t.shown)
         /\ Range(t.shown) = {} \/ \E c \in RowsOf(t.kind) :
              /\ \A r \in FoundBy(t) : Before(c, r)
              /\ \A r \in RowsOf(t.kind) : r.id \in Range(t.shown) => ~Before(c, r)
              /\ c.at = now => \A i \in Range(t.shown) : i >= c.id
<1> DEFINE rows == RowsOf(t.kind)
<1>1. t.kind \in Walks
  BY DEF Pages
<1>2. Dated(rows)
  BY <1>1, ListsAreDated
<1>3. ~t.lost /\ (t.cursor # << >> => t.cursor[1] \notin t.touched)
  BY DEF LostBy
<1>4. CASE t.cursor = << >>
  <2>1. t.shown = << >> /\ t.began \ t.touched \subseteq IdsOf(rows) /\ FoundBy(t) = rows
    BY <1>3, <1>4 DEF WalkOf, FoundBy
  <2>2. Range(t.shown) = {}
    BY <2>1 DEF Range
  <2> QED
    BY <1>3, <2>1, <2>2 DEF WalkOf
<1>5. CASE t.cursor # << >>
  <2>1. PICK c \in rows :
          /\ c.id = t.cursor[1]
          /\ \A i \in (t.began \ t.touched) \ Range(t.shown) :
               \E r \in rows : r.id = i /\ Before(c, r)
          /\ \A r \in rows : r.id \in Range(t.shown) => ~Before(c, r)
          /\ c.at = now => \A i \in Range(t.shown) : i >= c.id
    BY <1>3, <1>5 DEF WalkOf
  <2>2. (CHOOSE r \in rows : r.id = t.cursor[1]) = c
    BY <1>2, <2>1 DEF Dated, Distinct
  <2>3. FoundBy(t) = {r \in rows : r.at < c.at \/ (r.at = c.at /\ r.id < c.id)}
    BY <1>5, <2>1, <2>2 DEF FoundBy, RowsAfter, IdsOf
  <2>4. \A r \in rows : r \in FoundBy(t) <=> Before(c, r)
    BY <1>2, <2>3 DEF Before, Dated
  <2>5. FoundBy(t) \subseteq rows
    BY <2>3
  <2>6. t.began \ t.touched \subseteq Range(t.shown) \cup IdsOf(FoundBy(t))
    BY <2>1, <2>4 DEF IdsOf
  <2>7. /\ \A r \in FoundBy(t) : Before(c, r) /\ r.id \notin Range(t.shown)
        /\ IsInjective(t.shown)
    BY <1>3, <2>1, <2>4, <2>5 DEF WalkOf
  <2> HIDE DEF rows
  <2> QED
    BY <2>1, <2>6, <2>7 DEF rows
<1> QED
  BY <1>4, <1>5

\* What was shown after a page, and that nothing was shown twice.
LEMMA PageShows ==
  ASSUME Rows, NEW t \in Pages, WalkOf(t, RowsOf(t.kind), now), ~LostBy(t)
  PROVE  LET list == Newest(FoundBy(t))
             size == Min({Limit, Len(list)})
         IN  /\ IsInjective(ShownBy(t))
             /\ Range(ShownBy(t)) = Range(t.shown) \cup {list[i].id : i \in 1..size}
<1> DEFINE list == Newest(FoundBy(t))
           size == Min({Limit, Len(list)})
           n == Len(t.shown)
           s == ShownBy(t)
<1>1. /\ Len(list) \in Nat /\ DOMAIN list = 1..Len(list)
      /\ Range(list) = FoundBy(t) /\ IsInjective(list) /\ size \in 0..Len(list)
      /\ s \in Seq(Ids) /\ Len(s) = n + size
      /\ \A i \in 1..n : s[i] = t.shown[i]
      /\ \A i \in 1..size : s[n + i] = list[i].id
  BY PageOf
<1>2. t.kind \in Walks /\ t.shown \in Seq(Ids)
  BY DEF Pages
<1>3. n \in Nat /\ DOMAIN t.shown = 1..n /\ DOMAIN s = 1..(n + size)
  BY <1>1, <1>2, LenProperties
<1>4. Distinct(FoundBy(t))
  BY <1>2, FoundIsDated DEF Dated
<1>5. \A i \in 1..size : list[i] \in FoundBy(t)
  BY <1>1 DEF Range
<1>6. ASSUME NEW i \in 1..size, NEW j \in 1..size, list[i].id = list[j].id
      PROVE  i = j
  <2>1. list[i] = list[j]
    BY <1>4, <1>5, <1>6 DEF Distinct
  <2>2. i \in DOMAIN list /\ j \in DOMAIN list
    BY <1>1
  <2> QED
    BY <1>1, <2>1, <2>2 DEF IsInjective
<1>7. \A i \in 1..n : \A j \in 1..size : t.shown[i] # list[j].id
  BY <1>3, <1>5, PageAdds DEF Range
<1>8. \A i, j \in 1..n : t.shown[i] = t.shown[j] => i = j
  BY <1>3, PageAdds DEF IsInjective
<1> HIDE DEF list, size, n, s
<1>9. \A i \in 1..(n + size) : i \in 1..n \/ \E k \in 1..size : i = n + k
  <2> TAKE i \in 1..(n + size)
  <2>1. CASE i <= n
    BY <1>3, <2>1
  <2>2. CASE ~(i <= n)
    <3>1. i - n \in 1..size /\ i = n + (i - n)
      BY <1>1, <1>3, <2>2
    <3> QED
      BY <3>1
  <2> QED
    BY <2>1, <2>2
<1>10. ASSUME NEW i \in 1..(n + size), NEW j \in 1..(n + size), s[i] = s[j]
       PROVE  i = j
  <2>1. CASE i \in 1..n /\ j \in 1..n
    BY <1>1, <1>8, <1>10, <2>1
  <2>2. ASSUME NEW k \in 1..size, NEW l \in 1..size, i = n + k, j = n + l
        PROVE  i = j
    BY <1>1, <1>6, <1>10, <2>2
  <2>3. ASSUME i \in 1..n, NEW l \in 1..size, j = n + l
        PROVE  FALSE
    BY <1>1, <1>7, <1>10, <2>3
  <2>4. ASSUME NEW k \in 1..size, i = n + k, j \in 1..n
        PROVE  FALSE
    BY <1>1, <1>7, <1>10, <2>4
  <2> QED
    BY <1>9, <2>1, <2>2, <2>3, <2>4
<1>11. IsInjective(s)
  BY <1>3, <1>10 DEF IsInjective
<1>12. Range(s) = Range(t.shown) \cup {list[i].id : i \in 1..size}
  <2>1. ASSUME NEW x \in Range(s)
        PROVE  x \in Range(t.shown) \cup {list[i].id : i \in 1..size}
    <3>1. PICK i \in 1..(n + size) : x = s[i]
      BY <1>3 DEF Range
    <3>2. CASE i \in 1..n
      <4>1. i \in DOMAIN t.shown /\ x = t.shown[i]
        BY <1>1, <1>3, <3>1, <3>2
      <4> QED
        BY <4>1 DEF Range
    <3>3. ASSUME NEW k \in 1..size, i = n + k
          PROVE  x \in {list[j].id : j \in 1..size}
      <4>1. x = list[k].id
        BY <1>1, <3>1, <3>3
      <4> QED
        BY <4>1
    <3> QED
      BY <1>9, <3>1, <3>2, <3>3
  <2>2. ASSUME NEW i \in 1..n
        PROVE  t.shown[i] \in Range(s)
    <3>1. i \in DOMAIN s /\ s[i] = t.shown[i]
      BY <1>1, <1>3
    <3> QED
      BY <3>1 DEF Range
  <2>3. ASSUME NEW i \in 1..size
        PROVE  list[i].id \in Range(s)
    <3>1. n + i \in DOMAIN s /\ s[n + i] = list[i].id
      BY <1>1, <1>3
    <3> QED
      BY <3>1 DEF Range
  <2> QED
    BY <1>3, <2>1, <2>2, <2>3 DEF Range
<1> QED
  BY <1>11, <1>12 DEF list, size, s

\* After its last page, a walk has shown all that is left of what it began with.
LEMMA LastPage ==
  ASSUME Rows, NEW t \in Pages, WalkOf(t, RowsOf(t.kind), now),
         ~(Len(Newest(FoundBy(t))) > Limit)
  PROVE  Walked([pc |-> "done", kind |-> t.kind, shown |-> ShownBy(t), lost |-> LostBy(t),
                 began |-> t.began, touched |-> t.touched])
<1> DEFINE list == Newest(FoundBy(t))
           size == Min({Limit, Len(list)})
<1> SUFFICES ASSUME ~LostBy(t)
             PROVE  /\ IsInjective(ShownBy(t))
                    /\ t.began \ t.touched \subseteq Range(ShownBy(t))
  BY DEF Walked
<1>1. /\ IsInjective(ShownBy(t))
      /\ Range(ShownBy(t)) = Range(t.shown) \cup {list[i].id : i \in 1..size}
  BY PageShows
<1>2. size = Len(list) /\ DOMAIN list = 1..Len(list) /\ Range(list) = FoundBy(t)
  BY PageOf
<1>3. IdsOf(FoundBy(t)) \subseteq {list[i].id : i \in 1..size}
  BY <1>2 DEF IdsOf, Range
<1> QED
  BY <1>1, <1>3, PageAdds

\* After any other page, all that is left is behind the new cursor.
LEMMA NextPage ==
  ASSUME Rows, NEW t \in Pages, WalkOf(t, RowsOf(t.kind), now),
         Len(Newest(FoundBy(t))) > Limit,
         NEW u, u.shown = ShownBy(t), u.lost = LostBy(t), u.began = t.began,
         u.touched = t.touched,
         u.cursor = <<Newest(FoundBy(t))[Min({Limit, Len(Newest(FoundBy(t)))})].id>>
  PROVE  WalkOf(u, RowsOf(t.kind), now)
<1> DEFINE list == Newest(FoundBy(t))
           rows == RowsOf(t.kind)
           c2 == list[Limit]
<1>1. /\ Min({Limit, Len(list)}) = Limit /\ Limit \in Nat \ {0} /\ Limit < Len(list)
      /\ Len(list) \in Nat /\ DOMAIN list = 1..Len(list)
      /\ Range(list) = FoundBy(t)
      /\ \A i, j \in DOMAIN list : i < j => Before(list[i], list[j])
  BY PageOf, HistoryAssumption
<1>2. u.cursor = <<c2.id>> /\ u.cursor # << >> /\ u.cursor[1] = c2.id
  BY <1>1
<1>3. t.kind \in Walks
  BY DEF Pages
<1>4. FoundBy(t) \subseteq rows
  BY <1>3, FoundIsDated
<1>5. Dated(rows) /\ \A r \in rows : r.at \in 0..now
  BY <1>3, ListsAreDated
<1>6. \A i \in 1..Len(list) : list[i] \in FoundBy(t) /\ list[i] \in rows
  BY <1>1, <1>4 DEF Range
<1> SUFFICES ASSUME ~LostBy(t)
             PROVE  WalkOf(u, rows, now)
  BY <1>2 DEF WalkOf
<1>7. /\ IsInjective(u.shown)
      /\ Range(u.shown) = Range(t.shown) \cup {list[i].id : i \in 1..Limit}
  BY <1>1, PageShows
<1> HIDE DEF list
<1>8. c2 \in rows /\ c2 \in FoundBy(t)
  BY <1>1, <1>6
<1>9. \A k \in 1..Len(list) : k < Limit => Before(list[k], c2)
  BY <1>1
<1>10. \A k \in 1..Len(list) : Limit < k => Before(c2, list[k])
  BY <1>1
<1> HIDE DEF c2, rows
<1>11. ASSUME NEW i \in (u.began \ u.touched) \ Range(u.shown)
       PROVE  \E r \in rows : r.id = i /\ Before(c2, r)
  <2>1. i \in IdsOf(FoundBy(t)) /\ i \notin {list[k].id : k \in 1..Limit}
    BY <1>7, <1>11, PageAdds
  <2>2. PICK k \in 1..Len(list) : i = list[k].id
    BY <1>1, <2>1 DEF IdsOf, Range
  <2>3. Limit < k
    BY <1>1, <2>1, <2>2
  <2> QED
    BY <1>6, <1>10, <2>2, <2>3
<1>12. Range(t.shown) = {} \/ \E c \in rows :
         /\ \A r \in FoundBy(t) : Before(c, r)
         /\ \A r \in rows : r.id \in Range(t.shown) => ~Before(c, r)
         /\ c.at = now => \A i \in Range(t.shown) : i >= c.id
  BY PageAdds DEF rows
<1>13. ASSUME NEW r \in rows, r.id \in Range(u.shown)
       PROVE  ~Before(c2, r)
  <2>1. ASSUME r.id \in Range(t.shown)
        PROVE  ~Before(c2, r)
    <3>1. PICK c \in rows : Before(c, c2) /\ ~Before(c, r)
      BY <1>8, <1>12, <2>1
    <3> QED
      BY <1>5, <1>8, <3>1, BeforeIsAnOrder
  <2>2. ASSUME NEW k \in 1..Limit, r.id = list[k].id
        PROVE  ~Before(c2, r)
    <3>0. k \in 1..Len(list)
      BY <1>1
    <3>1. r = list[k]
      BY <1>5, <1>6, <2>2, <3>0 DEF Dated, Distinct
    <3>2. CASE k < Limit
      BY <1>5, <1>8, <1>9, <3>0, <3>1, <3>2, BeforeIsAnOrder
    <3>3. CASE k = Limit
      BY <1>5, <1>8, <3>1, <3>3, BeforeIsAnOrder DEF c2
    <3> QED
      BY <1>1, <3>2, <3>3
  <2> QED
    BY <1>7, <1>13, <2>1, <2>2
<1>14. ASSUME c2.at = now, NEW i \in Range(u.shown)
       PROVE  i >= c2.id
  <2>0. now \in Int /\ c2.id \in Int /\ \A r \in rows : r.at \in Int /\ r.id \in Int /\ r.at <= now
    <3>1. now \in Nat
      BY HistoryAssumption DEF Rows
    <3> QED
      BY <1>5, <1>8, <3>1 DEF Dated
  <2>1. ASSUME i \in Range(t.shown)
        PROVE  i >= c2.id
    <3>1. PICK c \in rows : /\ Before(c, c2)
                            /\ c.at = now => i >= c.id
      BY <1>8, <1>12, <2>1
    <3>2. c.at = now /\ c.id > c2.id
      BY <1>8, <1>14, <2>0, <3>1 DEF Before
    <3>3. i \in Int
      <4>1. t.shown \in Seq(Ids)
        BY DEF Pages
      <4>2. PICK j \in DOMAIN t.shown : i = t.shown[j]
        BY <2>1 DEF Range
      <4>3. j \in 1..Len(t.shown)
        BY <4>1, LenProperties
      <4>4. t.shown[j] \in Ids
        BY <4>1, <4>3, ElementOfSeq
      <4>5. \A x \in Ids : x \in Int
        BY HistoryAssumption
      <4> QED
        BY <4>2, <4>4, <4>5, Zenon
    <3> QED
      BY <2>0, <3>1, <3>2, <3>3
  <2>2. ASSUME NEW k \in 1..Limit, i = list[k].id
        PROVE  i >= c2.id
    <3>0. k \in 1..Len(list) /\ list[k] \in rows
      BY <1>1, <1>6
    <3>1. CASE k < Limit
      <4>1. Before(list[k], c2)
        BY <1>9, <3>0, <3>1
      <4> QED
        BY <1>8, <1>14, <2>0, <2>2, <3>0, <4>1 DEF Before
    <3>2. CASE k = Limit
      BY <2>0, <2>2, <3>2 DEF c2
    <3> QED
      BY <1>1, <3>1, <3>2
  <2> QED
    BY <1>7, <1>14, <2>1, <2>2
<1> QED
  BY <1>2, <1>7, <1>8, <1>11, <1>13, <1>14 DEF WalkOf

\* What a step does to a list: rows that leave it or move are among the ids
\* noted, and rows come to it with the present hour.
ListMoves(walk, ids) ==
  /\ \A r \in RowsOf(walk) : r \in RowsOf(walk)' \/ r.id \in ids
  /\ \A r \in RowsOf(walk)' : r \in RowsOf(walk) \/ (r.at = now /\ r.id \in Ids)

\* What WalksAreSound says of one request.
WalkIsSound(g) ==
  /\ tasks[g].pc = "page" => WalkOf(tasks[g], RowsOf(tasks[g].kind), now)
  /\ tasks[g].pc = "done" => Walked(tasks[g])

LEMMA WalkMoves ==
  ASSUME Rows, Tasks, WalksAreSound, NEW g \in Handlers, tasks[g].pc = "page",
         NEW walk, tasks[g].kind = walk, NEW ids, ListMoves(walk, ids),
         now' \in {now, now + 1},
         \/ tasks'[g] = tasks[g] /\ ids = {}
         \/ ids \in SUBSET Ids /\ tasks'[g] = [tasks[g] EXCEPT !.touched = @ \cup ids]
  PROVE  WalkIsSound(g)'
<1> DEFINE t == tasks[g]
           u == tasks'[g]
           rows == RowsOf(walk)
           rows2 == RowsOf(walk)'
<1>1. t \in Pages
  BY CarriedBy DEF Tasks
<1>2. /\ u.pc = "page" /\ u.kind = t.kind /\ u.cursor = t.cursor /\ u.shown = t.shown
      /\ u.began = t.began /\ u.lost = t.lost /\ u.touched = t.touched \cup ids
  <2>1. CASE u = t /\ ids = {}
    BY <1>1, <2>1 DEF Pages
  <2>2. CASE ids \in SUBSET Ids /\ u = [t EXCEPT !.touched = @ \cup ids]
    BY <1>1, <2>2 DEF Pages
  <2> QED
    BY <2>1, <2>2
<1>3. walk \in Walks
  BY <1>1 DEF Pages
<1>4. Dated(rows) /\ \A r \in rows : r.at \in 0..now
  BY <1>3, ListsAreDated
<1>5. now \in Int /\ now' \in Int /\ now <= now' /\ \A at \in 0..now : at <= now
  BY HistoryAssumption DEF Rows
<1>6. \A i \in Ids : i \in Int
  BY HistoryAssumption
<1>7. WalkOf(t, rows, now)
  BY DEF WalksAreSound
<1>8. RowsOf(tasks[g].kind)' = rows2
  BY <1>2 DEF RowsOf
<1>9. /\ \A r \in rows : r \in rows2 \/ r.id \in u.touched
      /\ \A r \in rows2 : r \in rows \/ (r.at = now /\ r.id \in Int)
  BY <1>2, <1>6 DEF ListMoves
<1> HIDE DEF t, u, rows, rows2
<1>10. WalkOf(u, rows2, now')
  BY <1>2, <1>4, <1>5, <1>7, <1>9, WalkGoesOn
<1>11. u.pc = "page"
  BY <1>2
<1> QED
  BY <1>8, <1>10, <1>11 DEF WalkIsSound, u

\* Requests that a step leaves alone, other than walks.
LEMMA OthersAreSound ==
  ASSUME WalksAreSound, NEW g \in Handlers, tasks[g].pc # "page",
         \/ tasks'[g] = tasks[g] \/ tasks'[g].pc \notin {"page", "done"}
         \/ tasks'[g].pc = "done" /\ tasks'[g].kind \notin Walks
  PROVE  WalkIsSound(g)'
BY DEF WalksAreSound, WalkIsSound, Walked

\* What each of the steps that write rows does to the lists.
LEMMA NoListMoves ==
  ASSUME UNCHANGED <<readings, reflections>>, NEW walk \in Walks, NEW ids
  PROVE  ListMoves(walk, ids)
BY DEF ListMoves, RowsOf, Walks

LEMMA EditMovesNoList ==
  ASSUME Rows, NEW id, NEW note, UNCHANGED readings, NEW walk \in Walks,
         reflections' = {IF e.id = id THEN [e EXCEPT !.note = note] ELSE e : e \in reflections}
  PROVE  ListMoves(walk, {})
<1>1. CASE walk # "reflections"
  BY <1>1 DEF ListMoves, RowsOf, Walks
<1>2. CASE walk = "reflections"
  <2> DEFINE edited(e) == IF e.id = id THEN [e EXCEPT !.note = note] ELSE e
  <2>1. \A e \in reflections : edited(e).id = e.id /\ edited(e).at = e.at
    BY DEF Rows, Entry
  <2> HIDE DEF edited
  <2>2. reflections' = {edited(e) : e \in reflections}
    BY DEF edited
  <2>3. RowsOf(walk)' = RowsOf(walk)
    <3>1. /\ RowsOf(walk) = {[id |-> e.id, at |-> e.at] : e \in reflections}
          /\ RowsOf(walk)' = {[id |-> e.id, at |-> e.at] : e \in reflections'}
      BY <1>2 DEF RowsOf
    <3> QED
      BY <2>1, <2>2, <3>1
  <2> QED
    BY <2>3 DEF ListMoves
<1> QED
  BY <1>1, <1>2

LEMMA NewRowsMoveLists ==
  ASSUME NEW walk \in Walks, NEW id \in Ids, NEW r, NEW e,
         r.id = id, r.at = now, r.savedAt = NotSaved, e.id = id, e.at = now,
         \/ readings' = readings \cup {r} /\ UNCHANGED reflections
         \/ reflections' = reflections \cup {e} /\ UNCHANGED readings
  PROVE  ListMoves(walk, {})
<1>1. CASE walk = "history"
  BY <1>1 DEF ListMoves, RowsOf
<1>2. CASE walk = "saved"
  BY <1>2 DEF ListMoves, RowsOf
<1>3. CASE walk = "reflections"
  BY <1>3 DEF ListMoves, RowsOf
<1> QED
  BY <1>1, <1>2, <1>3 DEF Walks

LEMMA FewerReadings ==
  ASSUME NEW walk \in {"history", "saved"}, NEW ids, readings' \subseteq readings,
         \A r \in readings : r \in readings' \/ r.id \in ids
  PROVE  ListMoves(walk, ids)
<1>1. CASE walk = "history"
  BY <1>1 DEF ListMoves, RowsOf
<1>2. CASE walk = "saved"
  BY <1>2 DEF ListMoves, RowsOf
<1> QED
  BY <1>1, <1>2

LEMMA FewerReflections ==
  ASSUME NEW e \in reflections, reflections' = reflections \ {e}
  PROVE  ListMoves("reflections", {e.id})
BY DEF ListMoves, RowsOf

LEMMA SavedMoves ==
  ASSUME Rows, NEW r \in readings, NEW at \in {now, NotSaved},
         readings' = (readings \ {r}) \cup {[r EXCEPT !.savedAt = at]}
  PROVE  ListMoves("history", {}) /\ ListMoves("saved", {r.id})
<1> DEFINE s == [r EXCEPT !.savedAt = at]
<1>1. s.id = r.id /\ s.at = r.at /\ s.savedAt = at /\ r.id \in Ids
  BY DEF Rows, Reading
<1> HIDE DEF s
<1>2. readings' = (readings \ {r}) \cup {s}
  BY DEF s
<1>3. RowsOf("history")' = RowsOf("history")
  BY <1>1, <1>2 DEF RowsOf
<1>4. ListMoves("saved", {r.id})
  <2>1. RowsOf("saved") = {[id |-> q.id, at |-> q.savedAt] :
                             q \in {q \in readings : q.savedAt # NotSaved}}
    BY DEF RowsOf
  <2>2. RowsOf("saved")' = {[id |-> q.id, at |-> q.savedAt] :
                             q \in {q \in readings' : q.savedAt # NotSaved}}
    BY DEF RowsOf
  <2> QED
    BY <1>1, <1>2, <2>1, <2>2 DEF ListMoves
<1> QED
  BY <1>3, <1>4 DEF ListMoves

\* A request that takes a step of its own while the tables stand.
LEMMA OneWalks ==
  ASSUME Rows, Tasks, WalksAreSound, Stand, NEW h \in Handlers, NEW task, Become(h, task),
         \/ task.pc \notin {"page", "done"}
         \/ task.pc = "done" /\ Walked(task)
         \/ task.pc = "page" /\ WalkOf(task, RowsOf(task.kind), now)
  PROVE  WalksAreSound'
<1>1. UNCHANGED <<now, readings, reflections>>
  BY DEF Stand
<1>2. ASSUME NEW g \in Handlers, g # h
      PROVE  WalkIsSound(g)'
  <2>1. tasks'[g] = tasks[g]
    BY <1>2, BecomesOne
  <2>2. RowsOf(tasks[g].kind)' = RowsOf(tasks[g].kind)
    BY <1>1, <2>1 DEF RowsOf
  <2>3. WalkIsSound(g)
    BY DEF WalksAreSound, WalkIsSound
  <2> QED
    BY <1>1, <2>1, <2>2, <2>3 DEF WalkIsSound
<1>3. WalkIsSound(h)'
  <2>1. tasks'[h] = task
    BY BecomesOne
  <2>2. RowsOf(tasks[h].kind)' = RowsOf(task.kind)
    BY <1>1, <2>1 DEF RowsOf
  <2> QED
    BY <1>1, <2>1, <2>2 DEF WalkIsSound
<1> QED
  BY <1>2, <1>3 DEF WalksAreSound, WalkIsSound

\* A page keeps the walk sound, or ends it.
LEMMA PageWalks ==
  ASSUME Rows, Tasks, WalksAreSound, Stand, NEW h \in Handlers, Page(h)
  PROVE  WalksAreSound'
<1> DEFINE t == tasks[h]
           list == Newest(FoundBy(t))
           next == [t EXCEPT !.shown = ShownBy(t), !.lost = LostBy(t),
                             !.cursor = <<list[Min({Limit, Len(list)})].id>>]
           last == [pc |-> "done", kind |-> t.kind, shown |-> ShownBy(t),
                    lost |-> LostBy(t), began |-> t.began, touched |-> t.touched]
<1>1. t \in Pages /\ t.pc = "page"
  BY CarriedBy DEF Page, IsAt, Tasks
<1>2. WalkOf(t, RowsOf(t.kind), now)
  BY <1>1 DEF WalksAreSound
<1>3. CASE Len(list) > Limit
  <2>1. /\ next.shown = ShownBy(t) /\ next.lost = LostBy(t) /\ next.began = t.began
        /\ next.touched = t.touched /\ next.kind = t.kind /\ next.pc = "page"
        /\ next.cursor = <<list[Min({Limit, Len(list)})].id>>
    BY <1>1 DEF Pages
  <2>2. Become(h, next)
    BY <1>3, PageGoes
  <2> HIDE DEF next
  <2>3. WalkOf(next, RowsOf(t.kind), now)
    BY <1>1, <1>2, <1>3, <2>1, NextPage
  <2> QED
    BY <2>1, <2>2, <2>3, OneWalks
<1>4. CASE ~(Len(list) > Limit)
  <2>1. Walked(last)
    BY <1>1, <1>2, <1>4, LastPage
  <2>2. Become(h, last) /\ last.pc = "done"
    BY <1>4, PageGoes
  <2> HIDE DEF last
  <2> QED
    BY <2>1, <2>2, OneWalks
<1> QED
  BY <1>3, <1>4

\* The start of a walk: nothing is shown yet.
LEMMA StartWalks ==
  ASSUME Rows, Tasks, WalksAreSound, Stand, NEW h \in Handlers, StartWalk(h)
  PROVE  WalksAreSound'
<1>1. PICK walk \in Walks :
        Become(h, [pc |-> "page", kind |-> walk, cursor |-> << >>, shown |-> << >>,
                   began |-> IdsOf(RowsOf(walk)), touched |-> {}, lost |-> FALSE])
  BY DEF StartWalk
<1> DEFINE t == [pc |-> "page", kind |-> walk, cursor |-> << >>, shown |-> << >>,
                 began |-> IdsOf(RowsOf(walk)), touched |-> {}, lost |-> FALSE]
<1>2. /\ t.pc = "page" /\ t.kind = walk /\ t.cursor = << >> /\ t.shown = << >>
      /\ t.began = IdsOf(RowsOf(walk)) /\ t.touched = {} /\ Become(h, t)
  BY <1>1
<1> HIDE DEF t
<1>3. IsInjective(<< >>)
  BY DEF IsInjective
<1>4. WalkOf(t, RowsOf(walk), now)
  BY <1>2, <1>3 DEF WalkOf
<1> QED
  BY <1>2, <1>4, OneWalks

\* While rows are written, the walks under way go on, and no walk ends.
LEMMA WritersWalk ==
  ASSUME Rows, Tasks, WalksAreSound, now' \in {now, now + 1},
         \A g \in Handlers : tasks[g].pc = "page" =>
           \E walk : \E ids \in SUBSET Ids :
             /\ tasks[g].kind = walk /\ ListMoves(walk, ids)
             /\ \/ tasks'[g] = tasks[g] /\ ids = {}
                \/ tasks'[g] = [tasks[g] EXCEPT !.touched = @ \cup ids],
         \A g \in Handlers : tasks[g].pc # "page" =>
           \/ tasks'[g] = tasks[g] \/ tasks'[g].pc \notin {"page", "done"}
           \/ tasks'[g].pc = "done" /\ tasks'[g].kind \notin Walks
  PROVE  WalksAreSound'
<1>1. ASSUME NEW g \in Handlers, tasks[g].pc = "page"
      PROVE  WalkIsSound(g)'
  <2>1. PICK walk : \E ids \in SUBSET Ids :
             /\ tasks[g].kind = walk /\ ListMoves(walk, ids)
             /\ \/ tasks'[g] = tasks[g] /\ ids = {}
                \/ tasks'[g] = [tasks[g] EXCEPT !.touched = @ \cup ids]
    BY <1>1
  <2>2. PICK ids \in SUBSET Ids :
             /\ tasks[g].kind = walk /\ ListMoves(walk, ids)
             /\ \/ tasks'[g] = tasks[g] /\ ids = {}
                \/ tasks'[g] = [tasks[g] EXCEPT !.touched = @ \cup ids]
    BY <2>1
  <2> QED
    BY <1>1, <2>2, WalkMoves
<1>2. ASSUME NEW g \in Handlers, tasks[g].pc # "page"
      PROVE  WalkIsSound(g)'
  BY <1>2, OthersAreSound
<1> QED
  BY <1>1, <1>2 DEF WalksAreSound, WalkIsSound

LEMMA TouchingWalks ==
  ASSUME Rows, Tasks, WalksAreSound, UNCHANGED now, NEW walks, NEW ids \in SUBSET Ids,
         Touching(walks, ids),
         \A walk \in Walks : ListMoves(walk, IF walk \in walks THEN ids ELSE {})
  PROVE  WalksAreSound'
<1>1. \A g \in Handlers : tasks'[g] =
        IF IsAt(g, "page") /\ tasks[g].kind \in walks
        THEN [tasks[g] EXCEPT !.touched = @ \cup ids] ELSE tasks[g]
  BY DEF Touching
<1>2. ASSUME NEW g \in Handlers, tasks[g].pc = "page"
      PROVE  \E walk : \E s \in SUBSET Ids :
               /\ tasks[g].kind = walk /\ ListMoves(walk, s)
               /\ \/ tasks'[g] = tasks[g] /\ s = {}
                  \/ tasks'[g] = [tasks[g] EXCEPT !.touched = @ \cup s]
  <2>1. PICK walk \in Walks : tasks[g].kind = walk
    BY <1>2, CarriedBy DEF Tasks, Pages
  <2>2. CASE walk \in walks
    <3>1. ListMoves(walk, ids)
      BY <2>2
    <3>2. tasks'[g] = [tasks[g] EXCEPT !.touched = @ \cup ids]
      BY <1>1, <1>2, <2>1, <2>2 DEF IsAt
    <3> QED
      BY <2>1, <3>1, <3>2
  <2>3. CASE walk \notin walks
    <3>1. ListMoves(walk, {})
      BY <2>3
    <3>2. tasks'[g] = tasks[g]
      BY <1>1, <2>1, <2>3
    <3> QED
      BY <2>1, <3>1, <3>2
  <2> QED
    BY <2>2, <2>3
<1>3. ASSUME NEW g \in Handlers, tasks[g].pc # "page"
      PROVE  tasks'[g] = tasks[g]
  BY <1>1, <1>3 DEF IsAt
<1> QED
  BY <1>2, <1>3, WritersWalk

LEMMA RacingWalks ==
  ASSUME Rows, Tasks, WalksAreSound, UNCHANGED now, NEW h \in Handlers, NEW reading,
         NEW ok, RacingSaves(reading, h, Saved(tasks[h], ok)),
         tasks[h].pc # "page", \A walk \in Walks : ListMoves(walk, {})
  PROVE  WalksAreSound'
<1>1. \A g \in Handlers : tasks'[g] =
        IF g = h THEN Saved(tasks[h], ok)
        ELSE IF tasks[g].pc \in {"find", "update", "create"}
                /\ reading # Standalone /\ tasks[g].reading = reading
        THEN [tasks[g] EXCEPT !.raced = TRUE] ELSE tasks[g]
  BY DEF RacingSaves
<1>2. ASSUME NEW g \in Handlers, tasks[g].pc = "page"
      PROVE  \E walk : \E s \in SUBSET Ids :
               /\ tasks[g].kind = walk /\ ListMoves(walk, s)
               /\ \/ tasks'[g] = tasks[g] /\ s = {}
                  \/ tasks'[g] = [tasks[g] EXCEPT !.touched = @ \cup s]
  <2>1. tasks[g].kind \in Walks
    BY <1>2, CarriedBy DEF Tasks, Pages
  <2>2. tasks'[g] = tasks[g]
    BY <1>1, <1>2
  <2> QED
    BY <2>1, <2>2
<1>3. ASSUME NEW g \in Handlers, tasks[g].pc # "page"
      PROVE  \/ tasks'[g] = tasks[g] \/ tasks'[g].pc \notin {"page", "done"}
             \/ tasks'[g].pc = "done" /\ tasks'[g].kind \notin Walks
  <2>1. CASE g = h
    <3>1. Saved(tasks[h], ok).pc = "done" /\ Saved(tasks[h], ok).kind = "save"
      BY DEF Saved
    <3>2. tasks'[g] = Saved(tasks[h], ok)
      BY <1>1, <2>1
    <3> QED
      BY <3>1, <3>2 DEF Walks
  <2>2. CASE /\ tasks[g].pc \in {"find", "update", "create"}
             /\ tasks'[g] = [tasks[g] EXCEPT !.raced = TRUE]
    <3>1. Carries(tasks[g])
      BY DEF Tasks
    <3>2. tasks'[g].pc = tasks[g].pc
      BY <2>2, <3>1, RaceIsNoted
    <3> QED
      BY <2>2, <3>2
  <2> QED
    BY <1>1, <2>1, <2>2
<1> QED
  BY <1>2, <1>3, WritersWalk

LEMMA StandingWalks ==
  ASSUME Rows, Tasks, WalksAreSound, UNCHANGED tasks, now' \in {now, now + 1},
         \A walk \in Walks : ListMoves(walk, {})
  PROVE  WalksAreSound'
<1>1. ASSUME NEW g \in Handlers, tasks[g].pc = "page"
      PROVE  tasks[g].kind \in Walks
  BY <1>1, CarriedBy DEF Tasks, Pages
<1> QED
  BY <1>1, WritersWalk

LEMMA WalksStep ==
  ASSUME Rows, Tasks, WalksAreSound, [Next]_vars
  PROVE  WalksAreSound'
<1>1. CASE UNCHANGED vars \/ SetOptOut
  <2>1. UNCHANGED <<now, readings, reflections, tasks>>
    BY <1>1 DEF vars, SetOptOut
  <2> QED
    BY <2>1, NoListMoves, StandingWalks
<1>2. ASSUME NEW h \in Handlers, StartWalk(h)
      PROVE  WalksAreSound'
  BY <1>2, StartWalks DEF Stand, StartWalk
<1>3. ASSUME NEW h \in Handlers, Page(h)
      PROVE  WalksAreSound'
  BY <1>3, PageWalks DEF Stand, Page
<1>4. ASSUME NEW h \in Handlers,
             \/ Summarize(h) \/ SaveReflection(h) \/ QueryFails(h) \/ ReadProfile(h)
             \/ Cached(h) \/ AskModel(h) \/ Remember(h) \/ ExistingId(h)
      PROVE  WalksAreSound'
  <2>1. Stand
    BY <1>4 DEF Stand, Summarize, SaveReflection, QueryFails, ReadProfile, Cached, AskModel,
                Remember, ExistingId
  <2>2. ASSUME NEW d, NEW sentence
        PROVE  Summary(d, sentence).pc = "done" /\ Walked(Summary(d, sentence))
    <3>1. Summary(d, sentence).kind = "summary" /\ Summary(d, sentence).pc = "done"
      BY DEF Summary
    <3> QED
      BY <3>1 DEF Walked, Walks
  <2>3. CASE Summarize(h)
    <3>1. \E d : Become(h, Summary(d, Plainly)) \/ Become(h, [pc |-> "profile", digest |-> d])
      BY <2>3 DEF Summarize
    <3>2. PICK task : Become(h, task) /\ (\/ task.pc = "profile"
                                          \/ task.pc = "done" /\ Walked(task))
      BY <2>2, <3>1
    <3> QED
      BY <2>1, <3>2, OneWalks
  <2>4. CASE SaveReflection(h)
    <3>1. PICK task : Become(h, task) /\ task.pc = "find"
      BY <2>4 DEF SaveReflection
    <3> QED
      BY <2>1, <3>1, OneWalks
  <2>5. CASE QueryFails(h)
    <3>1. Become(h, Idle) /\ Idle.pc = "idle"
      BY <2>5 DEF QueryFails, Idle
    <3> QED
      BY <2>1, <3>1, OneWalks
  <2>6. CASE ReadProfile(h) \/ Cached(h) \/ AskModel(h) \/ Remember(h)
    <3> DEFINE d == tasks[h].digest
    <3>1. \/ \E sentence : Become(h, Summary(d, sentence))
          \/ \E pc \in {"cached", "ask"} : Become(h, [pc |-> pc, digest |-> d])
          \/ Become(h, [pc |-> "remember", digest |-> d, told |-> DigestFacts(d)])
      BY <2>6 DEF ReadProfile, Cached, AskModel, Remember
    <3>2. PICK task : Become(h, task) /\ (\/ task.pc \in {"cached", "ask", "remember"}
                                          \/ task.pc = "done" /\ Walked(task))
      BY <2>2, <3>1
    <3> QED
      BY <2>1, <3>2, OneWalks
  <2>7. CASE ExistingId(h)
    <3> DEFINE t == tasks[h]
    <3>1. t \in Looks
      BY <2>7, CarriedBy DEF ExistingId, IsAt, Tasks
    <3>2. [t EXCEPT !.pc = "create"].pc = "create"
      BY <3>1 DEF Looks
    <3>3. \/ Become(h, [t EXCEPT !.pc = "create"])
          \/ \E id : Become(h, [pc |-> "update", reading |-> t.reading, note |-> t.note,
                                raced |-> t.raced, id |-> id])
      BY <2>7 DEF ExistingId
    <3>4. \A id : [pc |-> "update", reading |-> t.reading, note |-> t.note,
                   raced |-> t.raced, id |-> id].pc = "update"
      OBVIOUS
    <3>5. PICK task : Become(h, task) /\ task.pc \in {"create", "update"}
      <4>1. "create" \in {"create", "update"} /\ "update" \in {"create", "update"}
        OBVIOUS
      <4> QED
        BY <3>2, <3>3, <3>4, <4>1, Zenon
    <3> QED
      BY <2>1, <3>5, OneWalks
  <2> QED
    BY <1>4, <2>3, <2>4, <2>5, <2>6, <2>7
<1>5. ASSUME NEW h \in Handlers, UpdateReflection(h)
      PROVE  WalksAreSound'
  <2> DEFINE t == tasks[h]
             there == {e \in reflections : e.id = t.id}
  <2>1. /\ reflections' = (reflections \ there) \cup {[e EXCEPT !.note = t.note] : e \in there}
        /\ RacingSaves(t.reading, h, Saved(t, there # {}))
        /\ UNCHANGED <<now, readings>> /\ t.pc # "page"
    BY <1>5 DEF UpdateReflection, IsAt
  <2>2. PICK id, note : reflections' =
          {IF e.id = id THEN [e EXCEPT !.note = note] ELSE e : e \in reflections}
    <3>1. reflections' =
            {IF e.id = t.id THEN [e EXCEPT !.note = t.note] ELSE e : e \in reflections}
      BY <2>1
    <3> QED
      BY <3>1
  <2> HIDE DEF t, there
  <2>3. ASSUME NEW walk \in Walks
        PROVE  ListMoves(walk, {})
    BY <2>1, <2>2, EditMovesNoList
  <2> QED
    BY <2>1, <2>3, RacingWalks DEF t
<1>6. ASSUME NEW h \in Handlers, CreateReflection(h)
      PROVE  WalksAreSound'
  <2> DEFINE t == tasks[h]
  <2>1. t.pc # "page" /\ UNCHANGED <<now, readings>>
    BY <1>6 DEF CreateReflection, IsAt
  <2>2. CASE EntriesOn(t.reading) = {}
    <3>1. PICK n \in Ids :
            /\ reflections' = reflections \cup
                 {[id |-> n, reading |-> t.reading, note |-> t.note, at |-> now]}
            /\ RacingSaves(t.reading, h, Saved(t, TRUE))
      BY <1>6, <2>2 DEF CreateReflection
    <3> DEFINE e == [id |-> n, reading |-> t.reading, note |-> t.note, at |-> now]
               r == [id |-> n, at |-> now, savedAt |-> NotSaved]
    <3>2. /\ e.id = n /\ e.at = now /\ r.id = n /\ r.at = now /\ r.savedAt = NotSaved
          /\ reflections' = reflections \cup {e}
      BY <3>1
    <3> HIDE DEF e, r
    <3>3. \A walk \in Walks : ListMoves(walk, {})
      BY <2>1, <3>2, NewRowsMoveLists
    <3> QED
      BY <2>1, <3>1, <3>3, RacingWalks
  <2>3. CASE EntriesOn(t.reading) # {}
    <3>1. Become(h, Saved(t, FALSE)) /\ Stand
      BY <1>6, <2>3 DEF CreateReflection, Stand
    <3>2. Saved(t, FALSE).pc = "done" /\ Saved(t, FALSE).kind = "save"
      BY DEF Saved
    <3>3. Walked(Saved(t, FALSE))
      BY <3>2 DEF Walked, Walks
    <3> QED
      BY <3>1, <3>2, <3>3, OneWalks
  <2> QED
    BY <2>2, <2>3
<1>7. CASE CreateReading
  <2>1. PICK id \in Ids, f \in Fortunes :
          readings' = readings \cup
            {[id |-> id, fortune |-> f, at |-> now, savedAt |-> NotSaved]}
    BY <1>7 DEF CreateReading
  <2> DEFINE r == [id |-> id, fortune |-> f, at |-> now, savedAt |-> NotSaved]
  <2>2. r.id = id /\ r.at = now /\ r.savedAt = NotSaved /\ readings' = readings \cup {r}
    BY <2>1
  <2> HIDE DEF r
  <2>3. UNCHANGED <<now, reflections, tasks>>
    BY <1>7 DEF CreateReading
  <2>4. \A walk \in Walks : ListMoves(walk, {})
    BY <2>2, <2>3, NewRowsMoveLists
  <2> QED
    BY <2>3, <2>4, StandingWalks
<1>8. CASE DeleteReading \/ ClearHistory
  <2>1. PICK ids \in SUBSET Ids :
          /\ readings' \subseteq readings /\ \A r \in readings : r \in readings' \/ r.id \in ids
          /\ Touching({"history", "saved"}, ids) /\ UNCHANGED <<now, reflections>>
    <3>1. CASE ClearHistory
      BY <3>1 DEF ClearHistory, IdsOf, Rows, Reading
    <3>2. CASE DeleteReading
      <4>1. PICK r \in readings :
              readings' = readings \ {r} /\ Touching({"history", "saved"}, {r.id})
        BY <3>2 DEF DeleteReading
      <4>2. {r.id} \in SUBSET Ids
        BY DEF Rows, Reading
      <4> QED
        BY <3>2, <4>1, <4>2 DEF DeleteReading
    <3> QED
      BY <1>8, <3>1, <3>2
  <2>2. ListMoves("history", ids) /\ ListMoves("saved", ids)
    BY <2>1, FewerReadings
  <2>3. ListMoves("reflections", {})
    BY <2>1 DEF ListMoves, RowsOf
  <2> QED
    BY <2>1, <2>2, <2>3, TouchingWalks DEF Walks
<1>9. CASE SetSaved
  <2>1. PICK r \in readings, at \in {now, NotSaved} :
          /\ readings' = (readings \ {r}) \cup {[r EXCEPT !.savedAt = at]}
          /\ Touching({"saved"}, {r.id}) /\ UNCHANGED <<now, reflections>>
    BY <1>9 DEF SetSaved
  <2>2. ListMoves("history", {}) /\ ListMoves("saved", {r.id})
    BY <2>1, SavedMoves
  <2>3. ListMoves("reflections", {}) /\ {r.id} \in SUBSET Ids
    BY <2>1 DEF ListMoves, RowsOf, Rows, Reading
  <2> QED
    BY <2>1, <2>2, <2>3, TouchingWalks DEF Walks
<1>10. CASE RemoveReflection
  <2>1. PICK e \in reflections :
          /\ reflections' = reflections \ {e} /\ UNCHANGED <<now, readings>>
          /\ tasks' = [h \in Handlers |->
            IF IsAt(h, "page") /\ tasks[h].kind = "reflections"
            THEN [tasks[h] EXCEPT !.touched = @ \cup {e.id}]
            ELSE IF tasks[h].pc \in {"find", "update", "create"}
                    /\ e.reading # Standalone /\ tasks[h].reading = e.reading
            THEN [tasks[h] EXCEPT !.raced = TRUE] ELSE tasks[h]]
    BY <1>10 DEF RemoveReflection
  <2>2. ListMoves("reflections", {e.id}) /\ {e.id} \in SUBSET Ids
    BY <2>1, FewerReflections DEF Rows, Entry
  <2>3. ListMoves("history", {}) /\ ListMoves("saved", {})
    BY <2>1 DEF ListMoves, RowsOf
  <2>4. ASSUME NEW g \in Handlers, tasks[g].pc = "page"
        PROVE  \E walk : \E s \in SUBSET Ids :
                 /\ tasks[g].kind = walk /\ ListMoves(walk, s)
                 /\ \/ tasks'[g] = tasks[g] /\ s = {}
                    \/ tasks'[g] = [tasks[g] EXCEPT !.touched = @ \cup s]
    <3>1. tasks[g].kind \in Walks
      BY <2>4, CarriedBy DEF Tasks, Pages
    <3>2. CASE tasks[g].kind = "reflections"
      <4>1. tasks'[g] = [tasks[g] EXCEPT !.touched = @ \cup {e.id}]
        BY <2>1, <2>4, <3>2 DEF IsAt
      <4> QED
        BY <2>2, <3>2, <4>1
    <3>3. CASE tasks[g].kind \in {"history", "saved"}
      <4>1. tasks'[g] = tasks[g]
        BY <2>1, <2>4, <3>3 DEF IsAt
      <4> QED
        BY <2>3, <3>3, <4>1
    <3> QED
      BY <3>1, <3>2, <3>3 DEF Walks
  <2>5. ASSUME NEW g \in Handlers, tasks[g].pc # "page"
        PROVE  tasks'[g] = tasks[g] \/ tasks'[g].pc \notin {"page", "done"}
    <3>1. \/ tasks'[g] = tasks[g]
          \/ /\ tasks[g].pc \in {"find", "update", "create"}
             /\ tasks'[g] = [tasks[g] EXCEPT !.raced = TRUE]
      BY <2>1, <2>5 DEF IsAt
    <3>2. Carries(tasks[g])
      BY DEF Tasks
    <3>3. tasks[g].pc \in {"find", "update", "create"} =>
            [tasks[g] EXCEPT !.raced = TRUE].pc = tasks[g].pc
      BY <3>2, RaceIsNoted
    <3> QED
      BY <3>1, <3>3
  <2> QED
    BY <2>1, <2>4, <2>5, WritersWalk
<1>11. CASE Hour
  <2>1. now' \in {now, now + 1} /\ UNCHANGED <<readings, reflections, tasks>>
    BY <1>11 DEF Hour
  <2> QED
    BY <2>1, NoListMoves, StandingWalks
<1> QED
  BY <1>1, <1>2, <1>3, <1>4, <1>5, <1>6, <1>7, <1>8, <1>9, <1>10, <1>11 DEF Next, HandlerStep

-----------------------------------------------------------------------------
(* Summaries.                                                              *)

\* What is told of some readings depends on their fortunes and times alone.
LEMMA TellsAgree ==
  ASSUME NEW a, NEW b, NEW ids, \A i \in ids : a[i] = b[i]
  PROVE  Tells(a, ids) = Tells(b, ids)
<1>1. {a[i].at \div HoursPerDay : i \in ids} = {b[i].at \div HoursPerDay : i \in ids}
  OBVIOUS
<1>2. ASSUME NEW part
      PROVE  {i \in ids : DayPartOf(a[i].at % HoursPerDay) = part}
               = {i \in ids : DayPartOf(b[i].at % HoursPerDay) = part}
  OBVIOUS
<1>3. [part \in Range(DayParts) |->
         Cardinality({i \in ids : DayPartOf(a[i].at % HoursPerDay) = part})]
        = [part \in Range(DayParts) |->
             Cardinality({i \in ids : DayPartOf(b[i].at % HoursPerDay) = part})]
  BY <1>2
<1>4. ASSUME NEW f
      PROVE  {i \in ids : a[i].fortune = f} = {i \in ids : b[i].fortune = f}
  OBVIOUS
<1>5. {a[i].fortune : i \in ids} = {b[i].fortune : i \in ids}
  OBVIOUS
<1>6. [f \in {a[i].fortune : i \in ids} |-> Cardinality({i \in ids : a[i].fortune = f})]
        = [f \in {b[i].fortune : i \in ids} |-> Cardinality({i \in ids : b[i].fortune = f})]
  BY <1>4, <1>5
<1> QED
  BY <1>1, <1>3, <1>6 DEF Tells

\* Readings are as they were made.
Made(born) == \A r \in readings : born[r.id] = [fortune |-> r.fortune, at |-> r.at]

\* What is told of some rows is told of their ids.
LEMMA TellsOfRows ==
  ASSUME Rows, NEW born, Made(born), NEW rows \in SUBSET readings
  PROVE  LET tells == Tells(born, IdsOf(rows))
         IN  /\ Cardinality({m.at \div HoursPerDay : m \in rows}) = tells.activeDays
             /\ LeadingPart([part \in Range(DayParts) |->
                  Cardinality({m \in rows : DayPartOf(m.at % HoursPerDay) = part})])
                  = tells.dayPart
             /\ Tally(rows) = tells.byFortune
<1> DEFINE ids == IdsOf(rows)
           inPart(part) == {i \in ids : DayPartOf(born[i].at % HoursPerDay) = part}
           partOf(part) == {m \in rows : DayPartOf(m.at % HoursPerDay) = part}
           inFortune(f) == {i \in ids : born[i].fortune = f}
           fortuneOf(f) == {m \in rows : m.fortune = f}
<1>1. \A m \in rows : born[m.id].at = m.at /\ born[m.id].fortune = m.fortune
  <2>1. ASSUME NEW m \in rows
        PROVE  born[m.id].at = m.at /\ born[m.id].fortune = m.fortune
    <3>1. born[m.id] = [fortune |-> m.fortune, at |-> m.at]
      BY DEF Made
    <3> QED
      BY <3>1
  <2> QED
    BY <2>1
<1>2. ASSUME NEW some \in SUBSET rows
      PROVE  Cardinality(IdsOf(some)) = Cardinality(some)
  <2>1. Distinct(some) /\ IdsOf(some) \subseteq Ids
    BY DEF Rows, Distinct, IdsOf
  <2> QED
    BY <2>1, RowsAndIds
<1>3. /\ {m.at \div HoursPerDay : m \in rows} = {born[i].at \div HoursPerDay : i \in ids}
      /\ {m.fortune : m \in rows} = {born[i].fortune : i \in ids}
      /\ \A part : Cardinality(partOf(part)) = Cardinality(inPart(part))
      /\ \A f : Cardinality(fortuneOf(f)) = Cardinality(inFortune(f))
  <2>1. {m.at \div HoursPerDay : m \in rows} = {born[i].at \div HoursPerDay : i \in ids}
    BY <1>1 DEF IdsOf
  <2>2. {m.fortune : m \in rows} = {born[i].fortune : i \in ids}
    BY <1>1 DEF IdsOf
  <2>3. ASSUME NEW part
        PROVE  Cardinality(partOf(part)) = Cardinality(inPart(part))
    <3>1. IdsOf(partOf(part)) = inPart(part)
      BY <1>1 DEF IdsOf
    <3>2. partOf(part) \in SUBSET rows
      OBVIOUS
    <3> HIDE DEF partOf, inPart
    <3> QED
      BY <1>2, <3>1, <3>2, Zenon
  <2>4. ASSUME NEW f
        PROVE  Cardinality(fortuneOf(f)) = Cardinality(inFortune(f))
    <3>1. IdsOf(fortuneOf(f)) = inFortune(f)
      BY <1>1 DEF IdsOf
    <3>2. fortuneOf(f) \in SUBSET rows
      OBVIOUS
    <3> HIDE DEF fortuneOf, inFortune
    <3> QED
      BY <1>2, <3>1, <3>2, Zenon
  <2> HIDE DEF inPart, partOf, inFortune, fortuneOf
  <2> QED
    BY <2>1, <2>2, <2>3, <2>4, Zenon
<1>4. Tells(born, ids) =
        [activeDays |-> Cardinality({born[i].at \div HoursPerDay : i \in ids}),
         dayPart |-> LeadingPart([part \in Range(DayParts) |-> Cardinality(inPart(part))]),
         byFortune |-> MostRead([f \in {born[i].fortune : i \in ids} |->
                                   Cardinality(inFortune(f))])]
  BY DEF Tells
<1>5. Tally(rows) = MostRead([f \in {m.fortune : m \in rows} |->
                                Cardinality(fortuneOf(f))])
  BY DEF Tally
<1> HIDE DEF inPart, partOf, inFortune, fortuneOf
<1>6. [part \in Range(DayParts) |-> Cardinality(partOf(part))]
        = [part \in Range(DayParts) |-> Cardinality(inPart(part))]
  BY <1>3
<1>7. [f \in {m.fortune : m \in rows} |-> Cardinality(fortuneOf(f))]
        = [f \in {born[i].fortune : i \in ids} |-> Cardinality(inFortune(f))]
  BY <1>3
<1>8. /\ Cardinality({m.at \div HoursPerDay : m \in rows}) = Tells(born, ids).activeDays
      /\ LeadingPart([part \in Range(DayParts) |-> Cardinality(partOf(part))])
           = Tells(born, ids).dayPart
      /\ Tally(rows) = Tells(born, ids).byFortune
  <2>1. Tells(born, ids).activeDays = Cardinality({born[i].at \div HoursPerDay : i \in ids})
    BY <1>4
  <2>2. Tells(born, ids).dayPart =
          LeadingPart([part \in Range(DayParts) |-> Cardinality(inPart(part))])
    BY <1>4
  <2>3. Tells(born, ids).byFortune =
          MostRead([f \in {born[i].fortune : i \in ids} |-> Cardinality(inFortune(f))])
    BY <1>4
  <2> QED
    BY <1>3, <1>5, <1>6, <1>7, <2>1, <2>2, <2>3, Zenon
<1> QED
  BY <1>8 DEF partOf

\* The numbers a request counts from the readings there are, are known.
LEMMA DigestKnown ==
  ASSUME Rows, NEW born, Made(born), NEW moments \in SUBSET readings,
         NEW range, NEW at
  PROVE  LET d == BuildDigest(moments, range, at)
         IN  Known(DigestFingerprint(d), DigestFacts(d), born, used.readings)
<1> DEFINE d == BuildDigest(moments, range, at)
           span == RangeDays[range] * HoursPerDay
           rows == {m \in moments : m.at >= at - span /\ m.at <= at}
           source == Newest(rows)
           ids == IdsOf(rows)
           tells == Tells(born, ids)
<1>1. rows \in SUBSET readings
  OBVIOUS
<1>2. /\ d.sourceIds = [i \in DOMAIN source |-> source[i].id]
      /\ d.activeDays = Cardinality({m.at \div HoursPerDay : m \in rows})
      /\ d.dayPart = LeadingPart([part \in Range(DayParts) |->
           Cardinality({m \in rows : DayPartOf(m.at % HoursPerDay) = part})])
      /\ d.byFortune = Tally(rows)
  BY DEF BuildDigest
<1> HIDE DEF rows, d
<1>3. Dated(rows)
  <2>1. Distinct(rows) /\ IdsOf(rows) \subseteq Ids
    BY <1>1 DEF Rows, Distinct, IdsOf
  <2>2. \A r \in rows : r.at \in Int /\ r.id \in Int
    <3>1. \A i \in Ids : i \in Int
      BY HistoryAssumption
    <3>2. \A r \in rows : r.at \in 0..MaxNow /\ r.id \in Ids
      BY <1>1 DEF Rows, Reading
    <3>3. \A n \in 0..MaxNow : n \in Int
      OBVIOUS
    <3> QED
      BY <3>1, <3>2, <3>3, Zenon
  <2> QED
    BY <2>1, <2>2, RowsAndIds, Zenon DEF Dated
<1>4. Range(source) = rows
  BY <1>3, NewestLists
<1> HIDE DEF source
<1>5. Range(d.sourceIds) = ids
  BY <1>2, <1>4 DEF Range, IdsOf
<1>6. ids \subseteq used.readings
  BY <1>1 DEF Rows, IdsOf
<1>7. /\ d.activeDays = tells.activeDays
      /\ d.dayPart = tells.dayPart
      /\ d.byFortune = tells.byFortune
  BY <1>1, <1>2, TellsOfRows
<1>10. /\ DigestFingerprint(d)[1] = d.range /\ DigestFingerprint(d)[2] = d.total
       /\ DigestFingerprint(d)[3] = d.previousTotal
       /\ DigestFingerprint(d)[4] = d.sourceIds
  BY DEF DigestFingerprint
<1> HIDE DEF tells
<1>11. Known(DigestFingerprint(d), DigestFacts(d), born, used.readings)
  BY <1>5, <1>6, <1>7, <1>10 DEF Known, DigestFacts, tells
<1> QED
  BY <1>11 DEF d

\* What Fingerprints says of a row of the cache and of a request.
RowIsKnown(row, born, have) ==
  row = NoRow \/ Known(row.fingerprint, row.told, born, have)

Phrasing == {"profile", "cached", "ask", "remember"}

PhraseOf(t, born, have) ==
  /\ t.pc \in Phrasing =>
       /\ t.digest.range \in Ranges
       /\ Known(DigestFingerprint(t.digest), DigestFacts(t.digest), born, have)
  /\ t.pc = "remember" => t.told = DigestFacts(t.digest)
  /\ t.pc = "done" /\ t.kind = "summary" /\ t.sentence.source = "ai" =>
       t.sentence.told = DigestFacts(t.digest)

PhrasesHold(born) ==
  /\ Made(born)
  /\ DOMAIN cache = Ranges
  /\ \A range \in Ranges : RowIsKnown(cache[range], born, used.readings)
  /\ \A h \in Handlers : PhraseOf(tasks[h], born, used.readings)

PhrasesAreSound == \E born : PhrasesHold(born)

LEMMA PhrasesSay ==
  PhrasesAreSound <=>
    DOMAIN cache = Ranges /\ SummaryTellsItsNumbers /\ \E born : Fingerprints(born)
<1>1. ASSUME NEW born
      PROVE  PhrasesHold(born) <=>
               DOMAIN cache = Ranges /\ SummaryTellsItsNumbers /\ Fingerprints(born)
  BY DEF PhrasesHold, RowIsKnown, PhraseOf, Phrasing, Made, Fingerprints,
              SummaryTellsItsNumbers, IsAt
<1> QED
  BY <1>1 DEF PhrasesAreSound

LEMMA PhrasesInit ==
  ASSUME Init
  PROVE  PhrasesAreSound
<1> DEFINE row(i) == CHOOSE r \in readings : r.id = i
           born == [i \in Ids |-> [fortune |-> row(i).fortune, at |-> row(i).at]]
<1>1. Made(born)
  <2>1. Rows
    BY RowsInit
  <2>2. ASSUME NEW r \in readings
        PROVE  born[r.id] = [fortune |-> r.fortune, at |-> r.at]
    <3>1. r.id \in Ids /\ row(r.id) = r
      BY <2>1 DEF Rows, Distinct, Reading
    <3> QED
      BY <3>1
  <2> QED
    BY <2>2 DEF Made
<1> HIDE DEF born
<1>2. /\ DOMAIN cache = Ranges
      /\ \A range \in Ranges : RowIsKnown(cache[range], born, used.readings)
  BY DEF Init, RowIsKnown
<1>3. \A h \in Handlers : PhraseOf(tasks[h], born, used.readings)
  BY DEF Init, Idle, PhraseOf, Phrasing
<1>4. PhrasesHold(born)
  BY <1>1, <1>2, <1>3 DEF PhrasesHold
<1> QED
  BY <1>4 DEF PhrasesAreSound

\* What a fingerprint says is settled: it does not change as readings are made.
LEMMA KnownGrows ==
  ASSUME NEW fingerprint, NEW told, NEW a, NEW b, NEW have, NEW have2,
         Known(fingerprint, told, a, have),
         have \subseteq have2, \A i \in have : a[i] = b[i]
  PROVE  Known(fingerprint, told, b, have2)
<1>1. Tells(a, Range(fingerprint[4])) = Tells(b, Range(fingerprint[4]))
  BY TellsAgree DEF Known
<1> QED
  BY <1>1 DEF Known

LEMMA PhraseGrows ==
  ASSUME NEW t, NEW a, NEW b, NEW have, NEW have2, PhraseOf(t, a, have),
         have \subseteq have2, \A i \in have : a[i] = b[i]
  PROVE  PhraseOf(t, b, have2)
BY KnownGrows DEF PhraseOf

\* A step of one request that leaves the readings alone.
LEMMA PhraseBecomes ==
  ASSUME Tasks, NEW born, PhrasesHold(born), UNCHANGED <<readings, used>>,
         NEW h \in Handlers, NEW task, Become(h, task),
         PhraseOf(task, born, used.readings),
         \/ UNCHANGED cache
         \/ \E range \in Ranges : \E row :
              /\ cache' = [cache EXCEPT ![range] = row]
              /\ RowIsKnown(row, born, used.readings)
  PROVE  PhrasesHold(born)'
<1>1. Made(born)'
  BY DEF PhrasesHold, Made
<1>2. DOMAIN cache' = Ranges
  BY DEF PhrasesHold
<1>3. \A range \in Ranges : RowIsKnown(cache'[range], born, used'.readings)
  BY DEF PhrasesHold
<1>4. \A g \in Handlers : PhraseOf(tasks'[g], born, used'.readings)
  BY BecomesOne DEF PhrasesHold
<1> QED
  BY <1>1, <1>2, <1>3, <1>4 DEF PhrasesHold

\* Steps of other requests: readings may go, and what is said of them stays.
LEMMA PhrasesStay ==
  ASSUME NEW born, PhrasesHold(born), UNCHANGED cache, used'.readings = used.readings,
         \A r \in readings' : \E s \in readings :
           s.id = r.id /\ s.fortune = r.fortune /\ s.at = r.at,
         \A h \in Handlers : \/ tasks'[h] = tasks[h]
                             \/ tasks'[h].pc \notin Phrasing \cup {"done"}
                             \/ tasks'[h].pc = "done" /\ tasks'[h].kind # "summary"
  PROVE  PhrasesHold(born)'
<1>1. Made(born)'
  <2>1. ASSUME NEW r \in readings'
        PROVE  born[r.id] = [fortune |-> r.fortune, at |-> r.at]
    <3>1. PICK m \in readings : m.id = r.id /\ m.fortune = r.fortune /\ m.at = r.at
      OBVIOUS
    <3>2. born[m.id] = [fortune |-> m.fortune, at |-> m.at]
      BY DEF PhrasesHold, Made
    <3> QED
      BY <3>1, <3>2
  <2> QED
    BY <2>1 DEF Made
<1>2. \A h \in Handlers : PhraseOf(tasks'[h], born, used'.readings)
  BY DEF PhrasesHold, PhraseOf, Phrasing
<1> QED
  BY <1>1, <1>2 DEF PhrasesHold

LEMMA PhrasesStep ==
  ASSUME Rows, Tasks, PhrasesAreSound, [Next]_vars
  PROVE  PhrasesAreSound'
<1>0. PICK born : PhrasesHold(born)
  BY DEF PhrasesAreSound
<1>1. SUFFICES ASSUME Next, ~CreateReading
               PROVE  PhrasesHold(born)'
  <2>1. CASE UNCHANGED vars
    <3>1. PhrasesHold(born)'
      BY <1>0, <2>1, PhrasesStay DEF vars
    <3> QED
      BY <3>1 DEF PhrasesAreSound
  <2>2. CASE CreateReading
    <3>1. PICK id \in Ids \ used.readings, f \in Fortunes :
            /\ readings' = readings \cup
                 {[id |-> id, fortune |-> f, at |-> now, savedAt |-> NotSaved]}
            /\ used' = [used EXCEPT !.readings = @ \cup {id}]
            /\ UNCHANGED <<cache, tasks>>
      BY <2>2 DEF CreateReading
    <3> DEFINE new == [fortune |-> f, at |-> now]
    <3>2. PICK moment : moment = new
      OBVIOUS
    <3> DEFINE born2 == [i \in Ids |-> IF i = id THEN moment ELSE born[i]]
    <3>3. /\ used'.readings = used.readings \cup {id}
          /\ used.readings \subseteq Ids /\ IdsOf(readings) \subseteq used.readings
      BY <3>1 DEF Rows
    <3>4. \A i \in used.readings : born2[i] = born[i]
      BY <3>1, <3>3
    <3>5. born2[id] = [fortune |-> f, at |-> now]
      BY <3>1, <3>2
    <3> HIDE DEF born2
    <3>6. Made(born2)'
      <4>1. ASSUME NEW r \in readings
            PROVE  born2[r.id] = [fortune |-> r.fortune, at |-> r.at]
        <5>1. born[r.id] = [fortune |-> r.fortune, at |-> r.at]
          BY <1>0 DEF PhrasesHold, Made
        <5>2. r.id \in used.readings
          BY <3>3 DEF IdsOf
        <5> QED
          BY <3>4, <5>1, <5>2
      <4>2. ASSUME NEW r, r = [id |-> id, fortune |-> f, at |-> now, savedAt |-> NotSaved]
            PROVE  born2[r.id] = [fortune |-> r.fortune, at |-> r.at]
        BY <3>5, <4>2
      <4>3. \A r \in readings' : r \in readings
              \/ r = [id |-> id, fortune |-> f, at |-> now, savedAt |-> NotSaved]
        BY <3>1
      <4> QED
        BY <4>1, <4>2, <4>3, Zenon DEF Made
    <3>7. \A range \in Ranges : RowIsKnown(cache'[range], born2, used'.readings)
      BY <1>0, <3>1, <3>3, <3>4, KnownGrows DEF PhrasesHold, RowIsKnown
    <3>8. \A h \in Handlers : PhraseOf(tasks'[h], born2, used'.readings)
      BY <1>0, <3>1, <3>3, <3>4, PhraseGrows DEF PhrasesHold
    <3>9. DOMAIN cache' = Ranges
      BY <1>0, <3>1 DEF PhrasesHold
    <3>10. PhrasesHold(born2)'
      BY <3>6, <3>7, <3>8, <3>9 DEF PhrasesHold
    <3> QED
      BY <3>10 DEF PhrasesAreSound
  <2> QED
    BY <1>1, <2>1, <2>2 DEF PhrasesAreSound
<1>2. Made(born) /\ \A h \in Handlers : PhraseOf(tasks[h], born, used.readings)
  BY <1>0 DEF PhrasesHold
<1>3. \A digest : PhraseOf(Summary(digest, Plainly), born, used.readings)
  BY DEF PhraseOf, Summary, Plainly, Phrasing
<1>4. ASSUME NEW h \in Handlers, Summarize(h)
      PROVE  PhrasesHold(born)'
  <2>1. PICK range \in Ranges :
          LET since == now - 2 * RangeDays[range] * HoursPerDay
              digest == BuildDigest({r \in readings : r.at >= since}, range, now)
          IN  \/ Become(h, Summary(digest, Plainly))
              \/ Become(h, [pc |-> "profile", digest |-> digest])
    BY <1>4 DEF Summarize
  <2> DEFINE moments == {r \in readings : r.at >= now - 2 * RangeDays[range] * HoursPerDay}
             d == BuildDigest(moments, range, now)
  <2>2. moments \in SUBSET readings
    OBVIOUS
  <2> HIDE DEF moments
  <2>3. d.range = range
    BY DEF BuildDigest
  <2>4. Known(DigestFingerprint(d), DigestFacts(d), born, used.readings)
    BY <1>2, <2>2, DigestKnown
  <2>5. Become(h, Summary(d, Plainly)) \/ Become(h, [pc |-> "profile", digest |-> d])
    BY <2>1 DEF moments
  <2> HIDE DEF d
  <2>6. PhraseOf([pc |-> "profile", digest |-> d], born, used.readings)
    BY <2>3, <2>4 DEF PhraseOf, Phrasing
  <2>7. UNCHANGED <<readings, used, cache>>
    BY <1>4 DEF Summarize
  <2> QED
    BY <1>0, <1>3, <2>5, <2>6, <2>7, PhraseBecomes
<1>5. ASSUME NEW h \in Handlers, ReadProfile(h) \/ Cached(h) \/ AskModel(h) \/ Remember(h)
      PROVE  PhrasesHold(born)'
  <2> DEFINE d == tasks[h].digest
             fingerprint == DigestFingerprint(d)
             told == DigestFacts(d)
  <2>1. UNCHANGED <<readings, used>>
    BY <1>5 DEF ReadProfile, Cached, AskModel, Remember
  <2>2. d.range \in Ranges /\ Known(fingerprint, told, born, used.readings)
    BY <1>2, <1>5 DEF ReadProfile, Cached, AskModel, Remember, IsAt, PhraseOf, Phrasing
  <2> HIDE DEF fingerprint, told
  <2>3. PhraseOf(Summary(d, Warmly(told)), born, used.readings)
    BY DEF PhraseOf, Summary, Warmly, Phrasing, told
  <2>4. /\ \A pc \in {"cached", "ask"} : PhraseOf([pc |-> pc, digest |-> d], born, used.readings)
        /\ PhraseOf([pc |-> "remember", digest |-> d, told |-> told], born, used.readings)
    BY <2>2 DEF PhraseOf, Phrasing, fingerprint, told
  <2>5. CASE ReadProfile(h)
    BY <1>0, <1>3, <2>1, <2>4, <2>5, PhraseBecomes DEF ReadProfile
  <2>6. CASE Cached(h)
    <3> DEFINE row == cache[d.range]
    <3>1. row # NoRow => Known(row.fingerprint, row.told, born, used.readings)
      BY <1>0, <2>2 DEF PhrasesHold, RowIsKnown
    <3>2. row # NoRow /\ row.fingerprint = fingerprint => row.told = told
      BY <2>2, <3>1 DEF Known
    <3>3. \/ row # NoRow /\ row.fingerprint = fingerprint
             /\ Become(h, Summary(d, Warmly(row.told)))
          \/ Become(h, [pc |-> "ask", digest |-> d])
      BY <2>6 DEF Cached, fingerprint
    <3>4. Become(h, Summary(d, Warmly(told))) \/ Become(h, [pc |-> "ask", digest |-> d])
      BY <3>2, <3>3
    <3>5. UNCHANGED cache
      BY <2>6 DEF Cached
    <3> QED
      BY <1>0, <2>1, <2>3, <2>4, <3>4, <3>5, PhraseBecomes
  <2>7. CASE AskModel(h)
    BY <1>0, <1>3, <2>1, <2>4, <2>7, PhraseBecomes DEF AskModel, told
  <2>8. CASE Remember(h)
    <3>1. tasks[h].told = told
      BY <1>2, <2>8 DEF Remember, IsAt, PhraseOf, told
    <3> DEFINE row == [fingerprint |-> fingerprint, told |-> told]
    <3>2. RowIsKnown(row, born, used.readings)
      BY <2>2 DEF RowIsKnown
    <3>3. cache' = [cache EXCEPT ![d.range] = row] \/ UNCHANGED cache
      BY <2>8, <3>1 DEF Remember, fingerprint
    <3>4. Become(h, Summary(d, Warmly(told)))
      BY <2>8, <3>1 DEF Remember
    <3> HIDE DEF row
    <3> QED
      BY <1>0, <2>1, <2>2, <2>3, <3>2, <3>3, <3>4, PhraseBecomes
  <2> QED
    BY <1>5, <2>5, <2>6, <2>7, <2>8
<1>6. ASSUME NEW h \in Handlers, NEW task, Become(h, task),
             UNCHANGED <<readings, used, cache>>,
             \/ task.pc \notin Phrasing \cup {"done"}
             \/ task.pc = "done" /\ task.kind # "summary"
      PROVE  PhrasesHold(born)'
  BY <1>0, <1>6, BecomesOne, PhrasesStay
<1>7. ASSUME NEW h \in Handlers, StartWalk(h) \/ SaveReflection(h) \/ QueryFails(h)
      PROVE  PhrasesHold(born)'
  BY <1>6, <1>7 DEF StartWalk, SaveReflection, QueryFails, Idle, Phrasing
<1>8. ASSUME NEW h \in Handlers, Page(h)
      PROVE  PhrasesHold(born)'
  <2>1. tasks[h] \in Pages
    BY <1>8, CarriedBy DEF Page, IsAt, Tasks
  <2> DEFINE t == tasks[h]
             list == Newest(FoundBy(t))
             next == [t EXCEPT !.shown = ShownBy(t), !.lost = LostBy(t),
                        !.cursor = <<list[Min({Limit, Len(list)})].id>>]
             last == [pc |-> "done", kind |-> t.kind, shown |-> ShownBy(t),
                      lost |-> LostBy(t), began |-> t.began, touched |-> t.touched]
  <2>4. next.pc = "page" /\ last.pc = "done" /\ last.kind \in Walks
    BY <2>1 DEF Pages
  <2>5. Become(h, next) \/ Become(h, last)
    BY <1>8, PageGoes, Zenon
  <2> HIDE DEF next, last
  <2>2. PICK task : /\ Become(h, task)
                    /\ \/ task.pc = "page"
                       \/ task.pc = "done" /\ task.kind \in Walks
    BY <2>4, <2>5
  <2>3. UNCHANGED <<readings, used, cache>>
    BY <1>8 DEF Page
  <2> QED
    BY <1>6, <2>2, <2>3 DEF Phrasing, Walks
<1>9. ASSUME NEW h \in Handlers, ExistingId(h)
      PROVE  PhrasesHold(born)'
  <2>1. tasks[h] \in Looks
    BY <1>9, CarriedBy DEF ExistingId, IsAt, Tasks
  <2>2. [tasks[h] EXCEPT !.pc = "create"].pc = "create"
    BY <2>1 DEF Looks
  <2> DEFINE t == tasks[h]
             edit(id) == [pc |-> "update", reading |-> t.reading, note |-> t.note,
                          raced |-> t.raced, id |-> id]
  <2>5. Become(h, [t EXCEPT !.pc = "create"]) \/ \E id : Become(h, edit(id))
    BY <1>9, Zenon DEF ExistingId
  <2>6. \A id : edit(id).pc = "update"
    OBVIOUS
  <2> HIDE DEF edit
  <2>3. PICK task : Become(h, task) /\ task.pc \in {"create", "update"}
    BY <2>2, <2>5, <2>6
  <2>4. UNCHANGED <<readings, used, cache>>
    BY <1>9 DEF ExistingId
  <2> QED
    BY <1>6, <2>3, <2>4 DEF Phrasing
<1>10. \A g \in Handlers : tasks[g].pc \in {"find", "update", "create"} =>
         [tasks[g] EXCEPT !.raced = TRUE].pc = tasks[g].pc
  BY RaceIsNoted DEF Tasks
<1>11. \A g \in Handlers, ids \in SUBSET Ids : tasks[g].pc = "page" =>
         [tasks[g] EXCEPT !.touched = @ \cup ids].pc = "page"
  BY TakesNote DEF Tasks, Pages
<1>12. ASSUME NEW h \in Handlers, UpdateReflection(h) \/ CreateReflection(h)
      PROVE  PhrasesHold(born)'
  <2>1. PICK ok : \/ RacingSaves(tasks[h].reading, h, Saved(tasks[h], ok))
                  \/ Become(h, Saved(tasks[h], ok))
    BY <1>12 DEF UpdateReflection, CreateReflection
  <2>2. Saved(tasks[h], ok).pc = "done" /\ Saved(tasks[h], ok).kind = "save"
    BY DEF Saved
  <2>3. UNCHANGED <<readings, cache>> /\ used'.readings = used.readings
    BY <1>12 DEF UpdateReflection, CreateReflection, Rows
  <2>4. \A g \in Handlers : \/ tasks'[g] = tasks[g]
                            \/ tasks'[g].pc \notin Phrasing \cup {"done"}
                            \/ tasks'[g].pc = "done" /\ tasks'[g].kind # "summary"
    <3>1. ASSUME NEW g \in Handlers, g # h
          PROVE  \/ tasks'[g] = tasks[g]
                 \/ tasks'[g].pc \in {"find", "update", "create"}
      <4>1. CASE Become(h, Saved(tasks[h], ok))
        BY <3>1, <4>1, BecomesOne
      <4>2. CASE RacingSaves(tasks[h].reading, h, Saved(tasks[h], ok))
        <5>1. \/ tasks'[g] = tasks[g]
              \/ /\ tasks[g].pc \in {"find", "update", "create"}
                 /\ tasks'[g] = [tasks[g] EXCEPT !.raced = TRUE]
          BY <3>1, <4>2 DEF RacingSaves
        <5> QED
          BY <1>10, <5>1
      <4> QED
        BY <2>1, <4>1, <4>2
    <3>2. tasks'[h] = Saved(tasks[h], ok)
      BY <2>1, BecomesOne DEF RacingSaves
    <3> QED
      BY <2>2, <3>1, <3>2 DEF Phrasing
  <2> QED
    BY <1>0, <2>3, <2>4, PhrasesStay
<1>13. CASE SetOptOut \/ Hour
  BY <1>0, <1>13, PhrasesStay DEF SetOptOut, Hour
<1>14. ASSUME NEW walks, NEW ids \in SUBSET Ids, Touching(walks, ids),
              UNCHANGED <<used, cache>>,
              \A r \in readings' : \E s \in readings :
                s.id = r.id /\ s.fortune = r.fortune /\ s.at = r.at
       PROVE  PhrasesHold(born)'
  <2>1. \A g \in Handlers : tasks'[g] = tasks[g] \/ tasks'[g].pc = "page"
    BY <1>11, <1>14 DEF Touching, IsAt
  <2> QED
    BY <1>0, <1>14, <2>1, PhrasesStay DEF Phrasing
<1>15. CASE DeleteReading
  BY <1>14, <1>15 DEF DeleteReading, Rows, Reading
<1>16. CASE ClearHistory
  BY <1>14, <1>16 DEF ClearHistory, Rows
<1>17. CASE SetSaved
  <2>1. PICK r \in readings, at \in {now, NotSaved} :
          /\ readings' = (readings \ {r}) \cup {[r EXCEPT !.savedAt = at]}
          /\ Touching({"saved"}, {r.id})
    BY <1>17 DEF SetSaved
  <2>2. r \in Reading
    BY DEF Rows
  <2>3. LET u == [r EXCEPT !.savedAt = at]
        IN  u.id = r.id /\ u.fortune = r.fortune /\ u.at = r.at
    BY <2>2 DEF Reading
  <2>4. {r.id} \in SUBSET Ids /\ UNCHANGED <<used, cache>>
    BY <1>17, <2>2 DEF Reading, SetSaved
  <2> QED
    BY <1>14, <2>1, <2>3, <2>4
<1>18. CASE RemoveReflection
  <2>1. PICK e \in reflections : tasks' = [h \in Handlers |->
            IF IsAt(h, "page") /\ tasks[h].kind = "reflections"
            THEN [tasks[h] EXCEPT !.touched = @ \cup {e.id}]
            ELSE IF tasks[h].pc \in {"find", "update", "create"}
                    /\ e.reading # Standalone /\ tasks[h].reading = e.reading
            THEN [tasks[h] EXCEPT !.raced = TRUE] ELSE tasks[h]]
    BY <1>18 DEF RemoveReflection
  <2>2. {e.id} \in SUBSET Ids
    BY DEF Rows, Entry
  <2>3. \A g \in Handlers : \/ tasks'[g] = tasks[g]
                            \/ tasks'[g].pc \in {"page", "find", "update", "create"}
    BY <1>10, <1>11, <2>1, <2>2 DEF IsAt
  <2> QED
    BY <1>0, <1>18, <2>3, PhrasesStay DEF RemoveReflection, Phrasing
<1> QED
  BY <1>1, <1>4, <1>5, <1>7, <1>8, <1>9, <1>12, <1>13, <1>15, <1>16, <1>17, <1>18
  DEF Next, HandlerStep

-----------------------------------------------------------------------------
(* Theorems.                                                               *)

LEMMA InvariantSays ==
  IInv <=> Rows /\ Tasks /\ SavesAreSound /\ WalksAreSound /\ PhrasesAreSound
BY SavesSay, WalksSay, PhrasesSay DEF IInv

\* Rows, what requests carry between their steps, what saves found, where walks
\* are and what every kept fingerprint is known to tell stay as IInv has them
\* through every step of every request and every change beside it.
THEOREM Invariance == Spec => []IInv
<1> DEFINE Inv == Rows /\ Tasks /\ SavesAreSound /\ WalksAreSound /\ PhrasesAreSound
<1>1. Init => Inv
  BY RowsInit, TasksInit, SavesInit, WalksInit, PhrasesInit
<1>2. Inv /\ [Next]_vars => Inv'
  BY RowsStep, TasksStep, SavesStep, WalksStep, PhrasesStep
<1> HIDE DEF Inv
<1>3. Inv <=> IInv
  BY InvariantSays DEF Inv
<1> QED
  BY <1>1, <1>2, <1>3, PTL DEF Spec

\* Ids are given once: no two rows share one, and at most one reflection is on a
\* reading, however saves of it interleave.
THEOREM TypeCorrect == Spec => []TypeOK
<1>1. IInv => TypeOK
  <2> SUFFICES ASSUME Rows
               PROVE  TypeOK
    BY DEF IInv
  <2>1. /\ Cardinality(IdsOf(readings)) = Cardinality(readings)
        /\ Cardinality(IdsOf(reflections)) = Cardinality(reflections)
    BY RowsAndIds DEF Rows
  <2>2. \A e \in reflections : EntriesOn(e.reading) \subseteq {e}
    BY DEF Rows, OnePerReading, EntriesOn
  <2> QED
    BY <2>1, <2>2 DEF TypeOK, Rows
<1> QED
  BY <1>1, Invariance, PTL

\* A save of a reflection that fails was raced by another write of its entry.
THEOREM FailedSaves == Spec => []FailedSaveWasRaced
<1>1. IInv => FailedSaveWasRaced
  BY DEF IInv
<1> QED
  BY <1>1, Invariance, PTL

\* A walk from page to page shows no row twice and leaves out none that was
\* there all along, whatever changes meanwhile, as long as the rows its cursors
\* name are left alone.
THEOREM WalksShowEachOnce == Spec => []WalkShowsEachOnce
<1>1. IInv => WalkShowsEachOnce
  BY DEF IInv
<1> QED
  BY <1>1, Invariance, PTL

\* The sentence of a summary tells of exactly the readings its numbers count,
\* also when it comes from the cache.
THEOREM SummariesTellTheirNumbers == Spec => []SummaryTellsItsNumbers
<1>1. IInv => SummaryTellsItsNumbers
  BY DEF IInv
<1> QED
  BY <1>1, Invariance, PTL
=============================================================================
