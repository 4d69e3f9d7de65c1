------------------------------ MODULE History -------------------------------
(***************************************************************************)
(* What a reader keeps: the history of readings, paged, saved and deleted  *)
(* (ReadingsService, ReadingsRepository); its summary, phrased by a model  *)
(* and cached (HistorySummaryService); and the reflections written on      *)
(* readings (ReflectionsService).                                          *)
(*                                                                         *)
(* The rows are those of one reader: every query is scoped by userId, so   *)
(* another reader's id behaves as an unknown one.  The clock counts hours. *)
(***************************************************************************)
EXTENDS Integers, Sequences, FiniteSets, FiniteSetsExt, SequencesExt

CONSTANTS
  Handlers,     \* requests in flight at once
  Does,         \* what each may ask for
  Ids,          \* ids rows may be given; their order is not that of time
  Fortunes, CatalogOrder, \* fortunes, in the order of the catalogue
  RangeDays,    \* RANGE_DAYS
  HoursPerDay,  \* 24
  Parts,        \* the hours 5, 11, 16, 20 at which day parts begin
  Limit,        \* the size of a page
  Notes,        \* what a reflection may say
  Reflected,    \* what it may be on: ids of readings, or Standalone
  StartNow, Stored, StoredReflections, \* where the exploration starts
  MaxNow, MaxCalls, MaxChanges  \* its bounds: the last hour, requests, and
                                \* changes the reader makes beside them

Ranges == DOMAIN RangeDays
Walks == {"history", "saved", "reflections"}
NotSaved == -1
Standalone == 0

ASSUME HistoryAssumption ==
  /\ Ids \subseteq Nat /\ IsFiniteSet(Ids) /\ Limit \in Nat \ {0}
  /\ RangeDays \in [Ranges -> Nat \ {0}] /\ HoursPerDay \in Nat \ {0}
  /\ MaxNow \in Nat /\ StartNow \in 0..MaxNow
  /\ MaxCalls \in Nat /\ MaxChanges \in Nat

Reading == [id : Ids, fortune : Fortunes, at : 0..MaxNow,
            savedAt : {NotSaved} \cup 0..MaxNow]
Entry == [id : Ids, reading : Reflected \cup {Standalone}, at : 0..MaxNow,
          note : Notes \cup {e.note : e \in StoredReflections}]

Distinct(rows) == \A r, s \in rows : r.id = s.id => r = s
OnePerReading(entries) ==
  \A d, e \in entries : d.reading = e.reading /\ d.reading # Standalone => d = e

\* The tables the exploration starts with were written before it starts, by
\* this program.
ASSUME StoredAssumption ==
  /\ \A rows \in Stored :
       /\ rows \subseteq Reading /\ Distinct(rows)
       /\ \A r \in rows : r.at <= StartNow /\ r.savedAt <= StartNow
  /\ StoredReflections \subseteq Entry
  /\ Distinct(StoredReflections) /\ OnePerReading(StoredReflections)
  /\ \A e \in StoredReflections : e.at <= StartNow

VARIABLES
  now,          \* the server clock
  readings,     \* Reading rows
  used,         \* ids of readings, and of reflections, there have been
  reflections,  \* ReflectionEntry rows
  cache,        \* AiSummaryCache rows of the reader, by range
  optOut,       \* personalizationOptOut
  tasks,        \* where each request is
  calls, changes  \* how much of the bounds is used

vars == <<now, readings, used, reflections, cache, optOut, tasks, calls, changes>>

NoRow == [fingerprint |-> << >>]
Idle == [pc |-> "idle"]
IsAt(h, pc) == tasks[h].pc = pc
Become(h, task) == tasks' = [tasks EXCEPT ![h] = task]
IdsOf(rows) == {r.id : r \in rows}

Init ==
  /\ now = StartNow /\ readings \in Stored /\ reflections = StoredReflections
  /\ used = [readings |-> IdsOf(readings), reflections |-> IdsOf(reflections)]
  /\ cache = [range \in Ranges |-> NoRow]
  /\ optOut = FALSE
  /\ tasks = [h \in Handlers |-> Idle]
  /\ calls = 0 /\ changes = 0

-----------------------------------------------------------------------------
(* The digest of a reader's history, and what is said of it.               *)

Before(r, s) == r.at > s.at \/ (r.at = s.at /\ r.id > s.id)

\* Rows, the newest first; ids order those of the same hour.
Newest(rows) ==
  CHOOSE list \in [1..Cardinality(rows) -> rows] :
    \A i, j \in DOMAIN list : i < j => Before(list[i], list[j])

DayParts == <<"morning", "noon", "evening", "night">>

DayPartOf(hour) ==
  IF Parts[1] <= hour /\ hour < Parts[2] THEN "morning"
  ELSE IF Parts[2] <= hour /\ hour < Parts[3] THEN "noon"
  ELSE IF Parts[3] <= hour /\ hour < Parts[4] THEN "evening"
  ELSE "night"

\* The fortunes of some readings, most read first, then in catalogue order.
MostRead(count) ==
  LET sorted == SetToSortSeq(DOMAIN count, LAMBDA f, g :
                  \/ count[f] > count[g]
                  \/ count[f] = count[g] /\ CatalogOrder[f] < CatalogOrder[g])
  IN  [i \in DOMAIN sorted |-> [fortune |-> sorted[i], count |-> count[sorted[i]]]]

Tally(rows) ==
  MostRead([f \in {r.fortune : r \in rows} |->
              Cardinality({r \in rows : r.fortune = f})])

\* The part of the day with most readings, if it leads outright.
LeadingPart(count) ==
  LET Step(seen, part) ==
        IF count[part] > seen.best
        THEN [best |-> count[part], part |-> part, tied |-> FALSE]
        ELSE IF count[part] = seen.best /\ count[part] > 0
        THEN [seen EXCEPT !.tied = TRUE] ELSE seen
      end == FoldLeft(Step, [best |-> 0, part |-> "none", tied |-> FALSE], DayParts)
  IN  IF end.best < 2 \/ end.tied THEN "none" ELSE end.part

BuildDigest(moments, range, at) ==
  LET span == RangeDays[range] * HoursPerDay
      inWindow == {m \in moments : m.at >= at - span /\ m.at <= at}
      inPrevious == {m \in moments : m.at >= at - 2 * span /\ m.at < at - span}
      byFortune == Tally(inWindow)
      seenBefore == {m.fortune : m \in inPrevious}
      countIn == [part \in Range(DayParts) |->
        Cardinality({m \in inWindow : DayPartOf(m.at % HoursPerDay) = part})]
      source == Newest(inWindow)
  IN  [range |-> range,
       total |-> Cardinality(inWindow),
       previousTotal |-> Cardinality(inPrevious),
       byFortune |-> byFortune,
       firstTime |-> SelectSeq(byFortune, LAMBDA e : e.fortune \notin seenBefore),
       dayPart |-> LeadingPart(countIn),
       activeDays |-> Cardinality({m.at \div HoursPerDay : m \in inWindow}),
       sourceIds |-> [i \in DOMAIN source |-> source[i].id]]

\* Slip: a summary is known by how many readings it counts.
CountsOnly(d) == <<d.range, d.total, d.previousTotal>>

DigestFingerprint(d) == <<d.range, d.total, d.previousTotal, d.sourceIds>>

FirstOf(s, n) == SubSeq(s, 1, Min({n, Len(s)}))

\* The sentences that need no model, at most four.
NarrativeFrom(d) ==
  IF d.total = 0 THEN <<[say |-> "none"]>>
  ELSE <<[say |-> "total", count |-> d.total,
          delta |-> IF d.previousTotal = 0 THEN 0 ELSE d.total - d.previousTotal]>>
       \o (IF d.byFortune[1].count > 1
           THEN <<[say |-> "favourite", entry |-> d.byFortune[1]]>> ELSE << >>)
       \o (IF d.dayPart # "none"
           THEN <<[say |-> "dayPart", part |-> d.dayPart]>> ELSE << >>)
       \o (IF d.previousTotal > 0 /\ d.firstTime # << >>
           THEN <<[say |-> "firstTime", entries |-> FirstOf(d.firstTime, 3)]>> ELSE << >>)

\* All that the model is told: counts, and the first five fortunes.
DigestFacts(d) ==
  [range |-> d.range, total |-> d.total, previousTotal |-> d.previousTotal,
   activeDays |-> d.activeDays, dayPart |-> d.dayPart,
   byFortune |-> FirstOf(d.byFortune, 5)]

-----------------------------------------------------------------------------
(* HistorySummaryService.summarize.                                        *)

\* The answer: the facts counted now, and the model's sentence if there is one.
Summary(digest, sentence) ==
  [pc |-> "done", kind |-> "summary", at |-> now, digest |-> digest,
   facts |-> NarrativeFrom(digest), sentence |-> sentence]
Plainly == [source |-> "rules"]
Warmly(told) == [source |-> "ai", told |-> told]

Begin(h, kind) == /\ tasks[h].pc \in {"idle", "done"} /\ kind \in Does[h]
                  /\ calls < MaxCalls /\ calls' = calls + 1

\* Twice the range is read back; without readings, a flag or a model there is
\* nothing to phrase.
Summarize(h) ==
  /\ Begin(h, "summary")
  /\ \E range \in Ranges :
       LET since == now - 2 * RangeDays[range] * HoursPerDay
           digest == BuildDigest({r \in readings : r.at >= since}, range, now)
       IN  \/ Become(h, Summary(digest, Plainly))
           \/ /\ digest.total > 0
              /\ Become(h, [pc |-> "profile", digest |-> digest])
  /\ UNCHANGED <<now, readings, used, reflections, cache, optOut, changes>>

\* A reader who opted out is not described to anyone.
ReadProfile(h) ==
  /\ IsAt(h, "profile")
  /\ LET d == tasks[h].digest
     IN  Become(h, IF optOut THEN Summary(d, Plainly) ELSE [pc |-> "cached", digest |-> d])
  /\ UNCHANGED <<now, readings, used, reflections, cache, optOut, calls, changes>>

\* A hit describes exactly the readings counted; a database error is a miss.
Cached(h) ==
  /\ IsAt(h, "cached")
  /\ LET d == tasks[h].digest
         row == cache[d.range]
     IN  \/ /\ row # NoRow /\ row.fingerprint = DigestFingerprint(d)
            /\ Become(h, Summary(d, Warmly(row.told)))
         \/ /\ \/ row = NoRow \/ row.fingerprint # DigestFingerprint(d)
               \/ TRUE  \* the cache could not be read
            /\ Become(h, [pc |-> "ask", digest |-> d])
  /\ UNCHANGED <<now, readings, used, reflections, cache, optOut, calls, changes>>

\* The model is unreachable or unconvincing, or it phrases what it was told.
AskModel(h) ==
  /\ IsAt(h, "ask")
  /\ LET d == tasks[h].digest
     IN  \/ Become(h, Summary(d, Plainly))
         \/ Become(h, [pc |-> "remember", digest |-> d, told |-> DigestFacts(d)])
  /\ UNCHANGED <<now, readings, used, reflections, cache, optOut, calls, changes>>

\* "Failing to cache is not failing to answer."
Remember(h) ==
  /\ IsAt(h, "remember")
  /\ LET d == tasks[h].digest
     IN  /\ \/ cache' = [cache EXCEPT ![d.range] =
                           [fingerprint |-> DigestFingerprint(d), told |-> tasks[h].told]]
            \/ UNCHANGED cache
         /\ Become(h, Summary(d, Warmly(tasks[h].told)))
  /\ UNCHANGED <<now, readings, used, reflections, optOut, calls, changes>>

-----------------------------------------------------------------------------
(* Walking a list page by page.  A walk keeps the cursor of its last page; *)
(* it notes which rows it began with and which were touched meanwhile, and *)
(* whether the row of its cursor was (history variables).                  *)

RowsOf(walk) ==
  CASE walk = "history" -> {[id |-> r.id, at |-> r.at] : r \in readings}
    [] walk = "saved" -> {[id |-> r.id, at |-> r.savedAt] :
                           r \in {r \in readings : r.savedAt # NotSaved}}
    [] walk = "reflections" -> {[id |-> e.id, at |-> e.at] : e \in reflections}

StartWalk(h) ==
  /\ \E walk \in Walks :
       /\ Begin(h, walk)
       /\ Become(h, [pc |-> "page", kind |-> walk, cursor |-> << >>, shown |-> << >>,
                     began |-> IdsOf(RowsOf(walk)), touched |-> {}, lost |-> FALSE])
  /\ UNCHANGED <<now, readings, used, reflections, cache, optOut, changes>>

\* Slip: the row of the cursor opens the next page again.
RowsFrom(rows, id) ==
  LET last == CHOOSE r \in rows : r.id = id
  IN  {r \in rows : r.at < last.at \/ (r.at = last.at /\ r.id <= last.id)}

\* The rows behind that of the cursor, in the order of the list.
RowsAfter(rows, id) ==
  LET last == CHOOSE r \in rows : r.id = id
  IN  {r \in rows : r.at < last.at \/ (r.at = last.at /\ r.id < last.id)}

\* One page, and the cursor of the next if there is one.  A cursor whose row
\* left the list matches no row.
Page(h) ==
  /\ IsAt(h, "page")
  /\ LET t == tasks[h]
         rows == RowsOf(t.kind)
         found == IF t.cursor = << >> THEN rows
                  ELSE IF t.cursor[1] \in IdsOf(rows)
                  THEN RowsAfter(rows, t.cursor[1]) ELSE {}
         list == Newest(found)
         size == Min({Limit, Len(list)})
         shown == t.shown \o [i \in 1..size |-> list[i].id]
         lost == t.lost \/ (t.cursor # << >> /\ t.cursor[1] \in t.touched)
     IN  Become(h, IF Len(list) > Limit
                   THEN [t EXCEPT !.shown = shown, !.lost = lost,
                                  !.cursor = <<list[size].id>>]
                   ELSE [pc |-> "done", kind |-> t.kind, shown |-> shown, lost |-> lost,
                         began |-> t.began, touched |-> t.touched])
  /\ UNCHANGED <<now, readings, used, reflections, cache, optOut, calls, changes>>

\* The walks under way take note of rows of theirs that were touched.
Touching(walks, ids) ==
  tasks' = [h \in Handlers |->
              IF IsAt(h, "page") /\ tasks[h].kind \in walks
              THEN [tasks[h] EXCEPT !.touched = @ \cup ids] ELSE tasks[h]]

-----------------------------------------------------------------------------
(* The rows of readings.                                                   *)

Change == changes < MaxChanges /\ changes' = changes + 1

CreateReading ==
  /\ Change
  /\ \E id \in Ids \ used.readings, f \in Fortunes :
       /\ readings' = readings \cup
            {[id |-> id, fortune |-> f, at |-> now, savedAt |-> NotSaved]}
       /\ used' = [used EXCEPT !.readings = @ \cup {id}]
  /\ UNCHANGED <<now, reflections, cache, optOut, tasks, calls>>

DeleteReading ==
  /\ Change
  /\ \E r \in readings :
       readings' = readings \ {r} /\ Touching({"history", "saved"}, {r.id})
  /\ UNCHANGED <<now, used, reflections, cache, optOut, calls>>

ClearHistory ==
  /\ Change
  /\ readings' = {} /\ Touching({"history", "saved"}, IdsOf(readings))
  /\ UNCHANGED <<now, used, reflections, cache, optOut, calls>>

\* Saving what is saved gives it a new time.
SetSaved ==
  /\ Change
  /\ \E r \in readings, at \in {now, NotSaved} :
       /\ readings' = (readings \ {r}) \cup {[r EXCEPT !.savedAt = at]}
       /\ Touching({"saved"}, {r.id})
  /\ UNCHANGED <<now, used, reflections, cache, optOut, calls>>

-----------------------------------------------------------------------------
(* ReflectionsService.  A reflection may be on no reading; it survives the *)
(* reading it is on.  A save notes whether another write of its entry came *)
(* between (a history variable).                                           *)

EntriesOn(reading) ==
  {e \in reflections : reading # Standalone /\ e.reading = reading}

\* A write or removal of entries on a reading, by the save of h or by none.
RacingSaves(reading, h, task) ==
  tasks' = [g \in Handlers |->
              IF g = h THEN task
              ELSE IF tasks[g].pc \in {"find", "update", "create"}
                      /\ reading # Standalone /\ tasks[g].reading = reading
              THEN [tasks[g] EXCEPT !.raced = TRUE] ELSE tasks[g]]

Saved(t, ok) == [pc |-> "done", kind |-> "save", ok |-> ok, raced |-> t.raced]

SaveReflection(h) ==
  /\ Begin(h, "save")
  /\ \E reading \in Reflected, note \in Notes :
       Become(h, [pc |-> "find", reading |-> reading, note |-> note, raced |-> FALSE])
  /\ UNCHANGED <<now, readings, used, reflections, cache, optOut, changes>>

\* Slip: only an entry with the same note counts as being there.
FindSame(h) ==
  /\ IsAt(h, "find")
  /\ LET t == tasks[h]
         there == {e \in EntriesOn(t.reading) : e.note = t.note}
     IN  Become(h, IF there = {} THEN [t EXCEPT !.pc = "create"]
                   ELSE [pc |-> "update", reading |-> t.reading, note |-> t.note,
                         raced |-> t.raced, id |-> (CHOOSE e \in there : TRUE).id])
  /\ UNCHANGED <<now, readings, used, reflections, cache, optOut, calls, changes>>

ExistingId(h) ==
  /\ IsAt(h, "find")
  /\ LET t == tasks[h]
         there == EntriesOn(t.reading)
     IN  Become(h, IF there = {} THEN [t EXCEPT !.pc = "create"]
                   ELSE [pc |-> "update", reading |-> t.reading, note |-> t.note,
                         raced |-> t.raced, id |-> (CHOOSE e \in there : TRUE).id])
  /\ UNCHANGED <<now, readings, used, reflections, cache, optOut, calls, changes>>

\* An entry that was removed meanwhile cannot be updated.
UpdateReflection(h) ==
  /\ IsAt(h, "update")
  /\ LET t == tasks[h]
         there == {e \in reflections : e.id = t.id}
     IN  /\ reflections' = (reflections \ there) \cup
                           {[e EXCEPT !.note = t.note] : e \in there}
         /\ RacingSaves(t.reading, h, Saved(t, there # {}))
  /\ UNCHANGED <<now, readings, used, cache, optOut, calls, changes>>

\* Slip: without the unique pair.
CreateAnyway(h) ==
  /\ IsAt(h, "create")
  /\ \E n \in Ids \ used.reflections :
       /\ reflections' = reflections \cup
            {[id |-> n, reading |-> tasks[h].reading, note |-> tasks[h].note, at |-> now]}
       /\ used' = [used EXCEPT !.reflections = @ \cup {n}]
  /\ RacingSaves(tasks[h].reading, h, Saved(tasks[h], TRUE))
  /\ UNCHANGED <<now, readings, cache, optOut, calls, changes>>

\* The pair of user and reading is unique, unless there is no reading.
CreateReflection(h) ==
  /\ IsAt(h, "create")
  /\ LET t == tasks[h]
     IN  IF EntriesOn(t.reading) = {}
         THEN \E n \in Ids \ used.reflections :
                /\ reflections' = reflections \cup
                     {[id |-> n, reading |-> t.reading, note |-> t.note, at |-> now]}
                /\ used' = [used EXCEPT !.reflections = @ \cup {n}]
                /\ RacingSaves(t.reading, h, Saved(t, TRUE))
         ELSE Become(h, Saved(t, FALSE)) /\ UNCHANGED <<reflections, used>>
  /\ UNCHANGED <<now, readings, cache, optOut, calls, changes>>

RemoveReflection ==
  /\ Change
  /\ \E e \in reflections :
       /\ reflections' = reflections \ {e}
       /\ tasks' = [h \in Handlers |->
            IF IsAt(h, "page") /\ tasks[h].kind = "reflections"
            THEN [tasks[h] EXCEPT !.touched = @ \cup {e.id}]
            ELSE IF tasks[h].pc \in {"find", "update", "create"}
                    /\ e.reading # Standalone /\ tasks[h].reading = e.reading
            THEN [tasks[h] EXCEPT !.raced = TRUE] ELSE tasks[h]]
  /\ UNCHANGED <<now, readings, used, cache, optOut, calls>>

-----------------------------------------------------------------------------
SetOptOut ==
  /\ Change
  /\ optOut' = ~optOut
  /\ UNCHANGED <<now, readings, used, reflections, cache, tasks, calls>>

Hour ==
  /\ now < MaxNow /\ now' = now + 1
  /\ UNCHANGED <<readings, used, reflections, cache, optOut, tasks, calls, changes>>

\* A query that fails, and is not caught, ends the request with an error.
QueryFails(h) ==
  /\ tasks[h].pc \in {"profile", "page", "find", "update", "create"}
  /\ Become(h, Idle)
  /\ UNCHANGED <<now, readings, used, reflections, cache, optOut, calls, changes>>

HandlerStep(h) ==
  \/ QueryFails(h) \/ ReadProfile(h) \/ Cached(h) \/ AskModel(h) \/ Remember(h)
  \/ Page(h) \/ ExistingId(h) \/ UpdateReflection(h) \/ CreateReflection(h)

Next ==
  \/ \E h \in Handlers :
       Summarize(h) \/ StartWalk(h) \/ SaveReflection(h) \/ HandlerStep(h)
  \/ CreateReading \/ DeleteReading \/ ClearHistory \/ SetSaved
  \/ RemoveReflection \/ SetOptOut \/ Hour

Spec == Init /\ [][Next]_vars

-----------------------------------------------------------------------------
(* Properties.                                                             *)

\* Rows have ids that were given out, no two the same, and at most one
\* reflection is on a reading.
TypeOK ==
  /\ now \in 0..MaxNow
  /\ used.readings \subseteq Ids /\ IdsOf(readings) \subseteq used.readings
  /\ used.reflections \subseteq Ids /\ IdsOf(reflections) \subseteq used.reflections
  /\ Cardinality(IdsOf(readings)) = Cardinality(readings)
  /\ Cardinality(IdsOf(reflections)) = Cardinality(reflections)
  /\ \A e \in reflections : EntriesOn(e.reading) \subseteq {e}

\* A sentence that is served, from the model or from the cache, tells of exactly
\* the readings the numbers beside it were counted from: one that was added or
\* deleted "retires the old summary by itself" (history-summary.service.ts:50-52).
SummaryTellsItsNumbers ==
  \A h \in Handlers :
    LET t == tasks[h]
    IN  IsAt(h, "done") /\ t.kind = "summary" /\ t.sentence.source = "ai"
          => t.sentence.told = DigestFacts(t.digest)

\* Walking a list from page to page shows no row twice and leaves out none that
\* was there all along, whatever is created, deleted, saved or passes in time
\* meanwhile, as long as the row the walk's cursor names is left alone.
WalkShowsEachOnce ==
  \A h \in Handlers :
    LET t == tasks[h]
    IN  IsAt(h, "done") /\ t.kind \in Walks /\ ~t.lost
          => IsInjective(t.shown) /\ t.began \ t.touched \subseteq Range(t.shown)

\* Saving a reflection fails only when another save or a removal of the same
\* entry came between looking for the entry and writing it: alone, and with a
\* database that answers, a save "edits what is there"
\* (reflections.service.ts:91-92).
FailedSaveWasRaced ==
  \A h \in Handlers :
    IsAt(h, "done") /\ tasks[h].kind = "save" /\ ~tasks[h].ok => tasks[h].raced

-----------------------------------------------------------------------------
(***************************************************************************)
(* The inductive invariant of HistoryProofs.                               *)
(***************************************************************************)
\* Rows have ids of their own, and no row is of the future.
Rows ==
  /\ now \in 0..MaxNow
  /\ used = [readings |-> used.readings, reflections |-> used.reflections]
  /\ used.readings \subseteq Ids /\ IdsOf(readings) \subseteq used.readings
  /\ used.reflections \subseteq Ids /\ IdsOf(reflections) \subseteq used.reflections
  /\ readings \subseteq Reading /\ Distinct(readings)
  /\ \A r \in readings : r.at <= now /\ r.savedAt <= now
  /\ reflections \subseteq Entry /\ Distinct(reflections) /\ OnePerReading(reflections)
  /\ \A e \in reflections : e.at <= now

\* What a request carries from each of its steps to the next.
Pages == [pc : {"page"}, kind : Walks, cursor : {<< >>} \cup {<<id>> : id \in Ids},
          shown : Seq(Ids), began : SUBSET Ids, touched : SUBSET Ids, lost : BOOLEAN]
Looks == [pc : {"find", "create"}, reading : Reflected, note : Notes, raced : BOOLEAN]
Updates == [pc : {"update"}, reading : Reflected, note : Notes, raced : BOOLEAN, id : Ids]

Carries(t) ==
  \/ t = Idle
  \/ t.pc \in {"profile", "cached", "ask"} /\ t = [pc |-> t.pc, digest |-> t.digest]
  \/ t.pc = "remember" /\ t = [pc |-> "remember", digest |-> t.digest, told |-> t.told]
  \/ t \in Pages \cup Looks \cup Updates
  \/ t.pc = "done" /\ t.kind \in Walks \cup {"summary", "save"}

Tasks ==
  /\ tasks = [h \in Handlers |-> tasks[h]]
  /\ \A h \in Handlers : Carries(tasks[h])

\* As long as no other write of its entry came between, a save still finds what
\* it found.
Saves ==
  \A h \in Handlers :
    LET t == tasks[h]
    IN  /\ IsAt(h, "create") /\ ~t.raced => EntriesOn(t.reading) = {}
        /\ IsAt(h, "update") /\ ~t.raced =>
             \E e \in EntriesOn(t.reading) : e.id = t.id

\* As long as the row c of its cursor is left alone, a walk has behind c all it
\* began with that it did not show and that was left alone; and nothing it
\* showed is behind c, or could come to be.
Walk(t) ==
  LET rows == RowsOf(t.kind)
      left == t.began \ t.touched
  IN  /\ ~t.lost /\ t.cursor = << >> => t.shown = << >> /\ left \subseteq IdsOf(rows)
      /\ ~t.lost => IsInjective(t.shown)
      /\ ~t.lost /\ t.cursor # << >> /\ t.cursor[1] \notin t.touched =>
           \E c \in rows :
             /\ c.id = t.cursor[1]
             /\ \A i \in left \ Range(t.shown) : \E r \in rows : r.id = i /\ Before(c, r)
             /\ \A r \in rows : r.id \in Range(t.shown) => ~Before(c, r)
             /\ c.at = now => \A i \in Range(t.shown) : i >= c.id

WalksGoOn == \A h \in Handlers : IsAt(h, "page") => Walk(tasks[h])

\* What a digest tells, from the fortunes and the times of the readings it names.
Tells(born, ids) ==
  [activeDays |-> Cardinality({born[i].at \div HoursPerDay : i \in ids}),
   dayPart |-> LeadingPart([part \in Range(DayParts) |->
     Cardinality({i \in ids : DayPartOf(born[i].at % HoursPerDay) = part})]),
   byFortune |-> MostRead([f \in {born[i].fortune : i \in ids} |->
     Cardinality({i \in ids : born[i].fortune = f})])]

\* A fingerprint of some of the readings there have been says what may be told
\* beside it.
Known(fingerprint, told, born, have) ==
  LET ids == Range(fingerprint[4])
      tells == Tells(born, ids)
  IN  /\ ids \subseteq have
      /\ told = [range |-> fingerprint[1], total |-> fingerprint[2],
                 previousTotal |-> fingerprint[3],
                 activeDays |-> tells.activeDays, dayPart |-> tells.dayPart,
                 byFortune |-> FirstOf(tells.byFortune, 5)]

\* Every fingerprint that is kept, by a request or in the cache, is known, from
\* the fortune and the time that each reading there has been was given.
Fingerprints(born) ==
  /\ \A r \in readings : born[r.id] = [fortune |-> r.fortune, at |-> r.at]
  /\ \A range \in Ranges : cache[range] = NoRow \/
       Known(cache[range].fingerprint, cache[range].told, born, used.readings)
  /\ \A h \in Handlers :
       LET t == tasks[h]
       IN  /\ t.pc \in {"profile", "cached", "ask", "remember"} =>
                /\ t.digest.range \in Ranges
                /\ Known(DigestFingerprint(t.digest), DigestFacts(t.digest), born,
                         used.readings)
           /\ IsAt(h, "remember") => t.told = DigestFacts(t.digest)

IInv ==
  /\ Rows /\ Tasks
  /\ Saves /\ FailedSaveWasRaced
  /\ WalksGoOn /\ WalkShowsEachOnce
  /\ DOMAIN cache = Ranges /\ SummaryTellsItsNumbers /\ \E born : Fingerprints(born)
=============================================================================
