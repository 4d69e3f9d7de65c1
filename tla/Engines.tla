------------------------------ MODULE Engines -------------------------------
(***************************************************************************)
(* READING_PROVIDER: eight raw engines wrapped around the AI provider or,  *)
(* while no model is configured, the mock.  Each engine asks its flag,     *)
(* draws from its own source, calls the model and frames what it answers.  *)
(* Hafez first has the Divan imported, by one import that concurrent       *)
(* readings share.                                                         *)
(*                                                                         *)
(* A task is one call of generate(); its steps are the awaits of the code. *)
(* Names and the wording of prompts are left out; what a prompt carries of *)
(* the draw and what language it asks for are kept.                        *)
(***************************************************************************)
EXTENDS Draws, TLC

CONSTANTS
  Handlers,     \* requests in flight at once
  Requests,     \* what each asks for: a fortune, an intention, a locale
  MaxRetries,   \* AiConfig.maxRetries
  Statuses,     \* HTTP statuses the model's endpoint may refuse with
  Completions,  \* what the model may answer
  Files,        \* corpus files the deploy may carry
  Edition,      \* the edition the file names
  MaxBreakdownLetters,  \* MAX_BREAKDOWN_LETTERS: 24
  MaxCalls, MaxFaults, MaxDay, MaxRestarts  \* bounds of the exploration

-----------------------------------------------------------------------------
(* The catalogue: what each fortune needs to be offered.                   *)

FortuneCatalog ==
  [f \in {"love", "marriage", "reconcile"} |-> "twoNames"] @@
  [f \in {"dream"} |-> "longText"] @@ [f \in {"coffee"} |-> "photo"] @@
  [f \in {"hafez", "tarot", "abjad", "child", "friendship", "separation",
          "name", "job", "money", "travel", "future", "message", "intention",
          "yesno", "luckynumber", "luckycolor", "luckystone", "luckyflower",
          "dailytalisman", "lots", "birthmonth", "daily", "universe", "tea",
          "candle", "mirror", "lenormand", "rune", "cards", "quran", "tasbih",
          "angel", "spiritanimal", "meditation"} |-> "intention"]

RawEngines ==
  {"hafez", "abjad", "tarot", "lenormand", "rune", "cards", "tasbih", "quran"}

ASSUME RequestsAssumption ==
  \A h \in Handlers : \A r \in Requests[h] : r.fortune \in DOMAIN FortuneCatalog
ASSUME EnginesAssumption ==
  /\ MaxRetries \in Nat /\ MaxCalls \in Nat /\ MaxFaults \in Nat
  /\ MaxDay \in Nat /\ MaxRestarts \in Nat /\ MaxBreakdownLetters \in Nat

\* The corpus file is what its type declares, and the digits of a digest are
\* a number.
ASSUME FilesAssumption ==
  Files \subseteq [count: Int, numbers: Seq(Int), openingsAgree: BOOLEAN]
ASSUME DigestAssumption ==
  \A h \in Handlers : \A r \in Requests[h], day \in 0..MaxDay :
    Digest(Edition, day, NormalizeIntention(r.words)).value \in Nat

VARIABLES
  configured,  \* AiConfig.isConfigured
  file,        \* prisma/data/hafez-ghazals.json
  ghazals,     \* numbers of the Ghazal rows of the edition
  import,      \* HafezCorpusService.importing, and how far it got
  today,       \* the day in the app's time zone
  tasks,       \* where each call of generate() is
  calls, faults, restarts  \* how much of the bounds is used

vars == <<configured, file, ghazals, import, today, tasks, calls, faults, restarts>>
world == <<configured, file, today, restarts>>

-----------------------------------------------------------------------------
Idle == [pc |-> "idle"]
NoImport == [pc |-> "none"]

IsAt(h, pc) == tasks[h].pc = pc
Become(h, task) == tasks' = [tasks EXCEPT ![h] = task]
Fortune(h) == tasks[h].request.fortune

Failed(t, error, attempt) ==
  [pc |-> "failed", request |-> t.request, error |-> error, attempt |-> attempt]

\* A corpus file proves itself: the count it claims, numbered with no gap.
LoadAndValidate(f) ==
  /\ f.count > 0 /\ Len(f.numbers) = f.count
  /\ \A n \in 1..f.count : n \in Range(f.numbers)
  /\ f.openingsAgree

Init ==
  /\ configured \in BOOLEAN
  /\ file \in Files
  /\ ghazals \in SUBSET Range(file.numbers)
  /\ import = NoImport
  /\ today = 0
  /\ tasks = [h \in Handlers |-> Idle]
  /\ calls = 0 /\ faults = 0 /\ restarts = 0

-----------------------------------------------------------------------------
(* The words the server adds, and the language the model is told to write. *)

SupportedLocales == {"fa", "en", "ar", "tr"}
LocaleOf(locale) == IF locale \in SupportedLocales THEN locale ELSE "fa"

\* The language the directive orders, and the keys it orders it for.
LanguageDirective(locale, keys) ==
  IF locale \in SupportedLocales \ {"fa"}
  THEN [language |-> locale, keys |-> keys]
  ELSE [language |-> "fa", keys |-> {}]

\* A line: what it says, the languages its words are in, and the digits of its
\* numbers.  The language "source" is that of what has one script for everyone.
LineOf(kind, languages, digits) ==
  <<[kind |-> kind, languages |-> languages, digits |-> digits]>>

\* The digits that digits() writes a number in.
ReaderDigits(language) == IF language = "fa" THEN "persian" ELSE "latin"

\* A deck names its cards in Persian and in English: "Arabic and Turkish decks
\* are not in the data".
CardName(t) == IF LocaleOf(t.request.locale) = "fa" THEN "fa" ELSE "en"

\* A sentence of ours, in the reader's language, around names and numbers.
Framing(kind, names, digits, t) ==
  LineOf(kind, {LocaleOf(t.request.locale)} \cup names, digits)
Label(kind, t) == Framing(kind, {}, {}, t)
Counting(kind, t) == Framing(kind, {}, {ReaderDigits(LocaleOf(t.request.locale))}, t)

\* A traditional meaning or translation, which exists in Persian only.
Source(kind, t) ==
  IF LocaleOf(t.request.locale) = "fa" THEN LineOf(kind, {"fa"}, {}) ELSE << >>

\* The ghazal or the verse itself, in its own script for everyone.
Scripture(kind) == LineOf(kind, {"source"}, {})

\* A section of the model's, in the language its prompt asked of that key.
Section(key, t) ==
  LET directive == t.prompt.directive
  IN  LineOf(key, {IF key \in directive.keys THEN directive.language ELSE "fa"}, {})

\* Slip: only the Persian opening is stripped.
StripPersian(head) == IF head = "fa" THEN "none" ELSE head

\* What is left of the opening the model gave its advice.
StripForToday(head) == IF head \in SupportedLocales THEN "none" ELSE head

Advice(t, c) ==
  LET left == StripForToday(c.head)
  IN  Label("forToday", t)
      \o (IF left = "none" THEN << >> ELSE LineOf("forToday", {left}, {}))
      \o Section("practicalAdvice", t)

-----------------------------------------------------------------------------
(* Parsing.  The shape of a completion is what surrounds its JSON object.  *)

ExtractJsonObject(c) == c.shape \in {"object", "fenced", "prose", "array"}

Carries(c, keys) == ExtractJsonObject(c) /\ keys \subseteq c.sections

-----------------------------------------------------------------------------
(* The ordinary provider: the AI while a model is configured, else a canned *)
(* reading.                                                                 *)

BasePrompt(r) ==
  [engine |-> "ai", drawn |-> << >>, image |-> FortuneCatalog[r.fortune] = "photo",
   directive |-> LanguageDirective(r.locale, {"title", "reading"})]

\* Ask the model with a prompt that is built once, before the first attempt.
Asking(r, drawn, prompt) ==
  [pc |-> "request", request |-> r, by |-> prompt.engine, day |-> today,
   drawn |-> drawn, prompt |-> prompt, attempt |-> 1]

MockReading(r) ==
  [pc |-> "done", request |-> r, by |-> "mock",
   reading |-> [drawn |-> << >>,
                lines |-> LineOf(FortuneCatalog[r.fortune], {"fa"}, {})]]

Ordinary(r) ==
  IF configured THEN Asking(r, << >>, BasePrompt(r)) ELSE MockReading(r)

ParseGeneratedReading(c) == Carries(c, {"title", "reading"})

OrdinaryReading(t, c) ==
  [drawn |-> t.drawn, lines |-> Section("title", t) \o Section("reading", t)]

-----------------------------------------------------------------------------
(* One round trip to the model, and the loop of attempts around it.        *)

RetryableStatus == {408, 429, 500, 502, 503, 504}

AttemptFails(h, error) ==
  LET t == tasks[h]
  IN  Become(h, IF error = "retryable" /\ t.attempt <= MaxRetries
                THEN [t EXCEPT !.attempt = @ + 1]
                ELSE Failed(t, error, t.attempt))

\* A refusal; a deadline, a lost connection or an empty completion; an answer.
RequestOnce(h, engine, Parsed(_), Reading(_, _)) ==
  /\ IsAt(h, "request") /\ tasks[h].by = engine
  /\ \/ \E s \in Statuses :
          AttemptFails(h, IF s \in RetryableStatus THEN "retryable" ELSE "permanent")
     \/ AttemptFails(h, "retryable")
     \/ \E c \in Completions :
          IF Parsed(c)
          THEN LET t == tasks[h]
               IN  Become(h, [pc |-> "done", request |-> t.request, by |-> t.by,
                              day |-> t.day, drawn |-> t.drawn,
                              prompt |-> t.prompt, reading |-> Reading(t, c)])
          ELSE AttemptFails(h, "retryable")
  /\ UNCHANGED <<world, ghazals, import, calls, faults>>

OrdinaryRequest(h) == RequestOnce(h, "ai", ParseGeneratedReading, OrdinaryReading)

-----------------------------------------------------------------------------
(* generate(): the decorators compare the fortune's id without awaiting, so *)
(* a reading comes to the one engine of its own, or to the ordinary one.    *)

Generate(h) ==
  /\ tasks[h].pc \in {"idle", "done", "failed"}
  /\ calls < MaxCalls /\ calls' = calls + 1
  /\ \E r \in Requests[h] :
       Become(h, IF r.fortune \in RawEngines
                 THEN [pc |-> "flag", request |-> r] ELSE Ordinary(r))
  /\ UNCHANGED <<world, ghazals, import, faults>>

\* The flag has been read: it is off, or no model is configured; or it is on.
PassesThrough(h, engine) ==
  /\ IsAt(h, "flag") /\ Fortune(h) = engine
  /\ Become(h, Ordinary(tasks[h].request))
  /\ UNCHANGED <<world, ghazals, import, calls, faults>>

RawEngineRuns(h, engine) == IsAt(h, "flag") /\ Fortune(h) = engine /\ configured

\* An engine that draws as soon as its flag is on.
DrawsAndAsks(h, engine, Draw(_, _), Prompt(_, _)) ==
  /\ RawEngineRuns(h, engine)
  /\ LET r == tasks[h].request
         drawn == Draw(today, r.words)
     IN  Become(h, Asking(r, drawn, Prompt(drawn, r)))
  /\ UNCHANGED <<world, ghazals, import, calls, faults>>

FourSections == {"interpretationForIntention", "hope", "caution", "practicalAdvice"}

RawPrompt(engine, drawn, r, keys) ==
  [engine |-> engine, drawn |-> drawn,
   directive |-> LanguageDirective(r.locale, keys)]

\* The title, what was drawn and its meaning, then the model's four sections.
\* A rune is also shown under its Norse name to a Persian reader.
DrawnFirst(label, drawn, t, c) ==
  [drawn |-> drawn,
   lines |-> Framing("title", {CardName(t)}, {}, t)
             \o Framing(label, {CardName(t)} \cup
                               (IF label = "yourRune" THEN {"en"} ELSE {}), {}, t)
             \o Source("meaning", t)
             \o Section("interpretationForIntention", t) \o Section("hope", t)
             \o Section("caution", t) \o Advice(t, c)]

\* Tarot.
TarotPrompt(drawn, r) == RawPrompt("tarot", drawn, r, FourSections)
TarotGenerate(h) ==
  PassesThrough(h, "tarot") \/ DrawsAndAsks(h, "tarot", TarotDraw, TarotPrompt)
ParseTarotReading(c) == Carries(c, FourSections)

\* Slip: the card is drawn again when the answer has come.
TarotRedrawn(t, c) == DrawnFirst("yourCard", TarotDraw(today, t.request.words), t, c)

TarotReading(t, c) == DrawnFirst("yourCard", t.drawn, t, c)
TarotRequest(h) == RequestOnce(h, "tarot", ParseTarotReading, TarotReading)

\* Lenormand.
LenormandPrompt(drawn, r) == RawPrompt("lenormand", drawn, r, FourSections)
LenormandGenerate(h) ==
  \/ PassesThrough(h, "lenormand")
  \/ DrawsAndAsks(h, "lenormand", LenormandDraw, LenormandPrompt)
ParseLenormandReading(c) == Carries(c, FourSections)
LenormandReading(t, c) == DrawnFirst("yourCard", t.drawn, t, c)
LenormandRequest(h) ==
  RequestOnce(h, "lenormand", ParseLenormandReading, LenormandReading)

\* Runes.
RunePrompt(drawn, r) == RawPrompt("rune", drawn, r, FourSections)
RuneGenerate(h) ==
  PassesThrough(h, "rune") \/ DrawsAndAsks(h, "rune", RuneDraw, RunePrompt)
ParseRuneReading(c) == Carries(c, FourSections)
RuneReading(t, c) == DrawnFirst("yourRune", t.drawn, t, c)
RuneRequest(h) == RequestOnce(h, "rune", ParseRuneReading, RuneReading)

\* Playing cards.
CardsPrompt(drawn, r) == RawPrompt("cards", drawn, r, FourSections)
CardsGenerate(h) ==
  PassesThrough(h, "cards") \/ DrawsAndAsks(h, "cards", CardsDraw, CardsPrompt)
ParseCardsReading(c) == Carries(c, FourSections)
CardsReading(t, c) == DrawnFirst("yourCard", t.drawn, t, c)
CardsRequest(h) == RequestOnce(h, "cards", ParseCardsReading, CardsReading)

\* A verse of the Quran: a reflection and no caution, and a note of humility.
\* The deck has one name for a surah, and its ayah as it is typed there.
QuranPrompt(drawn, r) ==
  RawPrompt("quran", drawn, r, {"reflectionForIntention", "hope", "practicalAdvice"})
QuranGenerate(h) ==
  PassesThrough(h, "quran") \/ DrawsAndAsks(h, "quran", QuranDraw, QuranPrompt)
ParseQuranReading(c) ==
  Carries(c, {"reflectionForIntention", "hope", "practicalAdvice"})
QuranReading(t, c) ==
  [drawn |-> t.drawn,
   lines |-> Framing("title", {"source"}, {}, t)
             \o Framing("reference", {"source"}, {"latin"}, t)
             \o Scripture("verse") \o Source("translation", t)
             \o Section("reflectionForIntention", t) \o Section("hope", t)
             \o Advice(t, c) \o Label("humility", t)]
QuranRequest(h) == RequestOnce(h, "quran", ParseQuranReading, QuranReading)

\* Tasbih.
TasbihPrompt(drawn, r) == RawPrompt("tasbih", drawn, r, FourSections)
TasbihGenerate(h) ==
  PassesThrough(h, "tasbih") \/ DrawsAndAsks(h, "tasbih", TasbihDraw, TasbihPrompt)
ParseTasbihReading(c) == Carries(c, FourSections)
TasbihReading(t, c) ==
  [drawn |-> t.drawn,
   lines |-> Label("title", t) \o Counting("count", t)
             \o Section("interpretationForIntention", t) \o Section("hope", t)
             \o Section("caution", t) \o Advice(t, c) \o Label("humility", t)]
TasbihRequest(h) == RequestOnce(h, "tasbih", ParseTasbihReading, TasbihReading)

\* Abjad counts the words themselves; words that count nothing pass through.
AbjadPrompt(drawn, r) ==
  RawPrompt("abjad", drawn, r, FourSections \cup {"numberMeaning"})
AbjadGenerate(h) ==
  \/ PassesThrough(h, "abjad")
  \/ /\ RawEngineRuns(h, "abjad")
     /\ ComputeAbjad(tasks[h].request.words).total > 0
     /\ LET r == tasks[h].request
            drawn == ComputeAbjad(r.words)
        IN  Become(h, Asking(r, drawn, AbjadPrompt(drawn, r)))
     /\ UNCHANGED <<world, ghazals, import, calls, faults>>
ParseAbjadReading(c) == Carries(c, FourSections \cup {"numberMeaning"})
\* The word is the reader's own, and so are its letters; what each letter counts
\* is rendered in Persian digits, unless there are too many to show.
RenderBreakdown(letters) ==
  IF Len(letters) <= MaxBreakdownLetters THEN {"persian"} ELSE {}
AbjadWorking(t) ==
  Framing("working", {"source"},
          {ReaderDigits(LocaleOf(t.request.locale))} \cup RenderBreakdown(t.drawn.letters), t)
AbjadReading(t, c) ==
  [drawn |-> t.drawn,
   lines |-> Counting("title", t) \o AbjadWorking(t) \o Section("numberMeaning", t)
             \o Section("interpretationForIntention", t) \o Section("hope", t)
             \o Section("caution", t) \o Advice(t, c)]
AbjadRequest(h) == RequestOnce(h, "abjad", ParseAbjadReading, AbjadReading)

-----------------------------------------------------------------------------
(* Hafez, and the corpus it draws from.                                    *)

HafezKeys == FourSections \cup {"messageOfThePoem"}
HafezPrompt(drawn, r) == RawPrompt("hafez", drawn, r, HafezKeys)

\* Slip: a reading that comes while an import runs is turned away.
TurnedAway(h) ==
  LET t == tasks[h]
  IN  IF import.pc = "done" THEN Become(h, [t EXCEPT !.pc = "import"]) /\ UNCHANGED import
      ELSE IF import = NoImport /\ LoadAndValidate(file)
      THEN Become(h, [t EXCEPT !.pc = "import"]) /\ import' = [pc |-> "count"]
      ELSE Become(h, Failed(t, "corpus", 0)) /\ UNCHANGED import

\* With the flag on: ensureImported() starts an import or joins the one there
\* is.  A file that does not prove itself is an error, and no import.
EnsureImported(h) ==
  LET t == tasks[h]
      awaiting == [t EXCEPT !.pc = "import"]
  IN  IF import # NoImport THEN Become(h, awaiting) /\ UNCHANGED import
      ELSE IF LoadAndValidate(file)
      THEN Become(h, awaiting) /\ import' = [pc |-> "count"]
      ELSE Become(h, Failed(t, "corpus", 0)) /\ UNCHANGED import

HafezGenerate(h) ==
  \/ PassesThrough(h, "hafez")
  \/ /\ RawEngineRuns(h, "hafez") /\ EnsureImported(h)
     /\ UNCHANGED <<world, ghazals, calls, faults>>

\* The import has resolved: the day is read, and a number of 1..count drawn.
HafezDraw(h) ==
  /\ IsAt(h, "import") /\ import.pc = "done"
  /\ LET t == tasks[h]
         n == GhazalDraw(Edition, today, t.request.words, file.count)
     IN  Become(h, [pc |-> "ghazal", request |-> t.request, day |-> today, number |-> n])
  /\ UNCHANGED <<world, ghazals, import, calls, faults>>

\* A row that is missing, and a database that fails, are errors like another.
GetGhazal(h) ==
  LET t == tasks[h]
      drawn == [ghazal |-> t.number]
  IN  /\ IsAt(h, "ghazal")
      /\ \/ /\ Become(h, IF t.number \in ghazals
                          THEN [Asking(t.request, drawn, HafezPrompt(drawn, t.request))
                                  EXCEPT !.day = t.day]
                          ELSE Failed(t, "missing", 0))
            /\ UNCHANGED faults
         \/ /\ faults < MaxFaults /\ faults' = faults + 1
            /\ Become(h, Failed(t, "database", 0))
      /\ UNCHANGED <<world, ghazals, import, calls>>

\* At most the first three verses are looked up, in the ghazal's own.
ParseHafezReading(c) ==
  /\ Carries(c, HafezKeys) /\ c.verses # << >>
  /\ \A i \in DOMAIN c.verses : i <= 3 => c.verses[i] = "own"

HafezReading(t, c) ==
  [drawn |-> t.drawn,
   lines |-> Counting("title", t) \o Scripture("poem") \o Section("messageOfThePoem", t)
             \o Section("interpretationForIntention", t) \o Section("hope", t)
             \o Section("caution", t) \o Advice(t, c)]
HafezRequest(h) == RequestOnce(h, "hafez", ParseHafezReading, HafezReading)

\* Slip: the readings that await the import never hear of it.
ForgetImport == import' = NoImport /\ UNCHANGED tasks

\* The import fails: every reading that awaits it fails, and it is forgotten.
ImportRejects ==
  /\ import' = NoImport
  /\ tasks' = [h \in Handlers |-> IF IsAt(h, "import")
                                 THEN Failed(tasks[h], "corpus", 0) ELSE tasks[h]]

DatabaseFails ==
  /\ import.pc \in {"count", "upsert", "recount"}
  /\ faults < MaxFaults /\ faults' = faults + 1
  /\ ImportRejects
  /\ UNCHANGED <<world, ghazals, calls>>

\* Slip: any row at all means the corpus is there.
CountAny ==
  /\ import.pc = "count"
  /\ import' = IF ghazals # {} THEN [pc |-> "done"] ELSE [pc |-> "upsert", next |-> 1]
  /\ UNCHANGED <<world, ghazals, tasks, calls, faults>>

ImportCount ==
  /\ import.pc = "count"
  /\ import' = IF Cardinality(ghazals) = file.count
               THEN [pc |-> "done"] ELSE [pc |-> "upsert", next |-> 1]
  /\ UNCHANGED <<world, ghazals, tasks, calls, faults>>

ImportUpsert ==
  /\ import.pc = "upsert"
  /\ ghazals' = ghazals \cup {file.numbers[import.next]}
  /\ import' = IF import.next < Len(file.numbers)
               THEN [import EXCEPT !.next = @ + 1] ELSE [pc |-> "recount"]
  /\ UNCHANGED <<world, tasks, calls, faults>>

ImportRecount ==
  /\ import.pc = "recount"
  /\ IF Cardinality(ghazals) = file.count
     THEN import' = [pc |-> "done"] /\ UNCHANGED tasks
     ELSE ImportRejects
  /\ UNCHANGED <<world, ghazals, calls, faults>>

\* prisma/seed.ts, run beside the server, upserts the same file.
SeedGhazal ==
  /\ LoadAndValidate(file)
  /\ \E n \in Range(file.numbers) : ghazals' = ghazals \cup {n}
  /\ UNCHANGED <<world, import, tasks, calls, faults>>

-----------------------------------------------------------------------------
(* The environment.                                                        *)

Midnight ==
  /\ today < MaxDay /\ today' = today + 1
  /\ UNCHANGED <<configured, file, restarts, ghazals, import, tasks, calls, faults>>

\* The process dies: its calls and the memo are gone, the rows are not.
Restart ==
  /\ restarts < MaxRestarts /\ restarts' = restarts + 1
  /\ import' = NoImport /\ tasks' = [h \in Handlers |-> Idle]
  /\ UNCHANGED <<configured, file, today, ghazals, calls, faults>>

RawGenerate(h) ==
  \/ TarotGenerate(h) \/ LenormandGenerate(h) \/ RuneGenerate(h)
  \/ CardsGenerate(h) \/ QuranGenerate(h) \/ TasbihGenerate(h)
  \/ AbjadGenerate(h) \/ HafezGenerate(h)

Request(h) ==
  \/ TarotRequest(h) \/ LenormandRequest(h) \/ RuneRequest(h)
  \/ CardsRequest(h) \/ QuranRequest(h) \/ TasbihRequest(h)
  \/ AbjadRequest(h) \/ HafezRequest(h) \/ OrdinaryRequest(h)

HandlerStep(h) == RawGenerate(h) \/ HafezDraw(h) \/ GetGhazal(h) \/ Request(h)

ImportStep == DatabaseFails \/ ImportCount \/ ImportUpsert \/ ImportRecount

Next ==
  \/ \E h \in Handlers : Generate(h) \/ HandlerStep(h)
  \/ ImportStep \/ SeedGhazal \/ Midnight \/ Restart

\* Every await of a call and of the import resolves: the endpoint is given a
\* deadline, and the database answers or fails.
Fairness == WF_vars(ImportStep) /\ \A h \in Handlers : WF_vars(HandlerStep(h))

Spec == Init /\ [][Next]_vars /\ Fairness

-----------------------------------------------------------------------------
(* Properties.                                                             *)

\* Calls are at a step of generate(), an import only runs on a file that
\* proved itself, and no more attempts are made than the configuration allows.
TypeOK ==
  /\ ghazals \subseteq Range(file.numbers) /\ today \in 0..MaxDay
  /\ import.pc \in {"none", "count", "upsert", "recount", "done"}
  /\ import # NoImport => LoadAndValidate(file)
  /\ \A h \in Handlers :
       /\ tasks[h].pc \in {"idle", "flag", "import", "ghazal", "request", "done", "failed"}
       /\ tasks[h].pc \in {"request", "failed"}
            => tasks[h].attempt \in 0..(MaxRetries + 1)

\* The letters of words, whatever keyboard and vocalisation they were typed with.
Spelt(words) ==
  LET bare == Bare(words)
  IN  Collapse([i \in DOMAIN bare |-> Plain(bare[i].letter)])

\* Two readers who bring the same words, however typed, to the same engine on
\* the same day are shown the same draw (ghazal-selection.ts:6-9).
SameDraw ==
  \A g, h \in Handlers :
    LET s == tasks[g]
        t == tasks[h]
    IN  /\ {s.pc, t.pc} \subseteq {"request", "done"}
        /\ {s.by, t.by} \subseteq RawEngines
        /\ s.by = t.by /\ s.day = t.day
        /\ Spelt(s.request.words) = Spelt(t.request.words)
        => s.drawn = t.drawn

\* A reading states the card its prompt handed to the model, although midnight
\* may pass between the draw and the answer, and the model be asked again.
OneCardThroughout ==
  \A h \in Handlers :
    IsAt(h, "done") /\ tasks[h].by \in RawEngines
      => tasks[h].reading.drawn = tasks[h].prompt.drawn

\* What a line of the server's may carry that is not in the reader's language:
\* what has one script for everyone, and the English names of a deck; and the
\* digits that are not the reader's, in the two lines that write some although
\* "everyone else reads their own" (reading-labels.ts:32).
Beside(kind) ==
  CASE kind \in {"poem", "verse", "reference", "working"} -> {"source"}
    [] kind = "title" -> {"source", "en"}
    [] kind \in {"yourCard", "yourRune"} -> {"en"}
    [] OTHER -> {}
OddDigits(kind) ==
  CASE kind = "working" -> {"persian"}
    [] kind = "reference" -> {"latin"}
    [] OTHER -> {}

Readable(line, language) ==
  /\ line.languages \subseteq {language} \cup Beside(line.kind)
  /\ line.digits \subseteq {ReaderDigits(language)} \cup OddDigits(line.kind)

\* A raw engine's reading is in the reader's language: what the server adds and
\* what the model was told to write.  No line carries a word of Persian for
\* another reader, nor words of any third language, but for the English names of
\* cards and runes and for what has one script (the poem, the verse, a surah, the
\* word that was counted); numbers are in the reader's digits, but for the abjad
\* working and the ayah; and "For today:" is said once (reading-labels.ts:46-51).
OneLanguage ==
  \A h \in Handlers :
    IsAt(h, "done") /\ tasks[h].by \in RawEngines
      => LET lines == tasks[h].reading.lines
         IN  /\ \A i \in DOMAIN lines :
                  Readable(lines[i], LocaleOf(tasks[h].request.locale))
             /\ Cardinality({i \in DOMAIN lines : lines[i].kind = "forToday"}) = 1

\* A number drawn from 1..count is the number of a row: whatever other importer
\* ran, whichever fault or restart cut an import short, the Divan has no hole.
DrawnGhazalIsStored ==
  \A h \in Handlers : IsAt(h, "ghazal") => tasks[h].number \in ghazals

\* A reading only fails for its corpus at the moment something fails: readings
\* share the import that is under way, and the next one "tries again instead of
\* remembering the outage" (hafez-corpus.service.ts:53-54).
ImportErrorsAreFresh ==
  [][\A h \in Handlers :
       /\ tasks[h].pc \in {"flag", "import"}
       /\ tasks[h]'.pc = "failed" /\ tasks[h]'.error = "corpus"
       => faults' > faults \/ ~LoadAndValidate(file)]_vars

\* Every call of generate() ends, in a reading or in an error, unless the
\* process dies.
EveryRequestEnds ==
  \A h \in Handlers :
    tasks[h].pc \in {"flag", "import", "ghazal", "request"}
      ~> tasks[h].pc \in {"idle", "done", "failed"}

-----------------------------------------------------------------------------
(***************************************************************************)
(* The inductive invariant of EnginesProofs.                               *)
(***************************************************************************)
\* Whoever imports, rows are of the file; an import has its rows up to the next
\* one, and one that is done has them all.
CorpusInv ==
  /\ file \in Files /\ ghazals \subseteq Range(file.numbers)
  /\ \/ import = NoImport
     \/ import.pc \in {"count", "upsert", "recount", "done"}
  /\ import # NoImport => LoadAndValidate(file)
  /\ import.pc = "upsert" =>
       /\ DOMAIN import = {"pc", "next"} /\ import.next \in 1..Len(file.numbers)
       /\ \A i \in 1..(import.next - 1) : file.numbers[i] \in ghazals
  /\ import.pc \in {"recount", "done"} => Range(file.numbers) \subseteq ghazals

\* The sections an engine's prompt orders in the reader's language.
SectionKeys(engine) ==
  CASE engine = "quran" -> {"reflectionForIntention", "hope", "practicalAdvice"}
    [] engine = "abjad" -> FourSections \cup {"numberMeaning"}
    [] engine = "hafez" -> HafezKeys
    [] OTHER -> FourSections

\* The model opens its advice in a language the app knows, or not at all.
HeadsKnown == \A c \in Completions : c.head \in SupportedLocales \cup {"none"}

\* Words are written, but for their vocalisation, in forms that the folds know.
WordsKnown ==
  \A h \in Handlers : \A r \in Requests[h] :
    LET bare == Bare(r.words)
    IN  /\ DOMAIN bare = 1..Len(bare)
        /\ \A i \in DOMAIN bare : FoldChar(bare[i]) = Plain(bare[i].letter)

\* The abjad count is a count of the letters: a fact about SelectSeq,
\* that TLC evaluates for the words of an instance.
AbjadOfLetters ==
  \A g, h \in Handlers : \A r \in Requests[g], s \in Requests[h] :
    Spelt(r.words) = Spelt(s.words) => ComputeAbjad(r.words) = ComputeAbjad(s.words)

\* What a line of a raw engine's reading may be.
Kinds ==
  {"title", "yourCard", "yourRune", "reference", "count", "working", "humility",
   "meaning", "translation", "verse", "poem", "forToday"}
  \cup HafezKeys \cup {"reflectionForIntention", "numberMeaning"}

Line == [kind: Kinds, languages: SUBSET (SupportedLocales \cup {"source"}),
         digits: SUBSET {"persian", "latin"}]

\* Lines that a reader of a language is shown.
InLanguage(lines, language) ==
  /\ lines \in Seq(Line)
  /\ \A i \in DOMAIN lines : Readable(lines[i], language)

\* One of them, and no other, says "For today:".
SaidOnce(lines, language) ==
  /\ InLanguage(lines, language)
  /\ \E k \in DOMAIN lines :
       /\ lines[k].kind = "forToday"
       /\ \A i \in DOMAIN lines : lines[i].kind = "forToday" => i = k

\* What an engine draws of a day and of words, a corpus counting so many ghazals.
DrawOf(engine, day, words, count) ==
  CASE engine = "tarot" -> TarotDraw(day, words)
    [] engine = "lenormand" -> LenormandDraw(day, words)
    [] engine = "rune" -> RuneDraw(day, words)
    [] engine = "cards" -> CardsDraw(day, words)
    [] engine = "quran" -> QuranDraw(day, words)
    [] engine = "tasbih" -> TasbihDraw(day, words)
    [] engine = "hafez" -> [ghazal |-> GhazalDraw(Edition, day, words, count)]
    [] OTHER -> ComputeAbjad(words)

\* A call, among the rows there are.  It asks for what its handler was asked;
\* what it drew is its engine's draw of its day and words; one that asks the
\* model has a prompt of its engine, for that draw, that orders the reader's
\* language; and one that ended states that draw.
Ordered(t, keys) == t.prompt.directive = LanguageDirective(t.request.locale, keys)

DrawnSo(t, count) ==
  t.by \in RawEngines => t.drawn = DrawOf(t.by, t.day, t.request.words, count)

Sound(h, t, rows, count) ==
  /\ t.pc \in {"idle", "flag", "import", "ghazal", "request", "done", "failed"}
  /\ t.pc = "failed" => t.attempt \in 0..(MaxRetries + 1)
  /\ t.pc \in {"flag", "import", "ghazal", "request", "done"} =>
       t.request \in Requests[h]
  /\ t.pc \in {"flag", "import"} => DOMAIN t = {"pc", "request"}
  /\ t.pc = "ghazal" =>
       /\ t.number \in rows
       /\ t.number = GhazalDraw(Edition, t.day, t.request.words, count)
  /\ t.pc \in {"request", "done"} => DrawnSo(t, count)
  /\ t.pc = "request" =>
       /\ DOMAIN t = {"pc", "request", "by", "day", "drawn", "prompt", "attempt"}
       /\ t.attempt \in 1..(MaxRetries + 1)
       /\ t.by \in RawEngines =>
            t.prompt.drawn = t.drawn /\ Ordered(t, SectionKeys(t.by))
  /\ t.pc = "done" /\ t.by \in RawEngines =>
       /\ t.reading.drawn = t.prompt.drawn
       /\ HeadsKnown => SaidOnce(t.reading.lines, LocaleOf(t.request.locale))

\* The corpus is in order and every call is sound.
IInv ==
  /\ DOMAIN tasks = Handlers /\ today \in 0..MaxDay /\ faults \in 0..MaxFaults
  /\ CorpusInv
  /\ \A h \in Handlers : Sound(h, tasks[h], ghazals, file.count)
=============================================================================
