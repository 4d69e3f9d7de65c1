--------------------------- MODULE EnginesProofs ----------------------------
(***************************************************************************)
(* What TLAPS proves of the raw engines and the corpus, for every set of   *)
(* requests, of corpus files and of completions: the inductive invariant   *)
(* IInv of Engines.                                                        *)
(*                                                                         *)
(* A step changes one call, or the import and the rows; so the invariant   *)
(* is restated call by call, as a predicate of the call and of the rows,   *)
(* and each action is shown to leave its call sound.                       *)
(***************************************************************************)
EXTENDS Engines, FiniteSetTheorems, SequenceTheorems, TLAPS

-----------------------------------------------------------------------------
(* The lines of a reading.                                                 *)

\* Lines that do not say "For today:".
Unsaid(lines, language) ==
  /\ InLanguage(lines, language)
  /\ \A i \in DOMAIN lines : lines[i].kind # "forToday"

LEMMA UnsaidConcat ==
  ASSUME NEW a, NEW b, NEW language, Unsaid(a, language), Unsaid(b, language)
  PROVE  Unsaid(a \o b, language)
<1>1. a \in Seq(Line) /\ b \in Seq(Line) BY DEF Unsaid, InLanguage
<1>2. a \o b \in Seq(Line) /\ DOMAIN (a \o b) = 1..(Len(a) + Len(b)) BY <1>1
<1>3. ASSUME NEW i \in DOMAIN (a \o b)
      PROVE  /\ Readable((a \o b)[i], language)
             /\ (a \o b)[i].kind # "forToday"
  <2>1. CASE i <= Len(a)
    <3>1. i \in DOMAIN a /\ (a \o b)[i] = a[i] BY <1>1, <1>2, <2>1
    <3> QED BY <3>1 DEF Unsaid, InLanguage
  <2>2. CASE ~(i <= Len(a))
    <3>1. i - Len(a) \in DOMAIN b /\ (a \o b)[i] = b[i - Len(a)] BY <1>1, <1>2, <2>2
    <3> QED BY <3>1 DEF Unsaid, InLanguage
  <2> QED BY <2>1, <2>2
<1> QED BY <1>2, <1>3 DEF Unsaid, InLanguage

LEMMA SaidLast ==
  ASSUME NEW a, NEW b, NEW language, Unsaid(a, language), SaidOnce(b, language)
  PROVE  SaidOnce(a \o b, language)
<1>1. a \in Seq(Line) /\ b \in Seq(Line) BY DEF Unsaid, SaidOnce, InLanguage
<1>2. a \o b \in Seq(Line) /\ DOMAIN (a \o b) = 1..(Len(a) + Len(b)) BY <1>1
<1>3. PICK k \in DOMAIN b :
        b[k].kind = "forToday" /\ \A i \in DOMAIN b : b[i].kind = "forToday" => i = k
  BY DEF SaidOnce
<1>4. ASSUME NEW i \in DOMAIN (a \o b)
      PROVE  /\ Readable((a \o b)[i], language)
             /\ (a \o b)[i].kind = "forToday" => i = Len(a) + k
  <2>1. CASE i <= Len(a)
    <3>1. i \in DOMAIN a /\ (a \o b)[i] = a[i] BY <1>1, <1>2, <2>1
    <3> QED BY <3>1 DEF Unsaid, InLanguage
  <2>2. CASE ~(i <= Len(a))
    <3>1. i - Len(a) \in DOMAIN b /\ (a \o b)[i] = b[i - Len(a)] BY <1>1, <1>2, <2>2
    <3>2. b[i - Len(a)].kind = "forToday" => i - Len(a) = k BY <3>1, <1>3
    <3>3. k \in Int /\ i \in Int /\ Len(a) \in Int BY <1>1, <1>2
    <3>4. Readable(b[i - Len(a)], language)
      BY <3>1 DEF SaidOnce, InLanguage
    <3> QED BY <3>1, <3>2, <3>3, <3>4
  <2> QED BY <2>1, <2>2
<1>5. Len(a) + k \in DOMAIN (a \o b) /\ (a \o b)[Len(a) + k] = b[k] BY <1>1, <1>2
<1> QED BY <1>2, <1>3, <1>4, <1>5 DEF SaidOnce, InLanguage

LEMMA SaidFirst ==
  ASSUME NEW a, NEW b, NEW language, SaidOnce(a, language), Unsaid(b, language)
  PROVE  SaidOnce(a \o b, language)
<1>1. a \in Seq(Line) /\ b \in Seq(Line) BY DEF Unsaid, SaidOnce, InLanguage
<1>2. a \o b \in Seq(Line) /\ DOMAIN (a \o b) = 1..(Len(a) + Len(b)) BY <1>1
<1>3. PICK k \in DOMAIN a :
        a[k].kind = "forToday" /\ \A i \in DOMAIN a : a[i].kind = "forToday" => i = k
  BY DEF SaidOnce
<1>4. ASSUME NEW i \in DOMAIN (a \o b)
      PROVE  /\ Readable((a \o b)[i], language)
             /\ (a \o b)[i].kind = "forToday" => i = k
  <2>1. CASE i <= Len(a)
    <3>1. i \in DOMAIN a /\ (a \o b)[i] = a[i] BY <1>1, <1>2, <2>1
    <3> QED BY <3>1, <1>3 DEF SaidOnce, InLanguage
  <2>2. CASE ~(i <= Len(a))
    <3>1. i - Len(a) \in DOMAIN b /\ (a \o b)[i] = b[i - Len(a)] BY <1>1, <1>2, <2>2
    <3> QED BY <3>1 DEF Unsaid, InLanguage
  <2> QED BY <2>1, <2>2
<1>5. k \in DOMAIN (a \o b) /\ (a \o b)[k] = a[k] BY <1>1, <1>2
<1> QED BY <1>2, <1>3, <1>4, <1>5 DEF SaidOnce, InLanguage

\* A line of the server's, a source and the scripture say nothing of today.
LEMMA LocaleKnown == \A locale : LocaleOf(locale) \in SupportedLocales
BY DEF LocaleOf, SupportedLocales

\* One line, of those that a reader may be shown.
LEMMA LineUnsaid ==
  ASSUME NEW kind \in Kinds, kind # "forToday", NEW language,
         NEW words \in SUBSET (SupportedLocales \cup {"source"}),
         words \subseteq {language} \cup Beside(kind),
         NEW numbers \in SUBSET {"persian", "latin"},
         numbers \subseteq {ReaderDigits(language)} \cup OddDigits(kind)
  PROVE  Unsaid(LineOf(kind, words, numbers), language)
<1> DEFINE line == [kind |-> kind, languages |-> words, digits |-> numbers]
<1>1. line \in Line BY DEF Line
<1>2. line.kind = kind /\ line.languages = words /\ line.digits = numbers OBVIOUS
<1>3. LineOf(kind, words, numbers) = <<line>> BY DEF LineOf
<1> HIDE DEF line
<1>4. Readable(line, language) BY <1>2 DEF Readable
<1> QED BY <1>1, <1>2, <1>3, <1>4 DEF Unsaid, InLanguage

\* A sentence of the server's, around what its line may carry.
LEMMA FramingUnsaid ==
  ASSUME NEW t, NEW kind \in Kinds, kind # "forToday",
         NEW names \in SUBSET (SupportedLocales \cup {"source"}),
         names \subseteq {LocaleOf(t.request.locale)} \cup Beside(kind),
         NEW numbers \in SUBSET {"persian", "latin"},
         numbers \subseteq {ReaderDigits(LocaleOf(t.request.locale))} \cup OddDigits(kind)
  PROVE  Unsaid(Framing(kind, names, numbers, t), LocaleOf(t.request.locale))
<1>1. LocaleOf(t.request.locale) \in SupportedLocales BY LocaleKnown
<1> QED BY <1>1, LineUnsaid DEF Framing

LEMMA LabelUnsaid ==
  ASSUME NEW t, NEW kind \in Kinds, kind # "forToday"
  PROVE  Unsaid(Label(kind, t), LocaleOf(t.request.locale))
BY FramingUnsaid DEF Label

LEMMA CountingUnsaid ==
  ASSUME NEW t, NEW kind \in Kinds, kind # "forToday"
  PROVE  Unsaid(Counting(kind, t), LocaleOf(t.request.locale))
<1>1. ReaderDigits(LocaleOf(t.request.locale)) \in {"persian", "latin"} BY DEF ReaderDigits
<1> QED BY <1>1, FramingUnsaid DEF Counting

\* The name of a card, in a title or after "Your card:".
LEMMA NamedUnsaid ==
  ASSUME NEW t, NEW kind \in {"title", "yourCard", "yourRune"},
         NEW names \in SUBSET {CardName(t), "en"}
  PROVE  Unsaid(Framing(kind, names, {}, t), LocaleOf(t.request.locale))
<1>1. kind \in Kinds /\ kind # "forToday" BY DEF Kinds
<1>2. "en" \in Beside(kind) BY DEF Beside
<1>3. CardName(t) = "en" \/ (CardName(t) = "fa" /\ LocaleOf(t.request.locale) = "fa")
  BY DEF CardName
<1>4. names \subseteq SupportedLocales \cup {"source"} BY <1>3 DEF SupportedLocales
<1>5. names \subseteq {LocaleOf(t.request.locale)} \cup Beside(kind) BY <1>2, <1>3
<1> QED BY <1>1, <1>4, <1>5, FramingUnsaid

\* What has one script for everyone, in the lines that show it.
LEMMA SourcedUnsaid ==
  ASSUME NEW t, NEW kind \in {"title", "reference", "working"},
         NEW numbers \in SUBSET {"persian", "latin"},
         numbers \subseteq {ReaderDigits(LocaleOf(t.request.locale))} \cup OddDigits(kind)
  PROVE  Unsaid(Framing(kind, {"source"}, numbers, t), LocaleOf(t.request.locale))
<1>1. kind \in Kinds /\ kind # "forToday" BY DEF Kinds
<1>2. {"source"} \subseteq Beside(kind) BY DEF Beside
<1> QED BY <1>1, <1>2, FramingUnsaid

LEMMA WorkingUnsaid ==
  ASSUME NEW t
  PROVE  Unsaid(AbjadWorking(t), LocaleOf(t.request.locale))
<1> DEFINE numbers == {ReaderDigits(LocaleOf(t.request.locale))}
                      \cup RenderBreakdown(t.drawn.letters)
<1>1. OddDigits("working") = {"persian"} BY DEF OddDigits
<1>2. RenderBreakdown(t.drawn.letters) \subseteq {"persian"} BY DEF RenderBreakdown
<1>3. ReaderDigits(LocaleOf(t.request.locale)) \in {"persian", "latin"} BY DEF ReaderDigits
<1>4. numbers \in SUBSET {"persian", "latin"} BY <1>2, <1>3
<1>5. numbers \subseteq {ReaderDigits(LocaleOf(t.request.locale))} \cup OddDigits("working")
  BY <1>1, <1>2
<1>6. AbjadWorking(t) = Framing("working", {"source"}, numbers, t) BY DEF AbjadWorking
<1> HIDE DEF numbers
<1> QED BY <1>4, <1>5, <1>6, SourcedUnsaid

LEMMA SourceUnsaid ==
  ASSUME NEW t, NEW kind \in Kinds, kind # "forToday"
  PROVE  Unsaid(Source(kind, t), LocaleOf(t.request.locale))
<1>1. CASE LocaleOf(t.request.locale) = "fa"
  <2>1. Unsaid(LineOf(kind, {"fa"}, {}), "fa") BY LineUnsaid DEF SupportedLocales
  <2> QED BY <1>1, <2>1 DEF Source
<1>2. CASE LocaleOf(t.request.locale) # "fa"
  <2>1. Source(kind, t) = << >> BY <1>2 DEF Source
  <2> QED BY <2>1 DEF Unsaid, InLanguage
<1> QED BY <1>1, <1>2

LEMMA ScriptureUnsaid ==
  ASSUME NEW kind \in {"poem", "verse"}, NEW language
  PROVE  Unsaid(Scripture(kind), language)
<1>1. kind \in Kinds /\ kind # "forToday" BY DEF Kinds
<1>2. {"source"} \subseteq Beside(kind) BY DEF Beside
<1> QED BY <1>1, <1>2, LineUnsaid DEF Scripture

\* A section of a key its prompt orders is in the reader's language.
LEMMA SectionUnsaid ==
  ASSUME NEW t, NEW keys, NEW key \in keys, key \in Kinds, key # "forToday",
         t.prompt.directive = LanguageDirective(t.request.locale, keys)
  PROVE  Unsaid(Section(key, t), LocaleOf(t.request.locale))
<1> DEFINE language == IF key \in t.prompt.directive.keys
                       THEN t.prompt.directive.language ELSE "fa"
<1>1. language = LocaleOf(t.request.locale)
  <2>1. CASE t.request.locale \in SupportedLocales \ {"fa"}
    BY <2>1 DEF LanguageDirective, LocaleOf
  <2>2. CASE t.request.locale \notin SupportedLocales \ {"fa"}
    BY <2>2 DEF LanguageDirective, LocaleOf
  <2> QED BY <2>1, <2>2
<1>2. language \in SupportedLocales BY <1>1, LocaleKnown
<1>3. Section(key, t) = LineOf(key, {language}, {}) BY DEF Section
<1> HIDE DEF language
<1> QED BY <1>1, <1>2, <1>3, LineUnsaid

\* The advice opens with "For today:" of the server's, whatever opening of the
\* languages it knows the model gave it.
LEMMA AdviceSaid ==
  ASSUME NEW t, NEW c, NEW keys, "practicalAdvice" \in keys,
         c.head \in SupportedLocales \cup {"none"},
         t.prompt.directive = LanguageDirective(t.request.locale, keys)
  PROVE  SaidOnce(Advice(t, c), LocaleOf(t.request.locale))
<1> DEFINE language == LocaleOf(t.request.locale)
           line == [kind |-> "forToday", languages |-> {language}, digits |-> {}]
<1>1. language \in SupportedLocales BY LocaleKnown
<1>2. line \in Line BY <1>1 DEF Line, Kinds
<1>3. line.kind = "forToday" /\ line.languages = {language} /\ line.digits = {} OBVIOUS
<1>4. Label("forToday", t) = <<line>>
  <2>1. {language} \cup {} = {language} OBVIOUS
  <2> QED BY <2>1 DEF Label, Framing, LineOf
<1>5. StripForToday(c.head) = "none" BY DEF StripForToday
<1>6. Unsaid(Section("practicalAdvice", t), language)
  <2>1. "practicalAdvice" \in Kinds BY DEF Kinds, HafezKeys, FourSections
  <2> QED BY <2>1, SectionUnsaid
<1>7. Advice(t, c) = (<<line>> \o << >>) \o Section("practicalAdvice", t)
  BY <1>4, <1>5 DEF Advice
<1> HIDE DEF line, language
<1>8. SaidOnce(<<line>>, language) BY <1>2, <1>3 DEF SaidOnce, InLanguage, Readable
<1>9. <<line>> \o << >> = <<line>> BY <1>2
<1>10. SaidOnce(Advice(t, c), language) BY <1>6, <1>7, <1>8, <1>9, SaidFirst
<1> QED BY <1>10 DEF language
-----------------------------------------------------------------------------
(* The reading of each engine.                                             *)

\* The opening of one completion.
HeadKnown(c) == c.head \in SupportedLocales \cup {"none"}

LEMMA KeysAreKinds ==
  /\ HafezKeys \cup {"reflectionForIntention", "numberMeaning"} \subseteq Kinds \ {"forToday"}
  /\ FourSections \subseteq HafezKeys
BY DEF Kinds, HafezKeys, FourSections

LEMMA OrderedSection ==
  ASSUME NEW t, NEW keys, Ordered(t, keys), NEW key \in keys,
         keys \subseteq HafezKeys \cup {"reflectionForIntention", "numberMeaning"}
  PROVE  Unsaid(Section(key, t), LocaleOf(t.request.locale))
<1>1. key \in Kinds /\ key # "forToday" BY KeysAreKinds
<1> QED BY <1>1, SectionUnsaid DEF Ordered

LEMMA DrawnFirstSaid ==
  ASSUME NEW t, NEW c, NEW drawn, NEW label \in {"yourCard", "yourRune"},
         Ordered(t, FourSections), HeadKnown(c)
  PROVE  SaidOnce(DrawnFirst(label, drawn, t, c).lines, LocaleOf(t.request.locale))
<1> DEFINE language == LocaleOf(t.request.locale)
           names == {CardName(t)} \cup (IF label = "yourRune" THEN {"en"} ELSE {})
           l1 == Framing("title", {CardName(t)}, {}, t)
           l2 == Framing(label, names, {}, t)
           l3 == Source("meaning", t)
           l4 == Section("interpretationForIntention", t)
           l5 == Section("hope", t)
           l6 == Section("caution", t)
           l7 == Advice(t, c)
<1>1. Unsaid(l1, language) BY NamedUnsaid
<1>2. Unsaid(l2, language)
  <2>1. names \in SUBSET {CardName(t), "en"} OBVIOUS
  <2> HIDE DEF names
  <2> QED BY <2>1, NamedUnsaid
<1>3. Unsaid(l3, language) BY SourceUnsaid DEF Kinds
<1>4. FourSections \subseteq HafezKeys \cup {"reflectionForIntention", "numberMeaning"}
  BY KeysAreKinds
<1>5. Unsaid(l4, language) BY <1>4, OrderedSection DEF FourSections
<1>6. Unsaid(l5, language) BY <1>4, OrderedSection DEF FourSections
<1>7. Unsaid(l6, language) BY <1>4, OrderedSection DEF FourSections
<1>8. SaidOnce(l7, language) BY AdviceSaid DEF Ordered, HeadKnown, FourSections
<1>9. DrawnFirst(label, drawn, t, c).lines = l1 \o l2 \o l3 \o l4 \o l5 \o l6 \o l7
  BY DEF DrawnFirst
<1> HIDE DEF language, l1, l2, l3, l4, l5, l6, l7
<1>10. Unsaid(l1 \o l2, language) BY <1>1, <1>2, UnsaidConcat
<1>11. Unsaid(l1 \o l2 \o l3, language) BY <1>10, <1>3, UnsaidConcat
<1>12. Unsaid(l1 \o l2 \o l3 \o l4, language) BY <1>11, <1>5, UnsaidConcat
<1>13. Unsaid(l1 \o l2 \o l3 \o l4 \o l5, language) BY <1>12, <1>6, UnsaidConcat
<1>14. Unsaid(l1 \o l2 \o l3 \o l4 \o l5 \o l6, language) BY <1>13, <1>7, UnsaidConcat
<1>15. SaidOnce(DrawnFirst(label, drawn, t, c).lines, language)
  BY <1>8, <1>9, <1>14, SaidLast
<1> QED BY <1>15 DEF language

QuranKeys == {"reflectionForIntention", "hope", "practicalAdvice"}

LEMMA QuranSaid ==
  ASSUME NEW t, NEW c, Ordered(t, QuranKeys), HeadKnown(c)
  PROVE  SaidOnce(QuranReading(t, c).lines, LocaleOf(t.request.locale))
<1> DEFINE language == LocaleOf(t.request.locale)
           l1 == Framing("title", {"source"}, {}, t)
           l2 == Framing("reference", {"source"}, {"latin"}, t)
           l3 == Scripture("verse")
           l4 == Source("translation", t)
           l5 == Section("reflectionForIntention", t)
           l6 == Section("hope", t)
           l7 == Advice(t, c)
           l8 == Label("humility", t)
<1>1. Unsaid(l1, language) /\ Unsaid(l2, language) /\ Unsaid(l8, language)
  <2>1. OddDigits("reference") = {"latin"} BY DEF OddDigits
  <2>2. Unsaid(l1, language) BY SourcedUnsaid
  <2>3. Unsaid(l2, language) BY <2>1, SourcedUnsaid
  <2>4. Unsaid(l8, language) BY LabelUnsaid DEF Kinds
  <2> QED BY <2>2, <2>3, <2>4
<1>2. Unsaid(l3, language) BY ScriptureUnsaid
<1>3. Unsaid(l4, language) BY SourceUnsaid DEF Kinds
<1>4. QuranKeys \subseteq HafezKeys \cup {"reflectionForIntention", "numberMeaning"}
  BY DEF QuranKeys, HafezKeys, FourSections
<1>5. Unsaid(l5, language) BY <1>4, OrderedSection DEF QuranKeys
<1>6. Unsaid(l6, language) BY <1>4, OrderedSection DEF QuranKeys
<1>7. SaidOnce(l7, language) BY AdviceSaid DEF Ordered, HeadKnown, QuranKeys
<1>8. QuranReading(t, c).lines = l1 \o l2 \o l3 \o l4 \o l5 \o l6 \o l7 \o l8
  BY DEF QuranReading
<1> HIDE DEF language, l1, l2, l3, l4, l5, l6, l7, l8
<1>9. Unsaid(l1 \o l2, language) BY <1>1, UnsaidConcat
<1>10. Unsaid(l1 \o l2 \o l3, language) BY <1>9, <1>2, UnsaidConcat
<1>11. Unsaid(l1 \o l2 \o l3 \o l4, language) BY <1>10, <1>3, UnsaidConcat
<1>12. Unsaid(l1 \o l2 \o l3 \o l4 \o l5, language) BY <1>11, <1>5, UnsaidConcat
<1>13. Unsaid(l1 \o l2 \o l3 \o l4 \o l5 \o l6, language) BY <1>12, <1>6, UnsaidConcat
<1>14. SaidOnce(l1 \o l2 \o l3 \o l4 \o l5 \o l6 \o l7, language)
  BY <1>13, <1>7, SaidLast
<1>15. SaidOnce(QuranReading(t, c).lines, language) BY <1>1, <1>8, <1>14, SaidFirst
<1> QED BY <1>15 DEF language

LEMMA TasbihSaid ==
  ASSUME NEW t, NEW c, Ordered(t, FourSections), HeadKnown(c)
  PROVE  SaidOnce(TasbihReading(t, c).lines, LocaleOf(t.request.locale))
<1> DEFINE language == LocaleOf(t.request.locale)
           l1 == Label("title", t)
           l2 == Counting("count", t)
           l3 == Section("interpretationForIntention", t)
           l4 == Section("hope", t)
           l5 == Section("caution", t)
           l6 == Advice(t, c)
           l7 == Label("humility", t)
<1>1. Unsaid(l1, language) /\ Unsaid(l2, language) /\ Unsaid(l7, language)
  BY LabelUnsaid, CountingUnsaid DEF Kinds
<1>2. FourSections \subseteq HafezKeys \cup {"reflectionForIntention", "numberMeaning"}
  BY KeysAreKinds
<1>3. Unsaid(l3, language) BY <1>2, OrderedSection DEF FourSections
<1>4. Unsaid(l4, language) BY <1>2, OrderedSection DEF FourSections
<1>5. Unsaid(l5, language) BY <1>2, OrderedSection DEF FourSections
<1>6. SaidOnce(l6, language) BY AdviceSaid DEF Ordered, HeadKnown, FourSections
<1>7. TasbihReading(t, c).lines = l1 \o l2 \o l3 \o l4 \o l5 \o l6 \o l7
  BY DEF TasbihReading
<1> HIDE DEF language, l1, l2, l3, l4, l5, l6, l7
<1>8. Unsaid(l1 \o l2, language) BY <1>1, UnsaidConcat
<1>9. Unsaid(l1 \o l2 \o l3, language) BY <1>8, <1>3, UnsaidConcat
<1>10. Unsaid(l1 \o l2 \o l3 \o l4, language) BY <1>9, <1>4, UnsaidConcat
<1>11. Unsaid(l1 \o l2 \o l3 \o l4 \o l5, language) BY <1>10, <1>5, UnsaidConcat
<1>12. SaidOnce(l1 \o l2 \o l3 \o l4 \o l5 \o l6, language) BY <1>11, <1>6, SaidLast
<1>13. SaidOnce(TasbihReading(t, c).lines, language) BY <1>1, <1>7, <1>12, SaidFirst
<1> QED BY <1>13 DEF language

AbjadKeys == FourSections \cup {"numberMeaning"}

LEMMA AbjadSaid ==
  ASSUME NEW t, NEW c, Ordered(t, AbjadKeys), HeadKnown(c)
  PROVE  SaidOnce(AbjadReading(t, c).lines, LocaleOf(t.request.locale))
<1> DEFINE language == LocaleOf(t.request.locale)
           l1 == Counting("title", t)
           l2 == AbjadWorking(t)
           l3 == Section("numberMeaning", t)
           l4 == Section("interpretationForIntention", t)
           l5 == Section("hope", t)
           l6 == Section("caution", t)
           l7 == Advice(t, c)
<1>1. Unsaid(l1, language) /\ Unsaid(l2, language)
  BY CountingUnsaid, WorkingUnsaid DEF Kinds
<1>2. AbjadKeys \subseteq HafezKeys \cup {"reflectionForIntention", "numberMeaning"}
  BY KeysAreKinds DEF AbjadKeys
<1>3. Unsaid(l3, language) BY <1>2, OrderedSection DEF AbjadKeys
<1>4. Unsaid(l4, language) BY <1>2, OrderedSection DEF AbjadKeys, FourSections
<1>5. Unsaid(l5, language) BY <1>2, OrderedSection DEF AbjadKeys, FourSections
<1>6. Unsaid(l6, language) BY <1>2, OrderedSection DEF AbjadKeys, FourSections
<1>7. SaidOnce(l7, language)
  BY AdviceSaid DEF Ordered, HeadKnown, AbjadKeys, FourSections
<1>8. AbjadReading(t, c).lines = l1 \o l2 \o l3 \o l4 \o l5 \o l6 \o l7
  BY DEF AbjadReading
<1> HIDE DEF language, l1, l2, l3, l4, l5, l6, l7
<1>9. Unsaid(l1 \o l2, language) BY <1>1, UnsaidConcat
<1>10. Unsaid(l1 \o l2 \o l3, language) BY <1>9, <1>3, UnsaidConcat
<1>11. Unsaid(l1 \o l2 \o l3 \o l4, language) BY <1>10, <1>4, UnsaidConcat
<1>12. Unsaid(l1 \o l2 \o l3 \o l4 \o l5, language) BY <1>11, <1>5, UnsaidConcat
<1>13. Unsaid(l1 \o l2 \o l3 \o l4 \o l5 \o l6, language) BY <1>12, <1>6, UnsaidConcat
<1>14. SaidOnce(AbjadReading(t, c).lines, language) BY <1>7, <1>8, <1>13, SaidLast
<1> QED BY <1>14 DEF language

LEMMA HafezSaid ==
  ASSUME NEW t, NEW c, Ordered(t, HafezKeys), HeadKnown(c)
  PROVE  SaidOnce(HafezReading(t, c).lines, LocaleOf(t.request.locale))
<1> DEFINE language == LocaleOf(t.request.locale)
           l1 == Counting("title", t)
           l2 == Scripture("poem")
           l3 == Section("messageOfThePoem", t)
           l4 == Section("interpretationForIntention", t)
           l5 == Section("hope", t)
           l6 == Section("caution", t)
           l7 == Advice(t, c)
<1>1. Unsaid(l1, language) BY CountingUnsaid DEF Kinds
<1>2. Unsaid(l2, language) BY ScriptureUnsaid
<1>3. Unsaid(l3, language) BY OrderedSection DEF HafezKeys
<1>4. Unsaid(l4, language) BY OrderedSection DEF HafezKeys, FourSections
<1>5. Unsaid(l5, language) BY OrderedSection DEF HafezKeys, FourSections
<1>6. Unsaid(l6, language) BY OrderedSection DEF HafezKeys, FourSections
<1>7. SaidOnce(l7, language)
  BY AdviceSaid DEF Ordered, HeadKnown, HafezKeys, FourSections
<1>8. HafezReading(t, c).lines = l1 \o l2 \o l3 \o l4 \o l5 \o l6 \o l7
  BY DEF HafezReading
<1> HIDE DEF language, l1, l2, l3, l4, l5, l6, l7
<1>9. Unsaid(l1 \o l2, language) BY <1>1, <1>2, UnsaidConcat
<1>10. Unsaid(l1 \o l2 \o l3, language) BY <1>9, <1>3, UnsaidConcat
<1>11. Unsaid(l1 \o l2 \o l3 \o l4, language) BY <1>10, <1>4, UnsaidConcat
<1>12. Unsaid(l1 \o l2 \o l3 \o l4 \o l5, language) BY <1>11, <1>5, UnsaidConcat
<1>13. Unsaid(l1 \o l2 \o l3 \o l4 \o l5 \o l6, language) BY <1>12, <1>6, UnsaidConcat
<1>14. SaidOnce(HafezReading(t, c).lines, language) BY <1>7, <1>8, <1>13, SaidLast
<1> QED BY <1>14 DEF language
-----------------------------------------------------------------------------
(* The model's answers.                                                    *)

Answer(t, reading) ==
  [pc |-> "done", request |-> t.request, by |-> t.by, day |-> t.day,
   drawn |-> t.drawn, prompt |-> t.prompt, reading |-> reading]

\* What every engine does with what comes of a request: it fails an attempt, or
\* it ends the call with a reading that states what the call drew, in one
\* language.
Replied(h) ==
  /\ tasks[h].pc = "request"
  /\ UNCHANGED <<world, ghazals, import, calls, faults>>
  /\ \/ \E error : AttemptFails(h, error)
     \/ \E reading :
          /\ reading.drawn = tasks[h].drawn
          /\ HeadsKnown /\ tasks[h].by \in RawEngines
               => SaidOnce(reading.lines, LocaleOf(tasks[h].request.locale))
          /\ Become(h, Answer(tasks[h], reading))

LEMMA KeysOfEngines ==
  /\ \A e \in {"tarot", "lenormand", "rune", "cards", "tasbih"} :
       SectionKeys(e) = FourSections
  /\ SectionKeys("quran") = QuranKeys /\ SectionKeys("abjad") = AbjadKeys
  /\ SectionKeys("hafez") = HafezKeys
BY DEF SectionKeys, QuranKeys, AbjadKeys

LEMMA TarotReplies ==
  ASSUME NEW h, TarotRequest(h), Ordered(tasks[h], FourSections)
  PROVE  Replied(h)
<1> DEFINE t == tasks[h]
<1>1. /\ t.pc = "request" /\ t.by = "tarot"
      /\ UNCHANGED <<world, ghazals, import, calls, faults>>
  BY DEF TarotRequest, RequestOnce, IsAt
<1>2. \/ \E error : AttemptFails(h, error)
      \/ \E c \in Completions : Become(h, Answer(t, TarotReading(t, c)))
  BY DEF TarotRequest, RequestOnce, Answer
<1>3. ASSUME NEW c \in Completions
      PROVE  /\ TarotReading(t, c).drawn = t.drawn
             /\ HeadsKnown => SaidOnce(TarotReading(t, c).lines, LocaleOf(t.request.locale))
  BY DrawnFirstSaid DEF TarotReading, DrawnFirst, HeadsKnown, HeadKnown
<1> QED BY <1>1, <1>2, <1>3 DEF Replied
LEMMA LenormandReplies ==
  ASSUME NEW h, LenormandRequest(h), Ordered(tasks[h], FourSections)
  PROVE  Replied(h)
<1> DEFINE t == tasks[h]
<1>1. /\ t.pc = "request" /\ t.by = "lenormand"
      /\ UNCHANGED <<world, ghazals, import, calls, faults>>
  BY DEF LenormandRequest, RequestOnce, IsAt
<1>2. \/ \E error : AttemptFails(h, error)
      \/ \E c \in Completions : Become(h, Answer(t, LenormandReading(t, c)))
  BY DEF LenormandRequest, RequestOnce, Answer
<1>3. ASSUME NEW c \in Completions
      PROVE  /\ LenormandReading(t, c).drawn = t.drawn
             /\ HeadsKnown => SaidOnce(LenormandReading(t, c).lines, LocaleOf(t.request.locale))
  BY DrawnFirstSaid DEF LenormandReading, DrawnFirst, HeadsKnown, HeadKnown
<1> QED BY <1>1, <1>2, <1>3 DEF Replied

LEMMA RuneReplies ==
  ASSUME NEW h, RuneRequest(h), Ordered(tasks[h], FourSections)
  PROVE  Replied(h)
<1> DEFINE t == tasks[h]
<1>1. /\ t.pc = "request" /\ t.by = "rune"
      /\ UNCHANGED <<world, ghazals, import, calls, faults>>
  BY DEF RuneRequest, RequestOnce, IsAt
<1>2. \/ \E error : AttemptFails(h, error)
      \/ \E c \in Completions : Become(h, Answer(t, RuneReading(t, c)))
  BY DEF RuneRequest, RequestOnce, Answer
<1>3. ASSUME NEW c \in Completions
      PROVE  /\ RuneReading(t, c).drawn = t.drawn
             /\ HeadsKnown => SaidOnce(RuneReading(t, c).lines, LocaleOf(t.request.locale))
  BY DrawnFirstSaid DEF RuneReading, DrawnFirst, HeadsKnown, HeadKnown
<1> QED BY <1>1, <1>2, <1>3 DEF Replied

LEMMA CardsReplies ==
  ASSUME NEW h, CardsRequest(h), Ordered(tasks[h], FourSections)
  PROVE  Replied(h)
<1> DEFINE t == tasks[h]
<1>1. /\ t.pc = "request" /\ t.by = "cards"
      /\ UNCHANGED <<world, ghazals, import, calls, faults>>
  BY DEF CardsRequest, RequestOnce, IsAt
<1>2. \/ \E error : AttemptFails(h, error)
      \/ \E c \in Completions : Become(h, Answer(t, CardsReading(t, c)))
  BY DEF CardsRequest, RequestOnce, Answer
<1>3. ASSUME NEW c \in Completions
      PROVE  /\ CardsReading(t, c).drawn = t.drawn
             /\ HeadsKnown => SaidOnce(CardsReading(t, c).lines, LocaleOf(t.request.locale))
  BY DrawnFirstSaid DEF CardsReading, DrawnFirst, HeadsKnown, HeadKnown
<1> QED BY <1>1, <1>2, <1>3 DEF Replied

LEMMA QuranReplies ==
  ASSUME NEW h, QuranRequest(h), Ordered(tasks[h], QuranKeys)
  PROVE  Replied(h)
<1> DEFINE t == tasks[h]
<1>1. /\ t.pc = "request" /\ t.by = "quran"
      /\ UNCHANGED <<world, ghazals, import, calls, faults>>
  BY DEF QuranRequest, RequestOnce, IsAt
<1>2. \/ \E error : AttemptFails(h, error)
      \/ \E c \in Completions : Become(h, Answer(t, QuranReading(t, c)))
  BY DEF QuranRequest, RequestOnce, Answer
<1>3. ASSUME NEW c \in Completions
      PROVE  /\ QuranReading(t, c).drawn = t.drawn
             /\ HeadsKnown => SaidOnce(QuranReading(t, c).lines, LocaleOf(t.request.locale))
  <2>1. QuranReading(t, c).drawn = t.drawn BY DEF QuranReading
  <2>2. HeadsKnown => SaidOnce(QuranReading(t, c).lines, LocaleOf(t.request.locale))
    BY QuranSaid DEF HeadsKnown, HeadKnown
  <2> QED BY <2>1, <2>2
<1> QED BY <1>1, <1>2, <1>3 DEF Replied

LEMMA TasbihReplies ==
  ASSUME NEW h, TasbihRequest(h), Ordered(tasks[h], FourSections)
  PROVE  Replied(h)
<1> DEFINE t == tasks[h]
<1>1. /\ t.pc = "request" /\ t.by = "tasbih"
      /\ UNCHANGED <<world, ghazals, import, calls, faults>>
  BY DEF TasbihRequest, RequestOnce, IsAt
<1>2. \/ \E error : AttemptFails(h, error)
      \/ \E c \in Completions : Become(h, Answer(t, TasbihReading(t, c)))
  BY DEF TasbihRequest, RequestOnce, Answer
<1>3. ASSUME NEW c \in Completions
      PROVE  /\ TasbihReading(t, c).drawn = t.drawn
             /\ HeadsKnown => SaidOnce(TasbihReading(t, c).lines, LocaleOf(t.request.locale))
  <2>1. TasbihReading(t, c).drawn = t.drawn BY DEF TasbihReading
  <2>2. HeadsKnown => SaidOnce(TasbihReading(t, c).lines, LocaleOf(t.request.locale))
    BY TasbihSaid DEF HeadsKnown, HeadKnown
  <2> QED BY <2>1, <2>2
<1> QED BY <1>1, <1>2, <1>3 DEF Replied

LEMMA AbjadReplies ==
  ASSUME NEW h, AbjadRequest(h), Ordered(tasks[h], AbjadKeys)
  PROVE  Replied(h)
<1> DEFINE t == tasks[h]
<1>1. /\ t.pc = "request" /\ t.by = "abjad"
      /\ UNCHANGED <<world, ghazals, import, calls, faults>>
  BY DEF AbjadRequest, RequestOnce, IsAt
<1>2. \/ \E error : AttemptFails(h, error)
      \/ \E c \in Completions : Become(h, Answer(t, AbjadReading(t, c)))
  BY DEF AbjadRequest, RequestOnce, Answer
<1>3. ASSUME NEW c \in Completions
      PROVE  /\ AbjadReading(t, c).drawn = t.drawn
             /\ HeadsKnown => SaidOnce(AbjadReading(t, c).lines, LocaleOf(t.request.locale))
  <2>1. AbjadReading(t, c).drawn = t.drawn BY DEF AbjadReading
  <2>2. HeadsKnown => SaidOnce(AbjadReading(t, c).lines, LocaleOf(t.request.locale))
    BY AbjadSaid DEF HeadsKnown, HeadKnown
  <2> QED BY <2>1, <2>2
<1> QED BY <1>1, <1>2, <1>3 DEF Replied

LEMMA HafezReplies ==
  ASSUME NEW h, HafezRequest(h), Ordered(tasks[h], HafezKeys)
  PROVE  Replied(h)
<1> DEFINE t == tasks[h]
<1>1. /\ t.pc = "request" /\ t.by = "hafez"
      /\ UNCHANGED <<world, ghazals, import, calls, faults>>
  BY DEF HafezRequest, RequestOnce, IsAt
<1>2. \/ \E error : AttemptFails(h, error)
      \/ \E c \in Completions : Become(h, Answer(t, HafezReading(t, c)))
  BY DEF HafezRequest, RequestOnce, Answer
<1>3. ASSUME NEW c \in Completions
      PROVE  /\ HafezReading(t, c).drawn = t.drawn
             /\ HeadsKnown => SaidOnce(HafezReading(t, c).lines, LocaleOf(t.request.locale))
  <2>1. HafezReading(t, c).drawn = t.drawn BY DEF HafezReading
  <2>2. HeadsKnown => SaidOnce(HafezReading(t, c).lines, LocaleOf(t.request.locale))
    BY HafezSaid DEF HeadsKnown, HeadKnown
  <2> QED BY <2>1, <2>2
<1> QED BY <1>1, <1>2, <1>3 DEF Replied

LEMMA OrdinaryReplies ==
  ASSUME NEW h, OrdinaryRequest(h)
  PROVE  Replied(h)
<1> DEFINE t == tasks[h]
<1>1. /\ t.pc = "request" /\ t.by = "ai"
      /\ UNCHANGED <<world, ghazals, import, calls, faults>>
  BY DEF OrdinaryRequest, RequestOnce, IsAt
<1>2. \/ \E error : AttemptFails(h, error)
      \/ \E c \in Completions : Become(h, Answer(t, OrdinaryReading(t, c)))
  BY DEF OrdinaryRequest, RequestOnce, Answer
<1>3. \A c : OrdinaryReading(t, c).drawn = t.drawn BY DEF OrdinaryReading
<1>4. t.by \notin RawEngines BY <1>1 DEF RawEngines
<1> QED BY <1>1, <1>2, <1>3, <1>4 DEF Replied

-----------------------------------------------------------------------------
(* The invariant, call by call.                                            *)

LEMMA SaidIsOne ==
  ASSUME NEW lines, NEW language, SaidOnce(lines, language)
  PROVE  /\ \A i \in DOMAIN lines : Readable(lines[i], language)
         /\ Cardinality({i \in DOMAIN lines : lines[i].kind = "forToday"}) = 1
<1>1. PICK k \in DOMAIN lines :
        /\ lines[k].kind = "forToday"
        /\ \A i \in DOMAIN lines : lines[i].kind = "forToday" => i = k
  BY DEF SaidOnce
<1>2. {i \in DOMAIN lines : lines[i].kind = "forToday"} = {k} BY <1>1
<1>3. Cardinality({k}) = 1 BY FS_Singleton
<1> QED BY <1>2, <1>3 DEF SaidOnce, InLanguage

\* The type invariant and three properties of the runs are in the invariant.
LEMMA Consequences ==
  ASSUME IInv
  PROVE  /\ TypeOK /\ OneCardThroughout /\ DrawnGhazalIsStored
         /\ HeadsKnown => OneLanguage
<1>1. TypeOK
  <2>1. import.pc \in {"none", "count", "upsert", "recount", "done"}
    BY DEF IInv, CorpusInv, NoImport
  <2>2. ASSUME NEW h \in Handlers
        PROVE  /\ tasks[h].pc \in
                    {"idle", "flag", "import", "ghazal", "request", "done", "failed"}
               /\ tasks[h].pc \in {"request", "failed"}
                    => tasks[h].attempt \in 0..(MaxRetries + 1)
    BY EnginesAssumption DEF IInv, Sound
  <2> QED BY <2>1, <2>2 DEF IInv, CorpusInv, TypeOK
<1>2. OneCardThroughout BY DEF IInv, Sound, OneCardThroughout, IsAt
<1>3. DrawnGhazalIsStored BY DEF IInv, Sound, DrawnGhazalIsStored, IsAt
<1>4. ASSUME HeadsKnown PROVE OneLanguage
  <2>1. ASSUME NEW h \in Handlers, IsAt(h, "done"), tasks[h].by \in RawEngines
        PROVE  SaidOnce(tasks[h].reading.lines, LocaleOf(tasks[h].request.locale))
    BY <1>4, <2>1 DEF IInv, Sound, IsAt
  <2> QED BY <2>1, SaidIsOne DEF OneLanguage
<1> QED BY <1>1, <1>2, <1>3, <1>4

-----------------------------------------------------------------------------
(* The corpus.                                                             *)

\* A file that proves itself is numbered from 1 to its count.
LEMMA FileProves ==
  ASSUME NEW f \in Files, LoadAndValidate(f)
  PROVE  /\ f.count \in Nat \ {0} /\ Range(f.numbers) = 1..f.count
         /\ IsFiniteSet(Range(f.numbers)) /\ Cardinality(Range(f.numbers)) = f.count
<1> DEFINE n == f.count
           numbers == f.numbers
<1>1. n \in Int /\ numbers \in Seq(Int) BY FilesAssumption
<1>2. n > 0 /\ Len(numbers) = n /\ 1..n \subseteq Range(numbers)
  BY DEF LoadAndValidate
<1>3. DOMAIN numbers = 1..n /\ n \in Nat \ {0} BY <1>1, <1>2
<1>4. numbers \in Surjection(1..n, Range(numbers))
  <2>1. numbers \in [1..n -> Range(numbers)] BY <1>1, <1>3 DEF Range
  <2>2. \A t \in Range(numbers) : \E s \in 1..n : numbers[s] = t BY <1>3 DEF Range
  <2> QED BY <2>1, <2>2 DEF Surjection
<1>5. IsFiniteSet(1..n) /\ Cardinality(1..n) = n BY <1>1, <1>2, FS_Interval
<1>6. IsFiniteSet(Range(numbers)) /\ Cardinality(Range(numbers)) <= n
  BY <1>4, <1>5, FS_Surjection
<1>7. Cardinality(1..n) <= Cardinality(Range(numbers))
  BY <1>2, <1>6, FS_Subset
<1>8. Cardinality(Range(numbers)) = n
  <2>1. Cardinality(Range(numbers)) \in Nat BY <1>6, FS_CardinalityType
  <2> QED BY <1>3, <1>5, <1>6, <1>7, <2>1
<1>9. Range(numbers) = 1..n BY <1>2, <1>5, <1>6, <1>8, FS_Subset
<1> QED BY <1>3, <1>6, <1>8, <1>9

\* As many rows as the file counts are the rows of the file.
LEMMA CountedRows ==
  ASSUME IInv, LoadAndValidate(file)
  PROVE  Cardinality(ghazals) = file.count <=> Range(file.numbers) \subseteq ghazals
<1>1. file \in Files /\ ghazals \subseteq Range(file.numbers) BY DEF IInv, CorpusInv
<1>2. /\ IsFiniteSet(Range(file.numbers))
      /\ Cardinality(Range(file.numbers)) = file.count
  BY <1>1, FileProves
<1>3. Cardinality(ghazals) = file.count => ghazals = Range(file.numbers)
  BY <1>1, <1>2, FS_Subset
<1>4. Range(file.numbers) \subseteq ghazals => ghazals = Range(file.numbers) BY <1>1
<1> QED BY <1>2, <1>3, <1>4

\* The ghazal a finished import is asked for is one of its rows.
LEMMA DrawnIsRow ==
  ASSUME IInv, import.pc = "done", NEW h \in Handlers, NEW r \in Requests[h]
  PROVE  GhazalDraw(Edition, today, r.words, file.count) \in ghazals
<1>1. import # NoImport BY DEF NoImport
<1>2. LoadAndValidate(file) /\ file \in Files /\ Range(file.numbers) \subseteq ghazals
  BY <1>1 DEF IInv, CorpusInv
<1>3. file.count \in Nat \ {0} /\ Range(file.numbers) = 1..file.count
  BY <1>2, FileProves
<1> DEFINE value == Digest(Edition, today, NormalizeIntention(r.words)).value
<1>4. value \in Nat BY DigestAssumption DEF IInv
<1>5. GhazalDraw(Edition, today, r.words, file.count) = 1 + (value % file.count)
  BY DEF GhazalDraw
<1> HIDE DEF value
<1>6. value % file.count \in 0..(file.count - 1) BY <1>3, <1>4
<1>7. 1 + (value % file.count) \in 1..file.count BY <1>3, <1>6
<1> QED BY <1>2, <1>3, <1>5, <1>7
-----------------------------------------------------------------------------
(* Steps of a call.                                                        *)

\* More rows leave a call sound.
LEMMA SoundKept ==
  ASSUME NEW h, NEW t, NEW rows, NEW count, NEW more, rows \subseteq more,
         Sound(h, t, rows, count)
  PROVE  Sound(h, t, more, count)
BY DEF Sound

\* A step that leaves one call sound, and the corpus in order.
LEMMA BecomesSound ==
  ASSUME IInv, NEW h \in Handlers, NEW task, Become(h, task),
         Sound(h, task, ghazals, file.count), CorpusInv', ghazals' = ghazals,
         file' = file, today' = today, faults' \in 0..MaxFaults
  PROVE  IInv'
<1>1. tasks' = [tasks EXCEPT ![h] = task] BY DEF Become
<1>2. DOMAIN tasks = Handlers /\ today \in 0..MaxDay BY DEF IInv
<1>3. ASSUME NEW g \in Handlers PROVE Sound(g, tasks'[g], ghazals', file'.count)
  <2>1. CASE g = h
    <3>1. tasks'[g] = task BY <1>1, <1>2, <2>1
    <3> QED BY <2>1, <3>1
  <2>2. CASE g # h
    <3>1. tasks'[g] = tasks[g] BY <1>1, <1>2, <2>2
    <3> QED BY <3>1 DEF IInv
  <2> QED BY <2>1, <2>2
<1>4. DOMAIN tasks' = Handlers BY <1>1, <1>2
<1> QED BY <1>2, <1>3, <1>4 DEF IInv

LEMMA CorpusKept ==
  ASSUME CorpusInv, UNCHANGED <<file, ghazals, import>>
  PROVE  CorpusInv'
BY DEF CorpusInv, NoImport, LoadAndValidate

LEMMA FailedSound ==
  ASSUME NEW h, NEW t, NEW error, NEW attempt \in 0..(MaxRetries + 1), NEW rows, NEW count
  PROVE  Sound(h, Failed(t, error, attempt), rows, count)
BY DEF Sound, Failed

\* A prompt of a raw engine, for what it drew, is sound to be asked with.
LEMMA AskingSound ==
  ASSUME NEW h, NEW r \in Requests[h], NEW drawn, NEW prompt, NEW rows, NEW count,
         NEW keys, drawn = DrawOf(prompt.engine, today, r.words, count),
         prompt.drawn = drawn, keys = SectionKeys(prompt.engine),
         prompt.directive = LanguageDirective(r.locale, keys)
  PROVE  Sound(h, Asking(r, drawn, prompt), rows, count)
<1> DEFINE t == Asking(r, drawn, prompt)
<1>1. DOMAIN t = {"pc", "request", "by", "day", "drawn", "prompt", "attempt"}
  BY DEF Asking
<1>2. /\ t.pc = "request" /\ t.request = r /\ t.by = prompt.engine
      /\ t.drawn = drawn /\ t.prompt = prompt /\ t.attempt = 1 /\ t.day = today
  BY DEF Asking
<1>3. 1 \in 1..(MaxRetries + 1) BY EnginesAssumption
<1> HIDE DEF t
<1>4. Sound(h, t, rows, count) BY <1>1, <1>2, <1>3 DEF Sound, Ordered, DrawnSo
<1> QED BY <1>4 DEF t

LEMMA OrdinarySound ==
  ASSUME NEW h, NEW r \in Requests[h], NEW rows, NEW count
  PROVE  Sound(h, Ordinary(r), rows, count)
<1>1. CASE configured
  <2> DEFINE t == Asking(r, << >>, BasePrompt(r))
  <2>1. DOMAIN t = {"pc", "request", "by", "day", "drawn", "prompt", "attempt"}
    BY DEF Asking
  <2>2. t.pc = "request" /\ t.request = r /\ t.by = "ai" /\ t.attempt = 1
    BY DEF Asking, BasePrompt
  <2>3. 1 \in 1..(MaxRetries + 1) /\ "ai" \notin RawEngines
    BY EnginesAssumption DEF RawEngines
  <2> HIDE DEF t
  <2>4. Sound(h, t, rows, count) BY <2>1, <2>2, <2>3 DEF Sound, DrawnSo
  <2> QED BY <1>1, <2>4 DEF t, Ordinary
<1>2. CASE ~configured
  <2>1. "mock" \notin RawEngines BY DEF RawEngines
  <2>2. Sound(h, MockReading(r), rows, count) BY <2>1 DEF MockReading, Sound, DrawnSo
  <2> QED BY <1>2, <2>2 DEF Ordinary
<1> QED BY <1>1, <1>2

\* What a call becomes without touching the corpus or the bounds.
LEMMA CallSteps ==
  ASSUME IInv, NEW h \in Handlers, NEW task, Become(h, task),
         Sound(h, task, ghazals, file.count),
         UNCHANGED <<world, ghazals, import, faults>>
  PROVE  IInv'
<1>1. CorpusInv' BY CorpusKept DEF IInv, world
<1>2. faults' \in 0..MaxFaults /\ today' = today /\ file' = file BY DEF IInv, world
<1> QED BY <1>1, <1>2, BecomesSound

LEMMA GenerateSound ==
  ASSUME IInv, NEW h \in Handlers, Generate(h)
  PROVE  IInv'
<1>1. PICK r \in Requests[h] :
        Become(h, IF r.fortune \in RawEngines
                  THEN [pc |-> "flag", request |-> r] ELSE Ordinary(r))
  BY DEF Generate
<1> DEFINE task == IF r.fortune \in RawEngines
                   THEN [pc |-> "flag", request |-> r] ELSE Ordinary(r)
<1>2. Sound(h, task, ghazals, file.count)
  <2>1. CASE r.fortune \in RawEngines
    <3>1. task = [pc |-> "flag", request |-> r] BY <2>1
    <3> HIDE DEF task
    <3>2. /\ task.pc = "flag" /\ task.request = r
          /\ DOMAIN task = {"pc", "request"}
      BY <3>1
    <3> QED BY <3>2 DEF Sound
  <2>2. CASE r.fortune \notin RawEngines
    <3>1. task = Ordinary(r) BY <2>2
    <3> QED BY <3>1, OrdinarySound
  <2> QED BY <2>1, <2>2
<1>3. UNCHANGED <<world, ghazals, import, faults>> BY DEF Generate
<1> HIDE DEF task
<1> QED BY <1>1, <1>2, <1>3, CallSteps DEF task

LEMMA PassesThroughSound ==
  ASSUME IInv, NEW h \in Handlers, NEW engine, PassesThrough(h, engine)
  PROVE  IInv'
<1>1. tasks[h].request \in Requests[h] BY DEF IInv, Sound, PassesThrough, IsAt
<1>2. Sound(h, Ordinary(tasks[h].request), ghazals, file.count) BY <1>1, OrdinarySound
<1> QED BY <1>2, CallSteps DEF PassesThrough

\* What an engine that draws at once does.
LEMMA DrawingSound ==
  ASSUME IInv, NEW h \in Handlers, NEW drawn, NEW engine, NEW keys,
         tasks[h].pc = "flag", keys = SectionKeys(engine),
         drawn = DrawOf(engine, today, tasks[h].request.words, file.count),
         Become(h, Asking(tasks[h].request, drawn,
                          RawPrompt(engine, drawn, tasks[h].request, keys))),
         UNCHANGED <<world, ghazals, import, calls, faults>>
  PROVE  IInv'
<1> DEFINE r == tasks[h].request
           prompt == RawPrompt(engine, drawn, r, keys)
<1>1. r \in Requests[h] BY DEF IInv, Sound
<1>2. /\ prompt.engine = engine /\ prompt.drawn = drawn
      /\ prompt.directive = LanguageDirective(r.locale, keys)
  BY DEF RawPrompt
<1> HIDE DEF prompt
<1>3. Sound(h, Asking(r, drawn, prompt), ghazals, file.count) BY <1>1, <1>2, AskingSound
<1> QED BY <1>3, CallSteps DEF prompt
\* The engines that draw at once, each with its own draw and prompt.
LEMMA TarotSound ==
  ASSUME IInv, NEW h \in Handlers, TarotGenerate(h)
  PROVE  IInv'
<1>1. CASE PassesThrough(h, "tarot") BY <1>1, PassesThroughSound
<1>2. CASE DrawsAndAsks(h, "tarot", TarotDraw, TarotPrompt)
  <2> DEFINE r == tasks[h].request
             drawn == TarotDraw(today, r.words)
  <2>1. /\ tasks[h].pc = "flag"
        /\ Become(h, Asking(r, drawn, RawPrompt("tarot", drawn, r, FourSections)))
        /\ UNCHANGED <<world, ghazals, import, calls, faults>>
    BY <1>2 DEF DrawsAndAsks, RawEngineRuns, IsAt, TarotPrompt
  <2>2. drawn = DrawOf("tarot", today, r.words, file.count) BY DEF DrawOf
  <2> HIDE DEF drawn
  <2> QED BY <2>1, <2>2, KeysOfEngines, DrawingSound
<1> QED BY <1>1, <1>2 DEF TarotGenerate

LEMMA LenormandSound ==
  ASSUME IInv, NEW h \in Handlers, LenormandGenerate(h)
  PROVE  IInv'
<1>1. CASE PassesThrough(h, "lenormand") BY <1>1, PassesThroughSound
<1>2. CASE DrawsAndAsks(h, "lenormand", LenormandDraw, LenormandPrompt)
  <2> DEFINE r == tasks[h].request
             drawn == LenormandDraw(today, r.words)
  <2>1. /\ tasks[h].pc = "flag"
        /\ Become(h, Asking(r, drawn, RawPrompt("lenormand", drawn, r, FourSections)))
        /\ UNCHANGED <<world, ghazals, import, calls, faults>>
    BY <1>2 DEF DrawsAndAsks, RawEngineRuns, IsAt, LenormandPrompt
  <2>2. drawn = DrawOf("lenormand", today, r.words, file.count) BY DEF DrawOf
  <2> HIDE DEF drawn
  <2> QED BY <2>1, <2>2, KeysOfEngines, DrawingSound
<1> QED BY <1>1, <1>2 DEF LenormandGenerate

LEMMA RuneSound ==
  ASSUME IInv, NEW h \in Handlers, RuneGenerate(h)
  PROVE  IInv'
<1>1. CASE PassesThrough(h, "rune") BY <1>1, PassesThroughSound
<1>2. CASE DrawsAndAsks(h, "rune", RuneDraw, RunePrompt)
  <2> DEFINE r == tasks[h].request
             drawn == RuneDraw(today, r.words)
  <2>1. /\ tasks[h].pc = "flag"
        /\ Become(h, Asking(r, drawn, RawPrompt("rune", drawn, r, FourSections)))
        /\ UNCHANGED <<world, ghazals, import, calls, faults>>
    BY <1>2 DEF DrawsAndAsks, RawEngineRuns, IsAt, RunePrompt
  <2>2. drawn = DrawOf("rune", today, r.words, file.count) BY DEF DrawOf
  <2> HIDE DEF drawn
  <2> QED BY <2>1, <2>2, KeysOfEngines, DrawingSound
<1> QED BY <1>1, <1>2 DEF RuneGenerate

LEMMA CardsSound ==
  ASSUME IInv, NEW h \in Handlers, CardsGenerate(h)
  PROVE  IInv'
<1>1. CASE PassesThrough(h, "cards") BY <1>1, PassesThroughSound
<1>2. CASE DrawsAndAsks(h, "cards", CardsDraw, CardsPrompt)
  <2> DEFINE r == tasks[h].request
             drawn == CardsDraw(today, r.words)
  <2>1. /\ tasks[h].pc = "flag"
        /\ Become(h, Asking(r, drawn, RawPrompt("cards", drawn, r, FourSections)))
        /\ UNCHANGED <<world, ghazals, import, calls, faults>>
    BY <1>2 DEF DrawsAndAsks, RawEngineRuns, IsAt, CardsPrompt
  <2>2. drawn = DrawOf("cards", today, r.words, file.count) BY DEF DrawOf
  <2> HIDE DEF drawn
  <2> QED BY <2>1, <2>2, KeysOfEngines, DrawingSound
<1> QED BY <1>1, <1>2 DEF CardsGenerate

LEMMA QuranSound ==
  ASSUME IInv, NEW h \in Handlers, QuranGenerate(h)
  PROVE  IInv'
<1>1. CASE PassesThrough(h, "quran") BY <1>1, PassesThroughSound
<1>2. CASE DrawsAndAsks(h, "quran", QuranDraw, QuranPrompt)
  <2> DEFINE r == tasks[h].request
             drawn == QuranDraw(today, r.words)
  <2>1. /\ tasks[h].pc = "flag"
        /\ Become(h, Asking(r, drawn, RawPrompt("quran", drawn, r, QuranKeys)))
        /\ UNCHANGED <<world, ghazals, import, calls, faults>>
    BY <1>2 DEF DrawsAndAsks, RawEngineRuns, IsAt, QuranPrompt, QuranKeys
  <2>2. drawn = DrawOf("quran", today, r.words, file.count) BY DEF DrawOf
  <2> HIDE DEF drawn
  <2> QED BY <2>1, <2>2, KeysOfEngines, DrawingSound
<1> QED BY <1>1, <1>2 DEF QuranGenerate

LEMMA TasbihSound ==
  ASSUME IInv, NEW h \in Handlers, TasbihGenerate(h)
  PROVE  IInv'
<1>1. CASE PassesThrough(h, "tasbih") BY <1>1, PassesThroughSound
<1>2. CASE DrawsAndAsks(h, "tasbih", TasbihDraw, TasbihPrompt)
  <2> DEFINE r == tasks[h].request
             drawn == TasbihDraw(today, r.words)
  <2>1. /\ tasks[h].pc = "flag"
        /\ Become(h, Asking(r, drawn, RawPrompt("tasbih", drawn, r, FourSections)))
        /\ UNCHANGED <<world, ghazals, import, calls, faults>>
    BY <1>2 DEF DrawsAndAsks, RawEngineRuns, IsAt, TasbihPrompt
  <2>2. drawn = DrawOf("tasbih", today, r.words, file.count) BY DEF DrawOf
  <2> HIDE DEF drawn
  <2> QED BY <2>1, <2>2, KeysOfEngines, DrawingSound
<1> QED BY <1>1, <1>2 DEF TasbihGenerate

LEMMA AbjadSound ==
  ASSUME IInv, NEW h \in Handlers, AbjadGenerate(h)
  PROVE  IInv'
<1>1. CASE PassesThrough(h, "abjad") BY <1>1, PassesThroughSound
<1>2. CASE ~PassesThrough(h, "abjad")
  <2> DEFINE r == tasks[h].request
             drawn == ComputeAbjad(r.words)
  <2>1. /\ tasks[h].pc = "flag"
        /\ Become(h, Asking(r, drawn, RawPrompt("abjad", drawn, r, AbjadKeys)))
        /\ UNCHANGED <<world, ghazals, import, calls, faults>>
    BY <1>2 DEF AbjadGenerate, RawEngineRuns, IsAt, AbjadPrompt, AbjadKeys
  <2>2. drawn = DrawOf("abjad", today, r.words, file.count) BY DEF DrawOf
  <2> HIDE DEF drawn
  <2> QED BY <2>1, <2>2, KeysOfEngines, DrawingSound
<1> QED BY <1>1, <1>2

\* A reading of Hafez joins the import there is, starts one, or is an error.
LEMMA EnsureImportedIs ==
  ASSUME NEW h, EnsureImported(h)
  PROVE  \/ /\ Become(h, [tasks[h] EXCEPT !.pc = "import"])
            /\ \/ UNCHANGED import
               \/ LoadAndValidate(file) /\ import' = [pc |-> "count"]
         \/ /\ ~LoadAndValidate(file)
            /\ Become(h, Failed(tasks[h], "corpus", 0)) /\ UNCHANGED import
BY DEF EnsureImported

LEMMA HafezSound ==
  ASSUME IInv, NEW h \in Handlers, HafezGenerate(h)
  PROVE  IInv'
<1>1. CASE PassesThrough(h, "hafez") BY <1>1, PassesThroughSound
<1>2. CASE ~PassesThrough(h, "hafez")
  <2>1. /\ tasks[h].pc = "flag" /\ EnsureImported(h)
        /\ UNCHANGED <<world, ghazals, calls, faults>>
    BY <1>2 DEF HafezGenerate, RawEngineRuns, IsAt
  <2>2. CorpusInv /\ faults \in 0..MaxFaults BY DEF IInv
  <2>3. faults' \in 0..MaxFaults /\ today' = today /\ ghazals' = ghazals /\ file' = file
    BY <2>1, <2>2 DEF world
  <2>4. CASE Become(h, [tasks[h] EXCEPT !.pc = "import"])
    <3> DEFINE task == [tasks[h] EXCEPT !.pc = "import"]
    <3>1. DOMAIN tasks[h] = {"pc", "request"} /\ tasks[h].request \in Requests[h]
      BY <2>1 DEF IInv, Sound
    <3>2. DOMAIN task = {"pc", "request"} /\ task.pc = "import"
          /\ task.request = tasks[h].request
      BY <3>1
    <3> HIDE DEF task
    <3>3. Sound(h, task, ghazals, file.count) BY <3>1, <3>2 DEF Sound
    <3>4. CorpusInv'
      <4>1. CASE UNCHANGED import BY <2>2, <2>3, <4>1, CorpusKept
      <4>2. CASE LoadAndValidate(file) /\ import' = [pc |-> "count"]
        BY <2>2, <2>3, <4>2 DEF CorpusInv, LoadAndValidate
      <4>3. UNCHANGED import \/ (LoadAndValidate(file) /\ import' = [pc |-> "count"])
        BY <2>1, EnsureImportedIs, Zenon DEF EnsureImported, Become
      <4> QED BY <4>1, <4>2, <4>3
    <3> QED BY <2>3, <2>4, <3>3, <3>4, BecomesSound DEF task
  <2>5. CASE Become(h, Failed(tasks[h], "corpus", 0)) /\ UNCHANGED import
    <3>1. 0 \in 0..(MaxRetries + 1) BY EnginesAssumption
    <3>2. Sound(h, Failed(tasks[h], "corpus", 0), ghazals, file.count) BY <3>1, FailedSound
    <3>3. CorpusInv' BY <2>2, <2>3, <2>5, CorpusKept
    <3> QED BY <2>3, <2>5, <3>2, <3>3, BecomesSound
  <2> QED BY <2>1, <2>4, <2>5, EnsureImportedIs
<1> QED BY <1>1, <1>2

LEMMA HafezDrawSound ==
  ASSUME IInv, NEW h \in Handlers, HafezDraw(h)
  PROVE  IInv'
<1> DEFINE r == tasks[h].request
           n == GhazalDraw(Edition, today, r.words, file.count)
           task == [pc |-> "ghazal", request |-> r, day |-> today, number |-> n]
<1>1. tasks[h].pc = "import" /\ import.pc = "done" BY DEF HafezDraw, IsAt
<1>2. r \in Requests[h] BY <1>1 DEF IInv, Sound
<1>3. n \in ghazals BY <1>1, <1>2, DrawnIsRow
<1>4. Become(h, task) /\ UNCHANGED <<world, ghazals, import, calls, faults>>
  BY DEF HafezDraw
<1> HIDE DEF n
<1>5. Sound(h, task, ghazals, file.count)
  <2>2. /\ task.pc = "ghazal" /\ task.request = r /\ task.day = today
        /\ task.number = n
    OBVIOUS
  <2>3. n = GhazalDraw(Edition, task.day, r.words, file.count) BY DEF n
  <2> HIDE DEF task
  <2> QED BY <1>2, <1>3, <2>2, <2>3 DEF Sound
<1> HIDE DEF task
<1> QED BY <1>4, <1>5, CallSteps

LEMMA GetGhazalSound ==
  ASSUME IInv, NEW h \in Handlers, GetGhazal(h)
  PROVE  IInv'
<1> DEFINE t == tasks[h]
           drawn == [ghazal |-> t.number]
           prompt == HafezPrompt(drawn, t.request)
           asking == Asking(t.request, drawn, prompt)
<1>1. /\ t.pc = "ghazal" /\ UNCHANGED <<world, ghazals, import, calls>>
      /\ \/ Become(h, [asking EXCEPT !.day = t.day]) /\ UNCHANGED faults
         \/ Become(h, Failed(t, "missing", 0)) /\ UNCHANGED faults
         \/ /\ faults < MaxFaults /\ faults' = faults + 1
            /\ Become(h, Failed(t, "database", 0))
  BY DEF GetGhazal, IsAt
<1>2. /\ t.request \in Requests[h]
      /\ drawn = DrawOf("hafez", t.day, t.request.words, file.count)
  BY <1>1 DEF IInv, Sound, DrawOf
<1>3. /\ faults' \in 0..MaxFaults /\ today' = today /\ ghazals' = ghazals
      /\ file' = file /\ CorpusInv'
  <2>1. faults' \in 0..MaxFaults BY <1>1, EnginesAssumption DEF IInv
  <2>2. CorpusInv' BY <1>1, CorpusKept DEF IInv, world
  <2> QED BY <1>1, <2>1, <2>2 DEF world
<1>4. Sound(h, [asking EXCEPT !.day = t.day], ghazals, file.count)
  <2>1. /\ DOMAIN asking = {"pc", "request", "by", "day", "drawn", "prompt", "attempt"}
        /\ asking.pc = "request" /\ asking.request = t.request /\ asking.by = "hafez"
        /\ asking.drawn = drawn /\ asking.prompt = prompt /\ asking.attempt = 1
    BY DEF Asking, HafezPrompt, RawPrompt
  <2>2. prompt.drawn = drawn
        /\ prompt.directive = LanguageDirective(t.request.locale, HafezKeys)
    BY DEF HafezPrompt, RawPrompt
  <2>3. 1 \in 1..(MaxRetries + 1) BY EnginesAssumption
  <2> HIDE DEF asking, prompt, drawn
  <2> DEFINE task == [asking EXCEPT !.day = t.day]
  <2>4. /\ DOMAIN task = {"pc", "request", "by", "day", "drawn", "prompt", "attempt"}
        /\ task.pc = "request" /\ task.request = t.request /\ task.by = "hafez"
        /\ task.drawn = drawn /\ task.prompt = prompt /\ task.attempt = 1
        /\ task.day = t.day
    BY <2>1
  <2> HIDE DEF task
  <2>5. Sound(h, task, ghazals, file.count)
    BY <1>2, <2>2, <2>3, <2>4, KeysOfEngines DEF Sound, Ordered, DrawnSo
  <2> QED BY <2>5 DEF task
<1>5. 0 \in 0..(MaxRetries + 1) BY EnginesAssumption
<1>6. \A error : Sound(h, Failed(t, error, 0), ghazals, file.count) BY <1>5, FailedSound
<1> HIDE DEF asking, prompt, drawn
<1> QED BY <1>1, <1>3, <1>4, <1>6, BecomesSound
LEMMA AttemptSound ==
  ASSUME IInv, NEW h \in Handlers, tasks[h].pc = "request", NEW error,
         AttemptFails(h, error), UNCHANGED <<world, ghazals, import, calls, faults>>
  PROVE  IInv'
<1> DEFINE t == tasks[h]
           again == [t EXCEPT !.attempt = @ + 1]
           last == Failed(t, error, t.attempt)
<1>1. /\ t.request \in Requests[h] /\ t.attempt \in 1..(MaxRetries + 1)
      /\ DOMAIN t = {"pc", "request", "by", "day", "drawn", "prompt", "attempt"}
      /\ t.by \in RawEngines =>
           t.prompt.drawn = t.drawn /\ Ordered(t, SectionKeys(t.by))
      /\ DrawnSo(t, file.count)
  BY DEF IInv, Sound
<1>2. Sound(h, last, ghazals, file.count)
  <2>1. t.attempt \in 0..(MaxRetries + 1) BY <1>1, EnginesAssumption
  <2> QED BY <2>1, FailedSound
<1>3. ASSUME t.attempt <= MaxRetries PROVE Sound(h, again, ghazals, file.count)
  <2>1. t.attempt + 1 \in 1..(MaxRetries + 1) BY <1>1, <1>3, EnginesAssumption
  <2>2. /\ DOMAIN again = {"pc", "request", "by", "day", "drawn", "prompt", "attempt"}
        /\ again.pc = "request" /\ again.request = t.request /\ again.by = t.by
        /\ again.drawn = t.drawn /\ again.prompt = t.prompt
        /\ again.attempt = t.attempt + 1 /\ again.day = t.day
    BY <1>1
  <2> HIDE DEF again
  <2> QED BY <1>1, <2>1, <2>2 DEF Sound, Ordered, DrawnSo
<1>4. Become(h, IF error = "retryable" /\ t.attempt <= MaxRetries THEN again ELSE last)
  BY DEF AttemptFails
<1> HIDE DEF again, last
<1>5. CASE error = "retryable" /\ t.attempt <= MaxRetries
  BY <1>3, <1>4, <1>5, CallSteps
<1>6. CASE ~(error = "retryable" /\ t.attempt <= MaxRetries)
  BY <1>2, <1>4, <1>6, CallSteps
<1> QED BY <1>5, <1>6

LEMMA RepliedSound ==
  ASSUME IInv, NEW h \in Handlers, Replied(h)
  PROVE  IInv'
<1> DEFINE t == tasks[h]
<1>1. t.pc = "request" /\ UNCHANGED <<world, ghazals, import, calls, faults>>
  BY DEF Replied
<1>2. CASE \E error : AttemptFails(h, error) BY <1>1, <1>2, AttemptSound
<1>3. CASE ~\E error : AttemptFails(h, error)
  <2>1. PICK reading :
          /\ reading.drawn = t.drawn
          /\ HeadsKnown /\ t.by \in RawEngines
               => SaidOnce(reading.lines, LocaleOf(t.request.locale))
          /\ Become(h, Answer(t, reading))
    BY <1>3 DEF Replied
  <2>2. /\ t.by \in RawEngines => t.prompt.drawn = t.drawn
        /\ t.request \in Requests[h] /\ DrawnSo(t, file.count)
    BY <1>1 DEF IInv, Sound
  <2> DEFINE task == Answer(t, reading)
  <2>3. /\ task.pc = "done" /\ task.request = t.request /\ task.by = t.by
        /\ task.prompt = t.prompt /\ task.reading = reading
        /\ task.day = t.day /\ task.drawn = t.drawn
    BY DEF Answer
  <2> HIDE DEF task
  <2>4. Sound(h, task, ghazals, file.count) BY <2>1, <2>2, <2>3 DEF Sound, DrawnSo
  <2> QED BY <1>1, <2>1, <2>4, CallSteps DEF task
<1> QED BY <1>2, <1>3

\* Every request is answered as the engine it came from answers.
LEMMA RequestReplies ==
  ASSUME IInv, NEW h \in Handlers, Request(h)
  PROVE  Replied(h)
<1>1. ASSUME NEW engine \in RawEngines, tasks[h].pc = "request", tasks[h].by = engine
      PROVE  Ordered(tasks[h], SectionKeys(engine))
  BY <1>1 DEF IInv, Sound
<1>2. RawEngines = {"hafez", "abjad", "tarot", "lenormand", "rune", "cards",
                    "tasbih", "quran"}
  BY DEF RawEngines
<1>3. CASE TarotRequest(h)
  <2>1. tasks[h].pc = "request" /\ tasks[h].by = "tarot"
    BY <1>3 DEF TarotRequest, RequestOnce, IsAt
  <2> QED BY <1>1, <1>2, <1>3, <2>1, KeysOfEngines, TarotReplies
<1>4. CASE LenormandRequest(h)
  <2>1. tasks[h].pc = "request" /\ tasks[h].by = "lenormand"
    BY <1>4 DEF LenormandRequest, RequestOnce, IsAt
  <2> QED BY <1>1, <1>2, <1>4, <2>1, KeysOfEngines, LenormandReplies
<1>5. CASE RuneRequest(h)
  <2>1. tasks[h].pc = "request" /\ tasks[h].by = "rune"
    BY <1>5 DEF RuneRequest, RequestOnce, IsAt
  <2> QED BY <1>1, <1>2, <1>5, <2>1, KeysOfEngines, RuneReplies
<1>6. CASE CardsRequest(h)
  <2>1. tasks[h].pc = "request" /\ tasks[h].by = "cards"
    BY <1>6 DEF CardsRequest, RequestOnce, IsAt
  <2> QED BY <1>1, <1>2, <1>6, <2>1, KeysOfEngines, CardsReplies
<1>7. CASE QuranRequest(h)
  <2>1. tasks[h].pc = "request" /\ tasks[h].by = "quran"
    BY <1>7 DEF QuranRequest, RequestOnce, IsAt
  <2> QED BY <1>1, <1>2, <1>7, <2>1, KeysOfEngines, QuranReplies
<1>8. CASE TasbihRequest(h)
  <2>1. tasks[h].pc = "request" /\ tasks[h].by = "tasbih"
    BY <1>8 DEF TasbihRequest, RequestOnce, IsAt
  <2> QED BY <1>1, <1>2, <1>8, <2>1, KeysOfEngines, TasbihReplies
<1>9. CASE AbjadRequest(h)
  <2>1. tasks[h].pc = "request" /\ tasks[h].by = "abjad"
    BY <1>9 DEF AbjadRequest, RequestOnce, IsAt
  <2> QED BY <1>1, <1>2, <1>9, <2>1, KeysOfEngines, AbjadReplies
<1>10. CASE HafezRequest(h)
  <2>1. tasks[h].pc = "request" /\ tasks[h].by = "hafez"
    BY <1>10 DEF HafezRequest, RequestOnce, IsAt
  <2> QED BY <1>1, <1>2, <1>10, <2>1, KeysOfEngines, HafezReplies
<1>11. CASE OrdinaryRequest(h) BY <1>11, OrdinaryReplies
<1> QED BY <1>3, <1>4, <1>5, <1>6, <1>7, <1>8, <1>9, <1>10, <1>11 DEF Request

LEMMA HandlerSound ==
  ASSUME IInv, NEW h \in Handlers, HandlerStep(h)
  PROVE  IInv'
<1>1. CASE RawGenerate(h)
  BY <1>1, TarotSound, LenormandSound, RuneSound, CardsSound, QuranSound,
     TasbihSound, AbjadSound, HafezSound
     DEF RawGenerate
<1>2. CASE Request(h) BY <1>2, RequestReplies, RepliedSound
<1> QED BY <1>1, <1>2, HafezDrawSound, GetGhazalSound DEF HandlerStep

-----------------------------------------------------------------------------
(* The import and the environment.                                         *)

\* An import that is rejected fails the calls that awaited it.
LEMMA RejectSound ==
  ASSUME IInv, ImportRejects, UNCHANGED <<world, ghazals>>, faults' \in 0..MaxFaults
  PROVE  IInv'
<1>1. /\ import' = NoImport
      /\ tasks' = [h \in Handlers |-> IF tasks[h].pc = "import"
                                     THEN Failed(tasks[h], "corpus", 0) ELSE tasks[h]]
  BY DEF ImportRejects, IsAt
<1>2. CorpusInv'
  BY <1>1 DEF IInv, CorpusInv, NoImport, world
<1>3. ASSUME NEW h \in Handlers PROVE Sound(h, tasks'[h], ghazals', file'.count)
  <2>1. Sound(h, tasks[h], ghazals, file.count) BY DEF IInv
  <2>2. 0 \in 0..(MaxRetries + 1) BY EnginesAssumption
  <2>3. Sound(h, Failed(tasks[h], "corpus", 0), ghazals, file.count) BY <2>2, FailedSound
  <2>4. tasks'[h] = IF tasks[h].pc = "import"
                    THEN Failed(tasks[h], "corpus", 0) ELSE tasks[h]
    BY <1>1
  <2>5. ghazals' = ghazals /\ file' = file BY DEF world
  <2> QED BY <2>1, <2>3, <2>4, <2>5
<1>4. DOMAIN tasks' = Handlers BY <1>1
<1> QED BY <1>2, <1>3, <1>4 DEF IInv, world

\* A step that adds rows and moves the import, and no call.
LEMMA RowsSound ==
  ASSUME IInv, UNCHANGED <<world, tasks, calls, faults>>, ghazals \subseteq ghazals',
         CorpusInv'
  PROVE  IInv'
<1>1. \A h \in Handlers : Sound(h, tasks[h], ghazals', file.count)
  BY SoundKept DEF IInv
<1>2. tasks' = tasks /\ today' = today /\ faults' = faults /\ file' = file BY DEF world
<1> QED BY <1>1, <1>2 DEF IInv

LEMMA DatabaseFailsSound ==
  ASSUME IInv, DatabaseFails
  PROVE  IInv'
<1>1. faults' \in 0..MaxFaults BY EnginesAssumption DEF IInv, DatabaseFails
<1> QED BY <1>1, RejectSound DEF DatabaseFails

LEMMA ImportCountSound ==
  ASSUME IInv, ImportCount
  PROVE  IInv'
<1>1. /\ import.pc = "count" /\ UNCHANGED <<world, ghazals, tasks, calls, faults>>
      /\ import' = IF Cardinality(ghazals) = file.count
                   THEN [pc |-> "done"] ELSE [pc |-> "upsert", next |-> 1]
  BY DEF ImportCount
<1>2. import # NoImport BY <1>1 DEF NoImport
<1>3. LoadAndValidate(file) /\ file \in Files /\ ghazals \subseteq Range(file.numbers)
  BY <1>2 DEF IInv, CorpusInv
<1>4. file' = file /\ ghazals' = ghazals BY <1>1 DEF world
<1>5. CorpusInv'
  <2>1. CASE Cardinality(ghazals) = file.count
    <3>1. Range(file.numbers) \subseteq ghazals BY <1>3, <2>1, CountedRows
    <3>2. import' = [pc |-> "done"] BY <1>1, <2>1
    <3> QED BY <1>3, <1>4, <3>1, <3>2 DEF CorpusInv, LoadAndValidate
  <2>2. CASE Cardinality(ghazals) # file.count
    <3>1. import' = [pc |-> "upsert", next |-> 1] BY <1>1, <2>2
    <3>2. 1 \in 1..Len(file.numbers)
      BY <1>3, FilesAssumption DEF LoadAndValidate
    <3>3. \A i \in 1..(1 - 1) : FALSE OBVIOUS
    <3>4. DOMAIN import' = {"pc", "next"} /\ import'.next = 1 /\ import'.pc = "upsert"
      BY <3>1
    <3> QED BY <1>3, <1>4, <3>2, <3>3, <3>4 DEF CorpusInv, LoadAndValidate
  <2> QED BY <2>1, <2>2
<1> QED BY <1>1, <1>4, <1>5, RowsSound

LEMMA ImportUpsertSound ==
  ASSUME IInv, ImportUpsert
  PROVE  IInv'
<1> DEFINE numbers == file.numbers
           n == import.next
<1>1. /\ import.pc = "upsert" /\ UNCHANGED <<world, tasks, calls, faults>>
      /\ ghazals' = ghazals \cup {numbers[n]}
      /\ import' = IF n < Len(numbers) THEN [import EXCEPT !.next = n + 1]
                   ELSE [pc |-> "recount"]
  BY DEF ImportUpsert
<1>2. import # NoImport BY <1>1 DEF NoImport
<1>3. /\ LoadAndValidate(file) /\ file \in Files /\ ghazals \subseteq Range(numbers)
      /\ DOMAIN import = {"pc", "next"} /\ n \in 1..Len(numbers)
      /\ \A i \in 1..(n - 1) : numbers[i] \in ghazals
  BY <1>1, <1>2 DEF IInv, CorpusInv
<1>4. file' = file BY <1>1 DEF world
<1>5. numbers \in Seq(Int) BY <1>3, FilesAssumption
<1>6. DOMAIN numbers = 1..Len(numbers) /\ Len(numbers) \in Nat BY <1>5
<1>7. ghazals' \subseteq Range(numbers) BY <1>1, <1>3, <1>6 DEF Range
<1>8. \A i \in 1..n : numbers[i] \in ghazals'
  <2>1. ASSUME NEW i \in 1..n PROVE i \in 1..(n - 1) \/ i = n BY <1>3, <1>6
  <2> QED BY <1>1, <1>3, <2>1
<1> HIDE DEF numbers
<1>9. CorpusInv'
  <2>1. CASE n < Len(numbers)
    <3>1. /\ DOMAIN import' = {"pc", "next"} /\ import'.pc = "upsert"
          /\ import'.next = n + 1
      BY <1>1, <1>3, <2>1
    <3>2. n + 1 \in 1..Len(numbers) /\ (n + 1) - 1 = n BY <1>3, <1>6, <2>1
    <3>3. \A i \in 1..(import'.next - 1) : numbers[i] \in ghazals'
      BY <1>8, <3>1, <3>2
    <3> QED BY <1>3, <1>4, <1>7, <3>1, <3>2, <3>3 DEF CorpusInv, LoadAndValidate, numbers
  <2>2. CASE ~(n < Len(numbers))
    <3>1. import' = [pc |-> "recount"] /\ n = Len(numbers) BY <1>1, <1>3, <1>6, <2>2
    <3>2. Range(numbers) \subseteq ghazals' BY <1>6, <1>8, <3>1 DEF Range
    <3> QED BY <1>3, <1>4, <1>7, <3>1, <3>2 DEF CorpusInv, LoadAndValidate, numbers
  <2> QED BY <2>1, <2>2
<1> QED BY <1>1, <1>9, RowsSound

\* A count that was taken after the last row was upserted is the file's.
LEMMA RecountAgrees ==
  ASSUME IInv, import.pc = "recount"
  PROVE  Cardinality(ghazals) = file.count
<1>1. import # NoImport BY DEF NoImport
<1> QED BY <1>1, CountedRows DEF IInv, CorpusInv

LEMMA ImportRecountSound ==
  ASSUME IInv, ImportRecount
  PROVE  IInv'
<1>1. import.pc = "recount" /\ UNCHANGED <<world, ghazals, calls, faults>>
  BY DEF ImportRecount
<1>2. import' = [pc |-> "done"] /\ UNCHANGED tasks
  BY <1>1, RecountAgrees DEF ImportRecount
<1>3. import # NoImport BY <1>1 DEF NoImport
<1>4. CorpusInv'
  BY <1>1, <1>2, <1>3 DEF IInv, CorpusInv, LoadAndValidate, world
<1> QED BY <1>1, <1>2, <1>4, RowsSound

LEMMA SeedSound ==
  ASSUME IInv, SeedGhazal
  PROVE  IInv'
<1>1. PICK n \in Range(file.numbers) : ghazals' = ghazals \cup {n} BY DEF SeedGhazal
<1>2. file' = file /\ import' = import BY DEF SeedGhazal, world
<1>3. CorpusInv'
  BY <1>1, <1>2 DEF IInv, CorpusInv, NoImport, LoadAndValidate
<1> QED BY <1>1, <1>3, RowsSound DEF SeedGhazal

LEMMA MidnightSound ==
  ASSUME IInv, Midnight
  PROVE  IInv'
<1>1. today' \in 0..MaxDay BY EnginesAssumption DEF IInv, Midnight
<1>2. CorpusInv' BY CorpusKept DEF IInv, Midnight
<1>3. /\ ghazals' = ghazals /\ tasks' = tasks /\ faults' = faults
      /\ file' = file
  BY DEF Midnight
<1> QED BY <1>1, <1>2, <1>3 DEF IInv

LEMMA RestartSound ==
  ASSUME IInv, Restart
  PROVE  IInv'
<1>1. /\ tasks' = [h \in Handlers |-> Idle] /\ import' = NoImport
      /\ UNCHANGED <<configured, file, today, ghazals, calls, faults>>
  BY DEF Restart
<1>2. CorpusInv' BY <1>1 DEF IInv, CorpusInv, NoImport
<1>3. \A h \in Handlers : Sound(h, Idle, ghazals, file.count) BY DEF Sound, Idle
<1>4. \A h \in Handlers : tasks'[h] = Idle BY <1>1
<1> QED BY <1>1, <1>2, <1>3, <1>4 DEF IInv
-----------------------------------------------------------------------------
(* The theorems.                                                           *)

LEMMA InitSound == Init => IInv
<1> SUFFICES ASSUME Init PROVE IInv OBVIOUS
<1>1. file \in Files /\ ghazals \subseteq Range(file.numbers) BY DEF Init
<1>2. import = NoImport /\ NoImport.pc = "none" BY DEF Init, NoImport
<1>3. CorpusInv BY <1>1, <1>2 DEF CorpusInv
<1>4. \A h \in Handlers : Sound(h, tasks[h], ghazals, file.count) BY DEF Init, Sound, Idle
<1>5. today \in 0..MaxDay /\ faults \in 0..MaxFaults BY EnginesAssumption DEF Init
<1> QED BY <1>3, <1>4, <1>5 DEF Init, IInv

LEMMA StutterSound == IInv /\ UNCHANGED vars => IInv'
<1> SUFFICES ASSUME IInv, UNCHANGED vars PROVE IInv' OBVIOUS
<1>1. CorpusInv' BY CorpusKept DEF IInv, vars
<1>2. /\ tasks' = tasks /\ ghazals' = ghazals /\ today' = today /\ faults' = faults
      /\ file' = file
  BY DEF vars
<1> QED BY <1>1, <1>2 DEF IInv

LEMMA StepSound == IInv /\ [Next]_vars => IInv'
<1> SUFFICES ASSUME IInv, [Next]_vars PROVE IInv' OBVIOUS
<1>1. CASE UNCHANGED vars BY <1>1, StutterSound
<1>2. CASE \E h \in Handlers : Generate(h) \/ HandlerStep(h)
  BY <1>2, GenerateSound, HandlerSound
<1>3. CASE ImportStep
  BY <1>3, DatabaseFailsSound, ImportCountSound, ImportUpsertSound, ImportRecountSound
     DEF ImportStep
<1>4. CASE SeedGhazal BY <1>4, SeedSound
<1>5. CASE Midnight BY <1>5, MidnightSound
<1>6. CASE Restart BY <1>6, RestartSound
<1> QED BY <1>1, <1>2, <1>3, <1>4, <1>5, <1>6 DEF Next

\* The invariant holds whatever is asked, whatever the model answers and
\* whichever file the deploy carries.
THEOREM Invariance == Spec => []IInv
<1>1. Init => IInv BY InitSound
<1>2. IInv /\ [Next]_vars => IInv' BY StepSound
<1> QED BY <1>1, <1>2, PTL DEF Spec

\* Calls are at a step of generate(), an import runs only on a file that proved
\* itself, and no more attempts are made than the configuration allows.
THEOREM TypeCorrect == Spec => []TypeOK
<1>1. IInv => TypeOK BY Consequences
<1> QED BY <1>1, Invariance, PTL

\* Midnight and retries never part the card a reading states from the one its
\* prompt handed to the model.
THEOREM CardThroughout == Spec => []OneCardThroughout
<1>1. IInv => OneCardThroughout BY Consequences
<1> QED BY <1>1, Invariance, PTL

\* Whatever importer ran, and wherever a fault or a restart cut it short, the
\* number a call of Hafez drew is a row's.
THEOREM DrawnIsStored == Spec => []DrawnGhazalIsStored
<1>1. IInv => DrawnGhazalIsStored BY Consequences
<1> QED BY <1>1, Invariance, PTL

\* A reading is in its reader's language, but for the names and the digits that
\* OneLanguage lists, and says "For today:" once, as long as the model opens its
\* advice in a language the app strips, or not at all.
THEOREM SpeaksOneLanguage ==
  ASSUME HeadsKnown
  PROVE  Spec => []OneLanguage
<1>1. IInv => OneLanguage BY Consequences
<1> QED BY <1>1, Invariance, PTL

\* Known forms are folded into the letters alone.
LEMMA FoldIsSpelling ==
  ASSUME WordsKnown, NEW h \in Handlers, NEW r \in Requests[h]
  PROVE  NormalizeIntention(r.words) = Spelt(r.words)
<1> DEFINE bare == Bare(r.words)
<1>1. DOMAIN bare = 1..Len(bare) BY DEF WordsKnown
<1>2. \A i \in DOMAIN bare : FoldChar(bare[i]) = Plain(bare[i].letter) BY DEF WordsKnown
<1> HIDE DEF bare
<1>3. [i \in 1..Len(bare) |-> FoldChar(bare[i])]
        = [i \in DOMAIN bare |-> Plain(bare[i].letter)]
  BY <1>1, <1>2
<1> QED BY <1>3 DEF NormalizeIntention, Spelt, bare

\* So an engine draws the same for the same letters.
LEMMA LettersDecide ==
  ASSUME WordsKnown, AbjadOfLetters, NEW g \in Handlers, NEW h \in Handlers,
         NEW r \in Requests[g], NEW s \in Requests[h], Spelt(r.words) = Spelt(s.words),
         NEW engine \in RawEngines, NEW day, NEW count
  PROVE  DrawOf(engine, day, r.words, count) = DrawOf(engine, day, s.words, count)
<1>1. NormalizeIntention(r.words) = NormalizeIntention(s.words) BY FoldIsSpelling
<1>2. ComputeAbjad(r.words) = ComputeAbjad(s.words) BY DEF AbjadOfLetters
<1>3. CASE engine = "tarot" BY <1>1, <1>3 DEF DrawOf, TarotDraw
<1>4. CASE engine = "lenormand" BY <1>1, <1>4 DEF DrawOf, LenormandDraw
<1>5. CASE engine = "rune" BY <1>1, <1>5 DEF DrawOf, RuneDraw
<1>6. CASE engine = "cards" BY <1>1, <1>6 DEF DrawOf, CardsDraw
<1>7. CASE engine = "quran" BY <1>1, <1>7 DEF DrawOf, QuranDraw
<1>8. CASE engine = "tasbih" BY <1>1, <1>8 DEF DrawOf, TasbihDraw
<1>9. CASE engine = "hafez" BY <1>1, <1>9 DEF DrawOf, GhazalDraw
<1>10. CASE engine = "abjad" BY <1>2, <1>10 DEF DrawOf
<1> QED BY <1>3, <1>4, <1>5, <1>6, <1>7, <1>8, <1>9, <1>10 DEF RawEngines

\* Two readers who bring the same letters, however typed, to the same engine on
\* the same day are shown the same draw, as long as their keyboards write forms
\* that the folds know; the abjad count of the letters is taken from TLC.
THEOREM DrawsAgree ==
  ASSUME WordsKnown, AbjadOfLetters
  PROVE  Spec => []SameDraw
<1>1. IInv => SameDraw
  <2> SUFFICES ASSUME IInv, NEW g \in Handlers, NEW h \in Handlers,
                      {tasks[g].pc, tasks[h].pc} \subseteq {"request", "done"},
                      {tasks[g].by, tasks[h].by} \subseteq RawEngines,
                      tasks[g].by = tasks[h].by, tasks[g].day = tasks[h].day,
                      Spelt(tasks[g].request.words) = Spelt(tasks[h].request.words)
               PROVE  tasks[g].drawn = tasks[h].drawn
    BY DEF SameDraw
  <2> DEFINE s == tasks[g]
             t == tasks[h]
  <2>1. s.request \in Requests[g] /\ t.request \in Requests[h] BY DEF IInv, Sound
  <2>2. /\ s.drawn = DrawOf(s.by, s.day, s.request.words, file.count)
        /\ t.drawn = DrawOf(t.by, t.day, t.request.words, file.count)
    BY DEF IInv, Sound, DrawnSo
  <2>3. s.by \in RawEngines /\ Spelt(s.request.words) = Spelt(t.request.words)
    OBVIOUS
  <2>4. \A r \in Requests[g], p \in Requests[h] :
          Spelt(r.words) = Spelt(p.words)
            => DrawOf(s.by, s.day, r.words, file.count)
                 = DrawOf(s.by, s.day, p.words, file.count)
    BY <2>3, LettersDecide
  <2>5. DrawOf(s.by, s.day, s.request.words, file.count)
          = DrawOf(s.by, s.day, t.request.words, file.count)
    BY <2>1, <2>3, <2>4
  <2> QED BY <2>2, <2>5
<1> QED BY <1>1, Invariance, PTL

\* Only a reject of the import, or a file that does not prove itself, fails a
\* call for its corpus; and an import is rejected by a fault alone.
LEMMA OthersNeverBlameCorpus ==
  ASSUME IInv, NEW h \in Handlers, NEW g \in Handlers, NEW task, Become(h, task),
         tasks[g].pc \in {"flag", "import"}, tasks'[g].pc = "failed",
         tasks'[g].error = "corpus"
  PROVE  g = h /\ task.pc = "failed" /\ task.error = "corpus"
<1>1. tasks' = [tasks EXCEPT ![h] = task] BY DEF Become
<1>2. DOMAIN tasks = Handlers BY DEF IInv
<1>3. CASE g # h
  <2>1. tasks'[g] = tasks[g] BY <1>1, <1>2, <1>3
  <2> QED BY <2>1
<1>4. CASE g = h
  <2>1. tasks'[g] = task BY <1>1, <1>2, <1>4
  <2> QED BY <1>4, <2>1
<1> QED BY <1>3, <1>4
\* What a call whose flag was read becomes, but for Hafez, is no failure.
LEMMA OrdinaryNoFailure == \A r : Ordinary(r).pc # "failed"
BY DEF Ordinary, Asking, MockReading

LEMMA DrawersNeverFail ==
  ASSUME NEW h,
         \/ TarotGenerate(h) \/ LenormandGenerate(h) \/ RuneGenerate(h)
         \/ CardsGenerate(h) \/ QuranGenerate(h) \/ TasbihGenerate(h)
         \/ AbjadGenerate(h)
  PROVE  \E task : Become(h, task) /\ task.pc # "failed"
<1>1. \A r, drawn, prompt : Asking(r, drawn, prompt).pc # "failed" BY DEF Asking
<1>2. ASSUME NEW engine, PassesThrough(h, engine)
      PROVE  \E task : Become(h, task) /\ task.pc # "failed"
  BY <1>2, OrdinaryNoFailure DEF PassesThrough
<1>3. CASE TarotGenerate(h)
  <2>1. CASE PassesThrough(h, "tarot") BY <1>2, <2>1
  <2>2. CASE DrawsAndAsks(h, "tarot", TarotDraw, TarotPrompt)
    BY <1>1, <2>2 DEF DrawsAndAsks
  <2> QED BY <1>3, <2>1, <2>2 DEF TarotGenerate
<1>4. CASE LenormandGenerate(h)
  <2>1. CASE PassesThrough(h, "lenormand") BY <1>2, <2>1
  <2>2. CASE DrawsAndAsks(h, "lenormand", LenormandDraw, LenormandPrompt)
    BY <1>1, <2>2 DEF DrawsAndAsks
  <2> QED BY <1>4, <2>1, <2>2 DEF LenormandGenerate
<1>5. CASE RuneGenerate(h)
  <2>1. CASE PassesThrough(h, "rune") BY <1>2, <2>1
  <2>2. CASE DrawsAndAsks(h, "rune", RuneDraw, RunePrompt)
    BY <1>1, <2>2 DEF DrawsAndAsks
  <2> QED BY <1>5, <2>1, <2>2 DEF RuneGenerate
<1>6. CASE CardsGenerate(h)
  <2>1. CASE PassesThrough(h, "cards") BY <1>2, <2>1
  <2>2. CASE DrawsAndAsks(h, "cards", CardsDraw, CardsPrompt)
    BY <1>1, <2>2 DEF DrawsAndAsks
  <2> QED BY <1>6, <2>1, <2>2 DEF CardsGenerate
<1>7. CASE QuranGenerate(h)
  <2>1. CASE PassesThrough(h, "quran") BY <1>2, <2>1
  <2>2. CASE DrawsAndAsks(h, "quran", QuranDraw, QuranPrompt)
    BY <1>1, <2>2 DEF DrawsAndAsks
  <2> QED BY <1>7, <2>1, <2>2 DEF QuranGenerate
<1>8. CASE TasbihGenerate(h)
  <2>1. CASE PassesThrough(h, "tasbih") BY <1>2, <2>1
  <2>2. CASE DrawsAndAsks(h, "tasbih", TasbihDraw, TasbihPrompt)
    BY <1>1, <2>2 DEF DrawsAndAsks
  <2> QED BY <1>8, <2>1, <2>2 DEF TasbihGenerate
<1>9. CASE AbjadGenerate(h) BY <1>1, <1>2, <1>9 DEF AbjadGenerate
<1> QED BY <1>3, <1>4, <1>5, <1>6, <1>7, <1>8, <1>9

LEMMA FreshStep ==
  ASSUME IInv, [Next]_vars, NEW g \in Handlers,
         tasks[g].pc \in {"flag", "import"},
         tasks'[g].pc = "failed", tasks'[g].error = "corpus"
  PROVE  faults' > faults \/ ~LoadAndValidate(file)
<1>1. tasks'[g] # tasks[g] OBVIOUS
<1>2. CASE UNCHANGED vars
  <2>1. tasks' = tasks BY <1>2 DEF vars
  <2> QED BY <1>1, <2>1
<1>3. ASSUME NEW h \in Handlers, \E task : Become(h, task) /\ task.pc # "failed"
      PROVE  FALSE
  BY <1>3, OthersNeverBlameCorpus
<1>4. ASSUME NEW h \in Handlers, \E task : Become(h, task),
             tasks[h].pc \notin {"flag", "import"}
      PROVE  FALSE
  BY <1>4, OthersNeverBlameCorpus
<1>5. ASSUME NEW h \in Handlers, Generate(h) PROVE FALSE
  <2>1. tasks[h].pc \notin {"flag", "import"} BY <1>5 DEF Generate
  <2>2. \E task : Become(h, task) BY <1>5 DEF Generate
  <2> QED BY <1>4, <2>1, <2>2
<1>6. ASSUME NEW h \in Handlers, HafezGenerate(h)
      PROVE  faults' > faults \/ ~LoadAndValidate(file)
  <2>1. CASE PassesThrough(h, "hafez")
    <3>1. \E task : Become(h, task) /\ task.pc # "failed"
      BY <2>1, OrdinaryNoFailure DEF PassesThrough
    <3> QED BY <1>3, <3>1
  <2>2. CASE EnsureImported(h) /\ tasks[h].pc = "flag"
    <3>1. CASE Become(h, [tasks[h] EXCEPT !.pc = "import"])
      <4>1. DOMAIN tasks[h] = {"pc", "request"} BY <2>2 DEF IInv, Sound
      <4>2. [tasks[h] EXCEPT !.pc = "import"].pc # "failed" BY <4>1
      <4>3. \E task : Become(h, task) /\ task.pc # "failed" BY <3>1, <4>2
      <4> QED BY <1>3, <4>3
    <3> QED BY <2>2, <3>1, EnsureImportedIs
  <2> QED BY <1>6, <2>1, <2>2 DEF HafezGenerate, RawEngineRuns, IsAt
<1>7. ASSUME NEW h \in Handlers, HafezDraw(h) PROVE FALSE
  <2>1. \E task : Become(h, task) /\ task.pc # "failed" BY <1>7 DEF HafezDraw
  <2> QED BY <1>3, <2>1
<1>8. ASSUME NEW h \in Handlers, GetGhazal(h) PROVE FALSE
  <2>1. tasks[h].pc = "ghazal" BY <1>8 DEF GetGhazal, IsAt
  <2>2. \E task : Become(h, task) BY <1>8 DEF GetGhazal
  <2> QED BY <1>4, <2>1, <2>2
<1>9. ASSUME NEW h \in Handlers, Request(h) PROVE FALSE
  <2>1. Replied(h) BY <1>9, RequestReplies
  <2>2. tasks[h].pc = "request" /\ \E task : Become(h, task)
    BY <2>1 DEF Replied, AttemptFails
  <2> QED BY <1>4, <2>2
<1>10. ASSUME NEW h \in Handlers, HandlerStep(h)
       PROVE  faults' > faults \/ ~LoadAndValidate(file)
  BY <1>3, <1>6, <1>7, <1>8, <1>9, <1>10, DrawersNeverFail DEF HandlerStep, RawGenerate
<1>11. CASE ImportStep
  <2>1. CASE DatabaseFails
    <3>1. faults' = faults + 1 /\ faults \in Int BY <2>1 DEF DatabaseFails, IInv
    <3> QED BY <3>1
  <2>2. CASE ImportCount BY <1>1, <2>2 DEF ImportCount
  <2>3. CASE ImportUpsert BY <1>1, <2>3 DEF ImportUpsert
  <2>4. CASE ImportRecount
    <3>1. tasks' = tasks BY <2>4, RecountAgrees DEF ImportRecount
    <3> QED BY <1>1, <3>1
  <2> QED BY <1>11, <2>1, <2>2, <2>3, <2>4 DEF ImportStep
<1>12. CASE SeedGhazal BY <1>1, <1>12 DEF SeedGhazal
<1>13. CASE Midnight BY <1>1, <1>13 DEF Midnight
<1>14. CASE Restart
  <2>1. tasks'[g] = Idle BY <1>14 DEF Restart
  <2> QED BY <2>1 DEF Idle
<1> QED BY <1>2, <1>5, <1>10, <1>11, <1>12, <1>13, <1>14 DEF Next

\* A reading fails for its corpus only at the moment something fails: an import
\* that goes wrong is forgotten, and one that runs to its end never rejects.
THEOREM ErrorsAreFresh == Spec => ImportErrorsAreFresh
<1>1. IInv /\ [Next]_vars
        => [\A h \in Handlers :
              /\ tasks[h].pc \in {"flag", "import"}
              /\ tasks[h]'.pc = "failed" /\ tasks[h]'.error = "corpus"
              => faults' > faults \/ ~LoadAndValidate(file)]_vars
  BY FreshStep
<1> QED BY <1>1, Invariance, PTL DEF Spec, ImportErrorsAreFresh
=============================================================================
