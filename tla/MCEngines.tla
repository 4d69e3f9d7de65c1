----------------------------- MODULE MCEngines ------------------------------
(***************************************************************************)
(* Instances of Engines for TLC.  The intentions are one word typed on two *)
(* keyboards, and silence; the digest is a sum that tells words apart.     *)
(***************************************************************************)
EXTENDS Engines

Letters == [sin |-> 1, ye |-> 2, space |-> 4, tashkil |-> 3]
Forms == [plain |-> 0, arabic |-> 7]

MCDigest(salt, day, words) ==
  LET Code(i) == i * (Letters[words[i].letter] + Forms[words[i].form])
      value == MapThenSumSet(Code, DOMAIN words) + 5 * day + 11
  IN  [value |-> value, next |-> value + day]

Persian == <<Plain("sin"), Plain("ye")>>
Arabic == <<Space, Plain("sin"), Plain("tashkil"), Char("ye", "arabic"), Space>>

Ask(fortune, words, locale) == [fortune |-> fortune, words |-> words, locale |-> locale]

\* One reader tries every fortune, in every language; another, who is Persian,
\* brings the same words to some of them.
CONSTANTS h1, h2
MCRequests ==
  (h1 :> {Ask("tarot", Arabic, "ar"), Ask("lenormand", Arabic, "en"),
          Ask("rune", Persian, "en"), Ask("cards", << >>, "de"),
          Ask("quran", Persian, "tr"), Ask("tasbih", Arabic, "en"),
          Ask("abjad", Arabic, "en"), Ask("abjad", << >>, "fa"),
          Ask("abjad", Persian \o Persian, "ar"),
          Ask("hafez", Arabic, "en"), Ask("coffee", << >>, "en")}) @@
  (h2 :> {Ask("tarot", Persian, "fa"), Ask("hafez", Persian, "fa"),
          Ask("quran", Arabic, "fa")})

Keys == HafezKeys \cup {"numberMeaning", "reflectionForIntention", "title", "reading"}

Answer(shape, sections, head, verses) ==
  [shape |-> shape, sections |-> sections, head |-> head, verses |-> verses]

MCCompletions ==
  {Answer("array", Keys, "none", <<"own", "own", "own", "foreign">>),
   Answer("fenced", Keys, "en", <<"own">>),
   Answer("truncated", Keys, "fa", <<"own">>),
   Answer("object", Keys \ {"hope", "title"}, "fa", << >>),
   Answer("object", Keys, "fa", <<"foreign">>)}

\* A file that proves itself, and one with a gap.
Whole == [count |-> 2, numbers |-> <<2, 1>>, openingsAgree |-> TRUE]
Gapped == [count |-> 2, numbers |-> <<1, 3>>, openingsAgree |-> TRUE]
MCFiles == {Whole, Gapped}

\* What the theorems suppose of the completions and of the words is true of these.
ASSUME SupposedHere == HeadsKnown /\ WordsKnown /\ AbjadOfLetters
=============================================================================
