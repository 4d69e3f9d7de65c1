------------------------------- MODULE Draws --------------------------------
(***************************************************************************)
(* What the raw engines draw: the folding of an intention, the decks held  *)
(* in code, the draw of each engine, and the abjad count.                  *)
(*                                                                         *)
(* A character is a record of its letter and of the form it is written in. *)
(* The first twelve hex digits of a SHA-256 (value) and the two after them *)
(* (next) are a CONSTANT operator: the draws must only depend on what is   *)
(* hashed, never on the hash.                                              *)
(***************************************************************************)
EXTENDS Integers, Sequences, FiniteSets, FiniteSetsExt, SequencesExt

CONSTANT Digest(_, _, _)   \* of an engine's salt, a day and folded words

Char(letter, form) == [letter |-> letter, form |-> form]
Plain(letter) == Char(letter, "plain")
Space == Plain("space")

-----------------------------------------------------------------------------
(* Folding an intention.                                                   *)

\* The forms of letters that ARABIC_FOLDS writes as the plain letter.
ArabicFolds ==
  {Char("ye", "arabic"), Char("ye", "hamza"), Char("kaf", "arabic"),
   Char("he", "te marbuta"), Char("alef", "hamza above"),
   Char("alef", "hamza below"), Char("alef", "madda"), Char("alef", "wasla"),
   Char("vav", "hamza")}

Diacritics == {Plain("tashkil"), Plain("superscript alef"), Plain("tatweel")}

DigitForms == {"persian", "arabic-indic"}
Digits == {"0", "1", "2", "3", "4", "5", "6", "7", "8", "9"}

Bare(s) == SelectSeq(s, LAMBDA c : c \notin Diacritics)

FoldChar(c) ==
  IF \/ c \in ArabicFolds
     \/ c.letter \in Digits /\ c.form \in DigitForms
     \/ c.letter = "space"
  THEN Plain(c.letter) ELSE c

\* Runs of white space become one space, none at either end.
Collapse(s) ==
  LET kept == {i \in 1..Len(s) :
                 s[i] = Space => /\ i > 1 /\ s[i - 1] # Space
                                 /\ \E j \in i..Len(s) : s[j] # Space}
      at == SetToSortSeq(kept, <)
  IN  [k \in 1..Len(at) |-> s[at[k]]]

\* Slip: words are compared as they were typed, but for white space.
AsTyped(s) == Collapse(s)

NormalizeIntention(s) ==
  LET bare == Bare(s)
  IN  Collapse([i \in 1..Len(bare) |-> FoldChar(bare[i])])

-----------------------------------------------------------------------------
(* The decks, in the order of their arrays.  A card is its suit and rank,  *)
(* which its id spells; meanings and names follow the card.                *)

Suit(suit, first, last) ==
  [i \in 1..(last - first + 1) |-> [suit |-> suit, rank |-> first + i - 1]]

TarotMajors == Suit("major", 0, 21)
TarotWands == Suit("wands", 1, 14)
TarotCups == Suit("cups", 1, 14)
TarotSwords == Suit("swords", 1, 14)
TarotPentacles == Suit("pentacles", 1, 14)
TarotDeck ==
  TarotMajors \o TarotWands \o TarotCups \o TarotSwords \o TarotPentacles

CardsHearts == Suit("hearts", 1, 13)
CardsDiamonds == Suit("diamonds", 1, 13)
CardsClubs == Suit("clubs", 1, 13)
CardsSpades == Suit("spades", 1, 13)
CardsDeck == CardsHearts \o CardsDiamonds \o CardsClubs \o CardsSpades

LenormandDeck == Suit("lenormand", 1, 36)
RuneDeck == Suit("rune", 1, 24)

\* The surah and the (first) ayah of each curated passage.
QuranVerses ==
  LET Verse(surah, ayah) == [surah |-> surah, ayah |-> ayah]
  IN  <<Verse(2, 153), Verse(2, 186), Verse(3, 8), Verse(3, 139),
        Verse(3, 159), Verse(7, 56), Verse(10, 62), Verse(13, 28),
        Verse(16, 53), Verse(16, 97), Verse(17, 70), Verse(25, 74),
        Verse(27, 62), Verse(29, 69), Verse(30, 21), Verse(39, 53),
        Verse(41, 30), Verse(42, 19), Verse(46, 13), Verse(48, 4),
        Verse(49, 13), Verse(50, 16), Verse(64, 11), Verse(65, 3),
        Verse(93, 5), Verse(89, 27), Verse(94, 5)>>

\* Every deck is complete and names no card twice.
ASSUME DecksAssumption ==
  /\ Len(TarotDeck) = 78 /\ IsInjective(TarotDeck)
  /\ Len(CardsDeck) = 52 /\ IsInjective(CardsDeck)
  /\ Len(LenormandDeck) = 36 /\ Len(RuneDeck) = 24
  /\ Len(QuranVerses) = 27 /\ IsInjective(QuranVerses)

-----------------------------------------------------------------------------
(* The draws, of a day and an intention.                                   *)

\* The entry of a deck an engine's digest points at.
Drawn(deck, digest) == deck[(digest.value % Len(deck)) + 1]

TarotDraw(day, s) ==
  LET digest == Digest("tarot", day, NormalizeIntention(s))
  IN  [card |-> Drawn(TarotDeck, digest), reversed |-> digest.next % 2 = 1]

LenormandDraw(day, s) ==
  [card |-> Drawn(LenormandDeck, Digest("lenormand", day, NormalizeIntention(s)))]

RuneDraw(day, s) ==
  [card |-> Drawn(RuneDeck, Digest("rune", day, NormalizeIntention(s)))]

CardsDraw(day, s) ==
  [card |-> Drawn(CardsDeck, Digest("cards", day, NormalizeIntention(s)))]

QuranDraw(day, s) ==
  [card |-> Drawn(QuranVerses, Digest("quran", day, NormalizeIntention(s)))]

\* A plausible handful of beads, counted in threes.
TasbihDraw(day, s) ==
  LET beads == 7 + (Digest("tasbih", day, NormalizeIntention(s)).value % 60)
  IN  [beads |-> beads,
       result |-> CASE beads % 3 = 0 -> "good"
                    [] beads % 3 = 1 -> "middling"
                    [] OTHER -> "patience"]

\* A ghazal of an edition whose numbers run from 1 to count.
GhazalDraw(edition, day, s, count) ==
  1 + (Digest(edition, day, NormalizeIntention(s)).value % count)

-----------------------------------------------------------------------------
(* The abjad count, which has a fold of its own: white space and digits    *)
(* stay as they are, and count for nothing.                                *)

AbjadKabir ==
  [alef |-> 1, be |-> 2, pe |-> 2, jim |-> 3, che |-> 3, dal |-> 4, he |-> 5,
   vav |-> 6, ze |-> 7, zhe |-> 7, hejimi |-> 8, ta |-> 9, ye |-> 10,
   kaf |-> 20, gaf |-> 20, lam |-> 30, mim |-> 40, nun |-> 50, sin |-> 60,
   ayn |-> 70, fe |-> 80, sad |-> 90, qaf |-> 100, re |-> 200, shin |-> 300,
   te |-> 400, se |-> 500, khe |-> 600, zal |-> 700, zad |-> 800, za |-> 900,
   ghayn |-> 1000]

AbjadFold(s) ==
  LET bare == Bare(s)
  IN  [i \in 1..Len(bare) |-> IF bare[i] \in ArabicFolds
                              THEN Plain(bare[i].letter) ELSE bare[i]]

ComputeAbjad(s) ==
  LET counted == SelectSeq(AbjadFold(s),
                   LAMBDA c : c.form = "plain" /\ c.letter \in DOMAIN AbjadKabir)
      Value(i) == AbjadKabir[counted[i].letter]
  IN  [letters |-> counted, total |-> MapThenSumSet(Value, DOMAIN counted)]
=============================================================================
