----------------------------- MODULE MCHistory ------------------------------
(***************************************************************************)
(* An instance of History for TLC.  A day has two hours, a morning and a   *)
(* noon, so that a window of a day and the one before it fit in four.      *)
(***************************************************************************)
EXTENDS History, TLC

CONSTANTS h1, h2

MCDoes == [h \in Handlers |->
             IF h = h1 THEN {"history", "saved", "summary", "save"}
             ELSE {"reflections", "summary", "save"}]
Row(id, fortune, at, savedAt) ==
  [id |-> id, fortune |-> fortune, at |-> at, savedAt |-> savedAt]

\* Three readings, one of them in the window before and two of the same hour;
\* and four of one window, two in each half of the day.
MCStored ==
  {{Row(3, "hafez", 1, -1), Row(2, "tarot", 3, -1), Row(4, "hafez", 3, 3)},
   {Row(4, "tarot", 2, 3), Row(2, "tarot", 3, -1), Row(3, "hafez", 4, 4),
    Row(1, "hafez", 3, -1)}}
\* Two thoughts on no reading.
MCStoredReflections ==
  {[id |-> i, reading |-> Standalone, note |-> "old", at |-> 2] : i \in {2, 4}}

NotesAlike == Permutations(Notes)

MCOrder == [hafez |-> 1, tarot |-> 2]
MCRangeDays == [last7 |-> 1]
MCParts == <<0, 1, 2, 2>>
=============================================================================
