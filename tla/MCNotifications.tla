-------------------------- MODULE MCNotifications ---------------------------
(***************************************************************************)
(* Instances of Notifications for TLC.  A day has two hours, a night and a *)
(* morning, so that three days of absence are six steps of the clock.      *)
(***************************************************************************)
EXTENDS Notifications

Wants(daily, streak, weekly) ==
  [dailyFortune |-> daily, streakReminder |-> streak, weeklySummary |-> weekly,
   quietFromHour |-> 0, quietToHour |-> 0, dailyCap |-> 1, zone |-> 0,
   muteHours |-> 0]

\* Every kind, one message a day, no quiet hours.
Everything == Wants(TRUE, TRUE, TRUE)
OnlyEverything == {[mentions |-> Columns, values |-> Everything]}

\* Quiet hours that begin beyond the last one, to clamp.
QuietTooFar == [Everything EXCEPT !.quietFromHour = 7]

\* A request that mentions everything, and one that mentions two columns.
RacePatches ==
  {[mentions |-> Columns, values |-> Everything],
   [mentions |-> {"quietFromHour", "mutedUntil"},
    values |-> [QuietTooFar EXCEPT !.muteHours = 1]]}
=============================================================================
