----------------------------- MODULE MCAccounts -----------------------------
(***************************************************************************)
(* Instances of Accounts for TLC: two API instances whose clocks are as    *)
(* far apart as the skew they tolerate, one second, of two ticks where the *)
(* cut to whole seconds matters.                                           *)
(***************************************************************************)
EXTENDS Accounts, TLC

CONSTANTS h1, h2, i1, i2

MCInstanceOf == h1 :> i1 @@ h2 :> i2
MCOffset == i1 :> 0 @@ i2 :> TicksPerSecond * Skew
MCDoes == h1 :> {"telegram", "guest", "onboarding"} @@ h2 :> {"telegram", "onboarding", "edit"}
MCTelegrams == {[telegram |-> "tg", name |-> "Telegram", locale |-> "en",
                  header |-> "tr"]}
MCDevices == {[device |-> "device", header |-> Null]}
MCEdits ==
  {[displayName |-> " Own ", birthMonth |-> "MAY", optOut |-> TRUE],
   [displayName |-> "New", birthMonth |-> "MAY", optOut |-> Null],
   [displayName |-> "<>", birthMonth |-> Null, optOut |-> Null],
   [displayName |-> "New", birthMonth |-> "no month", optOut |-> Null]}
MCClean == " Own " :> "Own" @@ "<>" :> "refused" @@ "New" :> "New"
=============================================================================
