------------------------------- MODULE Unlock -------------------------------
(***************************************************************************)
(* What the readings pipeline promises about a rewarded-ad unlock          *)
(* (RewardedAdEntitlement) once mediation has granted it: it is spent on   *)
(* at most one reading, while one request holds it nobody else can, and a  *)
(* request that holds it either delivers a reading for it or gives it      *)
(* back.  Readings implements this specification.                          *)
(***************************************************************************)
CONSTANT Unlocks

VARIABLE phase

Phases == {"none", "available", "held", "spent"}

Init == phase = [e \in Unlocks |-> "none"]

Move(e, from, to) ==
  /\ phase[e] = from
  /\ phase' = [phase EXCEPT ![e] = to]

Grant(e) == Move(e, "none", "available")
Take(e) == Move(e, "available", "held")
GiveBack(e) == Move(e, "held", "available")
Spend(e) == Move(e, "held", "spent")

Next == \E e \in Unlocks : Grant(e) \/ Take(e) \/ GiveBack(e) \/ Spend(e)

\* A held unlock is settled, one way or the other.
Fairness == \A e \in Unlocks : WF_phase(GiveBack(e) \/ Spend(e))

Spec == Init /\ [][Next]_phase
FairSpec == Spec /\ Fairness
=============================================================================
