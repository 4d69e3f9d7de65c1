---------------------------- MODULE MCMediation ----------------------------
(***************************************************************************)
(* Small instances of Mediation for TLC.                                   *)
(***************************************************************************)
EXTENDS Mediation, ProviderOrdering, TLC, SequencesExt

CONSTANTS adsgram, monetag

\* ADS_PROVIDER_ORDER and ADS_COOLDOWN_FAILURE_THRESHOLD, and the attempts a
\* network may have inside the cooldown window.
ProviderOrder == <<adsgram, monetag>>
CooldownThreshold == 2
Recent == BoundedSeq({"failed", "completed"}, 3)

OrderFor(configured, recent) ==
  OrderProviders(ProviderOrder, configured,
                 [p \in Providers |-> RecentFailures(recent[p], CooldownThreshold)],
                 CooldownThreshold)

\* What startSession can find, whatever is configured and however it went.
AllOrders == { OrderFor(configured, recent) :
                 configured \in SUBSET Providers, recent \in [Providers -> Recent] }
AdsgramOnly == {<<adsgram>>}

\* A cooled-down network "still gets a chance, but only after the healthy ones"
\* (provider-ordering.ts 6-7): every configured network is in the order once,
\* and p stands before q when it comes first in the configuration unless p has
\* CooldownThreshold failures at the head of its history and q has not.
ASSUME DemotedNeverRemoved ==
  \A configured \in SUBSET Providers, recent \in [Providers -> Recent] :
    LET order == OrderFor(configured, recent)
        Cooled(p) == /\ Len(recent[p]) >= CooldownThreshold
                     /\ \A i \in 1..CooldownThreshold : recent[p][i] = "failed"
        Rank(p) == CHOOSE i \in DOMAIN ProviderOrder : ProviderOrder[i] = p
    IN  /\ ToSet(order) = configured
        /\ \A i, j \in DOMAIN order :
             i < j <=> \/ Cooled(order[j]) /\ ~Cooled(order[i])
                       \/ /\ Cooled(order[i]) = Cooled(order[j])
                          /\ Rank(order[i]) < Rank(order[j])

Symmetry == Permutations(Handlers)
=============================================================================
