-------------------------- MODULE ProviderOrdering --------------------------
(***************************************************************************)
(* The order in which a new session tries the ad networks: the configured  *)
(* priority, with the networks that lately failed without a break moved    *)
(* behind the others (ads/provider-ordering.ts and recentHealth of         *)
(* ads/mediation.service.ts).  Pure operators, without state.              *)
(***************************************************************************)
EXTENDS Naturals, Sequences

\* recentHealth for one network.  statuses: its attempts inside the cooldown
\* window, newest first, of which the query takes threshold; one that did not
\* fail breaks the series.
RecentFailures(statuses, threshold) ==
  LET taken == { i \in DOMAIN statuses : i <= threshold }
  IN  IF \A i \in taken : statuses[i] = "failed"
      THEN IF Len(statuses) < threshold THEN Len(statuses) ELSE threshold
      ELSE 0

\* orderProviders: failures maps each network to its RecentFailures.
OrderProviders(configuredOrder, configured, failures, threshold) ==
  LET available == SelectSeq(configuredOrder, LAMBDA p : p \in configured)
      Healthy(p) == failures[p] < threshold
      Cooled(p) == ~Healthy(p)
  IN  SelectSeq(available, Healthy) \o SelectSeq(available, Cooled)
=============================================================================
