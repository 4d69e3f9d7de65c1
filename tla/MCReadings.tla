----------------------------- MODULE MCReadings -----------------------------
(***************************************************************************)
(* Small instances of Readings for TLC.                                    *)
(***************************************************************************)
EXTENDS Readings, TLC

CONSTANTS u1, hafez, tarot, e1, k1

Request(f, e, k, x) ==
  [user |-> u1, fortune |-> f, unlock |-> e, key |-> k, exempt |-> x]

\* The ad-gated fortune only: with and without the unlock, keyed or not.
GatedRequests ==
  {Request(tarot, e1, k1, FALSE), Request(tarot, e1, NoKey, FALSE),
   Request(tarot, NoUnlock, k1, FALSE)}

\* Both fortunes under one key, and without a key.
MixedRequests ==
  {Request(hafez, NoUnlock, k1, FALSE), Request(hafez, NoUnlock, NoKey, FALSE),
   Request(tarot, e1, k1, FALSE), Request(hafez, e1, NoKey, TRUE)}

OneFree == [f \in Fortunes |-> IF f = hafez THEN 1 ELSE 0]
Symmetry == Permutations(Handlers)
=============================================================================
