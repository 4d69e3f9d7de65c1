------------------------------ MODULE MCWallet ------------------------------
(***************************************************************************)
(* Instances of Wallet for TLC.                                            *)
(***************************************************************************)
EXTENDS Wallet

CONSTANTS ali, k1

\* One coin, with a key, again with it, and without one.
OneCoin == [user: {ali}, cost: {1}, key: {k1, NoKey}]

\* The same, and a cost that is refused.
AnyCost == OneCoin \cup [user: {ali}, cost: {0}, key: {k1}]
=============================================================================
