---------------------------- MODULE MCAccessFlow ----------------------------
(***************************************************************************)
(* A small instance of AccessFlow for TLC.                                 *)
(***************************************************************************)
EXTENDS AccessFlow

CONSTANTS adsgram, monetag

\* Two networks, always tried in the same order.
TwoNetworks == {<<adsgram, monetag>>}
=============================================================================
