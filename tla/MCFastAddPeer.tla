---------------------------- MODULE MCFastAddPeer ----------------------------
(***************************************************************************)
(* TLC instances of FastAddPeer.                                           *)
(***************************************************************************)
EXTENDS FastAddPeer

OneTicker == {"peer"}
TwoTickers == {"peer", "store"}
==============================================================================
