------------------------------ MODULE MCWsHub -------------------------------
(***************************************************************************)
(* Instances of WsHub for TLC.                                             *)
(***************************************************************************)
EXTENDS WsHub, TLC

CONSTANTS c1, c2, c3, u1, u2, loop, nats

HubSymmetry == Permutations(Clients) \cup Permutations(Users)
=============================================================================
