----------------------------- MODULE MCSpotSync -----------------------------
(***************************************************************************)
(* Instances of SpotSync for TLC.                                          *)
(***************************************************************************)
EXTENDS SpotSync

CONSTANTS btc, eth, live, full
=============================================================================
