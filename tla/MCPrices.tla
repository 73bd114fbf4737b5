------------------------------ MODULE MCPrices ------------------------------
(***************************************************************************)
(* Instances of Prices for TLC.  A tick is 15 s.                           *)
(***************************************************************************)
EXTENDS Prices

CONSTANTS job, reader
=============================================================================
