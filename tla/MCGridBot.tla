----------------------------- MODULE MCGridBot -----------------------------
(***************************************************************************)
(* Instances of GridBot for TLC.                                           *)
(***************************************************************************)
EXTENDS GridBot, TLC

CONSTANTS h1, h2, job

HandlerSymmetry == Permutations(Handlers)
=============================================================================
