------------------------------ MODULE MCDcaBot ------------------------------
(***************************************************************************)
(* Instances of DcaBot for TLC.                                            *)
(***************************************************************************)
EXTENDS DcaBot, TLC

CONSTANTS b1, b2, h1, h2, job

BotSymmetry == Permutations(Bots) \cup Permutations(Handlers)
=============================================================================
