---------------------------- MODULE MCOrderDesk -----------------------------
(***************************************************************************)
(* Instances of OrderDesk for TLC.                                         *)
(***************************************************************************)
EXTENDS OrderDesk, TLC

CONSTANTS r1, r2, q1, q2

DeskSymmetry == Permutations(Rows) \cup Permutations(Requests)
=============================================================================
