------------------------------ MODULE MCDeploy ------------------------------
(***************************************************************************)
(* A small instance of Deploy for TLC.                                     *)
(***************************************************************************)
EXTENDS Deploy, TLC

CONSTANTS r1, r2

RunSymmetry == Permutations(Runs)
=============================================================================
