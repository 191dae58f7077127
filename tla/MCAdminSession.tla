--------------------------- MODULE MCAdminSession ---------------------------
(***************************************************************************)
(* A small instance of AdminSession for TLC.                               *)
(***************************************************************************)
EXTENDS AdminSession, TLC

CONSTANTS left, right

(* The tabs are interchangeable.                                           *)
TabSymmetry == Permutations(Tabs)
=============================================================================
