--------------------------- MODULE MCLinkActivity ---------------------------
(***************************************************************************)
(* A small instance of LinkActivity for TLC.                               *)
(***************************************************************************)
EXTENDS LinkActivity, TLC

CONSTANTS reader, c1, c2, mine, other

(* Clicks are interchangeable.                                             *)
ClickSymmetry == Permutations(Clicks)
=============================================================================
