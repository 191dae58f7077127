-------------------------- MODULE MCClickRecorder ---------------------------
(***************************************************************************)
(* A small instance of ClickRecorder for TLC.                              *)
(***************************************************************************)
EXTENDS ClickRecorder, TLC

CONSTANTS c1, c2, t1, t2, link
=============================================================================
