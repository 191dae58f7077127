--------------------------- MODULE MCPageScripts ---------------------------
(***************************************************************************)
(* A small instance of PageScripts for TLC.                                *)
(***************************************************************************)
EXTENDS PageScripts

(* UTC; and a zone whose clock goes back by 2 after instant 3 and forward  *)
(* by 2 after instant 5.                                                   *)
MCZones == {[i \in Instants |-> i],
            [i \in Instants |-> IF i < 4 THEN i ELSE IF i < 6 THEN i - 2 ELSE i]}
=============================================================================
