--------------------------- MODULE MCPublicVisit ----------------------------
(***************************************************************************)
(* A small instance of PublicVisit for TLC.  Visits only read what they    *)
(* share, so that one visit among the writers shows what any of them sees. *)
(***************************************************************************)
EXTENDS PublicVisit, TLC

CONSTANTS v1, r1, s1, urlA, urlB, note

(* Rows stamped at 0: two targets or a text, enabled or not, for ever or   *)
(* until instant 1 or 3.                                                   *)
SmallRows ==
    {[id |-> r1, target |-> c[1], text |-> c[2], label |-> Null, created |-> 0,
      updated |-> 0, expires |-> e, disabled |-> d] :
        c \in {<<urlA, Null>>, <<urlB, Null>>, <<Null, note>>},
        e \in {1, 3, Null}, d \in {0, Null}}
=============================================================================
