---------------------------- MODULE MCLinkStore -----------------------------
(***************************************************************************)
(* Small instances of LinkStore for TLC.                                   *)
(***************************************************************************)
EXTENDS LinkStore, TLC

CONSTANTS r1, r2, r3, s1, s2, url, badUrl, text, nul

Mutation(o, api, s, ta, te, la, ex) ==
    [op |-> o, api |-> api, slug |-> s, target |-> ta, text |-> te,
     label |-> la, expires |-> ex]

Creates == {Mutation("create", FALSE, s1, url, Null, Null, 1),
            Mutation("create", TRUE, s1, Null, text, Null, Null),
            Mutation("create", TRUE, Null, url, Null, Null, Null),
            Mutation("create", TRUE, s1, badUrl, Null, Null, Null)}

Patches == {Mutation("patch", TRUE, s1, Keep, text, Keep, Keep),
            Mutation("patch", TRUE, s1, Keep, Keep, nul, Keep),
            Mutation("patch", TRUE, s1, url, Keep, Keep, 2),
            Mutation("patch", FALSE, s1, url, Keep, Null, Null),
            Mutation("patch", TRUE, s1, Keep, Keep, Keep, Keep),
            Mutation("patch", FALSE, s1, Keep, Keep, Null, Null)}

Toggles == {Mutation("disable", TRUE, s1, Keep, Keep, Keep, Keep),
            Mutation("enable", FALSE, s1, Keep, Keep, Keep, Keep)}

(* The mutations of the three-request run: those that race.                *)
RacingMutations ==
    Toggles \cup
    {Mutation("create", FALSE, s1, url, Null, Null, 1),
     Mutation("create", TRUE, Null, url, Null, Null, Null),
     Mutation("patch", TRUE, s1, Keep, Keep, nul, Keep),
     Mutation("patch", TRUE, s1, url, Keep, Keep, 2),
     Mutation("patch", FALSE, s1, url, Keep, Null, Null)}

AllMutations == Creates \cup Patches \cup Toggles

(* The requests are interchangeable.                                       *)
ReqSymmetry == Permutations(Reqs)
=============================================================================
