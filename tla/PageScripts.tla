---------------------------- MODULE PageScripts ----------------------------
(***************************************************************************)
(* The admin page with both an expiration field and a text, as its scripts *)
(* run on it.  They share no state, so either is at work from a page that  *)
(* the other left as it was loaded.                                        *)
(***************************************************************************)
EXTENDS ExpirationForm, TextViews

PageInit == Init /\ TextInit

(* Bound: not both scripts at once.                                        *)
FieldUntouched == at = "away" /\ field = Empty /\ now = 0
TextUntouched == source = 0 /\ view = "plain" /\ preview.view = "plain" /\ label = "Copy" /\ copies = 0

PageNext ==
    \/ TextUntouched /\ Next /\ UNCHANGED textVars
    \/ FieldUntouched /\ TextNext /\ UNCHANGED vars

PageSpec == PageInit /\ [][PageNext]_<<vars, textVars>>
=============================================================================
