------------------------------ MODULE LinkRows ------------------------------
(***************************************************************************)
(* The rows of the `links` table and what each SQL statement of            *)
(* src/db/links.rs does to one row.  Payloads (targets, texts, labels) are *)
(* opaque values: only their kind, their validity and whether they are     *)
(* supplied matter to the store.                                           *)
(***************************************************************************)
EXTENDS Integers

CONSTANTS
    Slugs,      \* normalized (lower-case) slugs; custom and generated ones
    Reqs,       \* mutation requests; a row carries the request that inserted
                \* it where the code has a fresh UUID per INSERT
    Targets,    \* redirect targets a client may submit
    Texts,      \* shared texts a client may submit
    Labels,     \* labels a client may submit
    Invalid,    \* the submitted values that the validators refuse
    Null,       \* SQL NULL, and the empty target_url of a text share
    Keep,       \* a field that a request does not supply (None of UpdateLinkInput)
    NoRow       \* what a lookup of an unused slug yields

ASSUME SentinelsDistinct ==
    /\ Null # Keep
    /\ Null \notin Targets \cup Texts \cup Labels \cup Nat
    /\ Keep \notin Targets \cup Texts \cup Labels \cup Nat

Row == [id : Reqs,
        target : (Targets \ Invalid) \cup {Null},
        text : (Texts \ Invalid) \cup {Null},
        label : (Labels \ Invalid) \cup {Null},
        created : Nat,
        updated : Nat,
        expires : Nat \cup {Null},
        disabled : Nat \cup {Null}]

ASSUME NoRowIsNoRow == NoRow \notin Row

IsText(row) == row.text # Null
IsDisabled(row) == row.disabled # Null

(* `e <= now`: a link is expired from its very expiry instant on.          *)
IsExpired(row, at) == row.expires # Null /\ row.expires <= at

(* The CHECK that migration 0003 puts on text_content; its byte bounds are *)
(* part of a text's validity.                                              *)
SqlCheck(row) == row.text = Null \/ row.target = Null

(* INSERT ... VALUES (id, slug, target_url, text_content, label, now, now, *)
(* expires_at, NULL).                                                      *)
InsertedRow(r, o, at) ==
    [id |-> r, target |-> o.target, text |-> o.text, label |-> o.label,
     created |-> at, updated |-> at, expires |-> o.expires, disabled |-> Null]

(* COALESCE(?, column) and CASE WHEN ? THEN ? ELSE column END: a field the *)
(* request does not supply keeps the value the row has when the UPDATE     *)
(* runs, whatever an earlier lookup saw.                                   *)
Supplied(new, old) == IF new = Keep THEN old ELSE new

PatchedRow(row, o, at) ==
    [row EXCEPT !.target = Supplied(o.target, @),
                !.text = Supplied(o.text, @),
                !.label = Supplied(o.label, @),
                !.expires = Supplied(o.expires, @),
                !.updated = at]

(* UPDATE links SET disabled_at = ?, updated_at = ?                        *)
ToggledRow(row, o, at) ==
    [row EXCEPT !.disabled = IF o.op = "disable" THEN at ELSE Null,
                !.updated = at]
=============================================================================
