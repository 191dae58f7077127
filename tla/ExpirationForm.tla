--------------------------- MODULE ExpirationForm ---------------------------
(***************************************************************************)
(* The expiration field of the admin forms, from the row to the browser    *)
(* and back (static/expiration.js, src/web/admin.rs): the field shows      *)
(* local wall-clock time, which a repeated hour shows twice and a skipped  *)
(* hour never, and submits an instant.  One browser page, the row it       *)
(* creates or edits, other writers of that row, refused and lost           *)
(* submissions and pages rendered again with the draft.                    *)
(*                                                                         *)
(* Without the script the field shows and submits UTC: that is a zone      *)
(* whose clock is the identity, as far as the outcome goes.                *)
(***************************************************************************)
EXTENDS Integers

CONSTANTS
    MaxInstant, \* bound: the last instant
    MaxNow,     \* bound: the last instant of the clock
    Zones,      \* what a wall clock may show at each instant
    Displays,   \* what can be typed, times that do not exist included
    Presets,    \* hours of the preset buttons
    Far,        \* the first instant that is no RFC 3339 date, beyond 9999
    None,       \* no expiration, an empty field
    NoRow,      \* the link is not created yet
    Unparsable  \* a submitted value that is no date to the server

Instants == 0..MaxInstant

ASSUME BoundsAssumption == MaxInstant \in Nat /\ MaxNow \in Nat /\ Presets \subseteq Nat \ {0}
ASSUME ZonesAssumption == Zones \subseteq [Instants -> Displays]
ASSUME SentinelsAssumption ==
    /\ {None, NoRow, Unparsable} \cap (Instants \cup Displays) = {}
    /\ None # NoRow /\ None # Unparsable /\ NoRow # Unparsable
ASSUME FarAssumption == Far \in Int

VARIABLES
    zone,       \* the browser's time zone
    now,        \* both clocks
    row,        \* the link's expires_at, or NoRow before it is created
    at,         \* where the page is
    field,      \* the enhanced field
    posted,     \* the submitted value
    meant       \* history: the expirations the field may stand for, as its
                \* reader and writer take it

vars == <<zone, now, row, at, field, posted, meant>>

(***************************************************************************)
(* The field                                                               *)
(***************************************************************************)
ShowsAs(i) == IF i = None THEN None ELSE zone[i]

(* localDate: the engine takes one of two occurrences, always the same,    *)
(* and the check refuses a time that does not exist.                       *)
LocalDate(d) ==
    LET occurrences == {i \in Instants : zone[i] = d}
    IN  IF occurrences = {} THEN None ELSE CHOOSE i \in occurrences : TRUE

(* Mutant of Sync: the instant is always computed from what is shown.      *)
SyncFromDisplay(f) ==
    IF f.shown = None
    THEN [f EXCEPT !.absolute = None, !.lastDisplay = None, !.lastInstant = None, !.valid = TRUE]
    ELSE LET date == LocalDate(f.shown) IN
         IF date = None THEN [f EXCEPT !.absolute = None, !.valid = FALSE]
         ELSE [f EXCEPT !.absolute = date, !.lastDisplay = f.shown, !.lastInstant = date,
                        !.valid = TRUE]

Sync(f) ==
    IF f.shown = None
    THEN [f EXCEPT !.absolute = None, !.lastDisplay = None, !.lastInstant = None, !.valid = TRUE]
    ELSE LET date == IF f.shown = f.lastDisplay /\ f.lastInstant # None
                     THEN f.lastInstant ELSE LocalDate(f.shown) IN
         IF date = None THEN [f EXCEPT !.absolute = None, !.valid = FALSE]
         ELSE [f EXCEPT !.absolute = date, !.lastDisplay = f.shown, !.lastInstant = date,
                        !.valid = TRUE]

(* data-instant, and the set-up of the script, down to its first sync.     *)
Enhanced(instant) ==
    Sync([shown |-> ShowsAs(instant), lastDisplay |-> ShowsAs(instant), lastInstant |-> instant,
          absolute |-> instant, valid |-> TRUE])

Empty == [shown |-> None, lastDisplay |-> None, lastInstant |-> None, absolute |-> None,
          valid |-> TRUE]

(* Mutant of FromRaw: the page is rendered again with the field empty.     *)
FromRawEmpty(value) == None

(* ExpirationField::from_raw: what cannot be parsed is not shown again.    *)
FromRaw(value) == IF value = Unparsable THEN None ELSE value

(***************************************************************************)
(* Opening                                                                 *)
(***************************************************************************)
Stored == IF row = NoRow THEN None ELSE row

(* admin_list renders the create form, admin_edit_form the row's; the 303  *)
(* after a save leads to either.                                           *)
Open ==
    /\ at \in {"away", "saved", "failed"}
    /\ at' = "form"
    /\ field' = Enhanced(Stored)
    /\ meant' = {Stored}
    /\ UNCHANGED <<zone, now, row, posted>>

(***************************************************************************)
(* Editing: every change of the field runs sync                            *)
(***************************************************************************)
Edit(f, standsFor) ==
    /\ at = "form"
    /\ field' = Sync(f)
    /\ meant' = standsFor
    /\ UNCHANGED <<zone, now, row, at, posted>>

(* A time is typed or picked; either of two occurrences will do.           *)
Type(d) == Edit([field EXCEPT !.shown = d], {i \in Instants : zone[i] = d})

(* The field is emptied, or "Never" is clicked.                            *)
Clear ==
    Edit([field EXCEPT !.shown = None, !.lastDisplay = None, !.lastInstant = None], {None})

(* Mutant of Preset: the click sets the field and no more.                 *)
PresetByDisplay(hours) ==
    /\ now + hours <= MaxInstant
    /\ Edit([field EXCEPT !.shown = zone[now + hours]], {now + hours})

Preset(hours) ==
    /\ now + hours <= MaxInstant
    /\ LET date == now + hours IN
       Edit([field EXCEPT !.shown = zone[date], !.lastDisplay = zone[date], !.lastInstant = date],
            {date})

(***************************************************************************)
(* Submitting                                                              *)
(***************************************************************************)
(* toISOString writes a year beyond 9999 in a form that parse_admin_expires*)
(* does not take.                                                          *)
Sent(absolute) == IF absolute # None /\ absolute >= Far THEN Unparsable ELSE absolute

Submit ==
    /\ at = "form" /\ field.valid
    /\ posted' = Sent(field.absolute)
    /\ at' = "posted"
    /\ UNCHANGED <<zone, now, row, field, meant>>

(* create_link or update_link took the parsed value; the 303 may be lost.  *)
Save ==
    /\ posted # Unparsable
    /\ posted # None => posted > now
    /\ row' = posted
    /\ at' \in {"saved", "failed"}
    /\ field' = Empty /\ meant' = {}

(* A page without a form: html_error, or the answer is lost.               *)
Fail ==
    /\ at' = "failed"
    /\ field' = Empty /\ meant' = {} /\ UNCHANGED row

(* The draft in a page with the message.                                   *)
RenderDraft ==
    /\ at' = "form"
    /\ field' = Enhanced(FromRaw(posted))
    /\ meant' = IF posted = Unparsable THEN {None} ELSE meant
    /\ UNCHANGED row

(* render_list_with_error shows the form even when its query fails;        *)
(* render_edit_with_error shows the error of its own lookup instead.       *)
RenderListWithError == RenderDraft
RenderEditWithError == RenderDraft \/ Fail

Answered == posted' = None /\ UNCHANGED <<zone, now>>

(* A 403 comes before all else.  What is refused may be this field, or any *)
(* other of the form.                                                      *)
AdminCreate ==
    /\ at = "posted" /\ row = NoRow
    /\ Fail \/ Save \/ RenderListWithError
    /\ Answered

AdminUpdate ==
    /\ at = "posted" /\ row # NoRow
    /\ Fail \/ Save \/ RenderEditWithError
    /\ Answered

(***************************************************************************)
(* The others                                                              *)
(***************************************************************************)
OtherWrite ==
    /\ row # NoRow
    /\ row' \in {None} \cup {i \in Instants : i > now /\ i < Far}
    /\ UNCHANGED <<zone, now, at, field, posted, meant>>

Tick ==
    /\ now < MaxNow /\ now' = now + 1
    /\ UNCHANGED <<zone, row, at, field, posted, meant>>

(***************************************************************************)
(* The specification                                                       *)
(***************************************************************************)
Init ==
    /\ zone \in Zones
    /\ now = 0
    /\ row \in {NoRow, None} \cup {i \in Instants : i < Far}
    /\ at = "away" /\ field = Empty /\ posted = None /\ meant = {}

Next ==
    \/ Open \/ Clear \/ Submit \/ AdminCreate \/ AdminUpdate \/ OtherWrite \/ Tick
    \/ \E d \in Displays : Type(d)
    \/ \E hours \in Presets : Preset(hours)

Spec == Init /\ [][Next]_vars

(***************************************************************************)
(* Properties                                                              *)
(***************************************************************************)
TypeOK ==
    /\ zone \in Zones /\ now \in Nat
    /\ row \in Instants \cup {NoRow, None}
    /\ at \in {"away", "form", "posted", "saved", "failed"}
    /\ field \in [shown : Displays \cup {None}, lastDisplay : Displays \cup {None},
                  lastInstant : Instants \cup {None}, absolute : Instants \cup {None},
                  valid : BOOLEAN]
    /\ posted \in Instants \cup {None, Unparsable}
    /\ meant \subseteq Instants \cup {None}

(* A form is accepted only with an expiration that the field stood for:    *)
(* untouched, the very instant of the row the page showed, in a repeated   *)
(* hour too, and over any number of refused submissions; a preset, the     *)
(* instant counted from the click; typed, an instant that reads as typed.  *)
(* A time that does not exist is never saved (README.md:105-112,           *)
(* expiration.js:60-62, 86-89, 97-98).                                     *)
SavesWhatWasMeant == [][at = "posted" /\ Save => posted \in meant]_vars

(* A field that passes its own check shows the instant it would submit.    *)
(* So does the page after a refusal, unless the value could not be parsed. *)
ShownIsSubmitted ==
    (at = "form" /\ field.valid) =>
        /\ field.shown = ShowsAs(field.absolute)
        /\ field.absolute \in meant
=============================================================================
