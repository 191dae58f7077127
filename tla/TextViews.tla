----------------------------- MODULE TextViews -----------------------------
(***************************************************************************)
(* The views of a shared text and the copy button (static/text-shares.js,  *)
(* static/app.js): the plain source, a markdown or a code preview rendered *)
(* from it with a debounce, and a button whose label flashes.  A text is   *)
(* its version; what rendering makes of it is left out, and is local.      *)
(***************************************************************************)
EXTENDS Integers, Sequences

CONSTANTS
    Languages,  \* choices of the language list
    MaxEdits,   \* bound: how often the text is edited
    MaxClicks   \* bound: copies waiting for the clipboard, and flashes

VARIABLES
    readOnly,   \* a shared page, not an editor
    source,     \* version of the textarea's text
    language,   \* the chosen code language
    view,       \* which view is chosen
    preview,    \* what the preview was last rendered from
    pending,    \* a render is due after the debounce
    copies,     \* clicks that wait for the clipboard
    label,      \* the text of the copy button
    restores,   \* the texts that pending timers will put back, in order
    overlapped  \* ghost: the last flash found a flashed label

textVars == <<readOnly, source, language, view, preview, pending, copies, label, restores, overlapped>>
previewVars == <<readOnly, source, language, view, preview, pending>>
copyVars == <<copies, label, restores, overlapped>>

Views == {"plain", "markdown", "code"}
Content(v) == [view |-> v, source |-> source', language |-> language']

(* render(): clears the debounce; a plain view leaves the hidden preview.  *)
Render ==
    /\ pending' = FALSE
    /\ preview' = IF view' = "plain" THEN preview ELSE Content(view')

(* The source of a read-only page is hidden while it is previewed.         *)
SourceHidden == readOnly /\ view # "plain"

Choose(v) ==
    /\ view' = v /\ UNCHANGED <<readOnly, source, language>>
    /\ Render /\ UNCHANGED copyVars

ChooseLanguage(l) ==
    /\ view = "code" /\ language' = l
    /\ UNCHANGED <<readOnly, source, view>>
    /\ Render /\ UNCHANGED copyVars

(* Mutant of Input: the costly code view is not rendered while typing.     *)
InputOutsideCode ==
    /\ ~readOnly /\ source < MaxEdits
    /\ source' = source + 1
    /\ pending' = (view = "markdown")
    /\ UNCHANGED <<readOnly, language, view, preview>> /\ UNCHANGED copyVars

(* An edit restarts the debounce, or drops it in the plain view.           *)
Input ==
    /\ ~readOnly /\ source < MaxEdits
    /\ source' = source + 1
    /\ pending' = (view # "plain")
    /\ UNCHANGED <<readOnly, language, view, preview>> /\ UNCHANGED copyVars

Debounced ==
    /\ pending /\ UNCHANGED <<readOnly, source, language, view>>
    /\ Render /\ UNCHANGED copyVars

ClickCopy ==
    /\ copies + Len(restores) < MaxClicks
    /\ copies' = copies + 1
    /\ UNCHANGED previewVars /\ UNCHANGED <<label, restores, overlapped>>

(* Mutant of Flash: the label is replaced before it is kept.               *)
FlashLate ==
    /\ label' = "Copied!" /\ restores' = Append(restores, "Copied!")
    /\ overlapped' = (label = "Copied!")

(* flash(): keeps the label it finds, be it a flashed one.                 *)
Flash ==
    /\ label' = "Copied!" /\ restores' = Append(restores, label)
    /\ overlapped' = (label = "Copied!")

Copied ==
    /\ copies > 0 /\ copies' = copies - 1
    /\ Flash /\ UNCHANGED previewVars

(* The clipboard refuses: the source is revealed and selected, and the old *)
(* command tried.  The copy button of an editor copies the link instead.   *)
ClipboardRefuses ==
    /\ copies > 0 /\ copies' = copies - 1
    /\ IF readOnly
       THEN view' = "plain" /\ Render /\ UNCHANGED <<readOnly, source, language>>
       ELSE UNCHANGED previewVars
    /\ Flash \/ UNCHANGED <<label, restores, overlapped>>

Restore ==
    /\ restores # <<>>
    /\ label' = Head(restores) /\ restores' = Tail(restores)
    /\ UNCHANGED previewVars /\ UNCHANGED <<copies, overlapped>>

TextInit ==
    /\ readOnly \in BOOLEAN /\ source = 0 /\ language \in Languages
    /\ view = "plain" /\ pending = FALSE
    /\ preview = [view |-> "plain", source |-> 0, language |-> language]
    /\ copies = 0 /\ label = "Copy" /\ restores = <<>> /\ overlapped = FALSE

TextNext ==
    \/ Input \/ Debounced \/ ClickCopy \/ Copied \/ ClipboardRefuses \/ Restore
    \/ \E v \in Views : Choose(v)
    \/ \E l \in Languages : ChooseLanguage(l)

(***************************************************************************)
(* Properties                                                              *)
(***************************************************************************)
(* A preview that is shown is of the text and the language as they are, or *)
(* is about to be rendered from them, over every order of edits, view      *)
(* changes, copies that reveal the source and late debounces               *)
(* (text-shares.js:74-84, 119-124).                                        *)
PreviewCatchesUp ==
    view = "plain" \/ pending
        \/ preview = [view |-> view, source |-> source, language |-> language]

(* Once all timers are over, the button has its own label back, whatever   *)
(* the order of clicks, late clipboards and timers, or it says "Copied!"   *)
(* for good; the latter exactly if the last flash began on a flashed label *)
(* and took that for the button's own: an earlier overlap is mended by a   *)
(* later flash that found the own label (app.js:18-24).                    *)
LabelComesBack ==
    /\ label \in {"Copy", "Copied!"}
    /\ restores = <<>> => (label = "Copied!") = overlapped
=============================================================================
