-------------------------- MODULE PageScriptsProofs --------------------------
(***************************************************************************)
(* The page scripts.  The expiration field, for every set of time zones,   *)
(* every clock and every sequence of edits, refusals and lost answers:     *)
(* type correctness, ShownIsSubmitted and SavesWhatWasMeant.  The views    *)
(* and the copy button of a text, for any number of edits, copies and      *)
(* flashes: PreviewCatchesUp and LabelComesBack.                           *)
(*                                                                         *)
(* The argument for the field is the pair the script keeps: lastInstant,   *)
(* if there is one, reads as lastDisplay (PairInv).  Whatever event changes*)
(* the field, sync then turns what is shown into an instant that reads so, *)
(* and what is posted, or shown again with the draft, is one that was meant.*)
(* For the button it is that the last timer, or the label once there is    *)
(* none, holds what the last flash found (LabelInv).                       *)
(***************************************************************************)
EXTENDS PageScripts, TLAPS

Field == [shown : Displays \cup {None}, lastDisplay : Displays \cup {None},
          lastInstant : Instants \cup {None}, absolute : Instants \cup {None},
          valid : BOOLEAN]

(* The instant remembered reads as the display remembered.                 *)
PairInv(f) == f.lastInstant # None => f.lastDisplay = zone[f.lastInstant]

FieldInv ==
    at = "form" =>
        /\ PairInv(field)
        /\ field.valid =>
              field.shown = ShowsAs(field.absolute) /\ field.absolute \in meant

PostedInv == at = "posted" => posted = Unparsable \/ posted \in meant

IInv == TypeOK /\ FieldInv /\ PostedInv

(***************************************************************************)
(* The field                                                               *)
(***************************************************************************)
LEMMA Shows ==
    ASSUME zone \in Zones, NEW i \in Instants
    PROVE  zone[i] \in Displays /\ zone[i] # None /\ i # None
BY ZonesAssumption, SentinelsAssumption

(* A time that exists becomes an instant that reads so.                    *)
LEMMA LocalDateFacts ==
    ASSUME zone \in Zones, NEW d \in Displays
    PROVE  \/ LocalDate(d) = None /\ \A i \in Instants : zone[i] # d
           \/ LocalDate(d) \in Instants /\ zone[LocalDate(d)] = d
<1> DEFINE occurrences == {i \in Instants : zone[i] = d}
<1>1. CASE occurrences = {} BY <1>1 DEF LocalDate
<1>2. CASE occurrences # {}
  <2>1. (CHOOSE i \in occurrences : TRUE) \in occurrences BY <1>2
  <2> QED BY <1>2, <2>1 DEF LocalDate
<1> QED BY <1>1, <1>2

(* sync keeps what is shown, and, if the field is valid then, stands for   *)
(* the remembered instant or for one that reads as shown.                  *)
LEMMA SyncFacts ==
    ASSUME zone \in Zones, NEW f \in Field, PairInv(f)
    PROVE  /\ Sync(f) \in Field /\ PairInv(Sync(f)) /\ Sync(f).shown = f.shown
           /\ Sync(f).valid => Sync(f).shown = ShowsAs(Sync(f).absolute)
           /\ f.shown = None => Sync(f).valid /\ Sync(f).absolute = None
           /\ f.shown # None /\ f.shown = f.lastDisplay /\ f.lastInstant # None =>
                 Sync(f).valid /\ Sync(f).absolute = f.lastInstant
           /\ f.shown # None /\ Sync(f).valid => Sync(f).absolute \in Instants
<1> USE DEF Field
<1>1. CASE f.shown = None
  <2>1. Sync(f) = [f EXCEPT !.absolute = None, !.lastDisplay = None, !.lastInstant = None,
                            !.valid = TRUE]
    BY <1>1 DEF Sync
  <2> QED BY <1>1, <2>1 DEF PairInv, ShowsAs
<1>2. CASE f.shown # None
  <2> DEFINE date == IF f.shown = f.lastDisplay /\ f.lastInstant # None
                     THEN f.lastInstant ELSE LocalDate(f.shown)
  <2>1. f.shown \in Displays BY <1>2
  <2>2. date = None \/ (date \in Instants /\ zone[date] = f.shown)
    BY <2>1, LocalDateFacts DEF PairInv
  <2>3. Sync(f) = IF date = None THEN [f EXCEPT !.absolute = None, !.valid = FALSE]
                  ELSE [f EXCEPT !.absolute = date, !.lastDisplay = f.shown,
                                 !.lastInstant = date, !.valid = TRUE]
    BY <1>2 DEF Sync
  <2>4. CASE date = None
    <3>1. Sync(f) = [f EXCEPT !.absolute = None, !.valid = FALSE] BY <2>3, <2>4
    <3>2. ~(f.shown = f.lastDisplay /\ f.lastInstant # None) BY <2>4
    <3> HIDE DEF date
    <3> QED BY <1>2, <3>1, <3>2 DEF PairInv
  <2>5. CASE date # None
    <3>1. date \in Instants /\ zone[date] = f.shown BY <2>2, <2>5
    <3>2. f.shown = f.lastDisplay /\ f.lastInstant # None => date = f.lastInstant OBVIOUS
    <3> HIDE DEF date
    <3>3. Sync(f) = [f EXCEPT !.absolute = date, !.lastDisplay = f.shown,
                              !.lastInstant = date, !.valid = TRUE]
      BY <2>3, <2>5
    <3> QED BY <1>2, <2>5, <3>1, <3>2, <3>3 DEF PairInv, ShowsAs
  <2> QED BY <2>4, <2>5
<1> QED BY <1>1, <1>2

(* A field set up from an instant stands for it.                           *)
LEMMA EnhancedFacts ==
    ASSUME zone \in Zones, NEW i \in Instants \cup {None}
    PROVE  /\ Enhanced(i) \in Field /\ PairInv(Enhanced(i))
           /\ Enhanced(i).valid /\ Enhanced(i).absolute = i
           /\ Enhanced(i).shown = ShowsAs(i)
<1> DEFINE f == [shown |-> ShowsAs(i), lastDisplay |-> ShowsAs(i), lastInstant |-> i,
                 absolute |-> i, valid |-> TRUE]
<1>1. f \in Field /\ PairInv(f) /\ (i = None <=> f.shown = None)
      /\ f.lastInstant = i /\ f.shown = f.lastDisplay /\ f.shown = ShowsAs(i)
  BY Shows DEF Field, PairInv, ShowsAs
<1>2. Enhanced(i) = Sync(f) BY DEF Enhanced
<1> HIDE DEF f
<1> QED BY <1>1, <1>2, SyncFacts

(***************************************************************************)
(* Steps                                                                   *)
(***************************************************************************)
LEMMA OpenInv == ASSUME IInv, Open PROVE IInv'
<1>1. Stored \in Instants \cup {None} BY DEF IInv, TypeOK, Stored
<1>2. /\ zone' = zone /\ zone \in Zones /\ now' = now /\ row' = row /\ posted' = posted
      /\ at' = "form" /\ field' = Enhanced(Stored) /\ meant' = {Stored}
  BY DEF Open, IInv, TypeOK
<1>3. /\ field' \in Field /\ PairInv(field') /\ field'.valid
      /\ field'.absolute = Stored /\ field'.shown = ShowsAs(Stored)
  BY <1>1, <1>2, EnhancedFacts
<1>4. TypeOK' BY <1>1, <1>2, <1>3 DEF IInv, TypeOK, Field
<1> QED BY <1>2, <1>3, <1>4 DEF IInv, FieldInv, PostedInv, PairInv, ShowsAs

(* An edit that shows d leaves a field that stands for something meant, if *)
(* every instant that reads as d was, or d is remembered with one that was.*)
LEMMA EditInv ==
    ASSUME IInv, NEW f \in Field, PairInv(f), NEW m \in SUBSET (Instants \cup {None}),
           Edit(f, m),
           f.shown = None => None \in m,
           \/ f.shown # None /\ f.shown = f.lastDisplay /\ f.lastInstant # None
                 /\ f.lastInstant \in m
           \/ \A i \in Instants : zone[i] = f.shown => i \in m
    PROVE  IInv'
<1>1. /\ zone' = zone /\ zone \in Zones /\ now' = now /\ row' = row /\ posted' = posted
      /\ at = "form" /\ at' = "form" /\ field' = Sync(f) /\ meant' = m
  BY DEF Edit, IInv, TypeOK
<1>2. /\ Sync(f) \in Field /\ PairInv(Sync(f)) /\ Sync(f).shown = f.shown
      /\ Sync(f).valid => Sync(f).shown = ShowsAs(Sync(f).absolute)
      /\ f.shown = None => Sync(f).valid /\ Sync(f).absolute = None
      /\ f.shown # None /\ f.shown = f.lastDisplay /\ f.lastInstant # None =>
            Sync(f).valid /\ Sync(f).absolute = f.lastInstant
      /\ f.shown # None /\ Sync(f).valid => Sync(f).absolute \in Instants
  BY <1>1, SyncFacts
<1>3. Sync(f).valid => Sync(f).absolute \in m
  <2>1. CASE f.shown = None BY <1>2, <2>1
  <2>2. CASE f.shown # None /\ f.shown = f.lastDisplay /\ f.lastInstant # None
                /\ f.lastInstant \in m
    BY <1>2, <2>2
  <2>3. CASE f.shown # None /\ \A i \in Instants : zone[i] = f.shown => i \in m
    <3> SUFFICES ASSUME Sync(f).valid PROVE Sync(f).absolute \in m
      OBVIOUS
    <3>1. Sync(f).absolute \in Instants BY <1>2, <2>3
    <3>2. zone[Sync(f).absolute] = f.shown
      BY <1>2, <3>1, SentinelsAssumption DEF ShowsAs
    <3> QED BY <2>3, <3>1, <3>2
  <2> QED BY <2>1, <2>2, <2>3
<1>4. TypeOK' BY <1>1, <1>2 DEF IInv, TypeOK, Field
<1> QED BY <1>1, <1>2, <1>3, <1>4 DEF IInv, FieldInv, PostedInv, PairInv, ShowsAs

LEMMA TypeInv == ASSUME IInv, NEW d \in Displays, Type(d) PROVE IInv'
<1> DEFINE f == [field EXCEPT !.shown = d]
<1>1. field \in Field /\ PairInv(field)
  BY DEF Type, Edit, IInv, TypeOK, FieldInv, Field
<1>2. /\ f \in Field /\ f.shown = d
      /\ f.lastInstant = field.lastInstant /\ f.lastDisplay = field.lastDisplay
  BY <1>1 DEF Field
<1>3. PairInv(f) /\ d # None BY <1>1, <1>2, SentinelsAssumption DEF PairInv
<1>4. Edit(f, {i \in Instants : zone[i] = d}) BY DEF Type
<1> HIDE DEF f
<1> QED BY <1>2, <1>3, <1>4, EditInv

LEMMA ClearInv == ASSUME IInv, Clear PROVE IInv'
<1> DEFINE f == [field EXCEPT !.shown = None, !.lastDisplay = None, !.lastInstant = None]
<1>1. field \in Field BY DEF Clear, Edit, IInv, TypeOK, Field
<1>2. /\ f \in Field /\ f.shown = None /\ f.lastInstant = None BY <1>1 DEF Field
<1>3. PairInv(f) BY <1>2 DEF PairInv
<1>4. Edit(f, {None}) BY DEF Clear
<1>5. \A i \in Instants : zone[i] # None BY Shows DEF IInv, TypeOK
<1> HIDE DEF f
<1> QED BY <1>2, <1>3, <1>4, <1>5, EditInv

LEMMA PresetInv == ASSUME IInv, NEW hours \in Presets, Preset(hours) PROVE IInv'
<1> DEFINE date == now + hours
           f == [field EXCEPT !.shown = zone[date], !.lastDisplay = zone[date],
                              !.lastInstant = date]
<1>1. field \in Field /\ zone \in Zones BY DEF Preset, Edit, IInv, TypeOK, Field
<1>2. date \in Instants BY BoundsAssumption DEF Preset, IInv, TypeOK, Instants
<1>3. Edit(f, {date}) BY DEF Preset
<1> HIDE DEF date
<1>4. zone[date] \in Displays /\ zone[date] # None /\ date # None BY <1>1, <1>2, Shows
<1>5. /\ f \in Field /\ f.shown = zone[date] /\ f.lastDisplay = zone[date]
      /\ f.lastInstant = date
  BY <1>1, <1>2, <1>4 DEF Field
<1>6. PairInv(f) BY <1>5 DEF PairInv
<1> HIDE DEF f
<1> QED BY <1>2, <1>3, <1>4, <1>5, <1>6, EditInv

LEMMA SubmitInv == ASSUME IInv, Submit PROVE IInv'
<1>1. /\ field.absolute \in (Instants \cup {None}) \cap meant
      /\ Sent(field.absolute) \in {field.absolute, Unparsable}
  BY DEF Submit, IInv, TypeOK, FieldInv, Sent
<1>2. TypeOK' BY <1>1 DEF Submit, IInv, TypeOK
<1> QED BY <1>1, <1>2 DEF Submit, IInv, FieldInv, PostedInv

(* Saved, failed, or shown again with the draft.                           *)
LEMMA AnsweredInv ==
    ASSUME IInv, at = "posted", Fail \/ Save \/ RenderDraft, Answered
    PROVE  IInv'
<1>1. /\ zone' = zone /\ zone \in Zones /\ now' = now /\ posted' = None
      /\ posted \in Instants \cup {None, Unparsable}
      /\ posted = Unparsable \/ posted \in meant
      /\ meant \subseteq Instants \cup {None}
  BY DEF Answered, IInv, TypeOK, PostedInv
<1>2. Empty \in Field BY DEF Empty, Field
<1>3. CASE Fail \/ Save
  <2>1. TypeOK' BY <1>1, <1>2, <1>3 DEF Fail, Save, IInv, TypeOK, Field
  <2> QED BY <1>3, <2>1 DEF Fail, Save, IInv, FieldInv, PostedInv
<1>4. CASE RenderDraft
  <2> DEFINE value == FromRaw(posted)
  <2>1. value \in Instants \cup {None} /\ value \in meant'
    BY <1>1, <1>4 DEF RenderDraft, FromRaw
  <2>2. at' = "form" /\ field' = Enhanced(value) /\ row' = row
        /\ meant' \subseteq Instants \cup {None}
    BY <1>1, <1>4 DEF RenderDraft
  <2> HIDE DEF value
  <2>3. /\ field' \in Field /\ PairInv(field') /\ field'.valid
        /\ field'.absolute = value /\ field'.shown = ShowsAs(value)
    BY <1>1, <2>1, <2>2, EnhancedFacts
  <2>4. TypeOK' BY <1>1, <2>2, <2>3 DEF IInv, TypeOK, Field
  <2> QED BY <1>1, <2>1, <2>2, <2>3, <2>4 DEF IInv, FieldInv, PostedInv, PairInv, ShowsAs
<1> QED BY <1>3, <1>4

LEMMA OthersInv ==
    ASSUME IInv, OtherWrite \/ Tick \/ UNCHANGED vars
    PROVE  IInv'
<1>1. TypeOK' BY DEF OtherWrite, Tick, vars, IInv, TypeOK
<1> QED BY <1>1 DEF OtherWrite, Tick, vars, IInv, FieldInv, PostedInv, PairInv, ShowsAs

LEMMA InitInv == Init => IInv
<1> SUFFICES ASSUME Init PROVE IInv
  OBVIOUS
<1>1. Empty \in Field BY DEF Empty, Field
<1>2. TypeOK BY <1>1 DEF Init, TypeOK, Field
<1> QED BY <1>2 DEF Init, IInv, FieldInv, PostedInv

LEMMA NextInv == IInv /\ [Next]_vars => IInv'
BY OpenInv, TypeInv, ClearInv, PresetInv, SubmitInv, AnsweredInv, OthersInv
   DEF Next, AdminCreate, AdminUpdate, RenderListWithError, RenderEditWithError

(***************************************************************************)
(* Theorems                                                                *)
(***************************************************************************)
(* The remembered pair is consistent, and what is posted was meant.        *)
THEOREM Invariance == Spec => []IInv
<1> QED BY InitInv, NextInv, PTL DEF Spec

(* The row, the field and what is posted keep their types.                 *)
THEOREM TypeCorrect == Spec => []TypeOK
<1>1. IInv => TypeOK BY DEF IInv
<1> QED BY <1>1, Invariance, PTL

(* A field that passes its own check shows the instant it would submit, in *)
(* every time zone (expiration.js:51-73).                                  *)
THEOREM ShowsWhatItSubmits == Spec => []ShownIsSubmitted
<1>1. IInv => ShownIsSubmitted BY DEF IInv, FieldInv, ShownIsSubmitted
<1> QED BY <1>1, Invariance, PTL

(* A form is accepted only with an expiration the field stood for          *)
(* (expiration.js:60-62, 86-89; admin_create, admin_update).               *)
THEOREM SavedWasMeant == Spec => SavesWhatWasMeant
<1>1. IInv /\ [Next]_vars => [at = "posted" /\ Save => posted \in meant]_vars
  BY DEF IInv, PostedInv, Save
<1> QED BY <1>1, Invariance, PTL DEF SavesWhatWasMeant, Spec

(***************************************************************************)
(* The views and the copy button                                           *)
(***************************************************************************)
LabelInv ==
    /\ label \in {"Copy", "Copied!"} /\ restores \in Seq({"Copy", "Copied!"})
    /\ overlapped = (IF restores = <<>> THEN label = "Copied!"
                     ELSE restores[Len(restores)] = "Copied!")

TextInv == PreviewCatchesUp /\ LabelInv

LEMMA TextStep == TextInv /\ TextNext => TextInv'
<1> SUFFICES ASSUME TextInv, TextNext PROVE TextInv'
  OBVIOUS
<1> USE DEF TextInv
<1>r. Render => PreviewCatchesUp'
  BY DEF Render, PreviewCatchesUp, Content
<1>k. UNCHANGED previewVars => PreviewCatchesUp'
  BY DEF previewVars, PreviewCatchesUp
<1>c. UNCHANGED copyVars \/ UNCHANGED <<label, restores, overlapped>> => LabelInv'
  BY DEF copyVars, LabelInv
<1>f. Flash => LabelInv'
  <2> SUFFICES ASSUME Flash PROVE LabelInv'
    OBVIOUS
  <2>1. /\ label \in {"Copy", "Copied!"} /\ restores \in Seq({"Copy", "Copied!"})
        /\ label' = "Copied!" /\ restores' = Append(restores, label)
        /\ overlapped' = (label = "Copied!")
    BY DEF LabelInv, Flash
  <2>2. /\ restores' \in Seq({"Copy", "Copied!"}) /\ restores' # <<>>
        /\ restores'[Len(restores')] = label
    BY <2>1
  <2> QED BY <2>1, <2>2 DEF LabelInv
<1>1. CASE Input
  BY <1>1, <1>c DEF Input, PreviewCatchesUp
<1>2. CASE Debounced
  BY <1>2, <1>c, <1>r DEF Debounced
<1>3. CASE ClickCopy
  BY <1>3, <1>c, <1>k DEF ClickCopy
<1>4. CASE Copied
  BY <1>4, <1>f, <1>k DEF Copied
<1>5. CASE ClipboardRefuses
  BY <1>5, <1>c, <1>f, <1>k, <1>r DEF ClipboardRefuses
<1>6. CASE Restore
  <2>1. UNCHANGED previewVars /\ restores # <<>> BY <1>6 DEF Restore
  <2>2. /\ restores \in Seq({"Copy", "Copied!"})
        /\ overlapped = (restores[Len(restores)] = "Copied!")
        /\ label' = Head(restores) /\ restores' = Tail(restores) /\ overlapped' = overlapped
    BY <1>6, <2>1 DEF Restore, LabelInv
  <2>3. label' \in {"Copy", "Copied!"} /\ restores' \in Seq({"Copy", "Copied!"})
    BY <2>1, <2>2
  <2>4. CASE Len(restores) = 1
    <3>1. restores' = <<>> /\ label' = restores[1] BY <2>1, <2>2, <2>4
    <3> QED BY <1>k, <2>1, <2>2, <2>3, <2>4, <3>1 DEF LabelInv
  <2>5. CASE Len(restores) > 1
    <3>1. restores' # <<>> /\ restores'[Len(restores')] = restores[Len(restores)]
      BY <2>1, <2>2, <2>5
    <3> QED BY <1>k, <2>1, <2>2, <2>3, <3>1 DEF LabelInv
  <2> QED BY <2>1, <2>2, <2>4, <2>5
<1>7. ASSUME NEW v \in Views, Choose(v) PROVE TextInv'
  BY <1>7, <1>c, <1>r DEF Choose
<1>8. ASSUME NEW l \in Languages, ChooseLanguage(l) PROVE TextInv'
  BY <1>8, <1>c, <1>r DEF ChooseLanguage
<1> QED BY <1>1, <1>2, <1>3, <1>4, <1>5, <1>6, <1>7, <1>8 DEF TextNext

(* The page keeps both invariants, whichever of its scripts is at work.    *)
THEOREM PageInvariance == PageSpec => [](IInv /\ TextInv)
<1>1. PageInit => IInv /\ TextInv
  <2>1. <<>> \in Seq({"Copy", "Copied!"}) OBVIOUS
  <2> QED BY <2>1, InitInv DEF PageInit, TextInit, TextInv, PreviewCatchesUp, LabelInv
<1>2. IInv /\ TextInv /\ [PageNext]_<<vars, textVars>> => (IInv /\ TextInv)'
  <2> SUFFICES ASSUME IInv, TextInv, [PageNext]_<<vars, textVars>> PROVE (IInv /\ TextInv)'
    OBVIOUS
  <2>1. UNCHANGED vars => IInv' BY NextInv
  <2>2. UNCHANGED textVars => TextInv'
    BY DEF textVars, TextInv, PreviewCatchesUp, LabelInv
  <2> QED BY <2>1, <2>2, NextInv, TextStep DEF PageNext
<1> QED BY <1>1, <1>2, PTL DEF PageSpec

(* A shown preview is of the text and language as they are, or is about to *)
(* be, for any number of edits and languages (text-shares.js:74-84).       *)
THEOREM PreviewsCatchUp == PageSpec => []PreviewCatchesUp
<1>1. TextInv => PreviewCatchesUp BY DEF TextInv
<1> QED BY <1>1, PageInvariance, PTL

(* With no timer left, the copy button has its own label exactly if the    *)
(* last flash found it, for any number of clicks (app.js:18-24).           *)
THEOREM LabelsComeBack == PageSpec => []LabelComesBack
<1>1. TextInv => LabelComesBack
  BY DEF TextInv, LabelInv, LabelComesBack
<1> QED BY <1>1, PageInvariance, PTL
=============================================================================
