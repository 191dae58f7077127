---------------------------- MODULE PublicVisit -----------------------------
(***************************************************************************)
(* The public readers of the link table (src/web/public.rs): the redirect  *)
(* or text page of GET and HEAD /{slug}, and /{slug}/download.  A visit    *)
(* reads the row, later reads the clock, and a GET later still reads the   *)
(* clock again for its click, while writers change the table under it.     *)
(***************************************************************************)
EXTENDS LinkTable

CONSTANTS
    Visits,     \* public requests; they share nothing but the table they read
    Rows        \* bound: the rows that the writers of a run may leave

ASSUME RowsAssumption == Rows \subseteq Row
ASSUME MaxNowAssumption == MaxNow \in Nat

VARIABLES
    pc,         \* where each visit's handler stands
    ask,        \* what it asks for, and when it arrived
    found,      \* the row its lookup returned
    reply,      \* its answer
    click,      \* the click it enqueued, if any
    truths,     \* ghost: the answers that were right at an instant of the visit
    dues        \* ghost: the expiries its link had, while enabled, in the visit

vars == <<links, now, pc, ask, found, reply, click, truths, dues>>

Methods == {"GET", "HEAD", "download"}
Ask == [how : Methods, slug : Slugs, from : Nat]
NoAsk == [how |-> "none", slug |-> Null, from |-> 0]

Say(status, body) == [status |-> status, body |-> body]
Silence == Say("none", Null)

(* A text page, a download of its bytes, or a redirect.                    *)
Content(row) == IF IsText(row) THEN Say("200", row.text) ELSE Say("302", row.target)

Init ==
    /\ TableInit
    /\ pc = [v \in Visits |-> "idle"]
    /\ ask = [v \in Visits |-> NoAsk]
    /\ found = [v \in Visits |-> NoRow]
    /\ reply = [v \in Visits |-> Silence]
    /\ click = [v \in Visits |-> Null]
    /\ truths = [v \in Visits |-> {}]
    /\ dues = [v \in Visits |-> {}]

(***************************************************************************)
(* What is right at an instant: a link is available from its creation,     *)
(* except while it is disabled, until it expires; only a text downloads.   *)
(***************************************************************************)
Hidden(row) == row = NoRow \/ row.disabled # Null
Over(row, at) == row.expires # Null /\ ~(at < row.expires)

Truth(row, at, how) ==
    IF Hidden(row) THEN Say("404", Null)
    ELSE IF Over(row, at) THEN Say("410", Null)
    ELSE IF how = "download" /\ row.text = Null THEN Say("404", Null)
    ELSE Content(row)

Due(row) == IF Hidden(row) THEN {} ELSE {row.expires} \ {Null}

(* Every step lets the ghosts of the visits under way see its result.      *)
Awake(v) == pc'[v] # "idle" /\ pc[v] # "done"

Witness ==
    /\ truths' = [v \in Visits |->
          IF Awake(v)
          THEN truths[v] \cup {Truth(links'[ask'[v].slug], now', ask'[v].how)}
          ELSE truths[v]]
    /\ dues' = [v \in Visits |->
          IF Awake(v) THEN dues[v] \cup Due(links'[ask'[v].slug]) ELSE dues[v]]

(***************************************************************************)
(* The handlers                                                            *)
(***************************************************************************)
Goto(v, label) == pc' = [pc EXCEPT ![v] = label]
Answer(v, a) == Goto(v, "done") /\ reply' = [reply EXCEPT ![v] = a]

Arrive(v, how, s) ==
    /\ pc[v] = "idle"
    /\ ask' = [ask EXCEPT ![v] = [how |-> how, slug |-> s, from |-> now]]
    /\ Goto(v, "lookup")
    /\ UNCHANGED <<links, now, found, reply, click>>

(* get_link: the row, none, or a database error.                           *)
Lookup(v) ==
    /\ pc[v] = "lookup"
    /\ \/ /\ links[ask[v].slug] # NoRow
          /\ found' = [found EXCEPT ![v] = links[ask[v].slug]]
          /\ Goto(v, "resolve")
          /\ UNCHANGED reply
       \/ /\ links[ask[v].slug] = NoRow
          /\ Answer(v, Say("404", Null))
          /\ UNCHANGED found
       \/ Answer(v, Say("500", Null)) /\ UNCHANGED found
    /\ UNCHANGED <<links, now, ask, click>>

(* Mutant of Serve: HEAD requests count as well.                           *)
ServeCountingHeads(v, row) ==
    \/ ask[v].how \in {"GET", "HEAD"} /\ Goto(v, "record") /\ UNCHANGED reply
    \/ ask[v].how = "download" /\ IsText(row) /\ Answer(v, Content(row))
    \/ ask[v].how = "download" /\ ~IsText(row) /\ Answer(v, Say("404", Null))

(* An available link: a GET has its click to record first.                 *)
Serve(v, row) ==
    \/ ask[v].how = "GET" /\ Goto(v, "record") /\ UNCHANGED reply
    \/ ask[v].how = "HEAD" /\ Answer(v, Content(row))
    \/ ask[v].how = "download" /\ IsText(row) /\ Answer(v, Content(row))
    \/ ask[v].how = "download" /\ ~IsText(row) /\ Answer(v, Say("404", Null))

(* Mutants of Resolve: the clock was read when the request arrived; expiry *)
(* is checked before the disabled mark.                                    *)
ResolveAtArrival(v) ==
    /\ pc[v] = "resolve"
    /\ LET row == found[v]
           at == ask[v].from IN
       \/ IsDisabled(row) /\ Answer(v, Say("404", Null))
       \/ ~IsDisabled(row) /\ IsExpired(row, at) /\ Answer(v, Say("410", Null))
       \/ ~IsDisabled(row) /\ ~IsExpired(row, at) /\ Serve(v, row)
    /\ UNCHANGED <<links, now, ask, found, click>>

ResolveExpiryFirst(v) ==
    /\ pc[v] = "resolve"
    /\ LET row == found[v] IN
       \/ IsExpired(row, now) /\ Answer(v, Say("410", Null))
       \/ ~IsExpired(row, now) /\ IsDisabled(row) /\ Answer(v, Say("404", Null))
       \/ ~IsExpired(row, now) /\ ~IsDisabled(row) /\ Serve(v, row)
    /\ UNCHANGED <<links, now, ask, found, click>>

(* resolve_redirect goes on with the row and reads the clock.  Stored      *)
(* targets are valid, so that its defensive header check never fails.      *)
Resolve(v) ==
    /\ pc[v] = "resolve"
    /\ LET row == found[v] IN
       \/ IsDisabled(row) /\ Answer(v, Say("404", Null))
       \/ ~IsDisabled(row) /\ IsExpired(row, now) /\ Answer(v, Say("410", Null))
       \/ ~IsDisabled(row) /\ ~IsExpired(row, now) /\ Serve(v, row)
    /\ UNCHANGED <<links, now, ask, found, click>>

(* Mutant of Record: the click carries the slug instead of the link's id.  *)
RecordSlug(v) ==
    /\ pc[v] = "record"
    /\ \/ click' = [click EXCEPT ![v] = [link |-> ask[v].slug, at |-> now]]
       \/ UNCHANGED click
    /\ Answer(v, Content(found[v]))
    /\ UNCHANGED <<links, now, ask, found>>

(* A GET offers its click to the recorder, which may drop it, and answers  *)
(* in either case.                                                         *)
Record(v) ==
    /\ pc[v] = "record"
    /\ \/ click' = [click EXCEPT ![v] = [link |-> found[v].id, at |-> now]]
       \/ UNCHANGED click
    /\ Answer(v, Content(found[v]))
    /\ UNCHANGED <<links, now, ask, found>>

(* The lookup waits too long for a connection: the TimeoutLayer answers.   *)
Timeout(v) ==
    /\ pc[v] = "lookup"
    /\ Answer(v, Say("408", Null))
    /\ UNCHANGED <<links, now, ask, found, click>>

(* A mutation commits (LinkStore), or time passes.                         *)
Change ==
    /\ \/ Tick
       \/ \E s \in Slugs, row \in Rows : links' = [links EXCEPT ![s] = row] /\ Write(s)
    /\ UNCHANGED <<pc, ask, found, reply, click>>

Handle(v) == Lookup(v) \/ Resolve(v) \/ Record(v)

Next ==
    /\ \/ \E v \in Visits :
             \/ \E how \in Methods, s \in Slugs : Arrive(v, how, s)
             \/ Handle(v)
             \/ Timeout(v)
       \/ Change
    /\ Witness

Spec == Init /\ [][Next]_vars

(***************************************************************************)
(* Properties                                                              *)
(***************************************************************************)
Answers == [status : {"none", "200", "302", "404", "408", "410", "500"},
            body : Targets \cup Texts \cup {Null}]

TypeOK ==
    /\ links \in [Slugs -> Row \cup {NoRow}]
    /\ now \in 0 .. MaxNow
    /\ pc \in [Visits -> {"idle", "lookup", "resolve", "record", "done"}]
    /\ ask \in [Visits -> Ask \cup {NoAsk}]
    /\ found \in [Visits -> Row \cup {NoRow}]
    /\ reply \in [Visits -> Answers]
    /\ click \in [Visits -> [link : Reqs, at : Nat] \cup {Null}]
    /\ truths \in [Visits -> SUBSET Answers]
    /\ dues \in [Visits -> SUBSET Nat]

(* A page, a redirect, a download or a "not found" was the right answer at *)
(* an instant between the visit's arrival and its answer: although row and *)
(* clock are read apart, nobody is served a link after it was disabled or  *)
(* had expired, or content of a row that was never there.                  *)
AnswerWasTrue ==
    \A v \in Visits : reply[v].status \in {"200", "302", "404"} => reply[v] \in truths[v]

(* "link has expired" is only said of a link that, during the visit, was   *)
(* enabled and carried an expiry that has passed by the time of the answer *)
(* (it may have been extended in the meantime).                            *)
GoneWasDue ==
    \A v \in Visits : reply[v].status = "410" => \E e \in dues[v] : e <= now

(* A click is recorded only for a GET that is served, and for the link it  *)
(* was served from: not for HEAD, downloads, or links that are gone.       *)
OnlyViewsCount ==
    \A v \in Visits : click[v] # Null =>
        /\ ask[v].how = "GET" /\ reply[v].status \in {"200", "302"}
        /\ click[v].link = found[v].id /\ reply[v] = Content(found[v])
=============================================================================
