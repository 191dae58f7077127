----------------------------- MODULE LinkStore ------------------------------
(***************************************************************************)
(* The mutation handlers of the API and the admin UI over the shared       *)
(* `links` table (src/web/api.rs, src/web/admin.rs, src/db/links.rs).      *)
(*                                                                         *)
(* A handler is a sequence of steps between awaits: a lookup, a check of   *)
(* the request against what the lookup saw, a reading of the clock, one    *)
(* SQL statement that SQLite runs atomically on a connection's own worker  *)
(* thread, an optional statistics query, the answer.  Requests interleave  *)
(* at every await; the ten-second TimeoutLayer may drop a handler at any   *)
(* of them, and the process may die.                                       *)
(***************************************************************************)
EXTENDS LinkRows

CONSTANTS
    Ops,        \* the mutations clients may send
    Generated,  \* the slugs generate_slug may draw
    MaxRetries, \* MAX_CREATE_RETRIES
    MaxNow      \* bound: the last instant of the clock

Supplies(dom) == dom \cup {Null, Keep}

AllOps == [op : {"create", "patch", "disable", "enable"}, api : BOOLEAN,
           slug : Slugs \cup {Null},
           target : Supplies(Targets), text : Supplies(Texts),
           label : Supplies(Labels), expires : Supplies(Nat)]

(* What the request parsers can produce: a create supplies every field, a  *)
(* toggle none, a custom slug may be missing only from a create, a patch   *)
(* cannot set a content column to NULL, and the admin form always sends    *)
(* the label and the expiry (admin.rs:744-749).                            *)
Parsable(o) ==
    /\ o.op = "create" => Keep \notin {o.target, o.text, o.label, o.expires}
    /\ o.op # "create" => o.slug # Null /\ Null \notin {o.target, o.text}
    /\ o.op \in {"disable", "enable"} =>
          {o.target, o.text, o.label, o.expires} = {Keep}
    /\ o.op = "patch" /\ ~o.api => Keep \notin {o.label, o.expires}

ASSUME OpsAssumption == Ops \subseteq {o \in AllOps : Parsable(o)}
ASSUME SlugAssumption == Generated \subseteq Slugs /\ Null \notin Slugs
ASSUME BoundAssumption == MaxRetries \in Nat \ {0} /\ MaxNow \in Nat
ASSUME ReqAssumption == Null \notin Reqs

VARIABLES
    links,      \* the table
    now,        \* now_millis()
    pc,         \* where each request's handler stands
    op,         \* what each request asks for
    seen,       \* the row that update_link's lookup returned
    stamp,      \* the `now` bound to the statement
    slug,       \* the slug bound to the statement
    tries,      \* create attempts that have conflicted
    outcome,    \* what the statement, or the failing step, yielded
    reply,      \* the status the client receives; "ok" is any 2xx or 303
    committed,  \* ghost: the request's statement changed the table
    writer      \* ghost: per slug, the request that last wrote each field

tableVars == <<links, now>>
vars == <<links, now, pc, op, seen, stamp, slug, tries, outcome, reply,
          committed, writer>>

Fields == {"target", "text", "label", "expires", "disabled", "row"}

Init ==
    /\ links = [s \in Slugs |-> NoRow]
    /\ now = 0
    /\ pc = [r \in Reqs |-> "idle"]
    /\ op = [r \in Reqs |-> Null]
    /\ seen = [r \in Reqs |-> NoRow]
    /\ stamp = [r \in Reqs |-> 0]
    /\ slug = [r \in Reqs |-> Null]
    /\ tries = [r \in Reqs |-> 0]
    /\ outcome = [r \in Reqs |-> "none"]
    /\ reply = [r \in Reqs |-> "none"]
    /\ committed = [r \in Reqs |-> FALSE]
    /\ writer = [s \in Slugs |-> [f \in Fields |-> Null]]

(***************************************************************************)
(* Validation                                                              *)
(***************************************************************************)
ValidExpiry(e, at) == e # Null => e > at /\ e \notin Invalid

(* Mutant of ValidContent: the target is not validated.                    *)
ContentUnvalidated(o) ==
    \/ o.text = Null /\ o.target # Null
    \/ o.text # Null /\ o.text \notin Invalid /\ o.target = Null

(* Exactly one of target_url and text_content, valid.                      *)
ValidContent(o) ==
    \/ o.text = Null /\ o.target # Null /\ o.target \notin Invalid
    \/ o.text # Null /\ o.text \notin Invalid /\ o.target = Null

ValidCreate(o, at) ==
    /\ ValidContent(o)
    /\ o.label \notin Invalid
    /\ ValidExpiry(o.expires, at)
    /\ o.slug \notin Invalid

(* Mutant of KeepsKind: the immutable-kind check is missing.               *)
KindUnchecked(o, row) == TRUE

(* Link types are immutable: the kind is checked on the row the lookup saw. *)
KeepsKind(o, row) ==
    IF IsText(row) THEN o.target = Keep ELSE o.text = Keep

ValidPatch(o, row, at) ==
    /\ KeepsKind(o, row)
    /\ Invalid \cap {o.target, o.text, o.label} = {}
    /\ o.expires # Keep => ValidExpiry(o.expires, at)

(* A patch that is refused for what it leaves out: every field in the API, *)
(* the content in the admin form, which sends the others always.           *)
EmptyPatch(o) ==
    /\ o.op = "patch" /\ {o.target, o.text} = {Keep}
    /\ o.api => {o.label, o.expires} = {Keep}

(***************************************************************************)
(* The steps of a handler                                                  *)
(***************************************************************************)
Goto(r, label) == pc' = [pc EXCEPT ![r] = label]
Answer(r, status) == Goto(r, "done") /\ reply' = [reply EXCEPT ![r] = status]

(* The API and the toggles answer an error at once; the admin forms first  *)
(* query the database again to re-render the page.                         *)
Rerenders(o) == ~o.api /\ o.op \in {"create", "patch"}

Fail(r, o, status) ==
    IF Rerenders(o)
    THEN /\ Goto(r, "render")
         /\ outcome' = [outcome EXCEPT ![r] = status]
         /\ UNCHANGED reply
    ELSE Answer(r, status) /\ UNCHANGED outcome

(* Mutant of Begin: a patch is run like a toggle, without a lookup.        *)
BeginWithoutLookup(r, o) ==
    /\ pc[r] = "idle"
    /\ op' = [op EXCEPT ![r] = o]
    /\ IF (o.op = "create" => ValidCreate(o, now)) /\ ~EmptyPatch(o)
       THEN Goto(r, "stamp") /\ UNCHANGED <<outcome, reply>>
       ELSE Fail(r, o, "422")
    /\ UNCHANGED <<links, now, seen, stamp, slug, tries, committed, writer>>

(* A handler starts and validates what it can before it awaits anything.   *)
Begin(r, o) ==
    /\ pc[r] = "idle"
    /\ op' = [op EXCEPT ![r] = o]
    /\ \/ /\ \/ o.op = "create" /\ ValidCreate(o, now)
             \/ o.op \in {"disable", "enable"}
          /\ Goto(r, "stamp")
          /\ UNCHANGED <<outcome, reply>>
       \/ /\ o.op = "patch" /\ ~EmptyPatch(o)
          /\ Goto(r, "lookup")
          /\ UNCHANGED <<outcome, reply>>
       \/ /\ EmptyPatch(o) \/ (o.op = "create" /\ ~ValidCreate(o, now))
          /\ Fail(r, o, "422")
    /\ UNCHANGED <<links, now, seen, stamp, slug, tries, committed, writer>>

(* A request without the custom header, the content type or a valid CSRF   *)
(* token, or with an oversized body, is turned away before any query.      *)
Reject(r) ==
    /\ pc[r] = "idle"
    /\ Answer(r, "refused")
    /\ UNCHANGED <<links, now, op, seen, stamp, slug, tries, outcome, committed,
                   writer>>

(* update_link's get_link runs in SQLite ...                               *)
Lookup(r) ==
    /\ pc[r] = "lookup"
    /\ \/ /\ seen' = [seen EXCEPT ![r] = links[op[r].slug]]
          /\ Goto(r, "check")
          /\ UNCHANGED <<outcome, reply>>
       \/ Fail(r, op[r], "500") /\ UNCHANGED seen
    /\ UNCHANGED <<links, now, op, stamp, slug, tries, committed, writer>>

(* ... and the handler resumes with the row it returned.                   *)
Check(r) ==
    /\ pc[r] = "check"
    /\ \/ seen[r] = NoRow /\ Fail(r, op[r], "404")
       \/ /\ seen[r] # NoRow /\ ValidPatch(op[r], seen[r], now)
          /\ Goto(r, "stamp")
          /\ UNCHANGED <<outcome, reply>>
       \/ /\ seen[r] # NoRow /\ ~ValidPatch(op[r], seen[r], now)
          /\ Fail(r, op[r], "422")
    /\ UNCHANGED <<links, now, op, seen, stamp, slug, tries, committed, writer>>

(* The clock is read, and a slug drawn if none is given, just before the   *)
(* statement is bound: after the expiry was validated.                     *)
Stamp(r) ==
    /\ pc[r] = "stamp"
    /\ stamp' = [stamp EXCEPT ![r] = now]
    /\ \E s \in IF op[r].slug = Null THEN Generated ELSE {op[r].slug} :
          slug' = [slug EXCEPT ![r] = s]
    /\ Goto(r, "ready")
    /\ UNCHANGED <<links, now, op, seen, tries, outcome, reply, committed, writer>>

(* A pool connection is free: its worker thread owns the statement now.    *)
Submit(r) ==
    /\ pc[r] = "ready"
    /\ Goto(r, "running")
    /\ UNCHANGED <<links, now, op, seen, stamp, slug, tries, outcome, reply,
                   committed, writer>>

(* Mutant of Written: a patch copies the fields it does not supply from    *)
(* the row its lookup saw.                                                 *)
WrittenFromLookup(r) ==
    LET row == links[slug[r]] IN
    CASE op[r].op = "create" -> InsertedRow(r, op[r], stamp[r])
      [] op[r].op = "patch" -> PatchedRow(seen[r], op[r], stamp[r])
      [] op[r].op \in {"disable", "enable"} -> ToggledRow(row, op[r], stamp[r])

(* The row that r's statement would leave under its slug.                  *)
Written(r) ==
    LET row == links[slug[r]] IN
    CASE op[r].op = "create" -> InsertedRow(r, op[r], stamp[r])
      [] op[r].op = "patch" -> PatchedRow(row, op[r], stamp[r])
      [] op[r].op \in {"disable", "enable"} -> ToggledRow(row, op[r], stamp[r])

(* The columns that r's statement sets from the request.                   *)
Sets(o, f) ==
    CASE o.op = "create" \/ f = "row" -> TRUE
      [] o.op = "patch" /\ f # "row" -> f # "disabled" /\ o[f] # Keep
      [] o.op \in {"disable", "enable"} /\ f # "row" -> f = "disabled"

Commit(r) ==
    /\ links' = [links EXCEPT ![slug[r]] = Written(r)]
    /\ committed' = [committed EXCEPT ![r] = TRUE]
    /\ writer' = [writer EXCEPT ![slug[r]] =
                    [f \in Fields |-> IF Sets(op[r], f) THEN r ELSE @[f]]]

NoCommit == UNCHANGED <<links, committed, writer>>

(* Mutants of Verdicts: every database error passes for a UNIQUE           *)
(* violation; INSERT OR REPLACE.                                           *)
VerdictsAllConflict(r) ==
    {"conflict"} \cup
    {IF op[r].op # "create" /\ links[slug[r]] = NoRow THEN "norow" ELSE "row"}

VerdictsReplace(r) ==
    {IF op[r].op # "create" /\ links[slug[r]] = NoRow THEN "norow" ELSE "row"}

(* What SQLite makes of the statement: the UNIQUE and CHECK constraints,   *)
(* no matching row, or an error of its own (busy, I/O).                    *)
Verdicts(r) ==
    LET row == links[slug[r]] IN
    {"error"} \cup
    {CASE op[r].op = "create" /\ row # NoRow -> "conflict"
       [] op[r].op # "create" /\ row = NoRow -> "norow"
       [] (op[r].op = "create") = (row = NoRow) ->
             IF SqlCheck(Written(r)) THEN "row" ELSE "check"}

(* The statement runs.  The worker thread runs it to the end even when the *)
(* handler that waits for it has been dropped.                             *)
Execute(r) ==
    /\ pc[r] \in {"running", "orphan"}
    /\ \E v \in Verdicts(r) :
          /\ outcome' = [outcome EXCEPT ![r] = v]
          /\ IF v = "row" THEN Commit(r) ELSE NoCommit
    /\ Goto(r, IF pc[r] = "running" THEN "executed" ELSE "done")
    /\ UNCHANGED <<now, op, seen, stamp, slug, tries, reply>>

(* Mutant of NextTry: attempts are not counted.                            *)
SameTry(t) == t

(* The retry budget of create_with_generated_slug.                         *)
NextTry(t) == t + 1

(* Only the PATCH and enable answers of the API look statistics up.        *)
Enriches(o) == o.api /\ o.op \in {"patch", "enable"}

(* The handler resumes with the result of its statement.                   *)
Resume(r) ==
    /\ pc[r] = "executed"
    /\ \/ /\ outcome[r] = "row" /\ Enriches(op[r])
          /\ Goto(r, "stats")
          /\ UNCHANGED <<tries, outcome, reply>>
       \/ /\ outcome[r] = "row" /\ ~Enriches(op[r])
          /\ Answer(r, "ok")
          /\ UNCHANGED <<tries, outcome>>
       \/ /\ outcome[r] = "conflict" /\ op[r].slug = Null
          /\ NextTry(tries[r]) < MaxRetries
          /\ Goto(r, "stamp")
          /\ tries' = [tries EXCEPT ![r] = NextTry(@)]
          /\ UNCHANGED <<outcome, reply>>
       \/ /\ outcome[r] = "conflict" /\ op[r].slug = Null
          /\ NextTry(tries[r]) >= MaxRetries
          /\ Fail(r, op[r], "500")
          /\ UNCHANGED tries
       \/ /\ outcome[r] = "conflict" /\ op[r].slug # Null
          /\ Fail(r, op[r], "409")
          /\ UNCHANGED tries
       \/ outcome[r] = "norow" /\ Fail(r, op[r], "404") /\ UNCHANGED tries
       \/ /\ outcome[r] \in {"error", "check"}
          /\ Fail(r, op[r], "500")
          /\ UNCHANGED tries
    /\ UNCHANGED <<links, now, op, seen, stamp, slug, committed, writer>>

(* Mutant of Enrich: a failed statistics lookup fails the request.         *)
EnrichOrFail(r) ==
    /\ pc[r] = "stats"
    /\ \E status \in {"ok", "500"} : Answer(r, status)
    /\ UNCHANGED <<links, now, op, seen, stamp, slug, tries, outcome, committed,
                   writer>>

(* enrich(): the statistics, or nulls when they fail or take over 100 ms.  *)
Enrich(r) ==
    /\ pc[r] = "stats"
    /\ Answer(r, "ok")
    /\ UNCHANGED <<links, now, op, seen, stamp, slug, tries, outcome, committed,
                   writer>>

(* render_list_with_error keeps the status whatever its query yields;      *)
(* render_edit_with_error answers its own lookup's error instead.          *)
Render(r) ==
    /\ pc[r] = "render"
    /\ \/ Answer(r, outcome[r])
       \/ /\ op[r].op = "patch"
          /\ \/ Answer(r, "500")
             \/ links[op[r].slug] = NoRow /\ Answer(r, "404")
    /\ UNCHANGED <<links, now, op, seen, stamp, slug, tries, outcome, committed,
                   writer>>

(* The TimeoutLayer drops a handler that waits.  A statement its worker    *)
(* thread already owns goes on without it.                                 *)
Waiting == {"lookup", "check", "ready", "running", "executed", "stats", "render"}

Timeout(r) ==
    /\ pc[r] \in Waiting
    /\ reply' = [reply EXCEPT ![r] = "408"]
    /\ Goto(r, IF pc[r] = "running" THEN "orphan" ELSE "done")
    /\ UNCHANGED <<links, now, op, seen, stamp, slug, tries, outcome, committed,
                   writer>>

(* The process dies: every handler and worker thread is gone, what SQLite  *)
(* committed stays.                                                        *)
Crash ==
    /\ \E r \in Reqs : pc[r] \notin {"idle", "done", "dead"}
    /\ pc' = [r \in Reqs |-> IF pc[r] \in {"idle", "done"} THEN pc[r] ELSE "dead"]
    /\ UNCHANGED <<links, now, op, seen, stamp, slug, tries, outcome, reply,
                   committed, writer>>

Tick ==
    /\ now < MaxNow
    /\ now' = now + 1
    /\ UNCHANGED <<links, pc, op, seen, stamp, slug, tries, outcome, reply,
                   committed, writer>>

(* The clients have no more to ask.                                        *)
Quiesce ==
    /\ now = MaxNow
    /\ \A r \in Reqs : pc[r] \in {"done", "dead"}
    /\ UNCHANGED vars

Handle(r) ==
    \/ Lookup(r) \/ Check(r) \/ Stamp(r) \/ Submit(r) \/ Execute(r)
    \/ Resume(r) \/ Enrich(r) \/ Render(r)

Next ==
    \/ \E r \in Reqs : Handle(r) \/ Timeout(r) \/ Reject(r) \/ \E o \in Ops : Begin(r, o)
    \/ Crash \/ Tick \/ Quiesce

Spec == Init /\ [][Next]_vars

(* The runtime polls a handler that can go on, and SQLite finishes each    *)
(* statement (busy_timeout bounds the wait for its lock).  The timeout is  *)
(* not needed, and not assumed, for a request to end.                      *)
FairSpec == Spec /\ \A r \in Reqs : WF_vars(Handle(r))

(***************************************************************************)
(* Properties                                                              *)
(***************************************************************************)
Handlers == {"idle", "lookup", "check", "stamp", "ready", "running",
             "executed", "stats", "render", "orphan", "done", "dead"}
Statuses == {"ok", "refused", "404", "408", "409", "422", "500"}

(* What the variables hold; in particular only validated values reach the  *)
(* table.                                                                  *)
TypeOK ==
    /\ links \in [Slugs -> Row \cup {NoRow}]
    /\ now \in 0 .. MaxNow
    /\ pc \in [Reqs -> Handlers]
    /\ op \in [Reqs -> Ops \cup {Null}]
    /\ seen \in [Reqs -> Row \cup {NoRow}]
    /\ stamp \in [Reqs -> 0 .. MaxNow]
    /\ slug \in [Reqs -> Slugs \cup {Null}]
    /\ tries \in [Reqs -> 0 .. MaxRetries - 1]
    /\ outcome \in [Reqs -> {"none", "row", "norow", "conflict", "check", "error"}
                            \cup Statuses]
    /\ reply \in [Reqs -> Statuses \cup {"none"}]
    /\ committed \in [Reqs -> BOOLEAN]
    /\ writer \in [Slugs -> [Fields -> Reqs \cup {Null}]]

(* A client that is told of success has its change in the table, and one   *)
(* that is told of an error other than the timeout has changed nothing,    *)
(* whatever interleaves, is retried, or fails after the statement.         *)
ReplyTellsCommit ==
    \A r \in Reqs : /\ reply[r] = "ok" => committed[r]
                    /\ reply[r] \in Statuses \ {"ok", "408"} => ~committed[r]

(* Concurrent patches of one link lose nothing: each column of a row still *)
(* holds what the last committed request that supplied it asked for, even  *)
(* though every patch looked the row up before others changed it           *)
(* (links.rs:480-482).                                                     *)
HoldsLastWrite ==
    \A s \in Slugs : links[s] # NoRow =>
        /\ \A f \in {"target", "text", "label", "expires"} :
              links[s][f] = op[writer[s][f]][f]
        /\ LET w == writer[s].disabled IN
              links[s].disabled = IF op[w].op = "disable" THEN stamp[w] ELSE Null

(* A 409 names a slug that another request's link holds, for good: a busy  *)
(* database or the retry budget is never reported as a conflict.           *)
ConflictMeansTaken ==
    \A r \in Reqs : reply[r] = "409" =>
        /\ op[r].op = "create" /\ op[r].slug # Null
        /\ links[op[r].slug] # NoRow /\ links[op[r].slug].id # r

(* The kind check on the looked-up row suffices: although the UPDATE runs  *)
(* later on whatever row is there, no statement ever trips the CHECK       *)
(* constraint of migration 0003, which would be a 500.                     *)
CheckNeverTrips == \A r \in Reqs : outcome[r] # "check"

(* set_disabled reads the clock before it knows that the link exists, so a *)
(* toggle may leave updated_at before created_at; a patch, which looks the *)
(* link up first, never does.                                              *)
OnlyTogglesPredate ==
    \A s \in Slugs : links[s] # NoRow /\ links[s].updated < links[s].created =>
        op[writer[s].row].op \in {"disable", "enable"}

(* Every step of the store is a step of the table its readers rely on: a   *)
(* slug is never reused, and one row changes at a time, whole.             *)
Table == INSTANCE LinkTable
ImplementsTable == Table!TableSpec

(* Every request is answered, or lost with the process, without help from  *)
(* the timeout: the retries of a generated slug end.                       *)
EveryRequestEnds == \A r \in Reqs : pc[r] # "idle" ~> pc[r] \in {"done", "dead"}
=============================================================================

