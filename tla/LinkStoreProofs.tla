--------------------------- MODULE LinkStoreProofs --------------------------
(***************************************************************************)
(* Theorems about LinkStore for any number of requests, slugs and values.  *)
(***************************************************************************)
EXTENDS LinkStore, TLAPS

(***************************************************************************)
(* The inductive invariant                                                 *)
(***************************************************************************)
(* Between validation and the end of the statement.                        *)
Bound == {"ready", "running", "executed", "orphan"}
Validated == Bound \cup {"stamp"}
Active == Handlers \ {"idle", "done", "dead"}

(* Only validated values are on their way to the table.                    *)
SoundOp(o) ==
    /\ o.op = "create" => ValidContent(o) /\ o.label \notin Invalid
    /\ o.op = "patch" => Invalid \cap {o.target, o.text, o.label} = {}

RequestInv ==
    \A r \in Reqs :
        /\ pc[r] \in Active => op[r] \in Ops
        /\ pc[r] \in {"lookup", "check"} => op[r].op = "patch"
        /\ pc[r] \in Validated => SoundOp(op[r])
        /\ pc[r] \in Bound => slug[r] \in Slugs
        /\ pc[r] \in Bound /\ op[r].op # "create" => slug[r] = op[r].slug
        /\ pc[r] = "executed" =>
              outcome[r] \in {"row", "norow", "conflict", "check", "error"}
        /\ pc[r] = "render" => outcome[r] \in {"404", "409", "422", "500"}

(* The ghost `committed` and the replies, at each place of a handler.      *)
CommitInv ==
    \A r \in Reqs :
        /\ pc[r] \notin {"executed", "stats", "done", "dead"} => ~committed[r]
        /\ pc[r] = "executed" => (committed[r] <=> outcome[r] = "row")
        /\ pc[r] = "stats" => committed[r]
        /\ pc[r] \notin {"orphan", "done", "dead"} => reply[r] = "none"
        /\ pc[r] = "orphan" => reply[r] = "408"
        /\ pc[r] = "dead" => reply[r] \in {"none", "408"}

(* Stamps are of the past, rows have one kind, and the kind and existence  *)
(* that a patch's lookup saw are still those of the row.                   *)
KindInv ==
    /\ \A s \in Slugs : links[s] # NoRow =>
          (links[s].text = Null) # (links[s].target = Null)
    /\ \A r \in Reqs :
          /\ stamp[r] <= now
          /\ pc[r] = "check" /\ seen[r] # NoRow =>
                /\ links[op[r].slug] # NoRow
                /\ IsText(links[op[r].slug]) = IsText(seen[r])
          /\ pc[r] \in Validated /\ op[r].op = "patch" =>
                /\ links[op[r].slug] # NoRow
                /\ KeepsKind(op[r], links[op[r].slug])
          /\ outcome[r] # "check"

IInv == TypeOK /\ RequestInv /\ CommitInv /\ ReplyTellsCommit /\ KindInv

LEMMA InitInv == Init => IInv
<1> SUFFICES ASSUME Init PROVE IInv
  OBVIOUS
<1>1. TypeOK
  BY BoundAssumption DEF Init, TypeOK, Handlers, Statuses, Fields
<1>2. RequestInv /\ CommitInv /\ ReplyTellsCommit /\ KindInv
  BY BoundAssumption DEF Init, RequestInv, CommitInv, ReplyTellsCommit, KindInv,
     Active, Validated, Bound, Handlers, Statuses
<1>3. QED
  BY <1>1, <1>2 DEF IInv

(* What a listed operation looks like.                                     *)
LEMMA OpShape ==
    ASSUME NEW o \in Ops
    PROVE  o \in AllOps /\ Parsable(o)
  BY OpsAssumption

(* A validated statement that SQLite accepts leaves a well-typed row.      *)
LEMMA WrittenRow ==
    ASSUME TypeOK, NEW r \in Reqs, op[r] \in Ops, SoundOp(op[r]),
           slug[r] \in Slugs,
           op[r].op # "create" => links[slug[r]] # NoRow
    PROVE  Written(r) \in Row
<1> DEFINE o == op[r]
<1>0. /\ o \in AllOps /\ Parsable(o) /\ stamp[r] \in Nat
      /\ o.op # "create" => links[slug[r]] \in Row
  BY OpShape, BoundAssumption DEF TypeOK
<1>1. CASE o.op = "create"
  <2>1. /\ o.target \in (Targets \ Invalid) \cup {Null}
        /\ o.text \in (Texts \ Invalid) \cup {Null}
        /\ o.label \in (Labels \ Invalid) \cup {Null}
        /\ o.expires \in Nat \cup {Null}
    BY <1>0, <1>1 DEF AllOps, Supplies, Parsable, SoundOp, ValidContent
  <2>2. Written(r) = InsertedRow(r, o, stamp[r])
    BY <1>1 DEF Written
  <2>3. QED
    BY <1>0, <2>1, <2>2 DEF InsertedRow, Row
<1>2. CASE o.op = "patch"
  <2> DEFINE row == links[slug[r]]
  <2>1. /\ Supplied(o.target, row.target) \in (Targets \ Invalid) \cup {Null}
        /\ Supplied(o.text, row.text) \in (Texts \ Invalid) \cup {Null}
        /\ Supplied(o.label, row.label) \in (Labels \ Invalid) \cup {Null}
        /\ Supplied(o.expires, row.expires) \in Nat \cup {Null}
    BY <1>0, <1>2 DEF AllOps, Supplies, Parsable, SoundOp, Supplied, Row
  <2>2. Written(r) = PatchedRow(row, o, stamp[r])
    BY <1>2 DEF Written
  <2>3. QED
    BY <1>0, <1>2, <2>1, <2>2 DEF PatchedRow, Row
<1>3. CASE o.op \in {"disable", "enable"}
  <2>1. Written(r) = ToggledRow(links[slug[r]], o, stamp[r])
    BY <1>3 DEF Written
  <2>2. QED
    BY <1>0, <1>3, <2>1 DEF ToggledRow, Row
<1>4. QED
  BY <1>0, <1>1, <1>2, <1>3 DEF AllOps

(* Every step keeps the types.                                             *)
LEMMA TypeStep == TypeOK /\ RequestInv /\ [Next]_vars => TypeOK'
<1> SUFFICES ASSUME TypeOK, RequestInv, [Next]_vars PROVE TypeOK'
  OBVIOUS
<1> USE DEF TypeOK, Handlers, Statuses
<1>1. ASSUME NEW r \in Reqs, NEW o \in Ops, Begin(r, o) PROVE TypeOK'
  <2>1. o.op \in {"create", "patch", "disable", "enable"}
    BY OpShape DEF AllOps
  <2>2. QED
    BY <1>1, <2>1 DEF Begin, Goto, Answer, Fail
<1>2. ASSUME NEW r \in Reqs, Reject(r) PROVE TypeOK'
  BY <1>2 DEF Reject, Answer, Goto
<1>3. ASSUME NEW r \in Reqs, Lookup(r) PROVE TypeOK'
  <2>1. op[r].slug \in Slugs
    BY <1>3, OpShape DEF RequestInv, Lookup, Active, AllOps, Parsable
  <2>2. QED
    BY <1>3, <2>1 DEF Lookup, Goto, Answer, Fail
<1>4. ASSUME NEW r \in Reqs, Check(r) PROVE TypeOK'
  BY <1>4 DEF Check, Goto, Answer, Fail
<1>5. ASSUME NEW r \in Reqs, Stamp(r) PROVE TypeOK'
  <2>1. op[r].slug \in Slugs \cup {Null}
    BY <1>5, OpShape DEF RequestInv, Stamp, Active, AllOps
  <2>2. QED
    BY <1>5, <2>1, SlugAssumption DEF Stamp, Goto
<1>6. ASSUME NEW r \in Reqs, Submit(r) PROVE TypeOK'
  BY <1>6 DEF Submit, Goto
<1>7. ASSUME NEW r \in Reqs, Execute(r) PROVE TypeOK'
  <2>1. /\ op[r] \in Ops /\ SoundOp(op[r]) /\ slug[r] \in Slugs
    BY <1>7 DEF RequestInv, Execute, Active, Validated, Bound
  <2>2. op[r].op \in {"create", "patch", "disable", "enable"}
    BY <2>1, OpShape DEF AllOps
  <2>3. PICK v \in Verdicts(r) :
            /\ outcome' = [outcome EXCEPT ![r] = v]
            /\ IF v = "row" THEN Commit(r) ELSE NoCommit
    BY <1>7 DEF Execute
  <2>4. v \in {"error", "conflict", "norow", "row", "check"}
    BY <2>2, <2>3 DEF Verdicts
  <2>5. CASE v = "row"
    <3>1. op[r].op # "create" => links[slug[r]] # NoRow
      BY <2>2, <2>3, <2>5 DEF Verdicts
    <3>2. Written(r) \in Row
      BY <2>1, <3>1, WrittenRow
    <3>3. links' \in [Slugs -> Row \cup {NoRow}]
      BY <2>1, <2>3, <2>5, <3>2 DEF Commit
    <3> DEFINE g == [f \in Fields |->
                       IF Sets(op[r], f) THEN r ELSE writer[slug[r]][f]]
    <3>g. g \in [Fields -> Reqs \cup {Null}]
      BY <2>1
    <3>w. writer' = [writer EXCEPT ![slug[r]] = g]
      BY <2>3, <2>5 DEF Commit
    <3> HIDE DEF g
    <3>4. writer' \in [Slugs -> [Fields -> Reqs \cup {Null}]]
      BY <2>1, <3>g, <3>w
    <3>5. committed' \in [Reqs -> BOOLEAN]
      BY <2>3, <2>5 DEF Commit
    <3>6. QED
      BY <1>7, <2>3, <2>4, <3>3, <3>4, <3>5 DEF Execute, Goto
  <2>6. CASE v # "row"
    BY <1>7, <2>3, <2>4, <2>6 DEF Execute, Goto, NoCommit
  <2>7. QED
    BY <2>5, <2>6
<1>8. ASSUME NEW r \in Reqs, Resume(r) PROVE TypeOK'
  <2>1. outcome[r] \in {"row", "norow", "conflict", "check", "error"}
    BY <1>8 DEF Resume, RequestInv
  <2>2. \/ UNCHANGED tries
        \/ /\ NextTry(tries[r]) < MaxRetries
           /\ tries' = [tries EXCEPT ![r] = NextTry(@)]
    BY <1>8 DEF Resume
  <2>3. tries' \in [Reqs -> 0 .. MaxRetries - 1]
    BY <2>2, BoundAssumption DEF NextTry
  <2>4. \/ /\ \E l \in {"stats", "stamp"} : pc' = [pc EXCEPT ![r] = l]
           /\ UNCHANGED <<outcome, reply>>
        \/ Answer(r, "ok") /\ UNCHANGED outcome
        \/ \E st \in {"404", "409", "500"} : Fail(r, op[r], st)
    BY <1>8, <2>1 DEF Resume, Goto
  <2>5. /\ pc' \in [Reqs -> Handlers]
        /\ reply' \in [Reqs -> Statuses \cup {"none"}]
        /\ outcome' \in [Reqs -> {"none", "row", "norow", "conflict", "check",
                                  "error"} \cup Statuses]
    BY <2>4 DEF Goto, Answer, Fail
  <2>6. QED
    BY <1>8, <2>3, <2>5 DEF Resume
<1>9. ASSUME NEW r \in Reqs, Enrich(r) PROVE TypeOK'
  BY <1>9 DEF Enrich, Goto, Answer
<1>10. ASSUME NEW r \in Reqs, Render(r) PROVE TypeOK'
  <2>1. outcome[r] \in {"404", "409", "422", "500"}
    BY <1>10 DEF Render, RequestInv
  <2>2. PICK status \in {"404", "409", "422", "500"} : Answer(r, status)
    BY <1>10, <2>1 DEF Render
  <2>3. QED
    BY <1>10, <2>2 DEF Render, Goto, Answer
<1>11. ASSUME NEW r \in Reqs, Timeout(r) PROVE TypeOK'
  BY <1>11 DEF Timeout, Goto
<1>12. CASE Crash
  BY <1>12 DEF Crash
<1>13. CASE Tick
  BY <1>13, BoundAssumption DEF Tick
<1>14. CASE Quiesce \/ UNCHANGED vars
  BY <1>14 DEF Quiesce, vars
<1>15. QED
  BY <1>1, <1>2, <1>3, <1>4, <1>5, <1>6, <1>7, <1>8, <1>9, <1>10, <1>11,
     <1>12, <1>13, <1>14 DEF Next, Handle

(* Every step keeps what a handler knows of its own request.               *)
LEMMA RequestStep == TypeOK /\ RequestInv /\ [Next]_vars => RequestInv'
<1> SUFFICES ASSUME TypeOK, RequestInv, [Next]_vars PROVE RequestInv'
  OBVIOUS
<1> USE DEF RequestInv, Active, Validated, Bound, Handlers
<1>t. /\ pc \in [Reqs -> Handlers] /\ op \in [Reqs -> Ops \cup {Null}]
      /\ slug \in [Reqs -> Slugs \cup {Null}] /\ DOMAIN outcome = Reqs
  BY DEF TypeOK
<1>1. ASSUME NEW r \in Reqs, NEW o \in Ops, Begin(r, o) PROVE RequestInv'
  <2>1. o \in AllOps /\ Parsable(o)
    BY OpShape
  <2>2. o.op = "create" /\ ValidCreate(o, now) => SoundOp(o)
    BY DEF ValidCreate, SoundOp
  <2>3. o.op \in {"disable", "enable"} => SoundOp(o)
    BY DEF SoundOp
  <2>4. QED
    BY <1>t, <1>1, <2>2, <2>3 DEF Begin, Goto, Answer, Fail
<1>2. ASSUME NEW r \in Reqs, Reject(r) PROVE RequestInv'
  BY <1>t, <1>2 DEF Reject, Answer, Goto
<1>3. ASSUME NEW r \in Reqs, Lookup(r) PROVE RequestInv'
  BY <1>t, <1>3 DEF Lookup, Goto, Answer, Fail
<1>4. ASSUME NEW r \in Reqs, Check(r) PROVE RequestInv'
  <2>1. ValidPatch(op[r], seen[r], now) => SoundOp(op[r])
    BY <1>4 DEF Check, ValidPatch, SoundOp
  <2>2. QED
    BY <1>t, <1>4, <2>1 DEF Check, Goto, Answer, Fail
<1>5. ASSUME NEW r \in Reqs, Stamp(r) PROVE RequestInv'
  <2>1. op[r].slug \in Slugs \cup {Null} /\ Parsable(op[r])
    BY <1>5, OpShape DEF Stamp, AllOps
  <2>2. QED
    BY <1>t, <1>5, <2>1, SlugAssumption DEF Stamp, Goto, Parsable
<1>6. ASSUME NEW r \in Reqs, Submit(r) PROVE RequestInv'
  BY <1>t, <1>6 DEF Submit, Goto
<1>7. ASSUME NEW r \in Reqs, Execute(r) PROVE RequestInv'
  <2>1. op[r].op \in {"create", "patch", "disable", "enable"}
    BY <1>7, OpShape DEF Execute, AllOps
  <2>2. PICK v \in Verdicts(r) : outcome' = [outcome EXCEPT ![r] = v]
    BY <1>7 DEF Execute
  <2>3. v \in {"error", "conflict", "norow", "row", "check"}
    BY <2>1, <2>2 DEF Verdicts
  <2>4. QED
    BY <1>t, <1>7, <2>2, <2>3 DEF Execute, Goto
<1>8. ASSUME NEW r \in Reqs, Resume(r) PROVE RequestInv'
  BY <1>t, <1>8 DEF Resume, Goto, Answer, Fail
<1>9. ASSUME NEW r \in Reqs, Enrich(r) PROVE RequestInv'
  BY <1>t, <1>9 DEF Enrich, Goto, Answer
<1>10. ASSUME NEW r \in Reqs, Render(r) PROVE RequestInv'
  BY <1>t, <1>10 DEF Render, Goto, Answer
<1>11. ASSUME NEW r \in Reqs, Timeout(r) PROVE RequestInv'
  BY <1>t, <1>11 DEF Timeout, Goto
<1>12. CASE Crash
  BY <1>t, <1>12 DEF Crash
<1>13. CASE Tick
  BY <1>13 DEF Tick
<1>14. CASE Quiesce \/ UNCHANGED vars
  BY <1>14 DEF Quiesce, vars
<1>15. QED
  BY <1>1, <1>2, <1>3, <1>4, <1>5, <1>6, <1>7, <1>8, <1>9, <1>10, <1>11,
     <1>12, <1>13, <1>14 DEF Next, Handle

(* Every step keeps the ghost `committed` and the replies in agreement.    *)
LEMMA CommitStep ==
    TypeOK /\ RequestInv /\ CommitInv /\ ReplyTellsCommit /\ [Next]_vars
        => CommitInv' /\ ReplyTellsCommit'
<1> SUFFICES ASSUME TypeOK, RequestInv, CommitInv, ReplyTellsCommit, [Next]_vars
             PROVE  CommitInv' /\ ReplyTellsCommit'
  OBVIOUS
<1> DEFINE Goal == CommitInv' /\ ReplyTellsCommit'
<1> USE DEF CommitInv, ReplyTellsCommit, Statuses
<1>t. /\ pc \in [Reqs -> Handlers] /\ committed \in [Reqs -> BOOLEAN]
      /\ reply \in [Reqs -> Statuses \cup {"none"}] /\ DOMAIN outcome = Reqs
  BY DEF TypeOK
<1>1. ASSUME NEW r \in Reqs, NEW o \in Ops, Begin(r, o) PROVE Goal
  BY <1>t, <1>1 DEF Begin, Goto, Answer, Fail
<1>2. ASSUME NEW r \in Reqs, Reject(r) PROVE Goal
  BY <1>t, <1>2 DEF Reject, Answer, Goto
<1>3. ASSUME NEW r \in Reqs, Lookup(r) PROVE Goal
  BY <1>t, <1>3 DEF Lookup, Goto, Answer, Fail
<1>4. ASSUME NEW r \in Reqs, Check(r) PROVE Goal
  BY <1>t, <1>4 DEF Check, Goto, Answer, Fail
<1>5. ASSUME NEW r \in Reqs, Stamp(r) PROVE Goal
  BY <1>t, <1>5 DEF Stamp, Goto
<1>6. ASSUME NEW r \in Reqs, Submit(r) PROVE Goal
  BY <1>t, <1>6 DEF Submit, Goto
<1>7. ASSUME NEW r \in Reqs, Execute(r) PROVE Goal
  <2>1. PICK v \in Verdicts(r) :
            /\ outcome' = [outcome EXCEPT ![r] = v]
            /\ IF v = "row" THEN Commit(r) ELSE NoCommit
    BY <1>7 DEF Execute
  <2>2. committed' = IF v = "row" THEN [committed EXCEPT ![r] = TRUE] ELSE committed
    BY <2>1 DEF Commit, NoCommit
  <2>3. ~committed[r] /\ reply[r] \in {"none", "408"}
    BY <1>7 DEF Execute
  <2>4. QED
    BY <1>t, <1>7, <2>1, <2>2, <2>3 DEF Execute, Goto
<1>8. ASSUME NEW r \in Reqs, Resume(r) PROVE Goal
  BY <1>t, <1>8 DEF Resume, Goto, Answer, Fail
<1>9. ASSUME NEW r \in Reqs, Enrich(r) PROVE Goal
  BY <1>t, <1>9 DEF Enrich, Goto, Answer
<1>10. ASSUME NEW r \in Reqs, Render(r) PROVE Goal
  <2>1. outcome[r] \in {"404", "409", "422", "500"} /\ ~committed[r]
    BY <1>10 DEF Render, RequestInv
  <2>2. PICK status \in {"404", "409", "422", "500"} : Answer(r, status)
    BY <1>10, <2>1 DEF Render
  <2>3. QED
    BY <1>t, <1>10, <2>1, <2>2 DEF Render, Goto, Answer
<1>11. ASSUME NEW r \in Reqs, Timeout(r) PROVE Goal
  BY <1>t, <1>11 DEF Timeout, Goto, Waiting
<1>12. CASE Crash
  BY <1>t, <1>12 DEF Crash
<1>13. CASE Tick
  BY <1>13 DEF Tick
<1>14. CASE Quiesce \/ UNCHANGED vars
  BY <1>14 DEF Quiesce, vars
<1>15. QED
  BY <1>1, <1>2, <1>3, <1>4, <1>5, <1>6, <1>7, <1>8, <1>9, <1>10, <1>11,
     <1>12, <1>13, <1>14 DEF Next, Handle

(***************************************************************************)
(* The store implements the table                                          *)
(***************************************************************************)
(* A statement that finds its row, or no row for an INSERT, leaves a row   *)
(* that the table allows, and never one that the CHECK constraint refuses. *)
LEMMA WrittenAllowed ==
    ASSUME TypeOK, RequestInv, KindInv, NEW r \in Reqs,
           pc[r] \in {"running", "orphan"},
           (op[r].op = "create") <=> (links[slug[r]] = NoRow)
    PROVE  /\ SqlCheck(Written(r))
           /\ op[r].op = "create" => Table!Born(Written(r), now)
           /\ op[r].op = "patch" => Table!Edited(links[slug[r]], Written(r), now)
           /\ op[r].op \in {"disable", "enable"} =>
                 Table!Switched(links[slug[r]], Written(r), now)
<1> DEFINE o == op[r]
           row == links[slug[r]]
<1>1. /\ o \in AllOps /\ Parsable(o) /\ SoundOp(o) /\ slug[r] \in Slugs
      /\ o.op # "create" => row \in Row /\ slug[r] = o.slug
      /\ stamp[r] \in Nat /\ stamp[r] <= now
  BY OpShape, BoundAssumption
     DEF TypeOK, RequestInv, KindInv, Active, Handlers, Validated, Bound
<1>2. Written(r) \in Row
  BY <1>1, OpShape, WrittenRow DEF RequestInv, Active, Handlers
<1>3. Table!Row = Row
  BY DEF Table!Row, Row
<1>4. CASE o.op = "create"
  <2>1. Written(r) = InsertedRow(r, o, stamp[r])
    BY <1>4 DEF Written
  <2>2. (o.text = Null) # (o.target = Null)
    BY <1>1, <1>4 DEF SoundOp, ValidContent
  <2>3. QED
    BY <1>1, <1>2, <1>3, <1>4, <2>1, <2>2
       DEF InsertedRow, Table!Born, SqlCheck
<1>5. CASE o.op = "patch"
  <2>1. Written(r) = PatchedRow(row, o, stamp[r])
    BY <1>5 DEF Written
  <2>2. /\ (row.text = Null) # (row.target = Null)
        /\ KeepsKind(o, row)
    BY <1>1, <1>5 DEF KindInv, Validated, Bound
  <2>3. /\ (Supplied(o.text, row.text) = Null) = (row.text = Null)
        /\ (Supplied(o.target, row.target) = Null) = (row.target = Null)
    <3>1. Null \notin {o.target, o.text} /\ row \in Row
      BY <1>1, <1>5 DEF Parsable
    <3>2. QED
      BY <2>2, <3>1 DEF KeepsKind, IsText, Supplied, Row
  <2> DEFINE new == PatchedRow(row, o, stamp[r])
  <2>4. /\ new.id = row.id /\ new.created = row.created
        /\ new.disabled = row.disabled /\ new.updated = stamp[r]
        /\ new.text = Supplied(o.text, row.text)
        /\ new.target = Supplied(o.target, row.target)
    BY <1>1, <1>5 DEF PatchedRow, Row
  <2>5. QED
    BY <1>1, <1>2, <1>3, <1>5, <2>1, <2>2, <2>3, <2>4 DEF Table!Edited, SqlCheck
<1>6. CASE o.op \in {"disable", "enable"}
  <2>1. Written(r) = ToggledRow(row, o, stamp[r])
    BY <1>6 DEF Written
  <2>2. (row.text = Null) # (row.target = Null) /\ row \in Row
    BY <1>1, <1>6 DEF KindInv
  <2>3. QED
    BY <1>1, <1>2, <1>3, <1>6, <2>1, <2>2
       DEF ToggledRow, Table!Switched, SqlCheck, Row
<1>7. QED
  BY <1>1, <1>4, <1>5, <1>6 DEF AllOps

(* A statement either commits one write of the table or changes nothing.   *)
LEMMA ExecuteWrites ==
    ASSUME TypeOK, RequestInv, KindInv, NEW r \in Reqs, Execute(r)
    PROVE  /\ Table!Write(slug[r]) \/ UNCHANGED links
           /\ slug[r] \in Slugs /\ outcome'[r] # "check"
<1>1. slug[r] \in Slugs /\ pc[r] \in {"running", "orphan"} /\ now' = now
  BY DEF Execute, RequestInv, Bound
<1>2. op[r].op \in {"create", "patch", "disable", "enable"}
  BY <1>1, OpShape DEF RequestInv, Active, Handlers, AllOps
<1>3. PICK v \in Verdicts(r) :
          /\ outcome' = [outcome EXCEPT ![r] = v]
          /\ IF v = "row" THEN Commit(r) ELSE NoCommit
  BY DEF Execute
<1>4. CASE (op[r].op = "create") <=> (links[slug[r]] = NoRow)
  <2>1. SqlCheck(Written(r))
    BY <1>1, <1>4, WrittenAllowed
  <2>2. v \in {"error", "row"}
    BY <1>2, <1>3, <1>4, <2>1 DEF Verdicts
  <2>3. CASE v = "row"
    <3>1. links' = [links EXCEPT ![slug[r]] = Written(r)]
      BY <1>3, <2>3 DEF Commit
    <3>2. links'[slug[r]] = Written(r) /\ links' = [links EXCEPT ![slug[r]] = links'[slug[r]]]
      BY <1>1, <3>1 DEF TypeOK
    <3>3. Table!Insert(slug[r]) \/ Table!Edit(slug[r]) \/ Table!Switch(slug[r])
      BY <1>1, <1>2, <1>4, <3>2, WrittenAllowed
         DEF Table!Insert, Table!Edit, Table!Switch
    <3>4. QED
      BY <1>1, <1>3, <2>3, <3>2, <3>3 DEF Table!Write, TypeOK
  <2>4. QED
    BY <1>1, <1>3, <2>2, <2>3 DEF NoCommit, TypeOK
<1>5. CASE ~((op[r].op = "create") <=> (links[slug[r]] = NoRow))
  <2>1. v \in {"error", "conflict", "norow"}
    BY <1>2, <1>3, <1>5 DEF Verdicts
  <2>2. QED
    BY <1>1, <1>3, <2>1 DEF NoCommit, TypeOK
<1>6. QED
  BY <1>4, <1>5

(* A write of the table keeps every existing row, and its kind.            *)
LEMMA WriteKeepsKind ==
    ASSUME TypeOK, KindInv, NEW s \in Slugs, Table!Write(s), NEW t \in Slugs
    PROVE  /\ links[t] # NoRow =>
                 links'[t] # NoRow /\ IsText(links'[t]) = IsText(links[t])
           /\ links'[t] # NoRow =>
                 (links'[t].text = Null) # (links'[t].target = Null)
<1>1. Table!Row = Row
  BY DEF Table!Row, Row
<1>2. CASE t # s
  BY <1>2 DEF Table!Write, TypeOK, KindInv
<1>3. CASE t = s
  <2>1. CASE Table!Insert(s)
    BY <1>3, <2>1 DEF Table!Insert, Table!Born
  <2>2. CASE Table!Edit(s)
    BY <1>1, <1>3, <2>2, NoRowIsNoRow DEF Table!Edit, Table!Edited, KindInv, IsText
  <2>3. CASE Table!Switch(s)
    <3>1. links[s] \in Row /\ links'[s] \in Row
      BY <1>1, <2>3 DEF Table!Switch, Table!Switched, TypeOK
    <3>2. /\ links'[s].text = links[s].text
          /\ links'[s].target = links[s].target
      BY <2>3, <3>1 DEF Table!Switch, Table!Switched, Row
    <3>3. QED
      BY <1>3, <2>3, <3>1, <3>2, NoRowIsNoRow DEF Table!Switch, KindInv, IsText
  <2>4. QED
    BY <2>1, <2>2, <2>3 DEF Table!Write
<1>4. QED
  BY <1>2, <1>3

(* So a write of another request leaves KindInv true of a handler that     *)
(* does not move.                                                          *)
LEMMA KindStep ==
    TypeOK /\ RequestInv /\ KindInv /\ [Next]_vars => KindInv'
<1> SUFFICES ASSUME TypeOK, RequestInv, KindInv, [Next]_vars PROVE KindInv'
  OBVIOUS
<1> USE DEF Validated, Bound, Active, Handlers
<1>t. /\ pc \in [Reqs -> Handlers] /\ op \in [Reqs -> Ops \cup {Null}]
      /\ now \in Nat /\ stamp \in [Reqs -> Nat] /\ DOMAIN outcome = Reqs
      /\ links \in [Slugs -> Row \cup {NoRow}]
      /\ seen \in [Reqs -> Row \cup {NoRow}]
  BY BoundAssumption DEF TypeOK
<1>o. \A r \in Reqs : pc[r] \in Active /\ op[r].op = "patch" => op[r].slug \in Slugs
  BY OpShape DEF RequestInv, AllOps, Parsable
<1>1. ASSUME NEW r \in Reqs, NEW o \in Ops, Begin(r, o) PROVE KindInv'
  <2>1. pc'[r] = "stamp" => o.op # "patch"
    BY <1>t, <1>1 DEF Begin, Goto, Answer, Fail
  <2>2. pc'[r] \notin {"check", "ready", "running", "executed", "orphan"}
    BY <1>t, <1>1 DEF Begin, Goto, Answer, Fail
  <2>3. /\ op' = [op EXCEPT ![r] = o] /\ UNCHANGED <<links, now, seen, stamp>>
        /\ \A q \in Reqs : q # r => pc'[q] = pc[q]
        /\ \A q \in Reqs : outcome'[q] = outcome[q] \/ outcome'[q] = "422"
    BY <1>t, <1>1 DEF Begin, Goto, Answer, Fail
  <2>4. QED
    BY <1>t, <2>1, <2>2, <2>3 DEF KindInv
<1>2. ASSUME NEW r \in Reqs, Reject(r) PROVE KindInv'
  BY <1>t, <1>2 DEF Reject, Answer, Goto, KindInv
<1>3. ASSUME NEW r \in Reqs, Lookup(r) PROVE KindInv'
  BY <1>t, <1>3 DEF Lookup, Goto, Answer, Fail, KindInv
<1>4. ASSUME NEW r \in Reqs, Check(r) PROVE KindInv'
  <2>1. seen[r] # NoRow /\ ValidPatch(op[r], seen[r], now) =>
            /\ links[op[r].slug] # NoRow
            /\ KeepsKind(op[r], links[op[r].slug])
    BY <1>4 DEF Check, ValidPatch, KeepsKind, KindInv
  <2>2. QED
    BY <1>t, <1>4, <2>1 DEF Check, Goto, Answer, Fail, KindInv
<1>5. ASSUME NEW r \in Reqs, Stamp(r) PROVE KindInv'
  BY <1>t, <1>5 DEF Stamp, Goto, KindInv
<1>6. ASSUME NEW r \in Reqs, Submit(r) PROVE KindInv'
  BY <1>t, <1>6 DEF Submit, Goto, KindInv
<1>7. ASSUME NEW r \in Reqs, Execute(r) PROVE KindInv'
  <2>1. \A t \in Slugs :
            /\ links[t] # NoRow =>
                  links'[t] # NoRow /\ IsText(links'[t]) = IsText(links[t])
            /\ links'[t] # NoRow =>
                  (links'[t].text = Null) # (links'[t].target = Null)
    BY <1>7, ExecuteWrites, WriteKeepsKind DEF KindInv
  <2>2. /\ UNCHANGED <<now, op, seen, stamp>>
        /\ \A q \in Reqs : outcome'[q] # "check"
        /\ \A q \in Reqs : pc'[q] \in {"check"} \cup Validated =>
              pc[q] = pc'[q] \/ (pc[q] \in Validated /\ pc'[q] \in Validated)
    <3>1. outcome'[r] # "check"
      BY <1>7, ExecuteWrites
    <3>2. QED
      BY <1>t, <1>7, <3>1 DEF Execute, Goto, KindInv
  <2>3. ASSUME NEW q \in Reqs, pc'[q] = "check", seen'[q] # NoRow
        PROVE  /\ links'[op'[q].slug] # NoRow
               /\ IsText(links'[op'[q].slug]) = IsText(seen'[q])
    <3>1. pc[q] = "check" /\ seen[q] # NoRow /\ op[q].slug \in Slugs
      BY <1>o, <2>2, <2>3 DEF RequestInv
    <3>2. links[op[q].slug] # NoRow /\ IsText(links[op[q].slug]) = IsText(seen[q])
      BY <3>1 DEF KindInv
    <3>3. QED
      BY <2>1, <2>2, <3>1, <3>2
  <2>4. ASSUME NEW q \in Reqs, pc'[q] \in Validated, op'[q].op = "patch"
        PROVE  /\ links'[op'[q].slug] # NoRow
               /\ KeepsKind(op'[q], links'[op'[q].slug])
    <3>1. pc[q] \in Validated /\ op[q].op = "patch" /\ op[q].slug \in Slugs
      BY <1>o, <2>2, <2>4
    <3>2. links[op[q].slug] # NoRow /\ KeepsKind(op[q], links[op[q].slug])
      BY <3>1 DEF KindInv
    <3>3. QED
      BY <2>1, <2>2, <3>1, <3>2 DEF KeepsKind
  <2>5. QED
    BY <2>1, <2>2, <2>3, <2>4 DEF KindInv
<1>8. ASSUME NEW r \in Reqs, Resume(r) PROVE KindInv'
  BY <1>t, <1>8 DEF Resume, Goto, Answer, Fail, KindInv
<1>9. ASSUME NEW r \in Reqs, Enrich(r) PROVE KindInv'
  BY <1>t, <1>9 DEF Enrich, Goto, Answer, KindInv
<1>10. ASSUME NEW r \in Reqs, Render(r) PROVE KindInv'
  BY <1>t, <1>10 DEF Render, Goto, Answer, KindInv
<1>11. ASSUME NEW r \in Reqs, Timeout(r) PROVE KindInv'
  BY <1>t, <1>11 DEF Timeout, Goto, KindInv
<1>12. CASE Crash
  BY <1>t, <1>12 DEF Crash, KindInv
<1>13. CASE Tick
  BY <1>t, <1>13 DEF Tick, KindInv
<1>14. CASE Quiesce \/ UNCHANGED vars
  BY <1>14 DEF Quiesce, vars, KindInv
<1>15. QED
  BY <1>1, <1>2, <1>3, <1>4, <1>5, <1>6, <1>7, <1>8, <1>9, <1>10, <1>11,
     <1>12, <1>13, <1>14 DEF Next, Handle

(***************************************************************************)
(* The theorems                                                            *)
(***************************************************************************)
(* The invariant holds in every reachable state.                           *)
THEOREM Invariance == Spec => []IInv
<1>1. IInv /\ [Next]_vars => IInv'
  BY TypeStep, RequestStep, CommitStep, KindStep DEF IInv
<1>2. QED
  BY InitInv, <1>1, PTL DEF Spec

(* Whatever the clients send and however their handlers interleave, time   *)
(* out or die, the table only ever holds validated, well-typed rows.       *)
THEOREM TypeCorrect == Spec => []TypeOK
<1>1. IInv => TypeOK
  BY DEF IInv
<1>2. QED
  BY Invariance, <1>1, PTL

(* A success is never reported of a mutation that did not commit, and an   *)
(* error other than the timeout never of one that did.                     *)
THEOREM RepliesTellCommits == Spec => []ReplyTellsCommit
<1>1. IInv => ReplyTellsCommit
  BY DEF IInv
<1>2. QED
  BY Invariance, <1>1, PTL

(* The CHECK constraint of migration 0003 never refuses a statement: the   *)
(* handlers' own checks, made earlier on another snapshot, suffice.        *)
THEOREM CheckIsNeverTripped == Spec => []CheckNeverTrips
<1>1. IInv => CheckNeverTrips
  BY DEF IInv, KindInv, CheckNeverTrips
<1>2. QED
  BY Invariance, <1>1, PTL

(* Every step of a handler is a step of the table, or does not touch it.   *)
LEMMA StepRefines == IInv /\ [Next]_vars => [Table!TableNext]_<<links, now>>
<1> SUFFICES ASSUME IInv, [Next]_vars PROVE [Table!TableNext]_<<links, now>>
  OBVIOUS
<1>1. ASSUME NEW r \in Reqs, Execute(r) PROVE [Table!TableNext]_<<links, now>>
  <2>1. /\ Table!Write(slug[r]) \/ UNCHANGED links
        /\ slug[r] \in Slugs
    BY <1>1, ExecuteWrites DEF IInv
  <2>2. UNCHANGED now
    BY <1>1 DEF Execute
  <2>3. QED
    BY <2>1, <2>2 DEF Table!TableNext
<1>2. CASE Tick
  BY <1>2 DEF Tick, Table!TableNext, Table!Tick
<1>3. CASE UNCHANGED <<links, now>>
  BY <1>3
<1>4. QED
  BY <1>1, <1>2, <1>3
     DEF Next, Handle, Begin, Reject, Lookup, Check, Stamp, Submit, Resume,
         Enrich, Render, Timeout, Crash, Quiesce, vars

(* The concurrent store implements the table its readers rely on.          *)
THEOREM StoreImplementsTable == Spec => ImplementsTable
<1>1. Init => Table!TableInit
  BY DEF Init, Table!TableInit
<1>2. QED
  BY Invariance, <1>1, StepRefines, PTL
     DEF Spec, ImplementsTable, Table!TableSpec, Table!tableVars

(***************************************************************************)
(* Who wrote what                                                          *)
(***************************************************************************)
(* Each row remembers, in the ghost `writer`, committed requests, and holds*)
(* what they asked for; none but a toggle has stamped it before its birth. *)
WroteInv(s) ==
    links[s] # NoRow =>
        /\ committed[links[s].id] /\ links[s].created <= now
        /\ \A f \in Fields : writer[s][f] \in Reqs /\ committed[writer[s][f]]
        /\ links[s].target = op[writer[s].target].target
        /\ links[s].text = op[writer[s].text].text
        /\ links[s].label = op[writer[s].label].label
        /\ links[s].expires = op[writer[s].expires].expires
        /\ links[s].disabled = IF op[writer[s].disabled].op = "disable"
                               THEN stamp[writer[s].disabled] ELSE Null
        /\ op[writer[s].row].op \notin {"disable", "enable"} =>
              links[s].created <= links[s].updated

(* The slug that r asked for is another request's.                         *)
Taken(r) ==
    /\ op[r].op = "create" /\ op[r].slug # Null /\ op[r].slug \in Slugs
    /\ links[op[r].slug] # NoRow /\ links[op[r].slug].id # r

(* A patch is stamped after the birth of its link, which it has looked up. *)
HistoryOf(r) ==
    /\ pc[r] \in Bound /\ op[r].slug # Null => slug[r] = op[r].slug
    /\ pc[r] \in Bound /\ op[r].op = "patch" => links[op[r].slug].created <= stamp[r]
    /\ pc[r] = "executed" /\ outcome[r] = "conflict" /\ op[r].slug # Null => Taken(r)
    /\ pc[r] = "render" /\ outcome[r] = "409" => Taken(r)
    /\ reply[r] = "409" => Taken(r)

HistoryInv == (\A s \in Slugs : WroteInv(s)) /\ (\A r \in Reqs : HistoryOf(r))

LEMMA HistoryInit == Init => HistoryInv
BY DEF Init, HistoryInv, WroteInv, HistoryOf, Bound

(* What a step that runs no statement leaves alone.                        *)
LEMMA QuietStep ==
    ASSUME IInv, [Next]_vars, \A r \in Reqs : ~Execute(r)
    PROVE  /\ UNCHANGED <<links, committed, writer>> /\ now <= now'
           /\ \A q \in Reqs : committed[q] => op'[q] = op[q] /\ stamp'[q] = stamp[q]
           /\ \A q \in Reqs : pc[q] # "idle" => op'[q] = op[q]
<1> USE DEF IInv, TypeOK
<1>n. now \in Nat BY BoundAssumption
<1>1. ASSUME NEW r \in Reqs, NEW o \in Ops, Begin(r, o)
      PROVE  /\ UNCHANGED <<links, committed, writer, now, stamp>> /\ ~committed[r]
             /\ op' = [op EXCEPT ![r] = o] /\ pc[r] = "idle"
  BY <1>1 DEF Begin, CommitInv
<1>2. ASSUME NEW r \in Reqs, Stamp(r)
      PROVE  /\ UNCHANGED <<links, committed, writer, now, op>> /\ ~committed[r]
             /\ stamp' = [stamp EXCEPT ![r] = now]
  BY <1>2 DEF Stamp, CommitInv
<1>3. CASE UNCHANGED <<links, committed, writer, op, stamp>> /\ now <= now'
  BY <1>3
<1>4. CASE Tick BY <1>3, <1>4, <1>n DEF Tick
<1>5. CASE \E r \in Reqs : \/ Lookup(r) \/ Check(r) \/ Submit(r) \/ Resume(r) \/ Enrich(r)
                           \/ Render(r) \/ Timeout(r) \/ Reject(r)
  BY <1>3, <1>5, <1>n
     DEF Lookup, Check, Submit, Resume, Enrich, Render, Timeout, Reject
<1>6. CASE Crash \/ Quiesce \/ UNCHANGED vars
  BY <1>3, <1>6, <1>n DEF Crash, Quiesce, vars
<1> QED BY <1>1, <1>2, <1>4, <1>5, <1>6, <1>n DEF Next, Handle

LEMMA QuietWrote ==
    ASSUME IInv, NEW s \in Slugs, WroteInv(s), UNCHANGED <<links, committed, writer>>,
           now <= now', now' \in Nat,
           \A q \in Reqs : committed[q] => op'[q] = op[q] /\ stamp'[q] = stamp[q]
    PROVE  WroteInv(s)'
<1>1. CASE links[s] = NoRow BY <1>1 DEF WroteInv
<1>2. CASE links[s] # NoRow
  <2>1. links[s] \in Row /\ now \in Nat BY <1>2, BoundAssumption DEF IInv, TypeOK
  <2>2. \A f \in Fields : /\ writer[s][f] \in Reqs /\ committed[writer[s][f]]
                          /\ op'[writer[s][f]] = op[writer[s][f]]
                          /\ stamp'[writer[s][f]] = stamp[writer[s][f]]
    BY <1>2 DEF WroteInv
  <2>3. links[s].created <= now' BY <1>2, <2>1 DEF WroteInv, Row
  <2> QED BY <1>2, <2>2, <2>3 DEF WroteInv, Fields
<1> QED BY <1>1, <1>2

(* The columns of the row that r's statement leaves.                       *)
LEMMA WrittenColumns ==
    ASSUME IInv, NEW r \in Reqs, pc[r] \in {"running", "orphan"},
           (op[r].op = "create") <=> (links[slug[r]] = NoRow)
    PROVE  LET new == Written(r)
               row == links[slug[r]]
               o == op[r]
           IN  /\ o.op \in {"create", "patch", "disable", "enable"}
               /\ o.op = "create" =>
                     /\ new.id = r /\ new.created = stamp[r] /\ new.updated = stamp[r]
                     /\ new.target = o.target /\ new.text = o.text /\ new.label = o.label
                     /\ new.expires = o.expires /\ new.disabled = Null
               /\ o.op = "patch" =>
                     /\ new.id = row.id /\ new.created = row.created /\ new.updated = stamp[r]
                     /\ new.target = Supplied(o.target, row.target)
                     /\ new.text = Supplied(o.text, row.text)
                     /\ new.label = Supplied(o.label, row.label)
                     /\ new.expires = Supplied(o.expires, row.expires)
                     /\ new.disabled = row.disabled
               /\ o.op \in {"disable", "enable"} =>
                     /\ new.id = row.id /\ new.created = row.created
                     /\ new.target = row.target /\ new.text = row.text
                     /\ new.label = row.label /\ new.expires = row.expires
                     /\ new.disabled = IF o.op = "disable" THEN stamp[r] ELSE Null
<1> DEFINE o == op[r]
           row == links[slug[r]]
<1>1. /\ o \in AllOps /\ slug[r] \in Slugs /\ (o.op # "create" => row \in Row)
  BY OpShape DEF IInv, TypeOK, RequestInv, Active, Handlers, Bound
<1>2. o.op \in {"create", "patch", "disable", "enable"} BY <1>1 DEF AllOps
<1>3. CASE o.op = "create"
  <2>1. Written(r) = InsertedRow(r, o, stamp[r]) BY <1>3 DEF Written
  <2> QED BY <1>2, <1>3, <2>1 DEF InsertedRow
<1>4. CASE o.op = "patch"
  <2>1. Written(r) = PatchedRow(row, o, stamp[r]) BY <1>4 DEF Written
  <2>2. row \in Row BY <1>1, <1>4
  <2> DEFINE new == PatchedRow(row, o, stamp[r])
  <2>3. /\ new.id = row.id /\ new.created = row.created /\ new.updated = stamp[r]
        /\ new.target = Supplied(o.target, row.target)
        /\ new.text = Supplied(o.text, row.text)
        /\ new.label = Supplied(o.label, row.label)
        /\ new.expires = Supplied(o.expires, row.expires)
        /\ new.disabled = row.disabled
    BY <2>2 DEF PatchedRow, Row
  <2> HIDE DEF new
  <2> QED BY <1>4, <2>1, <2>3 DEF new
<1>5. CASE o.op \in {"disable", "enable"}
  <2>1. Written(r) = ToggledRow(row, o, stamp[r]) BY <1>5 DEF Written
  <2>2. row \in Row BY <1>1, <1>5
  <2> DEFINE new == ToggledRow(row, o, stamp[r])
  <2>3. /\ new.id = row.id /\ new.created = row.created
        /\ new.target = row.target /\ new.text = row.text
        /\ new.label = row.label /\ new.expires = row.expires
        /\ new.disabled = IF o.op = "disable" THEN stamp[r] ELSE Null
    BY <2>2 DEF ToggledRow, Row
  <2> HIDE DEF new
  <2> QED BY <1>5, <2>1, <2>3 DEF new
<1> QED BY <1>2, <1>3, <1>4, <1>5

(* A statement commits under its slug, or changes nothing.                 *)
LEMMA ExecuteCommits ==
    ASSUME IInv, NEW r \in Reqs, Execute(r)
    PROVE  /\ UNCHANGED <<now, op, seen, stamp, slug, tries, reply>>
           /\ slug[r] \in Slugs /\ pc[r] \in {"running", "orphan"} /\ op[r] \in Ops
           /\ pc' = [pc EXCEPT ![r] = pc'[r]] /\ pc'[r] \in {"executed", "done"}
           /\ outcome' = [outcome EXCEPT ![r] = outcome'[r]]
           /\ \/ UNCHANGED <<links, committed, writer>>
              \/ Commit(r) /\ ((op[r].op = "create") <=> (links[slug[r]] = NoRow))
                 /\ outcome'[r] = "row"
           /\ outcome'[r] = "conflict" =>
                 op[r].op = "create" /\ links[slug[r]] # NoRow
                 /\ UNCHANGED <<links, committed, writer>>
<1>1. /\ slug[r] \in Slugs /\ pc[r] \in {"running", "orphan"} /\ op[r] \in Ops
  BY DEF Execute, IInv, RequestInv, Bound, Active, Handlers
<1>2. op[r].op \in {"create", "patch", "disable", "enable"} BY <1>1, OpShape DEF AllOps
<1>3. PICK v \in Verdicts(r) :
          /\ outcome' = [outcome EXCEPT ![r] = v]
          /\ IF v = "row" THEN Commit(r) ELSE NoCommit
  BY DEF Execute
<1>4. /\ v = "row" => ((op[r].op = "create") <=> (links[slug[r]] = NoRow))
      /\ v = "conflict" => op[r].op = "create" /\ links[slug[r]] # NoRow
  BY <1>2, <1>3 DEF Verdicts
<1>5. outcome'[r] = v BY <1>3 DEF IInv, TypeOK
<1>6. pc' = [pc EXCEPT ![r] = pc'[r]] /\ pc'[r] \in {"executed", "done"}
  BY DEF Execute, Goto, IInv, TypeOK
<1> QED BY <1>1, <1>3, <1>4, <1>5, <1>6 DEF Execute, NoCommit

LEMMA CommitWrote ==
    ASSUME IInv, NEW r \in Reqs, HistoryOf(r), WroteInv(slug[r]), Execute(r), Commit(r),
           (op[r].op = "create") <=> (links[slug[r]] = NoRow)
    PROVE  WroteInv(slug[r])'
<1> DEFINE o == op[r]
           s == slug[r]
           row == links[s]
           new == Written(r)
           w == [f \in Fields |-> IF Sets(o, f) THEN r ELSE writer[s][f]]
<1>1. /\ UNCHANGED <<now, op, stamp, slug>> /\ s \in Slugs
      /\ pc[r] \in {"running", "orphan"} /\ o \in Ops
  BY ExecuteCommits
<1>2. links'[s] = new /\ writer'[s] = w /\ committed' = [committed EXCEPT ![r] = TRUE]
  BY <1>1 DEF Commit, IInv, TypeOK
<1>3. committed'[r] /\ \A q \in Reqs : committed[q] => committed'[q]
  BY <1>2 DEF IInv, TypeOK
<1>4. stamp[r] \in Nat /\ now \in Nat /\ stamp[r] <= now
  BY BoundAssumption DEF IInv, TypeOK, KindInv
<1>5. /\ o \in AllOps /\ Parsable(o) BY <1>1, OpShape
<1>6. o.op # "create" => row \in Row /\ row # NoRow BY <1>1 DEF IInv, TypeOK
<1>7. \A f \in Fields : w[f] \in Reqs /\ committed'[w[f]]
  <2>1. o.op = "create" => \A f \in Fields : Sets(o, f) BY DEF Sets
  <2>2. o.op # "create" => \A f \in Fields : writer[s][f] \in Reqs /\ committed[writer[s][f]]
    BY <1>6 DEF WroteInv
  <2> QED BY <1>3, <2>1, <2>2
<1>8. CASE o.op = "create"
  <2>1. \A f \in Fields : w[f] = r BY <1>8 DEF Sets
  <2>2. /\ w.target = r /\ w.text = r /\ w.label = r /\ w.expires = r /\ w.disabled = r
        /\ w.row = r
    BY <2>1 DEF Fields
  <2> HIDE DEF w, new
  <2>3. /\ new.id = r /\ new.created = stamp[r] /\ new.updated = stamp[r]
        /\ new.target = o.target /\ new.text = o.text /\ new.label = o.label
        /\ new.expires = o.expires /\ new.disabled = Null
    BY <1>1, <1>8, WrittenColumns DEF new
  <2> QED BY <1>1, <1>2, <1>3, <1>4, <1>7, <1>8, <2>2, <2>3 DEF WroteInv
<1>9. CASE o.op = "patch"
  <2>1. /\ w.target = IF o.target # Keep THEN r ELSE writer[s].target
        /\ w.text = IF o.text # Keep THEN r ELSE writer[s].text
        /\ w.label = IF o.label # Keep THEN r ELSE writer[s].label
        /\ w.expires = IF o.expires # Keep THEN r ELSE writer[s].expires
        /\ w.disabled = writer[s].disabled /\ w.row = r
    BY <1>9 DEF Sets, Fields
  <2> HIDE DEF w, new
  <2>2. /\ new.id = row.id /\ new.created = row.created /\ new.updated = stamp[r]
        /\ new.target = Supplied(o.target, row.target)
        /\ new.text = Supplied(o.text, row.text)
        /\ new.label = Supplied(o.label, row.label)
        /\ new.expires = Supplied(o.expires, row.expires)
        /\ new.disabled = row.disabled
    BY <1>1, <1>9, WrittenColumns DEF new
  <2>3. row.created <= stamp[r]
    BY <1>1, <1>5, <1>9 DEF HistoryOf, Bound, Parsable
  <2>4. row.id \in Reqs BY <1>6, <1>9 DEF Row
  <2> QED BY <1>1, <1>2, <1>3, <1>4, <1>6, <1>7, <1>9, <2>1, <2>2, <2>3, <2>4
          DEF WroteInv, Supplied
<1>10. CASE o.op \in {"disable", "enable"}
  <2>1. /\ w.target = writer[s].target /\ w.text = writer[s].text
        /\ w.label = writer[s].label /\ w.expires = writer[s].expires
        /\ w.disabled = r /\ w.row = r
    BY <1>10 DEF Sets, Fields
  <2> HIDE DEF w, new
  <2>2. /\ new.id = row.id /\ new.created = row.created
        /\ new.target = row.target /\ new.text = row.text
        /\ new.label = row.label /\ new.expires = row.expires
        /\ new.disabled = IF o.op = "disable" THEN stamp[r] ELSE Null
    BY <1>1, <1>10, WrittenColumns DEF new
  <2>3. row.id \in Reqs BY <1>6, <1>10 DEF Row
  <2> QED BY <1>1, <1>2, <1>3, <1>4, <1>6, <1>7, <1>10, <2>1, <2>2, <2>3 DEF WroteInv
<1> QED BY <1>5, <1>8, <1>9, <1>10 DEF AllOps

(* A row keeps the request that inserted it, and its birth.                *)
LEMMA BirthStays ==
    ASSUME IInv, NEW r \in Reqs, Execute(r), NEW s \in Slugs, links[s] # NoRow
    PROVE  /\ links'[s] # NoRow /\ links'[s].id = links[s].id
           /\ links'[s].created = links[s].created
<1>1. CASE UNCHANGED links BY <1>1
<1>2. CASE Commit(r) /\ ((op[r].op = "create") <=> (links[slug[r]] = NoRow)) /\ s = slug[r]
  <2>1. pc[r] \in {"running", "orphan"} /\ op[r].op # "create" BY <1>2, ExecuteCommits
  <2>2. links'[s] = Written(r) BY <1>2 DEF Commit, IInv, TypeOK
  <2>3. SqlCheck(Written(r)) /\ Written(r) \in Row
    <3>1. op[r] \in Ops /\ SoundOp(op[r]) /\ slug[r] \in Slugs
      BY <2>1 DEF IInv, RequestInv, Active, Handlers, Validated, Bound
    <3>2. Written(r) \in Row BY <1>2, <3>1, WrittenRow DEF IInv
    <3>3. SqlCheck(Written(r)) BY <1>2, <2>1, WrittenAllowed DEF IInv
    <3> QED BY <3>2, <3>3
  <2> QED BY <1>2, <2>1, <2>2, <2>3, WrittenColumns, NoRowIsNoRow
<1>3. CASE Commit(r) /\ s # slug[r] BY <1>3 DEF Commit, IInv, TypeOK
<1> QED BY <1>1, <1>2, <1>3, ExecuteCommits

LEMMA WroteStep ==
    ASSUME IInv, IInv', HistoryInv, [Next]_vars, NEW s \in Slugs
    PROVE  WroteInv(s)'
<1>n. now \in Nat /\ now' \in Nat BY BoundAssumption DEF IInv, TypeOK
<1>w. WroteInv(s) BY DEF HistoryInv
<1>1. ASSUME NEW r \in Reqs, Execute(r) PROVE WroteInv(s)'
  <2>1. CASE UNCHANGED <<links, committed, writer>>
    BY <1>1, <1>n, <1>w, <2>1, ExecuteCommits, QuietWrote
  <2>2. CASE Commit(r) /\ ((op[r].op = "create") <=> (links[slug[r]] = NoRow)) /\ s = slug[r]
    <3>1. WroteInv(slug[r])' BY <1>1, <1>w, <2>2, CommitWrote DEF HistoryInv
    <3>2. slug'[r] = s BY <1>1, <2>2, ExecuteCommits
    <3> QED BY <3>1, <3>2 DEF WroteInv
  <2>3. CASE Commit(r) /\ s # slug[r]
    <3>1. /\ UNCHANGED <<op, stamp, now>> /\ links'[s] = links[s] /\ writer'[s] = writer[s]
          /\ \A q \in Reqs : committed[q] => committed'[q]
      <4>1. UNCHANGED <<op, stamp, now>> BY <1>1, ExecuteCommits
      <4>2. links'[s] = links[s] /\ writer'[s] = writer[s]
        BY <2>3 DEF Commit, IInv, TypeOK
      <4>3. \A q \in Reqs : committed[q] => committed'[q]
        BY <2>3 DEF Commit, IInv, TypeOK
      <4> QED BY <4>1, <4>2, <4>3
    <3>2. links[s] # NoRow => links[s].id \in Reqs BY DEF IInv, TypeOK, Row
    <3>3. CASE links[s] = NoRow BY <3>1, <3>3 DEF WroteInv
    <3>4. CASE links[s] # NoRow
      <4>1. \A f \in Fields : /\ writer[s][f] \in Reqs /\ committed'[writer[s][f]]
                              /\ op'[writer[s][f]] = op[writer[s][f]]
                              /\ stamp'[writer[s][f]] = stamp[writer[s][f]]
        BY <1>w, <3>1, <3>4 DEF WroteInv
      <4>2. committed'[links[s].id] BY <1>w, <3>1, <3>2, <3>4 DEF WroteInv
      <4> QED BY <1>w, <3>1, <3>4, <4>1, <4>2 DEF WroteInv, Fields
    <3> QED BY <3>3, <3>4
  <2> QED BY <1>1, <2>1, <2>2, <2>3, ExecuteCommits
<1>2. CASE \A r \in Reqs : ~Execute(r)
  BY <1>2, <1>n, <1>w, QuietStep, QuietWrote
<1> QED BY <1>1, <1>2

(* What was taken when r asked for it stays another request's.             *)
LEMMA TakenStays ==
    ASSUME IInv, [Next]_vars, NEW r \in Reqs, Taken(r), pc[r] # "idle"
    PROVE  Taken(r)'
<1>1. ASSUME NEW q \in Reqs, Execute(q) PROVE Taken(r)'
  <2>1. UNCHANGED op BY <1>1, ExecuteCommits
  <2> QED BY <1>1, <2>1, BirthStays DEF Taken
<1>2. CASE \A q \in Reqs : ~Execute(q)
  BY <1>2, QuietStep DEF Taken
<1> QED BY <1>1, <1>2

LEMMA CreatedStays ==
    ASSUME IInv, [Next]_vars, NEW s \in Slugs, links[s] # NoRow
    PROVE  links'[s] # NoRow /\ links'[s].created = links[s].created
<1>1. ASSUME NEW q \in Reqs, Execute(q)
      PROVE  links'[s] # NoRow /\ links'[s].created = links[s].created
  BY <1>1, BirthStays
<1>2. CASE \A q \in Reqs : ~Execute(q)
  BY <1>2, QuietStep
<1> QED BY <1>1, <1>2

LEMMA HistoryStep ==
    ASSUME IInv, IInv', HistoryInv, [Next]_vars, NEW r \in Reqs
    PROVE  HistoryOf(r)'
<1> USE DEF Bound
<1>h. HistoryOf(r) BY DEF HistoryInv
<1>t. /\ pc \in [Reqs -> Handlers] /\ DOMAIN outcome = Reqs /\ DOMAIN reply = Reqs
      /\ DOMAIN slug = Reqs /\ DOMAIN stamp = Reqs /\ DOMAIN op = Reqs
      /\ DOMAIN seen = Reqs
  BY DEF IInv, TypeOK
<1>r. reply[r] = "409" => pc[r] \in {"done", "dead"}
  BY <1>t DEF IInv, CommitInv, Handlers
<1>n. pc[r] \notin {"done", "dead"} => reply[r] # "409"
  BY <1>r
<1>k. Taken(r) /\ pc[r] # "idle" => Taken(r)' BY TakenStays
<1>c. pc[r] \in Validated /\ op[r].op = "patch" =>
          /\ op[r].slug \in Slugs /\ links[op[r].slug] # NoRow
          /\ links'[op[r].slug].created = links[op[r].slug].created
  <2> HAVE pc[r] \in Validated /\ op[r].op = "patch"
  <2>1. op[r] \in Ops BY DEF IInv, RequestInv, Active, Handlers, Validated
  <2>2. op[r].slug \in Slugs BY <2>1, OpShape DEF AllOps, Parsable
  <2>3. links[op[r].slug] # NoRow BY DEF IInv, KindInv
  <2> QED BY <2>2, <2>3, CreatedStays
<1>1. CASE /\ pc'[r] = pc[r] /\ op'[r] = op[r] /\ slug'[r] = slug[r]
           /\ stamp'[r] = stamp[r] /\ outcome'[r] = outcome[r] /\ reply'[r] = reply[r]
  BY <1>1, <1>c, <1>h, <1>k, <1>r DEF HistoryOf, Validated
<1>2. ASSUME NEW o \in Ops, Begin(r, o) PROVE HistoryOf(r)'
  BY <1>2, <1>t, <1>n DEF HistoryOf, Begin, Goto, Fail, Answer
<1>3. CASE Reject(r) \/ Enrich(r)
  BY <1>3, <1>t DEF HistoryOf, Reject, Enrich, Goto, Answer
<1>4. CASE Lookup(r)
  BY <1>4, <1>t, <1>n DEF HistoryOf, Lookup, Goto, Fail, Answer
<1>5. CASE Check(r)
  BY <1>5, <1>t, <1>n DEF HistoryOf, Check, Goto, Fail, Answer
<1>6. CASE Stamp(r)
  <2>1. PICK x \in IF op[r].slug = Null THEN Generated ELSE {op[r].slug} :
            slug' = [slug EXCEPT ![r] = x]
    BY <1>6 DEF Stamp
  <2>2. op[r].slug # Null => slug'[r] = op[r].slug BY <1>t, <2>1
  <2>3. op[r].op = "patch" => links[op[r].slug].created <= now
    BY <1>6, <1>c DEF Stamp, Validated, HistoryInv, WroteInv
  <2>4. /\ UNCHANGED <<links, op, outcome, reply>> /\ pc'[r] = "ready" /\ stamp'[r] = now
    BY <1>6, <1>t DEF Stamp, Goto
  <2>5. reply[r] # "409" BY <1>6, <1>n DEF Stamp
  <2> QED BY <2>2, <2>3, <2>4, <2>5 DEF HistoryOf
<1>7. CASE Submit(r)
  <2>1. /\ UNCHANGED <<links, op, slug, stamp, outcome, reply>>
        /\ pc[r] = "ready" /\ pc'[r] = "running"
    BY <1>7, <1>t DEF Submit, Goto
  <2> QED BY <1>h, <1>n, <2>1 DEF HistoryOf
<1>8. CASE Execute(r)
  <2>1. /\ UNCHANGED <<op, slug, stamp, reply>> /\ pc[r] \in {"running", "orphan"}
        /\ pc'[r] \in {"executed", "done"} /\ slug[r] \in Slugs
        /\ outcome'[r] = "conflict" => /\ op[r].op = "create" /\ links[slug[r]] # NoRow
                                        /\ UNCHANGED <<links, committed, writer>>
    BY <1>8, ExecuteCommits
  <2>2. reply[r] # "409" BY <1>n, <2>1
  <2>3. outcome'[r] = "conflict" /\ op[r].slug # Null => Taken(r)'
    <3> HAVE outcome'[r] = "conflict" /\ op[r].slug # Null
    <3>1. slug[r] = op[r].slug BY <1>h, <2>1 DEF HistoryOf
    <3>2. committed[links[slug[r]].id] BY <2>1 DEF HistoryInv, WroteInv
    <3>3. ~committed[r] BY <2>1 DEF IInv, CommitInv
    <3> QED BY <2>1, <3>1, <3>2, <3>3 DEF Taken
  <2> QED BY <1>c, <1>h, <2>1, <2>2, <2>3 DEF HistoryOf, Validated
<1>9. CASE Resume(r)
  <2>1. /\ pc[r] = "executed" /\ UNCHANGED <<links, op, slug, stamp>>
        /\ pc'[r] \notin Bound /\ reply[r] # "409"
    BY <1>9, <1>t, <1>n DEF Resume, Goto, Fail, Answer
  <2>2. (pc'[r] = "render" /\ outcome'[r] = "409") \/ reply'[r] = "409" =>
            outcome[r] = "conflict" /\ op[r].slug # Null
    BY <1>9, <1>t, <1>n DEF Resume, Goto, Fail, Answer
  <2>3. outcome[r] = "conflict" /\ op[r].slug # Null => Taken(r)'
    BY <1>h, <1>k, <2>1 DEF HistoryOf
  <2> QED BY <2>1, <2>2, <2>3 DEF HistoryOf
<1>10. CASE Render(r)
  <2>1. /\ pc[r] = "render" /\ pc'[r] = "done" /\ reply'[r] \in {outcome[r], "500", "404"}
    BY <1>10, <1>t DEF Render, Goto, Answer
  <2>2. outcome[r] = "409" => Taken(r)' BY <1>h, <1>k, <2>1 DEF HistoryOf
  <2> QED BY <2>1, <2>2 DEF HistoryOf
<1>11. CASE Timeout(r)
  <2>1. /\ UNCHANGED <<links, op, slug, stamp, outcome>> /\ reply'[r] = "408"
        /\ \/ pc[r] = "running" /\ pc'[r] = "orphan"
           \/ pc'[r] = "done"
    BY <1>11, <1>t DEF Timeout, Goto
  <2> QED BY <1>h, <2>1 DEF HistoryOf
<1>12. CASE Crash
  <2>1. /\ UNCHANGED <<links, op, slug, stamp, outcome, reply>>
        /\ pc'[r] = pc[r] \/ pc'[r] = "dead"
    BY <1>12 DEF Crash
  <2> QED BY <1>1, <1>h, <1>k, <1>r, <2>1 DEF HistoryOf
<1>13. ASSUME NEW q \in Reqs, q # r,
              Handle(q) \/ Timeout(q) \/ Reject(q) \/ \E o \in Ops : Begin(q, o)
       PROVE  HistoryOf(r)'
  <2>1. /\ pc'[r] = pc[r] /\ op'[r] = op[r] /\ slug'[r] = slug[r]
        /\ stamp'[r] = stamp[r] /\ outcome'[r] = outcome[r] /\ reply'[r] = reply[r]
    BY <1>13, <1>t DEF Handle, Begin, Reject, Lookup, Check, Stamp, Submit, Execute,
       Resume, Enrich, Render, Timeout, Goto, Fail, Answer
  <2> QED BY <1>1, <2>1
<1>14. CASE Tick \/ Quiesce \/ UNCHANGED vars
  BY <1>1, <1>14 DEF Tick, Quiesce, vars
<1> QED
  BY <1>2, <1>3, <1>4, <1>5, <1>6, <1>7, <1>8, <1>9, <1>10, <1>11, <1>12, <1>13, <1>14
     DEF Next, Handle

(* In every execution each row is what committed requests asked for, and a *)
(* taken slug stays taken.                                                 *)
THEOREM HistoryHolds == Spec => []HistoryInv
<1>1. IInv /\ IInv' /\ HistoryInv /\ [Next]_vars => HistoryInv'
  BY WroteStep, HistoryStep DEF HistoryInv
<1> QED BY Invariance, HistoryInit, <1>1, PTL DEF Spec

(* Concurrent patches of one link lose nothing: each column holds what the *)
(* last committed request that supplied it asked for (links.rs:480-482).   *)
THEOREM LastWritesHeld == Spec => []HoldsLastWrite
<1>1. HistoryInv => HoldsLastWrite
  BY DEF HistoryInv, WroteInv, HoldsLastWrite
<1> QED BY HistoryHolds, <1>1, PTL

(* A 409 names a slug that another request's link holds, for good: neither *)
(* a busy database nor the retry budget is reported as a conflict.         *)
THEOREM ConflictsTaken == Spec => []ConflictMeansTaken
<1>1. HistoryInv => ConflictMeansTaken
  BY DEF HistoryInv, HistoryOf, Taken, ConflictMeansTaken
<1> QED BY HistoryHolds, <1>1, PTL

(* Only set_disabled, which reads the clock before it knows that the link  *)
(* exists, may leave updated_at before created_at.                         *)
THEOREM PatchesFollowBirth == Spec => []OnlyTogglesPredate
<1>1. IInv /\ HistoryInv => OnlyTogglesPredate
  <2> SUFFICES ASSUME IInv, HistoryInv, NEW s \in Slugs, links[s] # NoRow,
                      links[s].updated < links[s].created,
                      op[writer[s].row].op \notin {"disable", "enable"}
               PROVE  FALSE
    BY DEF OnlyTogglesPredate
  <2>1. links[s].created <= links[s].updated BY DEF HistoryInv, WroteInv
  <2>2. links[s].created \in Nat /\ links[s].updated \in Nat BY DEF IInv, TypeOK, Row
  <2> QED BY <2>1, <2>2
<1> QED BY Invariance, HistoryHolds, <1>1, PTL
=============================================================================
