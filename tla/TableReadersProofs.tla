------------------------- MODULE TableReadersProofs -------------------------
(***************************************************************************)
(* The two readers of the link table, for any number of readers, slugs,    *)
(* rows and instants.                                                      *)
(*                                                                         *)
(* Public visits: type correctness, AnswerWasTrue, GoneWasDue and          *)
(* OnlyViewsCount.  Between its lookup and its clock reading a handler     *)
(* holds a row that may be stale.  The inductive invariant keeps what      *)
(* makes it safe to use: the row's answer at some earlier instant is       *)
(* already among the truths of the visit.  Time only grows, so a row that  *)
(* is not expired now was not expired then.                                *)
(*                                                                         *)
(* The list: StatusesPartition, PagesPartition and QuietListIsExact.  The  *)
(* table is finite at every instant, since every write adds one slug at    *)
(* most; in each of the five orders a finite set of rows has the ranks     *)
(* 0 .. n - 1, each once; and the ceiling of n / PerPage is the number of  *)
(* stretches of PerPage ranks that cover them.                             *)
(***************************************************************************)
EXTENDS PublicVisit, LinkList, FiniteSetTheorems, TLAPS

(***************************************************************************)
(* Public visits                                                           *)
(***************************************************************************)
Waiting(v) == pc[v] \in {"idle", "lookup", "resolve", "record"}

(* What the invariant says of one visit.                                   *)
VisitInv(v) ==
    /\ Waiting(v) => reply[v] = Silence /\ click[v] = Null
    /\ pc[v] # "idle" => ask[v] \in Ask
    /\ pc[v] = "resolve" =>
          /\ found[v] \in Row
          /\ \E t \in 0 .. now : Truth(found[v], t, ask[v].how) \in truths[v]
          /\ Due(found[v]) \subseteq dues[v]
    /\ pc[v] = "record" =>
          /\ found[v] \in Row /\ ask[v].how = "GET"
          /\ Content(found[v]) \in truths[v]
    /\ reply[v].status \in {"200", "302", "404"} => reply[v] \in truths[v]
    /\ reply[v].status = "410" => \E e \in dues[v] : e <= now
    /\ click[v] # Null =>
          /\ ask[v].how = "GET" /\ reply[v].status \in {"200", "302"}
          /\ click[v].link = found[v].id /\ reply[v] = Content(found[v])

IInv == TypeOK /\ \A v \in Visits : VisitInv(v)

(***************************************************************************)
(* Rows and their right answers                                            *)
(***************************************************************************)
LEMMA ContentIsAnswer ==
    ASSUME NEW row \in Row PROVE Content(row) \in Answers
BY DEF Content, Answers, Say, Row, IsText

LEMMA TruthIsAnswer ==
    ASSUME NEW row \in Row \cup {NoRow}, NEW t, NEW how
    PROVE  Truth(row, t, how) \in Answers
<1>1. CASE Hidden(row)
  BY <1>1 DEF Truth, Answers, Say
<1>2. CASE ~Hidden(row)
  <2>1. row \in Row BY <1>2 DEF Hidden
  <2> QED BY <1>2, <2>1, ContentIsAnswer DEF Truth, Answers, Say
<1> QED BY <1>1, <1>2

LEMMA DueIsInstant ==
    ASSUME NEW row \in Row \cup {NoRow} PROVE Due(row) \subseteq Nat
BY DEF Due, Hidden, Row

(* A disabled link was already to be hidden when its row was read.         *)
LEMMA DisabledIsHidden ==
    ASSUME NEW row \in Row, IsDisabled(row), NEW t, NEW how
    PROVE  Truth(row, t, how) = Say("404", Null)
BY DEF Truth, Hidden, IsDisabled

(* A row that is live now gave the same answer when it was read.           *)
LEMMA LiveWasLive ==
    ASSUME NEW row \in Row, NEW t \in Nat, NEW u \in Nat, t <= u, NEW how,
           ~IsDisabled(row), ~IsExpired(row, u)
    PROVE  Truth(row, t, how) = IF how = "download" /\ ~IsText(row)
                                THEN Say("404", Null) ELSE Content(row)
<1>1. row # NoRow BY NoRowIsNoRow
<1>2. ~Hidden(row) BY <1>1 DEF Hidden, IsDisabled
<1>3. row.expires \in Nat \cup {Null} BY DEF Row
<1>4. ~Over(row, t) BY <1>3 DEF Over, IsExpired
<1> QED BY <1>2, <1>4 DEF Truth, IsText

(* An enabled link that is over had an expiry that has passed.             *)
LEMMA ExpiredIsDue ==
    ASSUME NEW row \in Row, NEW u \in Nat, ~IsDisabled(row), IsExpired(row, u)
    PROVE  row.expires \in Due(row) /\ row.expires <= u
<1>1. row # NoRow BY NoRowIsNoRow
<1> QED BY <1>1 DEF Due, Hidden, IsDisabled, IsExpired

(***************************************************************************)
(* Steps                                                                   *)
(***************************************************************************)
(* A visit that a step leaves alone keeps its part of the invariant.       *)
LEMMA Frame ==
    ASSUME NEW v \in Visits, TypeOK, VisitInv(v), now' \in Nat, now <= now',
           truths[v] \subseteq truths'[v], dues[v] \subseteq dues'[v],
           pc'[v] = pc[v], ask'[v] = ask[v], found'[v] = found[v],
           reply'[v] = reply[v], click'[v] = click[v]
    PROVE  VisitInv(v)'
<1>1. now \in Nat /\ dues[v] \subseteq Nat BY DEF TypeOK
<1>2. (pc[v] = "resolve" =>
          /\ found[v] \in Row
          /\ \E t \in 0 .. now : Truth(found[v], t, ask[v].how) \in truths[v]
          /\ Due(found[v]) \subseteq dues[v])'
  <2> SUFFICES ASSUME pc[v] = "resolve"
               PROVE  /\ found[v] \in Row
                      /\ \E t \in 0 .. now' :
                            Truth(found[v], t, ask[v].how) \in truths'[v]
                      /\ Due(found[v]) \subseteq dues'[v]
    BY DEF Truth, Due, Hidden, Over, Content
  <2>1. PICK t \in 0 .. now : Truth(found[v], t, ask[v].how) \in truths[v]
    BY DEF VisitInv
  <2>2. t \in 0 .. now' BY <1>1
  <2> QED BY <2>1, <2>2 DEF VisitInv
<1>3. (reply[v].status = "410" => \E e \in dues[v] : e <= now)'
  BY <1>1 DEF VisitInv
<1> QED BY <1>2, <1>3 DEF VisitInv, Waiting, Content, IsText

(* The ghosts only grow and stay well typed.                               *)
LEMMA GhostsGrow ==
    ASSUME TypeOK, Witness, links' \in [Slugs -> Row \cup {NoRow}],
           \A v \in Visits : Awake(v) => ask'[v].slug \in Slugs
    PROVE  /\ truths' \in [Visits -> SUBSET Answers]
           /\ dues' \in [Visits -> SUBSET Nat]
           /\ \A v \in Visits : truths[v] \subseteq truths'[v]
           /\ \A v \in Visits : dues[v] \subseteq dues'[v]
<1>1. ASSUME NEW v \in Visits, Awake(v)
      PROVE  /\ Truth(links'[ask'[v].slug], now', ask'[v].how) \in Answers
             /\ Due(links'[ask'[v].slug]) \subseteq Nat
  <2>1. links'[ask'[v].slug] \in Row \cup {NoRow} BY <1>1
  <2> QED BY <2>1, TruthIsAnswer, DueIsInstant
<1>2. truths \in [Visits -> SUBSET Answers] /\ dues \in [Visits -> SUBSET Nat]
  BY DEF TypeOK
<1>3. \A v \in Visits :
        truths'[v] = IF Awake(v)
                     THEN truths[v] \cup {Truth(links'[ask'[v].slug], now', ask'[v].how)}
                     ELSE truths[v]
  BY DEF Witness
<1>4. \A v \in Visits :
        dues'[v] = IF Awake(v) THEN dues[v] \cup Due(links'[ask'[v].slug]) ELSE dues[v]
  BY DEF Witness
<1>5. truths' \in [Visits -> SUBSET Answers]
  BY <1>1, <1>2, <1>3 DEF Witness
<1>6. dues' \in [Visits -> SUBSET Nat]
  BY <1>1, <1>2, <1>4 DEF Witness
<1> QED BY <1>3, <1>4, <1>5, <1>6

LEMMA InitInv == Init => IInv
<1> SUFFICES ASSUME Init PROVE IInv OBVIOUS
<1>1. TypeOK
  BY MaxNowAssumption
  DEF Init, TableInit, TypeOK, Answers, Silence, Say
<1>2. \A v \in Visits : VisitInv(v)
  BY DEF Init, VisitInv, Silence, Say, Waiting
<1> QED BY <1>1, <1>2 DEF IInv

(* The hypotheses that every step of a handler gives: the table and the    *)
(* clock stand, only the ghosts grow, and the other visits wait.           *)
LEMMA HandlerStep ==
    ASSUME IInv, Witness, UNCHANGED <<links, now>>, NEW v \in Visits,
           pc' \in [Visits -> {"idle", "lookup", "resolve", "record", "done"}],
           pc' = [pc EXCEPT ![v] = pc'[v]], pc'[v] # "idle",
           ask' \in [Visits -> Ask \cup {NoAsk}],
           ask' = [ask EXCEPT ![v] = ask'[v]], ask'[v] \in Ask,
           found' \in [Visits -> Row \cup {NoRow}],
           found' = [found EXCEPT ![v] = found'[v]],
           reply' \in [Visits -> Answers],
           reply' = [reply EXCEPT ![v] = reply'[v]],
           click' \in [Visits -> [link : Reqs, at : Nat] \cup {Null}],
           click' = [click EXCEPT ![v] = click'[v]],
           /\ truths[v] \subseteq truths'[v] /\ dues[v] \subseteq dues'[v]
           /\ Awake(v) => /\ Truth(links[ask'[v].slug], now, ask'[v].how) \in truths'[v]
                          /\ Due(links[ask'[v].slug]) \subseteq dues'[v]
           => VisitInv(v)'
    PROVE  IInv'
<1>1. TypeOK /\ \A w \in Visits : VisitInv(w) BY DEF IInv
<1>2. links' \in [Slugs -> Row \cup {NoRow}] /\ now' \in 0 .. MaxNow
  BY <1>1 DEF TypeOK
<1>3. \A w \in Visits : w # v =>
        /\ pc'[w] = pc[w] /\ ask'[w] = ask[w] /\ found'[w] = found[w]
        /\ reply'[w] = reply[w] /\ click'[w] = click[w]
  BY <1>1 DEF TypeOK
<1>4. ASSUME NEW w \in Visits, Awake(w) PROVE ask'[w].slug \in Slugs
  <2>1. ask'[w] \in Ask
    BY <1>1, <1>3, <1>4 DEF VisitInv, Awake
  <2> QED BY <2>1 DEF Ask
<1>5. /\ truths' \in [Visits -> SUBSET Answers]
      /\ dues' \in [Visits -> SUBSET Nat]
      /\ \A w \in Visits : truths[w] \subseteq truths'[w]
      /\ \A w \in Visits : dues[w] \subseteq dues'[w]
  BY <1>1, <1>2, <1>4, GhostsGrow
<1>6. TypeOK'
  BY <1>2, <1>5 DEF TypeOK, Answers, Ask, NoAsk
<1>7. Awake(v) => /\ Truth(links[ask'[v].slug], now, ask'[v].how) \in truths'[v]
                  /\ Due(links[ask'[v].slug]) \subseteq dues'[v]
  BY DEF Witness
<1>8. VisitInv(v)' BY <1>5, <1>7
<1>9. ASSUME NEW w \in Visits, w # v PROVE VisitInv(w)'
  <2>1. now' \in Nat /\ now <= now' BY <1>1 DEF TypeOK
  <2> QED BY <1>1, <1>3, <1>5, <1>9, <2>1, Frame
<1> QED BY <1>6, <1>8, <1>9 DEF IInv

LEMMA ArriveStep ==
    ASSUME IInv, Witness, NEW v \in Visits, NEW how \in Methods, NEW s \in Slugs,
           Arrive(v, how, s)
    PROVE  IInv'
<1>1. TypeOK /\ VisitInv(v) BY DEF IInv
<1>2. [how |-> how, slug |-> s, from |-> now] \in Ask BY <1>1 DEF TypeOK, Ask
<1>3. VisitInv(v)'
  BY <1>1, <1>2 DEF Arrive, Goto, TypeOK, VisitInv, Waiting, Silence, Say
<1> QED
  BY <1>1, <1>2, <1>3, HandlerStep DEF Arrive, Goto, TypeOK

(* A handler that ends with answer a: its visit's part is shown, the rest  *)
(* follows.                                                                *)
LEMMA AnswerStep ==
    ASSUME IInv, Witness, NEW v \in Visits, NEW a \in Answers,
           pc[v] \in {"lookup", "resolve"}, Answer(v, a),
           UNCHANGED <<links, now, ask, found, click>>,
           /\ truths[v] \subseteq truths'[v] /\ dues[v] \subseteq dues'[v]
           => /\ a.status \in {"200", "302", "404"} => a \in truths'[v]
              /\ a.status = "410" => \E e \in dues'[v] : e <= now
    PROVE  IInv'
<1>1. TypeOK /\ VisitInv(v) BY DEF IInv
<1>2. ask[v] \in Ask /\ click[v] = Null BY <1>1 DEF VisitInv, Waiting
<1>3. pc'[v] = "done" /\ reply'[v] = a BY <1>1 DEF Answer, Goto, TypeOK
<1>4. ASSUME truths[v] \subseteq truths'[v] /\ dues[v] \subseteq dues'[v]
      PROVE  VisitInv(v)'
  <2>1. /\ a.status \in {"200", "302", "404"} => a \in truths'[v]
        /\ a.status = "410" => \E e \in dues'[v] : e <= now
    BY <1>4
  <2> QED BY <1>2, <1>3, <2>1 DEF VisitInv, Waiting
<1>5. reply' \in [Visits -> Answers] BY <1>1 DEF TypeOK, Answer
<1> QED BY <1>1, <1>2, <1>3, <1>4, <1>5, HandlerStep DEF Answer, Goto, TypeOK

LEMMA LookupStep ==
    ASSUME IInv, Witness, NEW v \in Visits, Lookup(v) PROVE IInv'
<1>1. TypeOK /\ VisitInv(v) /\ pc[v] = "lookup" BY DEF IInv, Lookup
<1>2. ask[v] \in Ask /\ reply[v] = Silence /\ click[v] = Null /\ now \in Nat
  BY <1>1 DEF VisitInv, Waiting, TypeOK
<1>3. ask[v].slug \in Slugs BY <1>2 DEF Ask
<1>4. Awake(v) BY <1>1 DEF Awake, Lookup, Goto, Answer, TypeOK
<1> DEFINE row == links[ask[v].slug]
<1>5. CASE row # NoRow /\ found' = [found EXCEPT ![v] = row]
           /\ Goto(v, "resolve") /\ UNCHANGED reply
  <2>1. row \in Row BY <1>1, <1>3, <1>5 DEF TypeOK
  <2>2. pc'[v] = "resolve" /\ found'[v] = row /\ ask' = ask /\ click' = click
    BY <1>1, <1>5 DEF Goto, TypeOK, Lookup
  <2>3. ASSUME Truth(row, now, ask[v].how) \in truths'[v], Due(row) \subseteq dues'[v]
        PROVE  VisitInv(v)'
    <3>1. now' = now /\ now \in 0 .. now BY <1>2 DEF Lookup
    <3>2. \E t \in 0 .. now' : Truth(found'[v], t, ask'[v].how) \in truths'[v]
      BY <2>2, <2>3, <3>1
    <3>3. reply'[v] = Silence /\ click'[v] = Null BY <1>2, <1>5, <2>2
    <3>4. Silence.status = "none" BY DEF Silence, Say
    <3>5. found'[v] \in Row /\ Due(found'[v]) \subseteq dues'[v] BY <2>1, <2>2, <2>3
    <3> QED
      BY <1>2, <2>2, <3>2, <3>3, <3>4, <3>5 DEF VisitInv, Waiting
  <2>4. pc' = [pc EXCEPT ![v] = pc'[v]]
        /\ pc' \in [Visits -> {"idle", "lookup", "resolve", "record", "done"}]
    BY <1>1, <1>5, <2>2 DEF Goto, TypeOK
  <2>5. found' = [found EXCEPT ![v] = found'[v]] /\ found' \in [Visits -> Row \cup {NoRow}]
    BY <1>1, <1>5, <2>1, <2>2 DEF TypeOK
  <2>6. UNCHANGED <<links, now, ask, click, reply>> BY <1>5 DEF Lookup
  <2>7. /\ ask' \in [Visits -> Ask \cup {NoAsk}] /\ ask' = [ask EXCEPT ![v] = ask'[v]]
        /\ reply' \in [Visits -> Answers] /\ reply' = [reply EXCEPT ![v] = reply'[v]]
        /\ click' \in [Visits -> [link : Reqs, at : Nat] \cup {Null}]
        /\ click' = [click EXCEPT ![v] = click'[v]]
    BY <1>1, <2>6 DEF TypeOK
  <2>8. pc'[v] # "idle" /\ ask'[v] \in Ask BY <1>2, <2>2
  <2> QED BY <1>4, <2>2, <2>3, <2>4, <2>5, <2>6, <2>7, <2>8, HandlerStep
<1>6. CASE row = NoRow /\ Answer(v, Say("404", Null)) /\ UNCHANGED found
  <2>1. Truth(row, now, ask[v].how) = Say("404", Null) BY <1>6 DEF Truth, Hidden
  <2>2. UNCHANGED <<links, now, ask, found, click>> BY <1>6 DEF Lookup
  <2>3. Say("404", Null) \in truths'[v]
    BY <1>4, <2>1, <2>2 DEF Witness
  <2>4. Say("404", Null) \in Answers BY DEF Answers, Say
  <2> QED BY <1>1, <1>6, <2>2, <2>3, <2>4, AnswerStep DEF Say
<1>7. CASE Answer(v, Say("500", Null)) /\ UNCHANGED found
  <2>1. UNCHANGED <<links, now, ask, found, click>> BY <1>7 DEF Lookup
  <2>2. Say("500", Null) \in Answers BY DEF Answers, Say
  <2> QED BY <1>1, <1>7, <2>1, <2>2, AnswerStep DEF Say
<1> QED BY <1>5, <1>6, <1>7 DEF Lookup

LEMMA TimeoutStep ==
    ASSUME IInv, Witness, NEW v \in Visits, Timeout(v) PROVE IInv'
<1>1. Say("408", Null) \in Answers BY DEF Answers, Say
<1> QED BY <1>1, AnswerStep DEF Timeout, Say

(* The handler goes on with a row that may be stale by now.                *)
LEMMA ResolveStep ==
    ASSUME IInv, Witness, NEW v \in Visits, Resolve(v) PROVE IInv'
<1> DEFINE row == found[v]
           how == ask[v].how
<1>1. TypeOK /\ VisitInv(v) /\ pc[v] = "resolve" BY DEF IInv, Resolve
<1>2. /\ row \in Row /\ Due(row) \subseteq dues[v] /\ now \in Nat
      /\ ask[v] \in Ask /\ reply[v] = Silence /\ click[v] = Null
  BY <1>1 DEF VisitInv, Waiting, TypeOK
<1>3. PICK t \in 0 .. now : Truth(row, t, how) \in truths[v]
  BY <1>1 DEF VisitInv
<1>4. UNCHANGED <<links, now, ask, found, click>> BY DEF Resolve
<1>5. t \in Nat /\ t <= now BY <1>2, <1>3
<1>6. CASE IsDisabled(row) /\ Answer(v, Say("404", Null))
  <2>1. Say("404", Null) \in truths[v] BY <1>2, <1>3, <1>6, DisabledIsHidden
  <2>2. Say("404", Null) \in Answers BY DEF Answers, Say
  <2> QED BY <1>1, <1>4, <1>6, <2>1, <2>2, AnswerStep DEF Say
<1>7. CASE ~IsDisabled(row) /\ IsExpired(row, now) /\ Answer(v, Say("410", Null))
  <2>1. row.expires \in dues[v] /\ row.expires <= now
    BY <1>2, <1>7, ExpiredIsDue
  <2>2. Say("410", Null) \in Answers BY DEF Answers, Say
  <2> QED BY <1>1, <1>4, <1>7, <2>1, <2>2, AnswerStep DEF Say
<1>8. CASE ~IsDisabled(row) /\ ~IsExpired(row, now) /\ Serve(v, row)
  <2>1. Truth(row, t, how) = IF how = "download" /\ ~IsText(row)
                             THEN Say("404", Null) ELSE Content(row)
    BY <1>2, <1>5, <1>8, LiveWasLive
  <2>2. Content(row) \in Answers /\ Say("404", Null) \in Answers
    BY <1>2, ContentIsAnswer DEF Answers, Say
  <2>3. CASE how = "GET" /\ Goto(v, "record") /\ UNCHANGED reply
    <3>1. Content(row) \in truths[v] BY <1>3, <2>1, <2>3
    <3>2. pc'[v] = "record" BY <1>1, <2>3 DEF Goto, TypeOK
    <3>3. ASSUME truths[v] \subseteq truths'[v] PROVE VisitInv(v)'
      <4>1. Content(row) \in truths'[v] BY <3>1, <3>3
      <4> QED
        BY <1>2, <1>4, <2>3, <3>2, <4>1
        DEF VisitInv, Waiting, Silence, Say, Content, IsText
    <3>4. pc' = [pc EXCEPT ![v] = pc'[v]]
          /\ pc' \in [Visits -> {"idle", "lookup", "resolve", "record", "done"}]
      BY <1>1, <2>3, <3>2 DEF Goto, TypeOK
    <3>5. /\ ask' \in [Visits -> Ask \cup {NoAsk}] /\ ask' = [ask EXCEPT ![v] = ask'[v]]
          /\ found' \in [Visits -> Row \cup {NoRow}]
          /\ found' = [found EXCEPT ![v] = found'[v]]
          /\ reply' \in [Visits -> Answers] /\ reply' = [reply EXCEPT ![v] = reply'[v]]
          /\ click' \in [Visits -> [link : Reqs, at : Nat] \cup {Null}]
          /\ click' = [click EXCEPT ![v] = click'[v]]
      BY <1>1, <1>4, <2>3 DEF TypeOK
    <3>6. pc'[v] # "idle" /\ ask'[v] \in Ask BY <1>2, <1>4, <3>2
    <3> QED BY <1>4, <3>3, <3>4, <3>5, <3>6, HandlerStep
  <2>4. CASE how = "HEAD" /\ Answer(v, Content(row))
    BY <1>1, <1>3, <1>4, <2>1, <2>2, <2>4, AnswerStep DEF Content, Say
  <2>5. CASE how = "download" /\ IsText(row) /\ Answer(v, Content(row))
    BY <1>1, <1>3, <1>4, <2>1, <2>2, <2>5, AnswerStep DEF Content, Say
  <2>6. CASE how = "download" /\ ~IsText(row) /\ Answer(v, Say("404", Null))
    BY <1>1, <1>3, <1>4, <2>1, <2>2, <2>6, AnswerStep DEF Say
  <2> QED BY <1>8, <2>3, <2>4, <2>5, <2>6 DEF Serve
<1> QED BY <1>6, <1>7, <1>8 DEF Resolve

LEMMA RecordStep ==
    ASSUME IInv, Witness, NEW v \in Visits, Record(v) PROVE IInv'
<1> DEFINE row == found[v]
<1>1. TypeOK /\ VisitInv(v) /\ pc[v] = "record" BY DEF IInv, Record
<1>2. /\ row \in Row /\ ask[v] \in Ask /\ ask[v].how = "GET"
      /\ Content(row) \in truths[v] /\ click[v] = Null /\ now \in Nat
  BY <1>1 DEF VisitInv, Waiting, TypeOK
<1>3. UNCHANGED <<links, now, ask, found>> BY DEF Record
<1>4. pc'[v] = "done" /\ reply'[v] = Content(row)
  BY <1>1 DEF Record, Answer, Goto, TypeOK
<1>5. click'[v] \in {Null, [link |-> row.id, at |-> now]}
  BY <1>1, <1>2 DEF Record, TypeOK
<1>6. Content(row).status \in {"200", "302"} BY DEF Content, Say
<1>7. ASSUME truths[v] \subseteq truths'[v] PROVE VisitInv(v)'
  <2>1. Content(row) \in truths'[v] BY <1>2, <1>7
  <2>2. click'[v] # Null => click'[v].link = row.id BY <1>5
  <2>3. found'[v] = row /\ ask'[v] = ask[v] BY <1>3
  <2>4. reply'[v] = Content(found'[v]) /\ ~Waiting(v)'
    BY <1>4, <2>3 DEF Content, IsText, Waiting
  <2>5. (reply[v] = Content(found[v]))' BY <2>4 DEF Content, IsText
  <2> QED
    BY <1>2, <1>4, <1>6, <2>1, <2>2, <2>3, <2>4, <2>5 DEF VisitInv
<1>8. /\ pc' = [pc EXCEPT ![v] = pc'[v]]
      /\ pc' \in [Visits -> {"idle", "lookup", "resolve", "record", "done"}]
      /\ reply' = [reply EXCEPT ![v] = reply'[v]] /\ reply' \in [Visits -> Answers]
  BY <1>1, <1>2, <1>4, ContentIsAnswer DEF Record, Answer, Goto, TypeOK
<1>9. [link |-> row.id, at |-> now] \in [link : Reqs, at : Nat]
  BY <1>2 DEF Row
<1>10. /\ click' = [click EXCEPT ![v] = click'[v]]
       /\ click' \in [Visits -> [link : Reqs, at : Nat] \cup {Null}]
  BY <1>1, <1>5, <1>9 DEF Record, TypeOK
<1>11. /\ ask' \in [Visits -> Ask \cup {NoAsk}] /\ ask' = [ask EXCEPT ![v] = ask'[v]]
       /\ found' \in [Visits -> Row \cup {NoRow}]
       /\ found' = [found EXCEPT ![v] = found'[v]]
  BY <1>1, <1>3 DEF TypeOK
<1> QED BY <1>2, <1>3, <1>4, <1>7, <1>8, <1>10, <1>11, HandlerStep

(***************************************************************************)
(* The table and the clock                                                 *)
(***************************************************************************)
LEMMA ChangeStep ==
    ASSUME IInv, Witness, Change PROVE IInv'
<1>1. TypeOK /\ \A v \in Visits : VisitInv(v) BY DEF IInv
<1>2. UNCHANGED <<pc, ask, found, reply, click>> BY DEF Change
<1>3. links' \in [Slugs -> Row \cup {NoRow}] /\ now' \in 0 .. MaxNow /\ now <= now'
  <2>1. CASE Tick
    BY <1>1, <2>1, MaxNowAssumption DEF Tick, TypeOK
  <2>2. ASSUME NEW s \in Slugs, NEW row \in Rows,
               links' = [links EXCEPT ![s] = row], Write(s)
        PROVE  links' \in [Slugs -> Row \cup {NoRow}] /\ now' = now
    BY <1>1, <2>2, RowsAssumption DEF TypeOK, Write
  <2> QED BY <1>1, <2>1, <2>2 DEF Change, TypeOK
<1>4. ASSUME NEW v \in Visits, Awake(v) PROVE ask'[v].slug \in Slugs
  BY <1>1, <1>2, <1>4 DEF VisitInv, Awake, Ask
<1>5. /\ truths' \in [Visits -> SUBSET Answers]
      /\ dues' \in [Visits -> SUBSET Nat]
      /\ \A w \in Visits : truths[w] \subseteq truths'[w]
      /\ \A w \in Visits : dues[w] \subseteq dues'[w]
  BY <1>1, <1>3, <1>4, GhostsGrow
<1>6. TypeOK' BY <1>1, <1>2, <1>3, <1>5 DEF TypeOK, Answers, Ask, NoAsk
<1>7. ASSUME NEW v \in Visits PROVE VisitInv(v)'
  <2>1. now' \in Nat BY <1>3
  <2> QED BY <1>1, <1>2, <1>3, <1>5, <2>1, Frame
<1> QED BY <1>6, <1>7 DEF IInv

LEMMA StutterStep ==
    ASSUME IInv, UNCHANGED vars PROVE IInv'
BY DEF IInv, TypeOK, VisitInv, vars, Waiting, Answers, Ask, NoAsk, Silence, Say,
       Truth, Due, Hidden, Over, Content, IsText

(***************************************************************************)
(* Theorems                                                                *)
(***************************************************************************)
(* The inductive invariant holds in every state of PublicVisit.            *)
THEOREM Invariance == Spec => []IInv
<1>1. ASSUME IInv, [Next]_vars PROVE IInv'
  <2>1. CASE UNCHANGED vars BY <1>1, <2>1, StutterStep
  <2>2. ASSUME Witness, NEW v \in Visits, NEW how \in Methods, NEW s \in Slugs,
               Arrive(v, how, s)
        PROVE  IInv'
    BY <1>1, <2>2, ArriveStep
  <2>3. ASSUME Witness, NEW v \in Visits, Handle(v) PROVE IInv'
    BY <1>1, <2>3, LookupStep, ResolveStep, RecordStep DEF Handle
  <2>4. ASSUME Witness, NEW v \in Visits, Timeout(v) PROVE IInv'
    BY <1>1, <2>4, TimeoutStep
  <2>5. ASSUME Witness, Change PROVE IInv'
    BY <1>1, <2>5, ChangeStep
  <2> QED BY <1>1, <2>1, <2>2, <2>3, <2>4, <2>5 DEF Next
<1> QED BY <1>1, InitInv, PTL DEF Spec

(* Every variable keeps its type: rows found, answers, clicks and ghosts.  *)
THEOREM TypeCorrect == Spec => []TypeOK
<1>1. IInv => TypeOK BY DEF IInv
<1> QED BY <1>1, Invariance, PTL

(* Whatever writers do meanwhile, what a visit is served, and "not found", *)
(* was the right answer at an instant between arrival and answer.          *)
THEOREM AnswersWereTrue == Spec => []AnswerWasTrue
<1>1. IInv => AnswerWasTrue BY DEF IInv, AnswerWasTrue, VisitInv
<1> QED BY <1>1, Invariance, PTL

(* 410 is only said of a link that was enabled, with an expiry now past.   *)
THEOREM GoneWasAlwaysDue == Spec => []GoneWasDue
<1>1. IInv => GoneWasDue BY DEF IInv, GoneWasDue, VisitInv
<1> QED BY <1>1, Invariance, PTL

(* Only served GETs leave clicks, on the link they were served from.       *)
THEOREM OnlyServedViewsCount == Spec => []OnlyViewsCount
<1>1. IInv => OnlyViewsCount BY DEF IInv, OnlyViewsCount, VisitInv
<1> QED BY <1>1, Invariance, PTL

(***************************************************************************)
(* The list: the inductive invariant                                       *)
(***************************************************************************)
(* The slugs in use.                                                       *)
Taken == {s \in Slugs : links[s] # NoRow}

(* What QuietListIsExact says of one request.                              *)
Exact(r) ==
    LET left == total[r] - (page[r] - 1) * PerPage IN
    /\ Len(items[r]) = IF left < PerPage THEN left ELSE PerPage
    /\ total[r] > 0 => items[r] # <<>>
    /\ HasNext(total[r], page[r]) <=> left > Len(items[r])

ListInv(r) ==
    /\ stage[r] = "fetch" =>
          /\ quiet[r] => total[r] = Cardinality(Matching(params[r].filter, at[r]))
          /\ page[r] = Clamped(params[r].page, total[r])
    /\ Shown(r) /\ quiet[r] => Exact(r)

ListTypeOK ==
    /\ links \in [Slugs -> Row \cup {NoRow}] /\ now \in Nat
    /\ clicks \in [Slugs -> Nat]
    /\ stage \in [Lists -> {"idle", "count", "fetch", "done", "failed"}]
    /\ at \in [Lists -> Nat]
    /\ total \in [Lists -> Nat]
    /\ page \in [Lists -> Nat \ {0}]
    /\ quiet \in [Lists -> BOOLEAN]
    /\ DOMAIN params = Lists /\ DOMAIN items = Lists
    /\ \A r \in Lists : stage[r] # "idle" => params[r] \in [filter : Filters, page : Nat]

ListIInv == ListTypeOK /\ IsFiniteSet(Taken) /\ \A r \in Lists : ListInv(r)

(***************************************************************************)
(* Counting pages                                                          *)
(***************************************************************************)
LEMMA MulMono ==
    ASSUME NEW a \in Int, NEW b \in Int, NEW n \in Nat, a <= b
    PROVE  a * n <= b * n
<1>1. b - a \in Nat OBVIOUS
<1>2. (b - a) * n >= 0 BY <1>1
<1>3. (b - a) * n = b * n - a * n OBVIOUS
<1> QED BY <1>2, <1>3

(* ceil(n / PerPage): the pages before it are full, and it is the last.    *)
LEMMA TotalPagesCeil ==
    ASSUME NEW n \in Nat
    PROVE  /\ TotalPages(n) \in Nat
           /\ n <= TotalPages(n) * PerPage
           /\ TotalPages(n) * PerPage < n + PerPage
<1>1. n + PerPage - 1 \in Nat /\ PerPage \in Nat \ {0} BY ListAssumption
<1> DEFINE m == n + PerPage - 1
<1>2. /\ m \div PerPage \in Nat
      /\ (m \div PerPage) * PerPage <= m
      /\ m < (m \div PerPage) * PerPage + PerPage
  BY <1>1
<1> QED BY <1>1, <1>2 DEF TotalPages

(* A page is one of the pages there are while rows are left at its start.  *)
LEMMA PageWithinTotal ==
    ASSUME NEW n \in Nat, NEW p \in Nat
    PROVE  /\ p <= TotalPages(n) <=> (p - 1) * PerPage < n
           /\ p < TotalPages(n) <=> p * PerPage < n
<1> DEFINE T == TotalPages(n)
<1>1. T \in Nat /\ n <= T * PerPage /\ T * PerPage < n + PerPage
  BY TotalPagesCeil
<1>2. PerPage \in Nat \ {0} BY ListAssumption
<1>3. p * PerPage \in Int /\ T * PerPage \in Int /\ (p - 1) * PerPage = p * PerPage - PerPage
  BY <1>1, <1>2
<1>4. (T + 1) * PerPage = T * PerPage + PerPage BY <1>1, <1>2
<1>5. p <= T => p * PerPage <= T * PerPage BY <1>1, <1>2, MulMono
<1>6. p >= T => p * PerPage >= T * PerPage BY <1>1, <1>2, MulMono
<1>7. p >= T + 1 => p * PerPage >= (T + 1) * PerPage BY <1>1, <1>2, MulMono
<1> HIDE DEF T
<1> QED BY <1>1, <1>2, <1>3, <1>4, <1>5, <1>6, <1>7 DEF T

(***************************************************************************)
(* Ranks in an order                                                       *)
(***************************************************************************)
Ordered(S, sort) ==
    \A x, y, z \in S :
       /\ ~Before(x, x, sort)
       /\ x # y => Before(x, y, sort) \/ Before(y, x, sort)
       /\ Before(x, y, sort) /\ Before(y, z, sort) => Before(x, z, sort)

(* Each ORDER BY is a strict total order of slugs, by the final `slug ASC`. *)
LEMMA SortsOrder ==
    ASSUME ListTypeOK, NEW S \in SUBSET Taken, NEW sort \in Sorts
    PROVE  Ordered(S, sort)
<1>1. \A s \in S : /\ s \in Nat /\ clicks[s] \in Nat
                   /\ links[s].created \in Nat /\ links[s].updated \in Nat
  BY SlugsRanked DEF ListTypeOK, Taken, Row
<1>2. CASE sort = "newest" BY <1>1, <1>2 DEF Before, Ordered
<1>3. CASE sort = "oldest" BY <1>1, <1>3 DEF Before, Ordered
<1>4. CASE sort = "updated" BY <1>1, <1>4 DEF Before, Ordered
<1>5. CASE sort = "slug" BY <1>1, <1>5 DEF Before, Ordered
<1>6. CASE sort = "clicked" BY <1>1, <1>6 DEF Before, Ordered
<1> QED BY <1>2, <1>3, <1>4, <1>5, <1>6 DEF Sorts

Ahead(S, x, sort) == {u \in S : Before(u, x, sort)}

(* In a total order the ranks of n rows are 0 .. n - 1, each once.         *)
LEMMA Ranks ==
    ASSUME NEW S, IsFiniteSet(S), NEW sort, Ordered(S, sort)
    PROVE  /\ Cardinality(S) \in Nat
           /\ \A x \in S : Rank(S, x, sort) \in 0 .. Cardinality(S) - 1
           /\ \A x, y \in S : Rank(S, x, sort) = Rank(S, y, sort) => x = y
           /\ \A k \in 0 .. Cardinality(S) - 1 : \E x \in S : Rank(S, x, sort) = k
<1> DEFINE rank == [x \in S |-> Rank(S, x, sort)]
           n == Cardinality(S)
           T == 0 .. n - 1
<1>1. n \in Nat BY FS_CardinalityType
<1>2. ASSUME NEW x \in S
      PROVE  /\ IsFiniteSet(Ahead(S, x, sort))
             /\ Rank(S, x, sort) = Cardinality(Ahead(S, x, sort))
             /\ Rank(S, x, sort) \in Nat /\ Rank(S, x, sort) < n
  <2>1. Ahead(S, x, sort) \in SUBSET S /\ x \notin Ahead(S, x, sort)
    BY DEF Ahead, Ordered
  <2>2. /\ IsFiniteSet(Ahead(S, x, sort))
        /\ Cardinality(Ahead(S, x, sort)) <= n
        /\ n = Cardinality(Ahead(S, x, sort)) => S = Ahead(S, x, sort)
    BY <2>1, FS_Subset
  <2>3. Cardinality(Ahead(S, x, sort)) \in Nat BY <2>2, FS_CardinalityType
  <2>4. Rank(S, x, sort) = Cardinality(Ahead(S, x, sort)) BY DEF Rank, Ahead
  <2> QED BY <2>1, <2>2, <2>3, <2>4, <1>1
<1>3. ASSUME NEW x \in S, NEW y \in S, Before(x, y, sort)
      PROVE  Rank(S, x, sort) < Rank(S, y, sort)
  <2>1. Ahead(S, x, sort) \in SUBSET Ahead(S, y, sort)
    BY <1>3 DEF Ahead, Ordered
  <2>2. x \in Ahead(S, y, sort) /\ x \notin Ahead(S, x, sort)
    BY <1>3 DEF Ahead, Ordered
  <2>3. /\ Cardinality(Ahead(S, x, sort)) <= Cardinality(Ahead(S, y, sort))
        /\ Cardinality(Ahead(S, y, sort)) # Cardinality(Ahead(S, x, sort))
    BY <2>1, <2>2, <1>2, FS_Subset
  <2> QED BY <2>3, <1>2
<1>4. \A x \in S : Rank(S, x, sort) \in T BY <1>1, <1>2
<1>5. \A x, y \in S : Rank(S, x, sort) = Rank(S, y, sort) => x = y
  BY <1>2, <1>3 DEF Ordered
<1>6. rank \in Injection(S, T) BY <1>4, <1>5 DEF Injection, IsInjective
<1>7. IsFiniteSet(T) /\ Cardinality(T) = n BY <1>1, FS_Interval
<1>8. rank \in Surjection(S, T) BY <1>6, <1>7, FS_Injection
<1>9. \A k \in T : \E x \in S : Rank(S, x, sort) = k
  BY <1>8 DEF Surjection
<1> QED BY <1>1, <1>4, <1>5, <1>9

(* Choosing by rank enumerates a set.                                      *)
Enumeration(S, sort) ==
    [i \in 1 .. Cardinality(S) |-> CHOOSE s \in S : Rank(S, s, sort) = i - 1]

LEMMA EnumerationIsExact ==
    ASSUME NEW S, IsFiniteSet(S), NEW sort, Ordered(S, sort)
    PROVE  LET g == Enumeration(S, sort)
               n == Cardinality(S)
           IN  /\ g \in [1 .. n -> S]
               /\ \A i, j \in 1 .. n : g[i] = g[j] => i = j
               /\ \A x \in S : \E i \in 1 .. n : g[i] = x
<1> DEFINE n == Cardinality(S)
           g == Enumeration(S, sort)
<1>1. /\ n \in Nat
      /\ \A x \in S : Rank(S, x, sort) \in 0 .. n - 1
      /\ \A x, y \in S : Rank(S, x, sort) = Rank(S, y, sort) => x = y
      /\ \A k \in 0 .. n - 1 : \E x \in S : Rank(S, x, sort) = k
  BY Ranks
<1> HIDE DEF n
<1>2. ASSUME NEW i \in 1 .. n
      PROVE  g[i] \in S /\ Rank(S, g[i], sort) = i - 1
  <2>1. i - 1 \in 0 .. n - 1 BY <1>1
  <2>2. \E x \in S : Rank(S, x, sort) = i - 1 BY <2>1, <1>1
  <2>3. g[i] = CHOOSE s \in S : Rank(S, s, sort) = i - 1 BY DEF Enumeration, n
  <2> QED BY <2>2, <2>3
<1>3. ASSUME NEW x \in S PROVE \E i \in 1 .. n : g[i] = x
  <2> DEFINE i == Rank(S, x, sort) + 1
  <2>1. i \in 1 .. n /\ i - 1 = Rank(S, x, sort) BY <1>1
  <2>2. g[i] \in S /\ Rank(S, g[i], sort) = Rank(S, x, sort) BY <2>1, <1>2
  <2>3. g[i] = x BY <2>2, <1>1
  <2> QED BY <2>1, <2>3
<1>4. \A i, j \in 1 .. n : g[i] = g[j] => i = j BY <1>1, <1>2
<1>5. g \in [1 .. n -> S] BY <1>2 DEF Enumeration, n
<1> QED BY <1>3, <1>4, <1>5 DEF n

(* The rows whose ranks lie in a page.                                     *)
OnPage(M, p, sort) ==
    {s \in M : /\ (p - 1) * PerPage <= Rank(M, s, sort)
               /\ Rank(M, s, sort) < (p - 1) * PerPage + PerPage}

(* PageOf of the module enumerates the rows on its page.                   *)
LEMMA PageOfEnumerates ==
    ASSUME NEW f, NEW t, NEW p
    PROVE  PageOf(f, t, p) = Enumeration(OnPage(Matching(f, t), p, f.sort), f.sort)
BY DEF PageOf, OnPage, Enumeration

(* A stretch of ranks is had by as many rows.                              *)
LEMMA RankStretch ==
    ASSUME NEW S, IsFiniteSet(S), NEW sort, Ordered(S, sort),
           NEW from \in Nat, NEW to \in Nat, from <= to, to <= Cardinality(S)
    PROVE  LET R == {s \in S : Rank(S, s, sort) \in from .. to - 1} IN
           IsFiniteSet(R) /\ Cardinality(R) = to - from
<1> DEFINE n == Cardinality(S)
           R == {s \in S : Rank(S, s, sort) \in from .. to - 1}
           f == [s \in R |-> Rank(S, s, sort)]
<1>1. /\ n \in Nat
      /\ \A x, y \in S : Rank(S, x, sort) = Rank(S, y, sort) => x = y
      /\ \A k \in 0 .. n - 1 : \E x \in S : Rank(S, x, sort) = k
  BY Ranks
<1>2. IsFiniteSet(R)
  <2>1. R \in SUBSET S OBVIOUS
  <2> QED BY <2>1, FS_Subset
<1>3. f \in [R -> from .. to - 1] OBVIOUS
<1>4. \A x, y \in R : f[x] = f[y] => x = y BY <1>1
<1>5. ASSUME NEW k \in from .. to - 1 PROVE \E x \in R : f[x] = k
  <2>1. k \in 0 .. n - 1 BY <1>1
  <2>2. PICK x \in S : Rank(S, x, sort) = k BY <2>1, <1>1
  <2>3. x \in R /\ f[x] = k BY <2>2
  <2> QED BY <2>3
<1>6. f \in Bijection(R, from .. to - 1)
  BY <1>3, <1>4, <1>5 DEF Bijection, Injection, Surjection, IsInjective
<1>7. Cardinality(R) = Cardinality(from .. to - 1)
  BY <1>2, <1>6, FS_Bijection DEF ExistsBijection
<1>8. Cardinality(from .. to - 1) = to - from
  <2>1. to - 1 \in Int /\ from \in Int OBVIOUS
  <2>2. Cardinality(from .. to - 1) = IF from > to - 1 THEN 0 ELSE to - 1 - from + 1
    BY <2>1, FS_Interval
  <2> QED BY <2>2
<1> QED BY <1>2, <1>7, <1>8

(* A page that starts within the list is full, or the rest of it.          *)
LEMMA OnPageCount ==
    ASSUME NEW M, IsFiniteSet(M), NEW sort, Ordered(M, sort),
           NEW from \in Nat, NEW p \in Nat \ {0}, from = (p - 1) * PerPage,
           from <= Cardinality(M)
    PROVE  LET left == Cardinality(M) - from IN
           /\ IsFiniteSet(OnPage(M, p, sort))
           /\ Cardinality(OnPage(M, p, sort)) = IF left < PerPage THEN left ELSE PerPage
<1> DEFINE n == Cardinality(M)
           to == IF n - from < PerPage THEN n ELSE from + PerPage
           S == OnPage(M, p, sort)
           R == {s \in M : Rank(M, s, sort) \in from .. to - 1}
<1>1. /\ n \in Nat
      /\ \A x \in M : Rank(M, x, sort) \in 0 .. n - 1
  BY Ranks
<1>2. PerPage \in Nat \ {0} BY ListAssumption
<1>3. S = {s \in M : from <= Rank(M, s, sort) /\ Rank(M, s, sort) < from + PerPage}
  BY DEF OnPage
<1> HIDE DEF n
<1>4. to \in Nat /\ from <= to /\ to <= n BY <1>1, <1>2 DEF n
<1>5. S = R BY <1>1, <1>2, <1>3
<1> HIDE DEF to, S
<1>6. IsFiniteSet(R) /\ Cardinality(R) = to - from BY <1>4, RankStretch DEF n
<1> QED BY <1>1, <1>2, <1>5, <1>6 DEF n, to, S

(***************************************************************************)
(* Pages                                                                   *)
(***************************************************************************)
LEMMA MatchingOrdered ==
    ASSUME ListTypeOK, IsFiniteSet(Taken), NEW f \in Filters, NEW t
    PROVE  /\ IsFiniteSet(Matching(f, t)) /\ Ordered(Matching(f, t), f.sort)
           /\ \A p : /\ OnPage(Matching(f, t), p, f.sort) \in SUBSET Matching(f, t)
                     /\ IsFiniteSet(OnPage(Matching(f, t), p, f.sort))
                     /\ Ordered(OnPage(Matching(f, t), p, f.sort), f.sort)
<1>1. Matching(f, t) \in SUBSET Taken BY DEF Matching, Taken
<1>2. f.sort \in Sorts BY ListAssumption DEF Filter
<1>3. IsFiniteSet(Matching(f, t)) BY <1>1, FS_Subset
<1>4. Ordered(Matching(f, t), f.sort) BY <1>1, <1>2, SortsOrder
<1>5. ASSUME NEW p
      PROVE  /\ OnPage(Matching(f, t), p, f.sort) \in SUBSET Matching(f, t)
             /\ IsFiniteSet(OnPage(Matching(f, t), p, f.sort))
             /\ Ordered(OnPage(Matching(f, t), p, f.sort), f.sort)
  <2>1. OnPage(Matching(f, t), p, f.sort) \in SUBSET Matching(f, t) BY DEF OnPage
  <2> QED BY <2>1, <1>3, <1>4, FS_Subset DEF Ordered
<1> QED BY <1>3, <1>4, <1>5

(* Each row is on one page, which is one of the pages there are.           *)
LEMMA PageOfRank ==
    ASSUME NEW n \in Nat, NEW k \in 0 .. n - 1
    PROVE  \E p \in 1 .. TotalPages(n) :
              (p - 1) * PerPage <= k /\ k < (p - 1) * PerPage + PerPage
<1>1. PerPage \in Nat \ {0} BY ListAssumption
<1> DEFINE p == (k \div PerPage) + 1
<1>2. /\ k \div PerPage \in Nat
      /\ (k \div PerPage) * PerPage <= k
      /\ k < (k \div PerPage) * PerPage + PerPage
  BY <1>1
<1>3. p \in Nat /\ p >= 1 /\ p - 1 = k \div PerPage BY <1>2
<1>4. (p - 1) * PerPage <= k /\ k < (p - 1) * PerPage + PerPage BY <1>2, <1>3
<1> HIDE DEF p
<1>5. (p - 1) * PerPage < n
  <2>1. (p - 1) * PerPage \in Int BY <1>1, <1>3
  <2> QED BY <2>1, <1>4
<1>6. p <= TotalPages(n) BY <1>3, <1>5, PageWithinTotal
<1>7. TotalPages(n) \in Nat BY TotalPagesCeil
<1> QED BY <1>3, <1>4, <1>6, <1>7

(* No rank lies in two pages.                                              *)
LEMMA PagesDisjoint ==
    ASSUME NEW p \in Nat, NEW q \in Nat, NEW k \in Nat,
           (p - 1) * PerPage <= k, k < (p - 1) * PerPage + PerPage,
           (q - 1) * PerPage <= k, k < (q - 1) * PerPage + PerPage
    PROVE  p = q
<1>1. PerPage \in Nat \ {0} BY ListAssumption
<1>2. ASSUME NEW a \in Nat, NEW b \in Nat, a < b,
             k < (a - 1) * PerPage + PerPage, (b - 1) * PerPage <= k
      PROVE  FALSE
  <2>1. a <= b - 1 BY <1>2
  <2>2. a * PerPage <= (b - 1) * PerPage BY <2>1, <1>1, MulMono
  <2>3. (a - 1) * PerPage + PerPage = a * PerPage BY <1>1
  <2>4. a * PerPage \in Int /\ (b - 1) * PerPage \in Int BY <1>1
  <2> QED BY <2>2, <2>3, <2>4, <1>2
<1>3. ~(p < q) BY <1>2
<1>4. ~(q < p) BY <1>2
<1> QED BY <1>3, <1>4

(* Every match is on a page, at one place of it.                           *)
LEMMA PagesPartitionMatches ==
    ASSUME ListTypeOK, IsFiniteSet(Taken) PROVE PagesPartition
<1> SUFFICES ASSUME NEW f \in Filters
             PROVE  LET M == Matching(f, now)
                        shown == [p \in 1 .. TotalPages(Cardinality(M)) |-> PageOf(f, now, p)]
                    IN  /\ M = UNION {{shown[p][i] : i \in DOMAIN shown[p]} : p \in DOMAIN shown}
                        /\ \A p, q \in DOMAIN shown :
                              \A i \in DOMAIN shown[p], j \in DOMAIN shown[q] :
                                 shown[p][i] = shown[q][j] => p = q /\ i = j
  BY DEF PagesPartition
<1> DEFINE M == Matching(f, now)
           n == Cardinality(M)
           T == TotalPages(n)
           S(p) == OnPage(M, p, f.sort)
           shown == [p \in 1 .. T |-> PageOf(f, now, p)]
<1>1. /\ n \in Nat
      /\ \A x \in M : Rank(M, x, f.sort) \in 0 .. n - 1
  BY MatchingOrdered, Ranks
<1>2. T \in Nat BY <1>1, TotalPagesCeil
<1>3. ASSUME NEW p \in 1 .. T
      PROVE  /\ DOMAIN shown[p] = 1 .. Cardinality(S(p))
             /\ \A i \in DOMAIN shown[p] : shown[p][i] \in S(p)
             /\ \A i, j \in DOMAIN shown[p] : shown[p][i] = shown[p][j] => i = j
             /\ \A x \in S(p) : \E i \in DOMAIN shown[p] : shown[p][i] = x
  <2>1. shown[p] = Enumeration(S(p), f.sort) BY PageOfEnumerates
  <2>2. IsFiniteSet(S(p)) /\ Ordered(S(p), f.sort) BY MatchingOrdered
  <2>3. /\ shown[p] \in [1 .. Cardinality(S(p)) -> S(p)]
        /\ \A i, j \in 1 .. Cardinality(S(p)) : shown[p][i] = shown[p][j] => i = j
        /\ \A x \in S(p) : \E i \in 1 .. Cardinality(S(p)) : shown[p][i] = x
    BY <2>1, <2>2, EnumerationIsExact
  <2> HIDE DEF S, shown
  <2> QED BY <2>3
<1>4. \A p \in 1 .. T : \A x \in S(p) :
         /\ x \in M
         /\ (p - 1) * PerPage <= Rank(M, x, f.sort)
         /\ Rank(M, x, f.sort) < (p - 1) * PerPage + PerPage
  BY DEF OnPage
<1>5. \A x \in M : \E p \in 1 .. T : x \in S(p)
  <2> SUFFICES ASSUME NEW x \in M PROVE \E p \in 1 .. T : x \in S(p)
    OBVIOUS
  <2>1. Rank(M, x, f.sort) \in 0 .. n - 1 BY <1>1
  <2>2. PICK p \in 1 .. T : /\ (p - 1) * PerPage <= Rank(M, x, f.sort)
                            /\ Rank(M, x, f.sort) < (p - 1) * PerPage + PerPage
    BY <2>1, <1>1, PageOfRank
  <2>3. x \in S(p) BY <2>2 DEF OnPage
  <2> QED BY <2>3
<1>6. \A p, q \in 1 .. T : \A x : x \in S(p) /\ x \in S(q) => p = q
  <2> SUFFICES ASSUME NEW p \in 1 .. T, NEW q \in 1 .. T, NEW x, x \in S(p), x \in S(q)
               PROVE  p = q
    OBVIOUS
  <2>1. Rank(M, x, f.sort) \in Nat BY <1>1, <1>4
  <2>2. p \in Nat /\ q \in Nat BY <1>2
  <2> QED BY <2>1, <2>2, <1>4, PagesDisjoint
<1>7. DOMAIN shown = 1 .. T OBVIOUS
<1>8. \A p \in 1 .. T : S(p) \subseteq M BY <1>4
<1> HIDE DEF M, T, S, shown, n
<1>9. M = UNION {{shown[p][i] : i \in DOMAIN shown[p]} : p \in DOMAIN shown}
  BY <1>3, <1>5, <1>7, <1>8
<1>10. \A p, q \in DOMAIN shown :
          \A i \in DOMAIN shown[p], j \in DOMAIN shown[q] :
             shown[p][i] = shown[q][j] => p = q /\ i = j
  BY <1>3, <1>6, <1>7
<1> QED BY <1>9, <1>10 DEF M, T, shown, n

(* The page fetched starts within the count, before its end if it has any. *)
LEMMA ClampedPage ==
    ASSUME NEW n \in Nat, NEW p \in Nat, NEW c, c = Clamped(p, n)
    PROVE  /\ c \in Nat \ {0}
           /\ (c - 1) * PerPage \in Nat
           /\ (c - 1) * PerPage <= n
           /\ n > 0 => (c - 1) * PerPage < n
           /\ HasNext(n, c) <=> (c - 1) * PerPage + PerPage < n
<1> DEFINE T == TotalPages(n)
<1>1. PerPage \in Nat \ {0} BY ListAssumption
<1>2. T \in Nat BY TotalPagesCeil
<1>3. T \in Nat /\ n <= T * PerPage /\ T * PerPage < n + PerPage BY TotalPagesCeil
<1> HIDE DEF T
<1>4. c \in Nat \ {0} /\ c <= AtLeast1(T) BY <1>2 DEF Clamped, AtLeast1, T
<1>5. c - 1 \in Nat BY <1>4
<1>6. (c - 1) * PerPage \in Nat BY <1>1, <1>5
<1>7. c <= T <=> (c - 1) * PerPage < n BY <1>4, PageWithinTotal DEF T
<1>8. c < T <=> c * PerPage < n BY <1>4, PageWithinTotal DEF T
<1>9. c * PerPage = (c - 1) * PerPage + PerPage BY <1>1, <1>4
<1>10. n > 0 => T > 0
  <2>1. T = 0 => T * PerPage = 0 BY <1>1
  <2> QED BY <2>1, <1>3
<1>11. c > T => c = 1 BY <1>4, <1>2 DEF AtLeast1
<1>12. c = 1 => (c - 1) * PerPage = 0
  <2>1. c = 1 => c - 1 = 0 OBVIOUS
  <2> QED BY <2>1, <1>1
<1>13. HasNext(n, c) <=> c < AtLeast1(T) BY DEF HasNext, T
<1>14. c < AtLeast1(T) <=> c < T BY <1>2, <1>4 DEF AtLeast1
<1> QED BY <1>1, <1>2, <1>4, <1>6, <1>7, <1>8, <1>9, <1>10, <1>11, <1>12, <1>13, <1>14

(* What a fetch shows of the table that was counted.                       *)
LEMMA FetchIsExact ==
    ASSUME ListTypeOK, IsFiniteSet(Taken), NEW f \in Filters, NEW t,
           NEW p \in Nat, NEW n, n = Cardinality(Matching(f, t)),
           NEW c, c = Clamped(p, n)
    PROVE  LET shown == PageOf(f, t, c)
               left == n - (c - 1) * PerPage
           IN  /\ Len(shown) = IF left < PerPage THEN left ELSE PerPage
               /\ n > 0 => shown # <<>>
               /\ HasNext(n, c) <=> left > Len(shown)
<1> DEFINE M == Matching(f, t)
           S == OnPage(M, c, f.sort)
           m == Cardinality(S)
           shown == PageOf(f, t, c)
           from == (c - 1) * PerPage
<1>1. IsFiniteSet(M) /\ Ordered(M, f.sort) /\ IsFiniteSet(S) /\ Ordered(S, f.sort)
  BY MatchingOrdered
<1>2. n \in Nat /\ m \in Nat BY <1>1, FS_CardinalityType
<1>3. /\ c \in Nat \ {0} /\ from \in Nat /\ from <= n
      /\ n > 0 => from < n
      /\ HasNext(n, c) <=> from + PerPage < n
  BY <1>2, ClampedPage
<1>4. m = IF n - from < PerPage THEN n - from ELSE PerPage
  BY <1>1, <1>3, OnPageCount
<1>5. shown \in [1 .. m -> S] BY <1>1, PageOfEnumerates, EnumerationIsExact
<1> HIDE DEF shown, m, S
<1>6. Len(shown) = m
  <2>1. shown \in Seq(S) BY <1>2, <1>5
  <2>2. DOMAIN shown = 1 .. m /\ DOMAIN shown = 1 .. Len(shown) /\ Len(shown) \in Nat
    BY <2>1, <1>5
  <2> QED BY <2>2, <1>2
<1>7. m > 0 => shown # <<>> BY <1>6
<1>8. PerPage \in Nat \ {0} BY ListAssumption
<1> HIDE DEF from
<1> QED BY <1>2, <1>3, <1>4, <1>6, <1>7, <1>8 DEF shown, from

(***************************************************************************)
(* The steps                                                               *)
(***************************************************************************)
LEMMA ListInitHolds == ListInit => ListIInv
<1> SUFFICES ASSUME ListInit PROVE ListIInv
  OBVIOUS
<1>1. ListTypeOK BY DEF ListInit, TableInit, ListTypeOK
<1>2. Taken = {} BY DEF ListInit, TableInit, Taken
<1>3. IsFiniteSet(Taken) BY <1>2, FS_EmptySet
<1>4. \A r \in Lists : ListInv(r) BY DEF ListInit, ListInv, Shown
<1> QED BY <1>1, <1>3, <1>4 DEF ListIInv

(* What one request does leaves the others' as they were.                  *)
LEMMA OthersKept ==
    ASSUME ListIInv, NEW r \in Lists, NEW q \in Lists, q # r,
           UNCHANGED <<links, stage[q], params[q], at[q], total[q], page[q],
                       items[q], quiet[q]>>
    PROVE  ListInv(q)'
BY DEF ListIInv, ListInv, Exact, Shown, Matching, Found

LEMMA BeginStep ==
    ASSUME ListIInv, NEW r \in Lists, NEW f \in Filters, NEW p \in Pages, Begin(r, f, p)
    PROVE  ListIInv'
<1> USE DEF ListIInv, Begin, StageTo
<1>1. ListTypeOK' BY ListAssumption DEF ListTypeOK
<1>2. IsFiniteSet(Taken)' BY DEF Taken
<1>3. ListInv(r)' BY DEF ListTypeOK, ListInv, Shown
<1>4. ASSUME NEW q \in Lists, q # r PROVE ListInv(q)'
  BY <1>4, OthersKept DEF ListTypeOK
<1> QED BY <1>1, <1>2, <1>3, <1>4

LEMMA FollowStep ==
    ASSUME ListIInv, NEW r \in Lists, Follow(r) PROVE ListIInv'
<1> USE DEF ListIInv, Follow, StageTo
<1>1. PICK p \in (IF HasPrev(page[r]) THEN {page[r] - 1} ELSE {}) \cup
               (IF HasNext(total[r], page[r]) THEN {page[r] + 1} ELSE {}) :
          params' = [params EXCEPT ![r].page = p]
  OBVIOUS
<1>2. p \in Nat BY <1>1 DEF ListTypeOK, HasPrev
<1>3. params[r] \in [filter : Filters, page : Nat] BY DEF ListTypeOK
<1>4. ListTypeOK' BY <1>1, <1>2, <1>3 DEF ListTypeOK
<1>5. IsFiniteSet(Taken)' BY DEF Taken
<1>6. ListInv(r)' BY DEF ListTypeOK, ListInv, Shown
<1>7. ASSUME NEW q \in Lists, q # r PROVE ListInv(q)'
  BY <1>1, <1>7, OthersKept DEF ListTypeOK
<1> QED BY <1>4, <1>5, <1>6, <1>7

LEMMA CountStep ==
    ASSUME ListIInv, NEW r \in Lists, Count(r) PROVE ListIInv'
<1> USE DEF ListIInv, StageTo
<1> DEFINE n == Cardinality(Matching(params[r].filter, at[r]))
<1>1. params[r] \in [filter : Filters, page : Nat] BY DEF ListTypeOK, Count
<1>2. n \in Nat
  <2>1. IsFiniteSet(Matching(params[r].filter, at[r])) BY <1>1, MatchingOrdered
  <2> QED BY <2>1, FS_CardinalityType
<1>3. Clamped(params[r].page, n) \in Nat \ {0} BY <1>1, <1>2, ClampedPage
<1>4. /\ total' = [total EXCEPT ![r] = n]
      /\ page' = [page EXCEPT ![r] = Clamped(params[r].page, n)]
  BY DEF Count
<1>5. UNCHANGED <<links, params, at>> BY DEF Count
<1>6. n' = n BY <1>5 DEF Matching, Found
<1> HIDE DEF n
<1>7. ListTypeOK' BY <1>2, <1>3, <1>4 DEF ListTypeOK, Count
<1>8. IsFiniteSet(Taken)' BY DEF Taken, Count
<1>9. ListInv(r)'
  <2>1. total'[r] = n /\ page'[r] = Clamped(params[r].page, n) BY <1>4 DEF ListTypeOK
  <2>2. stage'[r] = "fetch" BY DEF ListTypeOK, Count
  <2>3. total'[r] = Cardinality(Matching(params[r].filter, at[r]))'
    BY <2>1, <1>6 DEF n
  <2> QED BY <2>1, <2>2, <2>3, <1>5 DEF ListInv, Shown
<1>10. ASSUME NEW q \in Lists, q # r PROVE ListInv(q)'
  BY <1>10, OthersKept DEF ListTypeOK, Count
<1> QED BY <1>7, <1>8, <1>9, <1>10

LEMMA FetchStep ==
    ASSUME ListIInv, NEW r \in Lists, Fetch(r) PROVE ListIInv'
<1> USE DEF ListIInv, Fetch, StageTo
<1> DEFINE shown == PageOf(params[r].filter, at[r], page[r])
<1>1. items' = [items EXCEPT ![r] = shown] OBVIOUS
<1>2. params[r] \in [filter : Filters, page : Nat] BY DEF ListTypeOK
<1>3. quiet[r] => LET left == total[r] - (page[r] - 1) * PerPage IN
                  /\ Len(shown) = IF left < PerPage THEN left ELSE PerPage
                  /\ total[r] > 0 => shown # <<>>
                  /\ HasNext(total[r], page[r]) <=> left > Len(shown)
  <2>1. page[r] = Clamped(params[r].page, total[r]) BY DEF ListInv
  <2>2. quiet[r] => total[r] = Cardinality(Matching(params[r].filter, at[r]))
    BY DEF ListInv
  <2> QED BY <1>2, <2>1, <2>2, FetchIsExact
<1> HIDE DEF shown
<1>4. ListTypeOK' BY <1>1 DEF ListTypeOK
<1>5. IsFiniteSet(Taken)' BY DEF Taken
<1>6. ListInv(r)'
  <2>1. items'[r] = shown /\ stage'[r] = "done" BY <1>1 DEF ListTypeOK
  <2> QED BY <2>1, <1>3 DEF ListInv, Exact, Shown, HasNext
<1>7. ASSUME NEW q \in Lists, q # r PROVE ListInv(q)'
  BY <1>7, <1>1, OthersKept DEF ListTypeOK
<1> QED BY <1>4, <1>5, <1>6, <1>7

LEMMA AbandonStep ==
    ASSUME ListIInv, NEW r \in Lists, Abandon(r) PROVE ListIInv'
<1> USE DEF ListIInv, Abandon, StageTo
<1>1. ListTypeOK' BY DEF ListTypeOK
<1>2. IsFiniteSet(Taken)' BY DEF Taken
<1>3. ListInv(r)' BY DEF ListTypeOK, ListInv, Shown
<1>4. ASSUME NEW q \in Lists, q # r PROVE ListInv(q)'
  BY <1>4, OthersKept DEF ListTypeOK
<1> QED BY <1>1, <1>2, <1>3, <1>4

LEMMA MeanwhileStep ==
    ASSUME ListIInv, Meanwhile PROVE ListIInv'
<1> USE DEF ListIInv
<1>1. UNCHANGED <<stage, params, at, total, page, items>> BY DEF Meanwhile
<1>2. ASSUME UNCHANGED <<links, quiet>>, now' \in Nat, clicks' \in [Slugs -> Nat]
      PROVE  ListIInv'
  <2>1. ListTypeOK' BY <1>1, <1>2 DEF ListTypeOK
  <2>2. IsFiniteSet(Taken)' BY <1>2 DEF Taken
  <2>3. ASSUME NEW r \in Lists PROVE ListInv(r)'
    <3>1. ListInv(r) OBVIOUS
    <3> QED BY <3>1, <1>1, <1>2 DEF ListInv, Exact, Shown, Matching, Found
  <2> QED BY <2>1, <2>2, <2>3
<1>3. ASSUME NEW s \in Slugs, NEW row \in Written,
             links' = [links EXCEPT ![s] = row], Write(s),
             quiet' = [r \in Lists |-> quiet[r] /\ stage[r] # "fetch"],
             UNCHANGED clicks
      PROVE  ListIInv'
  <2>1. row \in Row BY ListAssumption
  <2>2. ListTypeOK' BY <1>1, <1>3, <2>1 DEF ListTypeOK, Write
  <2>3. IsFiniteSet(Taken)'
    <3>1. Taken' \in SUBSET (Taken \cup {s}) BY <1>3 DEF Taken, ListTypeOK
    <3>2. IsFiniteSet(Taken \cup {s}) BY FS_AddElement
    <3> QED BY <3>1, <3>2, FS_Subset
  <2>4. ASSUME NEW r \in Lists PROVE ListInv(r)'
    <3>1. quiet'[r] => quiet[r] /\ stage[r] # "fetch" BY <1>3
    <3>2. ListInv(r) OBVIOUS
    <3> QED BY <3>1, <3>2, <1>1 DEF ListInv, Exact, Shown
  <2> QED BY <2>2, <2>3, <2>4
<1>4. CASE Tick /\ UNCHANGED <<clicks, quiet>>
  <2>1. now' \in Nat BY <1>4 DEF Tick, ListTypeOK
  <2>2. clicks' \in [Slugs -> Nat] BY <1>4 DEF ListTypeOK
  <2> QED BY <2>1, <2>2, <1>4, <1>2 DEF Tick
<1>5. ASSUME NEW s \in Slugs, clicks' = [clicks EXCEPT ![s] = @ + 1],
             UNCHANGED <<links, now, quiet>>
      PROVE  ListIInv'
  <2>1. now' \in Nat /\ clicks' \in [Slugs -> Nat] BY <1>5 DEF ListTypeOK
  <2> QED BY <2>1, <1>5, <1>2
<1> QED BY <1>3, <1>4, <1>5 DEF Meanwhile

LEMMA ListStep == ListIInv /\ [ListNext]_listVars => ListIInv'
<1> SUFFICES ASSUME ListIInv, [ListNext]_listVars PROVE ListIInv'
  OBVIOUS
<1>1. CASE UNCHANGED listVars
  BY <1>1 DEF ListIInv, ListTypeOK, Taken, ListInv, Exact, Shown, Matching, Found, listVars
<1> QED BY <1>1, BeginStep, FollowStep, CountStep, FetchStep, AbandonStep, MeanwhileStep
        DEF ListNext

(* The inductive invariant of list requests holds in every execution.      *)
THEOREM ListInvariance == ListSpec => []ListIInv
BY ListInitHolds, ListStep, PTL DEF ListSpec


(* The filters in SQL and the availability checks in Rust agree on every   *)
(* row at every instant (links.rs:332-344, 27-35).                         *)
THEOREM StatusesPartitionRows == ListSpec => []StatusesPartition
<1>1. ListIInv => StatusesPartition
  <2> SUFFICES ASSUME ListIInv, NEW s \in Slugs, links[s] # NoRow
               PROVE  LET has(status) == HasStatus(links[s], status, now) IN
                      /\ has("disabled") <=> IsDisabled(links[s])
                      /\ has("expired") <=> ~IsDisabled(links[s]) /\ IsExpired(links[s], now)
                      /\ has("active") <=> ~IsDisabled(links[s]) /\ ~IsExpired(links[s], now)
                      /\ has("expiring") => has("active")
    BY DEF StatusesPartition
  <2>1. now \in Nat /\ links[s].expires \in Nat \cup {Null}
    BY DEF ListIInv, ListTypeOK, Row
  <2> QED BY <2>1, SentinelsDistinct DEF HasStatus, IsDisabled, IsExpired
<1> QED BY <1>1, ListInvariance, PTL

(* At every instant the pages of a list, in each filter and order, hold    *)
(* each matching link once (ORDER BY, LIMIT and OFFSET of links.rs).       *)
THEOREM PagesPartitionLists == ListSpec => []PagesPartition
<1>1. ListIInv => PagesPartition BY PagesPartitionMatches DEF ListIInv
<1> QED BY <1>1, ListInvariance, PTL

(* A list between whose COUNT and SELECT no write fell shows as many rows  *)
(* as its count promises, none only if there are none, and a next page     *)
(* exactly while rows are left (links.rs:405-444, admin.rs:487-491).       *)
THEOREM QuietListsExact == ListSpec => []QuietListIsExact
<1>1. ListIInv => QuietListIsExact
  BY DEF ListIInv, ListInv, Exact, QuietListIsExact
<1> QED BY <1>1, ListInvariance, PTL
=============================================================================
