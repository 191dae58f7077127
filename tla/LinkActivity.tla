---------------------------- MODULE LinkActivity ----------------------------
(***************************************************************************)
(* The activity card of one link (get_link_activity of                     *)
(* src/db/analytics.rs): three statements, one after the other, read the   *)
(* daily click rows while the click recorder goes on writing them, and the *)
(* rows of the last one are spread over a zero-filled series of days.      *)
(***************************************************************************)
EXTENDS ClickLedger, Sequences, FiniteSetsExt

CONSTANTS
    Readers,    \* requests for the admin's link page
    SeriesDays, \* length of the series: 30 on the link page
    WeekDays    \* 7

ASSUME SpansAssumption ==
    /\ SeriesDays \in Nat \ {0} /\ WeekDays \in Nat \ {0}
    /\ MillisPerDay \in Nat \ {0} /\ MaxNow \in Nat
    /\ IsFiniteSet(Clicks)

VARIABLES
    now,        \* now_millis()
    pc,         \* where each reader's handler stands
    ask,        \* the link it is about
    at,         \* its reading of the clock, before it awaits anything
    total,      \* the first statement: clicks and last click
    week,       \* the second: clicks since six days before today
    series,     \* the third: clicks per day, oldest first
    asof        \* ghost: the daily rows when the handler started

readerVars == <<pc, ask, at, total, week, series, asof>>
vars == <<visit, fate, daily, now, pc, ask, at, total, week, series, asof>>

Init ==
    /\ LedgerInit
    /\ now = 0
    /\ pc = [r \in Readers |-> "idle"]
    /\ ask \in [Readers -> Links]
    /\ at = [r \in Readers |-> 0]
    /\ total = [r \in Readers |-> [count |-> 0, last |-> 0]]
    /\ week = [r \in Readers |-> 0]
    /\ series = [r \in Readers |-> <<>>]
    /\ asof = [r \in Readers |-> daily]

(***************************************************************************)
(* The three statements                                                    *)
(***************************************************************************)
Today(r) == DayStart(at[r])
WeekStart(r) == Today(r) - (WeekDays - 1) * MillisPerDay
SeriesStart(r) == Today(r) - (SeriesDays - 1) * MillisPerDay

(* The days of rows that exist, from a day on.                             *)
DaysOf(table, l, from) == {d \in Days : d >= from /\ table[l][d].count > 0}
ClicksOn(table, l, S) == MapThenSumSet(LAMBDA d : table[l][d].count, S)

(* link_stats: SUM and MAX over all rows; no row has no last click.        *)
Stats(table, l) ==
    LET S == DaysOf(table, l, 0) IN
    [count |-> ClicksOn(table, l, S),
     last |-> IF S = {} THEN 0 ELSE Max({table[l][d].last : d \in S})]

(* The rows of the third statement, ORDER BY day_start_utc.                *)
Earlier(S, d) == Cardinality({e \in S : e < d})
OrderedRows(table, l, from) ==
    LET S == DaysOf(table, l, from)
        day(i) == CHOOSE d \in S : Earlier(S, d) = i - 1
    IN  [i \in 1 .. Cardinality(S) |->
            [day |-> day(i), count |-> table[l][day(i)].count]]

(* Mutant of Walk: the cursor stays on a row that was used.                *)
WalkStuck(rows, day, acc) ==
    [cursor |-> acc.cursor,
     out |-> Append(acc.out, IF acc.cursor <= Len(rows) /\ rows[acc.cursor].day = day
                             THEN rows[acc.cursor].count ELSE 0)]

(* One day of the series: the cursor skips rows before the day, and uses   *)
(* the row of the day if there is one.                                     *)
Walk(rows, day, acc) ==
    LET c == acc.cursor
             + Cardinality({j \in DOMAIN rows : j >= acc.cursor /\ rows[j].day < day})
        hit == c <= Len(rows) /\ rows[c].day = day
    IN  [cursor |-> IF hit THEN c + 1 ELSE c,
         out |-> Append(acc.out, IF hit THEN rows[c].count ELSE 0)]

(* One pass over the ordered rows and the days from start on.              *)
ZeroFilled(rows, start) ==
    LET pass[k \in 0 .. SeriesDays] ==
            IF k = 0 THEN [cursor |-> 1, out |-> <<>>]
            ELSE Walk(rows, start + (k - 1) * MillisPerDay, pass[k - 1])
    IN  pass[SeriesDays].out

(***************************************************************************)
(* The handler                                                             *)
(***************************************************************************)
Goto(r, label) == pc' = [pc EXCEPT ![r] = label]

Begin(r) ==
    /\ pc[r] = "idle"
    /\ at' = [at EXCEPT ![r] = now]
    /\ asof' = [asof EXCEPT ![r] = daily]
    /\ Goto(r, "total")
    /\ UNCHANGED <<ledgerVars, now, ask, total, week, series>>

ReadTotal(r) ==
    /\ pc[r] = "total"
    /\ total' = [total EXCEPT ![r] = Stats(daily, ask[r])]
    /\ Goto(r, "week")
    /\ UNCHANGED <<ledgerVars, now, ask, at, week, series, asof>>

(* Mutant of ReadWeek: eight days are summed.                              *)
ReadWeekLong(r) ==
    /\ pc[r] = "week"
    /\ week' = [week EXCEPT ![r] =
          ClicksOn(daily, ask[r], DaysOf(daily, ask[r], WeekStart(r) - MillisPerDay))]
    /\ Goto(r, "series")
    /\ UNCHANGED <<ledgerVars, now, ask, at, total, series, asof>>

ReadWeek(r) ==
    /\ pc[r] = "week"
    /\ week' = [week EXCEPT ![r] =
                  ClicksOn(daily, ask[r], DaysOf(daily, ask[r], WeekStart(r)))]
    /\ Goto(r, "series")
    /\ UNCHANGED <<ledgerVars, now, ask, at, total, series, asof>>

ReadSeries(r) ==
    /\ pc[r] = "series"
    /\ series' = [series EXCEPT ![r] =
                    ZeroFilled(OrderedRows(daily, ask[r], SeriesStart(r)), SeriesStart(r))]
    /\ Goto(r, "done")
    /\ UNCHANGED <<ledgerVars, now, ask, at, total, week, asof>>

(* A statement fails or the request times out: an error page.              *)
Abandon(r) ==
    /\ pc[r] \in {"total", "week", "series"}
    /\ Goto(r, "failed")
    /\ UNCHANGED <<ledgerVars, now, ask, at, total, week, series, asof>>

(* The recorder's ledger moves; a click is stamped with the present time.  *)
Clicking ==
    /\ LedgerNext
    /\ \A c \in Clicks : fate[c] = "none" /\ fate'[c] = "taken" => visit'[c].at = now
    /\ UNCHANGED <<now, readerVars>>

Tick == now < MaxNow /\ now' = now + 1 /\ UNCHANGED <<ledgerVars, readerVars>>

Next ==
    \/ \E r \in Readers :
          Begin(r) \/ ReadTotal(r) \/ ReadWeek(r) \/ ReadSeries(r) \/ Abandon(r)
    \/ Clicking \/ Tick

Spec == Init /\ [][Next]_vars

(***************************************************************************)
(* Properties                                                              *)
(***************************************************************************)
Completes(r) == pc[r] = "series" /\ pc'[r] = "done"

(* Clicks of link l on the days from..to, straight from the clicks.        *)
Counted(l, from, to) ==
    Cardinality({c \in Clicks : /\ fate[c] = "counted" /\ visit[c].link = l
                                /\ from <= visit[c].at /\ visit[c].at < to})

(* The series has one bar per calendar day, ends today, and each bar is    *)
(* exactly the clicks counted on its day, zeros included: no row is        *)
(* dropped, shifted or used twice by the single pass.                      *)
SeriesExact ==
    [][\A r \in Readers : Completes(r) =>
         /\ Len(series'[r]) = SeriesDays
         /\ \A i \in 1 .. SeriesDays :
               LET day == Today(r) - (SeriesDays - i) * MillisPerDay IN
               series'[r][i] = Counted(ask[r], day, day + MillisPerDay)]_vars

(* Though the figures of one card are read at different instants, each was *)
(* right at some moment while the page was made, and a later one never     *)
(* misses what an earlier one counted: the total is at most the week's     *)
(* clicks plus the older ones, and the last click is one that was counted. *)
FiguresBracketed ==
    [][\A r \in Readers : Completes(r) =>
         LET l == ask[r]
             before == Stats(asof[r], l)
             after == Stats(daily, l)
         IN  /\ before.count <= total[r].count /\ total[r].count <= after.count
             /\ before.last <= total[r].last /\ total[r].last <= after.last
             /\ total[r].count <= Counted(l, 0, WeekStart(r)) + week[r]
             /\ week[r] <= Counted(l, WeekStart(r), MaxNow + 1)]_vars

(* "the "last 7 days" figure covers the seven calendar days ending today"  *)
(* (analytics.rs:162-164): nothing of a later day is in it.                *)
WeekEndsToday ==
    [][\A r \in Readers : Completes(r) =>
         week[r] <= Counted(ask[r], WeekStart(r), Today(r) + MillisPerDay)]_vars
=============================================================================
