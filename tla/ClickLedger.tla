---------------------------- MODULE ClickLedger -----------------------------
(***************************************************************************)
(* What the click analytics promise: best-effort counting.  A click that a *)
(* visit recorded is counted at most once, count and last-clicked time of  *)
(* its UTC day changing together, or it is missed; nothing else touches    *)
(* the daily rows, and no restart undoes or repeats a count.  ClickRecorder *)
(* implements this with a queue, a worker and a database.                  *)
(***************************************************************************)
EXTENDS Integers

CONSTANTS
    Links,          \* links.id values
    Clicks,         \* successful public GETs
    MillisPerDay,   \* MILLIS_PER_DAY
    MaxNow          \* bound: the last instant of the clock

VARIABLES
    visit,      \* each click's link and timestamp
    fate,       \* "none", "taken", "counted" or "missed"
    daily       \* link_daily_clicks; a count of 0 stands for no row

ledgerVars == <<visit, fate, daily>>

Times == 0 .. MaxNow

(* timestamp.rem_euclid(MILLIS_PER_DAY) is TLA+'s %.                       *)
DayStart(t) == t - (t % MillisPerDay)
Days == {DayStart(t) : t \in Times}

NoVisit == [link |-> {}, at |-> 0]
Visit == [link : Links, at : Times]
DayRow == [count : Nat, last : Times]

LaterOf(a, b) == IF a > b THEN a ELSE b

(* Mutant of Upserted: last_clicked_at = excluded.last_clicked_at.         *)
UpsertedLatestWritten(row, at) ==
    [count |-> IF row.count = 0 THEN 1 ELSE row.count + 1, last |-> at]

(* The upsert of record_click: INSERT ... ON CONFLICT DO UPDATE.           *)
Upserted(row, at) ==
    IF row.count = 0
    THEN [count |-> 1, last |-> at]
    ELSE [count |-> row.count + 1, last |-> LaterOf(row.last, at)]

Recorded(table, v) ==
    [table EXCEPT ![v.link][DayStart(v.at)] = Upserted(@, v.at)]

LedgerInit ==
    /\ visit = [c \in Clicks |-> NoVisit]
    /\ fate = [c \in Clicks |-> "none"]
    /\ daily = [l \in Links |-> [d \in Days |-> [count |-> 0, last |-> 0]]]

(* A public GET is served: its click is taken with the time it happened.   *)
Take(c) ==
    /\ fate[c] = "none"
    /\ \E v \in Visit : visit' = [visit EXCEPT ![c] = v]
    /\ fate' = [fate EXCEPT ![c] = "taken"]
    /\ UNCHANGED daily

Count(c) ==
    /\ fate[c] = "taken"
    /\ fate' = [fate EXCEPT ![c] = "counted"]
    /\ daily' = Recorded(daily, visit[c])
    /\ UNCHANGED visit

(* Clicks are missed: the queue is full, a write fails, the process dies.  *)
Miss(S) ==
    /\ \A c \in S : fate[c] = "taken"
    /\ fate' = [c \in Clicks |-> IF c \in S THEN "missed" ELSE fate[c]]
    /\ UNCHANGED <<visit, daily>>

(* The process dies while a write is under way: that click may still count. *)
CountLast(c, S) ==
    /\ c \notin S /\ fate[c] = "taken"
    /\ \A d \in S : fate[d] = "taken"
    /\ fate' = [d \in Clicks |-> IF d = c THEN "counted"
                                 ELSE IF d \in S THEN "missed" ELSE fate[d]]
    /\ daily' = Recorded(daily, visit[c])
    /\ UNCHANGED visit

LedgerNext ==
    \/ \E c \in Clicks : Take(c) \/ Count(c)
    \/ \E S \in SUBSET Clicks : Miss(S) \/ \E c \in Clicks : CountLast(c, S)

LedgerSpec == LedgerInit /\ [][LedgerNext]_ledgerVars
=============================================================================
