--------------------------- MODULE ClickRecorder ----------------------------
(***************************************************************************)
(* The background click recorder of src/db/analytics.rs: requests try to   *)
(* enqueue into a bounded tokio channel, one worker task writes, flush()   *)
(* is a barrier in the same queue, and main.rs drains it for at most two   *)
(* seconds before the process exits.                                       *)
(*                                                                         *)
(* The channel is a queue guarded by a fair semaphore: try_send needs a    *)
(* free permit now; send().await queues for one and is handed the next     *)
(* permit released, which nobody can take from it.                         *)
(***************************************************************************)
EXTENDS Integers, Sequences, FiniteSets

CONSTANTS
    Links, Clicks, MillisPerDay, MaxNow,    \* as in ClickLedger
    Flushers,   \* callers of flush(): main at shutdown, and tests
    Main,       \* the flush of main()
    Idle,       \* the worker waits in recv()
    Capacity,   \* CLICK_QUEUE_CAPACITY
    MaxBoots    \* bound: how often the process is started

ASSUME DayAssumption == MillisPerDay \in Nat \ {0}
ASSUME NowAssumption == MaxNow \in Nat
ASSUME CapacityAssumption == Capacity \in Nat \ {0}
ASSUME BootAssumption == MaxBoots \in Nat
ASSUME FiniteAssumption == IsFiniteSet(Clicks) /\ IsFiniteSet(Flushers)
ASSUME MainAssumption == Main \in Flushers
ASSUME NamesDistinct ==
    Clicks \cap Flushers = {} /\ Idle \notin Clicks \cup Flushers

VARIABLES
    now,        \* the wall clock
    phase,      \* "serving", "draining" (main awaits flush) or "down"
    boots,      \* restarts so far (bounded)
    visit,      \* each click's link and timestamp
    fate,       \* each click's place
    permits,    \* free permits of the channel's semaphore
    queue,      \* messages in the channel: clicks and flushes
    waiters,    \* flushes queued for a permit
    flush,      \* each flush's place
    worker,     \* the click being written, or Idle
    daily,      \* the link_daily_clicks table, durable
    before      \* ghost: the clicks accepted when a flush was called

channel == <<permits, queue, waiters>>
vars == <<now, phase, boots, visit, fate, permits, queue, waiters, flush,
          worker, daily, before>>

(* One click's way through the recorder, as its ledger sees it.            *)
Fates == {"none", "stamped", "queued", "writing",       \* under way
          "stored", "failed", "dropped", "lost"}        \* settled
Places == {"idle", "waiting", "granted", "queued", "acked", "gone"}

View(place) ==
    CASE place = "none" -> "none"
      [] place \in {"stamped", "queued", "writing"} -> "taken"
      [] place = "stored" -> "counted"
      [] place \in {"failed", "dropped", "lost"} -> "missed"

LedgerFate == [c \in Clicks |-> View(fate[c])]

Ledger == INSTANCE ClickLedger WITH fate <- LedgerFate

Init ==
    /\ now = 0 /\ phase = "serving" /\ boots = 0
    /\ visit = [c \in Clicks |-> Ledger!NoVisit]
    /\ fate = [c \in Clicks |-> "none"]
    /\ permits = Capacity /\ queue = <<>> /\ waiters = <<>>
    /\ flush = [f \in Flushers |-> "idle"]
    /\ worker = Idle
    /\ daily = [l \in Links |-> [d \in Ledger!Days |-> [count |-> 0, last |-> 0]]]
    /\ before = [f \in Flushers |-> {}]

(***************************************************************************)
(* Requests                                                                *)
(***************************************************************************)
(* A GET has resolved a live link: redirect_slug reads the clock ...       *)
Visit(c, l) ==
    /\ phase = "serving" /\ fate[c] = "none"
    /\ visit' = [visit EXCEPT ![c] = [link |-> l, at |-> now]]
    /\ fate' = [fate EXCEPT ![c] = "stamped"]
    /\ UNCHANGED <<now, phase, boots, channel, flush, worker, daily, before>>

(* Mutant of TryRecord: the channel is unbounded.                          *)
TryRecordUnbounded(c) ==
    /\ fate[c] = "stamped"
    /\ permits' = permits - 1
    /\ queue' = Append(queue, c)
    /\ fate' = [fate EXCEPT ![c] = "queued"]
    /\ UNCHANGED <<now, phase, boots, visit, waiters, flush, worker, daily, before>>

(* ... and tries to enqueue; another thread's later click may overtake it. *)
TryRecord(c) ==
    /\ fate[c] = "stamped"
    /\ \/ /\ permits > 0
          /\ permits' = permits - 1
          /\ queue' = Append(queue, c)
          /\ fate' = [fate EXCEPT ![c] = "queued"]
       \/ /\ permits = 0
          /\ fate' = [fate EXCEPT ![c] = "dropped"]
          /\ UNCHANGED <<permits, queue>>
    /\ UNCHANGED <<now, phase, boots, visit, waiters, flush, worker, daily, before>>

(***************************************************************************)
(* flush()                                                                 *)
(***************************************************************************)
Accepted == {c \in Clicks : fate[c] \in {"queued", "writing"}}

CallFlush(f) ==
    /\ flush[f] = "idle"
    /\ phase = IF f = Main THEN "draining" ELSE "serving"
    /\ before' = [before EXCEPT ![f] = Accepted]
    /\ \/ /\ permits > 0
          /\ permits' = permits - 1
          /\ queue' = Append(queue, f)
          /\ flush' = [flush EXCEPT ![f] = "queued"]
          /\ UNCHANGED waiters
       \/ /\ permits = 0
          /\ waiters' = Append(waiters, f)
          /\ flush' = [flush EXCEPT ![f] = "waiting"]
          /\ UNCHANGED <<permits, queue>>
    /\ UNCHANGED <<now, phase, boots, visit, fate, worker, daily>>

(* The task that was handed a permit resumes and sends its message.        *)
PushFlush(f) ==
    /\ flush[f] = "granted"
    /\ queue' = Append(queue, f)
    /\ flush' = [flush EXCEPT ![f] = "queued"]
    /\ UNCHANGED <<now, phase, boots, visit, fate, permits, waiters, worker,
                   daily, before>>

(* Mutants of Release: the slot goes to the pool without waking the waiter *)
(* (a lost wakeup); the slot goes to both.                                 *)
ReleaseToPool(places) ==
    /\ permits' = permits + 1
    /\ flush' = places
    /\ UNCHANGED waiters

ReleaseToBoth(places) ==
    /\ permits' = permits + 1
    /\ IF waiters = <<>>
       THEN flush' = places /\ UNCHANGED waiters
       ELSE /\ waiters' = Tail(waiters)
            /\ flush' = [places EXCEPT ![Head(waiters)] = "granted"]

(***************************************************************************)
(* The worker                                                              *)
(***************************************************************************)
(* A received message frees its slot: for the first waiter if there is one. *)
Release(places) ==
    \/ /\ waiters = <<>>
       /\ permits' = permits + 1
       /\ flush' = places
       /\ UNCHANGED waiters
    \/ /\ waiters # <<>>
       /\ waiters' = Tail(waiters)
       /\ flush' = [places EXCEPT ![Head(waiters)] = "granted"]
       /\ UNCHANGED permits

(* Mutant of Receive: flushes are answered while a write is under way.     *)
ReceiveBesideWrite ==
    /\ phase # "down" /\ queue # <<>>
    /\ queue' = Tail(queue)
    /\ LET m == Head(queue) IN
       \/ /\ m \in Clicks /\ worker = Idle
          /\ worker' = m
          /\ fate' = [fate EXCEPT ![m] = "writing"]
          /\ Release(flush)
       \/ /\ m \in Flushers
          /\ Release([flush EXCEPT ![m] = "acked"])
          /\ UNCHANGED <<worker, fate>>
    /\ UNCHANGED <<now, phase, boots, visit, daily, before>>

(* recv(): the next message, but only when the previous one is done with.  *)
Receive ==
    /\ phase # "down" /\ worker = Idle /\ queue # <<>>
    /\ queue' = Tail(queue)
    /\ LET m == Head(queue) IN
       \/ /\ m \in Clicks
          /\ worker' = m
          /\ fate' = [fate EXCEPT ![m] = "writing"]
          /\ Release(flush)
       \/ /\ m \in Flushers
          /\ Release([flush EXCEPT ![m] = "acked"])
          /\ UNCHANGED <<worker, fate>>
    /\ UNCHANGED <<now, phase, boots, visit, daily, before>>

(* Mutant of Write: a write is tried again although it had reached the     *)
(* table.                                                                  *)
WriteAgainAfterLanding ==
    /\ worker # Idle
    /\ daily' = Ledger!Recorded(daily, visit[worker])
    /\ \/ /\ fate' = [fate EXCEPT ![worker] = "stored"]
          /\ worker' = Idle
       \/ UNCHANGED <<fate, worker>>
    /\ UNCHANGED <<now, phase, boots, visit, channel, flush, before>>

(* record_click succeeds, or fails and is only warned about: no free       *)
(* connection within 100 ms, a busy database, an I/O error.                *)
Write ==
    /\ worker # Idle
    /\ worker' = Idle
    /\ \/ /\ daily' = Ledger!Recorded(daily, visit[worker])
          /\ fate' = [fate EXCEPT ![worker] = "stored"]
       \/ /\ fate' = [fate EXCEPT ![worker] = "failed"]
          /\ UNCHANGED daily
    /\ UNCHANGED <<now, phase, boots, visit, channel, flush, before>>

(* Mutant of Shutdown: requests under way are not waited for.              *)
ShutdownAtOnce ==
    /\ phase = "serving"
    /\ phase' = "draining"
    /\ UNCHANGED <<now, boots, visit, fate, channel, flush, worker, daily, before>>

(***************************************************************************)
(* The process                                                             *)
(***************************************************************************)
(* A signal arrived and axum has let every request finish.                 *)
Shutdown ==
    /\ phase = "serving"
    /\ \A c \in Clicks : fate[c] # "stamped"
    /\ phase' = "draining"
    /\ UNCHANGED <<now, boots, visit, fate, channel, flush, worker, daily, before>>

(* The process is gone and the queue with it.  A write under way may have  *)
(* reached the database, or not.                                           *)
Die ==
    /\ phase' = "down"
    /\ \E landed \in IF worker = Idle THEN {FALSE} ELSE BOOLEAN :
          /\ daily' = IF landed THEN Ledger!Recorded(daily, visit[worker]) ELSE daily
          /\ fate' = [c \in Clicks |->
                        IF fate[c] \notin {"stamped", "queued", "writing"} THEN fate[c]
                        ELSE IF landed /\ c = worker THEN "stored" ELSE "lost"]
    /\ flush' = [f \in Flushers |->
                   IF flush[f] \in {"idle", "acked"} THEN flush[f] ELSE "gone"]
    /\ permits' = Capacity /\ queue' = <<>> /\ waiters' = <<>>
    /\ worker' = Idle
    /\ UNCHANGED <<now, boots, visit, before>>

(* main() leaves when its flush is answered, or after two seconds of it.   *)
Exit == phase = "draining" /\ flush[Main] = "acked" /\ Die
DrainTimeout ==
    /\ phase = "draining"
    /\ flush[Main] \in {"waiting", "granted", "queued"}
    /\ Die
Kill == phase # "down" /\ Die

Boot ==
    /\ phase = "down" /\ boots < MaxBoots
    /\ boots' = boots + 1
    /\ phase' = "serving"
    /\ flush' = [flush EXCEPT ![Main] = "idle"]
    /\ UNCHANGED <<now, visit, fate, channel, worker, daily, before>>

Tick ==
    /\ now < MaxNow
    /\ now' = now + 1
    /\ UNCHANGED <<phase, boots, visit, fate, channel, flush, worker, daily, before>>

(* Only the last instance of the process stays down.                       *)
StayDown == phase = "down" /\ boots = MaxBoots /\ now = MaxNow /\ UNCHANGED vars

Next ==
    \/ \E c \in Clicks : TryRecord(c) \/ \E l \in Links : Visit(c, l)
    \/ \E f \in Flushers : CallFlush(f) \/ PushFlush(f)
    \/ Receive \/ Write \/ Shutdown \/ Exit \/ DrainTimeout \/ Kill \/ Boot
    \/ Tick \/ StayDown

Spec == Init /\ [][Next]_vars

(* The runtime polls tasks that can go on; a write ends, since acquiring   *)
(* and lock waits are bounded; main awaits the flush and then returns.     *)
FairSpec ==
    /\ Spec
    /\ \A c \in Clicks : WF_vars(TryRecord(c))
    /\ \A f \in Flushers : WF_vars(PushFlush(f))
    /\ WF_vars(Receive) /\ WF_vars(Write)
    /\ WF_vars(CallFlush(Main)) /\ WF_vars(Exit)

(***************************************************************************)
(* Properties                                                              *)
(***************************************************************************)
TypeOK ==
    /\ now \in Ledger!Times /\ boots \in 0 .. MaxBoots
    /\ phase \in {"serving", "draining", "down"}
    /\ visit \in [Clicks -> Ledger!Visit \cup {Ledger!NoVisit}]
    /\ fate \in [Clicks -> Fates]
    /\ permits \in 0 .. Capacity
    /\ queue \in Seq(Clicks \cup Flushers)
    /\ waiters \in Seq(Flushers)
    /\ flush \in [Flushers -> Places]
    /\ worker \in Clicks \cup {Idle}
    /\ daily \in [Links -> [Ledger!Days -> Ledger!DayRow]]
    /\ before \in [Flushers -> SUBSET Clicks]

Granted == {f \in Flushers : flush[f] = "granted"}

(* Every slot of the channel is free, holds a message, or is promised to a *)
(* flush that has not sent yet: no interleaving of try_send, send, recv    *)
(* and a restart leaks a permit, overfills the queue or queues twice.      *)
PermitsAccounted ==
    /\ permits + Len(queue) + Cardinality(Granted) = Capacity
    /\ \A i, j \in DOMAIN queue : queue[i] = queue[j] => i = j

(* A flush waits for a slot only while there is none: a freed slot goes to *)
(* the waiting flush before any later click, so clicks cannot starve it.   *)
NoIdlePermit == waiters # <<>> => permits = 0

(* flush() is a barrier: when it returns, every click accepted before it   *)
(* was called has been written or has failed to be, and if the process     *)
(* died meanwhile the flush has not returned.                              *)
FlushIsBarrier ==
    \A f \in Flushers : flush[f] = "acked" =>
        \A c \in before[f] : fate[c] \in {"stored", "failed"}

(* When main() stops waiting because the queue drained, no accepted click  *)
(* is left behind in the process that exits.                               *)
DrainedLosesNothing ==
    [][Exit => \A c \in Clicks : fate[c] # "none" => fate'[c] = fate[c]]_vars

CountedOn(l, d) ==
    {c \in Clicks : /\ fate[c] = "stored" /\ visit[c].link = l
                    /\ Ledger!DayStart(visit[c].at) = d}

(* Each daily row counts exactly the clicks written for its link and UTC   *)
(* day, and its last_clicked_at is the latest of their times although      *)
(* clicks reach the queue out of order.                                    *)
DailyExact ==
    \A l \in Links, d \in Ledger!Days :
        LET S == CountedOn(l, d) IN
        /\ daily[l][d].count = Cardinality(S)
        /\ S # {} => /\ \A c \in S : visit[c].at <= daily[l][d].last
                     /\ \E c \in S : visit[c].at = daily[l][d].last

(* The recorder implements best-effort counting: at most once per click.   *)
ImplementsLedger == Ledger!LedgerSpec

(* A flush returns unless the process goes down, however full the queue    *)
(* is and however many clicks keep arriving.                               *)
FlushReturns ==
    \A f \in Flushers :
        flush[f] \in {"waiting", "granted", "queued"} ~> flush[f] \in {"acked", "gone"}

(* A shutdown ends even if main never gives up on its flush.               *)
ShutdownEnds == phase = "draining" ~> phase = "down"
=============================================================================
