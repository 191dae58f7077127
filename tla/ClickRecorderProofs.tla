------------------------ MODULE ClickRecorderProofs -------------------------
(***************************************************************************)
(* Theorems about ClickRecorder for any number of clicks, flushes, slots   *)
(* and restarts.                                                           *)
(*                                                                         *)
(* FlushIsBarrier is not inductive: that a flush is received after the     *)
(* clicks accepted before it depends on the order of the queue, on which   *)
(* task holds which place, and on the worker doing one thing at a time.    *)
(***************************************************************************)
EXTENDS ClickRecorder, FiniteSetTheorems, TLAPS

UnderWay == {"stamped", "queued", "writing"}
Done == {"stored", "failed"}

(* A click that was taken has a link and a time.                           *)
VisitInv == \A c \in Clicks : fate[c] # "none" => visit[c] \in Ledger!Visit

(* Messages and places agree: what is in the channel is there once, and    *)
(* its sender knows; what waits for a slot has sent nothing yet.           *)
QueueInv ==
    /\ \A i \in DOMAIN queue :
          /\ queue[i] \in Clicks => fate[queue[i]] = "queued"
          /\ queue[i] \in Flushers => flush[queue[i]] = "queued"
    /\ \A c \in Clicks : fate[c] = "queued" => \E i \in DOMAIN queue : queue[i] = c
    /\ \A i \in DOMAIN waiters : flush[waiters[i]] = "waiting"
    /\ \A i, j \in DOMAIN waiters : waiters[i] = waiters[j] => i = j

(* The worker writes one click, and only what it writes is being written.  *)
WorkerInv ==
    /\ worker # Idle => fate[worker] = "writing"
    /\ \A c \in Clicks : fate[c] = "writing" => worker = c

(* What was accepted before a flush is settled, or precedes it.            *)
Started == {"writing"} \cup Done

WaitsFor(f) ==
    flush[f] \in {"waiting", "granted"} =>
        \A c \in before[f] : fate[c] \in {"queued"} \cup Started

ComesAfter(f) ==
    \A i \in DOMAIN queue : queue[i] = f =>
        \A c \in before[f] :
            fate[c] \in Started \/ \E j \in DOMAIN queue : j < i /\ queue[j] = c

OrderInv == \A f \in Flushers : WaitsFor(f) /\ ComesAfter(f)

(* A process that is down has nothing under way; one that drains accepts   *)
(* nothing, so that its flush covers all that is under way.                *)
PhaseInv ==
    /\ phase = "serving" => flush[Main] = "idle"
    /\ phase = "draining" =>
          \A c \in Clicks :
              /\ fate[c] # "stamped"
              /\ flush[Main] # "idle" /\ fate[c] \in UnderWay => c \in before[Main]
    /\ phase = "down" =>
          /\ queue = <<>> /\ waiters = <<>>
          /\ \A c \in Clicks : fate[c] \notin UnderWay
          /\ \A f \in Flushers : flush[f] \in {"idle", "acked", "gone"}

IInv ==
    /\ TypeOK /\ PermitsAccounted /\ VisitInv /\ QueueInv /\ WorkerInv
    /\ OrderInv /\ PhaseInv /\ NoIdlePermit /\ FlushIsBarrier

(***************************************************************************)
(* Types and slots                                                         *)
(***************************************************************************)
(* The day of an instant of the clock is one of the table's days.          *)
LEMMA DayOfVisit ==
    ASSUME NEW v \in Ledger!Visit
    PROVE  Ledger!DayStart(v.at) \in Ledger!Days /\ v.link \in Links
  BY DEF Ledger!Visit, Ledger!Days

(* The upsert keeps the table well-typed.                                  *)
LEMMA RecordedType ==
    ASSUME NEW table \in [Links -> [Ledger!Days -> Ledger!DayRow]],
           NEW v \in Ledger!Visit
    PROVE  Ledger!Recorded(table, v) \in [Links -> [Ledger!Days -> Ledger!DayRow]]
<1> DEFINE day == Ledger!DayStart(v.at)
<1>1. day \in Ledger!Days /\ v.link \in Links /\ v.at \in Ledger!Times
  BY DayOfVisit DEF Ledger!Visit
<1>2. table[v.link][day] \in Ledger!DayRow
  BY <1>1
<1>3. Ledger!Upserted(table[v.link][day], v.at) \in Ledger!DayRow
  BY <1>1, <1>2 DEF Ledger!Upserted, Ledger!DayRow, Ledger!LaterOf
<1>4. QED
  BY <1>1, <1>3 DEF Ledger!Recorded

(* The flushes that were handed a slot are finitely many.                  *)
LEMMA GrantedFinite ==
    /\ IsFiniteSet(Granted) /\ Cardinality(Granted) \in Nat
    /\ IsFiniteSet(Granted') /\ Cardinality(Granted') \in Nat
<1>1. Granted \in SUBSET Flushers /\ Granted' \in SUBSET Flushers
  BY DEF Granted
<1>2. IsFiniteSet(Granted) /\ IsFiniteSet(Granted')
  BY <1>1, FiniteAssumption, FS_Subset
<1>3. QED
  BY <1>2, FS_CardinalityType

(* Init establishes the invariant.                                         *)
LEMMA InitInv == Init => IInv
<1> SUFFICES ASSUME Init PROVE IInv
  OBVIOUS
<1>1. TypeOK
  <2>1. 0 \in Ledger!Times /\ Capacity \in 0 .. Capacity
    BY NowAssumption, CapacityAssumption DEF Ledger!Times
  <2>2. daily \in [Links -> [Ledger!Days -> Ledger!DayRow]]
    BY <2>1 DEF Init, Ledger!DayRow
  <2>3. QED
    BY <2>1, <2>2, BootAssumption DEF Init, TypeOK, Fates, Places
<1>2. PermitsAccounted
  <2>1. Granted = {}
    BY DEF Granted, Init
  <2>2. QED
    BY <2>1, FS_EmptySet, CapacityAssumption DEF PermitsAccounted, Init
<1>3. VisitInv /\ QueueInv /\ WorkerInv /\ OrderInv /\ PhaseInv
  BY MainAssumption DEF Init, VisitInv, QueueInv, WorkerInv, OrderInv,
     WaitsFor, ComesAfter, PhaseInv
<1>4. NoIdlePermit /\ FlushIsBarrier
  BY DEF Init, NoIdlePermit, FlushIsBarrier
<1>5. QED
  BY <1>1, <1>2, <1>3, <1>4 DEF IInv

(* The click that the worker writes has a link and a time.                 *)
LEMMA WorkersVisit ==
    ASSUME TypeOK, VisitInv, WorkerInv, worker # Idle
    PROVE  worker \in Clicks /\ visit[worker] \in Ledger!Visit
  BY DEF TypeOK, VisitInv, WorkerInv

(* The ways the free and the promised slots may change by one.             *)
OneMore ==
    \/ permits' = permits + 1 /\ Cardinality(Granted') = Cardinality(Granted)
    \/ permits' = permits /\ Cardinality(Granted') = Cardinality(Granted) + 1

OneLess ==
    \/ permits' = permits - 1 /\ Cardinality(Granted') = Cardinality(Granted)
    \/ permits' = permits /\ Cardinality(Granted') = Cardinality(Granted) - 1

(* A freed slot goes to the pool or to the first waiter: the count of free *)
(* and promised slots grows by one either way.                             *)
LEMMA ReleaseOne ==
    ASSUME TypeOK, QueueInv, NEW places \in [Flushers -> Places],
           \A f \in Flushers : flush[f] = "waiting" => places[f] = "waiting",
           {f \in Flushers : places[f] = "granted"} = Granted,
           Release(places)
    PROVE  /\ flush' \in [Flushers -> Places] /\ waiters' \in Seq(Flushers)
           /\ permits' \in Nat
           /\ OneMore
<1>1. CASE waiters = <<>>
  <2>1. flush' = places /\ Granted' = Granted /\ permits' = permits + 1
        /\ waiters' = waiters
    BY <1>1 DEF Release, Granted
  <2>2. QED
    BY <2>1, CapacityAssumption DEF TypeOK, OneMore
<1>2. CASE waiters # <<>>
  <2> DEFINE w == Head(waiters)
  <2>1. /\ w \in Flushers /\ flush[w] = "waiting" /\ Tail(waiters) \in Seq(Flushers)
    BY <1>2 DEF TypeOK, QueueInv
  <2>2. /\ flush' = [places EXCEPT ![w] = "granted"]
        /\ waiters' = Tail(waiters) /\ permits' = permits
    BY <1>2 DEF Release
  <2>3. Granted' = Granted \cup {w} /\ w \notin Granted
    BY <2>1, <2>2 DEF Granted
  <2>4. Cardinality(Granted') = Cardinality(Granted) + 1
    BY <2>3, GrantedFinite, FS_AddElement
  <2>5. flush' \in [Flushers -> Places] /\ waiters' \in Seq(Flushers)
    BY <2>1, <2>2 DEF Places
  <2>6. permits \in Nat
    BY CapacityAssumption DEF TypeOK
  <2>7. QED
    BY <2>2, <2>4, <2>5, <2>6 DEF OneMore
<1>3. QED
  BY <1>1, <1>2

(* Appending a new message to the queue, and taking the first one off it.  *)
LEMMA AppendNew ==
    ASSUME NEW S, NEW q \in Seq(S), NEW x \in S,
           \A i \in DOMAIN q : q[i] # x,
           \A i, j \in DOMAIN q : q[i] = q[j] => i = j
    PROVE  /\ Append(q, x) \in Seq(S) /\ Len(Append(q, x)) = Len(q) + 1
           /\ \A i, j \in DOMAIN Append(q, x) :
                 Append(q, x)[i] = Append(q, x)[j] => i = j
<1>1. /\ Append(q, x) \in Seq(S) /\ Len(Append(q, x)) = Len(q) + 1 /\ Len(q) \in Nat
      /\ DOMAIN q = 1 .. Len(q) /\ DOMAIN Append(q, x) = 1 .. (Len(q) + 1)
  OBVIOUS
<1>2. /\ \A i \in 1 .. Len(q) : Append(q, x)[i] = q[i]
      /\ Append(q, x)[Len(q) + 1] = x
  OBVIOUS
<1>3. \A i \in 1 .. (Len(q) + 1) : i \in 1 .. Len(q) \/ i = Len(q) + 1
  BY <1>1
<1>4. ASSUME NEW i \in DOMAIN Append(q, x), NEW j \in DOMAIN Append(q, x),
             Append(q, x)[i] = Append(q, x)[j]
      PROVE  i = j
  BY <1>1, <1>2, <1>3, <1>4
<1>5. QED
  BY <1>1, <1>4

LEMMA AppendElements ==
    ASSUME NEW S, NEW q \in Seq(S), NEW x \in S
    PROVE  /\ \A i \in DOMAIN Append(q, x) :
                 \/ i \in DOMAIN q /\ Append(q, x)[i] = q[i]
                 \/ i = Len(q) + 1 /\ Append(q, x)[i] = x
           /\ \A i \in DOMAIN q : /\ i \in DOMAIN Append(q, x)
                                  /\ Append(q, x)[i] = q[i]
           /\ Len(q) + 1 \in DOMAIN Append(q, x) /\ Append(q, x)[Len(q) + 1] = x
           /\ Append(q, x) \in Seq(S) /\ Len(q) \in Nat /\ DOMAIN q = 1 .. Len(q)
  OBVIOUS

LEMMA TailKeeps ==
    ASSUME NEW S, NEW q \in Seq(S), q # <<>>
    PROVE  /\ Tail(q) \in Seq(S) /\ Len(Tail(q)) = Len(q) - 1 /\ Len(q) \in Nat
           /\ Head(q) \in S /\ Head(q) = q[1] /\ 1 \in DOMAIN q
           /\ DOMAIN Tail(q) \subseteq Nat \ {0} /\ DOMAIN q \subseteq Nat \ {0}
           /\ \A i \in DOMAIN Tail(q) : i + 1 \in DOMAIN q /\ Tail(q)[i] = q[i + 1]
           /\ \A i \in DOMAIN q :
                 i # 1 => i - 1 \in DOMAIN Tail(q) /\ Tail(q)[i - 1] = q[i]
  OBVIOUS

LEMMA TailDistinct ==
    ASSUME NEW S, NEW q \in Seq(S), q # <<>>,
           \A i, j \in DOMAIN q : q[i] = q[j] => i = j
    PROVE  /\ \A i \in DOMAIN Tail(q) : Tail(q)[i] # Head(q)
           /\ \A i, j \in DOMAIN Tail(q) : Tail(q)[i] = Tail(q)[j] => i = j
  BY TailKeeps

(* The sums that a sent and a received message leave.                      *)
LEMMA SlotSums ==
    ASSUME TypeOK, PermitsAccounted
    PROVE  /\ OneLess => permits' + (Len(queue) + 1) + Cardinality(Granted') = Capacity
           /\ OneMore => permits' + (Len(queue) - 1) + Cardinality(Granted') = Capacity
<1> DEFINE l == Len(queue)  g == Cardinality(Granted)
<1>1. l \in Nat /\ g \in Nat /\ permits \in Nat /\ Capacity \in Nat
  BY GrantedFinite, CapacityAssumption DEF TypeOK
<1>2. permits + l + g = Capacity
  BY DEF PermitsAccounted
<1> HIDE DEF l, g
<1>3. /\ (permits - 1) + (l + 1) + g = Capacity /\ permits + (l + 1) + (g - 1) = Capacity
      /\ (permits + 1) + (l - 1) + g = Capacity /\ permits + (l - 1) + (g + 1) = Capacity
  BY <1>1, <1>2
<1>4. QED
  BY <1>3 DEF OneLess, OneMore, l, g

(* A step that appends a message for a free or promised slot.              *)
LEMMA SendSlots ==
    ASSUME TypeOK, PermitsAccounted, NEW x \in Clicks \cup Flushers,
           \A i \in DOMAIN queue : queue[i] # x,
           queue' = Append(queue, x),
           permits' \in Nat,
           OneLess
    PROVE  /\ queue' \in Seq(Clicks \cup Flushers) /\ permits' \in 0 .. Capacity
           /\ PermitsAccounted'
<1>1. /\ queue' \in Seq(Clicks \cup Flushers) /\ Len(queue') = Len(queue) + 1
      /\ \A i, j \in DOMAIN queue' : queue'[i] = queue'[j] => i = j
  BY AppendNew DEF TypeOK, PermitsAccounted
<1>2. Len(queue) \in Nat /\ permits \in Nat /\ Capacity \in Nat
  BY CapacityAssumption DEF TypeOK
<1>3. permits' + Len(queue') + Cardinality(Granted') = Capacity
  BY <1>1, SlotSums
<1>4. permits' \in 0 .. Capacity
  BY <1>1, <1>2, <1>3, GrantedFinite
<1>5. QED
  BY <1>1, <1>3, <1>4 DEF PermitsAccounted

(* A step that takes the first message off and frees its slot.             *)
LEMMA ReceiveSlots ==
    ASSUME TypeOK, PermitsAccounted, queue # <<>>, queue' = Tail(queue),
           permits' \in Nat,
           OneMore
    PROVE  /\ queue' \in Seq(Clicks \cup Flushers) /\ permits' \in 0 .. Capacity
           /\ PermitsAccounted'
<1>1. /\ queue' \in Seq(Clicks \cup Flushers) /\ Len(queue') = Len(queue) - 1
      /\ \A i, j \in DOMAIN queue' : queue'[i] = queue'[j] => i = j
  BY TailKeeps, TailDistinct DEF TypeOK, PermitsAccounted
<1>2. Len(queue) \in Nat /\ permits \in Nat /\ Capacity \in Nat
  BY CapacityAssumption DEF TypeOK
<1>3. permits' + Len(queue') + Cardinality(Granted') = Capacity
  BY <1>1, SlotSums
<1>4. permits' \in 0 .. Capacity
  <2>1. Len(queue') \in Nat
    BY <1>1
  <2>2. QED
    BY <1>2, <1>3, <2>1, GrantedFinite
<1>5. QED
  BY <1>1, <1>3, <1>4 DEF PermitsAccounted

(* A step that neither sends nor receives.                                 *)
LEMMA KeepSlots ==
    ASSUME PermitsAccounted, UNCHANGED <<permits, queue>>, Granted' = Granted
    PROVE  PermitsAccounted'
  BY DEF PermitsAccounted

(* What is not queued is not in the queue.                                 *)
LEMMA NotInQueue ==
    ASSUME TypeOK, QueueInv
    PROVE  /\ \A c \in Clicks : fate[c] # "queued" => \A i \in DOMAIN queue : queue[i] # c
           /\ \A f \in Flushers : flush[f] # "queued" => \A i \in DOMAIN queue : queue[i] # f
  BY DEF QueueInv

(* The message at the head of the queue is a click or a flush that knows.  *)
LEMMA HeadOfQueue ==
    ASSUME TypeOK, QueueInv, queue # <<>>
    PROVE  /\ Head(queue) = queue[1] /\ 1 \in DOMAIN queue
           /\ Head(queue) \in Clicks \cup Flushers
           /\ Head(queue) \in Clicks => fate[Head(queue)] = "queued"
           /\ Head(queue) \in Flushers => flush[Head(queue)] = "queued"
<1>1. /\ Head(queue) = queue[1] /\ 1 \in DOMAIN queue
      /\ Head(queue) \in Clicks \cup Flushers
  BY TailKeeps DEF TypeOK
<1>2. QED
  BY <1>1 DEF QueueInv

(* A message is received: the channel stays sound whichever kind it is.    *)
LEMMA ReceiveChannel ==
    ASSUME TypeOK, PermitsAccounted, QueueInv, Receive
    PROVE  /\ flush' \in [Flushers -> Places] /\ waiters' \in Seq(Flushers)
           /\ queue' \in Seq(Clicks \cup Flushers) /\ permits' \in 0 .. Capacity
           /\ PermitsAccounted'
<1> DEFINE m == Head(queue)
<1>1. queue # <<>> /\ queue' = Tail(queue)
  BY DEF Receive
<1>2. /\ flush' \in [Flushers -> Places] /\ waiters' \in Seq(Flushers)
      /\ permits' \in Nat /\ OneMore
  <2>1. CASE m \in Clicks
    <3>1. Release(flush)
      BY <2>1, NamesDistinct DEF Receive
    <3>2. QED
      BY <3>1, ReleaseOne DEF TypeOK, Granted
  <2>2. CASE m \in Flushers
    <3> DEFINE places == [flush EXCEPT ![m] = "acked"]
    <3>1. Release(places)
      BY <2>2, NamesDistinct DEF Receive
    <3>2. /\ places \in [Flushers -> Places]
          /\ \A f \in Flushers : flush[f] = "waiting" => places[f] = "waiting"
          /\ {f \in Flushers : places[f] = "granted"} = Granted
      BY <1>1, <2>2, HeadOfQueue DEF TypeOK, Places, Granted
    <3> HIDE DEF places
    <3>3. QED
      BY <3>1, <3>2, ReleaseOne
  <2>3. QED
    BY <1>1, <2>1, <2>2, HeadOfQueue
<1>3. QED
  BY <1>1, <1>2, ReceiveSlots

(* A click is sent for a free slot.                                        *)
LEMMA TryRecordChannel ==
    ASSUME TypeOK, PermitsAccounted, QueueInv, NEW c \in Clicks, TryRecord(c)
    PROVE  /\ queue' \in Seq(Clicks \cup Flushers) /\ permits' \in 0 .. Capacity
           /\ PermitsAccounted'
<1>0. Granted' = Granted
  BY DEF TryRecord, Granted
<1>1. CASE permits > 0
  <2>1. queue' = Append(queue, c) /\ permits' = permits - 1 /\ fate[c] = "stamped"
    BY <1>1 DEF TryRecord
  <2>2. permits' \in Nat
    BY <1>1, <2>1, CapacityAssumption DEF TypeOK
  <2>3. \A i \in DOMAIN queue : queue[i] # c
    BY <2>1, NotInQueue
  <2>4. OneLess
    BY <1>0, <2>1 DEF OneLess
  <2>5. QED
    BY <2>1, <2>2, <2>3, <2>4, SendSlots
<1>2. CASE ~(permits > 0)
  <2>1. UNCHANGED <<permits, queue>>
    BY <1>2 DEF TryRecord
  <2>2. QED
    BY <1>0, <2>1, KeepSlots DEF TypeOK
<1>3. QED
  BY <1>1, <1>2

(* A flush is sent for a free slot, or waits for one.                      *)
LEMMA CallFlushChannel ==
    ASSUME TypeOK, PermitsAccounted, QueueInv, NEW f \in Flushers, CallFlush(f)
    PROVE  /\ queue' \in Seq(Clicks \cup Flushers) /\ permits' \in 0 .. Capacity
           /\ PermitsAccounted'
<1>0. flush[f] = "idle" /\ Granted' = Granted
  BY DEF CallFlush, Granted, TypeOK
<1>1. CASE permits > 0
  <2>1. queue' = Append(queue, f) /\ permits' = permits - 1
    BY <1>1 DEF CallFlush
  <2>2. permits' \in Nat
    BY <1>1, <2>1, CapacityAssumption DEF TypeOK
  <2>3. \A i \in DOMAIN queue : queue[i] # f
    BY <1>0, NotInQueue
  <2>4. OneLess
    BY <1>0, <2>1 DEF OneLess
  <2>5. QED
    BY <2>1, <2>2, <2>3, <2>4, SendSlots
<1>2. CASE ~(permits > 0)
  <2>1. UNCHANGED <<permits, queue>>
    BY <1>2 DEF CallFlush
  <2>2. QED
    BY <1>0, <2>1, KeepSlots DEF TypeOK
<1>3. QED
  BY <1>1, <1>2

(* A flush is sent for the slot it was promised.                           *)
LEMMA PushFlushChannel ==
    ASSUME TypeOK, PermitsAccounted, QueueInv, NEW f \in Flushers, PushFlush(f)
    PROVE  /\ queue' \in Seq(Clicks \cup Flushers) /\ permits' \in 0 .. Capacity
           /\ PermitsAccounted'
<1>1. /\ flush[f] = "granted" /\ queue' = Append(queue, f) /\ permits' = permits
      /\ flush' = [flush EXCEPT ![f] = "queued"]
  BY DEF PushFlush
<1>2. Granted' = Granted \ {f} /\ f \in Granted
  BY <1>1 DEF Granted, TypeOK
<1>3. Cardinality(Granted') = Cardinality(Granted) - 1
  BY <1>2, GrantedFinite, FS_RemoveElement
<1>4. OneLess
  BY <1>1, <1>3 DEF OneLess
<1>5. permits' \in Nat /\ \A i \in DOMAIN queue : queue[i] # f
  BY <1>1, NotInQueue, CapacityAssumption DEF TypeOK
<1>6. QED
  BY <1>1, <1>4, <1>5, SendSlots

(* The channel of a process that is gone.                                  *)
LEMMA DieChannel ==
    ASSUME TypeOK, Die
    PROVE  /\ queue' \in Seq(Clicks \cup Flushers) /\ permits' \in 0 .. Capacity
           /\ waiters' \in Seq(Flushers) /\ flush' \in [Flushers -> Places]
           /\ PermitsAccounted'
<1>1. queue' = <<>> /\ permits' = Capacity /\ waiters' = <<>>
  BY DEF Die
<1>2. flush' \in [Flushers -> Places] /\ Granted' = {}
  BY DEF Die, TypeOK, Places, Granted
<1>3. QED
  BY <1>1, <1>2, FS_EmptySet, CapacityAssumption DEF PermitsAccounted

(* Every step keeps the types and accounts for the slots.                  *)
LEMMA TypeStep ==
    ASSUME TypeOK, PermitsAccounted, VisitInv, QueueInv, WorkerInv, PhaseInv,
           [Next]_vars
    PROVE  TypeOK' /\ PermitsAccounted'
<1> USE DEF TypeOK
<1>1. ASSUME NEW c \in Clicks, NEW l \in Links, Visit(c, l)
      PROVE  TypeOK' /\ PermitsAccounted'
  <2>1. [link |-> l, at |-> now] \in Ledger!Visit
    BY DEF Ledger!Visit
  <2>2. TypeOK'
    BY <1>1, <2>1 DEF Visit, channel, Fates
  <2>3. QED
    BY <1>1, <2>2, KeepSlots DEF Visit, channel, Granted
<1>2. ASSUME NEW c \in Clicks, TryRecord(c) PROVE TypeOK' /\ PermitsAccounted'
  BY <1>2, TryRecordChannel DEF TryRecord, Fates
<1>3. ASSUME NEW f \in Flushers, CallFlush(f) PROVE TypeOK' /\ PermitsAccounted'
  <2>1. flush' \in [Flushers -> Places]
    BY <1>3 DEF CallFlush, Places
  <2>2. waiters' \in {waiters, Append(waiters, f)}
    BY <1>3 DEF CallFlush
  <2>3. waiters \in Seq(Flushers) /\ Append(waiters, f) \in Seq(Flushers)
    OBVIOUS
  <2>4. waiters' \in Seq(Flushers)
    BY <2>2, <2>3, Zenon
  <2>5. before' \in [Flushers -> SUBSET Clicks]
    BY <1>3 DEF CallFlush, Accepted
  <2>6. QED
    BY <1>3, <2>1, <2>4, <2>5, CallFlushChannel DEF CallFlush
<1>4. ASSUME NEW f \in Flushers, PushFlush(f) PROVE TypeOK' /\ PermitsAccounted'
  BY <1>4, PushFlushChannel DEF PushFlush, Places
<1>5. CASE Receive
  <2>1. worker' \in Clicks \cup {Idle} /\ fate' \in [Clicks -> Fates]
    BY <1>5 DEF Receive, Fates
  <2>2. QED
    BY <1>5, <2>1, ReceiveChannel DEF Receive
<1>6. CASE Write
  <2>1. daily' \in [Links -> [Ledger!Days -> Ledger!DayRow]]
    BY <1>6, WorkersVisit, RecordedType DEF Write
  <2>2. fate' \in [Clicks -> Fates]
    BY <1>6 DEF Write, Fates
  <2>3. TypeOK'
    BY <1>6, <2>1, <2>2 DEF Write, channel
  <2>4. QED
    BY <1>6, <2>3, KeepSlots DEF Write, channel, Granted
<1>7. CASE Boot
  <2>1. flush[Main] = "idle" \/ flush[Main] \in {"acked", "gone"}
    BY <1>7, MainAssumption DEF Boot, PhaseInv
  <2>2. flush' = [flush EXCEPT ![Main] = "idle"] /\ UNCHANGED <<permits, queue, waiters>>
    BY <1>7 DEF Boot, channel
  <2>3. Granted' = Granted
    BY <2>1, <2>2, MainAssumption DEF Granted
  <2>4. flush' \in [Flushers -> Places]
    BY <2>2, MainAssumption DEF Places
  <2>5. boots' \in 0 .. MaxBoots
    BY <1>7, BootAssumption DEF Boot
  <2>6. TypeOK'
    BY <1>7, <2>2, <2>4, <2>5 DEF Boot
  <2>7. QED
    BY <2>2, <2>3, <2>6, KeepSlots
<1>8. CASE Shutdown \/ Tick
  <2>1. now' \in Ledger!Times
    BY <1>8, NowAssumption DEF Shutdown, Tick, Ledger!Times
  <2>2. phase' \in {"serving", "draining", "down"}
        /\ UNCHANGED <<boots, visit, fate, permits, queue, waiters, flush, worker,
                       daily, before>>
    BY <1>8 DEF Shutdown, Tick, channel
  <2>3. TypeOK'
    BY <2>1, <2>2
  <2>4. QED
    BY <2>2, <2>3, KeepSlots DEF Granted
<1>9. CASE Die
  <2>1. daily' \in [Links -> [Ledger!Days -> Ledger!DayRow]]
    BY <1>9, WorkersVisit, RecordedType DEF Die
  <2>2. fate' \in [Clicks -> Fates]
    BY <1>9 DEF Die, Fates
  <2>3. QED
    BY <1>9, <2>1, <2>2, DieChannel DEF Die
<1>10. CASE UNCHANGED vars
  BY <1>10, KeepSlots DEF vars, channel, Granted
<1>11. QED
  BY <1>1, <1>2, <1>3, <1>4, <1>5, <1>6, <1>7, <1>8, <1>9, <1>10
     DEF Next, Exit, DrainTimeout, Kill, StayDown

(***************************************************************************)
(* Messages, places and the worker                                         *)
(***************************************************************************)
(* Every click taken has a link and a time.                                *)
LEMMA VisitStep ==
    TypeOK /\ VisitInv /\ QueueInv /\ WorkerInv /\ [Next]_vars => VisitInv'
<1> SUFFICES ASSUME TypeOK, VisitInv, QueueInv, WorkerInv, [Next]_vars
             PROVE  VisitInv'
  OBVIOUS
<1>1. ASSUME NEW c \in Clicks, NEW l \in Links, Visit(c, l) PROVE VisitInv'
  <2>1. [link |-> l, at |-> now] \in Ledger!Visit
    BY DEF TypeOK, Ledger!Visit
  <2>2. QED
    BY <1>1, <2>1 DEF Visit, VisitInv, TypeOK
<1>2. ASSUME NEW c \in Clicks, TryRecord(c) PROVE VisitInv'
  BY <1>2 DEF TryRecord, VisitInv, TypeOK
<1>3. CASE Receive
  <2>1. Head(queue) \in Clicks => fate[Head(queue)] # "none"
    BY <1>3, HeadOfQueue DEF Receive
  <2>2. QED
    BY <1>3, <2>1 DEF Receive, VisitInv, TypeOK
<1>4. CASE Write
  BY <1>4, WorkersVisit DEF Write, VisitInv, WorkerInv, TypeOK
<1>5. CASE Die
  BY <1>5 DEF Die, VisitInv, TypeOK
<1>6. CASE UNCHANGED <<visit, fate>>
  BY <1>6 DEF VisitInv
<1>7. QED
  BY <1>1, <1>2, <1>3, <1>4, <1>5, <1>6
     DEF Next, CallFlush, PushFlush, Shutdown, Exit, DrainTimeout, Kill, Boot, Tick,
         StayDown, vars

(* Worker and fates agree on what is being written.                        *)
LEMMA WorkerStep ==
    ASSUME TypeOK, QueueInv, WorkerInv, [Next]_vars
    PROVE  WorkerInv'
<1> USE DEF WorkerInv
<1>1. ASSUME NEW c \in Clicks, NEW l \in Links, Visit(c, l) PROVE WorkerInv'
  BY <1>1 DEF Visit, TypeOK
<1>2. ASSUME NEW c \in Clicks, TryRecord(c) PROVE WorkerInv'
  BY <1>2 DEF TryRecord, TypeOK
<1>3. CASE Receive
  BY <1>3, NamesDistinct DEF Receive, TypeOK
<1>4. CASE Write
  BY <1>4, NamesDistinct DEF Write, TypeOK
<1>5. CASE Die
  BY <1>5, NamesDistinct DEF Die, TypeOK
<1>6. CASE UNCHANGED <<worker, fate>>
  BY <1>6
<1>7. QED
  BY <1>1, <1>2, <1>3, <1>4, <1>5, <1>6
     DEF Next, CallFlush, PushFlush, Shutdown, Exit, DrainTimeout, Kill, Boot, Tick,
         StayDown, vars

(* A flush that waited for a slot is handed it, and only that one is.      *)
LEMMA ReleaseQueue ==
    ASSUME TypeOK, QueueInv, NEW places \in [Flushers -> Places],
           \A f \in Flushers : flush[f] = "waiting" => places[f] = "waiting",
           Release(places)
    PROVE  /\ \A f \in Flushers :
                 \/ flush'[f] = places[f]
                 \/ flush[f] = "waiting" /\ flush'[f] = "granted"
           /\ \A i \in DOMAIN waiters' : flush'[waiters'[i]] = "waiting"
           /\ \A i, j \in DOMAIN waiters' : waiters'[i] = waiters'[j] => i = j
<1>1. CASE waiters = <<>>
  BY <1>1 DEF Release, QueueInv
<1>2. CASE waiters # <<>>
  <2>1. /\ Head(waiters) \in Flushers /\ flush[Head(waiters)] = "waiting"
        /\ \A i \in DOMAIN Tail(waiters) :
              /\ Tail(waiters)[i] \in Flushers /\ Tail(waiters)[i] # Head(waiters)
              /\ flush[Tail(waiters)[i]] = "waiting"
        /\ \A i, j \in DOMAIN Tail(waiters) :
              Tail(waiters)[i] = Tail(waiters)[j] => i = j
    BY <1>2, TailKeeps, TailDistinct DEF QueueInv, TypeOK
  <2>2. flush' = [places EXCEPT ![Head(waiters)] = "granted"] /\ waiters' = Tail(waiters)
    BY <1>2 DEF Release
  <2>3. QED
    BY <2>1, <2>2
<1>3. QED
  BY <1>1, <1>2

(* What a sent message does to the agreement of messages and places.       *)
LEMMA SendQueue ==
    ASSUME TypeOK, QueueInv, NEW x \in Clicks \cup Flushers,
           queue' = Append(queue, x), UNCHANGED waiters,
           x \in Clicks => fate' = [fate EXCEPT ![x] = "queued"] /\ UNCHANGED flush,
           x \in Flushers => /\ flush' = [flush EXCEPT ![x] = "queued"]
                              /\ flush[x] # "waiting"
                              /\ UNCHANGED fate
    PROVE  QueueInv'
<1>1. /\ \A i \in DOMAIN queue' :
            \/ i \in DOMAIN queue /\ queue'[i] = queue[i]
            \/ queue'[i] = x
      /\ \A i \in DOMAIN queue : i \in DOMAIN queue' /\ queue'[i] = queue[i]
      /\ \E i \in DOMAIN queue' : queue'[i] = x
  <2>1. queue \in Seq(Clicks \cup Flushers)
    BY DEF TypeOK
  <2>2. QED
    BY <2>1, AppendElements
<1>2. /\ \A c \in Clicks : fate'[c] = IF c = x THEN "queued" ELSE fate[c]
      /\ \A f \in Flushers : flush'[f] = IF f = x THEN "queued" ELSE flush[f]
  BY NamesDistinct DEF TypeOK
<1>3. \A i \in DOMAIN queue' :
          /\ queue'[i] \in Clicks => fate'[queue'[i]] = "queued"
          /\ queue'[i] \in Flushers => flush'[queue'[i]] = "queued"
  BY <1>1, <1>2 DEF QueueInv
<1>4. \A c \in Clicks : fate'[c] = "queued" => \E i \in DOMAIN queue' : queue'[i] = c
  BY <1>1, <1>2 DEF QueueInv
<1>5. /\ \A i \in DOMAIN waiters : waiters[i] \in Flushers
      /\ x \in Flushers => \A i \in DOMAIN waiters : waiters[i] # x
  BY DEF TypeOK, QueueInv
<1>6. \A i \in DOMAIN waiters' : flush'[waiters'[i]] = "waiting"
  BY <1>2, <1>5 DEF QueueInv
<1>7. QED
  BY <1>3, <1>4, <1>6 DEF QueueInv

(* What receiving does to the flushes: one may be answered, one promised a *)
(* slot.                                                                   *)
LEMMA ReceiveFlushes ==
    ASSUME TypeOK, QueueInv, Receive, NEW f \in Flushers
    PROVE  \/ flush'[f] = flush[f]
           \/ flush[f] = "waiting" /\ flush'[f] = "granted"
           \/ f = Head(queue) /\ flush'[f] = "acked"
<1> DEFINE m == Head(queue)
<1>1. CASE m \in Clicks
  <2>1. Release(flush)
    BY <1>1, NamesDistinct DEF Receive
  <2>2. QED
    BY <2>1, ReleaseQueue DEF TypeOK
<1>2. CASE m \in Flushers
  <2> DEFINE places == [flush EXCEPT ![m] = "acked"]
  <2>1. Release(places)
    BY <1>2, NamesDistinct DEF Receive
  <2>2. /\ places \in [Flushers -> Places] /\ flush[m] = "queued"
        /\ \A g \in Flushers : flush[g] = "waiting" => places[g] = "waiting"
        /\ places[f] = IF f = m THEN "acked" ELSE flush[f]
    BY <1>2, HeadOfQueue DEF TypeOK, Places, Receive
  <2> HIDE DEF places
  <2>3. flush'[f] = places[f] \/ (flush[f] = "waiting" /\ flush'[f] = "granted")
    BY <2>1, <2>2, ReleaseQueue
  <2>4. QED
    BY <2>2, <2>3
<1>3. QED
  BY <1>1, <1>2, HeadOfQueue DEF Receive

(* Messages and places keep agreeing.                                      *)
LEMMA QueueStep ==
    ASSUME TypeOK, PermitsAccounted, QueueInv, WorkerInv, PhaseInv, [Next]_vars
    PROVE  QueueInv'
<1>1. ASSUME NEW c \in Clicks, NEW l \in Links, Visit(c, l) PROVE QueueInv'
  <2>1. \A i \in DOMAIN queue : queue[i] # c
    BY <1>1, NotInQueue DEF Visit
  <2>2. QED
    BY <1>1, <2>1 DEF Visit, channel, QueueInv, TypeOK
<1>2. ASSUME NEW c \in Clicks, TryRecord(c) PROVE QueueInv'
  <2>1. CASE permits > 0
    BY <1>2, <2>1, SendQueue, NamesDistinct DEF TryRecord
  <2>2. CASE ~(permits > 0)
    <3>1. fate' = [fate EXCEPT ![c] = "dropped"] /\ UNCHANGED <<queue, waiters, flush>>
      BY <1>2, <2>2 DEF TryRecord
    <3>2. \A i \in DOMAIN queue : queue[i] # c
      BY <1>2, NotInQueue DEF TryRecord
    <3>3. QED
      BY <3>1, <3>2 DEF QueueInv, TypeOK
  <2>3. QED
    BY <2>1, <2>2
<1>3. ASSUME NEW f \in Flushers, CallFlush(f) PROVE QueueInv'
  <2>1. CASE permits > 0
    BY <1>3, <2>1, SendQueue, NamesDistinct DEF CallFlush
  <2>2. CASE ~(permits > 0)
    <3>1. /\ flush' = [flush EXCEPT ![f] = "waiting"] /\ flush[f] = "idle"
          /\ waiters' = Append(waiters, f) /\ UNCHANGED <<queue, fate>>
      BY <1>3, <2>2 DEF CallFlush
    <3>2. /\ \A i \in DOMAIN queue : queue[i] # f
          /\ \A i \in DOMAIN waiters : waiters[i] # f /\ waiters[i] \in Flushers
      BY <3>1, NotInQueue DEF QueueInv, TypeOK
    <3>3. \A i, j \in DOMAIN waiters' : waiters'[i] = waiters'[j] => i = j
      BY <3>1, <3>2, AppendNew DEF QueueInv, TypeOK
    <3>4. \A i \in DOMAIN waiters' : flush'[waiters'[i]] = "waiting"
      BY <3>1, <3>2, AppendElements DEF QueueInv, TypeOK
    <3>5. QED
      BY <3>1, <3>2, <3>3, <3>4 DEF QueueInv, TypeOK
  <2>3. QED
    BY <2>1, <2>2
<1>4. ASSUME NEW f \in Flushers, PushFlush(f) PROVE QueueInv'
  BY <1>4, SendQueue, NamesDistinct DEF PushFlush
<1>5. CASE Receive
  <2> DEFINE m == Head(queue)
  <2>1. /\ queue # <<>> /\ queue' = Tail(queue) /\ queue \in Seq(Clicks \cup Flushers)
        /\ \A i, j \in DOMAIN queue : queue[i] = queue[j] => i = j
    BY <1>5 DEF Receive, TypeOK, PermitsAccounted
  <2>2. /\ \A i \in DOMAIN queue' : i + 1 \in DOMAIN queue /\ queue'[i] = queue[i + 1]
        /\ \A i \in DOMAIN queue' : queue'[i] # m
        /\ \A i \in DOMAIN queue :
              i # 1 => i - 1 \in DOMAIN queue' /\ queue'[i - 1] = queue[i]
        /\ m = queue[1]
    BY <2>1, TailKeeps, TailDistinct
  <2>3. /\ \A i \in DOMAIN queue' :
              /\ queue'[i] # m
              /\ queue'[i] \in Clicks => fate[queue'[i]] = "queued"
              /\ queue'[i] \in Flushers => flush[queue'[i]] = "queued"
        /\ \A c \in Clicks : fate[c] = "queued" =>
              c = m \/ \E j \in DOMAIN queue' : queue'[j] = c
    BY <2>2 DEF QueueInv
  <2> HIDE DEF m
  <2>4. CASE m \in Clicks
    <3>1. Release(flush) /\ fate' = [fate EXCEPT ![m] = "writing"]
      BY <1>5, <2>4, NamesDistinct DEF Receive, m
    <3>2. /\ \A f \in Flushers : \/ flush'[f] = flush[f]
                                 \/ flush[f] = "waiting" /\ flush'[f] = "granted"
          /\ \A i \in DOMAIN waiters' : flush'[waiters'[i]] = "waiting"
          /\ \A i, j \in DOMAIN waiters' : waiters'[i] = waiters'[j] => i = j
      BY <3>1, ReleaseQueue DEF TypeOK
    <3>3. /\ \A i \in DOMAIN queue' :
                /\ queue'[i] \in Clicks => fate'[queue'[i]] = "queued"
                /\ queue'[i] \in Flushers => flush'[queue'[i]] = "queued"
          /\ \A c \in Clicks : fate'[c] = "queued" =>
                \E i \in DOMAIN queue' : queue'[i] = c
      BY <2>3, <2>4, <3>1, <3>2 DEF TypeOK
    <3>4. QED
      BY <3>2, <3>3 DEF QueueInv
  <2>5. CASE m \in Flushers
    <3> DEFINE places == [flush EXCEPT ![m] = "acked"]
    <3>1. Release(places) /\ UNCHANGED fate
      BY <1>5, <2>5, NamesDistinct DEF Receive, m
    <3>2. /\ places \in [Flushers -> Places] /\ flush[m] = "queued"
          /\ \A f \in Flushers : flush[f] = "waiting" => places[f] = "waiting"
          /\ \A f \in Flushers : f # m => places[f] = flush[f]
      BY <2>1, <2>5, HeadOfQueue DEF TypeOK, Places, m
    <3> HIDE DEF places
    <3>3. /\ \A f \in Flushers : \/ flush'[f] = places[f]
                                 \/ flush[f] = "waiting" /\ flush'[f] = "granted"
          /\ \A i \in DOMAIN waiters' : flush'[waiters'[i]] = "waiting"
          /\ \A i, j \in DOMAIN waiters' : waiters'[i] = waiters'[j] => i = j
      BY <3>1, <3>2, ReleaseQueue
    <3>4. /\ \A i \in DOMAIN queue' :
                /\ queue'[i] \in Clicks => fate'[queue'[i]] = "queued"
                /\ queue'[i] \in Flushers => flush'[queue'[i]] = "queued"
          /\ \A c \in Clicks : fate'[c] = "queued" =>
                \E i \in DOMAIN queue' : queue'[i] = c
      BY <2>3, <2>5, <3>1, <3>2, <3>3, NamesDistinct
    <3>5. QED
      BY <3>3, <3>4 DEF QueueInv
  <2>6. QED
    BY <2>1, <2>4, <2>5, HeadOfQueue DEF m
<1>6. CASE Write
  <2>1. \A i \in DOMAIN queue : queue[i] # worker
    BY <1>6, NotInQueue DEF Write, WorkerInv, TypeOK
  <2>2. QED
    BY <1>6, <2>1 DEF Write, channel, QueueInv, TypeOK
<1>7. CASE Die
  BY <1>7 DEF Die, QueueInv
<1>8. CASE Boot
  <2>1. queue = <<>> /\ waiters = <<>> /\ UNCHANGED <<queue, waiters, fate>>
    BY <1>8 DEF Boot, PhaseInv, channel
  <2>2. QED
    BY <2>1 DEF QueueInv
<1>9. CASE UNCHANGED <<queue, waiters, flush, fate>>
  BY <1>9 DEF QueueInv
<1>10. QED
  BY <1>1, <1>2, <1>3, <1>4, <1>5, <1>6, <1>7, <1>8, <1>9
     DEF Next, Shutdown, Exit, DrainTimeout, Kill, Tick, StayDown, vars, channel

(***************************************************************************)
(* The barrier                                                             *)
(***************************************************************************)
(* While the process lives, an accepted click only moves towards its end.  *)
LEMMA FateStep ==
    ASSUME TypeOK, QueueInv, WorkerInv, [Next]_vars, ~Die, NEW c \in Clicks
    PROVE  /\ fate[c] \in Started => fate'[c] \in Started
           /\ fate[c] \in Done => fate'[c] \in Done
           /\ fate[c] = "queued" => fate'[c] \in {"queued", "writing"}
<1> USE DEF Started, Done
<1>1. ASSUME NEW d \in Clicks, NEW l \in Links, Visit(d, l)
      PROVE  /\ fate[c] \in Started => fate'[c] \in Started
             /\ fate[c] \in Done => fate'[c] \in Done
             /\ fate[c] = "queued" => fate'[c] \in {"queued", "writing"}
  BY <1>1 DEF Visit, TypeOK
<1>2. ASSUME NEW d \in Clicks, TryRecord(d)
      PROVE  /\ fate[c] \in Started => fate'[c] \in Started
             /\ fate[c] \in Done => fate'[c] \in Done
             /\ fate[c] = "queued" => fate'[c] \in {"queued", "writing"}
  BY <1>2 DEF TryRecord, TypeOK
<1>3. CASE Receive
  BY <1>3, HeadOfQueue DEF Receive, TypeOK
<1>4. CASE Write
  BY <1>4 DEF Write, WorkerInv, TypeOK
<1>5. CASE UNCHANGED fate
  BY <1>5
<1>6. QED
  BY <1>1, <1>2, <1>3, <1>4, <1>5
     DEF Next, CallFlush, PushFlush, Shutdown, Exit, DrainTimeout, Kill, Boot, Tick,
         StayDown, vars

(* A new message goes behind all others.                                   *)
LEMMA SendOrder ==
    ASSUME TypeOK, NEW x \in Clicks \cup Flushers, queue' = Append(queue, x),
           \A c \in Clicks : fate[c] \in Started => fate'[c] \in Started,
           NEW f \in Flushers,
           f # x => before'[f] = before[f] /\ ComesAfter(f),
           f = x => /\ \A i \in DOMAIN queue : queue[i] # f
                    /\ \A c \in before'[f] :
                          fate'[c] \in Started \/ \E j \in DOMAIN queue : queue[j] = c
    PROVE  ComesAfter(f)'
<1>0. queue \in Seq(Clicks \cup Flushers) /\ before[f] \subseteq Clicks
  BY DEF TypeOK
<1>1. /\ \A i \in DOMAIN queue' :
            \/ i \in DOMAIN queue /\ queue'[i] = queue[i]
            \/ i = Len(queue) + 1 /\ queue'[i] = x
      /\ \A i \in DOMAIN queue : /\ i \in DOMAIN queue' /\ queue'[i] = queue[i]
                                 /\ i < Len(queue) + 1
  BY <1>0, AppendElements
<1>2. SUFFICES ASSUME NEW i \in DOMAIN queue', queue'[i] = f, NEW c \in before'[f],
                      fate'[c] \notin Started
               PROVE  \E j \in DOMAIN queue' : j < i /\ queue'[j] = c
  BY DEF ComesAfter
<1>3. CASE f = x
  BY <1>1, <1>2, <1>3
<1>4. CASE f # x
  <2>1. i \in DOMAIN queue /\ queue[i] = f /\ c \in before[f] /\ fate[c] \notin Started
    BY <1>0, <1>1, <1>2, <1>4
  <2>2. \E j \in DOMAIN queue : j < i /\ queue[j] = c
    BY <1>4, <2>1 DEF ComesAfter
  <2>3. QED
    BY <1>1, <2>2
<1>5. QED
  BY <1>3, <1>4

(* The first message leaves: a click to be written, a flush to be answered. *)
LEMMA ReceiveOrder ==
    ASSUME TypeOK, QueueInv, Receive, NEW f \in Flushers, ComesAfter(f)
    PROVE  ComesAfter(f)'
<1>1. queue # <<>> /\ queue' = Tail(queue) /\ before' = before
      /\ queue \in Seq(Clicks \cup Flushers) /\ before[f] \subseteq Clicks
  BY DEF Receive, TypeOK
<1>2. /\ \A i \in DOMAIN queue' : i + 1 \in DOMAIN queue /\ queue'[i] = queue[i + 1]
      /\ \A i \in DOMAIN queue : i # 1 => i - 1 \in DOMAIN queue' /\ queue'[i - 1] = queue[i]
      /\ Head(queue) = queue[1]
      /\ DOMAIN queue \subseteq Nat \ {0} /\ DOMAIN queue' \subseteq Nat \ {0}
  BY <1>1, TailKeeps
<1>3. \A c \in Clicks : /\ fate[c] \in Started => fate'[c] \in Started
                        /\ c = Head(queue) => fate'[c] \in Started
  BY HeadOfQueue, NamesDistinct DEF Receive, TypeOK, Started, Done
<1>4. SUFFICES ASSUME NEW i \in DOMAIN queue', queue'[i] = f, NEW c \in before[f],
                      fate'[c] \notin Started
               PROVE  \E j \in DOMAIN queue' : j < i /\ queue'[j] = c
  BY <1>1 DEF ComesAfter
<1>5. /\ i + 1 \in DOMAIN queue /\ queue[i + 1] = f
      /\ fate[c] \notin Started /\ c # Head(queue)
  BY <1>1, <1>2, <1>3, <1>4
<1>6. PICK j \in DOMAIN queue : j < i + 1 /\ queue[j] = c
  BY <1>4, <1>5 DEF ComesAfter
<1>7. j # 1
  BY <1>2, <1>5, <1>6
<1>8. j - 1 \in DOMAIN queue' /\ queue'[j - 1] = c /\ j - 1 < i
  BY <1>2, <1>4, <1>6, <1>7
<1>9. QED
  BY <1>8

(* A flush keeps coming after what was accepted before it.                 *)
LEMMA OrderStep ==
    ASSUME TypeOK, PermitsAccounted, QueueInv, WorkerInv, OrderInv, PhaseInv,
           [Next]_vars
    PROVE  OrderInv'
<1>0. /\ \A f \in Flushers : WaitsFor(f) /\ ComesAfter(f) /\ before[f] \subseteq Clicks
      /\ queue \in Seq(Clicks \cup Flushers)
  BY DEF OrderInv, TypeOK
<1>1. CASE Die
  BY <1>1 DEF Die, OrderInv, WaitsFor, ComesAfter, TypeOK
<1>2. CASE ~Die
  <2>1. \A c \in Clicks :
           /\ fate[c] \in Started => fate'[c] \in Started
           /\ fate[c] = "queued" => fate'[c] \in {"queued"} \cup Started
    BY <1>2, FateStep DEF Started
  <2>2. ASSUME NEW f \in Flushers, before'[f] = before[f],
               flush'[f] \in {"waiting", "granted"} => flush[f] \in {"waiting", "granted"}
        PROVE  WaitsFor(f)'
    BY <1>0, <2>1, <2>2 DEF WaitsFor
  <2>3. ASSUME NEW f \in Flushers, UNCHANGED <<queue, before>>
        PROVE  ComesAfter(f)'
    BY <1>0, <2>1, <2>3 DEF ComesAfter
  <2>4. ASSUME NEW c \in Clicks, TryRecord(c) PROVE OrderInv'
    <3>1. UNCHANGED <<before, flush>> /\ (queue' = Append(queue, c) \/ queue' = queue)
      BY <2>4 DEF TryRecord
    <3>2. ASSUME NEW f \in Flushers PROVE ComesAfter(f)'
      <4>1. CASE queue' = queue
        BY <2>3, <3>1, <4>1
      <4>2. CASE queue' = Append(queue, c)
        BY <1>0, <2>1, <3>1, <4>2, SendOrder, NamesDistinct
      <4>3. QED
        BY <3>1, <4>1, <4>2
    <3>3. QED
      BY <2>2, <3>1, <3>2 DEF OrderInv
  <2>5. ASSUME NEW f \in Flushers, CallFlush(f) PROVE OrderInv'
    <3>1. /\ flush[f] = "idle" /\ UNCHANGED fate
          /\ before' = [before EXCEPT ![f] = Accepted]
          /\ flush' \in {[flush EXCEPT ![f] = "queued"], [flush EXCEPT ![f] = "waiting"]}
          /\ queue' = queue \/ queue' = Append(queue, f)
      BY <2>5 DEF CallFlush
    <3>2. /\ \A i \in DOMAIN queue : queue[i] # f
          /\ before'[f] = Accepted /\ \A g \in Flushers : g # f => before'[g] = before[g]
      BY <3>1, NotInQueue DEF TypeOK
    <3>3. \A c \in Accepted : /\ c \in Clicks /\ fate[c] \in {"queued"} \cup Started
                              /\ fate[c] \in Started
                                 \/ \E j \in DOMAIN queue : queue[j] = c
      BY DEF Accepted, Started, QueueInv
    <3>4. ASSUME NEW g \in Flushers PROVE WaitsFor(g)'
      <4>1. CASE g = f
        BY <3>1, <3>2, <3>3, <4>1 DEF WaitsFor
      <4>2. CASE g # f
        BY <2>2, <3>1, <3>2, <4>2 DEF TypeOK
      <4>3. QED
        BY <4>1, <4>2
    <3>5. ASSUME NEW g \in Flushers PROVE ComesAfter(g)'
      <4>1. CASE queue' = queue
        BY <1>0, <2>1, <3>1, <3>2, <4>1 DEF ComesAfter
      <4>2. CASE queue' = Append(queue, f)
        BY <1>0, <2>1, <3>1, <3>2, <3>3, <4>2, SendOrder
      <4>3. QED
        BY <3>1, <4>1, <4>2
    <3>6. QED
      BY <3>4, <3>5 DEF OrderInv
  <2>6. ASSUME NEW f \in Flushers, PushFlush(f) PROVE OrderInv'
    <3>1. /\ flush[f] = "granted" /\ flush' = [flush EXCEPT ![f] = "queued"]
          /\ UNCHANGED <<before, fate>> /\ queue' = Append(queue, f)
      BY <2>6 DEF PushFlush
    <3>2. \A i \in DOMAIN queue : queue[i] # f
      BY <3>1, NotInQueue
    <3>3. \A c \in before[f] : fate[c] \in Started \/ \E j \in DOMAIN queue : queue[j] = c
      BY <1>0, <3>1 DEF WaitsFor, QueueInv
    <3>4. ASSUME NEW g \in Flushers PROVE ComesAfter(g)'
      BY <1>0, <2>1, <3>1, <3>2, <3>3, SendOrder
    <3>5. ASSUME NEW g \in Flushers PROVE WaitsFor(g)'
      BY <2>2, <3>1 DEF TypeOK
    <3>6. QED
      BY <3>4, <3>5 DEF OrderInv
  <2>7. CASE Receive
    <3>1. ASSUME NEW f \in Flushers PROVE ComesAfter(f)'
      BY <1>0, <2>7, ReceiveOrder
    <3>2. ASSUME NEW f \in Flushers PROVE WaitsFor(f)'
      <4>1. before'[f] = before[f]
        BY <2>7 DEF Receive
      <4>2. flush'[f] \in {"waiting", "granted"} => flush[f] \in {"waiting", "granted"}
        BY <2>7, ReceiveFlushes
      <4>3. QED
        BY <2>2, <4>1, <4>2
    <3>3. QED
      BY <3>1, <3>2 DEF OrderInv
  <2>8. CASE Boot
    <3>1. UNCHANGED <<queue, before>> /\ flush' = [flush EXCEPT ![Main] = "idle"]
      BY <2>8 DEF Boot, channel
    <3>2. QED
      BY <2>2, <2>3, <3>1 DEF OrderInv, TypeOK
  <2>9. CASE UNCHANGED <<queue, before, flush>>
    BY <2>2, <2>3, <2>9 DEF OrderInv
  <2>10. QED
    BY <1>2, <2>4, <2>5, <2>6, <2>7, <2>8, <2>9
       DEF Next, Visit, Write, Shutdown, Exit, DrainTimeout, Kill, Tick, StayDown, vars,
           channel
<1>3. QED
  BY <1>1, <1>2

(* A flush is answered when nothing accepted before it is left.            *)
LEMMA BarrierStep ==
    ASSUME TypeOK, QueueInv, WorkerInv, OrderInv, FlushIsBarrier, [Next]_vars
    PROVE  FlushIsBarrier'
<1>1. SUFFICES ASSUME NEW f \in Flushers, flush'[f] = "acked", NEW c \in before'[f]
               PROVE  fate'[c] \in Done
  BY DEF FlushIsBarrier, Done
<1>2. CASE Die
  BY <1>1, <1>2 DEF Die, FlushIsBarrier, TypeOK, Done
<1>3. CASE ~Die
  <2>1. CASE flush[f] = "acked"
    <3>1. before'[f] = before[f]
      BY <1>3, <2>1 DEF Next, Visit, TryRecord, CallFlush, PushFlush, Receive, Write,
                        Shutdown, Exit, DrainTimeout, Kill, Boot, Tick, StayDown, vars,
                        TypeOK
    <3>2. c \in Clicks /\ fate[c] \in Done
      BY <1>1, <2>1, <3>1 DEF FlushIsBarrier, TypeOK, Done
    <3>3. QED
      BY <1>3, <3>2, FateStep
  <2>2. CASE flush[f] # "acked"
    <3>1. Receive
      BY <1>1, <1>3, <2>2 DEF Next, Visit, TryRecord, CallFlush, PushFlush, Write,
                        Shutdown, Exit, DrainTimeout, Kill, Boot, Tick, StayDown, vars,
                        TypeOK
    <3>2. /\ f = Head(queue) /\ queue # <<>> /\ worker = Idle
          /\ UNCHANGED <<before, fate>>
      BY <1>1, <2>2, <3>1, ReceiveFlushes, NamesDistinct DEF Receive
    <3>3. queue[1] = f /\ 1 \in DOMAIN queue /\ DOMAIN queue \subseteq Nat \ {0}
      BY <3>2, TailKeeps DEF TypeOK
    <3>4. c \in Clicks /\ c \in before[f]
      BY <1>1, <3>2 DEF TypeOK
    <3>5. fate[c] \in Started
      BY <3>3, <3>4 DEF OrderInv, ComesAfter
    <3>6. fate[c] # "writing"
      BY <3>2, <3>4, NamesDistinct DEF WorkerInv
    <3>7. QED
      BY <3>2, <3>5, <3>6 DEF Started
  <2>3. QED
    BY <2>1, <2>2
<1>4. QED
  BY <1>2, <1>3

(* A flush waits only while every slot is taken.                           *)
LEMMA IdleStep ==
    ASSUME TypeOK, NoIdlePermit, [Next]_vars
    PROVE  NoIdlePermit'
<1> USE DEF NoIdlePermit
<1>1. ASSUME NEW c \in Clicks, TryRecord(c) PROVE NoIdlePermit'
  BY <1>1, CapacityAssumption DEF TryRecord, TypeOK
<1>2. ASSUME NEW f \in Flushers, CallFlush(f) PROVE NoIdlePermit'
  BY <1>2, CapacityAssumption DEF CallFlush, TypeOK
<1>3. CASE Receive
  BY <1>3 DEF Receive, Release
<1>4. CASE Die
  BY <1>4 DEF Die
<1>5. CASE UNCHANGED <<permits, waiters>>
  BY <1>5
<1>6. QED
  BY <1>1, <1>2, <1>3, <1>4, <1>5
     DEF Next, Visit, PushFlush, Write, Shutdown, Exit, DrainTimeout, Kill, Boot, Tick,
         StayDown, vars, channel

(* What each phase of the process leaves under way.                        *)
LEMMA PhaseStep ==
    ASSUME TypeOK, QueueInv, WorkerInv, PhaseInv, [Next]_vars
    PROVE  PhaseInv'
<1> USE DEF UnderWay
<1>1. ASSUME NEW c \in Clicks, NEW l \in Links, Visit(c, l) PROVE PhaseInv'
  BY <1>1 DEF Visit, PhaseInv
<1>2. ASSUME NEW c \in Clicks, TryRecord(c) PROVE PhaseInv'
  BY <1>2 DEF TryRecord, PhaseInv, TypeOK
<1>3. ASSUME NEW f \in Flushers, CallFlush(f) PROVE PhaseInv'
  <2>1. CASE f = Main
    <3>1. /\ phase' = "draining" /\ phase = "draining" /\ UNCHANGED fate
          /\ before'[Main] = Accepted
      BY <1>3, <2>1, MainAssumption DEF CallFlush, TypeOK
    <3>2. QED
      BY <3>1 DEF PhaseInv, Accepted
  <2>2. CASE f # Main
    <3>1. /\ phase' = "serving" /\ phase = "serving" /\ flush'[Main] = flush[Main]
      BY <1>3, <2>2, MainAssumption DEF CallFlush, TypeOK
    <3>2. QED
      BY <3>1 DEF PhaseInv
  <2>3. QED
    BY <2>1, <2>2
<1>4. ASSUME NEW f \in Flushers, PushFlush(f) PROVE PhaseInv'
  <2>1. flush[f] = "granted" /\ flush' = [flush EXCEPT ![f] = "queued"]
        /\ UNCHANGED <<phase, fate, before>>
    BY <1>4 DEF PushFlush
  <2>2. phase # "down" /\ (flush'[Main] = "idle" <=> flush[Main] = "idle")
    BY <2>1, MainAssumption DEF PhaseInv, TypeOK
  <2>3. QED
    BY <2>1, <2>2 DEF PhaseInv
<1>5. CASE Receive
  <2>1. /\ phase # "down" /\ UNCHANGED <<phase, before>>
        /\ \A c \in Clicks : \/ fate'[c] = fate[c]
                             \/ fate[c] = "queued" /\ fate'[c] = "writing"
    <3>1. /\ phase # "down" /\ UNCHANGED <<phase, before>> /\ queue # <<>>
          /\ fate' = fate \/ fate' = [fate EXCEPT ![Head(queue)] = "writing"]
          /\ Head(queue) \in Clicks \/ UNCHANGED fate
      BY <1>5 DEF Receive
    <3>2. QED
      BY <3>1, HeadOfQueue DEF TypeOK
  <2>2. flush'[Main] = "idle" <=> flush[Main] = "idle"
    BY <1>5, MainAssumption, ReceiveFlushes, HeadOfQueue DEF Receive
  <2>3. QED
    BY <2>1, <2>2 DEF PhaseInv
<1>6. CASE Write
  <2>1. /\ UNCHANGED <<phase, before, flush, queue, waiters>>
        /\ \A c \in Clicks : fate'[c] = fate[c] \/ fate'[c] \in Done
    BY <1>6 DEF Write, TypeOK, channel, Done
  <2>2. QED
    BY <2>1 DEF PhaseInv, Done
<1>7. CASE Shutdown
  BY <1>7 DEF Shutdown, PhaseInv
<1>8. CASE Die
  BY <1>8 DEF Die, PhaseInv
<1>9. CASE Boot
  BY <1>9, MainAssumption DEF Boot, PhaseInv, TypeOK
<1>10. CASE UNCHANGED <<phase, before, flush, queue, waiters, fate>>
  BY <1>10 DEF PhaseInv
<1>11. QED
  BY <1>1, <1>2, <1>3, <1>4, <1>5, <1>6, <1>7, <1>8, <1>9, <1>10
     DEF Next, Exit, DrainTimeout, Kill, Tick, StayDown, vars, channel

(***************************************************************************)
(* The theorems                                                            *)
(***************************************************************************)
(* The invariant holds in every reachable state.                           *)
THEOREM Invariance == Spec => []IInv
<1>1. IInv /\ [Next]_vars => IInv'
  BY TypeStep, VisitStep, QueueStep, WorkerStep, OrderStep, BarrierStep, IdleStep,
     PhaseStep DEF IInv
<1>2. QED
  BY InitInv, <1>1, PTL DEF Spec

(* Any interleaving of requests, flushes, the worker and restarts keeps    *)
(* the recorder's state well-typed; in particular the queue is bounded.    *)
THEOREM TypeCorrect == Spec => []TypeOK
<1>1. IInv => TypeOK
  BY DEF IInv
<1>2. QED
  BY Invariance, <1>1, PTL

(* No slot of the channel is leaked or used twice.                         *)
THEOREM SlotsAccounted == Spec => []PermitsAccounted
<1>1. IInv => PermitsAccounted
  BY DEF IInv
<1>2. QED
  BY Invariance, <1>1, PTL

(* A flush that waits is never passed over: no slot is free meanwhile.     *)
THEOREM NoWaitBesideFreeSlot == Spec => []NoIdlePermit
<1>1. IInv => NoIdlePermit
  BY DEF IInv
<1>2. QED
  BY Invariance, <1>1, PTL

(* A flush that returned left none of the clicks accepted before it.       *)
THEOREM FlushIsABarrier == Spec => []FlushIsBarrier
<1>1. IInv => FlushIsBarrier
  BY DEF IInv
<1>2. QED
  BY Invariance, <1>1, PTL

(* A shutdown that drained in time loses no click.                         *)
THEOREM DrainLosesNothing == Spec => DrainedLosesNothing
<1>1. IInv /\ [Next]_vars =>
        [Exit => \A c \in Clicks : fate[c] # "none" => fate'[c] = fate[c]]_vars
  <2> SUFFICES ASSUME IInv, Exit, NEW c \in Clicks PROVE fate'[c] = fate[c]
    OBVIOUS
  <2>1. Die /\ phase = "draining" /\ flush[Main] = "acked"
    BY DEF Exit
  <2>2. \A d \in before[Main] : fate[d] \in Done
    BY <2>1, MainAssumption DEF IInv, FlushIsBarrier, Done
  <2>3. \A d \in Clicks : fate[d] \notin UnderWay
    BY <2>1, <2>2 DEF IInv, PhaseInv, UnderWay, Done
  <2>4. worker = Idle
    BY <2>3 DEF IInv, TypeOK, WorkerInv, UnderWay
  <2>5. QED
    BY <2>1, <2>3, <2>4 DEF Die, UnderWay
<1>2. QED
  BY Invariance, <1>1, PTL DEF Spec, DrainedLosesNothing

(***************************************************************************)
(* The ledger                                                              *)
(***************************************************************************)
(* The fates that the ledger sees.                                         *)
LEMMA ViewOf ==
    /\ View("none") = "none" /\ View("stored") = "counted"
    /\ \A p \in UnderWay : View(p) = "taken"
    /\ \A p \in {"failed", "dropped", "lost"} : View(p) = "missed"
  BY DEF View, UnderWay

(* What Init and each step are to the ledger.                              *)
LEMMA InitRefines == Init => Ledger!LedgerInit
<1> SUFFICES ASSUME Init PROVE Ledger!LedgerInit
  OBVIOUS
<1>1. LedgerFate = [c \in Clicks |-> "none"]
  BY ViewOf DEF Init, LedgerFate
<1>2. QED
  BY <1>1 DEF Init, Ledger!LedgerInit

LEMMA StepRefines == IInv /\ [Next]_vars => [Ledger!LedgerNext]_Ledger!ledgerVars
<1> SUFFICES ASSUME IInv, [Next]_vars PROVE [Ledger!LedgerNext]_Ledger!ledgerVars
  OBVIOUS
<1> USE ViewOf DEF UnderWay
<1>0. TypeOK /\ TypeOK' /\ VisitInv /\ WorkerInv /\ QueueInv
  BY TypeStep DEF IInv
<1>1. ASSUME NEW c \in Clicks, NEW l \in Links, Visit(c, l)
      PROVE  Ledger!Take(c)
  <2>1. LedgerFate[c] = "none" /\ LedgerFate' = [LedgerFate EXCEPT ![c] = "taken"]
    BY <1>0, <1>1 DEF Visit, LedgerFate, TypeOK
  <2>2. [link |-> l, at |-> now] \in Ledger!Visit
    BY <1>0 DEF TypeOK, Ledger!Visit
  <2>3. QED
    BY <1>1, <2>1, <2>2 DEF Visit, Ledger!Take
<1>2. ASSUME NEW c \in Clicks, TryRecord(c)
      PROVE  Ledger!Miss({c}) \/ UNCHANGED Ledger!ledgerVars
  <2>1. UNCHANGED <<visit, daily>> /\ LedgerFate[c] = "taken"
    BY <1>0, <1>2 DEF TryRecord, LedgerFate
  <2>2. CASE fate' = [fate EXCEPT ![c] = "queued"]
    <3>1. LedgerFate' = LedgerFate
      BY <1>0, <1>2, <2>2 DEF TryRecord, LedgerFate, TypeOK
    <3>2. QED
      BY <2>1, <3>1 DEF Ledger!ledgerVars
  <2>3. CASE fate' = [fate EXCEPT ![c] = "dropped"]
    <3>1. LedgerFate' = [d \in Clicks |-> IF d \in {c} THEN "missed" ELSE LedgerFate[d]]
      BY <1>0, <2>3 DEF LedgerFate, TypeOK
    <3>2. QED
      BY <2>1, <3>1 DEF Ledger!Miss
  <2>4. QED
    BY <1>2, <2>2, <2>3 DEF TryRecord
<1>3. CASE Receive
  <2>1. LedgerFate' = LedgerFate
    BY <1>0, <1>3, HeadOfQueue DEF Receive, LedgerFate, TypeOK
  <2>2. QED
    BY <1>3, <2>1 DEF Receive, Ledger!ledgerVars
<1>4. CASE Write
  <2>1. worker \in Clicks /\ LedgerFate[worker] = "taken" /\ UNCHANGED visit
    BY <1>0, <1>4 DEF Write, WorkerInv, LedgerFate, TypeOK
  <2>2. CASE fate' = [fate EXCEPT ![worker] = "stored"]
             /\ daily' = Ledger!Recorded(daily, visit[worker])
    <3>1. LedgerFate' = [LedgerFate EXCEPT ![worker] = "counted"]
      BY <1>0, <2>1, <2>2 DEF LedgerFate, TypeOK
    <3>2. Ledger!Count(worker)
      BY <2>1, <2>2, <3>1 DEF Ledger!Count
    <3>3. QED
      BY <2>1, <3>2 DEF Ledger!LedgerNext
  <2>3. CASE fate' = [fate EXCEPT ![worker] = "failed"] /\ UNCHANGED daily
    <3>1. LedgerFate' =
             [d \in Clicks |-> IF d \in {worker} THEN "missed" ELSE LedgerFate[d]]
      BY <1>0, <2>1, <2>3 DEF LedgerFate, TypeOK
    <3>2. Ledger!Miss({worker})
      BY <2>1, <2>3, <3>1 DEF Ledger!Miss
    <3>3. QED
      BY <2>1, <3>2 DEF Ledger!LedgerNext
  <2>4. QED
    BY <1>4, <2>2, <2>3 DEF Write
<1>5. CASE Die
  <2> DEFINE left == {c \in Clicks : fate[c] \in UnderWay}
  <2>1. left \in SUBSET Clicks /\ UNCHANGED visit
        /\ \A c \in left : LedgerFate[c] = "taken"
    BY <1>5 DEF Die, LedgerFate
  <2>2. PICK landed \in IF worker = Idle THEN {FALSE} ELSE BOOLEAN :
          /\ daily' = IF landed THEN Ledger!Recorded(daily, visit[worker]) ELSE daily
          /\ fate' = [c \in Clicks |->
                        IF fate[c] \notin {"stamped", "queued", "writing"} THEN fate[c]
                        ELSE IF landed /\ c = worker THEN "stored" ELSE "lost"]
    BY <1>5 DEF Die
  <2>3. CASE landed
    <3>1. worker \in left
      BY <1>0, <2>2, <2>3 DEF WorkerInv, TypeOK, UnderWay
    <3>2. LedgerFate' = [d \in Clicks |->
                           IF d = worker THEN "counted"
                           ELSE IF d \in left \ {worker} THEN "missed" ELSE LedgerFate[d]]
      BY <1>0, <2>2, <2>3, <3>1 DEF LedgerFate, UnderWay, TypeOK
    <3>3. Ledger!CountLast(worker, left \ {worker})
      BY <2>1, <2>2, <2>3, <3>1, <3>2 DEF Ledger!CountLast
    <3>4. QED
      BY <3>1, <3>3 DEF Ledger!LedgerNext
  <2>4. CASE ~landed
    <3>1. LedgerFate' = [d \in Clicks |-> IF d \in left THEN "missed" ELSE LedgerFate[d]]
      BY <1>0, <2>2, <2>4 DEF LedgerFate, UnderWay, TypeOK
    <3>2. Ledger!Miss(left)
      BY <2>1, <2>2, <2>4, <3>1 DEF Ledger!Miss
    <3>3. QED
      BY <2>1, <3>2 DEF Ledger!LedgerNext
  <2>5. QED
    BY <2>3, <2>4
<1>6. CASE UNCHANGED <<visit, fate, daily>>
  BY <1>6 DEF LedgerFate, Ledger!ledgerVars
<1>7. QED
  BY <1>1, <1>2, <1>3, <1>4, <1>5, <1>6
     DEF Next, CallFlush, PushFlush, Shutdown, Exit, DrainTimeout, Kill, Boot, Tick,
         StayDown, vars, Ledger!LedgerNext

(* The recorder counts each click at most once, whatever is interleaved,   *)
(* dropped, killed or restarted.                                           *)
THEOREM RecorderImplementsLedger == Spec => ImplementsLedger
  BY Invariance, InitRefines, StepRefines, PTL
     DEF Spec, ImplementsLedger, Ledger!LedgerSpec

(***************************************************************************)
(* The daily rows                                                          *)
(***************************************************************************)
(* A step that stores nothing.                                             *)
LEMMA StoresNothing ==
    ASSUME DailyExact, UNCHANGED daily,
           \A c \in Clicks : /\ fate'[c] = "stored" <=> fate[c] = "stored"
                             /\ fate[c] = "stored" => visit'[c] = visit[c]
    PROVE  DailyExact'
<1>1. \A l \in Links, d \in Ledger!Days :
         /\ CountedOn(l, d)' = CountedOn(l, d)
         /\ \A c \in CountedOn(l, d) : visit'[c] = visit[c]
  BY DEF CountedOn
<1>2. QED
  BY <1>1 DEF DailyExact

(* A step that stores the click that was being written.                    *)
LEMMA StoresOne ==
    ASSUME TypeOK, VisitInv, WorkerInv, DailyExact, worker # Idle, UNCHANGED visit,
           daily' = Ledger!Recorded(daily, visit[worker]),
           \A c \in Clicks : fate'[c] = "stored" <=> fate[c] = "stored" \/ c = worker
    PROVE  DailyExact'
<1> DEFINE v == visit[worker]  day == Ledger!DayStart(v.at)
<1>1. /\ worker \in Clicks /\ v \in Ledger!Visit /\ fate[worker] = "writing"
      /\ v.link \in Links /\ v.at \in Nat /\ day \in Ledger!Days
  BY WorkersVisit, DayOfVisit, NowAssumption DEF WorkerInv, Ledger!Visit, Ledger!Times
<1>2. SUFFICES ASSUME NEW l \in Links, NEW d \in Ledger!Days
               PROVE  /\ daily'[l][d].count = Cardinality(CountedOn(l, d)')
                      /\ CountedOn(l, d)' # {} =>
                            /\ \A c \in CountedOn(l, d)' : visit[c].at <= daily'[l][d].last
                            /\ \E c \in CountedOn(l, d)' : visit[c].at = daily'[l][d].last
  BY DEF DailyExact
<1> DEFINE S == CountedOn(l, d)
<1>3. /\ daily[l][d].count = Cardinality(S) /\ IsFiniteSet(S)
      /\ S # {} => /\ \A c \in S : visit[c].at <= daily[l][d].last
                   /\ \E c \in S : visit[c].at = daily[l][d].last
      /\ daily[l][d] \in Ledger!DayRow
  <2>1. S \in SUBSET Clicks
    BY DEF CountedOn
  <2>2. IsFiniteSet(S)
    BY <2>1, FiniteAssumption, FS_Subset
  <2>3. QED
    BY <2>2 DEF DailyExact, TypeOK
<1>4. CASE l = v.link /\ d = day
  <2>1. CountedOn(l, d)' = S \cup {worker} /\ worker \notin S
    BY <1>1, <1>4 DEF CountedOn
  <2>2. daily'[l][d] = Ledger!Upserted(daily[l][d], v.at)
    BY <1>1, <1>4 DEF Ledger!Recorded, TypeOK
  <2>3. Cardinality(CountedOn(l, d)') = Cardinality(S) + 1
    <3>1. ASSUME NEW U, IsFiniteSet(U), NEW x, x \notin U
          PROVE  Cardinality(U \cup {x}) = Cardinality(U) + 1
      BY <3>1, FS_AddElement
    <3>2. Cardinality(S \cup {worker}) = Cardinality(S) + 1
      BY <1>3, <2>1, <3>1
    <3> QED BY <2>1, <3>2
  <2>4. CASE S = {}
    <3>1. daily[l][d].count = 0
      BY <1>3, <2>4, FS_EmptySet
    <3>2. daily'[l][d] = [count |-> 1, last |-> v.at]
      BY <2>2, <3>1 DEF Ledger!Upserted
    <3>3. CountedOn(l, d)' = {worker} /\ Cardinality(S) = 0
      BY <2>1, <2>4, FS_EmptySet
    <3>4. QED
      BY <1>1, <2>3, <3>2, <3>3
  <2>5. CASE S # {}
    <3>1. daily[l][d].count # 0
      BY <1>3, <2>5, FS_EmptySet
    <3>2. daily'[l][d] = [count |-> daily[l][d].count + 1,
                          last |-> Ledger!LaterOf(daily[l][d].last, v.at)]
      BY <2>2, <3>1 DEF Ledger!Upserted
    <3>3. \A c \in S : visit[c].at \in Nat
      <4>1. \A c \in S : c \in Clicks /\ visit[c] \in Ledger!Visit
        BY DEF CountedOn, VisitInv
      <4>2. QED
        BY <4>1, NowAssumption DEF Ledger!Visit, Ledger!Times
    <3>4. daily[l][d].last \in Nat /\ daily[l][d].count \in Nat
      BY <1>3, NowAssumption DEF Ledger!DayRow, Ledger!Times
    <3>5. daily'[l][d].last = IF daily[l][d].last > v.at THEN daily[l][d].last ELSE v.at
      BY <3>2 DEF Ledger!LaterOf
    <3>6. /\ \A c \in S \cup {worker} : visit[c].at <= daily'[l][d].last
          /\ \E c \in S \cup {worker} : visit[c].at = daily'[l][d].last
      BY <1>1, <1>3, <2>5, <3>3, <3>4, <3>5
    <3>7. daily'[l][d].count = Cardinality(CountedOn(l, d)')
      BY <1>3, <2>3, <3>2
    <3>8. QED
      BY <2>1, <3>6, <3>7
  <2>6. QED
    BY <2>4, <2>5
<1>5. CASE ~(l = v.link /\ d = day)
  <2>1. CountedOn(l, d)' = S
    BY <1>1, <1>5 DEF CountedOn
  <2>2. daily'[l][d] = daily[l][d]
    BY <1>1, <1>5 DEF Ledger!Recorded, TypeOK
  <2>3. QED
    BY <1>3, <2>1, <2>2
<1>6. QED
  BY <1>4, <1>5

(* Every step keeps the rows exact.                                        *)
LEMMA DailyStep == IInv /\ DailyExact /\ [Next]_vars => DailyExact'
<1> SUFFICES ASSUME IInv, DailyExact, [Next]_vars PROVE DailyExact'
  OBVIOUS
<1>0. TypeOK /\ VisitInv /\ WorkerInv /\ QueueInv
  BY DEF IInv
<1>1. ASSUME NEW c \in Clicks, NEW l \in Links, Visit(c, l) PROVE DailyExact'
  BY <1>0, <1>1, StoresNothing DEF Visit, TypeOK
<1>2. ASSUME NEW c \in Clicks, TryRecord(c) PROVE DailyExact'
  BY <1>0, <1>2, StoresNothing DEF TryRecord, TypeOK
<1>3. CASE Receive
  BY <1>0, <1>3, StoresNothing, HeadOfQueue DEF Receive, TypeOK
<1>4. CASE Write
  <2>1. worker \in Clicks /\ fate[worker] = "writing" /\ UNCHANGED visit
    BY <1>0, <1>4 DEF Write, WorkerInv, TypeOK
  <2>2. CASE fate' = [fate EXCEPT ![worker] = "stored"]
             /\ daily' = Ledger!Recorded(daily, visit[worker])
    BY <1>0, <1>4, <2>1, <2>2, StoresOne DEF Write, TypeOK
  <2>3. CASE fate' = [fate EXCEPT ![worker] = "failed"] /\ UNCHANGED daily
    BY <1>0, <2>1, <2>3, StoresNothing DEF TypeOK
  <2>4. QED
    BY <1>4, <2>2, <2>3 DEF Write
<1>5. CASE Die
  <2>1. UNCHANGED visit
    BY <1>5 DEF Die
  <2>2. PICK landed \in IF worker = Idle THEN {FALSE} ELSE BOOLEAN :
          /\ daily' = IF landed THEN Ledger!Recorded(daily, visit[worker]) ELSE daily
          /\ fate' = [c \in Clicks |->
                        IF fate[c] \notin {"stamped", "queued", "writing"} THEN fate[c]
                        ELSE IF landed /\ c = worker THEN "stored" ELSE "lost"]
    BY <1>5 DEF Die
  <2>3. CASE landed
    BY <1>0, <2>1, <2>2, <2>3, StoresOne DEF WorkerInv
  <2>4. CASE ~landed
    BY <2>1, <2>2, <2>4, StoresNothing
  <2>5. QED
    BY <2>3, <2>4
<1>6. CASE UNCHANGED <<visit, fate, daily>>
  BY <1>6, StoresNothing
<1>7. QED
  BY <1>1, <1>2, <1>3, <1>4, <1>5, <1>6
     DEF Next, CallFlush, PushFlush, Shutdown, Exit, DrainTimeout, Kill, Boot, Tick,
         StayDown, vars

(* The daily rows always equal what was written, out of order or not.      *)
THEOREM DailyRowsExact == Spec => []DailyExact
<1>1. Init => DailyExact
  <2> SUFFICES ASSUME Init, NEW l \in Links, NEW d \in Ledger!Days
               PROVE  CountedOn(l, d) = {} /\ daily[l][d].count = Cardinality({})
    BY DEF DailyExact
  <2>1. QED
    BY FS_EmptySet DEF Init, CountedOn
<1>2. QED
  BY Invariance, <1>1, DailyStep, PTL DEF Spec
=============================================================================
