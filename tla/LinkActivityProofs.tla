------------------------- MODULE LinkActivityProofs -------------------------
(***************************************************************************)
(* Proofs about LinkActivity: the single pass over the ordered rows of     *)
(* get_link_activity fills every bar with the clicks of its day, and the   *)
(* figures of one card bracket each other, for every number of links,      *)
(* clicks, readers and days.                                               *)
(*                                                                         *)
(* The pass and the sums are recursive functions.  Each is shown to be a   *)
(* closed form: the closed form satisfies the recursion, so the CHOOSE of  *)
(* the recursive definition does, and a least argument at which the two    *)
(* differ cannot exist.                                                    *)
(***************************************************************************)
EXTENDS LinkActivity, FiniteSetTheorems, TLAPS

(***************************************************************************)
(* Days                                                                    *)
(***************************************************************************)
(* Multiplying by a natural keeps the order of integers.                   *)
LEMMA MulMono ==
    ASSUME NEW a \in Int, NEW b \in Int, NEW n \in Nat, a <= b
    PROVE  a * n <= b * n
<1>1. b - a \in Nat OBVIOUS
<1>2. (b - a) * n >= 0 BY <1>1
<1>3. (b - a) * n = b * n - a * n OBVIOUS
<1> QED BY <1>2, <1>3

(* A day is named by the instant at which it starts.                       *)
IsDay(d) == \E q \in Int : d = q * MillisPerDay

(* No two days are nearer than a day.                                      *)
LEMMA DaysApart ==
    ASSUME NEW d \in Int, NEW e \in Int, IsDay(d), IsDay(e), d < e
    PROVE  d + MillisPerDay <= e
<1>1. MillisPerDay \in Nat \ {0} BY SpansAssumption
<1>2. PICK a \in Int : d = a * MillisPerDay BY DEF IsDay
<1>3. PICK b \in Int : e = b * MillisPerDay BY DEF IsDay
<1>4. a < b
  <2>1. b <= a => b * MillisPerDay <= a * MillisPerDay BY <1>1, MulMono
  <2> QED BY <2>1, <1>2, <1>3
<1>5. (a + 1) * MillisPerDay <= b * MillisPerDay BY <1>1, <1>4, MulMono
<1>6. (a + 1) * MillisPerDay = a * MillisPerDay + MillisPerDay BY <1>1
<1> QED BY <1>2, <1>3, <1>5, <1>6

(* The day of an instant starts at or before it, and less than a day       *)
(* before.                                                                 *)
LEMMA DayStartFacts ==
    ASSUME NEW t \in Nat
    PROVE  /\ DayStart(t) \in Nat /\ IsDay(DayStart(t))
           /\ DayStart(t) <= t /\ t < DayStart(t) + MillisPerDay
<1>1. MillisPerDay \in Nat \ {0} BY SpansAssumption
<1>2. /\ t \div MillisPerDay \in Nat
      /\ t % MillisPerDay \in 0 .. MillisPerDay - 1
      /\ t = (t \div MillisPerDay) * MillisPerDay + (t % MillisPerDay)
  BY <1>1
<1>3. DayStart(t) = (t \div MillisPerDay) * MillisPerDay BY <1>1, <1>2 DEF DayStart
<1>4. (t \div MillisPerDay) * MillisPerDay >= 0 BY <1>1, <1>2
<1>5. DayStart(t) \in Nat BY <1>1, <1>2, <1>3, <1>4
<1>6. IsDay(DayStart(t)) BY <1>2, <1>3 DEF IsDay
<1> QED BY <1>1, <1>2, <1>3, <1>5, <1>6

(* Whole days before or after a day is a day (the starts of the week and   *)
(* of the series).                                                         *)
LEMMA DayShifts ==
    ASSUME NEW d \in Int, IsDay(d), NEW k \in Int
    PROVE  d + k * MillisPerDay \in Int /\ IsDay(d + k * MillisPerDay)
<1>1. MillisPerDay \in Nat \ {0} BY SpansAssumption
<1>2. PICK a \in Int : d = a * MillisPerDay BY DEF IsDay
<1>3. d + k * MillisPerDay = (a + k) * MillisPerDay BY <1>1, <1>2
<1>4. a + k \in Int /\ k * MillisPerDay \in Int BY <1>1
<1> QED BY <1>3, <1>4 DEF IsDay

(* An instant lies in a day exactly if it is the day that it starts.       *)
LEMMA InDay ==
    ASSUME NEW t \in Nat, NEW d \in Int, IsDay(d)
    PROVE  /\ d <= t <=> d <= DayStart(t)
           /\ t < d <=> DayStart(t) < d
           /\ d <= t /\ t < d + MillisPerDay <=> DayStart(t) = d
<1>1. MillisPerDay \in Nat \ {0} BY SpansAssumption
<1>2. /\ DayStart(t) \in Nat /\ IsDay(DayStart(t))
      /\ DayStart(t) <= t /\ t < DayStart(t) + MillisPerDay
  BY DayStartFacts
<1>3. DayStart(t) < d => DayStart(t) + MillisPerDay <= d BY <1>2, DaysApart
<1>4. d < DayStart(t) => d + MillisPerDay <= DayStart(t) BY <1>2, DaysApart
<1> QED BY <1>1, <1>2, <1>3, <1>4

(* The days of the clock are finitely many, and include every instant's.   *)
LEMMA DaysFinite ==
    /\ Days \subseteq Nat /\ IsFiniteSet(Days)
    /\ \A d \in Days : IsDay(d)
    /\ \A t \in Times : DayStart(t) \in Days
<1>1. MaxNow \in Nat BY SpansAssumption
<1>2. \A t \in Times : t \in Nat BY <1>1 DEF Times
<1>3. Days \subseteq 0 .. MaxNow
  BY <1>1, <1>2, DayStartFacts DEF Days, Times
<1>4. IsFiniteSet(0 .. MaxNow) BY <1>1, FS_Interval
<1>5. IsFiniteSet(Days) BY <1>3, <1>4, FS_Subset
<1>6. \A d \in Days : IsDay(d) BY <1>2, DayStartFacts DEF Days
<1> QED BY <1>1, <1>3, <1>5, <1>6 DEF Days

(***************************************************************************)
(* The ordered rows                                                        *)
(***************************************************************************)
Below(S, d) == {e \in S : e < d}

(* The ranks of n days are 0 .. n - 1, each once.                          *)
LEMMA Ranks ==
    ASSUME NEW S \in SUBSET Int, IsFiniteSet(S)
    PROVE  /\ Cardinality(S) \in Nat
           /\ \A x \in S : Earlier(S, x) \in 0 .. Cardinality(S) - 1
           /\ \A x, y \in S : Earlier(S, x) = Earlier(S, y) => x = y
           /\ \A k \in 0 .. Cardinality(S) - 1 : \E x \in S : Earlier(S, x) = k
<1> DEFINE rank == [x \in S |-> Earlier(S, x)]
           n == Cardinality(S)
           T == 0 .. n - 1
<1>1. n \in Nat BY FS_CardinalityType
<1>2. ASSUME NEW x \in S
      PROVE  /\ IsFiniteSet(Below(S, x))
             /\ Earlier(S, x) = Cardinality(Below(S, x))
             /\ Earlier(S, x) \in Nat /\ Earlier(S, x) < n
  <2>1. Below(S, x) \in SUBSET S /\ x \notin Below(S, x) BY DEF Below
  <2>2. /\ IsFiniteSet(Below(S, x))
        /\ Cardinality(Below(S, x)) <= n
        /\ n = Cardinality(Below(S, x)) => S = Below(S, x)
    BY <2>1, FS_Subset
  <2>3. Cardinality(Below(S, x)) \in Nat BY <2>2, FS_CardinalityType
  <2>4. Earlier(S, x) = Cardinality(Below(S, x)) BY DEF Earlier, Below
  <2> QED BY <2>1, <2>2, <2>3, <2>4, <1>1
<1>3. ASSUME NEW x \in S, NEW y \in S, x < y
      PROVE  Earlier(S, x) < Earlier(S, y)
  <2>1. Below(S, x) \in SUBSET Below(S, y)
    <3>1. \A e \in S : e < x => e < y BY <1>3
    <3> QED BY <3>1 DEF Below
  <2>2. x \in Below(S, y) /\ x \notin Below(S, x) BY <1>3 DEF Below
  <2>3. /\ Cardinality(Below(S, x)) <= Cardinality(Below(S, y))
        /\ Cardinality(Below(S, y)) # Cardinality(Below(S, x))
    BY <2>1, <2>2, <1>2, FS_Subset
  <2> QED BY <2>3, <1>2
<1>4. \A x \in S : Earlier(S, x) \in T BY <1>1, <1>2
<1>5. ASSUME NEW x \in S, NEW y \in S, Earlier(S, x) = Earlier(S, y) PROVE x = y
  <2>1. x \in Int /\ y \in Int OBVIOUS
  <2>2. ~(x < y) BY <1>2, <1>3, <1>5
  <2>3. ~(y < x) BY <1>2, <1>3, <1>5
  <2> QED BY <2>1, <2>2, <2>3
<1>6. rank \in Injection(S, T) BY <1>4, <1>5 DEF Injection, IsInjective
<1>7. IsFiniteSet(T) /\ Cardinality(T) = n BY <1>1, FS_Interval
<1>8. rank \in Surjection(S, T) BY <1>6, <1>7, FS_Injection
<1>9. \A k \in T : \E x \in S : Earlier(S, x) = k BY <1>8 DEF Surjection
<1> QED BY <1>1, <1>4, <1>5, <1>9

(* Rows in order: as many as days, the i-th with i - 1 days before it, and *)
(* each day's row at its rank.                                             *)
LEMMA RowsInOrder ==
    ASSUME NEW table, NEW l, NEW from \in Int, NEW S, S = DaysOf(table, l, from)
    PROVE  LET rows == OrderedRows(table, l, from) IN
           /\ Cardinality(S) \in Nat /\ IsFiniteSet(S) /\ S \in SUBSET Nat
           /\ DOMAIN rows = 1 .. Cardinality(S) /\ Len(rows) = Cardinality(S)
           /\ \A i \in 1 .. Cardinality(S) :
                 /\ rows[i].day \in S /\ Earlier(S, rows[i].day) = i - 1
                 /\ rows[i].count = table[l][rows[i].day].count
           /\ \A d \in S : /\ Earlier(S, d) + 1 \in 1 .. Cardinality(S)
                           /\ rows[Earlier(S, d) + 1].day = d
<1> DEFINE rows == OrderedRows(table, l, from)
           n == Cardinality(S)
           day(i) == CHOOSE d \in S : Earlier(S, d) = i - 1
<1>1. S \in SUBSET Days BY DEF DaysOf
<1>2. IsFiniteSet(S) /\ S \in SUBSET Nat BY <1>1, DaysFinite, FS_Subset
<1>3. /\ n \in Nat
      /\ \A x \in S : Earlier(S, x) \in 0 .. n - 1
      /\ \A x, y \in S : Earlier(S, x) = Earlier(S, y) => x = y
      /\ \A k \in 0 .. n - 1 : \E x \in S : Earlier(S, x) = k
  BY <1>2, Ranks
<1>4. rows = [i \in 1 .. n |-> [day |-> day(i), count |-> table[l][day(i)].count]]
  BY DEF OrderedRows
<1> HIDE DEF n, rows
<1>5. ASSUME NEW i \in 1 .. n PROVE day(i) \in S /\ Earlier(S, day(i)) = i - 1
  <2>1. i - 1 \in 0 .. n - 1 BY <1>3
  <2>2. \E x \in S : Earlier(S, x) = i - 1 BY <2>1, <1>3
  <2> QED BY <2>2
<1> HIDE DEF day
<1>6. ASSUME NEW i \in 1 .. n
      PROVE  /\ rows[i].day \in S /\ Earlier(S, rows[i].day) = i - 1
             /\ rows[i].count = table[l][rows[i].day].count
  BY <1>4, <1>5
<1>7. ASSUME NEW d \in S
      PROVE  Earlier(S, d) + 1 \in 1 .. n /\ rows[Earlier(S, d) + 1].day = d
  <2>1. Earlier(S, d) \in 0 .. n - 1 BY <1>3
  <2>2. Earlier(S, d) + 1 \in 1 .. n BY <2>1, <1>3
  <2> DEFINE i == Earlier(S, d) + 1
  <2>3. i \in 1 .. n BY <2>2
  <2>4. i - 1 = Earlier(S, d) BY <2>1
  <2> HIDE DEF i
  <2>5. rows[i].day \in S /\ Earlier(S, rows[i].day) = Earlier(S, d)
    BY <2>3, <2>4, <1>6
  <2>6. rows[i].day = d BY <2>5, <1>3
  <2> QED BY <2>3, <2>6 DEF i
<1>8. DOMAIN rows = 1 .. n /\ Len(rows) = n
  BY <1>3, <1>4
<1> QED BY <1>2, <1>3, <1>6, <1>7, <1>8 DEF n, rows

(***************************************************************************)
(* Induction: a set of naturals has a least element                        *)
(***************************************************************************)
LEMMA LeastNat ==
    ASSUME NEW B \in SUBSET Nat, B # {}
    PROVE  \E k \in B : \A j \in B : k <= j
<1>1. \E k \in B : \A j \in B : ~(<<j, k>> \in OpToRel(<, Nat))
  BY NatLessThanWellFounded, WFMin
<1>2. PICK k \in B : \A j \in B : ~(<<j, k>> \in OpToRel(<, Nat)) BY <1>1
<1>3. ASSUME NEW j \in B, j < k PROVE FALSE
  <2>1. <<j, k>> \in OpToRel(<, Nat) BY <1>3 DEF OpToRel
  <2> QED BY <2>1, <1>2
<1>4. \A j \in B : k <= j
  <2> TAKE j \in B
  <2>1. j \in Nat /\ k \in Nat OBVIOUS
  <2>2. ~(j < k) BY <1>3
  <2> QED BY <2>1, <2>2
<1> QED BY <1>2, <1>4

(* A set of instants of the clock has a latest one.                        *)
LEMMA MaxIs ==
    ASSUME NEW T \in SUBSET Times, T # {}
    PROVE  Max(T) \in T /\ \A t \in T : Max(T) >= t
<1> DEFINE B == {MaxNow - t : t \in T}
<1>1. MaxNow \in Nat BY SpansAssumption
<1>2. \A t \in T : t \in Nat /\ t <= MaxNow BY <1>1 DEF Times
<1>3. B \in SUBSET Nat /\ B # {} BY <1>1, <1>2
<1>4. PICK k \in B : \A j \in B : k <= j BY <1>3, LeastNat
<1>5. PICK u \in T : k = MaxNow - u OBVIOUS
<1>6. ASSUME NEW t \in T PROVE u >= t
  <2>1. MaxNow - u <= MaxNow - t BY <1>4, <1>5
  <2> QED BY <2>1, <1>1, <1>2
<1> QED BY <1>6 DEF Max

(***************************************************************************)
(* The zero-filled series                                                  *)
(***************************************************************************)
(* A row is before one more day when the days move on by one, exactly if   *)
(* the day they move over has a row.                                       *)
LEMMA EarlierNext ==
    ASSUME NEW S \in SUBSET Nat, IsFiniteSet(S), \A e \in S : IsDay(e),
           NEW d \in Int, IsDay(d)
    PROVE  /\ Earlier(S, d) \in Nat
           /\ Earlier(S, d + MillisPerDay)
                = IF d \in S THEN Earlier(S, d) + 1 ELSE Earlier(S, d)
<1>1. MillisPerDay \in Nat \ {0} BY SpansAssumption
<1>2. ASSUME NEW e \in S PROVE e < d + MillisPerDay <=> e < d \/ e = d
  <2>1. d < e => d + MillisPerDay <= e BY DaysApart
  <2>2. e \in Nat OBVIOUS
  <2> QED BY <2>1, <2>2, <1>1
<1>3. Below(S, d + MillisPerDay) = IF d \in S THEN Below(S, d) \cup {d} ELSE Below(S, d)
  BY <1>2 DEF Below
<1>4. IsFiniteSet(Below(S, d)) /\ d \notin Below(S, d)
  <2>1. Below(S, d) \in SUBSET S /\ d \notin Below(S, d) BY DEF Below
  <2> QED BY <2>1, FS_Subset
<1>5. /\ Earlier(S, d) = Cardinality(Below(S, d))
      /\ Earlier(S, d + MillisPerDay) = Cardinality(Below(S, d + MillisPerDay))
  BY DEF Earlier, Below
<1>6. Cardinality(Below(S, d) \cup {d}) = Cardinality(Below(S, d)) + 1
  BY <1>4, FS_AddElement
<1> QED BY <1>3, <1>4, <1>5, <1>6, FS_CardinalityType

(* A row has fewer rows before it than a later instant has.                *)
LEMMA EarlierLess ==
    ASSUME NEW S \in SUBSET Nat, IsFiniteSet(S), NEW e \in S, NEW d \in Int, e < d
    PROVE  Earlier(S, e) < Earlier(S, d)
<1>1. Below(S, e) \in SUBSET Below(S, d) /\ Below(S, d) \in SUBSET S
  <2>1. \A x \in S : x < e => x < d OBVIOUS
  <2> QED BY <2>1 DEF Below
<1>2. e \in Below(S, d) /\ e \notin Below(S, e) BY DEF Below
<1>3. IsFiniteSet(Below(S, d)) BY <1>1, FS_Subset
<1>4. /\ IsFiniteSet(Below(S, e))
      /\ Cardinality(Below(S, e)) <= Cardinality(Below(S, d))
      /\ Cardinality(Below(S, d)) # Cardinality(Below(S, e))
  BY <1>1, <1>2, <1>3, FS_Subset
<1>5. Cardinality(Below(S, d)) \in Nat /\ Cardinality(Below(S, e)) \in Nat
  BY <1>3, <1>4, FS_CardinalityType
<1>6. Earlier(S, e) = Cardinality(Below(S, e)) /\ Earlier(S, d) = Cardinality(Below(S, d))
  BY DEF Earlier, Below
<1> QED BY <1>4, <1>5, <1>6

(* What the pass has done before a day: the cursor is past the rows before *)
(* it, and each day so far has the count of its row, or zero.              *)
Bar(table, l, S, d) == IF d \in S THEN table[l][d].count ELSE 0
Done(table, l, S, start, k) ==
    [cursor |-> 1 + Earlier(S, start + k * MillisPerDay),
     out |-> [i \in 1 .. k |-> Bar(table, l, S, start + (i - 1) * MillisPerDay)]]

(* One day of the pass: if the cursor was past the rows before the day,    *)
(* it is past those before the next, and the day's bar is appended.        *)
LEMMA OneDay ==
    ASSUME NEW table, NEW l, NEW from \in Int, NEW S, S = DaysOf(table, l, from),
           NEW d \in Int, IsDay(d), NEW acc, acc.cursor = 1 + Earlier(S, d)
    PROVE  LET after == Walk(OrderedRows(table, l, from), d, acc) IN
           after = [cursor |-> 1 + Earlier(S, d + MillisPerDay),
                    out |-> Append(acc.out, Bar(table, l, S, d))]
<1> DEFINE rows == OrderedRows(table, l, from)
           n == Cardinality(S)
           c == acc.cursor
           skipped == {j \in DOMAIN rows : j >= c /\ rows[j].day < d}
<1>1. /\ n \in Nat /\ IsFiniteSet(S) /\ S \in SUBSET Nat
      /\ DOMAIN rows = 1 .. n /\ Len(rows) = n
      /\ \A i \in 1 .. n : /\ rows[i].day \in S /\ Earlier(S, rows[i].day) = i - 1
                           /\ rows[i].count = table[l][rows[i].day].count
      /\ \A e \in S : /\ Earlier(S, e) + 1 \in 1 .. n
                      /\ rows[Earlier(S, e) + 1].day = e
  BY RowsInOrder
<1>2. \A e \in S : IsDay(e) BY DaysFinite DEF DaysOf
<1>3. /\ Earlier(S, d) \in Nat
      /\ Earlier(S, d + MillisPerDay)
           = IF d \in S THEN Earlier(S, d) + 1 ELSE Earlier(S, d)
  BY <1>1, <1>2, EarlierNext
<1> HIDE DEF rows, n
<1>4. skipped = {}
  <2> SUFFICES ASSUME NEW j \in 1 .. n, j >= c, rows[j].day < d PROVE FALSE
    BY <1>1
  <2>1. Earlier(S, rows[j].day) < Earlier(S, d) BY <1>1, EarlierLess
  <2>2. Earlier(S, rows[j].day) = j - 1 BY <1>1
  <2> QED BY <2>1, <2>2, <1>1, <1>3
<1>5. Cardinality(skipped) = 0 BY <1>4, FS_EmptySet
<1> HIDE DEF skipped
<1>6. c + Cardinality(skipped) = c /\ c \in Nat BY <1>3, <1>5
<1>7. ASSUME d \in S PROVE c <= n /\ rows[c].day = d /\ rows[c].count = table[l][d].count
  <2>1. c = Earlier(S, d) + 1 BY <1>3
  <2>2. c \in 1 .. n /\ rows[c].day = d BY <2>1, <1>1, <1>7
  <2> QED BY <2>2, <1>1
<1>8. ASSUME c <= n, rows[c].day = d PROVE d \in S
  <2>1. c \in 1 .. n BY <1>3, <1>8, <1>1
  <2> QED BY <2>1, <1>1, <1>8
<1>9. Walk(rows, d, acc)
        = [cursor |-> IF c <= n /\ rows[c].day = d THEN c + 1 ELSE c,
           out |-> Append(acc.out, IF c <= n /\ rows[c].day = d THEN rows[c].count ELSE 0)]
  BY <1>1, <1>6 DEF Walk, skipped
<1>10. CASE d \in S
  BY <1>3, <1>7, <1>9, <1>10 DEF Bar, rows
<1>11. CASE d \notin S
  BY <1>3, <1>8, <1>9, <1>11 DEF Bar, rows
<1> QED BY <1>10, <1>11

(* For every table of click counts and every first day: the zero-filled    *)
(* series that the single pass of get_link_activity makes of the ordered   *)
(* rows has each day's count, and zero for a day without a row.  The pass  *)
(* is the closed form at every day, as no least day at which it is not can *)
(* exist.                                                                  *)
THEOREM ZeroFilledExact ==
    ASSUME NEW table, NEW l, NEW start \in Int, IsDay(start)
    PROVE  ZeroFilled(OrderedRows(table, l, start), start)
             = [i \in 1 .. SeriesDays |->
                  Bar(table, l, DaysOf(table, l, start), start + (i - 1) * MillisPerDay)]
<1> DEFINE rows == OrderedRows(table, l, start)
           S == DaysOf(table, l, start)
           K == 0 .. SeriesDays
           Step(f) == [k \in K |->
                         IF k = 0 THEN [cursor |-> 1, out |-> <<>>]
                         ELSE Walk(rows, start + (k - 1) * MillisPerDay, f[k - 1])]
           closed == [k \in K |-> Done(table, l, S, start, k)]
           pass == CHOOSE f : f = Step(f)
<1>1. SeriesDays \in Nat \ {0} /\ MillisPerDay \in Nat \ {0} BY SpansAssumption
<1>2. IsFiniteSet(S) /\ S \in SUBSET Nat /\ \A e \in S : e >= start
  <2>1. S \in SUBSET Days /\ \A e \in S : e >= start BY DEF DaysOf
  <2> QED BY <2>1, DaysFinite, FS_Subset
<1>3. ASSUME NEW k \in K, k # 0
      PROVE  Walk(rows, start + (k - 1) * MillisPerDay, Done(table, l, S, start, k - 1))
               = Done(table, l, S, start, k)
  <2> DEFINE d == start + (k - 1) * MillisPerDay
             acc == Done(table, l, S, start, k - 1)
             bars == [i \in 1 .. k - 1 |-> Bar(table, l, S, start + (i - 1) * MillisPerDay)]
  <2>1. d \in Int /\ IsDay(d)
    <3>1. k - 1 \in Int OBVIOUS
    <3> QED BY <3>1, DayShifts
  <2>2. d + MillisPerDay = start + k * MillisPerDay BY <1>1
  <2>3. acc.cursor = 1 + Earlier(S, d) /\ acc.out = bars BY DEF Done
  <2> HIDE DEF d, acc, bars, rows
  <2>4. Walk(rows, d, acc) = [cursor |-> 1 + Earlier(S, d + MillisPerDay),
                              out |-> Append(bars, Bar(table, l, S, d))]
    <3>1. Walk(OrderedRows(table, l, start), d, acc)
            = [cursor |-> 1 + Earlier(S, d + MillisPerDay),
               out |-> Append(acc.out, Bar(table, l, S, d))]
      BY <2>1, <2>3, OneDay
    <3> QED BY <3>1, <2>3 DEF rows
  <2>5. Append(bars, Bar(table, l, S, d))
          = [i \in 1 .. k |-> Bar(table, l, S, start + (i - 1) * MillisPerDay)]
    <3> DEFINE b(i) == Bar(table, l, S, start + (i - 1) * MillisPerDay)
    <3>1. b(k) = Bar(table, l, S, d) BY DEF d
    <3> HIDE DEF b
    <3>2. Append([i \in 1 .. k - 1 |-> b(i)], b(k)) = [i \in 1 .. k |-> b(i)]
      <4>1. k - 1 \in Nat BY <1>3
      <4> QED BY <4>1
    <3> QED BY <3>1, <3>2 DEF b, bars
  <2> QED BY <2>2, <2>4, <2>5 DEF Done, d, acc
<1>4. Done(table, l, S, start, 0) = [cursor |-> 1, out |-> <<>>]
  <2>1. Below(S, start) = {} BY <1>2 DEF Below
  <2>2. Earlier(S, start) = 0 BY <2>1, FS_EmptySet DEF Earlier, Below
  <2>3. start + 0 * MillisPerDay = start BY <1>1
  <2>4. [i \in 1 .. 0 |-> Bar(table, l, S, start + (i - 1) * MillisPerDay)] = <<>>
    OBVIOUS
  <2> QED BY <2>2, <2>3, <2>4 DEF Done
<1>5. closed = Step(closed)
  <2> SUFFICES ASSUME NEW k \in K
               PROVE  closed[k] = IF k = 0 THEN [cursor |-> 1, out |-> <<>>]
                        ELSE Walk(rows, start + (k - 1) * MillisPerDay, closed[k - 1])
    OBVIOUS
  <2>1. CASE k = 0 BY <2>1, <1>4
  <2>2. CASE k # 0
    <3>1. k - 1 \in K BY <2>2, <1>1
    <3> QED BY <3>1, <2>2, <1>3
  <2> QED BY <2>1, <2>2
<1> HIDE DEF closed
<1>6. pass = Step(pass) BY <1>5
<1> HIDE DEF pass
<1>7. \A k \in K : pass[k] = Done(table, l, S, start, k)
  <2> DEFINE B == {k \in K : pass[k] # Done(table, l, S, start, k)}
  <2> SUFFICES ASSUME B # {} PROVE FALSE OBVIOUS
  <2>1. B \in SUBSET Nat BY <1>1
  <2>2. PICK k \in B : \A j \in B : k <= j BY <2>1, LeastNat
  <2>3. CASE k = 0 BY <2>3, <1>4, <1>6
  <2>4. CASE k # 0
    <3>1. k - 1 \in K /\ k \in K BY <2>4, <1>1
    <3>2. k - 1 \notin B BY <2>1, <2>2
    <3>3. pass[k - 1] = Done(table, l, S, start, k - 1) BY <3>1, <3>2
    <3>4. pass[k] = Walk(rows, start + (k - 1) * MillisPerDay, pass[k - 1])
      BY <2>4, <3>1, <1>6
    <3> QED BY <3>1, <3>3, <3>4, <2>4, <1>3
  <2> QED BY <2>3, <2>4
<1>8. ZeroFilled(rows, start) = pass[SeriesDays].out BY DEF ZeroFilled, pass
<1>9. SeriesDays \in K BY <1>1
<1>10. pass[SeriesDays] = Done(table, l, S, start, SeriesDays) BY <1>7, <1>9
<1>11. Done(table, l, S, start, SeriesDays).out
         = [i \in 1 .. SeriesDays |-> Bar(table, l, S, start + (i - 1) * MillisPerDay)]
  BY DEF Done
<1> QED BY <1>8, <1>10, <1>11

(***************************************************************************)
(* The inductive invariant                                                 *)
(***************************************************************************)
(* The counted clicks of a link, on one day, and within instants.          *)
AllOf(l) == {c \in Clicks : fate[c] = "counted" /\ visit[c].link = l}
OnDay(l, d) == {c \in AllOf(l) : DayStart(visit[c].at) = d}
Within(l, from, to) == {c \in AllOf(l) : from <= visit[c].at /\ visit[c].at < to}

TypesOK ==
    /\ fate \in [Clicks -> {"none", "taken", "counted", "missed"}]
    /\ DOMAIN visit = Clicks
    /\ \A c \in Clicks : fate[c] # "none" => visit[c] \in Visit
    /\ daily \in [Links -> [Days -> DayRow]]
    /\ now \in Times
    /\ pc \in [Readers -> {"idle", "total", "week", "series", "done", "failed"}]
    /\ ask \in [Readers -> Links]
    /\ at \in [Readers -> Times]
    /\ total \in [Readers -> [count : Nat, last : Nat]]
    /\ week \in [Readers -> Nat]
    /\ DOMAIN series = Readers /\ DOMAIN asof = Readers

(* A day's row counts the counted clicks of its day, and its last click is *)
(* the latest of them.                                                     *)
RowsCount ==
    \A l \in Links, d \in Days :
       /\ daily[l][d].count = Cardinality(OnDay(l, d))
       /\ \A c \in OnDay(l, d) : visit[c].at <= daily[l][d].last
       /\ OnDay(l, d) # {} => \E c \in OnDay(l, d) : visit[c].at = daily[l][d].last

(* An instant that a card may show as the last click of a link.            *)
WasClick(l, t) == t = 0 \/ \E c \in AllOf(l) : visit[c].at = t

(* What each figure that a card has read still satisfies while more clicks *)
(* are counted.                                                            *)
FiguresHold(r) ==
    LET l == ask[r]
        before == Stats(asof[r], l)
    IN  /\ pc[r] = "total" =>
             /\ before.count \in Nat /\ before.count <= Cardinality(AllOf(l))
             /\ before.last \in Nat /\ WasClick(l, before.last)
        /\ pc[r] \in {"week", "series"} =>
             /\ before.count <= total[r].count
             /\ total[r].count <= Cardinality(AllOf(l))
             /\ before.last <= total[r].last /\ WasClick(l, total[r].last)
        /\ pc[r] = "series" =>
             /\ total[r].count <= Counted(l, 0, WeekStart(r)) + week[r]
             /\ week[r] <= Counted(l, WeekStart(r), MaxNow + 1)

(* Clicks are stamped with an instant that has come.                       *)
ClicksPast == \A c \in Clicks : fate[c] # "none" => visit[c].at <= now

CardIInv ==
    /\ TypesOK /\ RowsCount /\ ClicksPast
    /\ \A r \in Readers : FiguresHold(r)

(***************************************************************************)
(* Sums over days                                                          *)
(***************************************************************************)
(* A function of sets of days that grows by a day's count with each day.   *)
Sums(sum, table, l, S) ==
    /\ sum[{}] = 0
    /\ \A s \in SUBSET S : \A x \in s : sum[s] = table[l][x].count + sum[s \ {x}]

(* It is the sum of the counts: a least set at which it is not cannot      *)
(* exist.                                                                  *)
LEMMA SumOfCounts ==
    ASSUME NEW table, NEW l, NEW S, IsFiniteSet(S), NEW sum, Sums(sum, table, l, S)
    PROVE  ClicksOn(table, l, S) = sum[S]
<1> DEFINE first(s) == CHOOSE x \in s : TRUE
           Step(f) == [s \in SUBSET S |->
                         IF s = {} THEN 0
                         ELSE table[l][first(s)].count + f[s \ {first(s)}]]
           closed == [s \in SUBSET S |-> sum[s]]
           iter == CHOOSE f : f = Step(f)
<1>1. ClicksOn(table, l, S) = iter[S]
  BY Zenon DEF ClicksOn, MapThenSumSet, MapThenFoldSet
<1>2. \A s \in SUBSET S : s # {} => first(s) \in s /\ s \ {first(s)} \in SUBSET S
  OBVIOUS
<1>3. /\ sum[{}] = 0
      /\ \A s \in SUBSET S : \A x \in s : sum[s] = table[l][x].count + sum[s \ {x}]
  BY DEF Sums
<1> HIDE DEF first
<1>4. closed = Step(closed)
  <2> SUFFICES ASSUME NEW s \in SUBSET S
               PROVE  closed[s] = IF s = {} THEN 0
                        ELSE table[l][first(s)].count + closed[s \ {first(s)}]
    OBVIOUS
  <2>1. CASE s = {} BY <2>1, <1>3
  <2>2. CASE s # {} BY <2>2, <1>2, <1>3
  <2> QED BY <2>1, <2>2
<1> HIDE DEF closed
<1>5. iter = Step(iter) BY <1>4
<1> HIDE DEF iter
<1>6. \A s \in SUBSET S : iter[s] = sum[s]
  <2> DEFINE Bad == {s \in SUBSET S : iter[s] # sum[s]}
             B == {Cardinality(s) : s \in Bad}
  <2> SUFFICES ASSUME Bad # {} PROVE FALSE OBVIOUS
  <2>1. \A s \in SUBSET S : IsFiniteSet(s) /\ Cardinality(s) \in Nat
    BY FS_Subset, FS_CardinalityType
  <2>2. B \in SUBSET Nat /\ B # {} BY <2>1
  <2>3. PICK k \in B : \A j \in B : k <= j BY <2>2, LeastNat
  <2>4. PICK s \in Bad : Cardinality(s) = k OBVIOUS
  <2>5. CASE s = {} BY <2>5, <2>4, <1>5, <1>3
  <2>6. CASE s # {}
    <3> DEFINE x == first(s)
               u == s \ {x}
    <3>1. x \in s /\ u \in SUBSET S /\ s \in SUBSET S BY <2>6, <1>2
    <3>2. Cardinality(u) = Cardinality(s) - 1 BY <3>1, <2>1, FS_RemoveElement
    <3>3. u \notin Bad
      <4>1. SUFFICES ASSUME u \in Bad PROVE FALSE OBVIOUS
      <4>2. Cardinality(u) \in B BY <4>1
      <4>3. k \in Nat /\ Cardinality(u) = k - 1 BY <2>2, <2>4, <3>2
      <4> QED BY <4>2, <4>3, <2>3
    <3>4. iter[u] = sum[u] BY <3>1, <3>3
    <3>5. iter[s] = table[l][x].count + iter[u] BY <2>6, <3>1, <1>5
    <3> QED BY <3>1, <3>4, <3>5, <2>4, <1>3
  <2> QED BY <2>5, <2>6
<1> QED BY <1>1, <1>6

(* The counted clicks of a link on some of the days.                       *)
OnDays(l, D) == {c \in AllOf(l) : DayStart(visit[c].at) \in D}

(* There are finitely many clicks, hence of each link.                     *)
LEMMA ClicksFinite ==
    ASSUME NEW l
    PROVE  /\ IsFiniteSet(AllOf(l)) /\ Cardinality(AllOf(l)) \in Nat
           /\ \A T \in SUBSET AllOf(l) :
                 /\ IsFiniteSet(T) /\ Cardinality(T) \in Nat
                 /\ Cardinality(T) <= Cardinality(AllOf(l))
<1>1. IsFiniteSet(Clicks) BY SpansAssumption
<1>2. AllOf(l) \in SUBSET Clicks BY DEF AllOf
<1>3. IsFiniteSet(AllOf(l)) BY <1>1, <1>2, FS_Subset
<1> QED BY <1>3, FS_Subset, FS_CardinalityType

(* Two disjoint sets count as their union.                                 *)
LEMMA DisjointUnion ==
    ASSUME NEW A, NEW B, IsFiniteSet(A), IsFiniteSet(B), A \cap B = {}
    PROVE  Cardinality(A \cup B) = Cardinality(A) + Cardinality(B)
<1>1. Cardinality(A \cup B) = Cardinality(A) + Cardinality(B) - Cardinality(A \cap B)
  BY FS_Union
<1>2. Cardinality(A \cap B) = 0 BY FS_EmptySet
<1>3. Cardinality(A) \in Nat /\ Cardinality(B) \in Nat BY FS_CardinalityType
<1> QED BY <1>1, <1>2, <1>3

(* A sum over days of a table that counts its clicks counts the clicks.    *)
LEMMA SumCounts ==
    ASSUME RowsCount, NEW l \in Links, NEW D \in SUBSET Days
    PROVE  ClicksOn(daily, l, D) = Cardinality(OnDays(l, D))
<1> DEFINE sum == [s \in SUBSET D |-> Cardinality(OnDays(l, s))]
<1>1. IsFiniteSet(D) BY DaysFinite, FS_Subset
<1>2. sum[{}] = 0
  <2>1. OnDays(l, {}) = {} BY DEF OnDays
  <2> QED BY <2>1, FS_EmptySet
<1>3. ASSUME NEW s \in SUBSET D, NEW x \in s
      PROVE  sum[s] = daily[l][x].count + sum[s \ {x}]
  <2>1. OnDays(l, s) = OnDay(l, x) \cup OnDays(l, s \ {x}) BY DEF OnDays, OnDay
  <2>2. OnDay(l, x) \cap OnDays(l, s \ {x}) = {} BY DEF OnDays, OnDay
  <2>3. /\ IsFiniteSet(OnDay(l, x)) /\ IsFiniteSet(OnDays(l, s \ {x}))
        /\ Cardinality(OnDay(l, x)) \in Nat /\ Cardinality(OnDays(l, s \ {x})) \in Nat
    <3>1. OnDay(l, x) \in SUBSET AllOf(l) /\ OnDays(l, s \ {x}) \in SUBSET AllOf(l)
      BY DEF OnDay, OnDays
    <3> QED BY <3>1, ClicksFinite
  <2>4. Cardinality(OnDays(l, s))
          = Cardinality(OnDay(l, x)) + Cardinality(OnDays(l, s \ {x}))
    BY <2>1, <2>2, <2>3, DisjointUnion
  <2>5. daily[l][x].count = Cardinality(OnDay(l, x)) BY DEF RowsCount
  <2>6. s \ {x} \in SUBSET D OBVIOUS
  <2> QED BY <2>4, <2>5, <2>6
<1> HIDE DEF sum
<1>4. Sums(sum, daily, l, D) BY <1>2, <1>3 DEF Sums
<1>5. ClicksOn(daily, l, D) = sum[D] BY <1>1, <1>4, SumOfCounts
<1> QED BY <1>5 DEF sum

(***************************************************************************)
(* The three statements, in clicks                                         *)
(***************************************************************************)
(* A counted click has an instant, and its day is one of the days.         *)
LEMMA ClickTimes ==
    ASSUME TypesOK, NEW l, NEW c \in AllOf(l)
    PROVE  /\ visit[c].at \in Nat /\ visit[c].at < MaxNow + 1
           /\ DayStart(visit[c].at) \in Days
<1>1. c \in Clicks /\ fate[c] = "counted" BY DEF AllOf
<1>2. visit[c] \in Visit BY <1>1 DEF TypesOK
<1>3. visit[c].at \in Times BY <1>2 DEF Visit
<1>4. MaxNow \in Nat BY SpansAssumption
<1> QED BY <1>3, <1>4, DaysFinite DEF Times

(* Days without a row have no clicks.                                      *)
LEMMA RowsOfClicks ==
    ASSUME TypesOK, RowsCount, NEW l \in Links, NEW from \in Int, NEW c \in AllOf(l),
           from <= DayStart(visit[c].at)
    PROVE  DayStart(visit[c].at) \in DaysOf(daily, l, from)
<1> DEFINE d == DayStart(visit[c].at)
<1>1. d \in Days BY ClickTimes
<1>2. c \in OnDay(l, d) /\ OnDay(l, d) \in SUBSET AllOf(l) BY DEF OnDay
<1>3. IsFiniteSet(OnDay(l, d)) /\ Cardinality(OnDay(l, d)) \in Nat
  BY <1>2, ClicksFinite
<1>4. Cardinality(OnDay(l, d)) # 0 BY <1>2, <1>3, FS_EmptySet
<1>5. daily[l][d].count = Cardinality(OnDay(l, d)) BY <1>1 DEF RowsCount
<1>6. daily[l][d].count > 0 BY <1>3, <1>4, <1>5
<1>7. d \in Int /\ d >= from
  <2>1. Days \subseteq Nat BY DaysFinite
  <2> HIDE DEF d
  <2>2. d \in Int BY <1>1, <2>1
  <2> QED BY <2>2 DEF d
<1> QED BY <1>1, <1>6, <1>7 DEF DaysOf

(* The first statement: every counted click, and the latest of them.       *)
LEMMA StatsCount ==
    ASSUME TypesOK, RowsCount, NEW l \in Links
    PROVE  LET s == Stats(daily, l) IN
           /\ s = [count |-> s.count, last |-> s.last]
           /\ s.count = Cardinality(AllOf(l)) /\ s.count \in Nat
           /\ s.last \in Nat /\ WasClick(l, s.last)
           /\ \A c \in AllOf(l) : visit[c].at <= s.last
<1> DEFINE S == DaysOf(daily, l, 0)
           s == Stats(daily, l)
           lasts == {daily[l][d].last : d \in S}
           latest == IF S = {} THEN 0 ELSE Max(lasts)
<1>1. S \in SUBSET Days /\ \A d \in S : daily[l][d].count > 0 BY DEF DaysOf
<1>2. s = [count |-> ClicksOn(daily, l, S), last |-> latest] BY DEF Stats
<1>3. \A c \in AllOf(l) : DayStart(visit[c].at) \in S
  <2> TAKE c \in AllOf(l)
  <2>1. DayStart(visit[c].at) \in Days BY ClickTimes
  <2>2. Days \subseteq Nat BY DaysFinite
  <2>3. \A n \in Nat : 0 <= n OBVIOUS
  <2>4. 0 <= DayStart(visit[c].at) BY <2>1, <2>2, <2>3, Zenon
  <2> QED BY <2>4, RowsOfClicks
<1>4. OnDays(l, S) = AllOf(l) BY <1>3 DEF OnDays
<1> HIDE DEF S
<1>5. s.count = Cardinality(AllOf(l))
  <2>1. s.count = ClicksOn(daily, l, S) BY <1>2
  <2>2. ClicksOn(daily, l, S) = Cardinality(OnDays(l, S)) BY <1>1, SumCounts
  <2> QED BY <2>1, <2>2, <1>4
<1>6. \A d \in S : /\ daily[l][d].last \in Times
                   /\ \E c \in OnDay(l, d) : visit[c].at = daily[l][d].last
                   /\ \A c \in OnDay(l, d) : visit[c].at <= daily[l][d].last
  <2> TAKE d \in S
  <2>1. d \in Days /\ daily[l][d].count > 0 BY <1>1
  <2>2. daily[l][d] \in DayRow BY <2>1 DEF TypesOK
  <2>3. OnDay(l, d) # {}
    <3>1. Cardinality(OnDay(l, d)) = daily[l][d].count BY <2>1 DEF RowsCount
    <3>2. Cardinality(OnDay(l, d)) # 0 BY <3>1, <2>1
    <3> QED BY <3>2, FS_EmptySet
  <2> QED BY <2>1, <2>2, <2>3 DEF RowsCount, DayRow
<1>7. /\ latest \in Nat /\ WasClick(l, latest)
      /\ \A d \in S : daily[l][d].last <= latest
  <2>1. CASE S = {} BY <2>1 DEF WasClick
  <2>2. CASE S # {}
    <3>1. lasts \in SUBSET Times /\ lasts # {} BY <2>2, <1>6
    <3>2. Max(lasts) \in lasts /\ \A t \in lasts : Max(lasts) >= t BY <3>1, MaxIs
    <3>3. Max(lasts) \in Nat /\ lasts \in SUBSET Nat
      BY <3>1, <3>2, SpansAssumption DEF Times
    <3>4. PICK d \in S : latest = daily[l][d].last BY <2>2, <3>2
    <3>5. \E c \in OnDay(l, d) : visit[c].at = latest BY <3>4, <1>6
    <3>6. WasClick(l, latest)
      <4>1. PICK c \in OnDay(l, d) : visit[c].at = latest BY <3>5
      <4>2. c \in AllOf(l) BY DEF OnDay
      <4> HIDE DEF latest
      <4> QED BY <4>1, <4>2 DEF WasClick
    <3>7. \A e \in S : daily[l][e].last <= latest BY <2>2, <3>2, <3>3
    <3> QED BY <2>2, <3>3, <3>6, <3>7
  <2> QED BY <2>1, <2>2
<1>8. \A c \in AllOf(l) : visit[c].at <= latest
  <2> TAKE c \in AllOf(l)
  <2> DEFINE d == DayStart(visit[c].at)
  <2>1. d \in S BY <1>3
  <2>2. c \in OnDay(l, d) BY DEF OnDay
  <2>3. visit[c].at <= daily[l][d].last /\ daily[l][d].last <= latest
    BY <2>1, <2>2, <1>6, <1>7
  <2>4. visit[c].at \in Nat /\ daily[l][d].last \in Nat
    BY <2>1, <1>6, ClickTimes, SpansAssumption DEF Times
  <2> QED BY <2>3, <2>4, <1>7
<1> HIDE DEF latest
<1>9. s.last = latest /\ s = [count |-> s.count, last |-> s.last] BY <1>2
<1>10. Cardinality(AllOf(l)) \in Nat BY ClicksFinite
<1> HIDE DEF s
<1> QED BY <1>5, <1>7, <1>8, <1>9, <1>10 DEF s

(* Counted is the number of clicks within the instants.                    *)
LEMMA CountedIs ==
    ASSUME NEW l, NEW from, NEW to
    PROVE  /\ Counted(l, from, to) = Cardinality(Within(l, from, to))
           /\ IsFiniteSet(Within(l, from, to)) /\ Counted(l, from, to) \in Nat
<1>1. Within(l, from, to)
        = {c \in Clicks : /\ fate[c] = "counted" /\ visit[c].link = l
                          /\ from <= visit[c].at /\ visit[c].at < to}
  BY DEF Within, AllOf
<1>2. Within(l, from, to) \in SUBSET AllOf(l) BY DEF Within
<1> QED BY <1>1, <1>2, ClicksFinite DEF Counted

(* The second statement: the clicks since the first day of the week.       *)
LEMMA WeekCount ==
    ASSUME TypesOK, RowsCount, NEW l \in Links, NEW w \in Int, IsDay(w)
    PROVE  ClicksOn(daily, l, DaysOf(daily, l, w)) = Counted(l, w, MaxNow + 1)
<1> DEFINE S == DaysOf(daily, l, w)
<1>1. S \in SUBSET Days /\ \A d \in S : d >= w BY DEF DaysOf
<1>2. ASSUME NEW c \in AllOf(l)
      PROVE  /\ DayStart(visit[c].at) \in S <=> w <= visit[c].at
             /\ visit[c].at < MaxNow + 1
  <2>1. visit[c].at \in Nat /\ visit[c].at < MaxNow + 1 BY ClickTimes
  <2>2. w <= visit[c].at <=> w <= DayStart(visit[c].at) BY <2>1, InDay
  <2>3. w <= DayStart(visit[c].at) => DayStart(visit[c].at) \in S BY RowsOfClicks
  <2>4. DayStart(visit[c].at) \in S => w <= DayStart(visit[c].at)
    <3>1. DayStart(visit[c].at) \in Nat BY <2>1, DayStartFacts
    <3> QED BY <3>1, <1>1
  <2> QED BY <2>1, <2>2, <2>3, <2>4
<1>3. OnDays(l, S) = Within(l, w, MaxNow + 1) BY <1>2 DEF OnDays, Within
<1>4. ClicksOn(daily, l, S) = Cardinality(OnDays(l, S)) BY <1>1, SumCounts
<1> QED BY <1>3, <1>4, CountedIs

(* A click is older than the week or in it.                                *)
LEMMA WeekSplits ==
    ASSUME TypesOK, NEW l, NEW w \in Int
    PROVE  Cardinality(AllOf(l)) = Counted(l, 0, w) + Counted(l, w, MaxNow + 1)
<1>1. \A c \in AllOf(l) : visit[c].at \in Nat /\ visit[c].at < MaxNow + 1
  BY ClickTimes
<1>2. \A n \in Nat : 0 <= n /\ (w <= n <=> ~(n < w)) OBVIOUS
<1>3. \A c \in AllOf(l) : 0 <= visit[c].at /\ (w <= visit[c].at <=> ~(visit[c].at < w))
  BY <1>1, <1>2
<1>4. AllOf(l) = Within(l, 0, w) \cup Within(l, w, MaxNow + 1)
  BY <1>1, <1>3, Zenon DEF Within
<1>5. Within(l, 0, w) \cap Within(l, w, MaxNow + 1) = {}
  BY <1>3, Zenon DEF Within
<1> QED BY <1>4, <1>5, CountedIs, DisjointUnion

(* The third statement: the bar of a day is the clicks counted on it.      *)
LEMMA BarCounts ==
    ASSUME TypesOK, RowsCount, NEW l \in Links, NEW start \in Int,
           NEW d \in Int, IsDay(d), start <= d
    PROVE  Bar(daily, l, DaysOf(daily, l, start), d) = Counted(l, d, d + MillisPerDay)
<1> DEFINE S == DaysOf(daily, l, start)
<1>1. ASSUME NEW c \in AllOf(l)
      PROVE  d <= visit[c].at /\ visit[c].at < d + MillisPerDay
               <=> DayStart(visit[c].at) = d
  <2>1. visit[c].at \in Nat BY ClickTimes
  <2> QED BY <2>1, InDay
<1>2. Within(l, d, d + MillisPerDay) = OnDay(l, d) BY <1>1 DEF Within, OnDay
<1>3. Counted(l, d, d + MillisPerDay) = Cardinality(OnDay(l, d)) BY <1>2, CountedIs
<1>4. CASE d \in S
  <2>1. d \in Days BY <1>4 DEF DaysOf
  <2>2. daily[l][d].count = Cardinality(OnDay(l, d)) BY <2>1 DEF RowsCount
  <2> QED BY <1>3, <1>4, <2>2 DEF Bar
<1>5. CASE d \notin S
  <2>1. ASSUME NEW c \in OnDay(l, d) PROVE FALSE
    <3>1. c \in AllOf(l) /\ DayStart(visit[c].at) = d BY DEF OnDay
    <3>2. d \in S BY <3>1, RowsOfClicks
    <3> QED BY <3>2, <1>5
  <2>2. OnDay(l, d) = {} BY <2>1
  <2> QED BY <1>3, <1>5, <2>2, FS_EmptySet DEF Bar
<1> QED BY <1>4, <1>5

(* What one card computes from its rows is what was counted on each day.   *)
LEMMA SeriesCounts ==
    ASSUME TypesOK, RowsCount, NEW l \in Links, NEW start \in Int, IsDay(start)
    PROVE  ZeroFilled(OrderedRows(daily, l, start), start)
             = [i \in 1 .. SeriesDays |->
                  Counted(l, start + (i - 1) * MillisPerDay,
                             start + (i - 1) * MillisPerDay + MillisPerDay)]
<1>1. ASSUME NEW i \in 1 .. SeriesDays
      PROVE  Bar(daily, l, DaysOf(daily, l, start), start + (i - 1) * MillisPerDay)
               = Counted(l, start + (i - 1) * MillisPerDay,
                            start + (i - 1) * MillisPerDay + MillisPerDay)
  <2> DEFINE d == start + (i - 1) * MillisPerDay
  <2>1. SeriesDays \in Nat /\ MillisPerDay \in Nat BY SpansAssumption
  <2>2. i - 1 \in Nat BY <2>1
  <2>3. d \in Int /\ IsDay(d) BY <2>2, DayShifts
  <2>4. (i - 1) * MillisPerDay \in Nat BY <2>1, <2>2
  <2>5. start <= d BY <2>4
  <2> HIDE DEF d
  <2>6. Bar(daily, l, DaysOf(daily, l, start), d) = Counted(l, d, d + MillisPerDay)
    BY <2>3, <2>5, BarCounts
  <2> QED BY <2>6 DEF d
<1>2. ZeroFilled(OrderedRows(daily, l, start), start)
        = [i \in 1 .. SeriesDays |->
             Bar(daily, l, DaysOf(daily, l, start), start + (i - 1) * MillisPerDay)]
  BY ZeroFilledExact
<1> QED BY <1>1, <1>2, Zenon

(***************************************************************************)
(* Steps of the ledger                                                     *)
(***************************************************************************)
(* A counted click stays counted, as the visit that it was.                *)
Grows == \A c \in Clicks :
            fate[c] = "counted" => fate'[c] = "counted" /\ visit'[c] = visit[c]

(* The upsert of record_click adds one, and keeps the later instant.       *)
LEMMA UpsertedRow ==
    ASSUME NEW row \in DayRow, NEW t \in Times
    PROVE  /\ Upserted(row, t) \in DayRow
           /\ Upserted(row, t).count = row.count + 1
           /\ row.count = 0 => Upserted(row, t).last = t
           /\ row.count # 0 => Upserted(row, t).last = LaterOf(row.last, t)
<1>1. row.count \in Nat /\ row.last \in Times BY DEF DayRow
<1>2. LaterOf(row.last, t) \in Times BY <1>1 DEF LaterOf
<1>3. CASE row.count = 0 BY <1>3 DEF Upserted, DayRow
<1>4. CASE row.count # 0 BY <1>1, <1>2, <1>4 DEF Upserted, DayRow
<1> QED BY <1>3, <1>4

(* A count adds its click to its day, and no other.                        *)
LEMMA UpsertCounts ==
    ASSUME TypesOK, RowsCount, NEW c \in Clicks, fate[c] = "taken",
           daily' = Recorded(daily, visit[c]), visit' = visit, fate'[c] = "counted",
           \A e \in Clicks \ {c} : fate'[e] = "counted" <=> fate[e] = "counted"
    PROVE  daily' \in [Links -> [Days -> DayRow]] /\ RowsCount'
<1> DEFINE v == visit[c]
           k == DayStart(v.at)
<1>1. v.link \in Links /\ v.at \in Times /\ k \in Days
  <2>1. visit[c] \in Visit BY DEF TypesOK
  <2> QED BY <2>1, DaysFinite DEF Visit
<1>2. Times \subseteq Nat BY SpansAssumption DEF Times
<1>3. ASSUME NEW l \in Links, NEW d \in Days
      PROVE  /\ daily[l][d] \in DayRow /\ daily[l][d].count \in Nat
             /\ daily[l][d].last \in Times
             /\ daily[l][d] = [count |-> daily[l][d].count, last |-> daily[l][d].last]
  BY DEF TypesOK, DayRow
<1>4. ASSUME NEW l \in Links, NEW d \in Days
      PROVE  daily'[l][d] = IF l = v.link /\ d = k THEN Upserted(daily[l][d], v.at)
                            ELSE daily[l][d]
  BY <1>1 DEF TypesOK, Recorded
<1>5. ASSUME NEW l \in Links, NEW d \in Days
      PROVE  /\ Upserted(daily[l][d], v.at) \in DayRow
             /\ Upserted(daily[l][d], v.at).count = daily[l][d].count + 1
             /\ daily[l][d].count = 0 => Upserted(daily[l][d], v.at).last = v.at
             /\ daily[l][d].count # 0 =>
                  Upserted(daily[l][d], v.at).last = LaterOf(daily[l][d].last, v.at)
  BY <1>1, <1>3, UpsertedRow
<1>6. daily' \in [Links -> [Days -> DayRow]]
  <2>1. \A l \in Links, d \in Days : daily'[l][d] \in DayRow BY <1>3, <1>4, <1>5
  <2>2. daily' = [l \in Links |-> daily'[l]]
        /\ \A l \in Links : daily'[l] = [d \in Days |-> daily'[l][d]]
    BY <1>1 DEF TypesOK, Recorded
  <2> QED BY <2>1, <2>2
<1>7. ASSUME NEW l \in Links, NEW d \in Days
      PROVE  /\ OnDay(l, d)' = IF l = v.link /\ d = k THEN OnDay(l, d) \cup {c}
                               ELSE OnDay(l, d)
             /\ c \notin OnDay(l, d)
             /\ IsFiniteSet(OnDay(l, d))
  <2>1. c \notin OnDay(l, d) BY DEF OnDay, AllOf
  <2>2. OnDay(l, d) \in SUBSET AllOf(l) BY DEF OnDay
  <2>3. IsFiniteSet(OnDay(l, d)) BY <2>2, ClicksFinite
  <2>4. OnDay(l, d)' = {e \in Clicks : /\ fate'[e] = "counted" /\ visit[e].link = l
                                       /\ DayStart(visit[e].at) = d}
    BY DEF OnDay, AllOf
  <2>5. OnDay(l, d) = {e \in Clicks : /\ fate[e] = "counted" /\ visit[e].link = l
                                      /\ DayStart(visit[e].at) = d}
    BY DEF OnDay, AllOf
  <2> QED BY <2>1, <2>3, <2>4, <2>5
<1>8. ASSUME NEW l \in Links, NEW d \in Days
      PROVE  /\ daily'[l][d].count = Cardinality(OnDay(l, d)')
             /\ \A e \in OnDay(l, d)' : visit'[e].at <= daily'[l][d].last
             /\ OnDay(l, d)' # {} => \E e \in OnDay(l, d)' : visit'[e].at = daily'[l][d].last
  <2> DEFINE A == OnDay(l, d)
             row == daily[l][d]
  <2>1. /\ row.count = Cardinality(A) /\ IsFiniteSet(A)
        /\ \A e \in A : visit[e].at <= row.last
        /\ A # {} => \E e \in A : visit[e].at = row.last
    BY <1>7 DEF RowsCount
  <2>2. \A e \in A : visit[e].at \in Nat
    <3> TAKE e \in A
    <3>1. e \in AllOf(l) BY DEF OnDay
    <3> QED BY <3>1, ClickTimes
  <2>3. /\ row.count \in Nat /\ row.last \in Nat /\ v.at \in Nat
        /\ A = {} <=> row.count = 0
    BY <1>1, <1>2, <1>3, <2>1, FS_EmptySet
  <2>4. CASE l = v.link /\ d = k
    <3> DEFINE new == Upserted(row, v.at)
    <3>1. OnDay(l, d)' = A \cup {c} /\ c \notin A /\ daily'[l][d] = new
      BY <2>4, <1>4, <1>7
    <3>2. /\ new.count = row.count + 1
          /\ row.count = 0 => new.last = v.at
          /\ row.count # 0 => new.last = LaterOf(row.last, v.at)
      BY <1>5
    <3>3. Cardinality(A \cup {c}) = Cardinality(A) + 1 BY <2>1, <3>1, FS_AddElement
    <3> HIDE DEF new, A, row
    <3>4. /\ \A e \in A \cup {c} : visit[e].at <= new.last
          /\ \E e \in A \cup {c} : visit[e].at = new.last
      <4>1. CASE A = {} BY <4>1, <2>3, <3>2
      <4>2. CASE A # {}
        <5>1. new.last = IF row.last > v.at THEN row.last ELSE v.at
          BY <4>2, <2>3, <3>2 DEF LaterOf
        <5>2. PICK e \in A : visit[e].at = row.last BY <4>2, <2>1
        <5>3. \A x \in A : visit[x].at <= new.last BY <5>1, <2>1, <2>2, <2>3
        <5>4. v.at <= new.last BY <5>1, <2>3
        <5>5. visit[e].at = new.last \/ v.at = new.last BY <5>1, <5>2
        <5> QED BY <5>3, <5>4, <5>5
      <4> QED BY <4>1, <4>2
    <3> QED BY <3>1, <3>2, <3>3, <3>4, <2>1
  <2>5. CASE ~(l = v.link /\ d = k)
    <3>1. OnDay(l, d)' = A /\ daily'[l][d] = row BY <2>5, <1>4, <1>7
    <3> HIDE DEF A, row
    <3> QED BY <3>1, <2>1
  <2> QED BY <2>4, <2>5
<1> QED BY <1>6, <1>8 DEF RowsCount

(* Only a count changes the rows.                                          *)
LEMMA SameCounts ==
    ASSUME RowsCount, daily' = daily, Grows,
           \A c \in Clicks : fate'[c] = "counted" => fate[c] = "counted"
    PROVE  RowsCount'
<1>1. ASSUME NEW l, NEW d PROVE OnDay(l, d)' = OnDay(l, d)
  BY DEF Grows, OnDay, AllOf
<1>2. ASSUME NEW l, NEW d, NEW c \in OnDay(l, d) PROVE visit'[c] = visit[c]
  BY DEF Grows, OnDay, AllOf
<1>3. ASSUME NEW l \in Links, NEW d \in Days
      PROVE  /\ daily'[l][d].count = Cardinality(OnDay(l, d)')
             /\ \A e \in OnDay(l, d)' : visit'[e].at <= daily'[l][d].last
             /\ OnDay(l, d)' # {} => \E e \in OnDay(l, d)' : visit'[e].at = daily'[l][d].last
  <2>1. /\ daily[l][d].count = Cardinality(OnDay(l, d))
        /\ \A e \in OnDay(l, d) : visit[e].at <= daily[l][d].last
        /\ OnDay(l, d) # {} => \E e \in OnDay(l, d) : visit[e].at = daily[l][d].last
    BY DEF RowsCount
  <2> QED BY <2>1, <1>1, <1>2
<1> QED BY <1>3 DEF RowsCount

(* Every step of the recorder's ledger keeps the rows equal to the         *)
(* counted clicks, and loses no counted click.                             *)
LEMMA LedgerKeeps ==
    ASSUME TypesOK, RowsCount, LedgerNext, UNCHANGED <<now, readerVars>>
    PROVE  TypesOK' /\ RowsCount' /\ Grows
<1> DEFINE Fates == {"none", "taken", "counted", "missed"}
           Ledger == /\ fate' \in [Clicks -> Fates] /\ DOMAIN visit' = Clicks
                     /\ \A c \in Clicks : fate'[c] # "none" => visit'[c] \in Visit
                     /\ daily' \in [Links -> [Days -> DayRow]]
<1>1. SUFFICES Ledger /\ RowsCount' /\ Grows
  BY DEF TypesOK, readerVars
<1>2. /\ fate \in [Clicks -> Fates] /\ DOMAIN visit = Clicks
      /\ \A c \in Clicks : fate[c] # "none" => visit[c] \in Visit
      /\ daily \in [Links -> [Days -> DayRow]]
  BY DEF TypesOK
<1>3. ASSUME NEW c \in Clicks, Take(c) PROVE Ledger /\ RowsCount' /\ Grows
  <2>1. PICK v \in Visit : visit' = [visit EXCEPT ![c] = v] BY <1>3 DEF Take
  <2>2. fate[c] = "none" /\ fate' = [fate EXCEPT ![c] = "taken"] /\ daily' = daily
    BY <1>3 DEF Take
  <2>3. Ledger BY <1>2, <2>1, <2>2
  <2>4. Grows BY <1>2, <2>1, <2>2 DEF Grows
  <2>5. \A e \in Clicks : fate'[e] = "counted" => fate[e] = "counted" BY <1>2, <2>2
  <2> QED BY <2>2, <2>3, <2>4, <2>5, SameCounts
<1>4. ASSUME NEW c \in Clicks, Count(c) PROVE Ledger /\ RowsCount' /\ Grows
  <2>1. /\ fate[c] = "taken" /\ fate' = [fate EXCEPT ![c] = "counted"]
        /\ daily' = Recorded(daily, visit[c]) /\ visit' = visit
    BY <1>4 DEF Count
  <2>2. /\ fate' \in [Clicks -> Fates] /\ fate'[c] = "counted"
        /\ \A e \in Clicks \ {c} : fate'[e] = fate[e]
    BY <1>2, <2>1
  <2>3. daily' \in [Links -> [Days -> DayRow]] /\ RowsCount'
    BY <2>1, <2>2, UpsertCounts
  <2>4. Grows BY <2>1, <2>2 DEF Grows
  <2>5. \A e \in Clicks : fate'[e] # "none" => visit'[e] \in Visit
    BY <1>2, <2>1, <2>2
  <2> QED BY <1>2, <2>1, <2>2, <2>3, <2>4, <2>5
<1>5. ASSUME NEW S \in SUBSET Clicks, Miss(S) PROVE Ledger /\ RowsCount' /\ Grows
  <2>1. /\ \A c \in S : fate[c] = "taken"
        /\ fate' = [c \in Clicks |-> IF c \in S THEN "missed" ELSE fate[c]]
        /\ visit' = visit /\ daily' = daily
    BY <1>5 DEF Miss
  <2>2. Ledger BY <1>2, <2>1
  <2>3. Grows BY <2>1 DEF Grows
  <2>4. \A c \in Clicks : fate'[c] = "counted" => fate[c] = "counted" BY <2>1
  <2> QED BY <2>1, <2>2, <2>3, <2>4, SameCounts
<1>6. ASSUME NEW c \in Clicks, NEW S \in SUBSET Clicks, CountLast(c, S)
      PROVE  Ledger /\ RowsCount' /\ Grows
  <2>1. /\ fate[c] = "taken" /\ c \notin S /\ \A d \in S : fate[d] = "taken"
        /\ fate' = [d \in Clicks |-> IF d = c THEN "counted"
                                     ELSE IF d \in S THEN "missed" ELSE fate[d]]
        /\ daily' = Recorded(daily, visit[c]) /\ visit' = visit
    BY <1>6 DEF CountLast
  <2>2. /\ fate' \in [Clicks -> Fates] /\ fate'[c] = "counted"
        /\ \A e \in Clicks \ {c} : fate'[e] = "counted" <=> fate[e] = "counted"
        /\ \A e \in Clicks : fate'[e] # "none" => fate[e] # "none"
    BY <1>2, <2>1
  <2>3. daily' \in [Links -> [Days -> DayRow]] /\ RowsCount'
    BY <2>1, <2>2, UpsertCounts
  <2>4. Grows BY <2>1, <2>2 DEF Grows
  <2>5. \A e \in Clicks : fate'[e] # "none" => visit'[e] \in Visit
    BY <1>2, <2>1, <2>2
  <2> QED BY <1>2, <2>1, <2>2, <2>3, <2>4, <2>5
<1> QED BY <1>3, <1>4, <1>5, <1>6 DEF LedgerNext

(* A visit is written once, when its click is taken.                       *)
LEMMA VisitsStay ==
    ASSUME TypesOK, LedgerNext, NEW e \in Clicks, fate'[e] # "none"
    PROVE  \/ fate[e] = "none" /\ fate'[e] = "taken"
           \/ fate[e] # "none" /\ visit'[e] = visit[e]
<1>1. /\ fate \in [Clicks -> {"none", "taken", "counted", "missed"}]
      /\ DOMAIN visit = Clicks
  BY DEF TypesOK
<1>2. ASSUME NEW c \in Clicks, Take(c)
      PROVE  \/ fate[e] = "none" /\ fate'[e] = "taken"
             \/ fate[e] # "none" /\ visit'[e] = visit[e]
  BY <1>1, <1>2 DEF Take
<1>3. ASSUME NEW c \in Clicks, Count(c) PROVE fate[e] # "none" /\ visit'[e] = visit[e]
  BY <1>1, <1>3 DEF Count
<1>4. ASSUME NEW S \in SUBSET Clicks, Miss(S)
      PROVE  fate[e] # "none" /\ visit'[e] = visit[e]
  BY <1>1, <1>4 DEF Miss
<1>5. ASSUME NEW c \in Clicks, NEW S \in SUBSET Clicks, CountLast(c, S)
      PROVE  fate[e] # "none" /\ visit'[e] = visit[e]
  BY <1>1, <1>5 DEF CountLast
<1> QED BY <1>2, <1>3, <1>4, <1>5 DEF LedgerNext

(***************************************************************************)
(* Figures already read                                                    *)
(***************************************************************************)
(* The counted clicks of a link after the step.                            *)
AllNext(l) == {c \in Clicks : fate'[c] = "counted" /\ visit'[c].link = l}
WithinNext(l, from, to) == {c \in AllNext(l) : from <= visit'[c].at /\ visit'[c].at < to}

(* While clicks are only added, nothing counted before is lost.            *)
LEMMA Growth ==
    ASSUME Grows, NEW l
    PROVE  /\ Cardinality(AllOf(l)) \in Nat /\ Cardinality(AllNext(l)) \in Nat
           /\ Cardinality(AllOf(l)) <= Cardinality(AllNext(l))
           /\ \A t : WasClick(l, t) => t = 0 \/ \E c \in AllNext(l) : visit'[c].at = t
           /\ \A from, to :
                /\ Counted(l, from, to) \in Nat
                /\ Cardinality(WithinNext(l, from, to)) \in Nat
                /\ Counted(l, from, to) <= Cardinality(WithinNext(l, from, to))
<1>1. IsFiniteSet(Clicks) BY SpansAssumption
<1>2. AllNext(l) \in SUBSET Clicks BY DEF AllNext
<1>3. \A c \in AllOf(l) : c \in AllNext(l) /\ visit'[c] = visit[c]
  BY DEF AllOf, AllNext, Grows
<1>4. IsFiniteSet(AllNext(l)) BY <1>1, <1>2, FS_Subset
<1>5. AllOf(l) \in SUBSET AllNext(l) BY <1>3
<1>6. Cardinality(AllOf(l)) <= Cardinality(AllNext(l)) BY <1>4, <1>5, FS_Subset
<1>7. \A t : WasClick(l, t) => t = 0 \/ \E c \in AllNext(l) : visit'[c].at = t
  BY <1>3 DEF WasClick
<1>8. ASSUME NEW from, NEW to
      PROVE  /\ Counted(l, from, to) \in Nat
             /\ Cardinality(WithinNext(l, from, to)) \in Nat
             /\ Counted(l, from, to) <= Cardinality(WithinNext(l, from, to))
  <2>1. WithinNext(l, from, to) \in SUBSET AllNext(l) BY DEF WithinNext
  <2>2. IsFiniteSet(WithinNext(l, from, to)) BY <2>1, <1>4, FS_Subset
  <2>3. Within(l, from, to) \in SUBSET WithinNext(l, from, to)
    BY <1>3 DEF Within, WithinNext
  <2>4. Cardinality(Within(l, from, to)) <= Cardinality(WithinNext(l, from, to))
    BY <2>2, <2>3, FS_Subset
  <2> QED BY <2>2, <2>4, CountedIs, FS_CardinalityType
<1> QED BY <1>4, <1>6, <1>7, <1>8, ClicksFinite, FS_CardinalityType

(* A card's figures keep holding while its reader does not move.           *)
Rests(r) == /\ pc'[r] = pc[r] /\ ask'[r] = ask[r] /\ at'[r] = at[r]
            /\ total'[r] = total[r] /\ week'[r] = week[r] /\ asof'[r] = asof[r]

(* What a card's figures satisfy survives the recorder, and other          *)
(* readers, as all the bounds only loosen as clicks are counted.           *)
LEMMA FiguresKept ==
    ASSUME TypesOK, Grows, NEW r \in Readers, FiguresHold(r), Rests(r)
    PROVE  FiguresHold(r)'
<1> DEFINE l == ask[r]
           w == WeekStart(r)
           before == Stats(asof[r], l)
<1>1. /\ Cardinality(AllOf(l)) \in Nat /\ Cardinality(AllNext(l)) \in Nat
      /\ Cardinality(AllOf(l)) <= Cardinality(AllNext(l))
      /\ \A t : WasClick(l, t) => t = 0 \/ \E c \in AllNext(l) : visit'[c].at = t
      /\ \A from, to : /\ Counted(l, from, to) \in Nat
                       /\ Cardinality(WithinNext(l, from, to)) \in Nat
                       /\ Counted(l, from, to) <= Cardinality(WithinNext(l, from, to))
  BY Growth
<1>2. /\ Stats(asof[r], ask[r])' = before /\ WeekStart(r)' = w
      /\ pc'[r] = pc[r] /\ total'[r] = total[r] /\ week'[r] = week[r]
      /\ total[r].count \in Nat /\ week[r] \in Nat
  BY DEF Rests, TypesOK, WeekStart, Today
<1>3. /\ AllOf(ask[r])' = AllNext(l)
      /\ \A t : WasClick(ask[r], t)' <=> t = 0 \/ \E c \in AllNext(l) : visit'[c].at = t
  BY DEF Rests, AllOf, AllNext, WasClick
<1>4. ASSUME NEW from, NEW to
      PROVE  WithinNext(l, from, to)
               = {c \in Clicks : /\ fate'[c] = "counted" /\ visit'[c].link = ask'[r]
                                 /\ from <= visit'[c].at /\ visit'[c].at < to}
  BY DEF Rests, WithinNext, AllNext
<1>5. /\ Counted(ask[r], 0, WeekStart(r))' = Cardinality(WithinNext(l, 0, w))
      /\ Counted(ask[r], WeekStart(r), MaxNow + 1)'
           = Cardinality(WithinNext(l, w, MaxNow + 1))
  <2> DEFINE Seen(from, to) ==
               {c \in Clicks : /\ fate'[c] = "counted" /\ visit'[c].link = ask'[r]
                               /\ from <= visit'[c].at /\ visit'[c].at < to}
  <2>1. /\ Counted(ask[r], 0, WeekStart(r))' = Cardinality(Seen(0, WeekStart(r)'))
        /\ Counted(ask[r], WeekStart(r), MaxNow + 1)'
             = Cardinality(Seen(WeekStart(r)', MaxNow + 1))
    BY DEF Counted
  <2>2. \A from, to : Seen(from, to) = WithinNext(l, from, to) BY <1>4
  <2>3. WeekStart(r)' = w BY <1>2
  <2> HIDE DEF Seen, w, l
  <2> QED BY <2>1, <2>2, <2>3
<1>6. CASE pc[r] = "total"
  <2>1. /\ before.count \in Nat /\ before.count <= Cardinality(AllOf(l))
        /\ before.last \in Nat /\ WasClick(l, before.last)
    BY <1>6 DEF FiguresHold
  <2>2. before.count <= Cardinality(AllNext(l)) BY <2>1, <1>1
  <2>3. WasClick(ask[r], before.last)' BY <2>1, <1>1, <1>2, <1>3
  <2> QED BY <2>1, <2>2, <2>3, <1>2, <1>3, <1>6 DEF FiguresHold
<1>7. CASE pc[r] = "week"
  <2>1. /\ before.count <= total[r].count /\ total[r].count <= Cardinality(AllOf(l))
        /\ before.last <= total[r].last /\ WasClick(l, total[r].last)
    BY <1>7 DEF FiguresHold
  <2>2. total[r].count <= Cardinality(AllNext(l)) BY <2>1, <1>1, <1>2
  <2>3. WasClick(ask[r], total[r].last)' BY <2>1, <1>1, <1>2, <1>3
  <2> QED BY <2>1, <2>2, <2>3, <1>2, <1>3, <1>7 DEF FiguresHold
<1>8. CASE pc[r] = "series"
  <2>1. /\ before.count <= total[r].count /\ total[r].count <= Cardinality(AllOf(l))
        /\ before.last <= total[r].last /\ WasClick(l, total[r].last)
        /\ total[r].count <= Counted(l, 0, w) + week[r]
        /\ week[r] <= Counted(l, w, MaxNow + 1)
    BY <1>8 DEF FiguresHold
  <2>2. total[r].count <= Cardinality(AllNext(l)) BY <2>1, <1>1, <1>2
  <2>3. WasClick(ask[r], total[r].last)' BY <2>1, <1>1, <1>2, <1>3
  <2>4. total[r].count <= Cardinality(WithinNext(l, 0, w)) + week[r]
    BY <2>1, <1>1, <1>2
  <2>5. week[r] <= Cardinality(WithinNext(l, w, MaxNow + 1)) BY <2>1, <1>1, <1>2
  <2> QED BY <2>1, <2>2, <2>3, <2>4, <2>5, <1>2, <1>3, <1>5, <1>8 DEF FiguresHold
<1>9. CASE pc[r] \notin {"total", "week", "series"}
  BY <1>2, <1>9 DEF FiguresHold
<1> QED BY <1>6, <1>7, <1>8, <1>9

(***************************************************************************)
(* Steps of a reader                                                       *)
(***************************************************************************)
WeekCounted(r) == Counted(ask[r], WeekStart(r), MaxNow + 1)
OlderCounted(r) == Counted(ask[r], 0, WeekStart(r))

(* A card's week and series start on days, and its bars are the days that  *)
(* end today.                                                              *)
LEMMA DaysOfCard ==
    ASSUME TypesOK, NEW r \in Readers
    PROVE  /\ ask[r] \in Links
           /\ WeekStart(r) \in Int /\ IsDay(WeekStart(r))
           /\ SeriesStart(r) \in Int /\ IsDay(SeriesStart(r))
           /\ \A i \in 1 .. SeriesDays :
                 SeriesStart(r) + (i - 1) * MillisPerDay
                   = Today(r) - (SeriesDays - i) * MillisPerDay
<1>1. /\ WeekDays \in Nat /\ SeriesDays \in Nat /\ MillisPerDay \in Nat
      /\ Times \subseteq Nat
  BY SpansAssumption DEF Times
<1>2. ask[r] \in Links /\ at[r] \in Nat BY <1>1 DEF TypesOK
<1>3. Today(r) \in Int /\ IsDay(Today(r)) BY <1>2, DayStartFacts DEF Today
<1>4. \A k \in Int : Today(r) + (-k) * MillisPerDay = Today(r) - k * MillisPerDay
  BY <1>1, <1>3
<1>5. \A k \in Int : Today(r) - k * MillisPerDay \in Int
                     /\ IsDay(Today(r) - k * MillisPerDay)
  <2> TAKE k \in Int
  <2>1. -k \in Int OBVIOUS
  <2>2. Today(r) + (-k) * MillisPerDay \in Int /\ IsDay(Today(r) + (-k) * MillisPerDay)
    BY <2>1, <1>3, DayShifts
  <2> QED BY <2>2, <1>4
<1>6. WeekDays - 1 \in Int /\ SeriesDays - 1 \in Int BY <1>1
<1>7. ASSUME NEW i \in 1 .. SeriesDays
      PROVE  SeriesStart(r) + (i - 1) * MillisPerDay
               = Today(r) - (SeriesDays - i) * MillisPerDay
  <2>1. i \in Int OBVIOUS
  <2>2. (SeriesDays - i) * MillisPerDay
          = (SeriesDays - 1) * MillisPerDay - (i - 1) * MillisPerDay
    BY <2>1, <1>1
  <2> QED BY <2>1, <2>2, <1>1, <1>3 DEF SeriesStart
<1> QED BY <1>2, <1>5, <1>6, <1>7 DEF WeekStart, SeriesStart

(* What a reader's own step leaves of the clicks and of its question.      *)
Reads(r) == /\ UNCHANGED ledgerVars
            /\ ask'[r] = ask[r]

(* A statement that is read changes no click.                              *)
LEMMA ClicksStay ==
    ASSUME NEW r, Reads(r)
    PROVE  /\ AllOf(ask[r])' = AllOf(ask[r])
           /\ \A t : WasClick(ask[r], t)' <=> WasClick(ask[r], t)
           /\ at'[r] = at[r] =>
                WeekCounted(r)' = WeekCounted(r) /\ OlderCounted(r)' = OlderCounted(r)
  BY DEF Reads, ledgerVars, AllOf, WasClick, WeekCounted, OlderCounted, Counted,
         WeekStart, Today

(* When a handler begins, the rows as of now are those of all counted      *)
(* clicks.                                                                 *)
LEMMA BeginHolds ==
    ASSUME TypesOK, RowsCount, NEW r \in Readers, Begin(r)
    PROVE  FiguresHold(r)'
<1> DEFINE s == Stats(daily, ask[r])
<1>1. /\ pc'[r] = "total" /\ asof'[r] = daily /\ Reads(r)
  BY DEF Begin, Goto, TypesOK, Reads
<1>2. /\ s.count = Cardinality(AllOf(ask[r])) /\ s.count \in Nat
      /\ s.last \in Nat /\ WasClick(ask[r], s.last)
  BY StatsCount, DaysOfCard
<1>3. Stats(asof[r], ask[r])' = s BY <1>1 DEF Reads
<1> HIDE DEF s
<1>4. AllOf(ask[r])' = AllOf(ask[r]) BY <1>1, ClicksStay
<1>5. WasClick(ask[r], Stats(asof[r], ask[r]).last)'
  <2>1. WasClick(ask[r], Stats(asof[r], ask[r]).last)'
          <=> s.last = 0 \/ \E c \in AllOf(ask[r]) : visit[c].at = s.last
    BY <1>1, <1>3, <1>4 DEF WasClick, Reads, ledgerVars
  <2> QED BY <2>1, <1>2 DEF WasClick
<1>6. s.count <= Cardinality(AllOf(ask[r])) BY <1>2
<1> QED BY <1>1, <1>2, <1>3, <1>4, <1>5, <1>6 DEF FiguresHold

(* The first statement reads every counted click, so at least those as of  *)
(* the handler's start.                                                    *)
LEMMA ReadTotalHolds ==
    ASSUME TypesOK, RowsCount, NEW r \in Readers, FiguresHold(r), ReadTotal(r)
    PROVE  FiguresHold(r)' /\ total' \in [Readers -> [count : Nat, last : Nat]]
<1> DEFINE s == Stats(daily, ask[r])
           before == Stats(asof[r], ask[r])
<1>1. /\ pc[r] = "total" /\ pc'[r] = "week" /\ total'[r] = s
      /\ asof' = asof /\ Reads(r)
      /\ total' = [total EXCEPT ![r] = s]
  BY DEF ReadTotal, Goto, TypesOK, Reads
<1>2. /\ s.count = Cardinality(AllOf(ask[r])) /\ s.count \in Nat
      /\ s.last \in Nat /\ WasClick(ask[r], s.last)
      /\ \A c \in AllOf(ask[r]) : visit[c].at <= s.last
      /\ s = [count |-> s.count, last |-> s.last]
  BY StatsCount, DaysOfCard
<1>3. /\ before.count <= Cardinality(AllOf(ask[r]))
      /\ before.last \in Nat /\ WasClick(ask[r], before.last)
  BY <1>1 DEF FiguresHold
<1>4. Stats(asof[r], ask[r])' = before BY <1>1 DEF Reads
<1> HIDE DEF s, before
<1>5. before.last <= s.last BY <1>2, <1>3 DEF WasClick
<1>6. AllOf(ask[r])' = AllOf(ask[r]) BY <1>1, ClicksStay
<1>7. WasClick(ask[r], total[r].last)'
  <2>1. WasClick(ask[r], total[r].last)' <=> total'[r].last = 0
          \/ \E c \in AllOf(ask[r]) : visit[c].at = total'[r].last
    BY <1>1, <1>6 DEF WasClick, Reads, ledgerVars
  <2> QED BY <2>1, <1>1, <1>2 DEF WasClick
<1>8. FiguresHold(r)'
  <2>1. s.count <= Cardinality(AllOf(ask[r])) BY <1>2
  <2>2. before.count <= s.count BY <1>2, <1>3
  <2> QED BY <2>1, <2>2, <1>1, <1>4, <1>5, <1>6, <1>7 DEF FiguresHold
<1>9. s \in [count : Nat, last : Nat] BY <1>2
<1> QED BY <1>1, <1>8, <1>9 DEF TypesOK

(* The second statement reads every click since the week began, so it      *)
(* misses none that the total had and that is not older.                   *)
LEMMA ReadWeekHolds ==
    ASSUME TypesOK, RowsCount, NEW r \in Readers, FiguresHold(r), ReadWeek(r)
    PROVE  FiguresHold(r)' /\ week' \in [Readers -> Nat]
<1> DEFINE wk == ClicksOn(daily, ask[r], DaysOf(daily, ask[r], WeekStart(r)))
           before == Stats(asof[r], ask[r])
<1>1. /\ pc[r] = "week" /\ pc'[r] = "series" /\ week' = [week EXCEPT ![r] = wk]
      /\ asof' = asof /\ Reads(r) /\ total' = total /\ at' = at
  BY DEF ReadWeek, Goto, TypesOK, Reads
<1>2. wk = WeekCounted(r) BY WeekCount, DaysOfCard DEF WeekCounted
<1> HIDE DEF wk
<1>3. WeekCounted(r) \in Nat /\ OlderCounted(r) \in Nat
  BY CountedIs DEF WeekCounted, OlderCounted
<1>4. Cardinality(AllOf(ask[r])) = OlderCounted(r) + WeekCounted(r)
  BY WeekSplits, DaysOfCard DEF WeekCounted, OlderCounted
<1>5. week' \in [Readers -> Nat] /\ week'[r] = WeekCounted(r)
  BY <1>1, <1>2, <1>3 DEF TypesOK
<1>6. /\ before.count <= total[r].count
      /\ total[r].count <= Cardinality(AllOf(ask[r]))
      /\ before.last <= total[r].last /\ WasClick(ask[r], total[r].last)
  BY <1>1 DEF FiguresHold
<1>7. Stats(asof[r], ask[r])' = before BY <1>1 DEF Reads
<1> HIDE DEF before
<1>8. /\ AllOf(ask[r])' = AllOf(ask[r])
      /\ WeekCounted(r)' = WeekCounted(r) /\ OlderCounted(r)' = OlderCounted(r)
  BY <1>1, ClicksStay
<1>9. WasClick(ask[r], total[r].last)' <=> WasClick(ask[r], total[r].last)
  BY <1>1, <1>8 DEF WasClick, Reads, ledgerVars
<1>10. /\ total[r].count <= OlderCounted(r) + WeekCounted(r)
       /\ WeekCounted(r) <= WeekCounted(r)
  <2>1. total[r].count \in Nat BY DEF TypesOK
  <2> HIDE DEF WeekCounted, OlderCounted
  <2> QED BY <2>1, <1>3, <1>4, <1>6
<1>11. /\ pc'[r] = "series" /\ total'[r] = total[r]
       /\ Counted(ask[r], 0, WeekStart(r))' = OlderCounted(r)
       /\ Counted(ask[r], WeekStart(r), MaxNow + 1)' = WeekCounted(r)
  BY <1>1, <1>8 DEF WeekCounted, OlderCounted
<1> QED BY <1>5, <1>6, <1>7, <1>8, <1>9, <1>10, <1>11 DEF FiguresHold

(***************************************************************************)
(* The invariant                                                           *)
(***************************************************************************)
(* Without clicks there are no rows and no cards.                          *)
LEMMA InitCard == Init => CardIInv
<1> SUFFICES ASSUME Init PROVE CardIInv OBVIOUS
<1>1. /\ visit = [c \in Clicks |-> NoVisit] /\ fate = [c \in Clicks |-> "none"]
      /\ daily = [l \in Links |-> [d \in Days |-> [count |-> 0, last |-> 0]]]
      /\ now = 0 /\ pc = [r \in Readers |-> "idle"]
  BY DEF Init, LedgerInit
<1>2. MaxNow \in Nat /\ 0 \in Times BY SpansAssumption DEF Times
<1>3. TypesOK BY <1>1, <1>2 DEF Init, TypesOK, DayRow
<1>4. RowsCount
  <2>1. \A l, d : OnDay(l, d) = {} BY <1>1 DEF OnDay, AllOf
  <2>2. \A l \in Links, d \in Days : daily[l][d].count = 0 BY <1>1
  <2> QED BY <2>1, <2>2, FS_EmptySet DEF RowsCount
<1>5. \A r \in Readers : FiguresHold(r) BY <1>1 DEF FiguresHold
<1>6. ClicksPast BY <1>1 DEF ClicksPast
<1> QED BY <1>3, <1>4, <1>5, <1>6 DEF CardIInv

(* A reader's step leaves the clicks, and every other card, as they are.   *)
LEMMA OthersRest ==
    ASSUME CardIInv, UNCHANGED <<ledgerVars, now>>,
           NEW r \in Readers, \A q \in Readers \ {r} : Rests(q)
    PROVE  RowsCount' /\ ClicksPast' /\ \A q \in Readers \ {r} : FiguresHold(q)'
<1>1. TypesOK /\ RowsCount /\ ClicksPast /\ \A q \in Readers : FiguresHold(q)
  BY DEF CardIInv
<1>2. Grows BY DEF Grows, ledgerVars
<1>3. RowsCount' BY <1>1, <1>2, SameCounts DEF ledgerVars
<1>4. ASSUME NEW q \in Readers \ {r} PROVE FiguresHold(q)' BY <1>1, <1>2, FiguresKept
<1>5. ClicksPast' BY <1>1 DEF ClicksPast, ledgerVars
<1> QED BY <1>3, <1>4, <1>5

(* Every step of a reader, of the recorder and of the clock keeps the      *)
(* invariant.                                                              *)
LEMMA StepCard == CardIInv /\ [Next]_vars => CardIInv'
<1> SUFFICES ASSUME CardIInv, [Next]_vars PROVE CardIInv' OBVIOUS
<1>1. TypesOK /\ RowsCount /\ ClicksPast /\ \A r \in Readers : FiguresHold(r)
  BY DEF CardIInv
<1>2. ASSUME NEW r \in Readers, Begin(r) PROVE CardIInv'
  <2>1. /\ UNCHANGED <<ledgerVars, now>> /\ \A q \in Readers \ {r} : Rests(q)
    BY <1>1, <1>2 DEF Begin, Goto, Rests, TypesOK
  <2>2. TypesOK' BY <1>1, <1>2 DEF Begin, Goto, TypesOK, ledgerVars
  <2>3. FiguresHold(r)' BY <1>1, <1>2, BeginHolds
  <2> QED BY <1>1, <2>1, <2>2, <2>3, OthersRest DEF CardIInv
<1>3. ASSUME NEW r \in Readers, ReadTotal(r) PROVE CardIInv'
  <2>1. /\ UNCHANGED <<ledgerVars, now>> /\ \A q \in Readers \ {r} : Rests(q)
    BY <1>1, <1>3 DEF ReadTotal, Goto, Rests, TypesOK
  <2>2. FiguresHold(r)' /\ total' \in [Readers -> [count : Nat, last : Nat]]
    BY <1>1, <1>3, ReadTotalHolds
  <2>3. TypesOK' BY <1>1, <1>3, <2>2 DEF ReadTotal, Goto, TypesOK, ledgerVars
  <2> QED BY <1>1, <2>1, <2>2, <2>3, OthersRest DEF CardIInv
<1>4. ASSUME NEW r \in Readers, ReadWeek(r) PROVE CardIInv'
  <2>1. /\ UNCHANGED <<ledgerVars, now>> /\ \A q \in Readers \ {r} : Rests(q)
    BY <1>1, <1>4 DEF ReadWeek, Goto, Rests, TypesOK
  <2>2. FiguresHold(r)' /\ week' \in [Readers -> Nat]
    BY <1>1, <1>4, ReadWeekHolds
  <2>3. TypesOK' BY <1>1, <1>4, <2>2 DEF ReadWeek, Goto, TypesOK, ledgerVars
  <2> QED BY <1>1, <2>1, <2>2, <2>3, OthersRest DEF CardIInv
<1>5. ASSUME NEW r \in Readers, ReadSeries(r) PROVE CardIInv'
  <2>1. /\ UNCHANGED <<ledgerVars, now>> /\ \A q \in Readers \ {r} : Rests(q)
    BY <1>1, <1>5 DEF ReadSeries, Goto, Rests, TypesOK
  <2>2. TypesOK' BY <1>1, <1>5 DEF ReadSeries, Goto, TypesOK, ledgerVars
  <2>3. pc'[r] = "done" BY <1>1, <1>5 DEF ReadSeries, Goto, TypesOK
  <2>4. FiguresHold(r)' BY <2>3 DEF FiguresHold
  <2> QED BY <1>1, <2>1, <2>2, <2>4, OthersRest DEF CardIInv
<1>6. ASSUME NEW r \in Readers, Abandon(r) PROVE CardIInv'
  <2>1. /\ UNCHANGED <<ledgerVars, now>> /\ \A q \in Readers \ {r} : Rests(q)
    BY <1>1, <1>6 DEF Abandon, Goto, Rests, TypesOK
  <2>2. TypesOK' BY <1>1, <1>6 DEF Abandon, Goto, TypesOK, ledgerVars
  <2>3. pc'[r] = "failed" BY <1>1, <1>6 DEF Abandon, Goto, TypesOK
  <2>4. FiguresHold(r)' BY <2>3 DEF FiguresHold
  <2> QED BY <1>1, <2>1, <2>2, <2>4, OthersRest DEF CardIInv
<1>7. ASSUME Clicking PROVE CardIInv'
  <2>1. LedgerNext /\ UNCHANGED <<now, readerVars>> BY <1>7 DEF Clicking
  <2>2. TypesOK' /\ RowsCount' /\ Grows BY <1>1, <2>1, LedgerKeeps
  <2>3. \A r \in Readers : Rests(r) BY <2>1 DEF Rests, readerVars
  <2>4. ASSUME NEW r \in Readers PROVE FiguresHold(r)'
    BY <1>1, <2>2, <2>3, FiguresKept
  <2>5. ASSUME NEW e \in Clicks, fate'[e] # "none" PROVE visit'[e].at <= now'
    <3>1. now' = now /\ now \in Nat
      BY <2>1, <1>1, SpansAssumption DEF TypesOK, Times
    <3>2. CASE fate[e] = "none" /\ fate'[e] = "taken"
      <4>1. visit'[e].at = now BY <1>7, <3>2 DEF Clicking
      <4> QED BY <4>1, <3>1
    <3>3. CASE fate[e] # "none" /\ visit'[e] = visit[e]
      BY <1>1, <3>1, <3>3 DEF ClicksPast
    <3> QED BY <1>1, <2>1, <2>5, <3>2, <3>3, VisitsStay
  <2> QED BY <2>2, <2>4, <2>5 DEF CardIInv, ClicksPast
<1>8. ASSUME UNCHANGED <<ledgerVars, readerVars>>, now' \in Times, now <= now'
      PROVE  CardIInv'
  <2>1. Grows BY <1>8 DEF Grows, ledgerVars
  <2>2. RowsCount' BY <1>1, <1>8, <2>1, SameCounts DEF ledgerVars
  <2>3. TypesOK' BY <1>1, <1>8 DEF TypesOK, ledgerVars, readerVars
  <2>4. \A r \in Readers : Rests(r) BY <1>8 DEF Rests, readerVars
  <2>5. ASSUME NEW r \in Readers PROVE FiguresHold(r)'
    BY <1>1, <2>1, <2>4, FiguresKept
  <2>6. Times \subseteq Nat BY SpansAssumption DEF Times
  <2>7. \A c \in Clicks : fate[c] # "none" => visit[c].at \in Nat /\ visit[c].at <= now
    BY <1>1, <2>6 DEF TypesOK, Visit, ClicksPast
  <2>8. ClicksPast'
    <3>1. now \in Nat /\ now' \in Nat BY <1>1, <1>8, <2>6 DEF TypesOK
    <3> QED BY <1>8, <2>7, <3>1 DEF ClicksPast, ledgerVars
  <2> QED BY <2>2, <2>3, <2>5, <2>8 DEF CardIInv
<1>9. CASE Tick
  <2>1. MaxNow \in Nat /\ now \in Times BY <1>1, SpansAssumption DEF TypesOK
  <2>2. now' \in Times /\ now <= now' BY <1>9, <2>1 DEF Tick, Times
  <2> QED BY <1>8, <1>9, <2>2 DEF Tick
<1>10. CASE UNCHANGED vars
  <2>1. UNCHANGED <<ledgerVars, readerVars>> /\ now' = now
    BY <1>10 DEF vars, ledgerVars, readerVars
  <2>2. now \in Times /\ now <= now BY <1>1, SpansAssumption DEF TypesOK, Times
  <2> QED BY <1>8, <2>1, <2>2
<1> QED BY <1>2, <1>3, <1>4, <1>5, <1>6, <1>7, <1>9, <1>10 DEF Next

(* The rows of the click table are the counted clicks of their days, and   *)
(* what a card has read keeps bounding them, however many more clicks the  *)
(* recorder counts before the card is made (get_link_activity).            *)
THEOREM CardInvariance == Spec => []CardIInv
<1>1. Init => CardIInv BY InitCard
<1>2. CardIInv /\ [Next]_vars => CardIInv' BY StepCard
<1> QED BY <1>1, <1>2, PTL DEF Spec

(***************************************************************************)
(* The properties                                                          *)
(***************************************************************************)
(* Only the last statement completes a card.                               *)
LEMMA Completing ==
    ASSUME CardIInv, [Next]_vars, NEW r \in Readers, Completes(r)
    PROVE  /\ ReadSeries(r) /\ TypesOK /\ RowsCount /\ FiguresHold(r)
<1>1. TypesOK /\ RowsCount /\ FiguresHold(r) BY DEF CardIInv
<1>2. pc[r] = "series" /\ pc'[r] = "done" BY DEF Completes
<1>3. ~UNCHANGED pc BY <1>2
<1>4. PICK q \in Readers :
        Begin(q) \/ ReadTotal(q) \/ ReadWeek(q) \/ ReadSeries(q) \/ Abandon(q)
  BY <1>3 DEF Next, Clicking, Tick, readerVars, vars
<1>5. \E label \in {"total", "week", "series", "failed", "done"} : Goto(q, label)
  BY <1>4 DEF Begin, ReadTotal, ReadWeek, ReadSeries, Abandon
<1>6. q = r BY <1>1, <1>2, <1>5 DEF Goto, TypesOK
<1>7. pc \in [Readers -> {"idle", "total", "week", "series", "done", "failed"}]
  BY <1>1 DEF TypesOK
<1>8. ~(Begin(r) \/ ReadTotal(r) \/ ReadWeek(r) \/ Abandon(r))
  BY <1>2, <1>7 DEF Begin, ReadTotal, ReadWeek, Abandon, Goto
<1> QED BY <1>1, <1>4, <1>6, <1>8

(* For every number of days, links and clicks: the series of a card has    *)
(* one bar for each of the days that end today, and each bar is exactly    *)
(* the clicks counted on its day, whatever rows are missing.               *)
THEOREM SeriesIsExact == Spec => SeriesExact
<1> DEFINE Exact(r) == /\ Len(series'[r]) = SeriesDays
                       /\ \A i \in 1 .. SeriesDays :
                            series'[r][i]
                              = Counted(ask[r],
                                        Today(r) - (SeriesDays - i) * MillisPerDay,
                                        Today(r) - (SeriesDays - i) * MillisPerDay
                                          + MillisPerDay)
           Each == \A r \in Readers : Completes(r) => Exact(r)
<1>1. ASSUME CardIInv, [Next]_vars, NEW r \in Readers, Completes(r) PROVE Exact(r)
  <2>1. ReadSeries(r) /\ TypesOK /\ RowsCount BY <1>1, Completing
  <2>2. series'[r] = ZeroFilled(OrderedRows(daily, ask[r], SeriesStart(r)), SeriesStart(r))
    BY <2>1 DEF ReadSeries, TypesOK
  <2>3. /\ ask[r] \in Links /\ SeriesStart(r) \in Int /\ IsDay(SeriesStart(r))
        /\ \A i \in 1 .. SeriesDays :
              SeriesStart(r) + (i - 1) * MillisPerDay
                = Today(r) - (SeriesDays - i) * MillisPerDay
    BY <2>1, DaysOfCard
  <2>4. series'[r] = [i \in 1 .. SeriesDays |->
                  Counted(ask[r], SeriesStart(r) + (i - 1) * MillisPerDay,
                          SeriesStart(r) + (i - 1) * MillisPerDay + MillisPerDay)]
    BY <2>1, <2>2, <2>3, SeriesCounts
  <2>5. SeriesDays \in Nat BY SpansAssumption
  <2>6. Len(series'[r]) = SeriesDays BY <2>4, <2>5
  <2> QED BY <2>3, <2>4, <2>6
<1>2. CardIInv /\ [Next]_vars => Each BY <1>1
<1>3. Spec => []CardIInv BY CardInvariance
<1>4. Spec => [][Each]_vars BY <1>2, <1>3, PTL DEF Spec
<1>5. Each <=> \A r \in Readers : Completes(r) =>
         /\ Len(series'[r]) = SeriesDays
         /\ \A i \in 1 .. SeriesDays :
               LET day == Today(r) - (SeriesDays - i) * MillisPerDay IN
               series'[r][i] = Counted(ask[r], day, day + MillisPerDay)
  OBVIOUS
<1> QED BY <1>4, <1>5, PTL DEF SeriesExact

(* For every number of links and clicks: though a card's figures are read  *)
(* at different instants, its total and last click lie between those when  *)
(* its handler began and those when the page is made, and a later figure   *)
(* never misses a click that an earlier one counted.                       *)
THEOREM FiguresAreBracketed == Spec => FiguresBracketed
<1> DEFINE Bracketed(r) ==
             /\ Stats(asof[r], ask[r]).count <= total[r].count
             /\ total[r].count <= Stats(daily, ask[r]).count
             /\ Stats(asof[r], ask[r]).last <= total[r].last
             /\ total[r].last <= Stats(daily, ask[r]).last
             /\ total[r].count <= Counted(ask[r], 0, WeekStart(r)) + week[r]
             /\ week[r] <= Counted(ask[r], WeekStart(r), MaxNow + 1)
           Each == \A r \in Readers : Completes(r) => Bracketed(r)
<1>1. ASSUME CardIInv, [Next]_vars, NEW r \in Readers, Completes(r) PROVE Bracketed(r)
  <2> DEFINE s == Stats(daily, ask[r])
  <2>1. TypesOK /\ RowsCount /\ FiguresHold(r) /\ pc[r] = "series" /\ ask[r] \in Links
    BY <1>1, Completing, DaysOfCard DEF Completes
  <2>2. /\ s.count = Cardinality(AllOf(ask[r])) /\ s.count \in Nat /\ s.last \in Nat
        /\ \A c \in AllOf(ask[r]) : visit[c].at <= s.last
    BY <2>1, StatsCount
  <2>3. /\ Stats(asof[r], ask[r]).count <= total[r].count
        /\ total[r].count <= Cardinality(AllOf(ask[r]))
        /\ Stats(asof[r], ask[r]).last <= total[r].last /\ WasClick(ask[r], total[r].last)
        /\ total[r].count <= Counted(ask[r], 0, WeekStart(r)) + week[r]
        /\ week[r] <= Counted(ask[r], WeekStart(r), MaxNow + 1)
    BY <2>1 DEF FiguresHold
  <2> HIDE DEF s
  <2>4. total[r].last <= s.last BY <2>2, <2>3 DEF WasClick
  <2> QED BY <2>2, <2>3, <2>4 DEF s
<1>2. CardIInv /\ [Next]_vars => Each BY <1>1
<1>3. Spec => []CardIInv BY CardInvariance
<1>4. Spec => [][Each]_vars BY <1>2, <1>3, PTL DEF Spec
<1>5. Each <=> \A r \in Readers : Completes(r) =>
         LET l == ask[r]
             before == Stats(asof[r], l)
             after == Stats(daily, l)
         IN  /\ before.count <= total[r].count /\ total[r].count <= after.count
             /\ before.last <= total[r].last /\ total[r].last <= after.last
             /\ total[r].count <= Counted(l, 0, WeekStart(r)) + week[r]
             /\ week[r] <= Counted(l, WeekStart(r), MaxNow + 1)
  OBVIOUS
<1> QED BY <1>4, <1>5, PTL DEF FiguresBracketed

(* A card that is not made across midnight has a week that ends with its   *)
(* today: what WeekEndsToday says of every card fails only when the day    *)
(* changes between the reading of the clock and the last statement.        *)
WeekEndsTodayUnlessMidnight ==
    [][\A r \in Readers : Completes(r) /\ DayStart(now) = Today(r) =>
         week[r] <= Counted(ask[r], WeekStart(r), Today(r) + MillisPerDay)]_vars

(* For every number of links, clicks and readers, that is so.              *)
THEOREM WeeksEndToday == Spec => WeekEndsTodayUnlessMidnight
<1> DEFINE Ends(r) == week[r] <= Counted(ask[r], WeekStart(r), Today(r) + MillisPerDay)
           Each == \A r \in Readers : Completes(r) /\ DayStart(now) = Today(r) => Ends(r)
<1>1. ASSUME CardIInv, [Next]_vars, NEW r \in Readers, Completes(r),
             DayStart(now) = Today(r)
      PROVE  Ends(r)
  <2> DEFINE l == ask[r]
             w == WeekStart(r)
             tomorrow == Today(r) + MillisPerDay
  <2>1. TypesOK /\ FiguresHold(r) /\ pc[r] = "series" /\ ClicksPast
    BY <1>1, Completing DEF Completes, CardIInv
  <2>2. week[r] <= Counted(l, w, MaxNow + 1) /\ week[r] \in Nat
    BY <2>1 DEF FiguresHold, TypesOK
  <2>3. now \in Nat /\ now < tomorrow /\ tomorrow \in Int
    <3>1. now \in Nat BY <2>1, SpansAssumption DEF TypesOK, Times
    <3>2. MillisPerDay \in Nat BY SpansAssumption
    <3> QED BY <3>1, <3>2, <1>1, DayStartFacts
  <2>4. ASSUME NEW c \in AllOf(l) PROVE visit[c].at < tomorrow
    <3>1. visit[c].at \in Nat BY <2>1, ClickTimes
    <3>2. visit[c].at <= now BY <2>1 DEF ClicksPast, AllOf
    <3> QED BY <2>3, <3>1, <3>2
  <2>5. Within(l, w, MaxNow + 1) \in SUBSET Within(l, w, tomorrow)
    BY <2>4 DEF Within
  <2>6. /\ IsFiniteSet(Within(l, w, tomorrow))
        /\ Counted(l, w, tomorrow) = Cardinality(Within(l, w, tomorrow))
        /\ Counted(l, w, tomorrow) \in Nat
        /\ Counted(l, w, MaxNow + 1) = Cardinality(Within(l, w, MaxNow + 1))
        /\ Counted(l, w, MaxNow + 1) \in Nat
    BY CountedIs
  <2>7. Counted(l, w, MaxNow + 1) <= Counted(l, w, tomorrow)
    BY <2>5, <2>6, FS_Subset
  <2> QED BY <2>2, <2>6, <2>7
<1>2. CardIInv /\ [Next]_vars => Each BY <1>1
<1>3. Spec => []CardIInv BY CardInvariance
<1>4. Spec => [][Each]_vars BY <1>2, <1>3, PTL DEF Spec
<1> QED BY <1>4, PTL DEF WeekEndsTodayUnlessMidnight
=============================================================================
