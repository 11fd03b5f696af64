---------------------------- MODULE TimersProofs ----------------------------
(***************************************************************************)
(* The numbers, the structs and the queue of timers agree, and no timer is *)
(* overdue behind one that is not, for any counter and any delays.         *)
(***************************************************************************)
EXTENDS Timers, QueuesProofs

Entry == [timer : Timer, due : Time]

(* How far v is ahead of t, on the shorter way round the counter.          *)
Ahead(t, v) ==
    IF 2 * (v - t) >= Wrap THEN v - t - Wrap
    ELSE IF 2 * (v - t) < -Wrap THEN v - t + Wrap ELSE v - t

(* The queue stands in the order of rank: the next timer has the highest.  *)
Rank(t) == [e \in Entry |-> 0 - Ahead(t, e.due)]

TimerTypes ==
    /\ now \in Time /\ busy \in 0..Late
    /\ own \in [Timer -> Process \cup {NoOwner}] /\ gone \subseteq Process

(* A number stands for one struct, and the next number is free.            *)
NumbersInv ==
    /\ table \in [Slot -> Timer \cup {NoTimer}] /\ num \in 1..Slots
    /\ \A i \in Slot : i >= num => table[i] = NoTimer
    /\ \/ hint = NoNum
       \/ hint \in 0..(num - 1) /\ table[hint] = NoTimer
    /\ live = {table[i] : i \in Slot} \ {NoTimer}
    /\ \A i, j \in Slot : table[i] = table[j] /\ i # j => table[i] = NoTimer

(* Timers are due in their order, within half the range of the counter, and *)
(* late by the ticks that found the kernel busy at most.                   *)
InWindow(t, v, late) == 1 - late <= Ahead(t, v) /\ \E d \in Delay : Ahead(t, v) <= d

QueueOf(q, lv, t, late) ==
    /\ q \in Seq(Entry) /\ Distinct(q) /\ SortedBy(q, Rank(t))
    /\ \A e \in On(q) : e.timer \in lv /\ InWindow(t, e.due, late)
    /\ \A e, f \in On(q) : e.timer = f.timer => e = f

TimersInv == TimerTypes /\ NumbersInv /\ QueueOf(queue, live, now, busy)

-----------------------------------------------------------------------------
(***************************************************************************)
(* The counter.                                                            *)
(***************************************************************************)

LEMMA Bounds ==
    /\ Wrap \in Nat \ {0} /\ Late \in Nat /\ Slots \in Nat
    /\ \A d \in Delay : d \in Nat \ {0} /\ 2 * (d + Late + 1) < Wrap
BY TimerAssumption

LEMMA ModIs ==
    ASSUME NEW n \in Int, -Wrap <= n, n < Wrap + Wrap
    PROVE  n % Wrap = IF n < 0 THEN n + Wrap ELSE IF n < Wrap THEN n ELSE n - Wrap
BY Bounds

LEMMA AheadIs ==
    ASSUME NEW t \in Time, NEW v \in Time
    PROVE  /\ Ahead(t, v) \in Int
           /\ Ahead(t, v) \in {v - t, v - t - Wrap, v - t + Wrap}
           /\ Ahead(t, t) = 0
BY Bounds DEF Ahead, Time

(* The 32 bit subtraction tells which of two times comes first, if they are *)
(* less than half the range of the counter apart.                          *)
LEMMA AfterIs ==
    ASSUME NEW t \in Time, NEW a \in Time, NEW b \in Time,
           2 * (Ahead(t, a) - Ahead(t, b)) + 2 < Wrap, 2 * (Ahead(t, b) - Ahead(t, a)) + 2 < Wrap
    PROVE  After(a, b) <=> Ahead(t, a) >= Ahead(t, b)
<1>1. PICK x, y \in Int : x = Ahead(t, a) /\ y = Ahead(t, b)
  BY AheadIs
<1>2. Wrap \in Nat \ {0} /\ a \in 0..(Wrap - 1) /\ b \in 0..(Wrap - 1) /\ t \in 0..(Wrap - 1)
  BY Bounds DEF Time
<1>3. x \in {a - t, a - t - Wrap, a - t + Wrap} /\ y \in {b - t, b - t - Wrap, b - t + Wrap}
  BY <1>1, AheadIs
<1>4. 2 * (x - y) + 2 < Wrap /\ 2 * (y - x) + 2 < Wrap
  BY <1>1
<1>5. PICK h \in Nat : h = Wrap \div 2
  BY <1>2
<1>6. 2 * h <= Wrap /\ Wrap <= 2 * h + 1
  BY <1>2, <1>5
<1>7. PICK m \in Int : m = a - b
  BY <1>2
<1>8. m \in {x - y, x - y + Wrap, x - y - Wrap} /\ -Wrap <= m /\ m < Wrap + Wrap
  BY <1>2, <1>3, <1>4, <1>7
<1>9. m % Wrap = IF m < 0 THEN m + Wrap ELSE m
  BY <1>2, <1>7, <1>8, ModIs
<1>10. m % Wrap < h <=> x >= y
  BY <1>2, <1>4, <1>6, <1>7, <1>8, <1>9
<1>11. QED BY <1>1, <1>5, <1>7, <1>10 DEF After

LEMMA SetAhead ==
    ASSUME NEW t \in Time, NEW d \in Delay
    PROVE  (t + d) % Wrap \in Time /\ Ahead(t, (t + d) % Wrap) = d
<1>1. Wrap \in Nat \ {0} /\ t \in 0..(Wrap - 1) /\ d \in Nat \ {0} /\ 2 * d + 2 < Wrap
  BY Bounds DEF Time
<1>2. PICK v : v = (t + d) % Wrap
  OBVIOUS
<1>3. v = IF t + d < Wrap THEN t + d ELSE t + d - Wrap
  BY <1>1, <1>2, ModIs
<1>4. v \in Time /\ Ahead(t, v) = d
  BY <1>1, <1>3 DEF Time, Ahead
<1>5. QED BY <1>2, <1>4

LEMMA ClockGoesOn ==
    ASSUME NEW t \in Time
    PROVE  /\ (t + 1) % Wrap \in Time
           /\ \A v \in Time : 2 * (1 - Ahead(t, v)) <= Wrap => Ahead((t + 1) % Wrap, v) = Ahead(t, v) - 1
<1>1. Wrap \in Nat \ {0} /\ t \in 0..(Wrap - 1)
  BY Bounds DEF Time
<1>2. PICK u : u = (t + 1) % Wrap
  OBVIOUS
<1>3. u = IF t + 1 < Wrap THEN t + 1 ELSE 0
  <2>1. CASE t + 1 < Wrap
    BY <1>1, <1>2, <2>1, ModIs
  <2>2. CASE t + 1 = Wrap
    <3>1. -Wrap <= Wrap /\ Wrap < Wrap + Wrap /\ Wrap \in Int
      BY <1>1
    <3>2. QED BY <1>1, <1>2, <2>2, <3>1, ModIs
  <2>3. QED BY <1>1, <2>1, <2>2
<1>4. u \in Time
  BY <1>1, <1>3 DEF Time
<1>5. ASSUME NEW v \in Time, 2 * (1 - Ahead(t, v)) <= Wrap PROVE Ahead(u, v) = Ahead(t, v) - 1
  <2>1. v \in 0..(Wrap - 1)
    BY <1>5 DEF Time
  <2>2. QED BY <1>1, <1>3, <1>5, <2>1 DEF Ahead
<1>6. QED BY <1>2, <1>4, <1>5

LEMMA WindowIs ==
    ASSUME NEW t \in Time, NEW v \in Time, NEW late \in 0..(Late + 1), InWindow(t, v, late)
    PROVE  /\ Ahead(t, v) \in Int /\ 0 - Late <= Ahead(t, v) /\ 2 * (Late + 2) < Wrap
           /\ 2 * (Ahead(t, v) + Late) + 2 < Wrap
<1>1. PICK d \in Delay : Ahead(t, v) <= d
  BY DEF InWindow
<1>2. d \in Nat \ {0} /\ 2 * (d + Late + 1) < Wrap /\ Late \in Nat /\ Wrap \in Nat \ {0}
  BY Bounds
<1>3. Ahead(t, v) \in Int /\ 1 - late <= Ahead(t, v)
  BY AheadIs DEF InWindow
<1>4. QED BY <1>1, <1>2, <1>3

(* Two times in the window are compared as the counter would without end.   *)
LEMMA WindowAfter ==
    ASSUME NEW t \in Time, NEW v \in Time, NEW w \in Time,
           NEW late \in 0..(Late + 1), InWindow(t, v, late), InWindow(t, w, late)
    PROVE  After(v, w) <=> Ahead(t, v) >= Ahead(t, w)
<1>1. PICK x, y \in Int : x = Ahead(t, v) /\ y = Ahead(t, w)
  BY AheadIs
<1>2. /\ 0 - Late <= x /\ 0 - Late <= y /\ 2 * (x + Late) + 2 < Wrap /\ 2 * (y + Late) + 2 < Wrap
  BY <1>1, WindowIs
<1>3. 2 * (x - y) + 2 < Wrap /\ 2 * (y - x) + 2 < Wrap
  BY <1>2, Bounds
<1>4. QED BY <1>1, <1>3, AfterIs

LEMMA NowAfter ==
    ASSUME NEW t \in Time, NEW v \in Time, NEW late \in 0..(Late + 1), InWindow(t, v, late)
    PROVE  After(t, v) <=> Ahead(t, v) <= 0
<1>1. PICK x \in Int : x = Ahead(t, v)
  BY AheadIs
<1>2. 0 - Late <= x /\ 2 * (x + Late) + 2 < Wrap /\ 2 * (Late + 2) < Wrap
  BY <1>1, WindowIs
<1>3. Ahead(t, t) = 0
  BY AheadIs
<1>4. 2 * (0 - x) + 2 < Wrap /\ 2 * (x - 0) + 2 < Wrap
  BY <1>2, Bounds
<1>5. QED BY <1>1, <1>3, <1>4, AfterIs

-----------------------------------------------------------------------------
(***************************************************************************)
(* The queue.                                                              *)
(***************************************************************************)

LEMMA RankIs ==
    ASSUME NEW t \in Time
    PROVE  /\ Rank(t) \in [Entry -> Int]
           /\ \A e \in Entry : e.timer \in Timer /\ e.due \in Time /\ Rank(t)[e] = 0 - Ahead(t, e.due)
<1>1. \A e \in Entry : e.timer \in Timer /\ e.due \in Time
  BY DEF Entry
<1>2. \A e \in Entry : 0 - Ahead(t, e.due) \in Int
  BY <1>1, AheadIs
<1>3. QED BY <1>1, <1>2 DEF Rank

(* A timer that is not armed is set between those due before it and those   *)
(* due after it.                                                           *)
LEMMA InsertsInOrder ==
    ASSUME NEW t \in Time, NEW late \in 0..Late, NEW q, NEW lv, QueueOf(q, lv, t, late),
           NEW x \in Timer, x \in lv, \A e \in On(q) : e.timer # x, NEW d \in Delay
    PROVE  QueueOf(Insert(q, x, (t + d) % Wrap), lv, t, late)
<1>1. PICK v \in Time : v = (t + d) % Wrap /\ Ahead(t, v) = d
  BY SetAhead
<1>2. PICK e \in Entry : e = [timer |-> x, due |-> v] /\ e.timer = x /\ e.due = v
  <2>1. PICK e : e = [timer |-> x, due |-> v]
    OBVIOUS
  <2>2. e \in Entry /\ e.timer = x /\ e.due = v
    BY <1>1, <2>1 DEF Entry
  <2>3. QED BY <2>1, <2>2
<1>3. /\ q \in Seq(Entry) /\ Distinct(q) /\ SortedBy(q, Rank(t)) /\ On(q) \subseteq Entry
      /\ Len(q) \in Nat /\ DOMAIN q = 1..Len(q) /\ \A i \in 1..Len(q) : q[i] \in Entry /\ q[i] \in On(q)
  BY OnMember DEF QueueOf
<1>4. late \in 0..(Late + 1) /\ late \in Nat
  BY Bounds
<1>5. InWindow(t, v, late)
  BY <1>1, <1>4, Bounds DEF InWindow
<1>6. \A i \in 1..Len(q) : After(v, q[i].due) <=> Rank(t)[q[i]] >= Rank(t)[e]
  <2>1. SUFFICES ASSUME NEW i \in 1..Len(q) PROVE After(v, q[i].due) <=> Rank(t)[q[i]] >= Rank(t)[e]
    OBVIOUS
  <2>2. q[i] \in Entry /\ q[i].due \in Time /\ InWindow(t, q[i].due, late)
    BY <1>3, RankIs DEF QueueOf
  <2>3. After(v, q[i].due) <=> Ahead(t, v) >= Ahead(t, q[i].due)
    BY <1>4, <1>5, <2>2, WindowAfter
  <2>4. Ahead(t, v) \in Int /\ Ahead(t, q[i].due) \in Int
    BY <2>2, AheadIs
  <2>5. Rank(t)[q[i]] = 0 - Ahead(t, q[i].due) /\ Rank(t)[e] = 0 - Ahead(t, v)
    BY <1>2, <2>2, RankIs
  <2>6. QED BY <2>3, <2>4, <2>5
<1>7. {i \in DOMAIN q : \A j \in 1..i : After(v, q[j].due)} = {i \in DOMAIN q : Rank(t)[q[i]] >= Rank(t)[e]}
  <2>1. \A i \in 1..Len(q) : Rank(t)[q[i]] \in Int /\ Rank(t)[e] \in Int
    BY <1>3, RankIs
  <2>2. \A i \in 1..Len(q) : \A j \in 1..i : j \in 1..Len(q) /\ Rank(t)[q[j]] >= Rank(t)[q[i]]
    <3>1. SUFFICES ASSUME NEW i \in 1..Len(q), NEW j \in 1..i
                   PROVE  j \in 1..Len(q) /\ Rank(t)[q[j]] >= Rank(t)[q[i]]
      OBVIOUS
    <3>2. j \in 1..Len(q) /\ (j < i \/ j = i)
      BY <1>3
    <3>3. QED BY <1>3, <2>1, <3>2 DEF SortedBy
  <2>3. ASSUME NEW i \in 1..Len(q)
        PROVE  (\A j \in 1..i : After(v, q[j].due)) <=> Rank(t)[q[i]] >= Rank(t)[e]
    <3>1. i \in 1..i
      BY <1>3
    <3>2. ASSUME Rank(t)[q[i]] >= Rank(t)[e], NEW j \in 1..i PROVE After(v, q[j].due)
      <4>1. j \in 1..Len(q) /\ Rank(t)[q[j]] >= Rank(t)[q[i]]
        BY <2>2
      <4>2. Rank(t)[q[j]] >= Rank(t)[e]
        BY <2>1, <3>2, <4>1
      <4>3. QED BY <1>6, <4>1, <4>2
    <3>3. QED BY <1>6, <3>1, <3>2
  <2>4. QED BY <1>3, <2>3
<1>8. Insert(q, x, v) = Enlist(q, Rank(t), e)
  BY <1>2, <1>7 DEF Insert, Enlist
<1>9. e \notin On(q)
  BY <1>2
<1>10. PICK r : r = Enlist(q, Rank(t), e)
  OBVIOUS
<1>11. r \in Seq(Entry) /\ On(r) = On(q) \cup {e} /\ Distinct(r) /\ SortedBy(r, Rank(t))
  <2>1. PICK rank \in [Entry -> Int] : rank = Rank(t)
    BY RankIs
  <2>2. r = Enlist(q, rank, e) /\ SortedBy(q, rank)
    BY <1>3, <1>10, <2>1
  <2>3. QED BY <1>3, <1>9, <2>1, <2>2, EnlistLinks, EnlistSorted
<1>12. \A f \in On(r) : f.timer \in lv /\ InWindow(t, f.due, late)
  BY <1>2, <1>5, <1>11 DEF QueueOf
<1>13. \A f, g \in On(r) : f.timer = g.timer => f = g
  BY <1>2, <1>11 DEF QueueOf
<1>14. QED BY <1>1, <1>8, <1>10, <1>11, <1>12, <1>13 DEF QueueOf

LEMMA DisarmsOne ==
    ASSUME NEW t, NEW late, NEW q, NEW lv, QueueOf(q, lv, t, late), NEW x
    PROVE  QueueOf(Disarm(q, x), lv \ {x}, t, late) /\ \A e \in On(Disarm(q, x)) : e.timer # x
<1>1. CASE \E e \in On(q) : e.timer = x
  <2>1. PICK e : e \in On(q) /\ e.timer = x /\ Disarm(q, x) = Without(q, e)
    BY <1>1 DEF Disarm
  <2>2. q \in Seq(Entry) /\ Distinct(q) /\ SortedBy(q, Rank(t))
    BY DEF QueueOf
  <2>3. PICK r : r = Without(q, e)
    OBVIOUS
  <2>4. r \in Seq(Entry) /\ On(r) = On(q) \ {e} /\ Distinct(r)
    BY <2>1, <2>2, <2>3, WithoutUnlinks
  <2>5. SortedBy(r, Rank(t))
    <3>1. PICK rank : rank = Rank(t)
      OBVIOUS
    <3>2. SortedBy(q, rank)
      BY <2>2, <3>1
    <3>3. SortedBy(Without(q, e), rank)
      BY <2>1, <2>2, <3>2, WithoutSorted
    <3>4. QED BY <2>3, <3>1, <3>3
  <2>6. \A f \in On(r) : f \in On(q) /\ f.timer # x
    BY <2>1, <2>4 DEF QueueOf
  <2>7. QueueOf(r, lv \ {x}, t, late)
    BY <2>4, <2>5, <2>6 DEF QueueOf
  <2>8. QED BY <2>1, <2>3, <2>6, <2>7
<1>2. CASE ~ \E e \in On(q) : e.timer = x
  <2>1. Disarm(q, x) = q /\ \A e \in On(q) : e.timer # x
    BY <1>2 DEF Disarm
  <2>2. QueueOf(q, lv \ {x}, t, late)
    BY <2>1 DEF QueueOf
  <2>3. QED BY <2>1, <2>2
<1>3. QED BY <1>1, <1>2

(* Entries of live structs stay what they are when there are more of them.  *)
LEMMA QueueOfMore ==
    ASSUME NEW t, NEW late, NEW q, NEW lv, NEW lv2, QueueOf(q, lv, t, late), lv \subseteq lv2
    PROVE  QueueOf(q, lv2, t, late)
BY DEF QueueOf

LEMMA ArmKeeps ==
    ASSUME TimersInv, NEW x \in Timer, NEW d \in Delay, Arm(x, d)
    PROVE  QueueOf(queue', live \cup {x}, now, busy)
<1>1. now \in Time /\ busy \in 0..Late /\ QueueOf(queue, live, now, busy)
  BY DEF TimersInv, TimerTypes
<1>2. PICK r : r = Disarm(queue, x)
  OBVIOUS
<1>3. QueueOf(r, live \ {x}, now, busy) /\ \A e \in On(r) : e.timer # x
  BY <1>1, <1>2, DisarmsOne
<1>4. PICK lv : lv = live \cup {x}
  OBVIOUS
<1>5. QueueOf(r, lv, now, busy) /\ x \in lv
  BY <1>3, <1>4 DEF QueueOf
<1>6. QueueOf(Insert(r, x, (now + d) % Wrap), lv, now, busy)
  BY <1>1, <1>3, <1>5, InsertsInOrder
<1>7. QED BY <1>2, <1>4, <1>6 DEF Arm

(* A millisecond later everything is due a millisecond sooner.              *)
LEMMA TimeGoesOn ==
    ASSUME NEW t \in Time, NEW late \in 0..Late, NEW q, NEW lv, QueueOf(q, lv, t, late)
    PROVE  QueueOf(q, lv, (t + 1) % Wrap, late + 1)
<1>1. PICK u \in Time : u = (t + 1) % Wrap
  BY ClockGoesOn
<1>2. /\ q \in Seq(Entry) /\ Distinct(q) /\ SortedBy(q, Rank(t)) /\ On(q) \subseteq Entry
      /\ Len(q) \in Nat /\ DOMAIN q = 1..Len(q) /\ \A i \in 1..Len(q) : q[i] \in Entry /\ q[i] \in On(q)
  BY OnMember DEF QueueOf
<1>3. \A e \in On(q) : /\ e \in Entry /\ e.due \in Time /\ Ahead(t, e.due) \in Int
                       /\ Ahead(u, e.due) = Ahead(t, e.due) - 1
  <2>1. SUFFICES ASSUME NEW e \in On(q)
                 PROVE  /\ e \in Entry /\ e.due \in Time /\ Ahead(t, e.due) \in Int
                        /\ Ahead(u, e.due) = Ahead(t, e.due) - 1
    OBVIOUS
  <2>2. e \in Entry /\ e.due \in Time /\ InWindow(t, e.due, late) /\ late \in 0..(Late + 1)
    BY <1>2, RankIs, Bounds DEF QueueOf
  <2>3. PICK k \in Int : k = Ahead(t, e.due)
    BY <2>2, AheadIs
  <2>4. 0 - Late <= k /\ 2 * (Late + 2) < Wrap
    BY <2>2, <2>3, WindowIs
  <2>5. 2 * (1 - k) <= Wrap
    BY <2>4, Bounds
  <2>6. QED BY <1>1, <2>2, <2>3, <2>5, ClockGoesOn
<1>4. \A e \in On(q) : InWindow(u, e.due, late + 1)
  <2>1. SUFFICES ASSUME NEW e \in On(q) PROVE InWindow(u, e.due, late + 1)
    OBVIOUS
  <2>2. PICK d \in Delay : Ahead(t, e.due) <= d
    BY DEF QueueOf, InWindow
  <2>3. Ahead(u, e.due) <= d
    BY <1>3, <2>2, Bounds
  <2>4. 1 - late <= Ahead(t, e.due)
    BY DEF QueueOf, InWindow
  <2>5. 1 - (late + 1) <= Ahead(u, e.due)
    BY <1>3, <2>4
  <2>6. QED BY <2>3, <2>5 DEF InWindow
<1>5. SortedBy(q, Rank(u))
  <2>1. SUFFICES ASSUME NEW i \in 1..Len(q), NEW j \in 1..Len(q), i < j
                 PROVE  Rank(u)[q[i]] >= Rank(u)[q[j]]
    BY <1>2 DEF SortedBy
  <2>2. Rank(t)[q[i]] >= Rank(t)[q[j]]
    BY <1>2, <2>1 DEF SortedBy
  <2>3. /\ Rank(t)[q[i]] = 0 - Ahead(t, q[i].due) /\ Rank(t)[q[j]] = 0 - Ahead(t, q[j].due)
        /\ Rank(u)[q[i]] = 0 - Ahead(u, q[i].due) /\ Rank(u)[q[j]] = 0 - Ahead(u, q[j].due)
    BY <1>2, RankIs
  <2>4. QED BY <1>2, <1>3, <2>2, <2>3
<1>6. QueueOf(q, lv, u, late + 1)
  BY <1>2, <1>4, <1>5 DEF QueueOf
<1>7. QED BY <1>1, <1>6

(* updTime takes off what is due and leaves what is not.                    *)
LEMMA TakesDue ==
    ASSUME NEW t \in Time, NEW late \in 0..(Late + 1), NEW q, NEW lv, QueueOf(q, lv, t, late)
    PROVE  LET due == {i \in DOMAIN q : \A j \in 1..i : After(t, q[j].due)}
           IN  QueueOf(SubSeq(q, Cardinality(due) + 1, Len(q)), lv, t, 0)
<1> DEFINE due == {i \in DOMAIN q : \A j \in 1..i : After(t, q[j].due)}
<1>1. /\ q \in Seq(Entry) /\ Distinct(q) /\ SortedBy(q, Rank(t)) /\ On(q) \subseteq Entry
      /\ Len(q) \in Nat /\ DOMAIN q = 1..Len(q) /\ \A i \in 1..Len(q) : q[i] \in Entry /\ q[i] \in On(q)
  BY OnMember DEF QueueOf
<1>2. due \in SUBSET (1..Len(q)) /\ \A i \in due : 1..i \subseteq due
  <2>1. due \in SUBSET (1..Len(q))
    BY <1>1
  <2>2. ASSUME NEW i \in due, NEW k \in 1..i PROVE k \in due
    <3>1. k \in 1..Len(q) /\ \A j \in 1..k : j \in 1..i
      BY <1>1, <2>1
    <3>2. QED BY <1>1, <3>1
  <2>3. QED BY <2>1, <2>2
<1>3. /\ \A i \in 1..Len(q) : i \in due <=> \A j \in 1..i : After(t, q[j].due)
  BY <1>1
<1>4. PICK k \in 0..Len(q) : k = Cardinality(due) /\ due = 1..k
  <2> HIDE DEF due
  <2>1. QED BY <1>1, <1>2, FirstOnes
<1> HIDE DEF due
<1>5. PICK r : r = SubSeq(q, k + 1, Len(q))
  OBVIOUS
<1>6. r \in Seq(Entry) /\ On(r) \subseteq {q[i] : i \in (k + 1)..Len(q)} /\ Distinct(r) /\ SortedBy(r, Rank(t))
  BY <1>1, <1>5, RestOfQueue
<1>7. ASSUME NEW i \in (k + 1)..Len(q) PROVE InWindow(t, q[i].due, 0)
  <2>1. i \in 1..Len(q) /\ i \notin due
    <3>1. i \in Int /\ k \in Nat /\ k + 1 <= i /\ i <= Len(q) /\ Len(q) \in Nat
      BY <1>1, <1>4
    <3>2. i \in 1..Len(q) /\ i \notin 1..k
      BY <3>1
    <3>3. QED BY <1>4, <3>2
  <2>2. PICK j \in 1..i : ~ After(t, q[j].due)
    BY <1>3, <2>1
  <2>3. j \in 1..Len(q) /\ (j < i \/ j = i)
    BY <1>1, <2>1
  <2>4. /\ q[i] \in On(q) /\ q[j] \in On(q) /\ q[i] \in Entry /\ q[j] \in Entry
        /\ q[i].due \in Time /\ q[j].due \in Time
    BY <1>1, <2>1, <2>3, RankIs
  <2>5. PICK x, y \in Int : x = Ahead(t, q[i].due) /\ y = Ahead(t, q[j].due)
    BY <2>4, AheadIs
  <2>6. ~ (y <= 0)
    <3>1. InWindow(t, q[j].due, late)
      BY <2>4 DEF QueueOf
    <3>2. QED BY <2>2, <2>4, <2>5, <3>1, NowAfter
  <2>7. Rank(t)[q[j]] >= Rank(t)[q[i]]
    <3>1. CASE j < i
      BY <1>1, <2>1, <2>3, <3>1 DEF SortedBy
    <3>2. CASE j = i
      <4>1. Rank(t)[q[i]] \in Int
        BY <2>4, RankIs
      <4>2. QED BY <3>2, <4>1
    <3>3. QED BY <2>3, <3>1, <3>2
  <2>8. Rank(t)[q[j]] = 0 - y /\ Rank(t)[q[i]] = 0 - x
    BY <2>4, <2>5, RankIs
  <2>9. x >= 1
    BY <2>6, <2>7, <2>8
  <2>10. \E d \in Delay : x <= d
    BY <2>4, <2>5 DEF QueueOf, InWindow
  <2>11. QED BY <2>5, <2>9, <2>10 DEF InWindow
<1>8. \A e \in On(r) : e \in On(q) /\ InWindow(t, e.due, 0)
  <2>1. SUFFICES ASSUME NEW e \in On(r) PROVE e \in On(q) /\ InWindow(t, e.due, 0)
    OBVIOUS
  <2>2. PICK i \in (k + 1)..Len(q) : e = q[i]
    BY <1>6
  <2>3. i \in 1..Len(q)
    BY <1>1
  <2>4. QED BY <1>1, <1>7, <2>2, <2>3
<1>9. QueueOf(r, lv, t, 0)
  BY <1>6, <1>8 DEF QueueOf
<1>10. QED BY <1>4, <1>5, <1>9 DEF due

-----------------------------------------------------------------------------
(***************************************************************************)
(* The numbers.                                                            *)
(***************************************************************************)

LEMMA NumbersAre ==
    ASSUME NumbersInv
    PROVE  /\ live \subseteq Timer /\ NoTimer \notin live
           /\ \A i \in Slot : table[i] # NoTimer => table[i] \in live
           /\ 0..(num - 1) \subseteq Slot /\ num \in Nat /\ Slots \in Nat
BY Bounds DEF NumbersInv, Slot

(* A number given out is that of a free slot of the table.                  *)
LEMMA AllocatesFree ==
    ASSUME NumbersInv, NEW n, NEW size \in 1..Slots, Allocates(n, size)
    PROVE  n \in 0..(size - 1) /\ n \in Slot /\ n # Wild /\ table[n] = NoTimer /\ num <= size
<1> DEFINE empty == {i \in 0..(num - 1) : table[i] = NoTimer}
<1>1. num \in 1..Slots /\ Slots \in Nat
  BY NumbersAre DEF NumbersInv
<1>2. CASE hint # NoNum /\ n = hint /\ size = num
  BY <1>1, <1>2 DEF NumbersInv, Slot, Wild
<1>3. CASE size = num /\ n \in empty
  BY <1>1, <1>3 DEF Slot, Wild
<1>4. CASE 2 * num <= Slots /\ n = num /\ size = 2 * num
  <2>1. n \in Slot /\ n \in 0..(size - 1) /\ n # Wild /\ num <= size
    BY <1>1, <1>4 DEF Slot, Wild
  <2>2. QED BY <1>1, <1>4, <2>1 DEF NumbersInv
<1>5. QED BY <1>2, <1>3, <1>4 DEF Allocates

(* One more number stands for one more struct.                              *)
LEMMA NumberGiven ==
    ASSUME NumbersInv, NEW n \in Slot, NEW size \in 1..Slots, NEW x \in Timer, x \notin live,
           n < size, table[n] = NoTimer, num <= size,
           num' = size, hint' = NoNum, table' = [table EXCEPT ![n] = x], live' = live \cup {x}
    PROVE  NumbersInv'
<1>1. table \in [Slot -> Timer \cup {NoTimer}] /\ x # NoTimer /\ num \in 1..Slots /\ Slots \in Nat
  BY NumbersAre, TimerAssumption DEF NumbersInv
<1>2. table' \in [Slot -> Timer \cup {NoTimer}] /\ table'[n] = x /\ \A i \in Slot \ {n} : table'[i] = table[i]
  BY <1>1
<1>3. \A i \in Slot : i >= num' => table'[i] = NoTimer
  BY <1>1, <1>2 DEF NumbersInv, Slot
<1>4. live' = {table'[i] : i \in Slot} \ {NoTimer}
  BY <1>1, <1>2 DEF NumbersInv
<1>5. \A i, j \in Slot : table'[i] = table'[j] /\ i # j => table'[i] = NoTimer
  BY <1>1, <1>2, NumbersAre DEF NumbersInv
<1>6. QED BY <1>2, <1>3, <1>4, <1>5 DEF NumbersInv

LEMMA NumberBack ==
    ASSUME NumbersInv, NEW n \in Slot, n < num, table[n] # NoTimer,
           live' = live \ {table[n]}, table' = [table EXCEPT ![n] = NoTimer], hint' = n, num' = num
    PROVE  NumbersInv'
<1>1. table \in [Slot -> Timer \cup {NoTimer}] /\ num \in 1..Slots /\ Slots \in Nat
  BY NumbersAre DEF NumbersInv
<1>2. /\ table' \in [Slot -> Timer \cup {NoTimer}] /\ table'[n] = NoTimer
      /\ \A i \in Slot \ {n} : table'[i] = table[i]
  BY <1>1
<1>3. \A i \in Slot : i >= num' => table'[i] = NoTimer
  BY <1>2 DEF NumbersInv
<1>4. live' = {table'[i] : i \in Slot} \ {NoTimer}
  <2>1. \A i \in Slot \ {n} : table[i] # table[n]
    BY DEF NumbersInv
  <2>2. QED BY <1>2, <2>1 DEF NumbersInv
<1>5. \A i, j \in Slot : table'[i] = table'[j] /\ i # j => table'[i] = NoTimer
  BY <1>2 DEF NumbersInv
<1>6. hint' \in 0..(num' - 1) /\ table'[hint'] = NoTimer
  BY <1>1, <1>2 DEF Slot
<1>7. QED BY <1>1, <1>2, <1>3, <1>4, <1>5, <1>6 DEF NumbersInv

-----------------------------------------------------------------------------
(***************************************************************************)
(* The steps.                                                              *)
(***************************************************************************)

LEMMA NewTimerKeeps ==
    ASSUME TimersInv, NEW p \in Process, NEW d \in Delay, NewTimer(p, d)
    PROVE  TimersInv'
<1>1. PICK x \in Timer \ live, n \in Slot \cup {Wild}, size \in 1..Slots :
        /\ Allocates(n, size) /\ num' = size /\ hint' = NoNum
        /\ table' = (IF n = Wild THEN table ELSE [table EXCEPT ![n] = x])
        /\ live' = live \cup {x} /\ own' = [own EXCEPT ![x] = p] /\ Arm(x, d)
  BY DEF NewTimer
<1>2. UNCHANGED <<now, busy, gone>>
  BY DEF NewTimer
<1>3. n \in 0..(size - 1) /\ n \in Slot /\ n # Wild /\ table[n] = NoTimer /\ num <= size
  BY <1>1, AllocatesFree DEF TimersInv
<1>4. n < size
  BY <1>3, Bounds
<1>5. NumbersInv'
  BY <1>1, <1>3, <1>4, NumberGiven DEF TimersInv
<1>6. QueueOf(queue', live \cup {x}, now, busy)
  BY <1>1, ArmKeeps
<1>7. QueueOf(queue, live, now, busy)'
  BY <1>1, <1>2, <1>6
<1>8. TimerTypes'
  BY <1>1, <1>2 DEF TimersInv, TimerTypes
<1>9. QED BY <1>5, <1>7, <1>8 DEF TimersInv

LEMMA NewTimerFailsKeeps ==
    ASSUME TimersInv, NEW p \in Process, NewTimerFails(p)
    PROVE  TimersInv'
<1>1. PICK n \in Slot \cup {Wild}, size \in 1..Slots : Allocates(n, size) /\ num' = size
  BY DEF NewTimerFails
<1>2. hint' = NoNum /\ UNCHANGED <<now, busy, table, live, own, queue, gone>>
  BY DEF NewTimerFails
<1>3. num \in Nat /\ num <= size /\ size \in Nat /\ Slot \subseteq Nat
  BY <1>1, AllocatesFree, NumbersAre, Bounds DEF TimersInv, Slot
<1>4. \A i \in Slot : i >= num' => table'[i] = NoTimer
  BY <1>1, <1>2, <1>3 DEF TimersInv, NumbersInv
<1>5. NumbersInv'
  BY <1>1, <1>2, <1>4 DEF TimersInv, NumbersInv
<1>6. QueueOf(queue, live, now, busy)'
  BY <1>2 DEF TimersInv
<1>7. QED BY <1>2, <1>5, <1>6 DEF TimersInv, TimerTypes

LEMMA RearmKeeps ==
    ASSUME TimersInv, NEW n \in Slot, NEW d \in Delay, Rearm(n, d)
    PROVE  TimersInv'
<1>1. PICK x \in Timer : x = table[n] /\ x \in live /\ Arm(x, d)
  BY NumbersAre DEF Rearm, TimersInv
<1>2. UNCHANGED <<now, busy, table, num, hint, live, own, gone>>
  BY DEF Rearm
<1>3. QueueOf(queue', live \cup {x}, now, busy) /\ live \cup {x} = live
  BY <1>1, ArmKeeps
<1>4. QueueOf(queue, live, now, busy)'
  BY <1>2, <1>3
<1>5. NumbersInv' /\ TimerTypes'
  BY <1>2 DEF TimersInv, NumbersInv, TimerTypes
<1>6. QED BY <1>4, <1>5 DEF TimersInv

LEMMA CancelKeeps ==
    ASSUME TimersInv, NEW n \in Slot, Cancel(n)
    PROVE  TimersInv'
<1>1. PICK x \in Timer : x = table[n] /\ x \in live
  BY NumbersAre DEF Cancel, TimersInv
<1>2. /\ queue' = Disarm(queue, x) /\ live' = live \ {x} /\ own' = [own EXCEPT ![x] = NoOwner]
      /\ UNCHANGED <<now, busy, num, gone>>
  BY <1>1 DEF Cancel
<1>3. NumbersInv'
  BY NumberBack DEF Cancel, TimersInv
<1>4. QueueOf(Disarm(queue, x), live \ {x}, now, busy)
  BY DisarmsOne DEF TimersInv
<1>5. QueueOf(queue, live, now, busy)'
  BY <1>2, <1>4
<1>6. TimerTypes'
  BY <1>2 DEF TimersInv, TimerTypes
<1>7. QED BY <1>3, <1>5, <1>6 DEF TimersInv

LEMMA TickKeeps ==
    ASSUME TimersInv, Tick
    PROVE  TimersInv'
<1>1. /\ now \in Time /\ busy \in 0..Late /\ busy \in Nat /\ Late \in Nat
      /\ QueueOf(queue, live, now, busy)
      /\ now' = (now + 1) % Wrap /\ UNCHANGED <<table, num, hint, live, own, gone>>
  BY Bounds DEF TimersInv, TimerTypes, Tick
<1>2. now' \in Time /\ QueueOf(queue, live, now', busy + 1)
  BY <1>1, ClockGoesOn, TimeGoesOn
<1>3. NumbersInv'
  BY <1>1 DEF TimersInv, NumbersInv
<1>4. CASE busy' = 0 /\ UpdTime
  <2>1. PICK t \in Time : t = now'
    BY <1>2
  <2>2. PICK late \in 0..(Late + 1) : late = busy + 1
    BY <1>1
  <2>3. queue' = SubSeq(queue, Cardinality({i \in DOMAIN queue : \A j \in 1..i : After(t, queue[j].due)}) + 1, Len(queue))
    BY <1>4, <2>1 DEF UpdTime
  <2>4. QueueOf(queue, live, t, late)
    BY <1>2, <2>1, <2>2
  <2>5. QueueOf(queue', live, t, 0)
    BY <2>3, <2>4, TakesDue
  <2>6. QueueOf(queue, live, now, busy)'
    BY <1>1, <1>4, <2>1, <2>5
  <2>7. TimerTypes'
    BY <1>1, <1>2, <1>4 DEF TimersInv, TimerTypes
  <2>8. QED BY <1>3, <2>6, <2>7 DEF TimersInv
<1>5. CASE busy < Late /\ busy' = busy + 1 /\ UNCHANGED queue
  <2>1. QueueOf(queue, live, now, busy)'
    BY <1>1, <1>2, <1>5
  <2>2. TimerTypes'
    BY <1>1, <1>2, <1>5 DEF TimersInv, TimerTypes
  <2>3. QED BY <1>3, <2>1, <2>2 DEF TimersInv
<1>6. QED BY <1>4, <1>5 DEF Tick

(* Who has given its timers back leaves nothing to clrTimers.               *)
LEMMA ExitKeeps ==
    ASSUME TimersInv, Process \subseteq Tidy, NEW p \in Process, Exit(p)
    PROVE  TimersInv'
<1>1. Owned(p) = {} /\ gone' = gone \cup {p} /\ UNCHANGED <<now, busy, table, num, own>>
  BY DEF Exit
<1>2. UNCHANGED <<live, queue, hint>>
  BY <1>1 DEF Exit
<1>3. TimerTypes' /\ NumbersInv' /\ QueueOf(queue, live, now, busy)'
  BY <1>1, <1>2 DEF TimersInv, TimerTypes, NumbersInv
<1>4. QED BY <1>3 DEF TimersInv

LEMMA TimersKeep ==
    ASSUME TimersInv, Process \subseteq Tidy, [Next]_vars
    PROVE  TimersInv'
<1>1. CASE \E p \in Process : Exit(p) \/ NewTimerFails(p) \/ \E d \in Delay : NewTimer(p, d)
  BY <1>1, ExitKeeps, NewTimerFailsKeeps, NewTimerKeeps
<1>2. CASE \E n \in Slot : Cancel(n) \/ \E d \in Delay : Rearm(n, d)
  BY <1>2, CancelKeeps, RearmKeeps
<1>3. CASE Tick
  BY <1>3, TickKeeps
<1>4. CASE UNCHANGED vars
  BY <1>4 DEF vars, TimersInv, TimerTypes, NumbersInv
<1>5. QED BY <1>1, <1>2, <1>3, <1>4 DEF Next

LEMMA InitTimersInv == Init => TimersInv
<1>1. SUFFICES ASSUME Init PROVE TimersInv
  OBVIOUS
<1>2. TimerTypes
  BY <1>1, Bounds DEF Init, TimerTypes, Time
<1>3. NumbersInv
  <2>1. FirstSlots \in 1..Slots /\ Slots \in Nat /\ 0 \in Slot
    BY TimerAssumption DEF Slot
  <2>2. table \in [Slot -> Timer \cup {NoTimer}] /\ \A i \in Slot : table[i] = NoTimer
    BY <1>1 DEF Init
  <2>3. num \in 1..Slots /\ hint \in 0..(num - 1) /\ table[hint] = NoTimer
    BY <1>1, <2>1, <2>2 DEF Init
  <2>4. live = {table[i] : i \in Slot} \ {NoTimer}
    BY <1>1, <2>2 DEF Init
  <2>5. QED BY <2>2, <2>3, <2>4 DEF NumbersInv
<1>4. QueueOf(queue, live, now, busy)
  <2>1. queue = << >> /\ queue \in Seq(Entry) /\ On(queue) = {} /\ Distinct(queue) /\ SortedBy(queue, Rank(now))
    BY <1>1 DEF Init, On, ToSet, Distinct, SortedBy
  <2>2. QED BY <2>1 DEF QueueOf
<1>5. QED BY <1>2, <1>3, <1>4 DEF TimersInv

(* As many timers are armed as the queue is long.                           *)
LEMMA ArmedOnce ==
    ASSUME QueueOf(queue, live, now, busy)
    PROVE  Armed \subseteq live /\ Cardinality(Armed) = Len(queue)
<1>1. /\ queue \in Seq(Entry) /\ Distinct(queue) /\ Len(queue) \in Nat /\ DOMAIN queue = 1..Len(queue)
      /\ \A i \in 1..Len(queue) : queue[i] \in On(queue)
  BY OnMember DEF QueueOf
<1>2. Armed \subseteq live
  BY <1>1 DEF Armed, QueueOf
<1>3. PICK f : f = [i \in 1..Len(queue) |-> queue[i].timer]
  OBVIOUS
<1>4. f \in Surjection(1..Len(queue), Armed)
  BY <1>1, <1>3 DEF Surjection, Armed
<1>5. f \in Injection(1..Len(queue), Armed)
  <2>1. ASSUME NEW i \in 1..Len(queue), NEW j \in 1..Len(queue), f[i] = f[j] PROVE i = j
    <3>1. queue[i].timer = queue[j].timer
      BY <1>3, <2>1
    <3>2. queue[i] = queue[j]
      BY <1>1, <3>1 DEF QueueOf
    <3>3. QED BY <1>1, <3>2 DEF Distinct
  <2>2. QED BY <1>4, <2>1 DEF Injection, IsInjective, Surjection
<1>6. IsFiniteSet(1..Len(queue)) /\ Cardinality(1..Len(queue)) = Len(queue)
  BY <1>1, FS_Interval, SMTT(20)
<1>7. Cardinality(Armed) = Cardinality(1..Len(queue))
  BY <1>4, <1>5, <1>6, FS_Surjection
<1>8. QED BY <1>2, <1>6, <1>7

(* If processes give their timers back before they exit: a number is a      *)
(* struct's and the other way round, only structs that exist are queued,    *)
(* each once, in the order in which they are due, and none for longer than  *)
(* half the range of the counter (TimersInv; setTimer_S and updTime).       *)
THEOREM TimersInvariant == Process \subseteq Tidy => (Spec => []TimersInv)
<1>1. SUFFICES ASSUME Process \subseteq Tidy PROVE Spec => []TimersInv
  OBVIOUS
<1>2. TimersInv /\ [Next]_vars => TimersInv'
  BY <1>1, TimersKeep
<1>3. QED BY <1>2, InitTimersInv, PTL DEF Spec

(* For any range of the counter, delays below half of it, and any number of *)
(* ticks that find the kernel busy: numbers and structs agree and no timer  *)
(* is overdue after a tick that served them, also when the counter has      *)
(* wrapped (mtimez in setTimer_S, updTime).                                 *)
THEOREM TimersAreSound == Process \subseteq Tidy => (Spec => []TimersSound)
<1>1. SUFFICES ASSUME Process \subseteq Tidy PROVE Spec => []TimersSound
  OBVIOUS
<1>2. TimersInv => TimersSound
  <2>1. SUFFICES ASSUME TimersInv PROVE TimersSound
    OBVIOUS
  <2>2. /\ queue \in Seq(Entry) /\ now \in Time /\ QueueOf(queue, live, now, busy)
        /\ Len(queue) \in Nat /\ DOMAIN queue = 1..Len(queue)
        /\ \A i \in 1..Len(queue) : queue[i] \in Entry /\ queue[i] \in On(queue)
    BY <2>1, OnMember DEF TimersInv, TimerTypes, QueueOf
  <2>3. TypeOK
    <3>1. queue \in Seq([timer : live, due : Time])
      <4>1. \A i \in 1..Len(queue) : queue[i] \in [timer : live, due : Time]
        BY <2>2 DEF QueueOf, Entry
      <4>2. PICK n \in Nat : n = Len(queue) /\ queue = [i \in 1..n |-> queue[i]]
        BY <2>2
      <4>3. PICK S : S = [timer : live, due : Time]
        OBVIOUS
      <4>4. \A i \in 1..n : queue[i] \in S
        BY <4>1, <4>2, <4>3
      <4>5. [i \in 1..n |-> queue[i]] \in Seq(S)
        BY <4>4
      <4>6. QED BY <4>2, <4>3, <4>5
    <3>2. table \in [Slot -> Timer \cup {NoTimer}] /\ num \in 1..Slots /\ live \subseteq Timer
      BY <2>1, NumbersAre DEF TimersInv, NumbersInv
    <3>3. hint \in Slot \cup {NoNum, Wild}
      BY <2>1, NumbersAre DEF TimersInv, NumbersInv
    <3>4. QED BY <2>1, <3>1, <3>2, <3>3 DEF TypeOK, TimersInv, TimerTypes
  <2>4. NumbersMatch
    BY <2>1, <2>2, ArmedOnce DEF TimersInv, NumbersInv, NumbersMatch
  <2>5. NoneOverdue
    <3>1. SUFFICES ASSUME busy = 0, NEW i \in DOMAIN queue PROVE ~ After(now, queue[i].due)
      BY DEF NoneOverdue
    <3>2. InWindow(now, queue[i].due, 0) /\ queue[i].due \in Time
      BY <2>2, <3>1, RankIs DEF QueueOf
    <3>3. PICK x \in Int : x = Ahead(now, queue[i].due)
      BY <2>2, <3>2, AheadIs
    <3>4. 0 \in 0..(Late + 1) /\ x >= 1
      BY <3>2, <3>3, Bounds DEF InWindow
    <3>5. QED BY <2>2, <3>2, <3>3, <3>4, NowAfter
  <2>6. QED BY <2>3, <2>4, <2>5 DEF TimersSound
<1>3. QED BY <1>1, <1>2, TimersInvariant, PTL
=============================================================================
