---------------------------- MODULE ServersProofs ----------------------------
(***************************************************************************)
(* What is proved of two servers, the memory manager and the pipe server.   *)
(* The heap stays sound after any history of requests, frees and deaths of *)
(* processes.  The pipe server answers the threads that wait for it and no *)
(* others, and what it answers is true, whatever becomes of the two        *)
(* processes.                                                              *)
(***************************************************************************)
EXTENDS Heap, Pipe, QueuesProofs

-----------------------------------------------------------------------------
(* The memory manager *)

-----------------------------------------------------------------------------
(* Rows of blocks: D are their addresses, S their sizes, P the sizes before. *)
Row(D, S, P, lo, hi) ==
    /\ lo \in D /\ D \subseteq lo .. hi - 1
    /\ S \in [D -> Nat] /\ P \in [D -> Nat] /\ P[lo] = 0
    /\ \A a \in D :
          /\ S[a] > 0 /\ a + S[a] \in D \cup {hi}
          /\ \A x \in D : x > a => x >= a + S[a]
          /\ a # lo => a - P[a] \in D /\ S[a - P[a]] = P[a]

(* Where a block of a row is, and where the others are.                    *)
LEMMA RowBasics ==
    ASSUME NEW lo \in Nat, NEW hi \in Nat, NEW D, NEW S, NEW P, Row(D, S, P, lo, hi), NEW a \in D
    PROVE  /\ a \in Int /\ a >= lo /\ a < hi /\ S[a] \in Nat /\ S[a] > 0 /\ P[a] \in Nat
           /\ a + S[a] <= hi /\ (a + S[a] # hi => a + S[a] \in D)
           /\ \A x \in D : x \in Int /\ (x > a => x >= a + S[a]) /\ (x < a => x + S[x] <= a)
<1>1. a \in lo .. hi - 1 /\ S[a] \in Nat /\ P[a] \in Nat /\ S[a] > 0 /\ a + S[a] \in D \cup {hi}
  BY DEF Row
<1>2. ASSUME NEW x \in D
      PROVE  x \in lo .. hi - 1 /\ (x > a => x >= a + S[a]) /\ (x < a => x + S[x] <= a)
  <2>1. x \in lo .. hi - 1 /\ S[x] \in Nat
    BY DEF Row
  <2>2. x > a => x >= a + S[a]
    BY DEF Row
  <2>3. a > x => a >= x + S[x]
    BY DEF Row
  <2>4. QED BY <1>1, <2>1, <2>2, <2>3
<1>3. a + S[a] <= hi
  <2>1. CASE a + S[a] = hi
    BY <2>1
  <2>2. CASE a + S[a] # hi
    <3>1. a + S[a] \in D
      BY <1>1, <2>2
    <3>2. a + S[a] \in lo .. hi - 1
      BY <1>2, <3>1
    <3>3. QED BY <3>2
  <2>3. QED BY <2>1, <2>2
<1>4. QED BY <1>1, <1>2, <1>3

(* The block behind a knows where a begins.                                *)
LEMMA RowNext ==
    ASSUME NEW lo \in Nat, NEW hi \in Nat, NEW D, NEW S, NEW P, Row(D, S, P, lo, hi), NEW a \in D,
           NEW n \in D, n = a + S[a]
    PROVE  n # lo /\ P[n] = S[a] /\ n - P[n] = a
<1>1. /\ a \in Int /\ a >= lo /\ S[a] \in Nat /\ S[a] > 0 /\ n \in Int
      /\ \A x \in D : x \in Int /\ (x > a => x >= a + S[a]) /\ (x < a => x + S[x] <= a)
  BY RowBasics
<1>2. n # lo
  BY <1>1
<1>3. PICK p \in D : p = n - P[n] /\ S[p] = P[n]
  BY <1>2 DEF Row
<1>4. p \in Int /\ P[n] \in Nat /\ S[p] \in Nat /\ S[p] > 0 /\ p + S[p] = n
  <2>1. p \in Int /\ S[p] \in Nat /\ S[p] > 0
    BY RowBasics
  <2>2. P[n] \in Nat
    BY RowBasics
  <2>3. QED BY <1>1, <1>3, <2>1, <2>2
<1>5. ~ (p < a)
  <2>1. p < a => p + S[p] <= a
    BY <1>1
  <2>2. QED BY <1>1, <1>4, <2>1
<1>6. ~ (p > a)
  <2>1. p > a => p >= n
    BY <1>1
  <2>2. QED BY <1>1, <1>4, <2>1
<1>7. p = a
  BY <1>1, <1>4, <1>5, <1>6
<1>8. QED BY <1>2, <1>3, <1>4, <1>7

(* A block is cut in two.                                                  *)
LEMMA RowCut ==
    ASSUME NEW lo \in Nat, NEW hi \in Nat, NEW D, NEW S, NEW P, Row(D, S, P, lo, hi),
           NEW a \in D, NEW c \in Int, a < c, c < a + S[a],
           NEW E, NEW T, NEW Q, E = D \cup {c}, T \in [E -> Nat], Q \in [E -> Nat],
           T[a] = c - a, T[c] = a + S[a] - c, Q[c] = c - a,
           \A x \in D \ {a} : T[x] = S[x],
           \A x \in D : Q[x] = IF x = a + S[a] THEN a + S[a] - c ELSE P[x]
    PROVE  c \notin D /\ Row(E, T, Q, lo, hi)
<1>1. PICK n \in Int : n = a + S[a] /\ a < c /\ c < n /\ a \in Int /\ S[a] \in Nat
  BY RowBasics
<1>2. /\ a \in Int /\ a >= lo /\ a < hi /\ n <= hi /\ (n # hi => n \in D)
      /\ \A x \in D : x \in Int /\ (x > a => x >= n) /\ (x < a => x + S[x] <= a)
  BY <1>1, RowBasics
<1>3. c \notin D
  BY <1>1, <1>2
<1>4. T[a] = c - a /\ T[c] = n - c /\ Q[c] = c - a /\ \A x \in D : Q[x] = IF x = n THEN n - c ELSE P[x]
  <2>1. ASSUME NEW x \in D PROVE Q[x] = IF x = n THEN n - c ELSE P[x]
    <3>1. Q[x] = IF x = a + S[a] THEN a + S[a] - c ELSE P[x]
      OBVIOUS
    <3>2. QED BY <1>1, <3>1
  <2>2. T[a] = c - a /\ T[c] = n - c /\ Q[c] = c - a
    BY <1>1
  <2>3. QED BY <2>1, <2>2
<1>5. lo \in E /\ E \subseteq lo .. hi - 1
  <2>1. c \in lo .. hi - 1
    BY <1>1, <1>2
  <2>2. QED BY <2>1 DEF Row
<1>6. Q[lo] = 0
  <2>1. lo \in D /\ P[lo] = 0
    BY DEF Row
  <2>2. n # lo
    BY <1>1, <1>2
  <2>3. QED BY <1>4, <2>1, <2>2
<1>7. ASSUME NEW x \in E
      PROVE  /\ T[x] > 0 /\ x + T[x] \in E \cup {hi}
             /\ \A y \in E : y > x => y >= x + T[x]
             /\ x # lo => x - Q[x] \in E /\ T[x - Q[x]] = Q[x]
  <2>1. CASE x = a
    <3>1. T[x] > 0 /\ x + T[x] = c
      BY <1>1, <1>2, <1>4, <2>1
    <3>2. ASSUME NEW y \in E, y > x PROVE y >= x + T[x]
      BY <1>1, <1>2, <2>1, <3>1, <3>2
    <3>3. ASSUME x # lo PROVE x - Q[x] \in E /\ T[x - Q[x]] = Q[x]
      <4>1. x # n /\ Q[x] = P[x]
        BY <1>1, <1>2, <1>4, <2>1
      <4>2. PICK p \in D : p = x - P[x] /\ S[p] = P[x]
        BY <2>1, <3>3 DEF Row
      <4>3. p # a
        <5>1. P[x] \in Nat /\ S[p] > 0 /\ S[p] \in Nat
          BY <2>1, RowBasics
        <5>2. QED BY <1>2, <2>1, <4>2, <5>1
      <4>4. QED BY <4>1, <4>2, <4>3
    <3>4. QED BY <3>1, <3>2, <3>3
  <2>2. CASE x = c
    <3>1. T[x] > 0 /\ x + T[x] = n
      BY <1>1, <1>4, <2>2
    <3>2. ASSUME NEW y \in E, y > x PROVE y >= x + T[x]
      <4>1. y \in D /\ y > a
        BY <1>1, <1>2, <2>2, <3>2
      <4>2. QED BY <1>2, <3>1, <4>1
    <3>3. x - Q[x] = a /\ T[a] = Q[x]
      BY <1>1, <1>2, <1>4, <2>2
    <3>4. n \in E \cup {hi}
      BY <1>2
    <3>5. QED BY <3>1, <3>2, <3>3, <3>4
  <2>3. CASE x \in D /\ x # a
    <3>1. PICK s \in Nat : s = S[x] /\ T[x] = s /\ s > 0
      BY <2>3, RowBasics
    <3>2. x \in Int /\ x + s \in D \cup {hi} /\ x # c
      BY <1>3, <2>3, <3>1 DEF Row
    <3>3. ASSUME NEW y \in E, y > x PROVE y >= x + s
      <4>1. CASE y \in D
        BY <2>3, <3>1, <3>3, <4>1 DEF Row
      <4>2. CASE y = c
        <5>1. CASE x < a
          <6>1. x + S[x] <= a
            BY <1>2, <2>3, <5>1
          <6>2. QED BY <1>1, <1>2, <3>1, <4>2, <6>1
        <5>2. CASE x > a
          <6>1. x >= n
            BY <1>2, <2>3, <5>2
          <6>2. QED BY <1>1, <3>2, <3>3, <4>2, <6>1
        <5>3. QED BY <1>2, <2>3, <3>2, <5>1, <5>2
      <4>3. QED BY <4>1, <4>2
    <3>4. ASSUME x # lo PROVE x - Q[x] \in E /\ T[x - Q[x]] = Q[x]
      <4>1. CASE x = n
        <5>1. Q[x] = n - c /\ x - Q[x] = c
          BY <1>1, <1>4, <2>3, <4>1
        <5>2. QED BY <1>4, <5>1
      <4>2. CASE x # n
        <5>1. Q[x] = P[x]
          BY <1>4, <2>3, <4>2
        <5>2. PICK p \in D : p = x - P[x] /\ S[p] = P[x]
          BY <2>3, <3>4 DEF Row
        <5>3. p # a
          <6>1. P[x] \in Nat
            BY <2>3, RowBasics
          <6>2. QED BY <1>1, <1>2, <3>2, <4>2, <5>2, <6>1
        <5>4. QED BY <5>1, <5>2, <5>3
      <4>3. QED BY <4>1, <4>2
    <3>5. QED BY <3>1, <3>2, <3>3, <3>4
  <2>4. QED BY <2>1, <2>2, <2>3
<1>8. Row(E, T, Q, lo, hi)
  BY <1>5, <1>6, <1>7 DEF Row
<1>9. QED BY <1>3, <1>8

(* The block n becomes part of the block a before it.                      *)
Joined(D, S, P, a, n, E, T, Q) ==
    /\ a \in D /\ n \in D /\ n = a + S[a] /\ E = D \ {n}
    /\ T \in [E -> Nat] /\ Q \in [E -> Nat]
    /\ T[a] = S[a] + S[n] /\ \A x \in E \ {a} : T[x] = S[x]
    /\ \A x \in E : Q[x] = IF x = n + S[n] THEN S[a] + S[n] ELSE P[x]

LEMMA RowJoin ==
    ASSUME NEW lo \in Nat, NEW hi \in Nat, NEW D, NEW S, NEW P, Row(D, S, P, lo, hi),
           NEW a, NEW n, NEW E, NEW T, NEW Q, Joined(D, S, P, a, n, E, T, Q)
    PROVE  Row(E, T, Q, lo, hi)
<1> a \in D /\ n \in D /\ n = a + S[a] /\ E = D \ {n}
  BY DEF Joined
<1> T \in [E -> Nat] /\ Q \in [E -> Nat]
  BY DEF Joined
<1> T[a] = S[a] + S[n] /\ \A x \in E \ {a} : T[x] = S[x]
  BY DEF Joined
<1> \A x \in E : Q[x] = IF x = n + S[n] THEN S[a] + S[n] ELSE P[x]
  BY DEF Joined
<1>1. PICK s \in Nat, t \in Nat : s = S[a] /\ t = S[n] /\ s > 0 /\ t > 0 /\ n = a + s
  BY RowBasics
<1>2. PICK m \in Int : m = n + t /\ m <= hi /\ (m # hi => m \in D)
  BY <1>1, RowBasics
<1>3. /\ a \in Int /\ a >= lo /\ n \in Int /\ n > a /\ a \in E
      /\ \A x \in D : x \in Int /\ (x > a => x >= n) /\ (x < a => x + S[x] <= a)
                      /\ (x > n => x >= m) /\ (x < n => x + S[x] <= n)
  <2>1. a \in Int /\ a >= lo /\ \A x \in D : x \in Int /\ (x > a => x >= n) /\ (x < a => x + S[x] <= a)
    BY RowBasics
  <2>2. n \in Int /\ \A x \in D : (x > n => x >= m) /\ (x < n => x + S[x] <= n)
    BY <1>1, <1>2, RowBasics
  <2>3. QED BY <1>1, <2>1, <2>2
<1>4. T[a] = s + t /\ \A x \in E : Q[x] = IF x = m THEN s + t ELSE P[x]
  BY <1>1, <1>2
<1>5. n # lo /\ lo \in E /\ E \subseteq lo .. hi - 1 /\ P[lo] = 0
  <2>1. n # lo
    BY RowNext
  <2>2. QED BY <2>1 DEF Row
<1>6. Q[lo] = 0
  <2>1. m # lo
    BY <1>1, <1>2, <1>3
  <2>2. QED BY <1>4, <1>5, <2>1
<1>7. ASSUME NEW x \in E
      PROVE  /\ T[x] > 0 /\ x + T[x] \in E \cup {hi}
             /\ \A y \in E : y > x => y >= x + T[x]
             /\ x # lo => x - Q[x] \in E /\ T[x - Q[x]] = Q[x]
  <2>1. x \in D /\ x # n /\ x \in Int
    BY <1>3
  <2>2. x # lo => x - Q[x] \in E /\ T[x - Q[x]] = Q[x]
    <3> SUFFICES ASSUME x # lo PROVE x - Q[x] \in E /\ T[x - Q[x]] = Q[x]
      OBVIOUS
    <3>1. CASE x = m
      <4>1. Q[x] = s + t /\ x - Q[x] = a
        BY <1>1, <1>2, <1>3, <1>4, <3>1
      <4>2. QED BY <1>3, <1>4, <4>1
    <3>2. CASE x # m
      <4>1. Q[x] = P[x] /\ P[x] \in Nat
        BY <1>4, <2>1, <3>2, RowBasics
      <4>2. PICK p \in D : p = x - P[x] /\ S[p] = P[x] /\ p \in Int
        BY <1>3, <2>1 DEF Row
      <4>3. p # n
        BY <1>1, <1>2, <2>1, <3>2, <4>1, <4>2
      <4>4. p # a
        BY <1>1, <2>1, <4>1, <4>2
      <4>5. QED BY <4>1, <4>2, <4>3, <4>4
    <3>3. QED BY <3>1, <3>2
  <2>3. CASE x = a
    <3>1. T[x] > 0 /\ x + T[x] = m
      BY <1>1, <1>2, <1>3, <1>4, <2>3
    <3>2. ASSUME NEW y \in E, y > x PROVE y >= m
      <4>1. y \in D /\ y # n /\ y >= n
        BY <1>3, <2>3, <3>2
      <4>2. QED BY <1>3, <4>1
    <3>3. m \in E \cup {hi}
      BY <1>1, <1>2
    <3>4. QED BY <2>2, <3>1, <3>2, <3>3
  <2>4. CASE x # a
    <3>1. PICK u \in Nat : u = S[x] /\ T[x] = u /\ u > 0
      BY <2>1, <2>4, RowBasics
    <3>2. x + u \in D \cup {hi} /\ \A y \in E : y > x => y >= x + u
      BY <2>1, <3>1 DEF Row
    <3>3. x + u # n
      <4>1. x < a \/ x > a
        BY <1>3, <2>1, <2>4
      <4>2. CASE x < a
        <5>1. x + u <= a
          BY <1>3, <2>1, <3>1, <4>2
        <5>2. QED BY <1>3, <2>1, <5>1
      <4>3. CASE x > a
        <5>1. x >= n
          BY <1>3, <2>1, <4>3
        <5>2. QED BY <1>3, <2>1, <3>1, <5>1
      <4>4. QED BY <4>1, <4>2, <4>3
    <3>4. QED BY <2>2, <3>1, <3>2, <3>3
  <2>5. QED BY <2>3, <2>4
<1>8. QED BY <1>5, <1>6, <1>7 DEF Row

(* A larger block is in the same bin or a later one.                       *)
LEMMA BinGrows ==
    ASSUME NEW s \in Int, NEW t \in Int, s <= t
    PROVE  GetBin(s) \in 0 .. NBins - 1 /\ GetBin(s) <= GetBin(t)
<1> DEFINE B(x) == {k \in 0 .. NBins - 2 : 2^k \in 1 .. x - MinBlock}
<1>1. B(s) \subseteq B(t) /\ B(t) \subseteq 0 .. 30
  <2>1. 1 .. s - MinBlock \subseteq 1 .. t - MinBlock
    <3>1. MinBlock \in Int
      BY HeapAssumption
    <3>2. s - MinBlock \in Int /\ t - MinBlock \in Int /\ s - MinBlock <= t - MinBlock
      BY <3>1
    <3>3. QED BY <3>2
  <2>2. QED BY <2>1 DEF NBins
<1> HIDE DEF B
<1>2. IsFiniteSet(0 .. 30) /\ Cardinality(0 .. 30) = 31
  <2>1. PICK n \in Nat : n = 30
    OBVIOUS
  <2>2. IsFiniteSet(0 .. n) /\ Cardinality(0 .. n) = n + 1
    BY SMTT(20), FS_Interval
  <2>3. QED BY <2>1, <2>2
<1>3. IsFiniteSet(B(t)) /\ Cardinality(B(t)) \in Nat /\ Cardinality(B(t)) <= 31
  BY <1>1, <1>2, FS_Subset, FS_CardinalityType
<1>4. IsFiniteSet(B(s)) /\ Cardinality(B(s)) \in Nat /\ Cardinality(B(s)) <= Cardinality(B(t))
  BY <1>1, <1>3, FS_Subset, FS_CardinalityType
<1>5. GetBin(s) = Cardinality(B(s)) /\ GetBin(t) = Cardinality(B(t))
  BY DEF GetBin, B
<1>6. NBins - 1 = 31
  BY DEF NBins
<1>7. QED BY <1>3, <1>4, <1>5, <1>6

(* Division with a remainder, which is the only one.                       *)
LEMMA Divided ==
    ASSUME NEW m \in Nat \ {0}
    PROVE  \A x \in Nat : \E q \in Nat, r \in 0 .. m - 1 : x = m * q + r
<1> DEFINE T == {x \in Nat : \E q \in Nat, r \in 0 .. m - 1 : x = m * q + r}
<1>1. 0 \in T
  <2>1. 0 = m * 0 + 0 /\ 0 \in 0 .. m - 1
    OBVIOUS
  <2>2. QED BY <2>1
<1>2. ASSUME NEW x \in Nat, x \in T PROVE x + 1 \in T
  <2>1. PICK q \in Nat, r \in 0 .. m - 1 : x = m * q + r
    BY <1>2
  <2>2. PICK p \in Nat : p = m * q
    OBVIOUS
  <2>3. CASE r < m - 1
    <3>1. x + 1 = p + (r + 1) /\ r + 1 \in 0 .. m - 1
      BY <2>1, <2>2, <2>3
    <3>2. QED BY <2>2, <3>1
  <2>4. CASE ~ (r < m - 1)
    <3>1. r = m - 1
      BY <2>4
    <3>2. x + 1 = p + m
      BY <2>1, <2>2, <3>1
    <3>3. m * (q + 1) = m * q + m
      OBVIOUS
    <3>4. PICK s \in Nat, z \in 0 .. m - 1 : s = q + 1 /\ z = 0 /\ x + 1 = m * s + z
      BY <2>2, <3>2, <3>3
    <3>5. PICK y \in Nat : y = x + 1
      OBVIOUS
    <3>6. y = m * s + z
      BY <3>4, <3>5
    <3>7. y \in T
      BY <3>6
    <3>8. QED BY <3>5, <3>7
  <2>5. QED BY <2>3, <2>4
<1> HIDE DEF T
<1>3. Nat \subseteq T
  BY <1>1, <1>2, CountingUp
<1>4. QED BY <1>3 DEF T

LEMMA Remainder ==
    ASSUME NEW m \in Nat \ {0}, NEW x \in Nat, NEW q \in Nat, NEW r \in Nat, r < m, x = m * q + r
    PROVE  x % m = r
OBVIOUS

(* How far it is to the next multiple.                                     *)
LEMMA NextMultiple ==
    ASSUME NEW m \in Nat \ {0}, NEW x \in Nat
    PROVE  /\ x % m \in 0 .. m - 1 /\ (x + (m - (x % m))) % m = 0
           /\ \A y \in Nat : (x % m) + y < m => (x + y) % m = (x % m) + y
<1>1. PICK q \in Nat, r \in 0 .. m - 1 : x = m * q + r
  BY Divided
<1>2. x % m = r
  BY <1>1, Remainder
<1>3. PICK p \in Nat : p = m * q /\ x = p + r
  BY <1>1
<1>4. (x + (m - r)) % m = 0
  <2>1. x + (m - r) = p + m
    BY <1>3
  <2>2. m * (q + 1) = m * q + m
    OBVIOUS
  <2>3. PICK z \in Nat, s \in Nat, o \in Nat : z = x + (m - r) /\ s = q + 1 /\ o = 0 /\ o < m /\ z = m * s + o
    BY <1>3, <2>1, <2>2
  <2>4. z % m = o
    BY <2>3, Remainder
  <2>5. QED BY <2>3, <2>4
<1>5. ASSUME NEW y \in Nat, r + y < m PROVE (x + y) % m = r + y
  <2>1. PICK z \in Nat, s \in Nat : z = x + y /\ s = r + y /\ z = m * q + s /\ s < m
    BY <1>3, <1>5
  <2>2. z % m = s
    BY <2>1, Remainder
  <2>3. QED BY <2>1, <2>2
<1>6. QED BY <1>2, <1>4, <1>5

(* Min of the community modules is the least element.                      *)
LEMMA Least ==
    ASSUME NEW S \in SUBSET Nat, S # {}
    PROVE  Min(S) \in S /\ \A n \in S : Min(S) <= n
<1>1. \E n \in S : \A m \in S : n <= m
  <2> SUFFICES ASSUME \A n \in S : \E m \in S : ~ (n <= m) PROVE FALSE
    OBVIOUS
  <2> DEFINE T == {n \in Nat : \A m \in 0 .. n : m \notin S}
  <2>1. 0 \in T
    <3>1. 0 \notin S
      OBVIOUS
    <3>2. QED BY <3>1
  <2>2. ASSUME NEW n \in Nat, n \in T PROVE n + 1 \in T
    <3>1. n + 1 \notin S
      BY <2>2
    <3>2. QED BY <2>2, <3>1
  <2>3. Nat \subseteq T
    <3> HIDE DEF T
    <3>1. QED BY <2>1, <2>2, CountingUp
  <2>4. PICK n \in Nat : n \in S
    OBVIOUS
  <2>5. n \in T /\ n \in 0 .. n
    BY <2>3
  <2>6. QED BY <2>4, <2>5
<1>2. QED BY <1>1 DEF Min

(* A heap f maps the address of each block to its header.                  *)
Block == [prev : Nat, size : Nat, free : BOOLEAN, own : Process \cup {NoOwner}]

SizeOf(f) == [x \in DOMAIN f |-> f[x].size]
PrevOf(f) == [x \in DOMAIN f |-> f[x].prev]
FreeOf(f) == {x \in DOMAIN f : f[x].free}
UsedOf(f) == {x \in DOMAIN f : ~ f[x].free}

(* The blocks lie side by side and none is too small for the links.        *)
Blocks(f) ==
    /\ f \in [DOMAIN f -> Block] /\ \A x \in DOMAIN f : f[x].size >= MinBlock
    /\ Row(DOMAIN f, SizeOf(f), PrevOf(f), FirstRAM, LastRAM)

(* No free blocks side by side, not counting those of e.                   *)
NoTwoFree(f, e) ==
    \A x, y \in DOMAIN f \ e : f[x].free /\ y = x + f[x].size => ~ f[y].free

(* The blocks of E are in the bins of their sizes.                         *)
Binned(b, E, f) ==
    /\ b \in [0 .. NBins - 1 -> Seq(Addr)]
    /\ \A k \in 0 .. NBins - 1 :
          Distinct(b[k]) /\ On(b[k]) = {x \in E : GetBin(f[x].size) = k}

(* A heap between two messages, and with a block a out of its bin.          *)
Sound(f, b) == Blocks(f) /\ NoTwoFree(f, {}) /\ Binned(b, FreeOf(f), f)
Taken(f, b, a) ==
    Blocks(f) /\ a \in DOMAIN f /\ NoTwoFree(f, {a}) /\ Binned(b, FreeOf(f) \ {a}, f)

(* The assumptions, one by one.                                            *)
LEMMA HeapConstants ==
    /\ Header \in Nat /\ Header > 0 /\ MinBlock \in Nat /\ MinBlock > Header /\ Slack \in Nat
    /\ FirstRAM \in Nat /\ LastRAM \in Nat /\ FirstRAM + MinBlock <= LastRAM /\ Bank \in Nat
    /\ Bank > 0
<1>1. /\ Header \in Nat \ {0} /\ MinBlock \in Nat /\ MinBlock > Header /\ Slack \in Nat
      /\ FirstRAM \in Nat /\ LastRAM \in Nat /\ FirstRAM + MinBlock <= LastRAM
  BY HeapAssumption
<1>2. Bank \in Nat /\ Bank > 0
  BY FirstAssumption
<1>3. QED BY <1>1, <1>2

(* A row again, by the fields of the headers.                              *)
LEMMA BlockFacts ==
    ASSUME NEW f, Blocks(f), NEW a \in DOMAIN f
    PROVE  /\ a \in Addr /\ a \in Int /\ f[a] \in Block
           /\ f[a].size \in Nat /\ f[a].size > 0 /\ f[a].size >= MinBlock /\ f[a].prev \in Nat
           /\ a + f[a].size <= LastRAM /\ (a + f[a].size # LastRAM => a + f[a].size \in DOMAIN f)
           /\ \A x \in DOMAIN f : x \in Int /\ (x > a => x >= a + f[a].size) /\ (x < a => x + f[x].size <= a)
           /\ a # FirstRAM => a - f[a].prev \in DOMAIN f /\ f[a - f[a].prev].size = f[a].prev
           /\ \A n \in DOMAIN f : n = a + f[a].size => n # FirstRAM /\ f[n].prev = f[a].size
           /\ f[FirstRAM].prev = 0 /\ FirstRAM \in DOMAIN f
<1> DEFINE D == DOMAIN f
           S == SizeOf(f)
           P == PrevOf(f)
<1>1. /\ Row(D, S, P, FirstRAM, LastRAM) /\ FirstRAM \in Nat /\ LastRAM \in Nat
      /\ \A x \in D : f[x] \in Block /\ f[x].size >= MinBlock /\ S[x] = f[x].size /\ P[x] = f[x].prev
  <2>1. f \in [D -> Block] /\ \A x \in D : f[x].size >= MinBlock
    BY DEF Blocks
  <2>2. \A x \in D : f[x] \in Block
    BY <2>1
  <2>3. QED BY <2>1, <2>2, HeapConstants DEF Blocks, SizeOf, PrevOf
<1> HIDE DEF S, P
<1>2. /\ a \in Int /\ a >= FirstRAM /\ a < LastRAM /\ S[a] \in Nat /\ S[a] > 0 /\ P[a] \in Nat
      /\ a + S[a] <= LastRAM /\ (a + S[a] # LastRAM => a + S[a] \in D)
      /\ \A x \in D : x \in Int /\ (x > a => x >= a + S[a]) /\ (x < a => x + S[x] <= a)
  BY <1>1, RowBasics
<1>3. /\ FirstRAM \in D /\ P[FirstRAM] = 0
      /\ a # FirstRAM => a - P[a] \in D /\ S[a - P[a]] = P[a]
  BY <1>1 DEF Row
<1>4. ASSUME NEW n \in D, n = a + S[a] PROVE n # FirstRAM /\ P[n] = S[a]
  BY <1>1, <1>4, RowNext
<1>5. a \in Addr
  BY <1>1, <1>2 DEF Addr
<1>6. f[a].prev = P[a] /\ f[a].size = S[a] /\ f[a] \in Block /\ f[a].size >= MinBlock
  BY <1>1
<1>7. a # FirstRAM => a - f[a].prev \in D /\ f[a - f[a].prev].size = f[a].prev
  BY <1>1, <1>3, <1>6
<1>8. \A n \in D : n = a + f[a].size => n # FirstRAM /\ f[n].prev = f[a].size
  BY <1>1, <1>4, <1>6
<1>9. \A x \in D : x \in Int /\ (x > a => x >= a + f[a].size) /\ (x < a => x + f[x].size <= a)
  BY <1>1, <1>2, <1>6
<1>10. f[FirstRAM].prev = 0 /\ FirstRAM \in D
  BY <1>1, <1>3
<1>11. QED BY <1>2, <1>5, <1>6, <1>7, <1>8, <1>9, <1>10

(* PutBlock, block by block.                                               *)
LEMMA PutBlockDomain ==
    ASSUME NEW f, NEW a, NEW b
    PROVE  DOMAIN PutBlock(f, a, b) = DOMAIN f \cup {a}
BY DEF PutBlock

LEMMA PutBlockIs ==
    ASSUME NEW f, f \in [DOMAIN f -> Block], NEW a, NEW b \in Block, NEW g, g = PutBlock(f, a, b)
    PROVE  /\ g \in [DOMAIN g -> Block] /\ g[a] = b
           /\ \A x \in DOMAIN f \ {a} :
                 /\ g[x].size = f[x].size /\ g[x].free = f[x].free /\ g[x].own = f[x].own
                 /\ g[x].prev = IF x = a + b.size THEN b.size ELSE f[x].prev
<1>1. b.size \in Nat
  BY DEF Block
<1>2. g = [x \in DOMAIN f \cup {a} |->
             IF x = a THEN b
             ELSE IF x = a + b.size THEN [f[x] EXCEPT !.prev = b.size] ELSE f[x]]
  BY DEF PutBlock
<1>3. DOMAIN g = DOMAIN f \cup {a} /\ g[a] = b
  BY <1>2
<1>4. ASSUME NEW x \in DOMAIN f \ {a}
      PROVE  /\ g[x] \in Block /\ g[x].size = f[x].size /\ g[x].free = f[x].free /\ g[x].own = f[x].own
             /\ g[x].prev = IF x = a + b.size THEN b.size ELSE f[x].prev
  <2>1. PICK c \in Block, size \in Nat : c = f[x] /\ size = b.size
    BY <1>1
  <2>2. g[x] = IF x = a + size THEN [c EXCEPT !.prev = size] ELSE c
    BY <1>2, <2>1
  <2>3. QED BY <2>1, <2>2 DEF Block
<1>5. g \in [DOMAIN g -> Block]
  BY <1>2, <1>3, <1>4
<1>6. QED BY <1>3, <1>4, <1>5

LEMMA NewBlockIs ==
    ASSUME NEW size \in Nat, NEW prev \in Nat
    PROVE  /\ NewBlock(size, prev) \in Block /\ NewBlock(size, prev).size = size
           /\ NewBlock(size, prev).prev = prev /\ NewBlock(size, prev).free = FALSE
BY DEF NewBlock, Block

(* add2bin, block by block.                                                *)
LEMMA Add2BinIs ==
    ASSUME NEW f, f \in [DOMAIN f -> Block], NEW a \in DOMAIN f, NEW size \in Nat,
           NEW i, i.hdr = f, NEW g, g = Add2Bin(i, a, size).hdr
    PROVE  /\ DOMAIN g = DOMAIN f /\ g \in [DOMAIN g -> Block]
           /\ g[a].size = size /\ g[a].prev = f[a].prev /\ g[a].free
           /\ \A x \in DOMAIN f \ {a} : g[x] = f[x]
<1>1. g = [f EXCEPT ![a].free = TRUE, ![a].size = size]
  BY DEF Add2Bin
<1>2. PICK c \in Block : c = f[a]
  OBVIOUS
<1> DEFINE d == [c EXCEPT !.free = TRUE, !.size = size]
<1>3. d \in Block /\ d.size = size /\ d.prev = c.prev /\ d.free = TRUE
  BY <1>2 DEF Block
<1>4. g = [f EXCEPT ![a] = d]
  BY <1>1, <1>2
<1> HIDE DEF d
<1>5. DOMAIN g = DOMAIN f /\ g[a] = d /\ \A x \in DOMAIN f \ {a} : g[x] = f[x]
  BY <1>4
<1>6. g \in [DOMAIN g -> Block]
  <2>1. \A x \in DOMAIN f : g[x] \in Block
    BY <1>3, <1>5
  <2>2. QED BY <1>4, <1>5, <2>1
<1>7. g[a].size = size /\ g[a].prev = f[a].prev /\ g[a].free
  BY <1>2, <1>3, <1>5
<1>8. QED BY <1>1, <1>5, <1>6, <1>7

(* What is in which bin depends on sizes only.                             *)
LEMMA BinnedSame ==
    ASSUME NEW b, NEW E, NEW f, Binned(b, E, f), NEW g, \A x \in E : g[x].size = f[x].size
    PROVE  Binned(b, E, g)
<1>1. \A k : {x \in E : GetBin(f[x].size) = k} = {x \in E : GetBin(g[x].size) = k}
  OBVIOUS
<1>2. QED BY <1>1 DEF Binned

(* rembin and add2bin.                                                     *)
LEMMA BinnedRemoved ==
    ASSUME NEW b, NEW E \in SUBSET Addr, NEW f, Binned(b, E, f), NEW a \in E, f[a].size \in Int
    PROVE  Binned(RemBin(b, GetBin(f[a].size), a), E \ {a}, f)
<1>1. PICK j \in 0 .. NBins - 1 : j = GetBin(f[a].size)
  BY BinGrows
<1>2. b[j] \in Seq(Addr) /\ Distinct(b[j]) /\ On(b[j]) = {x \in E : GetBin(f[x].size) = j}
  BY DEF Binned
<1>3. a \in On(b[j])
  BY <1>1, <1>2
<1>4. PICK q : q = Without(b[j], a) /\ q \in Seq(Addr) /\ Distinct(q) /\ On(q) = On(b[j]) \ {a}
  BY <1>2, <1>3, WithoutUnlinks
<1>5. PICK c : c = [b EXCEPT ![j] = q] /\ c = RemBin(b, GetBin(f[a].size), a)
  BY <1>1, <1>4 DEF RemBin
<1>6. c \in [0 .. NBins - 1 -> Seq(Addr)]
  BY <1>4, <1>5 DEF Binned
<1>7. ASSUME NEW k \in 0 .. NBins - 1
      PROVE  Distinct(c[k]) /\ On(c[k]) = {x \in E \ {a} : GetBin(f[x].size) = k}
  <2>1. b \in [0 .. NBins - 1 -> Seq(Addr)] /\ Distinct(b[k]) /\ On(b[k]) = {x \in E : GetBin(f[x].size) = k}
    BY DEF Binned
  <2>2. CASE k = j
    <3>1. c[k] = q
      BY <1>5, <2>1, <2>2
    <3>2. On(q) = {x \in E \ {a} : GetBin(f[x].size) = k}
      BY <1>2, <1>4, <2>2
    <3>3. QED BY <1>4, <3>1, <3>2
  <2>3. CASE k # j
    <3>1. c[k] = b[k]
      BY <1>5, <2>1, <2>3
    <3>2. {x \in E : GetBin(f[x].size) = k} = {x \in E \ {a} : GetBin(f[x].size) = k}
      BY <1>1, <2>3
    <3>3. QED BY <2>1, <3>1, <3>2
  <2>4. QED BY <2>2, <2>3
<1>8. QED BY <1>5, <1>6, <1>7 DEF Binned

LEMMA BinnedAdded ==
    ASSUME NEW b, NEW E, NEW f, Binned(b, E, f), NEW a \in Addr, a \notin E, NEW size \in Int, NEW g,
           g[a].size = size, \A x \in E : g[x].size = f[x].size
    PROVE  Binned([b EXCEPT ![GetBin(size)] = <<a>> \o @], E \cup {a}, g)
<1>1. PICK j \in 0 .. NBins - 1 : j = GetBin(size)
  BY BinGrows
<1>2. b \in [0 .. NBins - 1 -> Seq(Addr)] /\ \A k \in 0 .. NBins - 1 :
          Distinct(b[k]) /\ On(b[k]) = {x \in E : GetBin(f[x].size) = k}
  BY DEF Binned
<1>3. b[j] \in Seq(Addr) /\ Distinct(b[j]) /\ a \notin On(b[j])
  BY <1>2
<1>4. PICK q : q = <<a>> \o b[j] /\ q \in Seq(Addr) /\ Distinct(q) /\ On(q) = On(b[j]) \cup {a}
  <2>1. PICK o \in Seq(Addr) : o = b[j] /\ Distinct(o) /\ a \notin On(o)
    BY <1>3
  <2>2. <<a>> \o o \in Seq(Addr) /\ Distinct(<<a>> \o o) /\ On(<<a>> \o o) = On(o) \cup {a}
    BY <2>1, PrependLinks
  <2>3. QED BY <2>1, <2>2
<1>5. PICK c : c = [b EXCEPT ![j] = q] /\ c = [b EXCEPT ![GetBin(size)] = <<a>> \o @]
  BY <1>1, <1>2, <1>4
<1>6. c \in [0 .. NBins - 1 -> Seq(Addr)]
  BY <1>2, <1>4, <1>5
<1>7. ASSUME NEW k \in 0 .. NBins - 1
      PROVE  Distinct(c[k]) /\ On(c[k]) = {x \in E \cup {a} : GetBin(g[x].size) = k}
  <2>1. Distinct(b[k]) /\ On(b[k]) = {x \in E : GetBin(f[x].size) = k}
    BY <1>2
  <2>2. \A x \in E : GetBin(g[x].size) = GetBin(f[x].size)
    OBVIOUS
  <2>3. GetBin(g[a].size) = j
    BY <1>1
  <2>4. CASE k = j
    <3>1. c[k] = q
      BY <1>2, <1>5, <2>4
    <3>2. On(q) = {x \in E \cup {a} : GetBin(g[x].size) = k}
      BY <1>4, <2>1, <2>2, <2>3, <2>4
    <3>3. QED BY <1>4, <3>1, <3>2
  <2>5. CASE k # j
    <3>1. c[k] = b[k]
      BY <1>2, <1>5, <2>5
    <3>2. On(b[k]) = {x \in E \cup {a} : GetBin(g[x].size) = k}
      BY <2>1, <2>2, <2>3, <2>5
    <3>3. QED BY <2>1, <3>1, <3>2
  <2>6. QED BY <2>4, <2>5
<1>8. QED BY <1>5, <1>6, <1>7 DEF Binned

(* The same blocks are in use, not counting those of e, none smaller.      *)
UsedKept(f, g, e) ==
    /\ UsedOf(g) \ e = UsedOf(f) \ e
    /\ \A x \in UsedOf(f) \ e : g[x].size >= f[x].size

LEMMA Fields ==
    ASSUME NEW f, f \in [DOMAIN f -> Block]
    PROVE  /\ SizeOf(f) \in [DOMAIN f -> Nat] /\ PrevOf(f) \in [DOMAIN f -> Nat]
           /\ \A x \in DOMAIN f : /\ f[x] \in Block /\ f[x].size \in Nat /\ f[x].prev \in Nat
                                  /\ f[x].free \in BOOLEAN
                                  /\ SizeOf(f)[x] = f[x].size /\ PrevOf(f)[x] = f[x].prev
<1>1. \A x \in DOMAIN f : f[x] \in Block
  OBVIOUS
<1>2. \A x \in DOMAIN f : f[x].size \in Nat /\ f[x].prev \in Nat /\ f[x].free \in BOOLEAN
  BY <1>1 DEF Block
<1>3. QED BY <1>1, <1>2 DEF SizeOf, PrevOf

LEMMA Resized ==
    ASSUME NEW f, f \in [DOMAIN f -> Block], NEW a \in DOMAIN f, NEW size \in Nat, NEW g,
           g = [f EXCEPT ![a].size = size]
    PROVE  /\ DOMAIN g = DOMAIN f /\ g \in [DOMAIN g -> Block]
           /\ g[a].size = size /\ g[a].prev = f[a].prev /\ g[a].free = f[a].free
           /\ \A x \in DOMAIN f \ {a} : g[x] = f[x]
<1>1. PICK c \in Block : c = f[a]
  OBVIOUS
<1> DEFINE d == [c EXCEPT !.size = size]
<1>2. d \in Block /\ d.size = size /\ d.prev = c.prev /\ d.free = c.free
  BY DEF Block
<1>3. g = [f EXCEPT ![a] = d]
  BY <1>1
<1> HIDE DEF d
<1>4. DOMAIN g = DOMAIN f /\ g[a] = d /\ \A x \in DOMAIN f \ {a} : g[x] = f[x]
  BY <1>3
<1>5. g \in [DOMAIN g -> Block]
  <2>1. \A x \in DOMAIN f : g[x] \in Block
    BY <1>2, <1>4
  <2>2. QED BY <1>3, <1>4, <2>1
<1>6. QED BY <1>1, <1>2, <1>4, <1>5

(* split leaves a block of the size asked for, and a free one behind it.   *)
LEMMA SplitKeeps ==
    ASSUME NEW f, NEW b, NEW a, Taken(f, b, a), NEW size \in Nat, size >= MinBlock, f[a].size >= size,
           \A y \in DOMAIN f : y = a + f[a].size => ~ f[y].free,
           NEW s, s = Split([hdr |-> f, bins |-> b], a, size)
    PROVE  /\ Taken(s.hdr, s.bins, a) /\ s.hdr[a].size >= size
           /\ UsedKept(f, s.hdr, {a})
           /\ \A x \in DOMAIN f : x \in DOMAIN s.hdr
<1>1. Blocks(f) /\ a \in DOMAIN f /\ NoTwoFree(f, {a}) /\ Binned(b, FreeOf(f) \ {a}, f) /\ f \in [DOMAIN f -> Block]
  BY DEF Taken, Blocks
<1>2. PICK n \in Nat : n = f[a].size
  BY <1>1, Fields
<1>3. PICK rest \in Int : rest = n - size /\ rest >= 0
  BY <1>2
<1>4. \A x \in DOMAIN f : f[x].size \in Nat
  BY <1>1, Fields
<1>5. CASE ~ (rest >= MinBlock + Slack)
  <2>1. s = [hdr |-> f, bins |-> b]
    BY <1>2, <1>3, <1>5 DEF Split
  <2>2. s.hdr = f /\ s.bins = b
    BY <2>1
  <2>3. \A x \in DOMAIN f : f[x].size >= f[x].size
    BY <1>4
  <2>4. UsedKept(f, f, {a})
    BY <2>3 DEF UsedKept, UsedOf
  <2>5. QED BY <2>2, <2>4
<1>6. CASE rest >= MinBlock + Slack
  <2>1. PICK c : c = a + size
    OBVIOUS
  <2>2. PICK f1 : f1 = [f EXCEPT ![a].size = size]
    OBVIOUS
  <2>3. /\ DOMAIN f1 = DOMAIN f /\ f1 \in [DOMAIN f1 -> Block]
        /\ f1[a].size = size /\ f1[a].prev = f[a].prev /\ f1[a].free = f[a].free
        /\ \A x \in DOMAIN f \ {a} : f1[x] = f[x]
    BY <1>1, <2>2, Resized
  <2>4. PICK g : g = PutBlock(f1, c, NewBlock(rest, size))
    OBVIOUS
  <2>5. PICK i, h : i = [hdr |-> g, bins |-> b] /\ h = Add2Bin(i, c, rest)
    OBVIOUS
  <2>6. s = h
    <3>1. s = Add2Bin([[hdr |-> f, bins |-> b] EXCEPT !.hdr = g], c, rest)
      BY <1>2, <1>3, <1>6, <2>1, <2>2, <2>4 DEF Split
    <3>2. [[hdr |-> f, bins |-> b] EXCEPT !.hdr = g] = [hdr |-> g, bins |-> b]
      OBVIOUS
    <3>3. QED BY <2>5, <3>1, <3>2
  <2>7. rest \in Nat /\ rest > 0 /\ size > 0 /\ size \in Nat
    BY <1>3, <1>6, HeapConstants
  <2>8. /\ a \in Int /\ a \in Addr /\ a >= FirstRAM /\ a + n <= LastRAM
        /\ \A x \in DOMAIN f : x \in Int /\ (x > a => x >= a + n) /\ (x < a => x + f[x].size <= a)
    BY <1>1, <1>2, BlockFacts DEF Addr
  <2>9. c \in Int /\ a < c /\ c < a + n /\ c = a + size /\ c + rest = a + n
    BY <1>2, <1>3, <2>1, <2>7, <2>8
  <2>10. c \notin DOMAIN f /\ c # a
    BY <2>8, <2>9
  <2>11. /\ DOMAIN g = DOMAIN f \cup {c} /\ g \in [DOMAIN g -> Block]
         /\ g[c].size = rest /\ g[c].prev = size
         /\ \A x \in DOMAIN f \ {c} :
               /\ g[x].size = f1[x].size /\ g[x].free = f1[x].free
               /\ g[x].prev = IF x = c + rest THEN rest ELSE f1[x].prev
    <3>1. PICK z \in Block : /\ z = NewBlock(rest, size) /\ z.size = rest
                             /\ z.prev = size /\ z.free = FALSE
      BY <2>7, NewBlockIs, ZenonT(60)
    <3>2. g = PutBlock(f1, c, z) /\ f1 \in [DOMAIN f1 -> Block]
      BY <2>3, <2>4, <3>1
    <3>3. /\ DOMAIN g = DOMAIN f1 \cup {c} /\ g \in [DOMAIN g -> Block] /\ g[c] = z
          /\ \A x \in DOMAIN f1 \ {c} :
                /\ g[x].size = f1[x].size /\ g[x].free = f1[x].free
                /\ g[x].prev = IF x = c + z.size THEN z.size ELSE f1[x].prev
      <4>1. DOMAIN g = DOMAIN f1 \cup {c}
        BY <3>2, PutBlockDomain
      <4>2. /\ g \in [DOMAIN g -> Block] /\ g[c] = z
            /\ \A x \in DOMAIN f1 \ {c} :
                  /\ g[x].size = f1[x].size /\ g[x].free = f1[x].free
                  /\ g[x].prev = IF x = c + z.size THEN z.size ELSE f1[x].prev
        BY <3>2, PutBlockIs
      <4>3. QED BY <4>1, <4>2
    <3>4. QED BY <2>3, <3>1, <3>3
  <2>12. PICK k : k = h.hdr
    OBVIOUS
  <2>13. /\ DOMAIN k = DOMAIN g /\ k \in [DOMAIN k -> Block]
         /\ k[c].size = rest /\ k[c].prev = g[c].prev /\ k[c].free
         /\ \A x \in DOMAIN g \ {c} : k[x] = g[x]
         /\ h.bins = [b EXCEPT ![GetBin(rest)] = <<c>> \o @]
    <3>1. c \in DOMAIN g
      BY <2>11
    <3>2. g \in [DOMAIN g -> Block]
      BY <2>11
    <3>3. rest \in Nat
      BY <2>7
    <3>4. i.hdr = g /\ i.bins = b
      BY <2>5
    <3>5. k = Add2Bin(i, c, rest).hdr /\ h = Add2Bin(i, c, rest)
      BY <2>5, <2>12
    <3>6. /\ DOMAIN k = DOMAIN g /\ k \in [DOMAIN k -> Block]
          /\ k[c].size = rest /\ k[c].prev = g[c].prev /\ k[c].free
          /\ \A x \in DOMAIN g \ {c} : k[x] = g[x]
      BY ONLY <3>1, <3>2, <3>3, <3>4, <3>5, Add2BinIs, SMTT(40)
    <3>7. h.bins = [b EXCEPT ![GetBin(rest)] = <<c>> \o @]
      BY <2>5 DEF Add2Bin
    <3>8. QED BY <3>6, <3>7
  <2>14. ASSUME NEW x \in DOMAIN f
         PROVE  /\ x \in DOMAIN k /\ x # c /\ k[x].free = f[x].free
                /\ k[x].size = (IF x = a THEN size ELSE f[x].size)
                /\ k[x].prev = (IF x = a + n THEN rest ELSE f[x].prev)
    <3>1. x # c /\ k[x] = g[x]
      BY <2>10, <2>11, <2>13
    <3>2. /\ g[x].size = f1[x].size /\ g[x].free = f1[x].free
          /\ g[x].prev = IF x = a + n THEN rest ELSE f1[x].prev
      BY <2>9, <2>11, <3>1
    <3>3. /\ f1[x].size = (IF x = a THEN size ELSE f[x].size)
          /\ f1[x].free = f[x].free /\ f1[x].prev = f[x].prev
      BY <2>3
    <3>4. QED BY <2>11, <2>13, <3>1, <3>2, <3>3
  <2>15. DOMAIN k = DOMAIN f \cup {c}
    BY <2>11, <2>13
  <2>16. Blocks(k)
    <3>1. PICK D, S, P, E, T, Q : /\ D = DOMAIN f /\ S = SizeOf(f) /\ P = PrevOf(f)
                                  /\ E = DOMAIN k /\ T = SizeOf(k) /\ Q = PrevOf(k)
      OBVIOUS
    <3>2. Row(D, S, P, FirstRAM, LastRAM)
      BY <1>1, <3>1 DEF Blocks
    <3>3. T \in [E -> Nat] /\ Q \in [E -> Nat] /\ \A x \in E : T[x] = k[x].size /\ Q[x] = k[x].prev
      BY <2>13, <3>1, Fields
    <3>4. \A x \in D : S[x] = f[x].size /\ P[x] = f[x].prev
      BY <1>1, <3>1, Fields
    <3>5. a \in D /\ S[a] = n /\ c \in E /\ E = D \cup {c}
      BY <1>1, <1>2, <2>15, <3>1, <3>4
    <3>6. a < c /\ c < a + S[a]
      BY <2>9, <3>5
    <3>7. T[a] = c - a
      <4>1. T[a] = size
        BY <2>14, <3>1, <3>3, <3>5
      <4>2. QED BY <2>8, <2>9, <4>1
    <3>8. T[c] = a + S[a] - c
      <4>1. T[c] = rest
        BY <2>13, <3>3, <3>5
      <4>2. QED BY <2>7, <2>8, <2>9, <3>5, <4>1
    <3>9. Q[c] = c - a
      <4>1. Q[c] = size
        BY <2>11, <2>13, <3>3, <3>5
      <4>2. QED BY <2>8, <2>9, <4>1
    <3>10. \A x \in D \ {a} : T[x] = S[x]
      BY <2>14, <3>1, <3>3, <3>4, <3>5
    <3>11. rest = a + S[a] - c
      BY <2>7, <2>8, <2>9, <3>5
    <3>12. \A x \in D : Q[x] = IF x = a + S[a] THEN a + S[a] - c ELSE P[x]
      BY <2>14, <3>1, <3>3, <3>4, <3>5, <3>11
    <3>13. FirstRAM \in Nat /\ LastRAM \in Nat
      BY HeapConstants
    <3>14. Row(E, T, Q, FirstRAM, LastRAM)
      <4>1. a \in D /\ c \in Int /\ a < c /\ c < a + S[a] /\ E = D \cup {c}
        BY <2>9, <3>5, <3>6
      <4>2. T \in [E -> Nat] /\ Q \in [E -> Nat]
        BY <3>3
      <4>3. QED BY ONLY <3>2, <4>1, <4>2, <3>7, <3>8, <3>9, <3>10, <3>12, <3>13, RowCut
    <3>15. \A x \in DOMAIN k : k[x].size >= MinBlock
      <4>1. \A x \in DOMAIN f : k[x].size >= MinBlock
        BY <1>1, <2>14 DEF Blocks
      <4>2. rest >= MinBlock
        BY <1>6, HeapConstants
      <4>3. QED BY <2>13, <2>15, <4>1, <4>2
    <3>16. QED BY <2>13, <3>1, <3>14, <3>15 DEF Blocks
  <2>17. NoTwoFree(k, {a})
    <3> SUFFICES ASSUME NEW x \in DOMAIN k \ {a}, NEW y \in DOMAIN k \ {a}, k[x].free, y = x + k[x].size
                 PROVE  ~ k[y].free
      BY DEF NoTwoFree
    <3>1. CASE x = c
      <4>1. y = a + n
        BY <2>9, <2>13, <3>1
      <4>2. y \in DOMAIN f
        BY <2>9, <2>15, <2>7, <2>8, <4>1
      <4>3. QED BY <1>2, <2>14, <4>1, <4>2
    <3>2. CASE x # c /\ y = c
      <4>1. x \in DOMAIN f /\ k[x].size = f[x].size /\ f[x].size \in Nat
        BY <1>4, <2>14, <2>15, <3>2
      <4>2. QED BY <2>7, <2>8, <2>9, <3>2, <4>1
    <3>3. CASE x # c /\ y # c
      <4>1. x \in DOMAIN f \ {a} /\ y \in DOMAIN f \ {a} /\ f[x].free /\ y = x + f[x].size
        BY <2>14, <2>15, <3>3
      <4>2. QED BY <1>1, <2>14, <4>1 DEF NoTwoFree
    <3>4. QED BY <3>1, <3>2, <3>3
  <2>18. Binned(h.bins, FreeOf(k) \ {a}, k)
    <3>1. PICK E : E = FreeOf(f) \ {a}
      OBVIOUS
    <3>2. FreeOf(k) \ {a} = E \cup {c}
      BY <2>10, <2>13, <2>14, <2>15, <3>1 DEF FreeOf
    <3>3. c \in Addr /\ c \notin E
      BY <2>8, <2>9, <2>10, <3>1, HeapConstants DEF Addr, FreeOf
    <3>4. \A x \in E : k[x].size = f[x].size
      BY <2>14, <3>1 DEF FreeOf
    <3>5. Binned([b EXCEPT ![GetBin(rest)] = <<c>> \o @], E \cup {c}, k)
      BY <1>1, <1>3, <2>13, <3>1, <3>3, <3>4, BinnedAdded, ZenonT(60)
    <3>6. QED BY <2>13, <3>2, <3>5
  <2>19. UsedKept(f, k, {a})
    <3>1. UsedOf(k) \ {a} = UsedOf(f) \ {a}
      BY <2>13, <2>14, <2>15 DEF UsedOf
    <3>2. \A x \in UsedOf(f) \ {a} : k[x].size >= f[x].size
      BY <1>4, <2>14 DEF UsedOf
    <3>3. QED BY <3>1, <3>2 DEF UsedKept
  <2>20. k[a].size >= size /\ a \in DOMAIN k
    BY <1>1, <2>14
  <2>21. QED BY <2>6, <2>12, <2>14, <2>16, <2>17, <2>18, <2>19, <2>20 DEF Taken
<1>7. QED BY <1>3, <1>5, <1>6, HeapConstants

(* A bin holds free blocks, and every free block is in one.                *)
LEMMA InBin ==
    ASSUME NEW f, NEW b, Sound(f, b)
    PROVE  /\ \A k \in 0 .. NBins - 1 : b[k] \in Seq(Addr) /\ Distinct(b[k])
           /\ \A k \in 0 .. NBins - 1, i \in Nat :
                 i \in DOMAIN b[k] => b[k][i] \in DOMAIN f /\ f[b[k][i]].free
           /\ \A a \in FreeOf(f) : \E i \in DOMAIN b[GetBin(f[a].size)] : b[GetBin(f[a].size)][i] = a
<1>1. \A k \in 0 .. NBins - 1 :
         b[k] \in Seq(Addr) /\ Distinct(b[k]) /\ On(b[k]) = {x \in FreeOf(f) : GetBin(f[x].size) = k}
  BY DEF Sound, Binned
<1>2. ASSUME NEW k \in 0 .. NBins - 1, NEW i \in Nat, i \in DOMAIN b[k]
      PROVE  b[k][i] \in DOMAIN f /\ f[b[k][i]].free
  <2>1. b[k][i] \in On(b[k])
    BY <1>1, <1>2, OnMember
  <2>2. QED BY <1>1, <2>1 DEF FreeOf
<1>3. ASSUME NEW a \in FreeOf(f)
      PROVE  \E i \in DOMAIN b[GetBin(f[a].size)] : b[GetBin(f[a].size)][i] = a
  <2>1. f[a].size \in Int
    BY <1>3, Fields DEF Sound, Blocks, FreeOf
  <2>2. PICK k \in 0 .. NBins - 1 : k = GetBin(f[a].size)
    BY <2>1, BinGrows
  <2>3. a \in On(b[k])
    BY <1>1, <2>2
  <2>4. QED BY <1>1, <2>2, <2>3, OnMember
<1>4. QED BY <1>1, <1>2, <1>3

(* A free block has no free neighbours, so nobody misses it in its bin.    *)
LEMMA TakenFromSound ==
    ASSUME NEW f, NEW b, Sound(f, b), NEW a \in FreeOf(f)
    PROVE  /\ Taken(f, RemBin(b, GetBin(f[a].size), a), a)
           /\ \A y \in DOMAIN f : y = a + f[a].size => ~ f[y].free
           /\ \A y \in DOMAIN f : a = y + f[y].size => ~ f[y].free
<1>1. Blocks(f) /\ NoTwoFree(f, {}) /\ Binned(b, FreeOf(f), f) /\ a \in DOMAIN f /\ f[a].free
  BY DEF Sound, FreeOf
<1>2. f[a].size \in Int
  BY <1>1, BlockFacts
<1>3. FreeOf(f) \in SUBSET Addr
  BY <1>1, BlockFacts DEF FreeOf
<1>4. Binned(RemBin(b, GetBin(f[a].size), a), FreeOf(f) \ {a}, f)
  BY <1>1, <1>2, <1>3, BinnedRemoved
<1>5. NoTwoFree(f, {a})
  BY <1>1 DEF NoTwoFree
<1>6. \A x, y \in DOMAIN f : f[x].free /\ y = x + f[x].size => ~ f[y].free
  BY <1>1 DEF NoTwoFree
<1>7. QED BY <1>1, <1>4, <1>5, <1>6 DEF Taken

(* nospl, block by block.                                                  *)
LEMMA OwnedIs ==
    ASSUME NEW f, f \in [DOMAIN f -> Block], NEW a \in DOMAIN f, NEW p \in Process, NEW g,
           g = Owned(f, a, p)
    PROVE  /\ DOMAIN g = DOMAIN f /\ g \in [DOMAIN g -> Block]
           /\ g[a].size = f[a].size /\ g[a].prev = f[a].prev /\ ~ g[a].free
           /\ \A x \in DOMAIN f \ {a} : g[x] = f[x]
<1>1. PICK c \in Block : c = f[a]
  OBVIOUS
<1> DEFINE d == [c EXCEPT !.free = FALSE, !.own = p]
<1>2. d \in Block /\ d.size = c.size /\ d.prev = c.prev /\ d.free = FALSE
  BY DEF Block
<1>3. g = [f EXCEPT ![a] = d]
  BY <1>1 DEF Owned
<1> HIDE DEF d
<1>4. DOMAIN g = DOMAIN f /\ g[a] = d /\ \A x \in DOMAIN f \ {a} : g[x] = f[x]
  BY <1>3
<1>5. g \in [DOMAIN g -> Block]
  <2>1. \A x \in DOMAIN f : g[x] \in Block
    BY <1>2, <1>4
  <2>2. QED BY <1>3, <1>4, <2>1
<1>6. QED BY <1>1, <1>2, <1>4, <1>5

(* A row with the same sizes.                                              *)
LEMMA RowSame ==
    ASSUME NEW lo, NEW hi, NEW D, NEW S, NEW P, Row(D, S, P, lo, hi),
           NEW T, NEW Q, T \in [D -> Nat], Q \in [D -> Nat], \A x \in D : T[x] = S[x] /\ Q[x] = P[x]
    PROVE  Row(D, T, Q, lo, hi)
<1>1. S \in [D -> Nat] /\ P \in [D -> Nat]
  BY DEF Row
<1>2. T = S
  BY <1>1
<1>3. Q = P
  BY <1>1
<1>4. QED BY <1>2, <1>3

(* nospl: the block is in use, and the heap is as between two messages.     *)
LEMMA GiveKeeps ==
    ASSUME NEW f, NEW b, NEW a, Taken(f, b, a), NEW p \in Process, NEW g, g = Owned(f, a, p)
    PROVE  /\ Sound(g, b) /\ UsedKept(f, g, {a}) /\ a \in UsedOf(g) /\ g[a].size = f[a].size
<1>1. Blocks(f) /\ a \in DOMAIN f /\ NoTwoFree(f, {a}) /\ Binned(b, FreeOf(f) \ {a}, f) /\ f \in [DOMAIN f -> Block]
  BY DEF Taken, Blocks
<1>2. /\ DOMAIN g = DOMAIN f /\ g \in [DOMAIN g -> Block]
      /\ g[a].size = f[a].size /\ g[a].prev = f[a].prev /\ ~ g[a].free
      /\ \A x \in DOMAIN f \ {a} : g[x] = f[x]
  BY <1>1, OwnedIs
<1>3. \A x \in DOMAIN f : g[x].size = f[x].size /\ g[x].prev = f[x].prev /\ f[x].size \in Nat
  BY <1>1, <1>2, Fields
<1>4. Blocks(g)
  <2>1. SizeOf(g) \in [DOMAIN f -> Nat] /\ PrevOf(g) \in [DOMAIN f -> Nat]
    BY <1>2, Fields
  <2>2. \A x \in DOMAIN f : SizeOf(g)[x] = SizeOf(f)[x] /\ PrevOf(g)[x] = PrevOf(f)[x]
    BY <1>2, <1>3 DEF SizeOf, PrevOf
  <2>3. Row(DOMAIN f, SizeOf(f), PrevOf(f), FirstRAM, LastRAM)
    BY <1>1 DEF Blocks
  <2>4. Row(DOMAIN f, SizeOf(g), PrevOf(g), FirstRAM, LastRAM)
    BY <2>1, <2>2, <2>3, RowSame
  <2>5. \A x \in DOMAIN f : g[x].size >= MinBlock
    BY <1>1, <1>3 DEF Blocks
  <2>6. QED BY <1>2, <2>4, <2>5 DEF Blocks
<1>5. NoTwoFree(g, {})
  <2> SUFFICES ASSUME NEW x \in DOMAIN g, NEW y \in DOMAIN g, g[x].free, y = x + g[x].size
               PROVE  ~ g[y].free
    BY DEF NoTwoFree
  <2>1. CASE y = a
    BY <1>2, <2>1
  <2>2. CASE y # a
    <3>1. x \in DOMAIN f \ {a} /\ y \in DOMAIN f \ {a} /\ f[x].free /\ y = x + f[x].size
      BY <1>2, <2>2
    <3>2. QED BY <1>1, <1>2, <3>1 DEF NoTwoFree
  <2>3. QED BY <2>1, <2>2
<1>6. FreeOf(g) = FreeOf(f) \ {a}
  BY <1>2 DEF FreeOf
<1>7. \A x \in FreeOf(g) : g[x].size = f[x].size
  BY <1>2, <1>3 DEF FreeOf
<1>8. Binned(b, FreeOf(g), g)
  BY <1>1, <1>6, <1>7, BinnedSame
<1>9. UsedOf(g) = UsedOf(f) \cup {a}
  BY <1>1, <1>2 DEF UsedOf
<1>10. UsedKept(f, g, {a})
  BY <1>3, <1>9 DEF UsedKept, UsedOf
<1>11. QED BY <1>2, <1>4, <1>5, <1>8, <1>9, <1>10 DEF Sound

LEMMA UsedKeptTwice ==
    ASSUME NEW f, NEW g, NEW h, NEW e, NEW d, UsedKept(f, g, e), UsedKept(g, h, d),
           f \in [DOMAIN f -> Block], g \in [DOMAIN g -> Block], h \in [DOMAIN h -> Block]
    PROVE  UsedKept(f, h, e \cup d)
<1>1. UsedOf(g) \ e = UsedOf(f) \ e /\ UsedOf(h) \ d = UsedOf(g) \ d
  BY DEF UsedKept
<1>2. UsedOf(h) \ (e \cup d) = UsedOf(f) \ (e \cup d)
  BY <1>1
<1>3. ASSUME NEW x \in UsedOf(f) \ (e \cup d) PROVE h[x].size >= f[x].size
  <2>1. x \in UsedOf(f) /\ x \in UsedOf(g) /\ x \in UsedOf(h) /\ x \notin e /\ x \notin d
    BY <1>1, <1>2
  <2>2. g[x].size >= f[x].size /\ h[x].size >= g[x].size
    BY <2>1 DEF UsedKept
  <2>3. f[x].size \in Nat /\ g[x].size \in Nat /\ h[x].size \in Nat
    BY <2>1, Fields DEF UsedOf
  <2>4. QED BY <2>2, <2>3
<1>4. QED BY <1>2, <1>3 DEF UsedKept

(* What the users of the blocks of f were promised.                        *)
Holds(f, a, v) ==
    /\ v \in [size : Request \cup RequestBA, ba : BOOLEAN]
    /\ f[a].size >= v.size + Header
    /\ v.ba => ((a + Header) % Bank) + v.size <= Bank
Promised(f, w) == DOMAIN w = UsedOf(f) /\ \A a \in UsedOf(f) : Holds(f, a, w[a])

(* getFreesz makes room for the header.                                    *)
LEMMA RequestFacts ==
    /\ \A n \in Request \cup RequestBA : n \in Nat /\ FreeSize(n) \in Nat /\ FreeSize(n) >= MinBlock
                                         /\ FreeSize(n) >= n + Header
    /\ \A n \in RequestBA : n <= Bank - Header - 1
<1>1. Bank \in Nat /\ Header \in Nat /\ MinBlock \in Nat
  BY HeapConstants
<1>2. ASSUME NEW n \in RequestBA PROVE n \in Nat /\ n <= Bank - Header - 1
  <2>1. n \in 0 .. Bank - Header - 1
    BY HeapAssumption
  <2>2. QED BY <1>1, <2>1
<1>3. ASSUME NEW n \in Request \cup RequestBA
      PROVE  n \in Nat /\ FreeSize(n) \in Nat /\ FreeSize(n) >= MinBlock /\ FreeSize(n) >= n + Header
  <2>1. n \in Nat
    BY <1>2, HeapAssumption
  <2>2. QED BY <1>1, <2>1 DEF FreeSize
<1>4. QED BY <1>2, <1>3

(* Who is not touched keeps what he was promised.                          *)
LEMMA PromisesKept ==
    ASSUME NEW f, NEW w, Promised(f, w), NEW g, NEW e, UsedKept(f, g, e),
           f \in [DOMAIN f -> Block], g \in [DOMAIN g -> Block],
           NEW v, DOMAIN v = UsedOf(g), \A x \in UsedOf(g) \ e : v[x] = w[x],
           \A x \in UsedOf(g) \cap e : Holds(g, x, v[x])
    PROVE  Promised(g, v)
<1> SUFFICES ASSUME NEW x \in UsedOf(g) \ e PROVE Holds(g, x, v[x])
  BY DEF Promised
<1>1. x \in UsedOf(f) /\ v[x] = w[x] /\ Holds(f, x, w[x]) /\ g[x].size >= f[x].size
  BY DEF UsedKept, Promised
<1>2. PICK u : u = w[x] /\ u \in [size : Request \cup RequestBA, ba : BOOLEAN]
  BY <1>1 DEF Holds
<1>3. u.size \in Nat
  <2>1. u.size \in Request \cup RequestBA
    BY <1>2
  <2>2. QED BY <2>1, RequestFacts
<1>4. f[x].size \in Nat /\ g[x].size \in Nat
  BY <1>1, Fields DEF UsedOf
<1>5. g[x].size >= u.size + Header
  <2>1. f[x].size >= u.size + Header
    BY <1>1, <1>2 DEF Holds
  <2>2. QED BY <1>1, <1>3, <1>4, <2>1, HeapConstants
<1>6. QED BY <1>1, <1>2, <1>5 DEF Holds

(* A block a in use becomes one with the free ones beside it: it begins at  *)
(* s, ends at e, and the headers of R are gone.                            *)
Around(f, a, s, e, R) ==
    LET nxt == a + f[a].size
        prv == a - f[a].prev
        wn == nxt < LastRAM /\ nxt \in DOMAIN f /\ f[nxt].free
        wp == f[a].prev # 0 /\ prv \in DOMAIN f /\ f[prv].free
    IN  /\ s = IF wp THEN prv ELSE a
        /\ e = IF wn THEN nxt + f[nxt].size ELSE nxt
        /\ R = (IF wp THEN {a} ELSE {}) \cup (IF wn THEN {nxt} ELSE {})

(* The joined block takes the place of the ones it is made of.             *)
LEMMA AroundRow ==
    ASSUME NEW f, Blocks(f), NEW a \in DOMAIN f, NEW s, NEW e, NEW R, Around(f, a, s, e, R),
           NEW k, NEW K, K = DOMAIN k, K = DOMAIN f \ R,
           k \in [DOMAIN k -> Block], k[s].size = e - s, k[s].prev = f[s].prev,
           \A x \in K \ {s} : /\ k[x].size = f[x].size
                              /\ k[x].prev = IF x = e THEN e - s ELSE f[x].prev
    PROVE  Blocks(k) /\ s \in DOMAIN k
<1>1. f \in [DOMAIN f -> Block] /\ FirstRAM \in Nat /\ LastRAM \in Nat /\ MinBlock \in Nat
      /\ Row(DOMAIN f, SizeOf(f), PrevOf(f), FirstRAM, LastRAM)
  BY HeapConstants DEF Blocks
<1>2. PICK D, S, P : D = DOMAIN f /\ S = SizeOf(f) /\ P = PrevOf(f)
  OBVIOUS
<1>3. PICK E, T, Q : E = DOMAIN k /\ T = SizeOf(k) /\ Q = PrevOf(k)
  OBVIOUS
<1>4. Row(D, S, P, FirstRAM, LastRAM) /\ \A x \in D : S[x] = f[x].size /\ P[x] = f[x].prev
  BY <1>1, <1>2, Fields
<1>5. T \in [E -> Nat] /\ Q \in [E -> Nat] /\ \A x \in E : T[x] = k[x].size /\ Q[x] = k[x].prev
  BY <1>3, Fields
<1>6. PICK n \in Int : n = a + f[a].size
  BY BlockFacts
<1>7. /\ a \in Int /\ a >= FirstRAM /\ f[a].size \in Nat /\ f[a].size > 0 /\ f[a].size >= MinBlock /\ f[a].prev \in Nat
      /\ \A x \in DOMAIN f : n = x + f[x].size => x = a
      /\ n <= LastRAM /\ a < n /\ (n # LastRAM => n \in DOMAIN f)
      /\ n \in DOMAIN f => f[n].prev = f[a].size /\ n # FirstRAM
  <2>1. /\ a \in Int /\ a \in Addr /\ f[a].size \in Nat /\ f[a].size > 0 /\ f[a].size >= MinBlock /\ f[a].prev \in Nat
        /\ n <= LastRAM /\ (n # LastRAM => n \in DOMAIN f) /\ (n \in DOMAIN f => f[n].prev = f[a].size /\ n # FirstRAM)
    BY <1>6, BlockFacts
  <2>2. ASSUME NEW x \in DOMAIN f, n = x + f[x].size PROVE x = a
    <3>1. x \in Int /\ f[x].size \in Nat /\ f[x].size > 0
      BY BlockFacts
    <3>2. (x > a => x >= a + f[a].size) /\ (x < a => x + f[x].size <= a)
      BY BlockFacts
    <3>3. QED BY <1>6, <2>1, <2>2, <3>1, <3>2
  <2>3. a >= FirstRAM /\ a < n
    BY <1>1, <1>6, <2>1, SMTT(40) DEF Addr
  <2>4. QED BY <2>1, <2>2, <2>3
<1> DEFINE wn == n < LastRAM /\ n \in DOMAIN f /\ f[n].free
           p == a - f[a].prev
           wp == f[a].prev # 0 /\ p \in DOMAIN f /\ f[p].free
<1>8. /\ s = (IF wp THEN p ELSE a) /\ e = (IF wn THEN n + f[n].size ELSE n)
      /\ R = (IF wp THEN {a} ELSE {}) \cup (IF wn THEN {n} ELSE {})
  BY <1>6 DEF Around
<1>9. wp => a # FirstRAM /\ f[p].size = f[a].prev /\ p < a
  BY <1>7, BlockFacts
<1>10. wn => f[n].size \in Nat /\ f[n].size > 0 /\ n # a
  BY <1>7, BlockFacts
<1> HIDE DEF wn, wp, p
<1>11. s \in E /\ s \in D /\ s \in Int /\ e \in Int
  <2>1. wp => p \in DOMAIN f /\ p \in Int
    BY <1>7 DEF wp, p
  <2>2. QED BY <1>2, <1>3, <1>7, <1>8, <1>9, <1>10, <2>1
<1>12. T[s] = e - s /\ Q[s] = f[s].prev /\ \A x \in E \ {s} : T[x] = S[x] /\ Q[x] = IF x = e THEN e - s ELSE P[x]
  <2>1. T[s] = e - s /\ Q[s] = f[s].prev
    BY <1>3, <1>5, <1>11
  <2>2. ASSUME NEW x \in E \ {s} PROVE T[x] = S[x] /\ Q[x] = IF x = e THEN e - s ELSE P[x]
    <3>1. T[x] = k[x].size /\ Q[x] = k[x].prev /\ x \in DOMAIN k \ {s} /\ x \in D
      BY <1>2, <1>3, <1>5
    <3>2. S[x] = f[x].size /\ P[x] = f[x].prev
      BY <1>4, <3>1
    <3>3. QED BY <3>1, <3>2
  <2>3. QED BY <2>1, <2>2
<1>13. PICK u \in Nat : u = S[a] /\ u = f[a].size /\ n = a + u /\ u > 0
  BY <1>2, <1>4, <1>6, <1>7
<1>14. a \in D /\ E = D \ R
  BY <1>2, <1>3
<1>15. Row(E, T, Q, FirstRAM, LastRAM)
  <2>1. CASE ~ wn /\ ~ wp
    <3>1. s = a /\ e = n /\ E = D
      BY <1>8, <1>14, <2>1
    <3>2. ASSUME NEW x \in D PROVE T[x] = S[x] /\ Q[x] = P[x]
      <4>1. CASE x = a
        <5>1. T[x] = n - a /\ Q[x] = P[x]
          BY <1>4, <1>12, <1>14, <3>1, <4>1
        <5>2. n - a = u
          BY <1>7, <1>13
        <5>3. S[x] = u
          BY <1>13, <4>1
        <5>4. QED BY <5>1, <5>2, <5>3
      <4>2. CASE x # a /\ x = n
        <5>1. T[x] = S[x] /\ Q[x] = n - a
          BY <1>12, <3>1, <4>2
        <5>2. P[x] = u
          BY <1>2, <1>4, <1>7, <1>13, <4>2
        <5>3. QED BY <1>7, <1>13, <5>1, <5>2
      <4>3. CASE x # a /\ x # n
        BY <1>12, <3>1, <4>3
      <4>4. QED BY <4>1, <4>2, <4>3
    <3>3. QED BY <1>4, <1>5, <3>1, <3>2, RowSame
  <2>2. CASE wn /\ ~ wp
    <3>1. PICK v \in Nat : v = f[n].size /\ v > 0 /\ n \in D /\ v = S[n]
      BY <1>2, <1>4, <1>10, <2>2 DEF wn
    <3>2. s = a /\ e = n + v /\ E = D \ {n}
      BY <1>8, <1>14, <2>2, <3>1
    <3>3. T[a] = S[a] + S[n]
      <4>1. T[a] = e - a
        BY <1>12, <3>2
      <4>2. QED BY <1>7, <1>13, <3>1, <3>2, <4>1
    <3>4. \A x \in E \ {a} : T[x] = S[x]
      BY <1>12, <3>2
    <3>5. e = n + S[n] /\ e - a = S[a] + S[n]
      BY <1>7, <1>13, <3>1, <3>2
    <3>6. ASSUME NEW x \in E PROVE Q[x] = IF x = n + S[n] THEN S[a] + S[n] ELSE P[x]
      <4>1. CASE x = a
        <5>1. x # e
          BY <1>7, <1>13, <3>1, <3>2, <4>1
        <5>2. Q[x] = P[x]
          BY <1>4, <1>12, <1>14, <3>2, <4>1
        <5>3. QED BY <3>5, <5>1, <5>2
      <4>2. CASE x # a
        <5>1. Q[x] = IF x = e THEN e - a ELSE P[x]
          BY <1>12, <3>2, <4>2
        <5>2. QED BY <3>5, <5>1
      <4>3. QED BY <4>1, <4>2
    <3>7. n = a + S[a] /\ n \in D
      BY <1>13, <3>1
    <3>8. Joined(D, S, P, a, n, E, T, Q)
      BY ONLY <1>5, <1>14, <3>2, <3>3, <3>4, <3>6, <3>7 DEF Joined
    <3>9. QED BY ONLY <1>1, <1>4, <3>8, RowJoin
  <2>3. CASE ~ wn /\ wp
    <3>1. PICK v \in Nat : v = f[p].size /\ v > 0 /\ p \in D /\ v = S[p] /\ a = p + v /\ p \in Int
      <4>1. p \in D /\ f[p].size = f[a].prev /\ f[a].prev # 0
        BY <1>2, <1>9, <2>3 DEF wp
      <4>2. S[p] = f[p].size /\ p = a - f[a].prev
        BY <1>4, <4>1 DEF p
      <4>3. QED BY <1>7, <4>1, <4>2
    <3>2. s = p /\ e = n /\ E = D \ {a}
      BY <1>8, <1>14, <2>3, <3>1
    <3>3. T[p] = S[p] + S[a]
      <4>1. T[p] = e - p
        BY <1>12, <3>2
      <4>2. QED BY <1>7, <1>13, <3>1, <3>2, <4>1
    <3>4. \A x \in E \ {p} : T[x] = S[x]
      BY <1>12, <3>2
    <3>5. e = a + S[a] /\ e - p = S[p] + S[a]
      BY <1>7, <1>13, <3>1, <3>2
    <3>6. ASSUME NEW x \in E PROVE Q[x] = IF x = a + S[a] THEN S[p] + S[a] ELSE P[x]
      <4>1. CASE x = p
        <5>1. x # e
          BY <1>7, <1>13, <3>1, <3>2, <4>1
        <5>2. Q[x] = P[x]
          BY <1>4, <1>12, <3>1, <3>2, <4>1
        <5>3. QED BY <3>5, <5>1, <5>2
      <4>2. CASE x # p
        <5>1. Q[x] = IF x = e THEN e - p ELSE P[x]
          BY <1>12, <3>2, <4>2
        <5>2. QED BY <3>5, <5>1
      <4>3. QED BY <4>1, <4>2
    <3>7. a = p + S[p]
      BY <3>1
    <3>8. Joined(D, S, P, p, a, E, T, Q)
      BY ONLY <1>5, <1>14, <3>1, <3>2, <3>3, <3>4, <3>6, <3>7 DEF Joined
    <3>9. QED BY ONLY <1>1, <1>4, <3>8, RowJoin
  <2>4. CASE wn /\ wp
    <3>1. PICK v \in Nat : v = f[n].size /\ v > 0 /\ n \in D /\ v = S[n]
      BY <1>2, <1>4, <1>10, <2>4 DEF wn
    <3>2. PICK w \in Nat : w = f[p].size /\ w > 0 /\ p \in D /\ w = S[p] /\ a = p + w /\ p \in Int
      <4>1. p \in D /\ f[p].size = f[a].prev /\ f[a].prev # 0
        BY <1>2, <1>9, <2>4 DEF wp
      <4>2. S[p] = f[p].size /\ p = a - f[a].prev
        BY <1>4, <4>1 DEF p
      <4>3. QED BY <1>7, <4>1, <4>2
    <3>3. s = p /\ e = n + v /\ E = (D \ {n}) \ {a}
      BY <1>8, <1>14, <2>4, <3>1, <3>2
    <3>4. PICK G : G = D \ {n}
      OBVIOUS
    <3>5. PICK T1, Q1 : /\ T1 = [x \in G |-> IF x = a THEN u + v ELSE S[x]]
                        /\ Q1 = [x \in G |-> IF x = n + v THEN u + v ELSE P[x]]
      OBVIOUS
    <3>6. S \in [D -> Nat] /\ P \in [D -> Nat]
      BY <1>4 DEF Row
    <3>7. T1 \in [G -> Nat] /\ Q1 \in [G -> Nat]
      BY <3>4, <3>5, <3>6
    <3>8. a \in G /\ p \in G /\ a # p
      BY <1>7, <1>13, <1>14, <3>2, <3>4
    <3>9. T1[a] = S[a] + S[n] /\ (\A x \in G \ {a} : T1[x] = S[x]) /\ T1[a] = u + v
      BY <1>13, <3>1, <3>5, <3>8
    <3>10. \A x \in G : Q1[x] = IF x = n + S[n] THEN S[a] + S[n] ELSE P[x]
      BY <1>13, <3>1, <3>5
    <3>11. n = a + S[a] /\ n \in D
      BY <1>13, <3>1
    <3>12. Row(G, T1, Q1, FirstRAM, LastRAM)
      <4>1. Joined(D, S, P, a, n, G, T1, Q1)
        BY ONLY <1>14, <3>4, <3>7, <3>9, <3>10, <3>11 DEF Joined
      <4>2. QED BY ONLY <1>1, <1>4, <4>1, RowJoin
    <3>13. T1[p] = w
      BY <3>2, <3>8, <3>9
    <3>14. e - p = w + (u + v) /\ a + T1[a] = e
      <4>1. PICK y \in Int : y = p /\ a = y + w /\ n = a + u /\ e = n + v
        BY <1>13, <3>2, <3>3
      <4>2. e - y = w + (u + v) /\ a + (u + v) = e
        BY <1>7, <4>1
      <4>3. QED BY <3>9, <4>1, <4>2
    <3>15. T[p] = T1[p] + T1[a]
      <4>1. T[p] = e - p
        BY <1>12, <3>3
      <4>2. QED BY <3>9, <3>13, <3>14, <4>1
    <3>16. \A x \in E \ {p} : T[x] = T1[x]
      BY <1>12, <3>3, <3>4, <3>9
    <3>17. ASSUME NEW x \in E PROVE Q[x] = IF x = a + T1[a] THEN T1[p] + T1[a] ELSE Q1[x]
      <4>1. x \in G
        BY <3>3, <3>4
      <4>2. Q1[x] = IF x = e THEN u + v ELSE P[x]
        BY <3>3, <3>5, <4>1
      <4>3. CASE x = p
        <5>1. x # e
          BY <1>7, <1>13, <3>1, <3>2, <3>3, <4>3
        <5>2. Q[x] = P[x]
          BY <1>4, <1>12, <3>2, <3>3, <4>3
        <5>3. QED BY <3>14, <4>2, <5>1, <5>2
      <4>4. CASE x # p
        <5>1. Q[x] = IF x = e THEN e - p ELSE P[x]
          BY <1>12, <3>3, <4>4
        <5>2. QED BY <3>9, <3>13, <3>14, <4>2, <5>1
      <4>5. QED BY <4>3, <4>4
    <3>18. a = p + T1[p]
      BY <3>2, <3>13
    <3>19. E = G \ {a}
      BY <3>3, <3>4
    <3>20. Joined(G, T1, Q1, p, a, E, T, Q)
      BY ONLY <1>5, <3>8, <3>15, <3>16, <3>17, <3>18, <3>19 DEF Joined
    <3>21. QED BY ONLY <1>1, <3>12, <3>20, RowJoin
  <2>5. QED BY <2>1, <2>2, <2>3, <2>4
<1>16. \A x \in DOMAIN k : k[x].size >= MinBlock
  <2>1. e - s >= MinBlock
    <3>1. e >= n
      BY <1>7, <1>8, <1>10
    <3>2. s <= a
      BY <1>7, <1>8, <1>9 DEF p
    <3>3. QED BY <1>1, <1>7, <1>11, <1>13, <3>1, <3>2
  <2>2. ASSUME NEW x \in DOMAIN k PROVE k[x].size >= MinBlock
    <3>1. CASE x = s
      BY <2>1, <3>1
    <3>2. CASE x # s
      BY <3>2 DEF Blocks
    <3>3. QED BY <3>1, <3>2
  <2>3. QED BY <2>2
<1>17. QED BY <1>3, <1>11, <1>15, <1>16 DEF Blocks

(* free2 leaves the heap as between two messages, without the block a.      *)
LEMMA Free2Keeps ==
    ASSUME NEW f, NEW b, Sound(f, b), NEW a \in UsedOf(f),
           NEW i, i.hdr = f, i.bins = b, NEW h, h = Free2(i, a)
    PROVE  /\ Sound(h.hdr, h.bins) /\ UsedKept(f, h.hdr, {a})
           /\ UsedOf(h.hdr) = UsedOf(f) \ {a}
<1>1. /\ Blocks(f) /\ NoTwoFree(f, {}) /\ Binned(b, FreeOf(f), f) /\ f \in [DOMAIN f -> Block]
      /\ a \in DOMAIN f /\ ~ f[a].free
  BY DEF Sound, Blocks, UsedOf
<1> DEFINE n == a + f[a].size
           p == a - f[a].prev
           wn == n < LastRAM /\ n \in DOMAIN f /\ f[n].free
           wp == f[a].prev # 0 /\ p \in DOMAIN f /\ f[p].free
           s == IF wp THEN p ELSE a
           e == IF wn THEN n + f[n].size ELSE n
           R == (IF wp THEN {a} ELSE {}) \cup (IF wn THEN {n} ELSE {})
           b1 == IF wp THEN RemBin(b, GetBin(f[p].size), p) ELSE b
           b2 == IF wn THEN RemBin(b1, GetBin(f[n].size), n) ELSE b1
           r == [x \in DOMAIN f \ R |-> f[x]]
           g == PutBlock(r, s, NewBlock(e - s, f[s].prev))
<1>2. Around(f, a, s, e, R)
  BY SMTT(40) DEF Around
<1>3. h = Add2Bin([hdr |-> g, bins |-> b2], s, e - s)
  BY DEF Free2
<1>4. n = a + f[a].size /\ p = a - f[a].prev /\ (wn => n \in DOMAIN f /\ f[n].free)
      /\ (n \in DOMAIN f /\ f[n].free /\ n < LastRAM => wn)
      /\ (wp => p \in DOMAIN f /\ f[p].free) /\ (p \in DOMAIN f /\ f[p].free /\ f[a].prev # 0 => wp)
      /\ (wp => s = p) /\ (~ wp => s = a) /\ (wn => e = n + f[n].size) /\ (~ wn => e = n)
  OBVIOUS
<1>5. /\ \A x : x \in R <=> (wp /\ x = a) \/ (wn /\ x = n)
      /\ b1 = (IF wp THEN RemBin(b, GetBin(f[p].size), p) ELSE b)
      /\ b2 = (IF wn THEN RemBin(b1, GetBin(f[n].size), n) ELSE b1)
  OBVIOUS
<1>6. DOMAIN r = DOMAIN f \ R /\ \A x \in DOMAIN r : r[x] = f[x]
  OBVIOUS
<1>7. r \in [DOMAIN r -> Block]
  BY <1>1
<1>8. g = PutBlock(r, s, NewBlock(e - s, f[s].prev))
  OBVIOUS
<1> HIDE DEF n, p, wn, wp, s, e, R, b1, b2, r, g
<1>9. /\ a \in Int /\ f[a].size \in Nat /\ f[a].size > 0 /\ f[a].prev \in Nat /\ n \in Int /\ a < n
      /\ n <= LastRAM /\ LastRAM \in Nat
  BY <1>1, <1>4, BlockFacts, HeapConstants
<1>10. wn => f[n].size \in Nat /\ f[n].size > 0 /\ n # a /\ n + f[n].size <= LastRAM
  BY <1>1, <1>4, <1>9, BlockFacts
<1>11. wp => /\ a # FirstRAM /\ f[p].size = f[a].prev /\ p < a /\ p \in Int
             /\ f[p].size \in Nat /\ f[p].size > 0 /\ a = p + f[p].size
  <2> SUFFICES ASSUME wp PROVE /\ a # FirstRAM /\ f[p].size = f[a].prev /\ p < a /\ p \in Int
                               /\ f[p].size \in Nat /\ f[p].size > 0 /\ a = p + f[p].size
    OBVIOUS
  <2>1. p \in DOMAIN f
    BY <1>4
  <2>2. a # FirstRAM
    <3>1. f[FirstRAM].prev = 0
      BY <1>1, BlockFacts
    <3>2. f[a].prev # 0
      BY DEF wp
    <3>3. QED BY <3>1, <3>2
  <2>3. f[p].size = f[a].prev
    BY <1>1, <1>4, <2>2, BlockFacts
  <2>4. f[p].size \in Nat /\ f[p].size > 0
    BY <1>1, <2>1, BlockFacts
  <2>5. p = a - f[a].prev
    BY <1>4
  <2>6. QED BY <1>9, <2>2, <2>3, <2>4, <2>5
<1>12. s \in DOMAIN f /\ s \in Int /\ s \in Addr /\ s \notin R /\ e \in Int /\ e - s \in Nat /\ f[s].prev \in Nat
  <2>1. s \in DOMAIN f /\ s \in Int /\ s <= a
    BY <1>1, <1>4, <1>9, <1>11
  <2>2. e \in Int /\ e >= n
    BY <1>4, <1>9, <1>10
  <2>3. s \notin R
    BY <1>4, <1>5, <1>9, <1>10, <1>11
  <2>4. s \in Addr /\ f[s].prev \in Nat
    BY <1>1, <2>1, BlockFacts
  <2>5. QED BY <1>9, <2>1, <2>2, <2>3, <2>4
<1>13. PICK z \in Block : /\ z = NewBlock(e - s, f[s].prev) /\ z.size = e - s
                          /\ z.prev = f[s].prev /\ z.free = FALSE
  BY <1>12, NewBlockIs, ZenonT(60)
<1>14. g = PutBlock(r, s, z)
  BY <1>8, <1>13
<1>15. DOMAIN g = DOMAIN f \ R
  <2>1. DOMAIN g = DOMAIN r \cup {s}
    BY <1>14, PutBlockDomain
  <2>2. QED BY <1>6, <1>12, <2>1
<1>16. /\ g \in [DOMAIN g -> Block] /\ g[s] = z
       /\ \A x \in DOMAIN r \ {s} :
             /\ g[x].size = r[x].size /\ g[x].free = r[x].free
             /\ g[x].prev = IF x = s + z.size THEN z.size ELSE r[x].prev
  BY <1>7, <1>14, PutBlockIs
<1>17. PICK j : j = [hdr |-> g, bins |-> b2]
  OBVIOUS
<1>18. j.hdr = g /\ j.bins = b2
  BY <1>17
<1>19. PICK k : k = h.hdr /\ k = Add2Bin(j, s, e - s).hdr
  BY <1>3, <1>17
<1>20. h.bins = [b2 EXCEPT ![GetBin(e - s)] = <<s>> \o @]
  BY <1>3 DEF Add2Bin
<1>21. /\ DOMAIN k = DOMAIN g /\ k \in [DOMAIN k -> Block]
       /\ k[s].size = e - s /\ k[s].prev = g[s].prev /\ k[s].free
       /\ \A x \in DOMAIN g \ {s} : k[x] = g[x]
  <2>1. s \in DOMAIN g /\ e - s \in Nat /\ g \in [DOMAIN g -> Block]
    BY <1>12, <1>15, <1>16
  <2>2. QED BY <1>19, <1>18, <2>1, Add2BinIs, SMTT(40)
<1>22. DOMAIN k = DOMAIN f \ R /\ k[s].prev = f[s].prev
  BY <1>13, <1>15, <1>16, <1>21
<1>23. ASSUME NEW x \in DOMAIN k \ {s}
       PROVE  /\ x \in DOMAIN f /\ x \notin R /\ k[x].size = f[x].size /\ k[x].free = f[x].free
              /\ k[x].prev = IF x = e THEN e - s ELSE f[x].prev
  <2>1. x \in DOMAIN f /\ x \notin R /\ x \in DOMAIN r \ {s} /\ k[x] = g[x] /\ r[x] = f[x]
    BY <1>6, <1>15, <1>21, <1>22
  <2>2. s + z.size = e
    BY <1>12, <1>13
  <2>3. g[x].prev = IF x = s + z.size THEN z.size ELSE f[x].prev
    BY <1>16, <2>1
  <2>4. k[x].prev = IF x = e THEN e - s ELSE f[x].prev
    BY <1>13, <2>1, <2>2, <2>3
  <2>5. QED BY <1>16, <2>1, <2>4
<1>24. Blocks(k) /\ s \in DOMAIN k
  <2>1. \A x \in DOMAIN k \ {s} : /\ k[x].size = f[x].size
                                  /\ k[x].prev = IF x = e THEN e - s ELSE f[x].prev
    BY <1>23
  <2>2. k \in [DOMAIN k -> Block] /\ DOMAIN k = DOMAIN f \ R /\ k[s].size = e - s /\ k[s].prev = f[s].prev
    BY <1>21, <1>22
  <2>3. QED BY ONLY <1>1, <1>2, <2>1, <2>2, AroundRow
<1>25. NoTwoFree(k, {})
  <2> SUFFICES ASSUME NEW x \in DOMAIN k, NEW y \in DOMAIN k, k[x].free, y = x + k[x].size
               PROVE  ~ k[y].free
    BY DEF NoTwoFree
  <2>1. \A u, v \in DOMAIN f : f[u].free /\ v = u + f[u].size => ~ f[v].free
    BY <1>1 DEF NoTwoFree
  <2>2. CASE x = s
    <3>1. y = e /\ y # s
      <4>1. e > s
        BY <1>4, <1>9, <1>10, <1>11, <1>12
      <4>2. y = e
        BY <1>12, <1>21, <2>2
      <4>3. QED BY <1>12, <4>1, <4>2
    <3>2. y \in DOMAIN f /\ k[y].free = f[y].free
      BY <1>23, <3>1
    <3>3. CASE wn
      BY <1>4, <2>1, <3>1, <3>2, <3>3
    <3>4. CASE ~ wn
      <4>1. y = n /\ n < LastRAM
        <5>1. y = n
          BY <1>4, <3>1, <3>4
        <5>2. n \in Addr
          BY <1>1, <3>2, <5>1, BlockFacts
        <5>3. QED BY <1>9, <5>1, <5>2, HeapConstants DEF Addr
      <4>2. QED BY <1>4, <3>2, <3>4, <4>1
    <3>5. QED BY <3>3, <3>4
  <2>3. CASE x # s /\ y = s
    <3>1. x \in DOMAIN f /\ f[x].free /\ s = x + f[x].size
      BY <1>23, <2>3
    <3>2. CASE wp
      BY <1>4, <2>1, <3>1, <3>2
    <3>3. CASE ~ wp
      <4>1. a = x + f[x].size
        BY <1>4, <3>1, <3>3
      <4>2. f[a].prev = f[x].size /\ x \in Int /\ f[x].size \in Nat /\ f[x].size > 0
        BY <1>1, <3>1, <4>1, BlockFacts
      <4>3. p = x /\ f[a].prev # 0
        BY <1>4, <4>1, <4>2
      <4>4. QED BY <1>4, <3>1, <3>3, <4>3
    <3>4. QED BY <3>2, <3>3
  <2>4. CASE x # s /\ y # s
    BY <1>23, <2>1, <2>4
  <2>5. QED BY <2>2, <2>3, <2>4
<1>26. Binned(h.bins, FreeOf(k), k)
  <2>1. PICK F : F = FreeOf(f)
    OBVIOUS
  <2>2. PICK F1 : F1 = IF wp THEN F \ {p} ELSE F
    OBVIOUS
  <2>3. PICK F2 : F2 = IF wn THEN F1 \ {n} ELSE F1
    OBVIOUS
  <2>4. F \in SUBSET Addr
    BY <1>1, <2>1, BlockFacts DEF FreeOf
  <2>5. Binned(b1, F1, f)
    <3>1. CASE wp
      <4>1. p \in F /\ f[p].size \in Int
        BY <1>4, <1>11, <2>1, <3>1 DEF FreeOf
      <4>2. Binned(RemBin(b, GetBin(f[p].size), p), F \ {p}, f)
        BY <1>1, <2>1, <2>4, <4>1, BinnedRemoved
      <4>3. QED BY <1>5, <2>2, <3>1, <4>2
    <3>2. CASE ~ wp
      BY <1>1, <1>5, <2>1, <2>2, <3>2
    <3>3. QED BY <3>1, <3>2
  <2>6. Binned(b2, F2, f)
    <3>1. CASE wn
      <4>1. n \in F1 /\ f[n].size \in Int
        <5>1. n \in F /\ f[n].size \in Int
          BY <1>4, <1>10, <2>1, <3>1 DEF FreeOf
        <5>2. wp => n # p
          BY <1>9, <1>11
        <5>3. QED BY <2>2, <5>1, <5>2
      <4>2. F1 \in SUBSET Addr
        BY <2>2, <2>4
      <4>3. Binned(RemBin(b1, GetBin(f[n].size), n), F1 \ {n}, f)
        BY <2>5, <4>1, <4>2, BinnedRemoved
      <4>4. QED BY <1>5, <2>3, <3>1, <4>3
    <3>2. CASE ~ wn
      BY <1>5, <2>3, <2>5, <3>2
    <3>3. QED BY <3>1, <3>2
  <2>7. s \notin F2
    BY <1>1, <1>4, <2>1, <2>2, <2>3 DEF FreeOf
  <2>8. FreeOf(k) = F2 \cup {s}
    <3>1. ASSUME NEW x \in DOMAIN k \ {s} PROVE x \in FreeOf(k) <=> x \in F2
      <4>1. x \in FreeOf(k) <=> x \in F
        BY <1>23, <2>1 DEF FreeOf
      <4>2. (wp => x # p) /\ (wn => x # n)
        BY <1>4, <1>5, <1>23
      <4>3. QED BY <2>2, <2>3, <4>1, <4>2
    <3>2. ASSUME NEW x \in F2 PROVE x \in DOMAIN k
      <4>1. x \in F
        BY <2>2, <2>3
      <4>2. x # a
        BY <1>1, <2>1, <4>1 DEF FreeOf
      <4>3. wn => x # n
        BY <2>3
      <4>4. QED BY <1>5, <1>22, <2>1, <4>1, <4>2, <4>3 DEF FreeOf
    <3>3. s \in FreeOf(k) /\ FreeOf(k) \subseteq DOMAIN k
      BY <1>21, <1>24 DEF FreeOf
    <3>4. QED BY <2>7, <3>1, <3>2, <3>3
  <2>9. \A x \in F2 : k[x].size = f[x].size
    <3>1. \A x \in F2 : x \in DOMAIN k \ {s}
      BY <2>7, <2>8 DEF FreeOf
    <3>2. QED BY <1>23, <3>1
  <2>10. PICK size \in Nat : size = e - s
    BY <1>12
  <2>11. k[s].size = size
    BY <1>21, <2>10
  <2>12. Binned([b2 EXCEPT ![GetBin(size)] = <<s>> \o @], F2 \cup {s}, k)
    <3>1. s \in Addr /\ size \in Int
      BY <1>12
    <3>2. QED BY ONLY <3>1, <2>6, <2>7, <2>9, <2>11, BinnedAdded
  <2>13. QED BY <1>20, <2>8, <2>10, <2>12
<1>27. UsedOf(k) = UsedOf(f) \ {a}
  <2>1. ASSUME NEW x \in UsedOf(k) PROVE x \in UsedOf(f) \ {a}
    <3>1. x \in DOMAIN k \ {s} /\ ~ k[x].free
      BY <1>21 DEF UsedOf
    <3>2. x # a
      BY <1>4, <1>5, <1>23, <3>1
    <3>3. QED BY <1>23, <3>1, <3>2 DEF UsedOf
  <2>2. ASSUME NEW x \in UsedOf(f) \ {a} PROVE x \in UsedOf(k)
    <3>1. x \in DOMAIN f /\ ~ f[x].free /\ x # a
      BY DEF UsedOf
    <3>2. x # s /\ x \notin R
      BY <1>4, <1>5, <3>1
    <3>3. QED BY <1>22, <1>23, <3>1, <3>2 DEF UsedOf
  <2>3. QED BY <2>1, <2>2
<1>28. UsedKept(f, k, {a})
  <2>1. ASSUME NEW x \in UsedOf(f) \ {a} PROVE k[x].size >= f[x].size
    <3>1. x \in UsedOf(k) /\ x \in DOMAIN f
      BY <1>27 DEF UsedOf
    <3>2. x \in DOMAIN k \ {s}
      BY <1>21, <3>1 DEF UsedOf
    <3>3. f[x].size \in Nat
      BY <1>1, <3>1, Fields
    <3>4. k[x].size = f[x].size
      BY <1>23, <3>2
    <3>5. QED BY <3>3, <3>4
  <2>2. QED BY <1>27, <2>1 DEF UsedKept
<1>29. QED BY <1>19, <1>24, <1>25, <1>26, <1>27, <1>28 DEF Sound

(* The data of a block at the next bank begin there; FirstRAM leaves room  *)
(* for a free block before it.                                             *)
LEMMA BankFacts ==
    ASSUME NEW a \in Nat
    PROVE  /\ ToBank(a) \in Nat /\ ToBank(a) > 0 /\ ((a + ToBank(a)) + Header) % Bank = 0
           /\ (a + Header) % Bank \in Nat
           /\ ToBank(FirstRAM) >= MinBlock
<1>1. Bank \in Nat \ {0} /\ Header \in Nat /\ FirstRAM \in Nat /\ MinBlock \in Nat /\ MinBlock > 0 /\ Header > 0
  BY HeapConstants
<1>2. PICK x \in Nat : x = a + Header
  BY <1>1
<1>3. x % Bank \in 0 .. Bank - 1 /\ (x + (Bank - (x % Bank))) % Bank = 0
  BY <1>1, NextMultiple
<1>4. PICK r \in Nat : r = x % Bank /\ r < Bank /\ (x + (Bank - r)) % Bank = 0
  BY <1>1, <1>3
<1>5. ToBank(a) = Bank - r
  BY <1>2, <1>4 DEF ToBank
<1>6. (a + (Bank - r)) + Header = x + (Bank - r)
  BY <1>1, <1>2, <1>4
<1>7. ToBank(FirstRAM) >= MinBlock
  <2>1. FirstRAM % Bank \in 0 .. Bank - 1 /\ \A y \in Nat : (FirstRAM % Bank) + y < Bank => (FirstRAM + y) % Bank = (FirstRAM % Bank) + y
    BY <1>1, NextMultiple
  <2>2. PICK q \in Nat : q = FirstRAM % Bank
    BY <1>1, <2>1
  <2>3. q + Header + MinBlock <= Bank
    BY <2>2, FirstAssumption
  <2>4. q + Header < Bank
    BY <1>1, <2>2, <2>3
  <2>5. (FirstRAM + Header) % Bank = q + Header
    BY <1>1, <2>1, <2>2, <2>4
  <2>6. ToBank(FirstRAM) = Bank - (q + Header)
    BY <2>5 DEF ToBank
  <2>7. QED BY <1>1, <2>2, <2>3, <2>6
<1>8. QED BY <1>1, <1>2, <1>4, <1>5, <1>6, <1>7

(* Block c of k is what malloc cut off at the bank of the heap f.           *)
CutAtBank(f, k, b, c, n) ==
    /\ Taken(k, b, c) /\ k[c].size = n
    /\ \A y \in DOMAIN k : y = c + k[c].size => ~ k[y].free
    /\ UsedKept(f, k, {c})

(* The block in the next bank, when what is before it became a free block. *)
LEMMA FrontFree ==
    ASSUME NEW f, NEW b, Sound(f, b), NEW a \in FreeOf(f), NEW front \in Nat,
           front >= MinBlock, f[a].size - front >= MinBlock, NEW c, c = a + front,
           NEW h, h = Add2Bin([hdr |-> PutBlock(f, c, NewBlock(f[a].size - front, front)),
                               bins |-> RemBin(b, GetBin(f[a].size), a)], a, front)
    PROVE  CutAtBank(f, h.hdr, h.bins, c, f[a].size - front)
<1>1. /\ Blocks(f) /\ a \in DOMAIN f /\ f[a].free /\ f \in [DOMAIN f -> Block]
      /\ NoTwoFree(f, {}) /\ MinBlock \in Nat /\ MinBlock > 0
  BY HeapConstants DEF Sound, Blocks, FreeOf
<1>2. PICK b1 : b1 = RemBin(b, GetBin(f[a].size), a)
  OBVIOUS
<1>3. /\ Binned(b1, FreeOf(f) \ {a}, f)
      /\ \A y \in DOMAIN f : y = a + f[a].size => ~ f[y].free
      /\ \A y \in DOMAIN f : a = y + f[y].size => ~ f[y].free
  BY <1>2, TakenFromSound DEF Taken
<1>4. PICK n \in Nat, rest \in Nat : n = f[a].size /\ rest = n - front /\ rest >= MinBlock
  <2>1. f[a].size \in Nat
    BY <1>1, BlockFacts
  <2>2. QED BY <1>1, <2>1
<1>5. /\ a \in Int /\ a \in Addr /\ a >= FirstRAM /\ a + n <= LastRAM
      /\ \A x \in DOMAIN f : x \in Int /\ (x > a => x >= a + n) /\ (x < a => x + f[x].size <= a)
  BY <1>1, <1>4, BlockFacts, HeapConstants DEF Addr
<1>6. c \in Int /\ a < c /\ c < a + n /\ c + rest = a + n /\ front > 0 /\ rest > 0
  BY <1>1, <1>4, <1>5
<1>7. c \notin DOMAIN f /\ c # a /\ c \in Addr
  BY <1>5, <1>6, HeapConstants DEF Addr
<1>8. PICK z \in Block : /\ z = NewBlock(rest, front) /\ z.size = rest
                         /\ z.prev = front /\ z.free = FALSE
  BY NewBlockIs, ZenonT(60)
<1>9. PICK g : g = PutBlock(f, c, z)
  OBVIOUS
<1>10. DOMAIN g = DOMAIN f \cup {c}
  BY <1>9, PutBlockDomain
<1>11. /\ g \in [DOMAIN g -> Block] /\ g[c] = z
       /\ \A x \in DOMAIN f \ {c} :
             /\ g[x].size = f[x].size /\ g[x].free = f[x].free
             /\ g[x].prev = IF x = c + z.size THEN z.size ELSE f[x].prev
  BY <1>1, <1>9, PutBlockIs
<1>12. PICK j : j = [hdr |-> g, bins |-> b1]
  OBVIOUS
<1>13. j.hdr = g /\ j.bins = b1
  BY <1>12
<1>14. h = Add2Bin([hdr |-> g, bins |-> b1], a, front)
  BY <1>2, <1>4, <1>8, <1>9
<1>15. PICK k : k = h.hdr /\ k = Add2Bin(j, a, front).hdr
  BY <1>12, <1>14
<1>16. h.bins = [b1 EXCEPT ![GetBin(front)] = <<a>> \o @]
  BY ONLY <1>14 DEF Add2Bin
<1>17. /\ DOMAIN k = DOMAIN g /\ k \in [DOMAIN k -> Block]
       /\ k[a].size = front /\ k[a].prev = g[a].prev /\ k[a].free
       /\ \A x \in DOMAIN g \ {a} : k[x] = g[x]
  <2>1. a \in DOMAIN g /\ g \in [DOMAIN g -> Block] /\ front \in Nat
    BY <1>1, <1>10, <1>11
  <2>2. k = Add2Bin(j, a, front).hdr /\ j.hdr = g
    BY <1>13, <1>15
  <2>3. DOMAIN k = DOMAIN g
    BY ONLY <2>1, <2>2, Add2BinIs
  <2>4. k \in [DOMAIN k -> Block]
    BY ONLY <2>1, <2>2, Add2BinIs, ZenonT(60)
  <2>5. k[a].size = front /\ k[a].prev = g[a].prev /\ k[a].free
    BY ONLY <2>1, <2>2, Add2BinIs
  <2>6. \A x \in DOMAIN g \ {a} : k[x] = g[x]
    BY ONLY <2>1, <2>2, Add2BinIs
  <2>7. QED BY <2>3, <2>4, <2>5, <2>6
<1>18. DOMAIN k = DOMAIN f \cup {c} /\ k[c] = z /\ k[c].size = rest /\ k[c].prev = front /\ ~ k[c].free
  BY <1>7, <1>8, <1>10, <1>11, <1>17
<1>19. ASSUME NEW x \in DOMAIN f
       PROVE  /\ x \in DOMAIN k /\ x # c /\ k[x].free = f[x].free
              /\ k[x].size = (IF x = a THEN front ELSE f[x].size)
              /\ k[x].prev = (IF x = a + n THEN rest ELSE f[x].prev)
  <2>1. x # c /\ x \in DOMAIN k /\ x \in DOMAIN g
    BY <1>7, <1>10, <1>18
  <2>2. g[x].size = f[x].size /\ g[x].free = f[x].free /\ g[x].prev = IF x = a + n THEN rest ELSE f[x].prev
    <3>1. g[x].prev = IF x = c + z.size THEN z.size ELSE f[x].prev
      BY <1>11, <2>1
    <3>2. z.size = rest /\ c + z.size = a + n
      BY <1>6, <1>8
    <3>3. QED BY <1>11, <2>1, <3>1, <3>2
  <2>3. CASE x = a
    BY <1>1, <1>17, <2>1, <2>2, <2>3
  <2>4. CASE x # a
    BY <1>17, <2>1, <2>2, <2>4
  <2>5. QED BY <2>3, <2>4
<1>20. Blocks(k)
  <2>1. PICK D, S, P, E, T, Q : /\ D = DOMAIN f /\ S = SizeOf(f) /\ P = PrevOf(f)
                                /\ E = DOMAIN k /\ T = SizeOf(k) /\ Q = PrevOf(k)
    OBVIOUS
  <2>2. Row(D, S, P, FirstRAM, LastRAM)
    BY <1>1, <2>1 DEF Blocks
  <2>3. T \in [E -> Nat] /\ Q \in [E -> Nat] /\ \A x \in E : T[x] = k[x].size /\ Q[x] = k[x].prev
    BY <1>17, <2>1, Fields
  <2>4. \A x \in D : S[x] = f[x].size /\ P[x] = f[x].prev
    BY <1>1, <2>1, Fields
  <2>5. a \in D /\ S[a] = n /\ c \in E /\ E = D \cup {c}
    BY <1>1, <1>4, <1>18, <2>1, <2>4
  <2>6. a < c /\ c < a + S[a]
    BY <1>6, <2>5
  <2>7. T[a] = c - a
    <3>1. T[a] = front
      BY <1>19, <2>1, <2>3, <2>5
    <3>2. QED BY <1>5, <3>1
  <2>8. rest = a + S[a] - c
    BY <1>4, <1>5, <1>6, <2>5
  <2>9. T[c] = a + S[a] - c
    BY <1>18, <2>3, <2>5, <2>8
  <2>10. Q[c] = c - a
    <3>1. Q[c] = front
      BY <1>18, <2>3, <2>5
    <3>2. QED BY <1>5, <3>1
  <2>11. \A x \in D \ {a} : T[x] = S[x]
    BY <1>19, <2>1, <2>3, <2>4, <2>5
  <2>12. \A x \in D : Q[x] = IF x = a + S[a] THEN a + S[a] - c ELSE P[x]
    BY <1>19, <2>1, <2>3, <2>4, <2>5, <2>8
  <2>13. FirstRAM \in Nat /\ LastRAM \in Nat
    BY HeapConstants
  <2>14. Row(E, T, Q, FirstRAM, LastRAM)
    <3>1. a \in D /\ c \in Int /\ a < c /\ c < a + S[a] /\ E = D \cup {c}
      BY <1>6, <2>5, <2>6
    <3>2. T \in [E -> Nat] /\ Q \in [E -> Nat]
      BY <2>3
    <3>3. QED BY ONLY <2>2, <3>1, <3>2, <2>7, <2>9, <2>10, <2>11, <2>12, <2>13, RowCut
  <2>15. \A x \in DOMAIN k : k[x].size >= MinBlock
    <3>1. \A x \in DOMAIN f : k[x].size >= MinBlock
      BY <1>1, <1>19 DEF Blocks
    <3>2. QED BY <1>4, <1>18, <3>1
  <2>16. QED BY <1>17, <2>1, <2>14, <2>15 DEF Blocks
<1>21. NoTwoFree(k, {c})
  <2> SUFFICES ASSUME NEW x \in DOMAIN k \ {c}, NEW y \in DOMAIN k \ {c}, k[x].free, y = x + k[x].size
               PROVE  ~ k[y].free
    BY DEF NoTwoFree
  <2>1. x \in DOMAIN f /\ y \in DOMAIN f
    BY <1>18
  <2>2. CASE x = a
    <3>1. y = c
      BY <1>17, <2>2
    <3>2. QED BY <3>1
  <2>3. CASE x # a
    <3>1. f[x].free /\ y = x + f[x].size
      BY <1>19, <2>1, <2>3
    <3>2. QED BY <1>1, <1>19, <2>1, <3>1 DEF NoTwoFree
  <2>4. QED BY <2>2, <2>3
<1>22. FreeOf(k) = FreeOf(f) /\ UsedOf(k) \ {c} = UsedOf(f) /\ c \notin UsedOf(f)
  BY <1>7, <1>18, <1>19 DEF FreeOf, UsedOf
<1>23. Binned(h.bins, FreeOf(k) \ {c}, k)
  <2>1. PICK E : E = FreeOf(f) \ {a}
    OBVIOUS
  <2>2. FreeOf(k) \ {c} = E \cup {a}
    BY <1>7, <1>22, <2>1 DEF FreeOf
  <2>3. a \notin E /\ a \in Addr /\ front \in Int
    BY <1>5, <2>1
  <2>4. \A x \in E : k[x].size = f[x].size
    BY <1>19, <2>1 DEF FreeOf
  <2>5. Binned(b1, E, f) /\ k[a].size = front
    BY <1>3, <1>17, <2>1
  <2>6. Binned([b1 EXCEPT ![GetBin(front)] = <<a>> \o @], E \cup {a}, k)
    BY ONLY <2>3, <2>4, <2>5, BinnedAdded
  <2>7. QED BY <1>16, <2>2, <2>6
<1>24. UsedKept(f, k, {c})
  <2>1. ASSUME NEW x \in UsedOf(f) \ {c} PROVE k[x].size >= f[x].size
    <3>1. x \in DOMAIN f /\ x # a /\ f[x].size \in Nat
      BY <1>1, Fields DEF UsedOf
    <3>2. QED BY <1>19, <3>1
  <2>2. UsedOf(k) \ {c} = UsedOf(f) \ {c}
    BY <1>22
  <2>3. QED BY <2>1, <2>2 DEF UsedKept
<1>25. ASSUME NEW y \in DOMAIN k, y = c + k[c].size PROVE ~ k[y].free
  <2>1. y = a + n /\ y \in DOMAIN f
    BY <1>6, <1>18, <1>25
  <2>2. QED BY <1>3, <1>4, <1>19, <2>1
<1>26. QED BY <1>4, <1>15, <1>18, <1>20, <1>21, <1>22, <1>23, <1>24, <1>25 DEF Taken, CutAtBank

(* The first part of block a goes to the block p before it.                *)
Shifted(D, S, P, p, a, c, E, T, Q) ==
    /\ p \in D /\ a \in D /\ a = p + S[p] /\ c \in Int /\ a < c /\ c < a + S[a]
    /\ E = (D \ {a}) \cup {c} /\ T \in [E -> Nat] /\ Q \in [E -> Nat]
    /\ T[p] = S[p] + (c - a) /\ T[c] = a + S[a] - c /\ Q[c] = S[p] + (c - a)
    /\ \A x \in (D \ {a}) \ {p} : T[x] = S[x]
    /\ \A x \in D \ {a} : Q[x] = IF x = a + S[a] THEN a + S[a] - c ELSE P[x]

LEMMA RowShift ==
    ASSUME NEW lo \in Nat, NEW hi \in Nat, NEW D, NEW S, NEW P, Row(D, S, P, lo, hi),
           NEW p, NEW a, NEW c, NEW E, NEW T, NEW Q, Shifted(D, S, P, p, a, c, E, T, Q)
    PROVE  Row(E, T, Q, lo, hi)
<1>1. /\ p \in D /\ a \in D /\ a = p + S[p] /\ c \in Int /\ a < c /\ c < a + S[a]
      /\ E = (D \ {a}) \cup {c} /\ T \in [E -> Nat] /\ Q \in [E -> Nat]
      /\ T[p] = S[p] + (c - a) /\ T[c] = a + S[a] - c /\ Q[c] = S[p] + (c - a)
      /\ \A x \in (D \ {a}) \ {p} : T[x] = S[x]
      /\ \A x \in D \ {a} : Q[x] = IF x = a + S[a] THEN a + S[a] - c ELSE P[x]
  BY DEF Shifted
<1>2. /\ a \in Int /\ S[a] \in Nat /\ p \in Int /\ S[p] \in Nat /\ S[p] > 0
      /\ \A x \in D : x > a => x >= a + S[a]
  BY <1>1, RowBasics
<1>3. PICK G : G = D \cup {c}
  OBVIOUS
<1>4. c \notin D
  BY <1>1, <1>2
<1>5. PICK T1, Q1 : /\ T1 = [x \in G |-> IF x = a THEN c - a ELSE IF x = c THEN a + S[a] - c ELSE S[x]]
                    /\ Q1 = [x \in G |-> IF x = c THEN c - a ELSE IF x = a + S[a] THEN a + S[a] - c ELSE P[x]]
  OBVIOUS
<1>6. c - a \in Nat /\ a + S[a] - c \in Nat /\ p # a /\ p # c
  BY <1>2, <1>4, <1>1
<1>7. T1 \in [G -> Nat] /\ Q1 \in [G -> Nat]
  <2>1. S \in [D -> Nat] /\ P \in [D -> Nat]
    BY DEF Row
  <2>2. QED BY <1>3, <1>5, <1>6, <2>1
<1>8. /\ T1[a] = c - a /\ T1[c] = a + S[a] - c /\ Q1[c] = c - a /\ T1[p] = S[p]
      /\ \A x \in D \ {a} : T1[x] = S[x]
      /\ \A x \in D : Q1[x] = IF x = a + S[a] THEN a + S[a] - c ELSE P[x]
  BY <1>3, <1>4, <1>5, <1>6, <1>1
<1>9. Row(G, T1, Q1, lo, hi)
  <2>1. a \in D /\ c \in Int /\ a < c /\ c < a + S[a] /\ G = D \cup {c} /\ lo \in Nat /\ hi \in Nat
        /\ Row(D, S, P, lo, hi)
    BY <1>3, <1>1
  <2>2. T1 \in [G -> Nat]
    BY <1>7
  <2>3. Q1 \in [G -> Nat]
    BY <1>7
  <2>4. T1[a] = c - a
    BY <1>8
  <2>5. T1[c] = a + S[a] - c
    BY <1>8
  <2>6. Q1[c] = c - a
    BY <1>8
  <2>7. \A x \in D \ {a} : T1[x] = S[x]
    BY <1>8
  <2>8. \A x \in D : Q1[x] = IF x = a + S[a] THEN a + S[a] - c ELSE P[x]
    BY <1>8
  <2>9. QED BY ONLY <2>1, <2>2, <2>3, <2>4, <2>5, <2>6, <2>7, <2>8, RowCut
<1>10. a \in G /\ p \in G /\ a = p + T1[p] /\ E = G \ {a} /\ a + T1[a] = c
  BY <1>2, <1>3, <1>4, <1>8, <1>1
<1>11. T[p] = T1[p] + T1[a]
  BY <1>8, <1>10, <1>1
<1>12. ASSUME NEW x \in E \ {p} PROVE T[x] = T1[x]
  BY <1>4, <1>8, <1>1
<1>13. ASSUME NEW x \in E PROVE Q[x] = IF x = a + T1[a] THEN T1[p] + T1[a] ELSE Q1[x]
  <2>1. CASE x = c
    <3>1. Q[x] = S[p] + (c - a) /\ T1[p] = S[p] /\ T1[a] = c - a
      BY <1>1, <1>8, <2>1
    <3>2. QED BY <1>10, <2>1, <3>1
  <2>2. CASE x # c
    <3>1. x \in D \ {a} /\ x # a + T1[a]
      BY <1>1, <1>10, <2>2
    <3>2. Q[x] = Q1[x]
      <4>1. \A y \in D \ {a} : Q[y] = IF y = a + S[a] THEN a + S[a] - c ELSE P[y]
        BY ONLY <1>1
      <4>2. \A y \in D \ {a} : Q1[y] = IF y = a + S[a] THEN a + S[a] - c ELSE P[y]
        BY ONLY <1>8
      <4>3. QED BY ONLY <3>1, <4>1, <4>2
    <3>3. QED BY ONLY <3>1, <3>2
  <2>3. QED BY <2>1, <2>2
<1>14. QED
  <2>1. a \in G /\ p \in G /\ a = p + T1[p] /\ E = G \ {a} /\ lo \in Nat /\ hi \in Nat
    BY <1>10
  <2>2. T \in [E -> Nat]
    BY <1>1
  <2>3. Q \in [E -> Nat]
    BY <1>1
  <2>4. \A x \in E \ {p} : T[x] = T1[x]
    BY <1>12
  <2>5. \A x \in E : Q[x] = IF x = a + T1[a] THEN T1[p] + T1[a] ELSE Q1[x]
    BY <1>13
  <2>6. Joined(G, T1, Q1, p, a, E, T, Q)
    BY ONLY <1>11, <2>1, <2>2, <2>3, <2>4, <2>5 DEF Joined
  <2>7. QED BY ONLY <1>9, <2>1, <2>6, RowJoin

(* The block before a grows, and the header of a is gone.                  *)
GrownBefore(f, a, p, size) ==
    [x \in DOMAIN f \ {a} |-> IF x = p THEN [f[x] EXCEPT !.size = size] ELSE f[x]]

LEMMA GrownIs ==
    ASSUME NEW f, f \in [DOMAIN f -> Block], NEW a, NEW p \in DOMAIN f \ {a}, NEW size \in Nat,
           NEW r, r = GrownBefore(f, a, p, size)
    PROVE  /\ r \in [DOMAIN r -> Block]
           /\ r[p].size = size /\ r[p].prev = f[p].prev /\ r[p].free = f[p].free
           /\ \A x \in (DOMAIN f \ {a}) \ {p} : r[x] = f[x]
<1>1. PICK c \in Block : c = f[p]
  OBVIOUS
<1> DEFINE d == [c EXCEPT !.size = size]
<1>2. d \in Block /\ d.size = size /\ d.prev = c.prev /\ d.free = c.free
  BY DEF Block
<1>3. r = [x \in DOMAIN f \ {a} |-> IF x = p THEN d ELSE f[x]]
  BY <1>1 DEF GrownBefore
<1> HIDE DEF d
<1>4. DOMAIN r = DOMAIN f \ {a} /\ r[p] = d /\ \A x \in (DOMAIN f \ {a}) \ {p} : r[x] = f[x]
  BY <1>3
<1>5. r \in [DOMAIN r -> Block]
  <2>1. \A x \in DOMAIN r : r[x] \in Block
    BY <1>2, <1>4, SMTT(40)
  <2>2. QED BY <1>3, <1>4, <2>1
<1>6. QED BY <1>1, <1>2, <1>4, <1>5

(* The block in the next bank, when the block before took what is before it. *)
LEMMA FrontGrows ==
    ASSUME NEW f, NEW b, Sound(f, b), NEW a \in FreeOf(f), a # FirstRAM, NEW front \in Nat,
           front > 0, f[a].size - front >= MinBlock, NEW c, c = a + front,
           NEW p, p = a - f[a].prev, NEW r, NEW k,
           r = GrownBefore(f, a, p, f[p].size + front),
           k = PutBlock(r, c, NewBlock(f[a].size - front, f[p].size + front))
    PROVE  CutAtBank(f, k, RemBin(b, GetBin(f[a].size), a), c, f[a].size - front)
<1>1. /\ Blocks(f) /\ a \in DOMAIN f /\ f[a].free /\ f \in [DOMAIN f -> Block]
      /\ NoTwoFree(f, {}) /\ MinBlock \in Nat /\ MinBlock > 0
  BY HeapConstants DEF Sound, Blocks, FreeOf
<1>2. PICK b1 : b1 = RemBin(b, GetBin(f[a].size), a)
  OBVIOUS
<1>3. /\ Binned(b1, FreeOf(f) \ {a}, f)
      /\ \A y \in DOMAIN f : y = a + f[a].size => ~ f[y].free
      /\ \A y \in DOMAIN f : a = y + f[y].size => ~ f[y].free
  BY <1>2, TakenFromSound DEF Taken
<1>4. PICK n, rest : n = f[a].size /\ rest = n - front
  OBVIOUS
<1>5. n = f[a].size /\ rest = n - front /\ n \in Nat /\ rest \in Nat /\ rest >= MinBlock /\ front \in Nat
  <2>1. f[a].size \in Nat
    BY <1>1, BlockFacts
  <2>2. QED BY <1>1, <1>4, <2>1
<1>6. /\ a \in Int /\ a \in Addr /\ a >= FirstRAM /\ a + n <= LastRAM
      /\ \A x \in DOMAIN f : x \in Int /\ (x > a => x >= a + n) /\ (x < a => x + f[x].size <= a)
  BY <1>1, <1>5, BlockFacts, HeapConstants DEF Addr
<1>7. c \in Int /\ a < c /\ c < a + n /\ c + rest = a + n /\ rest > 0
  BY <1>1, <1>5, <1>6
<1>8. c \notin DOMAIN f /\ c # a /\ c \in Addr
  BY ONLY <1>5, <1>6, <1>7, HeapConstants DEF Addr
<1>9. PICK m : m = f[p].size
  OBVIOUS
<1>10. /\ m \in Nat /\ m = f[p].size /\ m > 0 /\ m = f[a].prev /\ p \in DOMAIN f /\ p \in Int /\ a = p + m
       /\ m >= MinBlock
  <2>1. p \in DOMAIN f /\ f[p].size = f[a].prev
    BY <1>1, BlockFacts
  <2>2. f[p].size \in Nat /\ f[p].size > 0 /\ f[p].size >= MinBlock /\ p \in Int
    BY <1>1, <2>1, BlockFacts
  <2>3. p = a - f[a].prev
    OBVIOUS
  <2>4. QED BY ONLY <1>6, <1>9, <2>1, <2>2, <2>3
<1>11. p # a /\ ~ f[p].free
  <2>1. a = p + f[p].size
    BY <1>10
  <2>2. p # a
    BY ONLY <1>6, <1>10
  <2>3. QED BY ONLY <1>3, <1>10, <2>1, <2>2
<1>12. PICK grown : grown = m + front
  OBVIOUS
<1>13. grown \in Nat /\ front \in Nat /\ grown = m + front /\ grown = f[p].size + front
  <2>1. m \in Nat /\ front \in Nat /\ m = f[p].size /\ grown = m + front
    BY ONLY <1>5, <1>10, <1>12
  <2>2. grown \in Nat
    BY ONLY <2>1
  <2>3. QED BY ONLY <2>1, <2>2
<1>14. /\ DOMAIN r = DOMAIN f \ {a} /\ r \in [DOMAIN r -> Block]
       /\ r[p].size = grown /\ r[p].prev = f[p].prev /\ r[p].free = f[p].free
       /\ \A x \in (DOMAIN f \ {a}) \ {p} : r[x] = f[x]
  <2>1. f \in [DOMAIN f -> Block] /\ p \in DOMAIN f \ {a} /\ f[p].size + front = grown
    BY <1>1, <1>10, <1>11, <1>13
  <2>2. r = GrownBefore(f, a, p, grown) /\ grown \in Nat
    BY <1>13
  <2>3. DOMAIN r = DOMAIN f \ {a}
    BY ONLY <2>2 DEF GrownBefore
  <2>4. r \in [DOMAIN r -> Block]
    BY ONLY <2>1, <2>2, GrownIs
  <2>5. r[p].size = grown
    BY ONLY <2>1, <2>2, GrownIs
  <2>6. r[p].prev = f[p].prev
    BY ONLY <2>1, <2>2, GrownIs
  <2>7. r[p].free = f[p].free
    <3>1. r[p] = [f[p] EXCEPT !.size = grown] /\ f[p] \in Block
      BY ONLY <2>1, <2>2 DEF GrownBefore
    <3>2. QED BY ONLY <3>1 DEF Block
  <2>8. \A x \in (DOMAIN f \ {a}) \ {p} : r[x] = f[x]
    BY ONLY <2>2 DEF GrownBefore
  <2>9. QED BY ONLY <2>3, <2>4, <2>5, <2>8, <2>6, <2>7
<1>15. PICK z : z = NewBlock(rest, grown)
  OBVIOUS
<1>16. z \in Block /\ z = NewBlock(rest, grown) /\ z.size = rest /\ z.prev = grown /\ z.free = FALSE
  BY ONLY <1>5, <1>13, <1>15, NewBlockIs, ZenonT(60)
<1>17. k = PutBlock(r, c, z)
  BY <1>5, <1>10, <1>13, <1>16
<1>18. DOMAIN k = DOMAIN r \cup {c}
  BY ONLY <1>17, PutBlockDomain
<1>19. /\ k \in [DOMAIN k -> Block] /\ k[c] = z
       /\ \A x \in DOMAIN r \ {c} :
             /\ k[x].size = r[x].size /\ k[x].free = r[x].free
             /\ k[x].prev = IF x = c + z.size THEN z.size ELSE r[x].prev
  BY ONLY <1>14, <1>16, <1>17, PutBlockIs
<1>20. /\ DOMAIN k = (DOMAIN f \ {a}) \cup {c}
       /\ k[c].size = rest /\ k[c].prev = grown /\ ~ k[c].free
  BY <1>14, <1>16, <1>18, <1>19, ZenonT(60)
<1>21. ASSUME NEW x \in DOMAIN f, x # a
       PROVE  /\ x \in DOMAIN k /\ x # c /\ k[x].free = f[x].free
              /\ k[x].size = (IF x = p THEN grown ELSE f[x].size)
              /\ k[x].prev = (IF x = a + n THEN rest ELSE f[x].prev)
  <2>1. x # c /\ x \in DOMAIN k /\ x \in DOMAIN r \ {c}
    BY <1>8, <1>14, <1>20, <1>21
  <2>2. z.size = rest /\ c + z.size = a + n
    BY <1>7, <1>16
  <2>3. k[x].size = r[x].size /\ k[x].free = r[x].free /\ k[x].prev = IF x = a + n THEN rest ELSE r[x].prev
    <3>1. k[x].prev = IF x = c + z.size THEN z.size ELSE r[x].prev
      BY <1>19, <2>1, ZenonT(60)
    <3>2. QED BY ONLY <1>19, <2>1, <2>2, <3>1, SMTT(40)
  <2>4. CASE x = p
    BY <1>14, <2>1, <2>3, <2>4, SMTT(40)
  <2>5. CASE x # p
    BY <1>14, <1>21, <2>1, <2>3, <2>5, ZenonT(60)
  <2>6. QED BY <2>4, <2>5, ZenonT(60)
<1>22. Blocks(k)
  <2>1. PICK D, S, P, E, T, Q : /\ D = DOMAIN f /\ S = SizeOf(f) /\ P = PrevOf(f)
                                /\ E = DOMAIN k /\ T = SizeOf(k) /\ Q = PrevOf(k)
    OBVIOUS
  <2>2. Row(D, S, P, FirstRAM, LastRAM)
    BY <1>1, <2>1 DEF Blocks
  <2>3. T \in [E -> Nat] /\ Q \in [E -> Nat] /\ \A x \in E : T[x] = k[x].size /\ Q[x] = k[x].prev
    BY ONLY <1>19, <2>1, Fields
  <2>4. \A x \in D : S[x] = f[x].size /\ P[x] = f[x].prev
    BY <1>1, <2>1, Fields, SMTT(40)
  <2>5. a \in D /\ p \in D /\ S[a] = n /\ S[p] = m /\ c \in E /\ E = (D \ {a}) \cup {c}
    BY <1>1, <1>5, <1>10, <1>20, <2>1, <2>4
  <2>6. a = p + S[p] /\ a < c /\ c < a + S[a] /\ c \in Int
    BY ONLY <1>5, <1>7, <1>10, <2>5
  <2>7. c - a = front /\ rest = a + S[a] - c /\ grown = S[p] + (c - a) /\ a + S[a] = a + n
    <3>1. c = a + front
      OBVIOUS
    <3>2. c - a = front
      BY ONLY <1>5, <1>6, <3>1
    <3>3. rest = a + n - c
      BY ONLY <1>5, <1>6, <3>1
    <3>4. QED BY ONLY <1>13, <2>5, <3>2, <3>3
  <2>8. T[p] = S[p] + (c - a)
    <3>1. T[p] = grown
      BY ONLY <1>11, <1>21, <2>1, <2>3, <2>5
    <3>2. QED BY ONLY <2>7, <3>1
  <2>9. T[c] = a + S[a] - c
    BY ONLY <1>20, <2>3, <2>5, <2>7
  <2>10. Q[c] = S[p] + (c - a)
    BY ONLY <1>20, <2>3, <2>5, <2>7
  <2>11. \A x \in (D \ {a}) \ {p} : T[x] = S[x]
    BY ONLY <1>21, <2>1, <2>3, <2>4, <2>5
  <2>12. \A x \in D \ {a} : Q[x] = IF x = a + S[a] THEN a + S[a] - c ELSE P[x]
    BY ONLY <1>21, <2>1, <2>3, <2>4, <2>5, <2>7
  <2>13. FirstRAM \in Nat /\ LastRAM \in Nat
    BY HeapConstants
  <2>14. p \in D /\ a \in D /\ E = (D \ {a}) \cup {c}
    BY <2>5, SMTT(40)
  <2>15. T \in [E -> Nat] /\ Q \in [E -> Nat]
    BY <2>3
  <2>16. Row(E, T, Q, FirstRAM, LastRAM)
    <3>1. Shifted(D, S, P, p, a, c, E, T, Q)
      BY ONLY <2>6, <2>8, <2>9, <2>10, <2>11, <2>12, <2>14, <2>15, SMTT(40) DEF Shifted
    <3>2. QED BY ONLY <2>2, <2>13, <3>1, RowShift
  <2>17. \A x \in DOMAIN k : k[x].size >= MinBlock
    <3>1. grown >= MinBlock
      <4>1. m >= MinBlock /\ m \in Nat /\ MinBlock \in Nat
        BY ONLY <1>1, <1>10
      <4>2. QED BY ONLY <1>13, <4>1
    <3>2. \A x \in DOMAIN f \ {a} : k[x].size >= MinBlock
      BY <1>1, <1>21, <3>1 DEF Blocks
    <3>3. QED BY <1>5, <1>20, <3>2, ZenonT(60)
  <2>18. QED BY <1>19, <2>1, <2>16, <2>17 DEF Blocks
<1>23. NoTwoFree(k, {c})
  <2>1. ASSUME NEW x \in DOMAIN k \ {c}, NEW y \in DOMAIN k \ {c}, k[x].free, y = x + k[x].size
        PROVE  ~ k[y].free
    <3>1. x \in DOMAIN f /\ x # a /\ y \in DOMAIN f /\ y # a
      BY <1>20, SMTT(40)
    <3>2. x # p
      BY <1>11, <1>21, <2>1, <3>1, ZenonT(60)
    <3>3. f[x].free /\ y = x + f[x].size
      BY <1>21, <2>1, <3>1, <3>2, ZenonT(60)
    <3>4. QED BY <1>1, <1>21, <3>1, <3>3, SMTT(40) DEF NoTwoFree
  <2>2. QED BY ONLY <2>1, SMTT(40) DEF NoTwoFree
<1>24. FreeOf(k) = FreeOf(f) \ {a} /\ UsedOf(k) \ {c} = UsedOf(f) /\ c \notin UsedOf(f)
  <2>1. \A x \in FreeOf(k) : x \in DOMAIN f /\ x # a /\ f[x].free
    BY <1>20, <1>21, SMTT(40) DEF FreeOf
  <2>2. \A x \in FreeOf(f) \ {a} : x \in FreeOf(k)
    BY <1>21, SMTT(40) DEF FreeOf
  <2>3. \A x \in UsedOf(k) \ {c} : x \in DOMAIN f /\ ~ f[x].free
    BY <1>20, <1>21, ZenonT(60) DEF UsedOf
  <2>4. \A x \in UsedOf(f) : x \in UsedOf(k) \ {c}
    BY <1>1, <1>21 DEF UsedOf
  <2>5. QED BY <1>8, <2>1, <2>2, <2>3, <2>4, SMTT(40) DEF FreeOf, UsedOf
<1>25. Binned(b1, FreeOf(k) \ {c}, k)
  <2>1. FreeOf(k) \ {c} = FreeOf(f) \ {a}
    BY <1>8, <1>24 DEF FreeOf
  <2>2. \A x \in FreeOf(f) \ {a} : k[x].size = f[x].size
    BY <1>11, <1>21, SMTT(40) DEF FreeOf
  <2>3. QED BY ONLY <1>3, <2>1, <2>2, BinnedSame
<1>26. UsedKept(f, k, {c})
  <2>1. ASSUME NEW x \in UsedOf(f) \ {c} PROVE k[x].size >= f[x].size
    <3>1. x \in DOMAIN f /\ x # a /\ f[x].size \in Nat
      BY <1>1, Fields DEF UsedOf
    <3>2. grown >= m
      <4>1. m \in Nat /\ front \in Nat /\ grown = m + front
        BY ONLY <1>10, <1>13
      <4>2. QED BY ONLY <4>1
    <3>3. k[x].size = IF x = p THEN grown ELSE f[x].size
      BY <1>21, <3>1
    <3>4. QED BY ONLY <1>10, <1>13, <3>1, <3>2, <3>3
  <2>2. UsedOf(k) \ {c} = UsedOf(f) \ {c}
    BY <1>24, SMTT(40)
  <2>3. QED BY <2>1, <2>2 DEF UsedKept
<1>27. ASSUME NEW y \in DOMAIN k, y = c + k[c].size PROVE ~ k[y].free
  <2>1. y = a + n /\ y \in DOMAIN f /\ y # a
    <3>1. y = a + n
      BY ONLY <1>7, <1>20, <1>27
    <3>2. y # c /\ y # a
      BY ONLY <1>6, <1>7, <3>1
    <3>3. QED BY ONLY <1>20, <1>27, <3>1, <3>2
  <2>2. QED BY <1>3, <1>5, <1>21, <2>1
<1>28. QED BY <1>2, <1>5, <1>20, <1>22, <1>23, <1>24, <1>25, <1>26, <1>27 DEF Taken, CutAtBank

(* The inductive invariant.  Promised is what Usable says; HeapTypeOK,      *)
(* Tiled, Coalesced and BinsExact are what Sound says in other words.      *)
HeapInv == ~ lost /\ Sound(hdr, bins) /\ Promised(hdr, want)

(* What findbin finds is free and large enough; badmem is not reached.     *)
LEMMA FoundFits ==
    ASSUME HeapInv, NEW size \in Nat, NEW ba \in BOOLEAN, Candidates(size, ba) # {},
           NEW a, a = FindBin(size, ba)
    PROVE  a \in FreeOf(hdr) /\ hdr[a].free /\ Fits(a, size, ba)
<1>1. Sound(hdr, bins)
  BY DEF HeapInv
<1>2. PICK C : C = Candidates(size, ba)
  OBVIOUS
<1>3. GetBin(size) \in 0 .. NBins - 1
  BY BinGrows
<1>4. C \subseteq 0 .. NBins - 1 /\ C # {} /\ \A k \in C : FoundIn(k, size, ba) # {}
  BY <1>2, <1>3 DEF Candidates
<1>5. C \in SUBSET Nat
  BY <1>4
<1>6. PICK k : k = Min(C)
  OBVIOUS
<1>7. k \in C
  BY <1>4, <1>5, <1>6, Least
<1>8. k \in 0 .. NBins - 1 /\ bins[k] \in Seq(Addr)
  BY <1>1, <1>4, <1>7, InBin
<1>9. PICK I : I = FoundIn(k, size, ba)
  OBVIOUS
<1>10. I \in SUBSET Nat /\ I # {} /\ \A i \in I : i \in DOMAIN bins[k] /\ Stops(bins[k][i], size, ba)
  BY <1>4, <1>7, <1>8, <1>9 DEF FoundIn
<1>11. PICK i : i = Min(I)
  OBVIOUS
<1>12. i \in I
  BY <1>10, <1>11, Least
<1>13. a = bins[k][i]
  BY <1>2, <1>6, <1>9, <1>11 DEF FindBin
<1>14. i \in Nat /\ i \in DOMAIN bins[k] /\ Stops(a, size, ba)
  BY <1>10, <1>12, <1>13
<1>15. a \in DOMAIN hdr /\ hdr[a].free
  BY <1>1, <1>8, <1>13, <1>14, InBin
<1>16. Fits(a, size, ba)
  BY <1>14, <1>15 DEF Stops
<1>17. QED BY <1>15, <1>16 DEF FreeOf

(* findbin overlooks no block that is large enough.                        *)
LEMMA FitsFound ==
    ASSUME HeapInv
    PROVE  FindsFit
<1> SUFFICES ASSUME NEW n \in Request, NEW a \in DOMAIN hdr, hdr[a].free, hdr[a].size >= FreeSize(n)
             PROVE  Candidates(FreeSize(n), FALSE) # {}
  BY DEF FindsFit
<1>1. Sound(hdr, bins) /\ a \in FreeOf(hdr) /\ hdr[a].size \in Int /\ FreeSize(n) \in Int
  BY RequestFacts, Fields DEF HeapInv, Sound, Blocks, FreeOf
<1>2. PICK k : k = GetBin(hdr[a].size)
  OBVIOUS
<1>3. k \in 0 .. NBins - 1 /\ GetBin(FreeSize(n)) <= k /\ GetBin(FreeSize(n)) \in 0 .. NBins - 1
  BY <1>1, <1>2, BinGrows
<1>4. k \in GetBin(FreeSize(n)) .. NBins - 1
  BY <1>3
<1>5. PICK i \in DOMAIN bins[k] : bins[k][i] = a
  BY <1>1, <1>2, InBin
<1>6. Fits(a, FreeSize(n), FALSE)
  BY DEF Fits
<1>7. i \in FoundIn(k, FreeSize(n), FALSE)
  BY <1>5, <1>6 DEF FoundIn, Stops
<1>8. QED BY <1>4, <1>7 DEF Candidates

(* The rest of malloc when block a is out of its bin.                      *)
LEMMA GivenKeeps ==
    ASSUME HeapInv, NEW f, NEW b, NEW a, Taken(f, b, a), UsedKept(hdr, f, {a}),
           \A y \in DOMAIN f : y = a + f[a].size => ~ f[y].free,
           NEW p \in Process, NEW n \in Request \cup RequestBA, NEW ba \in BOOLEAN,
           f[a].size >= FreeSize(n), ba => ((a + Header) % Bank) + n <= Bank,
           Give(Split([hdr |-> f, bins |-> b], a, FreeSize(n)), a, p, n, ba)
    PROVE  HeapInv'
<1>1. PICK size : size = FreeSize(n)
  OBVIOUS
<1>2. size \in Nat /\ size >= MinBlock /\ f[a].size >= size /\ n \in Nat /\ size >= n + Header
  BY <1>1, RequestFacts
<1>3. PICK s : s = Split([hdr |-> f, bins |-> b], a, size)
  OBVIOUS
<1>4. PICK t : t = s.hdr
  OBVIOUS
<1>5. Taken(t, s.bins, a) /\ t[a].size >= size /\ UsedKept(f, t, {a})
  BY <1>2, <1>3, <1>4, SplitKeeps
<1>6. /\ hdr' = Owned(t, a, p) /\ bins' = s.bins /\ lost' = lost
      /\ want' = [x \in DOMAIN want \cup {a} |->
                     IF x = a THEN [size |-> n, ba |-> ba] ELSE want[x]]
  BY <1>1, <1>3, <1>4 DEF Give
<1>7. PICK g : g = hdr'
  OBVIOUS
<1>8. Sound(g, bins') /\ UsedKept(t, g, {a}) /\ a \in UsedOf(g) /\ g[a].size = t[a].size
  <2>1. PICK c : c = s.bins
    OBVIOUS
  <2>2. Taken(t, c, a) /\ g = Owned(t, a, p) /\ p \in Process
    BY <1>5, <1>6, <1>7, <2>1
  <2>3. Sound(g, c) /\ UsedKept(t, g, {a}) /\ a \in UsedOf(g) /\ g[a].size = t[a].size
    <3>1. Sound(g, c)
      BY ONLY <2>2, GiveKeeps
    <3>2. UsedKept(t, g, {a})
      BY ONLY <2>2, GiveKeeps
    <3>3. a \in UsedOf(g)
      BY ONLY <2>2, GiveKeeps
    <3>4. g[a].size = t[a].size
      <4>1. t \in [DOMAIN t -> Block] /\ a \in DOMAIN t
        BY ONLY <2>2 DEF Taken, Blocks
      <4>2. t[a] \in Block
        BY ONLY <4>1
      <4>3. g[a] = [t[a] EXCEPT !.free = FALSE, !.own = p]
        BY ONLY <2>2, <4>1 DEF Owned
      <4>4. QED BY ONLY <4>2, <4>3 DEF Block
    <3>5. QED BY <3>1, <3>2, <3>3, <3>4
  <2>4. QED BY <1>6, <2>1, <2>3
<1>9. Sound(hdr, bins) /\ Promised(hdr, want) /\ ~ lost
  BY DEF HeapInv
<1>10. hdr \in [DOMAIN hdr -> Block] /\ f \in [DOMAIN f -> Block] /\ t \in [DOMAIN t -> Block]
       /\ g \in [DOMAIN g -> Block] /\ a \in DOMAIN t
  BY <1>5, <1>8, <1>9 DEF Sound, Taken, Blocks
<1>11. UsedKept(hdr, g, {a})
  <2>1. UsedKept(hdr, t, {a} \cup {a})
    BY <1>5, <1>10, UsedKeptTwice
  <2>2. UsedKept(hdr, t, {a})
    <3>1. {a} \cup {a} = {a}
      OBVIOUS
    <3>2. QED BY <2>1, <3>1
  <2>3. UsedKept(hdr, g, {a} \cup {a})
    BY <1>8, <1>10, <2>2, UsedKeptTwice
  <2>4. {a} \cup {a} = {a}
    OBVIOUS
  <2>5. QED BY <2>3, <2>4
<1>12. Promised(g, want')
  <2>1. DOMAIN want' = DOMAIN want \cup {a} /\ DOMAIN want = UsedOf(hdr)
    BY <1>6, <1>9 DEF Promised
  <2>2. DOMAIN want' = UsedOf(g)
    <3>1. UsedOf(g) \ {a} = UsedOf(hdr) \ {a}
      BY <1>11 DEF UsedKept
    <3>2. QED BY <1>8, <2>1, <3>1
  <2>3. \A x \in UsedOf(g) \ {a} : want'[x] = want[x]
    BY <1>6, <2>1, <2>2
  <2>4. PICK u : u = want'[a]
    OBVIOUS
  <2>5. u = [size |-> n, ba |-> ba]
    BY <1>6, <2>4
  <2>6. u \in [size : Request \cup RequestBA, ba : BOOLEAN] /\ u.size = n /\ u.ba = ba
    BY <2>5
  <2>7. g[a].size >= n + Header
    <3>1. t[a].size \in Nat /\ Header \in Nat
      BY <1>10, Fields, HeapConstants
    <3>2. QED BY <1>2, <1>5, <1>8, <3>1
  <2>8. Holds(g, a, want'[a])
    BY <2>4, <2>6, <2>7 DEF Holds
  <2>9. \A x \in UsedOf(g) \cap {a} : Holds(g, x, want'[x])
    BY <2>8
  <2>10. QED BY <1>9, <1>10, <1>11, <2>2, <2>3, <2>9, PromisesKept
<1>13. QED BY <1>6, <1>7, <1>8, <1>9, <1>12 DEF HeapInv

(* Messages that only give memory back.                                    *)
LEMMA SetKeeps ==
    ASSUME HeapInv, NEW h, Sound(h.hdr, h.bins), UsedOf(h.hdr) \subseteq UsedOf(hdr),
           \A x \in UsedOf(h.hdr) : h.hdr[x].size >= hdr[x].size, SetHeap(h)
    PROVE  HeapInv'
<1>1. PICK g, b : g = h.hdr /\ b = h.bins
  OBVIOUS
<1>2. /\ hdr' = g /\ bins' = b /\ lost' = lost /\ Sound(g, b) /\ UsedOf(g) \subseteq UsedOf(hdr)
      /\ want' = [x \in UsedOf(g) |-> want[x]] /\ \A x \in UsedOf(g) : g[x].size >= hdr[x].size
  BY <1>1 DEF SetHeap, UsedOf
<1>3. Sound(hdr, bins) /\ Promised(hdr, want) /\ ~ lost
  BY DEF HeapInv
<1>4. hdr \in [DOMAIN hdr -> Block] /\ g \in [DOMAIN g -> Block]
  BY <1>2, <1>3 DEF Sound, Blocks
<1>5. PICK e : e = UsedOf(hdr) \ UsedOf(g)
  OBVIOUS
<1>6. UsedOf(g) \ e = UsedOf(hdr) \ e /\ UsedOf(g) \ e = UsedOf(g) /\ UsedOf(g) \cap e = {}
  BY <1>2, <1>5
<1>7. UsedKept(hdr, g, e)
  BY <1>2, <1>6 DEF UsedKept
<1>8. DOMAIN want' = UsedOf(g) /\ \A x \in UsedOf(g) \ e : want'[x] = want[x]
  BY <1>2
<1>9. \A x \in UsedOf(g) \cap e : Holds(g, x, want'[x])
  BY <1>6
<1>10. Promised(g, want')
  BY <1>3, <1>4, <1>7, <1>8, <1>9, PromisesKept
<1>11. QED BY <1>2, <1>3, <1>10 DEF HeapInv

LEMMA SizesKept ==
    ASSUME NEW f, f \in [DOMAIN f -> Block]
    PROVE  \A e : UsedKept(f, f, e)
<1>1. \A x \in UsedOf(f) : f[x].size >= f[x].size
  BY Fields DEF UsedOf
<1>2. QED BY <1>1 DEF UsedKept

LEMMA FreeKeeps ==
    ASSUME HeapInv, NEW a \in InUse, Free(a)
    PROVE  HeapInv'
<1>1. Sound(hdr, bins) /\ a \in UsedOf(hdr) /\ SetHeap(Free2(Store, a))
  BY DEF HeapInv, InUse, UsedOf, Free
<1>2. PICK i : i = Store
  OBVIOUS
<1>3. i.hdr = hdr /\ i.bins = bins
  BY <1>2 DEF Store
<1>4. PICK h : h = Free2(i, a)
  OBVIOUS
<1>5. Sound(h.hdr, h.bins) /\ UsedKept(hdr, h.hdr, {a}) /\ UsedOf(h.hdr) = UsedOf(hdr) \ {a}
  BY <1>1, <1>3, <1>4, Free2Keeps
<1>6. UsedOf(h.hdr) \subseteq UsedOf(hdr) /\ \A x \in UsedOf(h.hdr) : h.hdr[x].size >= hdr[x].size
  BY <1>5 DEF UsedKept
<1>7. QED BY <1>1, <1>2, <1>4, <1>5, <1>6, SetKeeps

(* killPID is a function: each step leaves the heap for the next.          *)
Sweeps(g, mine, n) ==
    g = [i \in 0 .. n |-> IF i = 0 THEN Store ELSE Reaps(g[i - 1], FirstRAM + i - 1, mine)]

LEMMA SweepExists ==
    ASSUME NEW mine
    PROVE  \A n \in Nat : \E g : Sweeps(g, mine, n)
<1> DEFINE W == {n \in Nat : \E g : Sweeps(g, mine, n)}
<1>1. 0 \in W
  <2>1. [i \in 0..0 |-> Store] = [i \in 0..0 |-> IF i = 0 THEN Store ELSE Reaps([j \in 0..0 |-> Store][i - 1], FirstRAM + i - 1, mine)]
    OBVIOUS
  <2>2. QED BY <2>1 DEF Sweeps
<1>2. ASSUME NEW n \in Nat, n \in W PROVE n + 1 \in W
  <2>1. PICK g : g = [i \in 0..n |-> IF i = 0 THEN Store ELSE Reaps(g[i - 1], FirstRAM + i - 1, mine)]
    BY <1>2 DEF Sweeps
  <2> DEFINE e == [i \in 0..(n + 1) |-> IF i \in 0..n THEN g[i] ELSE Reaps(g[n], FirstRAM + (n + 1) - 1, mine)]
  <2>2. e = [i \in 0..(n + 1) |-> IF i = 0 THEN Store ELSE Reaps(e[i - 1], FirstRAM + i - 1, mine)]
    <3>1. ASSUME NEW i \in 0..(n + 1) PROVE e[i] = IF i = 0 THEN Store ELSE Reaps(e[i - 1], FirstRAM + i - 1, mine)
      <4>1. CASE i \in 0..n
        <5>1. e[i] = g[i] /\ g[i] = IF i = 0 THEN Store ELSE Reaps(g[i - 1], FirstRAM + i - 1, mine)
          BY <2>1, <4>1
        <5>2. i # 0 => i - 1 \in 0..n /\ i - 1 \in 0..(n + 1)
          BY <4>1
        <5>3. i # 0 => e[i - 1] = g[i - 1]
          BY <5>2
        <5>4. QED BY <5>1, <5>3
      <4>2. CASE i = n + 1
        <5>1. e[i] = Reaps(g[n], FirstRAM + (n + 1) - 1, mine) /\ i # 0 /\ i - 1 = n /\ n \in 0..n /\ n \in 0..(n + 1)
          BY <4>2
        <5>2. e[n] = g[n]
          BY <5>1
        <5>3. QED BY <4>2, <5>1, <5>2
      <4>3. QED BY <4>1, <4>2
    <3>2. QED BY <3>1
  <2>3. \E d : d = [i \in 0..(n + 1) |-> IF i = 0 THEN Store ELSE Reaps(d[i - 1], FirstRAM + i - 1, mine)]
    BY <2>2
  <2>4. QED BY <2>3 DEF Sweeps
<1> HIDE DEF W
<1>3. Nat \subseteq W
  BY <1>1, <1>2, CountingUp
<1>4. QED BY <1>3 DEF W

(* What the walk has left when it has come i units far.                    *)
SweptTo(h, i, mine) ==
    /\ Sound(h.hdr, h.bins) /\ UsedOf(h.hdr) \subseteq UsedOf(hdr)
    /\ \A x \in UsedOf(h.hdr) : h.hdr[x].size >= hdr[x].size
    /\ \A x \in mine : x >= FirstRAM + i => x \in UsedOf(h.hdr)

LEMMA KillMemKeeps ==
    ASSUME HeapInv, NEW p \in Process, KillMem(p)
    PROVE  HeapInv'
<1>1. Sound(hdr, bins) /\ hdr \in [DOMAIN hdr -> Block] /\ Blocks(hdr)
  BY DEF HeapInv, Sound, Blocks
<1>2. PICK mine : mine = {a \in InUse : hdr[a].own = p}
  OBVIOUS
<1>3. mine \subseteq UsedOf(hdr) /\ \A x \in mine : x \in Int
  <2>1. mine \subseteq UsedOf(hdr)
    BY <1>2 DEF InUse, UsedOf
  <2>2. \A x \in UsedOf(hdr) : x \in Int
    BY <1>1, BlockFacts DEF UsedOf
  <2>3. QED BY <2>1, <2>2
<1>4. FirstRAM \in Nat /\ LastRAM \in Nat
  BY HeapConstants
<1>5. PICK m \in Nat : m = LastRAM - FirstRAM
  BY HeapConstants
<1>6. PICK c : c = CHOOSE g : Sweeps(g, mine, m)
  OBVIOUS
<1>7. SetHeap(c[m])
  BY <1>2, <1>5, <1>6 DEF KillMem, Sweeps
<1>8. c = [i \in 0 .. m |-> IF i = 0 THEN Store ELSE Reaps(c[i - 1], FirstRAM + i - 1, mine)]
  <2>1. Sweeps(c, mine, m)
    BY <1>6, SweepExists
  <2>2. QED BY <2>1 DEF Sweeps
<1> DEFINE T == {i \in Nat : i <= m => SweptTo(c[i], i, mine)}
<1>9. 0 \in T
  <2>1. c[0] = Store /\ Store.hdr = hdr /\ Store.bins = bins
    BY <1>8 DEF Store
  <2>2. \A x \in UsedOf(hdr) : hdr[x].size >= hdr[x].size
    BY <1>1, Fields DEF UsedOf
  <2>3. SweptTo(c[0], 0, mine)
    BY <1>1, <1>3, <2>1, <2>2 DEF SweptTo
  <2>4. QED BY <2>3
<1>10. ASSUME NEW i \in Nat, i \in T PROVE i + 1 \in T
  <2> SUFFICES ASSUME i + 1 <= m PROVE SweptTo(c[i + 1], i + 1, mine)
    OBVIOUS
  <2>1. PICK h : h = c[i] /\ SweptTo(h, i, mine)
    BY <1>10
  <2>2. PICK a : a = FirstRAM + i /\ a \in Int
    BY <1>4
  <2>3. c[i + 1] = Reaps(h, a, mine)
    <3>1. i + 1 \in 0 .. m /\ i + 1 # 0 /\ (i + 1) - 1 = i /\ FirstRAM + (i + 1) - 1 = FirstRAM + i
      BY <1>4
    <3>2. c[i + 1] = Reaps(c[(i + 1) - 1], FirstRAM + (i + 1) - 1, mine)
      BY <1>8, <3>1
    <3>3. QED BY <2>1, <2>2, <3>1, <3>2
  <2>4. PICK d : d = c[i + 1]
    OBVIOUS
  <2>5. CASE a \notin mine
    <3>1. d = h
      BY <2>3, <2>4, <2>5 DEF Reaps
    <3>2. \A x \in mine : x >= FirstRAM + (i + 1) => x >= FirstRAM + i
      BY <1>3, <1>4
    <3>3. QED BY <2>1, <2>4, <3>1, <3>2 DEF SweptTo
  <2>6. CASE a \in mine
    <3>1. d = Free2(h, a)
      BY <2>3, <2>4, <2>6 DEF Reaps
    <3>2. PICK f, b : f = h.hdr /\ b = h.bins
      OBVIOUS
    <3>3. /\ Sound(f, b) /\ UsedOf(f) \subseteq UsedOf(hdr) /\ \A x \in UsedOf(f) : f[x].size >= hdr[x].size
          /\ \A x \in mine : x >= FirstRAM + i => x \in UsedOf(f)
      BY <2>1, <3>2 DEF SweptTo
    <3>4. a \in UsedOf(f)
      BY <2>2, <2>6, <3>3
    <3>5. /\ Sound(d.hdr, d.bins) /\ UsedKept(f, d.hdr, {a})
          /\ UsedOf(d.hdr) = UsedOf(f) \ {a}
      BY <3>1, <3>2, <3>3, <3>4, Free2Keeps
    <3>6. PICK g : g = d.hdr
      OBVIOUS
    <3>7. g \in [DOMAIN g -> Block] /\ f \in [DOMAIN f -> Block]
      BY <3>3, <3>5, <3>6 DEF Sound, Blocks
    <3>8. ASSUME NEW x \in UsedOf(g) PROVE g[x].size >= hdr[x].size
      <4>1. x \in UsedOf(f) /\ x # a /\ x \in UsedOf(hdr)
        BY <3>3, <3>5, <3>6
      <4>2. g[x].size >= f[x].size /\ f[x].size >= hdr[x].size
        BY <3>3, <3>5, <3>6, <4>1 DEF UsedKept
      <4>3. g[x].size \in Nat /\ f[x].size \in Nat /\ hdr[x].size \in Nat
        BY <1>1, <3>7, <4>1, Fields DEF UsedOf
      <4>4. QED BY ONLY <4>2, <4>3
    <3>9. ASSUME NEW x \in mine, x >= FirstRAM + (i + 1) PROVE x \in UsedOf(g)
      <4>1. x # a /\ x >= FirstRAM + i
        BY <1>3, <1>4, <2>2, <3>9
      <4>2. QED BY <3>3, <3>5, <3>6, <4>1
    <3>10. UsedOf(g) \subseteq UsedOf(hdr)
      BY <3>3, <3>5, <3>6
    <3>11. SweptTo(d, i + 1, mine)
      BY ONLY <3>5, <3>6, <3>8, <3>9, <3>10 DEF SweptTo
    <3>12. QED BY <2>4, <3>11
  <2>7. QED BY <2>5, <2>6
<1>11. SweptTo(c[m], m, mine)
  <2> HIDE DEF T
  <2>1. Nat \subseteq T
    BY <1>9, <1>10, CountingUp
  <2>2. QED BY <2>1 DEF T
<1>12. PICK h : h = c[m]
  OBVIOUS
<1>13. Sound(h.hdr, h.bins) /\ UsedOf(h.hdr) \subseteq UsedOf(hdr) /\ \A x \in UsedOf(h.hdr) : h.hdr[x].size >= hdr[x].size
  BY <1>11, <1>12 DEF SweptTo
<1>14. SetHeap(h)
  BY <1>7, <1>12
<1>15. QED BY <1>13, <1>14, SetKeeps

(* No request with MMSG_AllocBA is smaller than a rest worth splitting off. *)
(* Without it malloc gives out what it has not taken (TakeAtBank, the last *)
(* disjunct), and the heap is not sound.                                   *)
BigBA == \A n \in RequestBA : n + Header >= MinBlock + Slack

(* The messages to the memory manager, one by one.                         *)
LEMMA MallocKeeps ==
    ASSUME HeapInv, BigBA, NEW p \in Process, NEW n \in Request \cup RequestBA, NEW ba \in BOOLEAN,
           ba => n \in RequestBA, Malloc(p, n, ba)
    PROVE  HeapInv'
<1>1. Sound(hdr, bins) /\ Blocks(hdr) /\ hdr \in [DOMAIN hdr -> Block] /\ ~ lost
  BY DEF HeapInv, Sound, Blocks
<1>2. PICK size : size = FreeSize(n)
  OBVIOUS
<1>3. size \in Nat /\ size >= MinBlock /\ n \in Nat /\ size >= n + Header /\ size = FreeSize(n)
  BY <1>2, RequestFacts
<1>4. Header \in Nat /\ MinBlock \in Nat /\ Slack \in Nat /\ Bank \in Nat /\ Bank > 0
  BY HeapConstants
<1>5. PICK a : a = FindBin(size, ba)
  OBVIOUS
<1>6. CASE Candidates(size, ba) = {}
  <2>1. UNCHANGED heapVars
    BY <1>3, <1>6 DEF Malloc
  <2>2. QED BY <2>1 DEF heapVars, HeapInv
<1>7. CASE Candidates(size, ba) # {}
  <2>1. a \in FreeOf(hdr) /\ hdr[a].free /\ Fits(a, size, ba)
    BY <1>3, <1>5, <1>7, FoundFits
  <2>2. Place(a, p, n, ba)
    BY <1>3, <1>5, <1>7, <2>1 DEF Malloc
  <2>3. a \in DOMAIN hdr /\ a \in Int /\ a \in Nat /\ a >= FirstRAM /\ hdr[a].size \in Nat /\ hdr[a].size >= size
    <3>1. a \in DOMAIN hdr
      BY <2>1 DEF FreeOf
    <3>2. a \in Addr /\ hdr[a].size \in Nat
      BY <1>1, <3>1, BlockFacts
    <3>3. QED BY <2>1, <3>1, <3>2, HeapConstants DEF Addr, Fits
  <2>4. PICK b1 : b1 = RemBin(bins, GetBin(hdr[a].size), a)
    OBVIOUS
  <2>5. /\ Taken(hdr, b1, a)
        /\ \A y \in DOMAIN hdr : y = a + hdr[a].size => ~ hdr[y].free
    BY <1>1, <2>1, <2>4, TakenFromSound
  <2>6. CASE ~ (ba /\ CrossesBank(a, size))
    <3>1. Give(Split([hdr |-> hdr, bins |-> b1], a, FreeSize(n)), a, p, n, ba)
      BY <1>3, <2>2, <2>4, <2>6 DEF Place, Take
    <3>2. UsedKept(hdr, hdr, {a})
      BY <1>1, SizesKept
    <3>3. ba => ((a + Header) % Bank) + n <= Bank
      <4>1. (a + Header) % Bank \in Nat
        BY <2>3, BankFacts
      <4>2. ba => ~ (((a + Header) % Bank) + size - Header > Bank)
        BY <2>6 DEF CrossesBank
      <4>3. QED BY ONLY <1>3, <1>4, <4>1, <4>2
    <3>4. hdr[a].size >= FreeSize(n)
      BY <1>3, <2>3
    <3>5. QED BY <2>5, <3>1, <3>2, <3>3, <3>4, GivenKeeps
  <2>7. CASE ba /\ CrossesBank(a, size)
    <3>1. TakeAtBank(a, p, n) /\ ba = TRUE /\ n \in RequestBA
      BY <1>3, <2>2, <2>7 DEF Place
    <3>2. PICK front : front = ToBank(a)
      OBVIOUS
    <3>3. front \in Nat /\ front > 0 /\ ((a + front) + Header) % Bank = 0
      BY <2>3, <3>2, BankFacts
    <3>4. PICK rest : rest = a + front
      OBVIOUS
    <3>5. hdr[a].size - front >= size
      BY <2>1, <2>7, <3>2 DEF Fits
    <3>6. size >= MinBlock + Slack /\ hdr[a].size - front >= MinBlock + Slack /\ hdr[a].size - front >= MinBlock
      <4>1. n + Header >= MinBlock + Slack
        BY <3>1 DEF BigBA
      <4>2. QED BY ONLY <1>3, <1>4, <2>3, <3>3, <3>5, <4>1
    <3>7. ba => ((rest + Header) % Bank) + n <= Bank
      <4>1. n <= Bank - Header - 1
        BY <3>1, RequestFacts
      <4>2. (rest + Header) % Bank = 0
        BY <3>3, <3>4
      <4>3. QED BY ONLY <1>3, <1>4, <4>1, <4>2
    <3>8. CASE front < MinBlock
      <4>1. PICK q, r, k : /\ q = a - hdr[a].prev
                           /\ r = GrownBefore(hdr, a, q, hdr[q].size + front)
                           /\ k = PutBlock(r, rest, NewBlock(hdr[a].size - front, hdr[q].size + front))
        OBVIOUS
      <4>2. ~ (front >= MinBlock)
        BY <1>4, <3>3, <3>8
      <4>3. Give(Split([hdr |-> k, bins |-> b1], rest, FreeSize(n)), rest, p, n, TRUE)
        BY <2>4, <3>1, <3>2, <3>4, <4>1, <4>2 DEF TakeAtBank, GrownBefore
      <4>4. a # FirstRAM
        <5>1. ASSUME a = FirstRAM PROVE FALSE
          <6>1. ToBank(FirstRAM) >= MinBlock
            BY <2>3, BankFacts
          <6>2. QED BY <3>2, <4>2, <5>1, <6>1
        <5>2. QED BY <5>1
      <4>5. CutAtBank(hdr, k, b1, rest, hdr[a].size - front)
        BY <1>1, <2>1, <2>4, <3>3, <3>4, <3>6, <4>1, <4>4, FrontGrows
      <4>6. Taken(k, b1, rest) /\ k[rest].size = hdr[a].size - front
        BY <4>5 DEF CutAtBank
      <4>7. \A y \in DOMAIN k : y = rest + k[rest].size => ~ k[y].free
        BY <4>5 DEF CutAtBank
      <4>8. UsedKept(hdr, k, {rest})
        BY <4>5 DEF CutAtBank
      <4>9. k[rest].size >= FreeSize(n)
        BY <1>3, <3>5, <4>6
      <4>10. Give(Split([hdr |-> k, bins |-> b1], rest, FreeSize(n)), rest, p, n, ba)
        BY <3>1, <4>3
      <4>11. QED BY <3>7, <4>6, <4>7, <4>8, <4>9, <4>10, GivenKeeps
    <3>9. CASE front >= MinBlock
      <4>1. PICK h : h = Add2Bin([hdr |-> PutBlock(hdr, rest, NewBlock(hdr[a].size - front, front)),
                                  bins |-> b1], a, front)
        OBVIOUS
      <4>2. ~ (front < MinBlock) /\ ~ (hdr[a].size - front < MinBlock + Slack)
        BY ONLY <1>4, <2>3, <3>3, <3>6, <3>9
      <4>3. Give(Split(h, rest, FreeSize(n)), rest, p, n, TRUE)
        BY <2>4, <3>1, <3>2, <3>4, <4>1, <4>2 DEF TakeAtBank
      <4>4. PICK k, b : k = h.hdr /\ b = h.bins
        OBVIOUS
      <4>5. h = [hdr |-> k, bins |-> b]
        BY <4>1, <4>4 DEF Add2Bin
      <4>6. CutAtBank(hdr, k, b, rest, hdr[a].size - front)
        BY <1>1, <2>1, <2>4, <3>3, <3>4, <3>6, <3>9, <4>1, <4>4, FrontFree
      <4>7. Taken(k, b, rest) /\ k[rest].size = hdr[a].size - front
        BY <4>6 DEF CutAtBank
      <4>8. \A y \in DOMAIN k : y = rest + k[rest].size => ~ k[y].free
        BY <4>6 DEF CutAtBank
      <4>9. UsedKept(hdr, k, {rest})
        BY <4>6 DEF CutAtBank
      <4>10. k[rest].size >= FreeSize(n)
        BY <1>3, <3>5, <4>7
      <4>11. Give(Split([hdr |-> k, bins |-> b], rest, FreeSize(n)), rest, p, n, ba)
        BY <3>1, <4>3, <4>5
      <4>12. QED BY <3>7, <4>7, <4>8, <4>9, <4>10, <4>11, GivenKeeps
    <3>10. QED BY <1>4, <3>3, <3>8, <3>9
  <2>8. QED BY <2>6, <2>7
<1>8. QED BY <1>6, <1>7

LEMMA ReallocKeeps ==
    ASSUME HeapInv, NEW p \in Process, NEW a \in InUse, NEW n \in Request, Realloc(p, a, n)
    PROVE  HeapInv'
<1>1. Sound(hdr, bins) /\ Blocks(hdr) /\ hdr \in [DOMAIN hdr -> Block] /\ ~ lost /\ Promised(hdr, want)
  BY DEF HeapInv, Sound, Blocks
<1>2. PICK size : size = FreeSize(n)
  OBVIOUS
<1>3. size \in Nat /\ size >= MinBlock /\ n \in Nat /\ size >= n + Header /\ size = FreeSize(n)
  BY <1>2, RequestFacts
<1>4. Header \in Nat /\ MinBlock \in Nat
  BY HeapConstants
<1>5. PICK c : c = FindBin(size, FALSE)
  OBVIOUS
<1>6. a \in UsedOf(hdr) /\ a \in DOMAIN hdr /\ ~ hdr[a].free
  BY DEF InUse, UsedOf
<1>7. CASE hdr[a].size >= size
  <2>1. want' = [want EXCEPT ![a] = [size |-> n, ba |-> FALSE]] /\ hdr' = hdr /\ bins' = bins /\ lost' = lost
    BY <1>3, <1>7 DEF Realloc
  <2>2. PICK v : v = want'
    OBVIOUS
  <2>3. DOMAIN v = UsedOf(hdr) /\ \A x \in UsedOf(hdr) \ {a} : v[x] = want[x]
    BY <1>1, <2>1, <2>2 DEF Promised
  <2>4. PICK u : u = v[a]
    OBVIOUS
  <2>5. u = [size |-> n, ba |-> FALSE]
    BY <1>1, <1>6, <2>1, <2>2, <2>4 DEF Promised
  <2>6. u \in [size : Request \cup RequestBA, ba : BOOLEAN] /\ u.size = n /\ u.ba = FALSE
    BY <2>5
  <2>7. hdr[a].size >= n + Header
    <3>1. hdr[a].size \in Nat
      BY <1>1, <1>6, Fields
    <3>2. QED BY ONLY <1>3, <1>4, <1>7, <3>1
  <2>8. Holds(hdr, a, v[a])
    BY <2>4, <2>6, <2>7 DEF Holds
  <2>9. \A x \in UsedOf(hdr) \cap {a} : Holds(hdr, x, v[x])
    BY <2>8
  <2>10. UsedKept(hdr, hdr, {a})
    BY <1>1, SizesKept
  <2>11. Promised(hdr, v)
    BY <1>1, <2>3, <2>9, <2>10, PromisesKept
  <2>12. QED BY <1>1, <2>1, <2>2, <2>11 DEF HeapInv
<1>8. CASE ~ (hdr[a].size >= size) /\ Candidates(size, FALSE) = {}
  <2>1. UNCHANGED heapVars
    BY <1>3, <1>8 DEF Realloc
  <2>2. QED BY <2>1 DEF heapVars, HeapInv
<1>9. CASE ~ (hdr[a].size >= size) /\ Candidates(size, FALSE) # {}
  <2>1. c \in FreeOf(hdr) /\ hdr[c].free /\ Fits(c, size, FALSE)
    BY <1>3, <1>5, <1>9, FoundFits
  <2>2. c # a /\ c \notin UsedOf(hdr) /\ hdr[c].size >= size
    BY <1>6, <2>1 DEF UsedOf, Fits
  <2>3. PICK b1 : b1 = RemBin(bins, GetBin(hdr[c].size), c)
    OBVIOUS
  <2>4. Taken(hdr, b1, c) /\ \A y \in DOMAIN hdr : y = c + hdr[c].size => ~ hdr[y].free
    BY <1>1, <2>1, <2>3, TakenFromSound
  <2>5. PICK s : s = Split([hdr |-> hdr, bins |-> b1], c, size)
    OBVIOUS
  <2>6. PICK t, b : t = s.hdr /\ b = s.bins
    OBVIOUS
  <2>7. Taken(t, b, c) /\ t[c].size >= size /\ UsedKept(hdr, t, {c})
    BY <1>3, <2>2, <2>4, <2>5, <2>6, SplitKeeps
  <2>8. PICK o : o = Owned(t, c, p)
    OBVIOUS
  <2>9. p \in Process /\ o = Owned(t, c, p) /\ Taken(t, b, c)
    BY <2>7, <2>8
  <2>10. Sound(o, b)
    BY ONLY <2>9, GiveKeeps
  <2>11. UsedKept(t, o, {c})
    BY ONLY <2>9, GiveKeeps
  <2>12. c \in UsedOf(o)
    BY ONLY <2>9, GiveKeeps
  <2>13. o[c].size = t[c].size
    <3>1. t \in [DOMAIN t -> Block] /\ c \in DOMAIN t
      BY ONLY <2>9 DEF Taken, Blocks
    <3>2. t[c] \in Block
      BY ONLY <3>1
    <3>3. o[c] = [t[c] EXCEPT !.free = FALSE, !.own = p]
      BY ONLY <2>9, <3>1 DEF Owned
    <3>4. QED BY ONLY <3>2, <3>3 DEF Block
  <2>14. a \in UsedOf(o)
    BY <1>6, <2>2, <2>7, <2>11 DEF UsedKept
  <2>15. PICK i : i = [hdr |-> o, bins |-> b]
    OBVIOUS
  <2>16. PICK h : h = Free2(i, a)
    OBVIOUS
  <2>17. Sound(h.hdr, h.bins) /\ UsedKept(o, h.hdr, {a}) /\ UsedOf(h.hdr) = UsedOf(o) \ {a}
    BY <2>10, <2>14, <2>15, <2>16, Free2Keeps
  <2>18. PICK g : g = h.hdr
    OBVIOUS
  <2>19. /\ hdr' = g /\ bins' = h.bins /\ lost' = lost
         /\ want' = [x \in (DOMAIN want \ {a}) \cup {c} |->
                       IF x = c THEN [size |-> n, ba |-> FALSE] ELSE want[x]]
    BY <1>3, <1>5, <1>9, <2>1, <2>3, <2>5, <2>6, <2>8, <2>15, <2>16, <2>18 DEF Realloc
  <2>20. PICK v : v = want'
    OBVIOUS
  <2>21. /\ t \in [DOMAIN t -> Block] /\ o \in [DOMAIN o -> Block] /\ g \in [DOMAIN g -> Block]
         /\ hdr \in [DOMAIN hdr -> Block]
    BY <1>1, <2>7, <2>10, <2>17, <2>18 DEF Taken, Sound, Blocks
  <2>22. UsedKept(hdr, o, {c} \cup {c})
    BY <2>7, <2>11, <2>21, UsedKeptTwice
  <2>23. UsedKept(hdr, g, ({c} \cup {c}) \cup {a})
    BY <2>17, <2>18, <2>21, <2>22, UsedKeptTwice
  <2>24. PICK e : e = ({c} \cup {c}) \cup {a}
    OBVIOUS
  <2>25. UsedKept(hdr, g, e) /\ \A x : x \in e <=> x = c \/ x = a
    BY <2>23, <2>24
  <2>26. DOMAIN want = UsedOf(hdr)
    BY <1>1 DEF Promised
  <2>27. UsedOf(g) = (UsedOf(hdr) \ {a}) \cup {c}
    <3>1. UsedOf(o) = UsedOf(hdr) \cup {c}
      <4>1. UsedOf(o) \ ({c} \cup {c}) = UsedOf(hdr) \ ({c} \cup {c})
        BY <2>22 DEF UsedKept
      <4>2. QED BY <2>12, <4>1
    <3>2. QED BY <2>2, <2>17, <2>18, <3>1
  <2>28. DOMAIN v = UsedOf(g) /\ \A x \in UsedOf(g) \ e : v[x] = want[x]
    BY <2>19, <2>20, <2>25, <2>26, <2>27
  <2>29. PICK u : u = v[c]
    OBVIOUS
  <2>30. u = [size |-> n, ba |-> FALSE]
    BY <2>19, <2>20, <2>29
  <2>31. u \in [size : Request \cup RequestBA, ba : BOOLEAN] /\ u.size = n /\ u.ba = FALSE
    BY <2>30
  <2>32. g[c].size >= n + Header
    <3>1. c \in UsedOf(o) \ {a} /\ c \in UsedOf(g)
      BY <2>2, <2>12, <2>27
    <3>2. g[c].size >= o[c].size
      BY <2>17, <2>18, <3>1 DEF UsedKept
    <3>3. g[c].size \in Nat /\ o[c].size \in Nat /\ t[c].size \in Nat
      BY <2>13, <2>21, <3>1, Fields DEF UsedOf
    <3>4. QED BY ONLY <1>3, <1>4, <2>7, <2>13, <3>2, <3>3
  <2>33. Holds(g, c, v[c])
    BY <2>29, <2>31, <2>32 DEF Holds
  <2>34. \A x \in UsedOf(g) \cap e : Holds(g, x, v[x])
    <3>1. a \notin UsedOf(g)
      BY <2>2, <2>27
    <3>2. QED BY <2>25, <2>33, <3>1
  <2>35. Promised(g, v)
    BY <1>1, <2>21, <2>25, <2>28, <2>34, PromisesKept
  <2>36. QED BY <1>1, <2>17, <2>18, <2>19, <2>20, <2>35 DEF HeapInv
<1>10. QED BY <1>7, <1>8, <1>9

(* One free block, all of memory.                                          *)
LEMMA HeapStarts ==
    ASSUME HeapInit
    PROVE  HeapInv
<1>1. FirstRAM \in Nat /\ LastRAM \in Nat /\ MinBlock \in Nat /\ MinBlock > 0 /\ FirstRAM + MinBlock <= LastRAM
  BY HeapConstants
<1>2. PICK size : size = LastRAM - FirstRAM
  OBVIOUS
<1>3. size \in Nat /\ size >= MinBlock /\ size > 0 /\ FirstRAM + size = LastRAM /\ FirstRAM \in Addr
  BY ONLY <1>1, <1>2 DEF Addr
<1>4. PICK none : none = [prev |-> 0, size |-> size, free |-> FALSE, own |-> NoOwner]
  OBVIOUS
<1>5. none \in Block /\ none.prev = 0 /\ none.size = size
  BY <1>3, <1>4 DEF Block
<1>6. PICK f, b : f = [x \in {FirstRAM} |-> none] /\ b = [k \in 0 .. NBins - 1 |-> << >>]
  OBVIOUS
<1>7. f \in [DOMAIN f -> Block] /\ DOMAIN f = {FirstRAM} /\ f[FirstRAM] = none
  BY <1>5, <1>6
<1>8. PICK i : i = [hdr |-> f, bins |-> b]
  OBVIOUS
<1>9. PICK h : h = Add2Bin(i, FirstRAM, size)
  OBVIOUS
<1>10. hdr = h.hdr /\ bins = h.bins /\ want = << >> /\ lost = FALSE
  BY <1>2, <1>4, <1>6, <1>8, <1>9 DEF HeapInit
<1>11. i.hdr = f /\ FirstRAM \in DOMAIN f
  BY <1>7, <1>8
<1>12. /\ DOMAIN hdr = DOMAIN f /\ hdr \in [DOMAIN hdr -> Block]
       /\ hdr[FirstRAM].size = size /\ hdr[FirstRAM].prev = f[FirstRAM].prev /\ hdr[FirstRAM].free
  <2>1. hdr = Add2Bin(i, FirstRAM, size).hdr
    BY <1>9, <1>10
  <2>2. QED BY <1>3, <1>7, <1>11, <2>1, Add2BinIs
<1>13. DOMAIN hdr = {FirstRAM} /\ hdr[FirstRAM].prev = 0
  BY <1>5, <1>7, <1>12
<1>14. Blocks(hdr)
  <2>1. PICK D, S, P : D = DOMAIN hdr /\ S = SizeOf(hdr) /\ P = PrevOf(hdr)
    OBVIOUS
  <2>2. /\ S \in [D -> Nat] /\ P \in [D -> Nat] /\ S[FirstRAM] = size /\ P[FirstRAM] = 0
        /\ D = {FirstRAM}
    BY <1>12, <1>13, <2>1, Fields
  <2>3. D \subseteq FirstRAM .. LastRAM - 1
    BY <1>3, <2>2 DEF Addr
  <2>4. Row(D, S, P, FirstRAM, LastRAM)
    BY <1>1, <1>3, <2>2, <2>3 DEF Row
  <2>5. QED BY <1>3, <1>12, <1>13, <2>1, <2>4 DEF Blocks
<1>15. NoTwoFree(hdr, {})
  BY <1>1, <1>3, <1>12, <1>13 DEF NoTwoFree
<1>16. Binned(bins, FreeOf(hdr), hdr)
  <2>1. Binned(b, {}, f)
    <3>1. \A k \in 0 .. NBins - 1 : b[k] = << >>
      BY <1>6
    <3>2. << >> \in Seq(Addr) /\ Distinct(<< >>) /\ On(<< >>) = {}
      <4>1. PICK q : q = << >>
        OBVIOUS
      <4>2. q \in Seq(Addr) /\ Len(q) = 0 /\ DOMAIN q = {}
        BY ONLY <4>1
      <4>3. Distinct(q) /\ On(q) = {}
        BY ONLY <4>2 DEF Distinct, On, ToSet
      <4>4. QED BY <4>1, <4>2, <4>3
    <3>3. b \in [0 .. NBins - 1 -> Seq(Addr)]
      BY <1>6, <3>2
    <3>4. QED BY <3>1, <3>2, <3>3 DEF Binned
  <2>2. bins = [b EXCEPT ![GetBin(size)] = <<FirstRAM>> \o @]
    BY <1>8, <1>9, <1>10 DEF Add2Bin
  <2>3. FreeOf(hdr) = {} \cup {FirstRAM}
    BY <1>12, <1>13 DEF FreeOf
  <2>4. size \in Int /\ FirstRAM \in Addr /\ FirstRAM \notin {}
    BY <1>3
  <2>5. hdr[FirstRAM].size = size
    BY <1>12
  <2>6. Binned([b EXCEPT ![GetBin(size)] = <<FirstRAM>> \o @], {} \cup {FirstRAM}, hdr)
    BY <2>1, <2>4, <2>5, BinnedAdded
  <2>7. QED BY <2>2, <2>3, <2>6
<1>17. Promised(hdr, want)
  BY <1>10, <1>12, <1>13 DEF Promised, UsedOf
<1>18. QED BY <1>10, <1>14, <1>15, <1>16, <1>17 DEF HeapInv, Sound

(* What the invariant says is what the run checks.                         *)
LEMMA HeapInvSound ==
    ASSUME HeapInv
    PROVE  HeapSound
<1>1. /\ Sound(hdr, bins) /\ Blocks(hdr) /\ hdr \in [DOMAIN hdr -> Block] /\ lost = FALSE
      /\ Promised(hdr, want) /\ NoTwoFree(hdr, {}) /\ Binned(bins, FreeOf(hdr), hdr)
  BY DEF HeapInv, Sound, Blocks
<1>2. FirstRAM \in Nat /\ LastRAM \in Nat /\ MinBlock \in Nat
  BY HeapConstants
<1>3. HeapTypeOK
  <2>1. DOMAIN hdr \subseteq Addr
    BY <1>1, BlockFacts
  <2>2. ASSUME NEW a \in DOMAIN hdr
        PROVE  hdr[a] \in [prev : 0..LastRAM, size : MinBlock..LastRAM, free : BOOLEAN,
                           own : Process \cup {NoOwner}]
    <3>1. /\ hdr[a] \in Block /\ hdr[a].size \in Nat /\ hdr[a].size >= MinBlock /\ hdr[a].prev \in Nat
          /\ a \in Addr /\ a + hdr[a].size <= LastRAM
      BY <1>1, BlockFacts
    <3>2. hdr[a].size \in MinBlock .. LastRAM
      BY <1>2, <3>1 DEF Addr
    <3>3. hdr[a].prev \in 0 .. LastRAM
      <4>1. CASE a = FirstRAM
        <5>1. hdr[a].prev = 0
          BY <1>1, <4>1, BlockFacts
        <5>2. QED BY <1>2, <5>1
      <4>2. CASE a # FirstRAM
        <5>1. PICK x : x = a - hdr[a].prev
          OBVIOUS
        <5>2. x \in DOMAIN hdr /\ hdr[x].size = hdr[a].prev
          BY <1>1, <4>2, <5>1, BlockFacts
        <5>3. x + hdr[x].size <= LastRAM /\ x \in Addr
          BY <1>1, <5>2, BlockFacts
        <5>4. QED BY <1>2, <3>1, <5>2, <5>3 DEF Addr
      <4>3. QED BY <4>1, <4>2
    <3>4. PICK z \in Block : z = hdr[a]
      BY <3>1
    <3>5. z.size \in MinBlock .. LastRAM /\ z.prev \in 0 .. LastRAM
      BY <3>2, <3>3, <3>4
    <3>6. z \in [prev : 0..LastRAM, size : MinBlock..LastRAM, free : BOOLEAN,
                 own : Process \cup {NoOwner}]
      BY ONLY <3>5, z \in Block DEF Block
    <3>7. QED BY <3>4, <3>6
  <2>3. bins \in [0 .. NBins - 1 -> Seq(Addr)]
    BY <1>1 DEF Binned
  <2>4. DOMAIN want = {a \in DOMAIN hdr : ~ hdr[a].free}
    BY <1>1 DEF Promised, UsedOf
  <2>5. \A a \in DOMAIN want : want[a] \in [size : Request \cup RequestBA, ba : BOOLEAN]
    BY <1>1 DEF Promised, Holds
  <2>6. QED BY <1>1, <2>1, <2>2, <2>3, <2>4, <2>5 DEF HeapTypeOK
<1>4. Tiled
  <2>1. FirstRAM \in DOMAIN hdr /\ hdr[FirstRAM].prev = 0
    <3>1. FirstRAM \in DOMAIN hdr
      BY <1>1 DEF Blocks, Row
    <3>2. QED BY <1>1, <3>1, BlockFacts
  <2>2. ASSUME NEW a \in DOMAIN hdr
        PROVE  /\ a + hdr[a].size \in DOMAIN hdr \cup {LastRAM}
               /\ \A x \in DOMAIN hdr : x > a => x >= a + hdr[a].size
               /\ a # FirstRAM => a - hdr[a].prev \in DOMAIN hdr
                              /\ hdr[a - hdr[a].prev].size = hdr[a].prev
    BY <1>1, BlockFacts
  <2>3. QED BY <2>1, <2>2 DEF Tiled
<1>5. Coalesced
  <2>1. ASSUME NEW a \in DOMAIN hdr, hdr[a].free, a + hdr[a].size < LastRAM
        PROVE  ~ hdr[a + hdr[a].size].free
    <3>1. a + hdr[a].size \in DOMAIN hdr
      <4>1. a \in Int /\ hdr[a].size \in Nat /\ (a + hdr[a].size # LastRAM => a + hdr[a].size \in DOMAIN hdr)
        BY <1>1, BlockFacts
      <4>2. QED BY <1>2, <2>1, <4>1
    <3>2. QED BY <1>1, <2>1, <3>1 DEF NoTwoFree
  <2>2. QED BY <2>1 DEF Coalesced
<1>6. BinsExact
  <2>1. ASSUME NEW k \in DOMAIN bins
        PROVE  /\ Distinct(bins[k])
               /\ On(bins[k]) = {a \in DOMAIN hdr : hdr[a].free /\ GetBin(hdr[a].size) = k}
    <3>1. k \in 0 .. NBins - 1
      BY <1>1 DEF Binned
    <3>2. Distinct(bins[k]) /\ On(bins[k]) = {x \in FreeOf(hdr) : GetBin(hdr[x].size) = k}
      BY <1>1, <3>1 DEF Binned
    <3>3. QED BY <3>2 DEF FreeOf
  <2>2. QED BY <2>1 DEF BinsExact
<1>7. FindsFit
  BY FitsFound
<1>8. Usable
  BY <1>1 DEF Usable, Promised, Holds
<1>9. QED BY <1>3, <1>4, <1>5, <1>6, <1>7, <1>8 DEF HeapSound

(* After any history of requests, frees and deaths of processes the blocks *)
(* fill memory, no two free ones side by side, each free one is in its bin *)
(* and each other one is as large as was promised.                         *)
THEOREM HeapInvariant == BigBA => (HeapSpec => []HeapInv)
<1> SUFFICES ASSUME BigBA PROVE HeapSpec => []HeapInv
  OBVIOUS
<1>1. HeapInit => HeapInv
  BY HeapStarts
<1>2. ASSUME HeapInv, [HeapNext]_heapVars
      PROVE  HeapInv'
  <2>1. ASSUME NEW p \in Process, NEW n \in Request, Malloc(p, n, FALSE)
        PROVE  HeapInv'
    BY <1>2, <2>1, MallocKeeps
  <2>2. ASSUME NEW p \in Process, NEW n \in RequestBA, Malloc(p, n, TRUE)
        PROVE  HeapInv'
    BY <1>2, <2>2, MallocKeeps
  <2>3. ASSUME NEW p \in Process, NEW a \in InUse, NEW n \in Request, Realloc(p, a, n)
        PROVE  HeapInv'
    BY <1>2, <2>3, ReallocKeeps
  <2>4. ASSUME NEW p \in Process, KillMem(p)
        PROVE  HeapInv'
    BY <1>2, <2>4, KillMemKeeps
  <2>5. ASSUME NEW a \in InUse, Free(a)
        PROVE  HeapInv'
    BY <1>2, <2>5, FreeKeeps
  <2>6. CASE UNCHANGED heapVars
    BY <1>2, <2>6 DEF heapVars, HeapInv
  <2>7. QED BY <1>2, <2>1, <2>2, <2>3, <2>4, <2>5, <2>6 DEF HeapNext
<1>3. QED BY <1>1, <1>2, PTL DEF HeapSpec

(* The memory manager keeps its headers, its bins and its promises, and    *)
(* finds a block whenever there is one, for any memory, sizes and history. *)
THEOREM HeapIsSound == BigBA => (HeapSpec => []HeapSound)
<1>1. HeapInv => HeapSound
  BY HeapInvSound
<1>2. QED BY <1>1, HeapInvariant, PTL

-----------------------------------------------------------------------------
(* The pipe server *)

Waiting == {"reply", "dieing"}
Counted == [len : Nat, from : Nat]
Inodes == [HasRW : SUBSET Clients, RRcv : {NoClient, "reader"}, RLen : Nat,
           WRcv : {NoClient, "writer"}, WPtr : Nat, WLeft : Nat, WDone : Nat]
Finishings == [inode : Inodes, closer : {NoClient, "reader"}]

PipeTypes ==
    /\ inode \in Inodes /\ finishing \in Seq(Finishings) /\ Len(finishing) <= 1
    /\ sender \in Seq(Clients) /\ Distinct(sender)
    /\ died \in Seq(Clients) /\ Distinct(died) /\ files \subseteq Clients
    /\ client \in [Clients -> ClientStates] /\ process \in [Clients -> ProcessStates]
    /\ message \in [Clients -> Counted]
    /\ told \in [Clients -> Nat \cup {Failed}] /\ taken \in Seq(Nat)

(* How far a process is in exit_S, and what its thread can still do.        *)
Alive(c) == process[c] \in {"up", "signalled"}
Lives(c) ==
    /\ client[c] \in {"runs", "send", "reply"} <=> Alive(c)
    /\ process[c] \in {"closes", "over"} => client[c] \in {"ends", "gone"} /\ c \notin files
    /\ client[c] = "send" => c \in On(sender)
    /\ c \in On(sender) => client[c] = "send" \/ process[c] = "closes"
    /\ c \in On(died) => ~ Alive(c)
    /\ client[c] = "send" /\ c \in files => message[c].len > 0

(* Between two messages: who waits, and for what.                          *)
Between ==
    /\ KnowsWhoWaits /\ files \subseteq inode.HasRW
    /\ inode.RRcv = "reader" => /\ inode.WRcv = NoClient /\ "reader" \in files
                                /\ "writer" \in inode.HasRW
                                /\ inode.RLen = message["reader"].len /\ inode.RLen > 0
    /\ inode.WRcv = "writer" => /\ "writer" \in files /\ "reader" \in inode.HasRW
                                /\ inode.WPtr = message["writer"].from + inode.WDone
                                /\ inode.WDone + inode.WLeft = message["writer"].len
                                /\ inode.WLeft > 0 /\ Len(taken) = inode.WPtr

(* While the writer without a reader is being killed.                      *)
Killing(f) ==
    /\ f.inode.WRcv = "writer" /\ f.inode.RRcv = NoClient /\ "reader" \notin f.inode.HasRW
    /\ files \subseteq f.inode.HasRW /\ f.inode.HasRW \subseteq inode.HasRW
    /\ client["writer"] \in Waiting
    /\ client["reader"] \in Waiting => f.closer = "reader"
    /\ f.closer = "reader" => "reader" \notin On(sender)

(* How far the writer's bytes are, as long as there is somebody to read.    *)
Progress ==
    "reader" \in inode.HasRW /\ "writer" \in files =>
      /\ client["writer"] = "send" => Len(taken) = message["writer"].from
      /\ client["writer"] = "runs" => Len(taken) = Written

Truth ==
    /\ \A k \in DOMAIN taken : taken[k] = k
    /\ Answered("writer") =>
         IF told["writer"] = Failed THEN "reader" \notin inode.HasRW
         ELSE told["writer"] = message["writer"].len /\ Len(taken) = Written
    /\ Answered("reader") =>
         IF told["reader"] = 0 THEN "writer" \notin inode.HasRW
         ELSE told["reader"] \in 1..message["reader"].len

(* The inductive invariant.                                                *)
PipeInv ==
    /\ PipeTypes /\ \A c \in Clients : Lives(c)
    /\ Serving => Between
    /\ ~ Serving => Killing(Head(finishing))
    /\ Progress /\ Truth

-----------------------------------------------------------------------------

LEMMA ClientsAre ==
    /\ Clients = {"reader", "writer"} /\ NoClient \notin Clients
    /\ ClientStates = {"runs", "send", "reply", "dieing", "ends", "gone"}
    /\ ProcessStates = {"up", "signalled", "exits", "closes", "over"}
BY DEF Clients, NoClient, ClientStates, ProcessStates

LEMMA InitPipeInv ==
    ASSUME PipeInit
    PROVE  PipeInv
<1>1. On(<<>>) = {} /\ Distinct(<<>>) /\ <<>> \in Seq(Clients) /\ <<>> \in Seq(Nat)
      /\ <<>> \in Seq(Finishings) /\ Len(<<>>) = 0
  BY EmptySeq DEF On, ToSet, Distinct
<1>2. PipeTypes
  <2>1. inode \in Inodes
    BY DEF PipeInit, Inodes, Clients, NoClient
  <2>2. message \in [Clients -> Counted] /\ told \in [Clients -> Nat \cup {Failed}]
    BY DEF PipeInit, Counted, NoMessage
  <2>3. QED BY <1>1, <2>1, <2>2, ClientsAre DEF PipeTypes, PipeInit
<1>3. ASSUME NEW c \in Clients PROVE Lives(c)
  BY <1>1 DEF Lives, Alive, PipeInit
<1>4. Serving /\ Between
  BY <1>1 DEF Serving, Between, KnowsWhoWaits, PipeInit, NoClient, Clients
<1>5. Written = 0
  BY DEF Written, PipeInit, NoMessage, Clients
<1>6. Progress
  BY <1>1, <1>5, ClientsAre DEF Progress, PipeInit
<1>7. Truth
  <2>1. ~ Answered("writer") /\ ~ Answered("reader")
    BY ClientsAre DEF Answered, PipeInit
  <2>2. QED BY <1>1, <2>1 DEF Truth, PipeInit
<1>8. QED BY <1>2, <1>3, <1>4, <1>6, <1>7 DEF PipeInv

-----------------------------------------------------------------------------
(* What the two processes do.                                              *)

(* The server's books stay right as long as nobody who waits is touched.    *)
LEMMA BooksStay ==
    ASSUME PipeInv, UNCHANGED <<inode, finishing, taken>>, files' \subseteq files,
           On(sender') \subseteq On(sender) \cup files,
           \A c \in Clients : client'[c] \in Waiting <=> client[c] \in Waiting,
           \A c \in Clients : client[c] \in Waiting =>
              message'[c] = message[c] /\ (c \in files => c \in files')
    PROVE  /\ (Serving => Between)' /\ (~ Serving => Killing(Head(finishing)))'
<1>1. Serving' <=> Serving
  BY DEF Serving
<1>2. ASSUME Between, Serving PROVE Between'
  <2>1. KnowsWhoWaits'
    BY <1>2 DEF Between, KnowsWhoWaits, Waiting
  <2>2. \A c \in Clients : c \in {inode.RRcv, inode.WRcv} => client[c] \in Waiting
    BY <1>2 DEF Between, KnowsWhoWaits, Waiting
  <2>3. inode.RRcv = "reader" =>
          message'["reader"] = message["reader"] /\ ("reader" \in files => "reader" \in files')
    BY <2>2, ClientsAre
  <2>4. inode.WRcv = "writer" =>
          message'["writer"] = message["writer"] /\ ("writer" \in files => "writer" \in files')
    BY <2>2, ClientsAre
  <2>5. QED BY <1>2, <2>1, <2>3, <2>4 DEF Between
<1>3. ASSUME NEW f, Killing(f) PROVE Killing(f)'
  BY <1>3, ClientsAre DEF Killing
<1>4. ASSUME ~ Serving, Killing(Head(finishing)) PROVE Killing(Head(finishing))'
  <2>1. PICK f : f = Head(finishing)
    OBVIOUS
  <2>2. Killing(f)'
    BY <1>3, <1>4, <2>1
  <2>3. f = Head(finishing)'
    BY <2>1
  <2>4. QED BY <2>2, <2>3 DEF Killing
<1>5. QED BY <1>1, <1>2, <1>4 DEF PipeInv

(* And what was true stays true, as long as nobody returns from a call.     *)
LEMMA TruthStays ==
    ASSUME PipeInv, UNCHANGED <<inode, taken, told>>,
           \A c \in Clients : client'[c] \in {"runs", "send"} /\ c \in files' =>
              client'[c] = client[c] /\ c \in files /\ message'[c] = message[c]
    PROVE  Progress' /\ Truth'
<1>1. Progress'
  BY ClientsAre DEF PipeInv, Progress, Written
<1>2. ASSUME NEW c \in Clients, Answered(c)' PROVE Answered(c) /\ message'[c] = message[c]
  BY <1>2 DEF Answered
<1>3. Truth'
  BY <1>2, ClientsAre DEF PipeInv, Truth, Written
<1>4. QED BY <1>1, <1>3

(* A message is linked at the end of CHAN_Send.                             *)
LEMMA SendsLinks ==
    ASSUME PipeInv, NEW c \in Clients, client[c] = "runs", Sends(c)
    PROVE  /\ c \notin On(sender)
           /\ sender' \in Seq(Clients) /\ Distinct(sender') /\ On(sender') = On(sender) \cup {c}
           /\ client' \in [Clients -> ClientStates]
           /\ \A d \in Clients : client'[d] = IF d = c THEN "send" ELSE client[d]
           /\ Alive(c) /\ UNCHANGED <<inode, finishing, died, process, told, taken>>
<1>1. sender \in Seq(Clients) /\ Distinct(sender) /\ client \in [Clients -> ClientStates]
  BY DEF PipeInv, PipeTypes
<1>2. Alive(c) /\ c \notin On(sender)
  BY DEF PipeInv, Lives, Alive
<1>3. QED BY <1>1, <1>2, AppendLinks DEF Sends, ClientStates

LEMMA ReadCalledKeeps ==
    ASSUME PipeInv, ReadCalled
    PROVE  PipeInv'
<1>1. PICK n \in Sizes : message' = [message EXCEPT !["reader"] = [len |-> n, from |-> 0]]
  BY DEF ReadCalled
<1>2. /\ client["reader"] = "runs" /\ "reader" \in files /\ UNCHANGED files
      /\ Sends("reader") /\ "reader" \in Clients
  BY ClientsAre DEF ReadCalled, InProgram
<1>3. n \in Nat /\ n > 0
  BY PipeAssumption
<1>4. message \in [Clients -> Counted] /\ [len |-> n, from |-> 0] \in Counted
  BY <1>3 DEF PipeInv, PipeTypes, Counted
<1>5. /\ message' \in [Clients -> Counted] /\ message'["reader"].len = n
      /\ message'["writer"] = message["writer"]
  BY <1>1, <1>4, ClientsAre
<1>6. PipeTypes'
  BY <1>2, <1>5, SendsLinks DEF PipeInv, PipeTypes
<1>7. ASSUME NEW c \in Clients PROVE Lives(c)'
  <2>1. Lives(c) /\ UNCHANGED <<process, died, files>>
    BY <1>2, SendsLinks DEF PipeInv
  <2>2. c # "reader" => message'[c] = message[c]
    BY <1>5, ClientsAre
  <2>3. QED BY <1>2, <1>3, <1>5, <2>1, <2>2, SendsLinks DEF Lives, Alive
<1>8. (Serving => Between)' /\ (~ Serving => Killing(Head(finishing)))'
  <2>1. \A c \in Clients : client'[c] \in Waiting <=> client[c] \in Waiting
    BY <1>2, SendsLinks DEF Waiting
  <2>2. \A c \in Clients : client[c] \in Waiting => message'[c] = message[c]
    BY <1>2, <1>5, ClientsAre DEF Waiting
  <2>3. QED BY <1>2, <2>1, <2>2, SendsLinks, BooksStay
<1>9. Progress' /\ Truth'
  <2>1. UNCHANGED <<inode, taken, told, files>> /\ client'["writer"] = client["writer"] /\ client'["reader"] = "send"
    BY <1>2, SendsLinks, ClientsAre
  <2>2. Progress'
    BY <1>5, <2>1 DEF PipeInv, Progress, Written
  <2>3. Truth'
    <3>1. ~ Answered("reader")' /\ (Answered("writer")' <=> Answered("writer"))
      BY <1>5, <2>1 DEF Answered
    <3>2. QED BY <1>5, <2>1, <3>1 DEF PipeInv, Truth, Written
  <2>4. QED BY <2>2, <2>3
<1>10. QED BY <1>6, <1>7, <1>8, <1>9 DEF PipeInv

LEMMA WriteCalledKeeps ==
    ASSUME PipeInv, WriteCalled
    PROVE  PipeInv'
<1>1. PICK n \in Sizes : message' = [message EXCEPT !["writer"] = [len |-> n, from |-> Written]]
  BY DEF WriteCalled
<1>2. /\ client["writer"] = "runs" /\ "writer" \in files /\ UNCHANGED files
      /\ Sends("writer") /\ "writer" \in Clients
  BY ClientsAre DEF WriteCalled, InProgram
<1>3. n \in Nat /\ n > 0
  BY PipeAssumption
<1>4. message \in [Clients -> Counted] /\ [len |-> n, from |-> Written] \in Counted
  BY <1>2, <1>3 DEF PipeInv, PipeTypes, Counted, Written
<1>5. /\ message' \in [Clients -> Counted] /\ message'["writer"].len = n
      /\ message'["writer"].from = Written /\ message'["reader"] = message["reader"]
  BY <1>1, <1>4, ClientsAre
<1>6. PipeTypes'
  BY <1>2, <1>5, SendsLinks DEF PipeInv, PipeTypes
<1>7. ASSUME NEW c \in Clients PROVE Lives(c)'
  <2>1. Lives(c) /\ UNCHANGED <<process, died, files>>
    BY <1>2, SendsLinks DEF PipeInv
  <2>2. c # "writer" => message'[c] = message[c]
    BY <1>5, ClientsAre
  <2>3. QED BY <1>2, <1>3, <1>5, <2>1, <2>2, SendsLinks DEF Lives, Alive
<1>8. (Serving => Between)' /\ (~ Serving => Killing(Head(finishing)))'
  <2>1. \A c \in Clients : client'[c] \in Waiting <=> client[c] \in Waiting
    BY <1>2, SendsLinks DEF Waiting
  <2>2. \A c \in Clients : client[c] \in Waiting => message'[c] = message[c]
    BY <1>2, <1>5, ClientsAre DEF Waiting
  <2>3. QED BY <1>2, <2>1, <2>2, SendsLinks, BooksStay
<1>9. Progress' /\ Truth'
  <2>1. UNCHANGED <<inode, taken, told, files>> /\ client'["reader"] = client["reader"] /\ client'["writer"] = "send"
    BY <1>2, SendsLinks, ClientsAre
  <2>2. Progress'
    BY <1>2, <1>5, <2>1 DEF PipeInv, Progress
  <2>3. Truth'
    <3>1. ~ Answered("writer")' /\ (Answered("reader")' <=> Answered("reader"))
      BY <1>5, <2>1 DEF Answered
    <3>2. QED BY <1>5, <2>1, <3>1 DEF PipeInv, Truth
  <2>4. QED BY <2>2, <2>3
<1>10. QED BY <1>6, <1>7, <1>8, <1>9 DEF PipeInv

LEMMA RemConKeeps ==
    ASSUME PipeInv, NEW c \in Clients, RemCon(c)
    PROVE  PipeInv'
<1>1. /\ client[c] = "runs" /\ files' = files \ {c} /\ UNCHANGED message /\ Sends(c)
  BY DEF RemCon, InProgram
<1>2. PipeTypes'
  BY <1>1, SendsLinks DEF PipeInv, PipeTypes
<1>3. ASSUME NEW d \in Clients PROVE Lives(d)'
  <2>1. Lives(d) /\ UNCHANGED <<process, died, message>>
    BY <1>1, SendsLinks DEF PipeInv
  <2>2. QED BY <1>1, <2>1, SendsLinks DEF Lives, Alive
<1>4. (Serving => Between)' /\ (~ Serving => Killing(Head(finishing)))'
  <2>1. c \in files
    BY DEF RemCon
  <2>2. \A d \in Clients : client'[d] \in Waiting <=> client[d] \in Waiting
    BY <1>1, SendsLinks DEF Waiting
  <2>3. \A d \in Clients : client[d] \in Waiting => (d \in files => d \in files')
    BY <1>1 DEF Waiting
  <2>4. QED BY <1>1, <2>1, <2>2, <2>3, SendsLinks, BooksStay
<1>5. Progress' /\ Truth'
  BY <1>1, SendsLinks, TruthStays
<1>6. QED BY <1>2, <1>3, <1>4, <1>5 DEF PipeInv

(* The steps that take a thread and its process further towards the end.    *)
LEMMA ProgramEndsKeeps ==
    ASSUME PipeInv, NEW c \in Clients, ProgramEnds(c)
    PROVE  PipeInv'
<1>1. /\ client[c] = "runs" /\ c \notin files
      /\ client' = [client EXCEPT ![c] = "gone"] /\ process' = [process EXCEPT ![c] = "over"]
      /\ UNCHANGED <<inode, finishing, sender, died, files, message, told, taken>>
  BY DEF ProgramEnds, InProgram
<1>2. client \in [Clients -> ClientStates] /\ process \in [Clients -> ProcessStates]
  BY DEF PipeInv, PipeTypes
<1>3. /\ client' \in [Clients -> ClientStates] /\ process' \in [Clients -> ProcessStates]
      /\ \A d \in Clients : client'[d] = IF d = c THEN "gone" ELSE client[d]
      /\ \A d \in Clients : process'[d] = IF d = c THEN "over" ELSE process[d]
  BY <1>1, <1>2, ClientsAre
<1>4. PipeTypes'
  BY <1>1, <1>3 DEF PipeInv, PipeTypes
<1>5. ASSUME NEW d \in Clients PROVE Lives(d)'
  BY <1>1, <1>3 DEF PipeInv, Lives, Alive
<1>6. (Serving => Between)' /\ (~ Serving => Killing(Head(finishing)))'
  <2>1. \A d \in Clients : client'[d] \in Waiting <=> client[d] \in Waiting
    BY <1>1, <1>3 DEF Waiting
  <2>2. QED BY <1>1, <2>1, BooksStay
<1>7. Progress' /\ Truth'
  BY <1>1, <1>3, TruthStays
<1>8. QED BY <1>4, <1>5, <1>6, <1>7 DEF PipeInv

LEMMA KillKeeps ==
    ASSUME PipeInv, NEW c \in Clients, Kill(c)
    PROVE  PipeInv'
<1>1. /\ process' = Pends(c)
      /\ UNCHANGED <<inode, finishing, sender, died, client, files, message, told, taken>>
  BY DEF Kill
<1>2. process \in [Clients -> ProcessStates]
  BY DEF PipeInv, PipeTypes
<1>3. /\ process' \in [Clients -> ProcessStates]
      /\ \A d \in Clients : process'[d] = IF d = c /\ process[d] = "up" THEN "signalled" ELSE process[d]
  BY <1>1, <1>2 DEF Pends, ProcessStates
<1>4. PipeTypes'
  BY <1>1, <1>3 DEF PipeInv, PipeTypes
<1>5. ASSUME NEW d \in Clients PROVE Lives(d)'
  BY <1>1, <1>3 DEF PipeInv, Lives, Alive
<1>6. (Serving => Between)' /\ (~ Serving => Killing(Head(finishing)))'
  BY <1>1, BooksStay
<1>7. Progress' /\ Truth'
  BY <1>1, TruthStays
<1>8. QED BY <1>4, <1>5, <1>6, <1>7 DEF PipeInv

LEMMA SigTryKeeps ==
    ASSUME PipeInv, NEW c \in Clients, SigTry(c)
    PROVE  PipeInv'
<1>1. /\ process[c] = "signalled" /\ process' = [process EXCEPT ![c] = "exits"]
      /\ client' = [client EXCEPT ![c] = IF @ = "reply" THEN "dieing" ELSE "gone"]
      /\ sender' = (IF client[c] = "send" THEN Without(sender, c) ELSE sender)
      /\ died' = (IF client[c] = "reply" THEN <<c>> \o died ELSE died)
      /\ UNCHANGED <<inode, finishing, files, message, told, taken>>
  BY DEF SigTry
<1>2. /\ client \in [Clients -> ClientStates] /\ process \in [Clients -> ProcessStates]
      /\ sender \in Seq(Clients) /\ Distinct(sender) /\ died \in Seq(Clients) /\ Distinct(died)
  BY DEF PipeInv, PipeTypes
<1>3. Alive(c) /\ client[c] \in {"runs", "send", "reply"} /\ c \notin On(died)
      /\ (c \in On(sender) <=> client[c] = "send")
  BY <1>1 DEF PipeInv, Lives, Alive
<1>4. /\ client' \in [Clients -> ClientStates] /\ process' \in [Clients -> ProcessStates]
      /\ \A d \in Clients :
           client'[d] = IF d # c THEN client[d] ELSE IF client[c] = "reply" THEN "dieing" ELSE "gone"
      /\ \A d \in Clients : process'[d] = IF d = c THEN "exits" ELSE process[d]
  BY <1>1, <1>2, ClientsAre
<1>5. sender' \in Seq(Clients) /\ Distinct(sender') /\ On(sender') = On(sender) \ {c}
  BY <1>1, <1>2, <1>3, WithoutUnlinks
<1>6. died' \in Seq(Clients) /\ Distinct(died') /\ On(died') \subseteq On(died) \cup {c}
  BY <1>1, <1>2, <1>3, PrependLinks
<1>7. PipeTypes'
  BY <1>1, <1>4, <1>5, <1>6 DEF PipeInv, PipeTypes
<1>8. ASSUME NEW d \in Clients PROVE Lives(d)'
  <2>1. Lives(d)
    BY DEF PipeInv
  <2>2. CASE d = c
    BY <1>1, <1>3, <1>4, <1>5, <2>2 DEF Lives, Alive
  <2>3. CASE d # c
    BY <1>1, <1>4, <1>5, <1>6, <2>1, <2>3 DEF Lives, Alive
  <2>4. QED BY <2>2, <2>3
<1>9. (Serving => Between)' /\ (~ Serving => Killing(Head(finishing)))'
  <2>1. \A d \in Clients : client'[d] \in Waiting <=> client[d] \in Waiting
    BY <1>3, <1>4 DEF Waiting
  <2>2. QED BY <1>1, <1>5, <2>1, BooksStay
<1>10. Progress' /\ Truth'
  BY <1>1, <1>3, <1>4, TruthStays
<1>11. QED BY <1>7, <1>8, <1>9, <1>10 DEF PipeInv

LEMMA ExtraKillKeeps ==
    ASSUME PipeInv, NEW c \in Clients, ExtraKill(c)
    PROVE  PipeInv'
<1>1. /\ client[c] = "ends" /\ client' = [client EXCEPT ![c] = "gone"]
      /\ UNCHANGED <<inode, finishing, sender, died, process, files, message, told, taken>>
  BY DEF ExtraKill
<1>2. client \in [Clients -> ClientStates]
  BY DEF PipeInv, PipeTypes
<1>3. /\ client' \in [Clients -> ClientStates]
      /\ \A d \in Clients : client'[d] = IF d = c THEN "gone" ELSE client[d]
  BY <1>1, <1>2, ClientsAre
<1>4. PipeTypes'
  BY <1>1, <1>3 DEF PipeInv, PipeTypes
<1>5. ASSUME NEW d \in Clients PROVE Lives(d)'
  BY <1>1, <1>3 DEF PipeInv, Lives, Alive
<1>6. (Serving => Between)' /\ (~ Serving => Killing(Head(finishing)))'
  <2>1. \A d \in Clients : client'[d] \in Waiting <=> client[d] \in Waiting
    BY <1>1, <1>3 DEF Waiting
  <2>2. QED BY <1>1, <2>1, BooksStay
<1>7. Progress' /\ Truth'
  BY <1>1, <1>3, TruthStays
<1>8. QED BY <1>4, <1>5, <1>6, <1>7 DEF PipeInv

LEMMA ExitClosesKeeps ==
    ASSUME PipeInv, NEW c \in Clients, ExitCloses(c)
    PROVE  PipeInv'
<1>1. /\ process[c] = "exits" /\ client[c] \in {"ends", "gone"}
      /\ process' = [process EXCEPT ![c] = IF c \in files THEN "closes" ELSE "over"]
      /\ sender' = (IF c \in files THEN Append(sender, c) ELSE sender)
      /\ files' = files \ {c} /\ UNCHANGED <<inode, finishing, died, client, message, told, taken>>
  BY DEF ExitCloses
<1>2. /\ process \in [Clients -> ProcessStates] /\ sender \in Seq(Clients) /\ Distinct(sender)
      /\ c \notin On(sender)
  BY <1>1 DEF PipeInv, PipeTypes, Lives, Alive
<1>3. /\ process' \in [Clients -> ProcessStates]
      /\ \A d \in Clients :
           process'[d] = IF d # c THEN process[d] ELSE IF c \in files THEN "closes" ELSE "over"
  BY <1>1, <1>2, ClientsAre
<1>4. /\ sender' \in Seq(Clients) /\ Distinct(sender')
      /\ On(sender') = IF c \in files THEN On(sender) \cup {c} ELSE On(sender)
  <2>1. CASE c \in files
    BY <1>1, <1>2, <2>1, AppendLinks
  <2>2. CASE c \notin files
    BY <1>1, <1>2, <2>2
  <2>3. QED BY <2>1, <2>2
<1>5. PipeTypes'
  BY <1>1, <1>3, <1>4 DEF PipeInv, PipeTypes
<1>6. ASSUME NEW d \in Clients PROVE Lives(d)'
  <2>1. Lives(d)
    BY DEF PipeInv
  <2>2. CASE d = c
    BY <1>1, <1>2, <1>3, <1>4, <2>1, <2>2 DEF Lives, Alive
  <2>3. CASE d # c
    BY <1>1, <1>3, <1>4, <2>1, <2>3 DEF Lives, Alive
  <2>4. QED BY <2>2, <2>3
<1>7. (Serving => Between)' /\ (~ Serving => Killing(Head(finishing)))'
  <2>1. \A d \in Clients : client[d] \in Waiting => (d \in files => d \in files')
    BY <1>1 DEF Waiting
  <2>2. On(sender') \subseteq On(sender) \cup files
    BY <1>4
  <2>3. QED BY <1>1, <2>1, <2>2, BooksStay
<1>8. Progress' /\ Truth'
  BY <1>1, TruthStays
<1>9. QED BY <1>5, <1>6, <1>7, <1>8 DEF PipeInv

-----------------------------------------------------------------------------
(* What the server does.                                                   *)

LEMMA InodeFields ==
    ASSUME NEW i \in Inodes
    PROVE  /\ i.HasRW \subseteq Clients /\ i.RRcv \in {NoClient, "reader"}
           /\ i.WRcv \in {NoClient, "writer"}
           /\ i.RLen \in Nat /\ i.WPtr \in Nat /\ i.WLeft \in Nat /\ i.WDone \in Nat
BY DEF Inodes

(* The cases of tryRead.                                                   *)
LEMMA tryReadIs ==
    ASSUME NEW i \in Inodes
    PROVE  /\ i.RRcv = NoClient =>
                /\ tryRead(i).inode = i /\ tryRead(i).answers = NoAnswer /\ tryRead(i).moved = <<>>
                /\ tryRead(i).kills <=> i.WRcv # NoClient /\ "reader" \notin i.HasRW
           /\ i.RRcv # NoClient => tryRead(i).kills = FALSE
           /\ i.RRcv # NoClient /\ "writer" \notin i.HasRW =>
                /\ tryRead(i).inode = [i EXCEPT !.RRcv = NoClient]
                /\ tryRead(i).answers = [c \in {i.RRcv} |-> 0] /\ tryRead(i).moved = <<>>
           /\ i.RRcv # NoClient /\ "writer" \in i.HasRW /\ i.WRcv = NoClient =>
                tryRead(i).inode = i /\ tryRead(i).answers = NoAnswer /\ tryRead(i).moved = <<>>
<1>1. CASE i.RRcv = NoClient
  BY <1>1 DEF tryRead
<1>2. CASE i.RRcv # NoClient /\ "writer" \notin i.HasRW
  BY <1>2 DEF tryRead
<1>3. CASE i.RRcv # NoClient /\ "writer" \in i.HasRW /\ i.WRcv = NoClient
  BY <1>3 DEF tryRead
<1>4. CASE i.RRcv # NoClient /\ "writer" \in i.HasRW /\ i.WRcv # NoClient
  BY <1>4 DEF tryRead
<1>5. QED BY <1>1, <1>2, <1>3, <1>4

LEMMA tryReadMoves ==
    ASSUME NEW i \in Inodes, i.RRcv = "reader", i.WRcv = "writer", "writer" \in i.HasRW,
           i.RLen > 0, i.WLeft > 0
    PROVE  \E n \in 1..i.RLen :
             /\ n <= i.WLeft /\ ~ tryRead(i).kills
             /\ tryRead(i).inode = Transfer(i, n)
             /\ tryRead(i).moved = [k \in 1..n |-> i.WPtr + k]
             /\ tryRead(i).answers = [c \in IF i.WLeft = n THEN Clients ELSE {"reader"} |->
                                         IF c = "reader" THEN n ELSE i.WDone + n]
<1> DEFINE n == IF i.RLen < i.WLeft THEN i.RLen ELSE i.WLeft
<1>1. n \in 1..i.RLen /\ n <= i.WLeft
  BY InodeFields
<1>2. /\ Transfer(i, n).WRcv = (IF i.WLeft = n THEN NoClient ELSE "writer")
      /\ Transfer(i, n).WDone = i.WDone + n
  BY DEF Transfer, Inodes
<1>3. {"reader"} \cup ({"writer"} \ {Transfer(i, n).WRcv}) = IF i.WLeft = n THEN Clients ELSE {"reader"}
  BY <1>2 DEF NoClient, Clients
<1>4. /\ ~ tryRead(i).kills /\ tryRead(i).inode = Transfer(i, n)
      /\ tryRead(i).moved = [k \in 1..n |-> i.WPtr + k]
      /\ tryRead(i).answers = [c \in {"reader"} \cup ({"writer"} \ {Transfer(i, n).WRcv}) |->
                                  IF c = "reader" THEN n ELSE Transfer(i, n).WDone]
  BY DEF tryRead, NoClient
<1>5. QED BY <1>1, <1>2, <1>3, <1>4

(* The first message of CHAN_Send is taken.                                *)
LEMMA TakesOff ==
    ASSUME PipeInv, NEW d \in Clients, Takes(d)
    PROVE  /\ Serving /\ Between /\ inode \in Inodes
           /\ sender' \in Seq(Clients) /\ Distinct(sender') /\ On(sender') = On(sender) \ {d}
           /\ client[d] = "send" \/ (process[d] = "closes" /\ client[d] \in {"ends", "gone"} /\ d \notin files)
           /\ d \in files => client[d] = "send" /\ message[d].len > 0
           /\ d \notin {inode.RRcv, inode.WRcv}
           /\ Received(d) \in [Clients -> ClientStates]
           /\ \A c \in Clients :
                Received(d)[c] = IF c = d /\ client[c] = "send" THEN "reply" ELSE client[c]
<1>1. sender \in Seq(Clients) /\ Distinct(sender) /\ client \in [Clients -> ClientStates] /\ inode \in Inodes
  BY DEF PipeInv, PipeTypes
<1>2. Serving /\ Between /\ KnowsWhoWaits
  BY DEF Takes, PipeInv, Between
<1>3. sender # <<>> /\ Head(sender) = d /\ sender' = Tail(sender)
  BY DEF Takes
<1>4. /\ d \in On(sender) /\ sender' \in Seq(Clients) /\ Distinct(sender')
      /\ On(sender') = On(sender) \ {d}
  BY <1>1, <1>3, TailUnlinks
<1>5. client[d] = "send" \/ (process[d] = "closes" /\ client[d] \in {"ends", "gone"} /\ d \notin files)
  <2>1. Lives(d) /\ d \in On(sender)
    BY <1>4 DEF PipeInv
  <2>2. QED BY <2>1 DEF Lives
<1>6. d \in files => client[d] = "send" /\ message[d].len > 0
  BY <1>5 DEF PipeInv, Lives
<1>7. d \notin {inode.RRcv, inode.WRcv}
  BY <1>2, <1>5 DEF KnowsWhoWaits
<1>8. /\ Received(d) \in [Clients -> ClientStates]
      /\ \A c \in Clients :
           Received(d)[c] = IF c = d /\ client[c] = "send" THEN "reply" ELSE client[c]
  BY <1>1 DEF Received, ClientStates
<1>9. QED BY <1>1, <1>2, <1>4, <1>5, <1>6, <1>7, <1>8

(* Where the thread of c is when d's message is taken and some are answered,*)
(* the one that closes last.                                               *)
AfterReply(c, d, answered, closer) ==
    IF (c = d /\ client[c] = "send") \/ client[c] = "reply"
      THEN IF c \in answered \/ c = closer THEN "runs" ELSE "reply"
      ELSE IF client[c] = "dieing" /\ (c \in answered \/ c = closer) THEN "ends" ELSE client[c]

RepliesWith(d, answers, closer) == Replies(Received(d), answers, closer)

LEMMA RepliesTo ==
    ASSUME PipeInv, NEW d \in Clients, Takes(d), UNCHANGED <<died, files, message>>,
           NEW answers, NEW told1 \in SUBSET Clients, DOMAIN answers = told1,
           \A c \in told1 : answers[c] \in Nat \cup {Failed},
           NEW closer \in {NoClient, d}, RepliesWith(d, answers, closer)
    PROVE  /\ \A c \in Clients : client'[c] = AfterReply(c, d, told1, closer)
           /\ \A c \in Clients : told'[c] = IF c \in told1 THEN answers[c] ELSE told[c]
           /\ client' \in [Clients -> ClientStates] /\ process' \in [Clients -> ProcessStates]
           /\ told' \in [Clients -> Nat \cup {Failed}]
           /\ \A c \in Clients : Lives(c)'
<1>1. \A c \in Clients :
        Received(d)[c] = IF c = d /\ client[c] = "send" THEN "reply" ELSE client[c]
  BY TakesOff
<1>2. \A c \in Clients : c \in told1 \cup ({closer} \ {NoClient}) <=> c \in told1 \/ c = closer
  BY ClientsAre
<1>3. \A c \in Clients : client[c] \in ClientStates
  BY DEF PipeInv, PipeTypes
<1>4. ASSUME NEW c \in Clients PROVE client'[c] = AfterReply(c, d, told1, closer)
  BY <1>1, <1>2 DEF RepliesWith, Replies, AfterReply
<1>5. client' \in [Clients -> ClientStates]
  <2>1. client' = [c \in Clients |-> client'[c]]
    BY DEF RepliesWith, Replies
  <2>2. \A c \in Clients : client'[c] \in ClientStates
    BY <1>3, <1>4 DEF AfterReply, ClientStates
  <2>3. QED BY <2>1, <2>2
<1>6. /\ \A c \in Clients : told'[c] = IF c \in told1 THEN answers[c] ELSE told[c]
      /\ told' \in [Clients -> Nat \cup {Failed}]
  BY DEF RepliesWith, Replies, PipeInv, PipeTypes
<1>7. /\ process' \in [Clients -> ProcessStates]
      /\ \A c \in Clients :
           process'[c] = IF c = closer /\ process[c] = "closes" THEN "over" ELSE process[c]
  <2>1. process \in [Clients -> ProcessStates]
    BY DEF PipeInv, PipeTypes
  <2>2. process' = IF closer # NoClient /\ process[closer] = "closes"
                     THEN [process EXCEPT ![closer] = "over"] ELSE process
    BY DEF RepliesWith, Replies
  <2>3. QED BY <2>1, <2>2, ClientsAre
<1>8. ASSUME NEW c \in Clients PROVE Lives(c)'
  <2>1. Lives(c) /\ client[c] \in ClientStates
    BY <1>3 DEF PipeInv
  <2>2. On(sender') = On(sender) \ {d}
    BY TakesOff
  <2>3. client'[c] \in {"runs", "send", "reply"} <=> client[c] \in {"runs", "send", "reply"}
    BY <1>4 DEF AfterReply
  <2>4. client[c] \in {"ends", "gone"} => client'[c] = client[c]
    BY <1>4 DEF AfterReply
  <2>5. client'[c] = "send" <=> client[c] = "send" /\ c # d
    BY <1>4 DEF AfterReply
  <2>6. Alive(c)' <=> Alive(c)
    BY <1>7 DEF Alive
  <2>7. process'[c] \in {"closes", "over"} <=> process[c] \in {"closes", "over"}
    BY <1>7
  <2>8. process[c] = "closes" /\ c # d => process'[c] = "closes"
    BY <1>7, ClientsAre
  <2>9. QED BY <2>1, <2>2, <2>3, <2>4, <2>5, <2>6, <2>7, <2>8 DEF Lives
<1>9. QED BY <1>4, <1>5, <1>6, <1>7, <1>8

(* A read and a write meet: the bytes are moved, and who has none left to   *)
(* wait for is answered.                                                   *)
LEMMA TransferKeeps ==
    ASSUME PipeInv, NEW d \in Clients, Takes(d), d \in files, UNCHANGED <<died, files, message>>,
           NEW i \in Inodes, Tries(i, Received(d), NoClient),
           i.RRcv = "reader", i.WRcv = "writer", i.HasRW = inode.HasRW, i.HasRW = Clients,
           i.RLen = message["reader"].len, i.RLen > 0, "writer" \in files,
           i.WPtr = message["writer"].from + i.WDone, i.WDone + i.WLeft = message["writer"].len,
           i.WLeft > 0, Len(taken) = i.WPtr,
           \A c \in Clients \ {d} : client[c] \in Waiting
    PROVE  PipeInv'
<1>1. PICK n \in 1..i.RLen :
        /\ n <= i.WLeft /\ ~ tryRead(i).kills
        /\ tryRead(i).inode = Transfer(i, n)
        /\ tryRead(i).moved = [k \in 1..n |-> i.WPtr + k]
        /\ tryRead(i).answers = [c \in IF i.WLeft = n THEN Clients ELSE {"reader"} |->
                                    IF c = "reader" THEN n ELSE i.WDone + n]
  BY tryReadMoves, ClientsAre
<1>2. n \in Nat /\ n > 0
  BY InodeFields
<1> DEFINE told1 == IF i.WLeft = n THEN Clients ELSE {"reader"}
           moved == [k \in 1..n |-> i.WPtr + k]
<1>3. /\ inode' = Transfer(i, n) /\ taken' = taken \o moved /\ finishing' = finishing
      /\ Replies(Received(d), [c \in told1 |-> IF c = "reader" THEN n ELSE i.WDone + n], NoClient)
  BY <1>1 DEF Tries
<1>4. told1 \subseteq Clients /\ "reader" \in told1 /\ ("writer" \in told1 <=> i.WLeft = n)
      /\ NoClient \notin told1
  BY ClientsAre
<1> HIDE DEF told1
<1>5. PICK answers : answers = [c \in told1 |-> IF c = "reader" THEN n ELSE i.WDone + n]
  OBVIOUS
<1>6. /\ \A c \in Clients : client'[c] = AfterReply(c, d, told1, NoClient)
      /\ \A c \in Clients : told'[c] = IF c \in told1 THEN answers[c] ELSE told[c]
      /\ client' \in [Clients -> ClientStates] /\ process' \in [Clients -> ProcessStates]
      /\ told' \in [Clients -> Nat \cup {Failed}]
      /\ \A c \in Clients : Lives(c)'
  <2>1. DOMAIN answers = told1 /\ \A c \in told1 : answers[c] \in Nat \cup {Failed}
    BY <1>2, <1>5, InodeFields
  <2>2. RepliesWith(d, answers, NoClient)
    BY <1>3, <1>5 DEF RepliesWith
  <2>3. told1 \in SUBSET Clients /\ NoClient \in {NoClient, d}
    BY <1>4
  <2>4. QED BY <2>1, <2>2, <2>3, RepliesTo
<1>7. \A c \in Clients : client'[c] =
        IF c = d \/ client[c] = "reply" THEN IF c \in told1 THEN "runs" ELSE "reply"
        ELSE IF c \in told1 THEN "ends" ELSE "dieing"
  BY <1>6, TakesOff, ClientsAre DEF AfterReply, Waiting
<1>8. /\ inode' \in Inodes /\ inode'.HasRW = Clients /\ inode'.RRcv = NoClient
      /\ inode'.WRcv = IF i.WLeft = n THEN NoClient ELSE "writer"
      /\ inode'.WPtr = i.WPtr + n /\ inode'.WDone = i.WDone + n /\ inode'.WLeft = i.WLeft - n
  <2>1. i.WLeft - n \in Nat /\ i.WPtr + n \in Nat /\ i.WDone + n \in Nat
    BY <1>1, <1>2, InodeFields
  <2>2. QED BY <1>2, <1>3, <2>1 DEF Transfer, Inodes
<1>9. taken' \in Seq(Nat) /\ Len(taken') = i.WPtr + n /\ \A k \in DOMAIN taken' : taken'[k] = k
  <2>1. moved \in Seq(Nat) /\ Len(moved) = n /\ \A k \in 1..n : moved[k] = i.WPtr + k
    BY <1>2, InodeFields
  <2>2. taken \in Seq(Nat) /\ \A k \in 1..Len(taken) : taken[k] = k
    <3>1. taken \in Seq(Nat) /\ \A k \in DOMAIN taken : taken[k] = k
      BY DEF PipeInv, PipeTypes, Truth
    <3>2. QED BY <3>1, LenProperties
  <2> HIDE DEF moved
  <2>3. /\ taken' \in Seq(Nat) /\ Len(taken') = Len(taken) + n
        /\ \A k \in 1..Len(taken) + n : taken'[k] = IF k <= Len(taken) THEN taken[k] ELSE moved[k - Len(taken)]
    BY ZenonT(50), <1>3, <2>1, <2>2, ConcatProperties
  <2>4. ASSUME NEW k \in 1..Len(taken) + n PROVE taken'[k] = k
    <3>1. Len(taken) \in Nat
      BY <2>2
    <3>2. CASE k <= Len(taken)
      BY <2>2, <2>3, <2>4, <3>1, <3>2
    <3>3. CASE ~ (k <= Len(taken))
      <4>1. k - Len(taken) \in 1..n /\ Len(taken) + (k - Len(taken)) = k
        BY <1>2, <2>4, <3>1, <3>3
      <4>2. QED BY <2>1, <2>3, <3>3, <4>1
    <3>4. QED BY <3>2, <3>3
  <2>5. QED BY <2>3, <2>4
<1>10. PipeTypes'
  <2>1. sender' \in Seq(Clients) /\ Distinct(sender')
    BY TakesOff
  <2>2. QED BY <1>3, <1>6, <1>8, <1>9, <2>1 DEF PipeInv, PipeTypes
<1>11. Serving' /\ Between'
  <2>1. Serving'
    BY <1>3, TakesOff DEF Serving
  <2>2. KnowsWhoWaits'
    BY <1>4, <1>7, <1>8, ClientsAre DEF KnowsWhoWaits
  <2>3. files' \subseteq inode'.HasRW
    BY <1>8, ClientsAre DEF PipeInv, PipeTypes
  <2>4. ASSUME inode'.WRcv = "writer"
        PROVE  /\ inode'.WPtr = message'["writer"].from + inode'.WDone
               /\ inode'.WDone + inode'.WLeft = message'["writer"].len
               /\ inode'.WLeft > 0 /\ Len(taken') = inode'.WPtr
    <3>1. i.WLeft # n
      BY <1>8, <2>4, ClientsAre
    <3>2. message["writer"].from \in Nat
      BY ClientsAre DEF PipeInv, PipeTypes, Counted
    <3>3. /\ i.WDone \in Nat /\ i.WLeft \in Nat /\ n \in Nat /\ n <= i.WLeft
          /\ i.WPtr = message["writer"].from + i.WDone /\ i.WDone + i.WLeft = message["writer"].len
      BY <1>1, <1>2, InodeFields
    <3>4. /\ inode'.WPtr = i.WPtr + n /\ inode'.WDone = i.WDone + n /\ inode'.WLeft = i.WLeft - n
          /\ Len(taken') = i.WPtr + n /\ message' = message
      BY <1>8, <1>9
    <3>5. (i.WDone + n) + (i.WLeft - n) = i.WDone + i.WLeft /\ i.WLeft - n > 0
      BY <3>1, <3>3
    <3>6. i.WPtr + n = message["writer"].from + (i.WDone + n)
      BY <3>2, <3>3
    <3>7. QED BY <3>3, <3>4, <3>5, <3>6
  <2>5. QED BY <1>8, <2>1, <2>2, <2>3, <2>4, ClientsAre DEF Between
<1>12. client'["reader"] \in {"runs", "ends"} /\ told'["reader"] = n
  BY <1>4, <1>5, <1>6, <1>7, ClientsAre
<1>13. ASSUME client'["writer"] \in {"runs", "send"}
       PROVE  told'["writer"] = message'["writer"].len /\ Len(taken') = Written'
  <2>1. "writer" \in told1
    BY <1>7, <1>13, ClientsAre
  <2>2. told'["writer"] = i.WDone + n /\ i.WLeft = n
    BY <1>4, <1>5, <1>6, <2>1, ClientsAre
  <2>3. message["writer"].from \in Nat /\ message["writer"].len \in Nat
    BY ClientsAre DEF PipeInv, PipeTypes, Counted
  <2>4. QED BY SMTT(40), <1>2, <1>9, <2>2, <2>3, InodeFields DEF Written
<1>14. Progress'
  <2>1. client'["writer"] # "send"
    BY <1>7, ClientsAre
  <2>2. QED BY <1>13, <2>1 DEF Progress
<1>15. Truth'
  <2>1. Answered("writer")' => told'["writer"] = message'["writer"].len /\ Len(taken') = Written'
    BY <1>13 DEF Answered
  <2>2. message["writer"].len \in Nat /\ Failed \notin Nat
    BY ClientsAre DEF PipeInv, PipeTypes, Counted, Failed
  <2>3. told'["reader"] \in 1..message'["reader"].len /\ told'["reader"] # 0
    BY <1>2, <1>12
  <2>4. QED BY <1>9, <2>1, <2>2, <2>3 DEF Truth
<1>16. QED BY <1>6, <1>10, <1>11, <1>14, <1>15 DEF PipeInv

(* What a write that waits is about; and a read.                            *)
WriteIn(i) ==
    /\ "writer" \in files /\ "reader" \in i.HasRW
    /\ i.WPtr = message["writer"].from + i.WDone
    /\ i.WDone + i.WLeft = message["writer"].len
    /\ i.WLeft > 0 /\ Len(taken) = i.WPtr
ReadIn(i) ==
    /\ i.WRcv = NoClient /\ "reader" \in files /\ "writer" \in i.HasRW
    /\ i.RLen = message["reader"].len /\ i.RLen > 0

(* The same when a reader is told that there are no bytes, or nobody is told *)
(* anything.                                                               *)
LEMMA RepliesNothing ==
    ASSUME PipeInv, NEW d \in Clients, Takes(d), UNCHANGED <<died, files, message>>,
           NEW told1 \in SUBSET {"reader"}, NEW closer \in {NoClient, d},
           RepliesWith(d, [c \in told1 |-> 0], closer)
    PROVE  /\ \A c \in Clients : client'[c] = AfterReply(c, d, told1, closer)
           /\ \A c \in Clients : told'[c] = IF c \in told1 THEN 0 ELSE told[c]
           /\ client' \in [Clients -> ClientStates] /\ process' \in [Clients -> ProcessStates]
           /\ told' \in [Clients -> Nat \cup {Failed}]
           /\ \A c \in Clients : Lives(c)'
<1>1. PICK answers : answers = [c \in told1 |-> 0]
  OBVIOUS
<1>2. DOMAIN answers = told1 /\ \A c \in told1 : answers[c] = 0 /\ answers[c] \in Nat \cup {Failed}
  BY <1>1
<1>3. RepliesWith(d, answers, closer) /\ told1 \in SUBSET Clients
  BY <1>1, ClientsAre
<1>4. /\ \A c \in Clients : client'[c] = AfterReply(c, d, told1, closer)
      /\ \A c \in Clients : told'[c] = IF c \in told1 THEN answers[c] ELSE told[c]
      /\ client' \in [Clients -> ClientStates] /\ process' \in [Clients -> ProcessStates]
      /\ told' \in [Clients -> Nat \cup {Failed}]
      /\ \A c \in Clients : Lives(c)'
  BY <1>2, <1>3, RepliesTo
<1>5. QED BY <1>2, <1>4

(* No bytes are moved: the message waits in the inode, or is answered, or   *)
(* a read is told that there will never be a writer.                       *)
LEMMA NoBytesKeeps ==
    ASSUME PipeInv, NEW d \in Clients, Takes(d),
           UNCHANGED <<died, files, message, finishing, taken>>,
           NEW i \in Inodes, inode' = i, i.HasRW \subseteq inode.HasRW, files \subseteq i.HasRW,
           NEW told1 \in SUBSET {"reader"}, NEW closer \in {NoClient, d}, closer = d => d \notin files,
           RepliesWith(d, [c \in told1 |-> 0], closer),
           "reader" \in told1 => "writer" \notin i.HasRW,
           \A c \in Clients : c \in {i.RRcv, i.WRcv} <=>
              /\ c \notin told1 /\ c # closer
              /\ client[c] \in Waiting \/ (c = d /\ client[c] = "send"),
           i.RRcv = "reader" => ReadIn(i), i.WRcv = "writer" => WriteIn(i)
    PROVE  PipeInv'
<1>1. /\ \A c \in Clients : client'[c] = AfterReply(c, d, told1, closer)
      /\ \A c \in Clients : told'[c] = IF c \in told1 THEN 0 ELSE told[c]
      /\ client' \in [Clients -> ClientStates] /\ process' \in [Clients -> ProcessStates]
      /\ told' \in [Clients -> Nat \cup {Failed}]
      /\ \A c \in Clients : Lives(c)'
  BY RepliesNothing
<1>2. \A c \in Clients :
        /\ client'[c] \in Waiting <=> /\ c \notin told1 /\ c # closer
                                      /\ client[c] \in Waiting \/ (c = d /\ client[c] = "send")
        /\ client'[c] = "send" => client[c] = "send"
        /\ client'[c] = "runs" => client[c] = "runs" \/ c \in told1 \/ c = closer
  BY <1>1 DEF AfterReply, Waiting
<1>3. \A c \in Clients : told'[c] = IF c \in told1 THEN 0 ELSE told[c]
  BY <1>1
<1>4. PipeTypes'
  <2>1. sender' \in Seq(Clients) /\ Distinct(sender')
    BY TakesOff
  <2>2. QED BY <1>1, <2>1 DEF PipeInv, PipeTypes
<1>5. Serving' /\ Between'
  <2>1. Serving'
    BY TakesOff DEF Serving
  <2>2. KnowsWhoWaits'
    BY <1>2 DEF KnowsWhoWaits, Waiting
  <2>3. i.RRcv = "reader" =>
          /\ inode'.WRcv = NoClient /\ "reader" \in files' /\ "writer" \in inode'.HasRW
          /\ inode'.RLen = message'["reader"].len /\ inode'.RLen > 0
    BY DEF ReadIn
  <2>4. i.WRcv = "writer" =>
          /\ "writer" \in files' /\ "reader" \in inode'.HasRW
          /\ inode'.WPtr = message'["writer"].from + inode'.WDone
          /\ inode'.WDone + inode'.WLeft = message'["writer"].len
          /\ inode'.WLeft > 0 /\ Len(taken') = inode'.WPtr
    BY DEF WriteIn
  <2>5. QED BY <2>1, <2>2, <2>3, <2>4 DEF Between
<1>6. "writer" \in files /\ client'["writer"] \in {"runs", "send"} => client'["writer"] = client["writer"]
  <2>1. "writer" \notin told1 /\ "writer" \in Clients
    BY ClientsAre
  <2>2. "writer" \in files => "writer" # closer
    BY ClientsAre
  <2>3. client'["writer"] = "send" => client["writer"] = "send"
    BY <1>2, <2>1
  <2>4. client'["writer"] = "runs" /\ "writer" \in files => client["writer"] = "runs"
    BY <1>2, <2>1, <2>2
  <2>5. QED BY <2>3, <2>4
<1>7. Progress'
  BY <1>6 DEF PipeInv, Progress, Written
<1>8. Truth'
  <2>1. \A k \in DOMAIN taken' : taken'[k] = k
    BY DEF PipeInv, Truth
  <2>2. ASSUME Answered("writer")'
        PROVE  IF told'["writer"] = Failed THEN "reader" \notin inode'.HasRW
               ELSE told'["writer"] = message'["writer"].len /\ Len(taken') = Written'
    <3>1. Answered("writer")
      BY <1>6, <2>2 DEF Answered
    <3>2. told'["writer"] = told["writer"]
      BY <1>3, ClientsAre
    <3>3. QED BY <3>1, <3>2 DEF PipeInv, Truth, Written
  <2>3. ASSUME Answered("reader")'
        PROVE  IF told'["reader"] = 0 THEN "writer" \notin inode'.HasRW
               ELSE told'["reader"] \in 1..message'["reader"].len
    <3>1. CASE "reader" \in told1
      BY <1>3, <3>1, ClientsAre
    <3>2. CASE "reader" \notin told1
      <4>1. "reader" # closer
        BY <2>3, ClientsAre DEF Answered
      <4>2. Answered("reader") /\ told'["reader"] = told["reader"]
        BY <1>2, <1>3, <2>3, <3>2, <4>1, ClientsAre DEF Answered
      <4>3. QED BY <4>2 DEF PipeInv, Truth
    <3>3. QED BY <3>1, <3>2
  <2>4. QED BY <2>1, <2>2, <2>3 DEF Truth
<1>9. QED BY <1>1, <1>4, <1>5, <1>7, <1>8 DEF PipeInv

(* The writer has no reader: it is killed before it is answered.            *)
LEMMA KillStarts ==
    ASSUME PipeInv, NEW d \in Clients, Takes(d), UNCHANGED <<died, files, message>>,
           NEW i \in Inodes, i.RRcv = NoClient, i.WRcv = "writer", "reader" \notin i.HasRW,
           i.HasRW \subseteq inode.HasRW, files \subseteq i.HasRW,
           NEW closer \in {NoClient, "reader"}, closer = "reader" <=> d = "reader",
           IF d = "writer" THEN d \in files /\ client["reader"] \notin Waiting
                           ELSE client["writer"] \in Waiting,
           finishing' = <<[inode |-> i, closer |-> closer]>>, process' = Pends("writer"),
           client' = Received(d), UNCHANGED <<inode, told, taken>>
    PROVE  PipeInv'
<1>1. /\ client' \in [Clients -> ClientStates]
      /\ \A c \in Clients :
           client'[c] = IF c = d /\ client[c] = "send" THEN "reply" ELSE client[c]
  BY TakesOff
<1>2. /\ process' \in [Clients -> ProcessStates]
      /\ \A c \in Clients :
           process'[c] = IF c = "writer" /\ process[c] = "up" THEN "signalled" ELSE process[c]
  <2>1. process \in [Clients -> ProcessStates]
    BY DEF PipeInv, PipeTypes
  <2>2. QED BY <2>1, ClientsAre DEF Pends
<1>3. sender' \in Seq(Clients) /\ Distinct(sender') /\ On(sender') = On(sender) \ {d}
  BY TakesOff
<1> DEFINE f == [inode |-> i, closer |-> closer]
<1>4. finishing' \in Seq(Finishings) /\ Len(finishing') = 1 /\ Head(finishing') = f /\ finishing' # <<>>
  <2>1. f \in Finishings
    BY DEF Finishings
  <2>2. finishing' = <<f>>
    OBVIOUS
  <2> HIDE DEF f
  <2>3. QED BY <2>1, <2>2
<1>5. PipeTypes'
  BY <1>1, <1>2, <1>3, <1>4 DEF PipeInv, PipeTypes
<1>6. ASSUME NEW c \in Clients PROVE Lives(c)'
  <2>1. Lives(c)
    BY DEF PipeInv
  <2>2. QED BY <1>1, <1>2, <1>3, <2>1 DEF Lives, Alive
<1>7. client'["writer"] \in Waiting /\ (client'["reader"] \in Waiting => closer = "reader")
  <2>1. CASE d = "writer"
    BY <1>1, <2>1, TakesOff, ClientsAre DEF Waiting
  <2>2. CASE d = "reader"
    BY <1>1, <2>2, ClientsAre DEF Waiting
  <2>3. QED BY <2>1, <2>2, ClientsAre
<1>8. ~ Serving' /\ Killing(Head(finishing))'
  <2>1. f.inode = i /\ f.closer = closer
    OBVIOUS
  <2> HIDE DEF f
  <2>2. closer = "reader" => "reader" \notin On(sender')
    BY <1>3
  <2>3. QED BY <1>4, <1>7, <2>1, <2>2 DEF Killing, Serving
<1>9. Progress' /\ Truth'
  BY <1>1, TruthStays
<1>10. QED BY <1>5, <1>6, <1>8, <1>9 DEF PipeInv

(* tryRead has moved no bytes and kills nobody.                             *)
LEMMA TriesQuietly ==
    ASSUME PipeInv, NEW d \in Clients, NEW i \in Inodes, NEW closer,
           Tries(i, Received(d), closer), ~ tryRead(i).kills, tryRead(i).moved = <<>>,
           NEW told1, tryRead(i).answers = [c \in told1 |-> 0]
    PROVE  /\ inode' = tryRead(i).inode /\ UNCHANGED <<finishing, taken>>
           /\ RepliesWith(d, [c \in told1 |-> 0], closer)
<1>1. inode' = tryRead(i).inode /\ finishing' = finishing /\ taken' = taken \o <<>>
  BY DEF Tries
<1>2. taken \in Seq(Nat)
  BY DEF PipeInv, PipeTypes
<1>3. taken \o <<>> = taken
  BY <1>2, ConcatEmptySeq
<1>4. RepliesWith(d, [c \in told1 |-> 0], closer)
  BY DEF Tries, RepliesWith
<1>5. QED BY <1>1, <1>3, <1>4

LEMMA PipeReadKeeps ==
    ASSUME PipeInv, PipeRead
    PROVE  PipeInv'
<1> DEFINE now == [inode EXCEPT !.RRcv = "reader", !.RLen = message["reader"].len]
<1>1. /\ Takes("reader") /\ "reader" \in files /\ UNCHANGED <<died, files, message>>
      /\ Tries(now, Received("reader"), NoClient) /\ "reader" \in Clients
  BY ClientsAre DEF PipeRead
<1>2. /\ inode \in Inodes /\ Between /\ client["reader"] = "send" /\ message["reader"].len > 0
      /\ inode.RRcv = NoClient /\ inode.WRcv # "reader" /\ "writer" # NoClient
  BY <1>1, TakesOff, InodeFields, ClientsAre
<1>3. message["reader"].len \in Nat
  BY <1>1 DEF PipeInv, PipeTypes, Counted
<1>4. /\ now \in Inodes /\ now.RRcv = "reader" /\ now.RLen = message["reader"].len
      /\ now.HasRW = inode.HasRW /\ now.WRcv = inode.WRcv
      /\ now.WPtr = inode.WPtr /\ now.WLeft = inode.WLeft /\ now.WDone = inode.WDone
  BY <1>2, <1>3 DEF Inodes
<1> HIDE DEF now
<1>5. PICK i \in Inodes : i = now
  BY <1>4
<1>6. Tries(i, Received("reader"), NoClient) /\ i.RRcv # NoClient
  BY <1>1, <1>4, <1>5, ClientsAre
<1>7. /\ inode.WRcv \in {NoClient, "writer"} /\ files \subseteq inode.HasRW /\ inode.HasRW \subseteq Clients
      /\ \A c \in Clients : c \in {inode.RRcv, inode.WRcv} <=> client[c] \in Waiting
      /\ inode.WRcv = "writer" => WriteIn(inode)
  BY <1>1, <1>2, TakesOff, InodeFields DEF Between, KnowsWhoWaits, Waiting, WriteIn
<1>8. inode.WRcv = "writer" =>
        /\ "writer" \in files /\ inode.HasRW = Clients
        /\ inode.WPtr = message["writer"].from + inode.WDone
        /\ inode.WDone + inode.WLeft = message["writer"].len /\ inode.WLeft > 0 /\ Len(taken) = inode.WPtr
  BY <1>7, ClientsAre DEF WriteIn
<1>9. CASE "writer" \notin inode.HasRW
  <2>1. /\ tryRead(i).inode = [i EXCEPT !.RRcv = NoClient] /\ ~ tryRead(i).kills
        /\ tryRead(i).answers = [c \in {"reader"} |-> 0] /\ tryRead(i).moved = <<>>
    BY <1>4, <1>5, <1>6, <1>9, tryReadIs
  <2>2. PICK j : j = [i EXCEPT !.RRcv = NoClient]
    OBVIOUS
  <2>3. j \in Inodes /\ j.HasRW = inode.HasRW /\ j.RRcv = NoClient /\ j.WRcv = inode.WRcv
    BY <1>4, <1>5, <2>2 DEF Inodes
  <2>4. inode' = j /\ UNCHANGED <<finishing, taken>> /\ RepliesWith("reader", [c \in {"reader"} |-> 0], NoClient)
    BY <1>1, <1>6, <2>1, <2>2, TriesQuietly DEF AfterReply
  <2>5. inode.WRcv = NoClient /\ client["writer"] \notin Waiting
    BY <1>2, <1>7, <1>8, <1>9, ClientsAre
  <2>6. \A c \in Clients : c \in {j.RRcv, j.WRcv} <=>
           /\ c \notin {"reader"} /\ c # NoClient
           /\ client[c] \in Waiting \/ (c = "reader" /\ client[c] = "send")
    BY <2>3, <2>5, ClientsAre
  <2>7. QED BY <1>1, <1>7, <1>9, <2>3, <2>4, <2>5, <2>6, NoBytesKeeps, ClientsAre
<1>10. CASE "writer" \in inode.HasRW /\ inode.WRcv = NoClient
  <2>1. /\ tryRead(i).inode = i /\ ~ tryRead(i).kills
        /\ tryRead(i).answers = [c \in {} |-> 0] /\ tryRead(i).moved = <<>>
    BY <1>4, <1>5, <1>6, <1>10, tryReadIs DEF NoAnswer
  <2>2. inode' = i /\ UNCHANGED <<finishing, taken>> /\ RepliesWith("reader", [c \in {} |-> 0], NoClient)
    BY <1>1, <1>6, <2>1, TriesQuietly
  <2>3. \A c \in Clients : c \in {i.RRcv, i.WRcv} <=>
           /\ c \notin {} /\ c # NoClient
           /\ client[c] \in Waiting \/ (c = "reader" /\ client[c] = "send")
    BY <1>2, <1>4, <1>5, <1>7, <1>10, ClientsAre
  <2>4. ReadIn(i)
    BY <1>1, <1>2, <1>4, <1>5, <1>10 DEF ReadIn
  <2>5. i.WRcv # "writer" /\ i.HasRW \subseteq inode.HasRW /\ files \subseteq i.HasRW
    BY <1>4, <1>5, <1>7, <1>10, ClientsAre
  <2>6. PICK told1 \in SUBSET {"reader"} : told1 = {}
    OBVIOUS
  <2>7. /\ RepliesWith("reader", [c \in told1 |-> 0], NoClient) /\ "reader" \notin told1 /\ NoClient # "reader"
        /\ \A c \in Clients : c \in {i.RRcv, i.WRcv} <=>
              /\ c \notin told1 /\ c # NoClient
              /\ client[c] \in Waiting \/ (c = "reader" /\ client[c] = "send")
    BY <2>2, <2>3, <2>6, ClientsAre
  <2>8. QED BY <1>1, <2>2, <2>4, <2>5, <2>7, NoBytesKeeps
<1>11. CASE "writer" \in inode.HasRW /\ inode.WRcv = "writer"
  <2>1. \A c \in Clients \ {"reader"} : client[c] \in Waiting
    BY <1>7, <1>11, ClientsAre
  <2>2. QED BY <1>1, <1>2, <1>4, <1>5, <1>6, <1>8, <1>11, <2>1, TransferKeeps
<1>12. QED BY <1>7, <1>9, <1>10, <1>11

LEMMA PipeWriteKeeps ==
    ASSUME PipeInv, PipeWrite
    PROVE  PipeInv'
<1> DEFINE now == [inode EXCEPT !.WRcv = "writer", !.WPtr = message["writer"].from,
                                !.WLeft = message["writer"].len, !.WDone = 0]
<1>1. /\ Takes("writer") /\ "writer" \in files /\ UNCHANGED <<died, files, message>>
      /\ Tries(now, Received("writer"), NoClient) /\ "writer" \in Clients
  BY ClientsAre DEF PipeWrite
<1>2. /\ inode \in Inodes /\ Between /\ client["writer"] = "send" /\ message["writer"].len > 0
      /\ inode.WRcv = NoClient /\ inode.RRcv # "writer" /\ "reader" # NoClient
  BY <1>1, TakesOff, InodeFields, ClientsAre
<1>3. message["writer"].len \in Nat /\ message["writer"].from \in Nat
  BY <1>1 DEF PipeInv, PipeTypes, Counted
<1>4. /\ now \in Inodes /\ now.WRcv = "writer" /\ now.WDone = 0
      /\ now.WPtr = message["writer"].from /\ now.WLeft = message["writer"].len
      /\ now.HasRW = inode.HasRW /\ now.RRcv = inode.RRcv /\ now.RLen = inode.RLen
  BY <1>2, <1>3 DEF Inodes
<1> HIDE DEF now
<1>5. PICK i \in Inodes : i = now
  BY <1>4
<1>6. Tries(i, Received("writer"), NoClient) /\ i.WRcv # NoClient
  BY <1>1, <1>4, <1>5, ClientsAre
<1>7. /\ inode.RRcv \in {NoClient, "reader"} /\ files \subseteq inode.HasRW /\ inode.HasRW \subseteq Clients
      /\ "writer" \in inode.HasRW
      /\ \A c \in Clients : c \in {inode.RRcv, inode.WRcv} <=> client[c] \in Waiting
      /\ inode.RRcv = "reader" => ReadIn(inode)
  BY <1>1, <1>2, TakesOff, InodeFields DEF Between, KnowsWhoWaits, Waiting, ReadIn
<1>8. /\ i.WPtr = message["writer"].from + i.WDone /\ i.WDone + i.WLeft = message["writer"].len
      /\ i.WLeft > 0
  BY <1>2, <1>3, <1>4, <1>5
<1>9. "reader" \in inode.HasRW => Len(taken) = i.WPtr
  BY <1>1, <1>2, <1>4, <1>5 DEF PipeInv, Progress
<1>10. CASE inode.RRcv = NoClient /\ "reader" \in inode.HasRW
  <2>1. /\ tryRead(i).inode = i /\ ~ tryRead(i).kills
        /\ tryRead(i).answers = [c \in {} |-> 0] /\ tryRead(i).moved = <<>>
    BY <1>4, <1>5, <1>10, tryReadIs DEF NoAnswer
  <2>2. inode' = i /\ UNCHANGED <<finishing, taken>> /\ RepliesWith("writer", [c \in {} |-> 0], NoClient)
    BY <1>1, <1>6, <2>1, TriesQuietly
  <2>3. \A c \in Clients : c \in {i.RRcv, i.WRcv} <=>
           /\ c \notin {} /\ c # NoClient
           /\ client[c] \in Waiting \/ (c = "writer" /\ client[c] = "send")
    BY <1>2, <1>4, <1>5, <1>7, <1>10, ClientsAre
  <2>4. WriteIn(i)
    BY <1>1, <1>4, <1>5, <1>8, <1>9, <1>10 DEF WriteIn
  <2>5. i.RRcv # "reader" /\ i.HasRW \subseteq inode.HasRW /\ files \subseteq i.HasRW
    BY <1>4, <1>5, <1>7, <1>10, ClientsAre
  <2>6. PICK told1 \in SUBSET {"reader"} : told1 = {}
    OBVIOUS
  <2>7. /\ RepliesWith("writer", [c \in told1 |-> 0], NoClient) /\ "reader" \notin told1 /\ NoClient # "writer"
        /\ \A c \in Clients : c \in {i.RRcv, i.WRcv} <=>
              /\ c \notin told1 /\ c # NoClient
              /\ client[c] \in Waiting \/ (c = "writer" /\ client[c] = "send")
    BY <2>2, <2>3, <2>6, ClientsAre
  <2>8. QED BY <1>1, <2>2, <2>4, <2>5, <2>7, NoBytesKeeps
<1>11. CASE inode.RRcv = NoClient /\ "reader" \notin inode.HasRW
  <2>1. tryRead(i).inode = i /\ tryRead(i).kills
    BY <1>4, <1>5, <1>6, <1>11, tryReadIs
  <2>2. /\ finishing' = <<[inode |-> i, closer |-> NoClient]>> /\ process' = Pends("writer")
        /\ client' = Received("writer") /\ UNCHANGED <<inode, told, taken>>
    BY <1>4, <1>5, <1>6, <2>1 DEF Tries
  <2>3. "reader" \in Clients /\ client["reader"] \notin Waiting
    BY <1>2, <1>7, <1>11, ClientsAre
  <2>4. /\ i.RRcv = NoClient /\ i.WRcv = "writer" /\ "reader" \notin i.HasRW
        /\ i.HasRW \subseteq inode.HasRW /\ files \subseteq i.HasRW /\ NoClient # "reader"
    BY <1>4, <1>5, <1>7, <1>11, ClientsAre
  <2>5. QED BY <1>1, <2>2, <2>3, <2>4, KillStarts, ClientsAre
<1>12. CASE inode.RRcv = "reader"
  <2>1. \A c \in Clients \ {"writer"} : client[c] \in Waiting
    BY <1>7, <1>12, ClientsAre
  <2>2. /\ "reader" \in inode.HasRW /\ inode.HasRW = Clients
        /\ i.RLen = message["reader"].len /\ i.RLen > 0
    BY <1>4, <1>5, <1>7, <1>12, ClientsAre DEF ReadIn
  <2>3. QED BY <1>1, <1>4, <1>5, <1>6, <1>8, <1>9, <1>12, <2>1, <2>2, TransferKeeps
<1>13. QED BY <1>7, <1>10, <1>11, <1>12

LEMMA PipeCloseKeeps ==
    ASSUME PipeInv, NEW d \in Clients, PipeClose(d)
    PROVE  PipeInv'
<1> DEFINE closed == [inode EXCEPT !.HasRW = @ \ {d}]
<1>1. /\ Takes(d) /\ d \notin files /\ UNCHANGED <<died, files, message>>
      /\ IF closed.HasRW = {}
           THEN inode' = closed /\ Replies(Received(d), NoAnswer, d) /\ UNCHANGED <<finishing, taken>>
           ELSE Tries(closed, Received(d), d)
  BY DEF PipeClose
<1>2. inode \in Inodes /\ Between /\ d \notin {inode.RRcv, inode.WRcv} /\ d # NoClient
  BY <1>1, TakesOff, ClientsAre
<1>3. /\ closed \in Inodes /\ closed.HasRW = inode.HasRW \ {d}
      /\ closed.RRcv = inode.RRcv /\ closed.WRcv = inode.WRcv
      /\ closed.RLen = inode.RLen /\ closed.WPtr = inode.WPtr
      /\ closed.WLeft = inode.WLeft /\ closed.WDone = inode.WDone
  BY <1>2 DEF Inodes
<1> HIDE DEF closed
<1>4. PICK i \in Inodes : i = closed
  BY <1>3
<1>5. /\ inode.RRcv \in {NoClient, "reader"} /\ inode.WRcv \in {NoClient, "writer"}
      /\ files \subseteq inode.HasRW /\ inode.HasRW \subseteq Clients
      /\ \A c \in Clients : c \in {inode.RRcv, inode.WRcv} <=> client[c] \in Waiting
      /\ inode.RRcv = "reader" => ReadIn(inode)
      /\ inode.WRcv = "writer" => WriteIn(inode)
  BY <1>1, <1>2, TakesOff, InodeFields DEF Between, KnowsWhoWaits, Waiting, ReadIn, WriteIn
<1>6. /\ i.HasRW \subseteq inode.HasRW /\ files \subseteq i.HasRW
      /\ i.RRcv = inode.RRcv /\ i.WRcv = inode.WRcv
  BY <1>1, <1>3, <1>4, <1>5
<1>7. \A c \in Clients : c # d => (c \in {i.RRcv, i.WRcv} <=> client[c] \in Waiting)
  BY <1>5, <1>6
<1>8. ASSUME inode' = i, UNCHANGED <<finishing, taken>>, RepliesWith(d, [c \in {} |-> 0], d),
             i.RRcv # "reader", i.WRcv = "writer" => "reader" # d
      PROVE  PipeInv'
  <2>1. PICK told1 \in SUBSET {"reader"} : told1 = {}
    OBVIOUS
  <2>2. RepliesWith(d, [c \in told1 |-> 0], d) /\ "reader" \notin told1
    BY <1>8, <2>1
  <2>3. \A c \in Clients : c \in {i.RRcv, i.WRcv} <=>
           /\ c \notin told1 /\ c # d
           /\ client[c] \in Waiting \/ (c = d /\ client[c] = "send")
    BY <1>2, <1>6, <1>7, <2>1
  <2>4. i.WRcv = "writer" => WriteIn(i)
    BY <1>3, <1>4, <1>5, <1>8 DEF WriteIn
  <2>5. QED BY <1>1, <1>6, <1>8, <2>2, <2>3, <2>4, NoBytesKeeps
<1>9. CASE closed.HasRW = {}
  <2>1. inode' = i /\ UNCHANGED <<finishing, taken>> /\ RepliesWith(d, [c \in {} |-> 0], d)
    BY <1>1, <1>4, <1>9 DEF RepliesWith, NoAnswer
  <2>2. files = {}
    BY <1>4, <1>6, <1>9
  <2>3. i.RRcv # "reader" /\ i.WRcv # "writer"
    BY <1>5, <1>6, <2>2 DEF ReadIn, WriteIn
  <2>4. QED BY <1>8, <2>1, <2>3
<1>10. ASSUME closed.HasRW # {}, i.RRcv = NoClient, i.WRcv = "writer" => "reader" # d
       PROVE  PipeInv'
  <2>1. Tries(i, Received(d), d)
    BY <1>1, <1>4, <1>10
  <2>2. i.WRcv = "writer" => "reader" \in i.HasRW
    BY <1>3, <1>4, <1>5, <1>6, <1>10 DEF WriteIn
  <2>3. i.WRcv \in {NoClient, "writer"}
    BY <1>5, <1>6
  <2>4. /\ tryRead(i).inode = i /\ ~ tryRead(i).kills
        /\ tryRead(i).answers = [c \in {} |-> 0] /\ tryRead(i).moved = <<>>
    BY <1>10, <2>2, <2>3, tryReadIs DEF NoAnswer
  <2>5. inode' = i /\ UNCHANGED <<finishing, taken>> /\ RepliesWith(d, [c \in {} |-> 0], d)
    BY <2>1, <2>4, TriesQuietly
  <2>6. QED BY <1>8, <1>10, <2>5, ClientsAre
<1>11. ASSUME closed.HasRW # {}, d = "reader", i.WRcv = "writer"
       PROVE  PipeInv'
  <2>1. /\ i.RRcv = NoClient /\ "reader" \notin i.HasRW /\ i.WRcv # NoClient
        /\ client["writer"] \in Waiting
    BY <1>2, <1>3, <1>4, <1>5, <1>6, <1>7, <1>11, ClientsAre
  <2>2. tryRead(i).inode = i /\ tryRead(i).kills
    BY <2>1, tryReadIs
  <2>3. /\ finishing' = <<[inode |-> i, closer |-> d]>> /\ process' = Pends("writer")
        /\ client' = Received(d) /\ UNCHANGED <<inode, told, taken>>
    BY <1>1, <1>4, <1>11, <2>2 DEF Tries
  <2>4. QED BY <1>1, <1>6, <1>11, <2>1, <2>3, KillStarts, ClientsAre
<1>12. ASSUME closed.HasRW # {}, d = "writer", i.RRcv = "reader"
       PROVE  PipeInv'
  <2>1. /\ i.WRcv = NoClient /\ "writer" \notin i.HasRW /\ i.RRcv # NoClient
    BY <1>2, <1>3, <1>4, <1>5, <1>6, <1>12, ClientsAre
  <2>2. /\ tryRead(i).inode = [i EXCEPT !.RRcv = NoClient] /\ ~ tryRead(i).kills
        /\ tryRead(i).answers = [c \in {"reader"} |-> 0] /\ tryRead(i).moved = <<>>
    BY <1>12, <2>1, tryReadIs
  <2>3. PICK j : j = [i EXCEPT !.RRcv = NoClient]
    OBVIOUS
  <2>4. j \in Inodes /\ j.HasRW = i.HasRW /\ j.RRcv = NoClient /\ j.WRcv = NoClient
    BY <2>1, <2>3 DEF Inodes
  <2>5. Tries(i, Received(d), d)
    BY <1>1, <1>4, <1>12
  <2>6. inode' = j /\ UNCHANGED <<finishing, taken>> /\ RepliesWith(d, [c \in {"reader"} |-> 0], d)
    BY <2>2, <2>3, <2>5, TriesQuietly
  <2>7. \A c \in Clients : c \in {j.RRcv, j.WRcv} <=>
           /\ c \notin {"reader"} /\ c # d
           /\ client[c] \in Waiting \/ (c = d /\ client[c] = "send")
    BY <1>12, <2>4, ClientsAre
  <2>8. /\ j.RRcv # "reader" /\ j.WRcv # "writer" /\ "writer" \notin j.HasRW
        /\ j.HasRW \subseteq inode.HasRW /\ files \subseteq j.HasRW
    BY <1>6, <2>1, <2>4, ClientsAre
  <2>9. QED BY <1>1, <2>4, <2>6, <2>7, <2>8, NoBytesKeeps
<1>13. QED BY <1>5, <1>6, <1>2, <1>9, <1>10, <1>11, <1>12, ClientsAre

(* The writer whose process has been killed is told.                        *)
LEMMA WriterFailsKeeps ==
    ASSUME PipeInv, WriterFails
    PROVE  PipeInv'
<1>1. PICK f \in Finishings : f = Head(finishing)
  BY DEF WriterFails, Serving, PipeInv, PipeTypes
<1>2. /\ Killing(f) /\ f.inode \in Inodes /\ f.closer \in {NoClient, "reader"}
  BY <1>1 DEF WriterFails, PipeInv, Killing, Finishings
<1>3. /\ inode' = [f.inode EXCEPT !.WRcv = NoClient] /\ finishing' = <<>>
      /\ Replies(client, [c \in {"writer"} |-> Failed], f.closer)
      /\ UNCHANGED <<sender, died, files, message, taken>>
  BY <1>1, <1>2 DEF WriterFails, Killing
<1>4. /\ inode' \in Inodes /\ inode'.HasRW = f.inode.HasRW
      /\ inode'.RRcv = NoClient /\ inode'.WRcv = NoClient
  BY <1>2, <1>3 DEF Inodes, Killing
<1> DEFINE Told(c) == c = "writer" \/ c = f.closer
<1>5. ASSUME NEW c \in Clients
      PROVE  client'[c] = IF Told(c) /\ client[c] = "reply" THEN "runs"
                          ELSE IF Told(c) /\ client[c] = "dieing" THEN "ends" ELSE client[c]
  <2>1. c \in DOMAIN [x \in {"writer"} |-> Failed] \cup ({f.closer} \ {NoClient}) <=> Told(c)
    BY ClientsAre
  <2>2. QED BY <1>3, <2>1 DEF Replies
<1>6. client' \in [Clients -> ClientStates]
  <2>1. client' = [c \in Clients |-> client'[c]]
    BY <1>3 DEF Replies
  <2>2. \A c \in Clients : client[c] \in ClientStates
    BY DEF PipeInv, PipeTypes
  <2>3. \A c \in Clients : client'[c] \in ClientStates
    BY <1>5, <2>2 DEF ClientStates
  <2>4. QED BY <2>1, <2>3
<1>7. /\ \A c \in Clients : told'[c] = IF c = "writer" THEN Failed ELSE told[c]
      /\ told' \in [Clients -> Nat \cup {Failed}]
  BY <1>3 DEF Replies, PipeInv, PipeTypes
<1>8. /\ process' \in [Clients -> ProcessStates]
      /\ \A c \in Clients :
           process'[c] = IF c = f.closer /\ process[c] = "closes" THEN "over" ELSE process[c]
  <2>1. process \in [Clients -> ProcessStates]
    BY DEF PipeInv, PipeTypes
  <2>2. process' = IF f.closer # NoClient /\ process[f.closer] = "closes"
                     THEN [process EXCEPT ![f.closer] = "over"] ELSE process
    BY <1>3 DEF Replies
  <2>3. QED BY <1>2, <2>1, <2>2, ClientsAre
<1>9. PipeTypes'
  <2>1. <<>> \in Seq(Finishings) /\ Len(<<>>) = 0
    OBVIOUS
  <2>2. QED BY <1>3, <1>4, <1>6, <1>7, <1>8, <2>1 DEF PipeInv, PipeTypes
<1>10. ASSUME NEW c \in Clients PROVE Lives(c)'
  <2>1. Lives(c)
    BY DEF PipeInv
  <2>2. c = f.closer => c \notin On(sender)
    BY <1>2, ClientsAre DEF Killing
  <2>3. UNCHANGED <<sender, died, files, message>>
    BY <1>3
  <2>4. QED BY <1>5, <1>8, <2>1, <2>2, <2>3 DEF Lives, Alive
<1>11. Serving' /\ Between'
  <2>1. ASSUME NEW c \in Clients PROVE client'[c] \notin Waiting
    <3>1. client[c] \in Waiting => Told(c)
      BY <1>2, ClientsAre DEF Killing
    <3>2. QED BY <1>5, <3>1 DEF Waiting
  <2>2. Serving' /\ KnowsWhoWaits'
    BY <1>3, <1>4, <2>1, ClientsAre DEF Serving, KnowsWhoWaits, Waiting
  <2>3. files' \subseteq inode'.HasRW
    BY <1>2, <1>3, <1>4 DEF Killing
  <2>4. QED BY <1>4, <2>2, <2>3, ClientsAre DEF Between
<1>12. "reader" \notin inode'.HasRW /\ "reader" \notin files'
  BY <1>2, <1>3, <1>4 DEF Killing
<1>13. Progress' /\ Truth'
  <2>1. \A k \in DOMAIN taken' : taken'[k] = k
    BY <1>3 DEF PipeInv, Truth
  <2>2. told'["writer"] = Failed
    BY <1>7, ClientsAre
  <2>3. QED BY <1>12, <2>1, <2>2 DEF Progress, Truth, Answered
<1>14. QED BY <1>9, <1>10, <1>11, <1>13 DEF PipeInv

(* IO_DIED gives the thread that died an answer, if the inode has it.        *)
LEMMA PipeDiedKeeps ==
    ASSUME PipeInv, PipeDied
    PROVE  PipeInv'
<1>1. died \in Seq(Clients) /\ Distinct(died) /\ died # <<>> /\ died' = Tail(died)
  BY DEF PipeDied, PipeInv, PipeTypes
<1>2. PICK c \in Clients : c = Head(died)
  BY <1>1
<1>3. /\ died' \in Seq(Clients) /\ Distinct(died') /\ On(died') = On(died) \ {c} /\ c \in On(died)
  BY <1>1, <1>2, TailUnlinks
<1>4. /\ inode' = (CASE inode.RRcv = c -> [inode EXCEPT !.RRcv = NoClient]
                     [] inode.RRcv # c /\ inode.WRcv = c -> [inode EXCEPT !.WRcv = NoClient]
                     [] OTHER -> inode)
      /\ client' = (IF c \in {inode.RRcv, inode.WRcv} THEN [client EXCEPT ![c] = "ends"] ELSE client)
      /\ Serving /\ UNCHANGED <<finishing, sender, process, files, message, told, taken>>
  BY <1>2 DEF PipeDied
<1>5. Between /\ inode \in Inodes /\ client \in [Clients -> ClientStates]
  BY <1>4 DEF PipeInv, PipeTypes
<1>6. client[c] \notin {"runs", "send", "reply"} /\ (c \in {inode.RRcv, inode.WRcv} <=> client[c] = "dieing")
  <2>1. client[c] \notin {"runs", "send", "reply"}
    BY <1>3 DEF PipeInv, Lives
  <2>2. c \in {inode.RRcv, inode.WRcv} <=> client[c] \in {"reply", "dieing"}
    BY <1>4, <1>5 DEF Between, KnowsWhoWaits
  <2>3. QED BY <2>1, <2>2
<1>7. /\ inode' \in Inodes /\ inode'.HasRW = inode.HasRW
      /\ inode'.RRcv = IF inode.RRcv = c THEN NoClient ELSE inode.RRcv
      /\ inode'.WRcv = IF inode.WRcv = c THEN NoClient ELSE inode.WRcv
      /\ inode'.RLen = inode.RLen /\ inode'.WPtr = inode.WPtr
      /\ inode'.WLeft = inode.WLeft /\ inode'.WDone = inode.WDone
  <2>1. inode.RRcv = c => inode.WRcv # c
    BY <1>5, InodeFields, ClientsAre
  <2>2. CASE inode.RRcv = c
    BY <1>4, <1>5, <2>1, <2>2 DEF Inodes
  <2>3. CASE inode.RRcv # c /\ inode.WRcv = c
    BY <1>4, <1>5, <2>3 DEF Inodes
  <2>4. CASE inode.RRcv # c /\ inode.WRcv # c
    BY <1>4, <1>5, <2>4
  <2>5. QED BY <2>2, <2>3, <2>4
<1>8. /\ client' \in [Clients -> ClientStates]
      /\ \A x \in Clients : client'[x] = IF x = c /\ client[c] = "dieing" THEN "ends" ELSE client[x]
  BY <1>4, <1>5, <1>6, ClientsAre
<1>9. PipeTypes'
  BY <1>3, <1>4, <1>7, <1>8 DEF PipeInv, PipeTypes
<1>10. ASSUME NEW x \in Clients PROVE Lives(x)'
  BY <1>3, <1>4, <1>8 DEF PipeInv, Lives, Alive
<1>11. Serving' /\ Between'
  <2>1. Serving' /\ KnowsWhoWaits
    BY <1>4, <1>5 DEF Serving, Between
  <2>2. \A x \in Clients : x \in {inode.RRcv, inode.WRcv} <=> client[x] \in {"reply", "dieing"}
    BY <1>4, <2>1 DEF KnowsWhoWaits
  <2>3. ASSUME NEW x \in Clients
        PROVE  x \in {inode'.RRcv, inode'.WRcv} <=> client'[x] \in {"reply", "dieing"}
    BY <1>6, <1>7, <1>8, <2>2, ClientsAre
  <2>4. KnowsWhoWaits'
    BY <2>3 DEF KnowsWhoWaits
  <2>5. QED BY <1>4, <1>5, <1>7, <2>1, <2>4, ClientsAre DEF Between
<1>12. Progress' /\ Truth'
  <2>1. \A x \in Clients : client'[x] \in {"runs", "send"} => client'[x] = client[x]
    BY <1>8
  <2>2. Progress'
    BY <1>4, <1>7, <2>1, ClientsAre DEF PipeInv, Progress, Written
  <2>3. \A x \in Clients : Answered(x)' => Answered(x)
    BY <1>4, <2>1 DEF Answered
  <2>4. Truth'
    BY <1>4, <1>7, <2>3, ClientsAre DEF PipeInv, Truth, Written
  <2>5. QED BY <2>2, <2>4
<1>13. QED BY <1>9, <1>10, <1>11, <1>12 DEF PipeInv

-----------------------------------------------------------------------------
LEMMA PipeNextKeeps ==
    ASSUME PipeInv, [PipeNext]_pipeVars
    PROVE  PipeInv'
<1>1. CASE ReadCalled
  BY <1>1, ReadCalledKeeps
<1>2. CASE WriteCalled
  BY <1>2, WriteCalledKeeps
<1>3. ASSUME NEW c \in Clients, RemCon(c) \/ Kill(c) \/ ExitGoesOn(c) PROVE PipeInv'
  BY <1>3, RemConKeeps, KillKeeps, ProgramEndsKeeps, SigTryKeeps, ExtraKillKeeps, ExitClosesKeeps
     DEF ExitGoesOn
<1>4. CASE PipeServes
  BY <1>4, PipeReadKeeps, PipeWriteKeeps, PipeCloseKeeps, WriterFailsKeeps, PipeDiedKeeps DEF PipeServes
<1>5. CASE UNCHANGED pipeVars
  <2>1. PipeTypes' /\ Truth' /\ Progress' /\ \A c \in Clients : Lives(c)'
    BY <1>5 DEF pipeVars, PipeInv, PipeTypes, Truth, Progress, Answered, Written, Lives, Alive
  <2>2. (Serving => Between)' /\ (~ Serving => Killing(Head(finishing)))'
    BY <1>5, BooksStay DEF pipeVars
  <2>3. QED BY <2>1, <2>2 DEF PipeInv
<1>6. QED BY <1>1, <1>2, <1>3, <1>4, <1>5 DEF PipeNext

(* PipeInv is inductive: whatever the two processes do and however they     *)
(* end, the inode's RRcv and WRcv are the threads that wait.                *)
THEOREM PipeInvariant == PipeSpec => []PipeInv
<1>1. PipeInit => PipeInv
  BY InitPipeInv
<1>2. PipeInv /\ [PipeNext]_pipeVars => PipeInv'
  BY PipeNextKeeps
<1>3. QED BY <1>1, <1>2, PTL DEF PipeSpec

(* For any sizes of reads and writes: the server of pipe.a65 answers the    *)
(* threads that wait for it and no others, bytes arrive in order and once   *)
(* each, and what a read or a write returns is what has been moved.         *)
THEOREM PipeIsSound == PipeSpec => []PipeSound
<1>1. PipeInv => PipeSound
  <2> SUFFICES ASSUME PipeInv PROVE PipeSound
    OBVIOUS
  <2>1. PipeTypeOK
    <3>1. inode.HasRW \subseteq Clients /\ {inode.RRcv, inode.WRcv} \subseteq Clients \cup {NoClient}
      BY InodeFields, ClientsAre DEF PipeInv, PipeTypes
    <3>2. QED BY <3>1 DEF PipeTypeOK, PipeInv, PipeTypes
  <2>2. KnowsWhoWaits
    BY DEF PipeInv, Between, KnowsWhoWaits
  <2>3. TellsTrue
    BY DEF PipeInv, Truth, TellsTrue
  <2>4. QED BY <2>1, <2>2, <2>3 DEF PipeSound
<1>2. QED BY <1>1, PipeInvariant, PTL

=============================================================================
