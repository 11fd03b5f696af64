---------------------------- MODULE QueuesProofs ----------------------------
(* What the queue operators do to the set of linked threads.               *)
EXTENDS Queues, SequenceTheorems, FiniteSetTheorems, TLAPS

LEMMA OnMember ==
    ASSUME NEW S, NEW q \in Seq(S)
    PROVE  /\ Len(q) \in Nat /\ DOMAIN q = 1..Len(q)
           /\ \A i \in 1..Len(q) : q[i] \in S /\ q[i] \in On(q)
           /\ \A y : y \in On(q) <=> \E i \in 1..Len(q) : q[i] = y
           /\ On(q) \subseteq S
BY DEF On, ToSet

(* Linking a thread at the end of a queue (addQueueR before the head) adds  *)
(* it, and nothing else; a thread that was not linked is not linked twice. *)
LEMMA AppendLinks ==
    ASSUME NEW S, NEW q \in Seq(S), NEW x \in S
    PROVE  /\ Append(q, x) \in Seq(S)
           /\ On(Append(q, x)) = On(q) \cup {x}
           /\ Distinct(q) /\ x \notin On(q) => Distinct(Append(q, x))
<1> DEFINE r == Append(q, x)
<1>1. /\ r \in Seq(S) /\ Len(r) = Len(q) + 1 /\ r[Len(q) + 1] = x
      /\ \A i \in 1..Len(q) : r[i] = q[i]
  BY AppendProperties
<1> HIDE DEF r
<1>2. ASSUME NEW y PROVE y \in On(r) <=> y \in On(q) \cup {x}
  <2>1. y \in On(r) <=> \E i \in 1..Len(q)+1 : r[i] = y
    BY <1>1, OnMember
  <2>2. y \in On(q) <=> \E i \in 1..Len(q) : q[i] = y
    BY OnMember
  <2>3. Len(q) \in Nat
    BY OnMember
  <2>4. QED BY <1>1, <2>1, <2>2, <2>3
<1>3. ASSUME Distinct(q), x \notin On(q) PROVE Distinct(r)
  <2>1. \A i \in 1..Len(q) : q[i] # x
    BY <1>3, OnMember
  <2>2. DOMAIN r = 1..Len(q)+1 /\ DOMAIN q = 1..Len(q) /\ Len(q) \in Nat
    BY <1>1, OnMember
  <2>3. QED BY <1>1, <1>3, <2>1, <2>2 DEF Distinct
<1>4. QED BY <1>1, <1>2, <1>3 DEF r

(* Linking a thread in front of all others.                                *)
LEMMA PrependLinks ==
    ASSUME NEW S, NEW q \in Seq(S), NEW x \in S
    PROVE  /\ <<x>> \o q \in Seq(S) /\ On(<<x>> \o q) = On(q) \cup {x}
           /\ Distinct(q) /\ x \notin On(q) => Distinct(<<x>> \o q)
<1> DEFINE r == <<x>> \o q
<1>1. <<x>> \in Seq(S) /\ Len(<<x>>) = 1 /\ <<x>>[1] = x /\ Len(q) \in Nat /\ DOMAIN q = 1..Len(q)
  BY OnMember
<1>2. /\ r \in Seq(S) /\ Len(r) = Len(q) + 1
      /\ \A i \in 1..Len(q) + 1 : r[i] = IF i <= 1 THEN <<x>>[i] ELSE q[i - 1]
  BY <1>1, ConcatProperties
<1> HIDE DEF r
<1>3. /\ DOMAIN r = 1..Len(q) + 1 /\ r[1] = x
      /\ \A i \in 1..Len(q) : r[i + 1] = q[i]
      /\ \A i \in 1..Len(q) + 1 : i = 1 \/ (i - 1 \in 1..Len(q) /\ r[i] = q[i - 1])
  <2>1. 1 \in 1..Len(q) + 1
    BY <1>1
  <2>2. DOMAIN r = 1..Len(q) + 1
    BY <1>2, OnMember
  <2>3. r[1] = x
    BY <1>1, <1>2, <2>1
  <2>4. ASSUME NEW i \in 1..Len(q) PROVE r[i + 1] = q[i]
    <3>1. i + 1 \in 1..Len(q) + 1 /\ ~ (i + 1 <= 1) /\ (i + 1) - 1 = i
      BY <1>1
    <3>2. QED BY <1>2, <3>1
  <2>5. ASSUME NEW i \in 1..Len(q) + 1, i # 1 PROVE i - 1 \in 1..Len(q) /\ r[i] = q[i - 1]
    BY <1>1, <1>2, <2>5
  <2>6. QED BY <2>2, <2>3, <2>4, <2>5
<1>4. ASSUME NEW y PROVE y \in On(r) <=> y \in On(q) \cup {x}
  <2>1. y \in On(r) <=> \E i \in 1..Len(q) + 1 : r[i] = y
    BY <1>2, OnMember
  <2>2. y \in On(q) <=> \E i \in 1..Len(q) : q[i] = y
    BY OnMember
  <2>3. 1 \in 1..Len(q) + 1 /\ \A i \in 1..Len(q) : i + 1 \in 1..Len(q) + 1
    BY <1>1
  <2>4. QED BY <1>3, <2>1, <2>2, <2>3
<1>5. ASSUME Distinct(q), x \notin On(q) PROVE Distinct(r)
  <2>1. \A i \in 1..Len(q) : q[i] # x
    BY <1>5, OnMember
  <2>2. ASSUME NEW i \in 1..Len(q) + 1, NEW j \in 1..Len(q) + 1, r[i] = r[j] PROVE i = j
    <3>1. CASE i = 1 \/ j = 1
      BY <1>3, <2>1, <2>2, <3>1
    <3>2. CASE i # 1 /\ j # 1
      <4>1. /\ i - 1 \in DOMAIN q /\ j - 1 \in DOMAIN q /\ q[i - 1] = q[j - 1]
        BY <1>1, <1>3, <2>2, <3>2
      <4>2. i - 1 = j - 1
        BY <1>5, <4>1 DEF Distinct
      <4>3. QED BY <1>1, <4>2
    <3>3. QED BY <3>1, <3>2
  <2>3. QED BY <1>3, <2>2 DEF Distinct
<1>6. QED BY <1>2, <1>4, <1>5 DEF r

(* Taking the first thread off a queue removes it, and nothing else.        *)
LEMMA TailUnlinks ==
    ASSUME NEW S, NEW q \in Seq(S), q # << >>, Distinct(q)
    PROVE  /\ Head(q) \in On(q) /\ Head(q) \in S
           /\ Tail(q) \in Seq(S)
           /\ On(Tail(q)) = On(q) \ {Head(q)}
           /\ Distinct(Tail(q))
<1>1. /\ Tail(q) \in Seq(S) /\ Len(Tail(q)) = Len(q) - 1 /\ Len(q) \in Nat \ {0}
      /\ \A i \in 1 .. Len(Tail(q)) : Tail(q)[i] = q[i+1]
      /\ Head(q) = q[1] /\ Head(q) \in S
  BY HeadTailProperties, EmptySeq
<1>2. DOMAIN q = 1..Len(q) /\ DOMAIN Tail(q) = 1 .. Len(q) - 1
  BY <1>1
<1>3. Head(q) \in On(q)
  BY <1>1, <1>2 DEF On, ToSet
<1>4. Distinct(Tail(q))
  BY <1>1, <1>2 DEF Distinct
<1>5. ASSUME NEW y PROVE y \in On(Tail(q)) <=> y \in On(q) \ {Head(q)}
  <2>1. ASSUME y \in On(Tail(q)) PROVE y \in On(q) \ {Head(q)}
    BY <2>1, <1>1, <1>2 DEF On, ToSet, Distinct
  <2>2. ASSUME y \in On(q) \ {Head(q)} PROVE y \in On(Tail(q))
    <3>1. PICK i \in 1..Len(q) : q[i] = y
      BY <2>2, <1>2 DEF On, ToSet
    <3>2. i - 1 \in 1 .. Len(q) - 1 /\ Tail(q)[i - 1] = y
      BY <3>1, <2>2, <1>1
    <3>3. QED BY <3>2, <1>2 DEF On, ToSet
  <2>3. QED BY <2>1, <2>2
<1>6. QED BY <1>1, <1>3, <1>4, <1>5

(* Taking place k out of a sequence moves the places behind it up by one.  *)
LEMMA RemoveAtShape ==
    ASSUME NEW S, NEW q \in Seq(S), NEW k \in 1..Len(q)
    PROVE  /\ RemoveAt(q, k) \in Seq(S) /\ Len(RemoveAt(q, k)) = Len(q) - 1
           /\ \A i \in 1 .. Len(q) - 1 :
                 RemoveAt(q, k)[i] = IF i < k THEN q[i] ELSE q[i + 1]
<1> DEFINE front == SubSeq(q, 1, k-1)
           rest == SubSeq(q, k+1, Len(q))
<1>0. k \in Int /\ Len(q) \in Nat /\ DOMAIN q = 1..Len(q)
  BY OnMember
<1>2. \A i \in 1..Len(q) : q[i] \in S
  BY OnMember
<1>3. /\ front \in Seq(S) /\ Len(front) = k - 1
      /\ \A i \in 1 .. k - 1 : front[i] = q[i]
  BY <1>0, <1>2, SubSeqProperties
<1>4. /\ rest \in Seq(S) /\ Len(rest) = Len(q) - k
      /\ \A i \in 1 .. Len(q) - k : rest[i] = q[k + i]
  <2>1. k + 1 \in Int /\ Len(q) \in Int /\ \A i \in k + 1 .. Len(q) : q[i] \in S
    BY <1>0, <1>2
  <2>2. /\ rest \in Seq(S)
        /\ Len(rest) = IF k + 1 <= Len(q) THEN Len(q) - (k + 1) + 1 ELSE 0
        /\ \A i \in 1 .. Len(q) - (k + 1) + 1 : rest[i] = q[(k + 1) + i - 1]
    BY <2>1, SubSeqProperties
  <2> HIDE DEF rest
  <2>3. ASSUME NEW i \in 1 .. Len(q) - k PROVE rest[i] = q[k + i]
    <3>1. i \in 1 .. Len(q) - (k + 1) + 1 /\ (k + 1) + i - 1 = k + i
      BY <1>0
    <3>2. QED BY <2>2, <3>1
  <2>4. Len(rest) = Len(q) - k
    <3>1. Len(rest) = IF k + 1 <= Len(q) THEN Len(q) - (k + 1) + 1 ELSE 0
      BY <2>2
    <3>2. k \in Int /\ Len(q) \in Int /\ k <= Len(q)
      BY <1>0
    <3>3. QED BY <3>1, <3>2
  <2>5. QED BY <2>2, <2>3, <2>4
<1> HIDE DEF front, rest
<1> DEFINE r == front \o rest
<1>5. /\ r \in Seq(S) /\ Len(r) = Len(q) - 1
      /\ \A i \in 1 .. Len(q) - 1 : r[i] = IF i < k THEN q[i] ELSE q[i + 1]
  <2>1. /\ r \in Seq(S) /\ Len(r) = Len(front) + Len(rest)
        /\ \A i \in 1 .. Len(front) + Len(rest) :
              r[i] = IF i <= Len(front) THEN front[i] ELSE rest[i - Len(front)]
    BY <1>3, <1>4, ConcatProperties
  <2> HIDE DEF r
  <2>2. Len(r) = Len(q) - 1
    BY <1>0, <1>3, <1>4, <2>1
  <2>3. ASSUME NEW i \in 1 .. Len(q) - 1
        PROVE  r[i] = IF i < k THEN q[i] ELSE q[i + 1]
    <3>0. r[i] = IF i <= k - 1 THEN front[i] ELSE rest[i - (k - 1)]
      BY <2>1, <2>2, <1>0, <1>3, <1>4
    <3>1. CASE i < k
      <4>1. i \in 1 .. k - 1 BY <3>1, <1>0
      <4>2. QED BY <3>0, <3>1, <4>1, <1>0, <1>3
    <3>2. CASE i >= k
      <4>1. r[i] = rest[i - (k - 1)]
        BY <3>0, <3>2, <1>0
      <4>2. i - (k - 1) \in 1 .. Len(q) - k /\ k + (i - (k - 1)) = i + 1
        BY <3>2, <1>0
      <4>3. QED BY <3>2, <4>1, <4>2, <1>0, <1>4
    <3>3. QED BY <3>1, <3>2, <1>0
  <2>4. QED BY <2>1, <2>2, <2>3
<1>6. RemoveAt(q, k) = r
  BY DEF RemoveAt, r, front, rest
<1> HIDE DEF r
<1>7. QED BY <1>5, <1>6

(* Each place that is left was another one before; none but k is gone.     *)
OneLess(q, k, r) ==
    /\ \A i \in 1..Len(r) : \E j \in 1..Len(q) : j # k /\ r[i] = q[j]
    /\ \A j \in 1..Len(q) : j # k => \E i \in 1..Len(r) : r[i] = q[j]
    /\ \A i, j \in 1..Len(r) : i # j =>
          \E u, v \in 1..Len(q) : u # v /\ r[i] = q[u] /\ r[j] = q[v]

LEMMA RemoveAtPlaces ==
    ASSUME NEW S, NEW q \in Seq(S), NEW k \in 1..Len(q)
    PROVE  RemoveAt(q, k) \in Seq(S) /\ OneLess(q, k, RemoveAt(q, k))
<1> DEFINE r == RemoveAt(q, k)
           P(i) == IF i < k THEN i ELSE i + 1
<1>0. k \in Int /\ Len(q) \in Nat
  BY OnMember
<1>1. r \in Seq(S) /\ Len(r) = Len(q) - 1 /\ \A i \in 1 .. Len(q) - 1 : r[i] = IF i < k THEN q[i] ELSE q[i + 1]
  BY RemoveAtShape
<1> HIDE DEF r
<1>2. ASSUME NEW i \in 1..Len(r) PROVE P(i) \in 1..Len(q) /\ P(i) # k /\ r[i] = q[P(i)]
  BY <1>0, <1>1
<1>3. ASSUME NEW j \in 1..Len(q), j # k PROVE \E i \in 1..Len(r) : r[i] = q[j]
  <2>1. CASE j < k
    <3>1. j \in 1..Len(q) - 1 /\ r[j] = q[j]
      BY <1>0, <1>1, <2>1
    <3>2. QED BY <3>1, <1>1
  <2>2. CASE j > k
    <3>1. j - 1 \in 1..Len(q) - 1 /\ ~(j - 1 < k) /\ (j - 1) + 1 = j
      BY <1>0, <2>2
    <3>2. r[j - 1] = q[j]
      BY <1>1, <3>1
    <3>3. QED BY <3>1, <3>2, <1>1
  <2>3. QED BY <2>1, <2>2, <1>3, <1>0
<1>4. ASSUME NEW i \in 1..Len(r), NEW j \in 1..Len(r), i # j PROVE P(i) # P(j)
  BY <1>0, <1>1, <1>4
<1> HIDE DEF P
<1>5. ASSUME NEW i \in 1..Len(r), NEW j \in 1..Len(r), i # j
      PROVE  \E u, v \in 1..Len(q) : u # v /\ r[i] = q[u] /\ r[j] = q[v]
  BY <1>2, <1>4, <1>5
<1>6. QED BY <1>1, <1>2, <1>3, <1>5 DEF r, OneLess

(* remQueueR takes one place out of the queue: the threads behind it move   *)
(* up, and nobody else moves.                                              *)
LEMMA WithoutShape ==
    ASSUME NEW S, NEW q \in Seq(S), NEW x \in On(q)
    PROVE  \E k \in 1..Len(q) :
             /\ q[k] = x /\ Without(q, x) \in Seq(S) /\ Len(Without(q, x)) = Len(q) - 1
             /\ \A i \in 1 .. Len(q) - 1 :
                   Without(q, x)[i] = IF i < k THEN q[i] ELSE q[i + 1]
<1>1. PICK k \in 1..Len(q) : q[k] = x /\ k = CHOOSE i \in DOMAIN q : q[i] = x
  BY OnMember
<1>2. Without(q, x) = RemoveAt(q, k)
  BY <1>1 DEF Without
<1>3. QED BY <1>1, <1>2, RemoveAtShape, ZenonT(60)

(* Unlinking a thread from the middle of a queue (remQueueR) removes it,    *)
(* and nothing else.                                                       *)
LEMMA WithoutUnlinks ==
    ASSUME NEW S, NEW q \in Seq(S), Distinct(q), NEW x \in On(q)
    PROVE  /\ Without(q, x) \in Seq(S)
           /\ On(Without(q, x)) = On(q) \ {x}
           /\ Distinct(Without(q, x))
<1> DEFINE r == Without(q, x)
<1>0. Len(q) \in Nat /\ DOMAIN q = 1..Len(q)
  BY OnMember
<1>5. PICK k \in 1..Len(q) :
        /\ q[k] = x /\ r \in Seq(S) /\ Len(r) = Len(q) - 1
        /\ \A i \in 1 .. Len(q) - 1 : r[i] = IF i < k THEN q[i] ELSE q[i + 1]
  BY WithoutShape
<1>6. k \in Int /\ k \in 1..Len(q)
  BY <1>0
<1> HIDE DEF r
<1>7. DOMAIN r = 1 .. Len(q) - 1
  BY <1>5
<1>8. Distinct(r)
  BY SMTT(20), <1>0, <1>5, <1>6, <1>7 DEF Distinct
<1>9. ASSUME NEW y PROVE y \in On(r) <=> y \in On(q) \ {x}
  <2>1. y \in On(r) <=> \E i \in 1 .. Len(q) - 1 : r[i] = y
    BY <1>5, OnMember
  <2>2. y \in On(q) <=> \E i \in 1..Len(q) : q[i] = y
    BY OnMember
  <2>3. ASSUME NEW i \in 1 .. Len(q) - 1, r[i] = y PROVE y \in On(q) \ {x}
    <3>1. CASE i < k
      <4>1. i \in 1..Len(q) /\ q[i] = y /\ i # k
        BY <3>1, <2>3, <1>0, <1>5, <1>6
      <4>2. q[i] # q[k]
        BY <4>1, <1>0 DEF Distinct
      <4>3. QED BY <4>1, <4>2, <2>2, <1>5
    <3>2. CASE i >= k
      <4>1. i + 1 \in 1..Len(q) /\ q[i + 1] = y /\ i + 1 # k
        BY <3>2, <2>3, <1>0, <1>5, <1>6
      <4>2. q[i + 1] # q[k]
        BY <4>1, <1>0 DEF Distinct
      <4>3. QED BY <4>1, <4>2, <2>2, <1>5
    <3>3. QED BY <3>1, <3>2, <1>0, <1>6
  <2>4. ASSUME NEW i \in 1..Len(q), q[i] = y, y # x
        PROVE  \E j \in 1 .. Len(q) - 1 : r[j] = y
    <3>1. CASE i < k BY <3>1, <2>4, <1>0, <1>5, <1>6
    <3>2. CASE i > k
      <4>1. i - 1 \in 1 .. Len(q) - 1 /\ r[i - 1] = q[i] BY <3>2, <1>0, <1>5, <1>6
      <4>2. QED BY <4>1, <2>4
    <3>3. QED BY <3>1, <3>2, <2>4, <1>0, <1>5, <1>6
  <2>5. QED BY <2>1, <2>2, <2>3, <2>4
<1>10. QED BY <1>5, <1>8, <1>9 DEF r

(* Linking a thread in front of place k moves the threads from there on one *)
(* place back, and nobody else.                                            *)
LEMMA InsertShape ==
    ASSUME NEW S, NEW q \in Seq(S), NEW x \in S, NEW k \in 1 .. Len(q) + 1
    PROVE  /\ InsertAt(q, k, x) \in Seq(S) /\ Len(InsertAt(q, k, x)) = Len(q) + 1
           /\ \A i \in 1 .. Len(q) + 1 :
                 InsertAt(q, k, x)[i] = IF i < k THEN q[i] ELSE IF i = k THEN x ELSE q[i - 1]
<1> DEFINE front == SubSeq(q, 1, k-1)
           rest == SubSeq(q, k, Len(q))
           r == front \o <<x>> \o rest
<1>1. Len(q) \in Nat /\ DOMAIN q = 1..Len(q) /\ \A i \in 1..Len(q) : q[i] \in S
  BY OnMember
<1>2. /\ front \in Seq(S) /\ Len(front) = k - 1
      /\ \A i \in 1 .. k - 1 : front[i] = q[i]
  BY <1>1, SubSeqProperties
<1>3. /\ rest \in Seq(S) /\ Len(rest) = Len(q) - k + 1
      /\ \A i \in 1 .. Len(q) - k + 1 : rest[i] = q[k + i - 1]
  BY <1>1, SubSeqProperties
<1>4. <<x>> \in Seq(S) /\ Len(<<x>>) = 1 /\ <<x>>[1] = x
  OBVIOUS
<1> HIDE DEF front, rest
<1>5. /\ front \o <<x>> \in Seq(S) /\ Len(front \o <<x>>) = k
      /\ \A i \in 1..k : (front \o <<x>>)[i] = IF i < k THEN q[i] ELSE x
  BY <1>1, <1>2, <1>4, ConcatProperties
<1>6. /\ r \in Seq(S) /\ Len(r) = Len(q) + 1
      /\ \A i \in 1 .. Len(q) + 1 :
            r[i] = IF i < k THEN q[i] ELSE IF i = k THEN x ELSE q[i - 1]
  <2> DEFINE fx == front \o <<x>>
  <2>1. fx \in Seq(S) /\ Len(fx) = k /\ \A i \in 1..k : fx[i] = IF i < k THEN q[i] ELSE x
    BY <1>5
  <2> HIDE DEF fx
  <2>2. /\ fx \o rest \in Seq(S) /\ Len(fx \o rest) = Len(fx) + Len(rest)
        /\ \A i \in 1 .. Len(fx) + Len(rest) :
              (fx \o rest)[i] = IF i <= Len(fx) THEN fx[i] ELSE rest[i - Len(fx)]
    BY <1>3, <2>1, ConcatProperties
  <2>3. r = fx \o rest
    BY DEF fx
  <2> HIDE DEF r
  <2>4. Len(r) = Len(q) + 1
    BY <1>1, <1>3, <2>1, <2>2, <2>3
  <2>5. ASSUME NEW i \in 1 .. Len(q) + 1
        PROVE  r[i] = IF i < k THEN q[i] ELSE IF i = k THEN x ELSE q[i - 1]
    <3>1. CASE i <= k BY <3>1, <2>1, <2>2, <2>3, <1>1, <1>3
    <3>2. CASE i > k
      <4>1. r[i] = rest[i - k]
        BY <3>2, <2>1, <2>2, <2>3, <1>1, <1>3
      <4>2. i - k \in 1 .. Len(q) - k + 1 /\ k + (i - k) - 1 = i - 1
        BY <3>2, <1>1
      <4>3. QED BY SMTT(20), <3>2, <4>1, <4>2, <1>1, <1>3
    <3>3. QED BY <3>1, <3>2, <1>1
  <2>6. QED BY <2>2, <2>3, <2>4, <2>5
<1>7. InsertAt(q, k, x) = r
  BY DEF InsertAt, r, front, rest
<1> HIDE DEF r
<1>8. QED BY <1>6, <1>7

(* Putting a thread into the middle of a queue adds it, and nothing else.   *)
LEMMA InsertLinks ==
    ASSUME NEW S, NEW q \in Seq(S), NEW x \in S, NEW k \in 1 .. Len(q) + 1
    PROVE  /\ InsertAt(q, k, x) \in Seq(S)
           /\ On(InsertAt(q, k, x)) = On(q) \cup {x}
           /\ InsertAt(q, k, x) # << >>
           /\ Distinct(q) /\ x \notin On(q) => Distinct(InsertAt(q, k, x))
<1> DEFINE r == InsertAt(q, k, x)
<1>1. Len(q) \in Nat /\ DOMAIN q = 1..Len(q) /\ \A i \in 1..Len(q) : q[i] \in S
  BY OnMember
<1>6. /\ r \in Seq(S) /\ Len(r) = Len(q) + 1
      /\ \A i \in 1 .. Len(q) + 1 :
            r[i] = IF i < k THEN q[i] ELSE IF i = k THEN x ELSE q[i - 1]
  BY InsertShape
<1> HIDE DEF r
<1>8. DOMAIN r = 1 .. Len(q) + 1
  BY <1>6
<1>9. ASSUME NEW y PROVE y \in On(r) <=> y \in On(q) \cup {x}
  <2>1. y \in On(r) <=> \E i \in 1 .. Len(q) + 1 : r[i] = y
    BY <1>6, OnMember
  <2>2. y \in On(q) <=> \E i \in 1..Len(q) : q[i] = y
    BY OnMember
  <2>3. ASSUME NEW i \in 1 .. Len(q) + 1, r[i] = y PROVE y \in On(q) \cup {x}
    BY <2>2, <2>3, <1>1, <1>6
  <2>4. ASSUME NEW i \in 1..Len(q), q[i] = y
        PROVE  \E j \in 1 .. Len(q) + 1 : r[j] = y
    <3>1. CASE i < k BY <3>1, <2>4, <1>1, <1>6
    <3>2. CASE i >= k
      <4>1. i + 1 \in 1 .. Len(q) + 1 /\ r[i + 1] = q[i] BY <3>2, <1>1, <1>6
      <4>2. QED BY <4>1, <2>4
    <3>3. QED BY <3>1, <3>2, <1>1
  <2>5. QED BY <2>1, <2>2, <2>3, <2>4, <1>1, <1>6
<1>10. ASSUME Distinct(q), x \notin On(q) PROVE Distinct(r)
  <2>1. \A i \in 1..Len(q) : q[i] # x
    BY <1>10, OnMember
  <2>2. SUFFICES ASSUME NEW i \in 1 .. Len(q) + 1, NEW j \in 1 .. Len(q) + 1,
                        r[i] = r[j]
                 PROVE  i = j
    BY <1>8 DEF Distinct
  <2> DEFINE at(h) == IF h < k THEN h ELSE h - 1
  <2>3. \A h \in 1 .. Len(q) + 1 : h # k => at(h) \in 1..Len(q) /\ r[h] = q[at(h)]
    BY <1>1, <1>6
  <2>4. r[k] = x
    BY <1>1, <1>6
  <2>5. CASE i # k /\ j # k
    <3>1. q[at(i)] = q[at(j)] /\ at(i) \in 1..Len(q) /\ at(j) \in 1..Len(q)
      BY <2>2, <2>3, <2>5
    <3>2. at(i) = at(j)
      BY <3>1, <1>1, <1>10 DEF Distinct
    <3>3. QED BY <3>2, <2>5, <1>1
  <2>6. CASE i = k \/ j = k
    BY <2>1, <2>2, <2>3, <2>4, <2>6
  <2>7. QED BY <2>5, <2>6
<1>11. r # << >>
  BY <1>6, <1>1
<1>12. QED BY <1>6, <1>9, <1>10, <1>11 DEF r

(* reSched2 finds its place inside the queue, so it links the thread and    *)
(* nothing else.                                                           *)
LEMMA EnlistLinks ==
    ASSUME NEW S, NEW q \in Seq(S), NEW x \in S, NEW rank
    PROVE  /\ Enlist(q, rank, x) \in Seq(S)
           /\ On(Enlist(q, rank, x)) = On(q) \cup {x}
           /\ Enlist(q, rank, x) # << >>
           /\ Distinct(q) /\ x \notin On(q) => Distinct(Enlist(q, rank, x))
<1> DEFINE better == {i \in DOMAIN q : rank[q[i]] >= rank[x]}
<1>1. Len(q) \in Nat /\ DOMAIN q = 1..Len(q)
  BY OnMember
<1>2. IsFiniteSet(1..Len(q)) /\ Cardinality(1..Len(q)) = Len(q)
  BY SMTT(20), <1>1, FS_Interval
<1>3. better \in SUBSET (1..Len(q))
  BY <1>1
<1> HIDE DEF better
<1>4. Cardinality(better) \in Nat /\ Cardinality(better) <= Len(q)
  BY <1>2, <1>3, FS_Subset, FS_CardinalityType
<1>5. Cardinality(better) + 1 \in 1 .. Len(q) + 1
  BY <1>1, <1>4
<1>6. Enlist(q, rank, x) = InsertAt(q, Cardinality(better) + 1, x)
  BY DEF Enlist, better
<1>7. QED BY <1>5, <1>6, InsertLinks

-----------------------------------------------------------------------------
(***************************************************************************)
(* The queue stays sorted.                                                 *)
(***************************************************************************)

(* Being sorted looks at the ranks of the linked threads only.             *)
LEMMA SortedSame ==
    ASSUME NEW S, NEW q \in Seq(S), NEW f, NEW g,
           \A y \in On(q) : f[y] = g[y], SortedBy(q, f)
    PROVE  SortedBy(q, g)
<1>1. Len(q) \in Nat /\ DOMAIN q = 1..Len(q) /\ \A i \in 1..Len(q) : q[i] \in On(q)
  BY OnMember
<1>2. QED BY <1>1 DEF SortedBy

(* Unlinking leaves the others in their order.                             *)
LEMMA WithoutSorted ==
    ASSUME NEW S, NEW q \in Seq(S), NEW x \in On(q), NEW rank, SortedBy(q, rank)
    PROVE  SortedBy(Without(q, x), rank)
<1> DEFINE r == Without(q, x)
<1>1. PICK k \in 1..Len(q) :
        /\ r \in Seq(S) /\ Len(r) = Len(q) - 1
        /\ \A i \in 1 .. Len(q) - 1 : r[i] = IF i < k THEN q[i] ELSE q[i + 1]
  BY WithoutShape
<1>2. Len(q) \in Nat /\ DOMAIN q = 1..Len(q) /\ DOMAIN r = 1 .. Len(q) - 1 /\ k \in Int
  BY <1>1, OnMember
<1> HIDE DEF r
<1>3. ASSUME NEW i \in 1 .. Len(q) - 1, NEW j \in 1 .. Len(q) - 1, i < j
      PROVE  rank[r[i]] >= rank[r[j]]
  <2> DEFINE at(h) == IF h < k THEN h ELSE h + 1
  <2>1. /\ at(i) \in 1..Len(q) /\ at(j) \in 1..Len(q) /\ at(i) < at(j)
        /\ r[i] = q[at(i)] /\ r[j] = q[at(j)]
    BY <1>1, <1>2, <1>3
  <2> HIDE DEF at
  <2>2. QED BY <1>2, <2>1 DEF SortedBy
<1>4. QED BY <1>2, <1>3 DEF SortedBy, r

(* Places of a queue with which all those before them count are its first   *)
(* ones, and as many as there are of them.                                 *)
LEMMA FirstOnes ==
    ASSUME NEW n \in Nat, NEW P \in SUBSET (1..n), \A i \in P : 1..i \subseteq P
    PROVE  Cardinality(P) \in 0..n /\ P = 1..Cardinality(P)
<1> DEFINE k == Cardinality(P)
<1>1. IsFiniteSet(1..n) /\ Cardinality(1..n) = n
  BY FS_Interval, SMTT(20)
<1>2. IsFiniteSet(P) /\ k \in Nat /\ k <= n
  BY ZenonT(50), <1>1, FS_Subset, FS_CardinalityType
<1>3. ASSUME NEW i \in P PROVE i \in 1..k
  <2>1. i \in Nat /\ i >= 1
    OBVIOUS
  <2>2. Cardinality(1..i) <= k
    BY <1>2, FS_Subset
  <2>3. Cardinality(1..i) = i
    BY <2>1, FS_Interval, SMTT(20)
  <2>4. QED BY <2>1, <2>2, <2>3, <1>2
<1>4. IsFiniteSet(1..k) /\ Cardinality(1..k) = k
  BY <1>2, FS_Interval, SMTT(20)
<1>5. P = 1..k
  BY <1>3, <1>4, FS_Subset
<1>6. QED BY <1>2, <1>5

(* What holds of 0 and goes from each number to the next holds of all.      *)
LEMMA CountingUp ==
    ASSUME NEW T, 0 \in T, \A n \in Nat : n \in T => n + 1 \in T
    PROVE  Nat \subseteq T
<1>1. SUFFICES ASSUME NEW m \in Nat, m \notin T PROVE FALSE
  OBVIOUS
<1> DEFINE P == {i \in 1..m : 1..i \subseteq T}
<1>2. P \in SUBSET (1..m) /\ \A i \in P : 1..i \subseteq P
  OBVIOUS
<1> HIDE DEF P
<1>3. PICK k \in 0..m : P = 1..k
  BY <1>2, FirstOnes
<1>4. k \in T /\ k < m
  <2>1. k = 0 \/ k \in P
    BY <1>3
  <2>2. k \in T
    BY <2>1 DEF P
  <2>3. QED BY <1>1, <2>2
<1>5. k + 1 \in P
  <2>1. k + 1 \in T
    BY <1>4
  <2>2. 1..k \subseteq T
    BY <1>3, <1>4 DEF P
  <2>3. QED BY <1>4, <2>1, <2>2 DEF P
<1>6. QED BY <1>3, <1>5

Better(q, rank, x) == {i \in DOMAIN q : rank[q[i]] >= rank[x]}

(* reSched2 walks past exactly the threads that are at least as good: they  *)
(* stand in front, the queue being sorted.                                 *)
LEMMA BetterInFront ==
    ASSUME NEW S, NEW q \in Seq(S), NEW x \in S, NEW rank \in [S -> Int], SortedBy(q, rank)
    PROVE  /\ Cardinality(Better(q, rank, x)) \in 0..Len(q)
           /\ Better(q, rank, x) = 1..Cardinality(Better(q, rank, x))
<1> DEFINE better == Better(q, rank, x)
<1>1. Len(q) \in Nat /\ DOMAIN q = 1..Len(q) /\ \A i \in 1..Len(q) : rank[q[i]] \in Int
  BY OnMember
<1>2. better \in SUBSET (1..Len(q)) /\ rank[x] \in Int
  BY <1>1 DEF Better
<1>3. \A i \in better : 1..i \subseteq better
  BY <1>1, <1>2 DEF SortedBy, Better
<1> HIDE DEF better
<1>4. Cardinality(better) \in 0..Len(q) /\ better = 1..Cardinality(better)
  BY <1>1, <1>2, <1>3, FirstOnes
<1>5. QED BY <1>4 DEF better

(* Taking the first k threads off a queue leaves the others as they were.   *)
LEMMA RestOfQueue ==
    ASSUME NEW S, NEW q \in Seq(S), NEW k \in 0..Len(q), NEW rank
    PROVE  LET r == SubSeq(q, k + 1, Len(q)) IN
           /\ r \in Seq(S) /\ On(r) \subseteq {q[i] : i \in (k + 1)..Len(q)}
           /\ Distinct(q) => Distinct(r)
           /\ SortedBy(q, rank) => SortedBy(r, rank)
<1> DEFINE r == SubSeq(q, k + 1, Len(q))
<1>1. Len(q) \in Nat /\ DOMAIN q = 1..Len(q) /\ \A i \in 1..Len(q) : q[i] \in S
  BY OnMember
<1>2. r \in Seq(S) /\ Len(r) = Len(q) - k /\ \A i \in 1..(Len(q) - k) : r[i] = q[k + i]
  <2>1. k + 1 \in Int /\ Len(q) \in Int /\ \A i \in (k + 1)..Len(q) : q[i] \in S
    BY <1>1
  <2>2. /\ r \in Seq(S) /\ Len(r) = IF k + 1 <= Len(q) THEN Len(q) - (k + 1) + 1 ELSE 0
        /\ \A i \in 1..(Len(q) - (k + 1) + 1) : r[i] = q[(k + 1) + i - 1]
    BY <2>1, SubSeqProperties
  <2> HIDE DEF r
  <2>3. Len(r) = Len(q) - k
    <3>1. PICK n \in Nat : n = Len(q)
      BY <1>1
    <3>2. k \in 0..n /\ Len(r) = IF k + 1 <= n THEN n - (k + 1) + 1 ELSE 0
      BY <2>2, <3>1
    <3>3. Len(r) = n - k
      BY <3>2
    <3>4. QED BY <3>1, <3>3
  <2>4. ASSUME NEW i \in 1..(Len(q) - k) PROVE r[i] = q[k + i]
    <3>1. i \in 1..(Len(q) - (k + 1) + 1) /\ (k + 1) + i - 1 = k + i
      BY <1>1
    <3>2. QED BY <2>2, <3>1
  <2>5. QED BY <2>2, <2>3, <2>4
<1> HIDE DEF r
<1>3. DOMAIN r = 1..(Len(q) - k) /\ \A i \in 1..(Len(q) - k) : k + i \in (k + 1)..Len(q) /\ k + i \in 1..Len(q)
  BY <1>1, <1>2
<1>4. On(r) \subseteq {q[i] : i \in (k + 1)..Len(q)}
  BY <1>2, <1>3, OnMember
<1>5. Distinct(q) => Distinct(r)
  <2>1. SUFFICES ASSUME Distinct(q), NEW i \in DOMAIN r, NEW j \in DOMAIN r, r[i] = r[j] PROVE i = j
    BY DEF Distinct
  <2>2. k + i = k + j
    BY <1>1, <1>2, <1>3, <2>1 DEF Distinct
  <2>3. QED BY <1>1, <1>3, <2>1, <2>2
<1>6. SortedBy(q, rank) => SortedBy(r, rank)
  <2>1. SUFFICES ASSUME SortedBy(q, rank), NEW i \in DOMAIN r, NEW j \in DOMAIN r, i < j
                 PROVE  rank[r[i]] >= rank[r[j]]
    BY DEF SortedBy
  <2>2. k + i < k + j /\ k + i \in DOMAIN q /\ k + j \in DOMAIN q
    BY <1>1, <1>3, <2>1
  <2>3. QED BY <1>2, <1>3, <2>1, <2>2 DEF SortedBy
<1>7. QED BY <1>2, <1>4, <1>5, <1>6 DEF r

(* reSched2 keeps the run queue sorted.                                    *)
LEMMA EnlistSorted ==
    ASSUME NEW S, NEW q \in Seq(S), NEW x \in S, NEW rank \in [S -> Int], SortedBy(q, rank)
    PROVE  SortedBy(Enlist(q, rank, x), rank)
<1> DEFINE k == Cardinality(Better(q, rank, x))
           r == Enlist(q, rank, x)
<1>1. /\ Len(q) \in Nat /\ DOMAIN q = 1..Len(q)
      /\ \A i \in 1..Len(q) : rank[q[i]] \in Int
      /\ rank[x] \in Int
  BY OnMember
<1>2. k \in 0..Len(q) /\ Better(q, rank, x) = 1..k
  BY BetterInFront
<1>3. \A i \in 1..Len(q) : rank[q[i]] >= rank[x] <=> i <= k
  <2>1. \A i \in 1..Len(q) : i \in Better(q, rank, x) <=> rank[q[i]] >= rank[x]
    BY <1>1 DEF Better
  <2> HIDE DEF k
  <2>2. QED BY <1>1, <1>2, <2>1
<1>4. r = InsertAt(q, k + 1, x)
  BY DEF Enlist, Better
<1> HIDE DEF k, r
<1>5. k \in Nat /\ k + 1 \in 1 .. Len(q) + 1
  BY <1>1, <1>2
<1>6. /\ r \in Seq(S) /\ Len(r) = Len(q) + 1
      /\ \A i \in 1 .. Len(q) + 1 :
            r[i] = IF i < k + 1 THEN q[i] ELSE IF i = k + 1 THEN x ELSE q[i - 1]
  <2>1. PICK p \in 1 .. Len(q) + 1 : p = k + 1
    BY <1>5
  <2>2. /\ InsertAt(q, p, x) \in Seq(S) /\ Len(InsertAt(q, p, x)) = Len(q) + 1
        /\ \A i \in 1 .. Len(q) + 1 :
              InsertAt(q, p, x)[i] = IF i < p THEN q[i] ELSE IF i = p THEN x ELSE q[i - 1]
    BY InsertShape
  <2>3. QED BY <1>4, <2>1, <2>2
<1>7. DOMAIN r = 1 .. Len(q) + 1
  BY <1>6
<1>8. ASSUME NEW i \in 1 .. Len(q) + 1, NEW j \in 1 .. Len(q) + 1, i < j
      PROVE  rank[r[i]] >= rank[r[j]]
  <2>1. CASE j < k + 1
    <3>1. i \in 1..Len(q) /\ j \in 1..Len(q) /\ r[i] = q[i] /\ r[j] = q[j]
      BY <1>1, <1>2, <1>6, <1>8, <2>1
    <3>2. QED BY <1>1, <1>8, <3>1 DEF SortedBy
  <2>2. CASE j = k + 1
    <3>1. i \in 1..Len(q) /\ i <= k /\ r[i] = q[i] /\ r[j] = x
      BY SMTT(40), <1>1, <1>5, <1>6, <1>8, <2>2
    <3>2. QED BY <1>3, <3>1
  <2>3. CASE j > k + 1
    <3>1. j - 1 \in 1..Len(q) /\ ~ (j - 1 <= k) /\ r[j] = q[j - 1]
      BY <1>1, <1>5, <1>6, <1>8, <2>3
    <3>2. rank[q[j - 1]] < rank[x]
      BY <1>1, <1>3, <3>1
    <3>3. CASE i < k + 1
      <4>1. i \in 1..Len(q) /\ r[i] = q[i] /\ i < j - 1
        BY <1>1, <1>5, <1>6, <1>8, <2>3, <3>3
      <4>2. QED BY <1>1, <3>1, <4>1 DEF SortedBy
    <3>4. CASE i = k + 1
      <4>1. r[i] = x
        BY <1>6, <3>4
      <4>2. QED BY <1>1, <3>1, <3>2, <4>1
    <3>5. CASE i > k + 1
      <4>1. i - 1 \in 1..Len(q) /\ r[i] = q[i - 1] /\ i - 1 < j - 1
        BY <1>1, <1>5, <1>6, <1>8, <3>5
      <4>2. QED BY <1>1, <3>1, <4>1 DEF SortedBy
    <3>6. QED BY <1>5, <3>3, <3>4, <3>5
  <2>4. QED BY <1>5, <2>1, <2>2, <2>3
<1>9. QED BY <1>7, <1>8 DEF SortedBy, r

(* One round after another, Only is a function of how far it has come.     *)
LEMMA OnlyRounds ==
    ASSUME NEW T, NEW q \in Seq(T), NEW S
    PROVE  \E g \in [0..Len(q) -> Seq(T)] :
             /\ g[0] = << >> /\ Only(q, S) = g[Len(q)]
             /\ \A n \in 1..Len(q) : g[n] = IF q[n] \in S THEN Append(g[n-1], q[n]) ELSE g[n-1]
<1> DEFINE L == Len(q)
           Round(h, n) == IF n = 0 THEN << >>
                          ELSE IF q[n] \in S THEN Append(h[n-1], q[n]) ELSE h[n-1]
           Goes(h, k) == h \in [0..k -> Seq(T)] /\ \A n \in 0..k : h[n] = Round(h, n)
           K == {k \in Nat : k <= L => \E h : Goes(h, k)}
<1>1. L \in Nat /\ \A i \in 1..L : q[i] \in T
  BY OnMember
<1>2. 0 \in K
  <2>1. Goes([n \in 0..0 |-> << >>], 0)
    <3>1. << >> \in Seq(T)
      BY EmptySeq
    <3>2. QED BY <3>1
  <2>2. QED BY <2>1
<1>3. ASSUME NEW k \in Nat, k \in K PROVE k + 1 \in K
  <2>1. SUFFICES ASSUME k + 1 <= L PROVE \E h : Goes(h, k + 1)
    OBVIOUS
  <2>2. k <= L /\ k + 1 \in 1..L
    BY <2>1, <1>1
  <2>3. PICK h : Goes(h, k)
    BY <1>3, <2>2
  <2> DEFINE new == [n \in 0..(k + 1) |-> IF n <= k THEN h[n] ELSE Round(h, k + 1)]
  <2>4. Round(h, k + 1) \in Seq(T)
    <3>1. h[k] \in Seq(T) /\ q[k + 1] \in T /\ k + 1 # 0 /\ (k + 1) - 1 = k
      BY <2>3, <2>2, <1>1
    <3>2. Append(h[k], q[k + 1]) \in Seq(T)
      BY <3>1, AppendProperties
    <3>3. QED BY <3>1, <3>2
  <2>5. \A n \in 0..k : h[n] \in Seq(T)
    BY <2>3
  <2>6. new \in [0..(k + 1) -> Seq(T)]
    BY <2>4, <2>5
  <2>7. ASSUME NEW n \in 0..(k + 1) PROVE new[n] = Round(new, n)
    <3>1. CASE n = 0
      BY <3>1, <2>3
    <3>2. CASE n # 0 /\ n <= k
      <4>1. n \in 0..k /\ n - 1 \in 0..k /\ n - 1 \in 0..(k + 1) /\ n - 1 <= k
        BY <3>2
      <4>2. new[n] = h[n] /\ new[n - 1] = h[n - 1]
        BY <4>1, <3>2
      <4>3. h[n] = Round(h, n)
        BY <4>1, <2>3
      <4>4. QED BY <4>2, <4>3
    <3>3. CASE n = k + 1
      <4>1. n - 1 = k /\ k \in 0..(k + 1) /\ ~ (n <= k) /\ n # 0
        BY <3>3
      <4>2. new[n] = Round(h, n) /\ new[n - 1] = h[n - 1]
        BY <4>1, <3>3
      <4>3. QED BY <4>1, <4>2
    <3>4. QED BY <3>1, <3>2, <3>3
  <2>8. QED BY <2>6, <2>7
<1>4. Nat \subseteq K
  <2> HIDE DEF K
  <2>1. QED BY <1>2, <1>3, CountingUp
<1>5. PICK h : Goes(h, L)
  <2>1. L \in K
    BY <1>1, <1>4
  <2>2. QED BY <2>1
<1> DEFINE Rounds(f) == f = [n \in 0..L |-> Round(f, n)]
           g == CHOOSE f : Rounds(f)
<1>6. Rounds(h)
  BY <1>5
<1>7. Rounds(g)
  BY <1>6
<1>8. Only(q, S) = g[L]
  BY DEF Only
<1> HIDE DEF g
<1>9. \A n \in 0..L : g[n] = Round(g, n)
  BY <1>7
<1>10. \A n \in 0..L : g[n] \in Seq(T)
  <2> DEFINE M == {n \in Nat : n <= L => g[n] \in Seq(T)}
  <2>1. 0 \in M
    <3>1. g[0] = << >>
      BY <1>1, <1>9
    <3>2. QED BY <3>1, EmptySeq
  <2>2. ASSUME NEW n \in Nat, n \in M PROVE n + 1 \in M
    <3>1. SUFFICES ASSUME n + 1 <= L PROVE g[n + 1] \in Seq(T)
      OBVIOUS
    <3>2. n + 1 \in 0..L /\ n + 1 \in 1..L /\ n + 1 # 0 /\ (n + 1) - 1 = n /\ n <= L
      BY <3>1, <1>1
    <3>3. g[n] \in Seq(T) /\ q[n + 1] \in T
      BY <2>2, <3>2, <1>1
    <3>4. Append(g[n], q[n + 1]) \in Seq(T)
      BY <3>3, AppendProperties
    <3>5. g[n + 1] = Round(g, n + 1)
      BY <1>9, <3>2
    <3>6. QED BY <3>2, <3>3, <3>4, <3>5
  <2>3. Nat \subseteq M
    <3> HIDE DEF M
    <3>1. QED BY <2>1, <2>2, CountingUp
  <2>4. QED BY <2>3, <1>1
<1>11. g \in [0..L -> Seq(T)]
  <2>1. g = [n \in 0..L |-> g[n]]
    BY <1>7
  <2>2. QED BY <1>10, <2>1
<1>12. /\ g[0] = << >>
       /\ \A n \in 1..L : g[n] = IF q[n] \in S THEN Append(g[n-1], q[n]) ELSE g[n-1]
  BY <1>1, <1>9
<1>13. QED BY <1>8, <1>11, <1>12

(* Only keeps the members of q that are in S, and links nobody twice.      *)
LEMMA OnlyKeeps ==
    ASSUME NEW T, NEW q \in Seq(T), NEW S
    PROVE  /\ Only(q, S) \in Seq(T)
           /\ On(Only(q, S)) = On(q) \cap S
           /\ Distinct(q) => Distinct(Only(q, S))
<1>1. PICK g \in [0..Len(q) -> Seq(T)] :
        /\ g[0] = << >> /\ Only(q, S) = g[Len(q)]
        /\ \A n \in 1..Len(q) : g[n] = IF q[n] \in S THEN Append(g[n-1], q[n]) ELSE g[n-1]
  BY OnlyRounds, SMTT(40)
<1> DEFINE L == Len(q)
           Seen(n) == {q[i] : i \in 1..n} \cap S
           K == {n \in Nat : n <= L => On(g[n]) = Seen(n) /\ (Distinct(q) => Distinct(g[n]))}
<1>2. L \in Nat /\ DOMAIN q = 1..L /\ \A i \in 1..L : q[i] \in T
  BY OnMember
<1>3. 0 \in K
  <2>1. On(<< >>) = {} /\ Distinct(<< >>)
    BY DEF On, ToSet, Distinct
  <2>2. Seen(0) = {}
    OBVIOUS
  <2>3. QED BY <1>1, <2>1, <2>2
<1>4. ASSUME NEW n \in Nat, n \in K PROVE n + 1 \in K
  <2>1. SUFFICES ASSUME n + 1 <= L
                 PROVE  On(g[n + 1]) = Seen(n + 1) /\ (Distinct(q) => Distinct(g[n + 1]))
    OBVIOUS
  <2>2. n + 1 \in 1..L /\ (n + 1) - 1 = n /\ n \in 0..L /\ n <= L
    BY <2>1, <1>2
  <2>3. g[n + 1] = IF q[n + 1] \in S THEN Append(g[n], q[n + 1]) ELSE g[n]
    BY <1>1, <2>2
  <2>4. g[n] \in Seq(T) /\ q[n + 1] \in T
    BY <1>2, <2>2
  <2>5. On(g[n]) = Seen(n) /\ (Distinct(q) => Distinct(g[n]))
    BY <1>4, <2>2
  <2>6. Seen(n + 1) = IF q[n + 1] \in S THEN Seen(n) \cup {q[n + 1]} ELSE Seen(n)
    <3>1. {q[i] : i \in 1..(n + 1)} = {q[i] : i \in 1..n} \cup {q[n + 1]}
      <4>1. 1..(n + 1) = 1..n \cup {n + 1}
        OBVIOUS
      <4>2. QED BY <4>1
    <3>2. QED BY <3>1
  <2>7. Distinct(q) => q[n + 1] \notin Seen(n)
    BY <1>2, <2>2 DEF Distinct
  <2> HIDE DEF Seen
  <2>8. CASE q[n + 1] \in S
    <3>1. /\ On(Append(g[n], q[n + 1])) = On(g[n]) \cup {q[n + 1]}
          /\ Distinct(g[n]) /\ q[n + 1] \notin On(g[n]) => Distinct(Append(g[n], q[n + 1]))
      BY <2>4, AppendLinks
    <3>2. QED BY <2>3, <2>5, <2>6, <2>7, <2>8, <3>1
  <2>9. CASE q[n + 1] \notin S
    BY <2>3, <2>5, <2>6, <2>9
  <2>10. QED BY <2>8, <2>9
<1>5. Nat \subseteq K
  <2> HIDE DEF K
  <2>1. QED BY <1>3, <1>4, CountingUp
<1>6. On(g[L]) = Seen(L) /\ (Distinct(q) => Distinct(g[L]))
  <2>1. L \in K
    BY <1>5, <1>2
  <2>2. QED BY <2>1, <1>2
<1>7. Seen(L) = On(q) \cap S
  BY <1>2 DEF On, ToSet
<1>8. g[L] \in Seq(T)
  BY <1>2
<1>9. QED BY <1>1, <1>6, <1>7, <1>8

=============================================================================
