--------------------------- MODULE PulseRingProofs ---------------------------
(***************************************************************************)
(* Nothing enters the kernel's structures twice, for any threads, any of    *)
(* the four interrupts, the NMI too, and any size of the ring.  And the    *)
(* ring is a queue of pulses, unless the handler of the NMI sends some.    *)
(***************************************************************************)
EXTENDS PulseRing, FiniteSetTheorems, TLAPS

(* Where a program can be, and where a handler.                            *)
ProgPlaces == {"user", "kernel", "check", "off", "post", "on", "clear", "pretend",
               "drain", "took", "noPQ", "switch", "swap", "resume"}
HandlerPlaces == {"entry", "handler", "exit", "check", "off", "post", "load", "inc",
                  "fill", "count", "on", "clear", "swap", "resume"}
PlacesOf(k) == IF k = "prog" THEN ProgPlaces ELSE HandlerPlaces

(* Places while TaskOff is set for a frame, and places where a frame counts *)
(* in InInt.  Slotted frames have a slot of the ring, not yet in PulQue.    *)
Locks == {"kernel", "post", "on", "clear", "pretend", "drain", "took", "noPQ"}
Nests(k, pc) ==
    \/ k # "prog" /\ pc # "entry"
    \/ pc \in {"drain", "took", "noPQ", "switch", "swap", "resume"}

Locking == {f \in Frame : f.pc \in Locks}
Within == {f \in Frame : Nests(f.kind, f.pc)}
Slotted == {f \in Frame : f.pc \in {"fill", "count"}}

(* What a handler does that has interrupted a system call or a handler.     *)
Quiet == {"entry", "handler", "exit", "check", "load", "inc", "fill", "count", "resume"}

(* The frames of one thread.                                               *)
StackOK(s) ==
    /\ s \in Seq(Frame) /\ s # << >>
    /\ \A i \in 1..Len(s) : (s[i].kind = "prog" <=> i = Len(s)) /\ s[i].pc \in PlacesOf(s[i].kind)
    /\ \A i, j \in 1..Len(s) : i < j =>
         /\ s[i].kind # s[j].kind
         /\ s[j] \in Locking \cup Within => s[i].pc \in Quiet

(* The stack of a thread that is not the current one: doSwi2 has left it.   *)
Left(s) ==
    /\ s[1].pc = "resume"
    /\ \A i \in 1..Len(s) : s[i] \notin Locking /\ (s[i] \in Within => i = 1)

HowMany(s, F) == Cardinality({i \in 1..Len(s) : s[i] \in F})

RingTypes ==
    /\ current \in Thread /\ taskOff \in BOOLEAN /\ reqSwitch \in BOOLEAN /\ inInt \in Nat
    /\ ring \in [0..(Size - 1) -> Source \cup {NoPulse}]
    /\ acSz \in 0..(Size - 1) /\ pqIn \in 0..(Size - 1) /\ pulQue \in 0..Size
    /\ order \in Seq(Source) /\ panic \in {"none", "full"}

(* The inductive invariant.                                                *)
RingInv ==
    /\ RingTypes
    /\ stack = [t \in Thread |-> stack[t]] /\ \A t \in Thread : StackOK(stack[t])
    /\ \A t \in Thread \ {current} : Left(stack[t])
    /\ taskOff <=> \E i \in 1..Len(stack[current]) : stack[current][i] \in Locking
    /\ inInt = HowMany(stack[current], Within)
    /\ \A i \in 1..Len(stack[current]) : stack[current][i].pc \in {"drain", "took"} => pulQue > 0
    /\ Len(order) = pulQue + HowMany(stack[current], Slotted)
    /\ panic = "none" => pulQue < Size

-----------------------------------------------------------------------------
(* Counting the frames of a stack.                                         *)

One(b) == IF b THEN 1 ELSE 0
Beneath(s, F) == Cardinality({i \in 2..Len(s) : s[i] \in F})

LEMMA Balance ==
    \A p, q, h, x, y \in Int : (p + h) + (q - p) + x - y = q + (h + x - y)
OBVIOUS

LEMMA CountsFinite ==
    ASSUME NEW s \in Seq(Frame), NEW F
    PROVE  /\ IsFiniteSet({i \in 1..Len(s) : s[i] \in F}) /\ HowMany(s, F) \in Nat
           /\ IsFiniteSet({i \in 2..Len(s) : s[i] \in F}) /\ Beneath(s, F) \in Nat
<1>1. Len(s) \in Nat
  OBVIOUS
<1>2. IsFiniteSet(1..Len(s)) /\ IsFiniteSet(2..Len(s))
  BY <1>1, FS_Interval, SMTT(20)
<1>3. /\ IsFiniteSet({i \in 1..Len(s) : s[i] \in F})
      /\ IsFiniteSet({i \in 2..Len(s) : s[i] \in F})
  BY <1>2, FS_Subset
<1>4. QED BY <1>3, FS_CardinalityType DEF HowMany, Beneath

LEMMA TopAndBeneath ==
    ASSUME NEW s \in Seq(Frame), s # << >>, NEW F
    PROVE  HowMany(s, F) = Beneath(s, F) + One(s[1] \in F)
<1> DEFINE below == {i \in 2..Len(s) : s[i] \in F}
<1>1. IsFiniteSet(below) /\ Cardinality(below) = Beneath(s, F) /\ Beneath(s, F) \in Nat
  BY CountsFinite DEF Beneath
<1>2. Len(s) \in Nat /\ Len(s) > 0 /\ 1 \notin below
  OBVIOUS
<1>3. CASE s[1] \in F
  <2>1. {i \in 1..Len(s) : s[i] \in F} = below \cup {1}
    BY <1>2, <1>3
  <2> HIDE DEF below
  <2>2. QED BY <1>1, <1>2, <1>3, <2>1, FS_AddElement DEF HowMany, One
<1>4. CASE s[1] \notin F
  <2>1. {i \in 1..Len(s) : s[i] \in F} = below
    BY <1>2, <1>4
  <2> HIDE DEF below
  <2>2. HowMany(s, F) = Cardinality(below)
    BY <2>1 DEF HowMany
  <2>3. QED BY <1>1, <1>4, <2>2 DEF One
<1>5. QED BY <1>3, <1>4

LEMMA BeneathIsRest ==
    ASSUME NEW s \in Seq(Frame), NEW r \in Seq(Frame), Len(r) = Len(s) + 1,
           \A i \in 1..Len(s) : r[i + 1] = s[i], NEW F
    PROVE  Beneath(r, F) = HowMany(s, F)
<1> DEFINE A == {i \in 1..Len(s) : s[i] \in F}
           B == {i \in 2..Len(r) : r[i] \in F}
           f == [i \in A |-> i + 1]
<1>1. Len(s) \in Nat
  OBVIOUS
<1>2. f \in [A -> B]
  BY <1>1
<1>3. \A i, j \in A : f[i] = f[j] => i = j
  BY <1>1
<1>4. ASSUME NEW j \in B PROVE \E i \in A : f[i] = j
  <2>1. j - 1 \in 1..Len(s) /\ (j - 1) + 1 = j
    BY <1>1
  <2>2. s[j - 1] = r[j]
    BY <2>1
  <2>3. j - 1 \in A /\ f[j - 1] = j
    BY <2>1, <2>2
  <2>4. QED BY <2>3
<1>5. f \in Bijection(A, B)
  <2> HIDE DEF A, B, f
  <2>1. QED BY <1>2, <1>3, <1>4 DEF Bijection, Injection, Surjection, IsInjective
<1>6. IsFiniteSet(A)
  BY CountsFinite
<1>7. Cardinality(B) = Cardinality(A)
  <2> HIDE DEF A, B, f
  <2>1. QED BY <1>5, <1>6, FS_Bijection DEF ExistsBijection
<1>8. QED BY <1>7 DEF Beneath, HowMany

LEMMA NoneBeneath ==
    ASSUME NEW s \in Seq(Frame), NEW F
    PROVE  Beneath(s, F) = 0 <=> \A j \in 2..Len(s) : s[j] \notin F
<1>1. IsFiniteSet({i \in 2..Len(s) : s[i] \in F})
  BY CountsFinite
<1>2. Beneath(s, F) = 0 <=> {i \in 2..Len(s) : s[i] \in F} = {}
  BY <1>1, FS_EmptySet DEF Beneath
<1>3. QED BY <1>2

-----------------------------------------------------------------------------
(* The running frame.                                                      *)

(* Nothing that runs below it holds the kernel or counts in InInt.          *)
Alone == \A j \in 2..Len(stack[current]) : stack[current][j] \notin Locking \cup Within

LEMMA TopIs ==
    ASSUME RingInv
    PROVE  /\ current \in Thread /\ StackOK(stack[current]) /\ stack[current] \in Seq(Frame)
           /\ stack[current] # << >> /\ Len(stack[current]) \in Nat \ {0}
           /\ Top = stack[current][1] /\ Top \in Frame /\ Top.pc \in PlacesOf(Top.kind)
           /\ Top.kind = "prog" <=> Len(stack[current]) = 1
           /\ Top.kind = "prog" => Alone
           /\ Top.pc \notin Quiet => Alone
           /\ Alone => (taskOff <=> Top \in Locking) /\ inInt = One(Top \in Within)
           /\ Top \in Within /\ inInt <= 1 /\ ~ taskOff => Alone
<1> DEFINE s == stack[current]
<1>1. current \in Thread /\ StackOK(s) /\ s \in Seq(Frame) /\ s # << >>
  BY DEF RingInv, RingTypes, StackOK
<1>2. Len(s) \in Nat \ {0} /\ Top = s[1] /\ s[1] \in Frame
  BY <1>1 DEF Top
<1>3. Top.pc \in PlacesOf(Top.kind) /\ (Top.kind = "prog" <=> Len(s) = 1)
  <2>1. \A i \in 1..Len(s) : (s[i].kind = "prog" <=> i = Len(s)) /\ s[i].pc \in PlacesOf(s[i].kind)
    BY <1>1 DEF StackOK
  <2>2. 1 \in 1..Len(s)
    BY <1>2
  <2>3. QED BY <1>2, <2>1, <2>2
<1>4. Top.kind = "prog" => Alone
  BY <1>2, <1>3 DEF Alone
<1>5. Top.pc \notin Quiet => Alone
  BY <1>1, <1>2 DEF StackOK, Alone
<1>6. inInt = Beneath(s, Within) + One(s[1] \in Within) /\ Beneath(s, Within) \in Nat
  BY <1>1, TopAndBeneath, CountsFinite DEF RingInv
<1>7. Beneath(s, Within) = 0 <=> \A j \in 2..Len(s) : s[j] \notin Within
  BY <1>1, NoneBeneath
<1>8. taskOff <=> \E i \in 1..Len(s) : s[i] \in Locking
  BY DEF RingInv
<1>9. Alone => (taskOff <=> Top \in Locking)
  BY <1>2, <1>8 DEF Alone
<1>10. Alone => inInt = One(Top \in Within)
  <2>1. Alone => Beneath(s, Within) = 0
    BY <1>7 DEF Alone
  <2>2. QED BY <1>2, <1>6, <2>1 DEF One
<1>11. Top \in Within /\ inInt <= 1 /\ ~ taskOff => Alone
  <2>1. Top \in Within /\ inInt <= 1 => Beneath(s, Within) = 0
    BY <1>2, <1>6 DEF One
  <2>2. ~ taskOff => \A j \in 2..Len(s) : s[j] \notin Locking
    BY <1>2, <1>8
  <2>3. QED BY <1>7, <2>1, <2>2 DEF Alone
<1>12. QED BY <1>1, <1>2, <1>3, <1>4, <1>5, <1>9, <1>10, <1>11

(* Only the running frame has changed, to g.                               *)
NewTop(g) ==
    /\ stack' = [t \in Thread |-> stack'[t]]
    /\ \A t \in Thread \ {current} : stack'[t] = stack[t]
    /\ stack'[current] \in Seq(Frame) /\ Len(stack'[current]) = Len(stack[current])
    /\ stack'[current][1] = g
    /\ \A i \in 2..Len(stack[current]) : stack'[current][i] = stack[current][i]

LEMMA GotoIs ==
    ASSUME RingInv, NEW pc \in Place, Goto(pc)
    PROVE  \E g \in Frame : g.kind = Top.kind /\ g.pc = pc /\ g.slot = Top.slot /\ NewTop(g)
<1> DEFINE s == stack[current]
           g == [s[1] EXCEPT !.pc = pc]
           r == [s EXCEPT ![1] = g]
<1>1. /\ current \in Thread /\ s \in Seq(Frame) /\ Len(s) \in Nat \ {0} /\ Top = s[1] /\ s[1] \in Frame
      /\ stack = [t \in Thread |-> stack[t]]
  BY TopIs DEF RingInv
<1>2. g \in Frame /\ g.kind = Top.kind /\ g.pc = pc /\ g.slot = Top.slot
  BY <1>1 DEF Frame
<1>3. stack' = [stack EXCEPT ![current] = r]
  BY DEF Goto
<1> HIDE DEF g
<1>4. r \in Seq(Frame) /\ Len(r) = Len(s) /\ r[1] = g /\ \A i \in 2..Len(s) : r[i] = s[i]
  BY <1>1, <1>2
<1> HIDE DEF r
<1>5. NewTop(g)
  BY <1>1, <1>3, <1>4 DEF NewTop
<1>6. QED BY <1>2, <1>5

(* The stack stays in order, and so does what else is counted.              *)
LEMMA TopReplaced ==
    ASSUME RingInv, NEW g \in Frame, NewTop(g),
           g.kind = Top.kind, g.pc \in PlacesOf(g.kind), g.pc \notin Quiet => Alone
    PROVE  StackOK(stack'[current])
<1> DEFINE s == stack[current]
           r == stack'[current]
<1>1. /\ current \in Thread /\ StackOK(s) /\ s \in Seq(Frame) /\ s # << >> /\ Len(s) \in Nat \ {0}
      /\ Top = s[1] /\ Top \in Frame
  BY TopIs
<1>2. /\ r \in Seq(Frame) /\ Len(r) = Len(s) /\ r[1] = g /\ r # << >>
      /\ \A i \in 2..Len(s) : r[i] = s[i]
  BY <1>1 DEF NewTop
<1>3. Alone <=> \A j \in 2..Len(s) : s[j] \notin Locking \cup Within
  BY DEF Alone
<1> HIDE DEF s, r
<1>4. \A i \in 1..Len(s) : i = 1 \/ i \in 2..Len(s)
  BY <1>1
<1>5. \A i \in 1..Len(s) : r[i].kind = s[i].kind
  BY <1>1, <1>2, <1>4
<1>6. StackOK(r)
  <2>1. \A i \in 1..Len(s) : (s[i].kind = "prog" <=> i = Len(s)) /\ s[i].pc \in PlacesOf(s[i].kind)
    BY <1>1 DEF StackOK
  <2>2. ASSUME NEW i \in 1..Len(r)
        PROVE  (r[i].kind = "prog" <=> i = Len(r)) /\ r[i].pc \in PlacesOf(r[i].kind)
    <3>1. CASE i = 1
      BY <1>1, <1>2, <1>5, <2>1, <2>2, <3>1
    <3>2. CASE i # 1
      BY <1>1, <1>2, <1>4, <2>1, <2>2, <3>2
    <3>3. QED BY <3>1, <3>2
  <2>3. ASSUME NEW i \in 1..Len(r), NEW j \in 1..Len(r), i < j
        PROVE  r[i].kind # r[j].kind /\ (r[j] \in Locking \cup Within => r[i].pc \in Quiet)
    <3>1. s[i].kind # s[j].kind /\ (s[j] \in Locking \cup Within => s[i].pc \in Quiet)
      BY <1>1, <1>2, <2>3 DEF StackOK
    <3>2. j \in 2..Len(s) /\ r[j] = s[j]
      BY <1>1, <1>2, <1>4, <2>3
    <3>3. CASE i = 1
      BY <1>2, <1>5, <1>3, <2>3, <3>1, <3>2, <3>3
    <3>4. CASE i # 1
      BY <1>1, <1>2, <1>4, <2>3, <3>1, <3>2, <3>4
    <3>5. QED BY <3>3, <3>4
  <2>4. QED BY <1>2, <2>2, <2>3 DEF StackOK
<1>7. QED BY <1>6 DEF r

LEMMA StepKeeps ==
    ASSUME RingInv, NEW g \in Frame, NewTop(g), current' = current,
           g.kind = Top.kind, g.pc \in PlacesOf(g.kind), g.pc \notin Quiet => Alone,
           inInt' = inInt + One(g \in Within) - One(Top \in Within),
           taskOff' \in BOOLEAN, Alone => (taskOff' <=> g \in Locking), ~ Alone => taskOff' = taskOff,
           reqSwitch' \in BOOLEAN, ring' \in [0..(Size - 1) -> Source \cup {NoPulse}],
           acSz' \in 0..(Size - 1), pqIn' \in 0..(Size - 1), pulQue' \in 0..Size,
           order' \in Seq(Source), panic' \in {"none", "full"},
           ~ Alone => pulQue' >= pulQue, g.pc \in {"drain", "took"} => pulQue' > 0,
           Len(order') = Len(order) + (pulQue' - pulQue) + One(g \in Slotted) - One(Top \in Slotted),
           panic' = "none" => pulQue' < Size
    PROVE  RingInv'
<1> DEFINE s == stack[current]
           r == stack'[current]
<1>1. /\ current \in Thread /\ StackOK(s) /\ s \in Seq(Frame) /\ s # << >> /\ Len(s) \in Nat \ {0}
      /\ Top = s[1] /\ Top \in Frame /\ inInt \in Nat /\ pulQue \in Nat
  BY SMTT(40), TopIs, RingAssumption DEF RingInv, RingTypes
<1>2. /\ r \in Seq(Frame) /\ Len(r) = Len(s) /\ r[1] = g /\ r # << >>
      /\ \A i \in 2..Len(s) : r[i] = s[i]
  BY <1>1 DEF NewTop
<1>3. /\ taskOff <=> \E i \in 1..Len(s) : s[i] \in Locking
      /\ inInt = HowMany(s, Within) /\ Len(order) = pulQue + HowMany(s, Slotted)
      /\ \A i \in 1..Len(s) : s[i].pc \in {"drain", "took"} => pulQue > 0
  BY DEF RingInv
<1>4. Alone <=> \A j \in 2..Len(s) : s[j] \notin Locking \cup Within
  BY DEF Alone
<1>5. pulQue' \in Nat
  BY RingAssumption
<1>6. StackOK(r)
  BY TopReplaced
<1> HIDE DEF s, r
<1>7. \A i \in 1..Len(s) : i = 1 \/ i \in 2..Len(s)
  BY <1>1
<1>8. \A i \in 2..Len(s) : i \in 1..Len(s)
  BY <1>1
<1>9. \A F : HowMany(r, F) = Beneath(r, F) + One(g \in F) /\ HowMany(s, F) = Beneath(s, F) + One(Top \in F)
  BY <1>1, <1>2, TopAndBeneath
<1>10. \A F : Beneath(r, F) = Beneath(s, F) /\ Beneath(s, F) \in Nat
  <2>1. ASSUME NEW F PROVE Beneath(r, F) = Beneath(s, F) /\ Beneath(s, F) \in Nat
    <3>1. {i \in 2..Len(r) : r[i] \in F} = {i \in 2..Len(s) : s[i] \in F}
      BY <1>2
    <3>2. QED BY <1>1, <3>1, CountsFinite DEF Beneath
  <2>2. QED BY <2>1
<1>11. /\ HowMany(r, Within) = HowMany(s, Within) + One(g \in Within) - One(Top \in Within)
      /\ HowMany(r, Slotted) = HowMany(s, Slotted) + One(g \in Slotted) - One(Top \in Slotted)
  <2>1. /\ Beneath(s, Within) \in Nat /\ Beneath(s, Slotted) \in Nat
        /\ Beneath(r, Within) = Beneath(s, Within) /\ Beneath(r, Slotted) = Beneath(s, Slotted)
    BY <1>10
  <2>2. /\ HowMany(r, Within) = Beneath(r, Within) + One(g \in Within)
        /\ HowMany(s, Within) = Beneath(s, Within) + One(Top \in Within)
        /\ HowMany(r, Slotted) = Beneath(r, Slotted) + One(g \in Slotted)
        /\ HowMany(s, Slotted) = Beneath(s, Slotted) + One(Top \in Slotted)
    BY <1>9
  <2>3. /\ One(g \in Within) \in {0, 1} /\ One(Top \in Within) \in {0, 1}
        /\ One(g \in Slotted) \in {0, 1} /\ One(Top \in Slotted) \in {0, 1}
    BY DEF One
  <2>4. QED BY SMTT(40), <2>1, <2>2, <2>3
<1>12. inInt' = HowMany(r, Within) /\ inInt' \in Nat
  <2>1. HowMany(r, Within) \in Nat
    BY <1>2, CountsFinite
  <2>2. inInt' = HowMany(r, Within)
    BY <1>3, <1>11
  <2>3. QED BY <2>1, <2>2
<1>13. Len(order') = pulQue' + HowMany(r, Slotted)
  <2>1. Len(order) = pulQue + HowMany(s, Slotted) /\ HowMany(s, Slotted) \in Nat
    BY <1>1, <1>3, CountsFinite
  <2>2. One(g \in Slotted) \in {0, 1} /\ One(Top \in Slotted) \in {0, 1}
    BY DEF One
  <2>3. HowMany(r, Slotted) = HowMany(s, Slotted) + One(g \in Slotted) - One(Top \in Slotted)
    BY <1>11
  <2>4. Len(order') = Len(order) + (pulQue' - pulQue) + One(g \in Slotted) - One(Top \in Slotted)
    OBVIOUS
  <2>5. pulQue \in Int /\ pulQue' \in Int
    BY <1>1, <1>5
  <2>6. \E h \in Int, x \in Int, y \in Int :
          h = HowMany(s, Slotted) /\ x = One(g \in Slotted) /\ y = One(Top \in Slotted)
    <3>1. HowMany(s, Slotted) \in Int
      BY <2>1
    <3>2. One(g \in Slotted) \in Int /\ One(Top \in Slotted) \in Int
      BY <2>2
    <3>3. QED BY <3>1, <3>2
  <2>7. PICK h \in Int, x \in Int, y \in Int :
          h = HowMany(s, Slotted) /\ x = One(g \in Slotted) /\ y = One(Top \in Slotted)
    BY <2>6
  <2>8. /\ Len(order) = pulQue + h /\ HowMany(r, Slotted) = h + x - y
        /\ Len(order') = Len(order) + (pulQue' - pulQue) + x - y
    BY <2>1, <2>3, <2>4, <2>7
  <2>9. Len(order') = (pulQue + h) + (pulQue' - pulQue) + x - y
    BY <2>8
  <2>10. (pulQue + h) + (pulQue' - pulQue) + x - y = pulQue' + (h + x - y)
    BY SMTT(40), <2>5, Balance
  <2>11. QED BY <2>8, <2>9, <2>10
<1>14. taskOff' <=> \E i \in 1..Len(r) : r[i] \in Locking
  <2>1. CASE Alone
    <3>1. \A i \in 2..Len(r) : r[i] \notin Locking
      BY <1>2, <1>4, <2>1
    <3>2. QED BY SMTT(40), <1>1, <1>2, <1>7, <2>1, <3>1
  <2>2. CASE ~ Alone
    <3>1. Top.pc \in Quiet /\ g.pc \in Quiet
      BY <2>2, TopIs
    <3>2. Top \notin Locking /\ g \notin Locking
      BY <3>1 DEF Quiet, Locking, Locks
    <3>3. \A i \in 1..Len(s) : r[i] \in Locking <=> s[i] \in Locking
      BY <1>1, <1>2, <1>7, <3>2
    <3>4. QED BY <1>2, <1>3, <2>2, <3>3
  <2>3. QED BY <2>1, <2>2
<1>15. ASSUME NEW i \in 1..Len(r), r[i].pc \in {"drain", "took"} PROVE pulQue' > 0
  <2>1. CASE i = 1
    BY <1>2, <1>15, <2>1
  <2>2. CASE i # 1
    <3>1. i \in 2..Len(s) /\ r[i] = s[i] /\ s[i] \in Frame
      BY <1>1, <1>2, <1>7, <2>2
    <3>2. s[i] \in Locking
      BY <1>15, <3>1 DEF Locking, Locks
    <3>3. ~ Alone
      BY <1>4, <3>1, <3>2
    <3>4. pulQue > 0
      BY <1>15, <1>3, <1>8, <3>1
    <3>5. QED BY <1>1, <1>5, <3>3, <3>4
  <2>3. QED BY <2>1, <2>2
<1>16. \A t \in Thread : StackOK(stack'[t])
  BY <1>6 DEF NewTop, RingInv, r
<1>17. \A t \in Thread \ {current} : Left(stack'[t])
  BY DEF NewTop, RingInv
<1>18. RingTypes'
  BY <1>1, <1>12 DEF RingTypes
<1>19. QED BY <1>12, <1>13, <1>14, <1>15, <1>16, <1>17, <1>18 DEF RingInv, NewTop, r

(* A step that leaves the ring alone.                                      *)
LEMMA PlainStep ==
    ASSUME RingInv, NEW pc \in PlacesOf(Top.kind), Goto(pc), panic = "none",
           UNCHANGED <<current, ring, acSz, pqIn, pulQue, order, panic>>, reqSwitch' \in BOOLEAN,
           pc \notin Quiet => Alone,
           inInt' = inInt + One(Nests(Top.kind, pc)) - One(Nests(Top.kind, Top.pc)),
           taskOff' \in BOOLEAN, Alone => (taskOff' <=> pc \in Locks), ~ Alone => taskOff' = taskOff,
           pc \in {"drain", "took"} => pulQue > 0,
           pc \notin {"fill", "count"}, Top.pc \notin {"fill", "count"}
    PROVE  RingInv'
<1>1. pc \in Place
  BY DEF PlacesOf, ProgPlaces, HandlerPlaces, Place
<1>2. PICK g \in Frame : g.kind = Top.kind /\ g.pc = pc /\ NewTop(g)
  BY <1>1, GotoIs
<1>3. RingTypes /\ Top \in Frame
  BY TopIs DEF RingInv
<1>4. /\ One(g \in Within) = One(Nests(Top.kind, pc)) /\ One(Top \in Within) = One(Nests(Top.kind, Top.pc))
      /\ g \in Locking <=> pc \in Locks
  BY <1>2, <1>3 DEF Within, Locking, One
<1>5. One(g \in Slotted) = 0 /\ One(Top \in Slotted) = 0
  BY <1>2 DEF Slotted, One
<1>6. Len(order') = Len(order) + (pulQue' - pulQue) + One(g \in Slotted) - One(Top \in Slotted)
  <2>1. Len(order) \in Nat /\ pulQue \in Nat
    BY <1>3, RingAssumption DEF RingTypes
  <2>2. QED BY <1>5, <2>1
<1>7. pulQue' >= pulQue
  BY <1>3, RingAssumption DEF RingTypes
<1>8. panic' = "none" => pulQue' < Size
  BY DEF RingInv
<1>9. inInt' = inInt + One(g \in Within) - One(Top \in Within)
  BY <1>4
<1>10. /\ ring' \in [0..(Size - 1) -> Source \cup {NoPulse}] /\ acSz' \in 0..(Size - 1)
       /\ pqIn' \in 0..(Size - 1) /\ pulQue' \in 0..Size /\ order' \in Seq(Source)
       /\ panic' \in {"none", "full"}
  BY <1>3 DEF RingTypes
<1>11. /\ Alone => (taskOff' <=> g \in Locking)
       /\ g.pc \in PlacesOf(g.kind) /\ (g.pc \notin Quiet => Alone)
       /\ g.pc \in {"drain", "took"} => pulQue' > 0
  BY <1>2, <1>4
<1>12. QED BY <1>2, <1>6, <1>7, <1>8, <1>9, <1>10, <1>11, StepKeeps

(* What is known of the running frame, by its place.                       *)
LEMMA TopPlace ==
    ASSUME RingInv
    PROVE  /\ Top.pc \in PlacesOf(Top.kind) /\ taskOff \in BOOLEAN /\ reqSwitch \in BOOLEAN
           /\ inInt \in Nat /\ pulQue \in Nat
           /\ Top.kind = "prog" => Alone
           /\ Top.pc \notin Quiet => Alone
           /\ Alone => (taskOff <=> Top.pc \in Locks) /\ inInt = One(Nests(Top.kind, Top.pc))
           /\ Nests(Top.kind, Top.pc) /\ inInt <= 1 /\ ~ taskOff => Alone
<1>1. (Top \in Locking <=> Top.pc \in Locks) /\ (Top \in Within <=> Nests(Top.kind, Top.pc))
  BY TopIs DEF Locking, Within
<1>2. One(Top \in Within) = One(Nests(Top.kind, Top.pc))
  BY <1>1 DEF One
<1>3. taskOff \in BOOLEAN /\ reqSwitch \in BOOLEAN /\ inInt \in Nat /\ pulQue \in Nat
  BY RingAssumption DEF RingInv, RingTypes
<1>4. QED BY <1>1, <1>2, <1>3, TopIs

-----------------------------------------------------------------------------
(* Programs, system calls, tasksOn and sendPulse_S.                         *)

LEMMA CallKeeps ==
    ASSUME RingInv, Call
    PROVE  RingInv'
<1>1. panic = "none" /\ Top.pc = "user" /\ TasksOff("kernel")
      /\ UNCHANGED <<current, inInt, reqSwitch, ring, acSz, pqIn, pulQue, order>>
  BY DEF Call, At
<1>2. Top.kind = "prog" /\ Alone /\ ~ taskOff
  BY <1>1, TopPlace DEF PlacesOf, HandlerPlaces, Locks
<1>3. taskOff' = TRUE /\ Goto("kernel") /\ UNCHANGED panic
  BY <1>1, <1>2 DEF TasksOff
<1>4. "kernel" \in PlacesOf(Top.kind) /\ "kernel" \in Locks
  BY <1>2 DEF PlacesOf, ProgPlaces, Locks
<1>5. inInt' = inInt + One(Nests(Top.kind, "kernel")) - One(Nests(Top.kind, Top.pc))
  BY <1>1, <1>2, TopPlace DEF Nests, One
<1>6. QED BY <1>1, <1>2, <1>3, <1>4, <1>5, TopPlace, PlainStep

LEMMA WorkKeeps ==
    ASSUME RingInv, Work
    PROVE  RingInv'
<1>1. /\ panic = "none" /\ Top.pc = "kernel" /\ Goto("on") /\ reqSwitch' \in {reqSwitch, TRUE}
      /\ UNCHANGED <<current, taskOff, inInt, ring, acSz, pqIn, pulQue, order, panic>>
  BY DEF Work, At
<1>2. Top.kind = "prog" /\ Alone /\ taskOff
  BY <1>1, TopPlace DEF PlacesOf, HandlerPlaces, Locks
<1>3. "on" \in PlacesOf(Top.kind) /\ "on" \in Locks
  BY <1>2 DEF PlacesOf, ProgPlaces, Locks
<1>4. inInt' = inInt + One(Nests(Top.kind, "on")) - One(Nests(Top.kind, Top.pc))
  BY <1>1, <1>2, TopPlace DEF Nests, One
<1>5. QED BY <1>1, <1>2, <1>3, <1>4, TopPlace, PlainStep

LEMMA PulsesKeeps ==
    ASSUME RingInv, Pulses
    PROVE  RingInv'
<1>1. /\ panic = "none" /\ Top.pc = "user" /\ Goto("check")
      /\ UNCHANGED <<current, taskOff, inInt, reqSwitch, ring, acSz, pqIn, pulQue, order, panic>>
  BY DEF Pulses, At
<1>2. Top.kind = "prog" /\ Alone /\ ~ taskOff
  BY <1>1, TopPlace DEF PlacesOf, HandlerPlaces, Locks
<1>3. "check" \in PlacesOf(Top.kind) /\ "check" \notin Locks
  BY <1>2 DEF PlacesOf, ProgPlaces, Locks
<1>4. inInt' = inInt + One(Nests(Top.kind, "check")) - One(Nests(Top.kind, Top.pc))
  BY <1>1, <1>2, TopPlace DEF Nests, One
<1>5. QED BY <1>1, <1>2, <1>3, <1>4, TopPlace, PlainStep

LEMMA OnKeeps ==
    ASSUME RingInv, On
    PROVE  RingInv'
<1> DEFINE pc == IF (pulQue = 0 /\ ~ reqSwitch) \/ inInt # 0 THEN "clear" ELSE "pretend"
<1>1. /\ panic = "none" /\ Top.pc = "on" /\ taskOff' = TRUE /\ Goto(pc)
      /\ UNCHANGED <<current, inInt, reqSwitch, ring, acSz, pqIn, pulQue, order, panic>>
  BY DEF On, At
<1>2. Alone /\ inInt = One(Nests(Top.kind, "on"))
  BY <1>1, TopPlace DEF Quiet
<1>3. Top.kind # "prog" => inInt # 0
  BY <1>2 DEF Nests, One
<1>4. pc \in PlacesOf(Top.kind) /\ pc \in Locks /\ pc \in {"clear", "pretend"}
  BY <1>3 DEF PlacesOf, ProgPlaces, HandlerPlaces, Locks
<1> HIDE DEF pc
<1>5. inInt' = inInt + One(Nests(Top.kind, pc)) - One(Nests(Top.kind, Top.pc))
  BY <1>1, <1>4, TopPlace DEF Nests, One
<1>6. QED BY <1>1, <1>2, <1>4, <1>5, TopPlace, PlainStep

LEMMA ClearKeeps ==
    ASSUME RingInv, Clear
    PROVE  RingInv'
<1>1. /\ panic = "none" /\ Top.pc = "clear" /\ taskOff' = FALSE /\ Goto(Caller)
      /\ UNCHANGED <<current, inInt, reqSwitch, ring, acSz, pqIn, pulQue, order, panic>>
  BY DEF Clear, At
<1>2. Alone
  BY <1>1, TopPlace DEF Quiet
<1>3. Caller \in PlacesOf(Top.kind) /\ Caller \notin Locks /\ Caller \in {"user", "exit"}
      /\ (Caller = "user" <=> Top.kind = "prog")
  BY DEF Caller, PlacesOf, ProgPlaces, HandlerPlaces, Locks
<1>4. inInt' = inInt + One(Nests(Top.kind, Caller)) - One(Nests(Top.kind, Top.pc))
  BY <1>1, <1>3, TopPlace DEF Nests, One
<1>5. QED BY <1>1, <1>2, <1>3, <1>4, TopPlace, PlainStep

LEMMA PretendKeeps ==
    ASSUME RingInv, Pretend
    PROVE  RingInv'
<1> DEFINE pc == IF pulQue = 0 THEN "noPQ" ELSE "drain"
<1>1. /\ panic = "none" /\ Top.pc = "pretend" /\ inInt' = inInt + 1 /\ Goto(pc)
      /\ UNCHANGED <<current, taskOff, reqSwitch, ring, acSz, pqIn, pulQue, order, panic>>
  BY DEF Pretend, At
<1>2. Top.kind = "prog" /\ Alone /\ taskOff
  BY <1>1, TopPlace DEF PlacesOf, HandlerPlaces, Locks
<1>3. pc \in PlacesOf(Top.kind) /\ pc \in Locks /\ pc \in {"noPQ", "drain"} /\ (pc = "drain" => pulQue > 0)
  BY <1>2, TopPlace DEF PlacesOf, ProgPlaces, Locks
<1> HIDE DEF pc
<1>4. inInt' = inInt + One(Nests(Top.kind, pc)) - One(Nests(Top.kind, Top.pc))
  BY <1>1, <1>2, <1>3, TopPlace DEF Nests, One
<1>5. QED BY <1>1, <1>2, <1>3, <1>4, TopPlace, PlainStep

LEMMA DrainKeeps ==
    ASSUME RingInv, Drain
    PROVE  RingInv'
<1>1. /\ panic = "none" /\ Top.pc = "drain" /\ Goto("took") /\ reqSwitch' \in {reqSwitch, TRUE}
      /\ UNCHANGED <<current, taskOff, inInt, ring, acSz, pqIn, pulQue, order, panic>>
  BY DEF Drain, At
<1>2. Top.kind = "prog" /\ Alone /\ taskOff
  BY <1>1, TopPlace DEF PlacesOf, HandlerPlaces, Locks
<1>3. "took" \in PlacesOf(Top.kind) /\ "took" \in Locks
  BY <1>2 DEF PlacesOf, ProgPlaces, Locks
<1>4. inInt' = inInt + One(Nests(Top.kind, "took")) - One(Nests(Top.kind, Top.pc))
  BY <1>1, <1>2, TopPlace DEF Nests, One
<1>5. pulQue > 0
  <2>1. 1 \in 1..Len(stack[current]) /\ stack[current][1].pc = "drain"
    BY <1>1, TopIs
  <2>2. QED BY <2>1 DEF RingInv
<1>6. QED BY <1>1, <1>2, <1>3, <1>4, <1>5, TopPlace, PlainStep

LEMMA NoPQKeeps ==
    ASSUME RingInv, NoPQ
    PROVE  RingInv'
<1>1. /\ panic = "none" /\ Top.pc = "noPQ" /\ taskOff' = FALSE /\ Goto("switch")
      /\ UNCHANGED <<current, inInt, reqSwitch, ring, acSz, pqIn, pulQue, order, panic>>
  BY DEF NoPQ, At
<1>2. Top.kind = "prog" /\ Alone
  BY <1>1, TopPlace DEF PlacesOf, HandlerPlaces
<1>3. "switch" \in PlacesOf(Top.kind) /\ "switch" \notin Locks
  BY <1>2 DEF PlacesOf, ProgPlaces, Locks
<1>4. inInt' = inInt + One(Nests(Top.kind, "switch")) - One(Nests(Top.kind, Top.pc))
  BY <1>1, <1>2, TopPlace DEF Nests, One
<1>5. QED BY <1>1, <1>2, <1>3, <1>4, TopPlace, PlainStep

LEMMA SwitchKeeps ==
    ASSUME RingInv, Switch
    PROVE  RingInv'
<1> DEFINE pc == IF reqSwitch /\ inInt = 1 /\ ~ taskOff THEN "swap" ELSE "resume"
<1>1. /\ panic = "none" /\ Top.pc \in {"switch", "exit"} /\ Goto(pc)
      /\ UNCHANGED <<current, taskOff, inInt, reqSwitch, ring, acSz, pqIn, pulQue, order, panic>>
  BY DEF Switch, At
<1>2. Nests(Top.kind, Top.pc)
  BY <1>1, TopPlace DEF PlacesOf, ProgPlaces, Nests
<1>3. /\ pc \in PlacesOf(Top.kind) /\ pc \notin Locks /\ pc \in {"swap", "resume"} /\ Nests(Top.kind, pc)
      /\ pc = "swap" => Alone
  BY <1>2, TopPlace DEF PlacesOf, ProgPlaces, HandlerPlaces, Locks, Nests
<1> HIDE DEF pc
<1>4. inInt' = inInt + One(Nests(Top.kind, pc)) - One(Nests(Top.kind, Top.pc))
  BY <1>1, <1>2, <1>3, TopPlace DEF One
<1>5. pc \notin Quiet => Alone
  BY <1>3 DEF Quiet
<1>6. Alone => ~ taskOff
  BY <1>1, TopPlace DEF Locks
<1>7. QED BY <1>1, <1>3, <1>4, <1>5, <1>6, TopPlace, PlainStep

LEMMA CheckKeeps ==
    ASSUME RingInv, Check
    PROVE  RingInv'
<1> DEFINE pc == IF inInt <= 1 /\ ~ taskOff THEN "off" ELSE "load"
<1>1. /\ panic = "none" /\ Top.pc = "check" /\ Goto(pc)
      /\ UNCHANGED <<current, taskOff, inInt, reqSwitch, ring, acSz, pqIn, pulQue, order, panic>>
  BY DEF Check, At
<1>2. Alone => ~ taskOff /\ inInt <= 1
  BY <1>1, TopPlace DEF Locks, One
<1>3. pc = "off" => Alone
  BY <1>1, TopPlace DEF Nests
<1>4. /\ pc \in PlacesOf(Top.kind) /\ pc \notin Locks /\ pc \in {"off", "load"}
  BY <1>2, TopPlace DEF PlacesOf, ProgPlaces, HandlerPlaces, Locks
<1> HIDE DEF pc
<1>5. inInt' = inInt + One(Nests(Top.kind, pc)) - One(Nests(Top.kind, Top.pc))
  BY <1>1, <1>4, TopPlace DEF Nests, One
<1>6. pc \notin Quiet => Alone
  BY <1>3, <1>4 DEF Quiet
<1>7. QED BY <1>1, <1>2, <1>4, <1>5, <1>6, TopPlace, PlainStep

LEMMA OffKeeps ==
    ASSUME RingInv, Off
    PROVE  RingInv'
<1>1. /\ panic = "none" /\ Top.pc = "off" /\ TasksOff("post")
      /\ UNCHANGED <<current, inInt, reqSwitch, ring, acSz, pqIn, pulQue, order>>
  BY DEF Off, At
<1>2. Alone /\ ~ taskOff
  BY <1>1, TopPlace DEF Quiet, Locks
<1>3. taskOff' = TRUE /\ Goto("post") /\ UNCHANGED panic
  BY <1>1, <1>2 DEF TasksOff
<1>4. "post" \in PlacesOf(Top.kind) /\ "post" \in Locks
  BY DEF PlacesOf, ProgPlaces, HandlerPlaces, Locks
<1>5. inInt' = inInt + One(Nests(Top.kind, "post")) - One(Nests(Top.kind, Top.pc))
  BY <1>1, TopPlace DEF Nests, One
<1>6. QED BY <1>1, <1>2, <1>3, <1>4, <1>5, TopPlace, PlainStep

LEMMA PostKeeps ==
    ASSUME RingInv, Post
    PROVE  RingInv'
<1>1. /\ panic = "none" /\ Top.pc = "post" /\ Goto("on") /\ reqSwitch' \in {reqSwitch, TRUE}
      /\ UNCHANGED <<current, taskOff, inInt, ring, acSz, pqIn, pulQue, order, panic>>
  BY DEF Post, At
<1>2. Alone /\ taskOff
  BY <1>1, TopPlace DEF Quiet, Locks
<1>3. "on" \in PlacesOf(Top.kind) /\ "on" \in Locks
  BY DEF PlacesOf, ProgPlaces, HandlerPlaces, Locks
<1>4. inInt' = inInt + One(Nests(Top.kind, "on")) - One(Nests(Top.kind, Top.pc))
  BY <1>1, TopPlace DEF Nests, One
<1>5. QED BY <1>1, <1>2, <1>3, <1>4, TopPlace, PlainStep

LEMMA EnterKeeps ==
    ASSUME RingInv, Enter
    PROVE  RingInv'
<1>1. /\ panic = "none" /\ Top.pc = "entry" /\ Goto("handler") /\ inInt' = inInt + 1
      /\ UNCHANGED <<current, taskOff, reqSwitch, ring, acSz, pqIn, pulQue, order, panic>>
  BY DEF Enter, At
<1>2. Top.kind # "prog"
  BY <1>1, TopPlace DEF PlacesOf, ProgPlaces
<1>3. "handler" \in PlacesOf(Top.kind) /\ "handler" \notin Locks /\ "handler" \in Quiet
  BY <1>2 DEF PlacesOf, HandlerPlaces, Locks, Quiet
<1>4. inInt' = inInt + One(Nests(Top.kind, "handler")) - One(Nests(Top.kind, Top.pc))
  BY <1>1, <1>2, TopPlace DEF Nests, One
<1>5. Alone => ~ taskOff
  BY <1>1, TopPlace DEF Locks
<1>6. QED BY <1>1, <1>3, <1>4, <1>5, TopPlace, PlainStep

LEMMA HandleKeeps ==
    ASSUME RingInv, Handle
    PROVE  RingInv'
<1>1. /\ panic = "none" /\ Top.pc = "handler" /\ reqSwitch' \in {reqSwitch, TRUE}
      /\ UNCHANGED <<current, taskOff, inInt, ring, acSz, pqIn, pulQue, order, panic>>
  BY DEF Handle, At
<1>2. PICK pc \in {"exit", "check"} : Goto(pc)
  BY DEF Handle
<1>3. Top.kind # "prog"
  BY <1>1, TopPlace DEF PlacesOf, ProgPlaces
<1>4. pc \in PlacesOf(Top.kind) /\ pc \notin Locks /\ pc \in Quiet
  BY <1>3 DEF PlacesOf, HandlerPlaces, Locks, Quiet
<1>5. inInt' = inInt + One(Nests(Top.kind, pc)) - One(Nests(Top.kind, Top.pc))
  BY <1>1, <1>3, TopPlace DEF Nests, One
<1>6. Alone => ~ taskOff
  BY <1>1, TopPlace DEF Locks
<1>7. QED BY <1>1, <1>2, <1>4, <1>5, <1>6, TopPlace, PlainStep

-----------------------------------------------------------------------------
(* The ring.                                                               *)

LEMMA SlotIs ==
    ASSUME RingInv, NEW pc \in Place, NEW n \in 0..(Size - 1),
           stack' = [stack EXCEPT ![current][1].pc = pc, ![current][1].slot = n]
    PROVE  \E g \in Frame : g.kind = Top.kind /\ g.pc = pc /\ g.slot = n /\ NewTop(g)
<1> DEFINE s == stack[current]
           g == [[s[1] EXCEPT !.pc = pc] EXCEPT !.slot = n]
           r == [s EXCEPT ![1] = g]
<1>1. /\ current \in Thread /\ s \in Seq(Frame) /\ Len(s) \in Nat \ {0} /\ Top = s[1] /\ s[1] \in Frame
      /\ stack = [t \in Thread |-> stack[t]]
  BY TopIs DEF RingInv
<1>2. g \in Frame /\ g.kind = Top.kind /\ g.pc = pc /\ g.slot = n
  BY <1>1 DEF Frame
<1>3. \A t \in Thread : stack'[t] = IF t = current THEN r ELSE stack[t]
  <2>1. 1 \in DOMAIN s
    BY <1>1
  <2>2. QED BY <1>1, <2>1
<1>4. stack' = [t \in Thread |-> stack'[t]]
  BY <1>1
<1> HIDE DEF g
<1>5. r \in Seq(Frame) /\ Len(r) = Len(s) /\ r[1] = g /\ \A i \in 2..Len(s) : r[i] = s[i]
  BY <1>1, <1>2
<1> HIDE DEF r
<1>6. NewTop(g)
  BY ZenonT(50), <1>1, <1>3, <1>4, <1>5 DEF NewTop
<1>7. QED BY <1>2, <1>6

LEMMA NextSlot ==
    \A n \in 0..(Size - 1) : (n + 1) % Size \in 0..(Size - 1)
BY RingAssumption

(* The running frame is a handler's when it is at work on the ring.         *)
LEMMA SenderIs ==
    ASSUME RingInv, Top.pc \in {"load", "inc", "fill", "count"}
    PROVE  /\ Top.kind \in Source /\ Top.kind # "prog" /\ PlacesOf(Top.kind) = HandlerPlaces
           /\ Top.slot \in 0..(Size - 1) /\ Top.pc \notin Locks /\ Nests(Top.kind, Top.pc)
<1>1. Top.kind # "prog" /\ Top \in Frame
  BY TopIs, TopPlace DEF PlacesOf, ProgPlaces
<1>2. QED BY <1>1 DEF Frame, PlacesOf, Locks, Nests

LEMMA LoadKeeps ==
    ASSUME RingInv, Load
    PROVE  RingInv'
<1>1. /\ panic = "none" /\ Top.pc = "load"
      /\ stack' = [stack EXCEPT ![current][1].pc = "inc", ![current][1].slot = acSz]
      /\ UNCHANGED <<current, taskOff, inInt, reqSwitch, ring, acSz, pqIn, pulQue, order, panic>>
  BY DEF Load, At
<1>2. RingTypes /\ "inc" \in Place
  BY DEF RingInv, Place
<1>3. PICK g \in Frame : g.kind = Top.kind /\ g.pc = "inc" /\ NewTop(g)
  BY <1>1, <1>2, SlotIs DEF RingTypes
<1>4. g.pc \in PlacesOf(g.kind) /\ g.pc \in Quiet /\ g \notin Locking /\ g \in Within /\ g \notin Slotted
  BY <1>1, <1>3, SenderIs DEF HandlerPlaces, Quiet, Locking, Locks, Within, Slotted, Nests
<1>5. Top \notin Slotted /\ Top \in Within
  BY <1>1, SenderIs, TopIs DEF Slotted, Within
<1>6. /\ inInt' = inInt + One(g \in Within) - One(Top \in Within)
      /\ Len(order') = Len(order) + (pulQue' - pulQue) + One(g \in Slotted) - One(Top \in Slotted)
  BY <1>1, <1>2, <1>4, <1>5, RingAssumption DEF One, RingTypes
<1>7. Alone => ~ taskOff
  BY <1>1, TopPlace DEF Locks
<1>8. panic' = "none" => pulQue' < Size
  BY <1>1 DEF RingInv
<1>9. pulQue' >= pulQue
  BY <1>1, TopPlace
<1>10. QED BY <1>1, <1>2, <1>3, <1>4, <1>6, <1>7, <1>8, <1>9, StepKeeps DEF RingTypes

LEMMA IncKeeps ==
    ASSUME RingInv, Inc
    PROVE  RingInv'
<1>1. /\ panic = "none" /\ Top.pc = "inc" /\ Goto("fill")
      /\ acSz' = (acSz + 1) % Size /\ order' = Append(order, Top.kind)
      /\ UNCHANGED <<current, taskOff, inInt, reqSwitch, ring, pqIn, pulQue, panic>>
  BY DEF Inc, At
<1>2. RingTypes /\ "fill" \in Place
  BY DEF RingInv, Place
<1>3. PICK g \in Frame : g.kind = Top.kind /\ g.pc = "fill" /\ NewTop(g)
  BY <1>1, <1>2, GotoIs
<1>4. g.pc \in PlacesOf(g.kind) /\ g.pc \in Quiet /\ g \notin Locking /\ g \in Within /\ g \in Slotted
  BY <1>1, <1>3, SenderIs DEF HandlerPlaces, Quiet, Locking, Locks, Within, Slotted, Nests
<1>5. Top \notin Slotted /\ Top \in Within
  BY <1>1, SenderIs, TopIs DEF Slotted, Within
<1>6. order' \in Seq(Source) /\ Len(order') = Len(order) + 1 /\ Len(order) \in Nat
  BY <1>1, <1>2, SenderIs DEF RingTypes
<1>7. /\ inInt' = inInt + One(g \in Within) - One(Top \in Within)
      /\ Len(order') = Len(order) + (pulQue' - pulQue) + One(g \in Slotted) - One(Top \in Slotted)
  BY <1>1, <1>2, <1>4, <1>5, <1>6, RingAssumption DEF One, RingTypes
<1>8. Alone => ~ taskOff
  BY <1>1, TopPlace DEF Locks
<1>9. panic' = "none" => pulQue' < Size
  BY <1>1 DEF RingInv
<1>10. pulQue' >= pulQue
  BY <1>1, TopPlace
<1>11. acSz' \in 0..(Size - 1)
  BY <1>1, <1>2, NextSlot DEF RingTypes
<1>12. QED BY <1>1, <1>2, <1>3, <1>4, <1>6, <1>7, <1>8, <1>9, <1>10, <1>11, StepKeeps DEF RingTypes

LEMMA FillKeeps ==
    ASSUME RingInv, Fill
    PROVE  RingInv'
<1>1. /\ panic = "none" /\ Top.pc = "fill" /\ ring' = [ring EXCEPT ![Top.slot] = Top.kind]
      /\ stack' = [stack EXCEPT ![current][1].pc = "count", ![current][1].slot = 0]
      /\ UNCHANGED <<current, taskOff, inInt, reqSwitch, acSz, pqIn, pulQue, order, panic>>
  BY DEF Fill, At
<1>2. RingTypes /\ "count" \in Place /\ 0 \in 0..(Size - 1)
  BY RingAssumption DEF RingInv, Place
<1>3. PICK g \in Frame : g.kind = Top.kind /\ g.pc = "count" /\ NewTop(g)
  BY <1>1, <1>2, SlotIs
<1>4. g.pc \in PlacesOf(g.kind) /\ g.pc \in Quiet /\ g \notin Locking /\ g \in Within /\ g \in Slotted
  BY <1>1, <1>3, SenderIs DEF HandlerPlaces, Quiet, Locking, Locks, Within, Slotted, Nests
<1>5. Top \in Slotted /\ Top \in Within
  BY <1>1, SenderIs, TopIs DEF Slotted, Within
<1>6. /\ inInt' = inInt + One(g \in Within) - One(Top \in Within)
      /\ Len(order') = Len(order) + (pulQue' - pulQue) + One(g \in Slotted) - One(Top \in Slotted)
  BY <1>1, <1>2, <1>4, <1>5, RingAssumption DEF One, RingTypes
<1>7. Alone => ~ taskOff
  BY <1>1, TopPlace DEF Locks
<1>8. panic' = "none" => pulQue' < Size
  BY <1>1 DEF RingInv
<1>9. pulQue' >= pulQue
  BY <1>1, TopPlace
<1>10. ring' \in [0..(Size - 1) -> Source \cup {NoPulse}]
  BY <1>1, <1>2, SenderIs DEF RingTypes
<1>11. QED BY <1>1, <1>2, <1>3, <1>4, <1>6, <1>7, <1>8, <1>9, <1>10, StepKeeps DEF RingTypes

LEMMA CountKeeps ==
    ASSUME RingInv, Count
    PROVE  RingInv'
<1>1. /\ panic = "none" /\ Top.pc = "count" /\ Goto(Caller) /\ pulQue' = pulQue + 1
      /\ panic' = (IF pulQue' < Size THEN "none" ELSE "full")
      /\ UNCHANGED <<current, taskOff, inInt, reqSwitch, ring, acSz, pqIn, order>>
  BY DEF Count, At
<1>2. RingTypes /\ "exit" \in Place /\ Caller = "exit"
  BY <1>1, SenderIs DEF RingInv, Place, Caller
<1>3. PICK g \in Frame : g.kind = Top.kind /\ g.pc = "exit" /\ NewTop(g)
  BY <1>1, <1>2, GotoIs
<1>4. g.pc \in PlacesOf(g.kind) /\ g.pc \in Quiet /\ g \notin Locking /\ g \in Within /\ g \notin Slotted
  BY <1>1, <1>3, SenderIs DEF HandlerPlaces, Quiet, Locking, Locks, Within, Slotted, Nests
<1>5. Top \in Slotted /\ Top \in Within
  BY <1>1, SenderIs, TopIs DEF Slotted, Within
<1>6. pulQue < Size /\ pulQue \in Nat /\ Size \in Nat
  BY <1>1, TopPlace, RingAssumption DEF RingInv
<1>7. /\ inInt' = inInt + One(g \in Within) - One(Top \in Within)
      /\ Len(order') = Len(order) + (pulQue' - pulQue) + One(g \in Slotted) - One(Top \in Slotted)
  BY <1>1, <1>2, <1>4, <1>5, <1>6 DEF One, RingTypes
<1>8. Alone => ~ taskOff
  BY <1>1, TopPlace DEF Locks
<1>9. pulQue' \in 0..Size /\ pulQue' >= pulQue /\ panic' \in {"none", "full"} /\ (panic' = "none" => pulQue' < Size)
  BY <1>1, <1>6
<1>10. QED BY <1>1, <1>2, <1>3, <1>4, <1>7, <1>8, <1>9, StepKeeps DEF RingTypes

LEMMA TookKeeps ==
    ASSUME RingInv, Took
    PROVE  RingInv'
<1> DEFINE pc == IF pulQue' = 0 THEN "noPQ" ELSE "drain"
<1>1. /\ panic = "none" /\ Top.pc = "took" /\ Goto(pc)
      /\ pqIn' = (pqIn + 1) % Size /\ pulQue' = pulQue - 1
      /\ order' = Tail(order) /\ ring' = [ring EXCEPT ![pqIn] = NoPulse]
      /\ UNCHANGED <<current, taskOff, inInt, reqSwitch, acSz, panic>>
  BY DEF Took, At
<1>2. RingTypes /\ pc \in Place /\ pc \in {"noPQ", "drain"}
  BY DEF RingInv, Place
<1>3. PICK g \in Frame : g.kind = Top.kind /\ g.pc = pc /\ NewTop(g)
  BY <1>1, <1>2, GotoIs
<1>4. Top.kind = "prog" /\ Alone /\ taskOff
  BY <1>1, TopPlace DEF PlacesOf, HandlerPlaces, Locks
<1>5. pulQue > 0 /\ pulQue \in Nat /\ pulQue < Size /\ Size \in Nat
  <2>1. 1 \in 1..Len(stack[current]) /\ stack[current][1].pc = "took"
    BY <1>1, TopIs
  <2>2. QED BY <1>1, <2>1, TopPlace, RingAssumption DEF RingInv
<1>6. order' \in Seq(Source) /\ Len(order') = Len(order) - 1 /\ Len(order) \in Nat
  <2>1. Len(order) = pulQue + HowMany(stack[current], Slotted) /\ HowMany(stack[current], Slotted) \in Nat
    BY TopIs, CountsFinite DEF RingInv
  <2>2. order \in Seq(Source) /\ Len(order) > 0
    BY <1>2, <1>5, <2>1 DEF RingTypes
  <2>3. QED BY <1>1, <2>2
<1>7. g.pc \in PlacesOf(g.kind) /\ g \in Locking /\ g \in Within /\ g \notin Slotted
  BY <1>2, <1>3, <1>4 DEF PlacesOf, ProgPlaces, Locking, Locks, Within, Slotted, Nests
<1>8. Top \notin Slotted /\ Top \in Within
  BY <1>1, <1>4, TopIs DEF Slotted, Within, Nests
<1>9. /\ inInt' = inInt + One(g \in Within) - One(Top \in Within)
      /\ Len(order') = Len(order) + (pulQue' - pulQue) + One(g \in Slotted) - One(Top \in Slotted)
  BY <1>1, <1>2, <1>5, <1>6, <1>7, <1>8 DEF One, RingTypes
<1>10. pulQue' \in 0..Size /\ pulQue' < Size /\ (g.pc \in {"drain", "took"} => pulQue' > 0)
  BY <1>1, <1>3, <1>5
<1>11. pqIn' \in 0..(Size - 1) /\ ring' \in [0..(Size - 1) -> Source \cup {NoPulse}]
  BY <1>1, <1>2, NextSlot DEF RingTypes
<1> HIDE DEF pc
<1>12. QED BY <1>1, <1>2, <1>3, <1>4, <1>6, <1>7, <1>9, <1>10, <1>11, StepKeeps DEF RingTypes

-----------------------------------------------------------------------------
(* The thread switch, and interrupts.                                      *)

LEMMA LeftHolds ==
    ASSUME NEW s, StackOK(s), Left(s)
    PROVE  /\ HowMany(s, Within) = 1 /\ HowMany(s, Slotted) = 0
           /\ \A i \in 1..Len(s) : s[i] \notin Locking /\ s[i].pc \notin {"drain", "took"}
<1>1. s \in Seq(Frame) /\ s # << >> /\ Len(s) \in Nat \ {0} /\ \A i \in 1..Len(s) : s[i] \in Frame
  BY DEF StackOK
<1>2. s[1] \in Within /\ s[1] \notin Slotted
  BY <1>1 DEF Left, Within, Nests, Slotted
<1>3. \A j \in 2..Len(s) : s[j] \notin Within
  BY <1>1 DEF Left
<1>4. \A j \in 2..Len(s) : s[j] \notin Slotted
  <2>1. ASSUME NEW j \in 2..Len(s), s[j] \in Slotted PROVE FALSE
    <3>1. j \in 1..Len(s) /\ s[j] \in Frame /\ s[j].pc \in PlacesOf(s[j].kind)
      BY <1>1 DEF StackOK
    <3>2. s[j] \in Within
      BY <2>1, <3>1 DEF Slotted, Within, Nests, PlacesOf, ProgPlaces
    <3>3. QED BY <1>3, <3>2
  <2>2. QED BY <2>1
<1>5. Beneath(s, Within) = 0 /\ Beneath(s, Slotted) = 0
  BY <1>1, <1>3, <1>4, NoneBeneath
<1>6. HowMany(s, Within) = 1 /\ HowMany(s, Slotted) = 0
  BY <1>1, <1>2, <1>5, TopAndBeneath DEF One
<1>7. \A i \in 1..Len(s) : s[i] \notin Locking /\ s[i].pc \notin {"drain", "took"}
  BY <1>1 DEF Left, Locking, Locks
<1>8. QED BY <1>6, <1>7

(* The stack that doSwi2 leaves is like that of every thread it has left.    *)
LEMMA SwapKeeps ==
    ASSUME RingInv, Swap
    PROVE  RingInv'
<1>1. /\ panic = "none" /\ Top.pc = "swap" /\ current' \in Thread /\ reqSwitch' = FALSE /\ Goto("resume")
      /\ UNCHANGED <<taskOff, inInt, ring, acSz, pqIn, pulQue, order, panic>>
  BY DEF Swap, At
<1>2. Alone /\ ~ taskOff /\ inInt = 1
  BY <1>1, TopPlace DEF Quiet, Locks, Nests, One
<1>3. PICK g \in Frame : g.kind = Top.kind /\ g.pc = "resume" /\ NewTop(g)
  BY <1>1, GotoIs DEF Place
<1>4. StackOK(stack'[current])
  <2>1. g.pc \in PlacesOf(g.kind)
    BY <1>3 DEF PlacesOf, ProgPlaces, HandlerPlaces
  <2>2. QED BY <1>2, <1>3, <2>1, TopReplaced
<1>5. Left(stack'[current])
  <2>1. Len(stack[current]) \in Nat
    BY TopIs
  <2>2. /\ Len(stack'[current]) = Len(stack[current]) /\ stack'[current][1] = g
        /\ \A i \in 2..Len(stack[current]) : stack'[current][i] \notin Locking \cup Within
    BY <1>2, <1>3 DEF NewTop, Alone
  <2>3. g \notin Locking
    BY <1>3 DEF Locking, Locks
  <2>4. QED BY <1>3, <2>1, <2>2, <2>3 DEF Left
<1>6. \A t \in Thread : StackOK(stack'[t]) /\ Left(stack'[t])
  BY <1>3, <1>4, <1>5 DEF NewTop, RingInv
<1>7. StackOK(stack'[current']) /\ Left(stack'[current'])
  BY <1>1, <1>6
<1>8. /\ HowMany(stack'[current'], Within) = 1 /\ HowMany(stack'[current'], Slotted) = 0
      /\ \A i \in 1..Len(stack'[current']) :
            stack'[current'][i] \notin Locking /\ stack'[current'][i].pc \notin {"drain", "took"}
  <2>1. PICK s : s = stack'[current']
    OBVIOUS
  <2>2. StackOK(s) /\ Left(s)
    BY <1>7, <2>1
  <2>3. QED BY <2>1, <2>2, LeftHolds
<1>9. HowMany(stack[current], Slotted) = 0
  <2>1. Top \notin Slotted
    BY <1>1 DEF Slotted
  <2>2. ASSUME NEW j \in 2..Len(stack[current]), stack[current][j] \in Slotted PROVE FALSE
    <3>1. j \in 1..Len(stack[current])
      BY TopIs
    <3>2. stack[current][j] \in Frame /\ stack[current][j].pc \in PlacesOf(stack[current][j].kind)
      BY <3>1, TopIs DEF StackOK
    <3>3. stack[current][j] \in Within
      BY <2>2, <3>2 DEF Slotted, Within, Nests, PlacesOf, ProgPlaces
    <3>4. QED BY <1>2, <3>3 DEF Alone
  <2>3. Beneath(stack[current], Slotted) = 0
    BY <2>2, TopIs, NoneBeneath
  <2>4. QED BY <2>1, <2>3, TopIs, TopAndBeneath DEF One
<1>10. Len(order') = pulQue' + HowMany(stack'[current'], Slotted)
  BY <1>1, <1>8, <1>9 DEF RingInv
<1>11. RingTypes'
  BY <1>1 DEF RingInv, RingTypes
<1>12. (panic = "none" => pulQue < Size)'
  BY <1>1 DEF RingInv
<1>13. stack' = [t \in Thread |-> stack'[t]]
  BY <1>3 DEF NewTop
<1>14. QED BY <1>1, <1>2, <1>6, <1>8, <1>10, <1>11, <1>12, <1>13 DEF RingInv

(* A stack with one frame more is in order if that frame is.                *)
LEMMA RestOK ==
    ASSUME NEW s, StackOK(s), Len(s) > 1
    PROVE  StackOK(Tail(s)) /\ Len(s) = Len(Tail(s)) + 1 /\ \A i \in 1..Len(Tail(s)) : s[i + 1] = Tail(s)[i]
<1>1. s \in Seq(Frame) /\ s # << >> /\ Len(s) \in Nat
  BY DEF StackOK
<1>2. PICK r : r = Tail(s)
  OBVIOUS
<1>3. r \in Seq(Frame) /\ Len(r) = Len(s) - 1 /\ r # << >> /\ \A i \in 1..Len(r) : r[i] = s[i + 1]
  BY <1>1, <1>2
<1>4. \A i \in 1..Len(r) : i + 1 \in 1..Len(s) /\ (i = Len(r) <=> i + 1 = Len(s))
  BY <1>1, <1>3
<1>5. ASSUME NEW i \in 1..Len(r)
      PROVE  (r[i].kind = "prog" <=> i = Len(r)) /\ r[i].pc \in PlacesOf(r[i].kind)
  BY <1>3, <1>4 DEF StackOK
<1>6. ASSUME NEW i \in 1..Len(r), NEW j \in 1..Len(r), i < j
      PROVE  r[i].kind # r[j].kind /\ (r[j] \in Locking \cup Within => r[i].pc \in Quiet)
  <2>1. i + 1 \in 1..Len(s) /\ j + 1 \in 1..Len(s) /\ i + 1 < j + 1
    BY <1>4, <1>6
  <2>2. QED BY ZenonT(50), <1>3, <2>1 DEF StackOK
<1>7. StackOK(r)
  BY <1>3, <1>5, <1>6 DEF StackOK
<1>8. QED BY <1>1, <1>2, <1>3, <1>7

LEMMA ResumeKeeps ==
    ASSUME RingInv, Resume
    PROVE  RingInv'
<1>1. /\ panic = "none" /\ Top.pc = "resume" /\ inInt' = inInt - 1
      /\ IF Top.kind = "prog" THEN Goto("user") ELSE Pop
      /\ UNCHANGED <<current, taskOff, reqSwitch, ring, acSz, pqIn, pulQue, order, panic>>
  BY DEF Resume, At
<1>2. CASE Top.kind = "prog"
  <2>1. Goto("user") /\ Alone /\ ~ taskOff
    BY <1>1, <1>2, TopPlace DEF Locks
  <2>2. "user" \in PlacesOf(Top.kind) /\ "user" \notin Locks
    BY <1>2 DEF PlacesOf, ProgPlaces, Locks
  <2>3. inInt' = inInt + One(Nests(Top.kind, "user")) - One(Nests(Top.kind, Top.pc))
    BY <1>1, <1>2, TopPlace DEF Nests, One
  <2>4. QED BY <1>1, <2>1, <2>2, <2>3, TopPlace, PlainStep
<1>3. CASE Top.kind # "prog"
  <2>1. PICK s : s = stack[current]
    OBVIOUS
  <2>2. /\ StackOK(s) /\ s \in Seq(Frame) /\ s # << >> /\ Len(s) \in Nat \ {0} /\ s[1] = Top
        /\ Top \in Frame /\ Len(s) > 1
    <3>1. Len(stack[current]) \in Nat \ {0} /\ Len(stack[current]) # 1
      BY <1>3, TopIs
    <3>2. Len(stack[current]) > 1
      <4>1. PICK n \in Nat \ {0} : n = Len(stack[current])
        BY <3>1
      <4>2. n # 1
        BY <3>1, <4>1
      <4>3. n > 1
        BY <4>2
      <4>4. QED BY <4>1, <4>3
    <3>3. /\ StackOK(stack[current]) /\ stack[current] \in Seq(Frame)
          /\ stack[current] # << >> /\ Top = stack[current][1] /\ Top \in Frame
      BY TopIs
    <3>4. QED BY <2>1, <3>1, <3>2, <3>3
  <2>3. PICK r : r = Tail(s)
    OBVIOUS
  <2>4. /\ stack = [t \in Thread |-> stack[t]] /\ current \in Thread /\ RingTypes
        /\ taskOff <=> \E i \in 1..Len(s) : s[i] \in Locking
        /\ inInt = HowMany(s, Within) /\ Len(order) = pulQue + HowMany(s, Slotted)
        /\ \A i \in 1..Len(s) : s[i].pc \in {"drain", "took"} => pulQue > 0
    BY <2>1 DEF RingInv, RingTypes
  <2>5. /\ stack' = [t \in Thread |-> stack'[t]]
        /\ \A t \in Thread : stack'[t] = IF t = current THEN r ELSE stack[t]
    BY <1>1, <1>3, <2>1, <2>3, <2>4 DEF Pop
  <2>6. /\ StackOK(r) /\ Len(s) = Len(r) + 1 /\ Len(r) \in Nat /\ r \in Seq(Frame)
        /\ \A i \in 1..Len(r) : s[i + 1] = r[i]
    BY <2>2, <2>3, RestOK DEF StackOK
  <2>7. HowMany(r, Within) = Beneath(s, Within) /\ HowMany(r, Slotted) = Beneath(s, Slotted)
    BY <2>2, <2>6, BeneathIsRest
  <2>8. s[1] \notin Locking /\ s[1] \in Within /\ s[1] \notin Slotted
    BY <1>1, <1>3, <2>2 DEF Locking, Locks, Within, Nests, Slotted
  <2>9. /\ HowMany(s, Within) = HowMany(r, Within) + 1 /\ HowMany(s, Slotted) = HowMany(r, Slotted)
        /\ HowMany(r, Within) \in Nat /\ HowMany(r, Slotted) \in Nat
    <3>1. /\ HowMany(s, Within) = Beneath(s, Within) + One(s[1] \in Within)
          /\ HowMany(s, Slotted) = Beneath(s, Slotted) + One(s[1] \in Slotted)
      BY <2>2, TopAndBeneath
    <3>2. HowMany(r, Within) \in Nat /\ HowMany(r, Slotted) \in Nat
      BY <2>6, CountsFinite
    <3>3. One(s[1] \in Within) = 1 /\ One(s[1] \in Slotted) = 0
      BY <2>8 DEF One
    <3>4. QED BY <2>7, <3>1, <3>2, <3>3
  <2>10. taskOff <=> \E i \in 1..Len(r) : r[i] \in Locking
    <3>1. ASSUME NEW i \in 1..Len(s), s[i] \in Locking PROVE \E j \in 1..Len(r) : r[j] \in Locking
      <4>1. i # 1
        BY <2>8, <3>1
      <4>2. i - 1 \in 1..Len(r) /\ (i - 1) + 1 = i
        BY <2>2, <2>6, <4>1
      <4>3. r[i - 1] = s[i]
        BY <2>6, <4>2
      <4>4. QED BY <3>1, <4>2, <4>3
    <3>2. ASSUME NEW j \in 1..Len(r), r[j] \in Locking PROVE \E i \in 1..Len(s) : s[i] \in Locking
      <4>1. j + 1 \in 1..Len(s) /\ s[j + 1] = r[j]
        BY <2>6
      <4>2. QED BY <3>2, <4>1
    <3>3. QED BY <2>4, <3>1, <3>2
  <2>11. \A i \in 1..Len(r) : r[i].pc \in {"drain", "took"} => pulQue > 0
    <3>1. \A i \in 1..Len(r) : i + 1 \in 1..Len(s) /\ s[i + 1] = r[i]
      BY <2>6
    <3>2. QED BY <2>4, <3>1
  <2>12. RingTypes'
    BY <1>1, <2>4, <2>9 DEF RingTypes
  <2>13. stack'[current'] = r /\ \A t \in Thread : StackOK(stack'[t])
    BY <1>1, <2>4, <2>5, <2>6 DEF RingInv
  <2>14. \A t \in Thread \ {current'} : Left(stack'[t])
    BY <1>1, <2>5 DEF RingInv
  <2>15. inInt' = HowMany(r, Within) /\ Len(order') = pulQue' + HowMany(r, Slotted)
    BY <1>1, <2>4, <2>9
  <2>16. (panic = "none" => pulQue < Size)'
    BY <1>1 DEF RingInv
  <2>17. QED BY <1>1, <2>5, <2>10, <2>11, <2>12, <2>13, <2>14, <2>15, <2>16 DEF RingInv
<1>4. QED BY <1>2, <1>3

LEMMA InterruptKeeps ==
    ASSUME RingInv, NEW k \in Source, Interrupt(k)
    PROVE  RingInv'
<1> DEFINE f == NewFrame(k, "entry")
<1>1. /\ panic = "none" /\ k \notin Kinds /\ stack' = [stack EXCEPT ![current] = <<f>> \o @]
      /\ UNCHANGED <<current, taskOff, inInt, reqSwitch, ring, acSz, pqIn, pulQue, order, panic>>
  BY DEF Interrupt
<1>2. k # "prog" /\ f \in Frame /\ f.kind = k /\ f.pc = "entry"
  BY RingAssumption DEF NewFrame, Frame, Place
<1>3. /\ f.pc \in PlacesOf(f.kind) /\ f.pc \in Quiet
      /\ f \notin Locking /\ f \notin Within /\ f \notin Slotted
  BY <1>2 DEF PlacesOf, HandlerPlaces, Quiet, Locking, Locks, Within, Nests, Slotted
<1>4. PICK s : s = stack[current]
  OBVIOUS
<1>5. StackOK(s) /\ s \in Seq(Frame) /\ s # << >> /\ Len(s) \in Nat \ {0} /\ \A i \in 1..Len(s) : s[i].kind # k
  <2>1. StackOK(s) /\ s \in Seq(Frame) /\ s # << >> /\ Len(s) \in Nat \ {0}
    BY <1>4, TopIs
  <2>2. QED BY <1>1, <1>4, <2>1 DEF Kinds
<1> HIDE DEF f
<1>6. PICK r : r = <<f>> \o s
  OBVIOUS
<1>7. /\ r \in Seq(Frame) /\ Len(r) = Len(s) + 1 /\ r # << >> /\ r[1] = f
      /\ \A i \in 1..Len(s) : r[i + 1] = s[i]
  BY <1>2, <1>5, <1>6
<1>8. \A j \in 1..Len(r) : j = 1 \/ (j - 1 \in 1..Len(s) /\ r[j] = s[j - 1])
  <2>1. ASSUME NEW j \in 1..Len(r), j # 1 PROVE j - 1 \in 1..Len(s) /\ r[j] = s[j - 1]
    <3>1. j - 1 \in 1..Len(s) /\ (j - 1) + 1 = j
      BY <1>5, <1>7, <2>1
    <3>2. QED BY <1>7, <3>1
  <2>2. QED BY <2>1
<1>9. StackOK(r)
  <2>1. ASSUME NEW i \in 1..Len(r)
        PROVE  (r[i].kind = "prog" <=> i = Len(r)) /\ r[i].pc \in PlacesOf(r[i].kind)
    <3>1. CASE i = 1
      BY <1>2, <1>3, <1>5, <1>7, <3>1
    <3>2. CASE i # 1
      <4>1. i - 1 \in 1..Len(s) /\ r[i] = s[i - 1] /\ (i = Len(r) <=> i - 1 = Len(s))
        BY <1>5, <1>7, <1>8, <3>2
      <4>2. QED BY <1>5, <4>1 DEF StackOK
    <3>3. QED BY <3>1, <3>2
  <2>2. ASSUME NEW i \in 1..Len(r), NEW j \in 1..Len(r), i < j
        PROVE  r[i].kind # r[j].kind /\ (r[j] \in Locking \cup Within => r[i].pc \in Quiet)
    <3>1. j # 1 /\ j - 1 \in 1..Len(s) /\ r[j] = s[j - 1]
      BY <1>8, <2>2
    <3>2. CASE i = 1
      BY <1>2, <1>3, <1>5, <1>7, <3>1, <3>2
    <3>3. CASE i # 1
      <4>1. i - 1 \in 1..Len(s) /\ r[i] = s[i - 1] /\ i - 1 < j - 1
        BY <1>8, <2>2, <3>3
      <4>2. QED BY <1>5, <3>1, <4>1 DEF StackOK
    <3>4. QED BY <3>2, <3>3
  <2>3. QED BY <1>7, <2>1, <2>2 DEF StackOK
<1>10. /\ stack = [t \in Thread |-> stack[t]] /\ current \in Thread /\ RingTypes
       /\ taskOff <=> \E i \in 1..Len(s) : s[i] \in Locking
       /\ inInt = HowMany(s, Within) /\ Len(order) = pulQue + HowMany(s, Slotted)
       /\ \A i \in 1..Len(s) : s[i].pc \in {"drain", "took"} => pulQue > 0
  BY <1>4 DEF RingInv, RingTypes
<1>11. /\ stack' = [t \in Thread |-> stack'[t]]
       /\ \A t \in Thread : stack'[t] = IF t = current THEN r ELSE stack[t]
  BY <1>1, <1>4, <1>6, <1>10
<1>12. HowMany(r, Within) = HowMany(s, Within) /\ HowMany(r, Slotted) = HowMany(s, Slotted)
  <2>1. Beneath(r, Within) = HowMany(s, Within) /\ Beneath(r, Slotted) = HowMany(s, Slotted)
    BY <1>5, <1>7, BeneathIsRest
  <2>2. /\ HowMany(r, Within) = Beneath(r, Within) + One(r[1] \in Within)
        /\ HowMany(r, Slotted) = Beneath(r, Slotted) + One(r[1] \in Slotted)
    BY <1>7, TopAndBeneath
  <2>3. One(r[1] \in Within) = 0 /\ One(r[1] \in Slotted) = 0
    BY <1>3, <1>7 DEF One
  <2>4. HowMany(s, Within) \in Nat /\ HowMany(s, Slotted) \in Nat
    BY <1>5, CountsFinite
  <2>5. QED BY <2>1, <2>2, <2>3, <2>4
<1>13. taskOff <=> \E i \in 1..Len(r) : r[i] \in Locking
  <2>1. ASSUME NEW j \in 1..Len(r), r[j] \in Locking PROVE \E i \in 1..Len(s) : s[i] \in Locking
    BY <1>3, <1>7, <1>8, <2>1
  <2>2. ASSUME NEW i \in 1..Len(s), s[i] \in Locking PROVE \E j \in 1..Len(r) : r[j] \in Locking
    <3>1. i + 1 \in 1..Len(r) /\ r[i + 1] = s[i]
      BY <1>5, <1>7
    <3>2. QED BY <2>2, <3>1
  <2>3. QED BY <1>10, <2>1, <2>2
<1>14. \A i \in 1..Len(r) : r[i].pc \in {"drain", "took"} => pulQue > 0
  BY <1>2, <1>7, <1>8, <1>10
<1>15. stack'[current'] = r /\ \A t \in Thread : StackOK(stack'[t])
  BY <1>1, <1>9, <1>10, <1>11 DEF RingInv
<1>16. \A t \in Thread \ {current'} : Left(stack'[t])
  BY <1>1, <1>11 DEF RingInv
<1>17. RingTypes' /\ inInt' = HowMany(r, Within) /\ Len(order') = pulQue' + HowMany(r, Slotted)
  BY <1>1, <1>10, <1>12 DEF RingTypes
<1>18. (panic = "none" => pulQue < Size)'
  BY <1>1 DEF RingInv
<1>19. QED BY <1>1, <1>11, <1>13, <1>14, <1>15, <1>16, <1>17, <1>18 DEF RingInv

-----------------------------------------------------------------------------
LEMMA RingNextKeeps ==
    ASSUME RingInv, [Next]_vars
    PROVE  RingInv'
<1>1. CASE Step
  BY <1>1, CallKeeps, WorkKeeps, PulsesKeeps, OnKeeps, ClearKeeps, PretendKeeps, DrainKeeps,
     TookKeeps, NoPQKeeps, SwitchKeeps, SwapKeeps, ResumeKeeps, CheckKeeps, OffKeeps, PostKeeps,
     LoadKeeps, IncKeeps, FillKeeps, CountKeeps, EnterKeeps, HandleKeeps DEF Step
<1>2. CASE \E k \in Source : Interrupt(k)
  BY <1>2, InterruptKeeps
<1>3. CASE UNCHANGED vars
  BY <1>3 DEF vars, RingInv, RingTypes
<1>4. QED BY <1>1, <1>2, <1>3 DEF Next

LEMMA InitRingInv ==
    ASSUME Init
    PROVE  RingInv
<1> DEFINE f(t) == NewFrame("prog", IF t = current THEN "user" ELSE "resume")
<1>1. /\ current \in Thread /\ stack = [t \in Thread |-> <<f(t)>>]
      /\ taskOff = FALSE /\ reqSwitch = FALSE /\ inInt = 0 /\ ring = [i \in 0..(Size - 1) |-> NoPulse]
      /\ acSz = 0 /\ pqIn = 0 /\ pulQue = 0 /\ order = << >> /\ panic = "none"
  BY DEF Init
<1>2. \A t \in Thread : f(t) \in Frame /\ f(t).kind = "prog" /\ f(t).pc = IF t = current THEN "user" ELSE "resume"
  BY RingAssumption DEF NewFrame, Frame, Place
<1> HIDE DEF f
<1>3. ASSUME NEW t \in Thread
      PROVE  stack[t] \in Seq(Frame) /\ Len(stack[t]) = 1 /\ stack[t][1] = f(t) /\ stack[t] # << >>
  BY <1>1, <1>2
<1>4. ASSUME NEW t \in Thread PROVE StackOK(stack[t])
  <2>1. f(t).pc \in PlacesOf(f(t).kind)
    BY <1>2 DEF PlacesOf, ProgPlaces
  <2>2. PICK s \in Seq(Frame) : s = stack[t]
    BY <1>3
  <2>3. Len(s) = 1 /\ s[1] \in Frame /\ s # << >> /\ s[1].kind = "prog" /\ s[1].pc \in PlacesOf("prog")
    BY <1>2, <1>3, <2>1, <2>2
  <2>4. \A i \in 1..Len(s) : i = 1
    BY <2>3
  <2>5. StackOK(s)
    BY <2>3, <2>4 DEF StackOK
  <2>6. QED BY <2>2, <2>5
<1>5. ASSUME NEW t \in Thread \ {current} PROVE Left(stack[t])
  BY <1>2, <1>3 DEF Left, Locking, Locks
<1>6. f(current) \notin Locking \cup Within \cup Slotted
  BY <1>1, <1>2 DEF Locking, Locks, Within, Nests, Slotted
<1>7. HowMany(stack[current], Within) = 0 /\ HowMany(stack[current], Slotted) = 0
  <2>1. \A j \in 2..Len(stack[current]) : FALSE
    BY <1>1, <1>3
  <2>2. Beneath(stack[current], Within) = 0 /\ Beneath(stack[current], Slotted) = 0
    BY ZenonT(50), <1>1, <1>3, <2>1, NoneBeneath
  <2>3. /\ HowMany(stack[current], Within) = Beneath(stack[current], Within) + One(stack[current][1] \in Within)
        /\ HowMany(stack[current], Slotted) = Beneath(stack[current], Slotted) + One(stack[current][1] \in Slotted)
    BY <1>1, <1>3, TopAndBeneath
  <2>4. One(stack[current][1] \in Within) = 0 /\ One(stack[current][1] \in Slotted) = 0
    BY <1>1, <1>3, <1>6 DEF One
  <2>5. QED BY <2>2, <2>3, <2>4
<1>8. \A i \in 1..Len(stack[current]) :
        stack[current][i] \notin Locking /\ stack[current][i].pc \notin {"drain", "took"}
  BY <1>1, <1>2, <1>3, <1>6
<1>9. RingTypes
  <2>1. << >> \in Seq(Source) /\ Len(<< >>) = 0
    OBVIOUS
  <2>2. ring \in [0..(Size - 1) -> Source \cup {NoPulse}]
    BY <1>1
  <2>3. 0 \in 0..(Size - 1) /\ 0 \in 0..Size /\ 0 \in Nat
    BY RingAssumption
  <2>4. order \in Seq(Source)
    BY <1>1, <2>1
  <2>5. QED BY <1>1, <2>2, <2>3, <2>4 DEF RingTypes
<1>10. QED BY <1>1, <1>4, <1>5, <1>7, <1>8, <1>9, RingAssumption DEF RingInv

LEMMA SourcesFinite == IsFiniteSet(Source) /\ Cardinality(Source) \in Nat
<1>1. IsFiniteSet((({"timer"} \cup {"irq"}) \cup {"raster"}) \cup {"nmi"})
  <2>1. IsFiniteSet({"timer"})
    BY FS_Singleton
  <2>2. IsFiniteSet({"timer"} \cup {"irq"})
    BY <2>1, FS_AddElement
  <2>3. IsFiniteSet(({"timer"} \cup {"irq"}) \cup {"raster"})
    BY <2>2, FS_AddElement
  <2>4. QED BY <2>3, FS_AddElement
<1>2. Source \subseteq (({"timer"} \cup {"irq"}) \cup {"raster"}) \cup {"nmi"}
  BY RingAssumption
<1>3. IsFiniteSet(Source)
  BY <1>1, <1>2, FS_Subset
<1>4. QED BY <1>3, FS_CardinalityType

(* No more handlers nest than there are interrupts.                        *)
LEMMA NestingBound ==
    ASSUME RingInv
    PROVE  inInt \in 0..(1 + Cardinality(Source))
<1>1. PICK s : s = stack[current]
  OBVIOUS
<1>2. StackOK(s) /\ s \in Seq(Frame) /\ inInt = HowMany(s, Within) /\ inInt \in Nat
  BY <1>1, TopIs, TopPlace DEF RingInv
<1> DEFINE A == {i \in 1..Len(s) : s[i] \in Within}
           B == Source \cup {"prog"}
           f == [i \in A |-> s[i].kind]
<1>3. IsFiniteSet(B) /\ Cardinality(B) = Cardinality(Source) + 1
  BY SourcesFinite, FS_AddElement, RingAssumption
<1>4. f \in [A -> B]
  <2>1. ASSUME NEW i \in 1..Len(s) PROVE s[i].kind \in B
    <3>1. s[i] \in Frame
      BY <1>2
    <3>2. QED BY <3>1 DEF Frame
  <2>2. QED BY <2>1
<1>5. \A i, j \in A : f[i] = f[j] => i = j
  <2>1. ASSUME NEW i \in A, NEW j \in A, i # j PROVE s[i].kind # s[j].kind
    <3>1. i \in 1..Len(s) /\ j \in 1..Len(s) /\ (i < j \/ j < i)
      BY <2>1
    <3>2. QED BY <1>2, <3>1 DEF StackOK
  <2>2. QED BY <2>1
<1>6. Cardinality(A) = inInt
  BY <1>2 DEF HowMany
<1>7. Cardinality(A) <= Cardinality(B)
  <2> HIDE DEF A, B, f
  <2>1. f \in Injection(A, B)
    BY <1>4, <1>5 DEF Injection, IsInjective
  <2>2. QED BY <1>3, <2>1, FS_Injection
<1> HIDE DEF A, B
<1>8. QED BY <1>2, <1>3, <1>6, <1>7, SourcesFinite

LEMMA OneIsBusy ==
    ASSUME RingInv
    PROVE  Exclusion
<1>1. ASSUME NEW t \in Thread, NEW i \in DOMAIN stack[t], PcOf(<<t, i>>) \in {"kernel", "post", "drain", "took", "swap"}
      PROVE  t = current /\ i \in 1..Len(stack[t]) /\ stack[t][i] \in Locking \cup Within /\ stack[t][i].pc \notin Quiet
  <2>1. i \in 1..Len(stack[t]) /\ stack[t][i] \in Frame
    BY <1>1 DEF RingInv, StackOK
  <2>2. stack[t][i].pc \in {"kernel", "post", "drain", "took", "swap"}
    BY <1>1 DEF PcOf
  <2>3. stack[t][i] \in Locking \cup Within /\ stack[t][i].pc \notin Quiet
    BY <2>1, <2>2 DEF Locking, Locks, Within, Nests, Quiet
  <2>4. ASSUME t # current PROVE FALSE
    <3>1. Left(stack[t])
      BY <2>4 DEF RingInv
    <3>2. stack[t][i] \notin Locking /\ i = 1 /\ stack[t][1].pc = "resume"
      BY <2>1, <2>3, <3>1 DEF Left
    <3>3. QED BY <2>2, <3>2
  <2>5. QED BY <2>1, <2>3, <2>4
<1>2. ASSUME NEW f \in Busy, NEW g \in Busy PROVE f = g
  <2>1. \E t \in Thread : \E i \in DOMAIN stack[t] : f = <<t, i>> /\ PcOf(f) \in {"kernel", "post", "drain", "took", "swap"}
    BY DEF Busy, Frames
  <2>2. \E t \in Thread : \E i \in DOMAIN stack[t] : g = <<t, i>> /\ PcOf(g) \in {"kernel", "post", "drain", "took", "swap"}
    BY DEF Busy, Frames
  <2>3. PICK i \in 1..Len(stack[current]) :
          f = <<current, i>> /\ stack[current][i] \in Locking \cup Within /\ stack[current][i].pc \notin Quiet
    BY <1>1, <2>1
  <2>4. PICK j \in 1..Len(stack[current]) :
          g = <<current, j>> /\ stack[current][j] \in Locking \cup Within /\ stack[current][j].pc \notin Quiet
    BY <1>1, <2>2
  <2>5. StackOK(stack[current])
    BY TopIs
  <2>6. ~ (i < j) /\ ~ (j < i)
    BY <2>3, <2>4, <2>5 DEF StackOK
  <2>7. QED BY <2>3, <2>4, <2>6
<1>3. CASE Busy = {}
  BY <1>3, FS_EmptySet DEF Exclusion
<1>4. CASE Busy # {}
  <2>1. PICK f \in Busy : TRUE
    BY <1>4
  <2>2. Busy = {f}
    BY <1>2, <2>1
  <2>3. Cardinality({f}) = 1
    BY FS_Singleton
  <2>4. QED BY <2>2, <2>3 DEF Exclusion
<1>5. QED BY <1>3, <1>4

(* RingInv is inductive: what runs above a frame that holds the kernel, or  *)
(* that counts in InInt, is at a place where it leaves the kernel alone.    *)
THEOREM NestingInvariant == Spec => []RingInv
<1>1. Init => RingInv
  BY InitRingInv
<1>2. RingInv /\ [Next]_vars => RingInv'
  BY RingNextKeeps
<1>3. QED BY <1>1, <1>2, PTL DEF Spec

(* For any threads, interrupts and ring: with TaskOff and InInt as switch.a65*)
(* and ipc.a65 test them, nothing enters the kernel's structures twice, no  *)
(* handler runs into the brk of tasksOff, and InInt never loses count.      *)
THEOREM KernelIsSafe == Spec => []KernelSafe
<1>1. RingInv => KernelSafe
  <2> SUFFICES ASSUME RingInv PROVE KernelSafe
    OBVIOUS
  <2>1. stack \in [Thread -> Seq(Frame)] /\ \A t \in Thread : stack[t] # << >>
    BY DEF RingInv, StackOK
  <2>2. TypeOK
    BY <2>1, NestingBound DEF TypeOK, RingInv, RingTypes
  <2>3. NeverBusy
    BY DEF NeverBusy, RingInv, RingTypes
  <2>4. \A t \in Thread \ {current} : Head(stack[t]).pc = "resume"
    BY <2>1 DEF RingInv, Left
  <2>5. inInt = Cardinality({i \in DOMAIN stack[current] :
                  \/ stack[current][i].kind # "prog" /\ stack[current][i].pc # "entry"
                  \/ stack[current][i].pc \in {"drain", "took", "noPQ", "switch", "swap", "resume"}})
    <3>1. DOMAIN stack[current] = 1..Len(stack[current]) /\ \A i \in 1..Len(stack[current]) : stack[current][i] \in Frame
      BY TopIs
    <3>2. {i \in DOMAIN stack[current] :
             \/ stack[current][i].kind # "prog" /\ stack[current][i].pc # "entry"
             \/ stack[current][i].pc \in {"drain", "took", "noPQ", "switch", "swap", "resume"}}
          = {i \in 1..Len(stack[current]) : stack[current][i] \in Within}
      BY <3>1 DEF Within, Nests
    <3>3. QED BY <3>2 DEF RingInv, HowMany
  <2>6. QED BY <2>2, <2>3, <2>4, <2>5, OneIsBusy DEF KernelSafe, IntDepth
<1>2. QED BY <1>1, NestingInvariant, PTL

-----------------------------------------------------------------------------
(***************************************************************************)
(* The ring is a queue, if the handler of the NMI sends no pulses.         *)
(***************************************************************************)

Wrap(n) == IF n < Size THEN n ELSE n - Size
SlotOf(p) == Wrap(pqIn + p - 1)

(* A handler between the loading of AcSzPQ and its inc has interrupts       *)
(* masked: only the NMI is above it, and AcSzPQ is still what it has loaded.*)
SlotsGiven(s) ==
    \A i \in 1..Len(s) :
      /\ s[i].kind # "prog" /\ s[i].pc \in {"check", "load", "inc", "fill"} => s[i].kind \in Sender
      /\ s[i].pc \in {"load", "inc"} => \A j \in 1..Len(s) : j < i => s[j].kind = "nmi"
      /\ s[i].pc = "inc" => s[i].slot = acSz

(* Every pulse sent has its slot, which holds it or is being filled with it.*)
SlotsHold(s) ==
    /\ acSz = Wrap(pqIn + Len(order))
    /\ \A p \in 1..Len(order) :
         \/ ring[SlotOf(p)] = order[p]
         \/ \E i \in 1..Len(s) : s[i].pc = "fill" /\ s[i].slot = SlotOf(p) /\ s[i].kind = order[p]
    /\ \A i \in 1..Len(s) : s[i].pc = "fill" =>
         \E p \in 1..Len(order) : s[i].slot = SlotOf(p) /\ s[i].kind = order[p]

(* With more handlers at work than slots left, the machine is about to stop.*)
QueueInv ==
    SlotsGiven(stack[current]) /\ (Len(order) <= Size => SlotsHold(stack[current]))

LEMMA WrapIs ==
    \A n \in Nat : n < Size + Size => n % Size = Wrap(n)
BY RingAssumption DEF Wrap

LEMMA WrapsApart ==
    \A n \in 0..(Size - 1) : \A p, q \in 1..Size : Wrap(n + p - 1) = Wrap(n + q - 1) => p = q
BY RingAssumption DEF Wrap

LEMMA WrapNext ==
    \A n \in 0..(Size - 1), k \in 0..(Size - 1) : (Wrap(n + k) + 1) % Size = Wrap(n + k + 1)
<1>1. SUFFICES ASSUME NEW n \in 0..(Size - 1), NEW k \in 0..(Size - 1)
               PROVE  (Wrap(n + k) + 1) % Size = Wrap(n + k + 1)
  OBVIOUS
<1>2. PICK m \in 0..(Size - 1) : m = Wrap(n + k)
  <2>1. CASE n + k < Size
    BY <2>1, RingAssumption DEF Wrap
  <2>2. CASE n + k >= Size
    BY <2>2, RingAssumption DEF Wrap
  <2>3. QED BY <2>1, <2>2, RingAssumption
<1>3. (m + 1) % Size = Wrap(m + 1)
  BY RingAssumption, WrapIs
<1>4. Wrap(m + 1) = Wrap(n + k + 1)
  BY <1>2, RingAssumption DEF Wrap
<1>5. QED BY <1>2, <1>3, <1>4

LEMMA WrapShift ==
    \A n \in 0..(Size - 1), p \in 1..(Size - 1) : Wrap(((n + 1) % Size) + p - 1) = Wrap(n + p)
<1>1. SUFFICES ASSUME NEW n \in 0..(Size - 1), NEW p \in 1..(Size - 1)
               PROVE  Wrap(((n + 1) % Size) + p - 1) = Wrap(n + p)
  OBVIOUS
<1>2. PICK m \in 0..(Size - 1) : m = (n + 1) % Size
  BY NextSlot
<1>3. m = Wrap(n + 1)
  BY <1>2, RingAssumption, WrapIs
<1>4. Wrap(m + p - 1) = Wrap(n + p)
  BY <1>3, RingAssumption DEF Wrap
<1>5. QED BY <1>2, <1>4

(* The running frame moves on.                                             *)
LEMMA GivenKept ==
    ASSUME RingInv, QueueInv, NEW g \in Frame, NewTop(g), g.kind = Top.kind, current' = current,
           g.kind # "prog" /\ g.pc \in {"check", "load", "inc", "fill"} => g.kind \in Sender,
           g.pc = "inc" => g.slot = acSz',
           acSz' = acSz \/ \A i \in 2..Len(stack[current]) : stack[current][i].pc # "inc"
    PROVE  SlotsGiven(stack[current])'
<1> DEFINE s == stack[current]
           r == stack'[current]
<1>1. /\ s \in Seq(Frame) /\ Len(s) \in Nat \ {0} /\ Top = s[1]
  BY TopIs
<1>2. /\ r \in Seq(Frame) /\ Len(r) = Len(s) /\ r[1] = g
      /\ \A i \in 2..Len(s) : r[i] = s[i]
  BY <1>1 DEF NewTop
<1>3. \A i \in 1..Len(s) :
        /\ s[i].kind # "prog" /\ s[i].pc \in {"check", "load", "inc", "fill"} => s[i].kind \in Sender
        /\ s[i].pc \in {"load", "inc"} => \A j \in 1..Len(s) : j < i => s[j].kind = "nmi"
        /\ s[i].pc = "inc" => s[i].slot = acSz
  BY DEF QueueInv, SlotsGiven
<1>4. acSz' = acSz \/ \A i \in 2..Len(s) : s[i].pc # "inc"
  OBVIOUS
<1> HIDE DEF s, r
<1>5. \A i \in 1..Len(s) : i = 1 \/ i \in 2..Len(s)
  BY <1>1
<1>6. \A i \in 1..Len(s) : r[i].kind = s[i].kind
  BY <1>1, <1>2, <1>5
<1>7. ASSUME NEW i \in 1..Len(r)
      PROVE  /\ r[i].kind # "prog" /\ r[i].pc \in {"check", "load", "inc", "fill"} => r[i].kind \in Sender
             /\ r[i].pc \in {"load", "inc"} => \A j \in 1..Len(r) : j < i => r[j].kind = "nmi"
             /\ r[i].pc = "inc" => r[i].slot = acSz'
  <2>1. CASE i = 1
    BY <1>1, <1>2, <2>1
  <2>2. CASE i # 1
    <3>1. i \in 2..Len(s) /\ i \in 1..Len(s) /\ r[i] = s[i]
      BY <1>2, <1>5, <1>7, <2>2
    <3>2. \A j \in 1..Len(r) : j < i /\ s[i].pc \in {"load", "inc"} => r[j].kind = "nmi"
      BY <1>2, <1>3, <1>6, <3>1
    <3>3. QED BY <1>3, <1>4, <3>1, <3>2
  <2>3. QED BY <2>1, <2>2
<1>8. QED BY <1>7 DEF SlotsGiven, r

LEMMA HoldKept ==
    ASSUME RingInv, QueueInv, NEW g \in Frame, NewTop(g), g.kind = Top.kind,
           UNCHANGED <<current, ring, acSz, pqIn, order>>, Top.pc # "fill", g.pc # "fill"
    PROVE  (Len(order) <= Size => SlotsHold(stack[current]))'
<1> DEFINE s == stack[current]
           r == stack'[current]
<1>1. SUFFICES ASSUME Len(order) <= Size PROVE SlotsHold(stack[current])'
  OBVIOUS
<1>2. s \in Seq(Frame) /\ Len(s) \in Nat \ {0} /\ Top = s[1]
  BY TopIs
<1>3. /\ Len(r) = Len(s) /\ r[1] = g /\ \A i \in 2..Len(s) : r[i] = s[i]
  BY <1>2 DEF NewTop
<1>4. /\ acSz = Wrap(pqIn + Len(order))
      /\ \A p \in 1..Len(order) :
           \/ ring[SlotOf(p)] = order[p]
           \/ \E i \in 1..Len(s) : s[i].pc = "fill" /\ s[i].slot = SlotOf(p) /\ s[i].kind = order[p]
      /\ \A i \in 1..Len(s) : s[i].pc = "fill" =>
           \E p \in 1..Len(order) : s[i].slot = SlotOf(p) /\ s[i].kind = order[p]
  BY <1>1 DEF QueueInv, SlotsHold
<1>5. /\ current' = current /\ ring' = ring /\ acSz' = acSz /\ pqIn' = pqIn /\ order' = order
      /\ \A p : SlotOf(p)' = SlotOf(p)
  BY DEF SlotOf, Wrap
<1> HIDE DEF s, r
<1>6. \A i \in 1..Len(s) : i = 1 \/ i \in 2..Len(s)
  BY <1>2
<1>7. \A i \in 1..Len(s) : s[i].pc = "fill" \/ r[i].pc = "fill" => r[i] = s[i]
  BY <1>2, <1>3, <1>6
<1>8. \A p \in 1..Len(order) :
        \/ ring[SlotOf(p)] = order[p]
        \/ \E i \in 1..Len(r) : r[i].pc = "fill" /\ r[i].slot = SlotOf(p) /\ r[i].kind = order[p]
  BY <1>3, <1>4, <1>7
<1>9. \A i \in 1..Len(r) : r[i].pc = "fill" =>
        \E p \in 1..Len(order) : r[i].slot = SlotOf(p) /\ r[i].kind = order[p]
  BY <1>3, <1>4, <1>7
<1>10. Wrap(pqIn + Len(order))' = Wrap(pqIn + Len(order))
  BY <1>5 DEF Wrap
<1>11. /\ acSz' = Wrap(pqIn + Len(order))'
       /\ \A p \in 1..Len(order') :
            \/ ring'[SlotOf(p)'] = order'[p]
            \/ \E i \in 1..Len(r) : r[i].pc = "fill" /\ r[i].slot = SlotOf(p)' /\ r[i].kind = order'[p]
       /\ \A i \in 1..Len(r) : r[i].pc = "fill" =>
            \E p \in 1..Len(order') : r[i].slot = SlotOf(p)' /\ r[i].kind = order'[p]
  BY <1>4, <1>5, <1>8, <1>9, <1>10, SMTT(40)
<1>12. r = (stack[current])'
  BY <1>5 DEF r
<1>13. QED BY <1>11, <1>12 DEF SlotsHold

LEMMA PlainQueue ==
    ASSUME RingInv, QueueInv, NEW pc \in Place \ {"inc", "fill"}, Goto(pc),
           UNCHANGED <<current, ring, acSz, pqIn, order>>, Top.pc # "fill",
           Top.kind # "prog" /\ pc \in {"check", "load"} => Top.kind \in Sender
    PROVE  QueueInv'
<1>1. PICK g \in Frame : g.kind = Top.kind /\ g.pc = pc /\ NewTop(g)
  BY GotoIs
<1>2. SlotsGiven(stack[current])'
  BY <1>1, GivenKept
<1>3. (Len(order) <= Size => SlotsHold(stack[current]))'
  BY <1>1, HoldKept
<1>4. QED BY <1>2, <1>3 DEF QueueInv

LEMMA PlainSteps ==
    ASSUME RingInv, QueueInv,
           \/ Call \/ Work \/ Pulses \/ On \/ Clear \/ Pretend \/ Drain \/ NoPQ \/ Switch
           \/ Check \/ Off \/ Post \/ Count \/ Enter \/ Handle
    PROVE  QueueInv'
<1> DEFINE Same == UNCHANGED <<current, ring, acSz, pqIn, order>>
           Senders(pc) == Top.kind # "prog" /\ pc \in {"check", "load"} => Top.kind \in Sender
<1>1. Top.pc \in {"check", "load", "inc", "fill"} /\ Top.kind # "prog" => Top.kind \in Sender
  <2>1. 1 \in 1..Len(stack[current]) /\ Top = stack[current][1]
    BY TopIs
  <2>2. QED BY <2>1 DEF QueueInv, SlotsGiven
<1>2. SUFFICES \E pc \in Place \ {"inc", "fill"} : Goto(pc) /\ Same /\ Top.pc # "fill" /\ Senders(pc)
  BY PlainQueue
<1>3. CASE Call \/ Off
  <2>1. Top.pc \in {"user", "off"} /\ Same
    BY <1>3 DEF Call, Off, At
  <2>2. Alone /\ ~ taskOff
    BY <2>1, TopPlace DEF Quiet, Locks, PlacesOf, HandlerPlaces
  <2>3. Goto("kernel") \/ Goto("post")
    BY <1>3, <2>2 DEF Call, Off, TasksOff
  <2>4. QED BY <2>1, <2>3 DEF Place
<1>4. CASE Work \/ Post
  <2>1. Top.pc \in {"kernel", "post"} /\ Goto("on") /\ Same
    BY <1>4 DEF Work, Post, At
  <2>2. QED BY <2>1 DEF Place
<1>5. CASE Pulses
  <2>1. Top.pc = "user" /\ Goto("check") /\ Same
    BY <1>5 DEF Pulses, At
  <2>2. Top.kind = "prog"
    BY <2>1, TopPlace DEF PlacesOf, HandlerPlaces
  <2>3. QED BY <2>1, <2>2 DEF Place
<1>6. CASE On
  BY <1>6 DEF On, At, Place
<1>7. CASE Clear \/ Count
  <2>1. Top.pc \in {"clear", "count"} /\ Goto(Caller) /\ Same
    BY <1>7 DEF Clear, Count, At
  <2>2. Caller \in {"user", "exit"}
    BY DEF Caller
  <2>3. QED BY <2>1, <2>2 DEF Place
<1>8. CASE Pretend \/ Drain \/ NoPQ
  <2>1. PICK pc \in {"noPQ", "drain", "took", "switch"} :
          Goto(pc) /\ Top.pc \in {"pretend", "drain", "noPQ"} /\ Same
    BY <1>8 DEF Pretend, Drain, NoPQ, At
  <2>2. QED BY <2>1 DEF Place
<1>9. CASE Switch
  BY <1>9 DEF Switch, At, Place
<1>10. CASE Check
  <2>1. Top.pc = "check" /\ (Goto("off") \/ Goto("load")) /\ Same
    BY <1>10 DEF Check, At
  <2>2. QED BY <1>1, <2>1 DEF Place
<1>11. CASE Enter
  BY <1>11 DEF Enter, At, Place
<1>12. CASE Handle
  <2>1. Top.pc = "handler" /\ Same /\ (Goto("exit") \/ (Goto("check") /\ Top.kind \in Sender))
    BY <1>12 DEF Handle, At
  <2>2. QED BY <2>1 DEF Place
<1>13. QED BY <1>3, <1>4, <1>5, <1>6, <1>7, <1>8, <1>9, <1>10, <1>11, <1>12

LEMMA LoadQueues ==
    ASSUME RingInv, QueueInv, Load
    PROVE  QueueInv'
<1>1. /\ Top.pc = "load" /\ stack' = [stack EXCEPT ![current][1].pc = "inc", ![current][1].slot = acSz]
      /\ UNCHANGED <<current, ring, acSz, pqIn, order>>
  BY DEF Load, At
<1>2. acSz \in 0..(Size - 1) /\ "inc" \in Place
  BY DEF RingInv, RingTypes, Place
<1>3. PICK g \in Frame : g.kind = Top.kind /\ g.pc = "inc" /\ g.slot = acSz /\ NewTop(g)
  BY ZenonT(50), <1>1, <1>2, SlotIs
<1>4. Top.kind \in Sender
  <2>1. 1 \in 1..Len(stack[current]) /\ Top = stack[current][1] /\ Top.kind # "prog"
    BY <1>1, TopIs, SenderIs
  <2>2. QED BY <1>1, <2>1 DEF QueueInv, SlotsGiven
<1>5. SlotsGiven(stack[current])'
  BY <1>1, <1>3, <1>4, GivenKept
<1>6. (Len(order) <= Size => SlotsHold(stack[current]))'
  BY <1>1, <1>3, HoldKept
<1>7. QED BY <1>5, <1>6 DEF QueueInv

LEMMA IncQueues ==
    ASSUME RingInv, QueueInv, "nmi" \notin Sender, Inc
    PROVE  QueueInv'
<1>1. /\ Top.pc = "inc" /\ Goto("fill") /\ acSz' = (acSz + 1) % Size
      /\ order' = Append(order, Top.kind) /\ UNCHANGED <<current, ring, pqIn>>
  BY DEF Inc, At
<1>2. PICK s : s = stack[current]
  OBVIOUS
<1>3. PICK g \in Frame : g.kind = Top.kind /\ g.pc = "fill" /\ g.slot = Top.slot /\ NewTop(g)
  BY <1>1, GotoIs DEF Place
<1>4. /\ Len(s) \in Nat \ {0} /\ Top = s[1] /\ 1 \in 1..Len(s) /\ Top.kind \in Source
      /\ Top.kind # "prog"
  BY <1>1, <1>2, TopIs, SenderIs
<1>5. PICK r : r = stack'[current]
  OBVIOUS
<1>6. Len(r) = Len(s) /\ r[1] = g /\ \A i \in 2..Len(s) : r[i] = s[i]
  BY <1>2, <1>3, <1>5 DEF NewTop
<1>7. SlotsGiven(s)
  BY <1>2 DEF QueueInv
<1>8. Top.kind \in Sender /\ Top.slot = acSz
  BY <1>1, <1>4, <1>7 DEF SlotsGiven
<1>9. \A i \in 2..Len(s) : s[i].pc # "inc"
  <2>1. ASSUME NEW i \in 2..Len(s), s[i].pc = "inc" PROVE FALSE
    <3>1. i \in 1..Len(s) /\ 1 < i
      BY <1>4
    <3>2. s[1].kind = "nmi"
      BY <1>4, <1>7, <2>1, <3>1 DEF SlotsGiven
    <3>3. QED BY <1>4, <1>8, <3>2
  <2>2. QED BY <2>1
<1>10. SlotsGiven(stack[current])'
  BY <1>1, <1>2, <1>3, <1>8, <1>9, GivenKept
<1>11. /\ order \in Seq(Source) /\ Len(order) \in Nat /\ Len(order') = Len(order) + 1
       /\ order'[Len(order) + 1] = Top.kind /\ \A p \in 1..Len(order) : order'[p] = order[p]
  BY <1>1, <1>4 DEF RingInv, RingTypes
<1>12. ASSUME Len(order') <= Size PROVE SlotsHold(stack[current])'
  <2>1. Len(order) \in 0..(Size - 1) /\ pqIn \in 0..(Size - 1) /\ Len(order) <= Size
    BY <1>11, <1>12, RingAssumption DEF RingInv, RingTypes
  <2>2. SlotsHold(s)
    BY <1>2, <2>1 DEF QueueInv
  <2>3. acSz' = Wrap(pqIn' + Len(order'))
    <3>1. acSz = Wrap(pqIn + Len(order))
      BY <2>2 DEF SlotsHold
    <3>2. pqIn' + Len(order') = pqIn + Len(order) + 1
      BY <1>1, <1>11, <2>1
    <3>3. QED BY <1>1, <2>1, <3>1, <3>2, WrapNext
  <2>4. \A p : SlotOf(p)' = SlotOf(p)
    BY <1>1 DEF SlotOf, Wrap
  <2>5. g.slot = SlotOf(Len(order) + 1)
    <3>1. pqIn + (Len(order) + 1) - 1 = pqIn + Len(order)
      BY <2>1
    <3>2. QED BY <1>3, <1>8, <2>2, <3>1 DEF SlotsHold, SlotOf
  <2>6. \A i \in 1..Len(s) : i = 1 \/ (i \in 2..Len(s) /\ r[i] = s[i])
    BY <1>4, <1>6
  <2>7. ASSUME NEW p \in 1..Len(order')
        PROVE  \/ ring[SlotOf(p)] = order'[p]
               \/ \E i \in 1..Len(r) : r[i].pc = "fill" /\ r[i].slot = SlotOf(p) /\ r[i].kind = order'[p]
    <3>1. CASE p = Len(order) + 1
      BY <1>3, <1>4, <1>6, <1>11, <2>5, <3>1
    <3>2. CASE p # Len(order) + 1
      <4>1. p \in 1..Len(order) /\ order'[p] = order[p]
        BY <1>11, <2>7, <3>2
      <4>2. CASE ring[SlotOf(p)] = order[p]
        BY <4>1, <4>2
      <4>3. CASE \E i \in 1..Len(s) : s[i].pc = "fill" /\ s[i].slot = SlotOf(p) /\ s[i].kind = order[p]
        <5>1. PICK i \in 1..Len(s) : s[i].pc = "fill" /\ s[i].slot = SlotOf(p) /\ s[i].kind = order[p]
          BY <4>3
        <5>2. i # 1
          BY <1>1, <1>4, <5>1
        <5>3. i \in 1..Len(r) /\ r[i] = s[i]
          BY <1>6, <2>6, <5>2
        <5>4. QED BY <4>1, <5>1, <5>3
      <4>4. QED BY <2>2, <4>1, <4>2, <4>3 DEF SlotsHold
    <3>3. QED BY <3>1, <3>2
  <2>8. ASSUME NEW i \in 1..Len(r), r[i].pc = "fill"
        PROVE  \E p \in 1..Len(order') : r[i].slot = SlotOf(p) /\ r[i].kind = order'[p]
    <3>1. CASE i = 1
      <4>1. Len(order) + 1 \in 1..Len(order')
        BY <1>11
      <4>2. QED BY <1>3, <1>6, <1>11, <2>5, <3>1, <4>1
    <3>2. CASE i # 1
      <4>1. i \in 1..Len(s) /\ r[i] = s[i]
        BY <1>6, <2>6, <3>2
      <4>2. PICK p \in 1..Len(order) : s[i].slot = SlotOf(p) /\ s[i].kind = order[p]
        BY <2>2, <2>8, <4>1 DEF SlotsHold
      <4>3. p \in 1..Len(order') /\ order'[p] = order[p]
        BY <1>11
      <4>4. QED BY <4>1, <4>2, <4>3
    <3>3. QED BY <3>1, <3>2
  <2>9. r = (stack[current])'
    BY <1>1, <1>5
  <2>10. ring' = ring
    BY <1>1
  <2>11. /\ \A p \in 1..Len(order') :
              \/ ring'[SlotOf(p)'] = order'[p]
              \/ \E i \in 1..Len(r) : r[i].pc = "fill" /\ r[i].slot = SlotOf(p)' /\ r[i].kind = order'[p]
         /\ \A i \in 1..Len(r) : r[i].pc = "fill" =>
              \E p \in 1..Len(order') : r[i].slot = SlotOf(p)' /\ r[i].kind = order'[p]
    BY <2>4, <2>7, <2>8, <2>10
  <2>12. acSz' = Wrap(pqIn + Len(order))'
    BY <2>3 DEF Wrap
  <2>13. QED BY <2>9, <2>11, <2>12 DEF SlotsHold
<1>13. QED BY <1>10, <1>12 DEF QueueInv

LEMMA FillQueues ==
    ASSUME RingInv, QueueInv, Fill
    PROVE  QueueInv'
<1>1. /\ Top.pc = "fill" /\ ring' = [ring EXCEPT ![Top.slot] = Top.kind]
      /\ stack' = [stack EXCEPT ![current][1].pc = "count", ![current][1].slot = 0]
      /\ UNCHANGED <<current, acSz, pqIn, order>>
  BY DEF Fill, At
<1>2. PICK s : s = stack[current]
  OBVIOUS
<1>3. PICK g \in Frame : g.kind = Top.kind /\ g.pc = "count" /\ NewTop(g)
  <2>1. "count" \in Place /\ 0 \in 0..(Size - 1)
    BY RingAssumption DEF Place
  <2>2. QED BY <1>1, <2>1, SlotIs
<1>4. /\ Len(s) \in Nat \ {0} /\ Top = s[1] /\ 1 \in 1..Len(s) /\ StackOK(s)
      /\ Top.slot \in 0..(Size - 1)
  BY <1>1, <1>2, TopIs, SenderIs
<1>5. PICK r : r = stack'[current]
  OBVIOUS
<1>6. Len(r) = Len(s) /\ r[1] = g /\ \A i \in 2..Len(s) : r[i] = s[i]
  BY <1>2, <1>3, <1>5 DEF NewTop
<1>7. SlotsGiven(stack[current])'
  BY <1>1, <1>3, GivenKept
<1>8. ASSUME Len(order) <= Size PROVE SlotsHold(stack[current])'
  <2>1. SlotsHold(s)
    BY <1>2, <1>8 DEF QueueInv
  <2>2. Len(order) \in Nat /\ Size \in Nat /\ pqIn \in 0..(Size - 1)
    BY RingAssumption DEF RingInv, RingTypes
  <2>3. PICK q \in 1..Len(order) : Top.slot = SlotOf(q) /\ Top.kind = order[q]
    BY <1>1, <1>4, <2>1 DEF SlotsHold
  <2>4. \A p \in 1..Len(order) : p # q => SlotOf(p) # SlotOf(q)
    <3>1. \A p \in 1..Len(order) : p \in 1..Size
      BY <1>8, <2>2
    <3>2. QED BY <2>2, <3>1, WrapsApart DEF SlotOf
  <2>5. /\ ring'[SlotOf(q)] = order[q]
        /\ \A p \in 1..Len(order) : p # q => ring'[SlotOf(p)] = ring[SlotOf(p)]
    <3>1. PICK f \in [0..(Size - 1) -> Source \cup {NoPulse}] : f = ring
      BY DEF RingInv, RingTypes
    <3>2. PICK n \in 0..(Size - 1) : n = SlotOf(q)
      BY <1>4, <2>3
    <3>3. ring' = [f EXCEPT ![n] = order[q]]
      BY <1>1, <2>3, <3>1, <3>2
    <3>4. ring'[n] = order[q] /\ \A m : m # n => ring'[m] = f[m]
      BY <3>3
    <3>5. QED BY <2>4, <3>1, <3>2, <3>4
  <2>6. \A i \in 1..Len(s) : i = 1 \/ (i \in 2..Len(s) /\ r[i] = s[i])
    BY <1>4, <1>6
  <2>7. ASSUME NEW p \in 1..Len(order)
        PROVE  \/ ring'[SlotOf(p)] = order[p]
               \/ \E i \in 1..Len(r) : r[i].pc = "fill" /\ r[i].slot = SlotOf(p) /\ r[i].kind = order[p]
    <3>1. CASE p = q
      BY <2>5, <3>1
    <3>2. CASE p # q /\ ring[SlotOf(p)] = order[p]
      BY <2>5, <3>2
    <3>3. CASE p # q /\ \E i \in 1..Len(s) : s[i].pc = "fill" /\ s[i].slot = SlotOf(p) /\ s[i].kind = order[p]
      <4>1. PICK i \in 1..Len(s) : s[i].pc = "fill" /\ s[i].slot = SlotOf(p) /\ s[i].kind = order[p]
        BY <3>3
      <4>2. i # 1
        BY <1>4, <2>3, <2>4, <3>3, <4>1
      <4>3. i \in 1..Len(r) /\ r[i] = s[i]
        BY <1>6, <2>6, <4>2
      <4>4. QED BY <4>1, <4>3
    <3>4. QED BY <2>1, <3>1, <3>2, <3>3 DEF SlotsHold
  <2>8. ASSUME NEW i \in 1..Len(r), r[i].pc = "fill"
        PROVE  \E p \in 1..Len(order) : r[i].slot = SlotOf(p) /\ r[i].kind = order[p]
    <3>1. i # 1
      BY <1>3, <1>6, <2>8
    <3>2. i \in 1..Len(s) /\ r[i] = s[i]
      BY <1>6, <2>6, <3>1
    <3>3. QED BY <2>1, <2>8, <3>2 DEF SlotsHold
  <2>9. r = (stack[current])' /\ order' = order /\ \A p : SlotOf(p)' = SlotOf(p)
    BY <1>1, <1>5 DEF SlotOf, Wrap
  <2>10. acSz' = Wrap(pqIn + Len(order))'
    BY <1>1, <2>1 DEF SlotsHold, Wrap
  <2>11. /\ \A p \in 1..Len(order') :
              \/ ring'[SlotOf(p)'] = order'[p]
              \/ \E i \in 1..Len(r) : r[i].pc = "fill" /\ r[i].slot = SlotOf(p)' /\ r[i].kind = order'[p]
         /\ \A i \in 1..Len(r) : r[i].pc = "fill" =>
              \E p \in 1..Len(order') : r[i].slot = SlotOf(p)' /\ r[i].kind = order'[p]
    BY <2>7, <2>8, <2>9
  <2>12. QED BY <2>9, <2>10, <2>11 DEF SlotsHold
<1>9. order' = order
  BY <1>1
<1>10. QED BY <1>7, <1>8, <1>9 DEF QueueInv

(* Nobody fills a slot while a program is the one to run.                   *)
LEMMA NobodyFills ==
    ASSUME RingInv, Alone, Top.pc \notin {"load", "inc", "fill", "count"}
    PROVE  /\ \A i \in 1..Len(stack[current]) :
                 stack[current][i].pc \notin {"load", "inc", "fill", "count"}
           /\ Len(order) = pulQue
<1>1. PICK s : s = stack[current]
  OBVIOUS
<1>2. /\ s \in Seq(Frame) /\ s # << >> /\ Len(s) \in Nat \ {0} /\ Top = s[1]
      /\ \A i \in 1..Len(s) : s[i] \in Frame /\ s[i].pc \in PlacesOf(s[i].kind)
  BY <1>1, TopIs DEF StackOK
<1>3. ASSUME NEW i \in 1..Len(s) PROVE s[i].pc \notin {"load", "inc", "fill", "count"}
  <2>1. CASE i = 1
    BY <1>2, <2>1
  <2>2. CASE i # 1
    <3>1. i \in 2..Len(s)
      BY <1>2, <2>2
    <3>2. s[i] \notin Within
      BY <1>1, <3>1 DEF Alone
    <3>3. QED BY <1>2, <3>2 DEF Within, Nests, PlacesOf, ProgPlaces
  <2>3. QED BY <2>1, <2>2
<1>4. HowMany(s, Slotted) = 0
  <2>1. \A j \in 2..Len(s) : s[j] \notin Slotted
    BY <1>2, <1>3 DEF Slotted
  <2>2. Beneath(s, Slotted) = 0 /\ One(s[1] \in Slotted) = 0
    BY <1>2, <2>1, NoneBeneath DEF One, Slotted
  <2>3. QED BY <1>2, <2>2, TopAndBeneath
<1>5. Len(order) = pulQue + HowMany(s, Slotted) /\ pulQue \in Nat
  BY <1>1, TopPlace DEF RingInv
<1>6. QED BY <1>1, <1>3, <1>4, <1>5

LEMMA TookQueues ==
    ASSUME RingInv, QueueInv, Took
    PROVE  QueueInv'
<1>1. /\ panic = "none" /\ Top.pc = "took" /\ Goto(IF pulQue' = 0 THEN "noPQ" ELSE "drain")
      /\ pqIn' = (pqIn + 1) % Size /\ order' = Tail(order) /\ ring' = [ring EXCEPT ![pqIn] = NoPulse]
      /\ UNCHANGED <<current, acSz>>
  BY DEF Took, At
<1>2. PICK pc \in {"noPQ", "drain"} : Goto(pc)
  BY <1>1
<1>3. PICK g \in Frame : g.kind = Top.kind /\ g.pc = pc /\ NewTop(g)
  BY <1>2, GotoIs DEF Place
<1>4. Top.kind = "prog" /\ Alone
  BY <1>1, TopPlace DEF PlacesOf, HandlerPlaces
<1>5. SlotsGiven(stack[current])'
  BY <1>1, <1>3, <1>4, GivenKept
<1>6. PICK s : s = stack[current]
  OBVIOUS
<1>7. PICK r : r = stack'[current]
  OBVIOUS
<1>8. /\ Len(s) = 1 /\ Len(r) = 1 /\ r[1] = g /\ Len(order) = pulQue
      /\ \A i \in 1..Len(s) : s[i].pc # "fill"
  BY <1>1, <1>3, <1>4, <1>6, <1>7, TopIs, NobodyFills DEF NewTop
<1>9. pulQue > 0 /\ pulQue < Size /\ pulQue \in Nat /\ Size \in Nat /\ pqIn \in 0..(Size - 1)
  <2>1. 1 \in 1..Len(stack[current]) /\ stack[current][1].pc = "took"
    BY <1>1, TopIs
  <2>2. QED BY <1>1, <2>1, TopPlace, RingAssumption DEF RingInv, RingTypes
<1>10. SlotsHold(s)
  BY <1>6, <1>8, <1>9 DEF QueueInv
<1>11. /\ Len(order') = Len(order) - 1
       /\ \A p \in 1..(Len(order) - 1) : p + 1 \in 1..Len(order) /\ order'[p] = order[p + 1]
  <2>1. PICK o \in Seq(Source) : o = order
    BY DEF RingInv, RingTypes
  <2>2. Len(o) > 0 /\ order' = Tail(o)
    BY <1>1, <1>8, <1>9, <2>1
  <2>3. QED BY <2>1, <2>2
<1>12. \A p \in 1..(Len(order) - 1) : Wrap(pqIn' + p - 1) = Wrap(pqIn + p)
  <2>1. \A p \in 1..(Len(order) - 1) : p \in 1..(Size - 1)
    BY <1>8, <1>9
  <2>2. QED BY <1>1, <1>9, <2>1, WrapShift
<1>13. acSz' = Wrap(pqIn + Len(order))'
  <2>1. acSz = Wrap(pqIn + Len(order))
    BY <1>10 DEF SlotsHold
  <2>2. PICK k \in 1..(Size - 1) : k = Len(order)
    BY <1>8, <1>9
  <2>3. Wrap(((pqIn + 1) % Size) + k - 1) = Wrap(pqIn + k)
    BY <1>9, WrapShift
  <2>4. PICK m \in 0..(Size - 1) : m = (pqIn + 1) % Size
    BY <1>9, NextSlot
  <2>5. pqIn' + Len(order') = m + k - 1
    BY <1>1, <1>11, <2>2, <2>4
  <2>6. QED BY <1>1, <2>1, <2>2, <2>3, <2>4, <2>5 DEF Wrap
<1>14. ASSUME NEW p \in 1..Len(order') PROVE ring'[SlotOf(p)'] = order'[p]
  <2>1. p \in 1..(Len(order) - 1) /\ p + 1 \in 1..Len(order) /\ order'[p] = order[p + 1]
    BY <1>11, <1>14
  <2>2. SlotOf(p)' = SlotOf(p + 1)
    <3>1. pqIn + (p + 1) - 1 = pqIn + p
      BY <1>9, <2>1
    <3>2. SlotOf(p)' = Wrap(pqIn' + p - 1)
      BY DEF SlotOf, Wrap
    <3>3. QED BY <1>12, <2>1, <3>1, <3>2 DEF SlotOf
  <2>3. ring[SlotOf(p + 1)] = order[p + 1]
    BY <1>8, <1>10, <2>1 DEF SlotsHold
  <2>4. SlotOf(p + 1) # pqIn
    <3>1. p + 1 \in 1..Size /\ 1 \in 1..Size /\ p + 1 # 1
      BY <1>8, <1>9, <2>1
    <3>2. SlotOf(1) = pqIn
      BY <1>9 DEF SlotOf, Wrap
    <3>3. QED BY <1>9, <3>1, <3>2, WrapsApart DEF SlotOf
  <2>5. ring'[SlotOf(p + 1)] = ring[SlotOf(p + 1)]
    BY <1>1, <2>4 DEF RingInv, RingTypes
  <2>6. QED BY <2>1, <2>2, <2>3, <2>5
<1>15. SlotsHold(stack[current])'
  <2>1. r = (stack[current])'
    BY <1>1, <1>7
  <2>2. \A i \in 1..Len(r) : r[i].pc # "fill"
    BY <1>2, <1>3, <1>8
  <2>3. QED BY <1>13, <1>14, <2>1, <2>2 DEF SlotsHold
<1>16. QED BY <1>5, <1>15 DEF QueueInv

LEMMA SwapQueues ==
    ASSUME RingInv, QueueInv, Swap
    PROVE  QueueInv'
<1>1. Top.pc = "swap" /\ current' \in Thread /\ Goto("resume") /\ UNCHANGED <<ring, acSz, pqIn, order>>
  BY DEF Swap, At
<1>2. Alone /\ Left(stack'[current]) /\ StackOK(stack'[current])
  <2>1. Alone
    BY <1>1, TopPlace DEF Quiet
  <2>2. PICK g \in Frame : g.kind = Top.kind /\ g.pc = "resume" /\ NewTop(g)
    BY <1>1, GotoIs DEF Place
  <2>3. StackOK(stack'[current])
    <3>1. g.pc \in PlacesOf(g.kind)
      BY <2>2 DEF PlacesOf, ProgPlaces, HandlerPlaces
    <3>2. QED BY <2>1, <2>2, <3>1, TopReplaced
  <2>4. Left(stack'[current])
    <3>1. Len(stack[current]) \in Nat
      BY TopIs
    <3>2. /\ Len(stack'[current]) = Len(stack[current]) /\ stack'[current][1] = g
          /\ \A i \in 2..Len(stack[current]) : stack'[current][i] \notin Locking \cup Within
      BY <2>1, <2>2 DEF NewTop, Alone
    <3>3. g \notin Locking
      BY <2>2 DEF Locking, Locks
    <3>4. QED BY <2>2, <3>1, <3>2, <3>3 DEF Left
  <2>5. QED BY <2>1, <2>3, <2>4
<1>3. \A t \in Thread \ {current} : Left(stack'[t]) /\ StackOK(stack'[t])
  <2>1. PICK g \in Frame : NewTop(g)
    BY <1>1, GotoIs DEF Place
  <2>2. QED BY <2>1 DEF NewTop, RingInv
<1>4. PICK r : r = (stack[current])'
  OBVIOUS
<1>5. Left(r) /\ StackOK(r)
  BY <1>1, <1>2, <1>3, <1>4
<1>6. \A i \in 1..Len(r) : r[i].kind # "prog" \/ r[i].pc \in {"load", "inc", "fill"} => r[i].pc \in {"entry", "resume"}
  <2>1. \A i \in 1..Len(r) : r[i] \in Frame /\ r[i].pc \in PlacesOf(r[i].kind)
    BY <1>5 DEF StackOK
  <2>2. \A i \in 1..Len(r) : i # 1 => r[i] \notin Within
    BY <1>5 DEF Left
  <2>3. r[1].pc = "resume"
    BY <1>5 DEF Left
  <2>4. ASSUME NEW i \in 1..Len(r), r[i].kind # "prog" \/ r[i].pc \in {"load", "inc", "fill"}
        PROVE  r[i].pc \in {"entry", "resume"}
    <3>1. CASE i = 1
      BY <2>3, <3>1
    <3>2. CASE i # 1
      BY <2>1, <2>2, <2>4, <3>2 DEF Within, Nests, PlacesOf, ProgPlaces
    <3>3. QED BY <3>1, <3>2
  <2>5. QED BY <2>4
<1>7. SlotsGiven(stack[current])'
  BY <1>4, <1>6 DEF SlotsGiven
<1>8. ASSUME Len(order) <= Size PROVE SlotsHold(stack[current])'
  <2>1. SlotsHold(stack[current])
    BY <1>8 DEF QueueInv
  <2>2. \A i \in 1..Len(stack[current]) : stack[current][i].pc # "fill"
    BY <1>1, <1>2, NobodyFills
  <2>3. acSz = Wrap(pqIn + Len(order)) /\ \A p \in 1..Len(order) : ring[SlotOf(p)] = order[p]
    BY <2>1, <2>2 DEF SlotsHold
  <2>4. \A p : SlotOf(p)' = SlotOf(p)
    BY <1>1 DEF SlotOf, Wrap
  <2>5. acSz' = Wrap(pqIn + Len(order))'
    BY <1>1, <2>3 DEF Wrap
  <2>6. \A p \in 1..Len(order') : ring'[SlotOf(p)'] = order'[p]
    BY <1>1, <2>3, <2>4
  <2>7. \A i \in 1..Len(r) : r[i].pc # "fill"
    BY <1>6
  <2>8. QED BY <1>4, <2>5, <2>6, <2>7 DEF SlotsHold
<1>9. order' = order
  BY <1>1
<1>10. QED BY <1>7, <1>8, <1>9 DEF QueueInv

(* A frame comes or goes on the running thread's stack; those below it, and *)
(* the ring, stay as they are.                                             *)
LEMMA HoldsShifted ==
    ASSUME UNCHANGED <<ring, acSz, pqIn, order>>, NEW s, NEW r, SlotsHold(s), r = (stack[current])',
           \A i \in 1..Len(s) : s[i].pc = "fill" => \E j \in 1..Len(r) : r[j] = s[i],
           \A j \in 1..Len(r) : r[j].pc = "fill" => \E i \in 1..Len(s) : r[j] = s[i]
    PROVE  SlotsHold(stack[current])'
<1>1. /\ acSz = Wrap(pqIn + Len(order))
      /\ \A p \in 1..Len(order) :
           \/ ring[SlotOf(p)] = order[p]
           \/ \E i \in 1..Len(s) : s[i].pc = "fill" /\ s[i].slot = SlotOf(p) /\ s[i].kind = order[p]
      /\ \A i \in 1..Len(s) : s[i].pc = "fill" =>
           \E p \in 1..Len(order) : s[i].slot = SlotOf(p) /\ s[i].kind = order[p]
  BY DEF SlotsHold
<1>2. \A p : SlotOf(p)' = SlotOf(p)
  BY DEF SlotOf, Wrap
<1>3. \A p \in 1..Len(order) :
        \/ ring[SlotOf(p)] = order[p]
        \/ \E i \in 1..Len(r) : r[i].pc = "fill" /\ r[i].slot = SlotOf(p) /\ r[i].kind = order[p]
  <2>1. ASSUME NEW p \in 1..Len(order), NEW i \in 1..Len(s),
               s[i].pc = "fill", s[i].slot = SlotOf(p), s[i].kind = order[p]
        PROVE  \E j \in 1..Len(r) : r[j].pc = "fill" /\ r[j].slot = SlotOf(p) /\ r[j].kind = order[p]
    <3>1. PICK j \in 1..Len(r) : r[j] = s[i]
      BY <2>1
    <3>2. QED BY <2>1, <3>1
  <2>2. QED BY <1>1, <2>1
<1>4. ASSUME NEW j \in 1..Len(r), r[j].pc = "fill"
      PROVE  \E p \in 1..Len(order) : r[j].slot = SlotOf(p) /\ r[j].kind = order[p]
  <2>1. PICK i \in 1..Len(s) : r[j] = s[i]
    BY <1>4
  <2>2. s[i].pc = "fill"
    BY <1>4, <2>1
  <2>3. PICK p \in 1..Len(order) : s[i].slot = SlotOf(p) /\ s[i].kind = order[p]
    BY <1>1, <2>2
  <2>4. QED BY <2>1, <2>3
<1>5. acSz' = Wrap(pqIn + Len(order))'
  BY <1>1 DEF Wrap
<1>6. /\ \A p \in 1..Len(order') :
           \/ ring'[SlotOf(p)'] = order'[p]
           \/ \E i \in 1..Len(r) : r[i].pc = "fill" /\ r[i].slot = SlotOf(p)' /\ r[i].kind = order'[p]
      /\ \A i \in 1..Len(r) : r[i].pc = "fill" =>
           \E p \in 1..Len(order') : r[i].slot = SlotOf(p)' /\ r[i].kind = order'[p]
  BY <1>2, <1>3, <1>4
<1>7. QED BY <1>5, <1>6 DEF SlotsHold

LEMMA ResumeQueues ==
    ASSUME RingInv, QueueInv, Resume
    PROVE  QueueInv'
<1>1. /\ Top.pc = "resume" /\ IF Top.kind = "prog" THEN Goto("user") ELSE Pop
      /\ UNCHANGED <<current, ring, acSz, pqIn, order>>
  BY DEF Resume, At
<1>2. CASE Top.kind = "prog"
  BY <1>1, <1>2, PlainQueue DEF Place
<1>3. CASE Top.kind # "prog"
  <2>1. PICK s : s = stack[current]
    OBVIOUS
  <2>2. PICK r : r = (stack[current])'
    OBVIOUS
  <2>3. /\ StackOK(s) /\ s \in Seq(Frame) /\ Len(s) \in Nat \ {0} /\ Len(s) # 1 /\ s[1].pc = "resume"
    BY <1>1, <1>3, <2>1, TopIs
  <2>4. Len(s) > 1
    <3>1. PICK n \in Nat \ {0} : n = Len(s)
      BY <2>3
    <3>2. n > 1
      BY <2>3, <3>1
    <3>3. QED BY <3>1, <3>2
  <2>5. r = Tail(s)
    <3>1. stack = [t \in Thread |-> stack[t]] /\ current \in Thread
      BY TopIs DEF RingInv
    <3>2. QED BY <1>1, <1>3, <2>1, <2>2, <3>1 DEF Pop
  <2>6. Len(s) = Len(r) + 1 /\ Len(r) \in Nat /\ \A i \in 1..Len(r) : s[i + 1] = r[i]
    <3>1. r \in Seq(Frame)
      BY <2>3, <2>4, <2>5
    <3>2. QED BY <2>3, <2>4, <2>5, <3>1, RestOK
  <2>7. SlotsGiven(s)
    BY <2>1 DEF QueueInv
  <2>8. ASSUME NEW i \in 1..Len(r)
        PROVE  /\ r[i].kind # "prog" /\ r[i].pc \in {"check", "load", "inc", "fill"} => r[i].kind \in Sender
               /\ r[i].pc \in {"load", "inc"} => \A j \in 1..Len(r) : j < i => r[j].kind = "nmi"
               /\ r[i].pc = "inc" => r[i].slot = acSz'
    <3>1. i + 1 \in 1..Len(s) /\ r[i] = s[i + 1]
      BY <2>6
    <3>2. \A j \in 1..Len(r) : j < i => j + 1 \in 1..Len(s) /\ j + 1 < i + 1 /\ r[j] = s[j + 1]
      BY <2>6
    <3>3. /\ s[i + 1].kind # "prog" /\ s[i + 1].pc \in {"check", "load", "inc", "fill"} => s[i + 1].kind \in Sender
          /\ s[i + 1].pc \in {"load", "inc"} => \A j \in 1..Len(s) : j < i + 1 => s[j].kind = "nmi"
          /\ s[i + 1].pc = "inc" => s[i + 1].slot = acSz
      BY <2>7, <3>1 DEF SlotsGiven
    <3>4. QED BY <1>1, <3>1, <3>2, <3>3
  <2>9. SlotsGiven(stack[current])'
    BY <2>2, <2>8 DEF SlotsGiven
  <2>10. ASSUME Len(order) <= Size PROVE SlotsHold(stack[current])'
    <3>1. SlotsHold(s)
      BY <2>1, <2>10 DEF QueueInv
    <3>2. ASSUME NEW i \in 1..Len(s), s[i].pc = "fill" PROVE \E j \in 1..Len(r) : r[j] = s[i]
      <4>1. i # 1
        BY <2>3, <3>2
      <4>2. i - 1 \in 1..Len(r) /\ (i - 1) + 1 = i
        BY <2>6, <4>1
      <4>3. r[i - 1] = s[i]
        BY <2>6, <4>2
      <4>4. QED BY <4>2, <4>3
    <3>3. ASSUME NEW j \in 1..Len(r) PROVE \E i \in 1..Len(s) : r[j] = s[i]
      <4>1. j + 1 \in 1..Len(s) /\ r[j] = s[j + 1]
        BY <2>6
      <4>2. QED BY <4>1
    <3>4. QED BY SMTT(40), <1>1, <2>2, <3>1, <3>2, <3>3, HoldsShifted
  <2>11. order' = order
    BY <1>1
  <2>12. QED BY <2>9, <2>10, <2>11 DEF QueueInv
<1>4. QED BY <1>2, <1>3

LEMMA InterruptQueues ==
    ASSUME RingInv, QueueInv, NEW k \in Source, Interrupt(k)
    PROVE  QueueInv'
<1>1. /\ k \notin Kinds /\ (k = "nmi" \/ ~ Masked)
      /\ stack' = [stack EXCEPT ![current] = <<NewFrame(k, "entry")>> \o @]
      /\ UNCHANGED <<current, ring, acSz, pqIn, order>>
  BY DEF Interrupt
<1>2. PICK f \in Frame : f = NewFrame(k, "entry") /\ f.kind = k /\ f.pc = "entry"
  <2>1. PICK f : f = NewFrame(k, "entry")
    OBVIOUS
  <2>2. f \in Frame /\ f.kind = k /\ f.pc = "entry"
    BY <2>1, RingAssumption DEF NewFrame, Frame, Place
  <2>3. QED BY <2>1, <2>2
<1>3. PICK s : s = stack[current]
  OBVIOUS
<1>4. /\ s \in Seq(Frame) /\ Len(s) \in Nat \ {0} /\ Top = s[1] /\ \A i \in 1..Len(s) : s[i].kind # k
  <2>1. s \in Seq(Frame) /\ Len(s) \in Nat \ {0} /\ Top = s[1]
    BY <1>3, TopIs
  <2>2. QED BY <1>1, <1>3, <2>1 DEF Kinds
<1>5. PICK r : r = (stack[current])'
  OBVIOUS
<1>6. r = <<f>> \o s
  <2>1. stack = [t \in Thread |-> stack[t]] /\ current \in Thread
    BY TopIs DEF RingInv
  <2>2. QED BY <1>1, <1>2, <1>3, <1>5, <2>1
<1>7. /\ Len(r) = Len(s) + 1 /\ r[1] = f /\ \A i \in 1..Len(s) : r[i + 1] = s[i]
  BY <1>2, <1>4, <1>6
<1>8. \A j \in 1..Len(r) : j = 1 \/ (j - 1 \in 1..Len(s) /\ r[j] = s[j - 1])
  <2>1. ASSUME NEW j \in 1..Len(r), j # 1 PROVE j - 1 \in 1..Len(s) /\ r[j] = s[j - 1]
    <3>1. j - 1 \in 1..Len(s) /\ (j - 1) + 1 = j
      BY <1>4, <1>7, <2>1
    <3>2. QED BY <1>7, <3>1
  <2>2. QED BY <2>1
<1>9. SlotsGiven(s)
  BY <1>3 DEF QueueInv
(* A handler at work on AcSzPQ is on top, and only the NMI interrupts it,    *)
(* or it has been interrupted by the NMI, which nothing interrupts.         *)
<1>10. \A i \in 1..Len(s) : s[i].pc \in {"load", "inc"} => k = "nmi"
  <2>1. ASSUME NEW i \in 1..Len(s), s[i].pc \in {"load", "inc"}, k # "nmi" PROVE FALSE
    <3>1. ~ Masked
      BY <1>1, <2>1
    <3>2. i # 1
      BY <1>4, <2>1, <3>1 DEF Masked
    <3>3. 1 \in 1..Len(s) /\ 1 < i
      BY <1>4, <3>2
    <3>4. s[1].kind = "nmi"
      BY <1>9, <2>1, <3>3 DEF SlotsGiven
    <3>5. QED BY <1>4, <3>1, <3>4 DEF Masked
  <2>2. QED BY <2>1
<1>11. ASSUME NEW i \in 1..Len(r)
       PROVE  /\ r[i].kind # "prog" /\ r[i].pc \in {"check", "load", "inc", "fill"} => r[i].kind \in Sender
              /\ r[i].pc \in {"load", "inc"} => \A j \in 1..Len(r) : j < i => r[j].kind = "nmi"
              /\ r[i].pc = "inc" => r[i].slot = acSz'
  <2>1. CASE i = 1
    BY <1>2, <1>7, <2>1
  <2>2. CASE i # 1
    <3>1. i - 1 \in 1..Len(s) /\ r[i] = s[i - 1]
      BY <1>8, <2>2
    <3>2. ASSUME NEW j \in 1..Len(r), j < i, s[i - 1].pc \in {"load", "inc"} PROVE r[j].kind = "nmi"
      <4>1. CASE j = 1
        BY <1>2, <1>7, <1>10, <3>1, <3>2, <4>1
      <4>2. CASE j # 1
        <5>1. j - 1 \in 1..Len(s) /\ r[j] = s[j - 1] /\ j - 1 < i - 1
          BY <1>8, <3>2, <4>2
        <5>2. QED BY <1>9, <3>1, <3>2, <5>1 DEF SlotsGiven
      <4>3. QED BY <4>1, <4>2
    <3>3. /\ s[i - 1].kind # "prog" /\ s[i - 1].pc \in {"check", "load", "inc", "fill"} => s[i - 1].kind \in Sender
          /\ s[i - 1].pc = "inc" => s[i - 1].slot = acSz
      BY <1>9, <3>1 DEF SlotsGiven
    <3>4. QED BY <1>1, <3>1, <3>2, <3>3
  <2>3. QED BY <2>1, <2>2
<1>12. SlotsGiven(stack[current])'
  BY <1>5, <1>11 DEF SlotsGiven
<1>13. ASSUME Len(order) <= Size PROVE SlotsHold(stack[current])'
  <2>1. SlotsHold(s)
    BY <1>3, <1>13 DEF QueueInv
  <2>2. ASSUME NEW i \in 1..Len(s) PROVE \E j \in 1..Len(r) : r[j] = s[i]
    <3>1. i + 1 \in 1..Len(r) /\ r[i + 1] = s[i]
      BY <1>4, <1>7
    <3>2. QED BY <3>1
  <2>3. ASSUME NEW j \in 1..Len(r), r[j].pc = "fill" PROVE \E i \in 1..Len(s) : r[j] = s[i]
    <3>1. j # 1
      BY <1>2, <1>7, <2>3
    <3>2. QED BY <1>8, <3>1
  <2>4. UNCHANGED <<ring, acSz, pqIn, order>>
    BY <1>1
  <2>5. /\ \A i \in 1..Len(s) : s[i].pc = "fill" => \E j \in 1..Len(r) : r[j] = s[i]
        /\ \A j \in 1..Len(r) : r[j].pc = "fill" => \E i \in 1..Len(s) : r[j] = s[i]
    BY <2>2, <2>3
  <2>6. QED BY SMTT(40), <1>5, <2>1, <2>4, <2>5, HoldsShifted
<1>14. order' = order
  BY <1>1
<1>15. QED BY <1>12, <1>13, <1>14 DEF QueueInv

LEMMA QueueKeeps ==
    ASSUME RingInv, QueueInv, "nmi" \notin Sender, [Next]_vars
    PROVE  QueueInv'
<1>1. CASE Step
  BY <1>1, PlainSteps, LoadQueues, IncQueues, FillQueues, TookQueues, SwapQueues, ResumeQueues DEF Step
<1>2. CASE \E k \in Source : Interrupt(k)
  BY <1>2, InterruptQueues
<1>3. CASE UNCHANGED vars
  BY <1>3 DEF vars, QueueInv, SlotsGiven, SlotsHold, SlotOf, Wrap
<1>4. QED BY <1>1, <1>2, <1>3 DEF Next

LEMMA InitQueueInv ==
    ASSUME Init
    PROVE  QueueInv
<1>1. RingInv /\ acSz = 0 /\ pqIn = 0 /\ order = << >> /\ Len(order) = 0
  BY InitRingInv DEF Init
<1>2. PICK s : s = stack[current]
  OBVIOUS
<1>3. Len(s) = 1 /\ s[1].kind = "prog" /\ s[1].pc = "user"
  BY <1>1, <1>2, TopIs DEF Init, NewFrame
<1>4. SlotsGiven(s)
  BY <1>3 DEF SlotsGiven
<1>5. SlotsHold(s)
  <2>1. acSz = Wrap(pqIn + Len(order))
    BY <1>1, RingAssumption DEF Wrap
  <2>2. QED BY <1>1, <1>3, <2>1 DEF SlotsHold
<1>6. QED BY <1>2, <1>4, <1>5 DEF QueueInv

(* For any threads and any size: unless the handler of the NMI sends pulses, *)
(* which nothing masks, the ring holds the pulses sent and not delivered,   *)
(* each once and in the order they came, whenever no handler is at work on  *)
(* it (sendPulse_S in ipc.a65, doPQ in switch.a65).                        *)
THEOREM PulsesQueue == "nmi" \notin Sender => (Spec => []RingIsQueue)
<1>1. SUFFICES ASSUME "nmi" \notin Sender PROVE Spec => []RingIsQueue
  OBVIOUS
<1>2. RingInv /\ QueueInv => RingIsQueue
  <2>1. SUFFICES ASSUME RingInv, QueueInv, Sending = {}
                 PROVE  order = [i \in 1..pulQue |-> ring[(pqIn + i - 1) % Size]]
    BY DEF RingIsQueue
  <2>2. PICK s : s = stack[current]
    OBVIOUS
  <2>3. current \in Thread /\ s \in Seq(Frame) /\ s # << >> /\ Len(s) \in Nat \ {0}
    BY <2>1, <2>2, TopIs
  <2>4. \A i \in 1..Len(s) : s[i].pc \notin {"inc", "fill", "count"}
    <3>1. ASSUME NEW i \in 1..Len(s), s[i].pc \in {"inc", "fill", "count"} PROVE FALSE
      <4>1. i \in DOMAIN stack[current]
        BY <2>2, <2>3
      <4>2. <<current, i>> \in Frames
        BY <2>3, <4>1 DEF Frames
      <4>3. PcOf(<<current, i>>) = s[i].pc
        BY <2>2 DEF PcOf
      <4>4. QED BY <2>1, <3>1, <4>2, <4>3 DEF Sending
    <3>2. QED BY <3>1
  <2>5. HowMany(s, Slotted) = 0
    <3>1. \A j \in 2..Len(s) : s[j] \notin Slotted
      BY <2>3, <2>4 DEF Slotted
    <3>2. Beneath(s, Slotted) = 0 /\ One(s[1] \in Slotted) = 0
      BY <2>3, <2>4, <3>1, NoneBeneath DEF One, Slotted
    <3>3. QED BY <2>3, <3>2, TopAndBeneath
  <2>6. /\ Len(order) = pulQue /\ pulQue \in 0..Size /\ order \in Seq(Source) /\ Size \in Nat
        /\ pqIn \in 0..(Size - 1)
    BY <2>1, <2>2, <2>5, RingAssumption DEF RingInv, RingTypes
  <2>7. \A p \in 1..Len(order) : ring[SlotOf(p)] = order[p]
    <3>1. Len(order) <= Size
      BY <2>6
    <3>2. SlotsHold(s)
      BY <2>1, <2>2, <3>1 DEF QueueInv
    <3>3. QED BY <2>4, <3>2 DEF SlotsHold
  <2>8. \A p \in 1..Len(order) : (pqIn + p - 1) % Size = SlotOf(p)
    <3>1. \A p \in 1..Len(order) : pqIn + p - 1 \in Nat /\ pqIn + p - 1 < Size + Size
      BY <2>6
    <3>2. QED BY <3>1, WrapIs DEF SlotOf
  <2>9. order = [p \in 1..Len(order) |-> order[p]]
    BY <2>6
  <2>10. QED BY <2>6, <2>7, <2>8, <2>9
<1>3. RingInv /\ QueueInv /\ [Next]_vars => RingInv' /\ QueueInv'
  BY <1>1, RingNextKeeps, QueueKeeps
<1>4. Init => RingInv /\ QueueInv
  BY InitRingInv, InitQueueInv
<1>5. QED BY <1>2, <1>3, <1>4, PTL DEF Spec
=============================================================================
