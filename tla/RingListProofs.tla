--------------------------- MODULE RingListProofs ---------------------------
(***************************************************************************)
(* For any number of threads and queues, the rings of RingList hold         *)
(* together, and they are the sequences of ThreadLists.  The first three    *)
(* lemmas say what addQueueR and remQueueR do to links that are sound; the  *)
(* ones on rings what they do to the sequence the links lead round.  Every  *)
(* caller is a composition of the two routines.                            *)
(***************************************************************************)
EXTENDS RingList, QueuesProofs

(* The links l are sound for the threads that o puts on a queue.            *)
Sound(l, o) ==
    \A t \in TH : o[t] # None =>
        /\ l.next[t] \in TH /\ l.prev[t] \in TH
        /\ l.prev[l.next[t]] = t /\ l.next[l.prev[t]] = t
        /\ o[l.next[t]] = o[t] /\ o[l.prev[t]] = o[t]

LinkType == [next : [TH -> TH \cup {None}], prev : [TH -> TH \cup {None}]]
OnType == [TH -> Queue \cup {Run, None}]

(* remQueueR leaves sound links behind, without x.                         *)
LEMMA UnlinkSound ==
    ASSUME NEW l \in LinkType, NEW o \in OnType, Sound(l, o),
           NEW x \in TH, o[x] # None
    PROVE  /\ Unlink(l, x) \in LinkType
           /\ Sound(Unlink(l, x), [o EXCEPT ![x] = None])
<1> DEFINE n == l.next[x]
           p == l.prev[x]
           m == Unlink(l, x)
           w == [o EXCEPT ![x] = None]
<1>1. /\ n \in TH /\ p \in TH /\ l.prev[n] = x /\ l.next[p] = x
           /\ o[n] = o[x] /\ o[p] = o[x]
  BY DEF Sound
<1>2. CASE n = x
  <2>1. m = l
    BY <1>2 DEF Unlink
  <2>2. \A t \in TH : t # x /\ o[t] # None => l.next[t] # x /\ l.prev[t] # x
    BY <1>1, <1>2 DEF Sound
  <2> QED
    BY <2>1, <2>2 DEF Sound, LinkType, OnType
<1>3. CASE n # x
  <2>1. m = [next |-> [l.next EXCEPT ![p] = n, ![x] = None],
             prev |-> [l.prev EXCEPT ![n] = p, ![x] = None]]
    BY <1>3 DEF Unlink
  <2>2. m \in LinkType
    BY <2>1, <1>1 DEF LinkType
  <2>3. p # x
    BY <1>1, <1>3
  <2>4. \A t \in TH : /\ m.next[t] = IF t = x THEN None ELSE IF t = p THEN n ELSE l.next[t]
                      /\ m.prev[t] = IF t = x THEN None ELSE IF t = n THEN p ELSE l.prev[t]
    BY <2>1, <1>1 DEF LinkType
  <2>5. ASSUME NEW t \in TH, w[t] # None
        PROVE  /\ m.next[t] \in TH /\ m.prev[t] \in TH
               /\ m.prev[m.next[t]] = t /\ m.next[m.prev[t]] = t
               /\ w[m.next[t]] = w[t] /\ w[m.prev[t]] = w[t]
    <3>1. t # x /\ o[t] # None
      BY <2>5 DEF OnType
    <3>2. /\ l.next[t] \in TH /\ l.prev[t] \in TH
          /\ l.prev[l.next[t]] = t /\ l.next[l.prev[t]] = t
          /\ o[l.next[t]] = o[t] /\ o[l.prev[t]] = o[t]
      BY <3>1 DEF Sound
    <3>3. t # p => l.next[t] # x /\ l.next[t] # n
      BY <3>1, <3>2, <1>1
    <3>4. t # n => l.prev[t] # x /\ l.prev[t] # p
      BY <3>1, <3>2, <1>1
    <3>5. m.next[t] = IF t = p THEN n ELSE l.next[t]
      BY <2>4, <3>1
    <3>6. m.prev[t] = IF t = n THEN p ELSE l.prev[t]
      BY <2>4, <3>1
    <3>7. m.next[t] \in TH /\ m.prev[t] \in TH
      BY <3>5, <3>6, <3>2, <1>1
    <3>8. m.prev[m.next[t]] = t
      BY <3>5, <3>3, <3>2, <1>1, <1>3, <2>4
    <3>9. m.next[m.prev[t]] = t
      BY <3>6, <3>4, <3>2, <1>1, <2>3, <2>4
    <3>10. o[m.next[t]] = o[t] /\ m.next[t] # x
      BY <3>5, <3>3, <3>2, <1>1, <1>3
    <3>11. o[m.prev[t]] = o[t] /\ m.prev[t] # x
      BY <3>6, <3>4, <3>2, <1>1, <2>3
    <3> HIDE DEF m
    <3> QED
      BY <3>1, <3>7, <3>8, <3>9, <3>10, <3>11 DEF OnType
  <2> HIDE DEF m, w
  <2> QED
    BY <2>2, <2>5 DEF Sound, m, w
<1> QED
  BY <1>2, <1>3

(* addQueueR in front of a member of some ring puts x on that ring.         *)
LEMMA LinkSound ==
    ASSUME NEW l \in LinkType, NEW o \in OnType, Sound(l, o),
           NEW x \in TH, o[x] = None, NEW y \in TH, o[y] # None
    PROVE  /\ LinkBefore(l, x, y) \in LinkType
           /\ Sound(LinkBefore(l, x, y), [o EXCEPT ![x] = o[y]])
<1> DEFINE p == l.prev[y]
           m == LinkBefore(l, x, y)
           w == [o EXCEPT ![x] = o[y]]
<1>1. p \in TH /\ l.next[p] = y /\ o[p] = o[y] /\ x # y /\ p # x
  BY DEF Sound
<1>2. m \in LinkType /\ w \in OnType
  BY <1>1 DEF LinkBefore, LinkType, OnType
<1>3. \A t \in TH : /\ m.next[t] = IF t = p THEN x ELSE IF t = x THEN y ELSE l.next[t]
                    /\ m.prev[t] = IF t = y THEN x ELSE IF t = x THEN p ELSE l.prev[t]
                    /\ w[t] = IF t = x THEN o[y] ELSE o[t]
  BY <1>1 DEF LinkBefore, LinkType, OnType
<1> HIDE DEF m, w
<1>4. ASSUME NEW t \in TH, w[t] # None
      PROVE  /\ m.next[t] \in TH /\ m.prev[t] \in TH
             /\ m.prev[m.next[t]] = t /\ m.next[m.prev[t]] = t
             /\ w[m.next[t]] = w[t] /\ w[m.prev[t]] = w[t]
  <2>1. CASE t = x
    BY <2>1, <1>1, <1>3
  <2>2. CASE t # x
    <3>1. /\ l.next[t] \in TH /\ l.prev[t] \in TH
          /\ l.prev[l.next[t]] = t /\ l.next[l.prev[t]] = t
          /\ o[l.next[t]] = o[t] /\ o[l.prev[t]] = o[t] /\ o[t] # None
      BY <2>2, <1>3, <1>4 DEF Sound
    <3>2. l.next[t] # x /\ l.prev[t] # x
      BY <3>1
    <3>3. /\ m.next[t] = IF t = p THEN x ELSE l.next[t]
          /\ m.prev[t] = IF t = y THEN x ELSE l.prev[t]
          /\ w[t] = o[t]
      BY <2>2, <1>3
    <3>4. (t # p => l.next[t] # y) /\ (t # y => l.prev[t] # p)
      BY <3>1, <1>1
    <3>5. m.prev[m.next[t]] = t /\ w[m.next[t]] = w[t]
      BY <3>1, <3>2, <3>3, <3>4, <1>1, <1>3
    <3>6. m.next[m.prev[t]] = t /\ w[m.prev[t]] = w[t]
      BY <3>1, <3>2, <3>3, <3>4, <1>1, <1>3
    <3> QED
      BY <3>1, <3>3, <3>5, <3>6
  <2> QED
    BY <2>1, <2>2
<1>5. Sound(m, w)
  BY <1>4 DEF Sound
<1> QED
  BY <1>2, <1>5 DEF m, w

(* addQueueR on an empty queue puts x on a ring of its own.                 *)
LEMMA AloneSound ==
    ASSUME NEW l \in LinkType, NEW o \in OnType, Sound(l, o),
           NEW x \in TH, o[x] = None, NEW q \in Queue \cup {Run}
    PROVE  /\ LinkAlone(l, x) \in LinkType
           /\ Sound(LinkAlone(l, x), [o EXCEPT ![x] = q])
<1> DEFINE m == LinkAlone(l, x)
           w == [o EXCEPT ![x] = q]
<1>1. m \in LinkType /\ w \in OnType
  BY DEF LinkAlone, LinkType, OnType
<1>2. \A t \in TH : /\ m.next[t] = IF t = x THEN x ELSE l.next[t]
                    /\ m.prev[t] = IF t = x THEN x ELSE l.prev[t]
                    /\ w[t] = IF t = x THEN q ELSE o[t]
  BY DEF LinkAlone, LinkType, OnType
<1> HIDE DEF m, w
<1>3. \A t \in TH : t # x /\ o[t] # None => l.next[t] # x /\ l.prev[t] # x
  BY DEF Sound
<1>4. Sound(m, w)
  BY <1>2, <1>3 DEF Sound
<1> QED
  BY <1>1, <1>4 DEF m, w

-----------------------------------------------------------------------------
(* The inductive invariant is what the run checks: no part of it needs      *)
(* another fact about the reachable states.                                *)
RInv == TypeOK /\ Mutual /\ HeadsOn

LEMMA InvSound == ASSUME RInv PROVE Links \in LinkType /\ on \in OnType /\ Sound(Links, on)
  BY DEF RInv, TypeOK, Mutual, Links, LinkType, OnType, Sound

(* A step that leaves sound links, legal heads and NullTH in the run queue. *)
LEMMA SoundInv ==
    ASSUME Sound(Links', on'), Links' \in LinkType, on' \in OnType,
           on[NullTH]' = Run, rank' \in [Thread -> Rank],
           head' \in [Queue -> Thread \cup {None}], HeadsOn'
    PROVE  RInv'
<1>1. Links' = [next |-> next', prev |-> prev']
  BY DEF Links
<1>2. next' = Links'.next /\ prev' = Links'.prev
  BY <1>1
<1>3. /\ next' \in [TH -> TH \cup {None}] /\ prev' \in [TH -> TH \cup {None}]
      /\ \A t \in TH : on'[t] # None =>
            /\ next'[t] \in TH /\ prev'[t] \in TH
            /\ prev'[next'[t]] = t /\ next'[prev'[t]] = t
            /\ on'[next'[t]] = on'[t] /\ on'[prev'[t]] = on'[t]
  BY <1>2 DEF Sound, LinkType
<1>4. TypeOK'
  BY <1>3 DEF TypeOK, OnType
<1>5. Mutual'
  BY <1>3 DEF Mutual
<1> QED
  BY <1>4, <1>5 DEF RInv

(* SetLinks makes l the links.                                             *)
LEMMA SetsLinks ==
    ASSUME NEW l \in LinkType, SetLinks(l) PROVE Links' = l
  BY DEF SetLinks, Links, LinkType

(* reSched2, from any sound links in which x is on no queue and the rest of *)
(* the threads are where `on` says.                                        *)
LEMMA ReSchedSound ==
    ASSUME RInv, NEW x \in Thread, NEW r \in Rank, NEW l \in LinkType,
           Sound(l, [on EXCEPT ![x] = None]), on[x] # Run, ReSched(l, x, r)
    PROVE  /\ Links' \in LinkType /\ on' \in OnType /\ Sound(Links', on')
           /\ on[NullTH]' = Run /\ rank' \in [Thread -> Rank]
<1> DEFINE o == [on EXCEPT ![x] = None]
<1>1. /\ o \in OnType /\ x \in TH /\ o[x] = None /\ on' = [o EXCEPT ![x] = Run]
      /\ on' \in OnType /\ rank' \in [Thread -> Rank] /\ on[NullTH]' = Run
  BY RingAssumption DEF RInv, TypeOK, OnType, TH, ReSched
<1>2. PICK y \in TH : InsertPoint(l, y, r) /\ SetLinks(LinkBefore(l, x, y))
  BY DEF ReSched
<1>3. o[y] = Run /\ o[y] # None
  BY <1>2, RingAssumption DEF InsertPoint, RInv, TypeOK
<1>0. Sound(l, o)
  OBVIOUS
<1>4. /\ LinkBefore(l, x, y) \in LinkType
      /\ Sound(LinkBefore(l, x, y), [o EXCEPT ![x] = Run])
  <2> HIDE DEF o
  <2> QED
    BY <1>0, <1>1, <1>3, LinkSound
<1>5. Links' = LinkBefore(l, x, y)
  BY <1>2, <1>4, SetsLinks
<1> QED
  BY <1>1, <1>4, <1>5

LEMMA StartKeeps ==
    ASSUME RInv, NEW x \in Thread, NEW r \in Rank, Start(x, r) PROVE RInv'
<1>1. on[x] = None /\ [on EXCEPT ![x] = None] = on
  BY DEF Start, RInv, TypeOK, TH
<1>2. Links \in LinkType /\ Sound(Links, [on EXCEPT ![x] = None])
  BY <1>1, InvSound
<1>3. on[x] # Run /\ ReSched(Links, x, r) /\ head' = head
  BY <1>1, RingAssumption DEF Start
<1>4. /\ Links' \in LinkType /\ on' \in OnType /\ Sound(Links', on')
      /\ on[NullTH]' = Run /\ rank' \in [Thread -> Rank]
  BY <1>2, <1>3, ReSchedSound
<1>5. HeadsOn'
  <2>1. on' = [on EXCEPT ![x] = Run]
    BY <1>3 DEF ReSched
  <2> QED
    BY <2>1, <1>1, <1>3, RingAssumption DEF RInv, TypeOK, HeadsOn, TH
<1> QED
  BY <1>3, <1>4, <1>5, SoundInv DEF RInv, TypeOK

(* The head that remQueueR returns is still a thread of that queue.         *)
LEMMA HeadWithoutOn ==
    ASSUME RInv, NEW x \in Thread, NEW q \in Queue, on[x] = q
    PROVE  LET h == HeadWithout(head[q], x)
           IN  h # None => h \in Thread /\ h # x /\ on[h] = q
<1> DEFINE h == HeadWithout(head[q], x)
<1> SUFFICES ASSUME h # None PROVE h \in Thread /\ h # x /\ on[h] = q
  OBVIOUS
<1>1. x \in TH /\ next[x] \in TH /\ on[next[x]] = q /\ next[x] # x
  BY RingAssumption DEF RInv, TypeOK, Mutual, HeadWithout, TH
<1>2. next[x] \in Thread
  BY <1>1, RingAssumption DEF RInv, TypeOK, TH
<1>3. CASE head[q] = x
  BY <1>1, <1>2, <1>3 DEF HeadWithout
<1>4. CASE head[q] # x
  BY <1>1, <1>4 DEF HeadWithout, RInv, TypeOK, HeadsOn
<1> QED
  BY <1>3, <1>4

LEMMA WakeKeeps ==
    ASSUME RInv, NEW x \in Thread, NEW q \in Queue, NEW r \in Rank, Wake(x, q, r)
    PROVE  RInv'
<1>1. on[x] = q /\ on[x] # None /\ on[x] # Run /\ x \in TH
  BY RingAssumption DEF Wake, TH
<1>2. Unlink(Links, x) \in LinkType /\ Sound(Unlink(Links, x), [on EXCEPT ![x] = None])
  BY <1>1, InvSound, UnlinkSound
<1>3. /\ ReSched(Unlink(Links, x), x, r)
      /\ head' = [head EXCEPT ![q] = HeadWithout(head[q], x)]
  BY DEF Wake
<1>4. /\ Links' \in LinkType /\ on' \in OnType /\ Sound(Links', on')
      /\ on[NullTH]' = Run /\ rank' \in [Thread -> Rank]
  BY <1>1, <1>2, <1>3, ReSchedSound
<1> DEFINE h == HeadWithout(head[q], x)
<1>5. h # None => h \in Thread /\ h # x /\ on[h] = q
  BY <1>1, HeadWithoutOn
<1>6. on' = [on EXCEPT ![x] = Run] /\ head \in [Queue -> Thread \cup {None}]
      /\ on \in [TH -> Queue \cup {Run, None}]
  BY <1>3 DEF ReSched, RInv, TypeOK
<1> HIDE DEF h
<1>7. head' = [head EXCEPT ![q] = h]
  BY <1>3 DEF h
<1>8. head' \in [Queue -> Thread \cup {None}]
  BY <1>5, <1>6, <1>7
<1>9. ASSUME NEW k \in Queue, head'[k] # None PROVE on'[head'[k]] = k
  <2>1. CASE k = q
    BY <2>1, <1>5, <1>6, <1>7, <1>9 DEF TH
  <2>2. CASE k # q
    <3>1. head'[k] = head[k] /\ on[head[k]] = k /\ head[k] # x
      BY <2>2, <1>1, <1>6, <1>7, <1>9 DEF RInv, HeadsOn
    <3> QED
      BY <3>1, <1>6, <1>8, <1>9 DEF TH
  <2> QED
    BY <2>1, <2>2
<1>10. HeadsOn'
  BY <1>9 DEF HeadsOn
<1> QED
  BY <1>4, <1>8, <1>10, SoundInv

LEMMA BlockKeeps ==
    ASSUME RInv, NEW x \in Thread, NEW q \in Queue, Block(x, q) PROVE RInv'
<1> DEFINE l == Unlink(Links, x)
           o == [on EXCEPT ![x] = None]
<1>1. /\ on[x] = Run /\ on[x] # None /\ x \in TH /\ x # NullTH
      /\ on' = [on EXCEPT ![x] = q] /\ rank' = rank
      /\ AddLast(l, q, x)
      /\ on \in OnType /\ head \in [Queue -> Thread \cup {None}]
  BY RingAssumption DEF Block, TH, RInv, TypeOK, OnType
<1>2. l \in LinkType /\ Sound(l, o)
  BY <1>1, InvSound, UnlinkSound
<1>3. /\ o \in OnType /\ o[x] = None /\ on' = [o EXCEPT ![x] = q] /\ on' \in OnType
      /\ on[NullTH]' = Run
  BY <1>1 DEF OnType, RInv, TypeOK, TH
<1> HIDE DEF l, o
<1>4. CASE head[q] = None
  <2>0. LinkAlone(l, x) \in LinkType /\ Sound(LinkAlone(l, x), [o EXCEPT ![x] = q])
    <3>1. q \in Queue \cup {Run}
      OBVIOUS
    <3> QED
      BY <3>1, <1>1, <1>2, <1>3, AloneSound
  <2>1. LinkAlone(l, x) \in LinkType /\ Sound(LinkAlone(l, x), on')
    BY <2>0, <1>3
  <2>2. Links' = LinkAlone(l, x) /\ head' = [head EXCEPT ![q] = x]
    BY <1>1, <1>4, <2>1, SetsLinks DEF AddLast
  <2>3. HeadsOn'
    <3>1. ASSUME NEW k \in Queue, head'[k] # None PROVE on'[head'[k]] = k
      BY <3>1, <1>1, <2>2, RingAssumption DEF RInv, HeadsOn, OnType, TH
    <3> QED
      BY <3>1 DEF HeadsOn
  <2>4. head' \in [Queue -> Thread \cup {None}] /\ rank' \in [Thread -> Rank]
    BY <1>1, <2>2 DEF RInv, TypeOK
  <2> QED
    BY <1>3, <2>1, <2>2, <2>3, <2>4, SoundInv
<1>5. CASE head[q] # None
  <2>1. on[head[q]] = q /\ head[q] \in TH /\ head[q] # x
    BY <1>1, <1>5, RingAssumption DEF RInv, HeadsOn, TH
  <2>2. o[head[q]] = q /\ q # None
    BY <2>1, <1>1, RingAssumption DEF o, OnType
  <2>3. /\ LinkBefore(l, x, head[q]) \in LinkType
        /\ Sound(LinkBefore(l, x, head[q]), [o EXCEPT ![x] = o[head[q]]])
    BY <1>1, <1>2, <1>3, <2>1, <2>2, LinkSound
  <2>4. Links' = LinkBefore(l, x, head[q]) /\ head' = head
    BY <1>1, <1>5, <2>3, SetsLinks DEF AddLast
  <2>5. HeadsOn'
    <3>1. ASSUME NEW k \in Queue, head'[k] # None PROVE on'[head'[k]] = k
      BY <3>1, <1>1, <2>4, RingAssumption DEF RInv, HeadsOn, OnType, TH
    <3> QED
      BY <3>1 DEF HeadsOn
  <2>6. head' \in [Queue -> Thread \cup {None}] /\ rank' \in [Thread -> Rank]
    BY <1>1, <2>4 DEF RInv, TypeOK
  <2>7. Sound(Links', on') /\ Links' \in LinkType
    BY <1>3, <2>2, <2>3, <2>4
  <2> QED
    BY <1>3, <2>5, <2>6, <2>7, SoundInv
<1> QED
  BY <1>4, <1>5

LEMMA StopKeeps == ASSUME RInv, NEW x \in Thread, Stop(x) PROVE RInv'
<1>1. /\ on[x] = Run /\ on[x] # None /\ x \in TH /\ x # NullTH
      /\ on' = [on EXCEPT ![x] = None] /\ head' = head /\ rank' = rank
      /\ SetLinks(Unlink(Links, x))
  BY RingAssumption DEF Stop, TH
<1>2. Unlink(Links, x) \in LinkType /\ Sound(Unlink(Links, x), on')
  BY <1>1, InvSound, UnlinkSound
<1>3. Links' = Unlink(Links, x)
  BY <1>1, <1>2, SetsLinks
<1>4. on' \in OnType /\ on[NullTH]' = Run
  BY <1>1 DEF OnType, RInv, TypeOK, TH
<1>5. HeadsOn'
  <2>1. ASSUME NEW k \in Queue, head[k] # None PROVE on'[head[k]] = k
    <3>1. on[head[k]] = k /\ head[k] # x /\ head[k] \in TH
      BY <2>1, <1>1, RingAssumption DEF RInv, HeadsOn, TypeOK, TH
    <3> QED
      BY <3>1, <1>1 DEF RInv, TypeOK
  <2> QED
    BY <2>1, <1>1 DEF HeadsOn
<1> QED
  BY <1>1, <1>2, <1>3, <1>4, <1>5, SoundInv DEF RInv, TypeOK

LEMMA InitRings == Init => RInv
BY RingAssumption DEF Init, RInv, TypeOK, Mutual, HeadsOn, TH

LEMMA NextRings == RInv /\ [Next]_vars => RInv'
<1> SUFFICES ASSUME RInv, [Next]_vars PROVE RInv'
  OBVIOUS
<1>1. CASE UNCHANGED vars
  BY <1>1 DEF vars, RInv, TypeOK, Mutual, HeadsOn
<1>2. CASE Next
  BY <1>2, StartKeeps, WakeKeeps, BlockKeeps, StopKeeps DEF Next
<1> QED
  BY <1>1, <1>2

(* Whatever the order of blocking, waking, starting and stopping, the rings *)
(* of queue.a65 are sound and every queue's head is one of its threads.     *)
THEOREM RingInvariant == Spec => []RInv
<1> QED
  BY InitRings, NextRings, PTL DEF Spec

(* The links of every queued thread agree in both directions and stay in    *)
(* its queue: unlinking a thread from the middle never tears a ring.        *)
THEOREM LinksMutual == Spec => []Mutual
<1>1. RInv => Mutual
  BY DEF RInv
<1> QED
  BY <1>1, RingInvariant, PTL

(* No queue's head is a thread that has left the queue.                     *)
THEOREM HeadsStayOn == Spec => []HeadsOn
<1>1. RInv => HeadsOn
  BY DEF RInv
<1> QED
  BY <1>1, RingInvariant, PTL

-----------------------------------------------------------------------------
(***************************************************************************)
(* A ring as a sequence: the walk along its links is the one sequence that  *)
(* the links lead round.                                                   *)
(***************************************************************************)

(* The place behind place i of a ring of n.                                *)
Behind(i, n) == IF i = n THEN 1 ELSE i + 1

(* The links nx lead round the sequence s, which holds just the threads that*)
(* o puts on q.                                                            *)
Ring(nx, o, q, s) ==
    /\ s \in Seq(TH) /\ Distinct(s) /\ On(s) = {t \in TH : o[t] = q}
    /\ \A i \in 1..Len(s) : nx[s[i]] = s[Behind(i, Len(s))]

StepOf(nx, v) == IF v = None THEN None ELSE nx[v]

(* Walking is a function: each place follows from the one before it.        *)
LEMMA WalkExists ==
    ASSUME NEW nx, NEW h
    PROVE  \A n \in Nat : \E g : g = [i \in 0..n |-> IF i = 0 THEN h ELSE StepOf(nx, g[i - 1])]
<1> DEFINE W == {n \in Nat : \E g : g = [i \in 0..n |-> IF i = 0 THEN h ELSE StepOf(nx, g[i - 1])]}
<1>1. 0 \in W
  <2>1. [i \in 0..0 |-> h] = [i \in 0..0 |-> IF i = 0 THEN h ELSE StepOf(nx, [j \in 0..0 |-> h][i - 1])]
    OBVIOUS
  <2>2. QED BY <2>1
<1>2. ASSUME NEW n \in Nat, n \in W PROVE n + 1 \in W
  <2>1. PICK g : g = [i \in 0..n |-> IF i = 0 THEN h ELSE StepOf(nx, g[i - 1])]
    BY <1>2
  <2> DEFINE f == [i \in 0..(n + 1) |-> IF i \in 0..n THEN g[i] ELSE StepOf(nx, g[n])]
  <2>2. f = [i \in 0..(n + 1) |-> IF i = 0 THEN h ELSE StepOf(nx, f[i - 1])]
    <3>1. ASSUME NEW i \in 0..(n + 1) PROVE f[i] = IF i = 0 THEN h ELSE StepOf(nx, f[i - 1])
      <4>1. CASE i \in 0..n
        <5>1. f[i] = g[i] /\ g[i] = IF i = 0 THEN h ELSE StepOf(nx, g[i - 1])
          BY <2>1, <4>1
        <5>2. i # 0 => i - 1 \in 0..n /\ i - 1 \in 0..(n + 1)
          BY <4>1
        <5>3. i # 0 => f[i - 1] = g[i - 1]
          BY <5>2
        <5>4. QED BY <5>1, <5>3
      <4>2. CASE i = n + 1
        <5>1. f[i] = StepOf(nx, g[n]) /\ i # 0 /\ i - 1 = n /\ n \in 0..n /\ n \in 0..(n + 1)
          BY <4>2
        <5>2. f[n] = g[n]
          BY <5>1
        <5>3. QED BY <5>1, <5>2
      <4>3. QED BY <4>1, <4>2
    <3>2. QED BY <3>1
  <2>3. \E e : e = [i \in 0..(n + 1) |-> IF i = 0 THEN h ELSE StepOf(nx, e[i - 1])]
    BY <2>2
  <2>4. QED BY <2>3
<1> HIDE DEF W
<1>3. Nat \subseteq W
  BY <1>1, <1>2, CountingUp
<1>4. QED BY <1>3 DEF W

LEMMA RingFits ==
    ASSUME NEW s \in Seq(TH), Distinct(s)
    PROVE  Len(s) <= Cardinality(TH) /\ Cardinality(TH) \in Nat
<1>1. IsFiniteSet(TH) /\ Cardinality(TH) \in Nat
  BY RingAssumption, FS_Singleton, FS_Union, FS_CardinalityType DEF TH
<1>2. Len(s) \in Nat /\ DOMAIN s = 1..Len(s) /\ s \in [1..Len(s) -> TH]
  BY LenProperties
<1>3. s \in Injection(1..Len(s), TH)
  BY <1>2 DEF Distinct, Injection, IsInjective
<1>4. Cardinality(1..Len(s)) <= Cardinality(TH)
  BY <1>1, <1>3, FS_Injection
<1>5. Cardinality(1..Len(s)) = Len(s)
  BY <1>2, FS_Interval, SMTT(20)
<1>6. QED BY <1>1, <1>4, <1>5

(* The walk from a ring's first thread goes once round the ring.           *)
LEMMA WalkIs ==
    ASSUME NEW nx, NEW s \in Seq(TH), s # << >>, Distinct(s),
           \A i \in 1..Len(s) : nx[s[i]] = s[Behind(i, Len(s))]
    PROVE  Walk(nx, s[1]) = s
<1> DEFINE n == Cardinality(TH)
           at == CHOOSE g : g = [i \in 0..n |-> IF i = 0 THEN s[1] ELSE IF g[i - 1] = None THEN None ELSE nx[g[i - 1]]]
           back == {i \in 1..n : at[i] = s[1]}
           len == IF back = {} THEN 0 ELSE CHOOSE i \in back : \A j \in back : i <= j
<1>1. /\ n \in Nat /\ Len(s) \in 1..n /\ Len(s) \in Nat \ {0} /\ DOMAIN s = 1..Len(s)
      /\ \A i \in 1..Len(s) : s[i] \in TH /\ s[i] # None
  <2>1. n \in Nat /\ Len(s) <= n
    BY RingFits
  <2>2. Len(s) \in Nat \ {0} /\ DOMAIN s = 1..Len(s) /\ \A i \in 1..Len(s) : s[i] \in TH
    BY OnMember, EmptySeq
  <2>3. None \notin TH
    BY RingAssumption DEF TH
  <2> HIDE DEF n
  <2>4. QED BY <2>1, <2>2, <2>3
<1>2. at = [i \in 0..n |-> IF i = 0 THEN s[1] ELSE IF at[i - 1] = None THEN None ELSE nx[at[i - 1]]]
  <2>1. \E g : g = [i \in 0..n |-> IF i = 0 THEN s[1] ELSE StepOf(nx, g[i - 1])]
    <3>1. n \in Nat
      BY <1>1
    <3> HIDE DEF n
    <3>2. \A h : \A m \in Nat : \E g : g = [i \in 0..m |-> IF i = 0 THEN h ELSE StepOf(nx, g[i - 1])]
      BY WalkExists
    <3>3. QED BY <3>1, <3>2, ZenonT(60)
  <2>2. \E g : g = [i \in 0..n |-> IF i = 0 THEN s[1] ELSE IF g[i - 1] = None THEN None ELSE nx[g[i - 1]]]
    BY <2>1 DEF StepOf
  <2> HIDE DEF n
  <2>3. QED BY <2>2
<1>3. Walk(nx, s[1]) = [i \in 1..len |-> at[i - 1]]
  BY DEF Walk
<1> HIDE DEF n, at
<1> DEFINE G == {i \in Nat : i < Len(s) => at[i] = s[i + 1]}
<1>4. Nat \subseteq G
  <2>1. 0 \in G
    BY <1>1, <1>2
  <2>2. ASSUME NEW i \in Nat, i \in G PROVE i + 1 \in G
    <3>1. SUFFICES ASSUME i + 1 < Len(s) PROVE at[i + 1] = s[(i + 1) + 1]
      OBVIOUS
    <3>2. at[i] = s[i + 1] /\ i + 1 \in 1..Len(s) /\ i + 1 # Len(s) /\ i + 1 \in 0..n /\ i + 1 # 0 /\ (i + 1) - 1 = i
      <4>1. at[i] = s[i + 1]
        BY <1>1, <2>2, <3>1
      <4>2. Len(s) \in 1..n /\ n \in Nat
        BY <1>1
      <4>3. QED BY <3>1, <4>1, <4>2
    <3>3. nx[s[i + 1]] = s[(i + 1) + 1]
      BY <3>2 DEF Behind
    <3>4. QED BY <1>1, <1>2, <3>2, <3>3, ZenonT(60)
  <2> HIDE DEF G
  <2>3. QED BY <2>1, <2>2, CountingUp
<1>5. \A i \in 0..(Len(s) - 1) : at[i] = s[i + 1]
  BY <1>1, <1>4
<1>6. at[Len(s)] = s[1]
  <2>1. Len(s) - 1 \in 0..(Len(s) - 1) /\ (Len(s) - 1) + 1 = Len(s) /\ Len(s) \in 0..n /\ Len(s) # 0
    BY <1>1
  <2>2. at[Len(s) - 1] = s[Len(s)]
    BY <1>5, <2>1
  <2>3. nx[s[Len(s)]] = s[1] /\ s[Len(s)] # None
    <3>1. Len(s) \in 1..Len(s) /\ Behind(Len(s), Len(s)) = 1
      <4>1. Len(s) \in Nat \ {0}
        BY <1>1
      <4>2. QED BY <4>1 DEF Behind
    <3>2. QED BY <3>1, <1>1
  <2>4. QED BY <1>2, <2>1, <2>2, <2>3
<1>7. Len(s) \in back /\ \A j \in back : Len(s) <= j
  <2>1. Len(s) \in 1..n /\ at[Len(s)] = s[1]
    BY <1>1, <1>6
  <2>2. ASSUME NEW j \in 1..n, j < Len(s) PROVE at[j] # s[1]
    <3>1. at[j] = s[j + 1] /\ j + 1 \in 1..Len(s) /\ j + 1 # 1
      BY <1>1, <1>5, <2>2
    <3>2. QED BY <1>1, <3>1 DEF Distinct
  <2>3. QED BY <1>1, <2>1, <2>2
<1>8. len = Len(s)
  <2>1. back \subseteq Int
    OBVIOUS
  <2> HIDE DEF back
  <2>2. Len(s) \in Int /\ Len(s) \in back /\ \A j \in back : Len(s) <= j
    BY <1>1, <1>7
  <2>3. \A i \in back : (\A j \in back : i <= j) => i = Len(s)
    BY <2>1, <2>2
  <2>4. QED BY <2>2, <2>3
<1> HIDE DEF len
<1>9. [i \in 1..len |-> at[i - 1]] = [i \in 1..Len(s) |-> s[i]]
  BY <1>1, <1>5, <1>8
<1>10. s = [i \in 1..Len(s) |-> s[i]]
  BY <1>1
<1>11. QED BY <1>3, <1>9, <1>10

-----------------------------------------------------------------------------
(***************************************************************************)
(* What the two routines do to a ring.                                     *)
(***************************************************************************)

LEMMA RingMembers ==
    ASSUME NEW nx, NEW o, NEW q, NEW s, Ring(nx, o, q, s)
    PROVE  \A i \in 1..Len(s) : s[i] \in TH /\ o[s[i]] = q
<1>1. \A i \in 1..Len(s) : s[i] \in On(s)
  BY OnMember DEF Ring
<1>2. QED BY <1>1 DEF Ring

(* Where a thread's links lead within its ring.                            *)
LEMMA RingLinks ==
    ASSUME NEW l \in LinkType, NEW o \in OnType, Sound(l, o), NEW q \in Queue \cup {Run},
           NEW s, Ring(l.next, o, q, s), NEW k \in 1..Len(s)
    PROVE  /\ Len(s) \in Nat \ {0} /\ s[k] \in TH /\ o[s[k]] = q
           /\ l.next[s[k]] = s[Behind(k, Len(s))] /\ l.prev[s[Behind(k, Len(s))]] = s[k]
<1>1. q # None
  BY RingAssumption
<1>2. Len(s) \in Nat /\ s[k] \in On(s) /\ s[k] \in TH
  BY OnMember DEF Ring
<1>3. o[s[k]] = q
  BY <1>2 DEF Ring
<1>4. QED BY <1>1, <1>2, <1>3 DEF Ring, Sound

(* remQueueR: the ring of x goes on without it ...                         *)
Unlinked(l, o, q, s, x) ==
    /\ Ring(Unlink(l, x).next, [o EXCEPT ![x] = None], q, Without(s, x))
    /\ l.next[x] = x <=> Without(s, x) = << >>
    /\ l.next[x] # x => Without(s, x)[1] = IF s[1] = x THEN l.next[x] ELSE s[1]

LEMMA UnlinkRing ==
    ASSUME NEW l \in LinkType, NEW o \in OnType, Sound(l, o), NEW q \in Queue \cup {Run},
           NEW s, Ring(l.next, o, q, s), NEW x \in TH, o[x] = q
    PROVE  Unlinked(l, o, q, s, x)
<1> DEFINE r == Without(s, x)
           m == Unlink(l, x)
           w == [o EXCEPT ![x] = None]
           n == Len(s)
<1>0. \A j \in 1..Len(s) : s[j] \in TH /\ o[s[j]] = q /\ l.next[s[j]] = s[Behind(j, Len(s))]
  BY RingLinks
<1>1. s \in Seq(TH) /\ Distinct(s) /\ x \in On(s) /\ q # None
  BY RingAssumption DEF Ring
<1>2. /\ r \in Seq(TH) /\ Distinct(r) /\ On(r) = On(s) \ {x}
  BY <1>1, WithoutUnlinks
<1>3. PICK k \in 1..n :
        /\ s[k] = x /\ Len(r) = n - 1
        /\ \A i \in 1..(n - 1) : r[i] = IF i < k THEN s[i] ELSE s[i + 1]
  BY <1>1, WithoutShape
<1>4. n \in Nat \ {0} /\ DOMAIN s = 1..n /\ k \in 1..n
  BY <1>1, <1>3, OnMember
<1>5. On(r) = {t \in TH : w[t] = q}
  BY <1>1, <1>2 DEF Ring, OnType
<1>6. l.next[x] = s[Behind(k, n)]
  BY <1>0, <1>3
<1> HIDE DEF r
<1>7. l.next[x] = x <=> n = 1
  BY <1>1, <1>3, <1>4, <1>6, SMTT(40) DEF Distinct, Behind
<1>8. l.next[x] = x <=> r = << >>
  <2>1. r = << >> <=> Len(r) = 0
    BY <1>2, EmptySeq
  <2>2. QED BY <1>3, <1>4, <1>7, <2>1
<1>9. ASSUME n # 1 PROVE r[1] = IF s[1] = x THEN l.next[x] ELSE s[1]
  <2>1. 1 \in 1..(n - 1) /\ (s[1] = x <=> k = 1)
    BY <1>1, <1>3, <1>4, <1>9 DEF Distinct
  <2>2. CASE k = 1
    BY <1>3, <1>4, <1>6, <1>9, <2>1, <2>2 DEF Behind
  <2>3. CASE k # 1
    BY <1>3, <1>4, <2>1, <2>3
  <2>4. QED BY <2>2, <2>3
<1>10. ASSUME n # 1, NEW i \in 1..(n - 1) PROVE m.next[r[i]] = r[Behind(i, n - 1)]
  <2>1. l.next[x] # x /\ l.next[x] = s[Behind(k, n)]
    BY <1>6, <1>7, <1>10
  <2> DEFINE p == l.prev[x]
             c == IF i < k THEN i ELSE i + 1
  <2>2. p \in TH /\ p # x /\ l.next[p] = x
    BY <1>1, <2>1 DEF Sound
  <2>3. \A t \in TH : m.next[t] = IF t = x THEN None ELSE IF t = p THEN l.next[x] ELSE l.next[t]
    BY <2>1, <2>2 DEF Unlink, LinkType
  <2>4. c \in 1..n /\ c # k /\ r[i] = s[c]
    BY <1>3, <1>4
  <2>5. s[c] \in TH /\ s[c] # x /\ l.next[s[c]] = s[Behind(c, n)]
    <3>1. s[c] \in TH /\ l.next[s[c]] = s[Behind(c, n)]
      BY <1>0, <2>4
    <3>2. s[c] # x
      BY <1>1, <1>3, <1>4, <2>4 DEF Distinct
    <3>3. QED BY <3>1, <3>2
  <2>6. s[c] = p <=> Behind(c, n) = k
    <3>1. Behind(c, n) \in 1..n
      <4>1. PICK e \in 1..n : e = c
        BY <2>4
      <4>2. Behind(e, n) \in 1..n
        <5>1. PICK z \in Nat \ {0} : z = n
          BY <1>4
        <5>2. e \in 1..z
          BY <5>1
        <5>3. Behind(e, z) \in 1..z
          BY <5>1, <5>2 DEF Behind
        <5>4. QED BY <5>1, <5>3, SMTT(40)
      <4>3. QED BY <4>1, <4>2
    <3>2. s[Behind(c, n)] = x <=> Behind(c, n) = k
      BY <1>1, <1>3, <1>4, <3>1 DEF Distinct
    <3>3. s[c] = p <=> l.next[s[c]] = x
      <4>1. o[s[c]] = q /\ s[c] \in TH
        BY <1>0, <2>4
      <4>2. l.prev[l.next[s[c]]] = s[c]
        BY <1>1, <4>1 DEF Sound
      <4>3. QED BY <2>2, <4>2
    <3>4. QED BY <2>5, <3>2, <3>3
  <2>7. CASE Behind(c, n) = k
    <3>1. m.next[r[i]] = s[Behind(k, n)]
      BY <2>1, <2>3, <2>4, <2>5, <2>6, <2>7
    <3>2. Behind(i, n - 1) \in 1..(n - 1) /\ Behind(k, n) = IF Behind(i, n - 1) < k THEN Behind(i, n - 1) ELSE Behind(i, n - 1) + 1
      <4>1. i \in 1..(n - 1) /\ k \in 1..n /\ n \in Nat /\ n # 1 /\ c = IF i < k THEN i ELSE i + 1
        BY <1>4, <1>10
      <4>2. k = IF c = n THEN 1 ELSE c + 1
        BY <2>7 DEF Behind
      <4> HIDE DEF n, c
      <4>3. CASE i = n - 1
        BY <4>1, <4>2, <4>3 DEF Behind
      <4>4. CASE i # n - 1
        BY <4>1, <4>2, <4>4 DEF Behind
      <4>5. QED BY <4>3, <4>4
    <3>3. QED BY <1>3, <3>1, <3>2
  <2>8. CASE Behind(c, n) # k
    <3>1. m.next[r[i]] = s[Behind(c, n)]
      BY <2>3, <2>4, <2>5, <2>6, <2>8
    <3>2. Behind(i, n - 1) \in 1..(n - 1) /\ Behind(c, n) = IF Behind(i, n - 1) < k THEN Behind(i, n - 1) ELSE Behind(i, n - 1) + 1
      BY <1>4, <1>10, <2>4, <2>8 DEF Behind
    <3>3. QED BY <1>3, <3>1, <3>2
  <2>9. QED BY <2>7, <2>8
<1>11. \A i \in 1..Len(r) : m.next[r[i]] = r[Behind(i, Len(r))]
  BY <1>3, <1>4, <1>10, SMTT(40)
<1> HIDE DEF m, w
<1>12. Ring(m.next, w, q, r)
  BY <1>2, <1>5, <1>11 DEF Ring
<1>13. QED BY <1>7, <1>8, <1>9, <1>12 DEF r, m, w, Unlinked

(* ... and the other rings do not change.                                  *)
LEMMA UnlinkOthers ==
    ASSUME NEW l \in LinkType, NEW o \in OnType, Sound(l, o), NEW q \in Queue \cup {Run},
           NEW s, Ring(l.next, o, q, s), NEW x \in TH, o[x] # q, o[x] # None
    PROVE  Ring(Unlink(l, x).next, [o EXCEPT ![x] = None], q, s)
<1>1. q # None
  BY RingAssumption
<1>2. l.prev[x] \in TH /\ o[l.prev[x]] = o[x] /\ l.next[x] \in TH
  BY DEF Sound
<1>3. {t \in TH : [o EXCEPT ![x] = None][t] = q} = {t \in TH : o[t] = q}
  BY <1>1 DEF OnType
<1>4. ASSUME NEW i \in 1..Len(s) PROVE Unlink(l, x).next[s[i]] = l.next[s[i]]
  <2>1. s[i] \in TH /\ o[s[i]] = q
    BY RingMembers
  <2>2. s[i] # x /\ s[i] # l.prev[x]
    BY <1>2, <2>1
  <2>3. QED BY <1>2, <2>1, <2>2 DEF Unlink, LinkType
<1>5. QED BY <1>3, <1>4 DEF Ring

(* In front of y is place j of s, and in front of the first is behind the  *)
(* last.                                                                   *)
InFrontAt(s, j, y) ==
    s # << >> /\ j \in 2..(Len(s) + 1) /\ y = IF j = Len(s) + 1 THEN s[1] ELSE s[j]

PlaceIs(l, o, q, s, j, y) == y \in TH /\ o[y] = q /\ l.prev[y] = s[j - 1]

LEMMA InFrontIs ==
    ASSUME NEW l \in LinkType, NEW o \in OnType, Sound(l, o), NEW q \in Queue \cup {Run},
           NEW s, Ring(l.next, o, q, s), NEW j, NEW y, InFrontAt(s, j, y)
    PROVE  PlaceIs(l, o, q, s, j, y)
<1>1. Len(s) \in Nat
  BY OnMember DEF Ring
<1>2. j - 1 \in 1..Len(s) /\ y = s[Behind(j - 1, Len(s))] /\ Behind(j - 1, Len(s)) \in 1..Len(s)
  BY <1>1 DEF InFrontAt, Behind
<1>3. l.prev[y] = s[j - 1]
  BY <1>2, RingLinks
<1>4. y \in TH /\ o[y] = q
  BY <1>2, RingMembers
<1>5. QED BY <1>3, <1>4 DEF PlaceIs

LEMMA FirstOfInsert ==
    ASSUME NEW S, NEW s \in Seq(S), NEW x \in S, NEW k \in 1..(Len(s) + 1), k # 1
    PROVE  InsertAt(s, k, x)[1] = s[1]
<1>1. \A i \in 1..(Len(s) + 1) :
         InsertAt(s, k, x)[i] = IF i < k THEN s[i] ELSE IF i = k THEN x ELSE s[i - 1]
  BY InsertShape
<1>2. Len(s) \in Nat
  BY LenProperties
<1>3. 1 \in 1..(Len(s) + 1) /\ 1 < k
  BY <1>2
<1>4. QED BY <1>1, <1>3

LEMMA FirstStays ==
    ASSUME NEW S, NEW s \in Seq(S), NEW x \in S, NEW j, NEW y, InFrontAt(s, j, y)
    PROVE  InsertAt(s, j, x)[1] = s[1] /\ InsertAt(s, j, x) # << >>
<1>1. Len(s) \in Nat \ {0} /\ j \in 1..(Len(s) + 1) /\ j # 1
  BY EmptySeq DEF InFrontAt
<1>2. InsertAt(s, j, x) # << >>
  BY <1>1, InsertLinks
<1>3. InsertAt(s, j, x)[1] = s[1]
  BY <1>1, FirstOfInsert
<1>4. QED BY <1>2, <1>3

(* addQueueR: x joins a ring in front of the thread at place j, or behind   *)
(* all others if that is in front of the first.                            *)
LEMMA LinkRing ==
    ASSUME NEW l \in LinkType, NEW o \in OnType, Sound(l, o), NEW q \in Queue \cup {Run},
           NEW s, Ring(l.next, o, q, s), NEW x \in TH, o[x] = None,
           NEW j, NEW y, InFrontAt(s, j, y)
    PROVE  Ring(LinkBefore(l, x, y).next, [o EXCEPT ![x] = q], q, InsertAt(s, j, x))
<1> DEFINE n == Len(s)
           r == InsertAt(s, j, x)
           m == LinkBefore(l, x, y)
           w == [o EXCEPT ![x] = q]
<1>0. \A i \in 1..n : s[i] \in TH /\ o[s[i]] = q /\ l.next[s[i]] = s[Behind(i, n)] /\ l.prev[s[Behind(i, n)]] = s[i]
  BY RingLinks
<1>1. s \in Seq(TH) /\ Distinct(s) /\ x \notin On(s) /\ q # None
  BY RingAssumption DEF Ring
<1>2. n \in Nat \ {0} /\ DOMAIN s = 1..n
  BY <1>1, OnMember, EmptySeq DEF InFrontAt
<1>3. j \in 1..(n + 1) /\ j \in 2..(n + 1) /\ y = IF j = n + 1 THEN s[1] ELSE s[j]
  BY <1>2 DEF InFrontAt
<1>4. r \in Seq(TH) /\ Distinct(r) /\ On(r) = On(s) \cup {x} /\ r # << >>
  BY <1>1, <1>3, InsertLinks
<1>5. Len(r) = n + 1 /\ \A i \in 1..(n + 1) : r[i] = IF i < j THEN s[i] ELSE IF i = j THEN x ELSE s[i - 1]
  BY <1>1, <1>3, InsertShape
<1>6. On(r) = {t \in TH : w[t] = q}
  BY <1>1, <1>4 DEF Ring, OnType
<1> HIDE DEF r, n
<1>7. j - 1 \in 1..n /\ y = s[Behind(j - 1, n)]
  <2>1. j - 1 \in 1..n /\ Behind(j - 1, n) = IF j = n + 1 THEN 1 ELSE j
    BY <1>2, <1>3 DEF Behind
  <2>2. QED BY <1>3, <2>1
<1>8. y \in TH /\ l.prev[y] = s[j - 1] /\ s[j - 1] \in TH /\ s[j - 1] # x
  <2>1. Behind(j - 1, n) \in 1..n
    BY <1>2, <1>7 DEF Behind
  <2>2. QED BY <1>0, <1>1, <1>7, <2>1 DEF OnType
<1>9. \A t \in TH : m.next[t] = IF t = s[j - 1] THEN x ELSE IF t = x THEN y ELSE l.next[t]
  BY <1>8 DEF LinkBefore, LinkType
<1>10. ASSUME NEW i \in 1..(n + 1) PROVE m.next[r[i]] = r[Behind(i, n + 1)]
  <2>1. CASE i = j
    <3>1. m.next[r[i]] = s[Behind(j - 1, n)]
      BY <1>5, <1>7, <1>8, <1>9, <2>1
    <3>2. CASE j = n + 1
      <4>1. Behind(i, n + 1) = 1 /\ Behind(j - 1, n) = 1 /\ r[1] = s[1]
        BY <1>2, <1>5, <1>7, <2>1, <3>2 DEF Behind
      <4>2. QED BY <3>1, <4>1
    <3>3. CASE j # n + 1
      <4>1. Behind(i, n + 1) = j + 1 /\ Behind(j - 1, n) = j /\ j + 1 \in 1..(n + 1)
        BY <1>2, <1>3, <1>7, <2>1, <3>3 DEF Behind
      <4>2. r[j + 1] = s[j]
        BY <1>2, <1>3, <1>5, <4>1
      <4>3. QED BY <3>1, <4>1, <4>2
    <3>4. QED BY <3>2, <3>3
  <2>2. CASE i # j
    <3> DEFINE c == IF i < j THEN i ELSE i - 1
    <3>1. c \in 1..n /\ r[i] = s[c] /\ c \in Int
      BY <1>2, <1>5, <2>2, <1>3
    <3>2. s[c] \in TH /\ s[c] # x /\ l.next[s[c]] = s[Behind(c, n)]
      BY <1>0, <1>1, <3>1, OnMember DEF OnType
    <3>3. s[c] = s[j - 1] <=> c = j - 1
      BY <1>1, <1>2, <1>7, <3>1 DEF Distinct
    <3>4. CASE c = j - 1
      <4>1. i = j - 1
        BY <1>2, <1>3, <2>2, <3>4
      <4>2. m.next[r[i]] = x
        BY <1>8, <1>9, <3>1, <3>4
      <4>3. Behind(i, n + 1) = j /\ r[j] = x
        BY <1>2, <1>3, <1>5, <4>1 DEF Behind
      <4>4. QED BY <4>2, <4>3
    <3>5. CASE c # j - 1
      <4>1. m.next[r[i]] = s[Behind(c, n)]
        BY <1>9, <3>1, <3>2, <3>3, <3>5
      <4>2. Behind(c, n) \in 1..n /\ Behind(i, n + 1) \in 1..(n + 1)
        BY <1>2, <3>1 DEF Behind
      <4>3. r[Behind(i, n + 1)] = s[Behind(c, n)]
        <5>1. CASE i = n + 1
          BY <1>2, <1>3, <1>5, <2>2, <5>1 DEF Behind
        <5>2. CASE i # n + 1 /\ i < j
          <6>1. i + 1 < j /\ Behind(i, n + 1) = i + 1 /\ c = i /\ i # n
            BY <1>2, <1>3, <3>5, <5>2 DEF Behind
          <6>2. QED BY <1>5, <4>2, <6>1 DEF Behind
        <5>3. CASE i # n + 1 /\ i > j
          <6>1. Behind(i, n + 1) = i + 1 /\ i + 1 > j /\ c = i - 1 /\ Behind(c, n) = i
            BY <1>2, <1>3, <5>3 DEF Behind
          <6>2. QED BY <1>2, <1>3, <1>5, <4>2, <6>1
        <5>4. QED BY <1>3, <2>2, <5>1, <5>2, <5>3
      <4>4. QED BY <4>1, <4>3
    <3>6. QED BY <3>4, <3>5
  <2>3. QED BY <2>1, <2>2
<1>11. \A i \in 1..Len(r) : m.next[r[i]] = r[Behind(i, Len(r))]
  BY <1>5, <1>10
<1> HIDE DEF m, w
<1>13. Ring(m.next, w, q, r)
  BY <1>4, <1>6, <1>11 DEF Ring
<1>14. QED BY <1>13 DEF r, m, w

LEMMA LinkOthers ==
    ASSUME NEW l \in LinkType, NEW o \in OnType, Sound(l, o), NEW q \in Queue \cup {Run},
           NEW s, Ring(l.next, o, q, s), NEW x \in TH, o[x] = None,
           NEW y \in TH, o[y] # q, o[y] # None
    PROVE  Ring(LinkBefore(l, x, y).next, [o EXCEPT ![x] = o[y]], q, s)
<1>1. q # None
  BY RingAssumption
<1>2. l.prev[y] \in TH /\ o[l.prev[y]] = o[y]
  BY DEF Sound
<1>3. {t \in TH : [o EXCEPT ![x] = o[y]][t] = q} = {t \in TH : o[t] = q}
  BY <1>1 DEF OnType
<1>4. ASSUME NEW i \in 1..Len(s) PROVE LinkBefore(l, x, y).next[s[i]] = l.next[s[i]]
  <2>1. s[i] \in TH /\ o[s[i]] = q
    BY RingMembers
  <2>2. s[i] # x /\ s[i] # l.prev[y]
    BY <1>1, <1>2, <2>1
  <2>3. QED BY <1>2, <2>1, <2>2 DEF LinkBefore, LinkType
<1>5. QED BY <1>3, <1>4 DEF Ring

LEMMA AloneRing ==
    ASSUME NEW l \in LinkType, NEW o \in OnType, NEW q \in Queue \cup {Run},
           NEW x \in TH, o[x] = None, {t \in TH : o[t] = q} = {}
    PROVE  /\ Ring(LinkAlone(l, x).next, [o EXCEPT ![x] = q], q, <<x>>)
           /\ \A k \in (Queue \cup {Run}) \ {q} : \A s : Ring(l.next, o, k, s) =>
                 Ring(LinkAlone(l, x).next, [o EXCEPT ![x] = q], k, s)
<1> DEFINE m == LinkAlone(l, x)
           w == [o EXCEPT ![x] = q]
<1>1. \A t \in TH : m.next[t] = (IF t = x THEN x ELSE l.next[t]) /\ w[t] = (IF t = x THEN q ELSE o[t])
  BY DEF LinkAlone, LinkType, OnType
<1>2. <<x>> \in Seq(TH) /\ Len(<<x>>) = 1 /\ <<x>>[1] = x /\ DOMAIN <<x>> = 1..1
  OBVIOUS
<1> HIDE DEF m, w
<1>3. Ring(m.next, w, q, <<x>>)
  <2>1. On(<<x>>) = {x}
    BY <1>2 DEF On, ToSet
  <2>2. {t \in TH : w[t] = q} = {x}
    BY <1>1
  <2>3. QED BY <1>1, <1>2, <2>1, <2>2 DEF Ring, Distinct, Behind
<1>4. ASSUME NEW k \in (Queue \cup {Run}) \ {q}, NEW s, Ring(l.next, o, k, s)
      PROVE  Ring(m.next, w, k, s)
  <2>1. k # None
    BY RingAssumption
  <2>2. {t \in TH : w[t] = k} = {t \in TH : o[t] = k}
    BY <1>1, <2>1
  <2>3. \A i \in 1..Len(s) : s[i] \in TH /\ s[i] # x
    BY <1>4, <2>1, RingMembers
  <2>4. QED BY <1>1, <1>4, <2>2, <2>3 DEF Ring
<1>5. QED BY <1>3, <1>4 DEF m, w

(* A run queue without its first member, NullTH, is what the scheduler sees.*)
LEMMA TailOfInsert ==
    ASSUME NEW S, NEW s \in Seq(S), s # << >>, NEW x \in S, NEW j \in 2..(Len(s) + 1)
    PROVE  Tail(InsertAt(s, j, x)) = InsertAt(Tail(s), j - 1, x)
<1>1. PICK n \in Nat \ {0}, t \in Seq(S) :
        /\ n = Len(s) /\ t = Tail(s) /\ Len(t) = n - 1 /\ \A i \in 1..(n - 1) : t[i] = s[i + 1]
  <2>1. /\ Len(s) \in Nat \ {0} /\ DOMAIN s = 1..Len(s) /\ Tail(s) \in Seq(S) /\ Len(Tail(s)) = Len(s) - 1
        /\ \A i \in 1..Len(Tail(s)) : Tail(s)[i] = s[i + 1]
    BY HeadTailProperties, EmptySeq, LenProperties
  <2>2. PICK t \in Seq(S) : t = Tail(s) /\ Len(t) = Len(s) - 1 /\ \A i \in 1..Len(t) : t[i] = s[i + 1]
    BY <2>1, ZenonT(60)
  <2>3. PICK n \in Nat \ {0} : n = Len(s)
    BY <2>1
  <2>4. QED BY <2>1, <2>2, <2>3, ZenonT(60)
<1>2. PICK k \in 1..n : k = j - 1 /\ k \in 1..(Len(t) + 1) /\ j \in 1..(Len(s) + 1) /\ j = k + 1
  BY <1>1
<1>3. PICK a \in Seq(S) :
        /\ a = InsertAt(s, j, x) /\ Len(a) = n + 1
        /\ \A i \in 1..(n + 1) : a[i] = IF i < j THEN s[i] ELSE IF i = j THEN x ELSE s[i - 1]
  <2>1. /\ InsertAt(s, j, x) \in Seq(S) /\ Len(InsertAt(s, j, x)) = Len(s) + 1
        /\ \A i \in 1..(Len(s) + 1) : InsertAt(s, j, x)[i] = IF i < j THEN s[i] ELSE IF i = j THEN x ELSE s[i - 1]
    BY <1>2, InsertShape
  <2>2. PICK a \in Seq(S) : a = InsertAt(s, j, x) /\ Len(a) = Len(s) + 1
          /\ \A i \in 1..(Len(s) + 1) : a[i] = IF i < j THEN s[i] ELSE IF i = j THEN x ELSE s[i - 1]
    BY <2>1
  <2>3. QED BY <1>1, <2>2
<1>4. PICK b \in Seq(S) :
        /\ b = InsertAt(t, k, x) /\ Len(b) = Len(t) + 1
        /\ \A i \in 1..(Len(t) + 1) : b[i] = IF i < k THEN t[i] ELSE IF i = k THEN x ELSE t[i - 1]
  <2>1. /\ InsertAt(t, k, x) \in Seq(S) /\ Len(InsertAt(t, k, x)) = Len(t) + 1
        /\ \A i \in 1..(Len(t) + 1) : InsertAt(t, k, x)[i] = IF i < k THEN t[i] ELSE IF i = k THEN x ELSE t[i - 1]
    <3>1. k \in 1..(Len(t) + 1)
      BY <1>2
    <3>2. QED BY ONLY <3>1, InsertShape, t \in Seq(S), x \in S
  <2>2. QED BY <2>1
<1>5. PICK c \in Seq(S) : c = Tail(a) /\ Len(c) = n /\ \A i \in 1..n : c[i] = a[i + 1]
  <2>1. a # << >>
    BY <1>1, <1>3, EmptySeq
  <2>2. /\ Tail(a) \in Seq(S) /\ Len(Tail(a)) = Len(a) - 1
        /\ \A i \in 1..Len(Tail(a)) : Tail(a)[i] = a[i + 1]
    BY <2>1, HeadTailProperties
  <2>3. PICK c \in Seq(S) : c = Tail(a) /\ Len(c) = Len(a) - 1 /\ \A i \in 1..Len(c) : c[i] = a[i + 1]
    BY <2>2
  <2>4. Len(a) - 1 = n
    BY <1>1, <1>3
  <2>5. QED BY <2>3, <2>4
<1>6. ASSUME NEW i \in 1..n PROVE c[i] = b[i]
  <2>1. c[i] = IF i < k THEN s[i + 1] ELSE IF i = k THEN x ELSE s[i]
    BY <1>1, <1>2, <1>3, <1>5
  <2>2. b[i] = IF i < k THEN t[i] ELSE IF i = k THEN x ELSE t[i - 1]
    BY <1>1, <1>4
  <2>3. i < k => t[i] = s[i + 1]
    BY <1>1, <1>2
  <2>4. i > k => t[i - 1] = s[i]
    <3>1. i > k => i - 1 \in 1..(n - 1) /\ (i - 1) + 1 = i
      BY <1>2
    <3>2. QED BY <1>1, <3>1
  <2>5. QED BY <2>1, <2>2, <2>3, <2>4
<1>7. c = b
  BY <1>1, <1>4, <1>5, <1>6, SeqEqual
<1>8. QED BY <1>1, <1>2, <1>3, <1>4, <1>5, <1>7, SMTT(40)

LEMMA TailOfWithout ==
    ASSUME NEW S, NEW s \in Seq(S), s # << >>, Distinct(s), NEW x \in On(s), x # s[1]
    PROVE  x \in On(Tail(s)) /\ Tail(Without(s, x)) = Without(Tail(s), x)
<1>1. PICK n \in Nat \ {0}, t \in Seq(S) :
        /\ n = Len(s) /\ DOMAIN s = 1..n
        /\ t = Tail(s) /\ Len(t) = n - 1 /\ \A i \in 1..(n - 1) : t[i] = s[i + 1]
  <2>1. /\ Len(s) \in Nat \ {0} /\ DOMAIN s = 1..Len(s) /\ Tail(s) \in Seq(S) /\ Len(Tail(s)) = Len(s) - 1
        /\ \A i \in 1..Len(Tail(s)) : Tail(s)[i] = s[i + 1]
    BY HeadTailProperties, EmptySeq, LenProperties
  <2>2. PICK t \in Seq(S) : t = Tail(s) /\ Len(t) = Len(s) - 1 /\ \A i \in 1..Len(t) : t[i] = s[i + 1]
    BY <2>1, ZenonT(60)
  <2>3. PICK n \in Nat \ {0} : n = Len(s)
    BY <2>1
  <2>4. QED BY <2>1, <2>2, <2>3, ZenonT(60)
<1>2. x \in On(t)
  BY <1>1, TailUnlinks, HeadTailProperties
<1>3. PICK k \in 1..n, a \in Seq(S) :
        /\ s[k] = x /\ a = Without(s, x) /\ Len(a) = n - 1
        /\ \A i \in 1..(n - 1) : a[i] = IF i < k THEN s[i] ELSE s[i + 1]
  BY <1>1, WithoutShape
<1>4. PICK h \in 1..Len(t), b \in Seq(S) :
        /\ t[h] = x /\ b = Without(t, x) /\ Len(b) = Len(t) - 1
        /\ \A i \in 1..(Len(t) - 1) : b[i] = IF i < h THEN t[i] ELSE t[i + 1]
  BY <1>2, WithoutShape
<1>5. k = h + 1 /\ h \in 1..(n - 1)
  <2>1. h + 1 \in 1..n /\ s[h + 1] = x
    BY <1>1, <1>4
  <2>2. QED BY <1>1, <1>3, <1>4, <2>1, ZenonT(60) DEF Distinct
<1>6. PICK c \in Seq(S) : c = Tail(a) /\ Len(c) = n - 2 /\ \A i \in 1..(n - 2) : c[i] = a[i + 1]
  <2>1. a # << >>
    BY <1>3, <1>5, EmptySeq
  <2>2. /\ Tail(a) \in Seq(S) /\ Len(Tail(a)) = Len(a) - 1
        /\ \A i \in 1..Len(Tail(a)) : Tail(a)[i] = a[i + 1]
    BY <2>1, HeadTailProperties
  <2>3. PICK c \in Seq(S) : c = Tail(a) /\ Len(c) = Len(a) - 1 /\ \A i \in 1..Len(c) : c[i] = a[i + 1]
    BY <2>2
  <2>4. Len(a) - 1 = n - 2
    BY <1>1, <1>3
  <2>5. QED BY <2>3, <2>4
<1>7. ASSUME NEW i \in 1..(n - 2) PROVE c[i] = b[i]
  <2>1. c[i] = IF i + 1 < k THEN s[i + 1] ELSE s[(i + 1) + 1]
    BY <1>1, <1>3, <1>6
  <2>2. b[i] = IF i < h THEN t[i] ELSE t[i + 1]
    <3>1. i \in 1..(Len(t) - 1)
      BY <1>1
    <3>2. QED BY <1>4, <3>1
  <2>3. t[i] = s[i + 1] /\ t[i + 1] = s[(i + 1) + 1]
    BY <1>1
  <2>4. i + 1 < k <=> i < h
    BY <1>5
  <2>5. QED BY <2>1, <2>2, <2>3, <2>4
<1>8. Len(b) = n - 2
  BY <1>1, <1>4
<1>9. c = b
  BY <1>6, <1>7, <1>8, SeqEqual
<1>10. QED BY <1>1, <1>2, <1>3, <1>4, <1>6, <1>9

LEMMA InsertLast ==
    ASSUME NEW S, NEW s \in Seq(S), NEW x \in S
    PROVE  InsertAt(s, Len(s) + 1, x) = Append(s, x)
<1> DEFINE a == InsertAt(s, Len(s) + 1, x)
           b == Append(s, x)
<1>1. Len(s) \in Nat /\ Len(s) + 1 \in 1..(Len(s) + 1)
  BY OnMember
<1>2. /\ a \in Seq(S) /\ Len(a) = Len(s) + 1
      /\ \A i \in 1..(Len(s) + 1) : a[i] = IF i < Len(s) + 1 THEN s[i] ELSE IF i = Len(s) + 1 THEN x ELSE s[i - 1]
  BY <1>1, InsertShape, SMTT(40)
<1>3. /\ b \in Seq(S) /\ Len(b) = Len(s) + 1 /\ b[Len(s) + 1] = x
      /\ \A i \in 1..Len(s) : b[i] = s[i]
  BY AppendProperties
<1> HIDE DEF a, b
<1>4. \A i \in 1..(Len(s) + 1) : a[i] = b[i]
  BY <1>1, <1>2, <1>3
<1>5. a = b
  BY <1>2, <1>3, <1>4, SeqEqual
<1>6. QED BY <1>5 DEF a, b

-----------------------------------------------------------------------------
(***************************************************************************)
(* RingList implements ThreadLists.                                        *)
(***************************************************************************)

RunIs(nx, o, s) == Ring(nx, o, Run, s) /\ s # << >> /\ s[1] = NullTH
WaitIs(nx, o, h, q, s) ==
    Ring(nx, o, q, s) /\ IF h = None THEN s = << >> ELSE s # << >> /\ s[1] = h

LEMMA WalksAre ==
    ASSUME NEW nx, NEW o, NEW s
    PROVE  /\ RunIs(nx, o, s) => Walk(nx, NullTH) = s
           /\ \A h, q : WaitIs(nx, o, h, q, s) => WaitOf(nx, h) = s
<1>1. ASSUME NEW q, Ring(nx, o, q, s), s # << >> PROVE Walk(nx, s[1]) = s
  BY <1>1, WalkIs DEF Ring
<1>2. QED BY <1>1 DEF RunIs, WaitIs, WaitOf

LEMMA RunTail ==
    ASSUME NEW nx, NEW o, NEW s, RunIs(nx, o, s)
    PROVE  Tail(s) \in Seq(Thread) /\ Distinct(Tail(s)) /\ On(Tail(s)) = {t \in Thread : o[t] = Run}
<1>1. s \in Seq(TH) /\ Distinct(s) /\ s # << >> /\ Head(s) = NullTH /\ On(s) = {t \in TH : o[t] = Run}
  BY HeadTailProperties DEF RunIs, Ring
<1>2. Tail(s) \in Seq(TH) /\ Distinct(Tail(s)) /\ On(Tail(s)) = On(s) \ {NullTH}
  BY <1>1, TailUnlinks
<1>3. On(Tail(s)) = {t \in Thread : o[t] = Run}
  BY <1>1, <1>2, RingAssumption DEF TH
<1>4. \A i \in 1..Len(Tail(s)) : Tail(s)[i] \in Thread
  BY <1>2, <1>3, OnMember
<1>5. Tail(s) \in Seq(Thread)
  <2>1. PICK t \in Seq(TH) : t = Tail(s) /\ \A i \in 1..Len(t) : t[i] \in Thread
    BY <1>2, <1>4
  <2>2. t \in [1..Len(t) -> Thread] /\ Len(t) \in Nat
    BY <2>1, LenProperties
  <2>3. t \in Seq(Thread)
    BY <2>2
  <2>4. QED BY <2>1, <2>3
<1>6. QED BY <1>2, <1>3, <1>5

(* reSched2 finds the place at which Enlist puts a thread.                 *)
LEMMA PlaceFound ==
    ASSUME NEW t \in Seq(Thread), NEW f \in [Thread -> Int], SortedBy(t, f), NEW x \in Thread,
           NEW k \in 0..Len(t), k > 0 => f[t[k]] >= f[x], k < Len(t) => ~ (f[t[k + 1]] >= f[x])
    PROVE  Enlist(t, f, x) = InsertAt(t, k + 1, x)
<1> DEFINE c == Cardinality(Better(t, f, x))
<1>1. Len(t) \in Nat /\ DOMAIN t = 1..Len(t)
  BY OnMember
<1>2. c \in 0..Len(t) /\ Better(t, f, x) = 1..c
  BY BetterInFront
<1>3. Enlist(t, f, x) = InsertAt(t, c + 1, x)
  BY DEF Enlist, Better
<1> HIDE DEF c
<1>4. \A i \in 1..Len(t) : f[t[i]] >= f[x] <=> i \in 1..c
  BY <1>1, <1>2 DEF Better
<1>5. k <= c
  <2>1. k > 0 => k \in 1..Len(t)
    BY <1>1
  <2>2. k > 0 => k \in 1..c
    BY <1>4, <2>1
  <2>3. QED BY <1>1, <1>2, <2>2
<1>6. c <= k
  <2>1. k < Len(t) => k + 1 \in 1..Len(t) /\ k + 1 \notin 1..c
    BY <1>1, <1>4
  <2>2. QED BY <1>1, <1>2, <2>1
<1>7. c = k
  BY <1>1, <1>2, <1>5, <1>6
<1>8. QED BY <1>3, <1>7

LEMMA ReSchedRings ==
    ASSUME RInv, NEW x \in Thread, NEW r \in Rank, NEW l \in LinkType,
           NEW o \in OnType, o = [on EXCEPT ![x] = None], Sound(l, o), on[x] # Run,
           NEW s, RunIs(l.next, o, s), SortedBy(Tail(s), rank), ReSched(l, x, r)
    PROVE  /\ \E a : /\ RunIs(next', on', a) /\ Tail(a) = Enlist(Tail(s), rank', x)
                     /\ SortedBy(Tail(a), rank')
           /\ \A q \in Queue : \A w : Ring(l.next, o, q, w) => Ring(next', on', q, w)
<1>1. PICK y \in TH : InsertPoint(l, y, r) /\ SetLinks(LinkBefore(l, x, y))
  BY DEF ReSched
<1>2. /\ x \in TH /\ x # NullTH /\ o[x] = None /\ on' = [o EXCEPT ![x] = Run] /\ on \in OnType
      /\ next' = LinkBefore(l, x, y).next /\ Run # None
  BY <1>1, RingAssumption DEF ReSched, SetLinks, RInv, TypeOK, TH, OnType
<1>3. o[y] = Run /\ y # x
  BY <1>1, <1>2, SMTT(40) DEF InsertPoint, OnType
<1>4. PICK n \in Nat \ {0}, t \in Seq(Thread) :
         /\ n = Len(s) /\ t = Tail(s) /\ Len(t) = n - 1 /\ \A i \in 1..(n - 1) : t[i] = s[i + 1]
         /\ On(t) = {u \in Thread : o[u] = Run}
  <2>1. s \in Seq(TH) /\ s # << >>
    BY DEF RunIs, Ring
  <2>2. /\ Len(s) \in Nat \ {0} /\ Len(Tail(s)) = Len(s) - 1
        /\ \A i \in 1..Len(Tail(s)) : Tail(s)[i] = s[i + 1]
    BY <2>1, HeadTailProperties, EmptySeq, SMTT(40)
  <2>3. PICK t \in Seq(Thread) :
          /\ t = Tail(s) /\ Len(t) = Len(s) - 1 /\ \A i \in 1..Len(t) : t[i] = s[i + 1]
          /\ On(t) = {u \in Thread : o[u] = Run}
    <3>1. Tail(s) \in Seq(Thread) /\ On(Tail(s)) = {u \in Thread : o[u] = Run}
      BY RunTail
    <3>2. QED BY <2>2, <3>1
  <2>4. PICK n \in Nat \ {0} : n = Len(s)
    BY <2>2
  <2>5. QED BY <2>3, <2>4
<1>5. PICK i \in 1..n : s[i] = y
  <2>1. s \in Seq(TH) /\ y \in On(s)
    BY <1>3 DEF RunIs, Ring
  <2>2. QED BY <1>4, <2>1, OnMember
<1>6. PICK j \in 2..(n + 1) : j = (IF i = 1 THEN n + 1 ELSE i) /\ y = IF j = n + 1 THEN s[1] ELSE s[j]
  BY <1>4, <1>5
<1>7. PICK a : a = InsertAt(s, j, x)
  OBVIOUS
<1>8. /\ Ring(LinkBefore(l, x, y).next, [o EXCEPT ![x] = Run], Run, a)
      /\ l.prev[y] = s[j - 1] /\ a[1] = s[1] /\ a # << >>
  <2>1. Ring(l.next, o, Run, s) /\ s # << >> /\ Run \in Queue \cup {Run}
    BY DEF RunIs
  <2>2. InFrontAt(s, j, y)
    BY <1>4, <1>6, <2>1 DEF InFrontAt
  <2>3. PICK q \in Queue \cup {Run} : q = Run /\ Ring(l.next, o, q, s)
    BY <2>1
  <2>4. Ring(LinkBefore(l, x, y).next, [o EXCEPT ![x] = q], q, InsertAt(s, j, x))
    BY <1>2, <2>2, <2>3, LinkRing
  <2>5. PlaceIs(l, o, q, s, j, y)
    BY <2>2, <2>3, InFrontIs
  <2>6. InsertAt(s, j, x)[1] = s[1] /\ InsertAt(s, j, x) # << >>
    BY <1>2, <2>1, <2>2, FirstStays DEF Ring
  <2>7. QED BY <1>7, <2>3, <2>4, <2>5, <2>6 DEF PlaceIs
<1>9. RunIs(next', on', a)
  BY <1>2, <1>8 DEF RunIs
<1>10. Tail(a) = InsertAt(t, j - 1, x)
  <2>1. s \in Seq(TH) /\ s # << >> /\ j \in 2..(Len(s) + 1)
    BY <1>4 DEF RunIs, Ring
  <2>2. QED BY <1>2, <1>4, <1>7, <2>1, TailOfInsert
<1>11. /\ rank' \in [Thread -> Int] /\ rank'[x] = r /\ r \in Int
       /\ \A u \in Thread \ {x} : rank'[u] = rank[u]
  <2>1. rank \in [Thread -> Int] /\ r \in Int
    <3>1. rank \in [Thread -> Rank]
      BY DEF RInv, TypeOK
    <3>2. Rank \subseteq Int
      BY RingAssumption
    <3>3. QED BY <3>1, <3>2
  <2>2. QED BY <2>1 DEF ReSched
<1>12. \A u \in On(t) : u \in Thread /\ u # x
  BY <1>2, <1>4
<1>13. SortedBy(t, rank')
  <2>1. \A u \in On(t) : rank[u] = rank'[u]
    BY <1>11, <1>12
  <2>2. SortedBy(t, rank)
    BY <1>4
  <2>3. QED BY <2>1, <2>2, SortedSame
<1>14. Enlist(t, rank', x) = InsertAt(t, j - 1, x)
  <2>1. PICK k \in 0..Len(t) : k = j - 2 /\ j = k + 2 /\ j - 1 = k + 1
    BY <1>4
  <2>2. ASSUME k > 0 PROVE rank'[t[k]] >= rank'[x]
    <3>1. k \in 1..(n - 1) /\ t[k] = s[j - 1]
      BY <1>4, <2>1, <2>2
    <3>2. t[k] \in On(t)
      BY <1>4, <3>1, OnMember
    <3>3. t[k] # NullTH
      BY <1>12, <3>2, RingAssumption
    <3>4. rank[t[k]] >= r
      BY <1>1, <1>8, <3>1, <3>3 DEF InsertPoint, Passed
    <3>5. QED BY <1>11, <1>12, <3>2, <3>4
  <2>3. ASSUME k < Len(t) PROVE ~ (rank'[t[k + 1]] >= rank'[x])
    <3>1. k + 1 \in 1..(n - 1) /\ t[k + 1] = s[j] /\ j # n + 1
      BY <1>4, <2>1, <2>3
    <3>2. t[k + 1] \in On(t) /\ t[k + 1] = y
      <4>1. t[k + 1] = y
        BY <1>4, <1>6, <3>1
      <4>2. k + 1 \in 1..Len(t)
        BY <1>4, <3>1
      <4>3. QED BY <4>1, <4>2, OnMember
    <3>3. y # NullTH
      BY <1>12, <3>2, RingAssumption
    <3>4. ~ (rank[y] >= r)
      BY <1>1, <3>3 DEF InsertPoint, Passed
    <3>5. QED BY <1>11, <1>12, <3>2, <3>4
  <2>4. PICK f \in [Thread -> Int] : f = rank'
    BY <1>11
  <2>5. Enlist(t, f, x) = InsertAt(t, k + 1, x)
    BY <1>13, <2>2, <2>3, <2>4, PlaceFound
  <2>6. QED BY <2>1, <2>4, <2>5
<1>15. SortedBy(Tail(a), rank')
  <2>1. PICK f \in [Thread -> Int] : f = rank'
    BY <1>11
  <2>2. SortedBy(Enlist(t, f, x), f)
    BY <1>13, <2>1, EnlistSorted
  <2>3. QED BY <1>10, <1>14, <2>1, <2>2
<1>16. ASSUME NEW q \in Queue, NEW w, Ring(l.next, o, q, w) PROVE Ring(next', on', q, w)
  <2>1. q \in Queue \cup {Run} /\ o[y] # q /\ o[y] # None
    BY <1>2, <1>3, RingAssumption
  <2>2. Ring(LinkBefore(l, x, y).next, [o EXCEPT ![x] = o[y]], q, w)
    BY <1>2, <1>16, <2>1, LinkOthers
  <2>3. QED BY <1>2, <1>3, <2>2
<1>17. QED BY <1>4, <1>9, <1>10, <1>14, <1>15, <1>16

(* The links lead round the run queue, in order of rank, and round each     *)
(* blocking queue from its head.                                           *)
ListsInv ==
    /\ RInv
    /\ RunIs(next, on, Walk(next, NullTH)) /\ SortedBy(RunQ, rank)
    /\ \A q \in Queue : WaitIs(next, on, head[q], q, WaitQ[q])

LEMMA ListsNow ==
    ASSUME RInv', NEW a, RunIs(next', on', a), SortedBy(Tail(a), rank'),
           NEW f, \A q \in Queue : WaitIs(next', on', head'[q], q, f[q])
    PROVE  ListsInv' /\ RunQ' = Tail(a) /\ WaitQ' = [q \in Queue |-> f[q]]
<1>1. Walk(next', NullTH) = a
  BY WalksAre
<1>2. \A q \in Queue : WaitOf(next', head'[q]) = f[q]
  BY WalksAre
<1>3. WaitQ' = [q \in Queue |-> f[q]] /\ \A q \in Queue : WaitQ'[q] = f[q]
  BY <1>2 DEF WaitQ
<1>4. RunQ' = Tail(a)
  BY <1>1 DEF RunQ
<1>5. QED BY <1>1, <1>3, <1>4 DEF ListsInv

(* Which threads the lists hold.                                           *)
LEMMA ListsHold ==
    ASSUME ListsInv
    PROVE  /\ \A t \in Thread : on[t] = Run <=> t \in On(RunQ)
           /\ \A t \in Thread, q \in Queue : on[t] = q <=> t \in On(WaitQ[q])
<1>1. On(RunQ) = {t \in Thread : on[t] = Run}
  BY RunTail DEF ListsInv, RunQ
<1>2. \A q \in Queue : On(WaitQ[q]) = {t \in TH : on[t] = q}
  BY DEF ListsInv, WaitIs, Ring
<1>3. QED BY <1>1, <1>2 DEF TH

(* ThreadLists' copy of Queues is Queues.                                  *)
LEMMA SameQueues ==
    /\ \A s : Lists!On(s) = On(s)
    /\ \A s, t : Lists!Without(s, t) = Without(s, t)
    /\ \A s, f, t : Lists!Enlist(s, f, t) = Enlist(s, f, t)
<1>1. \A s : Lists!On(s) = On(s)
  BY DEF On, ToSet, Lists!On, Lists!ToSet
<1>2. \A s, t : Lists!Without(s, t) = Without(s, t)
  BY DEF Without, Lists!Without, RemoveAt, Lists!RemoveAt
<1>3. \A s, f, t : Lists!Enlist(s, f, t) = Enlist(s, f, t)
  <2>1. \A S : Lists!Cardinality(S) = Cardinality(S)
    BY DEF Cardinality, Lists!Cardinality
  <2>2. \A s, k, t : Lists!InsertAt(s, k, t) = InsertAt(s, k, t)
    BY DEF InsertAt, Lists!InsertAt
  <2>3. QED BY <2>1, <2>2 DEF Enlist, Lists!Enlist
<1>4. QED BY <1>1, <1>2, <1>3

LEMMA StartLists ==
    ASSUME ListsInv, NEW x \in Thread, NEW r \in Rank, Start(x, r)
    PROVE  ListsInv' /\ Lists!Start(x, r)
<1>1. RInv /\ RInv'
  BY StartKeeps DEF ListsInv
<1>2. on[x] = None /\ on[x] # Run /\ [on EXCEPT ![x] = None] = on /\ head' = head /\ ReSched(Links, x, r)
  BY <1>1, RingAssumption DEF Start, RInv, TypeOK, TH
<1>3. PICK l \in LinkType : l = Links /\ l.next = next /\ Sound(l, on) /\ on \in OnType
  BY <1>1, InvSound DEF Links
<1>4. PICK s : s = Walk(next, NullTH) /\ RunIs(l.next, on, s) /\ SortedBy(Tail(s), rank) /\ RunQ = Tail(s)
  BY <1>3 DEF ListsInv, RunQ
<1>5. ReSched(l, x, r)
  BY <1>2, <1>3
<1>6. /\ \E a : /\ RunIs(next', on', a) /\ Tail(a) = Enlist(Tail(s), rank', x)
                /\ SortedBy(Tail(a), rank')
      /\ \A q \in Queue : \A w : Ring(l.next, on, q, w) => Ring(next', on', q, w)
  BY <1>1, <1>2, <1>3, <1>4, <1>5, ReSchedRings
<1>7. PICK a : RunIs(next', on', a) /\ Tail(a) = Enlist(RunQ, rank', x) /\ SortedBy(Tail(a), rank')
  BY <1>4, <1>6
<1>8. \A q \in Queue : WaitIs(next', on', head'[q], q, WaitQ[q])
  BY <1>2, <1>3, <1>6 DEF ListsInv, WaitIs
<1>9. ListsInv' /\ RunQ' = Tail(a) /\ WaitQ' = [q \in Queue |-> WaitQ[q]]
  BY <1>1, <1>7, <1>8, ListsNow
<1>10. WaitQ' = WaitQ
  BY <1>9 DEF WaitQ
<1>11. x \notin On(RunQ) /\ \A q \in Queue : x \notin On(WaitQ[q])
  BY <1>2, ListsHold, RingAssumption
<1>12. rank' = [rank EXCEPT ![x] = r]
  BY <1>2 DEF ReSched
<1>13. Lists!Start(x, r)
  BY <1>7, <1>9, <1>10, <1>11, <1>12, SameQueues DEF Lists!Start, Lists!Located
<1>14. QED BY <1>9, <1>13

(* What is left of the lists when a thread has been unlinked.              *)
LEMMA UnlinkLists ==
    ASSUME ListsInv, NEW x \in Thread, on[x] # None,
           NEW l \in LinkType, l = Unlink(Links, x), NEW o \in OnType, o = [on EXCEPT ![x] = None]
    PROVE  /\ Sound(l, o)
           /\ \A q \in Queue : on[x] # q => WaitIs(l.next, o, head[q], q, WaitQ[q])
           /\ \A q \in Queue : on[x] = q => WaitIs(l.next, o, HeadWithout(head[q], x), q, Without(WaitQ[q], x))
           /\ on[x] # Run => RunIs(l.next, o, Walk(next, NullTH))
           /\ on[x] = Run => \E a : RunIs(l.next, o, a) /\ Tail(a) = Without(RunQ, x) /\ SortedBy(Tail(a), rank)
<1>1. RInv /\ x \in TH /\ x # NullTH /\ on \in OnType /\ Run # None /\ \A q \in Queue : q # Run
  BY RingAssumption DEF ListsInv, RInv, TypeOK, TH, OnType
<1>2. PICK k \in LinkType : k = Links /\ k.next = next /\ Sound(k, on)
  BY <1>1, InvSound DEF Links
<1>3. Sound(l, o)
  BY <1>1, <1>2, UnlinkSound
<1>4. ASSUME NEW q \in Queue, on[x] # q PROVE WaitIs(l.next, o, head[q], q, WaitQ[q])
  <2>1. Ring(k.next, on, q, WaitQ[q])
    BY <1>2 DEF ListsInv, WaitIs
  <2>2. Ring(Unlink(k, x).next, [on EXCEPT ![x] = None], q, WaitQ[q])
    BY <1>1, <1>2, <1>4, <2>1, UnlinkOthers
  <2>3. QED BY <1>2, <2>2 DEF ListsInv, WaitIs
<1>5. ASSUME NEW q \in Queue, on[x] = q
      PROVE  WaitIs(l.next, o, HeadWithout(head[q], x), q, Without(WaitQ[q], x))
  <2>1. PICK w : w = WaitQ[q] /\ Ring(k.next, on, q, w) /\ WaitIs(next, on, head[q], q, w)
    BY <1>2 DEF ListsInv, WaitIs
  <2>2. Unlinked(k, on, q, w, x)
    BY <1>1, <1>2, <1>5, <2>1, UnlinkRing
  <2>3. head[q] # None /\ w[1] = head[q]
    <3>1. x \in On(w)
      BY <1>1, <1>5, <2>1 DEF Ring
    <3>2. w # << >>
      BY <3>1 DEF On, ToSet
    <3>3. QED BY <2>1, <3>2 DEF WaitIs
  <2>4. k.next[x] \in TH /\ None \notin TH
    BY <1>1, <1>2, RingAssumption DEF Sound, TH
  <2>5. QED BY <1>2, <2>1, <2>2, <2>3, <2>4 DEF WaitIs, HeadWithout, Unlinked
<1>6. ASSUME on[x] # Run PROVE RunIs(l.next, o, Walk(next, NullTH))
  <2>1. PICK s : s = Walk(next, NullTH) /\ RunIs(next, on, s)
    BY DEF ListsInv
  <2>2. PICK q \in Queue \cup {Run} : q = Run /\ Ring(k.next, on, q, s)
    BY <1>2, <2>1 DEF RunIs
  <2>3. Ring(Unlink(k, x).next, [on EXCEPT ![x] = None], q, s)
    BY <1>1, <1>2, <1>6, <2>2, UnlinkOthers
  <2>4. QED BY <1>2, <2>1, <2>2, <2>3 DEF RunIs
<1>7. ASSUME on[x] = Run
      PROVE  \E a : RunIs(l.next, o, a) /\ Tail(a) = Without(RunQ, x) /\ SortedBy(Tail(a), rank)
  <2>1. PICK s \in Seq(TH) : s = Walk(next, NullTH) /\ RunIs(next, on, s) /\ Distinct(s) /\ s # << >> /\ s[1] = NullTH /\ RunQ = Tail(s)
    BY DEF ListsInv, RunIs, Ring, RunQ
  <2>2. PICK q \in Queue \cup {Run} : q = Run /\ Ring(k.next, on, q, s)
    BY <1>2, <2>1 DEF RunIs
  <2>3. Unlinked(k, on, q, s, x)
    BY <1>1, <1>2, <1>7, <2>2, UnlinkRing
  <2>4. x \in On(s) /\ NullTH \in On(s)
    BY <1>1, <1>7, <2>2 DEF Ring, ListsInv, RInv, TypeOK, TH
  <2>5. Without(s, x) # << >>
    <3>1. NullTH \in On(Without(s, x))
      BY <1>1, <2>1, <2>4, WithoutUnlinks
    <3>2. QED BY <3>1 DEF On, ToSet
  <2>6. RunIs(l.next, o, Without(s, x))
    BY <1>1, <1>2, <2>1, <2>2, <2>3, <2>5 DEF RunIs, Unlinked
  <2>7. x \in On(Tail(s)) /\ Tail(Without(s, x)) = Without(RunQ, x)
    BY <1>1, <2>1, <2>4, TailOfWithout
  <2>8. SortedBy(Without(RunQ, x), rank)
    <3>1. PICK t \in Seq(Thread) : t = RunQ /\ x \in On(t)
      BY <2>1, <2>7, RunTail
    <3>2. SortedBy(t, rank)
      BY <3>1 DEF ListsInv
    <3>3. SortedBy(Without(t, x), rank)
      BY <3>1, <3>2, WithoutSorted
    <3>4. QED BY <3>1, <3>3
  <2>9. QED BY <2>6, <2>7, <2>8
<1>8. QED BY <1>3, <1>4, <1>5, <1>6, <1>7

LEMMA StopLists ==
    ASSUME ListsInv, NEW x \in Thread, Stop(x)
    PROVE  ListsInv' /\ Lists!Stop(x)
<1>1. RInv /\ RInv'
  BY StopKeeps DEF ListsInv
<1>2. /\ on[x] = Run /\ on[x] # None /\ on' = [on EXCEPT ![x] = None] /\ head' = head /\ rank' = rank
      /\ x \in TH /\ \A q \in Queue : on[x] # q
  BY RingAssumption DEF Stop, TH
<1>3. PICK l \in LinkType, o \in OnType : l = Unlink(Links, x) /\ o = [on EXCEPT ![x] = None] /\ next' = l.next
  <2>1. Unlink(Links, x) \in LinkType
    BY <1>1, <1>2, InvSound, UnlinkSound
  <2>2. [on EXCEPT ![x] = None] \in OnType
    BY <1>1 DEF RInv, TypeOK, OnType
  <2>3. next' = Unlink(Links, x).next
    BY DEF Stop, SetLinks
  <2>4. QED BY <2>1, <2>2, <2>3
<1>4. /\ \A q \in Queue : WaitIs(l.next, o, head[q], q, WaitQ[q])
      /\ \E a : RunIs(l.next, o, a) /\ Tail(a) = Without(RunQ, x) /\ SortedBy(Tail(a), rank)
  BY <1>2, <1>3, UnlinkLists
<1>5. PICK a : RunIs(next', on', a) /\ Tail(a) = Without(RunQ, x) /\ SortedBy(Tail(a), rank')
  BY <1>2, <1>3, <1>4
<1>6. ListsInv' /\ RunQ' = Tail(a) /\ WaitQ' = [q \in Queue |-> WaitQ[q]]
  <2>1. \A q \in Queue : WaitIs(next', on', head'[q], q, WaitQ[q])
    BY <1>2, <1>3, <1>4
  <2>2. QED BY <1>1, <1>5, <2>1, ListsNow
<1>7. WaitQ' = WaitQ
  BY <1>6 DEF WaitQ
<1>8. x \in On(RunQ)
  BY <1>2, ListsHold
<1>9. Lists!Stop(x)
  BY <1>2, <1>5, <1>6, <1>7, <1>8, SameQueues DEF Lists!Stop
<1>10. QED BY <1>6, <1>9

LEMMA WakeLists ==
    ASSUME ListsInv, NEW x \in Thread, NEW q \in Queue, NEW r \in Rank, Wake(x, q, r)
    PROVE  ListsInv' /\ Lists!Wake(x, q, r)
<1>1. RInv /\ RInv'
  BY WakeKeeps DEF ListsInv
<1>2. /\ on[x] = q /\ on[x] # None /\ on[x] # Run /\ x \in TH
      /\ head \in [Queue -> Thread \cup {None}] /\ head' = [head EXCEPT ![q] = HeadWithout(@, x)]
  BY <1>1, RingAssumption DEF Wake, RInv, TypeOK, TH
<1>3. PICK l \in LinkType, o \in OnType : l = Unlink(Links, x) /\ o = [on EXCEPT ![x] = None] /\ ReSched(l, x, r)
  <2>1. Unlink(Links, x) \in LinkType
    BY <1>1, <1>2, InvSound, UnlinkSound
  <2>2. [on EXCEPT ![x] = None] \in OnType
    BY <1>1 DEF RInv, TypeOK, OnType
  <2>3. ReSched(Unlink(Links, x), x, r)
    BY DEF Wake
  <2>4. QED BY <2>1, <2>2, <2>3
<1>4. /\ Sound(l, o)
      /\ \A k \in Queue \ {q} : WaitIs(l.next, o, head[k], k, WaitQ[k])
      /\ WaitIs(l.next, o, HeadWithout(head[q], x), q, Without(WaitQ[q], x))
      /\ RunIs(l.next, o, Walk(next, NullTH))
  BY <1>2, <1>3, UnlinkLists
<1>5. PICK s : s = Walk(next, NullTH) /\ RunIs(l.next, o, s) /\ SortedBy(Tail(s), rank) /\ RunQ = Tail(s)
  BY <1>4 DEF ListsInv, RunQ
<1>6. /\ \E a : /\ RunIs(next', on', a) /\ Tail(a) = Enlist(Tail(s), rank', x)
                /\ SortedBy(Tail(a), rank')
      /\ \A k \in Queue : \A w : Ring(l.next, o, k, w) => Ring(next', on', k, w)
  BY <1>1, <1>2, <1>3, <1>4, <1>5, ReSchedRings
<1>7. PICK a : RunIs(next', on', a) /\ Tail(a) = Enlist(RunQ, rank', x) /\ SortedBy(Tail(a), rank')
  BY <1>5, <1>6
<1>8. PICK f : f = [WaitQ EXCEPT ![q] = Without(@, x)]
  OBVIOUS
<1>9. /\ f[q] = Without(WaitQ[q], x) /\ \A k \in Queue \ {q} : f[k] = WaitQ[k]
      /\ f = [k \in Queue |-> f[k]]
  BY <1>8 DEF WaitQ
<1>10. \A k \in Queue : WaitIs(next', on', head'[k], k, f[k])
  <2>1. WaitIs(next', on', head'[q], q, f[q])
    BY <1>2, <1>4, <1>6, <1>9 DEF WaitIs
  <2>2. ASSUME NEW k \in Queue \ {q} PROVE WaitIs(next', on', head'[k], k, f[k])
    BY <1>2, <1>4, <1>6, <1>9 DEF WaitIs
  <2>3. QED BY <2>1, <2>2
<1>11. ListsInv' /\ RunQ' = Tail(a) /\ WaitQ' = [k \in Queue |-> f[k]]
  BY <1>1, <1>7, <1>10, ListsNow
<1>12. x \in On(WaitQ[q])
  BY <1>2, ListsHold
<1>13. rank' = [rank EXCEPT ![x] = r]
  BY <1>3 DEF ReSched
<1>14. Lists!Wake(x, q, r)
  BY <1>7, <1>8, <1>9, <1>11, <1>12, <1>13, SameQueues DEF Lists!Wake
<1>15. QED BY <1>11, <1>14

(* A blocked thread is linked in front of the head, which is behind all     *)
(* others; a thread alone becomes the head.                                *)
AddedLast(l, o, q, w, x) ==
    /\ WaitIs(next', [o EXCEPT ![x] = q], head'[q], q, Append(w, x))
    /\ \A k \in (Queue \cup {Run}) \ {q} : \A s :
          Ring(l.next, o, k, s) => Ring(next', [o EXCEPT ![x] = q], k, s)
    /\ \A k \in Queue \ {q} : head'[k] = head[k]

LEMMA AddLastRings ==
    ASSUME NEW l \in LinkType, NEW o \in OnType, Sound(l, o), NEW x \in Thread, o[x] = None,
           NEW q \in Queue, NEW w, WaitIs(l.next, o, head[q], q, w),
           head \in [Queue -> Thread \cup {None}], AddLast(l, q, x)
    PROVE  AddedLast(l, o, q, w, x)
<1>1. /\ x \in TH /\ x # None /\ q \in Queue \cup {Run} /\ q # None
      /\ Ring(l.next, o, q, w) /\ w \in Seq(TH)
  BY RingAssumption DEF TH, WaitIs, Ring
<1>2. CASE head[q] = None
  <2>1. w = << >> /\ On(w) = {t \in TH : o[t] = q} /\ head' = [head EXCEPT ![q] = x]
        /\ next' = LinkAlone(l, x).next
    BY <1>2 DEF WaitIs, Ring, AddLast, SetLinks
  <2>2. {t \in TH : o[t] = q} = {}
    BY <2>1 DEF On, ToSet
  <2>3. /\ Ring(next', [o EXCEPT ![x] = q], q, <<x>>)
        /\ \A k \in (Queue \cup {Run}) \ {q} : \A s :
              Ring(l.next, o, k, s) => Ring(next', [o EXCEPT ![x] = q], k, s)
    BY <1>1, <2>1, <2>2, AloneRing
  <2>4. Append(w, x) = <<x>> /\ <<x>> # << >> /\ <<x>>[1] = x
    BY <2>1
  <2>5. head'[q] = x /\ \A k \in Queue \ {q} : head'[k] = head[k]
    BY <2>1
  <2>6. WaitIs(next', [o EXCEPT ![x] = q], head'[q], q, Append(w, x))
    BY <1>1, <2>3, <2>4, <2>5 DEF WaitIs
  <2>7. QED BY <2>3, <2>5, <2>6 DEF AddedLast
<1>3. CASE head[q] # None
  <2>1. PICK y, j : y = head[q] /\ j = Len(w) + 1
    OBVIOUS
  <2>2. w # << >> /\ w[1] = y /\ head' = head /\ next' = LinkBefore(l, x, y).next
    BY <1>3, <2>1 DEF WaitIs, AddLast, SetLinks
  <2>3. InFrontAt(w, j, y)
    <3>1. Len(w) \in Nat \ {0}
      BY <1>1, <2>2, EmptySeq, OnMember
    <3>2. QED BY <2>1, <2>2, <3>1 DEF InFrontAt
  <2>4. Ring(LinkBefore(l, x, y).next, [o EXCEPT ![x] = q], q, InsertAt(w, j, x))
    BY <1>1, <2>3, LinkRing
  <2>5. InsertAt(w, j, x) = Append(w, x)
    BY <1>1, <2>1, InsertLast
  <2>6. InsertAt(w, j, x)[1] = w[1] /\ InsertAt(w, j, x) # << >>
    BY <1>1, <2>3, FirstStays
  <2>7. WaitIs(next', [o EXCEPT ![x] = q], head'[q], q, Append(w, x))
    BY <1>3, <2>1, <2>2, <2>4, <2>5, <2>6 DEF WaitIs
  <2>8. PlaceIs(l, o, q, w, j, y)
    BY <1>1, <2>3, InFrontIs
  <2>9. y \in TH /\ o[y] = q
    BY <2>8 DEF PlaceIs
  <2>10. ASSUME NEW k \in (Queue \cup {Run}) \ {q}, NEW s, Ring(l.next, o, k, s)
         PROVE  Ring(next', [o EXCEPT ![x] = q], k, s)
    <3>1. k \in Queue \cup {Run} /\ o[y] # k /\ o[y] # None
      BY <1>1, <2>9
    <3>2. Ring(LinkBefore(l, x, y).next, [o EXCEPT ![x] = o[y]], k, s)
      BY <1>1, <2>9, <2>10, <3>1, LinkOthers
    <3>3. QED BY <2>2, <2>9, <3>2
  <2>11. QED BY <2>2, <2>7, <2>10 DEF AddedLast
<1>4. QED BY <1>2, <1>3

LEMMA BlockLists ==
    ASSUME ListsInv, NEW x \in Thread, NEW q \in Queue, Block(x, q)
    PROVE  ListsInv' /\ Lists!Block(x, q)
<1>1. RInv /\ RInv'
  BY BlockKeeps DEF ListsInv
<1>2. /\ on[x] = Run /\ on[x] # None /\ on' = [on EXCEPT ![x] = q] /\ rank' = rank
      /\ x \in TH /\ (\A k \in Queue : on[x] # k)
      /\ head \in [Queue -> Thread \cup {None}]
  BY <1>1, RingAssumption DEF Block, TH, RInv, TypeOK
<1>3. PICK l \in LinkType, o \in OnType :
         /\ l = Unlink(Links, x) /\ o = [on EXCEPT ![x] = None] /\ o[x] = None
         /\ on' = [o EXCEPT ![x] = q] /\ AddLast(l, q, x)
  <2>1. Unlink(Links, x) \in LinkType
    BY <1>1, <1>2, InvSound, UnlinkSound
  <2>2. /\ [on EXCEPT ![x] = None] \in OnType /\ [on EXCEPT ![x] = None][x] = None
        /\ on' = [[on EXCEPT ![x] = None] EXCEPT ![x] = q]
    BY <1>1, <1>2 DEF RInv, TypeOK, OnType
  <2>3. AddLast(Unlink(Links, x), q, x)
    BY DEF Block
  <2>4. QED BY <2>1, <2>2, <2>3
<1>4. /\ Sound(l, o)
      /\ \A k \in Queue : WaitIs(l.next, o, head[k], k, WaitQ[k])
      /\ \E a : RunIs(l.next, o, a) /\ Tail(a) = Without(RunQ, x) /\ SortedBy(Tail(a), rank)
  BY <1>2, <1>3, UnlinkLists
<1>5. PICK a : RunIs(l.next, o, a) /\ Tail(a) = Without(RunQ, x) /\ SortedBy(Tail(a), rank)
  BY <1>4
<1>6. PICK w : w = WaitQ[q] /\ WaitIs(l.next, o, head[q], q, w)
  BY <1>4
<1>7. /\ WaitIs(next', on', head'[q], q, Append(w, x))
      /\ \A k \in (Queue \cup {Run}) \ {q} : \A s : Ring(l.next, o, k, s) => Ring(next', on', k, s)
      /\ \A k \in Queue \ {q} : head'[k] = head[k]
  <2>1. AddedLast(l, o, q, w, x)
    BY <1>2, <1>3, <1>4, <1>6, AddLastRings
  <2>2. QED BY <1>3, <2>1 DEF AddedLast
<1>8. RunIs(next', on', a)
  BY <1>5, <1>7, RingAssumption DEF RunIs
<1>9. PICK f : f = [WaitQ EXCEPT ![q] = Append(@, x)]
  OBVIOUS
<1>10. /\ f[q] = Append(w, x) /\ \A k \in Queue \ {q} : f[k] = WaitQ[k]
       /\ f = [k \in Queue |-> f[k]]
  BY <1>6, <1>9 DEF WaitQ
<1>11. \A k \in Queue : WaitIs(next', on', head'[k], k, f[k])
  <2>1. ASSUME NEW k \in Queue \ {q} PROVE WaitIs(next', on', head'[k], k, f[k])
    BY <1>4, <1>7, <1>10 DEF WaitIs
  <2>2. QED BY <1>7, <1>10, <2>1
<1>12. ListsInv' /\ RunQ' = Tail(a) /\ WaitQ' = [k \in Queue |-> f[k]]
  <2>1. SortedBy(Tail(a), rank')
    BY <1>2, <1>5
  <2>2. QED BY <1>1, <1>8, <1>11, <2>1, ListsNow
<1>13. x \in On(RunQ)
  BY <1>2, ListsHold
<1>14. Lists!Block(x, q)
  BY <1>2, <1>5, <1>9, <1>10, <1>12, <1>13, SameQueues DEF Lists!Block
<1>15. QED BY <1>12, <1>14

LEMMA InitLists == Init => ListsInv /\ Lists!Init
<1> SUFFICES ASSUME Init PROVE ListsInv /\ Lists!Init
  OBVIOUS
<1>1. RInv
  BY InitRings
<1>2. /\ \A q \in Queue : {t \in TH : on[t] = q} = {}
      /\ {t \in TH : on[t] = Run} = {NullTH} /\ next[NullTH] = NullTH /\ NullTH \in TH
      /\ \A q \in Queue : head[q] = None
  BY RingAssumption DEF Init, TH
<1>3. RunIs(next, on, <<NullTH>>)
  <2>1. /\ <<NullTH>> \in Seq(TH) /\ Len(<<NullTH>>) = 1 /\ <<NullTH>>[1] = NullTH
        /\ DOMAIN <<NullTH>> = 1..1 /\ <<NullTH>> # << >>
    BY <1>2
  <2>2. On(<<NullTH>>) = {NullTH}
    BY <2>1 DEF On, ToSet
  <2>3. Ring(next, on, Run, <<NullTH>>)
    BY <1>2, <2>1, <2>2 DEF Ring, Distinct, Behind
  <2>4. QED BY <2>1, <2>3 DEF RunIs
<1>4. \A q \in Queue : WaitIs(next, on, head[q], q, << >>)
  <2>1. << >> \in Seq(TH) /\ Len(<< >>) = 0 /\ DOMAIN << >> = {}
    OBVIOUS
  <2>2. On(<< >>) = {}
    BY <2>1 DEF On, ToSet
  <2>3. QED BY <1>2, <2>1, <2>2 DEF WaitIs, Ring, Distinct
<1>5. Walk(next, NullTH) = <<NullTH>>
  BY <1>3, WalksAre
<1>6. \A q \in Queue : WaitOf(next, head[q]) = << >>
  BY <1>4, WalksAre
<1>7. RunQ = << >> /\ WaitQ = [q \in Queue |-> << >>]
  <2>1. Tail(<<NullTH>>) = << >>
    OBVIOUS
  <2>2. QED BY <1>5, <1>6, <2>1 DEF RunQ, WaitQ
<1>8. SortedBy(RunQ, rank)
  BY <1>7 DEF SortedBy
<1>9. \A q \in Queue : WaitIs(next, on, head[q], q, WaitQ[q])
  BY <1>4, <1>7
<1>10. QED BY <1>1, <1>3, <1>5, <1>7, <1>8, <1>9 DEF ListsInv, Lists!Init, Init

LEMMA NextLists == ListsInv /\ [Next]_vars => ListsInv' /\ [Lists!Next]_(Lists!vars)
<1> SUFFICES ASSUME ListsInv, [Next]_vars PROVE ListsInv' /\ [Lists!Next]_(Lists!vars)
  OBVIOUS
<1>1. ASSUME NEW x \in Thread, NEW r \in Rank, Start(x, r) PROVE ListsInv' /\ Lists!Next
  BY <1>1, StartLists DEF Lists!Next
<1>2. ASSUME NEW x \in Thread, NEW q \in Queue, NEW r \in Rank, Wake(x, q, r)
      PROVE  ListsInv' /\ Lists!Next
  BY <1>2, WakeLists DEF Lists!Next
<1>3. ASSUME NEW x \in Thread, NEW q \in Queue, Block(x, q) PROVE ListsInv' /\ Lists!Next
  BY <1>3, BlockLists DEF Lists!Next
<1>4. ASSUME NEW x \in Thread, Stop(x) PROVE ListsInv' /\ Lists!Next
  BY <1>4, StopLists DEF Lists!Next
<1>5. CASE UNCHANGED vars
  <2>1. /\ next' = next /\ prev' = prev /\ head' = head /\ on' = on /\ rank' = rank
    BY <1>5 DEF vars
  <2>2. RunQ' = RunQ /\ WaitQ' = WaitQ
    BY <2>1 DEF RunQ, WaitQ
  <2>3. ListsInv'
    <3>1. RInv'
      BY NextRings, <1>5 DEF ListsInv
    <3>2. QED BY <2>1, <2>2, <3>1 DEF ListsInv
  <2>4. QED BY <2>1, <2>2, <2>3 DEF Lists!vars
<1>6. QED BY <1>1, <1>2, <1>3, <1>4, <1>5 DEF Next

(* The links are at every moment what queue.a65 promises: rings that hold   *)
(* exactly the threads of each queue, the run queue's in order of rank with *)
(* the oldest first among equals, the blocking queues' in order of arrival; *)
(* and each call of addQueueR and remQueueR inserts, appends or removes one *)
(* thread of these sequences and moves no other.                           *)
THEOREM RingsKeepLists == Spec => KeepsLists
<1>1. QED BY InitLists, NextLists, PTL DEF Spec, KeepsLists, Lists!Spec

=============================================================================
