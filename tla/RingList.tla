------------------------------ MODULE RingList ------------------------------
(***************************************************************************)
(* The pointers under every queue of threads: addQueueR and remQueueR of   *)
(* queue.a65, and the four ways the kernel calls them.                     *)
(*                                                                         *)
(* One pair of links, TH_NextRun and TH_PrevRun, serves the run queue and   *)
(* all the blocking queues: neither routine can tell which ring a thread    *)
(* is in, its caller's TH_State and TH_FChan must.  The run queue's head is *)
(* NullTH for ever, its callers drop the head addQueueR returns; the other  *)
(* queues are empty at head 0 and keep their head when a thread is added    *)
(* behind it (carry clear), so that the oldest one stays first.            *)
(***************************************************************************)
EXTENDS Queues

CONSTANTS
    Thread, Queue, Rank,
    NullTH,     \* the idle thread
    Run,        \* names the run queue among the values of on
    None        \* a null pointer

ASSUME RingAssumption ==
    /\ NullTH \notin Thread /\ None \notin Thread \cup {NullTH}
    /\ Run \notin Queue /\ None \notin Queue \cup {Run}
    /\ Rank \subseteq Nat /\ IsFiniteSet(Thread)

VARIABLES
    next, prev, \* TH_NextRun, TH_PrevRun
    head,       \* CHAN_Send, CHAN_Recv, CHAN_Reply, WQUE_Head
    on,         \* TH_State and TH_FChan: the queue a thread was put on
    rank        \* TH_Priority

vars == <<next, prev, head, on, rank>>

TH == Thread \cup {NullTH}

(* A thread that is on a queue has both its links, and NullTH always is.    *)
TypeOK ==
    /\ next \in [TH -> TH \cup {None}] /\ prev \in [TH -> TH \cup {None}]
    /\ head \in [Queue -> Thread \cup {None}]
    /\ on \in [TH -> Queue \cup {Run, None}]
    /\ rank \in [Thread -> Rank]
    /\ on[NullTH] = Run
    /\ \A t \in TH : on[t] # None => next[t] \in TH /\ prev[t] \in TH

Init ==
    /\ next = [t \in TH |-> IF t = NullTH THEN NullTH ELSE None]
    /\ prev = next
    /\ head = [q \in Queue |-> None]
    /\ on = [t \in TH |-> IF t = NullTH THEN Run ELSE None]
    /\ rank \in [Thread -> Rank]

-----------------------------------------------------------------------------
(***************************************************************************)
(* The two routines, as functions of the links [next, prev].               *)
(***************************************************************************)

Links == [next |-> next, prev |-> prev]

(* The two stores to TH_PrevRun,y and TH_PrevRun,x in the other order.      *)
LinkBeforeLate(l, x, y) ==
    LET p == l.prev[y]
    IN  [next |-> [l.next EXCEPT ![x] = y, ![p] = x],
         prev |-> [l.prev EXCEPT ![x] = x, ![y] = x]]

(* addQueueR, linking x in front of y, which is some ring's member.        *)
LinkBefore(l, x, y) ==
    LET p == l.prev[y]
    IN  [next |-> [l.next EXCEPT ![x] = y, ![p] = x],
         prev |-> [l.prev EXCEPT ![x] = p, ![y] = x]]

(* addQueueR with an empty queue.                                          *)
LinkAlone(l, x) ==
    [next |-> [l.next EXCEPT ![x] = x], prev |-> [l.prev EXCEPT ![x] = x]]

(* The links cleared before they are used.                                 *)
(* remQueueR: a thread that was alone keeps its links to itself.            *)
Unlink(l, x) ==
    IF l.next[x] = x THEN l
    ELSE [next |-> [l.next EXCEPT ![l.prev[x]] = l.next[x], ![x] = None],
          prev |-> [l.prev EXCEPT ![l.next[x]] = l.prev[x], ![x] = None]]

HeadWithoutStale(h, x) == IF next[x] = x THEN None ELSE h

(* The head remQueueR returns for a queue whose head was h.                 *)
HeadWithout(h, x) ==
    IF next[x] = x THEN None ELSE IF h = x THEN next[x] ELSE h

SetLinks(l) == next' = l.next /\ prev' = l.prev

(* AddLast without the bcc.                                                   *)
AddLastStoring(l, q, x) ==
    IF head[q] = None
    THEN SetLinks(LinkAlone(l, x)) /\ head' = [head EXCEPT ![q] = x]
    ELSE SetLinks(LinkBefore(l, x, head[q])) /\ head' = [head EXCEPT ![q] = x]

(* send_S, receive_S, WaitQue: `tay; jsr addQueueR; bcc nofir` stores the   *)
(* head only when the queue was empty.                                     *)
AddLast(l, q, x) ==
    IF head[q] = None
    THEN SetLinks(LinkAlone(l, x)) /\ head' = [head EXCEPT ![q] = x]
    ELSE SetLinks(LinkBefore(l, x, head[q])) /\ UNCHANGED head

-----------------------------------------------------------------------------
(***************************************************************************)
(* The callers.                                                            *)
(***************************************************************************)

(* reSched2 walks from NullTH to the first thread that x outranks, or round *)
(* to NullTH.  That y has nobody it outranks just before it; in a queue     *)
(* that is not sorted several places may be like that, and the model then   *)
(* allows each.                                                            *)
Passed(y, r) == y # NullTH /\ rank[y] >= r
InsertPoint(l, y, r) ==
    /\ on[y] = Run
    /\ ~Passed(y, r)
    /\ l.prev[y] = NullTH \/ Passed(l.prev[y], r)

ReSched(l, x, r) ==
    /\ rank' = [rank EXCEPT ![x] = r]
    /\ on' = [on EXCEPT ![x] = Run]
    /\ \E y \in TH : InsertPoint(l, y, r) /\ SetLinks(LinkBefore(l, x, y))

(* startThread.                                                            *)
Start(x, r) ==
    /\ on[x] = None
    /\ ReSched(Links, x, r)
    /\ UNCHANGED head

(* A send, a pulse, a reply, wake1 or dieChan takes x, the head of queue q   *)
(* or not, and makes it ready with its process's priority.                 *)
Wake(x, q, r) ==
    /\ on[x] = q
    /\ head' = [head EXCEPT ![q] = HeadWithout(@, x)]
    /\ ReSched(Unlink(Links, x), x, r)

(* blockTh, then the caller's addQueueR.                                   *)
Block(x, q) ==
    /\ x \in Thread /\ on[x] = Run
    /\ AddLast(Unlink(Links, x), q, x)
    /\ on' = [on EXCEPT ![x] = q]
    /\ UNCHANGED rank

(* stopAll and killThread take a ready thread off the run queue.           *)
Stop(x) ==
    /\ on[x] = Run
    /\ SetLinks(Unlink(Links, x))
    /\ on' = [on EXCEPT ![x] = None]
    /\ UNCHANGED <<head, rank>>

Next ==
    \E x \in Thread :
        \/ \E r \in Rank : Start(x, r) \/ \E q \in Queue : Wake(x, q, r)
        \/ \E q \in Queue : Block(x, q)
        \/ Stop(x)

Spec == Init /\ [][Next]_vars

-----------------------------------------------------------------------------
(***************************************************************************)
(* Properties.                                                             *)
(***************************************************************************)

(* Both directions of every ring agree, and a ring does not run from one    *)
(* queue into another: what remQueueR relies on when it takes a thread out  *)
(* of the middle (killThread, reply_S) without looking at the queue.        *)
Mutual ==
    \A t \in TH : on[t] # None =>
        /\ prev[next[t]] = t /\ next[prev[t]] = t
        /\ on[next[t]] = on[t] /\ on[prev[t]] = on[t]

(* A queue's head is one of its threads; a thread that has left its queue   *)
(* is nobody's head, or the next caller would wake a stopped thread.        *)
HeadsOn == \A q \in Queue : head[q] # None => on[head[q]] = q

(* The walk from h through the links nx until it is back at h.              *)
Walk(nx, h) ==
    LET at[i \in 0..Cardinality(TH)] ==
            IF i = 0 THEN h ELSE IF at[i - 1] = None THEN None ELSE nx[at[i - 1]]
        back == {i \in 1..Cardinality(TH) : at[i] = h}
        len == IF back = {} THEN 0 ELSE CHOOSE i \in back : \A j \in back : i <= j
    IN  [i \in 1..len |-> at[i - 1]]

(* The rings as sequences: round the run queue from NullTH, which is not    *)
(* part of it, and round each blocking queue from its head.                *)
WaitOf(nx, h) == IF h = None THEN << >> ELSE Walk(nx, h)
RunQ == Tail(Walk(next, NullTH))
WaitQ == [q \in Queue |-> WaitOf(next, head[q])]

(* The rings are the sequences KernelIPC and Mutex are written with: from   *)
(* NullTH round the run queue in order of rank and age, from each head      *)
(* round the blocked threads in the order they came, whatever is taken out  *)
(* of the middle of them.                                                  *)
Lists == INSTANCE ThreadLists WITH runq <- RunQ, waitq <- WaitQ
KeepsLists == Lists!Spec

=============================================================================
