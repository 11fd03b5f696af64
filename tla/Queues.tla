------------------------------- MODULE Queues -------------------------------
(***************************************************************************)
(* The kernel's queues of threads, seen from the code that calls queue.a65.*)
(* A queue is a head pointer into a circular, doubly linked list; the      *)
(* sequence below lists the threads from the head round to its PrevRun.    *)
(* Module RingList shows that the pointer code keeps exactly this.         *)
(***************************************************************************)
EXTENDS Naturals, FiniteSets, SequencesExt

(* The threads linked on a queue.                                          *)
On(q) == ToSet(q)

(* No thread is linked twice.                                              *)
Distinct(q) == \A i, j \in DOMAIN q : q[i] = q[j] => i = j

(* remQueueR: unlink x, wherever it is in the queue.  The code does not     *)
(* look whether x is linked there; neither does this: it is undefined for a *)
(* thread that is not in q.                                                *)
Without(q, x) == RemoveAt(q, CHOOSE i \in DOMAIN q : q[i] = x)

(* Those of q that are in S, in their order.                               *)
Only(q, S) ==
    LET upto[n \in 0..Len(q)] ==
            IF n = 0 THEN << >>
            ELSE IF q[n] \in S THEN Append(upto[n-1], q[n]) ELSE upto[n-1]
    IN  upto[Len(q)]

(* reSched2: walk the run queue from its first thread and link x in front   *)
(* of the first one with a lower TH_Priority.  The queue being sorted       *)
(* (BestRuns), that is right behind the threads that are at least as good.  *)
Enlist(q, rank, x) ==
    InsertAt(q, Cardinality({i \in DOMAIN q : rank[q[i]] >= rank[x]}) + 1, x)

(* Better threads stand in front.                                          *)
SortedBy(q, rank) ==
    \A i, j \in DOMAIN q : i < j => rank[q[i]] >= rank[q[j]]

=============================================================================
