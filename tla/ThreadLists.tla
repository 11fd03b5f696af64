---------------------------- MODULE ThreadLists ----------------------------
(***************************************************************************)
(* What queue.a65 promises to the scheduler and to the IPC code: a run      *)
(* queue ordered by rank, oldest first among equals, and first-come first-  *)
(* served queues a blocked thread can also be taken out of the middle of.   *)
(* KernelIPC and Mutex are written over these sequences.                   *)
(***************************************************************************)
EXTENDS Queues

CONSTANTS Thread, Queue, Rank

VARIABLES runq, waitq, rank

vars == <<runq, waitq, rank>>

Init == runq = << >> /\ waitq = [q \in Queue |-> << >>] /\ rank \in [Thread -> Rank]

Located(t) == t \in On(runq) \/ \E q \in Queue : t \in On(waitq[q])

(* A thread starts, or is woken from queue q, with rank r.                  *)
Start(t, r) ==
    /\ ~Located(t)
    /\ rank' = [rank EXCEPT ![t] = r]
    /\ runq' = Enlist(runq, rank', t)
    /\ UNCHANGED waitq

Wake(t, q, r) ==
    /\ t \in On(waitq[q])
    /\ rank' = [rank EXCEPT ![t] = r]
    /\ runq' = Enlist(runq, rank', t)
    /\ waitq' = [waitq EXCEPT ![q] = Without(@, t)]

Block(t, q) ==
    /\ t \in On(runq)
    /\ runq' = Without(runq, t)
    /\ waitq' = [waitq EXCEPT ![q] = Append(@, t)]
    /\ UNCHANGED rank

Stop(t) ==
    /\ t \in On(runq)
    /\ runq' = Without(runq, t)
    /\ UNCHANGED <<waitq, rank>>

Next ==
    \E t \in Thread :
        \/ \E r \in Rank : Start(t, r) \/ \E q \in Queue : Wake(t, q, r)
        \/ \E q \in Queue : Block(t, q)
        \/ Stop(t)

Spec == Init /\ [][Next]_vars

=============================================================================
