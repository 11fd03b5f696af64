-------------------------------- MODULE Mutex --------------------------------
(***************************************************************************)
(* The mutexes and condition variables of the C library: sendchan.a65 with *)
(* the wait queues of ipc.a65.  A program counts the threads that want the *)
(* mutex with one inc or dec of its own and calls the kernel only when that *)
(* is not enough; the thread can lose the processor between the two.       *)
(***************************************************************************)
EXTENDS Integers, FiniteSets, SequencesExt

CONSTANTS
    Thread,     \* threads that share one wcondvar
    Preempt     \* a time slice may end between the inc or dec and the call

ASSUME MutexAssumption == IsFiniteSet(Thread) /\ Preempt \in BOOLEAN

VARIABLES
    count,      \* the first word of the wmutex, -1 when nobody wants it
    mutq,       \* the wait queue in the second word; no queue when empty
    condq,      \* the wait queue in the third word of a wcondvar
    pc          \* what each thread is doing

mutexVars == <<count, mutq, condq, pc>>

(* "wait" and "wake": between the inc or dec and the call; "regain": woken  *)
(* from the condition, about to call getMutex.                             *)
MutexTypeOK ==
    /\ count \in -1..(2 * Cardinality(Thread))
    /\ mutq \in Seq(Thread) /\ condq \in Seq(Thread)
    /\ pc \in [Thread -> {"outside", "wait", "asleep", "owner", "wake",
                          "condition", "regain"}]

MutexInit ==
    /\ count = -1 /\ mutq = << >> /\ condq = << >>
    /\ pc = [t \in Thread |-> "outside"]

(* Any ready thread may run next, but without preemption not while another *)
(* one is half way through.                                                *)
Runs(t) == Preempt \/ \A u \in Thread \ {t} : pc[u] \notin {"wait", "wake"}

-----------------------------------------------------------------------------

(* _getMutex, as far as the inc.                                           *)
GetMutex(t) ==
    /\ Runs(t) /\ pc[t] \in {"outside", "regain"}
    /\ count' = count + 1
    /\ pc' = [pc EXCEPT ![t] = IF count' = 0 THEN "owner" ELSE "wait"]
    /\ UNCHANGED <<mutq, condq>>

WaitOnQueLast(t) ==
    /\ Runs(t) /\ pc[t] = "wait"
    /\ pc' = [pc EXCEPT ![t] = "asleep"] /\ mutq' = <<t>> \o mutq
    /\ UNCHANGED <<count, condq>>

(* waitOnQue_S: the owner has gone if the count is 0 again.                 *)
WaitOnQue(t) ==
    /\ Runs(t) /\ pc[t] = "wait"
    /\ \/ count = 0 /\ pc' = [pc EXCEPT ![t] = "owner"] /\ UNCHANGED mutq
       \/ count # 0 /\ pc' = [pc EXCEPT ![t] = "asleep"] /\ mutq' = Append(mutq, t)
    /\ UNCHANGED <<count, condq>>

(* _relMutex, as far as the dec.                                           *)
RelMutex(t) ==
    /\ Runs(t) /\ pc[t] = "owner"
    /\ count' = count - 1
    /\ pc' = [pc EXCEPT ![t] = IF count' < 0 THEN "outside" ELSE "wake"]
    /\ UNCHANGED <<mutq, condq>>

(* wake1: the longest waiter, if there is one, returns from waitOnQue_S and *)
(* from _getMutex.  p: where the threads are otherwise.                     *)
WakeOwner(p) ==
    IF mutq = << >> THEN pc' = p /\ UNCHANGED mutq
                    ELSE pc' = [p EXCEPT ![Head(mutq)] = "owner"] /\ mutq' = Tail(mutq)

(* wakeupQue_S, from _relMutex.                                            *)
WakeupQue(t) ==
    /\ Runs(t) /\ pc[t] = "wake"
    /\ WakeOwner([pc EXCEPT ![t] = "outside"])
    /\ UNCHANGED <<count, condq>>

WaitCondKeeping(t) ==
    /\ Runs(t) /\ pc[t] = "owner"
    /\ condq' = Append(condq, t)
    /\ count' = count - 1
    /\ pc' = [pc EXCEPT ![t] = "condition"]
    /\ UNCHANGED mutq

(* _waitCond: waitCond_S sleeps, releases and wakes in one call; _getMutex  *)
(* follows.                                                                *)
WaitCond(t) ==
    /\ Runs(t) /\ pc[t] = "owner"
    /\ condq' = Append(condq, t)
    /\ count' = count - 1
    /\ WakeOwner([pc EXCEPT ![t] = "condition"])

(* _signalCond, called by the owner.                                       *)
SignalCond(t) ==
    /\ Runs(t) /\ pc[t] = "owner" /\ condq # << >>
    /\ condq' = Tail(condq)
    /\ pc' = [pc EXCEPT ![Head(condq)] = "regain"]
    /\ UNCHANGED <<count, mutq>>

(* _broadCond: wakeAllQ_S wakes until the queue is gone.                    *)
BroadCond(t) ==
    /\ Runs(t) /\ pc[t] = "owner" /\ condq # << >>
    /\ condq' = << >>
    /\ pc' = [u \in Thread |-> IF u \in ToSet(condq) THEN "regain" ELSE pc[u]]
    /\ UNCHANGED <<count, mutq>>

-----------------------------------------------------------------------------

(* A thread goes on with what it has begun, and an owner leaves some time.  *)
Finishes(t) ==
    \/ WaitOnQue(t) \/ RelMutex(t) \/ WakeupQue(t)
    \/ pc[t] = "regain" /\ GetMutex(t)

MutexNext ==
    \E t \in Thread :
       \/ GetMutex(t) \/ WaitOnQue(t) \/ RelMutex(t) \/ WakeupQue(t)
       \/ WaitCond(t) \/ SignalCond(t) \/ BroadCond(t)

MutexSpec == MutexInit /\ [][MutexNext]_mutexVars

(* The scheduler lets every ready thread run.                              *)
MutexFairness == \A t \in Thread : SF_mutexVars(Finishes(t))

-----------------------------------------------------------------------------

In(S) == {t \in Thread : pc[t] \in S}

(* The mutex excludes.                                                     *)
Exclusion == Cardinality(In({"owner"})) <= 1

(* While somebody sleeps on the mutex, some thread owns it or is about to   *)
(* wake a sleeper: waitOnQue_S never puts a thread to sleep beside a mutex  *)
(* whose holder has already released it.                                   *)
NobodyForgotten == mutq # << >> => In({"owner", "wake"}) # {}

(* The count is the number of threads that own or want the mutex, less one, *)
(* and every one that sleeps is on the queue that will wake it.             *)
Counted ==
    /\ count + 1 = Cardinality(In({"owner", "wait", "asleep"}))
    /\ ToSet(mutq) = In({"asleep"}) /\ ToSet(condq) = In({"condition"})

(* The mutex excludes, forgets nobody and never loses count, however its    *)
(* threads use it and its condition.                                       *)
MutexSound == MutexTypeOK /\ Exclusion /\ NobodyForgotten /\ Counted

(* Who asks for the mutex gets it, first come first served.                *)
GetReturns ==
    MutexFairness => \A t \in Thread : pc[t] \in {"wait", "asleep", "regain"} ~> pc[t] = "owner"

=============================================================================
