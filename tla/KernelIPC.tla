------------------------------ MODULE KernelIPC ------------------------------
(***************************************************************************)
(* Message passing and scheduling in the kernel: ipc.a65 on top of         *)
(* switch.a65, with thread creation and killTh from proc.a65.              *)
(*                                                                         *)
(* Every system call here runs between tasksOff and tasksOn, so for other   *)
(* threads it is one step; tasksOn switches threads before it returns when  *)
(* the call asked for it.  Between two calls of the running thread the      *)
(* timer may take the processor away (Tick) and an interrupt handler may    *)
(* send a pulse (IRQPulse).  A pulse that arrives inside a call is queued   *)
(* until tasksOn: module PulseRing has that protocol.                      *)
(*                                                                         *)
(* Channels exist and stay here; in module ProcExit they die with the       *)
(* process that made them.                                                 *)
(***************************************************************************)
EXTENDS Queues

CONSTANTS
    Thread,     \* the TH structs
    Process,    \* the PCBs
    ProcOf,     \* TH_PCB: the process each TH belongs to
    Channel,    \* the channel numbers in use
    Pulse,      \* what a pulse carries
    MaxPul,     \* PUL structs the kernel heap has room for
    NullTH,     \* the idle thread, head of the run queue
    NoChan,     \* what TH_FChan holds before the thread first blocks
    Boot,       \* threads running when the system is up
    BootPrio,   \* the priority of each process then
    NewPrio,    \* the priorities a program passes to setPrior
    Serves,     \* <<t, c>>: thread t's program receives on c
    Calls       \* <<t, c>>: thread t's program sends to c

ASSUME ThreadAssumption ==
    /\ IsFiniteSet(Thread) /\ NullTH \notin Thread
    /\ ProcOf \in [Thread -> Process] /\ NoChan \notin Channel
    /\ Boot \subseteq Thread /\ Boot # {}
ASSUME PriorityAssumption ==
    BootPrio \in [Process -> 0..31] /\ NewPrio \subseteq 0..31
ASSUME ProgramAssumption ==
    /\ Serves \subseteq Thread \X Channel /\ Calls \subseteq Thread \X Channel
    /\ MaxPul \in Nat

VARIABLES
    state,      \* TH_State, "Free" when there is no such thread
    thPrio,     \* TH_Priority, the rank a thread is queued with
    prio,       \* PCB_Priority
    fchan,      \* TH_FChan, the channel a thread is blocked on
    runq,       \* the run queue behind NullTH; the running thread is on it
    current,    \* Current
    sendq,      \* CHAN_Send: blocked senders nobody has received from
    recvq,      \* CHAN_Recv: threads waiting for something to arrive
    replyq,     \* CHAN_Reply: senders waiting for the answer
    pulses,     \* CHAN_Pulse: pulses nobody waited for, next one first
    memUse,     \* PCB_MemUse: messages of a process others may be reading
    held        \* RcvIDs a thread was given and has not replied to

vars == <<state, thPrio, prio, fchan, runq, current, sendq, recvq, replyq,
          pulses, memUse, held>>

ThState == {"Free", "Ready", "Send", "Receive", "Reply"}

TypeOK ==
    /\ state \in [Thread -> ThState]
    /\ thPrio \in [Thread -> 0..31]
    /\ prio \in [Process -> 0..31]
    /\ fchan \in [Thread -> Channel \cup {NoChan}]
    /\ runq \in Seq(Thread)
    /\ current \in Thread \cup {NullTH}
    /\ sendq \in [Channel -> Seq(Thread)]
    /\ recvq \in [Channel -> Seq(Thread)]
    /\ replyq \in [Channel -> Seq(Thread)]
    /\ pulses \in [Channel -> Seq(Pulse)]
    /\ memUse \in [Process -> Nat]
    /\ held \in [Thread -> SUBSET Thread]

Init ==
    /\ state = [t \in Thread |-> IF t \in Boot THEN "Ready" ELSE "Free"]
    /\ prio = BootPrio
    /\ thPrio = [t \in Thread |-> BootPrio[ProcOf[t]]]
    /\ fchan = [t \in Thread |-> NoChan]
    /\ runq \in {q \in SetToSeqs(Boot) : SortedBy(q, thPrio)}
    /\ current = Head(runq)
    /\ sendq = [c \in Channel |-> << >>]
    /\ recvq = [c \in Channel |-> << >>]
    /\ replyq = [c \in Channel |-> << >>]
    /\ pulses = [c \in Channel |-> << >>]
    /\ memUse = [p \in Process |-> 0]
    /\ held = [t \in Thread |-> {}]

-----------------------------------------------------------------------------
(***************************************************************************)
(* Scheduling.                                                             *)
(***************************************************************************)

(* The rank of the running thread; NullTH's is never set and stays zero.    *)
CurrentPrio == IF current = NullTH THEN 0 ELSE thPrio[current]

(* doSwi2: a running thread that is still Ready goes behind its equals      *)
(* (reSched2, which does not look at PCB_Priority); the first thread of the *)
(* queue runs, NullTH when there is none.  rq, st, tp: the queue, the states*)
(* and the ranks as the call leaves them.                                  *)
DoSwitch(rq, st, tp) ==
    LET next == IF current # NullTH /\ st[current] = "Ready"
                THEN Enlist(Without(rq, current), tp, current)
                ELSE rq
    IN  /\ runq' = next
        /\ current' = IF next = << >> THEN NullTH ELSE Head(next)

(* tasksOn: switch before returning to the caller if ReqSwitch is set.      *)
TasksOn(rq, st, tp, reqSwitch) ==
    IF reqSwitch THEN DoSwitch(rq, st, tp)
                 ELSE runq' = rq /\ UNCHANGED current

(* reSched's first half: the thread takes its process's priority.           *)
Ranked(x) == [thPrio EXCEPT ![x] = prio[ProcOf[x]]]

Running(t) == current = t /\ t # NullTH

(* S_yield, and the end of a time slice, make the running thread give way.  *)
Yield(t) ==
    /\ Running(t)
    /\ DoSwitch(runq, state, thPrio)
    /\ UNCHANGED <<state, thPrio, prio, fchan, sendq, recvq, replyq, pulses,
                   memUse, held>>

(* timer1, when Slice is used up.                                          *)
Tick == \E t \in Thread : Yield(t)

(* The idle loop of boot.a65 yields for ever.                              *)
Idle ==
    /\ current = NullTH
    /\ DoSwitch(runq, state, thPrio)
    /\ UNCHANGED <<state, thPrio, prio, fchan, sendq, recvq, replyq, pulses,
                   memUse, held>>

(* setPrior_S on any process.  Threads keep the rank they are queued with.  *)
SetPrior(t, p, v) ==
    /\ Running(t)
    /\ prio' = [prio EXCEPT ![p] = v]
    /\ UNCHANGED <<state, thPrio, fchan, runq, current, sendq, recvq, replyq,
                   pulses, memUse, held>>

-----------------------------------------------------------------------------
(***************************************************************************)
(* Messages.                                                               *)
(***************************************************************************)

(* send_S on a channel where nobody waits: block on the send queue.        *)
SendBlocks(t, c) ==
    /\ Running(t) /\ <<t, c>> \in Calls
    /\ recvq[c] = << >>
    /\ state' = [state EXCEPT ![t] = "Send"]
    /\ fchan' = [fchan EXCEPT ![t] = c]
    /\ sendq' = [sendq EXCEPT ![c] = Append(@, t)]
    /\ TasksOn(Without(runq, t), state', thPrio, TRUE)
    /\ UNCHANGED <<thPrio, prio, recvq, replyq, pulses, memUse, held>>

SendMeetsUncounted(t, c) ==
    /\ Running(t) /\ <<t, c>> \in Calls
    /\ recvq[c] # << >>
    /\ LET r == Head(recvq[c])
       IN  /\ state' = [state EXCEPT ![t] = "Reply", ![r] = "Ready"]
           /\ thPrio' = Ranked(r)
           /\ held' = [held EXCEPT ![r] = @ \cup {t}]
           /\ TasksOn(Enlist(Without(runq, t), thPrio', r), state', thPrio', TRUE)
    /\ fchan' = [fchan EXCEPT ![t] = c]
    /\ replyq' = [replyq EXCEPT ![c] = Append(@, t)]
    /\ recvq' = [recvq EXCEPT ![c] = Tail(@)]
    /\ UNCHANGED <<prio, sendq, pulses, memUse>>

SendMeetsOnce(t, c) ==
    /\ Running(t) /\ <<t, c>> \in Calls
    /\ recvq[c] # << >>
    /\ LET r == Head(recvq[c])
       IN  /\ state' = [state EXCEPT ![t] = "Reply", ![r] = "Ready"]
           /\ thPrio' = Ranked(r)
           /\ held' = [held EXCEPT ![r] = @ \cup {t}]
           /\ TasksOn(Enlist(Without(runq, t), thPrio', r), state', thPrio', TRUE)
    /\ fchan' = [fchan EXCEPT ![t] = c]
    /\ replyq' = [replyq EXCEPT ![c] = Append(@, t)]
    /\ memUse' = [memUse EXCEPT ![ProcOf[t]] = @ + 1]
    /\ UNCHANGED <<prio, sendq, recvq, pulses>>

(* send_S with a thread waiting: the first one is handed the message and    *)
(* the sender goes straight to the reply queue.                            *)
SendMeets(t, c) ==
    /\ Running(t) /\ <<t, c>> \in Calls
    /\ recvq[c] # << >>
    /\ LET r == Head(recvq[c])
       IN  /\ state' = [state EXCEPT ![t] = "Reply", ![r] = "Ready"]
           /\ thPrio' = Ranked(r)
           /\ held' = [held EXCEPT ![r] = @ \cup {t}]
           /\ TasksOn(Enlist(Without(runq, t), thPrio', r), state', thPrio', TRUE)
    /\ fchan' = [fchan EXCEPT ![t] = c]
    /\ replyq' = [replyq EXCEPT ![c] = Append(@, t)]
    /\ recvq' = [recvq EXCEPT ![c] = Tail(@)]
    /\ memUse' = [memUse EXCEPT ![ProcOf[t]] = @ + 1]
    /\ UNCHANGED <<prio, sendq, pulses>>

(* receive_S, first choice: a pulse that is pending.                       *)
ReceivePulse(t, c) ==
    /\ Running(t) /\ <<t, c>> \in Serves
    /\ pulses[c] # << >>
    /\ pulses' = [pulses EXCEPT ![c] = Tail(@)]
    /\ UNCHANGED <<state, thPrio, prio, fchan, runq, current, sendq, recvq,
                   replyq, memUse, held>>

ReceiveMsgTwice(t, c) ==
    /\ Running(t) /\ <<t, c>> \in Serves
    /\ pulses[c] = << >> /\ sendq[c] # << >>
    /\ LET s == Head(sendq[c])
       IN  /\ state' = [state EXCEPT ![s] = "Reply"]
           /\ replyq' = [replyq EXCEPT ![c] = Append(@, s)]
           /\ memUse' = [memUse EXCEPT ![ProcOf[s]] = @ + 1]
           /\ held' = [held EXCEPT ![t] = @ \cup {s}]
    /\ UNCHANGED <<thPrio, prio, fchan, runq, current, sendq, recvq, pulses>>

ReceiveMsgNewest(t, c) ==
    /\ Running(t) /\ <<t, c>> \in Serves
    /\ pulses[c] = << >> /\ sendq[c] # << >>
    /\ LET s == Last(sendq[c])
       IN  /\ state' = [state EXCEPT ![s] = "Reply"]
           /\ replyq' = [replyq EXCEPT ![c] = Append(@, s)]
           /\ memUse' = [memUse EXCEPT ![ProcOf[s]] = @ + 1]
           /\ held' = [held EXCEPT ![t] = @ \cup {s}]
    /\ sendq' = [sendq EXCEPT ![c] = Front(@)]
    /\ UNCHANGED <<thPrio, prio, fchan, runq, current, recvq, pulses>>

(* receive_S, second choice: the sender that has waited longest.           *)
ReceiveMsg(t, c) ==
    /\ Running(t) /\ <<t, c>> \in Serves
    /\ pulses[c] = << >> /\ sendq[c] # << >>
    /\ LET s == Head(sendq[c])
       IN  /\ state' = [state EXCEPT ![s] = "Reply"]
           /\ replyq' = [replyq EXCEPT ![c] = Append(@, s)]
           /\ memUse' = [memUse EXCEPT ![ProcOf[s]] = @ + 1]
           /\ held' = [held EXCEPT ![t] = @ \cup {s}]
    /\ sendq' = [sendq EXCEPT ![c] = Tail(@)]
    /\ UNCHANGED <<thPrio, prio, fchan, runq, current, recvq, pulses>>

ReceiveBlocksAnyway(t, c) ==
    /\ Running(t) /\ <<t, c>> \in Serves
    /\ sendq[c] = << >>
    /\ state' = [state EXCEPT ![t] = "Receive"]
    /\ fchan' = [fchan EXCEPT ![t] = c]
    /\ recvq' = [recvq EXCEPT ![c] = Append(@, t)]
    /\ TasksOn(Without(runq, t), state', thPrio, TRUE)
    /\ UNCHANGED <<thPrio, prio, sendq, replyq, pulses, memUse, held>>

(* receive_S with nothing there: wait on the receive queue.                *)
ReceiveBlocks(t, c) ==
    /\ Running(t) /\ <<t, c>> \in Serves
    /\ pulses[c] = << >> /\ sendq[c] = << >>
    /\ state' = [state EXCEPT ![t] = "Receive"]
    /\ fchan' = [fchan EXCEPT ![t] = c]
    /\ recvq' = [recvq EXCEPT ![c] = Append(@, t)]
    /\ TasksOn(Without(runq, t), state', thPrio, TRUE)
    /\ UNCHANGED <<thPrio, prio, sendq, replyq, pulses, memUse, held>>

ReplyNoPreempt(t, x) ==
    /\ Running(t) /\ x \in held[t]
    /\ state' = [state EXCEPT ![x] = "Ready"]
    /\ replyq' = [replyq EXCEPT ![fchan[x]] = Without(@, x)]
    /\ memUse' = [memUse EXCEPT ![ProcOf[x]] = @ - 1]
    /\ thPrio' = Ranked(x)
    /\ held' = [held EXCEPT ![t] = @ \ {x}]
    /\ TasksOn(Enlist(runq, thPrio', x), state', thPrio', FALSE)
    /\ UNCHANGED <<prio, fchan, sendq, recvq, pulses>>

(* reply_S: the sender leaves the reply queue and runs again, at once if it *)
(* outranks the replier.  The ranks are compared before reSched renews x's. *)
Reply(t, x) ==
    /\ Running(t) /\ x \in held[t]
    /\ state' = [state EXCEPT ![x] = "Ready"]
    /\ replyq' = [replyq EXCEPT ![fchan[x]] = Without(@, x)]
    /\ memUse' = [memUse EXCEPT ![ProcOf[x]] = @ - 1]
    /\ thPrio' = Ranked(x)
    /\ held' = [held EXCEPT ![t] = @ \ {x}]
    /\ TasksOn(Enlist(runq, thPrio', x), state', thPrio', thPrio[t] < thPrio[x])
    /\ UNCHANGED <<prio, fchan, sendq, recvq, pulses>>

-----------------------------------------------------------------------------
(***************************************************************************)
(* Pulses.                                                                 *)
(***************************************************************************)

PulsesQueued == FoldFunction(+, 0, [c \in Channel |-> Len(pulses[c])])

(* doPulse with a receiver waiting: it gets the pulse, RcvID 0, and runs.   *)
PulseMeets(c) ==
    /\ recvq[c] # << >>
    /\ LET r == Head(recvq[c])
       IN  /\ state' = [state EXCEPT ![r] = "Ready"]
           /\ thPrio' = Ranked(r)
           /\ TasksOn(Enlist(runq, thPrio', r), state', thPrio',
                      CurrentPrio < thPrio[r])
    /\ recvq' = [recvq EXCEPT ![c] = Tail(@)]
    /\ UNCHANGED <<prio, fchan, sendq, replyq, pulses, memUse, held>>

(* doPulse with nobody waiting: the pulse goes in front of those pending.   *)
PulseQueues(c, p) ==
    /\ recvq[c] = << >> /\ PulsesQueued < MaxPul
    /\ pulses' = [pulses EXCEPT ![c] = <<p>> \o @]
    /\ UNCHANGED <<state, thPrio, prio, fchan, runq, current, sendq, recvq,
                   replyq, memUse, held>>

(* doPulse when kalloc has no PUL to give: the pulse is lost, and nobody    *)
(* is told.                                                                *)
PulseLost(c) ==
    /\ recvq[c] = << >> /\ PulsesQueued = MaxPul
    /\ UNCHANGED vars

DoPulse(c, p) == PulseMeets(c) \/ PulseQueues(c, p) \/ PulseLost(c)

SendPulse(t, c, p) == Running(t) /\ <<t, c>> \in Calls /\ DoPulse(c, p)

(* sendPulse_S from an interrupt handler, whoever runs; chkSwitch makes the *)
(* switch on the way out of the interrupt.                                 *)
IRQPulse(c, p) == DoPulse(c, p)

-----------------------------------------------------------------------------
(***************************************************************************)
(* Threads.                                                                *)
(***************************************************************************)

(* createT_S: a new thread of the caller's process.  When makeThread finds  *)
(* no memory nothing changes.                                              *)
CreateT(t, u) ==
    /\ Running(t) /\ state[u] = "Free" /\ ProcOf[u] = ProcOf[t]
    /\ state' = [state EXCEPT ![u] = "Ready"]
    /\ thPrio' = Ranked(u)
    /\ runq' = Enlist(runq, thPrio', u)
    /\ UNCHANGED <<prio, fchan, current, sendq, recvq, replyq, pulses, memUse,
                   held>>

(* killTh_S: the running thread ends; RcvIDs it knew are lost with it.  The *)
(* last thread of a process goes to exit instead (module ProcExit).        *)
KillTh(t) ==
    /\ Running(t)
    /\ \E u \in Thread \ {t} : ProcOf[u] = ProcOf[t] /\ state[u] # "Free"
    /\ state' = [state EXCEPT ![t] = "Free"]
    /\ held' = [held EXCEPT ![t] = {}]
    /\ DoSwitch(Without(runq, t), state', thPrio)
    /\ UNCHANGED <<thPrio, prio, fchan, sendq, recvq, replyq, pulses, memUse>>

-----------------------------------------------------------------------------

(* What the running thread's program may call.                             *)
Step(t) ==
    \/ \E c \in Channel :
         \/ SendBlocks(t, c) \/ SendMeets(t, c)
         \/ ReceivePulse(t, c) \/ ReceiveMsg(t, c) \/ ReceiveBlocks(t, c)
         \/ \E p \in Pulse : SendPulse(t, c, p)
    \/ \E x \in Thread : Reply(t, x) \/ CreateT(t, x)
    \/ \E p \in Process, v \in NewPrio : SetPrior(t, p, v)
    \/ KillTh(t)

Interrupt == Tick \/ (\E c \in Channel, p \in Pulse : IRQPulse(c, p))

Next == (\E t \in Thread : Step(t)) \/ Interrupt \/ Idle

Spec == Init /\ [][Next]_vars

-----------------------------------------------------------------------------
(***************************************************************************)
(* What must hold.                                                         *)
(***************************************************************************)

BlockedOn(st, c) == {t \in Thread : state[t] = st /\ fchan[t] = c}

(* A thread is linked on exactly the queue its TH_State and TH_FChan name,  *)
(* once, and on no other: remQueueR, which trusts those fields to find the  *)
(* head it may have to move, never unlinks from the wrong queue.           *)
Located ==
    /\ On(runq) = {t \in Thread : state[t] = "Ready"} /\ Distinct(runq)
    /\ \A c \in Channel :
         /\ On(sendq[c]) = BlockedOn("Send", c) /\ Distinct(sendq[c])
         /\ On(recvq[c]) = BlockedOn("Receive", c) /\ Distinct(recvq[c])
         /\ On(replyq[c]) = BlockedOn("Reply", c) /\ Distinct(replyq[c])
    /\ \A t \in Thread : state[t] \in {"Send", "Receive", "Reply"}
                           => fchan[t] \in Channel
    /\ current \in Thread => state[current] = "Ready"

(* No lost wakeup: nobody sleeps in receive while a message or a pulse for  *)
(* that channel is pending.                                                *)
NoMissedMeeting ==
    \A c \in Channel : recvq[c] # << >> => sendq[c] = << >> /\ pulses[c] = << >>

Exposed(p) == {t \in Thread : ProcOf[t] = p /\ state[t] = "Reply"}

(* PCB_MemUse counts the messages of a process that a receiver may still    *)
(* read: the process must not be freed until it is zero (exit_S).          *)
MemLocked == \A p \in Process : memUse[p] = Cardinality(Exposed(p))

(* A RcvID a thread still owes a reply names a thread that waits for it and *)
(* for no other: reply_S, which checks nothing but TH_Sig, wakes the right  *)
(* thread exactly once.                                                    *)
RcvIDValid ==
    /\ \A t, x \in Thread : x \in held[t] => state[x] = "Reply"
    /\ \A t, u, x \in Thread : x \in held[t] /\ x \in held[u] => t = u
    /\ \A t \in Thread : state[t] = "Free" => held[t] = {}

(* The run queue is sorted, which reSched2's walk takes for granted; and as  *)
(* long as nobody changes a priority, the running thread is never outranked *)
(* by one that is ready: every call that wakes a better thread sets         *)
(* ReqSwitch.                                                              *)
BestRuns ==
    /\ SortedBy(runq, thPrio)
    /\ current # NullTH /\ prio = BootPrio =>
          \A t \in On(runq) : thPrio[t] <= thPrio[current]

(* The kernel keeps the promise of the IPC calls: scheduling, priorities    *)
(* and the queues' links are invisible to the programs.                    *)
Promise == INSTANCE Rendezvous WITH
    phase <- [t \in Thread |-> CASE state[t] = "Free" -> "none"
                                 [] state[t] = "Ready" -> "runs"
                                 [] OTHER -> "blocked"],
    line <- sendq,
    listening <- [c \in Channel |-> On(recvq[c])],
    owes <- held

KeepsPromise == Promise!Spec

=============================================================================
