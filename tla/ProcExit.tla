------------------------------ MODULE ProcExit ------------------------------
(***************************************************************************)
(* The end of a process: exit_S and what it needs from the process manager,*)
(* the memory manager, the servers and other processes' waits and signals. *)
(*                                                                         *)
(* A message lies in its sender's memory until it is answered.  So a thread*)
(* that is killed while it waits for an answer only becomes Dieing, the    *)
(* exit waits until PCB_MemUse says that nobody reads the process's memory,*)
(* and the Dieing thread ends by itself in extraKill once it is answered.   *)
(***************************************************************************)
EXTENDS KernelIPC, Integers

CONSTANTS
    NoTh,       \* no thread: PCB_Waiting and PCB_WaitMem of zero
    PROC, MEMM, \* PROC_CHAN and MEMM_CHAN
    Owner,      \* CHAN_Own: the process that made each channel
    Died,       \* the pulse IO_DIED
    FileChan,   \* where the connection in some processes' PCB_Files leads
    Files,      \* the processes that have it there
    Child,      \* the process that each of these threads waits for, once
    Exits,      \* threads whose programs call exit
    Leaves,     \* threads that end with killTh
    Daemons,    \* threads that call retexit
    Signals,    \* <<t, p>>: thread t sends a signal to p
    BootOrder   \* the run queue when the system is up

ASSUME ExitAssumption ==
    /\ NoTh \notin Thread /\ Died \in Pulse
    /\ {PROC, MEMM, FileChan} \subseteq Channel /\ Owner \in [Channel -> Process]
    /\ Files \subseteq Process /\ Exits \cup Leaves \cup Daemons \subseteq Thread
    /\ DOMAIN Child \subseteq Thread /\ \A t \in DOMAIN Child : Child[t] \in Process
    /\ Signals \subseteq Thread \X Process

VARIABLES
    doing,      \* how far a thread is in exit, or in waiting for a process
    doomed,     \* threads that go on at extraKill
    open,       \* channels in ChanArr
    connected,  \* processes whose PCB_Files still has the connection
    waiter,     \* PCB_Waiting
    waitMem,    \* PCB_WaitMem
    exited,     \* processes with PCBF_Exited
    deaf,       \* processes whose PCB_SigBlock exit has cleared
    swept,      \* processes whose memory the memory manager has freed
    gone,       \* processes whose PCB and kernel memory are freed
    unfinished, \* the thread a reply_S has still to put on the run queue
    fresh       \* the time slice has just begun

exitVars == <<doing, doomed, open, connected, waiter, waitMem, exited, deaf,
              swept, gone, unfinished>>
allVars == <<vars, exitVars, fresh>>

(* Places in exit_S: clrChans, where a KillChan message may be under way;   *)
(* the message WaitMem; KillMem; IO_CLOSE; the final part.                 *)
Stages == {"chans", "killchan", "memasks", "memwait", "sweep", "close", "last"}

ExitTypeOK ==
    /\ state \in [Thread -> ThState \cup {"Dieing"}]
    /\ memUse \in [Process -> {-1} \cup Nat]
    /\ doing \in [Thread -> Stages \cup {"runs", "asks", "waits", "sigtry"}]
    /\ doomed \subseteq Thread /\ open \subseteq Channel /\ connected \subseteq Process
    /\ waiter \in [Process -> Thread \cup {NoTh}]
    /\ waitMem \in [Process -> Thread \cup {NoTh}]
    /\ unfinished \in [Thread -> Thread \cup {NoTh}]
    /\ exited \cup deaf \cup swept \cup gone \subseteq Process
    /\ fresh \in BOOLEAN

ExitInit ==
    /\ Init /\ runq = BootOrder
    /\ doing = [t \in Thread |-> "runs"] /\ doomed = {}
    /\ open = Channel /\ connected = Files
    /\ waiter = [p \in Process |-> NoTh] /\ waitMem = [p \in Process |-> NoTh]
    /\ exited = {} /\ deaf = {} /\ swept = {} /\ gone = {}
    /\ unfinished = [t \in Thread |-> NoTh]
    /\ fresh = TRUE

-----------------------------------------------------------------------------

(* The running thread, not inside a reply_S it has to finish.              *)
Going(t) == Running(t) /\ unfinished[t] = NoTh /\ t \notin doomed

(* It executes its own program.                                            *)
AtWork(t) == Going(t) /\ doing[t] \in {"runs", "waits"}

Message(t, c) == SendBlocks(t, c) \/ SendMeets(t, c)

(* The thread sends as part of a kernel call and goes on at s when answered.*)
MessageThen(t, c, s) == Message(t, c) /\ doing' = [doing EXCEPT ![t] = s]

Off(q, x) == [q EXCEPT ![fchan[x]] = Without(@, x)]
Forget(xs) == [t \in Thread |-> held[t] \ xs]

(* reply_S ends somebody's wait for memory: PCB_MemUse has reached zero and *)
(* the exiting thread waits in PCB_WaitMem.                                *)
EndsWait(x) ==
    LET p == ProcOf[x] IN memUse[p] = 1 /\ waitMem[p] # NoTh

AnswerOne(t, x) ==
    /\ ~ EndsWait(x)
    /\ state' = [state EXCEPT ![x] = "Ready"]
    /\ replyq' = Off(replyq, x)
    /\ memUse' = [memUse EXCEPT ![ProcOf[x]] = @ - 1]
    /\ thPrio' = Ranked(x)
    /\ held' = Forget({x})
    /\ TasksOn(Enlist(runq, thPrio', x), state', thPrio', thPrio[t] < thPrio[x])
    /\ UNCHANGED <<prio, fchan, sendq, recvq, pulses, unfinished>>

(* The inner reply_S, to the exiting thread, comes before x is put on the   *)
(* run queue, counts PCB_MemUse below zero, and its tasksOn clears TaskOff  *)
(* and may switch threads.                                                 *)
AnswerLast(t, x) ==
    /\ EndsWait(x)
    /\ LET p == ProcOf[x]
           w == waitMem[p]
       IN  /\ state' = [state EXCEPT ![w] = "Ready"]
           /\ replyq' = Off(Off(replyq, x), w)
           /\ memUse' = [memUse EXCEPT ![p] = @ - 2]
           /\ thPrio' = Ranked(w)
           /\ held' = Forget({x, w})
           /\ TasksOn(Enlist(runq, thPrio', w), state', thPrio',
                      thPrio[t] < thPrio[x] \/ thPrio[t] < thPrio[w])
    /\ unfinished' = [unfinished EXCEPT ![t] = x]
    /\ UNCHANGED <<prio, fchan, sendq, recvq, pulses>>

(* reply_S.  A Dieing thread that is answered goes on at extraKill.         *)
Answer(t, x) == AnswerOne(t, x) \/ AnswerLast(t, x)

(* The rest of the outer reply_S; ReqSwitch has been used up.               *)
Finish(t) ==
    /\ Running(t) /\ unfinished[t] # NoTh
    /\ LET x == unfinished[t]
       IN  /\ state' = [state EXCEPT ![x] = "Ready"]
           /\ thPrio' = Ranked(x)
           /\ TasksOn(Enlist(runq, thPrio', x), state', thPrio', FALSE)
    /\ unfinished' = [unfinished EXCEPT ![t] = NoTh]
    /\ UNCHANGED <<prio, fchan, sendq, recvq, replyq, pulses, memUse, held, doing,
                   doomed, open, connected, waiter, waitMem, exited, deaf, swept, gone>>

-----------------------------------------------------------------------------
(***************************************************************************)
(* Programs.                                                               *)
(***************************************************************************)

(* Messages a manager has received and not yet dealt with.                 *)
AtHand(t) == {x \in held[t] : doing[x] \notin {"waits", "memwait"}}

IsManager(t) == <<t, PROC>> \in Serves \/ <<t, MEMM>> \in Serves

(* Sending to a channel that is no longer in ChanArr returns an error.      *)
Talk(t) ==
    /\ AtWork(t)
    /\ \E c \in open :
         \/ c \notin {PROC, MEMM} /\ Message(t, c)
         \/ /\ IsManager(t) => AtHand(t) = {}
            /\ ReceivePulse(t, c) \/ ReceiveMsg(t, c) \/ ReceiveBlocks(t, c)
    /\ UNCHANGED exitVars

ServerReplies(t, x) ==
    /\ AtWork(t) /\ x \in held[t] /\ ~ IsManager(t)
    /\ Answer(t, x)
    /\ UNCHANGED <<doing, doomed, open, connected, waiter, waitMem, exited, deaf,
                   swept, gone>>

(* A parent waits for a process, at most once: see WaiterKept.             *)
WaitPID(t) ==
    /\ AtWork(t) /\ t \in DOMAIN Child /\ doing[t] = "runs"
    /\ MessageThen(t, PROC, "asks")
    /\ UNCHANGED <<doomed, open, connected, waiter, waitMem, exited, deaf, swept,
                   gone, unfinished>>

(* startThread on a struct makeThread has got.                             *)
NewThread(u) ==
    /\ state[u] = "Free"
    /\ state' = [state EXCEPT ![u] = "Ready"]
    /\ thPrio' = Ranked(u)
    /\ TasksOn(Enlist(runq, thPrio', u), state', thPrio', FALSE)
    /\ doing' = [doing EXCEPT ![u] = "sigtry"]
    /\ UNCHANGED <<prio, fchan, sendq, recvq, replyq, pulses, memUse, held, doomed,
                   open, connected, waiter, waitMem, exited, deaf, swept, gone,
                   unfinished>>

(* kill_S and trySig: a new thread of the process runs SigTry, unless the   *)
(* process has begun to exit.                                              *)
Kill(t, u) ==
    /\ AtWork(t) /\ <<t, ProcOf[u]>> \in Signals
    /\ ProcOf[u] \notin gone \cup deaf
    /\ NewThread(u)

(* retexit_S: a daemon answers its parent as if it had exited, or leaves    *)
(* word for a parent that asks later.                                      *)
RetExit(t) ==
    LET p == ProcOf[t]
    IN  /\ AtWork(t) /\ t \in Daemons
        /\ IF waiter[p] = NoTh
           THEN exited' = exited \cup {p} /\ UNCHANGED <<vars, waiter, unfinished>>
           ELSE /\ waiter' = [waiter EXCEPT ![p] = NoTh]
                /\ Answer(t, waiter[p])
                /\ UNCHANGED exited
        /\ UNCHANGED <<doing, doomed, open, connected, waitMem, deaf, swept, gone>>

(* killTh_S, unless it is the only thread of its process.                  *)
Leave(t) == AtWork(t) /\ t \in Leaves /\ KillTh(t) /\ UNCHANGED exitVars

-----------------------------------------------------------------------------
(***************************************************************************)
(* The process manager and the memory manager.                             *)
(***************************************************************************)

(* doWaitPID: answered at once if the process has exited or does not exist. *)
DoWaitPID(t, x) ==
    /\ AtWork(t) /\ x \in AtHand(t) /\ doing[x] = "asks"
    /\ IF Child[x] \in exited \cup gone
       THEN Answer(t, x) /\ UNCHANGED waiter
       ELSE waiter' = [waiter EXCEPT ![Child[x]] = x] /\ UNCHANGED <<vars, unfinished>>
    /\ doing' = [doing EXCEPT ![x] = "waits"]
    /\ UNCHANGED <<doomed, open, connected, waitMem, exited, deaf, swept, gone>>

(* doWaitMem does not count its own message, which the reply counts again.  *)
DoWaitMem(t, x) ==
    LET p == ProcOf[x]
    IN  /\ AtWork(t) /\ x \in AtHand(t) /\ doing[x] = "memasks"
        /\ IF memUse[p] = 1
           THEN /\ state' = [state EXCEPT ![x] = "Ready"]
                /\ replyq' = Off(replyq, x)
                /\ thPrio' = Ranked(x)
                /\ held' = Forget({x})
                /\ memUse' = [memUse EXCEPT ![p] = @ - 2]
                /\ TasksOn(Enlist(runq, thPrio', x), state', thPrio',
                           thPrio[t] < thPrio[x])
                /\ UNCHANGED waitMem
           ELSE /\ waitMem' = [waitMem EXCEPT ![p] = x]
                /\ memUse' = [memUse EXCEPT ![p] = @ - 1]
                /\ UNCHANGED <<state, replyq, thPrio, held, runq, current>>
        /\ doing' = [doing EXCEPT ![x] = "memwait"]
        /\ UNCHANGED <<prio, fchan, sendq, recvq, pulses, unfinished, doomed, open,
                       connected, waiter, exited, deaf, swept, gone>>

(* killChan, and the end of the dispatch loop: PMSG_KillChan is answered.   *)
DoKillChan(t, x) ==
    /\ AtWork(t) /\ x \in AtHand(t) /\ <<t, PROC>> \in Serves /\ doing[x] = "chans"
    /\ Answer(t, x)
    /\ UNCHANGED <<doing, doomed, open, connected, waiter, waitMem, exited, deaf,
                   swept, gone>>

(* MMSG_KillMem (module Heap): every block of the process is freed.         *)
DoKillMem(t, x) ==
    /\ AtWork(t) /\ x \in AtHand(t) /\ <<t, MEMM>> \in Serves
    /\ swept' = swept \cup {ProcOf[x]}
    /\ Answer(t, x)
    /\ UNCHANGED <<doing, doomed, open, connected, waiter, waitMem, exited, deaf, gone>>

-----------------------------------------------------------------------------
(***************************************************************************)
(* exit_S.                                                                 *)
(***************************************************************************)

(* The threads of t's process that exit_S kills.                           *)
Victims(t) ==
    {x \in Thread \ {t} : ProcOf[x] = ProcOf[t] /\ state[x] \notin {"Free", "Dieing"}}

(* stopAll: first, those that are ready leave the run queue.               *)
StopAll(t) ==
    LET ready == {x \in Victims(t) : state[x] = "Ready"}
    IN  [st |-> [x \in Thread |-> IF x \in ready THEN "Stopped" ELSE state[x]],
         rq |-> SelectSeq(runq, LAMBDA x : x \notin ready),
         tp |-> thPrio, sq |-> sendq, rc |-> recvq, pl |-> pulses, switch |-> FALSE]

(* doPul2: IO_DIED for the server that owes the thread an answer.           *)
TellServer(k, c) ==
    IF k.rc[c] # << >>
    THEN LET r == Head(k.rc[c])
             rank == [k.tp EXCEPT ![r] = prio[ProcOf[r]]]
         IN  [k EXCEPT !.st[r] = "Ready", !.tp = rank, !.rq = Enlist(@, rank, r),
                       !.rc[c] = Tail(@),
                       !.switch = @ \/ CurrentPrio < k.tp[r]]
    ELSE IF FoldFunction(+, 0, [d \in Channel |-> Len(k.pl[d])]) < MaxPul
    THEN [k EXCEPT !.pl[c] = <<Died>> \o @]
    ELSE k

(* remQueueR with the head the thread's state names.                       *)
LeaveQueue(k, x) ==
    CASE k.st[x] = "Stopped" -> k
      [] k.st[x] = "Ready" -> [k EXCEPT !.rq = Without(@, x)]
      [] k.st[x] = "Send" -> [k EXCEPT !.sq[fchan[x]] = Without(@, x)]
      [] k.st[x] = "Receive" -> [k EXCEPT !.rc[fchan[x]] = Without(@, x)]

KillThreadAtOnce(k, x) ==
    IF k.st[x] = "Reply"
    THEN [k EXCEPT !.st[x] = "Free"]
    ELSE [LeaveQueue(k, x) EXCEPT !.st[x] = "Free"]

KillThreadKeepsQueue(k, x) ==
    IF k.st[x] = "Reply"
    THEN TellServer([k EXCEPT !.st[x] = "Dieing"], fchan[x])
    ELSE [k EXCEPT !.st[x] = "Free"]

(* killThread on another thread, after stopAll.  It leaves its queue and is *)
(* freed, unless somebody still owes it an answer.                         *)
KillThread(k, x) ==
    IF k.st[x] = "Reply"
    THEN TellServer([k EXCEPT !.st[x] = "Dieing"], fchan[x])
    ELSE [LeaveQueue(k, x) EXCEPT !.st[x] = "Free"]

(* exit_S as far as its first tasksOn.                                     *)
Exit(t) ==
    /\ \/ AtWork(t) /\ t \in Exits
       \/ Going(t) /\ doing[t] = "sigtry"
    /\ LET k == FoldSet(LAMBDA x, acc : KillThread(acc, x), StopAll(t), Victims(t))
           dying == {x \in Victims(t) : k.st[x] = "Dieing"}
       IN  /\ state' = k.st /\ thPrio' = k.tp /\ sendq' = k.sq /\ recvq' = k.rc
           /\ pulses' = k.pl
           /\ TasksOn(k.rq, k.st, k.tp, k.switch)
           /\ doomed' = (doomed \ Victims(t)) \cup dying
           /\ doing' = [x \in Thread |-> CASE x = t -> "chans"
                                           [] x \in Victims(t) \ dying -> "runs"
                                           [] OTHER -> doing[x]]
           /\ held' = [x \in Thread |-> IF x \in Victims(t) THEN {} ELSE held[x]]
    /\ deaf' = deaf \cup {ProcOf[t]}
    /\ UNCHANGED <<prio, fchan, replyq, memUse, open, connected, waiter, waitMem,
                   exited, swept, gone, unfinished>>

(* killTh_S by the only thread of its process goes to the middle of exit_S, *)
(* past the instruction that turns signals off.                            *)
LeaveLast(t) ==
    /\ AtWork(t) /\ t \in Leaves
    /\ \A u \in Thread \ {t} : ProcOf[u] = ProcOf[t] => state[u] = "Free"
    /\ doing' = [doing EXCEPT ![t] = "chans"]
    /\ UNCHANGED <<vars, doomed, open, connected, waiter, waitMem, exited, deaf,
                   swept, gone, unfinished>>

Owned(p) == {c \in open : Owner[c] = p}

(* retbad for some of the threads blocked on a channel, in this order.      *)
RetBad(c, freed) ==
    LET back == On(freed)
        rank == [x \in Thread |-> IF x \in back THEN prio[ProcOf[x]] ELSE thPrio[x]]
        others(q) == [q EXCEPT ![c] = SelectSeq(@, LAMBDA x : x \notin back)]
    IN  /\ state' = [x \in Thread |-> IF x \in back THEN "Ready" ELSE state[x]]
        /\ thPrio' = rank
        /\ runq' = FoldLeft(LAMBDA q, x : Enlist(q, rank, x), runq, freed)
        /\ memUse' = [p \in Process |-> memUse[p] -
                        Cardinality({x \in On(replyq[c]) : ProcOf[x] = p})]
        /\ held' = Forget(back)
        /\ sendq' = others(sendq) /\ recvq' = others(recvq) /\ replyq' = others(replyq)
        /\ UNCHANGED <<prio, fchan, current, pulses>>

(* dieChan: everybody blocked on the channel returns with an error, and its *)
(* number is free.  PCB_MemUse goes down without a look at PCB_WaitMem.     *)
DieChan(t, c) ==
    /\ Going(t) /\ doing[t] = "chans" /\ c \in Owned(ProcOf[t])
    /\ RetBad(c, sendq[c] \o recvq[c] \o replyq[c])
    /\ open' = open \ {c}
    /\ doing' = [doing EXCEPT ![t] = "killchan"]
    /\ UNCHANGED <<doomed, connected, waiter, waitMem, exited, deaf, swept, gone,
                   unfinished>>

(* The end of dieChan tells PROC, which forgets the channel's names.        *)
TellPROC(t) ==
    /\ Going(t) /\ doing[t] = "killchan"
    /\ MessageThen(t, PROC, "chans")
    /\ UNCHANGED <<doomed, open, connected, waiter, waitMem, exited, deaf, swept,
                   gone, unfinished>>

(* moremem: wait while somebody reads the process's memory.                *)
AwaitReaders(t) ==
    /\ Going(t) /\ doing[t] = "chans"
    /\ Owned(ProcOf[t]) = {} /\ memUse[ProcOf[t]] # 0
    /\ MessageThen(t, PROC, "memasks")
    /\ UNCHANGED <<doomed, open, connected, waiter, waitMem, exited, deaf, swept,
                   gone, unfinished>>

FreeMemoryEarly(t) ==
    /\ Going(t)
    /\ doing[t] = "chans" /\ Owned(ProcOf[t]) = {}
    /\ MessageThen(t, MEMM, "sweep")
    /\ UNCHANGED <<doomed, open, connected, waiter, waitMem, exited, deaf, swept,
                   gone, unfinished>>

(* noSh: kernkill.                                                         *)
FreeMemory(t) ==
    /\ Going(t)
    /\ \/ doing[t] = "chans" /\ Owned(ProcOf[t]) = {} /\ memUse[ProcOf[t]] = 0
       \/ doing[t] = "memwait"
    /\ MessageThen(t, MEMM, "sweep")
    /\ UNCHANGED <<doomed, open, connected, waiter, waitMem, exited, deaf, swept,
                   gone, unfinished>>

(* closeAll and remCon_S: the last process to close a connection tells its  *)
(* server and waits for the answer.                                        *)
CloseFiles(t) ==
    LET p == ProcOf[t]
    IN  /\ Going(t) /\ doing[t] = "sweep"
        /\ connected' = connected \ {p}
        /\ IF p \in connected /\ connected' = {}
           THEN MessageThen(t, FileChan, "close")
           ELSE doing' = [doing EXCEPT ![t] = "close"] /\ UNCHANGED vars
        /\ UNCHANGED <<doomed, open, waiter, waitMem, exited, deaf, swept, gone,
                       unfinished>>

(* The parent is answered.                                                 *)
AnswerWaiter(t) ==
    LET p == ProcOf[t]
    IN  /\ Going(t) /\ doing[t] = "close" /\ waiter[p] # NoTh
        /\ Answer(t, waiter[p])
        /\ waiter' = [waiter EXCEPT ![p] = NoTh]
        /\ doing' = [doing EXCEPT ![t] = "last"]
        /\ UNCHANGED <<doomed, open, connected, waitMem, exited, deaf, swept, gone>>

(* The thread, the PCB and all kernel memory of the process are freed, the *)
(* structs of its other threads too, wherever they may still be linked.     *)
FreeAll(t) ==
    LET p == ProcOf[t]
    IN  /\ state' = [x \in Thread |-> IF ProcOf[x] = p THEN "Free" ELSE state[x]]
        /\ held' = [x \in Thread |-> IF ProcOf[x] = p THEN {} ELSE held[x]]
        /\ doing' = [doing EXCEPT ![t] = "runs"]
        /\ gone' = gone \cup {p}
        /\ DoSwitch(Without(runq, t), state', thPrio)
        /\ UNCHANGED <<thPrio, prio, fchan, sendq, recvq, replyq, pulses, memUse,
                       doomed, open, connected, waiter, waitMem, exited, deaf, swept,
                       unfinished>>

(* The end of exit_S.                                                      *)
Vanish(t) ==
    /\ Going(t)
    /\ doing[t] = "last" \/ (doing[t] = "close" /\ waiter[ProcOf[t]] = NoTh)
    /\ FreeAll(t)

(* extraKill: a thread that was Dieing ends itself.                        *)
ExtraKill(t) ==
    /\ Running(t) /\ t \in doomed
    /\ state' = [state EXCEPT ![t] = "Free"]
    /\ doomed' = doomed \ {t}
    /\ doing' = [doing EXCEPT ![t] = "runs"]
    /\ DoSwitch(Without(runq, t), state', thPrio)
    /\ UNCHANGED <<thPrio, prio, fchan, sendq, recvq, replyq, pulses, memUse, held,
                   open, connected, waiter, waitMem, exited, deaf, swept, gone,
                   unfinished>>

-----------------------------------------------------------------------------

(* A time slice is longer than any one step here, except that a program may *)
(* compute for as long as it likes.                                        *)
SliceEnds(t) == (AtWork(t) \/ ~ fresh) /\ Yield(t) /\ UNCHANGED exitVars

Program(t) ==
    \/ Talk(t) \/ WaitPID(t) \/ RetExit(t) \/ Leave(t) \/ LeaveLast(t)
    \/ \E x \in held[t] : ServerReplies(t, x)
    \/ \E u \in Thread : Kill(t, u)
    \/ Exit(t)

Serve(t) == \E x \in held[t] :
    DoWaitPID(t, x) \/ DoWaitMem(t, x) \/ DoKillChan(t, x) \/ DoKillMem(t, x)

Ending(t) ==
    \/ \E c \in Channel : DieChan(t, c)
    \/ TellPROC(t) \/ AwaitReaders(t) \/ FreeMemory(t) \/ CloseFiles(t)
    \/ AnswerWaiter(t) \/ Vanish(t) \/ ExtraKill(t)

(* Only the running thread acts; with NullTH running, the idle loop.        *)
ExitNext ==
    /\ \/ \E t \in {current} \cap Thread :
            Program(t) \/ Serve(t) \/ Ending(t) \/ Finish(t) \/ SliceEnds(t)
       \/ Idle /\ UNCHANGED exitVars
    /\ fresh' = (current' # current)

ExitSpec == ExitInit /\ [][ExitNext]_allVars

-----------------------------------------------------------------------------

Unfinished == {unfinished[t] : t \in Thread}

(* Threads of a server's reply queue: the ones whose memory it may read.    *)
Owed(c) == {t \in Thread : state[t] \in {"Reply", "Dieing"} /\ fchan[t] = c} \ Unfinished

(* No struct of a thread that exit has killed or freed is on a queue, and   *)
(* every other one is on the queue its fields name, while threads are torn  *)
(* out of queues, pulses wake servers and channels close.                  *)
NoGhostQueued ==
    /\ On(runq) = {t \in Thread : state[t] = "Ready"} /\ Distinct(runq)
    /\ \A c \in Channel :
         /\ On(sendq[c]) = BlockedOn("Send", c) /\ Distinct(sendq[c])
         /\ On(recvq[c]) = BlockedOn("Receive", c) /\ Distinct(recvq[c])
         /\ On(replyq[c]) = Owed(c) /\ Distinct(replyq[c])

(* Nobody keeps a freed thread to answer or to put on the run queue later:  *)
(* no server a RcvID, no PCB a waiter, no reply_S the thread it woke.       *)
NoGhostKept ==
    \A t \in Thread : state[t] = "Free" =>
        /\ t \notin Unfinished
        /\ \A u \in Thread : t \notin held[u]
        /\ \A p \in Process \ gone : waiter[p] # t

(* A process's memory is freed only when nobody owes one of its threads an  *)
(* answer any more, but for messages of exit itself.                       *)
ReadersDone ==
    \A t \in Thread :
        state[t] \in {"Reply", "Dieing"} /\ ProcOf[t] \in swept /\ t \notin Unfinished
            => doing[t] \in {"sweep", "close"}

(* While exit runs, no other thread of the process does: those left wait    *)
(* for an answer or go to extraKill.                                       *)
ExitAlone ==
    \A t \in {x \in Thread : state[x] # "Free" /\ doing[x] \in Stages} :
        \A u \in Thread \ {t} :
            ProcOf[u] = ProcOf[t] => state[u] = "Free" \/ u \in doomed

(* Whoever waits for a process is the one its PCB names, and is answered    *)
(* before the process is gone.                                             *)
WaiterKept ==
    \A t \in Thread :
        state[t] \in {"Reply", "Dieing"} /\ doing[t] = "waits" /\ t \notin Unfinished
            /\ fchan[t] = PROC
            => Child[t] \notin gone /\ waiter[Child[t]] = t

(* Nobody is left blocked on a channel that is closed.                     *)
ClosedIsEmpty ==
    \A c \in Channel \ open : sendq[c] \o recvq[c] \o replyq[c] = << >>

(* While processes end in every order, queues hold the living and only      *)
(* them, closed channels nobody, an exiting process runs one thread, and    *)
(* who waits for a process is answered before it is gone.                   *)
ExitSound == ExitTypeOK /\ NoGhostQueued /\ ClosedIsEmpty /\ ExitAlone /\ WaiterKept

=============================================================================
