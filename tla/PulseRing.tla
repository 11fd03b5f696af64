------------------------------ MODULE PulseRing ------------------------------
(***************************************************************************)
(* How system calls and interrupt handlers share the kernel: tasksOff,     *)
(* tasksOn and the thread switch of switch.a65, and the ring in which      *)
(* sendPulse_S leaves a pulse for tasksOn when it finds the kernel busy.    *)
(* A pulse is named for the handler that sends it.                         *)
(*                                                                         *)
(* One step here is a few instructions that nothing the module tells apart *)
(* can split.  Every thread has a stack of frames, the top one running; an *)
(* interrupt pushes a frame on the stack of the thread it interrupts.  A    *)
(* thread that is switched away keeps its frames.                          *)
(***************************************************************************)
EXTENDS Naturals, FiniteSets, SequencesExt

CONSTANTS
    Thread,     \* threads, all of them ready all the time
    Source,     \* interrupts that occur, among "timer", "irq", "raster" and "nmi"
    Sender,     \* the ones whose handlers send pulses
    NoPulse,    \* what an empty slot of the ring holds
    Size        \* NR_PQ, the slots of the ring

ASSUME RingAssumption ==
    /\ Source \subseteq {"timer", "irq", "raster", "nmi"} /\ Sender \subseteq Source
    /\ NoPulse \notin Source
    /\ Size \in Nat \ {0, 1}

VARIABLES
    stack,      \* the frames of each thread, the innermost first
    current,    \* Current
    taskOff,    \* TaskOff: kernel structures are in use
    inInt,      \* InInt: interrupt handlers that have begun and not ended
    reqSwitch,  \* ReqSwitch: switch threads when it is possible
    ring,       \* QuedPs
    acSz,       \* AcSzPQ mod NR_PQ, the next slot to give away
    pqIn,       \* PQIn, the slot to take from next
    pulQue,     \* PulQue, the filled slots
    order,      \* who sent what is in the ring, in the order slots were given away
    panic       \* kpancode, when a brk has stopped the machine

vars == <<stack, current, taskOff, inInt, reqSwitch, ring, acSz, pqIn, pulQue,
          order, panic>>

(* Where a frame is.  A program is in user code or in a system call; an     *)
(* interrupt enters, handles, and exits; both may be in sendPulse_S (check  *)
(* to count), in tasksOn (on to noPQ) or waiting to be resumed.             *)
Place == {"user", "kernel", "entry", "handler", "exit",
          "check", "off", "post", "load", "inc", "fill", "count",
          "on", "clear", "pretend", "drain", "took", "noPQ", "switch", "swap",
          "resume"}

Frame == [kind : {"prog"} \cup Source, pc : Place, slot : 0..(Size - 1)]

TypeOK ==
    /\ stack \in [Thread -> Seq(Frame)] /\ \A t \in Thread : stack[t] # << >>
    /\ current \in Thread
    /\ taskOff \in BOOLEAN /\ reqSwitch \in BOOLEAN
    /\ inInt \in 0..(1 + Cardinality(Source))
    /\ ring \in [0..(Size - 1) -> Source \cup {NoPulse}]
    /\ acSz \in 0..(Size - 1) /\ pqIn \in 0..(Size - 1) /\ pulQue \in 0..Size
    /\ order \in Seq(Source)
    /\ panic \in {"none", "full", "busy"}

NewFrame(k, pc) == [kind |-> k, pc |-> pc, slot |-> 0]

(* startThread leaves a frame on a new thread's stack as an interrupt would.*)
Init ==
    /\ current \in Thread
    /\ stack = [t \in Thread |->
                  <<NewFrame("prog", IF t = current THEN "user" ELSE "resume")>>]
    /\ taskOff = FALSE /\ reqSwitch = FALSE /\ inInt = 0
    /\ ring = [i \in 0..(Size - 1) |-> NoPulse]
    /\ acSz = 0 /\ pqIn = 0 /\ pulQue = 0 /\ order = << >>
    /\ panic = "none"

-----------------------------------------------------------------------------

Top == Head(stack[current])

Kinds == {stack[current][i].kind : i \in DOMAIN stack[current]}

(* The innermost frame goes from one place to another.                     *)
At(pc) == panic = "none" /\ Top.pc = pc
Goto(pc) == stack' = [stack EXCEPT ![current][1].pc = pc]
Pop == stack' = [stack EXCEPT ![current] = Tail(@)]

(* Where sendPulse_S and tasksOn return to: a handler then ends.           *)
Caller == IF Top.kind = "prog" THEN "user" ELSE "exit"

-----------------------------------------------------------------------------
(***************************************************************************)
(* Programs and system calls.                                              *)
(***************************************************************************)

(* A system call begins with tasksOff, which stops the machine if it is     *)
(* called from a handler while the kernel is busy.                         *)
TasksOff(pc) ==
    IF inInt # 0 /\ taskOff
    THEN panic' = "busy" /\ UNCHANGED <<taskOff, stack>>
    ELSE taskOff' = TRUE /\ Goto(pc) /\ UNCHANGED panic

Call ==
    /\ At("user") /\ TasksOff("kernel")
    /\ UNCHANGED <<current, inInt, reqSwitch, ring, acSz, pqIn, pulQue, order>>

(* The call does its work, and may want another thread to run.             *)
Work ==
    /\ At("kernel") /\ Goto("on")
    /\ reqSwitch' \in {reqSwitch, TRUE}
    /\ UNCHANGED <<current, taskOff, inInt, ring, acSz, pqIn, pulQue, order, panic>>

(* A program sends a pulse.                                                *)
Pulses ==
    /\ At("user") /\ Goto("check")
    /\ UNCHANGED <<current, taskOff, inInt, reqSwitch, ring, acSz, pqIn, pulQue,
                   order, panic>>

-----------------------------------------------------------------------------
(***************************************************************************)
(* tasksOn.                                                                *)
(***************************************************************************)

OnIgnoresRing ==
    /\ At("on")
    /\ taskOff' = TRUE
    /\ Goto(IF ~ reqSwitch \/ inInt # 0 THEN "clear" ELSE "pretend")
    /\ UNCHANGED <<current, inInt, reqSwitch, ring, acSz, pqIn, pulQue, order, panic>>

(* Nothing to do, or a handler that must leave it to its exit: clear        *)
(* TaskOff and return.                                                     *)
On ==
    /\ At("on")
    /\ taskOff' = TRUE
    /\ Goto(IF (pulQue = 0 /\ ~ reqSwitch) \/ inInt # 0 THEN "clear" ELSE "pretend")
    /\ UNCHANGED <<current, inInt, reqSwitch, ring, acSz, pqIn, pulQue, order, panic>>

Clear ==
    /\ At("clear")
    /\ taskOff' = FALSE /\ Goto(Caller)
    /\ UNCHANGED <<current, inInt, reqSwitch, ring, acSz, pqIn, pulQue, order, panic>>

(* npulswi: go on as if an interrupt had occurred.                         *)
Pretend ==
    /\ At("pretend")
    /\ inInt' = inInt + 1
    /\ Goto(IF pulQue = 0 THEN "noPQ" ELSE "drain")
    /\ UNCHANGED <<current, taskOff, reqSwitch, ring, acSz, pqIn, pulQue, order, panic>>

(* doPQ: deliver the pulse in the slot; its receiver may have to run now.   *)
Drain ==
    /\ At("drain") /\ Goto("took")
    /\ reqSwitch' \in {reqSwitch, TRUE}
    /\ UNCHANGED <<current, taskOff, inInt, ring, acSz, pqIn, pulQue, order, panic>>

(* The code leaves the slot as it is; it is emptied here so that a slot     *)
(* taken before it is filled can be seen.                                  *)
Took ==
    /\ At("took")
    /\ pqIn' = (pqIn + 1) % Size /\ pulQue' = pulQue - 1
    /\ order' = Tail(order) /\ ring' = [ring EXCEPT ![pqIn] = NoPulse]
    /\ Goto(IF pulQue' = 0 THEN "noPQ" ELSE "drain")
    /\ UNCHANGED <<current, taskOff, inInt, reqSwitch, acSz, panic>>

NoPQ ==
    /\ At("noPQ")
    /\ taskOff' = FALSE /\ Goto("switch")
    /\ UNCHANGED <<current, inInt, reqSwitch, ring, acSz, pqIn, pulQue, order, panic>>

-----------------------------------------------------------------------------
(***************************************************************************)
(* The thread switch, at the end of tasksOn and of every interrupt.        *)
(***************************************************************************)

SwitchNested ==
    /\ At("switch") \/ At("exit")
    /\ Goto(IF reqSwitch /\ ~ taskOff THEN "swap" ELSE "resume")
    /\ UNCHANGED <<current, taskOff, inInt, reqSwitch, ring, acSz, pqIn, pulQue,
                   order, panic>>

(* doSwitch and chkSwitch: only the outermost interrupt switches, and only  *)
(* when no system call is under way.                                       *)
Switch ==
    /\ At("switch") \/ At("exit")
    /\ Goto(IF reqSwitch /\ inInt = 1 /\ ~ taskOff THEN "swap" ELSE "resume")
    /\ UNCHANGED <<current, taskOff, inInt, reqSwitch, ring, acSz, pqIn, pulQue,
                   order, panic>>

(* doSwi2: the run queue changes (module KernelIPC says how) and its first  *)
(* thread runs.                                                            *)
Swap ==
    /\ At("swap")
    /\ current' \in Thread
    /\ reqSwitch' = FALSE
    /\ Goto("resume")
    /\ UNCHANGED <<taskOff, inInt, ring, acSz, pqIn, pulQue, order, panic>>

(* retint, on the stack of whoever is current now.                         *)
Resume ==
    /\ At("resume")
    /\ inInt' = inInt - 1
    /\ IF Top.kind = "prog" THEN Goto("user") ELSE Pop
    /\ UNCHANGED <<current, taskOff, reqSwitch, ring, acSz, pqIn, pulQue, order, panic>>

-----------------------------------------------------------------------------
(***************************************************************************)
(* sendPulse_S.                                                            *)
(***************************************************************************)

(* The pulse can be delivered at once unless the handler has interrupted a  *)
(* system call or another handler.                                         *)
Check ==
    /\ At("check")
    /\ Goto(IF inInt <= 1 /\ ~ taskOff THEN "off" ELSE "load")
    /\ UNCHANGED <<current, taskOff, inInt, reqSwitch, ring, acSz, pqIn, pulQue,
                   order, panic>>

Off ==
    /\ At("off") /\ TasksOff("post")
    /\ UNCHANGED <<current, inInt, reqSwitch, ring, acSz, pqIn, pulQue, order>>

(* doPulse (module KernelIPC).                                             *)
Post ==
    /\ At("post") /\ Goto("on")
    /\ reqSwitch' \in {reqSwitch, TRUE}
    /\ UNCHANGED <<current, taskOff, inInt, ring, acSz, pqIn, pulQue, order, panic>>

(* Take a slot, with interrupts masked; the NMI cannot be.                 *)
Load ==
    /\ At("load")
    /\ stack' = [stack EXCEPT ![current][1].pc = "inc", ![current][1].slot = acSz]
    /\ UNCHANGED <<current, taskOff, inInt, reqSwitch, ring, acSz, pqIn, pulQue,
                   order, panic>>

Inc ==
    /\ At("inc") /\ Goto("fill")
    /\ acSz' = (acSz + 1) % Size
    /\ order' = Append(order, Top.kind)
    /\ UNCHANGED <<current, taskOff, inInt, reqSwitch, ring, pqIn, pulQue, panic>>

Fill ==
    /\ At("fill")
    /\ ring' = [ring EXCEPT ![Top.slot] = Top.kind]
    /\ stack' = [stack EXCEPT ![current][1].pc = "count", ![current][1].slot = 0]
    /\ UNCHANGED <<current, taskOff, inInt, reqSwitch, acSz, pqIn, pulQue, order, panic>>

(* The machine stops when the last slot is filled.                         *)
Count ==
    /\ At("count") /\ Goto(Caller)
    /\ pulQue' = pulQue + 1
    /\ panic' = IF pulQue' < Size THEN "none" ELSE "full"
    /\ UNCHANGED <<current, taskOff, inInt, reqSwitch, ring, acSz, pqIn, order>>

-----------------------------------------------------------------------------
(***************************************************************************)
(* Interrupts.                                                             *)
(***************************************************************************)

MaskedNever == Top.kind \in {"irq", "raster", "nmi"} \/ Top.pc = "entry"

(* The processor masks interrupts when it enters a handler.  Only timer1    *)
(* allows them again; sendPulse_S masks them while it takes a slot.         *)
Masked ==
    Top.kind \in {"irq", "raster", "nmi"} \/ Top.pc \in {"entry", "load", "inc"}

(* An interrupt of each kind is over before the next one of that kind.      *)
Interrupt(k) ==
    /\ panic = "none"
    /\ k \notin Kinds /\ (k = "nmi" \/ ~ Masked)
    /\ stack' = [stack EXCEPT ![current] = <<NewFrame(k, "entry")>> \o @]
    /\ UNCHANGED <<current, taskOff, inInt, reqSwitch, ring, acSz, pqIn, pulQue,
                   order, panic>>

(* mainIRQ and nmirute, as far as inc InInt.                               *)
Enter ==
    /\ At("entry") /\ Goto("handler")
    /\ inInt' = inInt + 1
    /\ UNCHANGED <<current, taskOff, reqSwitch, ring, acSz, pqIn, pulQue, order, panic>>

(* The handler: timer1 may find the time slice used up, any of them may     *)
(* send a pulse (one in this module), updTime only while no call is active. *)
Handle ==
    /\ At("handler")
    /\ \/ /\ reqSwitch' \in (IF Top.kind = "timer" THEN {reqSwitch, TRUE} ELSE {reqSwitch})
          /\ Goto("exit")
       \/ /\ Top.kind \in Sender /\ (Top.kind = "timer" => ~ taskOff)
          /\ Goto("check") /\ UNCHANGED reqSwitch
    /\ UNCHANGED <<current, taskOff, inInt, ring, acSz, pqIn, pulQue, order, panic>>

-----------------------------------------------------------------------------

Step ==
    \/ Call \/ Work \/ Pulses
    \/ On \/ Clear \/ Pretend \/ Drain \/ Took \/ NoPQ
    \/ Switch \/ Swap \/ Resume
    \/ Check \/ Off \/ Post \/ Load \/ Inc \/ Fill \/ Count
    \/ Enter \/ Handle

Next == Step \/ \E k \in Source : Interrupt(k)

Spec == Init /\ [][Next]_vars

(* A step under way goes on, and programs call the kernel now and then, as  *)
(* the idle loop does for ever.                                            *)
RingFairness == WF_vars(Step) /\ SF_vars(Step /\ Top.kind = "prog")

-----------------------------------------------------------------------------

Frames == UNION {{<<t, i>> : i \in DOMAIN stack[t]} : t \in Thread}
PcOf(f) == stack[f[1]][f[2]].pc

(* Frames inside code that reads or changes the queues of the kernel.       *)
Busy == {f \in Frames : PcOf(f) \in {"kernel", "post", "drain", "took", "swap"}}

(* No two pieces of code are ever inside the kernel's structures, neither   *)
(* two threads nor a thread and a handler that interrupted it, although     *)
(* nothing masks interrupts in a system call or in doSwi2.                 *)
Exclusion == Cardinality(Busy) <= 1

(* The brk of tasksOff is never reached.                                   *)
NeverBusy == panic # "busy"

(* InInt counts the handlers below the running code, on every thread's own  *)
(* stack: a thread that was switched away waits in one interrupt.           *)
IntDepth ==
    /\ inInt = Cardinality({i \in DOMAIN stack[current] :
                 \/ stack[current][i].kind # "prog" /\ stack[current][i].pc # "entry"
                 \/ stack[current][i].pc \in {"drain", "took", "noPQ", "switch", "swap", "resume"}})
    /\ \A t \in Thread \ {current} : Head(stack[t]).pc = "resume"

(* The kernel is safe from its own interrupts: nothing enters it twice, no   *)
(* handler stops the machine, and InInt never loses count.                  *)
KernelSafe == TypeOK /\ Exclusion /\ NeverBusy /\ IntDepth

Sending == {f \in Frames : PcOf(f) \in {"inc", "fill", "count"}}

(* The ring is a queue: while nobody is putting a pulse in, the slots from  *)
(* PQIn on hold the pulses sent and not delivered, each once, in the order  *)
(* they came.                                                              *)
RingIsQueue ==
    Sending = {} => order = [i \in 1..pulQue |-> ring[(pqIn + i - 1) % Size]]

(* A pulse does not stay in the ring: once interrupts pause, what handlers   *)
(* left there is delivered.  (While they do not pause, two sources can keep *)
(* InInt above 1 at every tasksOn and every switch.)                       *)
RingDrains ==
    RingFairness /\ <>[][~ \E k \in Source : Interrupt(k)]_vars
      => <>[](pulQue = 0 \/ panic = "full")

=============================================================================
