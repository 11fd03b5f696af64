------------------------------- MODULE Timers -------------------------------
(***************************************************************************)
(* The timers of proc.a65: setTimer_S, updTime and clrTimers, with the     *)
(* numbers that allocInt and freeInt of memm.a65 give them.  Time is the   *)
(* kernel's millisecond counter, which wraps.                              *)
(***************************************************************************)
EXTENDS Integers, Queues

CONSTANTS
    Process,
    Timer,      \* TIMER structs the kernel heap has room for
    NoTimer,    \* an empty slot of TimerArr
    NoOwner,    \* the owner of a struct that is free
    Slots,      \* slots of TimerArr once it has grown as far as memory allows
    FirstSlots, \* slots of TimerArr when the system starts
    Wrap,       \* the values of HighRes, 2^32 in the code
    Delay,      \* the delays programs ask for
    Late,       \* ticks in a row that may find the kernel busy
    Tidy        \* processes that give their timers back before they exit

Slot == 0..(Slots - 1)
Time == 0..(Wrap - 1)
NoNum == -1

(* Delays are far below half the range of the counter.                     *)
ASSUME TimerAssumption ==
    /\ NoTimer \notin Timer /\ NoOwner \notin Process
    /\ Slots \in Nat /\ Wrap \in Nat \ {0}
    /\ FirstSlots \in 1..Slots
    /\ Late \in Nat /\ Tidy \subseteq Process
    /\ \A d \in Delay : d \in 1..Wrap /\ 2 * (d + Late + 1) < Wrap

VARIABLES
    now,        \* HighRes
    busy,       \* ticks since one found TaskOff clear
    table,      \* TimerArr: which struct each number stands for
    num,        \* TimerNum, the size of the table
    hint,       \* the number allocInt gives out next, NoNum for none
    live,       \* TIMER structs that are allocated
    own,        \* TIMER_Own
    queue,      \* HTimer: the armed timers and when they are due, the next first
    gone        \* processes that have exited

vars == <<now, busy, table, num, hint, live, own, queue, gone>>

Wild == Slots   \* a number outside the table

TypeOK ==
    /\ now \in Time /\ busy \in 0..Late
    /\ table \in [Slot -> Timer \cup {NoTimer}]
    /\ num \in 1..Slots /\ hint \in Slot \cup {NoNum, Wild}
    /\ live \subseteq Timer
    /\ own \in [Timer -> Process \cup {NoOwner}]
    /\ queue \in Seq([timer : live, due : Time])
    /\ gone \subseteq Process

Init ==
    /\ now = 0 /\ busy = 0
    /\ table = [i \in Slot |-> NoTimer] /\ num = FirstSlots /\ hint = 0
    /\ live = {} /\ own = [x \in Timer |-> NoOwner] /\ queue = << >>
    /\ gone = {}

-----------------------------------------------------------------------------

(* bmi after a 32 bit subtraction: a is at or after b.                      *)
After(a, b) == (a - b) % Wrap < Wrap \div 2

InsertUnsigned(q, x, due) ==
    LET earlier == {i \in DOMAIN q : \A j \in 1..i : due >= q[j].due}
    IN  InsertAt(q, Cardinality(earlier) + 1, [timer |-> x, due |-> due])

(* setTimer_S's mtimez: in front of the first timer that is due later.      *)
Insert(q, x, due) ==
    LET earlier == {i \in DOMAIN q : \A j \in 1..i : After(due, q[j].due)}
    IN  InsertAt(q, Cardinality(earlier) + 1, [timer |-> x, due |-> due])

(* setTimer_S takes a timer that is armed, TIMER_Mode, out of the queue.    *)
Disarm(q, x) ==
    IF \E e \in On(q) : e.timer = x THEN Without(q, CHOOSE e \in On(q) : e.timer = x) ELSE q

(* allocInt: the number freed last, else the first free one, else the table *)
(* is doubled.  size: how large the table is then.                         *)
Allocates(n, size) ==
    LET empty == {i \in 0..(num - 1) : table[i] = NoTimer}
    IN  \/ hint # NoNum /\ n = hint /\ size = num
        \/ /\ hint = NoNum /\ empty # {} /\ size = num
           /\ n \in empty /\ \A i \in empty : n <= i
        \/ /\ hint = NoNum /\ empty = {} /\ 2 * num <= Slots
           /\ n = num /\ size = 2 * num

Arm(x, d) == queue' = Insert(Disarm(queue, x), x, (now + d) % Wrap)

(* setTimer_S with number -1.  A number outside the table is stored outside *)
(* the table.                                                              *)
NewTimer(p, d) ==
    /\ p \notin gone
    /\ \E x \in Timer \ live, n \in Slot \cup {Wild}, size \in 1..Slots :
         /\ Allocates(n, size)
         /\ num' = size /\ hint' = NoNum
         /\ table' = IF n = Wild THEN table ELSE [table EXCEPT ![n] = x]
         /\ live' = live \cup {x}
         /\ own' = [own EXCEPT ![x] = p]
         /\ Arm(x, d)
    /\ UNCHANGED <<now, busy, gone>>

(* There is no memory for the struct: a number was given out for nothing.   *)
NewTimerFails(p) ==
    /\ p \notin gone /\ live = Timer
    /\ \E n \in Slot \cup {Wild}, size \in 1..Slots : Allocates(n, size) /\ num' = size
    /\ hint' = NoNum
    /\ UNCHANGED <<now, busy, table, live, own, queue, gone>>

(* setTimer_S with a number and a delay: whoever calls, and armed or not.   *)
Rearm(n, d) ==
    /\ n < num /\ table[n] # NoTimer
    /\ Arm(table[n], d)
    /\ UNCHANGED <<now, busy, table, num, hint, live, own, gone>>

(* setTimer_S with a number and no delay: the timer is given back.          *)
Cancel(n) ==
    /\ n < num /\ table[n] # NoTimer
    /\ queue' = Disarm(queue, table[n])
    /\ live' = live \ {table[n]} /\ own' = [own EXCEPT ![table[n]] = NoOwner]
    /\ table' = [table EXCEPT ![n] = NoTimer] /\ hint' = n
    /\ UNCHANGED <<now, busy, num, gone>>

UpdExact ==
    LET due == {i \in DOMAIN queue : \A j \in 1..i : now' = queue[j].due}
    IN  queue' = SubSeq(queue, Cardinality(due) + 1, Len(queue))

(* updTime: every timer at the head of the queue that is due sends its      *)
(* pulse and leaves.                                                       *)
UpdTime ==
    LET due == {i \in DOMAIN queue : \A j \in 1..i : After(now', queue[j].due)}
    IN  queue' = SubSeq(queue, Cardinality(due) + 1, Len(queue))

(* timer1: the clock goes on; the timers wait if a system call is active.   *)
Tick ==
    /\ now' = (now + 1) % Wrap
    /\ \/ busy' = 0 /\ UpdTime
       \/ busy < Late /\ busy' = busy + 1 /\ UNCHANGED queue
    /\ UNCHANGED <<table, num, hint, live, own, gone>>

Owned(p) == {i \in 0..(num - 1) : table[i] # NoTimer /\ own[table[i]] = p}

(* exit_S: clrTimers frees the structs, but it passes freeInt the address   *)
(* of a slot, so the slots stay and the next number given out is wild.      *)
Exit(p) ==
    /\ p \notin gone /\ (p \in Tidy => Owned(p) = {})
    /\ gone' = gone \cup {p}
    /\ \/ Owned(p) = {} /\ UNCHANGED <<live, queue, hint>>
       \/ LET mine == {table[i] : i \in Owned(p)}
          IN  /\ mine # {}
              /\ live' = live \ mine
              /\ queue' = SelectSeq(queue, LAMBDA e : e.timer \notin mine)
              /\ hint' = Wild
    /\ UNCHANGED <<now, busy, table, num, own>>

Next ==
    \/ \E p \in Process : Exit(p) \/ NewTimerFails(p) \/ \E d \in Delay : NewTimer(p, d)
    \/ \E n \in Slot : Cancel(n) \/ \E d \in Delay : Rearm(n, d)
    \/ Tick

Spec == Init /\ [][Next]_vars

(* The clock ticks, and finds the kernel idle now and then.                *)
FairSpec == Spec /\ WF_vars(Tick)

-----------------------------------------------------------------------------

Armed == {queue[i].timer : i \in DOMAIN queue}

(* Every struct has exactly one number, and only armed structs that exist   *)
(* are queued, once: no tick reads a freed TIMER.                           *)
NumbersMatch ==
    /\ {table[i] : i \in Slot} \ {NoTimer} = live
    /\ \A i, j \in Slot : table[i] = table[j] /\ i # j => table[i] = NoTimer
    /\ Armed \subseteq live /\ Cardinality(Armed) = Len(queue)

(* Stopping at the first timer that is not due misses none that is, also    *)
(* when the counter has wrapped between setting one and setting another.    *)
NoneOverdue ==
    busy = 0 => \A i \in DOMAIN queue : ~ After(now, queue[i].due)

(* The number table, the structs and the queue agree, and the queue is in    *)
(* the order in which timers fall due, whatever is set again or given back. *)
TimersSound == TypeOK /\ NumbersMatch /\ NoneOverdue

(* A timer does not stay armed for a time it was set for once: it fires, or *)
(* is set for another time or given back.                                  *)
Fires ==
    \A x \in Timer, v \in Time :
       [timer |-> x, due |-> v] \in ToSet(queue) ~> [timer |-> x, due |-> v] \notin ToSet(queue)

(* A process that has exited has no timer.  This fails for processes that  *)
(* do not give their timers back first (Tidy): see the README.             *)
ExitedHaveNone == \A p \in gone : Owned(p) = {}

=============================================================================
