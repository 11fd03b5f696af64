# WiNGS: TLA+ models, model checking and proofs

WiNGS is a multitasking operating system for the Commodore 64 and 128 with a
SuperCPU: a microkernel in 65816 assembler (`src/kernel`), servers and drivers
in processes of their own (`src/drivers`), C libraries and programs (`src/lib`,
`src/programs`), and a cross assembler and linker (`src/btools`). Everything in
the system talks by *send, receive, reply* and by *pulses* that interrupt
handlers send.

This directory models the kernel's concurrent core, its data structures and its
memory manager; the network drivers and programs whose order of messages
matters; the programs in which several threads or processes work together; and
the path from a source file to a program in memory. TLC checks the models, and
TLAPS proves the core's invariants.

`PROJECT.json` lists components, runs, mutants, the map from definitions to
source lines, findings, hazards and theorems.

## 1. Inventory

Status: **M** modelled, **P** partly, **-** not modelled. Kernel files are under
`src/kernel`, programs under `src/programs`, drivers under `src/drivers`.

| Component | Code | Status | Modules |
|---|---|---|---|
| Scheduler and interrupts | `switch.a65` | P | KernelIPC, PulseRing |
| IPC | `ipc.a65` | P | KernelIPC, Rendezvous, ServerLoop, ProcExit |
| Wait queues, mutexes, conditions | `ipc.a65`, `lib/.../sendchan.a65` | P | Mutex |
| Kernel queues | `queue.a65` | P | Queues, RingList, ThreadLists |
| Processes, process manager | `proc.a65` | P | Timers, KernelIPC, ProcExit |
| Memory | `memm.a65` | P | Heap, Timers |
| Program loader | `loadproc.a65`, `loader.a65` | P | Linker |
| Build tools | `btools/parse.c`, `asm.c`, `jl65.c` | P | Assembler, Linker |
| Script language | `sysapps/an.c` | P | AnScript |
| PPP | `net/ppp.c` | P | Ppp |
| Network disk, drive server | `net/netdisk.c`, `btools/netdrive.c` | M | NetDisk, BlockDevice |
| Telnet and web servers | `inetapps/telnetd.c`, `httpd.c` | P | Telnetd, Httpd |
| Mail reader | `inetapps/mail` | P | MailBoxes, MailSessions |
| Address book service | `miscapps/addressbookd` | P | AddressBook |
| Window manager, taskbar | `guiapps/winman.c`, `taskbar.c` | P | WinMan |
| Pipe server | `fsys/pipe.a65` | P | Pipe |
| Boot, kernel console | `boot.a65`, `kernio.a65` | - | |
| Serial library, character drivers | `lib/src/serlib.a65`, `char/*` | - | |
| File systems and their library, block drivers | `lib/src/fsyslib.a65`, `fsys/*`, `block/*` | - | |
| TCP/IP, SLIP | `net/tcpip.a65`, `net/slip.c` | - | |
| Window system, sound drivers; C, window, console, font and XML libraries; other programs | `misc/*`, `lib/src`, `programs` | - | |

### The kernel

**Scheduler and interrupts.** *State:* the running thread `Current`, the run queue
behind the idle thread `NullTH`, `TaskOff` (the kernel is busy), `InInt` (handlers
in progress), `ReqSwitch` and the time slice. *Operations:* `tasksOff` and
`tasksOn` bracket every system call; `reSched` inserts a thread by priority;
`doSwi2` switches threads; `timer1` ends time slices. *Interaction:* every other
part calls it; it delivers queued pulses before it leaves the kernel. *Hard:*
interrupts are **not** masked inside system calls, handlers nest, and a handler may
itself send a pulse or end in a thread switch. *Correct when* the kernel's
structures are never entered twice, the best ready thread runs, and no pulse is
left behind.

**IPC.** *State:* per channel the queues `CHAN_Send`, `CHAN_Recv`, `CHAN_Reply` and
the list `CHAN_Pulse`; per thread `TH_State`, `TH_FChan`; per process `PCB_MemUse`;
for programs, the RcvIDs they hold. *Operations:* send, receive, chkRecv, reply,
sendPulse; making, connecting, duplicating and killing channels. *Hard:* whether
two threads meet is decided by two tests in two calls; the message stays in the
sender's memory, which must not be freed; RcvIDs are bare addresses. *Correct when*
nobody sleeps beside something to receive, every thread is on the one queue its
fields name, a reply wakes exactly its sender, `PCB_MemUse` counts the messages in
use, and every send returns if the server does its work.

**Wait queues, mutexes, conditions.** *State:* a count and one or two queue numbers
in the program's memory, wait queues in the kernel. *Operations:* getMutex,
relMutex, waitCond, signalCond, broadCond. *Hard:* the count is changed by one
instruction of the program and the kernel is called afterwards, with preemption in
between. *Correct when* the mutex excludes and nobody sleeps on a free mutex.

**Kernel queues.** *State:* circular doubly linked lists through `TH_NextRun` and
`TH_PrevRun`, shared by run queue, channel queues and wait queues; a head per
queue. *Hard:* the link order with one and two elements, a struct taken off with
its links left over, the wrong head passed in. *Correct when* the rings are the
sequences the callers think of.

**Processes.** *State:* PCBs, threads, timers, names, environments, screens.
*Operations:* timers (set, cancel, fire, clear at exit), priorities, thread
creation and death, exit with its wait for memory, waiting for processes, signals,
the PROC server's messages. *Hard:* exit has to wait for messages others still
read, a killed thread that waits for a reply dies later, and 32-bit time wraps.
*Correct when* every armed timer fires once and in time, and nothing of a process
is used after it is gone.

**Memory.** *State:* headers of blocks in RAM and 32 bins of free ones (memory
manager); pools and bins in bank 0; tables of numbers (`allocInt`). *Operations:*
Alloc, AllocBA (within one 64K bank), Free, Realloc, KillMem, Info. *Hard:* blocks
are split and merged in four ways while walks and bins rely on their sizes.
*Correct when* blocks tile memory, free ones are merged and in their bins, and
what was given out is usable.

### From source to memory

**Assembler.** *State:* labels in tables per scope, the list of parsed statements,
per segment a counter and a buffer, the modes of a pass. *Operations:* parse a line
into statements with addresses of labels in them; pass over the statements until
no expression is open and no label has moved; pass once more to write bytes and
relocation entries. *Hard:* labels are used before their scope is known and before
they have a value; sizes depend on values that depend on sizes; a base segment is
followed through every expression. *Correct when* the last pass writes what the
passes planned, and each operand is what the source says.

**Linker and loader.** *State:* segments of the files with how far each has moved,
merged into output segments; symbols; in the loader the same with places in memory.
*Operations:* read files, merge, pack, number imports, relocate and rewrite the
entries; in the kernel place the segments of a program and its libraries, and
relocate again. *Interaction:* only through the object format. *Hard:* entries
are distances from one another, of which the linker makes others; high parts of an
address need low bytes written beside the entry, or not, by rules the three
programs have each their own code for. *Correct when* in memory every operand is
the place its label has come to.

**Script language.** *State:* one-pass compiler with buffers, symbols and marks;
then a stack machine with one register. *Operations:* compile a function, execute.
*Hard:* code is emitted before it is known where it goes, how many parameters and
locals there are, and whether something is assigned to. *Correct when* a compiled
script does what the tree it stands for says.

### Network

**PPP.** *State:* of LCP, PAP and IPCP what has been asked, acknowledged and is
up; the identifier of the last request; the alarm. *Operations:* take a packet,
take the alarm, close on request. *Interaction:* TCP/IP is told the address when
the link is up; the other end runs the same code, or a provider's. *Hard:* either
side may start again at any time, frames are lost, old answers arrive late.
*Correct when* the address in use was granted for the last request, the link comes
up on a good line, and a session that one side closes ends on both.

**Telnet server, web server.** *State:* a circular list of connections, for each its
buffers and whether it is blocked; the notices asked for. *Operations:* a round
over the connections, taking a notice, accepting, closing. *Interaction:* TCP/IP
and pty answer reads and writes and notify once for each time asked. *Hard:* one
thread serves all and must not sleep while anything can be done, nor spin;
connections close in the middle of a round; notices come for those that are gone.
telnetd's writes may take less than they are given, and it does not look.
*Correct when* nothing waits without a notice on its way, what is read is handed on,
and every answer is whole before the connection closes.

**Network disk.** *State:* in the driver the request being served; in the server a
command buffer. *Operations:* read, write; get a command, send and store a block.
*Hard:* a write is answered before the server has the block, commands arrive cut
anywhere, and a block is read once on either side, however much of it is there.
*Correct when* the two are a block device; they are until such a read comes back short.

### Programs

**Mail boxes.** *State:* per box an index on disk and one in memory, files named by
number, one temporary file, marks on entries. *Operations:* open, close, expunge,
mark, move, compose, file, fetch. *Hard:* an index in memory, one on disk and the
files change at different times, and the machine may stop between any two.
*Correct when* no message the server was told to delete is lost, and no file holds
another's message.

**Mail sessions.** *State:* a mutex, one connection, a list of watched accounts.
*Operations:* connect, log in, count, fetch, hang up; start and stop a watch.
*Hard:* error paths that return with the mutex; a list changed while threads start
from it. *Correct when* only the thread that opened the connection talks on it.

**Address book.** *State:* a circular list kept sorted by where a search ends.
*Operations:* make, get, put, delete an entry. *Correct when* an entry in the book
is found and nothing else is.

**Window manager and taskbar.** *State:* two programs of several threads with a
channel each. *Operations:* windows that open, hide, close and take the focus,
icons. *Hard:* they send to each other, and to the window driver, while they
serve. *Correct when* the servers never wait in a circle.

### Drivers

**Pipe server.** *State:* per pipe which ends are open, the RcvIDs of a read and a write
not yet answered and how much is left of the write; no buffer, bytes go from one
process's memory to the other's. *Operations:* read, write, close, and IO_DIED about a
thread that was killed while it waited. *Hard:* answers are delayed over many messages,
and the processes they are for may end meanwhile, which sends IO_DIED and IO_CLOSE; the
server itself signals a writer that has no reader. *Correct when* every byte arrives
once and in order, exactly the waiting threads are answered, and nobody waits for a
process that is over.

### Not modelled, and worth it

The serial library (a
queue filled at interrupt level, readers that wait, notification), the file system
library (a cache of blocks) and TCP (connection states, retransmission) have
behaviour worth modelling. The remaining parts are long sequential code without
concurrency of their own: boot code, device protocols, widgets, rendering,
formatted output.

## 2. Modules

| Module | Models | State ↔ code |
|---|---|---|
| `Queues` | `reSched` and `remQueueR` as operations on sequences | `Enlist`, `Without` |
| `KernelIPC` | IPC, scheduling, creation and death of threads | one variable per field: see its VARIABLES |
| `Rendezvous` | what send, receive and reply promise | abstract; refined by KernelIPC |
| `ServerLoop` | KernelIPC with the loop of a server as the program | fairness of the loop |
| `ProcExit` | exit, signals, killed threads, closing channels, waiting for memory and for processes | `doing` is the place in `exit_S`; one variable per PCB field |
| `PulseRing` | tasksOff, tasksOn, nested interrupts, sendPulse's ring | frames on the threads' stacks, `TaskOff`, `InInt`, `QuedPs`, `AcSzPQ`, `PQIn`, `PulQue` |
| `ThreadLists` | what the queue code promises | abstract; refined by RingList |
| `RingList` | `addQueueR`, `remQueueR`, `reSched` link by link | `TH_NextRun`, `TH_PrevRun`, heads |
| `Mutex` | the C library's mutexes on the kernel's wait queues | the words of a `wmutex`, where each thread is |
| `Timers` | numbers, structs and queue of timers, the tick | `TimerArr`, `HTimer`, clock mod `Wrap` |
| `Heap` | the memory manager | the header fields, `Bins` |
| `Assembler` | ja: parsing with scopes, passes, output | `ja.c` is a record of asm.c's globals; `objects` are the files written |
| `Linker` | jl65 and the kernel's relocation; what a source means | `jl` the linker's globals, `linked` its files, `memory` the segments in memory |
| `AnScript` | the compiler and stack machine of an.c; what a script means | `parser` a record of the compiler's globals; `running` the C stack of `execute` |
| `Ppp` | LCP, PAP, IPCP, alarm, termination | `host[h]` is a record of ppp.c's globals |
| `Telnetd`, `Httpd` | one thread and its connections | the circular list as a sequence, a record per connection |
| `NetDisk` | netdisk.c, the wire, netdrive.c | the streams, the command buffer with `cur` and `unused`, `com`, the image; `short` is history |
| `BlockDevice` | what a block driver promises | abstract; refined by NetDisk |
| `Pipe` | the pipe server between two processes that may be killed | `inode` is the INODEP struct; `client` where each end's thread is, `process` the place in `exit_S` |
| `MailBoxes` | indexes, files, fetching, moving | `mailDisk` and the lists in memory |
| `MailSessions` | the mutex on the server connection, mailwatch threads | `exclservercon`, `fp`, the list of nodes |
| `AddressBook` | the halving search and what uses it | the circular list as a sequence |
| `WinMan` | who of winman.c, taskbar.c and the window driver waits for whom | a script of what each thread has still to do |
| `QueuesProofs` | lemmas about the operations of `Queues` | |
| `KernelIPCProofs`, `RingListProofs`, `PulseRingProofs`, `TimersProofs` | theorems about the module of the name | |
| `ServersProofs` | theorems about `Heap` and `Pipe` | |
| `NetworkProofs` | theorems about `Telnetd`, `Httpd`, `NetDisk` and `Ppp` | |
| `ProgramsProofs` | theorems about `Mutex`, `WinMan`, `MailSessions` and `MailBoxes` | |
| `MC*` | instances for TLC | |

**How far a step goes.** Between `tasksOff` and `tasksOn` no other thread runs, so in
`KernelIPC` a whole system call is one action, with the switch that `tasksOn` makes
at its end; the timer and other interrupts are actions between calls. That this is
right in spite of unmasked interrupts is what `PulseRing` is about: there a step is
a few instructions, and pulses that arrive during a call go to the ring. In
`Mutex` a step ends where a program's instruction or a system call ends. In `Heap`
one message is one step, since the manager is one thread and alone touches its
headers. In `RingList` one call of the queue code is one step on links, and the
intermediate assignments are kept where their order matters.

In the C programs a step ends where the thread next waits for, or writes to, what
others see: a message taken by `ppp.c`'s thread, one end read and written in a round
of `telnetd`, one call on a socket in `httpd`, one read or write of the network disk,
one message fetched, moved or expunged in the mail reader, one line to the POP3 server, one message sent
by the window manager. A function of C that only changes globals is an operator
from a record of globals to the next, so the calls inside a step are the ones of
the code and in its order.

`Assembler` takes one statement in a step, since a pass goes on from what the last
one left; `Linker` takes one file, `AnScript` one function compiled and one
instruction executed.

**Meaning.** `AnScript`, `Assembler` and `Linker` contain, beside the code, what it is for:
`Evaluate` and `Perform` say what a tree does, with no code, marks or stack; `Means` says
what an expression of a source is, given where each line has come to lie in memory,
with no passes, bases or entries, and `Meant` which line a name means, from the blocks
around it alone. The properties compare the two.

**Composition.** `ServerLoop` extends `KernelIPC`. `RingList` implements `ThreadLists`,
whose operations are the ones of `Queues` that `KernelIPC` uses, so queues can be
sequences there. `ProcExit` extends `KernelIPC` with its own `reply_S`, the one that also
ends waits for memory, and takes the other calls from it as they are; where `exit_S`
sends a message to a manager, the step is `KernelIPC`'s send. `PulseRing` justifies the
atomic calls of `KernelIPC`. `Pipe` is a server with the kernel calls around it that matter to it. `NetDisk` is two programs and the wire between them, and
implements `BlockDevice`; `Ppp` is two hosts or one and a provider; `WinMan` two
programs and the driver; `MailSessions` the threads of one. `Linker` extends `Assembler`:
what the one writes the other reads, and the loader after it.

**Instances of several programs.** `MCNetwork`, `MCPrograms` and `MCMemory` each hold
modules that have nothing to do with one another. A behaviour is of one of them,
chosen in the initial state; the others stay as they are, or are over, so that their
properties say nothing of it. A liveness property has the fairness of its program
as premise (`PppFairness => ...`), which the specification as a whole could not state.

## 3. Runs

States are distinct states found by TLC.

| Run | Checks | States |
|---|---|---|
| `kernel_ipc` | all invariants of KernelIPC, BestRuns, refinement of Rendezvous | 271,020 |
| `server_loop` | SendReturns under the fairness of server loops | 4,034 |
| `pulse_ring` | KernelSafe: exclusion in the kernel, never the brk, InInt right; the ring is a queue and drains | 466,746 |
| `ring_lists` | links agree, heads legal, refinement of ThreadLists | 9,592 |
| `timers` | TimersSound: numbers, structs and queue agree, nothing overdue; all fire | 24,830 |
| `proc_exit` | nothing freed is used, readers are waited for, the parent is answered | 307,685 |
| `memory` | scripts compute what they say; output as planned; programs in memory are what their sources say; the heap | 150,499 |
| `network` | PPP, telnet and web servers, network disk, pipes | 288,165 |
| `programs` | mail, address book, window manager and taskbar, mutexes | 251,067 |
| `mutex_forgotten` | *violated:* a thread sleeps on a released mutex | |
| `proc_exit_low_server` | *violated:* a freed thread is put on the run queue | |
| `heap_bank_split` | *violated:* a block in a bin that is in use | |

Some properties are conjunctions of named parts that are checked together:

| Property | Parts |
|---|---|
| `KernelSafe` | `TypeOK`, `Exclusion`, `NeverBusy`, `IntDepth` of PulseRing |
| `TimersSound` | `TypeOK`, `NumbersMatch`, `NoneOverdue` |
| `HeapSound` | `HeapTypeOK`, `Tiled`, `Coalesced`, `BinsExact`, `FindsFit`, `Usable` |
| `ExitSound` | `ExitTypeOK`, `NoGhostQueued`, `ClosedIsEmpty`, `ExitAlone`, `WaiterKept` |
| `MutexSound` | `MutexTypeOK`, `Exclusion`, `NobodyForgotten`, `Counted` |
| `MailKept` | `OwnFiles`, `FetchedOnce`, and no message lost |
| `OwnSession` | `WatchedOnce`, and the connection is its opener's |
| `SearchFinds` | `BookSorted`, and every search is right |
| `LinkSettles` | `ComesUp`, `ClosesDown` |
| `DiskAnswers` | `RoomForCommand`, and every request is answered |
| `PipeSound` | `PipeTypeOK`, `KnowsWhoWaits`, `TellsTrue` |
| `AddressGranted` | `PppTypeOK`, and the address is the granted one |

**Bounds and why they are enough: kernel.**

* `kernel_ipc` has two servers that call each other, so that RcvIDs cross, a client of
  the first and a second thread of the first that is created and killed while the
  system runs: two receivers wait at once, two senders queue, two messages of one
  process are read at once. One pulse of `MaxPul` makes queued and lost pulses happen.
  The priorities of boot make preemption in both directions happen, and `setPrior` adds
  a fourth while threads are queued under the old ones.
* `proc_exit`: the process that ends has two threads and room for the one a signal
  makes, a channel with a client, and a connection; its parent waits for it, sends to
  it and signals it, and ends too. Priorities are real ones: 10 for everybody
  (`boot.a65:63`), 11 for the server, as in the window server. See section 5 for 9.
  A time slice may end anywhere in a program, and in the kernel calls of exit wherever
  at least one step of the slice is past: a slice is 50 ticks. Each parent asks once.
* `server_loop` has a file system, its block driver and two clients, one of which
  uses both.
* `pulse_ring` has two threads, the timer and another interrupt that nest wherever the
  code allows, and a ring of 3 slots instead of `NR_PQ`, so that it wraps and fills. A
  ring that fills stops the machine, which is why deadlock is not checked. With a third
  kind of interrupt that nothing masks (`WithNMI` of `MCPulseRing`, 2.55 million states)
  the invariants hold as well, as long as it sends no pulse: see section 7.
* `ring_lists`: with four threads a queue has a first, a last and two between.
* `timers`: three timers, a clock that wraps quickly, delays below half a wrap as
  the signed comparison requires, and ticks that system calls delay.
* heap in `memory`: header sizes and the split threshold are the real ones, in units of
  two bytes; a bank of 32 units instead of 64K gives two bank boundaries in memory of
  80. The sizes are the smallest block, one that leaves rests on both sides of the
  threshold, and one for AllocBA that crosses boundaries with fronts on both sides
  of `MEM_MIN`. `MaxBlocks` bounds the blocks in use and is no restriction of the
  code. The two processes are interchangeable, hence the symmetry.
* mutex in `programs`: three threads are the fewest for an owner, a sleeper and a
  latecomer. No time slice ends between a count and its call (`Preempt = FALSE`), see
  `mutex_forgotten` for what happens otherwise.

**From source to memory** (`memory`).

* *Programs* (`MCLink`): a file that uses and one that is used, with labels near and far,
  in code, data and zeroed data, imported and absolute; an operand or datum of 8 forms
  (absolute, long, low byte, bank, 2, 3 and 4 bytes) of 9 expressions, at a distance
  from the last entry just below, at and above what one and two gap bytes hold. They
  are linked as one program, or the first as a library of the second, not packed,
  with the data packed, or all packed. Other sources are about scopes (names that come
  later, further out, brought out by & and `.export`, two blocks deep), sizes that
  depend on each other through conditions, and loops.
* `Rubbish` is what a variable holds that the C code reads without having set it:
  two values. `Offsets` are two places in a bank a segment may be put. `MaxPasses` is the
  code's own limit.
* *Scripts* (`MCScript`): every pair of operators the grammar can nest, one inside the
  other on either side, with calls of a recursive function as operands; every
  statement around every chain of two conditions, over bodies that change what the
  conditions look at and return from the middle.
* A script or program is an input that goes through the code once, so these runs are
  wide and not deep; the only choices afterwards are how it is linked and placed.

**Network** (`network`).

* *PPP:* two WiNGs machines, or one and a provider that wants PAP, wants CHAP first, or
  refuses the first password; up to `MaxTrouble` frames lost or answered after the
  alarm; identifiers up to `MaxID` and frames under way up to `MaxLine`: a bad line makes
  two machines renegotiate for ever, which these cut off; on a good line they are no
  restriction, since a behaviour that stopped at one would violate `ComesUp`. `MaxTrans` is 3,
  the number of requests before it gives up.
* *Servers:* two connections, the fewest for one to close in a round over the other;
  data arrives three times in telnetd; in httpd a file of two pieces and a buffer of
  two units, so that an answer with its header never fits at once, one posted, one
  script and one request for a file that is missing; each browser may leave at any time.
* *Telnet writes:* each may take all it is given or less. Which bytes are missing makes
  no difference to the server, so the model only notes the connection (`lost`), and the
  properties that speak of data say nothing of it afterwards. A buffer may run full while
  what was read is put into it (`outserve`, `outpty`), which writes it out in the middle.
* *Network disk:* two blocks of two units. A unit stands for the part of a request that is
  one field, or half a block, and a read returns any number of units that have arrived, at
  least one: a cut inside a field or a half is not told from one beside it. Commands are
  three units, and the command buffer holds `INBUFLEN = 5`, the least that the assumption
  allows, so that what follows a command may be in it already. `MaxStream = 5` units are
  under way in one direction, a block and the command behind it. Once a read of a block has
  come back short the two sides take each other's bytes for something else; this is
  followed for `MaxAfter = 1` further request, enough for `getcommand` to skip what is no
  command, to forget bytes (`Moved`) and to exit on a full buffer (`Exits`). There `'r'` and
  `'w'` are units (`Rd`, `Wr`), one of which blocks may hold; a place that is no block's
  lies behind the end of the image, where a read leaves `blkbuf` as it was; a length that
  is no number of a block's units counts as a block's; and what `blkbuf` and the reader's
  memory hold beforehand is any block.
* *Pipe:* reads and writes of one or two bytes, so that each may be longer than the other,
  four bytes in all; each process may close its end or be killed at any step, and again
  while it closes.

**Programs** (`programs`).

* *Mail:* two messages at the server, one written, two changes by the user, and one stop
  of the machine at any step; two accounts, two watches started, one failed connect.
* *Address book:* four entries of three last names and two first names (one blank): every
  list, with duplicates, that insertions and deletions reach, and every search in it.
* *Windows:* two windows, one with an icon, three events of user and programs, one
  worker thread at a time for each listener. `KeysAnyTime` is FALSE: see section 6.

Every property of a passing run has a mutant in `PROJECT.json`: a changed definition,
such as a dropped test or a swapped order, that TLC finds to violate it.

**Fairness.** `KernelIPC`'s safety uses none.

* `ServerLoop`: the timer keeps ticking and the idle loop yielding (weak), and a server
  that gets the processor again and again comes to its reply and its next receive
  (strong, since it is preempted); nothing is asked of clients and interrupts, and
  `SendReturns` assumes that the server catches up with pulses for good, because
  receive serves them first.
* `PulseRing`: strong fairness for steps of a program, because handlers leave the threads
  some time, and weak fairness for a step in progress. `RingDrains` further assumes
  that interrupts cease at some time, since a ring that is filled as quickly as it is
  emptied need never be empty.
* `Mutex`: strong fairness for each thread to go on with what it has begun, which the
  round-robin of equals gives.
* `Timers`: the clock ticks and finds the kernel idle now and then.
* `Ppp`: each host takes what arrives and the alarm when it rings (its threads wait for
  nothing else), and the line delivers. `ComesUp` and `ClosesDown` are about a line that
  loses nothing (`trouble = 0`); see section 6 for one that does.
* `Telnetd`, `Httpd`: the server's thread goes on (weak: it never waits for a single
  connection), and the other side, that is TCP/IP, pty and the browser, gives the
  notice it was asked for when there is cause. Nothing obliges data to arrive.
* `NetDisk`: both programs go on, and TCP delivers. Programs need never ask again.
* `Pipe`: the server handles what has arrived and a process that is ending goes on (weak,
  a thread waits for nothing else in these places); programs need never read, write or
  close.
* `MailSessions`: strong fairness for each thread in a session, because they compete for
  the mutex, whose waiters are served in turn; weak for a watch to look at its node.

## 4. Proofs

TLC checks a few threads and a few messages; what is proved holds for any number of
them, and for any values of the constants that the named assumptions of the modules
allow. TLC evaluates these assumptions in every run. Each inductive invariant below was
checked by TLC before it was proved. There is one lemma per action, under it one step
per conjunct that the action can disturb.

`QueuesProofs` has the lemmas about `Enlist`, `Without`, `RemoveAt`, `Only`, `Append`,
`Tail` and joining in front: what is on the queue afterwards, and that nobody is on it
twice. `KernelIPC`, `Mutex`, `Pipe`, `Telnetd` and `MailBoxes` keep their queues and
lists with these operations, and their proofs cite these lemmas.

**KernelIPC** (`KernelIPCProofs`). The inductive invariant `IInv` is the conjunction of
`TypeOK`, `Located`, `NoMissedMeeting`, `MemLocked` and `RcvIDValid`; none is inductive
alone. That a reply finds its sender needs `RcvIDValid` and `Located`; that `PCB_MemUse`
stays a natural number, and `TypeOK` with it, needs `MemLocked`; `NoMissedMeeting` needs
`Located`, since the thread a call puts on one queue must not be on another.

* `KernelKeepsPromise`: KernelIPC implements `Rendezvous`. Each system call maps to one
  step of the promise, and the scheduler, the timer and the changes of priority to
  stutters. It needs `IInv`: only `Located` says that the thread which leaves
  a channel's queue is the one the promise calls blocked there.
* `BestThreadRuns`: `BestRuns` under the hypothesis `NewOnes`, that the priorities programs
  set (`NewPrio`) are not the ones the processes started with. `BestRuns` speaks of the
  time before anybody has set a priority, which the model knows by `prio = BootPrio`, and
  the hypothesis makes the two the same. The strengthening `BInv` adds to `IInv` that
  until then each thread is queued with the rank that `reply_S` and `doPulse` compare.

**RingList** (`RingListProofs`). `RInv`, which is `TypeOK`, `Mutual` and `HeadsOn`, is
inductive for any threads, queues and ranks: links of queued threads agree in both
directions and stay within the queue (`LinksMutual`), and a head is on its queue
(`HeadsStayOn`). `Mutual` needs `HeadsOn` because insertion goes through the head.
`RingsKeepLists` proves that `RingList` implements `ThreadLists` (`KeepsLists`), for any
finite number of threads: the sequences are read off the links by walking (`RunQ`,
`WaitQ`), and `ListsInv` says that each of these walks comes round, meets every thread of
its queue once and no other, and that the run queue's is sorted. One call of `addQueueR`
or `remQueueR` then changes one sequence by one place and no other (`LinkRing`,
`UnlinkRing` and their `...Others`); `reSched2`'s walk stops where `Enlist` counts to
(`PlaceFound`). The walk is a recursive function. That it exists and is the sequence is
an induction over the number of steps; tlapm cannot use the library's induction theorem,
so `CountingUp` in `QueuesProofs` does it with a set instead of a predicate: a set that holds 0 and
with each number the next holds all of `Nat`.

**PulseRing** (`PulseRingProofs`). `KernelIsSafe` proves `KernelSafe` for any threads, any
size of the ring and all four sources of interrupts, the NMI among them, which the run
leaves out to stay small. The inductive invariant `RingInv` says for every stack of
frames which place may lie above which: what interrupts a frame that holds `TaskOff` or
counts in `InInt` is only ever at a `Quiet` place, so it neither takes from the ring nor
switches; a thread that is not the current one was left by `doSwi2` and holds neither;
`TaskOff` and `InInt` are what the current stack says, and `PulQue` is the pulses sent less
the slots still being filled. Without the order of places in *all* frames it is not
inductive, since a return brings a frame back into play.
`PulsesQueue` proves `RingIsQueue` if the NMI is not in `Sender`; section 7 says what
happens otherwise. `QueueInv` adds to `RingInv` that a handler between loading `AcSzPQ`
and its `inc` has at most the NMI above it (`SlotsGiven`), and that every pulse sent has a
slot which holds it or which a handler is about to fill with it (`SlotsHold`). The
second holds as long as no more pulses are out than there are slots; with more, the
handlers that are still to count theirs will stop the machine.

**Timers** (`TimersProofs`). `TimersAreSound`: `TimersSound` for any counter, delays below half
its range and any number of ticks that find the kernel busy, under
`Process \subseteq Tidy`: processes give their timers back before they exit, since `clrTimers`
leaves the numbers of those that do not (section 6). The inductive invariant `TimersInv`
measures every due time by how far it is ahead of the clock on the shorter way round
(`Ahead`). An armed timer is ahead by a delay at most and late by the busy ticks at
most (`InWindow`), so any two are less than half the range apart and `mtimez`'s
subtraction tells which is first (lemma `AfterIs`); the queue is sorted by
`Ahead`, a tick shifts all of it by one, and what `updTime` takes off is a front of it.

**Mutex** (`ProgramsProofs`). `MutexCounts`: whatever is preempted where, the count and the
two queues agree with where the threads are (`CountInv`). That nobody is forgotten and that
there is one owner is not proved, because it is not so: the kernel is preemptive, a time
slice may end between a program's `inc` or `dec` and the system call it decides on, and
`mutex_forgotten` is the counterexample. The run `programs` checks both, in `MutexSound`,
with the slices ending elsewhere.

**NetDisk** (`NetworkProofs`). Until a read of a block comes back short (`netdrive.c:133`,
`netdisk.c:59`), `DiskReadsBack`: driver, wire and server implement `BlockDevice`; and
`CommandsFit`: `getcommand` always finds room. The code promises no more, since neither side
looks at the count, and the invariant says where that begins: `UntilShort` is
`short > 0 \/ DiskInv`. `DiskInv` is the protocol written out: every state is in one of five
phases (`Idle`, `Asked`, `WriteAcked`, `ReadServed`, `BlockArrives`), and in each what the
command has, what the buffer holds behind `cur` and what is on the connection are, one
behind the other, exactly what was sent (`CommandUnderWay`, `BlockUnderWay`); a command may
be cut anywhere. A read of a block is then the only step that can leave the phases, and
only by taking less than the block (`BlockComesKeeps`, `StoresBlockKeeps`). Why the server
never reads a block into its command buffer by mistake is in `WriteAcked`: the driver sends
the block only after the byte that the server sends when it has all of the command. The
abstract device serves a write when its block is on the way, and a read when the
driver has its block. Assumed are `InbufAssumption`, that the buffer has room
for a command and what `getcommand` wants last (`netdrive.c:13` gives it 4096 bytes), and
`WireAssumption`, that `'r'` is not `'w'`.

**Heap** (`ServersProofs`). `HeapIsSound`: `HeapSound` for any memory, bank and header
sizes, any requests and any history of requests, frees and deaths of processes, under
`BigBA`: no request with MMSG_AllocBA is smaller than a rest worth splitting off (24
bytes with the sizes of `memm.a65`: `MEM_MIN + 16 - MEM_SIZE`). The code
does not see to it: `sidplay.c:12` asks for most of a bank, but a segment that the loader
may not put across banks (`loadproc.a65:439`) can be as small as it likes. Without the
hypothesis the theorem is false: run `heap_bank_split` is the counterexample. The inductive invariant `HeapInv`
has three parts. The blocks are a *row* (`Row`: sizes and the sizes before agree from
`FirstRAM` to `LastRAM`) without two free ones side by side, and the bins hold the free ones by
size (`Sound`). Each user's block keeps its promise (`Promised`, `Usable` with the set of
blocks). And the manager is not lost. In the middle of a message one block is out of its
bin and may lie beside free ones (`Taken`), so each message is a path from
`Sound` to `Taken` and back: `TakenFromSound` is rembin, `SplitKeeps`, `FrontFree` and
`FrontGrows` are the three ways to cut, `GiveKeeps` is `nospl` and `Free2Keeps` the merge.
What they do to addresses is said once, of rows without headers (`RowCut`, `RowJoin`,
`RowShift`); what they do to other users' blocks is that these stay and none shrinks
(`UsedKept`). `RowShift` is the delicate one: the front of a block goes to the
block before, which `FirstAssumption` says there is. That findbin overlooks no block rests
on `BinGrows`: a larger block is in the same bin or a later one. `KillMemKeeps` goes
through memory once with `CountingUp`.

**Pipe** (`ServersProofs`). `PipeIsSound`: `PipeSound` for any sizes of reads and writes. The
inductive invariant `PipeInv` separates the state between two messages (`Between`: who
waits is recorded, and for how many bytes) from the one where the server is still to
answer a writer whose reader was killed (`Killing`), and says of each process how far it
can be in `exit_S` given what its thread does (`Lives`).

**Telnetd** (`NetworkProofs`). `TelnetWaitsForAll`: `WaitsForAll` for any number of connections.
`TelnetInv` says of each end that is blocked that its notice is asked for or on its way
(`Heard`), that what was read is handed to `write()` by the time the other end's turn comes
(`Written`), and of a round which ends it has already seen blocked (`RoundSoFar`):
the last is what makes the end of a round without progress mean something.

**Httpd** (`NetworkProofs`). `AnswersAreWhole`: `WholeAnswer` for any number of browsers, any
length of the file, the buffer and what is posted. `HttpInv` writes a request by places
(`UnitAt`) instead of as a sequence, so that "the server has read `k` units" (`Took`) and
"the rest is on the way" (`Remaining`) say nothing about where the network cuts: what arrives
together or in pieces moves the same number. Once all is read (`Answering`) the browser's part, then
`bdone`, then the buffer, then the file count on without a gap, which is what `tryFill` and
`flushout` preserve; and a connection is closed only when that count has come to its end
or the browser has gone. `readser`'s loop is a recursive function, and that it exists is
proved with `CountingUp`. `OneListens` says that a connection not yet accepted has a number
left for it.

**WinMan** (`ProgramsProofs`). `NobodyWaitsInACircle`: `NoCircle` under `~ KeysAnyTime`, that is if
the key for the next window comes only while nobody asks the manager's listener for
something; the run has the same bound. `WinInv` says which messages each
thread can ever have in its script (`May`: the table of who sends what to whom), that who
has asked is in its server's channel or in its hands once (`Mail`), and what the listener
can be doing while the window driver waits for it (`OnlyTheKey`). From the table an order
follows in which each waits only for one further on, except for the driver.

**MailSessions** (`ProgramsProofs`). `EachHasItsSession`: `OwnSession` for any accounts and
any number of watches and failed connections. `SessionInv` is what the mutex protects
(`MutexKept`: who is between `connect` and hanging up holds it, and the connection in `fp` is
its own) and what nothing protects (`NodesOwned`: a thread that starts finds its
node because it is still the last one). The second rests on the user being slower
than a new thread (`Settled`): in `startmailwatch` and `stopmailwatch` the user answers
questions, and a thread looks for its node as soon as it runs.

**MailBoxes** (`ProgramsProofs`). `MailIsKept`: `MailKept` for any number of messages, of
changes and of stops of the machine. The program gives no message a name of its own: a
file is known by a number that an index counts up, and indexes are saved late, so
the invariant `MailInv` is about what an older index may still do. A list is `Good`
below a number and over some files, if its entries have different files below that number and each
file holds its entry's message or is gone; `BoxGood` says it of the index on disk and of
the one that counts, each with the number it would give out next, and that the one on disk
is not ahead. Then a new file changes nothing that any list can read (`GoodPut`), an
entry that goes takes no other's file (`GoodRemove`), and a stop of the machine, which
makes the index on disk the one that counts, finds it good. The operations
that take several steps have their own parts: a fetch has counted past what it got
(`FetchOK`), a new file waits for its entry (`FileGood`), the index a move builds has
all that the saved one had (`MoveGood`). That nothing is asked for twice (`InboxOK`)
depends on the account: if it deletes, what the INBOX lists is no longer on the server, and if
it does not, it lies before `firstnum`. A move into the box itself, or with nothing flagged,
breaks `BoxGood` of one box, and `spoiled` remembers which.

**Ppp** (`NetworkProofs`). `AddressIsGranted`: `AddressGranted` for any bounds, two WiNGs
machines or one and either kind of provider, and whatever the line loses or delays.
The difficulty is what is still under way: a late ConAck must not confirm an address that a
ConNak has replaced since. `LinkOK`, which the invariant `PppInv` states of every host,
says it of both directions of its line. Identifiers are in order: requests as they were
sent, the answers ahead of every request not yet answered, none above `latestID`
(`InOrder`). So once the answer to the newest request is taken, no other answer
and no request is on the line (`Hears`), and the flag it sets can be explained by what
the line no longer carries: with LCP agreed no ConRej that would take an option back, with
the address agreed no ConNak that would change it (`AnswerGone`, `RequestGone`).
A host that terminates owes none of this, because `terReq` starts from any state.
The steps are proved apart from the line. `Move` is what a handler may do with the globals
and the requests it sends, with one lemma for each function of ppp.c (`doConReqSteps`,
`doConAckIPSteps` and so on); `MoveKeeps` and `PeerAnswers` then show that any such move keeps
`LinkOK`, for the host that moves and for its peer.

**Only model-checked:** every liveness property, since fairness and `ENABLED` are beyond
the proof system; and the properties of `ProcExit`. These hold only while servers outrank the processes they serve (section 5 has the run
where they do not), so an invariant has to order the run queue through every step of `exit_S` and through its
folds over channels and victims; none has been found that is inductive without
restating the schedule. `Assembler`, `Linker`, `AnScript`
and `AddressBook` are `RECURSIVE` over expressions, statements and lists, and tlapm has
no SMT backend in such modules.

## 5. Findings

* **A free block is given away twice** (`memm.a65:1514`, run `heap_bank_split`).
  `split` reports "not split" with carry clear in two cases: the front before the
  bank boundary was too small and went to the block before, or the rest behind it is
  too small. Only the first sets `MemP2`, and the caller uses `MemP2` in both. In the
  second it is the next block of the bin, which is given out and stays in its bin;
  the chosen block is lost.
* **A thread sleeps on a mutex nobody holds** (`ipc.a65:868`, run `mutex_forgotten`).
  Preemption at the same place gives a mutex two owners with three threads: `Mutex`
  with three threads and `Preempt = TRUE`, `Exclusion`.
* **A freed thread is put on the run queue** (`ipc.a65:446`, run
  `proc_exit_low_server`). The reply that gives back the last lock on an exiting
  process's memory answers the exiting thread before it reschedules its own sender,
  which is Dieing. If the process outranks the server, `exit_S` goes on at once and
  frees every TH struct of the process, and the server reschedules a freed one. The
  window server at 11 is safe; the disk drivers at 9 with programs at 10 are not. It
  takes a process with two threads, one of which talks to the driver while the other
  exits, and whose connection to the driver another process shares, so that the exit
  need not wait for the driver to close it.

## 6. What else was seen

Instances of the same modules that the runs leave out, because a property fails in
them, and what reading showed. The properties of section 3 hold with the
restrictions that this section gives reasons for.

**Kernel.**

* An exited process keeps its timer numbers (`proc.a65:1998`), because `clrTimers`
  passes an address where `freeInt` wants an offset: `Timers` with `Tidy = {}`,
  `ExitedHaveNone`.
* A process that ends by `killTh` of its last thread still takes signals, since that way
  into `exit_S` skips `stz PCB_SigBlock` (`proc.a65:2674`), and the signal's thread is
  freed while it is on the run queue: `ProcExit` with such a process in `Signals`,
  `NoGhostQueued`.
* `dieChan` takes a message's memory out of `PCB_MemUse` without looking at
  `PCB_WaitMem` (`ipc.a65:756`), so an exit that waits for its last message is not
  woken; and it leaves connections to the channel pointing to a freed struct.

**Assembler, linker, loader.**

* `.ass` is the one mode that `preppass` (`asm.c:816`) does not reset: in a file that
  says `.ass 1` after an instruction that it lengthens, the last pass begins with it on
  and writes more than the passes before made room for. `OutputAsPlanned` fails with the
  source `a lda a : .ass 1`; the sources of the run say `.ass` first.
* `binfmt.txt` says that an exported symbol is an offset from the start of its segment;
  ja and jl65 write an address that includes `startpc`, and the loader subtracts it.
* The loader has no RHIGH (`loadproc.a65:1373`), which ja and jl65 write: a program with
  the high byte of an address does not load, which `LoadedRight` allows and nothing else.
* After an entry for an import `relseg` looks at the flags of an earlier entry's
  segment, `tseg` (`jl65.c:629`, `640`). What it writes is right in all sources of the run,
  since an import always has its low bytes. If there was no earlier entry `tseg` is not
  set at all; the run does not reach that, since every source of it begins with an entry
  for a segment of its own.
* `.until` loops while its expression is true. `a+5-b` of two labels of a segment stays
  relocatable, where `(a-b)+5` does not. `.dsb` with an open expression leaves as much
  room as an uninitialised variable says, which the next pass corrects. More than seven
  nested blocks write behind `LabTable`.
* A file linked may not use an absolute label another one exports: its number is not
  set and its segment is 0, where `jl65.c:490` expects imports to have -1.

**Script language.** There are no instructions to load or store a global; BEQ and BNE
look at the number of a string; `a && b || c` has one label for both operators; a chain
in the last part of a for head is marked in the wrong buffer; `return e;` before `else`
is a syntax error. The scripts of the run have none of these.

**PPP.** Two WiNGs machines that lose one ConAck renegotiate for ever, and if both ends
close at once they go on sending TerReq: `ComesUp` and `ClosesDown` are about a good line
and one that closes. The two outThreads share their globals without a lock
(`ppp.c:1050`): the model takes one message at a time. Two machines give each other the
same address.

**Servers.** telnetd ignores what a write to a socket or pty has taken, and both are opened
not to wait (`telnetd.c:256`, `314`): bytes that did not fit are gone. `Carried` speaks of a
connection until that happens, and `WaitsForAll` of what was handed to `write()`. In telnetd and httpd a notice for a connection that is gone makes `findCon`
fall off its end without a value; a second request on a connection restarts the answer
in a buffer that may hold the rest of the first, and a browser that closes its sending
side loses the answer: browsers of the run send one request and keep the side open.

**Network disk.** Neither side looks at how much a read of a block returned
(`netdrive.c:133`, `netdisk.c:59`). After a short one the block keeps what was in the
buffer, its rest is taken for the next command or answer, and `getcommand` may forget bytes
or make the server exit. The model does all of this; the properties hold until then.

**Pipes.** A second thread that reads or writes at the same end takes the place of the
first in `RRcv` or `WRcv`, which is never answered. A write of no bytes gives the reader 0,
which it takes for the end. A thread killed while its IO_CLOSE waits has cleared
`PCB_Files` already (`ipc.a65:813`), so the end is never closed: `PipeLetsGo` excludes that
(`NeverClosed`). IO_DIED about a thread killed while its IO_CLOSE was being answered names
freed structs (`fsyslib.a65:1479`), which in `Pipe` keep what they held.

**Mail.** A failed connect keeps the mutex (`mail/start.c:3582`), after which all
sessions wait: `OwnSession` and `SessionsEnd` except what follows one. A machine that
stops between QUIT and the saving of the index loses what was fetched, and moving
messages to the box they are in, or with none flagged, spoils an index: the model takes such a
message out of `owed`, and `MailKept` is stated until an index is spoiled.

**Address book.** The search does not end when all entries have the last name asked
for (`addressbookd/start.c:236`), and deleting the last entry leaves NULL, which the
next request follows: `SearchFinds` is about searches that return.

**Windows.** The next-window key makes the window driver send to the manager's
listener (`win.a65:1675`). While an icon is clicked that listener draws, and the two
wait for each other: `NoCircle` with `KeysAnyTime = TRUE`. An icon's KILLED may overtake
its NEWITEM, as each is handled by a new thread, and leaves an icon without a window.

**Not in any module:** in `soundapps/wavestream.c` the reading and playing threads share
buffer indexes without protection.

## 7. Not modelled, and why

* *Kernel.* Registers, stack frames and message contents: `KernelIPC` keeps who may read
  whose message. Two error paths leave their stack unbalanced, which the models do not
  see: `dup_S` on EMFILES (`ipc.a65:680`) and `add2WQ` without memory (`ipc.a65:968`).
  Running out of kernel memory, except for pulses and `allocInt`: the paths return
  an error before they change anything, apart from those listed as hazards. The
  statistic `PCB_MemAlloc`, MMSG_Info, copying in realloc. Who owns the raster, timer
  and NMI vectors (`getRast`, `getTINT`, `getNMI`).
* *An NMI that sends a pulse,* as the UART's does: `sendPulse_S` masks interrupts around
  the two instructions that give away a slot, which does not stop an NMI. With it in
  `Sender`, TLC finds two pulses in one slot; `pulse_ring` leaves it out so that the
  rest of the protocol can be checked.
* *`ProcExit`.* Threads on wait queues (`killThread` frees them where they are), which
  signal it was, signals without memory for a thread, `dieChan` as anything but one
  step, connections that lead to a dead channel, the links of the thread list.
  Interrupts send no pulses there; those that matter, IO_DIED, come from `exit_S`.
  Spawning a process: `ProcExit` starts with its processes alive.
* *Assembler, linker, loader.* Characters, macros, structures, strings and included
  files; `&&`, `||`, `!` and the other operators that work as those modelled do; page
  aligned and position independent segments; the C64 format; hashing of names; reading
  the file, versions, libraries that stay in memory, arguments, the start of the
  process. Instructions are eight of `optab`'s rows, chosen so that every address mode
  that can change its length does.
* *`AnScript`.* Tokens, system calls, the CGI environment; integers do not overflow.
* *Network programs.* Frames and check sums of PPP; telnet options beyond that some are
  answered; headers, arguments and directory listings of httpd; TCP itself, which in
  the models delivers in order, cuts anywhere and notifies once.
* *Other programs.* Screens and their layout, sorting and boxes the user makes in the
  mail reader, sending mail; the XML file of the address book; windows that are children
  of others, menus, geometry.
* *Whole components.* `tcpip.a65`, `fsyslib.a65` and the file systems,
  `serlib.a65` and the character drivers are several thousand lines of assembler each
  with the registers and offsets of their own structs; they come next. Device
  protocols, drawing, sound and the C library are sequential.

## 8. Plan

1. `Serial` (serlib, pty, uart): bounded buffers with delayed replies, as in `Pipe`.
   Nothing lost or doubled, nobody waits beside data or room, end of file is seen.
   They would replace what `Telnetd` assumes of pty.
2. `FsCache`: the block cache. A dirty block is written before it is reused.
   `BlockDevice` below it.
3. `Tcp`: connection states with loss, duplication and timers, below `Telnetd`, `Httpd` and
   `NetDisk`.
4. `ChannelLife`: makeChan, conChan, dup, remCon with names. No connection points to a
   freed channel. `ProcExit` with `dieChan` thread by thread, and its liveness.
5. `KernelPool`: the allocators in bank 0, which share `Heap`'s properties.

Proofs to come: the kernel's invariants carried over to `ProcExit`.
