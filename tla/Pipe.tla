-------------------------------- MODULE Pipe --------------------------------
(***************************************************************************)
(* The pipe server, src/drivers/fsys/pipe.a65, for one pipe between two    *)
(* processes, as sh.c sets it up: one thread that handles a message at a   *)
(* time and keeps the RcvIDs of a read and a write that it has not         *)
(* answered.  Either process may close its end or be ended by a signal at  *)
(* any time; the server itself sends one to a writer without reader.       *)
(*                                                                         *)
(* An end has one thread that uses it: RRcv and WRcv have room for one.    *)
(* Nobody writes nothing, which a reader could not tell from the end.      *)
(* A message waits in CHAN_Send even if the server is in receive already:  *)
(* the model has more orders than the kernel.  Pulses find memory.         *)
(* Memory that was freed is not used for anything else: IO_DIED may come   *)
(* when its thread, or the file whose IO_CLOSE it waited for, is gone.      *)
(***************************************************************************)
EXTENDS Integers, Queues

CONSTANTS
    Sizes,       \* bytes asked for in one read or write
    MaxWritten   \* bytes written in all

ASSUME PipeAssumption == Sizes \subseteq Nat \ {0} /\ MaxWritten \in Nat

VARIABLES
    inode,       \* the pipe's inode; it is free when no end is open
    finishing,   \* in mustb behind S_kill: the inode's copy, and who closes
    sender,      \* CHAN_Send: processes whose messages wait, in order
    died,        \* CHAN_Pulse: IO_DIED with a thread, the newest first
    client,      \* client[c]: the thread of process c that uses the pipe
    process,     \* process[c]: how far it is in exit_S
    files,       \* processes that have their end in PCB_Files
    message,     \* what each thread has asked for last
    told,        \* and the answer
    taken        \* bytes moved to the reader's memory

pipeVars == <<inode, finishing, sender, died, client, process, files, message, told, taken>>

\* The clients, and the ends as which HasRW has them.
Clients == {"reader", "writer"}
OtherEnd(c) == IF c = "reader" THEN "writer" ELSE "reader"
NoClient == "none"
Failed == -1
NoMessage == [len |-> 0, from |-> 0]

\* The thread of a client, and its process.
ClientStates == {"runs", "send", "reply", "dieing", "ends", "gone"}
ProcessStates == {"up", "signalled", "exits", "closes", "over"}

PipeTypeOK ==
    /\ inode.HasRW \subseteq Clients /\ {inode.RRcv, inode.WRcv} \subseteq Clients \cup {NoClient}
    /\ sender \in Seq(Clients) /\ died \in Seq(Clients) /\ files \subseteq Clients
    /\ client \in [Clients -> ClientStates] /\ process \in [Clients -> ProcessStates]
    /\ told \in [Clients -> Nat \cup {Failed}] /\ taken \in Seq(Nat)

(* Pipe, and the two spawns of sh.c, after which it closes its own copies.  *)
PipeInit ==
    /\ inode = [HasRW |-> Clients, RRcv |-> NoClient, RLen |-> 0,
                WRcv |-> NoClient, WPtr |-> 0, WLeft |-> 0, WDone |-> 0]
    /\ finishing = <<>>
    /\ sender = <<>> /\ died = <<>>
    /\ client = [c \in Clients |-> "runs"] /\ process = [c \in Clients |-> "up"]
    /\ files = Clients
    /\ message = [c \in Clients |-> NoMessage] /\ told = [c \in Clients |-> 0]
    /\ taken = <<>>

-----------------------------------------------------------------------------
(* The programs.  Byte n of all that is ever written is the number n.      *)

Written == message["writer"].from + message["writer"].len

InProgram(c) == client[c] = "runs" /\ process[c] \in {"up", "signalled"}

Sends(c) ==
    /\ client' = [client EXCEPT ![c] = "send"]
    /\ sender' = Append(sender, c)
    /\ UNCHANGED <<inode, finishing, died, process, told, taken>>

ReadCalled ==
    /\ InProgram("reader") /\ "reader" \in files
    /\ \E n \in Sizes : message' = [message EXCEPT !["reader"] = [len |-> n, from |-> 0]]
    /\ Sends("reader") /\ UNCHANGED files

WriteCalled ==
    /\ InProgram("writer") /\ "writer" \in files
    /\ \E n \in Sizes :
         /\ Written + n <= MaxWritten
         /\ message' = [message EXCEPT !["writer"] = [len |-> n, from |-> Written]]
    /\ Sends("writer") /\ UNCHANGED files

(* remCon_S takes the connection out of PCB_Files and then sends IO_CLOSE.  *)
RemCon(c) ==
    /\ InProgram(c) /\ c \in files
    /\ files' = files \ {c}
    /\ Sends(c) /\ UNCHANGED message

(* A program that has closed its end is over.                              *)
ProgramEnds(c) ==
    /\ InProgram(c) /\ c \notin files
    /\ client' = [client EXCEPT ![c] = "gone"] /\ process' = [process EXCEPT ![c] = "over"]
    /\ UNCHANGED <<inode, finishing, sender, died, files, message, told, taken>>

(* sendSig: trySig makes a thread that calls exit_S, which takes no more.  *)
Pends(c) == [process EXCEPT ![c] = IF @ = "up" THEN "signalled" ELSE @]

Kill(c) ==
    /\ process[c] = "up" /\ process' = Pends(c)
    /\ UNCHANGED <<inode, finishing, sender, died, client, files, message, told, taken>>

(* SigTry and exit_S up to killThread: a message that nobody has received  *)
(* is withdrawn, one that waits for its answer leaves the thread Dieing.   *)
SigTry(c) ==
    /\ process[c] = "signalled"
    /\ process' = [process EXCEPT ![c] = "exits"]
    /\ client' = [client EXCEPT ![c] = IF @ = "reply" THEN "dieing" ELSE "gone"]
    /\ sender' = IF client[c] = "send" THEN Without(sender, c) ELSE sender
    /\ died' = IF client[c] = "reply" THEN <<c>> \o died ELSE died
    /\ UNCHANGED <<inode, finishing, files, message, told, taken>>

(* An answered thread ends by itself.                                      *)
ExtraKill(c) ==
    /\ client[c] = "ends" /\ client' = [client EXCEPT ![c] = "gone"]
    /\ UNCHANGED <<inode, finishing, sender, died, process, files, message, told, taken>>

(* exit_S goes on when PCB_MemUse is zero and closes what is still open.   *)
ExitCloses(c) ==
    /\ process[c] = "exits" /\ client[c] \in {"ends", "gone"}
    /\ process' = [process EXCEPT ![c] = IF c \in files THEN "closes" ELSE "over"]
    /\ sender' = IF c \in files THEN Append(sender, c) ELSE sender
    /\ files' = files \ {c}
    /\ UNCHANGED <<inode, finishing, died, client, message, told, taken>>

-----------------------------------------------------------------------------
(* The server *)

(* S_reply to the threads in answers, and with closer to one that closes.  *)
Replies(waiting, answers, closer) ==
    LET answered == DOMAIN answers \cup ({closer} \ {NoClient})
        exits == closer # NoClient /\ process[closer] = "closes"
    IN  /\ client' = [c \in Clients |->
                        CASE c \in answered /\ waiting[c] = "reply" -> "runs"
                          [] c \in answered /\ waiting[c] = "dieing" -> "ends"
                          [] OTHER -> waiting[c]]
        /\ told' = [c \in Clients |-> IF c \in DOMAIN answers THEN answers[c] ELSE told[c]]
        /\ process' = IF exits THEN [process EXCEPT ![closer] = "over"] ELSE process

\* tryRead moving on in the writer's memory by what was asked for at first.
TransferAgain(i, n) ==
    [i EXCEPT !.RRcv = NoClient, !.WRcv = IF i.WLeft = n THEN NoClient ELSE @,
              !.RLen = n, !.WDone = @ + n, !.WLeft = @ - n]

\* n bytes go from the write to the read; one that is used up is answered.
Transfer(i, n) ==
    [i EXCEPT !.RRcv = NoClient, !.WRcv = IF i.WLeft = n THEN NoClient ELSE @,
              !.RLen = n, !.WDone = @ + n, !.WPtr = @ + n, !.WLeft = @ - n]

NoAnswer == [c \in {} |-> 0]

(* What tryRead does: the inode afterwards, the answers it gives, the      *)
(* bytes it moves, and whether it is to kill the writer first.             *)
tryRead(i) ==
    LET n == IF i.RLen < i.WLeft THEN i.RLen ELSE i.WLeft
        after == Transfer(i, n)
        nothing == [inode |-> i, answers |-> NoAnswer, moved |-> <<>>, kills |-> FALSE]
    IN  CASE i.RRcv = NoClient -> [nothing EXCEPT !.kills = i.WRcv # NoClient /\ "reader" \notin i.HasRW]
          [] i.RRcv # NoClient /\ "writer" \notin i.HasRW ->
               [nothing EXCEPT !.inode.RRcv = NoClient, !.answers = [c \in {i.RRcv} |-> 0]]
          [] i.RRcv # NoClient /\ "writer" \in i.HasRW /\ i.WRcv = NoClient -> nothing
          [] OTHER ->
               [nothing EXCEPT !.inode = after,
                               !.moved = [k \in 1..n |-> i.WPtr + k],
                               !.answers = [c \in {i.RRcv} \cup ({i.WRcv} \ {after.WRcv}) |->
                                              IF c = i.RRcv THEN n ELSE after.WDone]]

(* tryRead at the end of a handler; waiting has the message received.      *)
Tries(i, waiting, closer) ==
    LET r == tryRead(i)
    IN  IF r.kills
        THEN /\ finishing' = <<[inode |-> r.inode, closer |-> closer]>>
             /\ process' = Pends(r.inode.WRcv) /\ client' = waiting
             /\ UNCHANGED <<inode, told, taken>>
        ELSE /\ inode' = r.inode /\ taken' = taken \o r.moved
             /\ Replies(waiting, r.answers, closer)
             /\ UNCHANGED finishing

(* receive_S and _FS_handle; pulses come before messages.                  *)
Serving == finishing = <<>>
Received(c) == [client EXCEPT ![c] = IF @ = "send" THEN "reply" ELSE @]
Takes(c) == Serving /\ died = <<>> /\ sender # <<>> /\ Head(sender) = c /\ sender' = Tail(sender)

PipeRead ==
    /\ Takes("reader") /\ "reader" \in files
    /\ Tries([inode EXCEPT !.RRcv = "reader", !.RLen = message["reader"].len], Received("reader"), NoClient)
    /\ UNCHANGED <<died, files, message>>

PipeWrite ==
    /\ Takes("writer") /\ "writer" \in files
    /\ Tries([inode EXCEPT !.WRcv = "writer", !.WPtr = message["writer"].from,
                           !.WLeft = message["writer"].len, !.WDone = 0],
             Received("writer"), NoClient)
    /\ UNCHANGED <<died, files, message>>

\* Close with nobody told who waits at the other end.
PipeCloseQuiet(c) ==
    /\ Takes(c) /\ c \notin files
    /\ inode' = [inode EXCEPT !.HasRW = @ \ {c}]
    /\ Replies(Received(c), NoAnswer, c) /\ UNCHANGED <<finishing, taken>>
    /\ UNCHANGED <<died, files, message>>

PipeClose(c) ==
    /\ Takes(c) /\ c \notin files
    /\ LET closed == [inode EXCEPT !.HasRW = @ \ {c}]
       IN  IF closed.HasRW = {}
           THEN inode' = closed /\ Replies(Received(c), NoAnswer, c) /\ UNCHANGED <<finishing, taken>>
           ELSE Tries(closed, Received(c), c)
    /\ UNCHANGED <<died, files, message>>

(* Behind S_kill the writer is told, if nothing else with X = 0 in tryRead. *)
WriterFails ==
    /\ ~Serving
    /\ LET f == Head(finishing)
       IN  /\ inode' = [f.inode EXCEPT !.WRcv = NoClient]
           /\ Replies(client, [c \in {f.inode.WRcv} |-> Failed], f.closer)
    /\ finishing' = <<>>
    /\ UNCHANGED <<sender, died, files, message, taken>>

(* Died: the thread is answered if the inode has it; no other thread is.   *)
PipeDied ==
    /\ Serving /\ died # <<>> /\ died' = Tail(died)
    /\ LET c == Head(died)
       IN  /\ inode' = CASE inode.RRcv = c -> [inode EXCEPT !.RRcv = NoClient]
                         [] inode.RRcv # c /\ inode.WRcv = c -> [inode EXCEPT !.WRcv = NoClient]
                         [] OTHER -> inode
           /\ client' = IF c \in {inode.RRcv, inode.WRcv} THEN [client EXCEPT ![c] = "ends"] ELSE client
    /\ UNCHANGED <<finishing, sender, process, files, message, told, taken>>

PipeServes == PipeRead \/ PipeWrite \/ (\E c \in Clients : PipeClose(c)) \/ WriterFails \/ PipeDied

ExitGoesOn(c) == ProgramEnds(c) \/ SigTry(c) \/ ExtraKill(c) \/ ExitCloses(c)

PipeNext ==
    \/ ReadCalled \/ WriteCalled
    \/ \E c \in Clients : RemCon(c) \/ Kill(c) \/ ExitGoesOn(c)
    \/ PipeServes

(* Threads that can run do; what a program asks for, and when, is its own. *)
PipeFairness ==
    /\ WF_pipeVars(PipeServes)
    /\ \A c \in Clients : WF_pipeVars(SigTry(c)) /\ WF_pipeVars(ExtraKill(c)) /\ WF_pipeVars(ExitCloses(c))

PipeSpec == PipeInit /\ [][PipeNext]_pipeVars /\ PipeFairness

-----------------------------------------------------------------------------
Waits(c) == client[c] \in {"send", "reply"} /\ c \in files
Answered(c) == client[c] = "runs" /\ c \in files /\ message[c] # NoMessage

(* The server answers exactly the threads that wait for it: S_reply checks *)
(* nothing but a signature, and a thread it forgets waits for ever.        *)
KnowsWhoWaits ==
    Serving => \A c \in Clients :
        (c \in {inode.RRcv, inode.WRcv}) <=> (client[c] \in {"reply", "dieing"})

(* Bytes arrive in order, once each.  A write has returned when all of its  *)
(* bytes have been moved, or failed without a reader; a read has returned  *)
(* with bytes, or with none when there is no writer (tryRead).             *)
TellsTrue ==
    /\ \A k \in DOMAIN taken : taken[k] = k
    /\ Answered("writer") =>
         IF told["writer"] = Failed THEN "reader" \notin inode.HasRW \/ ~Serving
         ELSE told["writer"] = message["writer"].len /\ Len(taken) = Written
    /\ Answered("reader") =>
         IF told["reader"] = 0 THEN "writer" \notin inode.HasRW
         ELSE told["reader"] \in 1..message["reader"].len

(* Whatever the two processes do and however they end, at any moment.      *)
PipeSound == PipeTypeOK /\ KnowsWhoWaits /\ TellsTrue

(* Nobody waits for a process that is over, unless it was killed when its  *)
(* own IO_CLOSE had been sent and not received; and a process that gets a  *)
(* signal ends, even if the other end never reads, writes or closes.       *)
NeverClosed(c) == process[c] = "over" /\ c \in inode.HasRW

PipeLetsGo ==
    PipeFairness => \A c \in Clients :
        /\ (Waits(c) /\ process[OtherEnd(c)] = "over") ~> (~Waits(c) \/ NeverClosed(OtherEnd(c)))
        /\ (process[c] = "signalled") ~> (process[c] = "over")
=============================================================================
