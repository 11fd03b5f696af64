------------------------------- MODULE Telnetd -------------------------------
(***************************************************************************)
(* The telnet server, src/programs/inetapps/telnetd.c: one thread carries  *)
(* the bytes of every connection between its socket and the terminal of    *)
(* its login.  Both ends are read without blocking; a read that finds      *)
(* nothing asks for a notice and blocks its direction until it comes.      *)
(*                                                                         *)
(* What the bytes are is left out: a buffer is empty or it is not, and a   *)
(* telnet command that is answered puts something in the other buffer.     *)
(* write() does not block either and its result is not looked at: what it  *)
(* did not take is gone, for the buffer is empty afterwards.               *)
(***************************************************************************)
EXTENDS Naturals, Queues

CONSTANTS
    MaxCons,       \* connections ever accepted, below the width of conup
    MaxData        \* times that data arrives at either end of one

ASSUME TelnetAssumption == MaxCons \in Nat \ {0} /\ MaxCons <= 65535 /\ MaxData \in Nat

VARIABLES
    cons,          \* the circular list of connections, head first
    con,           \* con[n]: the telCon with the number n and its two files
    conup,         \* numbers given out
    loop,          \* where main is: [at, cur, done]
    notices,       \* messages waiting at the channel
    arrived,       \* how often data has arrived
    lost           \* history: connections of which a write() took too little

telnetVars == <<cons, con, conup, loop, notices, arrived, lost>>

Nums == 1..MaxCons
Ends == {"net", "tty"}
Across(e) == IF e = "net" THEN "tty" ELSE "net"

(* For each end of a connection: what can be read there, whether the main  *)
(* loop waits for a notice (sblock, pblock), whether one was asked for,    *)
(* and whether something waits in memory to be written there (slen, plen). *)
NewEnd == [ready |-> "nothing", block |-> FALSE, asked |-> FALSE, buffered |-> FALSE]

TelnetInit ==
    /\ cons = <<>>
    /\ con = [n \in Nums |-> [e \in Ends |-> NewEnd]]
    /\ conup = 0
    /\ loop = [at |-> "wait", cur |-> 1, done |-> TRUE]
    /\ notices = <<>>
    /\ arrived = 0
    /\ lost = {}

-----------------------------------------------------------------------------
(* The main loop *)

(* while(head): one round after another, until nothing was read in one.    *)
Begin(list) == [at |-> IF list = <<>> THEN "wait" ELSE "net", cur |-> 1, done |-> TRUE]

ProceedOnce(done) ==
    IF loop.at = "net" THEN [loop EXCEPT !.at = "tty", !.done = done]
    ELSE IF loop.cur < Len(cons) THEN [at |-> "net", cur |-> loop.cur + 1, done |-> done]
    ELSE [at |-> "wait", cur |-> 1, done |-> TRUE]

(* From one end to the other, and then to the next connection.             *)
Proceed(done) ==
    IF loop.at = "net" THEN [loop EXCEPT !.at = "tty", !.done = done]
    ELSE IF loop.cur < Len(cons) THEN [at |-> "net", cur |-> loop.cur + 1, done |-> done]
    ELSE IF done THEN [at |-> "wait", cur |-> 1, done |-> TRUE]
    ELSE [at |-> "net", cur |-> 1, done |-> TRUE]

(* flushserve and flushpty, to the ends es: write() takes all of it or not *)
(* (slen and plen are set to 0 whatever res is).                           *)
flush(c, es) == [e \in Ends |-> [c[e] EXCEPT !.buffered = @ /\ e \notin es]]
MayLose(n, written) ==
    \/ lost' = lost
    \/ written /\ lost' = lost \cup {n}
Waiting(n, es) == \E e \in es : con[n][e].buffered

BlocksUnflushed(n, e) ==
    LET c == flush(con[n], {"net"})
    IN  /\ MayLose(n, Waiting(n, {"net"}))
        /\ con' = [con EXCEPT ![n] = [c EXCEPT ![e].block = TRUE, ![e].asked = TRUE]]
        /\ loop' = Proceed(loop.done)
        /\ UNCHANGED cons

(* readser and readpty: EAGAIN.  readser writes out both buffers, readpty  *)
(* only what goes to the server.                                           *)
Blocks(n, e) ==
    LET es == IF e = "net" THEN Ends ELSE {"net"}
        c == flush(con[n], es)
    IN  /\ MayLose(n, Waiting(n, es))
        /\ con' = [con EXCEPT ![n] = [c EXCEPT ![e].block = TRUE, ![e].asked = TRUE]]
        /\ loop' = Proceed(loop.done)
        /\ UNCHANGED cons

(* What was read waits in the buffer for the other end; of what came from  *)
(* the server some or all may be telnet commands, which may be answered.   *)
(* A buffer that had something in it may run full, and outserve and outpty *)
(* then write it out before the last of what was read is in it, or after.  *)
output(c, e, into, emptied) ==
    [f \in Ends |-> [c[f] EXCEPT !.ready = IF f = e THEN "nothing" ELSE @,
                                 !.buffered = (@ \/ f \in into) /\ f \notin emptied]]

Reads(n, e) ==
    /\ \E into \in (IF e = "net" THEN SUBSET Ends ELSE {{"net"}}) :
       \E full \in SUBSET {f \in into : con[n][f].buffered} :
       \E emptied \in SUBSET full :
          /\ con' = [con EXCEPT ![n] = output(con[n], e, into, emptied)]
          /\ MayLose(n, full # {})
    /\ loop' = Proceed(FALSE)
    /\ UNCHANGED cons

(* closecon, and the round begins again with the done it had.              *)
Closes(n) ==
    LET left == Without(cons, n) IN
    /\ con' = [con EXCEPT ![n] = flush(con[n], Ends)]
    /\ MayLose(n, Waiting(n, Ends))
    /\ cons' = left
    /\ loop' = [Begin(left) EXCEPT !.done = IF left = <<>> THEN TRUE ELSE loop.done]

Turn ==
    /\ loop.at \in Ends
    /\ LET n == cons[loop.cur]
           e == loop.at
       IN  IF con[n][e].block
           THEN loop' = Proceed(loop.done) /\ UNCHANGED <<cons, con, lost>>
           ELSE CASE con[n][e].ready = "nothing" -> Blocks(n, e)
                  [] con[n][e].ready = "data" -> Reads(n, e)
                  [] con[n][e].ready = "end" -> Closes(n)
    /\ UNCHANGED <<conup, notices, arrived>>

(* IO_NFYREAD.  findCon returns nothing in particular if the connection is *)
(* not in a list that is not empty: NULL, or the head it ended with.       *)
Noticed ==
    /\ loop.at = "wait" /\ notices # <<>>
    /\ LET m == Head(notices)
           found == {n \in ToSet(cons) : n = m.num}
           hits == IF found # {} THEN {found} ELSE {{}, {cons[i] : i \in DOMAIN cons \cap {1}}}
       IN  /\ m.end \in Ends
           /\ \E hit \in hits :
                 con' = [n \in Nums |-> IF n \in hit THEN [con[n] EXCEPT ![m.end].block = FALSE] ELSE con[n]]
    /\ notices' = Tail(notices)
    /\ loop' = Begin(cons)
    /\ UNCHANGED <<cons, conup, arrived, lost>>

(* IO_NFYWRITE on the listening socket: the new connection has its options *)
(* sent by prepCon; or accept or getpty fails.                             *)
Accepts ==
    /\ loop.at = "wait" /\ notices # <<>>
    /\ Head(notices).end = "listen"
    /\ \/ /\ conup < MaxCons
          /\ conup' = conup + 1
          /\ cons' = Append(cons, conup')
          /\ MayLose(conup', TRUE)
       \/ UNCHANGED <<conup, cons, lost>>
    /\ notices' = Tail(notices)
    /\ loop' = Begin(cons')
    /\ UNCHANGED <<con, arrived>>

-----------------------------------------------------------------------------
(* The other side of the files *)

Notice(n, e) == [num |-> n, end |-> e]

(* Data arrives at one end, or the end of it: the peer closes, or the      *)
(* shell exits.                                                            *)
Arrives ==
    /\ arrived < MaxData /\ arrived' = arrived + 1
    /\ \E n \in ToSet(cons), e \in Ends, what \in {"data", "end"} :
          /\ con[n][e].ready # "end"
          /\ con' = [con EXCEPT ![n][e].ready = what]
    /\ UNCHANGED <<cons, conup, loop, notices, lost>>

(* A file that was asked answers when there is something to read.          *)
Notifies(n, e) ==
    /\ con[n][e].asked /\ con[n][e].ready # "nothing"
    /\ con' = [con EXCEPT ![n][e].asked = FALSE]
    /\ notices' = Append(notices, Notice(n, e))
    /\ UNCHANGED <<cons, conup, loop, arrived, lost>>

Calls ==
    /\ conup < MaxCons
    /\ ~\E i \in DOMAIN notices : notices[i].end = "listen"
    /\ notices' = Append(notices, Notice(0, "listen"))
    /\ UNCHANGED <<cons, con, conup, loop, arrived, lost>>

TelnetNext ==
    \/ Turn \/ Noticed \/ Accepts
    \/ Arrives \/ Calls \/ \E n \in Nums, e \in Ends : Notifies(n, e)

TelnetSpec == TelnetInit /\ [][TelnetNext]_telnetVars

TelnetFairness ==
    /\ WF_telnetVars(Turn \/ Noticed \/ Accepts)
    /\ \A n \in Nums, e \in Ends : WF_telnetVars(Notifies(n, e))

-----------------------------------------------------------------------------
(* The server waits for a message only when it has handed to write() all   *)
(* that it has read, every end it reads is blocked, and whatever comes     *)
(* there will wake it: no order of arrivals, closings and rounds (done)    *)
(* leaves a connection that hangs until something else happens.            *)
WaitsForAll ==
    loop.at = "wait" /\ notices = <<>> =>
        \A n \in ToSet(cons), e \in Ends :
            con[n][e].block /\ con[n][e].asked /\ ~con[n][e].buffered

(* What arrives at either end of a connection is read and handed to        *)
(* write() at the other, and taken there, unless the connection closes or  *)
(* one of its writes has taken less than it was given: those bytes are     *)
(* gone, and nothing is said of the connection any more.                   *)
Carried ==
    TelnetFairness => \A n \in Nums :
        (\E e \in Ends : con[n][e].ready = "data" \/ con[n][e].buffered)
            ~> \/ \A e \in Ends : con[n][e].ready # "data" /\ ~con[n][e].buffered
               \/ n \notin ToSet(cons)
               \/ n \in lost
=============================================================================
