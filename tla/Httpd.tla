-------------------------------- MODULE Httpd --------------------------------
(***************************************************************************)
(* The web server, src/programs/inetapps/httpd.c: one thread reads the     *)
(* requests of every connection, reads files into their buffers and writes *)
(* the buffers to their sockets, never blocking on one of them: a socket   *)
(* that has nothing, or takes nothing, is asked for a notice and left      *)
(* alone until it comes.                                                   *)
(*                                                                         *)
(* A browser sends one request.  Its bytes are units: the request line,    *)
(* the empty line, the bytes of what is posted; those of an answer are its *)
(* header, numbered 1, and the pieces of the file.                         *)
(***************************************************************************)
EXTENDS Queues

CONSTANTS
    MaxVisits,     \* connections ever accepted, below the width of conup
    FileLen,       \* pieces of a file
    BufLen,        \* units in a buffer (BUFLEN)
    Posted,        \* units in the body of a POST
    Wanted(_)      \* the requests the n-th browser may make

ASSUME HttpAssumption ==
    /\ MaxVisits \in Nat \ {0} /\ MaxVisits <= 65535
    /\ FileLen \in Nat /\ BufLen \in Nat \ {0} /\ Posted \in Nat

VARIABLES
    webs,          \* the circular list of connections, head first
    web,           \* web[n]: the webCon with the number n
    visitor,       \* visitor[n]: the browser at its other end
    visits,        \* conup: the numbers given out
    httpLoop,      \* where main is: [at, cur, done]
    httpNotices    \* messages waiting at chan

httpVars == <<webs, web, visitor, visits, httpLoop, httpNotices>>

Visits == 1..MaxVisits

(* What the name in a request turns out to be (startSend): a file (or a    *)
(* directory, listed in a temporary one), a script, or nothing there.      *)
Kinds == {"file", "script", "none"}
Whole(kind) == IF kind = "file" THEN [i \in 1..FileLen + 1 |-> i] ELSE <<1>>

RequestLines == [method : {"GET", "POST"}, kind : Kinds]
RequestUnits(r) == <<"line", "empty">> \o [i \in 1..(IF r.method = "POST" THEN Posted ELSE 0) |-> "body"]

NewWeb == [state |-> "NORMAL", request |-> FALSE, conlen |-> 0, rsblock |-> FALSE, wsblock |-> FALSE,
           buf |-> <<>>, bdone |-> 0, file |-> 0]

HttpInit ==
    /\ webs = <<>>
    /\ web = [n \in Visits |-> NewWeb]
    /\ visitor \in [Visits -> {[wants |-> r, tosend |-> RequestUnits(r), onway |-> <<>>, got |-> <<>>, room |-> TRUE,
                                readAsked |-> FALSE, writeAsked |-> FALSE, left |-> FALSE] : r \in RequestLines}]
    /\ \A n \in Visits : visitor[n].wants \in Wanted(n)
    /\ visits = 0
    /\ httpLoop = [at |-> "wait", cur |-> 1, done |-> TRUE]
    /\ httpNotices = <<>>

-----------------------------------------------------------------------------
(* What main does for one connection in a round: readser, tryFill,         *)
(* flushout.                                                               *)

(* startSend: the answer's header goes into the empty buffer.              *)
startSend(c, kind) ==
    [c EXCEPT !.buf = <<1>>,
              !.state = CASE kind = "file" -> "SENDING" [] kind = "script" -> "CGI" [] kind = "none" -> "DONE",
              !.file = 1]

(* gotline, and a byte of what is posted.                                  *)
TakesUnit(c, unit, wants) ==
    CASE unit = "line" -> [c EXCEPT !.request = TRUE,
                                    !.conlen = IF wants.method = "POST" THEN Posted ELSE 0]
      [] unit = "empty" -> IF ~c.request THEN [c EXCEPT !.state = "DONE"]
                           ELSE IF wants.method = "POST" /\ c.conlen > 0 THEN [c EXCEPT !.state = "POSTING"]
                           ELSE startSend(c, wants.kind)
      [] unit = "body" -> IF c.state # "POSTING" THEN c    \* a line of its own, of no meaning
                          ELSE IF c.conlen = 1 THEN startSend([c EXCEPT !.conlen = 0], wants.kind)
                          ELSE [c EXCEPT !.conlen = @ - 1]

readser(n) ==
    LET v == visitor[n]
        c[i \in 0..Len(v.onway)] ==
            IF i = 0 THEN web[n] ELSE TakesUnit(c[i - 1], v.onway[i], v.wants)
    IN  c[Len(v.onway)]

(* tryFill: the file is read until the buffer is full or the file at its   *)
(* end.                                                                    *)
tryFill(c) ==
    IF c.state # "SENDING" \/ Len(c.buf) >= BufLen THEN c
    ELSE LET room == BufLen - Len(c.buf)
             upto == IF c.file + room <= FileLen + 1 THEN c.file + room ELSE FileLen + 1
         IN  IF upto = c.file THEN [c EXCEPT !.state = "DONE"]
             ELSE [c EXCEPT !.buf = @ \o [i \in 1..upto - c.file |-> c.file + i], !.file = upto]

(* A script gets the socket as its output as soon as the header is out;    *)
(* the server is done with the connection.                                 *)
HandsOver(c) == c.state = "CGI" /\ c.buf = <<>>

flushoutAgain(c, amount) ==
    IF c.bdone + amount >= Len(c.buf)
    THEN [c EXCEPT !.buf = <<>>, !.bdone = 0, !.wsblock = FALSE]
    ELSE [c EXCEPT !.wsblock = FALSE]

(* flushout: some of the buffer is written.                                *)
flushout(c, amount) ==
    IF c.bdone + amount >= Len(c.buf)
    THEN [c EXCEPT !.buf = <<>>, !.bdone = 0, !.wsblock = FALSE]
    ELSE [c EXCEPT !.bdone = @ + amount, !.wsblock = FALSE]

Finished(c) == c.state = "DONE" /\ c.buf = <<>>

-----------------------------------------------------------------------------
(* while(head): round after round until nothing was read or written in     *)
(* one, or a message waits at the end of one.                              *)
BeginRounds(list) == [at |-> IF list = <<>> THEN "wait" ELSE "round", cur |-> 1, done |-> TRUE]

NextWebOnce(done) ==
    IF httpLoop.cur < Len(webs) THEN [httpLoop EXCEPT !.cur = @ + 1, !.done = done]
    ELSE [at |-> "wait", cur |-> 1, done |-> TRUE]

NextWeb(done) ==
    IF httpLoop.cur < Len(webs) THEN [httpLoop EXCEPT !.cur = @ + 1, !.done = done]
    ELSE IF done \/ httpNotices # <<>> THEN [at |-> "wait", cur |-> 1, done |-> TRUE]
    ELSE BeginRounds(webs)

(* bad: closecon; the rounds start again at the head with the done they    *)
(* had.                                                                    *)
closecon(n, c, v, done) ==
    LET left == Without(webs, n) IN
    /\ web' = [web EXCEPT ![n] = [c EXCEPT !.state = "CLOSED"]]
    /\ visitor' = [visitor EXCEPT ![n] = [v EXCEPT !.readAsked = FALSE, !.writeAsked = FALSE,
                                                   !.tosend = <<>>, !.onway = <<>>]]
    /\ webs' = left
    /\ httpLoop' = [BeginRounds(left) EXCEPT !.done = IF left = <<>> THEN TRUE ELSE done]

(* The rest of the pass over a connection once it was read (c, with its    *)
(* browser v and done).                                                    *)
Serves(n, c, v, done) ==
    IF HandsOver(c)
    THEN closecon(n, c, v, done)
    ELSE LET d == tryFill(c) IN
         IF d.wsblock \/ d.buf = <<>>
         THEN IF Finished(d) THEN closecon(n, d, v, done)
              ELSE /\ web' = [web EXCEPT ![n] = d] /\ visitor' = [visitor EXCEPT ![n] = v]
                   /\ httpLoop' = NextWeb(done) /\ UNCHANGED webs
         ELSE IF v.left
         THEN closecon(n, d, v, done)                       \* the write fails
         ELSE IF ~v.room
         THEN /\ web' = [web EXCEPT ![n] = [d EXCEPT !.wsblock = TRUE]]
              /\ visitor' = [visitor EXCEPT ![n] = [v EXCEPT !.writeAsked = TRUE]]
              /\ httpLoop' = NextWeb(done) /\ UNCHANGED webs
         ELSE \E amount \in 1..Len(d.buf) - d.bdone, room \in BOOLEAN :
                LET e == flushout(d, amount)
                    w == [v EXCEPT !.got = @ \o SubSeq(d.buf, d.bdone + 1, d.bdone + amount), !.room = room]
                IN  IF Finished(e) THEN closecon(n, e, w, FALSE)
                    ELSE /\ web' = [web EXCEPT ![n] = e] /\ visitor' = [visitor EXCEPT ![n] = w]
                         /\ httpLoop' = NextWeb(FALSE) /\ UNCHANGED webs

Pass ==
    /\ httpLoop.at = "round"
    /\ LET n == webs[httpLoop.cur]
           v == visitor[n]
       IN  IF web[n].rsblock
           THEN Serves(n, web[n], v, httpLoop.done)
           ELSE IF v.onway # <<>>
           THEN Serves(n, readser(n), [v EXCEPT !.onway = <<>>], FALSE)
           ELSE IF v.left
           THEN closecon(n, web[n], v, httpLoop.done)
           ELSE Serves(n, [web[n] EXCEPT !.rsblock = TRUE], [v EXCEPT !.readAsked = TRUE], httpLoop.done)
    /\ UNCHANGED <<visits, httpNotices>>

(* A message: something to read, room to write, or a new connection.       *)
Told ==
    /\ httpLoop.at = "wait" /\ httpNotices # <<>>
    /\ Head(httpNotices).about \in {"read", "write"}
    /\ LET m == Head(httpNotices)
           others == IF m.num \in ToSet(webs) THEN {m.num} ELSE {0, IF webs = <<>> THEN 0 ELSE Head(webs)}
       IN  \E n \in others :      \* findCon of a number that is gone: NULL, or the head
              web' = [k \in Visits |->
                        IF k # n THEN web[k]
                        ELSE IF m.about = "read" THEN [web[k] EXCEPT !.rsblock = FALSE]
                        ELSE [web[k] EXCEPT !.wsblock = FALSE]]
    /\ httpNotices' = Tail(httpNotices)
    /\ httpLoop' = BeginRounds(webs)
    /\ UNCHANGED <<webs, visitor, visits>>

prepCon ==
    /\ httpLoop.at = "wait" /\ httpNotices # <<>>
    /\ Head(httpNotices).about = "listen"
    /\ visits' = visits + 1
    /\ webs' = Append(webs, visits')
    /\ httpNotices' = Tail(httpNotices)
    /\ httpLoop' = BeginRounds(webs')
    /\ UNCHANGED <<web, visitor>>

-----------------------------------------------------------------------------
(* The browsers and the network, as long as a connection is open *)

Visit ==
    /\ visits < MaxVisits
    /\ ~\E i \in DOMAIN httpNotices : httpNotices[i].about = "listen"
    /\ httpNotices' = Append(httpNotices, [about |-> "listen", num |-> 0])
    /\ UNCHANGED <<webs, web, visitor, visits, httpLoop>>

(* The next units of a request arrive, as many as the network likes.       *)
RequestArrives(n) ==
    /\ n \in ToSet(webs) /\ visitor[n].tosend # <<>> /\ ~visitor[n].left
    /\ \E k \in 1..Len(visitor[n].tosend) :
          visitor' = [visitor EXCEPT ![n].onway = @ \o SubSeq(visitor[n].tosend, 1, k),
                                     ![n].tosend = SubSeq(@, k + 1, Len(@))]
    /\ UNCHANGED <<webs, web, visits, httpLoop, httpNotices>>

(* A browser reads what it was sent; or goes away.                         *)
MakesRoom(n) ==
    /\ n \in ToSet(webs) /\ ~visitor[n].room
    /\ visitor' = [visitor EXCEPT ![n].room = TRUE]
    /\ UNCHANGED <<webs, web, visits, httpLoop, httpNotices>>

HangsUp(n) ==
    /\ n \in ToSet(webs) /\ ~visitor[n].left
    /\ visitor' = [visitor EXCEPT ![n].left = TRUE]
    /\ UNCHANGED <<webs, web, visits, httpLoop, httpNotices>>

(* The TCP server answers what was asked of it.                            *)
CanRead(n) ==
    /\ visitor[n].readAsked /\ (visitor[n].onway # <<>> \/ visitor[n].left)
    /\ visitor' = [visitor EXCEPT ![n].readAsked = FALSE]
    /\ httpNotices' = Append(httpNotices, [about |-> "read", num |-> n])
    /\ UNCHANGED <<webs, web, visits, httpLoop>>

CanWrite(n) ==
    /\ visitor[n].writeAsked /\ (visitor[n].room \/ visitor[n].left)
    /\ visitor' = [visitor EXCEPT ![n].writeAsked = FALSE]
    /\ httpNotices' = Append(httpNotices, [about |-> "write", num |-> n])
    /\ UNCHANGED <<webs, web, visits, httpLoop>>

HttpNext ==
    \/ Pass \/ Told \/ prepCon \/ Visit
    \/ \E n \in Visits : RequestArrives(n) \/ MakesRoom(n) \/ HangsUp(n) \/ CanRead(n) \/ CanWrite(n)

HttpSpec == HttpInit /\ [][HttpNext]_httpVars

(* The server's thread runs; TCP tells it what it asked for; browsers send *)
(* their requests and read the answers.                                    *)
HttpFairness ==
    /\ WF_httpVars(Pass \/ Told \/ prepCon)
    /\ \A n \in Visits : /\ WF_httpVars(CanRead(n)) /\ WF_httpVars(CanWrite(n))
                         /\ WF_httpVars(RequestArrives(n)) /\ WF_httpVars(MakesRoom(n))

-----------------------------------------------------------------------------
(* Whatever way the network cuts requests and answers, what a browser has  *)
(* is the beginning of the answer it asked for, and all of it once the     *)
(* server has closed the connection, unless the browser left first.        *)
WholeAnswer ==
    \A n \in 1..visits :
        LET v == visitor[n] IN
        /\ IsPrefix(v.got, Whole(v.wants.kind))
        /\ web[n].state = "CLOSED" /\ ~v.left => v.got = Whole(v.wants.kind)

(* Every connection is closed in the end: no order of notices, rounds and  *)
(* closings leaves one that the server forgets.                            *)
Served == HttpFairness => \A n \in Visits : n <= visits ~> web[n].state = "CLOSED"
=============================================================================
