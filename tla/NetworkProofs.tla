---------------------------- MODULE NetworkProofs ----------------------------
(***************************************************************************)
(* What is proved of the programs that talk to other machines: the telnet   *)
(* server hangs nowhere, the web server's answers are whole however the    *)
(* network cuts them, and until it reads a block short the network disk is *)
(* a block device, wherever its commands are cut, whose server always has  *)
(* room for a command; and a point-to-point link only comes up with the    *)
(* address granted to it.                                                  *)
(***************************************************************************)
EXTENDS Telnetd, Httpd, NetDisk, Ppp, QueuesProofs

-----------------------------------------------------------------------------
(* The telnet server *)

End == [ready : {"nothing", "data", "end"}, block : BOOLEAN, asked : BOOLEAN, buffered : BOOLEAN]

TelnetTypes ==
    /\ cons \in Seq(Nums) /\ Distinct(cons) /\ conup \in 0..MaxCons
    /\ con \in [Nums -> [Ends -> End]]
    /\ loop \in [at : Ends \cup {"wait"}, cur : Nat, done : BOOLEAN]
    /\ loop.at \in Ends => loop.cur \in 1..Len(cons)
    /\ notices \in Seq([num : 0..MaxCons, end : Ends \cup {"listen"}])

(* Numbers not yet given out belong to no connection.                      *)
Unused == \A n \in Nums : n > conup => n \notin On(cons) /\ con[n] = [e \in Ends |-> NewEnd]

(* Who waits for a notice has asked for it or it is on its way.            *)
Heard ==
    \A n \in On(cons), e \in Ends :
        con[n][e].block => con[n][e].asked \/ \E i \in 1..Len(notices) : notices[i] = Notice(n, e)

(* What was read from one end is written before the server waits for that   *)
(* end; readpty alone leaves the other buffer for readser to write.        *)
Written ==
    \A n \in Nums :
        /\ con[n]["tty"].buffered => ~con[n]["net"].block
        /\ con[n]["net"].buffered => ~con[n]["net"].block \/ ~con[n]["tty"].block

(* A round with done set has found nothing yet: where it has been, all is   *)
(* blocked, and so is everything when the server waits.                    *)
Blocked(n) == \A e \in Ends : con[n][e].block

RoundSoFar ==
    /\ loop.at \in Ends /\ loop.done =>
          /\ \A i \in 1..Len(cons) : i < loop.cur => Blocked(cons[i])
          /\ loop.at = "tty" => con[cons[loop.cur]]["net"].block
    /\ loop.at = "wait" => \A i \in 1..Len(cons) : Blocked(cons[i])

TelnetInv == TelnetTypes /\ Unused /\ Heard /\ Written /\ RoundSoFar

LEMMA EndOf ==
    ASSUME TelnetTypes, NEW n \in Nums, NEW e \in Ends
    PROVE  /\ con[n][e] \in End /\ con[n][e].block \in BOOLEAN /\ con[n][e].asked \in BOOLEAN
           /\ con[n][e].buffered \in BOOLEAN /\ con[n][e].ready \in {"nothing", "data", "end"}
BY DEF TelnetTypes, End

LEMMA TurnIs ==
    ASSUME TelnetTypes, loop.at \in Ends
    PROVE  /\ loop.cur \in 1..Len(cons) /\ loop.cur \in Nat /\ Len(cons) \in Nat
           /\ cons[loop.cur] \in Nums /\ cons[loop.cur] \in On(cons)
           /\ \A i \in 1..Len(cons) : cons[i] \in Nums /\ cons[i] \in On(cons)
           /\ \A m \in On(cons) : m \in Nums
BY OnMember DEF TelnetTypes

(* How a round goes on when its turn found nothing, or found something.     *)
LEMMA ProceedKeeps ==
    ASSUME TelnetTypes, RoundSoFar, loop.at \in Ends, NEW done \in BOOLEAN, done => loop.done,
           loop' = Proceed(done), cons' = cons,
           \A m \in Nums, f \in Ends : con[m][f].block => con'[m][f].block,
           done => con'[cons[loop.cur]][loop.at].block
    PROVE  /\ RoundSoFar'
           /\ loop' \in [at : Ends \cup {"wait"}, cur : Nat, done : BOOLEAN]
           /\ loop'.at \in Ends => loop'.cur \in 1..Len(cons')
<1>1. /\ loop \in [at : Ends \cup {"wait"}, cur : Nat, done : BOOLEAN]
      /\ \A i \in 1..Len(cons) : cons[i] \in Nums
      /\ loop.cur \in 1..Len(cons) /\ Len(cons) \in Nat
  BY TurnIs DEF TelnetTypes
<1>2. ASSUME done
      PROVE  /\ \A i \in 1..Len(cons) : i < loop.cur => Blocked(cons[i])'
             /\ loop.at = "tty" => con'[cons[loop.cur]]["net"].block
  BY <1>1, <1>2 DEF RoundSoFar, Blocked, Ends
<1>3. CASE loop.at = "net"
  <2>1. loop' = [loop EXCEPT !.at = "tty", !.done = done]
    BY <1>3 DEF Proceed
  <2>2. loop'.at = "tty" /\ loop'.done = done /\ loop'.cur = loop.cur
    BY <1>1, <2>1
  <2>3. QED BY <1>1, <1>2, <1>3, <2>1, <2>2 DEF RoundSoFar, Ends
<1>4. CASE loop.at # "net" /\ loop.cur < Len(cons)
  <2>1. loop' = [at |-> "net", cur |-> loop.cur + 1, done |-> done] /\ loop.at = "tty"
    BY <1>4 DEF Proceed, Ends
  <2>2. ASSUME done, NEW i \in 1..Len(cons), i < loop.cur + 1 PROVE Blocked(cons[i])'
    <3>1. CASE i = loop.cur
      BY <1>2, <2>1, <2>2, <3>1 DEF Blocked, Ends
    <3>2. CASE i # loop.cur
      BY <1>1, <1>2, <2>2, <3>2
    <3>3. QED BY <3>1, <3>2
  <2>3. QED BY <1>1, <1>4, <2>1, <2>2 DEF RoundSoFar, Ends
<1>5. CASE loop.at # "net" /\ ~ (loop.cur < Len(cons)) /\ done
  <2>1. loop' = [at |-> "wait", cur |-> 1, done |-> TRUE] /\ loop.at = "tty"
    BY <1>5 DEF Proceed, Ends
  <2>2. ASSUME NEW i \in 1..Len(cons) PROVE Blocked(cons[i])'
    <3>1. CASE i = loop.cur
      BY <1>2, <1>5, <2>1, <3>1 DEF Blocked, Ends
    <3>2. CASE i # loop.cur
      BY <1>1, <1>2, <1>5, <3>2
    <3>3. QED BY <3>1, <3>2
  <2>3. QED BY <2>1, <2>2 DEF RoundSoFar, Ends
<1>6. CASE loop.at # "net" /\ ~ (loop.cur < Len(cons)) /\ ~ done
  <2>1. loop' = [at |-> "net", cur |-> 1, done |-> TRUE]
    BY <1>6 DEF Proceed, Ends
  <2>2. 1 \in 1..Len(cons) /\ ~ \E i \in 1..Len(cons) : i < 1
    BY <1>1
  <2>3. QED BY <2>1, <2>2 DEF RoundSoFar, Ends
<1>7. QED BY <1>3, <1>4, <1>5, <1>6

LEMMA BlocksKeeps ==
    ASSUME TelnetInv, loop.at \in Ends, Blocks(cons[loop.cur], loop.at),
           UNCHANGED <<conup, notices, arrived>>
    PROVE  TelnetInv'
<1> DEFINE n == cons[loop.cur]
           e == loop.at
           es == IF e = "net" THEN Ends ELSE {"net"}
<1>1. n \in Nums /\ n \in On(cons) /\ e \in Ends /\ (\A m \in On(cons) : m \in Nums) /\ TelnetTypes
  BY SMTT(40), TurnIs DEF TelnetInv
<1>2. con' = [con EXCEPT ![n] = [flush(con[n], es) EXCEPT ![e].block = TRUE, ![e].asked = TRUE]]
  BY SMTT(90) DEF Blocks
<1>3. loop' = Proceed(loop.done) /\ cons' = cons /\ conup' = conup /\ notices' = notices
  BY DEF Blocks
<1> HIDE DEF n, e
<1>4. con \in [Nums -> [Ends -> End]]
  BY <1>1 DEF TelnetTypes
<1>5. \A m \in Nums : con'[m] = IF m = n THEN [flush(con[n], es) EXCEPT ![e].block = TRUE, ![e].asked = TRUE]
                                ELSE con[m]
  BY <1>1, <1>2, <1>4
<1> DEFINE g == flush(con[n], es)
<1>6. /\ g \in [Ends -> End]
      /\ \A f \in Ends : /\ g[f].block = con[n][f].block /\ g[f].asked = con[n][f].asked
                         /\ g[f].buffered = (con[n][f].buffered /\ f \notin es)
  <2>1. \A f \in Ends : con[n][f] \in End
    BY <1>1, <1>4
  <2>2. g = [f \in Ends |-> [con[n][f] EXCEPT !.buffered = @ /\ f \notin es]]
    BY DEF flush
  <2> HIDE DEF g, es
  <2>3. ASSUME NEW f \in Ends
        PROVE  /\ g[f] \in End
               /\ g[f].block = con[n][f].block /\ g[f].asked = con[n][f].asked
               /\ g[f].buffered = (con[n][f].buffered /\ f \notin es)
    <3>1. PICK r \in End : r = con[n][f]
      BY <2>1
    <3>2. g[f] = [r EXCEPT !.buffered = r.buffered /\ f \notin es]
      BY <2>2, <3>1
    <3>3. QED BY <3>1, <3>2 DEF End
  <2>4. QED BY <2>2, <2>3
<1>7. /\ con'[n] \in [Ends -> End]
      /\ \A f \in Ends : /\ con'[n][f].block = (f = e \/ con[n][f].block)
                         /\ con'[n][f].asked = (f = e \/ con[n][f].asked)
                         /\ con'[n][f].buffered = (con[n][f].buffered /\ f \notin es)
  <2>1. con'[n] = [g EXCEPT ![e].block = TRUE, ![e].asked = TRUE]
    BY <1>1, <1>5
  <2> HIDE DEF g, es
  <2>2. \A f \in Ends : con'[n][f] = IF f = e THEN [g[e] EXCEPT !.block = TRUE, !.asked = TRUE] ELSE g[f]
    BY <1>1, <1>6, <2>1
  <2>3. g[e] \in End
    BY <1>1, <1>6
  <2>4. ASSUME NEW f \in Ends
        PROVE  /\ con'[n][f] \in End
               /\ con'[n][f].block = (f = e \/ con[n][f].block)
               /\ con'[n][f].asked = (f = e \/ con[n][f].asked)
               /\ con'[n][f].buffered = (con[n][f].buffered /\ f \notin es)
    <3>1. CASE f = e
      <4>1. PICK r \in End : r = g[e]
        BY <2>3
      <4>2. con'[n][f] = [r EXCEPT !.block = TRUE, !.asked = TRUE]
        BY <2>2, <3>1, <4>1
      <4>3. /\ con'[n][f] \in End /\ con'[n][f].block = TRUE /\ con'[n][f].asked = TRUE
            /\ con'[n][f].buffered = r.buffered
        BY <4>2 DEF End
      <4>4. QED BY <1>1, <1>6, <3>1, <4>1, <4>3
    <3>2. CASE f # e
      <4>1. con'[n][f] = g[f] /\ con[n][f].block \in BOOLEAN /\ con[n][f].asked \in BOOLEAN
        BY <1>1, <2>2, <3>2, EndOf
      <4>2. QED BY <1>6, <3>2, <4>1
    <3>3. QED BY <3>1, <3>2
  <2>5. con'[n] = [f \in Ends |-> con'[n][f]]
    BY <1>6, <2>1
  <2>6. QED BY <2>4, <2>5
<1>8. con' \in [Nums -> [Ends -> End]]
  <2>1. con'[n] \in [Ends -> End] /\ \A m \in Nums : con'[m] \in [Ends -> End]
    BY <1>4, <1>5, <1>7
  <2>2. con' = [m \in Nums |-> con'[m]]
    BY <1>2, <1>4
  <2>3. QED BY <2>1, <2>2
<1>9. /\ RoundSoFar'
      /\ loop' \in [at : Ends \cup {"wait"}, cur : Nat, done : BOOLEAN]
      /\ loop'.at \in Ends => loop'.cur \in 1..Len(cons')
  <2>1. \A m \in Nums, f \in Ends : con[m][f].block => con'[m][f].block
    BY <1>5, <1>7
  <2>2. con'[cons[loop.cur]][loop.at].block
    BY <1>1, <1>7 DEF n, e
  <2>3. loop.done \in BOOLEAN
    BY <1>1 DEF TelnetTypes
  <2>4. QED BY <1>1, <1>3, <2>1, <2>2, <2>3, ProceedKeeps DEF TelnetInv, e
<1>10. TelnetTypes'
  BY <1>1, <1>3, <1>8, <1>9 DEF TelnetTypes
<1>11. Unused'
  <2>1. n <= conup
    BY <1>1 DEF TelnetInv, Unused, TelnetTypes, Nums
  <2>2. \A m \in Nums : m > conup => m # n
    BY <1>1, <2>1 DEF TelnetTypes, Nums
  <2>3. QED BY <1>3, <1>5, <2>2 DEF TelnetInv, Unused
<1>12. Heard'
  <2>1. ASSUME NEW m \in On(cons), NEW f \in Ends, con'[m][f].block
        PROVE  con'[m][f].asked \/ \E i \in 1..Len(notices) : notices[i] = Notice(m, f)
    BY ZenonT(50), <1>1, <1>5, <1>7, <2>1 DEF TelnetInv, Heard
  <2>2. QED BY <1>3, <2>1 DEF Heard
<1>13. Written'
  <2>1. ASSUME NEW m \in Nums
        PROVE  /\ con'[m]["tty"].buffered => ~con'[m]["net"].block
               /\ con'[m]["net"].buffered => ~con'[m]["net"].block \/ ~con'[m]["tty"].block
    <3>1. CASE m # n
      BY <1>5, <3>1 DEF TelnetInv, Written
    <3>2. CASE m = n
      <4>1. con'[n]["net"].buffered = FALSE
        BY <1>1, <1>7 DEF Ends
      <4>2. con'[n]["tty"].buffered => ~con'[n]["net"].block
        BY <1>1, <1>7 DEF Ends, TelnetInv, Written
      <4>3. QED BY <3>2, <4>1, <4>2
    <3>3. QED BY <3>1, <3>2
  <2>2. QED BY <2>1 DEF Written
<1>14. QED BY <1>9, <1>10, <1>11, <1>12, <1>13 DEF TelnetInv

LEMMA ReadsKeeps ==
    ASSUME TelnetInv, loop.at \in Ends, ~ con[cons[loop.cur]][loop.at].block,
           Reads(cons[loop.cur], loop.at), UNCHANGED <<conup, notices, arrived>>
    PROVE  TelnetInv'
<1>1. PICK n \in Nums, e \in Ends : n = cons[loop.cur] /\ e = loop.at
  BY TurnIs DEF TelnetInv
<1>2. n \in On(cons) /\ (\A m \in On(cons) : m \in Nums) /\ TelnetTypes /\ ~ con[n][e].block
  BY SMTT(40), <1>1, TurnIs DEF TelnetInv
<1>3. PICK into \in (IF e = "net" THEN SUBSET Ends ELSE {{"net"}}), emptied \in SUBSET Ends :
        con' = [con EXCEPT ![n] = output(con[n], e, into, emptied)]
  <2>1. Reads(n, e)
    BY <1>1
  <2>2. PICK into \in (IF e = "net" THEN SUBSET Ends ELSE {{"net"}}) :
          \E full \in SUBSET {f \in into : con[n][f].buffered} :
             \E emptied \in SUBSET full :
                con' = [con EXCEPT ![n] = output(con[n], e, into, emptied)]
    BY <2>1 DEF Reads
  <2>3. into \subseteq Ends
    BY DEF Ends
  <2>4. \A full \in SUBSET {f \in into : con[n][f].buffered} : SUBSET full \subseteq SUBSET Ends
    BY <2>3
  <2>5. QED BY <2>2, <2>4
<1>4. loop' = Proceed(FALSE) /\ cons' = cons /\ conup' = conup /\ notices' = notices
  BY DEF Reads
<1>5. con \in [Nums -> [Ends -> End]]
  BY <1>2 DEF TelnetTypes
<1>6. /\ \A m \in Nums \ {n} : con'[m] = con[m]
      /\ con'[n] = output(con[n], e, into, emptied)
      /\ con' = [m \in Nums |-> con'[m]]
  BY <1>3, <1>5
<1>7. ASSUME NEW f \in Ends
      PROVE  /\ con'[n][f] \in End
             /\ con'[n][f].block = con[n][f].block /\ con'[n][f].asked = con[n][f].asked
             /\ con'[n][f].buffered => con[n][f].buffered \/ f \in into
  <2>1. PICK r \in End : r = con[n][f]
    BY <1>5
  <2>2. con'[n][f] = [r EXCEPT !.ready = IF f = e THEN "nothing" ELSE r.ready,
                               !.buffered = (r.buffered \/ f \in into) /\ f \notin emptied]
    BY ZenonT(50), <1>6, <2>1 DEF output
  <2>3. QED BY <2>1, <2>2 DEF End
<1>8. con' \in [Nums -> [Ends -> End]]
  <2>1. con'[n] \in [Ends -> End]
    BY <1>6, <1>7 DEF output
  <2>2. \A m \in Nums : con'[m] \in [Ends -> End]
    BY <1>5, <1>6, <2>1
  <2>3. QED BY ZenonT(50), <1>6, <2>2
<1>9. /\ RoundSoFar'
      /\ loop' \in [at : Ends \cup {"wait"}, cur : Nat, done : BOOLEAN]
      /\ loop'.at \in Ends => loop'.cur \in 1..Len(cons')
  <2>1. \A m \in Nums, f \in Ends : con[m][f].block => con'[m][f].block
    BY <1>6, <1>7, ZenonT(60)
  <2>2. QED BY <1>2, <1>4, <2>1, ProceedKeeps DEF TelnetInv
<1>10. TelnetTypes'
  BY <1>2, <1>4, <1>8, <1>9 DEF TelnetTypes
<1>11. Unused'
  <2>1. n <= conup
    BY <1>2 DEF TelnetInv, Unused, TelnetTypes, Nums
  <2>2. \A m \in Nums : m > conup => m # n
    BY <1>2, <2>1 DEF TelnetTypes, Nums
  <2>3. QED BY <1>4, <1>6, <2>2 DEF TelnetInv, Unused
<1>12. Heard'
  <2>1. ASSUME NEW m \in On(cons), NEW f \in Ends, con'[m][f].block
        PROVE  con'[m][f].asked \/ \E i \in 1..Len(notices) : notices[i] = Notice(m, f)
    <3>1. con'[m][f].block = con[m][f].block /\ con'[m][f].asked = con[m][f].asked
      BY <1>2, <1>6, <1>7, ZenonT(60)
    <3>2. QED BY SMTT(40), <2>1, <3>1 DEF TelnetInv, Heard
  <2>2. QED BY <1>4, <2>1 DEF Heard
<1>13. Written'
  <2>1. ASSUME NEW m \in Nums
        PROVE  /\ con'[m]["tty"].buffered => ~con'[m]["net"].block
               /\ con'[m]["net"].buffered => ~con'[m]["net"].block \/ ~con'[m]["tty"].block
    <3>1. CASE m # n
      BY <1>6, <3>1 DEF TelnetInv, Written
    <3>2. CASE m = n /\ e = "net"
      BY <1>2, <1>7, <3>2 DEF Ends
    <3>3. CASE m = n /\ e = "tty"
      <4>1. into = {"net"}
        BY <1>3, <3>3
      <4>2. con'[n]["tty"].buffered => ~con'[n]["net"].block
        BY <1>7, <4>1 DEF Ends, TelnetInv, Written
      <4>3. QED BY <1>2, <1>7, <3>3, <4>2 DEF Ends
    <3>4. QED BY <3>1, <3>2, <3>3 DEF Ends
  <2>2. QED BY <2>1 DEF Written
<1>14. QED BY <1>9, <1>10, <1>11, <1>12, <1>13 DEF TelnetInv

(* closecon                                                                *)
LEMMA ClosesKeeps ==
    ASSUME TelnetInv, loop.at \in Ends, Closes(cons[loop.cur]), UNCHANGED <<conup, notices, arrived>>
    PROVE  TelnetInv'
<1>1. PICK n \in Nums : n = cons[loop.cur]
  BY TurnIs DEF TelnetInv
<1>2. n \in On(cons) /\ (\A m \in On(cons) : m \in Nums) /\ TelnetTypes
  BY <1>1, TurnIs DEF TelnetInv
<1>3. PICK left : left = Without(cons, n)
  OBVIOUS
<1>4. /\ con' = [con EXCEPT ![n] = flush(con[n], Ends)] /\ cons' = left
      /\ loop' = [Begin(left) EXCEPT !.done = IF left = <<>> THEN TRUE ELSE loop.done]
      /\ conup' = conup /\ notices' = notices
  BY <1>1, <1>3 DEF Closes
<1>5. con \in [Nums -> [Ends -> End]] /\ loop.done \in BOOLEAN
  BY <1>2 DEF TelnetTypes
<1>6. left \in Seq(Nums) /\ On(left) = On(cons) \ {n} /\ Distinct(left) /\ Len(left) \in Nat
  BY <1>2, <1>3, WithoutUnlinks DEF TelnetTypes
<1>7. /\ \A m \in Nums \ {n} : con'[m] = con[m]
      /\ con'[n] = [f \in Ends |-> [con[n][f] EXCEPT !.buffered = @ /\ f \notin Ends]]
      /\ con' = [m \in Nums |-> con'[m]]
  BY <1>4, <1>5 DEF flush
<1>8. ASSUME NEW f \in Ends
      PROVE  con'[n][f] \in End /\ con'[n][f].buffered = FALSE
  <2>1. PICK r \in End : r = con[n][f]
    BY <1>5
  <2>2. con'[n][f] = [r EXCEPT !.buffered = r.buffered /\ f \notin Ends]
    BY <1>7, <2>1
  <2>3. QED BY <2>2 DEF End
<1>9. con' \in [Nums -> [Ends -> End]]
  <2>1. con'[n] \in [Ends -> End]
    BY <1>7, <1>8
  <2>2. \A m \in Nums : con'[m] \in [Ends -> End]
    BY <1>5, <1>7, <2>1
  <2>3. QED BY <1>7, <2>2
<1>10. loop' = [at |-> IF left = <<>> THEN "wait" ELSE "net", cur |-> 1,
                done |-> IF left = <<>> THEN TRUE ELSE loop.done]
  BY <1>4 DEF Begin
<1>11. TelnetTypes'
  <2>1. loop'.at \in Ends => loop'.cur \in 1..Len(left)
    BY <1>6, <1>10 DEF Ends
  <2>2. loop' \in [at : Ends \cup {"wait"}, cur : Nat, done : BOOLEAN]
    BY <1>5, <1>10 DEF Ends
  <2>3. QED BY <1>2, <1>4, <1>6, <1>9, <2>1, <2>2 DEF TelnetTypes
<1>12. RoundSoFar'
  <2>1. CASE left = <<>>
    BY <1>4, <1>10, <2>1 DEF RoundSoFar, Ends
  <2>2. CASE left # <<>>
    <3>1. loop'.at = "net" /\ loop'.cur = 1
      BY <1>10, <2>2
    <3>2. QED BY <3>1 DEF RoundSoFar, Ends
  <2>3. QED BY <2>1, <2>2
<1>13. Unused'
  <2>1. n <= conup
    BY <1>2 DEF TelnetInv, Unused, TelnetTypes, Nums
  <2>2. \A m \in Nums : m > conup => m # n
    BY <1>2, <2>1 DEF TelnetTypes, Nums
  <2>3. QED BY <1>4, <1>6, <1>7, <2>2 DEF TelnetInv, Unused
<1>14. Heard'
  BY <1>2, <1>4, <1>6, <1>7 DEF TelnetInv, Heard
<1>15. Written'
  BY <1>7, <1>8 DEF TelnetInv, Written, Ends
<1>16. QED BY <1>11, <1>12, <1>13, <1>14, <1>15 DEF TelnetInv

LEMMA TurnKeeps ==
    ASSUME TelnetInv, Turn
    PROVE  TelnetInv'
<1>1. loop.at \in Ends /\ UNCHANGED <<conup, notices, arrived>> /\ TelnetTypes
  BY DEF Turn, TelnetInv
<1>2. cons[loop.cur] \in Nums /\ con[cons[loop.cur]][loop.at].ready \in {"nothing", "data", "end"}
  BY <1>1, TurnIs, EndOf
<1>3. CASE con[cons[loop.cur]][loop.at].block
  <2>1. loop' = Proceed(loop.done) /\ cons' = cons /\ con' = con /\ loop.done \in BOOLEAN
    BY <1>1, <1>3 DEF Turn, TelnetTypes
  <2>2. /\ RoundSoFar'
        /\ loop' \in [at : Ends \cup {"wait"}, cur : Nat, done : BOOLEAN]
        /\ loop'.at \in Ends => loop'.cur \in 1..Len(cons)
    BY <1>1, <1>3, <2>1, ProceedKeeps DEF TelnetInv
  <2>3. QED BY <1>1, <2>1, <2>2 DEF TelnetInv, TelnetTypes, Unused, Heard, Written
<1>4. CASE ~ con[cons[loop.cur]][loop.at].block
  <2>1. \/ Blocks(cons[loop.cur], loop.at)
        \/ Reads(cons[loop.cur], loop.at)
        \/ Closes(cons[loop.cur])
    BY <1>2, <1>4 DEF Turn
  <2>2. QED BY <1>1, <1>4, <2>1, BlocksKeeps, ReadsKeeps, ClosesKeeps
<1>5. QED BY <1>3, <1>4

LEMMA BeginsARound ==
    ASSUME NEW list \in Seq(Nums), cons' = list, loop' = Begin(list)
    PROVE  /\ RoundSoFar'
           /\ loop' \in [at : Ends \cup {"wait"}, cur : Nat, done : BOOLEAN]
           /\ loop'.at \in Ends => loop'.cur \in 1..Len(list)
<1>1. loop' = [at |-> IF list = <<>> THEN "wait" ELSE "net", cur |-> 1, done |-> TRUE]
  BY DEF Begin
<1>2. CASE list = <<>>
  BY <1>1, <1>2 DEF RoundSoFar, Ends
<1>3. CASE list # <<>>
  <2>1. loop'.at = "net" /\ loop'.cur = 1 /\ Len(list) \in Nat \ {0}
    BY <1>1, <1>3
  <2>2. QED BY <1>1, <2>1 DEF RoundSoFar, Ends
<1>4. QED BY <1>2, <1>3

LEMMA NoticedKeeps ==
    ASSUME TelnetInv, Noticed
    PROVE  TelnetInv'
<1>1. PICK m : m = Head(notices)
  OBVIOUS
<1>2. /\ notices # <<>> /\ m.end \in Ends /\ notices' = Tail(notices) /\ loop' = Begin(cons)
      /\ cons' = cons /\ conup' = conup
  BY <1>1 DEF Noticed
<1>3. /\ TelnetTypes /\ cons \in Seq(Nums) /\ (\A n \in On(cons) : n \in Nums)
      /\ con \in [Nums -> [Ends -> End]]
      /\ notices \in Seq([num : 0..MaxCons, end : Ends \cup {"listen"}])
  BY OnMember DEF TelnetInv, TelnetTypes
<1>4. PICK hit :
        /\ hit \subseteq On(cons) /\ (m.num \in On(cons) => hit = {m.num})
        /\ con' = [n \in Nums |-> IF n \in hit THEN [con[n] EXCEPT ![m.end].block = FALSE] ELSE con[n]]
  <2> DEFINE found == {n \in ToSet(cons) : n = m.num}
             hits == IF found # {} THEN {found} ELSE {{}, {cons[i] : i \in DOMAIN cons \cap {1}}}
  <2>1. PICK hit \in hits :
          con' = [n \in Nums |-> IF n \in hit THEN [con[n] EXCEPT ![m.end].block = FALSE] ELSE con[n]]
    BY <1>1 DEF Noticed
  <2>2. m.num \in On(cons) => hit = {m.num}
    BY <2>1 DEF On
  <2>3. DOMAIN cons = 1..Len(cons) /\ \A i \in DOMAIN cons : cons[i] \in On(cons)
    BY <1>3, OnMember
  <2>4. hit \subseteq On(cons)
    BY <2>1, <2>3 DEF On
  <2>5. QED BY <2>1, <2>2, <2>4
<1>5. ASSUME NEW n \in Nums
      PROVE  /\ con'[n] \in [Ends -> End]
             /\ n \notin hit => con'[n] = con[n]
             /\ \A f \in Ends : /\ con'[n][f].block => con[n][f].block /\ ~ (n \in hit /\ f = m.end)
                                /\ con'[n][f].asked = con[n][f].asked
                                /\ con'[n][f].buffered = con[n][f].buffered
  <2>1. CASE n \notin hit
    BY <1>3, <1>4, <2>1
  <2>2. CASE n \in hit
    <3>1. PICK c \in [Ends -> End] : c = con[n]
      BY <1>3
    <3>2. con'[n] = [c EXCEPT ![m.end].block = FALSE]
      BY <1>4, <2>2, <3>1
    <3>3. \A f \in Ends : con'[n][f] = IF f = m.end THEN [c[f] EXCEPT !.block = FALSE] ELSE c[f]
      BY <1>2, <3>1, <3>2
    <3>4. ASSUME NEW f \in Ends
          PROVE  /\ con'[n][f] \in End /\ (con'[n][f].block => c[f].block /\ f # m.end)
                 /\ con'[n][f].asked = c[f].asked /\ con'[n][f].buffered = c[f].buffered
      <4>1. PICK r \in End : r = c[f]
        OBVIOUS
      <4>2. con'[n][f] = IF f = m.end THEN [r EXCEPT !.block = FALSE] ELSE r
        BY <3>3, <4>1
      <4>3. QED BY <4>1, <4>2 DEF End
    <3>5. con'[n] = [f \in Ends |-> con'[n][f]]
      BY <3>2
    <3>6. con'[n] \in [Ends -> End]
      BY <3>4, <3>5
    <3>7. QED BY <2>2, <3>1, <3>4, <3>6
  <2>3. QED BY <2>1, <2>2
<1>6. con' \in [Nums -> [Ends -> End]]
  BY <1>4, <1>5
<1>7. Tail(notices) \in Seq([num : 0..MaxCons, end : Ends \cup {"listen"}])
  BY <1>2, <1>3
<1>8. TelnetTypes' /\ RoundSoFar'
  <2>1. /\ RoundSoFar'
        /\ loop' \in [at : Ends \cup {"wait"}, cur : Nat, done : BOOLEAN]
        /\ loop'.at \in Ends => loop'.cur \in 1..Len(cons)
    BY <1>2, <1>3, BeginsARound
  <2>2. QED BY <1>2, <1>3, <1>6, <1>7, <2>1 DEF TelnetTypes
<1>9. Unused'
  <2>1. \A n \in Nums : n > conup => n \notin hit
    BY <1>4 DEF TelnetInv, Unused
  <2>2. QED BY <1>2, <1>5, <2>1 DEF TelnetInv, Unused
<1>10. Heard'
  <2>1. ASSUME NEW n \in On(cons), NEW f \in Ends, con'[n][f].block
        PROVE  con'[n][f].asked \/ \E i \in 1..Len(Tail(notices)) : Tail(notices)[i] = Notice(n, f)
    <3>1. con[n][f].block /\ ~ (n \in hit /\ f = m.end) /\ con'[n][f].asked = con[n][f].asked
      BY <1>3, <1>5, <2>1
    <3>2. CASE con[n][f].asked
      BY <3>1, <3>2
    <3>3. CASE \E i \in 1..Len(notices) : notices[i] = Notice(n, f)
      <4>1. PICK i \in 1..Len(notices) : notices[i] = Notice(n, f)
        BY <3>3
      <4>2. i # 1
        <5>1. CASE i = 1
          <6>1. m = Notice(n, f)
            BY <1>1, <1>2, <1>3, <4>1, <5>1
          <6>2. m.num = n /\ m.end = f
            BY <6>1 DEF Notice
          <6>3. QED BY <1>4, <3>1, <6>2
        <5>2. QED BY <5>1
      <4>3. i - 1 \in 1..Len(Tail(notices)) /\ Tail(notices)[i - 1] = notices[i]
        BY <1>2, <1>3, <4>2
      <4>4. QED BY <4>1, <4>3
    <3>4. QED BY <3>1, <3>2, <3>3 DEF TelnetInv, Heard
  <2>2. QED BY <1>2, <2>1 DEF Heard
<1>11. Written'
  BY <1>5 DEF TelnetInv, Written, Ends
<1>12. QED BY <1>8, <1>9, <1>10, <1>11 DEF TelnetInv

LEMMA AcceptsKeeps ==
    ASSUME TelnetInv, Accepts
    PROVE  TelnetInv'
<1>1. PICK m : m = Head(notices)
  OBVIOUS
<1>2. /\ notices # <<>> /\ m.end = "listen" /\ notices' = Tail(notices) /\ loop' = Begin(cons')
      /\ con' = con
      /\ \/ conup < MaxCons /\ conup' = conup + 1 /\ cons' = Append(cons, conup + 1)
         \/ conup' = conup /\ cons' = cons
  BY <1>1 DEF Accepts
<1>3. /\ TelnetTypes /\ cons \in Seq(Nums) /\ (\A n \in On(cons) : n \in Nums) /\ Distinct(cons)
      /\ conup \in 0..MaxCons /\ con \in [Nums -> [Ends -> End]]
      /\ notices \in Seq([num : 0..MaxCons, end : Ends \cup {"listen"}])
  BY OnMember DEF TelnetInv, TelnetTypes
<1>4. /\ cons' \in Seq(Nums) /\ Distinct(cons') /\ conup' \in 0..MaxCons /\ conup <= conup'
      /\ \A n \in On(cons') : n \in On(cons) \/ (conup' = conup + 1 /\ n = conup' /\ n \in Nums)
  <2>1. CASE conup' = conup /\ cons' = cons
    BY <1>3, <2>1
  <2>2. CASE conup < MaxCons /\ conup' = conup + 1 /\ cons' = Append(cons, conup + 1)
    <3>1. conup + 1 \in Nums /\ conup + 1 > conup /\ conup + 1 \in 0..MaxCons
      <4>1. MaxCons \in Nat /\ conup \in Nat
        BY <1>3, TelnetAssumption
      <4>2. QED BY <2>2, <4>1 DEF Nums
    <3>2. conup + 1 \notin On(cons)
      BY <3>1 DEF TelnetInv, Unused
    <3>3. /\ Append(cons, conup + 1) \in Seq(Nums)
          /\ On(Append(cons, conup + 1)) = On(cons) \cup {conup + 1}
          /\ Distinct(Append(cons, conup + 1))
      BY <1>3, <3>1, <3>2, AppendLinks
    <3>4. cons' \in Seq(Nums) /\ Distinct(cons') /\ On(cons') = On(cons) \cup {conup + 1}
      BY <2>2, <3>3
    <3>5. conup' \in 0..MaxCons /\ conup <= conup'
      <4>1. conup \in Nat
        BY <1>3
      <4>2. QED BY <2>2, <3>1, <4>1
    <3>6. QED BY <2>2, <3>1, <3>4, <3>5
  <2>3. QED BY <1>2, <2>1, <2>2
<1>5. Tail(notices) \in Seq([num : 0..MaxCons, end : Ends \cup {"listen"}])
  BY <1>2, <1>3
<1>6. TelnetTypes' /\ RoundSoFar'
  <2>1. /\ RoundSoFar'
        /\ loop' \in [at : Ends \cup {"wait"}, cur : Nat, done : BOOLEAN]
        /\ loop'.at \in Ends => loop'.cur \in 1..Len(cons')
    <3>1. PICK list \in Seq(Nums) : list = cons'
      BY <1>4
    <3>2. loop' = Begin(list)
      BY <1>2, <3>1
    <3>3. QED BY <3>1, <3>2, BeginsARound
  <2>2. QED BY <1>2, <1>3, <1>4, <1>5, <2>1 DEF TelnetTypes
<1>7. Unused'
  <2>1. ASSUME NEW n \in Nums, n > conup'
        PROVE  n \notin On(cons') /\ con'[n] = [e \in Ends |-> NewEnd]
    <3>1. n > conup /\ n # conup'
      BY <1>3, <1>4, <2>1 DEF Nums
    <3>2. QED BY <1>2, <1>4, <3>1 DEF TelnetInv, Unused
  <2>2. QED BY <2>1 DEF Unused
<1>8. Heard'
  <2>1. ASSUME NEW n \in On(cons'), NEW f \in Ends, con[n][f].block
        PROVE  con[n][f].asked \/ \E i \in 1..Len(Tail(notices)) : Tail(notices)[i] = Notice(n, f)
    <3>1. n \in On(cons)
      <4>1. CASE n = conup + 1 /\ n \in Nums
        <5>1. n > conup
          BY <1>3, <4>1
        <5>2. con[n] = [e \in Ends |-> NewEnd]
          BY <4>1, <5>1 DEF TelnetInv, Unused
        <5>3. con[n][f].block = FALSE
          BY <5>2 DEF NewEnd
        <5>4. QED BY <2>1, <5>3
      <4>2. QED BY <1>4, <4>1
    <3>2. CASE con[n][f].asked
      BY <3>2
    <3>3. CASE \E i \in 1..Len(notices) : notices[i] = Notice(n, f)
      <4>1. PICK i \in 1..Len(notices) : notices[i] = Notice(n, f)
        BY <3>3
      <4>2. i # 1
        <5>1. CASE i = 1
          <6>1. m = Notice(n, f)
            BY <1>1, <1>2, <1>3, <4>1, <5>1
          <6>2. m.end = f
            BY <6>1 DEF Notice
          <6>3. QED BY <1>2, <6>2 DEF Ends
        <5>2. QED BY <5>1
      <4>3. i - 1 \in 1..Len(Tail(notices)) /\ Tail(notices)[i - 1] = notices[i]
        BY <1>2, <1>3, <4>2
      <4>4. QED BY <4>1, <4>3
    <3>4. QED BY <2>1, <3>1, <3>2, <3>3 DEF TelnetInv, Heard
  <2>2. QED BY <1>2, <2>1 DEF Heard
<1>9. Written'
  BY <1>2 DEF TelnetInv, Written
<1>10. QED BY <1>6, <1>7, <1>8, <1>9 DEF TelnetInv

(* Data that comes changes nothing that the server knows.                  *)
LEMMA ArrivesKeeps ==
    ASSUME TelnetInv, Arrives
    PROVE  TelnetInv'
<1>1. PICK n \in On(cons), e \in Ends, what \in {"data", "end"} :
        con' = [con EXCEPT ![n][e].ready = what]
  BY DEF Arrives, On
<1>2. UNCHANGED <<cons, conup, loop, notices>>
  BY DEF Arrives
<1>3. TelnetTypes /\ (\A m \in On(cons) : m \in Nums) /\ con \in [Nums -> [Ends -> End]]
  BY OnMember DEF TelnetInv, TelnetTypes
<1>4. \A m \in Nums : con'[m] = IF m = n THEN [con[n] EXCEPT ![e].ready = what] ELSE con[m]
  BY <1>1, <1>3
<1>5. PICK c \in [Ends -> End] : c = con[n] /\ con'[n] = [c EXCEPT ![e].ready = what]
  BY <1>3, <1>4
<1>6. ASSUME NEW f \in Ends
      PROVE  /\ con'[n][f] \in End /\ con'[n][f].block = c[f].block
             /\ con'[n][f].asked = c[f].asked /\ con'[n][f].buffered = c[f].buffered
  <2>1. PICK r \in End : r = c[f]
    OBVIOUS
  <2>2. con'[n][f] = IF f = e THEN [r EXCEPT !.ready = what] ELSE r
    BY <1>5, <2>1
  <2>3. QED BY <2>1, <2>2 DEF End
<1>7. con'[n] \in [Ends -> End]
  BY <1>5, <1>6
<1>8. con' \in [Nums -> [Ends -> End]]
  <2>1. \A m \in Nums : con'[m] \in [Ends -> End]
    BY <1>3, <1>4, <1>7
  <2>2. con' = [m \in Nums |-> con'[m]]
    BY <1>1, <1>3
  <2>3. QED BY <2>1, <2>2
<1>9. \A m \in Nums, f \in Ends :
        /\ con'[m][f].block = con[m][f].block /\ con'[m][f].asked = con[m][f].asked
        /\ con'[m][f].buffered = con[m][f].buffered
  BY ZenonT(50), <1>4, <1>5, <1>6
<1>10. TelnetTypes'
  BY <1>2, <1>3, <1>8 DEF TelnetTypes
<1>11. Unused'
  <2>1. \A m \in Nums : m > conup => m # n
    BY DEF TelnetInv, Unused
  <2>2. QED BY <1>2, <1>4, <2>1 DEF TelnetInv, Unused
<1>12. Heard' /\ Written'
  <2>1. Heard'
    BY <1>2, <1>3, <1>9 DEF TelnetInv, Heard
  <2>2. Written'
    BY <1>9 DEF TelnetInv, Written, Ends
  <2>3. QED BY <2>1, <2>2
<1>13. RoundSoFar'
  <2>1. \A i \in 1..Len(cons) : cons[i] \in Nums
    BY <1>3, OnMember DEF TelnetTypes
  <2>2. \A i \in 1..Len(cons) : Blocked(cons[i]) => Blocked(cons[i])'
    BY <1>2, <1>9, <2>1 DEF Blocked
  <2>3. loop.at \in Ends => loop.cur \in 1..Len(cons)
    BY <1>3 DEF TelnetTypes
  <2>4. QED BY <1>2, <1>9, <2>1, <2>2, <2>3 DEF TelnetInv, RoundSoFar, Ends
<1>14. QED BY <1>10, <1>11, <1>12, <1>13 DEF TelnetInv

LEMMA NotifiesKeeps ==
    ASSUME TelnetInv, NEW n \in Nums, NEW e \in Ends, Notifies(n, e)
    PROVE  TelnetInv'
<1>1. /\ con[n][e].asked /\ con' = [con EXCEPT ![n][e].asked = FALSE]
      /\ notices' = Append(notices, Notice(n, e)) /\ UNCHANGED <<cons, conup, loop>>
  BY DEF Notifies
<1>2. /\ TelnetTypes /\ (\A m \in On(cons) : m \in Nums) /\ con \in [Nums -> [Ends -> End]]
      /\ notices \in Seq([num : 0..MaxCons, end : Ends \cup {"listen"}])
  BY OnMember DEF TelnetInv, TelnetTypes
<1>3. \A m \in Nums : con'[m] = IF m = n THEN [con[n] EXCEPT ![e].asked = FALSE] ELSE con[m]
  BY <1>1, <1>2
<1>4. PICK c \in [Ends -> End] : c = con[n] /\ con'[n] = [c EXCEPT ![e].asked = FALSE]
  BY <1>2, <1>3
<1>5. ASSUME NEW f \in Ends
      PROVE  /\ con'[n][f] \in End /\ con'[n][f].block = c[f].block
             /\ con'[n][f].asked = (c[f].asked /\ f # e) /\ con'[n][f].buffered = c[f].buffered
  <2>1. PICK r \in End : r = c[f]
    OBVIOUS
  <2>2. con'[n][f] = IF f = e THEN [r EXCEPT !.asked = FALSE] ELSE r
    BY <1>4, <2>1
  <2>3. QED BY <2>1, <2>2 DEF End
<1>6. con'[n] \in [Ends -> End]
  BY <1>4, <1>5
<1>7. con' \in [Nums -> [Ends -> End]]
  <2>1. \A m \in Nums : con'[m] \in [Ends -> End]
    BY <1>2, <1>3, <1>6
  <2>2. con' = [m \in Nums |-> con'[m]]
    BY <1>1, <1>2
  <2>3. QED BY <2>1, <2>2
<1>8. \A m \in Nums, f \in Ends :
        /\ con'[m][f].block = con[m][f].block
        /\ con'[m][f].asked <=> con[m][f].asked /\ ~ (m = n /\ f = e)
        /\ con'[m][f].buffered = con[m][f].buffered
  BY <1>3, <1>4, <1>5, ZenonT(60)
<1>9. /\ Append(notices, Notice(n, e)) \in Seq([num : 0..MaxCons, end : Ends \cup {"listen"}])
      /\ Len(Append(notices, Notice(n, e))) = Len(notices) + 1 /\ Len(notices) \in Nat
      /\ Append(notices, Notice(n, e))[Len(notices) + 1] = Notice(n, e)
      /\ \A i \in 1..Len(notices) : Append(notices, Notice(n, e))[i] = notices[i]
  <2>1. Notice(n, e) \in [num : 0..MaxCons, end : Ends \cup {"listen"}]
    BY TelnetAssumption DEF Notice, Nums
  <2>2. QED BY <1>2, <2>1, AppendProperties
<1>10. TelnetTypes'
  BY <1>1, <1>2, <1>7, <1>9 DEF TelnetTypes
<1>11. Unused'
  <2>1. ASSUME NEW m \in Nums, m > conup PROVE m # n
    <3>1. CASE m = n
      <4>1. con[m] = [f \in Ends |-> NewEnd]
        BY <2>1 DEF TelnetInv, Unused
      <4>2. con[n][e].asked = FALSE
        BY <3>1, <4>1 DEF NewEnd
      <4>3. QED BY <1>1, <4>2
    <3>2. QED BY <3>1
  <2>2. QED BY <1>1, <1>3, <2>1 DEF TelnetInv, Unused
<1>12. Heard'
  <2>1. ASSUME NEW m \in On(cons), NEW f \in Ends, con'[m][f].block
        PROVE  con'[m][f].asked \/ \E i \in 1..Len(notices') : notices'[i] = Notice(m, f)
    <3>1. con[m][f].block
      BY <1>2, <1>8, <2>1
    <3>2. CASE m = n /\ f = e
      <4>1. Len(notices) + 1 \in 1..Len(notices') /\ notices'[Len(notices) + 1] = Notice(m, f)
        BY <1>1, <1>9, <3>2
      <4>2. QED BY <4>1
    <3>3. CASE ~ (m = n /\ f = e)
      <4>1. CASE con[m][f].asked
        BY <1>2, <1>8, <3>3, <4>1
      <4>2. CASE \E i \in 1..Len(notices) : notices[i] = Notice(m, f)
        <5>1. PICK i \in 1..Len(notices) : notices[i] = Notice(m, f)
          BY <4>2
        <5>2. i \in 1..Len(notices') /\ notices'[i] = Notice(m, f)
          BY <1>1, <1>9, <5>1
        <5>3. QED BY <5>2
      <4>3. QED BY <3>1, <4>1, <4>2 DEF TelnetInv, Heard
    <3>4. QED BY <3>2, <3>3
  <2>2. QED BY <1>1, <2>1 DEF Heard
<1>13. Written'
  BY <1>8 DEF TelnetInv, Written, Ends
<1>14. RoundSoFar'
  <2>1. \A i \in 1..Len(cons) : cons[i] \in Nums
    BY <1>2, OnMember DEF TelnetTypes
  <2>2. \A i \in 1..Len(cons) : Blocked(cons[i]) => Blocked(cons[i])'
    BY <1>1, <1>8, <2>1 DEF Blocked
  <2>3. loop.at \in Ends => loop.cur \in 1..Len(cons)
    BY <1>2 DEF TelnetTypes
  <2>4. QED BY <1>1, <1>8, <2>1, <2>2, <2>3 DEF TelnetInv, RoundSoFar, Ends
<1>15. QED BY <1>10, <1>11, <1>12, <1>13, <1>14 DEF TelnetInv

LEMMA CallsKeeps ==
    ASSUME TelnetInv, Calls
    PROVE  TelnetInv'
<1>1. notices' = Append(notices, Notice(0, "listen")) /\ UNCHANGED <<cons, con, conup, loop>>
  BY DEF Calls
<1>2. TelnetTypes /\ notices \in Seq([num : 0..MaxCons, end : Ends \cup {"listen"}])
  BY DEF TelnetInv, TelnetTypes
<1>3. /\ notices' \in Seq([num : 0..MaxCons, end : Ends \cup {"listen"}])
      /\ Len(notices') = Len(notices) + 1 /\ Len(notices) \in Nat
      /\ \A i \in 1..Len(notices) : notices'[i] = notices[i]
  <2>1. Notice(0, "listen") \in [num : 0..MaxCons, end : Ends \cup {"listen"}]
    BY TelnetAssumption DEF Notice
  <2>2. QED BY <1>1, <1>2, <2>1, AppendProperties
<1>4. TelnetTypes' /\ Unused' /\ Written' /\ RoundSoFar'
  <2>1. TelnetTypes'
    BY <1>1, <1>2, <1>3 DEF TelnetTypes
  <2>2. QED BY <1>1, <2>1 DEF TelnetInv, Unused, Written, RoundSoFar, Blocked
<1>5. Heard'
  <2>1. \A i \in 1..Len(notices) : i \in 1..Len(notices')
    BY <1>3
  <2>2. QED BY <1>1, <1>3, <2>1 DEF TelnetInv, Heard
<1>6. QED BY <1>4, <1>5 DEF TelnetInv

LEMMA TelnetNextKeeps ==
    ASSUME TelnetInv, [TelnetNext]_telnetVars
    PROVE  TelnetInv'
<1>1. CASE Turn
  BY <1>1, TurnKeeps
<1>2. CASE Noticed
  BY <1>2, NoticedKeeps
<1>3. CASE Accepts
  BY <1>3, AcceptsKeeps
<1>4. CASE Arrives
  BY <1>4, ArrivesKeeps
<1>5. CASE Calls
  BY <1>5, CallsKeeps
<1>6. CASE \E n \in Nums, e \in Ends : Notifies(n, e)
  BY <1>6, NotifiesKeeps
<1>7. CASE UNCHANGED telnetVars
  BY <1>7 DEF telnetVars, TelnetInv, TelnetTypes, Unused, Heard, Written, RoundSoFar, Blocked
<1>8. QED BY <1>1, <1>2, <1>3, <1>4, <1>5, <1>6, <1>7 DEF TelnetNext

LEMMA InitTelnetInv == TelnetInit => TelnetInv
<1> SUFFICES ASSUME TelnetInit PROVE TelnetInv
  OBVIOUS
<1>1. /\ cons = <<>> /\ con = [n \in Nums |-> [e \in Ends |-> NewEnd]] /\ conup = 0
      /\ loop = [at |-> "wait", cur |-> 1, done |-> TRUE] /\ notices = <<>>
  BY DEF TelnetInit
<1>2. cons \in Seq(Nums) /\ Len(cons) = 0 /\ DOMAIN cons = {} /\ On(cons) = {} /\ Distinct(cons)
  <2>1. cons \in Seq(Nums) /\ Len(cons) = 0
    BY <1>1
  <2>2. DOMAIN cons = {}
    BY <2>1
  <2>3. Distinct(cons)
    BY <2>2 DEF Distinct
  <2>4. On(cons) = {}
    <3>1. \A y : y \in On(cons) <=> \E i \in 1..Len(cons) : cons[i] = y
      BY <2>1, OnMember
    <3>2. \A y : y \notin On(cons)
      BY <2>1, <3>1
    <3>3. QED BY <3>2
  <2>5. QED BY <2>1, <2>2, <2>3, <2>4
<1>3. notices \in Seq([num : 0..MaxCons, end : Ends \cup {"listen"}])
  BY <1>1
<1>4. NewEnd \in End
  BY DEF NewEnd, End
<1>5. TelnetTypes
  <2>1. conup \in 0..MaxCons
    BY <1>1, TelnetAssumption
  <2>2. con \in [Nums -> [Ends -> End]]
    BY <1>1, <1>4
  <2>3. /\ loop \in [at : Ends \cup {"wait"}, cur : Nat, done : BOOLEAN]
        /\ loop.at \notin Ends
    BY <1>1 DEF Ends
  <2>4. QED BY <1>2, <1>3, <2>1, <2>2, <2>3 DEF TelnetTypes
<1>6. Unused /\ Heard /\ RoundSoFar
  BY <1>1, <1>2 DEF Unused, Heard, RoundSoFar, Ends
<1>7. Written
  BY <1>1 DEF Written, NewEnd, Ends
<1>8. QED BY <1>5, <1>6, <1>7 DEF TelnetInv

(* The inductive invariant of the telnet server.                           *)
THEOREM TelnetInvariant == TelnetSpec => []TelnetInv
BY InitTelnetInv, TelnetNextKeeps, PTL DEF TelnetSpec

(* For any number of connections and arrivals: whenever telnetd's thread    *)
(* waits for a message, all that was read has been handed to write(), and  *)
(* each end will be told of.                                               *)
THEOREM TelnetWaitsForAll == TelnetSpec => []WaitsForAll
<1>1. TelnetInv => WaitsForAll
  <2> SUFFICES ASSUME TelnetInv, loop.at = "wait", notices = <<>>, NEW n \in On(cons), NEW e \in Ends
               PROVE  con[n][e].block /\ con[n][e].asked /\ ~con[n][e].buffered
    BY DEF WaitsForAll, On
  <2>1. n \in Nums /\ \E i \in 1..Len(cons) : cons[i] = n
    BY OnMember DEF TelnetInv, TelnetTypes
  <2>2. Blocked(n)
    BY <2>1 DEF TelnetInv, RoundSoFar
  <2>3. con[n][e].block /\ con[n]["net"].block /\ con[n]["tty"].block
    BY <2>2 DEF Blocked, Ends
  <2>4. con[n][e].asked
    BY <2>3 DEF TelnetInv, Heard
  <2>5. ~ con[n][e].buffered
    BY <2>1, <2>3 DEF TelnetInv, Written, Ends
  <2>6. QED BY <2>3, <2>4, <2>5
<1>2. QED BY <1>1, TelnetInvariant, PTL

-----------------------------------------------------------------------------
(* The web server *)

RequestWords == {"line", "empty", "body"}
WebStates == {"NORMAL", "POSTING", "SENDING", "CGI", "DONE", "CLOSED"}

WebCon ==
    [state : WebStates, request : BOOLEAN, conlen : Nat, rsblock : BOOLEAN, wsblock : BOOLEAN,
     buf : Seq(Nat), bdone : Nat, file : Nat]
Browser ==
    [wants : RequestLines, tosend : Seq(RequestWords), onway : Seq(RequestWords), got : Seq(Nat),
     room : BOOLEAN, readAsked : BOOLEAN, writeAsked : BOOLEAN, left : BOOLEAN]

(* A request by places.                                                    *)
UnitAt(i) == IF i = 1 THEN "line" ELSE IF i = 2 THEN "empty" ELSE "body"
LenOf(r) == 2 + IF r.method = "POST" THEN Posted ELSE 0

(* What is on the way and still to be sent is the request behind its first  *)
(* k units.                                                                *)
Remaining(v, k) ==
    /\ k + Len(v.onway) + Len(v.tosend) = LenOf(v.wants)
    /\ \A i \in 1..Len(v.onway) : v.onway[i] = UnitAt(k + i)
    /\ \A i \in 1..Len(v.tosend) : v.tosend[i] = UnitAt(k + Len(v.onway) + i)

(* The server has read k units of a request that is not complete.           *)
Incomplete(c, r, k) ==
    /\ c.buf = << >> /\ c.bdone = 0 /\ (c.request <=> k > 0)
    /\ k > 0 /\ r.method = "POST" => c.conlen = Posted - (IF k > 2 THEN k - 2 ELSE 0)
    /\ c.state = IF k > 1 THEN "POSTING" ELSE "NORMAL"

(* The answer up to unit c.file is in the buffer or at the browser.         *)
Answering(c, kind, sofar) ==
    /\ c.file \in 1..(FileLen + 1) /\ (kind # "file" => c.file = 1)
    /\ Len(c.buf) <= c.file /\ c.bdone <= Len(c.buf)
    /\ \A i \in 1..Len(c.buf) : c.buf[i] = c.file - Len(c.buf) + i
    /\ Len(sofar) = c.file - Len(c.buf) + c.bdone
    /\ \A i \in 1..Len(sofar) : sofar[i] = i
    /\ CASE kind = "file" -> c.state = "SENDING" \/ (c.state = "DONE" /\ c.file = FileLen + 1)
         [] kind = "script" -> c.state = "CGI"
         [] kind = "none" -> c.state = "DONE"

Took(c, v, sofar, k) ==
    IF k < LenOf(v.wants) THEN Incomplete(c, v.wants, k) /\ sofar = << >>
    ELSE Answering(c, v.wants.kind, sofar)

OpenOK(c, v) == \E k \in 0..LenOf(v.wants) : Remaining(v, k) /\ Took(c, v, v.got, k)

ClosedOK(c, v) ==
    /\ c.state = "CLOSED"
    /\ IsPrefix(v.got, Whole(v.wants.kind))
    /\ ~v.left => v.got = Whole(v.wants.kind)

NewOK(c, v) == c = NewWeb /\ Remaining(v, 0) /\ v.got = << >>

(* A request has its two lines at least.                                   *)
LEMMA LenIs == ASSUME NEW r \in RequestLines PROVE LenOf(r) \in Nat /\ LenOf(r) >= 2
BY HttpAssumption DEF LenOf, RequestLines

(* gotline and the body, unit by unit.                                     *)
LEMMA UnitTaken ==
    ASSUME NEW c \in WebCon, NEW v \in Browser, NEW k \in Nat, k < LenOf(v.wants), Took(c, v, << >>, k)
    PROVE  LET d == TakesUnit(c, UnitAt(k + 1), v.wants) IN d \in WebCon /\ Took(d, v, << >>, k + 1)
<1> DEFINE r == v.wants
           d == TakesUnit(c, UnitAt(k + 1), r)
<1>1. r \in RequestLines /\ r.kind \in Kinds /\ Posted \in Nat /\ FileLen \in Nat /\ Incomplete(c, r, k)
  <2>1. r \in RequestLines
    BY DEF Browser
  <2>2. r.kind \in Kinds
    BY <2>1 DEF RequestLines
  <2>3. QED BY <2>1, <2>2, HttpAssumption DEF Took
<1>2. \A e \in WebCon : /\ startSend(e, r.kind) \in WebCon
                        /\ Answering(startSend(e, r.kind), r.kind, << >>) <=> e.bdone = 0
  <2>1. ASSUME NEW e \in WebCon
        PROVE  /\ startSend(e, r.kind) \in WebCon
               /\ Answering(startSend(e, r.kind), r.kind, << >>) <=> e.bdone = 0
    <3> DEFINE s == startSend(e, r.kind)
    <3>1. /\ s \in WebCon /\ s.buf = <<1>> /\ s.file = 1 /\ s.bdone = e.bdone
          /\ s.state = CASE r.kind = "file" -> "SENDING" [] r.kind = "script" -> "CGI" [] r.kind = "none" -> "DONE"
      <4>1. PICK st \in WebStates :
              st = CASE r.kind = "file" -> "SENDING" [] r.kind = "script" -> "CGI" [] r.kind = "none" -> "DONE"
        BY <1>1 DEF Kinds, WebStates
      <4>2. s = [e EXCEPT !.buf = <<1>>, !.state = st, !.file = 1]
        BY <4>1 DEF startSend
      <4>3. <<1>> \in Seq(Nat)
        OBVIOUS
      <4>4. PICK one \in Seq(Nat) : one = <<1>>
        BY <4>3
      <4>5. s = [e EXCEPT !.buf = one, !.state = st, !.file = 1]
        BY <4>2, <4>4
      <4> HIDE DEF s
      <4>6. s \in WebCon /\ s.buf = one /\ s.file = 1 /\ s.bdone = e.bdone /\ s.state = st
        BY <4>5 DEF WebCon
      <4>7. QED BY <4>1, <4>4, <4>6
    <3>2. Len(<<1>>) = 1 /\ <<1>>[1] = 1 /\ Len(<< >>) = 0
      OBVIOUS
    <3> HIDE DEF s
    <3>3. Answering(s, r.kind, << >>) <=> e.bdone = 0
      <4>1. /\ s.file \in 1..(FileLen + 1) /\ Len(s.buf) = 1 /\ Len(s.buf) <= s.file
            /\ \A i \in 1..Len(s.buf) : s.buf[i] = s.file - Len(s.buf) + i
        BY <1>1, <3>1, <3>2
      <4>2. s.bdone \in Nat
        BY <3>1 DEF WebCon
      <4>3. \A i \in 1..Len(<< >>) : << >>[i] = i
        BY <3>2
      <4>4. (CASE r.kind = "file" -> s.state = "SENDING" \/ (s.state = "DONE" /\ s.file = FileLen + 1)
               [] r.kind = "script" -> s.state = "CGI"
               [] r.kind = "none" -> s.state = "DONE")
        <5>1. CASE r.kind = "file"
          BY <3>1, <5>1
        <5>2. CASE r.kind = "script"
          BY <3>1, <5>2
        <5>3. CASE r.kind = "none"
          BY <3>1, <5>3
        <5>4. QED BY <1>1, <5>1, <5>2, <5>3 DEF Kinds
      <4>5. Len(<< >>) = s.file - Len(s.buf) + s.bdone <=> s.bdone = 0
        BY <3>1, <3>2, <4>1, <4>2
      <4>6. s.bdone = 0 => s.bdone <= Len(s.buf)
        BY <4>1
      <4>7. QED BY <3>1, <4>1, <4>3, <4>4, <4>5, <4>6 DEF Answering
    <3>4. QED BY <3>1, <3>3 DEF s
  <2>2. QED BY <2>1
<1>3. CASE k = 0
  <2>1. d = [c EXCEPT !.request = TRUE, !.conlen = IF r.method = "POST" THEN Posted ELSE 0]
    BY <1>3 DEF TakesUnit, UnitAt
  <2>2. d \in WebCon /\ Incomplete(d, r, 1)
    <3>1. PICK n \in Nat : n = IF r.method = "POST" THEN Posted ELSE 0
      BY <1>1
    <3>2. d = [c EXCEPT !.request = TRUE, !.conlen = n]
      BY <2>1, <3>1
    <3> HIDE DEF d
    <3>3. /\ d \in WebCon /\ d.request = TRUE /\ d.conlen = n
          /\ d.buf = c.buf /\ d.bdone = c.bdone /\ d.state = c.state
      BY <3>2 DEF WebCon
    <3>4. QED BY <1>1, <1>3, <3>1, <3>3 DEF Incomplete
  <2>3. 1 < LenOf(r)
    BY <1>1, LenIs
  <2>4. QED BY <1>3, <2>2, <2>3 DEF Took
<1>4. CASE k = 1
  <2>1. d = IF r.method = "POST" /\ c.conlen > 0 THEN [c EXCEPT !.state = "POSTING"] ELSE startSend(c, r.kind)
    BY <1>1, <1>4 DEF TakesUnit, UnitAt, Incomplete
  <2>2. CASE r.method = "POST" /\ Posted > 0
    <3>1. d = [c EXCEPT !.state = "POSTING"]
      BY <1>1, <1>4, <2>1, <2>2 DEF Incomplete
    <3>2. d \in WebCon /\ Incomplete(d, r, 2)
      BY <1>1, <1>4, <3>1 DEF Incomplete, WebCon, WebStates
    <3>3. 2 < LenOf(r)
      BY <1>1, <2>2 DEF LenOf
    <3>4. QED BY <1>4, <3>2, <3>3 DEF Took
  <2>3. CASE ~ (r.method = "POST" /\ Posted > 0)
    <3>1. d = startSend(c, r.kind) /\ c.bdone = 0
      BY <1>1, <1>4, <2>1, <2>3 DEF Incomplete
    <3>2. ~ (2 < LenOf(r))
      BY <1>1, <2>3 DEF LenOf
    <3>3. QED BY <1>2, <1>4, <3>1, <3>2 DEF Took
  <2>4. QED BY <2>2, <2>3
<1>5. CASE k > 1
  <2>1. r.method = "POST" /\ k - 2 < Posted /\ c.conlen = Posted - (k - 2) /\ c.state = "POSTING" /\ c.bdone = 0
    BY <1>1, <1>5 DEF LenOf, Incomplete
  <2>2. d = IF c.conlen = 1 THEN startSend([c EXCEPT !.conlen = 0], r.kind) ELSE [c EXCEPT !.conlen = @ - 1]
    BY <1>5, <2>1 DEF TakesUnit, UnitAt
  <2>3. CASE c.conlen = 1
    <3>1. [c EXCEPT !.conlen = 0] \in WebCon /\ [c EXCEPT !.conlen = 0].bdone = 0
      BY <2>1 DEF WebCon
    <3>2. ~ (k + 1 < LenOf(r))
      BY <1>1, <2>1, <2>3 DEF LenOf
    <3>3. QED BY <1>2, <2>2, <2>3, <3>1, <3>2 DEF Took
  <2>4. CASE c.conlen # 1
    <3>1. d = [c EXCEPT !.conlen = @ - 1]
      BY <2>2, <2>4
    <3>2. d \in WebCon /\ Incomplete(d, r, k + 1)
      <4>1. PICK n \in Nat : n = c.conlen - 1
        <5>1. c.conlen \in Nat /\ c.conlen >= 1
          BY <1>1, <2>1
        <5>2. c.conlen - 1 \in Nat
          BY <5>1
        <5>3. QED BY <5>2
      <4>2. d = [c EXCEPT !.conlen = n]
        BY <3>1, <4>1 DEF WebCon
      <4> HIDE DEF d
      <4>3. /\ d \in WebCon /\ d.request = c.request /\ d.conlen = n
            /\ d.buf = c.buf /\ d.bdone = c.bdone /\ d.state = c.state
        BY <4>2 DEF WebCon
      <4>4. n = Posted - ((k + 1) - 2) /\ k + 1 > 2
        BY <1>1, <1>5, <2>1, <4>1
      <4>5. QED BY <1>1, <1>5, <4>3, <4>4 DEF Incomplete
    <3>3. k + 1 < LenOf(r)
      BY <1>1, <2>1, <2>4 DEF LenOf
    <3>4. QED BY <3>2, <3>3 DEF Took
  <2>5. QED BY <2>3, <2>4
<1>6. QED BY <1>3, <1>4, <1>5

(* Reading is a function: each unit is taken where the one before it left    *)
(* the connection.                                                         *)
ReadsOn(g, b, s, r, n) ==
    g = [i \in 0..n |-> IF i = 0 THEN b ELSE TakesUnit(g[i - 1], s[i], r)]

LEMMA ReadingExists ==
    ASSUME NEW r, NEW s, NEW b
    PROVE  \A n \in Nat : \E g : ReadsOn(g, b, s, r, n)
<1> DEFINE W == {n \in Nat : \E g : ReadsOn(g, b, s, r, n)}
<1>1. 0 \in W
  <2>1. [i \in 0..0 |-> b] = [i \in 0..0 |-> IF i = 0 THEN b ELSE TakesUnit([j \in 0..0 |-> b][i - 1], s[i], r)]
    OBVIOUS
  <2>2. QED BY <2>1 DEF ReadsOn
<1>2. ASSUME NEW n \in Nat, n \in W PROVE n + 1 \in W
  <2>1. PICK g : g = [i \in 0..n |-> IF i = 0 THEN b ELSE TakesUnit(g[i - 1], s[i], r)]
    BY <1>2 DEF ReadsOn
  <2> DEFINE e == [i \in 0..(n + 1) |-> IF i \in 0..n THEN g[i] ELSE TakesUnit(g[n], s[n + 1], r)]
  <2>2. e = [i \in 0..(n + 1) |-> IF i = 0 THEN b ELSE TakesUnit(e[i - 1], s[i], r)]
    <3>1. ASSUME NEW i \in 0..(n + 1) PROVE e[i] = IF i = 0 THEN b ELSE TakesUnit(e[i - 1], s[i], r)
      <4>1. CASE i \in 0..n
        <5>1. e[i] = g[i] /\ g[i] = IF i = 0 THEN b ELSE TakesUnit(g[i - 1], s[i], r)
          BY <2>1, <4>1
        <5>2. i # 0 => i - 1 \in 0..n /\ i - 1 \in 0..(n + 1)
          BY <4>1
        <5>3. i # 0 => e[i - 1] = g[i - 1]
          BY <5>2
        <5>4. QED BY <5>1, <5>3
      <4>2. CASE i = n + 1
        <5>1. e[i] = TakesUnit(g[n], s[n + 1], r) /\ i # 0 /\ i - 1 = n /\ n \in 0..n /\ n \in 0..(n + 1)
          BY <4>2
        <5>2. e[n] = g[n]
          BY <5>1
        <5>3. QED BY <4>2, <5>1, <5>2
      <4>3. QED BY <4>1, <4>2
    <3>2. QED BY <3>1
  <2>3. \E d : d = [i \in 0..(n + 1) |-> IF i = 0 THEN b ELSE TakesUnit(d[i - 1], s[i], r)]
    BY <2>2
  <2>4. QED BY <2>3 DEF ReadsOn
<1> HIDE DEF W
<1>3. Nat \subseteq W
  BY <1>1, <1>2, CountingUp
<1>4. QED BY <1>3 DEF W

(* readser: all that has come is taken, one unit after the other.          *)
LEMMA ReadserKeeps ==
    ASSUME NEW n, web[n] \in WebCon, visitor[n] \in Browser, OpenOK(web[n], visitor[n])
    PROVE  readser(n) \in WebCon /\ OpenOK(readser(n), [visitor[n] EXCEPT !.onway = << >>])
<1>1. PICK v \in Browser : v = visitor[n]
  OBVIOUS
<1>2. PICK m \in Nat : m = Len(v.onway)
  BY DEF Browser
<1>3. PICK k \in Nat, l \in Nat : l = LenOf(v.wants) /\ k <= l /\ Remaining(v, k) /\ Took(web[n], v, v.got, k)
  <2>1. v.wants \in RequestLines
    BY DEF Browser
  <2>2. PICK l \in Nat : l = LenOf(v.wants)
    BY <2>1, LenIs
  <2>3. PICK k \in 0..l : Remaining(v, k) /\ Took(web[n], v, v.got, k)
    BY <1>1, <2>2 DEF OpenOK
  <2>4. QED BY <2>2, <2>3
<1>4. LenOf(v.wants) \in Nat /\ k + m <= LenOf(v.wants) /\ \A i \in 1..m : v.onway[i] = UnitAt(k + i)
  <2>1. PICK t \in Nat : t = Len(v.tosend)
    BY DEF Browser
  <2>2. k + m + t = l
    BY <1>2, <1>3, <2>1 DEF Remaining
  <2>3. \A i \in 1..m : v.onway[i] = UnitAt(k + i)
    BY <1>2, <1>3 DEF Remaining
  <2>4. QED BY <1>3, <2>2, <2>3
<1>5. PICK c : /\ c = [i \in 0..m |-> IF i = 0 THEN web[n] ELSE TakesUnit(c[i - 1], v.onway[i], v.wants)]
               /\ readser(n) = c[m]
  <2>1. PICK c : c = CHOOSE g : ReadsOn(g, web[n], v.onway, v.wants, m)
    OBVIOUS
  <2>2. \E g : ReadsOn(g, web[n], v.onway, v.wants, m)
    BY ReadingExists
  <2>3. readser(n) = c[m]
    BY <1>1, <1>2, <2>1 DEF readser, ReadsOn
  <2>4. ReadsOn(c, web[n], v.onway, v.wants, m)
    BY <2>1, <2>2
  <2>5. QED BY <2>3, <2>4 DEF ReadsOn
<1> DEFINE T == {i \in Nat : i <= m => c[i] \in WebCon /\ Took(c[i], v, v.got, k + i)}
<1>6. 0 \in T
  <2>1. c[0] = web[n] /\ k + 0 = k
    BY <1>4, <1>5
  <2>2. QED BY <1>3, <2>1
<1>7. ASSUME NEW i \in Nat, i \in T PROVE i + 1 \in T
  <2> SUFFICES ASSUME i + 1 <= m PROVE c[i + 1] \in WebCon /\ Took(c[i + 1], v, v.got, k + (i + 1))
    OBVIOUS
  <2>1. PICK d \in WebCon : d = c[i] /\ Took(d, v, v.got, k + i)
    BY <1>7
  <2>2. k + i \in Nat /\ k + i < LenOf(v.wants)
    BY <1>4
  <2>3. v.got = << >>
    BY <2>1, <2>2 DEF Took
  <2>4. c[i + 1] = TakesUnit(d, UnitAt((k + i) + 1), v.wants)
    <3>1. i + 1 \in 1..m /\ i + 1 \in 0..m /\ i + 1 # 0 /\ (i + 1) - 1 = i /\ k + (i + 1) = (k + i) + 1
      BY <1>4
    <3>2. c[i + 1] = TakesUnit(c[i], v.onway[i + 1], v.wants)
      BY <1>5, <3>1
    <3>3. v.onway[i + 1] = UnitAt((k + i) + 1)
      BY <1>4, <3>1
    <3>4. QED BY <2>1, <3>2, <3>3
  <2>5. c[i + 1] \in WebCon /\ Took(c[i + 1], v, << >>, (k + i) + 1)
    BY <2>1, <2>2, <2>3, <2>4, UnitTaken
  <2>6. (k + i) + 1 = k + (i + 1)
    BY <1>4
  <2>7. QED BY <2>3, <2>5, <2>6
<1>8. c[m] \in WebCon /\ Took(c[m], v, v.got, k + m)
  <2> HIDE DEF T
  <2>1. Nat \subseteq T
    BY <1>6, <1>7, CountingUp
  <2>2. QED BY <2>1 DEF T
<1>9. PICK w \in Browser : /\ w = [v EXCEPT !.onway = << >>] /\ w.onway = << >> /\ w.tosend = v.tosend
                           /\ w.wants = v.wants /\ w.got = v.got
  <2>1. PICK z \in Seq(RequestWords) : z = << >>
    BY EmptySeq
  <2> DEFINE w == [v EXCEPT !.onway = z]
  <2>2. w \in Browser /\ w.onway = z /\ w.tosend = v.tosend /\ w.wants = v.wants /\ w.got = v.got
    BY DEF Browser
  <2>3. QED BY <2>1, <2>2
<1>10. Remaining(w, k + m)
  <2>1. Len(<< >>) = 0
    OBVIOUS
  <2>2. \A i \in 1..Len(w.tosend) : w.tosend[i] = UnitAt((k + m) + Len(w.onway) + i)
    BY <1>2, <1>3, <1>4, <1>9, <2>1 DEF Remaining
  <2>3. Len(w.tosend) \in Nat
    BY DEF Browser
  <2>4. QED BY <1>2, <1>3, <1>4, <1>9, <2>1, <2>2, <2>3 DEF Remaining
<1>11. Took(c[m], w, w.got, k + m)
  BY <1>8, <1>9 DEF Took
<1>12. k + m \in 0..LenOf(w.wants)
  BY <1>4, <1>9
<1>13. QED BY <1>1, <1>5, <1>8, <1>9, <1>10, <1>11, <1>12 DEF OpenOK

(* What an answer being sent looks like.                                   *)
LEMMA Sending ==
    ASSUME NEW c \in WebCon, NEW v \in Browser, OpenOK(c, v),
           c.state \in {"SENDING", "CGI", "DONE"} \/ c.buf # << >>
    PROVE  Answering(c, v.wants.kind, v.got) /\ Remaining(v, LenOf(v.wants)) /\ v.wants.kind \in Kinds
<1>1. PICK l \in Nat : l = LenOf(v.wants) /\ v.wants.kind \in Kinds
  <2>1. v.wants \in RequestLines
    BY DEF Browser
  <2>2. v.wants.kind \in Kinds
    BY <2>1 DEF RequestLines
  <2>3. QED BY <2>1, <2>2, LenIs
<1>2. PICK k \in 0..l : Remaining(v, k) /\ Took(c, v, v.got, k)
  BY <1>1 DEF OpenOK
<1>3. ~ (k < l)
  <2>1. ASSUME k < l PROVE FALSE
    <3>1. Incomplete(c, v.wants, k)
      BY <1>1, <1>2, <2>1 DEF Took
    <3>2. QED BY <3>1 DEF Incomplete
  <2>2. QED BY <2>1
<1>4. k = l
  BY <1>3
<1>5. QED BY <1>1, <1>2, <1>3, <1>4 DEF Took

(* With the request read, an answer under way is all that is asked.        *)
LEMMA StillSending ==
    ASSUME NEW c \in WebCon, NEW v \in Browser, Remaining(v, LenOf(v.wants)), Answering(c, v.wants.kind, v.got)
    PROVE  OpenOK(c, v)
<1>1. LenOf(v.wants) \in Nat
  BY LenIs DEF Browser
<1>2. LenOf(v.wants) \in 0..LenOf(v.wants) /\ ~ (LenOf(v.wants) < LenOf(v.wants))
  BY <1>1
<1>3. QED BY <1>2 DEF OpenOK, Took

(* The flags for notices and blocking do not matter to the answer.          *)
LEMMA SameOpen ==
    ASSUME NEW c, NEW v, OpenOK(c, v), NEW d, NEW w,
           d.state = c.state, d.request = c.request, d.conlen = c.conlen,
           d.buf = c.buf, d.bdone = c.bdone, d.file = c.file,
           w.wants = v.wants, w.tosend = v.tosend, w.onway = v.onway, w.got = v.got
    PROVE  OpenOK(d, w)
<1>1. PICK k \in 0..LenOf(v.wants) : Remaining(v, k) /\ Took(c, v, v.got, k)
  BY DEF OpenOK
<1>2. Remaining(w, k)
  BY <1>1 DEF Remaining
<1>3. Took(d, w, w.got, k)
  BY <1>1 DEF Took, Incomplete, Answering
<1>4. QED BY <1>1, <1>2, <1>3 DEF OpenOK

(* tryFill: the buffer goes on where it stood in the file.                 *)
LEMMA Filled ==
    ASSUME NEW c \in WebCon, NEW v \in Browser, OpenOK(c, v)
    PROVE  tryFill(c) \in WebCon /\ OpenOK(tryFill(c), v)
<1>1. CASE c.state # "SENDING" \/ Len(c.buf) >= BufLen
  BY <1>1 DEF tryFill
<1>2. CASE c.state = "SENDING" /\ ~ (Len(c.buf) >= BufLen)
  <2>1. Answering(c, v.wants.kind, v.got) /\ Remaining(v, LenOf(v.wants)) /\ v.wants.kind \in Kinds
    BY <1>2, Sending
  <2>2. PICK b \in Seq(Nat), n \in Nat, f \in Nat, done \in Nat :
           /\ b = c.buf /\ n = Len(b) /\ f = c.file /\ done = c.bdone
           /\ f \in 1..(FileLen + 1) /\ n <= f /\ done <= n /\ n < BufLen
           /\ \A i \in 1..n : b[i] = f - n + i
           /\ v.wants.kind = "file" /\ Len(v.got) = f - n + done
    <3>1. c.buf \in Seq(Nat) /\ Len(c.buf) \in Nat /\ c.file \in Nat /\ c.bdone \in Nat
      BY DEF WebCon
    <3>2. v.wants.kind = "file"
      BY <1>2, <2>1 DEF Answering, Kinds
    <3>3. BufLen \in Nat
      BY HttpAssumption
    <3>4. /\ c.file \in 1..(FileLen + 1) /\ Len(c.buf) <= c.file /\ c.bdone <= Len(c.buf)
          /\ \A i \in 1..Len(c.buf) : c.buf[i] = c.file - Len(c.buf) + i
          /\ Len(v.got) = c.file - Len(c.buf) + c.bdone
      BY <2>1 DEF Answering
    <3>5. Len(c.buf) < BufLen
      BY <1>2, <3>1, <3>3
    <3>6. QED BY <3>1, <3>2, <3>4, <3>5
  <2>3. PICK F \in Nat, B \in Nat :
           F = FileLen /\ B = BufLen /\ f \in 1..(F + 1) /\ n < B /\ n <= f /\ done <= n
    <3>1. FileLen \in Nat /\ BufLen \in Nat
      BY HttpAssumption
    <3>2. PICK F \in Nat, B \in Nat : F = FileLen /\ B = BufLen
      BY <3>1
    <3>3. QED BY <2>2, <3>2
  <2>7. PICK upto \in Nat :
           /\ upto = IF f + (B - n) <= F + 1 THEN f + (B - n) ELSE F + 1
           /\ upto \in 1..(F + 1) /\ f <= upto /\ (upto = f => f = F + 1)
    <3>1. PICK e \in Nat : e = f + (B - n) /\ e > f
      BY <2>3
    <3>2. PICK upto \in Nat : upto = IF e <= F + 1 THEN e ELSE F + 1
      OBVIOUS
    <3>3. f >= 1 /\ f <= F + 1
      BY <2>3
    <3>4. upto \in 1..(F + 1) /\ f <= upto /\ (upto = f => f = F + 1)
      BY <3>1, <3>2, <3>3
    <3>5. QED BY <3>1, <3>2, <3>4
  <2>8. upto = IF c.file + (BufLen - Len(c.buf)) <= FileLen + 1
               THEN c.file + (BufLen - Len(c.buf)) ELSE FileLen + 1
    BY <2>2, <2>3, <2>7
  <2>4. CASE upto = f
    <3>1. tryFill(c) = [c EXCEPT !.state = "DONE"]
      BY <1>2, <2>2, <2>8, <2>4 DEF tryFill
    <3>2. PICK d \in WebCon : /\ d = tryFill(c) /\ d.state = "DONE" /\ d.file = c.file
                              /\ d.buf = c.buf /\ d.bdone = c.bdone
      <4> DEFINE d == [c EXCEPT !.state = "DONE"]
      <4>1. /\ d \in WebCon /\ d.state = "DONE" /\ d.file = c.file
            /\ d.buf = c.buf /\ d.bdone = c.bdone
        BY DEF WebCon, WebStates
      <4>2. QED BY <3>1, <4>1
    <3>3. Answering(d, v.wants.kind, v.got)
      BY <2>1, <2>2, <2>3, <2>7, <2>4, <3>2 DEF Answering
    <3>4. QED BY <2>1, <3>2, <3>3, StillSending
  <2>5. CASE upto # f
    <3>0. PICK m \in Nat : m = upto - f /\ upto = f + m
      BY <2>7
    <3>1. PICK more \in Seq(Nat) :
             more = [i \in 1..m |-> f + i] /\ Len(more) = m /\ \A i \in 1..m : more[i] = f + i
      <4>2. [i \in 1..m |-> f + i] \in Seq(Nat) /\ Len([i \in 1..m |-> f + i]) = m
        OBVIOUS
      <4>3. QED BY <4>2
    <3>2. PICK all \in Seq(Nat) :
             /\ all = b \o more /\ Len(all) = n + m
             /\ \A i \in 1..n + m : all[i] = IF i <= n THEN b[i] ELSE more[i - n]
      <4>1. Len(b) = n
        BY <2>2
      <4>2. /\ b \o more \in Seq(Nat) /\ Len(b \o more) = n + m
            /\ \A i \in 1..n + m : (b \o more)[i] = IF i <= n THEN b[i] ELSE more[i - n]
        <5>1. Len(b) \in Nat /\ Len(more) = m /\ Len(b) + Len(more) = n + m
          BY <3>1, <4>1
        <5>2. /\ b \o more \in Seq(Nat) /\ Len(b \o more) = Len(b) + Len(more)
              /\ \A i \in 1..Len(b) + Len(more) :
                    (b \o more)[i] = IF i <= Len(b) THEN b[i] ELSE more[i - Len(b)]
          BY ConcatProperties
        <5>3. QED BY <4>1, <5>1, <5>2
      <4>3. QED BY <4>2
    <3>3. tryFill(c) = [c EXCEPT !.buf = all, !.file = upto]
      BY <1>2, <2>2, <2>8, <2>5, <3>0, <3>1, <3>2 DEF tryFill
    <3>4. PICK d \in WebCon : /\ d = tryFill(c) /\ d.state = c.state /\ d.file = upto
                              /\ d.buf = all /\ d.bdone = c.bdone
      <4> DEFINE d == [c EXCEPT !.buf = all, !.file = upto]
      <4>1. d \in WebCon /\ d.state = c.state /\ d.file = upto /\ d.buf = all /\ d.bdone = c.bdone
        BY DEF WebCon
      <4>2. QED BY <3>3, <4>1
    <3>5. ASSUME NEW i \in 1..n + m PROVE all[i] = upto - (n + m) + i
      <4>1. \A j \in 1..n : b[j] = f - n + j
        BY <2>2
      <4>2. CASE i <= n
        <5>1. all[i] = f - n + i
          BY <3>2, <4>1, <4>2
        <5>2. QED BY <3>0, <5>1
      <4>3. CASE i > n
        <5>1. PICK h \in 1..m : h = i - n
          BY <4>3
        <5>2. all[i] = more[h]
          <6>1. all[i] = IF i <= n THEN b[i] ELSE more[i - n]
            BY <3>2
          <6>2. ~ (i <= n)
            BY <4>3
          <6>3. QED BY <5>1, <6>1, <6>2
        <5>3. more[h] = f + h
          BY <3>1
        <5>4. QED BY <3>0, <5>1, <5>2, <5>3
      <4>4. QED BY <4>2, <4>3
    <3>6. upto - (n + m) + done = f - n + done /\ n + m <= upto /\ done <= n + m
      BY <2>3, <3>0
    <3>7. Answering(d, v.wants.kind, v.got)
      <4>1. (\A i \in 1..Len(v.got) : v.got[i] = i) /\ Len(v.got) = f - n + done
        BY <2>1, <2>2 DEF Answering
      <4>2. d.file \in 1..(FileLen + 1) /\ v.wants.kind = "file" /\ d.state = "SENDING"
        BY <1>2, <2>2, <2>3, <2>7, <3>4
      <4>3. Len(d.buf) = n + m /\ d.bdone = done /\ d.file = upto
        BY <2>2, <3>2, <3>4
      <4>4. \A i \in 1..Len(d.buf) : d.buf[i] = d.file - Len(d.buf) + i
        BY <3>4, <3>5, <4>3
      <4>5. QED BY <3>6, <4>1, <4>2, <4>3, <4>4 DEF Answering
    <3>8. QED BY <2>1, <3>4, <3>7, StillSending
  <2>6. QED BY <2>4, <2>5
<1>3. QED BY <1>1, <1>2

(* What flushout writes is the continuation of what the browser has.        *)
Receives(c, v, amount, room) ==
    [v EXCEPT !.got = @ \o SubSeq(c.buf, c.bdone + 1, c.bdone + amount), !.room = room]

(* flushout: what the browser has goes on where it stood.                  *)
LEMMA Flushed ==
    ASSUME NEW c \in WebCon, NEW v \in Browser, OpenOK(c, v), c.buf # << >>,
           NEW amount \in 1..(Len(c.buf) - c.bdone), NEW room \in BOOLEAN
    PROVE  /\ flushout(c, amount) \in WebCon /\ Receives(c, v, amount, room) \in Browser
           /\ OpenOK(flushout(c, amount), Receives(c, v, amount, room))
<1>1. Answering(c, v.wants.kind, v.got) /\ Remaining(v, LenOf(v.wants)) /\ v.wants.kind \in Kinds
  BY Sending
<1>2. PICK b \in Seq(Nat), n \in Nat, f \in Nat, done \in Nat :
         b = c.buf /\ n = Len(b) /\ f = c.file /\ done = c.bdone
  BY DEF WebCon
<1>3. PICK g \in Seq(Nat), h \in Nat : g = v.got /\ h = Len(g)
  BY DEF Browser
<1>4. n <= f /\ done <= n /\ h = f - n + done /\ (\A i \in 1..n : b[i] = f - n + i) /\ (\A i \in 1..h : g[i] = i)
  BY <1>1, <1>2, <1>3 DEF Answering
<1>5. PICK m \in Nat : m = amount /\ m >= 1 /\ done + m <= n
  <2>1. amount \in 1..(n - done)
    BY <1>2
  <2>2. QED BY <1>4, <2>1
<1>6. PICK t \in Seq(Nat) : t = SubSeq(b, done + 1, done + m) /\ Len(t) = m /\ \A j \in 1..m : t[j] = h + j
  <2>1. done + 1 \in 1..Len(b) + 1 /\ done + m \in 0..Len(b) /\ done + 1 \in Nat
    <3>1. Len(b) = n /\ n \in Nat /\ done + m <= n
      BY <1>2, <1>5
    <3>2. QED BY <3>1
  <2>2. PICK t \in Seq(Nat) : /\ t = SubSeq(b, done + 1, done + m) /\ Len(t) = m
                              /\ \A j \in 1..m : t[j] = b[done + j]
    <3>1. PICK x \in Nat, y \in Nat : x = done + 1 /\ y = done + m /\ x \in 1..Len(b) + 1 /\ y \in 0..Len(b) /\ x <= y + 1 /\ y - x + 1 = m
      BY <1>5, <2>1
    <3>2. /\ SubSeq(b, x, y) \in Seq(Nat) /\ Len(SubSeq(b, x, y)) = m
          /\ \A j \in 1..m : SubSeq(b, x, y)[j] = b[x + j - 1]
      BY <3>1, SubSeqProperties
    <3>3. \A j \in 1..m : x + j - 1 = done + j
      BY <3>1
    <3>4. QED BY <3>1, <3>2, <3>3, ZenonT(60)
  <2>3. ASSUME NEW j \in 1..m PROVE t[j] = h + j
    <3>1. done + j \in 1..n
      BY <1>5
    <3>2. t[j] = f - n + (done + j)
      BY <1>4, <2>2, <3>1
    <3>3. QED BY <1>4, <3>2
  <2>4. QED BY <2>2, <2>3
<1>7. PICK all \in Seq(Nat) : all = g \o t /\ Len(all) = h + m /\ \A i \in 1..h + m : all[i] = i
  <2>1. /\ g \o t \in Seq(Nat) /\ Len(g \o t) = Len(g) + Len(t)
        /\ \A i \in 1..Len(g) + Len(t) : (g \o t)[i] = IF i <= Len(g) THEN g[i] ELSE t[i - Len(g)]
    BY ConcatProperties
  <2>2. PICK all \in Seq(Nat) : /\ all = g \o t /\ Len(all) = h + m
                                /\ \A i \in 1..h + m : all[i] = IF i <= h THEN g[i] ELSE t[i - h]
    <3>1. Len(g) = h /\ Len(t) = m
      BY <1>3, <1>6
    <3>2. QED BY <2>1, <3>1
  <2>3. ASSUME NEW i \in 1..h + m PROVE all[i] = i
    <3>1. CASE i <= h
      BY <1>4, <2>2, <3>1
    <3>2. CASE i > h
      <4>1. PICK j \in 1..m : j = i - h /\ i = h + j
        BY <3>2
      <4>2. all[i] = t[j]
        <5>1. all[i] = IF i <= h THEN g[i] ELSE t[i - h]
          BY <2>2
        <5>2. QED BY <3>2, <4>1, <5>1
      <4>3. t[j] = h + j
        BY <1>6
      <4>4. QED BY <4>1, <4>2, <4>3
    <3>3. QED BY <3>1, <3>2
  <2>4. QED BY <2>2, <2>3
<1>8. PICK w \in Browser :
         /\ w = Receives(c, v, amount, room) /\ w.got = all
         /\ w.wants = v.wants /\ w.tosend = v.tosend /\ w.onway = v.onway
  <2> DEFINE w == [v EXCEPT !.got = all, !.room = room]
  <2>1. w = Receives(c, v, amount, room)
    BY <1>2, <1>3, <1>5, <1>6, <1>7 DEF Browser, Receives
  <2>2. w \in Browser /\ w.got = all /\ w.wants = v.wants /\ w.tosend = v.tosend /\ w.onway = v.onway
    BY DEF Browser
  <2>3. QED BY <2>1, <2>2
<1>9. Remaining(w, LenOf(w.wants))
  BY <1>1, <1>8 DEF Remaining
<1>10. CASE done + m >= n
  <2>1. flushout(c, amount) = [c EXCEPT !.buf = << >>, !.bdone = 0, !.wsblock = FALSE]
    BY <1>2, <1>5, <1>10 DEF flushout
  <2>2. PICK e \in WebCon : /\ e = flushout(c, amount) /\ e.buf = << >> /\ e.bdone = 0
                            /\ e.file = c.file /\ e.state = c.state
    <3>1. PICK z \in Seq(Nat) : z = << >>
      BY EmptySeq
    <3> DEFINE e == [c EXCEPT !.buf = z, !.bdone = 0, !.wsblock = FALSE]
    <3>2. e \in WebCon /\ e.buf = z /\ e.bdone = 0 /\ e.file = c.file /\ e.state = c.state
      BY DEF WebCon
    <3>3. QED BY <2>1, <3>1, <3>2
  <2>3. Len(e.buf) = 0 /\ h + m = f
    <3>1. Len(e.buf) = 0
      BY <2>2
    <3>2. done + m = n
      <4>1. done + m <= n
        BY <1>5
      <4>2. done + m >= n
        BY <1>10
      <4>3. QED BY ONLY SMTT(40), <4>1, <4>2, done \in Nat, m \in Nat, n \in Nat
    <3>3. h = f - n + done
      BY <1>4
    <3>4. h + m = f
      BY <3>2, <3>3
    <3>5. QED BY <3>1, <3>4
  <2>4. Answering(e, w.wants.kind, w.got)
    <3>1. Len(w.got) = e.file - Len(e.buf) + e.bdone /\ \A i \in 1..Len(w.got) : w.got[i] = i
      BY <1>2, <1>7, <1>8, <2>2, <2>3, SMTT(40)
    <3>2. Len(e.buf) <= e.file /\ e.bdone <= Len(e.buf)
      BY <1>2, <2>2, <2>3
    <3>3. \A i \in 1..Len(e.buf) : e.buf[i] = e.file - Len(e.buf) + i
      BY <2>3
    <3>4. QED BY <1>1, <1>8, <2>2, <3>1, <3>2, <3>3, ZenonT(60) DEF Answering
  <2>5. QED BY <1>8, <1>9, <2>2, <2>4, StillSending
<1>11. CASE ~ (done + m >= n)
  <2>1. flushout(c, amount) = [c EXCEPT !.bdone = @ + amount, !.wsblock = FALSE]
    BY <1>2, <1>5, <1>11 DEF flushout
  <2>2. PICK e \in WebCon : /\ e = flushout(c, amount) /\ e.buf = b /\ e.bdone = done + m
                            /\ e.file = f /\ e.state = c.state
    <3>1. PICK y \in Nat : y = done + m
      OBVIOUS
    <3> DEFINE e == [c EXCEPT !.bdone = y, !.wsblock = FALSE]
    <3>2. e \in WebCon /\ e.buf = b /\ e.bdone = y /\ e.file = f /\ e.state = c.state
      BY <1>2 DEF WebCon
    <3>3. e = [c EXCEPT !.bdone = @ + amount, !.wsblock = FALSE]
      BY <1>2, <1>5, <3>1 DEF WebCon
    <3>4. QED BY <2>1, <3>1, <3>2, <3>3
  <2>3. Answering(e, w.wants.kind, w.got)
    <3>1. Len(w.got) = f - n + (done + m) /\ \A i \in 1..Len(w.got) : w.got[i] = i
      BY <1>4, <1>7, <1>8, SMTT(40)
    <3>2. done + m <= n
      BY <1>5
    <3>3. Len(e.buf) = n /\ e.bdone = done + m /\ e.file = f
      BY <1>2, <2>2
    <3>4. \A i \in 1..Len(e.buf) : e.buf[i] = e.file - Len(e.buf) + i
      BY <1>4, <2>2, <3>3
    <3>5. e.file \in 1..(FileLen + 1) /\ (w.wants.kind # "file" => e.file = 1)
      BY <1>1, <1>2, <1>8, <2>2 DEF Answering
    <3>6. (CASE w.wants.kind = "file" -> e.state = "SENDING" \/ (e.state = "DONE" /\ e.file = FileLen + 1)
             [] w.wants.kind = "script" -> e.state = "CGI"
             [] w.wants.kind = "none" -> e.state = "DONE")
      BY <1>1, <1>2, <1>8, <2>2 DEF Answering
    <3>7. Len(e.buf) <= e.file /\ e.bdone <= Len(e.buf)
      BY <1>4, <3>2, <3>3
    <3>8. Len(w.got) = e.file - Len(e.buf) + e.bdone /\ \A i \in 1..Len(w.got) : w.got[i] = i
      BY <3>1, <3>3
    <3>9. QED BY ONLY <3>4, <3>5, <3>6, <3>7, <3>8 DEF Answering
  <2>4. QED BY <1>8, <1>9, <2>2, <2>3, StillSending
<1>12. QED BY <1>10, <1>11

(* The whole answer counts from 1.                                         *)
LEMMA WholeIs ==
    ASSUME NEW kind \in Kinds
    PROVE  LET n == IF kind = "file" THEN FileLen + 1 ELSE 1
           IN  /\ n \in Nat /\ Whole(kind) \in Seq(Nat) /\ Len(Whole(kind)) = n
               /\ \A i \in 1..n : Whole(kind)[i] = i
<1>1. PICK n \in Nat : n = FileLen + 1
  BY HttpAssumption
<1>2. /\ [i \in 1..n |-> i] \in Seq(Nat) /\ Len([i \in 1..n |-> i]) = n
      /\ \A i \in 1..n : [j \in 1..n |-> j][i] = i
  OBVIOUS
<1>3. <<1>> \in Seq(Nat) /\ Len(<<1>>) = 1 /\ \A i \in 1..1 : <<1>>[i] = i
  OBVIOUS
<1>4. CASE kind = "file"
  <2>1. Whole(kind) = [i \in 1..n |-> i]
    BY <1>1, <1>4 DEF Whole
  <2>2. QED BY <1>1, <1>2, <1>4, <2>1
<1>5. CASE kind # "file"
  BY <1>3, <1>5 DEF Whole
<1>6. QED BY <1>4, <1>5

(* What counts from 1 is a beginning of the answer.                        *)
LEMMA Beginning ==
    ASSUME NEW kind \in Kinds, NEW g \in Seq(Nat), \A i \in 1..Len(g) : g[i] = i,
           Len(g) <= Len(Whole(kind))
    PROVE  IsPrefix(g, Whole(kind)) /\ (Len(g) = Len(Whole(kind)) => g = Whole(kind))
<1>1. PICK a \in Seq(Nat), n \in Nat, m \in Nat :
         /\ a = Whole(kind) /\ n = Len(a) /\ m = Len(g) /\ m <= n
         /\ (\A i \in 1..n : a[i] = i) /\ (\A i \in 1..m : g[i] = i)
  <2>1. PICK a \in Seq(Nat) : a = Whole(kind) /\ Len(a) \in Nat /\ \A i \in 1..Len(a) : a[i] = i
    BY WholeIs
  <2>2. Len(g) \in Nat /\ Len(g) <= Len(a)
    BY <2>1
  <2>3. QED BY <2>1, <2>2
<1>2. \A i \in 1..m : g[i] = a[i]
  BY <1>1
<1>3. m = n => g = a
  <2>1. ASSUME m = n PROVE Len(g) = Len(a) /\ \A i \in 1..Len(g) : g[i] = a[i]
    BY <1>1, <1>2, <2>1
  <2>2. QED BY <2>1, SeqEqual
<1>4. SubSeq(g, 1, m) = SubSeq(a, 1, m)
  <2>1. /\ SubSeq(g, 1, m) \in Seq(Nat) /\ Len(SubSeq(g, 1, m)) = m
        /\ \A i \in 1..m : SubSeq(g, 1, m)[i] = g[i]
    BY <1>1
  <2>2. /\ SubSeq(a, 1, m) \in Seq(Nat) /\ Len(SubSeq(a, 1, m)) = m
        /\ \A i \in 1..m : SubSeq(a, 1, m)[i] = a[i]
    BY <1>1
  <2>3. PICK x \in Seq(Nat), y \in Seq(Nat) : x = SubSeq(g, 1, m) /\ y = SubSeq(a, 1, m)
    BY <2>1, <2>2
  <2>4. Len(x) = Len(y) /\ \A i \in 1..Len(x) : x[i] = y[i]
    BY <1>2, <2>1, <2>2, <2>3
  <2>5. QED BY <2>3, <2>4, SeqEqual
<1>5. IsPrefix(g, a)
  BY <1>1, <1>4 DEF IsPrefix
<1>6. QED BY <1>1, <1>3, <1>5

Closing(c) == [c EXCEPT !.state = "CLOSED"]
HungUp(v) ==
    [v EXCEPT !.readAsked = FALSE, !.writeAsked = FALSE, !.tosend = << >>, !.onway = << >>]

(* A connection is closed when its answer is out, or its browser gone.     *)
LEMMA ClosedWhole ==
    ASSUME NEW c \in WebCon, NEW v \in Browser, OpenOK(c, v), HandsOver(c) \/ Finished(c) \/ v.left
    PROVE  /\ Closing(c) \in WebCon /\ HungUp(v) \in Browser
           /\ ClosedOK(Closing(c), HungUp(v))
<1>1. Closing(c) \in WebCon /\ Closing(c).state = "CLOSED"
  BY DEF Closing, WebCon, WebStates
<1>2. HungUp(v) \in Browser /\ HungUp(v).left = v.left /\ HungUp(v).wants = v.wants /\ HungUp(v).got = v.got
  <2>1. PICK z \in Seq(RequestWords) : z = << >>
    BY EmptySeq
  <2> DEFINE w == [v EXCEPT !.readAsked = FALSE, !.writeAsked = FALSE, !.tosend = z, !.onway = z]
  <2>2. w \in Browser /\ w.left = v.left /\ w.wants = v.wants /\ w.got = v.got
    BY DEF Browser
  <2>3. HungUp(v) = w
    BY <2>1 DEF HungUp
  <2>4. QED BY <2>2, <2>3
<1>3. PICK kind \in Kinds, g \in Seq(Nat), h \in Nat : kind = v.wants.kind /\ g = v.got /\ h = Len(g)
  <2>1. v.wants \in RequestLines /\ v.got \in Seq(Nat)
    BY DEF Browser
  <2>2. v.wants.kind \in Kinds /\ Len(v.got) \in Nat
    BY <2>1 DEF RequestLines
  <2>3. QED BY <2>1, <2>2
<1>4. PICK n \in Nat : n = Len(Whole(kind)) /\ n = IF kind = "file" THEN FileLen + 1 ELSE 1
  BY WholeIs
<1>5. CASE c.state \in {"SENDING", "CGI", "DONE"} \/ c.buf # << >>
  <2>1. Answering(c, kind, g)
    BY <1>3, <1>5, Sending
  <2>2. PICK b \in Nat, f \in Nat, done \in Nat : b = Len(c.buf) /\ f = c.file /\ done = c.bdone
    BY DEF WebCon
  <2>3. /\ b <= f /\ done <= b /\ h = f - b + done /\ \A i \in 1..h : g[i] = i
    BY <1>3, <2>1, <2>2 DEF Answering
  <2>4. f <= n
    BY <1>4, <2>1, <2>2 DEF Answering
  <2>5. h <= n
    BY <2>3, <2>4
  <2>6. IsPrefix(g, Whole(kind)) /\ (h = n => g = Whole(kind))
    BY <1>3, <1>4, <2>3, <2>5, Beginning
  <2>7. ~v.left => h = n
    <3> SUFFICES ASSUME ~v.left PROVE h = n
      OBVIOUS
    <3>1. c.buf = << >> /\ c.state \in {"CGI", "DONE"}
      BY DEF HandsOver, Finished
    <3>2. b = 0 /\ h = f
      BY <2>2, <2>3, <3>1
    <3>3. f = n
      BY <1>4, <2>1, <2>2, <3>1 DEF Answering, Kinds
    <3>4. QED BY <3>2, <3>3
  <2>8. QED BY <1>1, <1>2, <1>3, <2>6, <2>7 DEF ClosedOK
<1>6. CASE c.state \notin {"SENDING", "CGI", "DONE"} /\ c.buf = << >>
  <2>1. v.left
    BY <1>6 DEF HandsOver, Finished
  <2>2. g = << >>
    <3>1. PICK k \in 0..LenOf(v.wants) : Took(c, v, v.got, k)
      BY DEF OpenOK
    <3>2. ~ Answering(c, v.wants.kind, v.got)
      BY <1>3, <1>6 DEF Answering, Kinds
    <3>3. QED BY <1>3, <3>1, <3>2 DEF Took
  <2>3. Len(g) = 0 /\ \A i \in 1..Len(g) : g[i] = i
    BY <2>2
  <2>4. Len(g) <= Len(Whole(kind))
    BY <1>4, <2>3
  <2>5. IsPrefix(g, Whole(kind))
    BY <2>3, <2>4, Beginning
  <2>6. QED BY <1>1, <1>2, <1>3, <2>1, <2>5 DEF ClosedOK
<1>7. QED BY <1>5, <1>6

-----------------------------------------------------------------------------
HttpNotes == [about : {"read", "write", "listen"}, num : 0..MaxVisits]

LoopOK(l, list) ==
    /\ l \in [at : {"wait", "round"}, cur : Nat, done : BOOLEAN]
    /\ l.at = "round" => l.cur \in 1..Len(list)

(* A browser asks to be let in at most once at a time, while there is a    *)
(* number for it.                                                          *)
OneListens ==
    \A i \in DOMAIN httpNotices : httpNotices[i].about = "listen" =>
        visits < MaxVisits /\ \A j \in DOMAIN httpNotices : httpNotices[j].about = "listen" => i = j

HttpTypes ==
    /\ visits \in 0..MaxVisits
    /\ webs \in Seq(Visits) /\ Distinct(webs) /\ On(webs) \subseteq 1..visits
    /\ web \in [Visits -> WebCon] /\ visitor \in [Visits -> Browser]
    /\ LoopOK(httpLoop, webs)
    /\ httpNotices \in Seq(HttpNotes)

ConOK(n) ==
    IF n > visits THEN NewOK(web[n], visitor[n])
    ELSE IF n \in On(webs) THEN OpenOK(web[n], visitor[n])
    ELSE ClosedOK(web[n], visitor[n])

HttpInv == HttpTypes /\ OneListens /\ \A n \in Visits : ConOK(n)

(* One connection goes on, or is closed.                                   *)
LEMMA GoesOn ==
    ASSUME HttpInv, NEW n \in On(webs), NEW c \in WebCon, NEW v \in Browser, OpenOK(c, v),
           web' = [web EXCEPT ![n] = c], visitor' = [visitor EXCEPT ![n] = v],
           LoopOK(httpLoop', webs), UNCHANGED <<webs, visits, httpNotices>>
    PROVE  HttpInv'
<1>1. n \in Visits /\ web \in [Visits -> WebCon] /\ visitor \in [Visits -> Browser]
  <2>1. On(webs) \subseteq Visits
    BY OnMember DEF HttpInv, HttpTypes
  <2>2. QED BY <2>1 DEF HttpInv, HttpTypes
<1>2. web' \in [Visits -> WebCon] /\ visitor' \in [Visits -> Browser]
  BY <1>1
<1>3. ASSUME NEW k \in Visits PROVE ConOK(k)'
  <2>1. CASE k = n
    <3>1. n \in 1..visits
      BY DEF HttpInv, HttpTypes
    <3>2. ~ (n > visits)
      <4>1. visits \in Int
        BY DEF HttpInv, HttpTypes
      <4>2. QED BY <3>1, <4>1
    <3>3. QED BY <1>1, <2>1, <3>2 DEF ConOK
  <2>2. CASE k # n
    <3>1. web'[k] = web[k] /\ visitor'[k] = visitor[k]
      BY <1>1, <2>2
    <3>2. QED BY <3>1 DEF ConOK, HttpInv
  <2>3. QED BY <2>1, <2>2
<1>4. HttpTypes'
  BY <1>2 DEF HttpInv, HttpTypes
<1>5. OneListens'
  BY DEF HttpInv, OneListens
<1>6. QED BY <1>3, <1>4, <1>5 DEF HttpInv

(* A round begins at the head, if there is one.                            *)
LEMMA RoundOK ==
    ASSUME NEW list \in Seq(Visits)
    PROVE  LoopOK(BeginRounds(list), list)
<1>1. Len(list) \in Nat /\ (list # << >> => Len(list) >= 1)
  BY EmptySeq
<1>2. list # << >> => 1 \in 1..Len(list)
  BY <1>1
<1>3. QED BY <1>2 DEF BeginRounds, LoopOK

(* A round goes on to a connection of the list.                            *)
LEMMA NextOK ==
    ASSUME HttpInv, NEW done \in BOOLEAN, httpLoop.at = "round"
    PROVE  LoopOK(NextWeb(done), webs)
<1>1. webs \in Seq(Visits) /\ Len(webs) \in Nat /\ LoopOK(httpLoop, webs)
  BY DEF HttpInv, HttpTypes
<1>2. CASE httpLoop.cur < Len(webs)
  <2>1. PICK k \in Nat : k = httpLoop.cur + 1 /\ k \in 1..Len(webs)
    BY <1>1, <1>2 DEF LoopOK
  <2>2. NextWeb(done) = [httpLoop EXCEPT !.cur = k, !.done = done]
    BY <1>1, <1>2, <2>1 DEF NextWeb, LoopOK
  <2>3. QED BY <1>1, <2>1, <2>2 DEF LoopOK
<1>3. CASE ~ (httpLoop.cur < Len(webs))
  BY <1>1, <1>3, RoundOK DEF NextWeb, LoopOK
<1>4. QED BY <1>2, <1>3

(* Blocking a connection leaves its answer alone.                          *)
LEMMA BlocksOK ==
    ASSUME NEW c \in WebCon, NEW v, OpenOK(c, v), NEW b \in BOOLEAN
    PROVE  /\ [c EXCEPT !.rsblock = b] \in WebCon /\ OpenOK([c EXCEPT !.rsblock = b], v)
           /\ [c EXCEPT !.wsblock = b] \in WebCon /\ OpenOK([c EXCEPT !.wsblock = b], v)
<1>1. ASSUME NEW e, e \in {[c EXCEPT !.rsblock = b], [c EXCEPT !.wsblock = b]}
      PROVE  e \in WebCon /\ OpenOK(e, v)
  <2>1. e \in WebCon
    BY <1>1 DEF WebCon
  <2>2. /\ e.state = c.state /\ e.request = c.request /\ e.conlen = c.conlen
        /\ e.buf = c.buf /\ e.bdone = c.bdone /\ e.file = c.file
    BY <1>1 DEF WebCon
  <2>3. OpenOK(e, v)
    BY <2>2, SameOpen
  <2>4. QED BY <2>1, <2>3
<1>2. QED BY <1>1

(* So do notices asked for and what the browser makes of its side.         *)
LEMMA AsksOK ==
    ASSUME NEW c, NEW v \in Browser, OpenOK(c, v), NEW b \in BOOLEAN, NEW w,
           w \in {[v EXCEPT !.readAsked = b], [v EXCEPT !.writeAsked = b], [v EXCEPT !.room = b], [v EXCEPT !.left = b]}
    PROVE  w \in Browser /\ OpenOK(c, w)
<1>1. w \in Browser
  BY DEF Browser
<1>2. w.wants = v.wants /\ w.tosend = v.tosend /\ w.onway = v.onway /\ w.got = v.got
  BY DEF Browser
<1>3. OpenOK(c, w)
  BY <1>2, SameOpen
<1>4. QED BY <1>1, <1>3

(* closecon keeps the invariant.                                           *)
LEMMA ClosesOn ==
    ASSUME HttpInv, NEW n \in On(webs), NEW c \in WebCon, NEW v \in Browser, NEW done \in BOOLEAN,
           OpenOK(c, v), HandsOver(c) \/ Finished(c) \/ v.left,
           closecon(n, c, v, done), UNCHANGED <<visits, httpNotices>>
    PROVE  HttpInv'
<1>1. /\ webs \in Seq(Visits) /\ Distinct(webs) /\ visits \in 0..MaxVisits
      /\ web \in [Visits -> WebCon] /\ visitor \in [Visits -> Browser]
      /\ On(webs) \subseteq 1..visits
  BY DEF HttpInv, HttpTypes
<1>2. n \in Visits /\ n \in 1..visits
  BY <1>1, OnMember
<1>3. PICK left \in Seq(Visits) : left = Without(webs, n) /\ On(left) = On(webs) \ {n} /\ Distinct(left)
  BY <1>1, WithoutUnlinks
<1>4. PICK d \in WebCon, w \in Browser : d = Closing(c) /\ w = HungUp(v) /\ ClosedOK(d, w)
  BY ClosedWhole
<1>5. /\ web' = [web EXCEPT ![n] = d] /\ visitor' = [visitor EXCEPT ![n] = w] /\ webs' = left
      /\ httpLoop' = [BeginRounds(left) EXCEPT !.done = IF left = << >> THEN TRUE ELSE done]
  BY <1>3, <1>4 DEF closecon, Closing, HungUp
<1>6. web' \in [Visits -> WebCon] /\ visitor' \in [Visits -> Browser]
  BY <1>1, <1>2, <1>5
<1>7. LoopOK(httpLoop', left)
  <2>1. LoopOK(BeginRounds(left), left)
    BY RoundOK
  <2>2. PICK l : l = BeginRounds(left) /\ LoopOK(l, left)
    BY <2>1
  <2>3. PICK b \in BOOLEAN : b = IF left = << >> THEN TRUE ELSE done
    OBVIOUS
  <2>4. httpLoop' = [l EXCEPT !.done = b]
    BY <1>5, <2>2, <2>3
  <2>5. QED BY <2>2, <2>4 DEF LoopOK
<1>8. HttpTypes'
  BY <1>1, <1>3, <1>5, <1>6, <1>7 DEF HttpInv, HttpTypes
<1>9. OneListens'
  BY DEF HttpInv, OneListens
<1>10. ASSUME NEW k \in Visits PROVE ConOK(k)'
  <2>1. CASE k = n
    <3>1. web'[k] = d /\ visitor'[k] = w /\ ~ (k > visits) /\ k \notin On(left)
      BY <1>1, <1>2, <1>3, <1>5, <2>1
    <3>2. QED BY <1>4, <1>5, <3>1 DEF ConOK
  <2>2. CASE k # n
    <3>1. web'[k] = web[k] /\ visitor'[k] = visitor[k] /\ (k \in On(left) <=> k \in On(webs))
      BY <1>1, <1>3, <1>5, <2>2
    <3>2. ConOK(k)
      BY DEF HttpInv
    <3>3. QED BY <1>5, <3>1, <3>2 DEF ConOK
  <2>3. QED BY <2>1, <2>2
<1>11. QED BY <1>8, <1>9, <1>10 DEF HttpInv

(* So does what main does for a connection it has read,                    *)
LEMMA ServesKeeps ==
    ASSUME HttpInv, httpLoop.at = "round", NEW n \in On(webs), NEW c \in WebCon, NEW v \in Browser,
           OpenOK(c, v), NEW done \in BOOLEAN, Serves(n, c, v, done), UNCHANGED <<visits, httpNotices>>
    PROVE  HttpInv'
<1>1. CASE HandsOver(c)
  <2>1. closecon(n, c, v, done)
    BY <1>1 DEF Serves
  <2>2. QED BY <1>1, <2>1, ClosesOn
<1>2. CASE ~ HandsOver(c)
  <2>1. PICK d \in WebCon : d = tryFill(c) /\ OpenOK(d, v)
    BY Filled
  <2>2. LoopOK(NextWeb(done), webs) /\ LoopOK(NextWeb(FALSE), webs)
    BY NextOK
  <2>3. CASE d.wsblock \/ d.buf = << >>
    <3>1. CASE Finished(d)
      <4>1. closecon(n, d, v, done)
        BY <1>2, <2>1, <2>3, <3>1 DEF Serves
      <4>2. QED BY <2>1, <3>1, <4>1, ClosesOn
    <3>2. CASE ~ Finished(d)
      <4>1. /\ web' = [web EXCEPT ![n] = d] /\ visitor' = [visitor EXCEPT ![n] = v]
            /\ httpLoop' = NextWeb(done) /\ UNCHANGED webs
        BY <1>2, <2>1, <2>3, <3>2 DEF Serves
      <4>2. LoopOK(httpLoop', webs)
        BY <2>2, <4>1
      <4>3. QED BY <2>1, <4>1, <4>2, GoesOn
    <3>3. QED BY <3>1, <3>2
  <2>4. CASE ~ (d.wsblock \/ d.buf = << >>) /\ v.left
    <3>1. closecon(n, d, v, done)
      BY <1>2, <2>1, <2>4 DEF Serves
    <3>2. QED BY <2>1, <2>4, <3>1, ClosesOn
  <2>5. CASE ~ (d.wsblock \/ d.buf = << >>) /\ ~ v.left /\ ~ v.room
    <3>1. /\ web' = [web EXCEPT ![n] = [d EXCEPT !.wsblock = TRUE]]
          /\ visitor' = [visitor EXCEPT ![n] = [v EXCEPT !.writeAsked = TRUE]]
          /\ httpLoop' = NextWeb(done) /\ UNCHANGED webs
      BY <1>2, <2>1, <2>5 DEF Serves
    <3>2. PICK e \in WebCon : e = [d EXCEPT !.wsblock = TRUE] /\ OpenOK(e, v)
      BY <2>1, BlocksOK
    <3>3. PICK w : w = [v EXCEPT !.writeAsked = TRUE]
      OBVIOUS
    <3>4. w \in Browser /\ OpenOK(e, w)
      BY <3>2, <3>3, AsksOK
    <3>5. LoopOK(httpLoop', webs)
      BY <2>2, <3>1
    <3>6. QED BY <3>1, <3>2, <3>3, <3>4, <3>5, GoesOn
  <2>6. CASE ~ (d.wsblock \/ d.buf = << >>) /\ ~ v.left /\ v.room
    <3>1. PICK amount \in 1..(Len(d.buf) - d.bdone), room \in BOOLEAN :
             LET e == flushout(d, amount)
                 w == Receives(d, v, amount, room)
             IN  IF Finished(e) THEN closecon(n, e, w, FALSE)
                 ELSE /\ web' = [web EXCEPT ![n] = e] /\ visitor' = [visitor EXCEPT ![n] = w]
                      /\ httpLoop' = NextWeb(FALSE) /\ UNCHANGED webs
      BY <1>2, <2>1, <2>6 DEF Serves, Receives
    <3>2. PICK e \in WebCon, w \in Browser :
             e = flushout(d, amount) /\ w = Receives(d, v, amount, room) /\ OpenOK(e, w)
      BY <2>1, <2>6, Flushed
    <3>3. CASE Finished(e)
      <4>1. closecon(n, e, w, FALSE)
        BY <3>1, <3>2, <3>3
      <4>2. QED BY <3>2, <3>3, <4>1, ClosesOn
    <3>4. CASE ~ Finished(e)
      <4>1. /\ web' = [web EXCEPT ![n] = e] /\ visitor' = [visitor EXCEPT ![n] = w]
            /\ httpLoop' = NextWeb(FALSE) /\ UNCHANGED webs
        BY <3>1, <3>2, <3>4
      <4>2. LoopOK(httpLoop', webs)
        BY <2>2, <4>1
      <4>3. QED BY <3>2, <4>1, <4>2, GoesOn
    <3>5. QED BY <3>3, <3>4
  <2>7. QED BY <2>3, <2>4, <2>5, <2>6
<1>3. QED BY <1>1, <1>2

(* and the whole of its pass over one.                                     *)
LEMMA PassKeeps ==
    ASSUME HttpInv, Pass
    PROVE  HttpInv'
<1>1. PICK n : n = webs[httpLoop.cur] /\ httpLoop.at = "round"
  BY DEF Pass
<1>2. /\ n \in On(webs) /\ n \in Visits /\ httpLoop.done \in BOOLEAN
      /\ web[n] \in WebCon /\ visitor[n] \in Browser /\ OpenOK(web[n], visitor[n])
  <2>1. /\ webs \in Seq(Visits) /\ On(webs) \subseteq 1..visits /\ visits \in 0..MaxVisits
        /\ web \in [Visits -> WebCon] /\ visitor \in [Visits -> Browser] /\ LoopOK(httpLoop, webs)
    BY DEF HttpInv, HttpTypes
  <2>2. httpLoop.cur \in 1..Len(webs) /\ httpLoop.done \in BOOLEAN
    BY <1>1, <2>1 DEF LoopOK
  <2>3. n \in On(webs) /\ n \in Visits
    BY <1>1, <2>1, <2>2, OnMember
  <2>4. ~ (n > visits)
    BY <2>1, <2>3
  <2>5. ConOK(n)
    BY <2>3 DEF HttpInv
  <2>6. QED BY <2>1, <2>2, <2>3, <2>4, <2>5 DEF ConOK
<1>3. PICK v \in Browser : v = visitor[n]
  BY <1>2
<1>4. UNCHANGED <<visits, httpNotices>>
  BY DEF Pass
<1>5. CASE web[n].rsblock
  <2>1. Serves(n, web[n], v, httpLoop.done)
    BY <1>1, <1>3, <1>5 DEF Pass
  <2>2. QED BY <1>1, <1>2, <1>3, <1>4, <2>1, ServesKeeps
<1>6. CASE ~ web[n].rsblock /\ v.onway # << >>
  <2>1. PICK w \in Browser : w = [v EXCEPT !.onway = << >>]
    <3>1. PICK z \in Seq(RequestWords) : z = << >>
      BY EmptySeq
    <3>2. [v EXCEPT !.onway = z] \in Browser
      BY DEF Browser
    <3>3. QED BY <3>1, <3>2
  <2>2. readser(n) \in WebCon /\ OpenOK(readser(n), w)
    BY <1>2, <1>3, <2>1, ReadserKeeps
  <2>3. Serves(n, readser(n), w, FALSE)
    BY <1>1, <1>3, <1>6, <2>1 DEF Pass
  <2>4. PICK d \in WebCon : d = readser(n)
    BY <2>2
  <2>5. OpenOK(d, w) /\ Serves(n, d, w, FALSE)
    BY <2>2, <2>3, <2>4
  <2>6. QED BY <1>1, <1>2, <1>4, <2>5, ServesKeeps
<1>7. CASE ~ web[n].rsblock /\ v.onway = << >> /\ v.left
  <2>1. closecon(n, web[n], v, httpLoop.done)
    BY <1>1, <1>3, <1>7 DEF Pass
  <2>2. QED BY <1>2, <1>3, <1>4, <1>7, <2>1, ClosesOn
<1>8. CASE ~ web[n].rsblock /\ v.onway = << >> /\ ~ v.left
  <2>1. PICK c \in WebCon : c = web[n]
    BY <1>2
  <2>2. PICK e \in WebCon : e = [c EXCEPT !.rsblock = TRUE] /\ OpenOK(e, v)
    BY <1>2, <1>3, <2>1, BlocksOK
  <2>3. PICK w : w = [v EXCEPT !.readAsked = TRUE]
    OBVIOUS
  <2>4. w \in Browser /\ OpenOK(e, w)
    BY <2>2, <2>3, AsksOK
  <2>5. Serves(n, e, w, httpLoop.done)
    BY <1>1, <1>3, <1>8, <2>1, <2>2, <2>3 DEF Pass
  <2>6. QED BY <1>1, <1>2, <1>4, <2>4, <2>5, ServesKeeps
<1>9. QED BY <1>5, <1>6, <1>7, <1>8

(* A number of visits.                                                     *)
LEMMA SomeVisits == MaxVisits \in Nat
BY HttpAssumption

(* A message more, which is not a second one from the listener,            *)
LEMMA NotesMore ==
    ASSUME HttpInv, NEW m \in HttpNotes, httpNotices' = Append(httpNotices, m), visits' = visits,
           m.about = "listen" => visits < MaxVisits /\ \A i \in DOMAIN httpNotices : httpNotices[i].about # "listen"
    PROVE  httpNotices' \in Seq(HttpNotes) /\ OneListens'
<1>1. PICK q \in Seq(HttpNotes), l \in Nat : q = httpNotices /\ l = Len(q) /\ DOMAIN q = 1..l
  BY DEF HttpInv, HttpTypes
<1>2. PICK r \in Seq(HttpNotes) : /\ r = httpNotices' /\ DOMAIN r = 1..(l + 1) /\ r[l + 1] = m
                                  /\ \A i \in 1..l : r[i] = q[i]
  BY <1>1, AppendProperties
<1>3. \A i \in 1..l : q[i].about = "listen" =>
         visits < MaxVisits /\ \A j \in 1..l : q[j].about = "listen" => i = j
  BY <1>1 DEF HttpInv, OneListens
<1>4. m.about = "listen" => visits < MaxVisits /\ \A i \in 1..l : q[i].about # "listen"
  BY <1>1
<1>5. ASSUME NEW i \in 1..(l + 1), r[i].about = "listen"
      PROVE  visits < MaxVisits /\ \A j \in 1..(l + 1) : r[j].about = "listen" => i = j
  <2>1. \A j \in 1..(l + 1) : j \in 1..l \/ j = l + 1
    OBVIOUS
  <2>2. QED BY <1>2, <1>3, <1>4, <1>5, <2>1
<1>6. OneListens'
  BY <1>2, <1>5 DEF OneListens
<1>7. QED BY <1>2, <1>6

(* and one less.                                                           *)
LEMMA NotesFewer ==
    ASSUME HttpInv, httpNotices # << >>, httpNotices' = Tail(httpNotices),
           visits' = visits \/ Head(httpNotices).about = "listen"
    PROVE  httpNotices' \in Seq(HttpNotes) /\ OneListens' /\ Head(httpNotices) \in HttpNotes
<1>1. PICK q \in Seq(HttpNotes), l \in Nat : q = httpNotices /\ l = Len(q) /\ DOMAIN q = 1..l /\ l >= 1
  <2>1. httpNotices \in Seq(HttpNotes) /\ Len(httpNotices) \in Nat /\ DOMAIN httpNotices = 1..Len(httpNotices)
    BY DEF HttpInv, HttpTypes
  <2>2. Len(httpNotices) >= 1
    BY <2>1, EmptySeq
  <2>3. QED BY <2>1, <2>2
<1>2. PICK r \in Seq(HttpNotes) : /\ r = httpNotices' /\ DOMAIN r = 1..(l - 1)
                                  /\ \A i \in 1..(l - 1) : r[i] = q[i + 1]
  <2>1. q # << >>
    BY <1>1
  <2>2. Tail(q) \in Seq(HttpNotes) /\ Len(Tail(q)) = l - 1 /\ \A i \in 1..Len(Tail(q)) : Tail(q)[i] = q[i + 1]
    BY <1>1, <2>1, HeadTailProperties
  <2>3. PICK t \in Seq(HttpNotes) : t = Tail(q)
    BY <2>2
  <2>4. Len(t) = l - 1 /\ DOMAIN t = 1..Len(t) /\ \A i \in 1..Len(t) : t[i] = q[i + 1]
    BY <2>2, <2>3
  <2>5. t = httpNotices'
    BY <1>1, <2>3
  <2>6. QED BY <2>4, <2>5
<1>3. Head(httpNotices) = q[1] /\ q[1] \in HttpNotes
  BY <1>1
<1>4. \A i \in 1..l : q[i].about = "listen" =>
         visits < MaxVisits /\ \A j \in 1..l : q[j].about = "listen" => i = j
  BY <1>1 DEF HttpInv, OneListens
<1>5. ASSUME NEW i \in 1..(l - 1), r[i].about = "listen"
      PROVE  visits' < MaxVisits /\ \A j \in 1..(l - 1) : r[j].about = "listen" => i = j
  <2>1. i + 1 \in 1..l /\ 1 \in 1..l /\ i + 1 # 1 /\ \A j \in 1..(l - 1) : j + 1 \in 1..l
    BY <1>1
  <2>2. q[i + 1].about = "listen"
    BY <1>2, <1>5
  <2>3. q[1].about # "listen"
    BY <1>4, <2>1, <2>2
  <2>4. visits' < MaxVisits
    BY <1>3, <1>4, <2>1, <2>2, <2>3
  <2>5. ASSUME NEW j \in 1..(l - 1), r[j].about = "listen" PROVE i = j
    <3>1. q[j + 1].about = "listen"
      BY <1>2, <2>5
    <3>2. i + 1 = j + 1
      BY <1>4, <2>1, <2>2, <3>1
    <3>3. QED BY <3>2
  <2>6. QED BY <2>4, <2>5
<1>6. OneListens'
  BY <1>2, <1>5 DEF OneListens
<1>7. QED BY <1>2, <1>3, <1>6

(* A notice is given.                                                      *)
LEMMA NoticeKeeps ==
    ASSUME HttpInv, NEW n \in Visits, NEW w, NEW about \in {"read", "write"},
           w \in {[visitor[n] EXCEPT !.readAsked = FALSE], [visitor[n] EXCEPT !.writeAsked = FALSE]},
           visitor' = [visitor EXCEPT ![n] = w],
           httpNotices' = Append(httpNotices, [about |-> about, num |-> n]),
           UNCHANGED <<webs, web, visits, httpLoop>>
    PROVE  HttpInv'
<1>1. /\ webs \in Seq(Visits) /\ visits \in 0..MaxVisits /\ MaxVisits \in Nat
      /\ web \in [Visits -> WebCon] /\ visitor \in [Visits -> Browser]
  BY SomeVisits DEF HttpInv, HttpTypes
<1>2. PICK v \in Browser : v = visitor[n]
  BY <1>1
<1>3. /\ w \in Browser /\ w.wants = v.wants /\ w.tosend = v.tosend /\ w.onway = v.onway
      /\ w.got = v.got /\ w.left = v.left
  <2>1. w \in Browser
    BY <1>2 DEF Browser
  <2>2. w.wants = v.wants /\ w.tosend = v.tosend /\ w.onway = v.onway /\ w.got = v.got /\ w.left = v.left
    BY <1>2 DEF Browser
  <2>3. QED BY <2>1, <2>2
<1>4. PICK m \in HttpNotes : m = [about |-> about, num |-> n] /\ m.about # "listen"
  BY <1>1, SMTT(40) DEF HttpNotes, Visits
<1>5. httpNotices' \in Seq(HttpNotes) /\ OneListens'
  BY <1>4, NotesMore
<1>6. HttpTypes'
  BY <1>1, <1>3, <1>5 DEF HttpInv, HttpTypes
<1>7. ASSUME NEW k \in Visits PROVE ConOK(k)'
  <2>1. ConOK(k)
    BY DEF HttpInv
  <2>2. CASE k = n
    <3>1. PICK c : c = web[n]
      OBVIOUS
    <3>2. visitor'[k] = w /\ web'[k] = c
      BY <1>1, <2>2, <3>1
    <3>3. NewOK(c, v) => NewOK(c, w)
      BY <1>3 DEF NewOK, Remaining
    <3>4. OpenOK(c, v) => OpenOK(c, w)
      BY <1>3, SameOpen
    <3>5. ClosedOK(c, v) => ClosedOK(c, w)
      BY <1>3 DEF ClosedOK
    <3>6. IF k > visits THEN NewOK(c, v) ELSE IF k \in On(webs) THEN OpenOK(c, v) ELSE ClosedOK(c, v)
      BY <1>2, <2>1, <2>2, <3>1 DEF ConOK
    <3>7. IF k > visits THEN NewOK(c, w) ELSE IF k \in On(webs) THEN OpenOK(c, w) ELSE ClosedOK(c, w)
      BY <3>3, <3>4, <3>5, <3>6
    <3>8. QED BY <3>2, <3>7 DEF ConOK
  <2>3. CASE k # n
    <3>1. visitor'[k] = visitor[k]
      BY <1>1, <2>3
    <3>2. QED BY <2>1, <3>1 DEF ConOK
  <2>4. QED BY <2>2, <2>3
<1>8. QED BY <1>5, <1>6, <1>7 DEF HttpInv

(* A notice is taken.                                                      *)
LEMMA ToldKeeps ==
    ASSUME HttpInv, Told
    PROVE  HttpInv'
<1>1. /\ webs \in Seq(Visits) /\ On(webs) \subseteq 1..visits /\ visits \in 0..MaxVisits /\ MaxVisits \in Nat
      /\ web \in [Visits -> WebCon] /\ visitor \in [Visits -> Browser]
  BY SomeVisits DEF HttpInv, HttpTypes
<1>2. httpNotices' \in Seq(HttpNotes) /\ OneListens'
  <2>1. httpNotices # << >> /\ httpNotices' = Tail(httpNotices) /\ visits' = visits
    BY DEF Told
  <2>2. QED BY <2>1, NotesFewer
<1>3. LoopOK(httpLoop', webs)
  BY <1>1, RoundOK DEF Told
<1>4. PICK n :
        /\ n = 0 \/ n \in On(webs)
        /\ web' = [k \in Visits |->
                    IF k # n THEN web[k]
                    ELSE IF Head(httpNotices).about = "read" THEN [web[k] EXCEPT !.rsblock = FALSE]
                    ELSE [web[k] EXCEPT !.wsblock = FALSE]]
  <2>1. webs # << >> => Head(webs) \in On(webs)
    <3>1. ASSUME webs # << >> PROVE Head(webs) \in On(webs)
      <4>1. Len(webs) \in Nat /\ Len(webs) # 0
        BY <1>1, <3>1, EmptySeq
      <4>2. 1 \in 1..Len(webs) /\ Head(webs) = webs[1]
        BY <1>1, <4>1
      <4>3. QED BY <1>1, <4>2, OnMember
    <3>2. QED BY <3>1
  <2>2. QED BY <2>1 DEF Told, On
<1>5. ASSUME NEW k \in Visits
      PROVE  /\ web'[k] \in WebCon
             /\ k \in On(webs) => OpenOK(web'[k], visitor[k])
             /\ k \notin On(webs) => web'[k] = web[k]
  <2>1. CASE k # n
    <3>1. web'[k] = web[k]
      BY <1>4, <2>1
    <3>2. k \in On(webs) => OpenOK(web[k], visitor[k])
      <4>1. ConOK(k)
        BY DEF HttpInv
      <4>2. k \in On(webs) => ~ (k > visits)
        BY <1>1
      <4>3. QED BY <4>1, <4>2 DEF ConOK
    <3>3. QED BY <1>1, <3>1, <3>2
  <2>2. CASE k = n
    <3>1. k \in On(webs)
      BY <1>1, <1>4, <2>2 DEF Visits
    <3>2. ~ (k > visits)
      BY <1>1, <3>1
    <3>3. PICK c \in WebCon : c = web[k] /\ OpenOK(c, visitor[k])
      BY <1>1, <3>1, <3>2 DEF ConOK, HttpInv
    <3>4. web'[k] \in {[c EXCEPT !.rsblock = FALSE], [c EXCEPT !.wsblock = FALSE]}
      BY <1>4, <2>2, <3>3
    <3>5. web'[k] \in WebCon /\ OpenOK(web'[k], visitor[k])
      BY <3>3, <3>4, BlocksOK
    <3>6. QED BY <3>1, <3>5
  <2>3. QED BY <2>1, <2>2
<1>6. UNCHANGED <<webs, visitor, visits>>
  BY DEF Told
<1>7. web' \in [Visits -> WebCon]
  <2>1. web' = [k \in Visits |-> web'[k]]
    BY <1>4
  <2>2. QED BY <1>5, <2>1
<1>8. HttpTypes'
  BY <1>2, <1>3, <1>6, <1>7 DEF HttpInv, HttpTypes
<1>9. ASSUME NEW k \in Visits PROVE ConOK(k)'
  <2>1. ConOK(k)
    BY DEF HttpInv
  <2>2. CASE k \in On(webs)
    <3>1. ~ (k > visits)
      BY <1>1, <2>2
    <3>2. QED BY <1>5, <1>6, <2>2, <3>1 DEF ConOK
  <2>3. CASE k \notin On(webs)
    BY <1>5, <1>6, <2>1, <2>3 DEF ConOK
  <2>4. QED BY <2>2, <2>3
<1>10. QED BY <1>2, <1>8, <1>9 DEF HttpInv

(* A connection is accepted: its browser has said nothing yet.             *)
LEMMA prepConKeeps ==
    ASSUME HttpInv, prepCon
    PROVE  HttpInv'
<1>1. /\ webs \in Seq(Visits) /\ On(webs) \subseteq 1..visits /\ visits \in 0..MaxVisits /\ MaxVisits \in Nat
      /\ Distinct(webs) /\ httpNotices \in Seq(HttpNotes)
      /\ web \in [Visits -> WebCon] /\ visitor \in [Visits -> Browser]
  BY SomeVisits DEF HttpInv, HttpTypes
<1>2. /\ httpNotices # << >> /\ Head(httpNotices).about = "listen" /\ httpNotices' = Tail(httpNotices)
      /\ visits' = visits + 1 /\ webs' = Append(webs, visits + 1) /\ httpLoop' = BeginRounds(webs')
      /\ UNCHANGED <<web, visitor>>
  BY DEF prepCon
<1>3. httpNotices' \in Seq(HttpNotes) /\ OneListens'
  BY <1>2, NotesFewer
<1>4. visits < MaxVisits
  <2>1. Len(httpNotices) \in Nat /\ Len(httpNotices) # 0 /\ DOMAIN httpNotices = 1..Len(httpNotices)
    BY <1>1, <1>2, EmptySeq
  <2>2. 1 \in DOMAIN httpNotices /\ Head(httpNotices) = httpNotices[1]
    BY <1>1, <2>1
  <2>3. QED BY <1>2, <2>2 DEF HttpInv, OneListens
<1>5. PICK n \in Visits : n = visits + 1 /\ n \in 1..MaxVisits
  BY <1>1, <1>4 DEF Visits
<1>6. n \notin On(webs)
  BY <1>1, <1>5
<1>7. PICK list \in Seq(Visits) : list = webs' /\ On(list) = On(webs) \cup {n} /\ Distinct(list)
  BY <1>1, <1>2, <1>5, <1>6, AppendLinks
<1>8. LoopOK(httpLoop', list)
  BY <1>2, <1>7, RoundOK
<1>9. visits' \in 0..MaxVisits /\ On(list) \subseteq 1..visits'
  BY <1>1, <1>2, <1>4, <1>5, <1>7
<1>10. HttpTypes'
  BY <1>1, <1>2, <1>3, <1>7, <1>8, <1>9 DEF HttpTypes
<1>11. ASSUME NEW k \in Visits PROVE ConOK(k)'
  <2>1. PICK c, v : c = web[k] /\ v = visitor[k] /\ c = web'[k] /\ v = visitor'[k]
    BY <1>2
  <2>2. IF k > visits THEN NewOK(c, v) ELSE IF k \in On(webs) THEN OpenOK(c, v) ELSE ClosedOK(c, v)
    BY <2>1 DEF ConOK, HttpInv
  <2>3. IF k > visits' THEN NewOK(c, v) ELSE IF k \in On(list) THEN OpenOK(c, v) ELSE ClosedOK(c, v)
    <3>1. CASE k = n
      <4>1. k > visits /\ ~ (k > visits') /\ k \in On(list)
        BY <1>1, <1>2, <1>5, <1>7, <3>1
      <4>2. c = NewWeb /\ Remaining(v, 0) /\ v.got = << >>
        BY <2>2, <4>1 DEF NewOK
      <4>3. v.wants \in RequestLines
        BY <1>1, <2>1 DEF Browser
      <4>4. 0 \in 0..LenOf(v.wants) /\ 0 < LenOf(v.wants)
        BY <4>3, LenIs
      <4>5. Incomplete(c, v.wants, 0)
        BY <4>2 DEF NewWeb, Incomplete
      <4>6. OpenOK(c, v)
        BY <4>2, <4>4, <4>5 DEF OpenOK, Took
      <4>7. QED BY <4>1, <4>6
    <3>2. CASE k # n
      <4>1. k \in Int /\ (k > visits <=> k > visits') /\ (k \in On(list) <=> k \in On(webs))
        BY <1>1, <1>2, <1>5, <1>7, <3>2 DEF Visits
      <4>2. QED BY <2>2, <4>1
    <3>3. QED BY <3>1, <3>2
  <2>4. QED BY <1>7, <2>1, <2>3 DEF ConOK
<1>12. QED BY <1>3, <1>10, <1>11 DEF HttpInv

(* A browser knocks.                                                       *)
LEMMA VisitKeeps ==
    ASSUME HttpInv, Visit
    PROVE  HttpInv'
<1>1. PICK m \in HttpNotes : m = [about |-> "listen", num |-> 0] /\ m.about = "listen"
  <2>1. 0 \in 0..MaxVisits
    BY SomeVisits
  <2>2. PICK m : m = [about |-> "listen", num |-> 0]
    OBVIOUS
  <2>3. m \in HttpNotes /\ m.about = "listen"
    BY <2>1, <2>2 DEF HttpNotes
  <2>4. QED BY <2>2, <2>3
<1>2. httpNotices' \in Seq(HttpNotes) /\ OneListens'
  BY <1>1, NotesMore DEF Visit
<1>3. HttpTypes' /\ \A k \in Visits : ConOK(k)'
  BY <1>2 DEF HttpInv, HttpTypes, Visit, ConOK
<1>4. QED BY <1>2, <1>3 DEF HttpInv

(* A browser does something that leaves its connection open.               *)
LEMMA BrowserKeeps ==
    ASSUME HttpInv, NEW n \in Visits, n \in ToSet(webs), NEW w \in Browser, OpenOK(web[n], w),
           visitor' = [visitor EXCEPT ![n] = w], UNCHANGED <<webs, web, visits, httpLoop, httpNotices>>
    PROVE  HttpInv'
<1>1. PICK c \in WebCon : c = web[n] /\ web' = [web EXCEPT ![n] = c] /\ LoopOK(httpLoop', webs)
  BY DEF HttpInv, HttpTypes
<1>2. n \in On(webs)
  BY DEF On
<1>3. QED BY <1>1, <1>2, GoesOn

(* What an open connection is.                                             *)
LEMMA Opened ==
    ASSUME HttpInv, NEW n \in Visits, n \in ToSet(webs)
    PROVE  web[n] \in WebCon /\ visitor[n] \in Browser /\ OpenOK(web[n], visitor[n])
<1>1. /\ web[n] \in WebCon /\ visitor[n] \in Browser /\ n \in On(webs)
      /\ visits \in Int /\ On(webs) \subseteq 1..visits
  BY DEF HttpInv, HttpTypes, On
<1>2. ~ (n > visits) /\ ConOK(n)
  BY <1>1 DEF HttpInv
<1>3. QED BY <1>1, <1>2 DEF ConOK

(* More of a request arrives: the same units, cut elsewhere.               *)
LEMMA RequestArrivesKeeps ==
    ASSUME HttpInv, NEW n \in Visits, RequestArrives(n)
    PROVE  HttpInv'
<1>1. PICK c \in WebCon, v \in Browser : c = web[n] /\ v = visitor[n] /\ OpenOK(c, v) /\ n \in ToSet(webs)
  BY Opened DEF RequestArrives
<1>2. PICK s \in Seq(RequestWords), a \in Seq(RequestWords), t \in Nat, l \in Nat :
         s = v.tosend /\ a = v.onway /\ t = Len(s) /\ l = Len(a)
  BY DEF Browser
<1>3. PICK k \in 1..t :
         visitor' = [visitor EXCEPT ![n].onway = @ \o SubSeq(visitor[n].tosend, 1, k),
                                    ![n].tosend = SubSeq(@, k + 1, Len(@))]
  BY <1>1, <1>2 DEF RequestArrives
<1>4. PICK p \in Seq(RequestWords) : p = SubSeq(s, 1, k) /\ Len(p) = k /\ \A i \in 1..k : p[i] = s[i]
  <2>1. 1 \in 1..Len(s) + 1 /\ k \in 0..Len(s) /\ 1 <= k + 1 /\ k - 1 + 1 = k
    BY <1>2
  <2>2. /\ SubSeq(s, 1, k) \in Seq(RequestWords) /\ Len(SubSeq(s, 1, k)) = k
        /\ \A i \in 1..k : SubSeq(s, 1, k)[i] = s[1 + i - 1]
    BY <2>1, SubSeqProperties
  <2>3. \A i \in 1..k : 1 + i - 1 = i
    OBVIOUS
  <2>4. QED BY <2>2, <2>3
<1>5. PICK r \in Seq(RequestWords) :
         r = SubSeq(s, k + 1, t) /\ Len(r) = t - k /\ \A i \in 1..(t - k) : r[i] = s[k + i]
  <2>1. PICK x \in Nat : x = k + 1 /\ x \in 1..Len(s) + 1 /\ t \in 0..Len(s) /\ x <= t + 1 /\ t - x + 1 = t - k
    BY <1>2
  <2>2. /\ SubSeq(s, x, t) \in Seq(RequestWords) /\ Len(SubSeq(s, x, t)) = t - k
        /\ \A i \in 1..(t - k) : SubSeq(s, x, t)[i] = s[x + i - 1]
    BY <2>1, SubSeqProperties
  <2>3. \A i \in 1..(t - k) : x + i - 1 = k + i
    BY <2>1
  <2>4. QED BY <2>1, <2>2, <2>3, ZenonT(60)
<1>6. PICK b \in Seq(RequestWords) :
         b = a \o p /\ Len(b) = l + k /\ \A i \in 1..(l + k) : b[i] = IF i <= l THEN a[i] ELSE p[i - l]
  <2>1. /\ a \o p \in Seq(RequestWords) /\ Len(a \o p) = Len(a) + Len(p)
        /\ \A i \in 1..Len(a) + Len(p) : (a \o p)[i] = IF i <= Len(a) THEN a[i] ELSE p[i - Len(a)]
    BY ConcatProperties
  <2>2. Len(a) = l /\ Len(p) = k
    BY <1>2, <1>4
  <2>3. QED BY <2>1, <2>2
<1>7. PICK w \in Browser :
        /\ w = [v EXCEPT !.onway = b, !.tosend = r] /\ w.onway = b /\ w.tosend = r
        /\ w.wants = v.wants /\ w.got = v.got
  <2> DEFINE w == [v EXCEPT !.onway = b, !.tosend = r]
  <2>1. w \in Browser /\ w.onway = b /\ w.tosend = r /\ w.wants = v.wants /\ w.got = v.got
    BY DEF Browser
  <2>2. QED BY <2>1
<1>8. visitor' = [visitor EXCEPT ![n] = w]
  <2>1. visitor \in [Visits -> Browser]
    BY DEF HttpInv, HttpTypes
  <2>2. visitor' = [visitor EXCEPT ![n] = [v EXCEPT !.onway = v.onway \o SubSeq(v.tosend, 1, k),
                                                    !.tosend = SubSeq(v.tosend, k + 1, Len(v.tosend))]]
    BY <1>1, <1>3, <2>1 DEF Browser
  <2>3. v.onway \o SubSeq(v.tosend, 1, k) = b /\ SubSeq(v.tosend, k + 1, Len(v.tosend)) = r
    BY <1>2, <1>4, <1>5, <1>6
  <2>4. QED BY <1>7, <2>2, <2>3
<1>9. PICK m \in Nat : m = LenOf(v.wants)
  <2>1. v.wants \in RequestLines
    BY DEF Browser
  <2>2. QED BY <2>1, LenIs
<1>10. PICK j \in 0..m : Remaining(v, j) /\ Took(c, v, v.got, j)
  BY <1>1, <1>9 DEF OpenOK
<1>11. /\ j + l + t = m /\ (\A i \in 1..l : a[i] = UnitAt(j + i))
       /\ \A i \in 1..t : s[i] = UnitAt(j + l + i)
  BY <1>2, <1>9, <1>10 DEF Remaining
<1>12. ASSUME NEW i \in 1..(l + k) PROVE b[i] = UnitAt(j + i)
  <2>1. CASE i <= l
    <3>1. i \in 1..l
      BY <2>1
    <3>2. QED BY <1>6, <1>11, <2>1, <3>1
  <2>2. CASE ~ (i <= l)
    <3>1. PICK h \in 1..k : h = i - l /\ j + l + h = j + i /\ h \in 1..t
      BY <2>2
    <3>2. b[i] = p[h]
      BY <1>6, <2>2, <3>1
    <3>3. p[h] = s[h]
      BY <1>4
    <3>4. s[h] = UnitAt(j + l + h)
      BY <1>11, <3>1
    <3>5. QED BY <3>1, <3>2, <3>3, <3>4
  <2>3. QED BY <2>1, <2>2
<1>13. ASSUME NEW i \in 1..(t - k) PROVE r[i] = UnitAt(j + (l + k) + i)
  <2>1. PICK h \in 1..t : h = k + i /\ j + l + h = j + (l + k) + i
    OBVIOUS
  <2>2. r[i] = s[h]
    BY <1>5, <2>1
  <2>3. s[h] = UnitAt(j + l + h)
    BY <1>11
  <2>4. QED BY <2>1, <2>2, <2>3
<1>14. j + (l + k) + (t - k) = m
  BY <1>11
<1>15. Remaining(w, j)
  <2>1. Len(w.onway) = l + k /\ Len(w.tosend) = t - k /\ LenOf(w.wants) = m
    BY <1>5, <1>6, <1>7, <1>9
  <2>2. \A i \in 1..Len(w.onway) : w.onway[i] = UnitAt(j + i)
    BY <1>7, <1>12, <2>1
  <2>3. \A i \in 1..Len(w.tosend) : w.tosend[i] = UnitAt(j + Len(w.onway) + i)
    BY <1>7, <1>13, <2>1
  <2>4. QED BY <1>14, <2>1, <2>2, <2>3 DEF Remaining
<1>16. Took(c, w, w.got, j)
  BY <1>7, <1>10 DEF Took
<1>17. OpenOK(c, w)
  BY <1>7, <1>9, <1>10, <1>15, <1>16 DEF OpenOK
<1>18. UNCHANGED <<webs, web, visits, httpLoop, httpNotices>>
  BY DEF RequestArrives
<1>19. QED BY <1>1, <1>8, <1>17, <1>18, BrowserKeeps

(* A browser reads, or leaves.                                             *)
LEMMA BrowserActs ==
    ASSUME HttpInv, NEW n \in Visits, MakesRoom(n) \/ HangsUp(n)
    PROVE  HttpInv'
<1>1. PICK v \in Browser : v = visitor[n] /\ OpenOK(web[n], v) /\ n \in ToSet(webs)
  BY Opened DEF MakesRoom, HangsUp
<1>2. visitor \in [Visits -> Browser]
  BY DEF HttpInv, HttpTypes
<1>3. PICK w : /\ w \in {[v EXCEPT !.room = TRUE], [v EXCEPT !.left = TRUE]}
               /\ visitor' = [visitor EXCEPT ![n] = w]
  BY <1>1, <1>2 DEF MakesRoom, HangsUp
<1>4. w \in Browser /\ OpenOK(web[n], w)
  <2>1. PICK c : c = web[n] /\ OpenOK(c, v)
    BY <1>1
  <2>2. CASE w = [v EXCEPT !.room = TRUE]
    BY <2>1, <2>2, AsksOK
  <2>3. CASE w = [v EXCEPT !.left = TRUE]
    BY <2>1, <2>3, AsksOK
  <2>4. QED BY <1>3, <2>2, <2>3
<1>5. UNCHANGED <<webs, web, visits, httpLoop, httpNotices>>
  BY DEF MakesRoom, HangsUp
<1>6. QED BY <1>1, <1>3, <1>4, <1>5, BrowserKeeps

(* TCP gives the notices it was asked for.                                 *)
LEMMA TcpAnswers ==
    ASSUME HttpInv, NEW n \in Visits, CanRead(n) \/ CanWrite(n)
    PROVE  HttpInv'
<1>1. visitor \in [Visits -> Browser] /\ UNCHANGED <<webs, web, visits, httpLoop>>
  BY DEF HttpInv, HttpTypes, CanRead, CanWrite
<1>2. CASE CanRead(n)
  <2>1. PICK w : w = [visitor[n] EXCEPT !.readAsked = FALSE] /\ visitor' = [visitor EXCEPT ![n] = w]
    BY <1>1, <1>2 DEF CanRead
  <2>2. httpNotices' = Append(httpNotices, [about |-> "read", num |-> n])
    BY <1>2 DEF CanRead
  <2>3. QED BY <1>1, <2>1, <2>2, NoticeKeeps
<1>3. CASE CanWrite(n)
  <2>1. PICK w : w = [visitor[n] EXCEPT !.writeAsked = FALSE] /\ visitor' = [visitor EXCEPT ![n] = w]
    BY <1>1, <1>3 DEF CanWrite
  <2>2. httpNotices' = Append(httpNotices, [about |-> "write", num |-> n])
    BY <1>3 DEF CanWrite
  <2>3. QED BY <1>1, <2>1, <2>2, NoticeKeeps
<1>4. QED BY <1>2, <1>3

(* A request, unit by unit.                                                *)
LEMMA RequestIs ==
    ASSUME NEW r \in RequestLines
    PROVE  /\ RequestUnits(r) \in Seq(RequestWords) /\ Len(RequestUnits(r)) = LenOf(r)
           /\ \A i \in 1..LenOf(r) : RequestUnits(r)[i] = UnitAt(i)
<1>1. PICK n \in Nat : n = IF r.method = "POST" THEN Posted ELSE 0
  BY HttpAssumption
<1>2. PICK b \in Seq(RequestWords) : /\ b = [i \in 1..n |-> "body"] /\ Len(b) = n
                                     /\ \A i \in 1..n : b[i] = "body"
  <2>1. PICK word \in RequestWords : word = "body"
    BY DEF RequestWords
  <2>2. /\ [i \in 1..n |-> word] \in Seq(RequestWords) /\ Len([i \in 1..n |-> word]) = n
        /\ \A i \in 1..n : [j \in 1..n |-> word][i] = word
    OBVIOUS
  <2>3. QED BY <2>1, <2>2
<1>3. PICK a \in Seq(RequestWords) : a = <<"line", "empty">> /\ Len(a) = 2 /\ a[1] = "line" /\ a[2] = "empty"
  <2>1. PICK x \in RequestWords, y \in RequestWords : x = "line" /\ y = "empty"
    BY DEF RequestWords
  <2>2. <<x, y>> \in Seq(RequestWords) /\ Len(<<x, y>>) = 2 /\ <<x, y>>[1] = x /\ <<x, y>>[2] = y
    OBVIOUS
  <2>3. QED BY <2>1, <2>2
<1>4. /\ a \o b \in Seq(RequestWords) /\ Len(a \o b) = Len(a) + Len(b)
      /\ \A i \in 1..Len(a) + Len(b) : (a \o b)[i] = IF i <= Len(a) THEN a[i] ELSE b[i - Len(a)]
  BY ConcatProperties
<1>5. PICK s \in Seq(RequestWords) : /\ s = a \o b /\ Len(s) = 2 + n
                                     /\ \A i \in 1..(2 + n) : s[i] = IF i <= 2 THEN a[i] ELSE b[i - 2]
  <2>1. Len(a) = 2 /\ Len(b) = n
    BY <1>2, <1>3
  <2>2. PICK s \in Seq(RequestWords) : s = a \o b
    BY <1>4
  <2>3. QED BY <1>4, <2>1, <2>2, ZenonT(60)
<1>6. ASSUME NEW i \in 1..(2 + n) PROVE s[i] = UnitAt(i)
  <2>1. CASE i <= 2
    <3>1. i = 1 \/ i = 2
      BY <2>1
    <3>2. QED BY <1>3, <1>5, <2>1, <3>1 DEF UnitAt
  <2>2. CASE ~ (i <= 2)
    <3>1. i - 2 \in 1..n
      BY <2>2
    <3>2. QED BY <1>2, <1>5, <2>2, <3>1 DEF UnitAt
  <2>3. QED BY <2>1, <2>2
<1>7. RequestUnits(r) = s /\ LenOf(r) = 2 + n
  BY <1>1, <1>2, <1>3, <1>5 DEF RequestUnits, LenOf
<1>8. QED BY <1>5, <1>6, <1>7

(* The web server starts.                                                  *)
LEMMA HttpStarts ==
    ASSUME HttpInit
    PROVE  HttpInv
<1>1. NewWeb \in WebCon
  <2>1. PICK z \in Seq(Nat) : z = << >>
    BY EmptySeq
  <2>2. NewWeb = [state |-> "NORMAL", request |-> FALSE, conlen |-> 0, rsblock |-> FALSE, wsblock |-> FALSE,
                  buf |-> z, bdone |-> 0, file |-> 0]
    BY <2>1 DEF NewWeb
  <2>3. QED BY <2>2 DEF WebCon, WebStates
<1>2. ASSUME NEW n \in Visits
      PROVE  visitor[n] \in Browser /\ NewOK(NewWeb, visitor[n])
  <2>0. PICK v : v = visitor[n]
    OBVIOUS
  <2>1. PICK r \in RequestLines :
              v = [wants |-> r, tosend |-> RequestUnits(r), onway |-> << >>, got |-> << >>, room |-> TRUE,
                   readAsked |-> FALSE, writeAsked |-> FALSE, left |-> FALSE]
    BY <2>0 DEF HttpInit
  <2>2. PICK s \in Seq(RequestWords), l \in Nat :
           s = RequestUnits(r) /\ l = LenOf(r) /\ Len(s) = l /\ \A i \in 1..l : s[i] = UnitAt(i)
    BY RequestIs, LenIs
  <2>3. PICK z \in Seq(RequestWords), g \in Seq(Nat) : z = << >> /\ g = << >> /\ Len(z) = 0
    BY EmptySeq
  <2>4. v = [wants |-> r, tosend |-> s, onway |-> z, got |-> g, room |-> TRUE,
             readAsked |-> FALSE, writeAsked |-> FALSE, left |-> FALSE]
    BY <2>1, <2>2, <2>3
  <2>5. v \in Browser /\ v.wants = r /\ v.tosend = s /\ v.onway = z /\ v.got = << >>
    BY <2>3, <2>4 DEF Browser
  <2>6. 0 + 0 + l = l /\ \A i \in 1..l : 0 + 0 + i = i
    BY <2>2
  <2>7. Remaining(v, 0)
    BY <2>2, <2>3, <2>5, <2>6 DEF Remaining
  <2>8. QED BY <2>0, <2>5, <2>7 DEF NewOK
<1>3. /\ webs = << >> /\ web = [n \in Visits |-> NewWeb] /\ visits = 0 /\ httpNotices = << >>
      /\ httpLoop = [at |-> "wait", cur |-> 1, done |-> TRUE]
      /\ visitor = [n \in Visits |-> visitor[n]]
  BY DEF HttpInit
<1>4. PICK list \in Seq(Visits), notes \in Seq(HttpNotes) :
         list = webs /\ notes = httpNotices /\ Len(list) = 0 /\ Len(notes) = 0
  BY <1>3, EmptySeq
<1>5. Distinct(list) /\ On(list) \subseteq 1..0
  <2>1. DOMAIN list = 1..0
    BY <1>4
  <2>2. QED BY <2>1 DEF Distinct, On, ToSet
<1>6. LoopOK(httpLoop, webs)
  BY <1>3 DEF LoopOK
<1>7. web \in [Visits -> WebCon] /\ visitor \in [Visits -> Browser] /\ visits \in 0..MaxVisits
  <2>1. visits \in 0..MaxVisits
    BY <1>3, SomeVisits
  <2>2. web \in [Visits -> WebCon]
    BY <1>1, <1>3
  <2>3. visitor \in [Visits -> Browser]
    BY <1>2, <1>3
  <2>4. QED BY <2>1, <2>2, <2>3
<1>8. HttpTypes
  BY <1>3, <1>4, <1>5, <1>6, <1>7 DEF HttpTypes
<1>9. OneListens
  <2>1. DOMAIN httpNotices = {}
    BY <1>3
  <2>2. QED BY <2>1 DEF OneListens
<1>10. ASSUME NEW n \in Visits PROVE ConOK(n)
  <2>1. n > visits /\ web[n] = NewWeb
    BY <1>3 DEF Visits
  <2>2. QED BY <1>2, <2>1 DEF ConOK
<1>11. QED BY <1>8, <1>9, <1>10 DEF HttpInv

(* What the web server keeps.                                              *)
THEOREM HttpInvariant == HttpSpec => []HttpInv
<1>1. HttpInit => HttpInv
  BY HttpStarts
<1>2. HttpInv /\ [HttpNext]_httpVars => HttpInv'
  <2> SUFFICES ASSUME HttpInv, [HttpNext]_httpVars PROVE HttpInv'
    OBVIOUS
  <2>1. CASE Pass
    BY <2>1, PassKeeps
  <2>2. CASE Told
    BY <2>2, ToldKeeps
  <2>3. CASE prepCon
    BY <2>3, prepConKeeps
  <2>4. CASE Visit
    BY <2>4, VisitKeeps
  <2>5. ASSUME NEW n \in Visits, RequestArrives(n) PROVE HttpInv'
    BY <2>5, RequestArrivesKeeps
  <2>6. ASSUME NEW n \in Visits, MakesRoom(n) \/ HangsUp(n) PROVE HttpInv'
    BY <2>6, BrowserActs
  <2>7. ASSUME NEW n \in Visits, CanRead(n) \/ CanWrite(n) PROVE HttpInv'
    BY <2>7, TcpAnswers
  <2>8. CASE UNCHANGED httpVars
    <3>1. UNCHANGED <<webs, web, visitor, visits, httpLoop, httpNotices>>
      BY <2>8 DEF httpVars
    <3>2. QED BY <3>1 DEF HttpInv, HttpTypes, OneListens, ConOK
  <2>9. QED BY <2>1, <2>2, <2>3, <2>4, <2>5, <2>6, <2>7, <2>8 DEF HttpNext
<1>3. QED BY <1>1, <1>2, PTL DEF HttpSpec

(* What a browser has is the beginning of its answer, and the whole of it  *)
(* when the connection is closed and the browser did not leave.            *)
LEMMA AnswersWhole == ASSUME HttpInv PROVE WholeAnswer
<1> SUFFICES ASSUME NEW n \in 1..visits
             PROVE  /\ IsPrefix(visitor[n].got, Whole(visitor[n].wants.kind))
                    /\ web[n].state = "CLOSED" /\ ~visitor[n].left => visitor[n].got = Whole(visitor[n].wants.kind)
  BY DEF WholeAnswer
<1>1. n \in Visits /\ ~ (n > visits)
  <2>1. visits \in 0..MaxVisits
    BY DEF HttpInv, HttpTypes
  <2>2. QED BY <2>1, SomeVisits DEF Visits
<1>2. PICK c \in WebCon, v \in Browser : c = web[n] /\ v = visitor[n]
  BY <1>1 DEF HttpInv, HttpTypes
<1>3. CASE n \in On(webs)
  <2>1. OpenOK(c, v)
    BY <1>1, <1>2, <1>3 DEF ConOK, HttpInv
  <2>2. PICK kind \in Kinds, g \in Seq(Nat) : kind = v.wants.kind /\ g = v.got
    <3>1. v.wants \in RequestLines /\ v.got \in Seq(Nat)
      BY DEF Browser
    <3>2. QED BY <3>1 DEF RequestLines
  <2>3. PICK k \in 0..LenOf(v.wants) : Took(c, v, g, k)
    BY <2>1, <2>2 DEF OpenOK
  <2>4. c.state # "CLOSED" /\ Len(g) <= Len(Whole(kind)) /\ \A i \in 1..Len(g) : g[i] = i
    <3>1. PICK m \in Nat : m = Len(Whole(kind)) /\ m = IF kind = "file" THEN FileLen + 1 ELSE 1
      BY WholeIs
    <3>2. CASE k < LenOf(v.wants)
      <4>1. Incomplete(c, v.wants, k) /\ g = << >>
        BY <2>3, <3>2 DEF Took
      <4>2. Len(g) = 0
        BY <4>1
      <4>3. c.state # "CLOSED"
        BY <4>1 DEF Incomplete
      <4>4. QED BY <3>1, <4>2, <4>3
    <3>3. CASE ~ (k < LenOf(v.wants))
      <4>1. Answering(c, kind, g)
        BY <2>2, <2>3, <3>3 DEF Took
      <4>2. PICK b \in Nat, f \in Nat, done \in Nat : b = Len(c.buf) /\ f = c.file /\ done = c.bdone
        BY DEF WebCon
      <4>3. /\ b <= f /\ done <= b /\ Len(g) = f - b + done /\ \A i \in 1..Len(g) : g[i] = i
        BY <4>1, <4>2 DEF Answering
      <4>4. f <= m
        BY <3>1, <4>1, <4>2 DEF Answering
      <4>5. Len(g) <= m
        BY <4>3, <4>4
      <4>6. c.state # "CLOSED"
        BY <4>1 DEF Answering, Kinds
      <4>7. QED BY <3>1, <4>3, <4>5, <4>6
    <3>4. QED BY <3>2, <3>3
  <2>5. IsPrefix(g, Whole(kind))
    BY <2>4, Beginning
  <2>6. QED BY <1>2, <2>2, <2>4, <2>5
<1>4. CASE n \notin On(webs)
  <2>1. ClosedOK(c, v)
    BY <1>1, <1>2, <1>4 DEF ConOK, HttpInv
  <2>2. QED BY <1>2, <2>1 DEF ClosedOK
<1>5. QED BY <1>3, <1>4

(* For any number of browsers, any file and any buffer: however requests   *)
(* and answers are cut, a browser that stays gets the whole answer to what *)
(* it asked for, and nothing else.                                         *)
THEOREM AnswersAreWhole == HttpSpec => []WholeAnswer
BY HttpInvariant, AnswersWhole, PTL

-----------------------------------------------------------------------------
(* The network disk *)

(* Whatever travels on the connection or lies in a buffer.                  *)
Wire == Units \cup {0, BlkSize, Rd, Wr, "acked"} \cup DiskBlocks

Request(r) == <<Code(r.op), r.blk, BlkSize>>
Asking(ops) == user \in Device!Requests /\ user.op \in ops

(* What of the command buffer no command has taken.                        *)
UnreadIn(b) == SubSeq(b.units, b.cur + 1, Len(b.units))
BufferOK(b) == /\ b \in [units : Seq(Wire), cur : Nat, unused : Nat]
               /\ b.cur + b.unused = Len(b.units)

(* Where a request is: the server has nothing to do; it has sent its byte   *)
(* for a write and the block is on its way, with what the driver sent       *)
(* after it; or part of a command is in com, part in the buffer and part on *)
(* the connection, and together they are the request.                      *)
Settled == com = <<>> /\ buffer = Empty /\ toServer = <<>>

BlockUnderWay(more) ==
    /\ buffer = Empty
    /\ \E b \in DiskBlocks, d \in BlockData :
         com = <<Wr, b, BlkSize, "acked">> /\ toServer = d \o more

CommandUnderWay(r) ==
    /\ com \o (UnreadIn(buffer) \o toServer) = Request(r)
    /\ Len(com) \in {0, 1, 3}
    /\ Len(buffer.units) + Len(toServer) <= 3
    /\ buffer.unused = 0 => buffer = Empty

(* The phases of a request, of which every state is in one as long as no   *)
(* read of a block has come back short.                                    *)
Idle == /\ at = "idle" /\ user = NoRequest /\ toClient = <<>>
        /\ Settled \/ BlockUnderWay(<<>>)

Asked == /\ at = "ack" /\ Asking({"read", "write"}) /\ toClient = <<>>
         /\ BlockUnderWay(Request(user)) \/ CommandUnderWay(user)

WriteAcked == /\ at = "ack" /\ Asking({"write"}) /\ toClient = <<0>>
              /\ com = Append(Request(user), "acked")
              /\ buffer = Empty /\ toServer = <<>>

ReadServed == /\ at = "ack" /\ Asking({"read"}) /\ Settled
              /\ toClient = <<0>> \o image[user.blk]

BlockArrives == /\ at = "block" /\ Asking({"read"}) /\ Settled
                /\ toClient = image[user.blk]

DiskTypes ==
    /\ image \in [DiskBlocks -> BlockData] /\ serving = TRUE
    /\ com \in Seq(Wire) /\ BufferOK(buffer)
    /\ toServer \in Seq(Wire) /\ toClient \in Seq(Wire)

DiskInv == DiskTypes /\ (Idle \/ Asked \/ WriteAcked \/ ReadServed \/ BlockArrives)

(* The inductive invariant.                                                *)
UntilShort == short \in Nat /\ (short > 0 \/ DiskInv)

-----------------------------------------------------------------------------

(* A sequence cut in two is the two pieces one behind the other.            *)
LEMMA CutInTwo ==
    ASSUME NEW S, NEW s \in Seq(S), NEW n \in 0..Len(s)
    PROVE  /\ SubSeq(s, 1, n) \in Seq(S) /\ Len(SubSeq(s, 1, n)) = n
           /\ SubSeq(s, n + 1, Len(s)) \in Seq(S)
           /\ Len(SubSeq(s, n + 1, Len(s))) = Len(s) - n
           /\ SubSeq(s, 1, n) \o SubSeq(s, n + 1, Len(s)) = s
<1>1. Len(s) \in Nat /\ \A i \in 1..Len(s) : s[i] \in S
  BY LenProperties
<1>2. SubSeq(s, 1, n) \in Seq(S) /\ Len(SubSeq(s, 1, n)) = n
  BY <1>1, SubSeqProperties
<1>3. /\ SubSeq(s, n + 1, Len(s)) \in Seq(S)
      /\ Len(SubSeq(s, n + 1, Len(s))) = Len(s) - n
  BY <1>1, SubSeqProperties
<1>4. SubSeq(s, 1, n) \o SubSeq(s, n + 1, Len(s)) = SubSeq(s, 1, Len(s))
  <2>1. 1 \in 1..Len(s) + 1 /\ n \in 1 - 1..Len(s) /\ Len(s) \in n..Len(s)
    BY <1>1
  <2>2. QED BY <2>1, ConcatAdjacentSubSeq
<1>5. QED BY <1>2, <1>3, <1>4, SubSeqFull

(* The two pieces of a concatenation can be taken back.                     *)
LEMMA TakenBack ==
    ASSUME NEW S, NEW s \in Seq(S), NEW t \in Seq(S)
    PROVE  /\ SubSeq(s \o t, 1, Len(s)) = s
           /\ SubSeq(s \o t, Len(s) + 1, Len(s \o t)) = t
<1>1. Len(s) \in Nat /\ Len(t) \in Nat /\ s \o t \in Seq(S) /\ Len(s \o t) = Len(s) + Len(t)
  BY LenProperties, ConcatProperties
<1>2. /\ SubSeq(s \o t, 1, Len(s)) \in Seq(S) /\ Len(SubSeq(s \o t, 1, Len(s))) = Len(s)
      /\ SubSeq(s \o t, Len(s) + 1, Len(s \o t)) \in Seq(S)
      /\ SubSeq(s \o t, 1, Len(s)) \o SubSeq(s \o t, Len(s) + 1, Len(s \o t)) = s \o t
  <2> DEFINE both == s \o t
  <2>1. both \in Seq(S) /\ Len(s) \in 0..Len(both) /\ Len(both) - Len(s) = Len(t)
    BY <1>1
  <2> HIDE DEF both
  <2>2. /\ SubSeq(both, 1, Len(s)) \in Seq(S) /\ Len(SubSeq(both, 1, Len(s))) = Len(s)
        /\ SubSeq(both, Len(s) + 1, Len(both)) \in Seq(S)
        /\ SubSeq(both, 1, Len(s)) \o SubSeq(both, Len(s) + 1, Len(both)) = both
    BY ZenonT(50), <2>1, CutInTwo
  <2>3. QED BY <2>2 DEF both
<1>3. SubSeq(s \o t, 1, Len(s)) = s
  <2>1. \A i \in 1..Len(s) : SubSeq(s \o t, 1, Len(s))[i] = (s \o t)[i]
    <3>1. \A i \in 1..Len(s) : (s \o t)[i] \in S
      BY <1>1, LenProperties
    <3>2. QED BY <1>1, <3>1, SubSeqProperties
  <2>2. \A i \in 1..Len(s) : (s \o t)[i] = s[i]
    BY <1>1, ConcatProperties
  <2>3. QED BY <1>2, <2>1, <2>2, SeqEqual
<1>4. QED BY <1>2, <1>3, ConcatSimplifications

LEMMA TailOfPrefixed ==
    ASSUME NEW S, NEW e \in S, NEW s \in Seq(S)
    PROVE  /\ Tail(<<e>> \o s) = s /\ <<e>> \o s \in Seq(S)
           /\ Len(<<e>> \o s) = Len(s) + 1
<1> DEFINE both == <<e>> \o s
<1>1. <<e>> \in Seq(S) /\ Len(<<e>>) = 1 /\ Len(s) \in Nat
  OBVIOUS
<1>2. /\ both \in Seq(S) /\ Len(both) = Len(s) + 1
      /\ \A i \in 1..Len(s) + 1 : both[i] = IF i <= 1 THEN e ELSE s[i - 1]
  BY <1>1, ConcatProperties
<1> HIDE DEF both
<1>3. both # <<>>
  BY <1>1, <1>2
<1>4. /\ Tail(both) \in Seq(S) /\ Len(Tail(both)) = Len(s)
      /\ \A i \in 1..Len(s) : Tail(both)[i] = both[i + 1]
  BY <1>1, <1>2, <1>3, HeadTailProperties
<1>5. \A i \in 1..Len(s) : Tail(both)[i] = s[i]
  BY <1>1, <1>2, <1>4
<1>6. Tail(both) = s
  BY <1>4, <1>5, SeqEqual
<1>7. QED BY <1>2, <1>6 DEF both

LEMMA AppendShape ==
    ASSUME NEW S, NEW s \in Seq(S), NEW d \in S
    PROVE  /\ Append(s, d) \in Seq(S) /\ Len(Append(s, d)) = Len(s) + 1
           /\ Append(s, d)[Len(s) + 1] = d
           /\ \A i \in 1..Len(s) : Append(s, d)[i] = s[i]
<1>1. Append(s, d) \in Seq(S) /\ Len(Append(s, d)) = Len(s) + 1
  OBVIOUS
<1>2. Append(s, d)[Len(s) + 1] = d
  OBVIOUS
<1>3. \A i \in 1..Len(s) : Append(s, d)[i] = s[i]
  OBVIOUS
<1>4. QED BY <1>1, <1>2, <1>3

LEMMA AppendToThree ==
    ASSUME NEW a, NEW b, NEW c, NEW d
    PROVE  Append(<<a, b, c>>, d) = <<a, b, c, d>>
<1> DEFINE S == {a, b, c, d}
           s == <<a, b, c>>
           t == <<a, b, c, d>>
<1>1. s \in Seq(S) /\ Len(s) = 3 /\ t \in Seq(S) /\ Len(t) = 4 /\ d \in S
  OBVIOUS
<1>2. s[1] = a /\ s[2] = b /\ s[3] = c /\ t[1] = a /\ t[2] = b /\ t[3] = c /\ t[4] = d
  OBVIOUS
<1> HIDE DEF S, s, t
<1>3. /\ Append(s, d) \in Seq(S) /\ Len(Append(s, d)) = Len(s) + 1
      /\ Append(s, d)[Len(s) + 1] = d
      /\ \A i \in 1..Len(s) : Append(s, d)[i] = s[i]
  <2>1. s \in Seq(S) /\ d \in S
    BY <1>1
  <2>2. QED BY <2>1, AppendShape
<1>4. Len(Append(s, d)) = 4 /\ Append(s, d)[4] = d /\ \A i \in 1..3 : Append(s, d)[i] = s[i]
  BY <1>1, <1>3
<1>5. \A i \in 1..4 : i \in {1, 2, 3, 4}
  OBVIOUS
<1>6. \A i \in 1..4 : Append(s, d)[i] = t[i]
  BY <1>2, <1>4, <1>5
<1>7. Append(s, d) = t
  BY <1>1, <1>3, <1>4, <1>6, SeqEqual
<1>8. QED BY <1>7 DEF s, t

LEMMA FunctionIsSeq ==
    ASSUME NEW S, NEW n \in Nat, NEW f \in [1..n -> S]
    PROVE  f \in Seq(S) /\ Len(f) = n
<1>1. f \in Seq(S)
  OBVIOUS
<1>2. Len(f) \in Nat /\ 1..Len(f) = 1..n
  BY <1>1, LenProperties
<1>3. QED BY <1>1, <1>2

(* A block is a sequence of BlkSize units.                                  *)
LEMMA BlockIsSeq ==
    ASSUME NEW d \in BlockData
    PROVE  d \in Seq(Wire) /\ Len(d) = BlkSize
<1>1. BlkSize \in Nat /\ Units \subseteq Wire
  BY DEF BlkSize, Wire
<1>2. d \in [1..BlkSize -> Wire]
  BY <1>1 DEF BlockData
<1>3. QED BY <1>1, <1>2, FunctionIsSeq

LEMMA RequestIsSeq ==
    ASSUME NEW r \in Device!Requests
    PROVE  /\ Request(r) \in Seq(Wire) /\ Len(Request(r)) = 3
           /\ Request(r)[1] = Code(r.op) /\ Request(r)[2] = r.blk /\ Request(r)[3] = BlkSize
           /\ r.blk \in DiskBlocks /\ r.op \in {"read", "write"}
           /\ Code(r.op) = Rd <=> r.op = "read"
           /\ r.op = "write" => r.data \in BlockData
           /\ r # NoRequest
<1>1. Rd # Wr /\ Code(r.op) \in Wire
  BY WireAssumption DEF Code, Wire
<1>2. CASE r \in [op : {"read"}, blk : DiskBlocks]
  BY <1>1, <1>2 DEF Request, Code, Wire, BlkSize, NoRequest
<1>3. CASE r \in [op : {"write"}, blk : DiskBlocks, data : BlockData]
  BY <1>1, <1>3 DEF Request, Code, Wire, BlkSize, NoRequest
<1>4. QED BY <1>2, <1>3 DEF Device!Requests

LEMMA BlockUnderWayIsFour ==
    ASSUME NEW more, BlockUnderWay(more)
    PROVE  Len(com) = 4
BY DEF BlockUnderWay

(* Whichever way it is used, the command buffer is consumed from the front  *)
(* and filled at the back.                                                 *)
LEMMA EmptyBuffer == BufferOK(Empty) /\ UnreadIn(Empty) = <<>> /\ Len(Empty.units) = 0
<1>1. Empty.units = <<>> /\ Empty.cur = 0 /\ Empty.unused = 0 /\ Len(<<>>) = 0
  BY DEF Empty
<1>2. BufferOK(Empty)
  BY <1>1, EmptySeq DEF BufferOK, Empty
<1>3. UnreadIn(Empty) = <<>>
  BY <1>1, SubSeqEmpty DEF UnreadIn
<1>4. QED BY <1>1, <1>2, <1>3

LEMMA UnreadIs ==
    ASSUME NEW b, BufferOK(b)
    PROVE  /\ b.units \in Seq(Wire) /\ b.cur \in 0..Len(b.units) /\ b.unused \in Nat
           /\ Len(b.units) \in Nat
           /\ UnreadIn(b) \in Seq(Wire) /\ Len(UnreadIn(b)) = b.unused
           /\ SubSeq(b.units, 1, b.cur) \in Seq(Wire) /\ Len(SubSeq(b.units, 1, b.cur)) = b.cur
           /\ SubSeq(b.units, 1, b.cur) \o UnreadIn(b) = b.units
<1>1. /\ b.units \in Seq(Wire) /\ b.cur \in Nat /\ b.unused \in Nat
      /\ b.cur + b.unused = Len(b.units) /\ Len(b.units) \in Nat
  BY LenProperties DEF BufferOK
<1>2. b.cur \in 0..Len(b.units) /\ Len(b.units) - b.cur = b.unused
  BY <1>1
<1>3. QED BY <1>1, <1>2, CutInTwo DEF UnreadIn

LEMMA Filling ==
    ASSUME NEW b, BufferOK(b), NEW s \in Seq(Wire)
    PROVE  LET c == Appended(b, s)
           IN  /\ BufferOK(c) /\ UnreadIn(c) = UnreadIn(b) \o s
               /\ Len(c.units) = Len(b.units) + Len(s) /\ c.unused = b.unused + Len(s)
<1> DEFINE c == Appended(b, s)
           front == SubSeq(b.units, 1, b.cur)
<1>1. /\ b \in [units : Seq(Wire), cur : Nat, unused : Nat] /\ b.cur + b.unused = Len(b.units)
      /\ Len(s) \in Nat /\ b.unused \in Nat /\ b.cur \in Nat
  BY LenProperties DEF BufferOK
<1>2. /\ b.units \in Seq(Wire) /\ Len(b.units) \in Nat
      /\ UnreadIn(b) \in Seq(Wire) /\ front \in Seq(Wire) /\ Len(front) = b.cur
      /\ front \o UnreadIn(b) = b.units
  BY UnreadIs
<1>3. b.units \o s \in Seq(Wire) /\ Len(b.units \o s) = Len(b.units) + Len(s)
  BY <1>2, ConcatProperties
<1>4. /\ c \in [units : Seq(Wire), cur : Nat, unused : Nat]
      /\ c.units = b.units \o s /\ c.cur = b.cur /\ c.unused = b.unused + Len(s)
  BY <1>1, <1>3 DEF Appended
<1> HIDE DEF c, front
<1>5. BufferOK(c)
  <2>1. c.cur + c.unused = Len(c.units)
    <3>1. Len(c.units) = Len(b.units) + Len(s)
      BY <1>3, <1>4
    <3>2. b.cur + b.unused = Len(b.units) /\ b.cur \in Nat /\ b.unused \in Nat /\ Len(s) \in Nat
      BY <1>1
    <3>3. c.cur = b.cur /\ c.unused = b.unused + Len(s)
      BY <1>4
    <3>4. QED BY <3>1, <3>2, <3>3
  <2>2. QED BY <1>4, <2>1 DEF BufferOK
<1>6. UnreadIn(c) = UnreadIn(b) \o s
  <2> DEFINE back == UnreadIn(b) \o s
  <2>1. back \in Seq(Wire)
    BY <1>2, ConcatProperties
  <2>2. (front \o UnreadIn(b)) \o s = front \o (UnreadIn(b) \o s)
    <3>1. front \in Seq(Wire) /\ UnreadIn(b) \in Seq(Wire) /\ s \in Seq(Wire)
      BY <1>2
    <3>2. QED BY SMTT(40), <3>1, ConcatAssociative
  <2>3. c.units = front \o back
    BY <1>2, <1>4, <2>2
  <2> HIDE DEF back
  <2>4. SubSeq(front \o back, Len(front) + 1, Len(front \o back)) = back
    BY <1>2, <2>1, TakenBack
  <2>5. UnreadIn(c) = back
    BY <1>2, <1>4, <2>3, <2>4 DEF UnreadIn
  <2>6. QED BY <2>5 DEF back
<1>7. QED BY <1>3, <1>4, <1>5, <1>6 DEF c

LEMMA Taking ==
    ASSUME NEW b, BufferOK(b), NEW n \in 1..b.unused
    PROVE  LET first == SubSeq(b.units, b.cur + 1, b.cur + n)
               c == Taken(b, n)
           IN  /\ first \in Seq(Wire) /\ Len(first) = n
               /\ BufferOK(c) /\ UnreadIn(c) \in Seq(Wire) /\ Len(UnreadIn(c)) = b.unused - n
               /\ first \o UnreadIn(c) = UnreadIn(b)
               /\ Len(c.units) <= Len(b.units) /\ (c.unused = 0 => c = Empty)
<1> DEFINE first == SubSeq(b.units, b.cur + 1, b.cur + n)
           c == Taken(b, n)
<1>1. /\ b \in [units : Seq(Wire), cur : Nat, unused : Nat] /\ b.cur + b.unused = Len(b.units)
      /\ b.cur \in Nat /\ b.unused \in Nat /\ n \in Nat /\ n >= 1 /\ n <= b.unused
      /\ b.units \in Seq(Wire) /\ Len(b.units) \in Nat
  BY LenProperties DEF BufferOK
<1>2. first \in Seq(Wire) /\ Len(first) = n
  <2>1. \A i \in b.cur + 1..b.cur + n : b.units[i] \in Wire
    BY <1>1, LenProperties
  <2>2. b.cur + 1 \in Int /\ b.cur + n \in Int /\ b.cur + 1 <= b.cur + n
        /\ (b.cur + n) - (b.cur + 1) + 1 = n
    BY <1>1
  <2>3. QED BY <2>1, <2>2, SubSeqProperties
<1>3. CASE n = b.unused
  <2>1. c = Empty
    BY <1>3 DEF Taken
  <2>2. first = UnreadIn(b)
    BY <1>1, <1>3 DEF UnreadIn
  <2>3. first \o UnreadIn(c) = UnreadIn(b)
    BY <1>2, <2>1, <2>2, EmptyBuffer, ConcatEmptySeq
  <2>4. Len(UnreadIn(c)) = b.unused - n /\ UnreadIn(c) \in Seq(Wire) /\ Len(c.units) <= Len(b.units)
    BY <1>1, <1>3, <2>1, EmptyBuffer, EmptySeq
  <2>5. BufferOK(c)
    BY <2>1, EmptyBuffer
  <2>6. QED BY <1>2, <2>1, <2>3, <2>4, <2>5
<1>4. CASE n # b.unused
  <2>1. /\ c = [units |-> b.units, cur |-> b.cur + n, unused |-> b.unused - n]
        /\ b.unused - n \in Nat /\ b.unused - n # 0 /\ b.cur + n \in Nat
    BY <1>1, <1>4 DEF Taken
  <2>2. /\ c \in [units : Seq(Wire), cur : Nat, unused : Nat]
        /\ c.units = b.units /\ c.cur = b.cur + n /\ c.unused = b.unused - n
    BY <1>1, <2>1
  <2> HIDE DEF c
  <2>3. c.cur + c.unused = Len(c.units)
    BY <1>1, <2>2
  <2>4. BufferOK(c)
    BY <2>2, <2>3 DEF BufferOK
  <2>5. first \o UnreadIn(c) = UnreadIn(b)
    <3>1. /\ b.cur + 1 \in 1..Len(b.units) + 1 /\ b.cur + n \in (b.cur + 1) - 1..Len(b.units)
          /\ Len(b.units) \in b.cur + n..Len(b.units)
      BY <1>1
    <3>2. first \o SubSeq(b.units, b.cur + n + 1, Len(b.units)) = UnreadIn(b)
      BY <1>1, <3>1, ConcatAdjacentSubSeq DEF UnreadIn
    <3>3. QED BY <2>2, <3>2 DEF UnreadIn
  <2>6. Len(UnreadIn(c)) = b.unused - n /\ UnreadIn(c) \in Seq(Wire)
    BY <2>2, <2>4, UnreadIs
  <2>7. Len(c.units) <= Len(b.units) /\ c.unused # 0
    BY <1>1, <2>1, <2>2
  <2>8. QED BY <1>2, <2>4, <2>5, <2>6, <2>7 DEF c
<1>5. QED BY <1>3, <1>4

(* With at most a command in the buffer getcommand finds room.              *)
LEMMA FindsRoom ==
    ASSUME NEW b, BufferOK(b), Len(b.units) <= 3, NEW min \in {1, 2}
    PROVE  Entered(b, min) = b
<1>1. Len(b.units) \in Nat
  BY UnreadIs
<1>2. Room(b) >= min
  BY <1>1, InbufAssumption DEF Room
<1>3. QED BY <1>2 DEF Entered

(* When the command is complete, it is the request, and nothing is left.    *)
LEMMA CommandComplete ==
    ASSUME DiskTypes, NEW r \in Device!Requests, CommandUnderWay(r), Len(com) = 3
    PROVE  com = Request(r) /\ buffer = Empty /\ toServer = <<>>
<1> DEFINE unread == UnreadIn(buffer)
           rest == unread \o toServer
<1>1. unread \in Seq(Wire) /\ Len(unread) = buffer.unused /\ toServer \in Seq(Wire) /\ com \in Seq(Wire)
  BY UnreadIs DEF DiskTypes
<1> HIDE DEF unread
<1>2. rest \in Seq(Wire) /\ Len(rest) = Len(unread) + Len(toServer)
      /\ Len(unread) \in Nat /\ Len(toServer) \in Nat
  BY <1>1, ConcatProperties, LenProperties
<1>3. com \o rest = Request(r)
  BY DEF CommandUnderWay, unread
<1>4. Len(com) + Len(rest) = 3
  <2> HIDE DEF rest
  <2>1. QED BY <1>1, <1>2, <1>3, RequestIsSeq, ConcatProperties
<1>5. Len(unread) = 0 /\ Len(toServer) = 0
  BY <1>2, <1>4
<1>6. unread = <<>> /\ toServer = <<>>
  BY <1>1, <1>5, EmptySeq
<1>7. com = Request(r)
  BY <1>1, <1>3, <1>6, ConcatEmptySeq
<1>8. buffer = Empty
  BY <1>1, <1>5 DEF CommandUnderWay
<1>9. QED BY <1>6, <1>7, <1>8

(* What is under way when the server waits for a block.                     *)
LEMMA BlockComplete ==
    ASSUME NEW more \in Seq(Wire), BlockUnderWay(more)
    PROVE  \E b \in DiskBlocks, d \in BlockData :
             /\ com = <<Wr, b, BlkSize, "acked">> /\ Len(com) = 4
             /\ Len(toServer) >= BlkSize /\ SubSeq(toServer, 1, BlkSize) = d
             /\ SubSeq(toServer, BlkSize + 1, Len(toServer)) = more
<1>1. PICK b \in DiskBlocks, d \in BlockData :
         com = <<Wr, b, BlkSize, "acked">> /\ toServer = d \o more
  BY DEF BlockUnderWay
<1>2. d \in Seq(Wire) /\ Len(d) = BlkSize /\ BlkSize \in Nat /\ Len(more) \in Nat
  BY BlockIsSeq, LenProperties DEF BlkSize
<1>3. Len(toServer) = BlkSize + Len(more)
  BY <1>1, <1>2, ConcatProperties
<1>4. SubSeq(toServer, 1, BlkSize) = d /\ SubSeq(toServer, BlkSize + 1, Len(toServer)) = more
  BY <1>1, <1>2, TakenBack
<1>5. Len(com) = 4
  BY <1>1
<1>6. QED BY <1>1, <1>2, <1>3, <1>4, <1>5

(* A request that has just been sent.                                      *)
LEMMA CommandSent ==
    ASSUME NEW r \in Device!Requests,
           com' = <<>>, buffer' = Empty, toServer' = Request(r)
    PROVE  CommandUnderWay(r)'
<1>1. Request(r) \in Seq(Wire) /\ Len(Request(r)) = 3
  BY RequestIsSeq
<1>2. UnreadIn(buffer)' = <<>> /\ Len(buffer'.units) = 0
  BY EmptyBuffer DEF UnreadIn
<1>3. com' \o (UnreadIn(buffer)' \o toServer') = Request(r)
  BY <1>1, <1>2, ConcatEmptySeq
<1>4. Len(com') = 0 /\ Len(toServer') = 3
  BY <1>1
<1>5. QED BY <1>2, <1>3, <1>4 DEF CommandUnderWay, Request

(* Until a read comes back short a write to the server is all of it.        *)
LEMMA Sent ==
    ASSUME serving = TRUE, NEW units, SendsServer(units)
    PROVE  toServer' = toServer \o units
BY DEF SendsServer

(* The driver's steps.                                                     *)
LEMMA AsksKeeps ==
    ASSUME DiskInv, NEW r \in Device!Requests, Asks(r)
    PROVE  DiskInv'
<1>1. Idle /\ user = NoRequest /\ DiskTypes
  BY RequestIsSeq DEF DiskInv, Asks, Asked, WriteAcked, ReadServed, BlockArrives, Asking
<1>2. /\ user' = r /\ at' = "ack" /\ toServer' = toServer \o Request(r)
      /\ UNCHANGED <<toClient, serving, buffer, com, image>>
  BY <1>1, Sent DEF Asks, Request, DiskTypes, serverVars
<1>3. Request(r) \in Seq(Wire) /\ Len(Request(r)) = 3 /\ r.op \in {"read", "write"}
  BY RequestIsSeq
<1>4. DiskTypes'
  <2>1. toServer' \in Seq(Wire)
    BY <1>1, <1>2, <1>3, ConcatProperties DEF DiskTypes
  <2>2. QED BY <1>1, <1>2, <2>1 DEF DiskTypes
<1>5. ASSUME Settled PROVE Asked'
  <2>1. toServer' = Request(r) /\ com' = <<>> /\ buffer' = Empty
    BY <1>2, <1>3, <1>5, ConcatEmptySeq DEF Settled
  <2>2. CommandUnderWay(r)'
    BY <2>1, CommandSent
  <2>3. QED BY <1>1, <1>2, <1>3, <2>2 DEF Asked, Asking, Idle, CommandUnderWay, Request
<1>6. ASSUME BlockUnderWay(<<>>) PROVE Asked'
  <2>1. PICK b \in DiskBlocks, d \in BlockData :
           com = <<Wr, b, BlkSize, "acked">> /\ toServer = d \o <<>>
    BY <1>6 DEF BlockUnderWay
  <2>2. toServer' = d \o Request(r)
    BY <1>2, <2>1, BlockIsSeq, ConcatEmptySeq
  <2>3. BlockUnderWay(Request(user))'
    BY <1>2, <1>6, <2>1, <2>2 DEF BlockUnderWay
  <2>4. QED BY <1>1, <1>2, <1>3, <2>3 DEF Asked, Asking, Idle
<1>7. Asked'
  BY <1>1, <1>5, <1>6 DEF Idle
<1>8. QED BY <1>4, <1>7 DEF DiskInv

LEMMA AcknowledgedKeeps ==
    ASSUME DiskInv, Acknowledged
    PROVE  DiskInv'
<1>1. DiskTypes /\ at = "ack" /\ at # "idle" /\ at # "block"
  BY DEF DiskInv, Acknowledged
<1>2. /\ UNCHANGED <<got, serving, buffer, com, image>>
      /\ toClient # <<>> /\ toClient' = Tail(toClient)
  <2>1. PICK n \in Arrived(toClient, 1) : toClient' = Rest(toClient, n)
    BY DEF Acknowledged
  <2>2. n \in 0..Len(toClient) /\ n <= 1 /\ n # 0 /\ Len(toClient) \in Nat
    BY <1>1, <2>1, LenProperties DEF Arrived, DiskTypes
  <2>3. n = 1 /\ toClient # <<>>
    BY <2>2
  <2>4. toClient' = Tail(toClient)
    BY <2>1, <2>3 DEF Rest
  <2>5. QED BY <2>3, <2>4 DEF Acknowledged, serverVars
<1>3. WriteAcked \/ ReadServed
  BY <1>1, <1>2 DEF DiskInv, Idle, Asked, BlockArrives
<1>4. CASE WriteAcked
  <2>1. /\ user \in Device!Requests /\ user.op = "write" /\ user.data \in BlockData
        /\ user.blk \in DiskBlocks /\ com = Append(Request(user), "acked") /\ toServer = <<>>
    BY <1>4, RequestIsSeq DEF WriteAcked, Asking
  <2>2. at' = "idle" /\ user' = NoRequest /\ toServer' = toServer \o user.data
    BY <1>1, <2>1, Sent DEF Acknowledged, DiskTypes
  <2>3. toServer' = user.data /\ user.data \in Seq(Wire) /\ toServer' = user.data \o <<>>
    BY <2>1, <2>2, BlockIsSeq, ConcatEmptySeq
  <2>4. toClient' = <<>>
    BY <1>2, <1>4 DEF WriteAcked
  <2>5. com' = <<Wr, user.blk, BlkSize, "acked">>
    <3>1. Request(user) = <<Wr, user.blk, BlkSize>>
      BY <2>1 DEF Request, Code
    <3>2. QED BY <1>2, <2>1, <3>1, AppendToThree
  <2>6. BlockUnderWay(<<>>)'
    BY <1>2, <1>4, <2>1, <2>3, <2>5 DEF WriteAcked, BlockUnderWay
  <2>7. Idle'
    BY <2>2, <2>4, <2>6 DEF Idle
  <2>8. DiskTypes'
    BY <1>1, <1>2, <2>3, <2>4, EmptySeq DEF DiskTypes
  <2>9. QED BY <2>7, <2>8 DEF DiskInv
<1>5. CASE ReadServed
  <2>1. user \in Device!Requests /\ user.op = "read" /\ user.blk \in DiskBlocks
    BY <1>5, RequestIsSeq DEF ReadServed, Asking
  <2>2. at' = "block" /\ UNCHANGED <<user, toServer>>
    BY <2>1 DEF Acknowledged
  <2>3. image[user.blk] \in Seq(Wire)
    BY <1>1, <2>1, BlockIsSeq DEF DiskTypes
  <2>4. toClient' = image[user.blk]
    <3>1. toClient = <<0>> \o image[user.blk]
      BY <1>5 DEF ReadServed
    <3>2. 0 \in Wire
      BY DEF Wire
    <3>3. QED BY <1>2, <2>3, <3>1, <3>2, TailOfPrefixed
  <2>5. BlockArrives'
    BY <1>2, <1>5, <2>1, <2>2, <2>4 DEF BlockArrives, ReadServed, Settled, Asking
  <2>6. DiskTypes'
    BY <1>1, <1>2, <2>2, <2>3, <2>4 DEF DiskTypes
  <2>7. QED BY <2>5, <2>6 DEF DiskInv
<1>6. QED BY <1>3, <1>4, <1>5

(* A read of the block that takes all of it.                               *)
LEMMA BlockComesKeeps ==
    ASSUME DiskInv, BlockComes, short' = 0
    PROVE  /\ DiskInv' /\ got' = image[user.blk] /\ user' = NoRequest
           /\ UNCHANGED <<toServer, buffer, com, image>>
<1>1. DiskTypes /\ BlockArrives
  BY DEF DiskInv, BlockComes, Idle, Asked, WriteAcked, ReadServed
<1>2. user.blk \in DiskBlocks /\ Settled /\ toClient = image[user.blk]
  BY <1>1, RequestIsSeq DEF BlockArrives, Asking
<1>3. toClient \in Seq(Wire) /\ Len(toClient) = BlkSize /\ BlkSize = 2
  BY <1>1, <1>2, BlockIsSeq DEF DiskTypes, BlkSize
<1>4. PICK n \in Arrived(toClient, BlkSize), old \in BlockData :
        /\ got' = SubSeq(toClient, 1, n) \o SubSeq(old, n + 1, BlkSize)
        /\ toClient' = Rest(toClient, n)
        /\ short' = IF n < BlkSize /\ short = 0 THEN 1 ELSE short
  BY DEF BlockComes
<1>5. n = BlkSize
  <2>1. n \in 0..2 /\ ~ (n < BlkSize)
    BY <1>3, <1>4 DEF Arrived
  <2>2. QED BY <1>3, <2>1
<1>6. toClient' = <<>>
  BY <1>3, <1>4, <1>5, SubSeqEmpty DEF Rest
<1>7. got' = toClient
  <2>1. SubSeq(toClient, 1, n) = toClient
    BY <1>3, <1>5, SubSeqFull
  <2>2. SubSeq(old, n + 1, BlkSize) = <<>>
    BY <1>3, <1>5, SubSeqEmpty
  <2>3. QED BY <1>3, <1>4, <2>1, <2>2, ConcatEmptySeq
<1>8. at' = "idle" /\ user' = NoRequest /\ UNCHANGED <<toServer, serving, buffer, com, image>>
  BY DEF BlockComes, serverVars
<1>9. Idle'
  BY <1>2, <1>6, <1>8 DEF Idle, Settled
<1>10. DiskTypes'
  BY <1>1, <1>6, <1>8, EmptySeq DEF DiskTypes
<1>11. QED BY <1>2, <1>7, <1>8, <1>9, <1>10 DEF DiskInv

-----------------------------------------------------------------------------

(* The server's steps.  The client stays where it is.                       *)
LEMMA ReadSomeKeeps ==
    ASSUME DiskInv, ReadSome
    PROVE  DiskInv'
<1>1. PICK n \in 1..Len(toServer) :
        /\ buffer' = Appended(buffer, SubSeq(toServer, 1, n))
        /\ toServer' = SubSeq(toServer, n + 1, Len(toServer))
  BY DEF ReadSome, Rest
<1>2. DiskTypes /\ UNCHANGED <<user, at, got, toClient, serving, com, image>>
  BY DEF DiskInv, ReadSome, clientVars
<1>3. toServer # <<>> /\ Len(com) < 3
  BY <1>1 DEF ReadSome, Commanding
<1>4. \A more : ~ BlockUnderWay(more)
  <2>1. Len(com) # 4
    BY <1>3
  <2>2. QED BY <2>1, BlockUnderWayIsFour
<1>5. Asked /\ CommandUnderWay(user)
  BY <1>3, <1>4 DEF DiskInv, Idle, Asked, WriteAcked, ReadServed, BlockArrives, Settled
<1> DEFINE unread == UnreadIn(buffer)
           first == SubSeq(toServer, 1, n)
           rest == SubSeq(toServer, n + 1, Len(toServer))
<1>6. /\ com \in Seq(Wire) /\ unread \in Seq(Wire) /\ toServer \in Seq(Wire)
      /\ Len(toServer) \in Nat /\ n \in 0..Len(toServer) /\ n >= 1 /\ BufferOK(buffer)
      /\ Len(buffer.units) \in Nat /\ buffer.unused \in Nat
  BY <1>2, LenProperties, UnreadIs DEF DiskTypes
<1>7. /\ first \in Seq(Wire) /\ rest \in Seq(Wire) /\ first \o rest = toServer
      /\ Len(first) = n /\ Len(rest) = Len(toServer) - n
  BY <1>6, CutInTwo
<1> HIDE DEF first, rest
<1>8. buffer' = Appended(buffer, first) /\ toServer' = rest
  BY <1>1 DEF first, rest
<1>9. /\ BufferOK(buffer') /\ UnreadIn(buffer') = unread \o first
      /\ Len(buffer'.units) = Len(buffer.units) + n /\ buffer'.unused = buffer.unused + n
  BY <1>6, <1>7, <1>8, Filling
<1> HIDE DEF unread
<1>10. UnreadIn(buffer') \o toServer' = unread \o toServer
  <2>1. unread \in Seq(Wire) /\ first \in Seq(Wire) /\ rest \in Seq(Wire)
    BY <1>6, <1>7
  <2>2. (unread \o first) \o rest = unread \o (first \o rest)
    BY SMTT(40), <2>1, ConcatAssociative
  <2>3. QED BY <1>7, <1>8, <1>9, <2>2
<1>11. buffer'.unused # 0
  BY <1>6, <1>9
<1>12. CommandUnderWay(user)'
  <2>1. /\ com \o (unread \o toServer) = Request(user) /\ Len(com) \in {0, 1, 3}
        /\ Len(buffer.units) + Len(toServer) <= 3
    BY <1>5 DEF CommandUnderWay, unread
  <2>2. com' \o (UnreadIn(buffer') \o toServer') = Request(user)' /\ Len(com') \in {0, 1, 3}
    BY <1>2, <1>10, <2>1 DEF Request
  <2>3. Len(buffer'.units) + Len(toServer') <= 3
    BY <1>6, <1>7, <1>8, <1>9, <2>1
  <2>4. QED BY <1>11, <2>2, <2>3 DEF CommandUnderWay, UnreadIn
<1>13. Asked'
  BY <1>2, <1>5, <1>12 DEF Asked, Asking
<1>14. DiskTypes'
  BY <1>2, <1>7, <1>8, <1>9 DEF DiskTypes, BufferOK
<1>15. QED BY <1>13, <1>14 DEF DiskInv


LEMMA getcommandKeeps ==
    ASSUME DiskInv, getcommand
    PROVE  DiskInv' /\ Len(com') # 4 /\ Len(com) # 4
<1> DEFINE first == SubSeq(buffer.units, buffer.cur + 1, buffer.cur + Awaited)
           left == Taken(buffer, Awaited)
           unread == UnreadIn(buffer)
           behind == UnreadIn(left)
<1>1. /\ \/ com # <<>> /\ com' = com \o first /\ buffer' = left
         \/ com = <<>> /\ first[1] \in {Rd, Wr} /\ com' = first /\ buffer' = Entered(left, 2)
         \/ com = <<>> /\ first[1] \notin {Rd, Wr}
      /\ Len(com) < 3 /\ buffer.unused >= Awaited
  BY DEF getcommand, Commanding
<1>2. DiskTypes /\ UNCHANGED <<user, at, got, toServer, toClient, serving, image>>
  BY DEF DiskInv, getcommand, clientVars
<1>3. Awaited \in {1, 2} /\ (com = <<>> => Awaited = 1) /\ (com # <<>> => Awaited = 2)
  BY DEF Awaited
<1>4. buffer # Empty
  BY <1>1, <1>3 DEF Empty
<1>5. \A more : ~ BlockUnderWay(more)
  BY <1>4 DEF BlockUnderWay
<1>6. Asked /\ CommandUnderWay(user) /\ user \in Device!Requests
  BY <1>4, <1>5 DEF DiskInv, Idle, Asked, WriteAcked, ReadServed, BlockArrives, Settled, Asking
<1>7. /\ com \in Seq(Wire) /\ toServer \in Seq(Wire) /\ BufferOK(buffer)
      /\ buffer.unused \in Nat /\ Len(buffer.units) \in Nat /\ Len(toServer) \in Nat
      /\ Len(com) \in Nat
  BY <1>2, UnreadIs, LenProperties DEF DiskTypes
<1>8. /\ first \in Seq(Wire) /\ Len(first) = Awaited
      /\ BufferOK(left) /\ behind \in Seq(Wire) /\ first \o behind = unread
      /\ Len(left.units) <= Len(buffer.units) /\ (left.unused = 0 => left = Empty)
  <2>1. Awaited \in 1..buffer.unused
    BY <1>1, <1>3, <1>7
  <2>2. QED BY <1>7, <2>1, Taking
<1>9. /\ com \o (unread \o toServer) = Request(user) /\ Len(com) \in {0, 1, 3}
      /\ Len(buffer.units) + Len(toServer) <= 3
  BY <1>6 DEF CommandUnderWay
<1> HIDE DEF first, left, unread, behind
<1>10. Len(left.units) <= 3 /\ Len(left.units) \in Nat
  <2>1. Len(left.units) \in Nat
    BY <1>8, UnreadIs
  <2>2. QED BY <1>7, <1>8, <1>9, <2>1
<1>11. unread \o toServer = first \o (behind \o toServer) /\ behind \o toServer \in Seq(Wire)
  <2>1. first \in Seq(Wire) /\ behind \in Seq(Wire) /\ toServer \in Seq(Wire)
    BY <1>7, <1>8
  <2>2. (first \o behind) \o toServer = first \o (behind \o toServer)
    BY SMTT(40), <2>1, ConcatAssociative
  <2>3. behind \o toServer \in Seq(Wire)
    BY <2>1, ConcatProperties
  <2>4. QED BY <1>8, <2>2, <2>3
<1> DEFINE after == behind \o toServer
<1>12. com = <<>> => first[1] \in {Rd, Wr}
  <2>1. SUFFICES ASSUME com = <<>> PROVE first[1] \in {Rd, Wr}
    OBVIOUS
  <2>2. after \in Seq(Wire) /\ first \o after \in Seq(Wire)
    BY <1>8, <1>11, ConcatProperties
  <2> HIDE DEF after
  <2>3. first \o after = Request(user)
    <3>1. <<>> \o (first \o after) = first \o after
      BY <2>2, ConcatEmptySeq
    <3>2. QED BY <1>9, <1>11, <2>1, <3>1 DEF after
  <2>4. 1 \in 1..Len(first)
    BY <1>3, <1>8, <2>1
  <2>5. (first \o after)[1] = first[1]
    <3>1. /\ Len(first) = 1 /\ Len(after) \in Nat /\ first \in Seq(Wire)
      BY <1>3, <1>8, <2>1, <2>2, LenProperties
    <3>2. \A i \in 1..Len(first) + Len(after) :
            (first \o after)[i] = IF i <= Len(first) THEN first[i] ELSE after[i - Len(first)]
      BY <2>2, <3>1, ConcatProperties
    <3>3. 1 \in 1..Len(first) + Len(after) /\ 1 <= Len(first)
      BY <3>1
    <3>4. QED BY <3>2, <3>3
  <2>6. Request(user)[1] = Code(user.op)
    BY <1>6, RequestIsSeq
  <2>7. QED BY <2>3, <2>5, <2>6 DEF Code
<1>13. com' = com \o first /\ buffer' = left
  <2>1. Entered(left, 2) = left
    BY <1>8, <1>10, FindsRoom
  <2>2. <<>> \o first = first
    BY <1>8, ConcatEmptySeq
  <2>3. QED BY <1>1, <1>12, <2>1, <2>2
<1>14. com' \in Seq(Wire) /\ Len(com') = Len(com) + Awaited
  BY <1>7, <1>8, <1>13, ConcatProperties
<1>15. com' \o (UnreadIn(buffer') \o toServer') = Request(user)
  <2>1. after \in Seq(Wire) /\ com \in Seq(Wire) /\ first \in Seq(Wire)
    BY <1>7, <1>8, <1>11
  <2>2. com \o (first \o after) = Request(user)
    BY <1>9, <1>11
  <2> HIDE DEF after
  <2>3. (com \o first) \o after = com \o (first \o after)
    BY SMTT(40), <2>1, ConcatAssociative
  <2>4. UnreadIn(buffer') \o toServer' = after
    BY <1>2, <1>13 DEF after, behind
  <2>5. QED BY <1>13, <2>2, <2>3, <2>4
<1>16. Len(com') \in {1, 3}
  <2>1. CASE com = <<>>
    BY <1>3, <1>14, <2>1
  <2>2. CASE com # <<>>
    <3>1. Len(com) # 0
      BY <1>7, <2>2, EmptySeq
    <3>2. Len(com) = 1
      <4>1. Len(com) < 3
        BY <1>1
      <4>2. ASSUME NEW l \in {0, 1, 3}, l < 3, l # 0 PROVE l = 1
        BY <4>2
      <4>3. QED BY <1>9, <3>1, <4>1, <4>2
    <3>3. QED BY <1>3, <1>14, <2>2, <3>2
  <2>3. QED BY <2>1, <2>2
<1>17. CommandUnderWay(user)'
  <2>1. com' \o (UnreadIn(buffer)' \o toServer') = Request(user)'
    BY <1>2, <1>15 DEF UnreadIn, Request
  <2>2. Len(com') \in {0, 1, 3}
    BY <1>16
  <2>3. Len(buffer'.units) + Len(toServer') <= 3
    <3>1. Len(buffer'.units) = Len(left.units) /\ Len(toServer') = Len(toServer)
      BY <1>2, <1>13
    <3>2. QED BY <1>7, <1>8, <1>9, <1>10, <3>1
  <2>4. buffer'.unused = 0 => buffer' = Empty
    BY <1>8, <1>13
  <2>5. QED BY <2>1, <2>2, <2>3, <2>4 DEF CommandUnderWay
<1>18. Asked'
  BY <1>2, <1>6, <1>17 DEF Asked, Asking
<1>19. DiskTypes'
  BY <1>2, <1>8, <1>13, <1>14 DEF DiskTypes, BufferOK
<1>20. Len(com') # 4 /\ Len(com) # 4
  <2>1. ASSUME NEW l \in {0, 1, 3} PROVE l # 4
    OBVIOUS
  <2>2. QED BY <1>9, <1>16, <2>1
<1>21. QED BY <1>18, <1>19, <1>20 DEF DiskInv

(* A complete command in the server's hands is the driver's request.        *)
LEMMA CommandInHand ==
    ASSUME DiskInv, Len(com) = 3
    PROVE  /\ at = "ack" /\ user \in Device!Requests /\ toClient = <<>>
           /\ com = Request(user) /\ buffer = Empty /\ toServer = <<>>
<1>1. \A more : ~ BlockUnderWay(more)
  BY BlockUnderWayIsFour
<1>2. com # <<>>
  OBVIOUS
<1>3. ~ WriteAcked
  <2>1. ASSUME WriteAcked PROVE FALSE
    <3>1. user \in Device!Requests /\ com = Append(Request(user), "acked")
      BY <2>1 DEF WriteAcked, Asking
    <3>2. com = <<Code(user.op), user.blk, BlkSize, "acked">>
      BY <3>1, AppendToThree DEF Request
    <3>3. QED BY <3>2
  <2>2. QED BY <2>1
<1>4. Asked /\ CommandUnderWay(user)
  BY <1>1, <1>2, <1>3 DEF DiskInv, Idle, Asked, ReadServed, BlockArrives, Settled
<1>5. DiskTypes /\ user \in Device!Requests
  BY <1>4 DEF DiskInv, Asked, Asking
<1>6. QED BY <1>4, <1>5, CommandComplete DEF Asked

(* After a command the server waits for the next one.                       *)
LEMMA NextOnEmpty ==
    ASSUME NextCommand, buffer = Empty
    PROVE  com' = <<>> /\ buffer' = Empty
<1>1. Entered(Empty, 1) = Empty
  BY EmptyBuffer, FindsRoom
<1>2. QED BY <1>1 DEF NextCommand

LEMMA SendsBlockKeeps ==
    ASSUME DiskInv, SendsBlock
    PROVE  DiskInv'
<1>1. /\ com[1] = Rd /\ Len(com) = 3 /\ NextCommand
      /\ UNCHANGED <<user, at, got, toServer, serving, image>>
  BY DEF SendsBlock, clientVars
<1>2. /\ at = "ack" /\ user \in Device!Requests /\ toClient = <<>> /\ com = Request(user)
      /\ buffer = Empty /\ toServer = <<>> /\ DiskTypes
  BY <1>1, CommandInHand DEF DiskInv
<1>3. user.op = "read" /\ com[2] = user.blk /\ user.blk \in DiskBlocks /\ com[3] = BlkSize
  BY <1>1, <1>2, RequestIsSeq
<1>4. image[user.blk] \in Seq(Wire) /\ Len(image[user.blk]) = BlkSize
  BY <1>2, <1>3, BlockIsSeq DEF DiskTypes
<1>5. com' = <<>> /\ buffer' = Empty
  BY <1>1, <1>2, NextOnEmpty
<1>6. toClient' = <<0>> \o image[user.blk] /\ toClient' \in Seq(Wire)
  <2>1. PICK old \in BlockData : toClient' = toClient \o (<<0>> \o SubSeq(Held(old), 1, Amount))
    BY DEF SendsBlock, SendsClient
  <2>2. Amount = BlkSize /\ Held(old) = image[user.blk]
    BY <1>3 DEF Amount, Held
  <2>3. SubSeq(image[user.blk], 1, BlkSize) = image[user.blk]
    BY <1>4, SubSeqFull
  <2>4. <<0>> \o image[user.blk] \in Seq(Wire)
    <3>1. 0 \in Wire
      BY DEF Wire
    <3>2. QED BY <1>4, <3>1, TailOfPrefixed
  <2>5. toClient' = <<>> \o (<<0>> \o image[user.blk])
    BY <1>2, <2>1, <2>2, <2>3
  <2>6. QED BY <2>4, <2>5, ConcatEmptySeq
<1>7. ReadServed'
  BY <1>1, <1>2, <1>3, <1>5, <1>6 DEF ReadServed, Asking, Settled
<1>8. DiskTypes'
  BY <1>1, <1>2, <1>5, <1>6, EmptySeq, EmptyBuffer DEF DiskTypes, BufferOK
<1>9. QED BY <1>7, <1>8 DEF DiskInv

LEMMA SendsAckKeeps ==
    ASSUME DiskInv, SendsAck
    PROVE  DiskInv'
<1>1. /\ toClient' = toClient \o <<0>>
      /\ com' = Append(com, "acked") /\ com[1] = Wr /\ Len(com) = 3
      /\ UNCHANGED <<user, at, got, toServer, serving, buffer, image>>
  BY DEF SendsAck, SendsClient, clientVars
<1>2. /\ at = "ack" /\ user \in Device!Requests /\ toClient = <<>> /\ com = Request(user)
      /\ buffer = Empty /\ toServer = <<>> /\ DiskTypes
  BY <1>1, CommandInHand DEF DiskInv
<1>3. user.op = "write"
  BY <1>1, <1>2, RequestIsSeq, WireAssumption
<1>4. 0 \in Wire /\ "acked" \in Wire /\ <<0>> \in Seq(Wire)
  BY DEF Wire
<1>5. toClient' = <<0>>
  BY <1>1, <1>2, <1>4, ConcatEmptySeq
<1>6. com' \in Seq(Wire)
  BY <1>1, <1>2, <1>4, AppendShape DEF DiskTypes
<1>7. WriteAcked'
  BY <1>1, <1>2, <1>3, <1>5 DEF WriteAcked, Asking, Request
<1>8. DiskTypes'
  BY <1>1, <1>2, <1>4, <1>5, <1>6 DEF DiskTypes, BufferOK
<1>9. QED BY <1>7, <1>8 DEF DiskInv

(* The block that arrives is the one that was asked to be written, and what *)
(* the disk is seen to hold does not change.                               *)
LEMMA StoresBlockKeeps ==
    ASSUME DiskInv, StoresBlock, short' = 0
    PROVE  DiskInv' /\ Seen' = Seen
<1>1. /\ Len(com) = 4 /\ NextCommand /\ UNCHANGED <<user, at, got, toClient, serving>>
  BY DEF StoresBlock, clientVars
<1>2. DiskTypes /\ BlkSize = 2
  BY DEF DiskInv, BlkSize
<1>3. PICK n \in Arrived(toServer, Amount), old \in BlockData :
        /\ image' = Overwritten(SubSeq(toServer, 1, n) \o SubSeq(old, n + 1, Amount))
        /\ toServer' = SubSeq(toServer, n + 1, Len(toServer))
        /\ short' = IF n < Amount /\ short = 0 THEN 1 ELSE short
  BY DEF StoresBlock, Rest
<1>4. n = Amount /\ n <= Len(toServer)
  <2>1. Amount \in Nat /\ n \in Nat /\ n <= Amount /\ Len(toServer) \in Nat /\ n <= Len(toServer)
    <3>1. Amount \in Nat
      BY DEF Amount, BlkSize
    <3>2. toServer \in Seq(Wire) /\ Len(toServer) \in Nat
      BY <1>2, LenProperties DEF DiskTypes
    <3>3. n \in 0..Len(toServer) /\ n <= Amount
      BY <1>3 DEF Arrived
    <3>4. QED BY <3>1, <3>2, <3>3
  <2>2. ~ (n < Amount)
    BY <1>3
  <2>3. QED BY <2>1, <2>2
<1>5. ~ Settled
  <2>1. com # <<>>
    <3>1. Len(com) = 4
      BY <1>1
    <3>2. QED BY <3>1
  <2>2. QED BY <2>1 DEF Settled
<1>6. ~ CommandUnderWay(user)
  BY <1>1 DEF CommandUnderWay
<1>7. ~ WriteAcked
  <2>1. ASSUME WriteAcked PROVE FALSE
    <3>1. com = <<Code(user.op), user.blk, BlkSize, "acked">> /\ toServer = <<>>
      BY <2>1, AppendToThree DEF WriteAcked, Request
    <3>2. Len(toServer) = 0 /\ com[3] = BlkSize
      BY <3>1
    <3>3. Amount = 2
      BY <1>2, <3>2 DEF Amount
    <3>4. QED BY <1>4, <3>2, <3>3
  <2>2. QED BY <2>1
<1>8. \/ Idle /\ BlockUnderWay(<<>>)
      \/ Asked /\ BlockUnderWay(Request(user))
  BY <1>5, <1>6, <1>7 DEF DiskInv, Idle, Asked, ReadServed, BlockArrives
<1>9. buffer = Empty
  BY <1>8 DEF BlockUnderWay
<1>10. com' = <<>> /\ buffer' = Empty
  BY <1>1, <1>9, NextOnEmpty
<1> DEFINE Reached(more) ==
              toServer' = more /\ Seen' = Seen /\ image' \in [DiskBlocks -> BlockData]
<1>11. ASSUME NEW more \in Seq(Wire), BlockUnderWay(more) PROVE Reached(more)
  <2>1. PICK b \in DiskBlocks, d \in BlockData :
           /\ com = <<Wr, b, BlkSize, "acked">> /\ Len(com) = 4
           /\ Len(toServer) >= BlkSize /\ SubSeq(toServer, 1, BlkSize) = d
           /\ SubSeq(toServer, BlkSize + 1, Len(toServer)) = more
    BY <1>11, BlockComplete
  <2>2. com[2] = b /\ com[3] = BlkSize
    BY <2>1
  <2>3. Amount = BlkSize
    BY <1>2, <2>2 DEF Amount
  <2>4. d \in Seq(Wire) /\ Len(d) = BlkSize /\ image[b] \in Seq(Wire) /\ Len(image[b]) = BlkSize
    BY <1>2, BlockIsSeq DEF DiskTypes
  <2>5. SubSeq(old, BlkSize + 1, BlkSize) = <<>> /\ SubSeq(image[b], BlkSize + 1, BlkSize) = <<>>
    BY <1>2, SubSeqEmpty
  <2>6. SubSeq(toServer, 1, n) \o SubSeq(old, n + 1, Amount) = d
    BY <1>4, <2>1, <2>3, <2>4, <2>5, ConcatEmptySeq
  <2>7. image' = [image EXCEPT ![b] = d]
    <3>1. image' = Overwritten(d)
      BY <1>3, <2>6
    <3>2. image' = [image EXCEPT ![b] = d \o SubSeq(image[b], BlkSize + 1, BlkSize)]
      BY <2>2, <2>3, <3>1 DEF Overwritten
    <3>3. d \o SubSeq(image[b], BlkSize + 1, BlkSize) = d
      BY <2>4, <2>5, ConcatEmptySeq
    <3>4. QED BY <3>2, <3>3
  <2>8. image' \in [DiskBlocks -> BlockData]
    BY <1>2, <2>7 DEF DiskTypes
  <2>9. toServer' = more
    BY <1>3, <1>4, <2>1, <2>3
  <2>10. Seen' = image' /\ Seen = [image EXCEPT ![b] = d]
    <3>1. Len(com') # 4
      <4>1. Len(<<>>) = 0
        OBVIOUS
      <4>2. QED BY <1>10, <4>1
    <3>2. Seen' = image'
      BY <3>1 DEF Seen
    <3>3. QED BY <2>1, <2>2, <3>2 DEF Seen
  <2>11. QED BY <2>7, <2>8, <2>9, <2>10
<1>12. ASSUME NEW more \in Seq(Wire), Reached(more) PROVE DiskTypes'
  BY <1>1, <1>2, <1>10, <1>12, EmptySeq, EmptyBuffer DEF DiskTypes, BufferOK
<1> HIDE DEF Reached
<1>13. CASE Idle /\ BlockUnderWay(<<>>)
  <2>1. Reached(<<>>) /\ <<>> \in Seq(Wire)
    BY <1>11, <1>13, EmptySeq
  <2>2. toServer' = <<>> /\ Seen' = Seen
    BY <2>1 DEF Reached
  <2>3. Idle'
    BY <1>1, <1>10, <1>13, <2>2 DEF Idle, Settled
  <2>4. QED BY <1>12, <2>1, <2>2, <2>3 DEF DiskInv
<1>14. CASE Asked /\ BlockUnderWay(Request(user))
  <2>1. PICK r \in Device!Requests : user = r
    BY <1>14 DEF Asked, Asking
  <2>2. Reached(Request(r)) /\ Request(r) \in Seq(Wire)
    BY <1>11, <1>14, <2>1, RequestIsSeq
  <2>3. toServer' = Request(r) /\ Seen' = Seen
    BY <2>2 DEF Reached
  <2>4. CommandUnderWay(r)'
    BY <1>10, <2>3, CommandSent
  <2>5. Asked'
    BY <1>1, <1>14, <2>1, <2>4 DEF Asked, Asking, CommandUnderWay, Request
  <2>6. QED BY <1>12, <2>2, <2>3, <2>5 DEF DiskInv
<1>15. QED BY <1>8, <1>13, <1>14

-----------------------------------------------------------------------------

LEMMA InitDiskInv ==
    ASSUME DiskInit
    PROVE  DiskInv /\ short = 0 /\ Seen = image
<1>1. DiskTypes
  BY EmptySeq, EmptyBuffer DEF DiskTypes, DiskInit
<1>2. Idle /\ Len(com) # 4
  BY DEF Idle, Settled, DiskInit
<1>3. QED BY <1>1, <1>2 DEF DiskInv, Seen, DiskInit

(* What a request costs of the buffer: the command, of which the driver     *)
(* sends the next only when the one before it is answered or only waits     *)
(* for its block.                                                          *)
LEMMA RoomInBuffer ==
    ASSUME DiskInv
    PROVE  Len(buffer.units) \in 0..3 /\ RoomForCommand /\ Room(buffer) # 0
<1>1. DiskTypes /\ (buffer = Empty \/ CommandUnderWay(user))
  BY DEF DiskInv, Idle, Asked, WriteAcked, ReadServed, BlockArrives, Settled, BlockUnderWay
<1>2. Len(buffer.units) \in Nat /\ Len(toServer) \in Nat
  BY <1>1, UnreadIs, LenProperties DEF DiskTypes
<1>3. Len(buffer.units) <= 3
  <2>1. CASE buffer = Empty
    BY <2>1, EmptyBuffer
  <2>2. CASE CommandUnderWay(user)
    <3>1. Len(buffer.units) + Len(toServer) <= 3
      BY <2>2 DEF CommandUnderWay
    <3>2. QED BY <1>2, <3>1
  <2>3. QED BY <1>1, <2>1, <2>2
<1> DEFINE used == Len(buffer.units)
<1>4. used \in Nat /\ used <= 3
  BY <1>2, <1>3
<1> HIDE DEF used
<1>5. used \in 0..3
  BY <1>4
<1>6. INBUFLEN - used >= 2
  BY <1>4, InbufAssumption
<1>7. Room(buffer) = INBUFLEN - used
  BY DEF Room, used
<1>8. RoomForCommand /\ Room(buffer) # 0
  BY <1>6, <1>7 DEF RoomForCommand
<1>9. QED BY <1>5, <1>8 DEF used

(* A read that has once come back short stays so.                           *)
LEMMA ShortStays ==
    ASSUME short \in Nat, [DiskNext]_diskVars
    PROVE  short' \in Nat /\ (short > 0 => short' > 0)
<1>1. CASE ReadB \/ WriteB
  <2>1. short' = IF short = 0 THEN 0 ELSE short + 1
    BY <1>1 DEF ReadB, WriteB, Asks
  <2>2. QED BY <2>1
<1>2. CASE BlockComes \/ StoresBlock
  <2>1. short' \in {1, short} /\ (short # 0 => short' = short)
    BY <1>2 DEF BlockComes, StoresBlock
  <2>2. QED BY <2>1
<1>3. CASE Acknowledged \/ ReadSome \/ Exits \/ getcommand \/ SendsBlock \/ SendsAck
           \/ UNCHANGED diskVars
  <2>1. short' = short
    BY <1>3 DEF Acknowledged, ReadSome, Exits, getcommand, SendsBlock, SendsAck, diskVars
  <2>2. QED BY <2>1
<1>4. QED BY <1>1, <1>2, <1>3 DEF DiskNext

LEMMA DiskStep ==
    ASSUME DiskInv, [DiskNext]_diskVars, short' = 0
    PROVE  DiskInv'
<1>1. CASE ReadB
  <2>1. PICK b \in DiskBlocks : Asks([op |-> "read", blk |-> b])
    BY <1>1 DEF ReadB
  <2>2. [op |-> "read", blk |-> b] \in Device!Requests
    BY DEF Device!Requests
  <2>3. QED BY <2>1, <2>2, AsksKeeps
<1>2. CASE WriteB
  <2>1. PICK b \in DiskBlocks, d \in BlockData : Asks([op |-> "write", blk |-> b, data |-> d])
    BY <1>2 DEF WriteB
  <2>2. [op |-> "write", blk |-> b, data |-> d] \in Device!Requests
    BY DEF Device!Requests
  <2>3. QED BY <2>1, <2>2, AsksKeeps
<1>3. CASE UNCHANGED diskVars
  BY <1>3 DEF diskVars, DiskInv, DiskTypes, Idle, Asked, WriteAcked, ReadServed,
      BlockArrives, Settled, BlockUnderWay, CommandUnderWay, Asking, Request, BufferOK, UnreadIn
<1>4. CASE Exits
  BY <1>4, RoomInBuffer DEF Exits
<1>5. QED BY <1>1, <1>2, <1>3, <1>4, AcknowledgedKeeps, BlockComesKeeps, ReadSomeKeeps,
      getcommandKeeps, SendsBlockKeeps, SendsAckKeeps, StoresBlockKeeps DEF DiskNext

-----------------------------------------------------------------------------

(* What the users see, by what the server does.                            *)
LEMMA SeenIsImage ==
    /\ Len(com) # 4 => Seen = image
    /\ toServer = <<>> => Seen = image
<1>1. toServer = <<>> => ~ (Len(toServer) >= BlkSize)
  BY DEF BlkSize
<1>2. QED BY <1>1 DEF Seen

LEMMA BlockInFront ==
    ASSUME NEW d \in BlockData, NEW more \in Seq(Wire)
    PROVE  Len(d \o more) >= BlkSize /\ SubSeq(d \o more, 1, BlkSize) = d
<1>1. d \in Seq(Wire) /\ Len(d) = BlkSize
  BY BlockIsSeq
<1>2. SubSeq(d \o more, 1, Len(d)) = d
  BY <1>1, TakenBack
<1>3. Len(d \o more) = Len(d) + Len(more) /\ Len(more) \in Nat
  BY <1>1, ConcatProperties, LenProperties
<1>4. BlkSize + Len(more) >= BlkSize
  BY <1>3 DEF BlkSize
<1>5. QED BY <1>1, <1>2, <1>3, <1>4

(* Asking changes nothing on the disk, even when it is the block of the     *)
(* request before that is still on its way.                                *)
LEMMA AsksIsAsk ==
    ASSUME DiskInv, NEW r \in Device!Requests, Asks(r)
    PROVE  Device!Ask
<1>1. Idle /\ user = NoRequest /\ DiskTypes
  BY RequestIsSeq DEF DiskInv, Asks, Asked, WriteAcked, ReadServed, BlockArrives, Asking
<1>2. /\ user' = r /\ toServer' = toServer \o Request(r) /\ got' = NoRequest
      /\ UNCHANGED <<com, image>>
  BY <1>1, Sent DEF Asks, Request, DiskTypes, serverVars
<1>3. CASE Settled
  <2>1. Len(com) # 4 /\ Len(com') # 4
    <3>1. Len(<<>>) = 0
      OBVIOUS
    <3>2. QED BY <1>2, <1>3, <3>1 DEF Settled
  <2>2. Seen' = Seen
    BY <1>2, <2>1 DEF Seen
  <2>3. QED BY <1>1, <1>2, <2>2 DEF Device!Ask
<1>4. CASE BlockUnderWay(<<>>)
  <2>1. PICK b \in DiskBlocks, d \in BlockData :
           com = <<Wr, b, BlkSize, "acked">> /\ toServer = d \o <<>>
    BY <1>4 DEF BlockUnderWay
  <2>2. toServer' = d \o Request(r) /\ Request(r) \in Seq(Wire) /\ <<>> \in Seq(Wire)
    BY <1>2, <2>1, BlockIsSeq, RequestIsSeq, ConcatEmptySeq, EmptySeq
  <2>3. /\ Len(toServer) >= BlkSize /\ SubSeq(toServer, 1, BlkSize) = d
        /\ Len(toServer') >= BlkSize /\ SubSeq(toServer', 1, BlkSize) = d
    BY <2>1, <2>2, BlockInFront
  <2>4. Seen' = Seen
    BY <1>2, <2>3 DEF Seen
  <2>5. QED BY <1>1, <1>2, <2>4 DEF Device!Ask
<1>5. QED BY <1>1, <1>3, <1>4 DEF Idle

(* The block of a write is on the disk, for its users, as soon as the       *)
(* driver has sent it; a read is served when the block has come.            *)
LEMMA AcknowledgedIsServe ==
    ASSUME DiskInv, Acknowledged
    PROVE  Device!Serve \/ UNCHANGED Device!deviceVars
<1>1. (WriteAcked \/ ReadServed) /\ serving = TRUE
  <2>1. toClient # <<>>
    <3>1. toClient = <<>> => Arrived(toClient, 1) = {}
      <4>1. SUFFICES ASSUME toClient = <<>>, NEW n \in Arrived(toClient, 1) PROVE FALSE
        OBVIOUS
      <4>2. serving = TRUE /\ Len(<<>>) = 0
        BY DEF DiskInv, DiskTypes
      <4>3. n = 0
        BY <4>1, <4>2 DEF Arrived
      <4>4. QED BY <4>1, <4>2, <4>3 DEF Arrived
    <3>2. QED BY <3>1 DEF Acknowledged
  <2>2. QED BY <2>1 DEF DiskInv, DiskTypes, Acknowledged, Idle, Asked, BlockArrives
<1>2. UNCHANGED <<got, com, image>>
  BY DEF Acknowledged, serverVars
<1>3. CASE WriteAcked
  <2>1. /\ user \in Device!Requests /\ user.op = "write" /\ user.data \in BlockData
        /\ com = Append(Request(user), "acked") /\ toServer = <<>> /\ user # NoRequest
    BY <1>3, RequestIsSeq DEF WriteAcked, Asking
  <2>2. user' = NoRequest /\ toServer' = toServer \o user.data
    BY <1>1, <2>1, Sent DEF Acknowledged
  <2>3. com' = <<Wr, user.blk, BlkSize, "acked">>
    BY <1>2, <2>1, AppendToThree DEF Request, Code
  <2>4. toServer' = user.data \o <<>> /\ <<>> \in Seq(Wire)
    BY <2>1, <2>2, BlockIsSeq, ConcatEmptySeq, EmptySeq
  <2>5. Len(toServer') >= BlkSize /\ SubSeq(toServer', 1, BlkSize) = user.data
    BY <2>1, <2>4, BlockInFront
  <2>6. Len(com') = 4 /\ com'[2] = user.blk
    BY <2>3
  <2>7. Seen' = [image EXCEPT ![user.blk] = user.data]
    BY <1>2, <2>5, <2>6 DEF Seen
  <2>8. Seen = image
    BY <2>1, SeenIsImage
  <2>9. QED BY <1>2, <2>1, <2>2, <2>7, <2>8 DEF Device!Serve, NoRequest
<1>4. CASE ReadServed
  <2>1. user.op = "read" /\ com = <<>>
    BY <1>4 DEF ReadServed, Asking, Settled
  <2>2. UNCHANGED <<user, toServer>>
    BY <2>1 DEF Acknowledged
  <2>3. QED BY <1>2, <2>2 DEF Device!deviceVars, Seen
<1>5. QED BY <1>1, <1>3, <1>4

LEMMA BlockComesIsServe ==
    ASSUME DiskInv, BlockComes, short' = 0
    PROVE  Device!Serve
<1>1. BlockArrives
  BY DEF DiskInv, BlockComes, Idle, Asked, WriteAcked, ReadServed
<1>2. /\ user \in Device!Requests /\ user.op = "read" /\ toServer = <<>> /\ user # NoRequest
  BY <1>1, RequestIsSeq DEF BlockArrives, Asking, Settled
<1>3. got' = image[user.blk] /\ user' = NoRequest /\ UNCHANGED <<toServer, com, image>>
  BY BlockComesKeeps
<1>4. Seen = image /\ Seen' = Seen
  BY <1>2, <1>3, SeenIsImage DEF Seen
<1>5. QED BY <1>2, <1>3, <1>4 DEF Device!Serve, NoRequest

(* The server's steps are not noticed.                                     *)
LEMMA ServerUnseen ==
    ASSUME DiskInv, short' = 0,
           ReadSome \/ getcommand \/ SendsBlock \/ SendsAck \/ StoresBlock
    PROVE  UNCHANGED Device!deviceVars
<1>1. UNCHANGED <<user, got>>
  BY DEF ReadSome, getcommand, SendsBlock, SendsAck, StoresBlock, clientVars
<1>2. SUFFICES Seen' = Seen
  BY <1>1 DEF Device!deviceVars
<1>3. CASE ReadSome
  <2>1. Len(com) < 3 /\ UNCHANGED <<com, image>>
    BY <1>3 DEF ReadSome, Commanding
  <2>2. Len(com) # 4
    <3>1. ASSUME Len(com) = 4 PROVE FALSE
      BY <2>1, <3>1
    <3>2. QED BY <3>1
  <2>3. QED BY <2>1, <2>2 DEF Seen
<1>4. CASE getcommand
  <2>1. Len(com') # 4 /\ Len(com) # 4
    BY <1>4, getcommandKeeps
  <2>2. UNCHANGED image
    BY <1>4 DEF getcommand
  <2>3. QED BY <2>1, <2>2 DEF Seen
<1>5. CASE SendsBlock \/ SendsAck
  <2>1. toServer = <<>> /\ UNCHANGED <<toServer, image>>
    BY <1>5, CommandInHand DEF SendsBlock, SendsAck
  <2>2. ~ (Len(toServer) >= BlkSize)
    BY <2>1 DEF BlkSize
  <2>3. QED BY <2>1, <2>2 DEF Seen
<1>6. CASE StoresBlock
  BY <1>6, StoresBlockKeeps
<1>7. QED BY <1>3, <1>4, <1>5, <1>6

LEMMA DeviceStep ==
    ASSUME DiskInv, [DiskNext]_diskVars, short' = 0
    PROVE  [Device!DeviceNext]_(Device!deviceVars)
<1>1. CASE ReadB
  <2>1. PICK b \in DiskBlocks : Asks([op |-> "read", blk |-> b])
    BY <1>1 DEF ReadB
  <2>2. [op |-> "read", blk |-> b] \in Device!Requests
    BY DEF Device!Requests
  <2>3. QED BY <2>1, <2>2, AsksIsAsk DEF Device!DeviceNext
<1>2. CASE WriteB
  <2>1. PICK b \in DiskBlocks, d \in BlockData : Asks([op |-> "write", blk |-> b, data |-> d])
    BY <1>2 DEF WriteB
  <2>2. [op |-> "write", blk |-> b, data |-> d] \in Device!Requests
    BY DEF Device!Requests
  <2>3. QED BY <2>1, <2>2, AsksIsAsk DEF Device!DeviceNext
<1>3. CASE UNCHANGED diskVars
  BY <1>3 DEF diskVars, Device!deviceVars, Seen
<1>4. CASE Exits
  BY <1>4, RoomInBuffer DEF Exits
<1>5. QED BY <1>1, <1>2, <1>3, <1>4, AcknowledgedIsServe, BlockComesIsServe, ServerUnseen
      DEF DiskNext, Device!DeviceNext

-----------------------------------------------------------------------------

(* As long as no read of a block has come back short (netdrive.c:133 and    *)
(* netdisk.c:59 ignore the count), every state is in one of the phases: the *)
(* inductive invariant.                                                    *)
THEOREM DiskInvariant == DiskSpec => []UntilShort
<1>1. DiskInit => UntilShort
  BY InitDiskInv DEF UntilShort
<1>2. UntilShort /\ [DiskNext]_diskVars => UntilShort'
  <2>1. SUFFICES ASSUME UntilShort, [DiskNext]_diskVars PROVE UntilShort'
    OBVIOUS
  <2>2. short \in Nat /\ short' \in Nat /\ (short > 0 => short' > 0)
    BY <2>1, ShortStays DEF UntilShort
  <2>3. CASE short' = 0
    <3>1. ~ (short > 0)
      BY <2>2, <2>3
    <3>2. DiskInv'
      BY <2>1, <2>3, <3>1, DiskStep DEF UntilShort
    <3>3. QED BY <2>2, <3>2 DEF UntilShort
  <2>4. CASE short' # 0
    BY <2>2, <2>4 DEF UntilShort
  <2>5. QED BY <2>3, <2>4
<1>3. QED BY <1>1, <1>2, PTL DEF DiskSpec

(* Until a read of a block comes back short the server always finds room in *)
(* its command buffer (netdrive.c's getcommand), however the commands are   *)
(* cut on the way: the branch that would forget bytes never runs.           *)
THEOREM CommandsFit == DiskSpec => [](short > 0 \/ RoomForCommand)
<1>1. UntilShort => short > 0 \/ RoomForCommand
  BY RoomInBuffer DEF UntilShort
<1>2. QED BY <1>1, DiskInvariant, PTL

(* The driver and the server together are a block device until one of them  *)
(* reads less than a block (netdisk.c:59, netdrive.c:133): a write returns  *)
(* before the server has the block, a command is cut anywhere on the way,   *)
(* and the next one may follow the block into the connection.               *)
THEOREM DiskReadsBack == DiskSpec => ReadsBack
<1>1. DiskInit => Device!DeviceInit
  BY InitDiskInv DEF DiskInit, Device!DeviceInit, NoRequest
<1>2. DiskSpec => []UntilShort
  BY DiskInvariant
<1>3. ASSUME UntilShort, [DiskNext]_diskVars
      PROVE  [short' > 0 \/ Device!DeviceNext]_(Device!deviceVars)
  <2>1. short \in Nat /\ short' \in Nat /\ (short > 0 => short' > 0)
    BY <1>3, ShortStays DEF UntilShort
  <2>2. CASE short' = 0
    <3>1. DiskInv
      BY <1>3, <2>1, <2>2 DEF UntilShort
    <3>2. QED BY <1>3, <2>2, <3>1, DeviceStep
  <2>3. CASE short' # 0
    BY <2>1, <2>3
  <2>4. QED BY <2>2, <2>3
<1>4. QED BY <1>1, <1>2, <1>3, PTL DEF DiskSpec, ReadsBack

(* The point-to-point link *)

Options == Known \cup {"chap", "pdns"}
IPs == {NoIP, Gift, ProviderIP} \cup Gifts
Protocols == {"LCP", "PAP", "IPCP"}
Codes == {"ConReq", "ConAck", "ConNak", "ConRej", "TerReq", "TerAck", "EchoReq", "EchoRep"}
Packets ==
    {p \in [prot : Protocols, code : Codes, id : Nat, ops : SUBSET Options, ip : IPs] :
       p.code = "ConNak" => p.ip # ProviderIP}

IsRequest(p) == p.code \in {"ConReq", "TerReq"}
IsAnswer(p) == p.code \in {"ConAck", "ConNak", "ConRej", "TerAck"}
Is(p, prot, code) == p.prot = prot /\ p.code = code

(* What a handler works on: the globals, with what it has sent so far.     *)
Working ==
    [lcpUp : BOOLEAN, authUp : BOOLEAN, ipUp : BOOLEAN, terminate : BOOLEAN,
     ackedUs : BOOLEAN, ackedThem : BOOLEAN,
     timer : BOOLEAN, alarm : {"kept", "set", "reset"}, pulse : BOOLEAN,
     maxtrans : 0..MaxTrans, latestID : Nat,
     no : SUBSET LcpOptions, nopdns : BOOLEAN,
     localIP : {NoIP, Gift} \cup Gifts, tcpIP : {NoIP, Gift} \cup Gifts,
     exited : {"no", "closed", "timedout"}, out : Seq(Packets)]

(* What the driver and TCP/IP have agreed on is as it was.                 *)
Kept(s, r) ==
    /\ r.lcpUp = s.lcpUp /\ r.authUp = s.authUp /\ r.ipUp = s.ipUp /\ r.terminate = s.terminate
    /\ r.ackedUs = s.ackedUs /\ r.no = s.no /\ r.localIP = s.localIP /\ r.tcpIP = s.tcpIP

(* One request more, under a new identifier.                               *)
NewlyAsked(s, r, p) ==
    /\ r \in Working /\ r.latestID = s.latestID + 1 /\ r.out = Append(s.out, p)
    /\ p \in Packets /\ IsRequest(p) /\ p.id = r.latestID

(* What is in the globals before a handler has said anything.              *)
LEMMA GlobalsWork ==
    ASSUME NEW s \in Globals
    PROVE  s \in Working /\ s.out = << >> /\ s.alarm = "kept" /\ s.latestID \in Nat
<1>1. << >> \in Seq(Packets) /\ 0..MaxID \subseteq Nat
  BY EmptySeq
<1>2. QED BY ZenonT(60), <1>1 DEF Globals, Working

(* A packet is made of its parts.                                          *)
LEMMA PacketIs ==
    ASSUME NEW p \in Protocols, NEW c \in Codes, NEW id \in Nat, NEW ops \in SUBSET Options,
           NEW ip \in IPs, c = "ConNak" => ip # ProviderIP
    PROVE  LET k == Packet(p, c, id, ops, ip)
           IN  k \in Packets /\ k.prot = p /\ k.code = c /\ k.id = id /\ k.ops = ops /\ k.ip = ip
BY DEF Packet, Packets

(* Sending adds a packet and touches nothing that was agreed.              *)
LEMMA SendIs ==
    ASSUME NEW s \in Working, NEW p \in Packets
    PROVE  /\ sendCP(s, p) \in Working /\ Kept(s, sendCP(s, p))
           /\ sendCP(s, p).out = Append(s.out, p) /\ sendCP(s, p).latestID = s.latestID
           /\ sendCP(s, p).alarm = s.alarm /\ sendCP(s, p).maxtrans = s.maxtrans
           /\ sendCP(s, p).ackedThem = s.ackedThem
<1>1. s.out \in Seq(Packets)
  BY SMTT(40) DEF Working
<1>2. PICK o \in Seq(Packets) : o = Append(s.out, p)
  BY <1>1, AppendProperties
<1>3. sendCP(s, p) = [s EXCEPT !.out = o]
  BY SMTT(40), <1>2 DEF sendCP, Working
<1>4. QED BY ZenonT(60), <1>2, <1>3 DEF Working, Kept

(* A request is sent under the next identifier.                            *)
LEMMA NewRequestIs ==
    ASSUME NEW s \in Working, NEW prot \in Protocols, NEW code \in {"ConReq", "TerReq"},
           NEW ops \in SUBSET Options, NEW ip \in IPs
    PROVE  LET r == NewRequest(s, prot, code, ops, ip)
               p == Packet(prot, code, s.latestID + 1, ops, ip)
           IN  NewlyAsked(s, r, p) /\ Kept(s, r)
<1>1. s.latestID + 1 \in Nat
  BY SMTT(40) DEF Working
<1> DEFINE t == [s EXCEPT !.latestID = @ + 1]
           p == Packet(prot, code, s.latestID + 1, ops, ip)
<1>2. t \in Working /\ t.latestID = s.latestID + 1 /\ t.out = s.out /\ Kept(s, t)
  BY SMTT(40), <1>1 DEF Working, Kept
<1>3. p \in Packets /\ IsRequest(p) /\ p.id = s.latestID + 1
  BY <1>1, PacketIs DEF IsRequest, Codes
<1>4. NewRequest(s, prot, code, ops, ip) = sendCP(t, p)
  BY DEF NewRequest
<1> HIDE DEF t, p
<1>5. sendCP(t, p) \in Working /\ Kept(t, sendCP(t, p)) /\ sendCP(t, p).out = Append(t.out, p) /\ sendCP(t, p).latestID = t.latestID
  BY <1>2, <1>3, SendIs
<1>6. Kept(s, sendCP(t, p))
  BY <1>2, <1>5 DEF Kept
<1>7. QED BY <1>2, <1>3, <1>4, <1>5, <1>6 DEF NewlyAsked, p

(* The requests for an address, for a password and for the end.            *)
LEMMA OwnRequests ==
    ASSUME NEW s \in Working
    PROVE  /\ \E p \in Packets : NewlyAsked(s, conReqIP(s), p) /\ Is(p, "IPCP", "ConReq") /\ p.ip = s.localIP
           /\ \E p \in Packets : NewlyAsked(s, authReqPAP(s), p) /\ p.prot = "PAP"
           /\ \E p \in Packets : NewlyAsked(s, terReq(s), p) /\ Is(p, "LCP", "TerReq")
           /\ Kept(s, conReqIP(s)) /\ Kept(s, authReqPAP(s)) /\ Kept(s, terReq(s))
<1>1. /\ {} \in SUBSET Options /\ {"pdns"} \in SUBSET Options /\ NoIP \in IPs /\ s.localIP \in IPs
      /\ s.latestID + 1 \in Nat
  BY SMTT(40) DEF Options, IPs, Working
<1>2. PICK o \in SUBSET Options : o = IF s.nopdns THEN {} ELSE {"pdns"}
  BY <1>1
<1>3. conReqIP(s) = NewRequest(s, "IPCP", "ConReq", o, s.localIP)
  BY <1>2 DEF conReqIP
<1>4. \E p \in Packets : NewlyAsked(s, conReqIP(s), p) /\ Is(p, "IPCP", "ConReq") /\ p.ip = s.localIP
  <2> DEFINE p == Packet("IPCP", "ConReq", s.latestID + 1, o, s.localIP)
  <2>1. p \in Packets /\ Is(p, "IPCP", "ConReq") /\ p.ip = s.localIP
    BY <1>1, PacketIs DEF Is, Protocols, Codes
  <2>2. NewlyAsked(s, NewRequest(s, "IPCP", "ConReq", o, s.localIP), p)
    BY <1>1, NewRequestIs DEF Protocols
  <2>3. QED BY <1>3, <2>1, <2>2
<1>5. \E p \in Packets : NewlyAsked(s, authReqPAP(s), p) /\ p.prot = "PAP"
  <2> DEFINE p == Packet("PAP", "ConReq", s.latestID + 1, {}, NoIP)
  <2>1. p \in Packets /\ p.prot = "PAP"
    BY <1>1, PacketIs DEF Protocols, Codes
  <2>2. NewlyAsked(s, NewRequest(s, "PAP", "ConReq", {}, NoIP), p)
    BY <1>1, NewRequestIs DEF Protocols
  <2>3. QED BY <2>1, <2>2 DEF authReqPAP
<1>6. \E p \in Packets : NewlyAsked(s, terReq(s), p) /\ Is(p, "LCP", "TerReq")
  <2> DEFINE p == Packet("LCP", "TerReq", s.latestID + 1, {}, NoIP)
  <2>1. p \in Packets /\ Is(p, "LCP", "TerReq")
    BY <1>1, PacketIs DEF Is, Protocols, Codes
  <2>2. NewlyAsked(s, NewRequest(s, "LCP", "TerReq", {}, NoIP), p)
    BY <1>1, NewRequestIs DEF Protocols
  <2>3. QED BY <2>1, <2>2 DEF terReq
<1>7. Kept(s, conReqIP(s)) /\ Kept(s, authReqPAP(s)) /\ Kept(s, terReq(s))
  <2>1. Kept(s, conReqIP(s))
    BY <1>1, <1>3, NewRequestIs DEF Protocols
  <2>2. Kept(s, authReqPAP(s))
    BY <1>1, NewRequestIs DEF authReqPAP, Protocols
  <2>3. Kept(s, terReq(s))
    BY <1>1, NewRequestIs DEF terReq, Protocols
  <2>4. QED BY <2>1, <2>2, <2>3
<1>8. QED BY <1>4, <1>5, <1>6, <1>7

(* A configure request asks for every option not refused, or the session   *)
(* is given up.                                                            *)
LEMMA conReqIs ==
    ASSUME NEW s \in Working
    PROVE  /\ conReq(s) \in Working /\ Kept(s, conReq(s))
           /\ \/ conReq(s).out = s.out /\ conReq(s).latestID = s.latestID
              \/ \E p \in Packets : /\ NewlyAsked(s, conReq(s), p) /\ Is(p, "LCP", "ConReq")
                                    /\ p.ops = LcpOptions \ s.no
<1>1. CASE s.maxtrans = 0
  <2>1. conReq(s) = [s EXCEPT !.exited = "timedout"]
    BY <1>1 DEF conReq
  <2>2. QED BY SMTT(40), <2>1 DEF Working, Kept
<1>2. CASE s.maxtrans # 0
  <2>1. PICK t \in Working : /\ t = [s EXCEPT !.maxtrans = @ - 1] /\ Kept(s, t) /\ t.latestID = s.latestID
                             /\ t.out = s.out
    <3>1. PICK n \in 0..MaxTrans : n = s.maxtrans - 1
      BY SMTT(40), <1>2, PppAssumption DEF Working
    <3> DEFINE t == [s EXCEPT !.maxtrans = n]
    <3>2. t \in Working /\ Kept(s, t) /\ t.latestID = s.latestID /\ t.out = s.out
      BY SMTT(40) DEF Working, Kept
    <3>3. t = [s EXCEPT !.maxtrans = @ - 1]
      BY <3>1
    <3> HIDE DEF t
    <3>4. QED BY <3>2, <3>3
  <2>2. PICK o \in SUBSET Options : o = LcpOptions \ s.no
    BY DEF Options, Known
  <2>3. conReq(s) = NewRequest(t, "LCP", "ConReq", o, NoIP)
    BY <1>2, <2>1, <2>2 DEF conReq
  <2>4. NoIP \in IPs /\ s.latestID + 1 \in Nat
    BY SMTT(40) DEF IPs, Working
  <2> DEFINE p == Packet("LCP", "ConReq", t.latestID + 1, o, NoIP)
  <2>5. p \in Packets /\ Is(p, "LCP", "ConReq") /\ p.ops = o
    BY <2>1, <2>4, PacketIs DEF Is, Protocols, Codes
  <2>6. NewlyAsked(t, conReq(s), p) /\ Kept(t, conReq(s))
    BY <2>3, <2>4, NewRequestIs DEF Protocols
  <2> HIDE DEF p
  <2>7. NewlyAsked(s, conReq(s), p)
    BY <2>1, <2>6 DEF NewlyAsked
  <2>8. conReq(s) \in Working /\ Kept(s, conReq(s))
    BY <2>1, <2>6 DEF NewlyAsked, Kept
  <2>9. QED BY <2>2, <2>5, <2>7, <2>8
<1>3. QED BY <1>1, <1>2

(* The two timer calls change nothing that was agreed.                     *)
LEMMA AlarmIs ==
    ASSUME NEW s \in Working
    PROVE  /\ setAlarm(s) \in Working /\ Kept(s, setAlarm(s)) /\ setAlarm(s).out = s.out
           /\ setAlarm(s).latestID = s.latestID
           /\ resetAlarm(s) \in Working /\ Kept(s, resetAlarm(s)) /\ resetAlarm(s).out = s.out
           /\ resetAlarm(s).latestID = s.latestID
BY ZenonT(60) DEF Working, Kept, setAlarm, resetAlarm

(* The link goes up with a request for an address or for a password.       *)
LEMMA doLCPUpIs ==
    ASSUME NEW s \in Working
    PROVE  LET r == doLCPUp(s)
           IN  /\ \E p \in Packets : /\ NewlyAsked(s, r, p) /\ p.prot \in {"IPCP", "PAP"}
                                     /\ p.prot = "IPCP" => p.ip = s.localIP
               /\ Kept([s EXCEPT !.lcpUp = TRUE], r) /\ r \in Working
<1> DEFINE up == [s EXCEPT !.lcpUp = TRUE]
           asked == IF up.authUp THEN conReqIP(up) ELSE authReqPAP(up)
           calm == [asked EXCEPT !.maxtrans = MaxTrans]
<1>1. up \in Working /\ up.latestID = s.latestID /\ up.out = s.out /\ up.localIP = s.localIP
  BY ZenonT(60) DEF Working
<1>2. doLCPUp(s) = setAlarm(calm)
  BY DEF doLCPUp
<1> HIDE DEF up
<1>3. PICK p \in Packets : /\ NewlyAsked(up, asked, p) /\ p.prot \in {"IPCP", "PAP"}
                           /\ p.prot = "IPCP" => p.ip = up.localIP
  BY <1>1, OwnRequests DEF Is
<1>4. Kept(up, asked) /\ asked \in Working
  BY <1>1, <1>3, OwnRequests DEF NewlyAsked
<1> HIDE DEF asked
<1>5. calm \in Working /\ calm.latestID = asked.latestID /\ calm.out = asked.out /\ Kept(asked, calm)
  <2>1. MaxTrans \in 0..MaxTrans
    BY PppAssumption
  <2>2. QED BY SMTT(40), <1>4, <2>1 DEF Working, Kept
<1> HIDE DEF calm
<1>6. PICK r \in Working : r = doLCPUp(s) /\ Kept(calm, r) /\ r.out = calm.out /\ r.latestID = calm.latestID
  BY <1>2, <1>5, AlarmIs
<1>7. NewlyAsked(s, r, p)
  BY <1>1, <1>3, <1>5, <1>6 DEF NewlyAsked
<1>8. Kept(up, r)
  BY <1>4, <1>5, <1>6 DEF Kept
<1>9. QED BY <1>1, <1>3, <1>6, <1>7, <1>8 DEF up

(* TCP/IP comes up with the address of the last request.                   *)
LEMMA doIPUpIs ==
    ASSUME NEW s \in Working
    PROVE  LET r == doIPUp(s)
           IN  /\ r \in Working /\ r.out = s.out /\ r.latestID = s.latestID
               /\ Kept([s EXCEPT !.ipUp = TRUE, !.tcpIP = s.localIP], r)
BY ZenonT(60) DEF doIPUp, resetAlarm, Working, Kept

-----------------------------------------------------------------------------
(* The address is agreed on: the link and the password are, and the other  *)
(* end acknowledged the last request.                                      *)
Configured(s) == s.lcpUp /\ s.authUp /\ s.ackedUs
UpWith(s) == s.ipUp => Configured(s) /\ s.tcpIP = s.localIP
Confirms(s, m, prot) == Is(m, prot, "ConAck") /\ m.id = s.latestID

(* What a host that has come so far does not hear any more.                *)
Sound(s, m) ==
    ~s.terminate =>
      /\ s.lcpUp \/ s.ackedUs => ~Is(m, "LCP", "ConRej")
      /\ s.lcpUp => ~Confirms(s, m, "LCP") /\ (s.authUp \/ ~s.ackedUs)
      /\ Configured(s) => ~Is(m, "IPCP", "ConNak")
      /\ UpWith(s)

(* A handler of message m turns s into r and makes the requests of qs.     *)
MakesRequests(s, r, qs) ==
    \/ qs = << >> /\ r.latestID = s.latestID /\ r.localIP = s.localIP
    \/ \E q \in Packets :
         /\ qs = <<q>> /\ IsRequest(q) /\ q.id = r.latestID /\ r.latestID = s.latestID + 1
         /\ Is(q, "IPCP", "ConReq") => q.ip = r.localIP
         /\ Is(q, "LCP", "ConReq") => q.ops = LcpOptions \ r.no /\ (r.terminate \/ ~r.lcpUp)

Move(s, m, r, qs) ==
    /\ s.no \subseteq r.no /\ (s.terminate => r.terminate)
    /\ MakesRequests(s, r, qs)
    /\ ~r.terminate =>
         /\ r.lcpUp \/ r.ackedUs => s.lcpUp \/ s.ackedUs \/ Confirms(s, m, "LCP")
         /\ r.lcpUp => (s.lcpUp \/ qs # << >>) /\ (r.authUp \/ ~r.ackedUs)
         /\ Configured(r) => \/ Configured(s) /\ r.localIP = s.localIP
                             \/ qs = << >> /\ Confirms(s, m, "IPCP")
         /\ UpWith(r)

(* Packet a answers packet m, as an end does that gives the address gift;  *)
(* a host gives none of the provider's and is gift = 0.                    *)
Replies(gift, m, a) ==
    /\ IsAnswer(a) /\ IsRequest(m) /\ a.id = m.id /\ a.prot = m.prot
    /\ m.code = "ConReq" \/ a.code = "TerAck" \/ a.prot = "PAP"
    /\ gift = 0 => a.prot # "PAP"
    /\ Is(a, "LCP", "ConAck") => gift = 0 \/ "pcomp" \notin m.ops
    /\ Is(a, "LCP", "ConRej") => IF gift = 0 THEN ~(m.ops \subseteq Known) ELSE "pcomp" \in m.ops
    /\ Is(a, "IPCP", "ConAck") => a.ip = m.ip /\ m.ip # NoIP /\ (gift = 0 \/ m.ip = gift)
    /\ Is(a, "IPCP", "ConNak") => IF gift = 0 THEN m.ip = NoIP ELSE m.ip # gift

Step(s, m, r) ==
    /\ r \in Working
    /\ \E said, qs \in Seq(Packets) :
         /\ r.out = said \o qs /\ Move(s, m, r, qs)
         /\ said = << >> \/ \E a \in Packets : said = <<a>> /\ (Is(a, "LCP", "EchoRep") \/ Replies(0, m, a))

(* A handler sends nothing, an answer, a request, or both in this order.   *)
LEMMA StepSays ==
    ASSUME NEW s, NEW m, NEW r \in Working, NEW a \in Packets, NEW q \in Packets
    PROVE  /\ r.out = << >> /\ Move(s, m, r, << >>) => Step(s, m, r)
           /\ r.out = Append(<< >>, q) /\ Move(s, m, r, <<q>>) => Step(s, m, r)
           /\ (Is(a, "LCP", "EchoRep") \/ Replies(0, m, a)) =>
                /\ r.out = Append(<< >>, a) /\ Move(s, m, r, << >>) => Step(s, m, r)
                /\ r.out = Append(Append(<< >>, a), q) /\ Move(s, m, r, <<q>>) => Step(s, m, r)
<1>1. /\ << >> \in Seq(Packets) /\ <<q>> \in Seq(Packets) /\ <<a>> \in Seq(Packets)
      /\ << >> \o << >> = << >> /\ << >> \o <<q>> = Append(<< >>, q)
      /\ <<a>> \o << >> = Append(<< >>, a) /\ <<a>> \o <<q>> = Append(Append(<< >>, a), q)
  OBVIOUS
<1>2. r.out = << >> /\ Move(s, m, r, << >>) => Step(s, m, r)
  BY <1>1 DEF Step
<1>3. r.out = Append(<< >>, q) /\ Move(s, m, r, <<q>>) => Step(s, m, r)
  BY <1>1 DEF Step
<1>4. ASSUME Is(a, "LCP", "EchoRep") \/ Replies(0, m, a) , r.out = Append(<< >>, a) , Move(s, m, r, << >>)
      PROVE  Step(s, m, r)
  BY <1>1, <1>4 DEF Step
<1>5. ASSUME Is(a, "LCP", "EchoRep") \/ Replies(0, m, a) , r.out = Append(Append(<< >>, a), q) , Move(s, m, r, <<q>>)
      PROVE  Step(s, m, r)
  BY <1>1, <1>5 DEF Step
<1>6. QED BY <1>2, <1>3, <1>4, <1>5

(* One packet is not none.                                                 *)
LEMMA OneIsSome ==
    ASSUME NEW q
    PROVE  <<q>> # << >>
OBVIOUS

(* A packet that answers another one.                                      *)
LEMMA AnswerIs ==
    ASSUME NEW m \in Packets, NEW c \in {"ConAck", "ConNak", "ConRej", "TerAck", "EchoRep"},
           NEW ops \in SUBSET Options, NEW ip \in IPs, c = "ConNak" => ip # ProviderIP
    PROVE  LET a == Packet(m.prot, c, m.id, ops, ip)
           IN  /\ a \in Packets /\ a.code = c /\ a.id = m.id /\ a.prot = m.prot /\ a.ip = ip
               /\ c # "EchoRep" => IsAnswer(a)
<1>1. m.prot \in Protocols /\ m.id \in Nat /\ c \in Codes
  BY DEF Packets, Codes
<1>2. QED BY <1>1, PacketIs DEF IsAnswer

(* What a packet is made of.                                               *)
LEMMA MessageIs ==
    ASSUME NEW m \in Packets
    PROVE  m.id \in Nat /\ m.ops \in SUBSET Options /\ m.ip \in IPs /\ m.prot \in Protocols /\ m.code \in Codes
BY DEF Packets

(* doConReq: the link is renegotiated, and goes up when both ends agree.   *)
LEMMA doConReqSteps ==
    ASSUME NEW s \in Globals, NEW m \in Packets, Sound(s, m), Is(m, "LCP", "ConReq")
    PROVE  Step(s, m, doConReq(s, m))
<1>1. s \in Working /\ s.out = << >> /\ s.latestID \in Nat
  BY GlobalsWork
<1>2. PICK t \in Working :
        /\ t = [Renegotiate(s) EXCEPT !.authUp = IF "pap" \in m.ops THEN FALSE ELSE @]
        /\ t.out = << >> /\ t.latestID = s.latestID /\ t.no = s.no /\ t.terminate = s.terminate
        /\ t.localIP = s.localIP /\ t.tcpIP = s.tcpIP /\ ~t.lcpUp
        /\ IF s.lcpUp THEN ~t.ipUp /\ ~t.ackedUs ELSE t.ipUp = s.ipUp /\ t.ackedUs = s.ackedUs
  <2>1. PICK u \in Working :
          /\ u = Renegotiate(s) /\ u.out = << >> /\ u.latestID = s.latestID /\ u.no = s.no
          /\ u.terminate = s.terminate /\ u.localIP = s.localIP /\ u.tcpIP = s.tcpIP /\ ~u.lcpUp
          /\ IF s.lcpUp THEN ~u.ipUp /\ ~u.ackedUs ELSE u.ipUp = s.ipUp /\ u.ackedUs = s.ackedUs
    <3>1. CASE s.lcpUp
      <4> DEFINE v == [s EXCEPT !.ipUp = FALSE, !.lcpUp = FALSE, !.authUp = TRUE,
                                !.ackedThem = FALSE, !.ackedUs = FALSE, !.nopdns = FALSE]
      <4>1. /\ v \in Working /\ v.out = << >> /\ v.latestID = s.latestID /\ v.no = s.no
            /\ v.terminate = s.terminate /\ v.localIP = s.localIP /\ v.tcpIP = s.tcpIP /\ ~v.lcpUp
            /\ ~v.ipUp /\ ~v.ackedUs
        BY ZenonT(60), <1>1 DEF Working
      <4>2. Renegotiate(s) = setAlarm(v)
        BY <3>1 DEF Renegotiate
      <4> HIDE DEF v
      <4>3. QED BY <3>1, <4>1, <4>2, AlarmIs DEF Kept
    <3>2. CASE ~s.lcpUp
      BY <1>1, <3>2 DEF Renegotiate
    <3>3. QED BY <3>1, <3>2
  <2>2. PICK b \in BOOLEAN : b = IF "pap" \in m.ops THEN FALSE ELSE u.authUp
    BY ZenonT(60) DEF Working
  <2> DEFINE t == [u EXCEPT !.authUp = b]
  <2>3. /\ t \in Working /\ t.out = u.out /\ t.latestID = u.latestID /\ t.no = u.no
        /\ t.terminate = u.terminate /\ t.localIP = u.localIP /\ t.tcpIP = u.tcpIP
        /\ t.lcpUp = u.lcpUp /\ t.ipUp = u.ipUp /\ t.ackedUs = u.ackedUs
    BY SMTT(40) DEF Working
  <2>4. t = [Renegotiate(s) EXCEPT !.authUp = IF "pap" \in m.ops THEN FALSE ELSE @]
    BY <2>1, <2>2
  <2> HIDE DEF t
  <2>5. QED BY <2>1, <2>3, <2>4
<1>3. ~t.terminate => ~t.ipUp
  BY <1>2 DEF Sound, UpWith, Configured
<1>4. m.ops \in SUBSET Options /\ (m.ops \ Known) \in SUBSET Options /\ NoIP \in IPs /\ m.prot = "LCP" /\ m.code = "ConReq"
  BY MessageIs DEF IPs, Is
<1> DEFINE yes == Packet("LCP", "ConAck", m.id, m.ops, NoIP)
           no == Packet("LCP", "ConRej", m.id, m.ops \ Known, NoIP)
<1>5. yes \in Packets /\ Replies(0, m, yes)
  BY <1>4, AnswerIs DEF Replies, Is, IsRequest
<1>6. no \in Packets /\ (~(m.ops \subseteq Known) => Replies(0, m, no))
  <2>1. no \in Packets /\ no.code = "ConRej" /\ no.id = m.id /\ no.prot = m.prot /\ IsAnswer(no)
    BY <1>4, MessageIs DEF Packet, Packets, IsAnswer, Codes
  <2> HIDE DEF no
  <2>2. QED BY <1>4, <2>1 DEF Replies, Is, IsRequest
<1> HIDE DEF yes, no
<1>7. CASE ~(m.ops \subseteq Known)
  <2>1. PICK r \in Working : /\ r = sendCP(t, no) /\ Kept(t, r) /\ r.out = Append(<< >>, no)
                             /\ r.latestID = t.latestID
    <3>1. /\ sendCP(t, no) \in Working /\ Kept(t, sendCP(t, no)) /\ sendCP(t, no).out = Append(t.out, no)
          /\ sendCP(t, no).latestID = t.latestID
      BY <1>6, SendIs
    <3>2. QED BY <1>2, <3>1
  <2>2. doConReq(s, m) = r
    BY <1>2, <1>7, <2>1 DEF doConReq, no
  <2>3. Move(s, m, r, << >>)
    BY <1>2, <1>3, <2>1 DEF Move, MakesRequests, Kept, UpWith, Configured
  <2>4. QED BY <1>6, <1>7, <2>1, <2>2, <2>3, StepSays
<1>8. PICK ack \in Working :
        /\ ack = [sendCP(t, yes) EXCEPT !.ackedThem = TRUE] /\ Kept(t, ack)
        /\ ack.out = Append(<< >>, yes) /\ ack.latestID = t.latestID
  <2>1. PICK u \in Working : u = sendCP(t, yes) /\ Kept(t, u) /\ u.out = Append(<< >>, yes) /\ u.latestID = t.latestID
    <3>1. /\ sendCP(t, yes) \in Working /\ Kept(t, sendCP(t, yes)) /\ sendCP(t, yes).out = Append(t.out, yes)
          /\ sendCP(t, yes).latestID = t.latestID
      BY <1>5, SendIs
    <3>2. QED BY <1>2, <3>1
  <2> DEFINE w == [u EXCEPT !.ackedThem = TRUE]
  <2>2. w \in Working /\ Kept(u, w) /\ w.out = u.out /\ w.latestID = u.latestID
    BY ZenonT(60) DEF Working, Kept
  <2>3. w = [sendCP(t, yes) EXCEPT !.ackedThem = TRUE]
    BY <2>1
  <2> HIDE DEF w
  <2>4. Kept(t, w)
    BY <2>1, <2>2 DEF Kept
  <2>5. QED BY <2>1, <2>2, <2>3, <2>4
<1>9. CASE m.ops \subseteq Known /\ ~t.ackedUs
  <2>1. doConReq(s, m) = ack
    BY <1>2, <1>8, <1>9 DEF doConReq, yes
  <2>2. Move(s, m, ack, << >>)
    BY <1>2, <1>3, <1>8, <1>9 DEF Move, MakesRequests, Kept, UpWith, Configured
  <2>3. QED BY <1>5, <1>8, <2>1, <2>2, StepSays
<1>10. CASE m.ops \subseteq Known /\ t.ackedUs
  <2>1. PICK z \in Working :
          /\ z = [ack EXCEPT !.ackedThem = FALSE, !.ackedUs = FALSE]
          /\ z.out = ack.out /\ z.latestID = ack.latestID /\ ~z.ackedUs /\ z.no = ack.no
          /\ z.terminate = ack.terminate /\ z.localIP = ack.localIP /\ z.ipUp = ack.ipUp
    <3> DEFINE y == [ack EXCEPT !.ackedThem = FALSE, !.ackedUs = FALSE]
    <3>1. /\ y \in Working /\ y.out = ack.out /\ y.latestID = ack.latestID /\ ~y.ackedUs /\ y.no = ack.no
          /\ y.terminate = ack.terminate /\ y.localIP = ack.localIP /\ y.ipUp = ack.ipUp
      BY ZenonT(60) DEF Working
    <3>2. y = [ack EXCEPT !.ackedThem = FALSE, !.ackedUs = FALSE]
      OBVIOUS
    <3> HIDE DEF y
    <3>3. QED BY <3>1, <3>2
  <2>2. doConReq(s, m) = doLCPUp(z)
    BY <1>2, <1>8, <1>10, <2>1 DEF doConReq, yes
  <2>3. PICK r \in Working, p \in Packets :
          /\ r = doLCPUp(z) /\ NewlyAsked(z, r, p) /\ p.prot \in {"IPCP", "PAP"}
          /\ p.prot = "IPCP" => p.ip = z.localIP
          /\ Kept([z EXCEPT !.lcpUp = TRUE], r)
    BY <2>1, doLCPUpIs
  <2>4. ~r.ackedUs /\ r.no = z.no /\ r.terminate = z.terminate /\ r.localIP = z.localIP /\ r.ipUp = z.ipUp
    BY ZenonT(60), <2>1, <2>3 DEF Kept, Working
  <2>5. MakesRequests(s, r, <<p>>)
    <3>1. p.prot # "LCP" /\ (p.prot = "IPCP" => p.ip = r.localIP)
      BY <2>1, <2>3, <2>4
    <3>2. p \in Packets /\ IsRequest(p) /\ p.id = r.latestID /\ r.latestID = s.latestID + 1
      BY <1>2, <1>8, <2>1, <2>3 DEF NewlyAsked
    <3>3. QED BY <3>1, <3>2 DEF MakesRequests, Is
  <2>6. s.ackedUs
    BY <1>2, <1>10
  <2>7. Move(s, m, r, <<p>>)
    BY <1>2, <1>3, <1>8, <2>1, <2>4, <2>5, <2>6, OneIsSome DEF Move, Kept, UpWith, Configured
  <2>8. r.out = Append(Append(<< >>, yes), p)
    BY <1>8, <2>1, <2>3 DEF NewlyAsked
  <2>9. QED BY <1>5, <2>2, <2>3, <2>7, <2>8, StepSays
<1>11. QED BY SMTT(40), <1>7, <1>9, <1>10, <1>2 DEF Working

(* A handler that leaves all as it was.                                    *)
LEMMA StaysSteps ==
    ASSUME NEW s \in Globals, NEW m, Sound(s, m)
    PROVE  Step(s, m, s)
<1>1. s \in Working /\ s.out = << >> /\ s.latestID \in Nat
  BY GlobalsWork
<1>2. Move(s, m, s, << >>)
  BY DEF Move, MakesRequests, Sound, Configured, UpWith
<1>3. PICK p \in Packets : TRUE
  <2>1. NoIP \in IPs /\ {} \in SUBSET Options /\ "LCP" \in Protocols /\ "TerReq" \in Codes /\ 0 \in Nat
    BY DEF IPs, Protocols, Codes
  <2>2. QED BY <2>1, PacketIs
<1>4. QED BY <1>1, <1>2, <1>3, StepSays

(* A handler that says nothing.                                            *)
LEMMA QuietSteps ==
    ASSUME NEW s \in Globals, NEW m, NEW r \in Working, r.out = << >>, Move(s, m, r, << >>)
    PROVE  Step(s, m, r)
<1>1. << >> \in Seq(Packets) /\ << >> \o << >> = << >>
  OBVIOUS
<1>2. QED BY <1>1 DEF Step

(* A handler that makes one request.                                       *)
LEMMA AskingSteps ==
    ASSUME NEW s \in Globals, NEW m, NEW r \in Working, NEW q \in Packets, r.out = Append(<< >>, q),
           Move(s, m, r, <<q>>)
    PROVE  Step(s, m, r)
<1>1. << >> \in Seq(Packets) /\ <<q>> \in Seq(Packets) /\ << >> \o <<q>> = Append(<< >>, q)
  OBVIOUS
<1>2. QED BY <1>1 DEF Step

(* A handler that only answers.                                            *)
LEMMA AnsweringSteps ==
    ASSUME NEW s \in Globals, NEW m, NEW r \in Working, NEW a \in Packets, r.out = Append(<< >>, a),
           Is(a, "LCP", "EchoRep") \/ Replies(0, m, a), Move(s, m, r, << >>)
    PROVE  Step(s, m, r)
<1>1. << >> \in Seq(Packets) /\ <<a>> \in Seq(Packets) /\ <<a>> \o << >> = Append(<< >>, a)
  OBVIOUS
<1>2. QED BY <1>1 DEF Step

(* A handler that brings the link up.                                      *)
LEMMA UpSteps ==
    ASSUME NEW s \in Globals, NEW m, NEW z \in Working, z.out = << >>, z.latestID = s.latestID,
           z.no = s.no, z.terminate = s.terminate,
           ~s.terminate =>
             /\ s.lcpUp \/ s.ackedUs \/ Confirms(s, m, "LCP")
             /\ z.authUp \/ ~z.ackedUs
             /\ z.authUp /\ z.ackedUs => Configured(s) /\ z.localIP = s.localIP
             /\ z.ipUp => z.authUp /\ z.ackedUs /\ z.tcpIP = z.localIP
    PROVE  Step(s, m, doLCPUp(z))
<1>1. PICK r \in Working, p \in Packets :
        /\ r = doLCPUp(z) /\ NewlyAsked(z, r, p) /\ p.prot \in {"IPCP", "PAP"}
        /\ p.prot = "IPCP" => p.ip = z.localIP
        /\ Kept([z EXCEPT !.lcpUp = TRUE], r)
  BY doLCPUpIs
<1>2. /\ r.lcpUp /\ r.authUp = z.authUp /\ r.ackedUs = z.ackedUs /\ r.no = z.no /\ r.terminate = z.terminate
      /\ r.localIP = z.localIP /\ r.ipUp = z.ipUp /\ r.tcpIP = z.tcpIP
  BY SMTT(40), <1>1 DEF Kept, Working
<1>3. MakesRequests(s, r, <<p>>)
  BY <1>1, <1>2 DEF MakesRequests, NewlyAsked, Is
<1>4. Move(s, m, r, <<p>>)
  BY <1>2, <1>3, OneIsSome DEF Move, UpWith, Configured
<1>5. r.out = Append(<< >>, p)
  BY <1>1 DEF NewlyAsked
<1>6. QED BY <1>1, <1>4, <1>5, AskingSteps

(* doConAck: the link goes up when both ends agree.                        *)
LEMMA doConAckSteps ==
    ASSUME NEW s \in Globals, NEW m \in Packets, Sound(s, m), Is(m, "LCP", "ConAck")
    PROVE  Step(s, m, doConAck(s, m))
<1>1. s \in Working /\ s.out = << >> /\ s.latestID \in Nat
  BY GlobalsWork
<1>2. CASE m.id # s.latestID
  BY <1>2, StaysSteps DEF doConAck
<1>3. m.id = s.latestID => Confirms(s, m, "LCP") /\ (~s.terminate => ~s.lcpUp /\ ~s.ipUp)
  BY DEF Confirms, Sound, UpWith, Configured
<1>4. CASE m.id = s.latestID /\ s.ackedThem
  <2> DEFINE z == [s EXCEPT !.ackedUs = FALSE, !.ackedThem = FALSE]
  <2>1. /\ z \in Working /\ z.out = << >> /\ z.latestID = s.latestID /\ ~z.ackedUs /\ z.no = s.no
        /\ z.terminate = s.terminate /\ z.ipUp = s.ipUp
    BY ZenonT(60), <1>1 DEF Working
  <2>2. doConAck(s, m) = doLCPUp(z)
    BY <1>4 DEF doConAck
  <2> HIDE DEF z
  <2>3. QED BY <1>3, <1>4, <2>1, <2>2, UpSteps
<1>5. CASE m.id = s.latestID /\ ~s.ackedThem
  <2> DEFINE r == [s EXCEPT !.ackedUs = TRUE]
  <2>1. /\ r \in Working /\ r.out = << >> /\ r.latestID = s.latestID /\ r.no = s.no
        /\ r.terminate = s.terminate /\ r.ipUp = s.ipUp /\ r.lcpUp = s.lcpUp /\ r.localIP = s.localIP
    BY ZenonT(60), <1>1 DEF Working
  <2>2. doConAck(s, m) = r
    BY <1>5 DEF doConAck
  <2> HIDE DEF r
  <2>3. Move(s, m, r, << >>)
    BY <1>3, <1>5, <2>1 DEF Move, MakesRequests, UpWith, Configured
  <2>4. QED BY <2>1, <2>2, <2>3, QuietSteps
<1>6. QED BY SMTT(40), <1>2, <1>4, <1>5, <1>1 DEF Working

(* conReq while the link is down.                                          *)
LEMMA conReqSteps ==
    ASSUME NEW s \in Globals, NEW m, NEW u \in Working, u.out = << >>, u.latestID = s.latestID,
           s.no \subseteq u.no, u.terminate = s.terminate, u.localIP = s.localIP,
           ~s.terminate => ~u.lcpUp /\ ~u.ipUp /\ u.ackedUs = s.ackedUs,
           NEW r \in Working, r.out = conReq(u).out, r.latestID = conReq(u).latestID, Kept(conReq(u), r)
    PROVE  Step(s, m, r)
<1>1. Kept(u, r)
  BY conReqIs DEF Kept
<1>2. CASE r.out = << >> /\ r.latestID = s.latestID
  <2>1. Move(s, m, r, << >>)
    BY <1>1, <1>2 DEF Move, MakesRequests, Kept, UpWith, Configured
  <2>2. QED BY <1>2, <2>1, QuietSteps
<1>3. ASSUME NEW p \in Packets, NewlyAsked(u, conReq(u), p), Is(p, "LCP", "ConReq"), p.ops = LcpOptions \ u.no
      PROVE  Step(s, m, r)
  <2>1. r.out = Append(<< >>, p) /\ r.latestID = s.latestID + 1 /\ p.id = r.latestID /\ IsRequest(p)
    BY <1>3 DEF NewlyAsked
  <2>2. MakesRequests(s, r, <<p>>)
    BY <1>1, <1>3, <2>1 DEF MakesRequests, Kept, Is
  <2>3. Move(s, m, r, <<p>>)
    BY <1>1, <2>2, OneIsSome DEF Move, Kept, UpWith, Configured
  <2>4. QED BY <2>1, <2>3, AskingSteps
<1>4. QED BY <1>2, <1>3, conReqIs

(* doConRej: the next request asks for less.                               *)
LEMMA doConRejSteps ==
    ASSUME NEW s \in Globals, NEW m \in Packets, Sound(s, m), Is(m, "LCP", "ConRej")
    PROVE  Step(s, m, doConRej(s, m))
<1>1. s \in Working /\ s.out = << >> /\ s.latestID \in Nat
  BY GlobalsWork
<1>2. PICK n \in SUBSET LcpOptions : n = s.no \cup (m.ops \cap LcpOptions)
  BY ZenonT(60), <1>1 DEF Working
<1> DEFINE u == [s EXCEPT !.no = n]
<1>3. /\ u \in Working /\ u.out = << >> /\ u.latestID = s.latestID /\ s.no \subseteq u.no
      /\ u.terminate = s.terminate /\ u.localIP = s.localIP
      /\ u.lcpUp = s.lcpUp /\ u.ipUp = s.ipUp /\ u.ackedUs = s.ackedUs
  BY SMTT(40), <1>1, <1>2 DEF Working
<1>4. doConRej(s, m) = conReq(u)
  BY <1>2 DEF doConRej
<1> HIDE DEF u
<1>5. ~s.terminate => ~s.lcpUp /\ ~s.ipUp
  BY DEF Sound, UpWith, Configured
<1>6. conReq(u) \in Working /\ Kept(conReq(u), conReq(u))
  BY <1>3, conReqIs DEF Kept
<1>7. QED BY <1>3, <1>4, <1>5, <1>6, conReqSteps

(* doEchoReq only answers.                                                 *)
LEMMA doEchoReqSteps ==
    ASSUME NEW s \in Globals, NEW m \in Packets, Sound(s, m)
    PROVE  Step(s, m, doEchoReq(s, m))
<1>1. s \in Working /\ s.out = << >> /\ s.latestID \in Nat
  BY GlobalsWork
<1>2. PICK a \in Packets : a = Packet("LCP", "EchoRep", m.id, {}, NoIP) /\ Is(a, "LCP", "EchoRep")
  <2>1. NoIP \in IPs /\ {} \in SUBSET Options /\ "LCP" \in Protocols /\ "EchoRep" \in Codes /\ m.id \in Nat
    BY MessageIs DEF IPs, Protocols, Codes
  <2>2. QED BY <2>1, PacketIs DEF Is
<1>3. PICK r \in Working : r = doEchoReq(s, m) /\ Kept(s, r) /\ r.out = Append(s.out, a) /\ r.latestID = s.latestID
  BY <1>1, <1>2, SendIs DEF doEchoReq
<1>4. Move(s, m, r, << >>)
  BY <1>3 DEF Move, MakesRequests, Kept, Sound, UpWith, Configured
<1>5. QED BY <1>1, <1>2, <1>3, <1>4, AnsweringSteps

(* doTerReq: a host that is told to terminate does.                        *)
LEMMA doTerReqSteps ==
    ASSUME NEW s \in Globals, NEW m \in Packets, Is(m, "LCP", "TerReq")
    PROVE  Step(s, m, doTerReq(s, m))
<1>1. s \in Working /\ s.out = << >> /\ s.latestID \in Nat
  BY GlobalsWork
<1>2. PICK a \in Packets : a = Packet("LCP", "TerAck", m.id, {}, NoIP) /\ Replies(0, m, a)
  <2>1. NoIP \in IPs /\ {} \in SUBSET Options /\ m.prot = "LCP" /\ m.code = "TerReq"
    BY DEF IPs, Is
  <2> DEFINE a == Packet(m.prot, "TerAck", m.id, {}, NoIP)
  <2>2. a \in Packets /\ a = Packet(m.prot, "TerAck", m.id, {}, NoIP)
        /\ a.code = "TerAck" /\ a.id = m.id /\ a.prot = m.prot /\ IsAnswer(a)
    BY <2>1, MessageIs DEF Packet, Packets, IsAnswer, Codes
  <2> HIDE DEF a
  <2>3. QED BY <2>1, <2>2 DEF Replies, Is, IsRequest
<1>3. PICK u \in Working : u = sendCP(s, a) /\ Kept(s, u) /\ u.out = Append(s.out, a) /\ u.latestID = s.latestID
  BY <1>1, SendIs
<1> DEFINE w == [u EXCEPT !.terminate = TRUE, !.lcpUp = FALSE, !.ackedThem = TRUE]
<1>4. w \in Working /\ w.out = u.out /\ w.latestID = u.latestID /\ w.terminate /\ w.no = u.no /\ w.localIP = u.localIP
  BY ZenonT(60) DEF Working
<1>5. doTerReq(s, m) = setAlarm(w)
  BY <1>2, <1>3 DEF doTerReq
<1> HIDE DEF w
<1>6. PICK r \in Working : r = setAlarm(w) /\ Kept(w, r) /\ r.out = w.out /\ r.latestID = w.latestID
  BY <1>4, AlarmIs
<1>7. Move(s, m, r, << >>)
  BY <1>3, <1>4, <1>6 DEF Move, MakesRequests, Kept
<1>8. QED BY <1>1, <1>2, <1>3, <1>4, <1>5, <1>6, <1>7, AnsweringSteps

(* termPPP only exits.                                                     *)
LEMMA TermIs ==
    ASSUME NEW s \in Working
    PROVE  /\ termPPP(s) \in Working /\ Kept(s, termPPP(s)) /\ termPPP(s).out = s.out
           /\ termPPP(s).latestID = s.latestID
BY SMTT(40) DEF termPPP, Working, Kept

(* The session is closed.                                                  *)
LEMMA termPPPSteps ==
    ASSUME NEW s \in Globals, NEW m, Sound(s, m), NEW r \in Working, Kept(s, r), r.out = << >>,
           r.latestID = s.latestID
    PROVE  Step(s, m, r)
<1>1. Move(s, m, r, << >>)
  BY DEF Move, MakesRequests, Kept, Sound, UpWith, Configured
<1>2. QED BY <1>1, QuietSteps

(* doTerAck: the session is over, or nothing is.                           *)
LEMMA doTerAckSteps ==
    ASSUME NEW s \in Globals, NEW m, Sound(s, m)
    PROVE  Step(s, m, doTerAck(s, m))
<1>1. s \in Working /\ s.out = << >> /\ s.latestID \in Nat
  BY GlobalsWork
<1>2. CASE s.terminate /\ m.id = s.latestID
  <2>1. doTerAck(s, m) = termPPP(s)
    BY <1>2 DEF doTerAck
  <2>2. QED BY <1>1, <2>1, TermIs, termPPPSteps
<1>3. CASE ~(s.terminate /\ m.id = s.latestID)
  BY <1>3, StaysSteps DEF doTerAck
<1>4. QED BY <1>2, <1>3

(* doAuthAckPAP: the address is asked for next.                            *)
LEMMA doAuthAckPAPSteps ==
    ASSUME NEW s \in Globals, NEW m, Sound(s, m), s.lcpUp
    PROVE  Step(s, m, doAuthAckPAP(s, m))
<1>1. s \in Working /\ s.out = << >> /\ s.latestID \in Nat
  BY GlobalsWork
<1>2. CASE m.id # s.latestID
  BY <1>2, StaysSteps DEF doAuthAckPAP
<1>3. CASE m.id = s.latestID
  <2> DEFINE z == [s EXCEPT !.authUp = TRUE]
  <2>1. /\ z \in Working /\ z.out = << >> /\ z.latestID = s.latestID /\ z.no = s.no /\ z.terminate = s.terminate
        /\ z.authUp /\ z.ackedUs = s.ackedUs /\ z.ipUp = s.ipUp /\ z.tcpIP = s.tcpIP /\ z.localIP = s.localIP
    BY ZenonT(60), <1>1 DEF Working
  <2>2. doAuthAckPAP(s, m) = doLCPUp(z)
    BY <1>3 DEF doAuthAckPAP
  <2> HIDE DEF z
  <2>3. ~s.terminate => (s.ackedUs => Configured(s)) /\ UpWith(s)
    BY DEF Sound, Configured
  <2>4. ~s.terminate => (z.ipUp => z.authUp /\ z.ackedUs /\ z.tcpIP = z.localIP)
    BY <2>1, <2>3 DEF UpWith, Configured
  <2>5. QED BY <2>1, <2>2, <2>3, <2>4, UpSteps
<1>4. QED BY <1>2, <1>3

(* doAuthNakPAP: the password is asked for again.                          *)
LEMMA doAuthNakPAPSteps ==
    ASSUME NEW s \in Globals, NEW m, Sound(s, m), s.lcpUp
    PROVE  Step(s, m, doAuthNakPAP(s, m))
<1>1. s \in Working /\ s.out = << >> /\ s.latestID \in Nat
  BY GlobalsWork
<1>2. PICK z \in Working : z = resetAlarm(s) /\ Kept(s, z) /\ z.out = << >> /\ z.latestID = s.latestID
  BY <1>1, AlarmIs
<1>3. ~s.terminate => (s.authUp /\ s.ackedUs => Configured(s)) /\ UpWith(s) /\ (s.authUp \/ ~s.ackedUs)
  BY DEF Sound, Configured
<1>4. /\ z.no = s.no /\ z.terminate = s.terminate
      /\ z.authUp = s.authUp /\ z.ackedUs = s.ackedUs /\ z.ipUp = s.ipUp /\ z.tcpIP = s.tcpIP /\ z.localIP = s.localIP
  BY <1>2 DEF Kept
<1>5. ~s.terminate => (z.ipUp => z.authUp /\ z.ackedUs /\ z.tcpIP = z.localIP)
  BY <1>3, <1>4 DEF UpWith, Configured
<1>6. QED BY <1>2, <1>3, <1>4, <1>5, UpSteps DEF doAuthNakPAP

(* doConNakIP: the address that the other end offers is asked for.         *)
LEMMA doConNakIPSteps ==
    ASSUME NEW s \in Globals, NEW m \in Packets, Sound(s, m), s.lcpUp, s.authUp, Is(m, "IPCP", "ConNak")
    PROVE  Step(s, m, doConNakIP(s, m))
<1>1. s \in Working /\ s.out = << >> /\ s.latestID \in Nat
  BY GlobalsWork
<1>2. PICK ip \in {NoIP, Gift} \cup Gifts : ip = m.ip
  BY DEF Packets, IPs, Is
<1> DEFINE z == [s EXCEPT !.localIP = ip]
<1>3. /\ z \in Working /\ z.out = << >> /\ z.latestID = s.latestID /\ z.no = s.no /\ z.terminate = s.terminate
      /\ z.authUp /\ z.ackedUs = s.ackedUs /\ z.ipUp = s.ipUp
  BY SMTT(40), <1>1 DEF Working
<1>4. doConNakIP(s, m) = doLCPUp(z)
  BY <1>2 DEF doConNakIP
<1> HIDE DEF z
<1>5. ~s.terminate => ~s.ackedUs /\ ~s.ipUp
  BY DEF Sound, Configured, UpWith
<1>6. QED BY <1>3, <1>4, <1>5, UpSteps

(* doConReqIP: an address is refused, offered or acknowledged.             *)
LEMMA doConReqIPSteps ==
    ASSUME NEW s \in Globals, NEW m \in Packets, Sound(s, m), s.lcpUp, s.authUp, Is(m, "IPCP", "ConReq")
    PROVE  Step(s, m, doConReqIP(s, m))
<1>1. s \in Working /\ s.out = << >> /\ s.latestID \in Nat
  BY GlobalsWork
<1>2. Move(s, m, s, << >>)
  BY DEF Move, MakesRequests, Sound, Configured, UpWith
<1>3. ASSUME NEW a \in Packets
      PROVE  /\ sendCP(s, a) \in Working /\ Kept(s, sendCP(s, a)) /\ sendCP(s, a).out = Append(<< >>, a)
             /\ sendCP(s, a).latestID = s.latestID
  <2>1. sendCP(s, a).out = Append(s.out, a) /\ sendCP(s, a) \in Working /\ Kept(s, sendCP(s, a)) /\ sendCP(s, a).latestID = s.latestID
    BY <1>1, SendIs
  <2>2. QED BY <1>1, <2>1
<1>4. m.prot = "IPCP" /\ m.code = "ConReq" /\ m.ops \in SUBSET Options /\ m.ip \in IPs /\ NoIP \in IPs /\ Gift \in IPs
      /\ {} \in SUBSET Options /\ Gift # ProviderIP
  BY MessageIs DEF IPs, Is, Gift, ProviderIP
<1>5. CASE m.ops # {}
  <2> DEFINE b == Packet(m.prot, "ConRej", m.id, m.ops, NoIP)
  <2>0. b \in Packets /\ b.code = "ConRej" /\ b.id = m.id /\ b.prot = m.prot /\ IsAnswer(b)
    BY <1>4, MessageIs DEF Packet, Packets, IsAnswer, Codes
  <2>1. PICK a \in Packets : a = Packet(m.prot, "ConRej", m.id, m.ops, NoIP) /\ a.code = "ConRej" /\ a.id = m.id /\ a.prot = m.prot /\ IsAnswer(a)
    BY <2>0
  <2> HIDE DEF b
  <2>2. Replies(0, m, a)
    BY <1>4, <2>1 DEF Replies, Is, IsRequest
  <2>3. doConReqIP(s, m) = sendCP(s, a)
    BY <1>4, <1>5, <2>1 DEF doConReqIP
  <2>4. Move(s, m, sendCP(s, a), << >>)
    BY <1>2, <1>3 DEF Move, MakesRequests, Kept, Configured, UpWith
  <2>5. QED BY <1>3, <2>2, <2>3, <2>4, AnsweringSteps
<1>6. CASE m.ops = {} /\ m.ip = NoIP
  <2> DEFINE b == Packet(m.prot, "ConNak", m.id, {}, Gift)
  <2>0. b \in Packets /\ b.code = "ConNak" /\ b.id = m.id /\ b.prot = m.prot /\ IsAnswer(b)
    BY <1>4, MessageIs DEF Packet, Packets, IsAnswer, Codes
  <2>1. PICK a \in Packets : a = Packet(m.prot, "ConNak", m.id, {}, Gift) /\ a.code = "ConNak" /\ a.id = m.id /\ a.prot = m.prot /\ IsAnswer(a)
    BY <2>0
  <2> HIDE DEF b
  <2>2. Replies(0, m, a)
    BY <1>4, <1>6, <2>1 DEF Replies, Is, IsRequest
  <2>3. doConReqIP(s, m) = sendCP(s, a)
    BY <1>4, <1>6, <2>1 DEF doConReqIP
  <2>4. Move(s, m, sendCP(s, a), << >>)
    BY <1>2, <1>3 DEF Move, MakesRequests, Kept, Configured, UpWith
  <2>5. QED BY <1>3, <2>2, <2>3, <2>4, AnsweringSteps
<1>7. CASE m.ops = {} /\ m.ip # NoIP
  <2> DEFINE b == Packet(m.prot, "ConAck", m.id, {}, m.ip)
  <2>0. b \in Packets /\ b.code = "ConAck" /\ b.id = m.id /\ b.prot = m.prot /\ b.ip = m.ip /\ IsAnswer(b)
    BY <1>4, MessageIs DEF Packet, Packets, IsAnswer, Codes
  <2>1. PICK a \in Packets : a = Packet(m.prot, "ConAck", m.id, {}, m.ip) /\ a.code = "ConAck" /\ a.id = m.id /\ a.prot = m.prot /\ a.ip = m.ip /\ IsAnswer(a)
    BY <2>0
  <2> HIDE DEF b
  <2>2. Replies(0, m, a)
    BY <1>4, <1>7, <2>1 DEF Replies, Is, IsRequest
  <2>3. PICK u \in Working : u = sendCP(s, a) /\ Kept(s, u) /\ u.out = Append(<< >>, a) /\ u.latestID = s.latestID
    BY <1>3
  <2> DEFINE ack == [u EXCEPT !.ackedThem = TRUE]
  <2>4. ack \in Working /\ Kept(u, ack) /\ ack.out = u.out /\ ack.latestID = u.latestID
    BY ZenonT(60) DEF Working, Kept
  <2>5. doConReqIP(s, m) = IF s.ackedUs THEN doIPUp(ack) ELSE ack
    BY <1>4, <1>7, <2>1, <2>3 DEF doConReqIP
  <2> HIDE DEF ack
  <2>6. CASE ~s.ackedUs
    <3>1. Move(s, m, ack, << >>)
      BY <1>2, <2>3, <2>4 DEF Move, MakesRequests, Kept, Configured, UpWith
    <3>2. QED BY <2>2, <2>3, <2>4, <2>5, <2>6, <3>1, AnsweringSteps
  <2>7. CASE s.ackedUs
    <3>1. PICK r \in Working : /\ r = doIPUp(ack) /\ r.out = ack.out /\ r.latestID = ack.latestID
                               /\ Kept([ack EXCEPT !.ipUp = TRUE, !.tcpIP = ack.localIP], r)
      BY <2>4, doIPUpIs
    <3>2. /\ r.lcpUp = ack.lcpUp /\ r.authUp = ack.authUp /\ r.ackedUs = ack.ackedUs /\ r.no = ack.no
          /\ r.terminate = ack.terminate /\ r.localIP = ack.localIP /\ r.ipUp /\ r.tcpIP = r.localIP
      BY SMTT(40), <2>4, <3>1 DEF Kept, Working
    <3>3. Move(s, m, r, << >>)
      BY <1>2, <2>3, <2>4, <2>7, <3>1, <3>2 DEF Move, MakesRequests, Kept, Configured, UpWith
    <3>4. QED BY <2>2, <2>3, <2>4, <2>5, <2>7, <3>1, <3>3, AnsweringSteps
  <2>8. QED BY SMTT(40), <2>6, <2>7, <1>1 DEF Working
<1>8. QED BY <1>5, <1>6, <1>7

(* doConAckIP: the address is agreed on.                                   *)
LEMMA doConAckIPSteps ==
    ASSUME NEW s \in Globals, NEW m \in Packets, Sound(s, m), s.lcpUp, s.authUp, Is(m, "IPCP", "ConAck")
    PROVE  Step(s, m, doConAckIP(s, m))
<1>1. s \in Working /\ s.out = << >> /\ s.latestID \in Nat
  BY GlobalsWork
<1>2. CASE m.id # s.latestID
  BY <1>2, StaysSteps DEF doConAckIP
<1>3. CASE m.id = s.latestID
  <2> DEFINE u == [s EXCEPT !.ackedUs = TRUE]
  <2>1. /\ u \in Working /\ u.out = << >> /\ u.latestID = s.latestID /\ u.no = s.no /\ u.terminate = s.terminate
        /\ u.lcpUp /\ u.authUp /\ u.ackedUs /\ u.ipUp = s.ipUp /\ u.tcpIP = s.tcpIP /\ u.localIP = s.localIP
    BY ZenonT(60), <1>1 DEF Working
  <2>2. doConAckIP(s, m) = IF s.ackedThem THEN doIPUp(u) ELSE u
    BY <1>3 DEF doConAckIP
  <2> HIDE DEF u
  <2>3. Confirms(s, m, "IPCP")
    BY <1>3 DEF Confirms
  <2>4. ~s.terminate => UpWith(s)
    BY DEF Sound
  <2>5. CASE ~s.ackedThem
    <3>1. Move(s, m, u, << >>)
      BY <2>1, <2>3, <2>4 DEF Move, MakesRequests, Configured, UpWith
    <3>2. QED BY <2>1, <2>2, <2>5, <3>1, QuietSteps
  <2>6. CASE s.ackedThem
    <3>1. PICK r \in Working : /\ r = doIPUp(u) /\ r.out = u.out /\ r.latestID = u.latestID
                               /\ Kept([u EXCEPT !.ipUp = TRUE, !.tcpIP = u.localIP], r)
      BY <2>1, doIPUpIs
    <3>2. /\ r.lcpUp = u.lcpUp /\ r.authUp = u.authUp /\ r.ackedUs = u.ackedUs /\ r.no = u.no
          /\ r.terminate = u.terminate /\ r.localIP = u.localIP /\ r.ipUp /\ r.tcpIP = r.localIP
      BY ZenonT(60), <2>1, <3>1 DEF Kept, Working
    <3>3. Move(s, m, r, << >>)
      BY <2>1, <2>3, <3>1, <3>2 DEF Move, MakesRequests, Configured, UpWith
    <3>4. QED BY <2>1, <2>2, <2>6, <3>1, <3>3, QuietSteps
  <2>7. QED BY SMTT(40), <2>5, <2>6, <1>1 DEF Working
<1>4. QED BY <1>2, <1>3

(* A host whose address is not agreed on asks for it again.                *)
LEMMA conReqIPSteps ==
    ASSUME NEW s \in Globals, NEW m, Sound(s, m), NEW u \in Working, u.out = << >>, u.latestID = s.latestID,
           Kept(s, u), NEW r \in Working, r.out = conReqIP(u).out, r.latestID = conReqIP(u).latestID,
           Kept(conReqIP(u), r)
    PROVE  Step(s, m, r)
<1>1. PICK p \in Packets : NewlyAsked(u, conReqIP(u), p) /\ Is(p, "IPCP", "ConReq") /\ p.ip = u.localIP
  BY OwnRequests
<1>2. Kept(s, r)
  BY SMTT(40), OwnRequests DEF Kept
<1>3. r.out = Append(<< >>, p) /\ r.latestID = s.latestID + 1 /\ p.id = r.latestID /\ IsRequest(p) /\ p.ip = r.localIP
  BY <1>1, <1>2 DEF NewlyAsked, Kept
<1>4. MakesRequests(s, r, <<p>>)
  BY <1>1, <1>3 DEF MakesRequests, Is
<1>5. Move(s, m, r, <<p>>)
  BY <1>2, <1>4 DEF Move, Kept, Sound, Configured, UpWith
<1>6. QED BY <1>3, <1>5, AskingSteps

(* doConRejIP: the address is asked for without what was refused.          *)
LEMMA doConRejIPSteps ==
    ASSUME NEW s \in Globals, NEW m \in Packets, Sound(s, m)
    PROVE  Step(s, m, doConRejIP(s, m))
<1>1. s \in Working /\ s.out = << >> /\ s.latestID \in Nat
  BY GlobalsWork
<1>2. PICK b \in BOOLEAN : b = (s.nopdns \/ "pdns" \in m.ops)
  OBVIOUS
<1> DEFINE u == [s EXCEPT !.nopdns = b]
<1>3. u \in Working /\ Kept(s, u) /\ u.out = << >> /\ u.latestID = s.latestID
  BY SMTT(40), <1>1 DEF Working, Kept
<1>4. doConRejIP(s, m) = IF s.ackedUs THEN u ELSE conReqIP(u)
  BY <1>2 DEF doConRejIP
<1> HIDE DEF u
<1>5. CASE s.ackedUs
  BY <1>3, <1>4, <1>5, termPPPSteps
<1>6. CASE ~s.ackedUs
  <2>1. conReqIP(u) \in Working /\ Kept(conReqIP(u), conReqIP(u))
    BY <1>3, OwnRequests DEF NewlyAsked, Kept
  <2>2. QED BY <1>3, <1>4, <1>6, <2>1, conReqIPSteps
<1>7. QED BY <1>5, <1>6

(* docp: a host moves on from every packet it hears.                       *)
LEMMA docpSteps ==
    ASSUME NEW s \in Globals, NEW m \in Packets, Sound(s, m)
    PROVE  Step(s, m, docp(s, m))
<1>1. CASE m.prot = "LCP"
  BY <1>1, doConReqSteps, doConAckSteps, doConRejSteps, doEchoReqSteps, doTerReqSteps, doTerAckSteps, StaysSteps
     DEF docp, Is
<1>2. CASE m.prot = "IPCP" /\ s.lcpUp /\ s.authUp
  BY <1>2, doConReqIPSteps, doConAckIPSteps, doConNakIPSteps, doConRejIPSteps, StaysSteps DEF docp, Is
<1>3. CASE m.prot = "PAP" /\ s.lcpUp
  BY <1>3, doAuthAckPAPSteps, doAuthNakPAPSteps, StaysSteps DEF docp, Is
<1>4. CASE m.prot # "LCP" /\ ~(m.prot = "IPCP" /\ s.lcpUp /\ s.authUp) /\ ~(m.prot = "PAP" /\ s.lcpUp)
  BY <1>4, StaysSteps DEF docp
<1>5. QED BY <1>1, <1>2, <1>3, <1>4

(* PMSG_Alarm: nothing is heard.                                           *)
LEMMA AlarmedSteps ==
    ASSUME NEW s \in Globals, NEW m, Sound(s, m)
    PROVE  Step(s, m, Alarmed(s))
<1>1. s \in Working /\ s.out = << >> /\ s.latestID \in Nat /\ s.terminate \in BOOLEAN /\ Kept(s, s)
  BY SMTT(40), GlobalsWork DEF Kept, Working
<1> DEFINE done == IF s.terminate
                   THEN IF s.ackedThem THEN termPPP(s) ELSE terReq(s)
                   ELSE IF ~s.lcpUp THEN conReq(s)
                   ELSE IF ~s.authUp THEN authReqPAP(s) ELSE conReqIP(s)
<1>2. done \in Working
  BY <1>1, TermIs, OwnRequests, conReqIs DEF NewlyAsked
<1>3. Alarmed(s) = IF s.timer THEN setAlarm(done) ELSE done
  BY DEF Alarmed
<1>4. PICK r \in Working : r = Alarmed(s) /\ Kept(done, r) /\ r.out = done.out /\ r.latestID = done.latestID
  <2> HIDE DEF done
  <2>1. Kept(done, done)
    BY DEF Kept
  <2>2. QED BY <1>2, <1>3, <2>1, AlarmIs
<1>5. CASE s.terminate /\ s.ackedThem
  <2>1. Kept(s, r) /\ r.out = << >> /\ r.latestID = s.latestID
    <3>1. done = termPPP(s)
      BY <1>5
    <3> HIDE DEF done
    <3>2. QED BY <1>1, <1>4, <3>1, TermIs DEF Kept
  <2>2. QED BY <1>4, <2>1, termPPPSteps
<1>6. CASE s.terminate /\ ~s.ackedThem
  <2>1. PICK p \in Packets : NewlyAsked(s, done, p) /\ Is(p, "LCP", "TerReq")
    BY <1>1, <1>6, OwnRequests
  <2>2. Kept(s, r)
    BY ZenonT(60), <1>1, <1>4, <1>6, OwnRequests DEF Kept
  <2>3. r.out = Append(<< >>, p) /\ r.latestID = s.latestID + 1 /\ p.id = r.latestID /\ IsRequest(p)
    BY <1>1, <1>4, <2>1 DEF NewlyAsked
  <2>4. MakesRequests(s, r, <<p>>)
    BY <2>1, <2>3 DEF MakesRequests, Is
  <2>5. Move(s, m, r, <<p>>)
    BY <1>6, <2>2, <2>4 DEF Move, Kept
  <2>6. QED BY <1>4, <2>3, <2>5, AskingSteps
<1>7. CASE ~s.terminate /\ ~s.lcpUp
  <2>1. done = conReq(s) /\ ~s.ipUp
    BY <1>7 DEF Sound, UpWith, Configured
  <2>2. QED BY <1>1, <1>4, <1>7, <2>1, conReqSteps
<1>8. CASE ~s.terminate /\ s.lcpUp /\ ~s.authUp
  <2>1. PICK p \in Packets : NewlyAsked(s, done, p) /\ p.prot = "PAP"
    BY <1>1, <1>8, OwnRequests
  <2>2. Kept(s, r)
    BY ZenonT(60), <1>1, <1>4, <1>8, OwnRequests DEF Kept
  <2>3. r.out = Append(<< >>, p) /\ r.latestID = s.latestID + 1 /\ p.id = r.latestID /\ IsRequest(p)
    BY <1>1, <1>4, <2>1 DEF NewlyAsked
  <2>4. MakesRequests(s, r, <<p>>)
    BY <2>1, <2>3 DEF MakesRequests, Is
  <2>5. Move(s, m, r, <<p>>)
    BY <1>8, <2>2, <2>4 DEF Move, Kept, Sound, UpWith, Configured
  <2>6. QED BY <1>4, <2>3, <2>5, AskingSteps
<1>9. CASE ~s.terminate /\ s.lcpUp /\ s.authUp
  <2>1. done = conReqIP(s)
    BY <1>9
  <2>2. QED BY <1>1, <1>4, <2>1, conReqIPSteps
<1>10. QED BY <1>5, <1>6, <1>7, <1>8, <1>9

(* IO_CONTROL: the host asks for the end.                                  *)
LEMMA ClosedSteps ==
    ASSUME NEW s \in Globals, NEW m
    PROVE  Step(s, m, Closed(s))
<1>1. s \in Working /\ s.out = << >> /\ s.latestID \in Nat
  BY GlobalsWork
<1> DEFINE t == [s EXCEPT !.tcpIP = NoIP, !.terminate = TRUE]
<1>2. t \in Working /\ t.out = << >> /\ t.latestID = s.latestID /\ t.terminate /\ t.no = s.no /\ t.localIP = s.localIP
  BY ZenonT(60), <1>1 DEF Working
<1>3. Closed(s) = [terReq(setAlarm(t)) EXCEPT !.lcpUp = FALSE, !.ackedThem = FALSE]
  BY DEF Closed
<1> HIDE DEF t
<1>4. PICK u \in Working : u = setAlarm(t) /\ Kept(t, u) /\ u.out = << >> /\ u.latestID = s.latestID
  BY <1>2, AlarmIs
<1>5. PICK p \in Packets, v \in Working : v = terReq(u) /\ NewlyAsked(u, v, p) /\ Is(p, "LCP", "TerReq") /\ Kept(u, v)
  BY OwnRequests DEF NewlyAsked
<1> DEFINE r == [v EXCEPT !.lcpUp = FALSE, !.ackedThem = FALSE]
<1>6. /\ r \in Working /\ r.out = v.out /\ r.latestID = v.latestID /\ r.terminate = v.terminate /\ r.no = v.no
      /\ r.localIP = v.localIP
  BY ZenonT(60) DEF Working
<1>7. Closed(s) = r
  BY <1>3, <1>4, <1>5
<1> HIDE DEF r
<1>8. r.out = Append(<< >>, p) /\ r.latestID = s.latestID + 1 /\ p.id = r.latestID /\ IsRequest(p)
  BY <1>4, <1>5, <1>6 DEF NewlyAsked
<1>9. MakesRequests(s, r, <<p>>)
  BY <1>5, <1>8 DEF MakesRequests, Is
<1>10. r.terminate /\ s.no \subseteq r.no
  BY <1>2, <1>4, <1>5, <1>6 DEF Kept
<1>11. Move(s, m, r, <<p>>)
  BY <1>9, <1>10 DEF Move
<1>12. QED BY <1>6, <1>7, <1>8, <1>11, AskingSteps

(* The first request; nothing is up before it.                             *)
LEMMA StartSteps ==
    ASSUME NEW s \in Globals, NEW m, Sound(s, m), ~s.terminate => ~s.lcpUp
    PROVE  Step(s, m, setAlarm(conReq(s)))
<1>1. s \in Working /\ s.out = << >> /\ s.latestID \in Nat
  BY GlobalsWork
<1>2. ~s.terminate => ~s.ipUp
  BY DEF Sound, UpWith, Configured
<1>3. conReq(s) \in Working
  BY <1>1, conReqIs
<1>4. PICK r \in Working : /\ r = setAlarm(conReq(s)) /\ Kept(conReq(s), r) /\ r.out = conReq(s).out
                           /\ r.latestID = conReq(s).latestID
  BY <1>3, AlarmIs
<1>5. QED BY <1>1, <1>2, <1>4, conReqSteps

-----------------------------------------------------------------------------
(* The frames on their way to a host and from it.  What answers it and then *)
(* what it asks is in the order of its identifiers.                        *)
InOrder(to, from, last) ==
    /\ \A i, j \in 1..Len(to) : i < j /\ IsAnswer(to[i]) /\ IsAnswer(to[j]) => to[i].id < to[j].id
    /\ \A i, j \in 1..Len(from) : i < j /\ IsRequest(from[i]) /\ IsRequest(from[j]) => from[i].id < from[j].id
    /\ \A i \in 1..Len(to), j \in 1..Len(from) : IsAnswer(to[i]) /\ IsRequest(from[j]) => to[i].id < from[j].id
    /\ \A i \in 1..Len(to) : IsAnswer(to[i]) => to[i].id <= last
    /\ \A j \in 1..Len(from) : IsRequest(from[j]) => from[j].id <= last

(* What a request and an answer that are still on the line say.            *)
RequestOK(s, q) ==
    /\ Is(q, "LCP", "ConReq") => q.ops \subseteq LcpOptions /\ ("pcomp" \in s.no \/ "pcomp" \in q.ops)
    /\ Is(q, "IPCP", "ConReq") /\ q.id = s.latestID => q.ip = s.localIP

AnswerOK(s, a, given, gift) ==
    /\ Is(a, "LCP", "ConAck") => "pcomp" \in s.no \/ gift = 0
    /\ Is(a, "LCP", "ConRej") => gift # 0
    /\ Is(a, "IPCP", "ConAck") => a.ip \in given \ {NoIP}
    /\ Confirms(s, a, "IPCP") => a.ip = s.localIP /\ (gift # 0 => a.ip = gift)

(* What is not on the line any more once LCP has agreed, once the link is  *)
(* up and once the address is agreed on.                                   *)
RequestGone(s, q, gift) ==
    /\ s.lcpUp \/ s.ackedUs => (gift # 0 /\ Is(q, "LCP", "ConReq") => "pcomp" \notin q.ops)
    /\ s.lcpUp => (Is(q, "LCP", "ConReq") => q.id # s.latestID)
    /\ Configured(s) => /\ Is(q, "IPCP", "ConReq") => q.ip = s.localIP
                        /\ gift # 0 => ~Is(q, "LCP", "ConReq")

AnswerGone(s, a) ==
    /\ s.lcpUp \/ s.ackedUs => ~Is(a, "LCP", "ConRej")
    /\ s.lcpUp => ~Confirms(s, a, "LCP")
    /\ Configured(s) => ~Is(a, "IPCP", "ConNak")

HostOK(s, given, gift) ==
    /\ s.lcpUp \/ s.ackedUs => (gift # 0 => "pcomp" \in s.no)
    /\ s.lcpUp => s.latestID > 0 /\ (s.authUp \/ ~s.ackedUs)
    /\ Configured(s) => s.localIP \in given \ {NoIP} /\ (gift # 0 => gift = s.localIP)
    /\ UpWith(s)

LinkOK(s, to, from, given, gift) ==
    /\ InOrder(to, from, s.latestID)
    /\ \A i \in 1..Len(to) : AnswerOK(s, to[i], given, gift)
    /\ \A j \in 1..Len(from) : RequestOK(s, from[j])
    /\ ~s.terminate =>
         /\ \A i \in 1..Len(to) : AnswerGone(s, to[i])
         /\ \A j \in 1..Len(from) : RequestGone(s, from[j], gift)
         /\ HostOK(s, given, gift)

(* What holds of the packet m that a host takes off its line, and of the   *)
(* one that its peer does.                                                 *)
Hears(s, m, to, from, given, gift) ==
    /\ AnswerOK(s, m, given, gift) /\ (s.terminate \/ AnswerGone(s, m))
    /\ IsAnswer(m) /\ m.id = s.latestID => /\ \A i \in 1..Len(to) : ~IsAnswer(to[i])
                                           /\ \A j \in 1..Len(from) : ~IsRequest(from[j])

Seeks(s, m, to, from, gift) ==
    /\ RequestOK(s, m) /\ (s.terminate \/ RequestGone(s, m, gift))
    /\ IsRequest(m) => /\ \A i \in 1..Len(to) : IsAnswer(to[i]) => to[i].id < m.id
                       /\ \A j \in 1..Len(from) : IsRequest(from[j]) => m.id < from[j].id
                       /\ m.id <= s.latestID

(* A packet on a line has a number for its identifier.                     *)
LEMMA OnLine ==
    ASSUME NEW q \in Seq(Packets)
    PROVE  Len(q) \in Nat /\ \A i \in 1..Len(q) : q[i] \in Packets /\ q[i].id \in Nat
<1>1. Len(q) \in Nat /\ \A i \in 1..Len(q) : q[i] \in Packets
  BY ElementOfSeq, LenProperties
<1>2. QED BY <1>1 DEF Packets

(* The first packet of a line, and the rest of it.                         *)
LEMMA TakenOff ==
    ASSUME NEW q \in Seq(Packets), q # << >>
    PROVE  /\ Tail(q) \in Seq(Packets) /\ Head(q) = q[1] /\ Head(q) \in Packets /\ Len(Tail(q)) \in Nat
           /\ Len(q) = Len(Tail(q)) + 1 /\ \A i \in 1..Len(Tail(q)) : Tail(q)[i] = q[i + 1]
<1>1. /\ Head(q) \in Packets /\ Tail(q) \in Seq(Packets) /\ Len(Tail(q)) = Len(q) - 1
      /\ \A i \in 1..Len(Tail(q)) : Tail(q)[i] = q[i + 1]
  BY HeadTailProperties
<1>2. Len(q) \in Nat /\ Len(Tail(q)) \in Nat
  BY <1>1, LenProperties
<1>3. Head(q) = q[1]
  OBVIOUS
<1>4. QED BY <1>1, <1>2, <1>3

(* Its next packet is taken off the line to a host.                        *)
LEMMA HeadHeard ==
    ASSUME NEW s, NEW to \in Seq(Packets), NEW from \in Seq(Packets), NEW given, NEW gift, to # << >>,
           LinkOK(s, to, from, given, gift)
    PROVE  /\ LinkOK(s, Tail(to), from, given, gift)
           /\ Hears(s, Head(to), Tail(to), from, given, gift)
<1> DEFINE r == Tail(to)
<1>1. /\ r \in Seq(Packets) /\ Head(to) = to[1] /\ Len(to) = Len(r) + 1 /\ Len(r) \in Nat
      /\ \A i \in 1..Len(r) : r[i] = to[i + 1]
  BY TakenOff
<1>2. Len(from) \in Nat /\ Len(to) \in Nat /\ (\A i \in 1..Len(to) : to[i].id \in Nat) /\ \A j \in 1..Len(from) : from[j].id \in Nat
  BY OnLine
<1> HIDE DEF r
<1>3. InOrder(to, from, s.latestID)
  BY DEF LinkOK
<1>4. \A i \in 1..Len(r) : i + 1 \in 1..Len(to) /\ 1 < i + 1
  BY <1>1
<1>5. InOrder(r, from, s.latestID)
  <2>1. ASSUME NEW i \in 1..Len(r), NEW j \in 1..Len(r), i < j, IsAnswer(r[i]), IsAnswer(r[j])
        PROVE  r[i].id < r[j].id
    <3>1. i + 1 \in 1..Len(to) /\ j + 1 \in 1..Len(to) /\ i + 1 < j + 1
      BY <1>1, <2>1
    <3>2. QED BY <1>1, <2>1, <3>1, <1>3 DEF InOrder
  <2>2. \A i \in 1..Len(r), j \in 1..Len(from) : IsAnswer(r[i]) /\ IsRequest(from[j]) => r[i].id < from[j].id
    BY <1>1, <1>3, <1>4 DEF InOrder
  <2>3. \A i \in 1..Len(r) : IsAnswer(r[i]) => r[i].id <= s.latestID
    BY <1>1, <1>3, <1>4 DEF InOrder
  <2>4. QED BY <1>3, <2>1, <2>2, <2>3 DEF InOrder
<1>6. LinkOK(s, r, from, given, gift)
  <2>1. \A i \in 1..Len(r) : AnswerOK(s, r[i], given, gift) /\ (~s.terminate => AnswerGone(s, r[i]))
    BY <1>1, <1>4 DEF LinkOK
  <2>2. QED BY <1>5, <2>1 DEF LinkOK
<1>7. 1 \in 1..Len(to)
  BY <1>1
<1>8. ASSUME IsAnswer(to[1]), to[1].id = s.latestID
      PROVE  (\A i \in 1..Len(r) : ~IsAnswer(r[i])) /\ \A j \in 1..Len(from) : ~IsRequest(from[j])
  <2>1. ASSUME NEW i \in 1..Len(r), IsAnswer(r[i]) PROVE FALSE
    <3>1. to[1].id < to[i + 1].id /\ to[i + 1].id <= s.latestID
      BY <1>1, <1>3, <1>4, <1>7, <1>8, <2>1 DEF InOrder
    <3>2. to[1].id \in Nat /\ to[i + 1].id \in Nat
      BY <1>2, <1>4, <1>7
    <3>3. QED BY <1>8, <3>1, <3>2
  <2>2. ASSUME NEW j \in 1..Len(from), IsRequest(from[j]) PROVE FALSE
    <3>1. to[1].id < from[j].id /\ from[j].id <= s.latestID
      BY <1>3, <1>7, <1>8, <2>2 DEF InOrder
    <3>2. to[1].id \in Nat /\ from[j].id \in Nat
      BY <1>2, <1>7
    <3>3. QED BY <1>8, <3>1, <3>2
  <2>3. QED BY <2>1, <2>2
<1>9. Hears(s, to[1], r, from, given, gift)
  BY <1>7, <1>8 DEF Hears, LinkOK
<1>10. QED BY <1>1, <1>6, <1>9 DEF r

(* Its next packet is taken off the line from a host.                      *)
LEMMA HeadSought ==
    ASSUME NEW s, NEW to \in Seq(Packets), NEW from \in Seq(Packets), NEW given, NEW gift, from # << >>,
           LinkOK(s, to, from, given, gift)
    PROVE  /\ LinkOK(s, to, Tail(from), given, gift)
           /\ Seeks(s, Head(from), to, Tail(from), gift)
<1> DEFINE r == Tail(from)
<1>1. /\ r \in Seq(Packets) /\ Head(from) = from[1] /\ Len(from) = Len(r) + 1 /\ Len(r) \in Nat
      /\ \A i \in 1..Len(r) : r[i] = from[i + 1]
  BY TakenOff
<1> HIDE DEF r
<1>2. InOrder(to, from, s.latestID)
  BY DEF LinkOK
<1>3. (\A i \in 1..Len(r) : i + 1 \in 1..Len(from) /\ 1 < i + 1) /\ 1 \in 1..Len(from)
  BY <1>1
<1>4. InOrder(to, r, s.latestID)
  <2>1. ASSUME NEW i \in 1..Len(r), NEW j \in 1..Len(r), i < j, IsRequest(r[i]), IsRequest(r[j])
        PROVE  r[i].id < r[j].id
    <3>1. i + 1 \in 1..Len(from) /\ j + 1 \in 1..Len(from) /\ i + 1 < j + 1
      BY <1>1, <2>1
    <3>2. QED BY <1>1, <2>1, <3>1, <1>2 DEF InOrder
  <2>2. \A i \in 1..Len(to), j \in 1..Len(r) : IsAnswer(to[i]) /\ IsRequest(r[j]) => to[i].id < r[j].id
    BY <1>1, <1>2, <1>3 DEF InOrder
  <2>3. \A j \in 1..Len(r) : IsRequest(r[j]) => r[j].id <= s.latestID
    BY <1>1, <1>2, <1>3 DEF InOrder
  <2>4. QED BY <1>2, <2>1, <2>2, <2>3 DEF InOrder
<1>5. LinkOK(s, to, r, given, gift)
  <2>1. \A i \in 1..Len(r) : RequestOK(s, r[i]) /\ (~s.terminate => RequestGone(s, r[i], gift))
    BY <1>1, <1>3 DEF LinkOK
  <2>2. QED BY <1>4, <2>1 DEF LinkOK
<1>6. ASSUME IsRequest(from[1])
      PROVE  /\ \A i \in 1..Len(to) : IsAnswer(to[i]) => to[i].id < from[1].id
             /\ \A j \in 1..Len(r) : IsRequest(r[j]) => from[1].id < r[j].id
             /\ from[1].id <= s.latestID
  BY <1>1, <1>2, <1>3, <1>6 DEF InOrder
<1>7. Seeks(s, from[1], to, r, gift)
  BY <1>3, <1>6 DEF Seeks, LinkOK
<1>8. QED BY <1>1, <1>5, <1>7 DEF r

(* A packet more on a line.                                                *)
LEMMA PutOn ==
    ASSUME NEW q \in Seq(Packets), NEW p \in Packets
    PROVE  LET r == Append(q, p)
           IN  /\ r \in Seq(Packets) /\ Len(q) \in Nat /\ Len(r) = Len(q) + 1 /\ r[Len(q) + 1] = p
               /\ \A i \in 1..Len(q) : r[i] = q[i]
               /\ \A i \in 1..Len(r) : i \in 1..Len(q) \/ i = Len(q) + 1
               /\ \A i \in 1..Len(q) : q[i].id \in Nat
<1>1. /\ Append(q, p) \in Seq(Packets) /\ Len(Append(q, p)) = Len(q) + 1 /\ Append(q, p)[Len(q) + 1] = p
      /\ \A i \in 1..Len(q) : Append(q, p)[i] = q[i]
  BY AppendProperties
<1>2. Len(q) \in Nat /\ \A i \in 1..Len(q) : q[i].id \in Nat
  BY OnLine
<1>3. \A i \in 1..Len(Append(q, p)) : i \in 1..Len(q) \/ i = Len(q) + 1
  BY <1>1, <1>2
<1>4. QED BY <1>1, <1>2, <1>3

(* What is no answer and no request is nothing to the host.                *)
LEMMA MoreToHear ==
    ASSUME NEW s, NEW to \in Seq(Packets), NEW from \in Seq(Packets), NEW given, NEW gift,
           LinkOK(s, to, from, given, gift), NEW p \in Packets, ~IsAnswer(p)
    PROVE  /\ LinkOK(s, Append(to, p), from, given, gift)
           /\ \A m : Seeks(s, m, to, from, gift) => Seeks(s, m, Append(to, p), from, gift)
<1> DEFINE r == Append(to, p)
<1>1. /\ Len(to) \in Nat /\ r[Len(to) + 1] = p /\ (\A i \in 1..Len(to) : r[i] = to[i])
      /\ \A i \in 1..Len(r) : i \in 1..Len(to) \/ i = Len(to) + 1
  BY PutOn
<1> HIDE DEF r
<1>2. \A i \in 1..Len(r) : IsAnswer(r[i]) => i \in 1..Len(to) /\ r[i] = to[i]
  BY <1>1
<1>3. InOrder(to, from, s.latestID)
  BY DEF LinkOK
<1>4. InOrder(r, from, s.latestID)
  BY <1>2, <1>3 DEF InOrder
<1>5. \A i \in 1..Len(r) : AnswerOK(s, r[i], given, gift) /\ (~s.terminate => AnswerGone(s, r[i]))
  <2>1. AnswerOK(s, p, given, gift) /\ AnswerGone(s, p)
    BY DEF AnswerOK, AnswerGone, IsAnswer, Is, Confirms
  <2>2. QED BY <1>1, <2>1 DEF LinkOK
<1>6. LinkOK(s, r, from, given, gift)
  BY <1>4, <1>5 DEF LinkOK
<1>7. ASSUME NEW m, Seeks(s, m, to, from, gift) PROVE Seeks(s, m, r, from, gift)
  BY <1>2, <1>7 DEF Seeks
<1>8. QED BY <1>6, <1>7 DEF r

(* What is no request is nothing to look for an answer to.                 *)
LEMMA MoreSaid ==
    ASSUME NEW s, NEW to \in Seq(Packets), NEW from \in Seq(Packets), NEW given, NEW gift,
           LinkOK(s, to, from, given, gift), NEW p \in Packets, ~IsRequest(p)
    PROVE  /\ LinkOK(s, to, Append(from, p), given, gift)
           /\ \A m : Hears(s, m, to, from, given, gift) => Hears(s, m, to, Append(from, p), given, gift)
<1> DEFINE r == Append(from, p)
<1>1. /\ Len(from) \in Nat /\ r[Len(from) + 1] = p /\ (\A i \in 1..Len(from) : r[i] = from[i])
      /\ \A i \in 1..Len(r) : i \in 1..Len(from) \/ i = Len(from) + 1
  BY PutOn
<1> HIDE DEF r
<1>2. \A i \in 1..Len(r) : IsRequest(r[i]) => i \in 1..Len(from) /\ r[i] = from[i]
  BY <1>1
<1>3. InOrder(to, from, s.latestID)
  BY DEF LinkOK
<1>4. InOrder(to, r, s.latestID)
  BY <1>2, <1>3 DEF InOrder
<1>5. \A i \in 1..Len(r) : RequestOK(s, r[i]) /\ (~s.terminate => RequestGone(s, r[i], gift))
  <2>1. RequestOK(s, p) /\ RequestGone(s, p, gift)
    BY DEF RequestOK, RequestGone, IsRequest, Is
  <2>2. QED BY <1>1, <2>1 DEF LinkOK
<1>6. LinkOK(s, to, r, given, gift)
  BY <1>4, <1>5 DEF LinkOK
<1>7. ASSUME NEW m, Hears(s, m, to, from, given, gift) PROVE Hears(s, m, to, r, given, gift)
  BY <1>2, <1>7 DEF Hears
<1>8. QED BY <1>6, <1>7 DEF r

(* More addresses are acknowledged.                                        *)
LEMMA MoreGiven ==
    ASSUME NEW s, NEW to, NEW from, NEW given, NEW gift, LinkOK(s, to, from, given, gift),
           NEW more, given \subseteq more
    PROVE  LinkOK(s, to, from, more, gift)
BY DEF LinkOK, AnswerOK, HostOK

(* The peer answers a request of the host.                                 *)
LEMMA PeerAnswers ==
    ASSUME NEW s, NEW to \in Seq(Packets), NEW from \in Seq(Packets), NEW given, NEW gift,
           LinkOK(s, to, from, given, gift), NEW m \in Packets, Seeks(s, m, to, from, gift),
           NEW a \in Packets, Replies(gift, m, a), Is(a, "IPCP", "ConAck") => a.ip \in given
    PROVE  LinkOK(s, Append(to, a), from, given, gift)
<1> DEFINE r == Append(to, a)
           n == Len(to) + 1
<1>1. /\ Len(to) \in Nat /\ r[n] = a /\ (\A i \in 1..Len(to) : r[i] = to[i])
      /\ (\A i \in 1..Len(r) : i \in 1..Len(to) \/ i = n) /\ \A i \in 1..Len(to) : ~(n < i)
  BY PutOn
<1>2. \A i \in 1..Len(to) : i < n
  BY <1>1
<1> HIDE DEF r, n
<1>3. InOrder(to, from, s.latestID)
  BY DEF LinkOK
<1>4. /\ \A i \in 1..Len(to) : IsAnswer(to[i]) => to[i].id < a.id
      /\ \A j \in 1..Len(from) : IsRequest(from[j]) => a.id < from[j].id
      /\ a.id <= s.latestID /\ a.id = m.id /\ a.prot = m.prot
  BY DEF Seeks, Replies
<1>5. InOrder(r, from, s.latestID)
  <2>1. ASSUME NEW i \in 1..Len(r), NEW j \in 1..Len(r), i < j, IsAnswer(r[i]), IsAnswer(r[j])
        PROVE  r[i].id < r[j].id
    <3>1. CASE i \in 1..Len(to) /\ j \in 1..Len(to)
      BY <1>1, <1>3, <2>1, <3>1 DEF InOrder
    <3>2. CASE i \in 1..Len(to) /\ j = n
      BY <1>1, <1>4, <2>1, <3>2
    <3>3. i \in 1..Len(to)
      BY <1>1, <2>1 DEF n
    <3>4. QED BY <1>1, <3>1, <3>2, <3>3
  <2>2. \A i \in 1..Len(r), j \in 1..Len(from) : IsAnswer(r[i]) /\ IsRequest(from[j]) => r[i].id < from[j].id
    BY <1>1, <1>3, <1>4 DEF InOrder
  <2>3. \A i \in 1..Len(r) : IsAnswer(r[i]) => r[i].id <= s.latestID
    BY <1>1, <1>3, <1>4 DEF InOrder
  <2>4. QED BY <1>3, <2>1, <2>2, <2>3 DEF InOrder
<1>6. LcpOptions \subseteq Known
  BY DEF Known
<1>7. AnswerOK(s, a, given, gift)
  <2>1. Is(a, "LCP", "ConAck") => "pcomp" \in s.no \/ gift = 0
    BY DEF Seeks, RequestOK, Replies, Is
  <2>2. Is(a, "LCP", "ConRej") => gift # 0
    BY <1>6 DEF Seeks, RequestOK, Replies, Is
  <2>3. Is(a, "IPCP", "ConAck") => a.ip \in given \ {NoIP} /\ a.ip = m.ip /\ (gift # 0 => a.ip = gift) /\ Is(m, "IPCP", "ConReq")
    BY DEF Replies, Is
  <2>4. Confirms(s, a, "IPCP") => a.ip = s.localIP /\ (gift # 0 => a.ip = gift)
    BY <1>4, <2>3 DEF Confirms, Seeks, RequestOK
  <2>5. QED BY <2>1, <2>2, <2>3, <2>4 DEF AnswerOK
<1>8. ASSUME ~s.terminate PROVE AnswerGone(s, a)
  <2>1. RequestGone(s, m, gift) /\ HostOK(s, given, gift)
    BY <1>8 DEF Seeks, LinkOK
  <2>2. s.lcpUp \/ s.ackedUs => ~Is(a, "LCP", "ConRej")
    BY <1>7, <2>1 DEF RequestGone, Replies, Is, AnswerOK
  <2>3. s.lcpUp => ~Confirms(s, a, "LCP")
    BY <1>4, <2>1 DEF RequestGone, Replies, Is, Confirms
  <2>4. Configured(s) => ~Is(a, "IPCP", "ConNak")
    <3>1. Is(a, "IPCP", "ConNak") => Is(m, "IPCP", "ConReq") /\ (IF gift = 0 THEN m.ip = NoIP ELSE m.ip # gift)
      BY DEF Replies, Is
    <3>2. Configured(s) => (Is(m, "IPCP", "ConReq") => m.ip = s.localIP) /\ s.localIP # NoIP /\ (gift # 0 => gift = s.localIP)
      BY <2>1 DEF RequestGone, HostOK
    <3>3. QED BY <3>1, <3>2
  <2>5. QED BY <2>2, <2>3, <2>4 DEF AnswerGone
<1>9. \A i \in 1..Len(r) : AnswerOK(s, r[i], given, gift) /\ (~s.terminate => AnswerGone(s, r[i]))
  BY <1>1, <1>7, <1>8 DEF LinkOK
<1>10. LinkOK(s, r, from, given, gift)
  BY <1>5, <1>9 DEF LinkOK
<1>11. QED BY <1>10 DEF r

(* A provider that starts again has another address to give.  The request  *)
(* that makes it start is a new one of a host that has none.               *)
LEMMA GiftChanges ==
    ASSUME NEW s, NEW to \in Seq(Packets), NEW from \in Seq(Packets), NEW given, NEW gift, gift # 0,
           LinkOK(s, to, from, given, gift), NEW m \in Packets, Seeks(s, m, to, from, gift),
           Is(m, "LCP", "ConReq"), s.latestID \in Nat, NEW new, new # 0
    PROVE  LinkOK(s, to, from, given, new) /\ Seeks(s, m, to, from, new)
<1>1. \A i \in 1..Len(to) : to[i].id \in Nat
  BY OnLine
<1>2. m.id \in Nat
  BY MessageIs
<1>3. \A i \in 1..Len(to) : IsAnswer(to[i]) => to[i].id < m.id /\ m.id <= s.latestID
  BY DEF Seeks, Is, IsRequest
<1>4. \A i \in 1..Len(to) : ~Confirms(s, to[i], "IPCP")
  <2>1. SUFFICES ASSUME NEW i \in 1..Len(to), Confirms(s, to[i], "IPCP") PROVE FALSE
    OBVIOUS
  <2>2. to[i].id < m.id /\ m.id <= s.latestID /\ to[i].id = s.latestID
    BY <1>3, <2>1 DEF Confirms, Is, IsAnswer
  <2>3. QED BY <1>1, <1>2, <2>2
<1>5. ~s.terminate => ~Configured(s)
  BY DEF Seeks, RequestGone
<1>6. \A i \in 1..Len(to) : AnswerOK(s, to[i], given, new)
  BY <1>4 DEF LinkOK, AnswerOK
<1>7. ~s.terminate => /\ \A j \in 1..Len(from) : RequestGone(s, from[j], new)
                      /\ HostOK(s, given, new) /\ RequestGone(s, m, new)
  BY <1>5 DEF LinkOK, RequestGone, HostOK, Seeks
<1>8. LinkOK(s, to, from, given, new)
  BY <1>6, <1>7 DEF LinkOK
<1>9. QED BY <1>7, <1>8 DEF Seeks

(* A host that moves on leaves its line in order.                          *)
LEMMA MoveKeeps ==
    ASSUME NEW s, NEW r, s.latestID \in Nat, NEW to \in Seq(Packets), NEW from \in Seq(Packets),
           NEW given, NEW gift, LinkOK(s, to, from, given, gift), NEW m \in Packets,
           Hears(s, m, to, from, given, gift), NEW qs, Move(s, m, r, qs)
    PROVE  LinkOK(r, to, from \o qs, given, gift)
<1>1. (\A i \in 1..Len(to) : to[i].id \in Nat) /\ \A j \in 1..Len(from) : from[j].id \in Nat
  BY OnLine
<1>2. InOrder(to, from, s.latestID)
  BY DEF LinkOK
<1>3. s.no \subseteq r.no /\ (s.terminate => r.terminate)
  BY DEF Move
<1>4. ASSUME ~r.terminate, r.lcpUp \/ r.ackedUs
      PROVE  /\ \A i \in 1..Len(to) : ~Is(to[i], "LCP", "ConRej")
             /\ gift # 0 => /\ "pcomp" \in r.no
                            /\ \A j \in 1..Len(from) : Is(from[j], "LCP", "ConReq") => "pcomp" \notin from[j].ops
  <2>1. CASE s.lcpUp \/ s.ackedUs
    BY <1>3, <1>4, <2>1 DEF LinkOK, AnswerGone, RequestGone, HostOK
  <2>2. CASE Confirms(s, m, "LCP")
    <3>0. IsAnswer(m) /\ m.id = s.latestID
      BY <2>2 DEF Confirms, Is, IsAnswer
    <3>1. (\A i \in 1..Len(to) : ~IsAnswer(to[i])) /\ \A j \in 1..Len(from) : ~IsRequest(from[j])
      BY <3>0 DEF Hears, IsAnswer
    <3>2. gift # 0 => "pcomp" \in s.no
      BY <2>2 DEF Hears, AnswerOK, Confirms
    <3>3. QED BY <1>3, <3>1, <3>2 DEF Is, IsAnswer, IsRequest
  <2>3. QED BY <1>4, <2>1, <2>2 DEF Move
<1>5. ASSUME ~r.terminate, Configured(r)
      PROVE  /\ r.localIP \in given \ {NoIP} /\ (gift # 0 => gift = r.localIP)
             /\ \A i \in 1..Len(to) : ~Is(to[i], "IPCP", "ConNak")
             /\ \A j \in 1..Len(from) : /\ Is(from[j], "IPCP", "ConReq") => from[j].ip = r.localIP
                                        /\ gift # 0 => ~Is(from[j], "LCP", "ConReq")
  <2>1. CASE Configured(s) /\ r.localIP = s.localIP
    BY <1>3, <1>5, <2>1 DEF LinkOK, AnswerGone, RequestGone, HostOK
  <2>2. CASE qs = << >> /\ Confirms(s, m, "IPCP")
    <3>0. IsAnswer(m) /\ m.id = s.latestID
      BY <2>2 DEF Confirms, Is, IsAnswer
    <3>1. (\A i \in 1..Len(to) : ~IsAnswer(to[i])) /\ \A j \in 1..Len(from) : ~IsRequest(from[j])
      BY <3>0 DEF Hears, IsAnswer
    <3>2. s.localIP \in given \ {NoIP} /\ (gift # 0 => gift = s.localIP)
      BY <2>2 DEF Hears, AnswerOK, Confirms
    <3>3. r.localIP = s.localIP
      BY <2>2, OneIsSome DEF Move, MakesRequests
    <3>4. QED BY <3>1, <3>2, <3>3 DEF Is, IsAnswer, IsRequest
  <2>3. QED BY <1>5, <2>1, <2>2 DEF Move
<1>6. ~r.terminate => UpWith(r) /\ (r.lcpUp => (s.lcpUp \/ qs # << >>) /\ (r.authUp \/ ~r.ackedUs))
  BY DEF Move
<1>7. CASE qs = << >> /\ r.latestID = s.latestID /\ r.localIP = s.localIP
  <2>1. from \o qs = from
    BY <1>7, ConcatEmptySeq
  <2>2. \A i \in 1..Len(to) : AnswerOK(r, to[i], given, gift)
    BY <1>3, <1>7 DEF LinkOK, AnswerOK, Confirms
  <2>3. \A j \in 1..Len(from) : RequestOK(r, from[j])
    BY <1>3, <1>7 DEF LinkOK, RequestOK
  <2>4. ASSUME ~r.terminate
        PROVE  /\ \A i \in 1..Len(to) : AnswerGone(r, to[i])
               /\ \A j \in 1..Len(from) : RequestGone(r, from[j], gift)
               /\ HostOK(r, given, gift)
    <3>1. r.lcpUp => s.lcpUp
      BY <1>6, <1>7, <2>4
    <3>2. \A i \in 1..Len(to) : s.lcpUp => ~Confirms(s, to[i], "LCP")
      BY <1>3, <2>4 DEF LinkOK, AnswerGone
    <3>3. \A j \in 1..Len(from) : s.lcpUp => (Is(from[j], "LCP", "ConReq") => from[j].id # s.latestID)
      BY <1>3, <2>4 DEF LinkOK, RequestGone
    <3>4. s.lcpUp => s.latestID > 0
      BY <1>3, <2>4 DEF LinkOK, HostOK
    <3>5. \A i \in 1..Len(to) : AnswerGone(r, to[i])
      BY <1>4, <1>5, <1>7, <2>4, <3>1, <3>2 DEF AnswerGone, Confirms
    <3>6. ASSUME NEW j \in 1..Len(from) PROVE RequestGone(r, from[j], gift)
      <4>1. r.lcpUp \/ r.ackedUs => (gift # 0 /\ Is(from[j], "LCP", "ConReq") => "pcomp" \notin from[j].ops)
        BY <1>4, <2>4
      <4>2. r.lcpUp => (Is(from[j], "LCP", "ConReq") => from[j].id # r.latestID)
        BY <1>7, <3>1, <3>3
      <4>3. Configured(r) => /\ Is(from[j], "IPCP", "ConReq") => from[j].ip = r.localIP
                             /\ gift # 0 => ~Is(from[j], "LCP", "ConReq")
        BY <1>5, <2>4 DEF Configured
      <4>4. QED BY <4>1, <4>2, <4>3 DEF RequestGone, Configured
    <3>7. HostOK(r, given, gift)
      BY <1>4, <1>5, <1>6, <1>7, <2>4, <3>1, <3>4 DEF HostOK
    <3>8. QED BY <3>5, <3>6, <3>7
  <2>5. QED BY <1>2, <1>7, <2>1, <2>2, <2>3, <2>4 DEF LinkOK
<1>8. ASSUME NEW q \in Packets, qs = <<q>>, IsRequest(q), q.id = r.latestID, r.latestID = s.latestID + 1,
             Is(q, "IPCP", "ConReq") => q.ip = r.localIP,
             Is(q, "LCP", "ConReq") => q.ops = LcpOptions \ r.no /\ (r.terminate \/ ~r.lcpUp)
      PROVE  LinkOK(r, to, from \o qs, given, gift)
  <2> DEFINE f == Append(from, q)
             n == Len(from) + 1
  <2>1. from \o qs = f
    BY <1>8, AppendIsConcat
  <2>2. /\ Len(from) \in Nat /\ f[n] = q /\ (\A i \in 1..Len(from) : f[i] = from[i])
        /\ (\A i \in 1..Len(f) : i \in 1..Len(from) \/ i = n)
    BY PutOn
  <2>3. (\A i \in 1..Len(from) : ~(n < i)) /\ ~(n < n)
    BY <2>2
  <2> HIDE DEF f, n
  <2>4. /\ \A i \in 1..Len(to) : IsAnswer(to[i]) => to[i].id < r.latestID
        /\ \A j \in 1..Len(from) : IsRequest(from[j]) => from[j].id < r.latestID
    BY <1>1, <1>2, <1>8 DEF InOrder
  <2>5. InOrder(to, f, r.latestID)
    <3>1. \A i, j \in 1..Len(to) : i < j /\ IsAnswer(to[i]) /\ IsAnswer(to[j]) => to[i].id < to[j].id
      BY <1>2 DEF InOrder
    <3>2. ASSUME NEW i \in 1..Len(f), NEW j \in 1..Len(f), i < j, IsRequest(f[i]), IsRequest(f[j])
          PROVE  f[i].id < f[j].id
      <4>1. i \in 1..Len(from)
        BY <2>2, <2>3, <3>2
      <4>2. CASE j \in 1..Len(from)
        BY <1>2, <2>2, <3>2, <4>1, <4>2 DEF InOrder
      <4>3. CASE j = n
        BY SMTT(40), <1>8, <2>2, <2>4, <3>2, <4>1, <4>3
      <4>4. QED BY <2>2, <4>2, <4>3
    <3>3. \A i \in 1..Len(to), j \in 1..Len(f) : IsAnswer(to[i]) /\ IsRequest(f[j]) => to[i].id < f[j].id
      BY <1>2, <1>8, <2>2, <2>4 DEF InOrder
    <3>4. \A i \in 1..Len(to) : IsAnswer(to[i]) => to[i].id <= r.latestID
      BY <1>1, <1>8, <2>4
    <3>5. \A j \in 1..Len(f) : IsRequest(f[j]) => f[j].id <= r.latestID
      BY <1>1, <1>8, <2>2, <2>4
    <3>6. QED BY <3>1, <3>2, <3>3, <3>4, <3>5 DEF InOrder
  <2>6. \A i \in 1..Len(to) : ~Confirms(r, to[i], "LCP") /\ ~Confirms(r, to[i], "IPCP")
    <3>1. SUFFICES ASSUME NEW i \in 1..Len(to), IsAnswer(to[i]), to[i].id = r.latestID PROVE FALSE
      BY DEF Confirms, Is, IsAnswer
    <3>2. to[i].id < r.latestID /\ to[i].id \in Nat
      BY <1>1, <2>4, <3>1
    <3>3. QED BY <3>1, <3>2
  <2>7. \A j \in 1..Len(from) : IsRequest(from[j]) => from[j].id # r.latestID
    BY <1>1, <1>8, <2>4
  <2>8. \A i \in 1..Len(to) : AnswerOK(r, to[i], given, gift)
    BY <1>3, <2>6 DEF LinkOK, AnswerOK
  <2>9. ASSUME NEW j \in 1..Len(f) PROVE RequestOK(r, f[j])
    <3>1. CASE j \in 1..Len(from)
      <4>1. RequestOK(s, from[j]) /\ f[j] = from[j] /\ (IsRequest(from[j]) => from[j].id # r.latestID)
        BY <2>2, <2>7, <3>1 DEF LinkOK
      <4>2. QED BY <1>3, <4>1 DEF RequestOK, Is, IsRequest
    <3>2. CASE j = n
      <4>1. f[j] = q /\ "pcomp" \in LcpOptions
        BY <2>2, <3>2 DEF LcpOptions
      <4>2. QED BY <1>8, <4>1 DEF RequestOK
    <3>3. QED BY <2>2, <3>1, <3>2
  <2>10. ASSUME ~r.terminate
         PROVE  /\ \A i \in 1..Len(to) : AnswerGone(r, to[i])
                /\ \A j \in 1..Len(f) : RequestGone(r, f[j], gift)
                /\ HostOK(r, given, gift)
    <3>1. \A i \in 1..Len(to) : AnswerGone(r, to[i])
      BY <1>4, <1>5, <2>6, <2>10 DEF AnswerGone
    <3>2. ASSUME NEW j \in 1..Len(f) PROVE RequestGone(r, f[j], gift)
      <4>1. CASE j \in 1..Len(from)
        <5>1. f[j] = from[j] /\ (IsRequest(from[j]) => from[j].id # r.latestID)
          BY <2>2, <2>7, <4>1
        <5>2. r.lcpUp \/ r.ackedUs => (gift # 0 /\ Is(from[j], "LCP", "ConReq") => "pcomp" \notin from[j].ops)
          BY <1>4, <2>10, <4>1
        <5>3. Is(from[j], "LCP", "ConReq") => from[j].id # r.latestID
          BY <5>1 DEF Is, IsRequest
        <5>4. Configured(r) => /\ Is(from[j], "IPCP", "ConReq") => from[j].ip = r.localIP
                               /\ gift # 0 => ~Is(from[j], "LCP", "ConReq")
          BY <1>5, <2>10, <4>1 DEF Configured
        <5>5. QED BY <5>1, <5>2, <5>3, <5>4 DEF RequestGone, Configured
      <4>2. CASE j = n
        <5>1. f[j] = q
          BY <2>2, <4>2
        <5>2. r.lcpUp => ~Is(q, "LCP", "ConReq")
          BY <1>8, <2>10
        <5>3. (r.lcpUp \/ r.ackedUs) /\ gift # 0 /\ Is(q, "LCP", "ConReq") => "pcomp" \notin q.ops
          BY <1>4, <1>8, <2>10
        <5>4. QED BY <1>8, <5>1, <5>2, <5>3 DEF RequestGone, Configured
      <4>3. QED BY <2>2, <4>1, <4>2
    <3>3. r.latestID > 0
      BY <1>8
    <3>4. HostOK(r, given, gift)
      BY <1>4, <1>5, <1>6, <2>10, <3>3 DEF HostOK
    <3>5. QED BY <3>1, <3>2, <3>4
  <2>11. QED BY <2>1, <2>5, <2>8, <2>9, <2>10 DEF LinkOK
<1>9. QED BY <1>7, <1>8 DEF Move, MakesRequests

-----------------------------------------------------------------------------
(* What the handlers read of s and t is the same.                          *)
Alike(s, t) == Kept(s, t) /\ t.authUp = s.authUp /\ t.latestID = s.latestID

(* A host only looks at its own side of the link.                          *)
LEMMA AlikeLinks ==
    ASSUME NEW s, NEW t, Alike(s, t), NEW to, NEW from, NEW given, NEW gift, LinkOK(s, to, from, given, gift)
    PROVE  LinkOK(t, to, from, given, gift)
<1>1. InOrder(to, from, t.latestID)
  BY DEF LinkOK, Alike
<1>2. \A i \in 1..Len(to) : AnswerOK(t, to[i], given, gift)
  BY DEF LinkOK, Alike, Kept, AnswerOK, Confirms
<1>3. \A j \in 1..Len(from) : RequestOK(t, from[j])
  BY DEF LinkOK, Alike, Kept, RequestOK
<1>4. ASSUME ~t.terminate
      PROVE  /\ \A i \in 1..Len(to) : AnswerGone(t, to[i])
             /\ \A j \in 1..Len(from) : RequestGone(t, from[j], gift)
             /\ HostOK(t, given, gift)
  <2>1. ~s.terminate
    BY <1>4 DEF Alike, Kept
  <2>2. \A i \in 1..Len(to) : AnswerGone(t, to[i])
    BY <2>1 DEF LinkOK, Alike, Kept, AnswerGone, Confirms, Configured
  <2>3. \A j \in 1..Len(from) : RequestGone(t, from[j], gift)
    BY <2>1 DEF LinkOK, Alike, Kept, RequestGone, Configured
  <2>4. HostOK(t, given, gift)
    BY <2>1 DEF LinkOK, Alike, Kept, HostOK, Configured, UpWith
  <2>5. QED BY <2>2, <2>3, <2>4
<1>5. QED BY <1>1, <1>2, <1>3, <1>4 DEF LinkOK

(* What a host hears it can act on.                                        *)
LEMMA HeardSound ==
    ASSUME NEW s, NEW to, NEW from, NEW given, NEW gift, LinkOK(s, to, from, given, gift),
           NEW m, Hears(s, m, to, from, given, gift)
    PROVE  Sound(s, m)
BY DEF LinkOK, Hears, Sound, AnswerGone, HostOK

(* A host that hears nothing hears a packet that says nothing.             *)
LEMMA SilenceIs ==
    \E m \in Packets :
       /\ \A a : ~Replies(0, m, a)
       /\ \A s, to, from, given, gift : Hears(s, m, to, from, given, gift)
<1>1. NoIP \in IPs /\ {} \in SUBSET Options /\ "LCP" \in Protocols /\ "EchoRep" \in Codes /\ 0 \in Nat
  BY DEF IPs, Protocols, Codes
<1>2. PICK m \in Packets : m.code = "EchoRep"
  BY <1>1, PacketIs
<1>3. /\ \A a : ~Replies(0, m, a)
      /\ \A s, to, from, given, gift : Hears(s, m, to, from, given, gift)
  <2>1. ~IsRequest(m) /\ ~IsAnswer(m) /\ \A c \in {"ConAck", "ConRej", "ConNak"} : \A prot : ~Is(m, prot, c)
    BY <1>2 DEF IsRequest, IsAnswer, Is
  <2>2. \A a : ~Replies(0, m, a)
    BY <2>1 DEF Replies
  <2>3. ASSUME NEW s, NEW given, NEW gift PROVE AnswerOK(s, m, given, gift) /\ AnswerGone(s, m)
    BY <2>1 DEF AnswerOK, AnswerGone, Confirms
  <2>4. QED BY <2>1, <2>2, <2>3 DEF Hears
<1>4. QED BY <1>2, <1>3

-----------------------------------------------------------------------------
(* The provider.                                                           *)
Isps ==
    [mine : {"chap", "pap", "acked"}, given : BOOLEAN, authed : BOOLEAN, ipmine : BOOLEAN,
     naked : BOOLEAN, gift : Gifts]

(* The request of a provider answers nothing.                              *)
LEMMA IspRequestIs ==
    ASSUME NEW i \in Isps
    PROVE  IspRequest(i) \in Packets /\ ~IsAnswer(IspRequest(i))
<1>1. /\ {"async", "chap"} \in SUBSET Options /\ {"async", "pap"} \in SUBSET Options /\ {} \in SUBSET Options
      /\ NoIP \in IPs /\ ProviderIP \in IPs /\ 0 \in Nat
  BY DEF Options, IPs, Known, LcpOptions
<1>2. /\ "LCP" \in Protocols /\ "IPCP" \in Protocols /\ "ConReq" \in Codes
  BY DEF Protocols, Codes
<1>3. \E p \in Protocols, ops \in SUBSET Options, ip \in IPs : IspRequest(i) = Packet(p, "ConReq", 0, ops, ip)
  BY <1>1, <1>2 DEF IspRequest
<1>4. QED BY <1>1, <1>2, <1>3, PacketIs DEF IsAnswer

(* What the provider says of its own accord, and what it answers.          *)
Says(i, m, j, out) ==
    /\ j \in Isps /\ (j.gift # i.gift => Is(m, "LCP", "ConReq"))
    /\ \E os, xs \in Seq(Packets) :
         /\ out = os \o xs
         /\ os = << >> \/ \E o \in Packets : os = <<o>> /\ ~IsAnswer(o)
         /\ xs = << >> \/ \E x \in Packets : xs = <<x>> /\ Replies(j.gift, m, x)

(* A provider says nothing, its request, an answer, or both.               *)
LEMMA SaysIs ==
    ASSUME NEW i \in Isps, NEW m \in Packets, NEW j \in Isps, j.gift # i.gift => Is(m, "LCP", "ConReq"),
           NEW o \in Packets, ~IsAnswer(o), NEW x \in Packets
    PROVE  /\ Says(i, m, j, << >>) /\ Says(i, m, j, <<o>>)
           /\ Replies(j.gift, m, x) => Says(i, m, j, <<x>>) /\ Says(i, m, j, <<o>> \o <<x>>)
<1>1. /\ << >> \in Seq(Packets) /\ <<o>> \in Seq(Packets) /\ <<x>> \in Seq(Packets)
      /\ << >> \o << >> = << >> /\ <<o>> \o << >> = <<o>> /\ << >> \o <<x>> = <<x>>
  OBVIOUS
<1>2. Says(i, m, j, << >>) /\ Says(i, m, j, <<o>>)
  BY <1>1 DEF Says
<1>3. ASSUME Replies(j.gift, m, x) PROVE Says(i, m, j, <<x>>) /\ Says(i, m, j, <<o>> \o <<x>>)
  BY <1>1, <1>3 DEF Says
<1>4. QED BY <1>2, <1>3

(* Each answer of the provider, with its own request in front or not.      *)
LEMMA IspSays ==
    ASSUME NEW i \in Isps, NEW m \in Packets, m.prot = "PAP" => IsRequest(m), NEW a \in IspAnswers(i, m)
    PROVE  Says(i, m, a[1], a[2])
<1>1. /\ m.prot \in Protocols /\ m.id \in Nat /\ m.ops \in SUBSET Options /\ m.ip \in IPs
      /\ {} \in SUBSET Options /\ {"pcomp"} \in SUBSET Options /\ NoIP \in IPs
      /\ i.gift \in Gifts /\ i.gift # 0 /\ i.gift \in IPs /\ i.gift # ProviderIP
  BY MessageIs DEF IPs, Options, Known, LcpOptions, Isps, Gifts, ProviderIP
<1>2. \E o \in Packets : ~IsAnswer(o)
  BY IspRequestIs
<1>3. ASSUME NEW c \in {"ConAck", "ConNak", "ConRej", "TerAck"}, NEW ops \in SUBSET Options, NEW ip \in IPs,
             c = "ConNak" => ip # ProviderIP
      PROVE  LET x == Packet(m.prot, c, m.id, ops, ip)
             IN  /\ x \in Packets /\ x.code = c /\ x.id = m.id /\ x.prot = m.prot /\ x.ip = ip /\ x.ops = ops
                 /\ IsAnswer(x)
  <2>1. c \in Codes
    BY DEF Codes
  <2>2. QED BY <1>1, <1>3, <2>1, PacketIs DEF IsAnswer
<1>4. CASE Is(m, "LCP", "ConReq")
  <2> DEFINE again == IF IspUp(i)
                      THEN [NewIsp EXCEPT !.mine = "pap", !.naked = i.naked, !.gift = 5 - i.gift]
                      ELSE i
             own == IF again.mine = "acked" THEN << >> ELSE <<IspRequest(again)>>
  <2>1. again \in Isps
    <3> DEFINE new == [NewIsp EXCEPT !.mine = "pap", !.naked = i.naked, !.gift = 5 - i.gift]
    <3>1. i.naked \in BOOLEAN /\ 5 - i.gift \in Gifts
      <4>1. i.gift = 2 \/ i.gift = 3
        BY <1>1 DEF Gifts
      <4>2. QED BY <4>1 DEF Isps, Gifts
    <3>2. new \in Isps
      BY <3>1 DEF Isps, NewIsp
    <3>3. again = IF IspUp(i) THEN new ELSE i
      OBVIOUS
    <3> HIDE DEF new, again
    <3>4. QED BY <3>2, <3>3
  <2>2. again.gift # 0
    BY <2>1 DEF Isps, Gifts
  <2> DEFINE yes == [again EXCEPT !.given = TRUE]
             rej == Packet(m.prot, "ConRej", m.id, {"pcomp"}, NoIP)
             ack == Packet(m.prot, "ConAck", m.id, m.ops, NoIP)
  <2>3. \/ "pcomp" \in m.ops /\ a = <<again, own \o <<rej>> >>
        \/ "pcomp" \notin m.ops /\ a = <<yes, own \o <<ack>> >>
    BY <1>4 DEF IspAnswers, Is
  <2>4. own = << >> \/ \E o \in Packets : own = <<o>> /\ ~IsAnswer(o)
    <3> HIDE DEF again
    <3>1. QED BY <2>1, IspRequestIs
  <2> HIDE DEF again, own
  <2>5. yes \in Isps /\ yes.gift = again.gift
    BY <2>1 DEF Isps
  <2>6. rej \in Packets /\ rej.code = "ConRej" /\ rej.id = m.id /\ rej.prot = m.prot /\ IsAnswer(rej)
    BY <1>1, <1>3
  <2>7. ack \in Packets /\ ack.code = "ConAck" /\ ack.id = m.id /\ ack.prot = m.prot /\ IsAnswer(ack)
    BY <1>1, <1>3
  <2> HIDE DEF yes, rej, ack
  <2>8. ASSUME NEW j \in Isps, NEW x \in Packets, Replies(j.gift, m, x), a = <<j, own \o <<x>> >>
        PROVE  Says(i, m, a[1], a[2])
    <3>1. a[1] = j /\ a[2] = own \o <<x>> /\ << >> \o <<x>> = <<x>>
      BY <2>8
    <3>2. CASE own = << >>
      BY <1>2, <1>4, <2>8, <3>1, <3>2, SaysIs
    <3>3. CASE own # << >>
      BY <1>4, <2>4, <2>8, <3>1, <3>3, SaysIs
    <3>4. QED BY <3>2, <3>3
  <2>9. m.prot = "LCP" /\ m.code = "ConReq"
    BY <1>4 DEF Is
  <2>10. CASE "pcomp" \in m.ops
    <3>1. Replies(again.gift, m, rej)
      BY <2>2, <2>6, <2>9, <2>10 DEF Replies, Is, IsRequest
    <3>2. QED BY <2>1, <2>3, <2>6, <2>8, <2>10, <3>1
  <2>11. CASE "pcomp" \notin m.ops
    <3>1. Replies(yes.gift, m, ack)
      BY <2>2, <2>5, <2>7, <2>9, <2>11 DEF Replies, Is, IsRequest
    <3>2. QED BY <2>3, <2>5, <2>7, <2>8, <2>11, <3>1
  <2>12. QED BY <2>10, <2>11
<1>5. ASSUME NEW j \in Isps, j.gift = i.gift, a = <<j, << >> >> PROVE Says(i, m, a[1], a[2])
  <2>1. a[1] = j /\ a[2] = << >>
    BY <1>5
  <2>2. QED BY <1>2, <1>5, <2>1, SaysIs
<1>6. ASSUME NEW j \in Isps, j.gift = i.gift, NEW o \in Packets, ~IsAnswer(o), a = <<j, <<o>> >>
      PROVE  Says(i, m, a[1], a[2])
  <2>1. a[1] = j /\ a[2] = <<o>>
    BY <1>6
  <2>2. QED BY <1>6, <2>1, SaysIs
<1>7. ASSUME NEW j \in Isps, j.gift = i.gift, NEW x \in Packets, Replies(i.gift, m, x), a = <<j, <<x>> >>
      PROVE  Says(i, m, a[1], a[2])
  <2>1. a[1] = j /\ a[2] = <<x>>
    BY <1>7
  <2>2. QED BY <1>2, <1>7, <2>1, SaysIs
<1>8. CASE Is(m, "LCP", "ConAck")
  <2> DEFINE j == [i EXCEPT !.mine = "acked"]
  <2>1. j \in Isps /\ j.gift = i.gift
    BY DEF Isps
  <2>2. a = <<j, << >> >>
    BY <1>8 DEF IspAnswers, Is
  <2>3. QED BY <1>5, <2>1, <2>2
<1>9. CASE Is(m, "LCP", "ConRej")
  <2> DEFINE j == [i EXCEPT !.mine = "pap"]
  <2>1. j \in Isps /\ j.gift = i.gift
    BY DEF Isps
  <2>2. a = <<j, <<IspRequest(j)>> >>
    BY <1>9 DEF IspAnswers, Is
  <2> HIDE DEF j
  <2>3. QED BY <1>6, <2>1, <2>2, IspRequestIs
<1>10. CASE Is(m, "LCP", "TerReq")
  <2> DEFINE x == Packet(m.prot, "TerAck", m.id, {}, NoIP)
  <2>1. x \in Packets /\ x.code = "TerAck" /\ x.id = m.id /\ x.prot = m.prot /\ IsAnswer(x)
    BY <1>1, <1>3
  <2>2. a = <<i, <<x>> >>
    BY <1>10 DEF IspAnswers, Is
  <2> HIDE DEF x
  <2>3. Replies(i.gift, m, x)
    BY <1>1, <1>10, <2>1 DEF Replies, Is, IsRequest
  <2>4. QED BY <1>7, <2>1, <2>2, <2>3
<1>11. CASE m.prot = "PAP" /\ IspUp(i)
  <2> DEFINE x == Packet(m.prot, "ConAck", m.id, {}, NoIP)
             y == Packet(m.prot, "ConNak", m.id, {}, NoIP)
             j == [i EXCEPT !.authed = TRUE]
             k == [i EXCEPT !.naked = TRUE]
  <2>1. x \in Packets /\ x.code = "ConAck" /\ x.id = m.id /\ x.prot = m.prot /\ IsAnswer(x)
    BY <1>1, <1>3
  <2>2. NoIP # ProviderIP
    BY DEF NoIP, ProviderIP
  <2>3. y \in Packets /\ y.code = "ConNak" /\ y.id = m.id /\ y.prot = m.prot /\ IsAnswer(y)
    BY <1>1, <1>3, <2>2
  <2>4. j \in Isps /\ j.gift = i.gift /\ k \in Isps /\ k.gift = i.gift
    BY DEF Isps
  <2>5. a = <<j, <<x>> >> \/ a = <<k, <<y>> >>
    BY <1>11 DEF IspAnswers
  <2> HIDE DEF x, y, j, k
  <2>6. Replies(i.gift, m, x) /\ Replies(i.gift, m, y)
    BY <1>1, <1>11, <2>1, <2>3 DEF Replies, Is
  <2>7. QED BY <1>7, <2>1, <2>3, <2>4, <2>5, <2>6
<1>12. CASE Is(m, "IPCP", "ConReq") /\ i.authed
  <2> DEFINE x == Packet(m.prot, "ConRej", m.id, m.ops, NoIP)
             y == Packet(m.prot, "ConNak", m.id, {}, i.gift)
             z == Packet(m.prot, "ConAck", m.id, {}, m.ip)
  <2>1. x \in Packets /\ x.code = "ConRej" /\ x.id = m.id /\ x.prot = m.prot /\ IsAnswer(x)
    BY <1>1, <1>3
  <2>2. y \in Packets /\ y.code = "ConNak" /\ y.id = m.id /\ y.prot = m.prot /\ IsAnswer(y)
    BY <1>1, <1>3
  <2>3. z \in Packets /\ z.code = "ConAck" /\ z.id = m.id /\ z.prot = m.prot /\ z.ip = m.ip /\ IsAnswer(z)
    BY <1>1, <1>3
  <2>4. \/ a = <<i, <<x>> >>
        \/ m.ip # i.gift /\ a = <<i, <<y>> >>
        \/ m.ip = i.gift /\ a = <<i, <<z>> >>
    <3>1. IspAnswers(i, m) = IF m.ops # {} THEN {<<i, <<x>> >>}
                             ELSE IF m.ip # i.gift THEN {<<i, <<y>> >>} ELSE {<<i, <<z>> >>}
      BY <1>12 DEF IspAnswers, Is
    <3> HIDE DEF x, y, z
    <3>2. a \in IspAnswers(i, m)
      OBVIOUS
    <3>3. CASE m.ops # {}
      BY <3>1, <3>2, <3>3
    <3>4. CASE m.ops = {} /\ m.ip # i.gift
      BY <3>1, <3>2, <3>4
    <3>5. CASE m.ops = {} /\ m.ip = i.gift
      BY <3>1, <3>2, <3>5
    <3>6. QED BY <3>3, <3>4, <3>5
  <2> HIDE DEF x, y, z
  <2>5. m.prot = "IPCP" /\ m.code = "ConReq" /\ NoIP = 0
    BY <1>12 DEF Is, NoIP
  <2>6. CASE a = <<i, <<x>> >>
    <3>1. Replies(i.gift, m, x)
      BY <1>1, <2>1, <2>5 DEF Replies, Is, IsRequest
    <3>2. QED BY <1>7, <2>1, <2>6, <3>1
  <2>7. CASE m.ip # i.gift /\ a = <<i, <<y>> >>
    <3>1. Replies(i.gift, m, y)
      BY <1>1, <2>2, <2>5, <2>7 DEF Replies, Is, IsRequest
    <3>2. QED BY <1>7, <2>2, <2>7, <3>1
  <2>8. CASE m.ip = i.gift /\ a = <<i, <<z>> >>
    <3>1. Replies(i.gift, m, z)
      BY <1>1, <2>3, <2>5, <2>8 DEF Replies, Is, IsRequest
    <3>2. QED BY <1>7, <2>3, <2>8, <3>1
  <2>9. QED BY <2>4, <2>6, <2>7, <2>8
<1>13. CASE Is(m, "IPCP", "ConAck")
  <2> DEFINE j == [i EXCEPT !.ipmine = TRUE]
  <2>1. j \in Isps /\ j.gift = i.gift
    BY DEF Isps
  <2>2. a = <<j, << >> >>
    BY <1>13 DEF IspAnswers, Is
  <2>3. QED BY <1>5, <2>1, <2>2
<1>14. CASE /\ ~(m.prot = "LCP" /\ m.code \in {"ConReq", "ConAck", "ConRej", "TerReq"})
            /\ ~(m.prot = "PAP" /\ IspUp(i)) /\ ~(m.prot = "IPCP" /\ m.code = "ConReq" /\ i.authed)
            /\ ~(m.prot = "IPCP" /\ m.code = "ConAck")
  <2>1. a = <<i, << >> >>
    BY <1>14 DEF IspAnswers
  <2>2. QED BY <1>5, <2>1
<1>15. QED BY <1>4, <1>8, <1>9, <1>10, <1>11, <1>12, <1>13, <1>14 DEF Is

-----------------------------------------------------------------------------
(* The line has two ends, and one of them at least runs ppp.c.             *)
Paired == \E x \in PppHosts : \E y \in PppHosts \cup {Provider} : x # y /\ ends = {x, y}

(* Each end of the line is the other one of the other.                     *)
LEMMA OtherEnd ==
    ASSUME Paired, NEW e \in ends
    PROVE  /\ Other(e) \in ends /\ Other(e) # e /\ Other(Other(e)) = e
           /\ \A f \in ends : f = e \/ f = Other(e)
           /\ e \in PppHosts \cup {Provider}
           /\ e = Provider => Other(e) \in PppHosts
<1>1. PICK x \in PppHosts, y \in PppHosts \cup {Provider} : x # y /\ ends = {x, y}
  BY DEF Paired
<1>2. Other(x) = y
  <2>1. Other(x) = CHOOSE f \in {x, y} : f # x
    BY <1>1 DEF Other
  <2>2. \A f \in {x, y} : f # x <=> f = y
    BY <1>1
  <2>3. QED BY <2>1, <2>2
<1>3. Other(y) = x
  <2>1. Other(y) = CHOOSE f \in {x, y} : f # y
    BY <1>1 DEF Other
  <2>2. \A f \in {x, y} : f # y <=> f = x
    BY <1>1
  <2>3. QED BY <2>1, <2>2
<1>4. Provider \notin PppHosts
  BY PppAssumption
<1>5. QED BY <1>1, <1>2, <1>3, <1>4

(* A provider is only asked for a password, never told one.                *)
OnlyAsked(q) == \A j \in 1..Len(q) : q[j].prot = "PAP" => IsRequest(q[j])

GiftTo(h) == IF Other(h) = Provider THEN isp.gift ELSE 0

(* The invariant: what every host knows agrees with the frames under way.  *)
PppInv ==
    /\ PppTypeOK
    /\ Paired
    /\ isp \in Isps
    /\ line \in [PppHosts \cup {Provider} -> Seq(Packets)]
    /\ OnlyAsked(line[Provider])
    /\ \A h \in Hosts : LinkOK(host[h], line[h], line[Other(h)], granted[h], GiftTo(h))

(* The line is empty and no host has asked for anything yet.               *)
LEMMA PppStarts ==
    PppInit => PppInv
<1> SUFFICES ASSUME PppInit PROVE PppInv
  OBVIOUS
<1>1. PICK x, y : x # y /\ PppHosts = {x, y}
  <2>1. IsFiniteSet(PppHosts) /\ Cardinality(PppHosts) = 2
    BY PppAssumption
  <2>2. PICK x : x \in PppHosts
    BY <2>1, FS_EmptySet
  <2>3. IsFiniteSet(PppHosts \ {x}) /\ Cardinality(PppHosts \ {x}) = 1
    BY <2>1, <2>2, FS_RemoveElement
  <2>4. PICK y : PppHosts \ {x} = {y}
    BY <2>3, FS_Singleton
  <2>5. QED BY <2>2, <2>4
<1>2. Provider \notin PppHosts
  BY PppAssumption
<1>3. Paired
  <2>1. CASE ends = PppHosts
    BY <1>1, <2>1 DEF Paired
  <2>2. CASE ends = {CHOOSE h \in PppHosts : TRUE, Provider}
    <3>1. (CHOOSE h \in PppHosts : TRUE) \in PppHosts
      BY <1>1
    <3>2. QED BY <1>2, <2>2, <3>1 DEF Paired
  <2>3. QED BY <2>1, <2>2 DEF PppInit
<1>4. ends \subseteq PppHosts \cup {Provider}
  BY <1>3 DEF Paired
<1>5. Fresh \in Globals
  <2>1. MaxTrans \in 0..MaxTrans /\ 0 \in 0..MaxID
    BY PppAssumption
  <2>2. QED BY <2>1 DEF Fresh, Globals
<1>6. host \in [PppHosts -> Globals] /\ \A h \in PppHosts : host[h] = Fresh
  BY <1>5 DEF PppInit
<1>7. trouble \in 0..MaxTrouble
  BY PppAssumption DEF PppInit
<1>8. /\ line \in [PppHosts \cup {Provider} -> Seq(Packets)]
      /\ \A e \in PppHosts \cup {Provider} : line[e] = << >> /\ Len(line[e]) = 0
  BY EmptySeq DEF PppInit
<1>9. PppTypeOK
  <2>1. \A e \in ends : Len(line[e]) <= MaxLine
    BY <1>4, <1>8, PppAssumption
  <2>2. QED BY <1>4, <1>6, <1>7, <2>1 DEF PppTypeOK
<1>10. isp \in Isps
  BY DEF PppInit, NewIsp, Isps, Gifts
<1>11. ASSUME NEW h \in Hosts PROVE LinkOK(host[h], line[h], line[Other(h)], granted[h], GiftTo(h))
  <2>1. Other(h) \in ends /\ h \in PppHosts /\ h \in ends
    BY <1>3, OtherEnd DEF Hosts
  <2>2. Len(line[h]) = 0 /\ Len(line[Other(h)]) = 0 /\ 1..0 = {}
    BY <1>4, <1>8, <2>1
  <2>3. InOrder(line[h], line[Other(h)], Fresh.latestID)
    BY <2>2 DEF InOrder
  <2>4. ~Fresh.lcpUp /\ ~Fresh.ackedUs /\ ~Fresh.ipUp
    BY DEF Fresh
  <2>5. HostOK(Fresh, granted[h], GiftTo(h))
    BY <2>4 DEF HostOK, UpWith, Configured
  <2>6. LinkOK(Fresh, line[h], line[Other(h)], granted[h], GiftTo(h))
    BY <2>2, <2>3, <2>5 DEF LinkOK
  <2>7. QED BY <1>6, <2>1, <2>6
<1>12. OnlyAsked(line[Provider])
  BY <1>8 DEF OnlyAsked
<1>13. QED BY <1>3, <1>8, <1>9, <1>10, <1>11, <1>12 DEF PppInv

(* What the invariant says of a host that is at one end of the line.       *)
LEMMA HostIs ==
    ASSUME PppInv, NEW h \in Hosts
    PROVE  /\ h \in PppHosts /\ h \in ends /\ host[h] \in Globals /\ host[h].latestID \in Nat
           /\ Other(h) \in ends /\ Other(h) # h /\ Other(Other(h)) = h
           /\ line[h] \in Seq(Packets) /\ line[Other(h)] \in Seq(Packets)
           /\ h # Provider /\ (Other(h) \in Hosts \/ Other(h) = Provider)
           /\ \A g \in Hosts : g = h \/ g = Other(h)
           /\ LinkOK(host[h], line[h], line[Other(h)], granted[h], GiftTo(h))
<1>1. h \in PppHosts /\ h \in ends /\ Provider \notin PppHosts
  BY PppAssumption DEF Hosts
<1>2. /\ Other(h) \in ends /\ Other(h) # h /\ Other(Other(h)) = h /\ \A f \in ends : f = h \/ f = Other(h)
  BY <1>1, OtherEnd DEF PppInv
<1>3. Other(h) \in PppHosts \cup {Provider}
  BY <1>2, OtherEnd DEF PppInv
<1>4. host[h] \in Globals
  BY <1>1 DEF PppInv, PppTypeOK
<1>5. QED BY <1>1, <1>2, <1>3, <1>4, GlobalsWork DEF PppInv, Hosts

-----------------------------------------------------------------------------
(* A handler's requests are no answers.                                    *)
LEMMA MoveAsks ==
    ASSUME NEW s, NEW m, NEW r, NEW qs, Move(s, m, r, qs)
    PROVE  qs = << >> \/ \E q \in Packets : qs = <<q>> /\ IsRequest(q) /\ ~IsAnswer(q)
BY DEF Move, MakesRequests, IsRequest, IsAnswer

(* A handler's packets, one after the other.                               *)
LEMMA Regrouped ==
    \A f, g, h \in Seq(Packets) : f \o (g \o h) = (f \o g) \o h
<1>1. SUFFICES ASSUME NEW f \in Seq(Packets), NEW g \in Seq(Packets), NEW h \in Seq(Packets)
               PROVE  f \o (g \o h) = (f \o g) \o h
  OBVIOUS
<1>2. QED BY SMTT(40), ConcatAssociative

(* The packets of a handler behind those that were said before.            *)
LEMMA Spoken ==
    ASSUME NEW f \in Seq(Packets), NEW g \in Seq(Packets)
    PROVE  /\ f \o g \in Seq(Packets) /\ f \o << >> = f
           /\ \A p \in Packets : f \o <<p>> = Append(f, p)
<1>2. f \o << >> = f /\ \A p \in Packets : f \o <<p>> = Append(f, p)
  BY ConcatEmptySeq, AppendIsConcat
<1>3. f \o g \in Seq(Packets)
  BY ConcatProperties
<1>4. QED BY <1>2, <1>3

(* A step of a host leaves its own side of the link in order.              *)
LEMMA StepKeeps ==
    ASSUME NEW s \in Globals, NEW to \in Seq(Packets), NEW from \in Seq(Packets), NEW given, NEW gift,
           LinkOK(s, to, from, given, gift), NEW m \in Packets, Hears(s, m, to, from, given, gift),
           NEW r, Step(s, m, r)
    PROVE  LinkOK(r, to, from \o r.out, given, gift)
<1>1. s.latestID \in Nat
  BY GlobalsWork
<1>2. PICK said \in Seq(Packets), qs \in Seq(Packets) :
        /\ r.out = said \o qs /\ Move(s, m, r, qs)
        /\ said = << >> \/ \E a \in Packets : said = <<a>> /\ (Is(a, "LCP", "EchoRep") \/ Replies(0, m, a))
  BY DEF Step
<1>3. /\ from \o said \in Seq(Packets) /\ LinkOK(s, to, from \o said, given, gift)
      /\ Hears(s, m, to, from \o said, given, gift)
  <2>1. CASE said = << >>
    BY <2>1, Spoken
  <2>2. CASE \E a \in Packets : said = <<a>> /\ (Is(a, "LCP", "EchoRep") \/ Replies(0, m, a))
    <3>1. PICK a \in Packets : said = <<a>> /\ (Is(a, "LCP", "EchoRep") \/ Replies(0, m, a))
      BY <2>2
    <3>2. ~IsRequest(a)
      BY <3>1 DEF Replies, Is, IsRequest, IsAnswer
    <3>3. from \o said = Append(from, a) /\ from \o said \in Seq(Packets)
      BY <3>1, Spoken
    <3>4. QED BY <3>2, <3>3, MoreSaid
  <2>3. QED BY <1>2, <2>1, <2>2
<1>4. LinkOK(r, to, (from \o said) \o qs, given, gift)
  BY <1>1, <1>2, <1>3, MoveKeeps
<1>5. (from \o said) \o qs = from \o r.out
  <2>1. from \o (said \o qs) = (from \o said) \o qs
    BY Regrouped, ZenonT(60)
  <2>2. r.out = said \o qs
    BY <1>2
  <2>3. QED BY <2>1, <2>2, Zenon
<1>6. QED BY <1>4, <1>5, Zenon

(* And the side of its peer, which sought an answer to m if it got one.    *)
LEMMA PeerKeeps ==
    ASSUME NEW t, NEW to \in Seq(Packets), NEW from \in Seq(Packets), NEW given,
           LinkOK(t, to, from, given, 0), NEW m \in Packets,
           Seeks(t, m, to, from, 0) \/ \A a : ~Replies(0, m, a),
           NEW s, NEW r, Step(s, m, r),
           \A k \in 1..Len(r.out) : Is(r.out[k], "IPCP", "ConAck") => r.out[k].ip \in given
    PROVE  LinkOK(t, to \o r.out, from, given, 0)
<1>1. PICK said \in Seq(Packets), qs \in Seq(Packets) :
        /\ r.out = said \o qs /\ Move(s, m, r, qs)
        /\ said = << >> \/ \E a \in Packets : said = <<a>> /\ (Is(a, "LCP", "EchoRep") \/ Replies(0, m, a))
  BY DEF Step
<1>2. to \o said \in Seq(Packets) /\ LinkOK(t, to \o said, from, given, 0)
  <2>1. CASE said = << >>
    BY <2>1, Spoken
  <2>2. CASE \E a \in Packets : said = <<a>> /\ (Is(a, "LCP", "EchoRep") \/ Replies(0, m, a))
    <3>1. PICK a \in Packets : said = <<a>> /\ (Is(a, "LCP", "EchoRep") \/ Replies(0, m, a))
      BY <2>2
    <3>2. to \o said = Append(to, a) /\ to \o said \in Seq(Packets)
      BY <3>1, Spoken
    <3>3. CASE Is(a, "LCP", "EchoRep")
      <4>1. ~IsAnswer(a)
        BY <3>3 DEF Is, IsAnswer
      <4>2. QED BY <3>2, <4>1, MoreToHear
    <3>4. CASE Replies(0, m, a)
      <4>1. Is(a, "IPCP", "ConAck") => a.ip \in given
        <5>1. 1 \in 1..Len(r.out) /\ r.out[1] = a
          <6>1. Len(said) = 1 /\ said[1] = a /\ Len(qs) \in Nat
            BY <3>1, LenProperties
          <6>2. Len(said \o qs) = Len(said) + Len(qs) /\ (said \o qs)[1] = said[1]
            <7>1. /\ Len(said \o qs) = Len(said) + Len(qs)
                  /\ \A i \in 1 .. Len(said) + Len(qs) :
                       (said \o qs)[i] = IF i <= Len(said) THEN said[i] ELSE qs[i - Len(said)]
              BY ConcatProperties, Zenon
            <7>2. 1 \in 1 .. Len(said) + Len(qs) /\ 1 <= Len(said)
              BY <6>1
            <7>3. QED BY <7>1, <7>2, Zenon
          <6>3. QED BY <1>1, <6>1, <6>2
        <5>2. QED BY <5>1
      <4>2. Seeks(t, m, to, from, 0)
        BY <3>4
      <4>3. QED BY <3>2, <3>4, <4>1, <4>2, PeerAnswers
    <3>5. QED BY <3>1, <3>3, <3>4
  <2>3. QED BY <1>1, <2>1, <2>2
<1>3. (to \o said) \o qs = to \o r.out
  <2>1. to \o (said \o qs) = (to \o said) \o qs
    BY Regrouped, ZenonT(60)
  <2>2. r.out = said \o qs
    BY <1>1
  <2>3. QED BY <2>1, <2>2, Zenon
<1>4. CASE qs = << >>
  BY <1>2, <1>3, <1>4, Spoken
<1>5. CASE \E q \in Packets : qs = <<q>> /\ IsRequest(q) /\ ~IsAnswer(q)
  <2>1. PICK q \in Packets : qs = <<q>> /\ ~IsAnswer(q)
    BY <1>5
  <2>2. to \o r.out = Append(to \o said, q)
    BY <1>2, <1>3, <2>1, Spoken
  <2>3. QED BY <1>2, <2>1, <2>2, MoreToHear
<1>6. Move(s, m, r, qs)
  BY <1>1
<1>7. QED BY <1>4, <1>5, <1>6, MoveAsks

(* A host tells its provider no password, and is told none by it.          *)
LEMMA StepAsks ==
    ASSUME NEW s, NEW m, NEW r, Step(s, m, r), NEW f \in Seq(Packets), OnlyAsked(f)
    PROVE  r.out \in Seq(Packets) /\ f \o r.out \in Seq(Packets) /\ OnlyAsked(f \o r.out)
<1>1. PICK said \in Seq(Packets), qs \in Seq(Packets) :
        /\ r.out = said \o qs /\ Move(s, m, r, qs)
        /\ said = << >> \/ \E a \in Packets : said = <<a>> /\ (Is(a, "LCP", "EchoRep") \/ Replies(0, m, a))
  BY DEF Step
<1>2. r.out \in Seq(Packets) /\ f \o r.out \in Seq(Packets)
  BY <1>1, ConcatProperties
<1>3. ASSUME NEW g \in Seq(Packets), OnlyAsked(g), NEW p \in Packets, p.prot = "PAP" => IsRequest(p)
      PROVE  OnlyAsked(Append(g, p))
  BY <1>3, PutOn DEF OnlyAsked
<1>4. OnlyAsked(f \o said)
  <2>1. CASE said = << >>
    BY <2>1, Spoken
  <2>2. CASE \E a \in Packets : said = <<a>> /\ (Is(a, "LCP", "EchoRep") \/ Replies(0, m, a))
    <3>1. PICK a \in Packets : said = <<a>> /\ (Is(a, "LCP", "EchoRep") \/ Replies(0, m, a))
      BY <2>2
    <3>2. a.prot # "PAP"
      BY <3>1 DEF Is, Replies
    <3>3. f \o said = Append(f, a)
      BY <3>1, Spoken
    <3>4. QED BY <1>3, <3>2, <3>3
  <2>3. QED BY <1>1, <2>1, <2>2
<1>5. f \o said \in Seq(Packets) /\ (f \o said) \o qs = f \o r.out
  <2>1. f \o (said \o qs) = (f \o said) \o qs
    BY Regrouped, ZenonT(60)
  <2>2. r.out = said \o qs
    BY <1>1
  <2>3. f \o said \in Seq(Packets)
    BY Spoken
  <2>4. QED BY <2>1, <2>2, <2>3, Zenon
<1>6. CASE qs = << >>
  <2>1. f \o r.out = f \o said
    BY <1>5, <1>6, Spoken
  <2>2. QED BY <1>2, <1>4, <2>1
<1>7. CASE \E q \in Packets : qs = <<q>> /\ IsRequest(q) /\ ~IsAnswer(q)
  <2>1. PICK q \in Packets : qs = <<q>> /\ IsRequest(q)
    BY <1>7
  <2>2. f \o r.out = Append(f \o said, q)
    BY <1>5, <2>1, Spoken
  <2>3. OnlyAsked(Append(f \o said, q))
    BY <1>3, <1>4, <1>5, <2>1
  <2>4. QED BY <1>2, <2>2, <2>3
<1>8. Move(s, m, r, qs)
  BY <1>1
<1>9. QED BY <1>2, <1>6, <1>7, <1>8, MoveAsks

(* The globals that a host is left with.                                   *)
LEMMA LeftWith ==
    ASSUME NEW r \in Working, r.latestID <= MaxID
    PROVE  LET t == [r EXCEPT !.out = << >>, !.alarm = "kept"] IN t \in Globals /\ Alike(r, t)
<1>1. r.latestID \in 0..MaxID
  BY SMTT(40), PppAssumption DEF Working
<1>2. QED BY ZenonT(60), <1>1 DEF Working, Globals, Alike, Kept

(* Host h, whose globals were those of s but for the pulse, has handled m. *)
LEMMA BecomesKeeps ==
    ASSUME PppInv, NEW h \in Hosts, NEW s \in Globals, NEW m \in Packets,
           NEW inbox \in Seq(Packets), Len(inbox) <= MaxLine,
           LinkOK(s, inbox, line[Other(h)], granted[h], GiftTo(h)),
           Hears(s, m, inbox, line[Other(h)], granted[h], GiftTo(h)),
           Other(h) \in Hosts =>
             /\ LinkOK(host[Other(h)], line[Other(h)], inbox, granted[Other(h)], 0)
             /\ Seeks(host[Other(h)], m, line[Other(h)], inbox, 0) \/ \A a : ~Replies(0, m, a),
           NEW r, Step(s, m, r), Becomes(h, r, inbox)
    PROVE  PppInv'
<1> DEFINE f == Other(h)
           t == [r EXCEPT !.out = << >>, !.alarm = "kept"]
           from == line[f]
<1>1. /\ h \in PppHosts /\ h \in ends /\ f \in ends /\ f # h /\ Other(f) = h /\ h # Provider
      /\ f \in Hosts \/ f = Provider
      /\ line[h] \in Seq(Packets) /\ from \in Seq(Packets) /\ \A g \in Hosts : g = h \/ g = f
  BY HostIs
<1>2. /\ r.latestID <= MaxID /\ Len(from) + Len(r.out) <= MaxLine
      /\ host' = [host EXCEPT ![h] = t]
      /\ line' = [line EXCEPT ![h] = inbox, ![f] = @ \o r.out]
      /\ granted' = Grants(h, r.out) /\ ends' = ends /\ trouble' = trouble /\ isp' = isp
  BY DEF Becomes
<1>3. r \in Working
  BY DEF Step
<1>4. t \in Globals /\ Alike(r, t)
  BY <1>2, <1>3, LeftWith
<1> HIDE DEF t
<1>5. Other(h)' = f /\ Other(f)' = h /\ Hosts' = Hosts /\ GiftTo(h)' = GiftTo(h) /\ Paired'
  <2>1. Other(h)' = f /\ Other(f)' = h
    BY <1>1, <1>2 DEF Other
  <2>2. Hosts' = Hosts /\ Paired'
    BY <1>2 DEF Hosts, Paired, PppInv
  <2>3. QED BY <1>2, <2>1, <2>2 DEF GiftTo
<1>6. /\ line \in [PppHosts \cup {Provider} -> Seq(Packets)] /\ host \in [PppHosts -> Globals]
      /\ f \in PppHosts \cup {Provider} /\ Provider \notin PppHosts /\ OnlyAsked(line[Provider])
      /\ trouble \in 0..MaxTrouble /\ isp \in Isps /\ ends \subseteq PppHosts \cup {Provider}
      /\ \A e \in ends : Len(line[e]) <= MaxLine
  BY <1>1, PppAssumption DEF PppInv, PppTypeOK
<1>7. r.out \in Seq(Packets) /\ from \o r.out \in Seq(Packets) /\ Len(from \o r.out) = Len(from) + Len(r.out)
  <2>1. OnlyAsked(<< >>) /\ << >> \in Seq(Packets)
    BY DEF OnlyAsked
  <2>2. r.out \in Seq(Packets)
    BY <2>1, StepAsks
  <2>3. QED BY <1>1, <2>2, ConcatProperties
<1>8. /\ line' \in [PppHosts \cup {Provider} -> Seq(Packets)] /\ line'[h] = inbox /\ line'[f] = from \o r.out
      /\ \A e \in PppHosts \cup {Provider} : e = h \/ e = f \/ line'[e] = line[e]
  <2> DEFINE more == from \o r.out
  <2>1. line' = [line EXCEPT ![h] = inbox, ![f] = more] /\ more \in Seq(Packets)
    BY <1>1, <1>2, <1>6, <1>7
  <2> HIDE DEF more
  <2>2. /\ line' \in [PppHosts \cup {Provider} -> Seq(Packets)] /\ line'[h] = inbox /\ line'[f] = more
        /\ \A e \in PppHosts \cup {Provider} : e = h \/ e = f \/ line'[e] = line[e]
    BY <1>1, <1>6, <2>1
  <2>3. QED BY <2>2 DEF more
<1>9. /\ host' \in [PppHosts -> Globals] /\ host'[h] = t
      /\ f \in PppHosts => host'[f] = host[f]
  BY <1>1, <1>2, <1>4, <1>6
<1>10. /\ granted'[h] = granted[h]
       /\ f \in PppHosts => /\ granted[f] \subseteq granted'[f]
                            /\ \A k \in 1..Len(r.out) : Is(r.out[k], "IPCP", "ConAck") => r.out[k].ip \in granted'[f]
  <2> DEFINE ips == {r.out[i].ip : i \in {j \in 1..Len(r.out) : r.out[j].prot = "IPCP" /\ r.out[j].code = "ConAck"}}
  <2>1. granted' = [g \in PppHosts |-> IF g = f THEN granted[g] \cup ips ELSE granted[g]]
    BY <1>2 DEF Grants
  <2>2. \A k \in 1..Len(r.out) : Is(r.out[k], "IPCP", "ConAck") => r.out[k].ip \in ips
    BY DEF Is
  <2> HIDE DEF ips
  <2>3. QED BY <1>1, <2>1, <2>2
<1>11. LinkOK(t, inbox, from \o r.out, granted[h], GiftTo(h))
  <2>1. LinkOK(r, inbox, from \o r.out, granted[h], GiftTo(h))
    BY <1>1, StepKeeps
  <2>2. QED BY <1>4, <2>1, AlikeLinks
<1>12. ASSUME f \in Hosts PROVE LinkOK(host[f], from \o r.out, inbox, granted'[f], 0)
  <2>1. LinkOK(host[f], from, inbox, granted'[f], 0)
    BY <1>10, <1>12, MoreGiven DEF Hosts
  <2>2. Seeks(host[f], m, from, inbox, 0) \/ \A a : ~Replies(0, m, a)
    BY <1>12
  <2>3. \A k \in 1..Len(r.out) : Is(r.out[k], "IPCP", "ConAck") => r.out[k].ip \in granted'[f]
    BY <1>10, <1>12 DEF Hosts
  <2>4. QED BY <1>1, <2>1, <2>2, <2>3, PeerKeeps
<1>13. \A g \in Hosts : LinkOK(host'[g], line'[g], line'[Other(g)'], granted'[g], GiftTo(g)')
  <2>1. LinkOK(host'[h], line'[h], line'[Other(h)'], granted'[h], GiftTo(h)')
    BY <1>5, <1>8, <1>9, <1>10, <1>11
  <2>3. SUFFICES ASSUME NEW g \in Hosts PROVE LinkOK(host'[g], line'[g], line'[Other(g)'], granted'[g], GiftTo(g)')
    OBVIOUS
  <2>4. CASE g = h
    BY <2>1, <2>4
  <2>5. CASE g = f
    <3>1. f \in Hosts
      BY <2>5
    <3>2. LinkOK(host'[f], line'[f], line'[h], granted'[f], 0)
      BY <1>5, <1>8, <1>9, <1>12, <3>1 DEF Hosts
    <3>3. Other(g)' = h
      BY <1>1, <1>2, <2>5 DEF Other
    <3>4. GiftTo(g)' = 0
      BY <1>1, <3>3 DEF GiftTo
    <3>5. QED BY <2>5, <3>2, <3>3, <3>4
  <2>6. g = h \/ g = f
    BY <1>1
  <2>7. QED BY <2>4, <2>5, <2>6
<1>14. OnlyAsked(line'[Provider])
  <2>1. CASE f = Provider
    <3>1. OnlyAsked(from)
      BY <1>6, <2>1
    <3>2. OnlyAsked(from \o r.out)
      BY <1>1, <3>1, StepAsks
    <3>3. QED BY <1>8, <2>1, <3>2
  <2>2. CASE f # Provider
    BY <1>1, <1>6, <1>8, <2>2
  <2>3. QED BY <2>1, <2>2
<1>15. PppTypeOK'
  <2>1. ASSUME NEW e \in ends PROVE Len(line'[e]) <= MaxLine
    BY <1>2, <1>6, <1>7, <1>8
  <2>2. QED BY <1>2, <1>6, <1>9, <2>1 DEF PppTypeOK
<1>16. \A g \in Hosts' : LinkOK(host[g], line[g], line[Other(g)], granted[g], GiftTo(g))'
  <2>1. SUFFICES ASSUME NEW g \in Hosts PROVE LinkOK(host[g], line[g], line[Other(g)], granted[g], GiftTo(g))'
    BY <1>5
  <2>2. LinkOK(host'[g], line'[g], line'[Other(g)'], granted'[g], GiftTo(g)')
    BY <1>13
  <2>3. QED BY <2>2
<1>17. OnlyAsked(line[Provider])'
  BY <1>14
<1>18. QED BY <1>2, <1>5, <1>6, <1>8, <1>15, <1>16, <1>17 DEF PppInv

(* The side of the other host, if there is one.                            *)
LEMMA PeerIs ==
    ASSUME PppInv, NEW h \in Hosts, Other(h) \in Hosts
    PROVE  LinkOK(host[Other(h)], line[Other(h)], line[h], granted[Other(h)], 0)
<1>1. /\ LinkOK(host[Other(h)], line[Other(h)], line[Other(Other(h))], granted[Other(h)], GiftTo(Other(h)))
      /\ Other(Other(h)) = h /\ h # Provider
  BY HostIs
<1>2. GiftTo(Other(h)) = 0
  BY <1>1 DEF GiftTo
<1>3. QED BY <1>1, <1>2

(* A host does something of its own accord.                                *)
LEMMA OwnStep ==
    ASSUME PppInv, NEW h \in Hosts, NEW s \in Globals, Alike(host[h], s), NEW r,
           \A m \in Packets : Sound(s, m) => Step(s, m, r), Becomes(h, r, line[h])
    PROVE  PppInv'
<1>1. PICK m \in Packets : /\ \A a : ~Replies(0, m, a)
                           /\ \A u, to, from, given, gift : Hears(u, m, to, from, given, gift)
  BY SilenceIs
<1>2. /\ LinkOK(host[h], line[h], line[Other(h)], granted[h], GiftTo(h))
      /\ line[h] \in Seq(Packets) /\ h \in ends
  BY HostIs
<1>3. LinkOK(s, line[h], line[Other(h)], granted[h], GiftTo(h))
  BY <1>2, AlikeLinks
<1>4. Hears(s, m, line[h], line[Other(h)], granted[h], GiftTo(h))
  BY <1>1
<1>5. Step(s, m, r)
  BY <1>3, <1>4, HeardSound
<1>6. Len(line[h]) <= MaxLine
  BY <1>2 DEF PppInv, PppTypeOK
<1>7. Other(h) \in Hosts =>
        /\ LinkOK(host[Other(h)], line[Other(h)], line[h], granted[Other(h)], 0)
        /\ Seeks(host[Other(h)], m, line[Other(h)], line[h], 0) \/ \A a : ~Replies(0, m, a)
  BY <1>1, PeerIs
<1>8. QED BY <1>2, <1>3, <1>4, <1>5, <1>6, <1>7, BecomesKeeps

(* Start: nothing is up before the first request.                          *)
LEMMA StartKeeps ==
    ASSUME PppInv, NEW h \in Hosts, Start(h)
    PROVE  PppInv'
<1>1. /\ host[h] \in Globals /\ host[h].latestID \in Nat
      /\ LinkOK(host[h], line[h], line[Other(h)], granted[h], GiftTo(h))
  BY HostIs
<1>2. ~host[h].terminate => ~host[h].lcpUp
  BY <1>1 DEF Start, Started, LinkOK, HostOK
<1>3. Alike(host[h], host[h])
  BY DEF Alike, Kept
<1>4. \A m \in Packets : Sound(host[h], m) => Step(host[h], m, setAlarm(conReq(host[h])))
  BY <1>1, <1>2, StartSteps
<1>5. QED BY <1>1, <1>3, <1>4, OwnStep DEF Start

(* Alarm: the pulse is the handler's message and changes nothing itself.   *)
LEMMA AlarmKeeps ==
    ASSUME PppInv, NEW h \in Hosts, Alarm(h)
    PROVE  PppInv'
<1> DEFINE s == [host[h] EXCEPT !.pulse = FALSE]
<1>1. host[h] \in Globals
  BY HostIs
<1>2. s \in Globals /\ Alike(host[h], s)
  BY <1>1 DEF Globals, Alike, Kept
<1>3. Becomes(h, Alarmed(s), line[h])
  BY DEF Alarm
<1> HIDE DEF s
<1>4. \A m \in Packets : Sound(s, m) => Step(s, m, Alarmed(s))
  BY <1>2, AlarmedSteps
<1>5. QED BY <1>2, <1>3, <1>4, OwnStep

(* Close: from here on the host only wants to terminate.                   *)
LEMMA CloseKeeps ==
    ASSUME PppInv, NEW h \in Hosts, Close(h)
    PROVE  PppInv'
<1>1. host[h] \in Globals
  BY HostIs
<1>2. Alike(host[h], host[h])
  BY DEF Alike, Kept
<1>3. \A m \in Packets : Sound(host[h], m) => Step(host[h], m, Closed(host[h]))
  BY <1>1, ClosedSteps
<1>4. QED BY <1>1, <1>2, <1>3, OwnStep DEF Close

(* Receive: the first frame on the line is the handler's message.          *)
LEMMA ReceiveKeeps ==
    ASSUME PppInv, NEW h \in Hosts, Receive(h)
    PROVE  PppInv'
<1> DEFINE m == Head(line[h])
           inbox == Tail(line[h])
<1>1. /\ host[h] \in Globals /\ LinkOK(host[h], line[h], line[Other(h)], granted[h], GiftTo(h))
      /\ line[h] \in Seq(Packets) /\ line[Other(h)] \in Seq(Packets) /\ h \in ends
  BY HostIs
<1>2. line[h] # << >> /\ Becomes(h, docp(host[h], m), inbox)
  BY DEF Receive
<1>3. m \in Packets /\ inbox \in Seq(Packets) /\ Len(line[h]) = Len(inbox) + 1 /\ Len(inbox) \in Nat
  BY <1>1, <1>2, TakenOff
<1>4. Len(inbox) <= MaxLine
  <2>1. Len(line[h]) <= MaxLine /\ MaxLine \in Nat
    BY <1>1, PppAssumption DEF PppInv, PppTypeOK
  <2> HIDE DEF inbox
  <2>2. QED BY <1>3, <2>1
<1>5. /\ LinkOK(host[h], inbox, line[Other(h)], granted[h], GiftTo(h))
      /\ Hears(host[h], m, inbox, line[Other(h)], granted[h], GiftTo(h))
  BY <1>1, <1>2, HeadHeard
<1>6. ASSUME Other(h) \in Hosts
      PROVE  /\ LinkOK(host[Other(h)], line[Other(h)], inbox, granted[Other(h)], 0)
             /\ Seeks(host[Other(h)], m, line[Other(h)], inbox, 0)
  <2>1. LinkOK(host[Other(h)], line[Other(h)], line[h], granted[Other(h)], 0)
    BY <1>6, PeerIs
  <2>2. QED BY <1>1, <1>2, <2>1, HeadSought
<1> HIDE DEF m, inbox
<1>7. Step(host[h], m, docp(host[h], m))
  <2>1. Sound(host[h], m)
    BY <1>5, HeardSound
  <2>2. QED BY <1>1, <1>3, <2>1, docpSteps
<1>8. QED BY <1>1, <1>2, <1>3, <1>4, <1>5, <1>6, <1>7, BecomesKeeps

(* TimerEnds: only the pulse is new.                                       *)
LEMMA TimerEndsKeeps ==
    ASSUME PppInv, NEW h \in Hosts, TimerEnds(h)
    PROVE  PppInv'
<1> DEFINE s == [host[h] EXCEPT !.pulse = TRUE]
<1>1. host[h] \in Globals /\ h \in PppHosts
  BY HostIs
<1>2. s \in Globals /\ Alike(host[h], s)
  BY <1>1 DEF Globals, Alike, Kept
<1>3. host' = [host EXCEPT ![h] = s]
  BY DEF TimerEnds
<1>4. /\ ends' = ends /\ isp' = isp /\ line' = line /\ granted' = granted
      /\ trouble' = trouble \/ (trouble > 0 /\ trouble' = trouble - 1)
  BY DEF TimerEnds
<1> HIDE DEF s
<1>5. trouble' \in 0..MaxTrouble
  BY <1>4, PppAssumption DEF PppInv, PppTypeOK
<1>6. /\ host' \in [PppHosts -> Globals] /\ host'[h] = s
      /\ \A g \in PppHosts : g = h \/ host'[g] = host[g]
  BY <1>1, <1>2, <1>3 DEF PppInv, PppTypeOK
<1>7. PppTypeOK'
  BY <1>4, <1>5, <1>6 DEF PppInv, PppTypeOK
<1>8. Hosts' = Hosts /\ Paired' /\ (isp \in Isps)' /\ OnlyAsked(line[Provider])'
      /\ (line \in [PppHosts \cup {Provider} -> Seq(Packets)])'
  BY <1>4 DEF PppInv, Hosts, Paired
<1>9. ASSUME NEW g \in Hosts PROVE LinkOK(host[g], line[g], line[Other(g)], granted[g], GiftTo(g))'
  <2>1. g \in PppHosts /\ LinkOK(host[g], line[g], line[Other(g)], granted[g], GiftTo(g))
    BY HostIs
  <2>2. Other(g)' = Other(g) /\ GiftTo(g)' = GiftTo(g)
    BY <1>4 DEF Other, GiftTo
  <2>3. Alike(host[g], host'[g])
    <3>1. CASE g = h
      BY <1>2, <1>6, <3>1
    <3>2. CASE g # h
      BY <1>6, <2>1, <3>2 DEF Alike, Kept
    <3>3. QED BY <3>1, <3>2
  <2>4. LinkOK(host'[g], line[g], line[Other(g)], granted[g], GiftTo(g))
    BY <2>1, <2>3, AlikeLinks
  <2>5. QED BY <1>4, <2>2, <2>4
<1>10. QED BY <1>7, <1>8, <1>9 DEF PppInv

(* Lose: what neither end hears any more leaves both sides in order.       *)
LEMMA LoseKeeps ==
    ASSUME PppInv, NEW e \in ends, Lose(e)
    PROVE  PppInv'
<1> DEFINE rest == Tail(line[e])
<1>1. e \in PppHosts \cup {Provider} /\ Provider \notin PppHosts
  BY PppAssumption DEF PppInv, PppTypeOK
<1>2. line[e] # << >> /\ line[e] \in Seq(Packets) /\ line \in [PppHosts \cup {Provider} -> Seq(Packets)]
  BY <1>1 DEF Lose, PppInv
<1>3. /\ rest \in Seq(Packets) /\ Len(rest) \in Nat /\ Len(line[e]) = Len(rest) + 1
      /\ \A i \in 1..Len(rest) : rest[i] = line[e][i + 1]
  BY <1>2, TakenOff
<1>4. /\ ends' = ends /\ isp' = isp /\ host' = host /\ granted' = granted
      /\ trouble' = trouble \/ (trouble > 0 /\ trouble' = trouble - 1)
      /\ line' = [line EXCEPT ![e] = rest]
  BY DEF Lose
<1> HIDE DEF rest
<1>5. trouble' \in 0..MaxTrouble
  BY <1>4, PppAssumption DEF PppInv, PppTypeOK
<1>6. /\ line' \in [PppHosts \cup {Provider} -> Seq(Packets)] /\ line'[e] = rest
      /\ \A g \in PppHosts \cup {Provider} : g = e \/ line'[g] = line[g]
  BY <1>1, <1>2, <1>3, <1>4
<1>7. PppTypeOK'
  <2>1. ASSUME NEW g \in ends PROVE Len(line'[g]) <= MaxLine
    <3>1. Len(line[g]) <= MaxLine /\ g \in PppHosts \cup {Provider} /\ MaxLine \in Nat
      BY PppAssumption DEF PppInv, PppTypeOK
    <3>2. CASE g = e
      BY <1>3, <1>6, <3>1, <3>2
    <3>3. CASE g # e
      BY <1>6, <3>1, <3>3
    <3>4. QED BY <3>2, <3>3
  <2>2. QED BY <1>4, <1>5, <2>1 DEF PppInv, PppTypeOK
<1>8. OnlyAsked(line'[Provider])
  <2>1. OnlyAsked(line[Provider])
    BY DEF PppInv
  <2>2. CASE e = Provider
    <3>1. \A i \in 1..Len(rest) : i + 1 \in 1..Len(line[e])
      BY <1>3
    <3>2. OnlyAsked(rest)
      BY <1>3, <2>1, <2>2, <3>1 DEF OnlyAsked
    <3>3. QED BY <1>6, <2>2, <3>2
  <2>3. CASE e # Provider
    BY <1>6, <2>1, <2>3
  <2>4. QED BY <2>2, <2>3
<1>9. Hosts' = Hosts /\ Paired' /\ (isp \in Isps)'
  BY <1>4 DEF PppInv, Hosts, Paired
<1>10. ASSUME NEW g \in Hosts PROVE LinkOK(host[g], line[g], line[Other(g)], granted[g], GiftTo(g))'
  <2>1. /\ g \in PppHosts /\ LinkOK(host[g], line[g], line[Other(g)], granted[g], GiftTo(g))
        /\ line[g] \in Seq(Packets) /\ line[Other(g)] \in Seq(Packets) /\ Other(g) # g
        /\ Other(g) \in PppHosts \cup {Provider}
    BY HostIs DEF Hosts
  <2>2. Other(g)' = Other(g) /\ GiftTo(g)' = GiftTo(g)
    BY <1>4 DEF Other, GiftTo
  <2>3. e = g \/ e = Other(g)
    <3>1. g \in ends /\ Paired
      BY DEF Hosts, PppInv
    <3>2. QED BY <3>1, OtherEnd
  <2>4. CASE e = g
    <3>1. LinkOK(host[g], rest, line[Other(g)], granted[g], GiftTo(g))
      BY <1>2, <2>1, <2>4, HeadHeard DEF rest
    <3>2. line'[g] = rest /\ line'[Other(g)] = line[Other(g)]
      BY <1>6, <2>1, <2>4
    <3>3. QED BY <1>4, <2>2, <3>1, <3>2
  <2>5. CASE e = Other(g)
    <3>1. LinkOK(host[g], line[g], rest, granted[g], GiftTo(g))
      BY <1>2, <2>1, <2>5, HeadSought DEF rest
    <3>2. line'[g] = line[g] /\ line'[Other(g)] = rest
      BY <1>6, <2>1, <2>5
    <3>3. QED BY <1>4, <2>2, <3>1, <3>2
  <2>6. QED BY <2>3, <2>4, <2>5
<1>11. QED BY <1>6, <1>7, <1>8, <1>9, <1>10 DEF PppInv

-----------------------------------------------------------------------------
(* The host that a provider talks to.                                      *)
LEMMA CustomerIs ==
    ASSUME PppInv, Provider \in ends
    PROVE  LET h == Other(Provider)
           IN  /\ h \in Hosts /\ h \in PppHosts /\ h \in ends /\ h # Provider /\ Other(h) = Provider
               /\ Hosts = {h} /\ GiftTo(h) = isp.gift /\ ends = {h, Provider}
               /\ host[h] \in Globals /\ host[h].latestID \in Nat
               /\ LinkOK(host[h], line[h], line[Provider], granted[h], isp.gift)
               /\ line[h] \in Seq(Packets) /\ line[Provider] \in Seq(Packets)
<1> DEFINE h == Other(Provider)
<1>1. Paired /\ Provider \notin PppHosts
  BY PppAssumption DEF PppInv
<1>2. /\ h \in ends /\ h # Provider /\ Other(h) = Provider /\ h \in PppHosts
      /\ \A f \in ends : f = Provider \/ f = h
  BY <1>1, OtherEnd
<1> HIDE DEF h
<1>3. Hosts = {h} /\ ends = {h, Provider} /\ h \in Hosts
  BY <1>1, <1>2 DEF Hosts
<1>4. GiftTo(h) = isp.gift
  BY <1>2 DEF GiftTo
<1>5. /\ host[h] \in Globals /\ host[h].latestID \in Nat
      /\ LinkOK(host[h], line[h], line[Other(h)], granted[h], GiftTo(h))
      /\ line[h] \in Seq(Packets) /\ line[Other(h)] \in Seq(Packets)
  BY <1>3, HostIs
<1>6. QED BY <1>2, <1>3, <1>4, <1>5 DEF h

(* What a provider says leaves the host's side in order.                   *)
LEMMA SaysKeeps ==
    ASSUME NEW s, NEW to \in Seq(Packets), NEW from \in Seq(Packets), NEW given, NEW i \in Isps,
           LinkOK(s, to, from, given, i.gift), NEW m \in Packets, Seeks(s, m, to, from, i.gift),
           s.latestID \in Nat, NEW j, NEW out, Says(i, m, j, out),
           \A k \in 1..Len(out) : Is(out[k], "IPCP", "ConAck") => out[k].ip \in given
    PROVE  LinkOK(s, to \o out, from, given, j.gift)
<1>1. PICK own \in Seq(Packets), said \in Seq(Packets) :
        /\ out = own \o said
        /\ own = << >> \/ \E o \in Packets : own = <<o>> /\ ~IsAnswer(o)
        /\ said = << >> \/ \E x \in Packets : said = <<x>> /\ Replies(j.gift, m, x)
  BY DEF Says
<1>2. j \in Isps /\ (j.gift # i.gift => Is(m, "LCP", "ConReq"))
  BY DEF Says
<1>3. i.gift # 0 /\ j.gift # 0
  BY <1>2 DEF Isps, Gifts
<1>4. LinkOK(s, to, from, given, j.gift) /\ Seeks(s, m, to, from, j.gift)
  <2>1. CASE j.gift = i.gift
    BY <2>1
  <2>2. CASE j.gift # i.gift
    BY <1>2, <1>3, <2>2, GiftChanges
  <2>3. QED BY <2>1, <2>2
<1>5. /\ to \o own \in Seq(Packets) /\ LinkOK(s, to \o own, from, given, j.gift)
      /\ Seeks(s, m, to \o own, from, j.gift)
  <2>1. to \o own \in Seq(Packets)
    BY Spoken
  <2>2. CASE own = << >>
    <3>1. to \o own = to
      BY <2>2, Spoken
    <3>2. QED BY <1>4, <2>1, <3>1
  <2>3. CASE \E o \in Packets : own = <<o>> /\ ~IsAnswer(o)
    <3>1. PICK o \in Packets : own = <<o>> /\ ~IsAnswer(o)
      BY <2>3
    <3>2. to \o own = Append(to, o)
      BY <3>1, Spoken
    <3>3. QED BY <1>4, <2>1, <3>1, <3>2, MoreToHear
  <2>4. QED BY <1>1, <2>2, <2>3
<1>6. to \o out = (to \o own) \o said
  <2>1. to \o (own \o said) = (to \o own) \o said
    BY Regrouped, ZenonT(60)
  <2>2. out = own \o said
    BY <1>1
  <2>3. QED BY <2>1, <2>2, Zenon
<1>7. CASE said = << >>
  <2>1. to \o out = to \o own
    BY <1>5, <1>6, <1>7, Spoken
  <2>2. QED BY <1>5, <2>1
<1>8. CASE \E x \in Packets : said = <<x>> /\ Replies(j.gift, m, x)
  <2>1. PICK x \in Packets : said = <<x>> /\ Replies(j.gift, m, x)
    BY <1>8
  <2>2. Len(out) \in 1..Len(out) /\ out[Len(out)] = x
    <3>1. Len(said) = 1 /\ said[1] = x /\ Len(own) \in Nat
      BY <2>1, LenProperties
    <3>2. /\ Len(own \o said) = Len(own) + Len(said)
          /\ \A k \in 1 .. Len(own) + Len(said) :
               (own \o said)[k] = IF k <= Len(own) THEN own[k] ELSE said[k - Len(own)]
      BY ConcatProperties, Zenon
    <3>3. Len(own) + 1 \in 1 .. Len(own) + Len(said) /\ ~(Len(own) + 1 <= Len(own)) /\ Len(own) + 1 - Len(own) = 1
      BY <3>1
    <3>4. (own \o said)[Len(own) + 1] = x /\ Len(own \o said) = Len(own) + 1
      BY <3>1, <3>2, <3>3
    <3>5. out = own \o said /\ Len(own) + 1 \in 1 .. Len(own) + 1
      BY <1>1, <3>1
    <3>6. QED BY <3>4, <3>5, Zenon
  <2>3. Is(x, "IPCP", "ConAck") => x.ip \in given
    BY <2>2
  <2>4. to \o out = Append(to \o own, x)
    BY <1>5, <1>6, <2>1, Spoken
  <2>5. LinkOK(s, Append(to \o own, x), from, given, j.gift)
    BY <1>5, <2>1, <2>3, PeerAnswers
  <2>6. QED BY <2>4, <2>5
<1>9. QED BY <1>1, <1>7, <1>8

(* What changes on the line of a provider leaves the invariant.            *)
LEMMA ProviderKeeps ==
    ASSUME PppInv, Provider \in ends, ends' = ends, host' = host, trouble' = trouble, (isp \in Isps)',
           NEW h, h = Other(Provider), NEW to \in Seq(Packets), NEW from \in Seq(Packets),
           Len(to) <= MaxLine, Len(from) <= MaxLine, OnlyAsked(from),
           line' = [line EXCEPT ![Provider] = from, ![h] = to],
           LinkOK(host[h], to, from, granted'[h], isp'.gift)
    PROVE  PppInv'
<1>1. /\ h \in Hosts /\ h \in PppHosts /\ h # Provider /\ Other(h) = Provider
      /\ Hosts = {h} /\ ends = {h, Provider}
  BY CustomerIs
<1>2. line \in [PppHosts \cup {Provider} -> Seq(Packets)]
  BY DEF PppInv
<1>3. line' \in [PppHosts \cup {Provider} -> Seq(Packets)] /\ line'[h] = to /\ line'[Provider] = from
  BY <1>1, <1>2
<1>4. PppTypeOK'
  <2>1. \A e \in ends : Len(line'[e]) <= MaxLine
    BY <1>1, <1>3
  <2>2. QED BY <2>1 DEF PppInv, PppTypeOK
<1>5. Other(h)' = Provider /\ GiftTo(h)' = isp'.gift
  <2>1. Other(h)' = Provider
    BY <1>1 DEF Other
  <2>2. QED BY <2>1 DEF GiftTo
<1>6. Hosts' = {h} /\ Paired' /\ OnlyAsked(line[Provider])'
      /\ (line \in [PppHosts \cup {Provider} -> Seq(Packets)])'
  BY <1>1, <1>3 DEF PppInv, Hosts, Paired
<1>7. LinkOK(host[h], line[h], line[Other(h)], granted[h], GiftTo(h))'
  BY <1>3, <1>5
<1>8. \A g \in Hosts' : LinkOK(host[g], line[g], line[Other(g)], granted[g], GiftTo(g))'
  <2>1. SUFFICES ASSUME NEW g \in Hosts' PROVE LinkOK(host'[g], line'[g], line'[Other(g)'], granted'[g], GiftTo(g)')
    OBVIOUS
  <2>2. g = h
    BY <1>6
  <2>3. Other(g)' = Provider /\ GiftTo(g)' = isp'.gift
    <3>1. Other(g)' = Provider
      BY <1>1, <2>2 DEF Other
    <3>2. QED BY <3>1 DEF GiftTo
  <2>4. QED BY <1>3, <2>2, <2>3
<1>9. QED BY <1>4, <1>6, <1>8 DEF PppInv

(* ProviderReceives: an answer to the first frame on its line.             *)
LEMMA ProviderReceivesKeeps ==
    ASSUME PppInv, ProviderReceives
    PROVE  PppInv'
<1> DEFINE h == Other(Provider)
           m == Head(line[Provider])
           rest == Tail(line[Provider])
<1>1. PICK a \in IspAnswers(isp, m) :
        /\ isp' = a[1] /\ Len(line[h]) + Len(a[2]) <= MaxLine
        /\ line' = [line EXCEPT ![Provider] = rest, ![h] = @ \o a[2]]
        /\ granted' = Grants(Provider, a[2])
  BY DEF ProviderReceives
<1>2. Provider \in ends /\ line[Provider] # << >> /\ ends' = ends /\ trouble' = trouble /\ host' = host
  BY DEF ProviderReceives
<1>3. /\ h \in Hosts /\ h \in PppHosts /\ h # Provider /\ Other(h) = Provider
      /\ host[h] \in Globals /\ host[h].latestID \in Nat
      /\ LinkOK(host[h], line[h], line[Provider], granted[h], isp.gift)
      /\ line[h] \in Seq(Packets) /\ line[Provider] \in Seq(Packets)
  BY <1>2, CustomerIs
<1> HIDE DEF h
<1>4. /\ m \in Packets /\ rest \in Seq(Packets) /\ Len(line[Provider]) = Len(rest) + 1 /\ Len(rest) \in Nat
      /\ m = line[Provider][1] /\ \A i \in 1..Len(rest) : rest[i] = line[Provider][i + 1]
  BY <1>2, <1>3, TakenOff
<1>5. /\ LinkOK(host[h], line[h], rest, granted[h], isp.gift)
      /\ Seeks(host[h], m, line[h], rest, isp.gift)
  BY <1>2, <1>3, HeadSought
<1> HIDE DEF m, rest
<1>6. (m.prot = "PAP" => IsRequest(m)) /\ OnlyAsked(rest)
  <2>1. OnlyAsked(line[Provider]) /\ 1 \in 1..Len(line[Provider])
        /\ \A i \in 1..Len(rest) : i + 1 \in 1..Len(line[Provider])
    BY <1>4 DEF PppInv
  <2>2. QED BY <1>4, <2>1 DEF OnlyAsked
<1>7. isp \in Isps
  BY DEF PppInv
<1>8. PICK j, out : j = a[1] /\ out = a[2] /\ Says(isp, m, j, out)
  BY <1>4, <1>6, <1>7, IspSays
<1>9. out \in Seq(Packets) /\ line[h] \o out \in Seq(Packets) /\ Len(line[h] \o out) = Len(line[h]) + Len(out)
  <2>1. out \in Seq(Packets)
    <3>1. PICK own \in Seq(Packets), said \in Seq(Packets) : out = own \o said
      BY <1>8 DEF Says
    <3>2. QED BY <3>1, ConcatProperties
  <2>2. QED BY <1>3, <2>1, ConcatProperties
<1>10. /\ granted[h] \subseteq granted'[h]
       /\ \A k \in 1..Len(out) : Is(out[k], "IPCP", "ConAck") => out[k].ip \in granted'[h]
  <2> DEFINE ips == {out[i].ip : i \in {k \in 1..Len(out) : out[k].prot = "IPCP" /\ out[k].code = "ConAck"}}
  <2>1. granted' = [g \in PppHosts |-> IF g = h THEN granted[g] \cup ips ELSE granted[g]]
    BY <1>1, <1>8 DEF Grants, h
  <2>2. \A k \in 1..Len(out) : Is(out[k], "IPCP", "ConAck") => out[k].ip \in ips
    BY DEF Is
  <2> HIDE DEF ips
  <2>3. QED BY <1>3, <2>1, <2>2
<1>11. LinkOK(host[h], line[h], rest, granted'[h], isp.gift)
  BY <1>5, <1>10, MoreGiven
<1>12. LinkOK(host[h], line[h] \o out, rest, granted'[h], j.gift)
  BY <1>3, <1>4, <1>5, <1>7, <1>8, <1>10, <1>11, SaysKeeps
<1>13. Len(line[h] \o out) <= MaxLine /\ Len(rest) <= MaxLine
  <2>1. Len(line[Provider]) <= MaxLine /\ MaxLine \in Nat
    BY <1>2, PppAssumption DEF PppInv, PppTypeOK
  <2>2. Len(line[h]) + Len(out) <= MaxLine
    BY <1>1, <1>8
  <2>3. Len(line[h] \o out) <= MaxLine
    BY <1>9, <2>2
  <2>4. Len(rest) <= MaxLine
    BY <1>4, <2>1
  <2>5. QED BY <2>3, <2>4
<1>14. line' = [line EXCEPT ![Provider] = rest, ![h] = line[h] \o out]
  BY <1>1, <1>3, <1>8
<1>15. isp' = j /\ j \in Isps
  BY <1>1, <1>8 DEF Says
<1>16. LinkOK(host[h], line[h] \o out, rest, granted'[h], isp'.gift)
  BY <1>12, <1>15
<1> DEFINE to == line[h] \o out
<1>17. to \in Seq(Packets) /\ Len(to) <= MaxLine
  BY <1>9, <1>13
<1>18. line' = [line EXCEPT ![Provider] = rest, ![h] = to] /\ LinkOK(host[h], to, rest, granted'[h], isp'.gift)
  BY <1>14, <1>16
<1>19. h = Other(Provider)
  BY DEF h
<1> HIDE DEF to
<1>20. QED BY <1>2, <1>4, <1>6, <1>13, <1>15, <1>17, <1>18, <1>19, ProviderKeeps

(* ProviderRepeats: a request of its own on an empty line.                 *)
LEMMA ProviderRepeatsKeeps ==
    ASSUME PppInv, ProviderRepeats
    PROVE  PppInv'
<1> DEFINE h == Other(Provider)
           echo == Packet("LCP", "EchoReq", 0, {}, NoIP)
<1>1. /\ Provider \in ends /\ Quiet /\ ends' = ends /\ trouble' = trouble /\ host' = host /\ isp' = isp
      /\ granted' = granted
  BY DEF ProviderRepeats
<1>2. /\ h \in ends /\ h \in PppHosts /\ h # Provider
      /\ LinkOK(host[h], line[h], line[Provider], granted[h], isp.gift)
      /\ line[h] \in Seq(Packets) /\ line[Provider] \in Seq(Packets)
  BY <1>1, CustomerIs
<1>3. isp \in Isps /\ line \in [PppHosts \cup {Provider} -> Seq(Packets)] /\ OnlyAsked(line[Provider])
  BY DEF PppInv
<1>4. echo \in Packets /\ ~IsAnswer(echo)
  <2>1. NoIP \in IPs /\ {} \in SUBSET Options /\ "LCP" \in Protocols /\ "EchoReq" \in Codes /\ 0 \in Nat
    BY DEF IPs, Protocols, Codes
  <2>2. QED BY <2>1, PacketIs DEF IsAnswer
<1>5. PICK p \in Packets : ~IsAnswer(p) /\ line' = [line EXCEPT ![h] = <<p>>]
  <2>1. CASE line' = [line EXCEPT ![h] = <<IspRequest(isp)>>]
    BY <1>3, <2>1, IspRequestIs
  <2>2. CASE line' = [line EXCEPT ![h] = <<echo>>]
    BY <1>4, <2>2
  <2>3. QED BY <2>1, <2>2 DEF ProviderRepeats
<1> HIDE DEF echo
<1>6. line[h] = << >> /\ line[Provider] = << >>
  BY <1>1, <1>2 DEF Quiet
<1>7. LinkOK(host[h], Append(line[h], p), line[Provider], granted[h], isp.gift)
  BY <1>2, <1>5, MoreToHear
<1>8. Append(line[h], p) = <<p>> /\ <<p>> \in Seq(Packets) /\ Len(<<p>>) = 1 /\ Len(line[Provider]) = 0
  BY <1>6
<1>9. 1 <= MaxLine /\ 0 <= MaxLine
  BY PppAssumption
<1> DEFINE to == <<p>>
<1>10. to \in Seq(Packets) /\ Len(to) <= MaxLine /\ Len(line[Provider]) <= MaxLine
  BY <1>8, <1>9
<1>11. LinkOK(host[h], to, line[Provider], granted'[h], isp'.gift)
  BY <1>1, <1>7, <1>8
<1>12. line' = [line EXCEPT ![h] = to]
  BY <1>5
<1> HIDE DEF to, h
<1>13. line' = [line EXCEPT ![Provider] = line[Provider], ![h] = to]
  BY <1>2, <1>3, <1>12
<1>14. h = Other(Provider) /\ (isp \in Isps)'
  BY <1>1, <1>3 DEF h
<1>15. QED BY <1>1, <1>2, <1>3, <1>10, <1>11, <1>13, <1>14, ProviderKeeps

-----------------------------------------------------------------------------
(* Nothing changes.                                                        *)
LEMMA PppStutters ==
    ASSUME PppInv, UNCHANGED pppVars
    PROVE  PppInv'
BY DEF pppVars, PppInv, PppTypeOK, Paired, Hosts, GiftTo, Other

(* PppInv is an invariant of the link.                                     *)
THEOREM PppInvariant == PppSpec => []PppInv
<1>1. PppInit => PppInv
  BY PppStarts
<1>2. PppInv /\ [PppNext]_pppVars => PppInv'
  <2> SUFFICES ASSUME PppInv, [PppNext]_pppVars PROVE PppInv'
    OBVIOUS
  <2>1. ASSUME NEW h \in Hosts, Start(h) PROVE PppInv'
    BY <2>1, StartKeeps
  <2>2. ASSUME NEW h \in Hosts, Receive(h) PROVE PppInv'
    BY <2>2, ReceiveKeeps
  <2>3. ASSUME NEW h \in Hosts, TimerEnds(h) PROVE PppInv'
    BY <2>3, TimerEndsKeeps
  <2>4. ASSUME NEW h \in Hosts, Alarm(h) PROVE PppInv'
    BY <2>4, AlarmKeeps
  <2>5. ASSUME NEW h \in Hosts, Close(h) PROVE PppInv'
    BY <2>5, CloseKeeps
  <2>6. ASSUME NEW e \in ends, Lose(e) PROVE PppInv'
    BY <2>6, LoseKeeps
  <2>7. CASE ProviderReceives
    BY <2>7, ProviderReceivesKeeps
  <2>8. CASE ProviderRepeats
    BY <2>8, ProviderRepeatsKeeps
  <2>9. CASE UNCHANGED pppVars
    BY <2>9, PppStutters
  <2>10. QED BY <2>1, <2>2, <2>3, <2>4, <2>5, <2>6, <2>7, <2>8, <2>9 DEF PppNext
<1>3. QED BY <1>1, <1>2, PTL DEF PppSpec

(* AddressGranted: while the link is up, TCP/IP has the address that the   *)
(* driver asked for last, and the other end acknowledged it (doConAckIP,   *)
(* doConNakIP, doIPUp).                                                    *)
THEOREM AddressIsGranted == PppSpec => []AddressGranted
<1>1. PppInv => AddressGranted
  <2> SUFFICES ASSUME PppInv PROVE AddressGranted
    OBVIOUS
  <2>1. ASSUME NEW h \in Hosts, Up(h), ~host[h].terminate
        PROVE  host[h].tcpIP = host[h].localIP /\ host[h].tcpIP \in granted[h] \ {NoIP}
    <3>1. HostOK(host[h], granted[h], GiftTo(h))
      BY <2>1, HostIs DEF LinkOK
    <3>2. QED BY <2>1, <3>1 DEF HostOK, UpWith, Up
  <2>2. QED BY <2>1 DEF AddressGranted, PppInv
<1>2. QED BY <1>1, PppInvariant, PTL
=============================================================================
