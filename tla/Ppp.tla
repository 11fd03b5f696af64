--------------------------------- MODULE Ppp ---------------------------------
(***************************************************************************)
(* The point-to-point link of src/drivers/net/ppp.c: LCP, PAP and IPCP     *)
(* negotiation over a serial line that may lose frames, with the retry     *)
(* alarm, renegotiation and termination.                                   *)
(*                                                                         *)
(* Each C function that touches the driver's globals is an operator from a *)
(* record of globals to a record of globals; what it sends is collected in *)
(* the field out.  One action is one message taken by an outThread: a      *)
(* packet, the alarm or the user's request to close.  A host runs one      *)
(* message at a time here (the two outThreads of the driver share their    *)
(* globals without a lock; see the hazards of the project).                *)
(***************************************************************************)
EXTENDS Naturals, Sequences, FiniteSets

CONSTANTS
    PppHosts,      \* the ends that run ppp.c
    Provider,      \* the other end, a pppd or a provider's dial-in server
    MaxTrans,      \* maxtrans: configure requests before "PPP timed out"
    MaxID,         \* bound on latestID; identifiers are bytes, see below
    MaxLine,       \* bound on the frames under way in one direction
    MaxTrouble     \* bound on the frames lost and the answers later than an alarm

(* latestID is an int and the identifier on the wire one byte, so the      *)
(* model stays below the 256th request.                                    *)
ASSUME PppAssumption ==
    /\ IsFiniteSet(PppHosts) /\ Cardinality(PppHosts) = 2 /\ Provider \notin PppHosts
    /\ MaxTrans \in Nat \ {0} /\ MaxID \in 1..255
    /\ MaxLine \in Nat \ {0} /\ MaxTrouble \in Nat

VARIABLES
    ends,      \* the two ends of the line in this behaviour
    trouble,   \* what may still go wrong on the line
    host,      \* the globals of each end that runs ppp.c
    isp,       \* what the provider remembers
    line,      \* line[e]: the frames on their way to e
    alarms,    \* the hosts whose timer runs, the one set first at the head
    granted    \* history: granted[h], the addresses acknowledged to h

pppVars == <<ends, trouble, host, isp, line, alarms, granted>>

Hosts == ends \cap PppHosts
Other(e) == CHOOSE f \in ends : f # e

LcpOptions == {"async", "pcomp", "accomp", "magic", "mru"}

(* The address a host that was asked for one gives: 192.168.0.1, and the   *)
(* ones a provider gives, another after each new start.                    *)
NoIP == 0
Gift == 1
Gifts == {2, 3}
ProviderIP == 4

Packet(p, c, id, ops, ip) == [prot |-> p, code |-> c, id |-> id, ops |-> ops, ip |-> ip]

(***************************************************************************)
(* The globals of ppp.c.  timer is the number of a timer or none, pulse    *)
(* whether its PMSG_Alarm waits at the channel; no holds the flags         *)
(* noasync, nopcomp, noaccomp, nomagic and nomru.  alarm and out carry     *)
(* what a handler did to its timer and sent.                               *)
(***************************************************************************)
Globals ==
    [lcpUp : BOOLEAN, authUp : BOOLEAN, ipUp : BOOLEAN, terminate : BOOLEAN,
     ackedUs : BOOLEAN, ackedThem : BOOLEAN,
     timer : BOOLEAN, alarm : {"kept"}, pulse : BOOLEAN,
     maxtrans : 0..MaxTrans, latestID : 0..MaxID,
     no : SUBSET LcpOptions, nopdns : BOOLEAN,
     localIP : {NoIP, Gift} \cup Gifts, tcpIP : {NoIP, Gift} \cup Gifts,
      exited : {"no", "closed", "timedout"}, out : {<<>>}]

Fresh ==
    [lcpUp |-> FALSE, authUp |-> TRUE, ipUp |-> FALSE, terminate |-> FALSE,
     ackedUs |-> FALSE, ackedThem |-> FALSE,
     timer |-> FALSE, alarm |-> "kept", pulse |-> FALSE,
     maxtrans |-> MaxTrans, latestID |-> 0, no |-> {}, nopdns |-> FALSE,
     localIP |-> NoIP, tcpIP |-> NoIP, exited |-> "no", out |-> <<>>]

resetAlarm(s) == [s EXCEPT !.timer = FALSE, !.alarm = "reset"]
setAlarm(s) == [s EXCEPT !.timer = TRUE, !.alarm = "set"]

sendCP(s, pack) == [s EXCEPT !.out = Append(@, pack)]

(* A request under a new identifier.                                       *)
NewRequest(s, prot, code, ops, ip) ==
    sendCP([s EXCEPT !.latestID = @ + 1], Packet(prot, code, s.latestID + 1, ops, ip))

authReqPAP(s) == NewRequest(s, "PAP", "ConReq", {}, NoIP)
conReqIP(s) == NewRequest(s, "IPCP", "ConReq", IF s.nopdns THEN {} ELSE {"pdns"}, s.localIP)
terReq(s) == NewRequest(s, "LCP", "TerReq", {}, NoIP)

conReq(s) ==
    IF s.maxtrans = 0
    THEN [s EXCEPT !.exited = "timedout"]
    ELSE NewRequest([s EXCEPT !.maxtrans = @ - 1], "LCP", "ConReq", LcpOptions \ s.no, NoIP)

doLCPUp(s) ==
    LET up == [s EXCEPT !.lcpUp = TRUE]
        asked == IF up.authUp THEN conReqIP(up) ELSE authReqPAP(up)
    IN  setAlarm([asked EXCEPT !.maxtrans = MaxTrans])

(* NET_AddInt: TCP/IP opens /sys/ppp0 and takes the local address.         *)
doIPUp(s) == [resetAlarm(s) EXCEPT !.ipUp = TRUE, !.tcpIP = s.localIP]

-----------------------------------------------------------------------------
(* LCP *)

(* An acceptable request is acknowledged whole; else one ConRej names the  *)
(* options that are not known (CHAP, and what the switch does not list).   *)
Known == LcpOptions \cup {"pap"}

(* A request while the link is up takes everything down again.             *)
Renegotiate(s) ==
    IF s.lcpUp
    THEN setAlarm([s EXCEPT !.ipUp = FALSE, !.lcpUp = FALSE, !.authUp = TRUE,
                            !.ackedThem = FALSE, !.ackedUs = FALSE, !.nopdns = FALSE])
    ELSE s

doConReqKeeping(s, m) ==
    LET r == [Renegotiate(s) EXCEPT !.authUp = IF "pap" \in m.ops THEN FALSE ELSE @]
        ack == [sendCP(r, Packet("LCP", "ConAck", m.id, m.ops, NoIP)) EXCEPT !.ackedThem = TRUE]
    IN  IF m.ops \subseteq Known
        THEN IF r.ackedUs THEN doLCPUp(ack) ELSE ack
        ELSE sendCP(r, Packet("LCP", "ConRej", m.id, m.ops \ Known, NoIP))

doConReq(s, m) ==
    LET r == [Renegotiate(s) EXCEPT !.authUp = IF "pap" \in m.ops THEN FALSE ELSE @]
        ack == [sendCP(r, Packet("LCP", "ConAck", m.id, m.ops, NoIP)) EXCEPT !.ackedThem = TRUE]
    IN  IF m.ops \subseteq Known
        THEN IF r.ackedUs
             THEN doLCPUp([ack EXCEPT !.ackedThem = FALSE, !.ackedUs = FALSE])
             ELSE ack
        ELSE sendCP(r, Packet("LCP", "ConRej", m.id, m.ops \ Known, NoIP))

doConAck(s, m) ==
    IF m.id # s.latestID THEN s
    ELSE IF s.ackedThem
         THEN doLCPUp([s EXCEPT !.ackedUs = FALSE, !.ackedThem = FALSE])
         ELSE [s EXCEPT !.ackedUs = TRUE]

doConRej(s, m) == conReq([s EXCEPT !.no = @ \cup (m.ops \cap LcpOptions)])

doEchoReq(s, m) == sendCP(s, Packet("LCP", "EchoRep", m.id, {}, NoIP))

doTerReq(s, m) ==
    setAlarm([sendCP(s, Packet("LCP", "TerAck", m.id, {}, NoIP))
              EXCEPT !.terminate = TRUE, !.lcpUp = FALSE, !.ackedThem = TRUE])

termPPP(s) == [s EXCEPT !.exited = "closed"]

doTerAck(s, m) == IF s.terminate /\ m.id = s.latestID THEN termPPP(s) ELSE s

-----------------------------------------------------------------------------
(* PAP and IPCP *)

doAuthAckPAP(s, m) == IF m.id = s.latestID THEN doLCPUp([s EXCEPT !.authUp = TRUE]) ELSE s

(* The user is asked for another name and password.                        *)
doAuthNakPAP(s, m) == doLCPUp(resetAlarm(s))

(* copyOp: options that are not known turn the answer into a ConRej and    *)
(* drop what it held; a zero address turns it into a ConNak.               *)
doConReqIP(s, m) ==
    IF m.ops # {} THEN sendCP(s, Packet("IPCP", "ConRej", m.id, m.ops, NoIP))
    ELSE IF m.ip = NoIP THEN sendCP(s, Packet("IPCP", "ConNak", m.id, {}, Gift))
    ELSE LET ack == [sendCP(s, Packet("IPCP", "ConAck", m.id, {}, m.ip)) EXCEPT !.ackedThem = TRUE]
         IN  IF s.ackedUs THEN doIPUp(ack) ELSE ack

doConNakIP(s, m) == doLCPUp([s EXCEPT !.localIP = m.ip])

doConAckIP(s, m) ==
    IF m.id # s.latestID THEN s
    ELSE LET acked == [s EXCEPT !.ackedUs = TRUE]
         IN  IF s.ackedThem THEN doIPUp(acked) ELSE acked

doConRejIPInsisting(s, m) == IF s.ackedUs THEN s ELSE conReqIP(s)

doConRejIP(s, m) ==
    LET r == [s EXCEPT !.nopdns = @ \/ "pdns" \in m.ops]
    IN  IF s.ackedUs THEN r ELSE conReqIP(r)

docp(s, m) ==
    CASE m.prot = "LCP" ->
            (CASE m.code = "ConReq" -> doConReq(s, m)
               [] m.code = "ConAck" -> doConAck(s, m)
               [] m.code = "ConRej" -> doConRej(s, m)
               [] m.code = "EchoReq" -> doEchoReq(s, m)
               [] m.code = "TerReq" -> doTerReq(s, m)
               [] m.code = "TerAck" -> doTerAck(s, m)
               [] OTHER -> s)
      [] m.prot = "IPCP" /\ s.lcpUp /\ s.authUp ->
            (CASE m.code = "ConReq" -> doConReqIP(s, m)
               [] m.code = "ConAck" -> doConAckIP(s, m)
               [] m.code = "ConNak" -> doConNakIP(s, m)
               [] m.code = "ConRej" -> doConRejIP(s, m)
               [] OTHER -> s)
      [] m.prot = "PAP" /\ s.lcpUp ->
            (CASE m.code = "ConAck" -> doAuthAckPAP(s, m)
               [] m.code = "ConNak" -> doAuthNakPAP(s, m)
               [] OTHER -> s)
      [] OTHER -> s

(* PMSG_Alarm in outThread.                                                *)
Alarmed(s) ==
    LET done == IF s.terminate
                THEN IF s.ackedThem THEN termPPP(s) ELSE terReq(s)
                ELSE IF ~s.lcpUp THEN conReq(s)
                ELSE IF ~s.authUp THEN authReqPAP(s) ELSE conReqIP(s)
    IN  IF s.timer THEN setAlarm(done) ELSE done

(* IO_CONTROL in outThread: the user closes the session.                   *)
Closed(s) == [terReq(setAlarm([s EXCEPT !.tcpIP = NoIP, !.terminate = TRUE]))
              EXCEPT !.lcpUp = FALSE, !.ackedThem = FALSE]

-----------------------------------------------------------------------------
(***************************************************************************)
(* The provider, a conforming peer: it answers each packet at once,        *)
(* repeats its own request when nothing else happens, asks for PAP (some   *)
(* ask for CHAP first), refuses the option pcomp, and starts again when    *)
(* it is sent a new LCP request.                                           *)
(***************************************************************************)
NewIsp == [mine |-> "chap", given |-> FALSE, authed |-> FALSE, ipmine |-> FALSE,
           naked |-> FALSE, gift |-> 2]

IspRequest(i) ==
    CASE i.mine = "chap" -> Packet("LCP", "ConReq", 0, {"async", "chap"}, NoIP)
      [] i.mine = "pap" -> Packet("LCP", "ConReq", 0, {"async", "pap"}, NoIP)
      [] OTHER -> Packet("IPCP", "ConReq", 0, {}, ProviderIP)

IspUp(i) == i.mine = "acked" /\ i.given

(* What the provider answers, and what it remembers.                       *)
IspAnswers(i, m) ==
    LET say(code, ops, ip) == <<Packet(m.prot, code, m.id, ops, ip)>>
    IN
    CASE m.prot = "LCP" /\ m.code = "ConReq" ->
            LET again == IF IspUp(i)
                         THEN [NewIsp EXCEPT !.mine = "pap", !.naked = i.naked, !.gift = 5 - i.gift]
                         ELSE i
                own == IF again.mine = "acked" THEN <<>> ELSE <<IspRequest(again)>>
            IN  IF "pcomp" \in m.ops
                THEN {<<again, own \o say("ConRej", {"pcomp"}, NoIP)>>}
                ELSE {<<[again EXCEPT !.given = TRUE], own \o say("ConAck", m.ops, NoIP)>>}
      [] m.prot = "LCP" /\ m.code = "ConAck" -> {<<[i EXCEPT !.mine = "acked"], <<>> >>}
      [] m.prot = "LCP" /\ m.code = "ConRej" ->
            LET pap == [i EXCEPT !.mine = "pap"] IN {<<pap, <<IspRequest(pap)>> >>}
      [] m.prot = "LCP" /\ m.code = "TerReq" -> {<<i, say("TerAck", {}, NoIP)>>}
      [] m.prot = "PAP" /\ IspUp(i) ->
            {<<[i EXCEPT !.authed = TRUE], say("ConAck", {}, NoIP)>>}
            \cup (IF i.naked \/ i.authed THEN {} ELSE {<<[i EXCEPT !.naked = TRUE], say("ConNak", {}, NoIP)>>})
      [] m.prot = "IPCP" /\ m.code = "ConReq" /\ i.authed ->
            IF m.ops # {} THEN {<<i, say("ConRej", m.ops, NoIP)>>}
            ELSE IF m.ip # i.gift THEN {<<i, say("ConNak", {}, i.gift)>>}
            ELSE {<<i, say("ConAck", {}, m.ip)>>}
      [] m.prot = "IPCP" /\ m.code = "ConAck" -> {<<[i EXCEPT !.ipmine = TRUE], <<>> >>}
      [] OTHER -> {<<i, <<>> >>}

-----------------------------------------------------------------------------
PppInit ==
    /\ ends \in {PppHosts, {CHOOSE h \in PppHosts : TRUE, Provider}}
    /\ trouble \in {0, MaxTrouble}
    /\ host = [h \in PppHosts |-> Fresh]
    /\ isp = NewIsp
    /\ line = [e \in PppHosts \cup {Provider} |-> <<>>]
    /\ alarms = <<>>
    /\ granted = [h \in PppHosts |-> {}]

(* The addresses that the packets of out acknowledge to the other end.     *)
Grants(e, out) ==
    LET ips == {out[i].ip : i \in {j \in 1..Len(out) : out[j].prot = "IPCP" /\ out[j].code = "ConAck"}}
    IN  [h \in PppHosts |-> IF h = Other(e) THEN granted[h] \cup ips ELSE granted[h]]

AlarmsBut(h) == SelectSeq(alarms, LAMBDA g : g # h)

(* Host h goes to the globals s and what it said goes out on the line;     *)
(* inbox is what is left on the line to h.                                 *)
Becomes(h, s, inbox) ==
    /\ s.latestID <= MaxID
    /\ Len(line[Other(h)]) + Len(s.out) <= MaxLine
    /\ host' = [host EXCEPT ![h] = [s EXCEPT !.out = <<>>, !.alarm = "kept"]]
    /\ alarms' = CASE s.exited # "no" -> AlarmsBut(h)   \* exit frees its timers
                   [] s.alarm = "set" -> Append(AlarmsBut(h), h)
                   [] s.alarm = "reset" -> AlarmsBut(h)
                   [] OTHER -> alarms
    /\ line' = [line EXCEPT ![h] = inbox, ![Other(h)] = @ \o s.out]
    /\ granted' = Grants(h, s.out)
    /\ UNCHANGED <<ends, trouble, isp>>

Running(h) == host[h].exited = "no"
Started(h) == host[h].latestID > 0

(* The first outThread starts: a request, and the alarm.                   *)
Start(h) ==
    /\ Running(h) /\ ~Started(h)
    /\ Becomes(h, setAlarm(conReq(host[h])), line[h])

Receive(h) ==
    /\ Running(h) /\ Started(h) /\ line[h] # <<>>
    /\ Becomes(h, docp(host[h], Head(line[h])), Tail(line[h]))

(* The timer ends and its pulse waits at the channel.  All timers run for  *)
(* 3 seconds, so they end in the order they were set.  On a good line that *)
(* is enough for every answer to arrive first, and the users start both    *)
(* ends within that time.                                                  *)
Quiet == \A e \in ends : line[e] = <<>>
AtRest == Quiet /\ \A h \in Hosts : Started(h) /\ ~host[h].pulse

TimerEnds(h) ==
    /\ ~host[h].pulse
    /\ h \in {alarms[i] : i \in 1..Len(alarms)}
    /\ \/ AtRest /\ h = Head(alarms) /\ trouble' = trouble
       \/ ~AtRest /\ Started(h) /\ trouble > 0 /\ trouble' = trouble - 1
    /\ host' = [host EXCEPT ![h].pulse = TRUE]
    /\ alarms' = AlarmsBut(h)
    /\ UNCHANGED <<ends, isp, line, granted>>

Alarm(h) ==
    /\ Running(h) /\ host[h].pulse
    /\ Becomes(h, Alarmed([host[h] EXCEPT !.pulse = FALSE]), line[h])

(* The user of one end closes the session; MayClose bounds it to once.     *)
MayClose == \A h \in Hosts : ~host[h].terminate

Close(h) ==
    /\ Running(h) /\ host[h].ipUp /\ MayClose
    /\ Becomes(h, Closed(host[h]), line[h])

(* A frame is lost, or its check sum is bad, or nobody runs at its end.    *)
Lose(e) ==
    /\ line[e] # <<>>
    /\ IF e \in PppHosts /\ ~(Running(e) /\ Started(e))
       THEN trouble' = trouble
       ELSE trouble > 0 /\ trouble' = trouble - 1
    /\ line' = [line EXCEPT ![e] = Tail(@)]
    /\ UNCHANGED <<ends, host, isp, alarms, granted>>

ProviderReceives ==
    /\ Provider \in ends /\ line[Provider] # <<>>
    /\ \E a \in IspAnswers(isp, Head(line[Provider])) :
          /\ isp' = a[1]
          /\ Len(line[Other(Provider)]) + Len(a[2]) <= MaxLine
          /\ line' = [line EXCEPT ![Provider] = Tail(@), ![Other(Provider)] = @ \o a[2]]
          /\ granted' = Grants(Provider, a[2])
    /\ UNCHANGED <<ends, trouble, host, alarms>>

ProviderRepeats ==
    /\ Provider \in ends /\ Quiet
    /\ \/ /\ ~isp.ipmine /\ (isp.mine = "acked" => isp.given /\ isp.authed)
          /\ line' = [line EXCEPT ![Other(Provider)] = <<IspRequest(isp)>>]
       \/ /\ isp.ipmine
          /\ line' = [line EXCEPT ![Other(Provider)] = <<Packet("LCP", "EchoReq", 0, {}, NoIP)>>]
    /\ UNCHANGED <<ends, trouble, host, isp, alarms, granted>>

PppNext ==
    \/ \E h \in Hosts : Start(h) \/ Receive(h) \/ TimerEnds(h) \/ Alarm(h) \/ Close(h)
    \/ \E e \in ends : Lose(e)
    \/ ProviderReceives
    \/ ProviderRepeats

PppSpec == PppInit /\ [][PppNext]_pppVars

(* Every thread that has a message gets to handle it, every timer that     *)
(* runs ends, and the provider does its part.                              *)
PppFairness ==
    /\ \A h \in PppHosts : /\ WF_pppVars(h \in ends /\ Start(h))
                           /\ WF_pppVars(h \in ends /\ Receive(h))
                           /\ WF_pppVars(h \in ends /\ TimerEnds(h))
                           /\ WF_pppVars(h \in ends /\ Alarm(h))
    /\ \A e \in PppHosts \cup {Provider} : WF_pppVars(e \in ends /\ Lose(e) /\ trouble' = trouble)
    /\ WF_pppVars(ProviderReceives)
    /\ WF_pppVars(ProviderRepeats)

-----------------------------------------------------------------------------
(* The globals, the line and its troubles keep their types.                *)
PppTypeOK ==
    /\ ends \subseteq PppHosts \cup {Provider}
    /\ host \in [PppHosts -> Globals]
    /\ trouble \in 0..MaxTrouble
    /\ \A e \in ends : Len(line[e]) <= MaxLine

Up(h) == host[h].ipUp

(* While the link is up TCP/IP has the address of the driver's last        *)
(* request, and it is one that the other end acknowledged: no late ConNak, *)
(* no acknowledgement of an earlier request and no renegotiation brings    *)
(* another one up (doIPUp, doConAckIP, doConNakIP).                        *)
AddressGranted ==
    /\ PppTypeOK
    /\ \A h \in Hosts : Up(h) /\ ~host[h].terminate =>
          /\ host[h].tcpIP = host[h].localIP
          /\ host[h].tcpIP \in granted[h] \ {NoIP}

(* On a line that loses nothing the session comes up by itself, between    *)
(* two WiNGs machines as well as with a provider that wants PAP, CHAP      *)
(* first or a second password (doConReq, doConAck, doLCPUp, doAuthNakPAP,  *)
(* doConRejIP, doConNakIP, doIPUp).                                        *)
ComesUp == PppFairness => (trouble = 0 => \A h \in PppHosts : <>(h \in ends => Up(h)))

(* On such a line a session that one end closes ends at both: neither is   *)
(* left repeating its TerReq (outThread IO_CONTROL, doTerReq, doTerAck).   *)
ClosesDown ==
    PppFairness =>
        (trouble = 0 => \A h \in PppHosts : (h \in ends /\ host[h].terminate) ~> (host[h].exited = "closed"))

(* A phase without an alarm would hang, one with an alarm too many would   *)
(* start again for ever (setAlarm, resetAlarm and every handler).          *)
LinkSettles == ComesUp /\ ClosesDown
=============================================================================
