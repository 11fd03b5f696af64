------------------------------ MODULE MCNetwork ------------------------------
(***************************************************************************)
(* The programs that talk to other machines, and the pipe server between   *)
(* two that do not, each by itself: one of them runs and the others are    *)
(* over, in a state in which nothing is left to do.                        *)
(* The liveness properties have the fairness of their program as premise.  *)
(***************************************************************************)
EXTENDS Ppp, Telnetd, Httpd, NetDisk, Pipe

CONSTANTS wings1, wings2, provider

TwoHosts == {wings1, wings2}

Wants(n) ==
    IF n = 1 THEN {[method |-> "POST", kind |-> "file"]}
    ELSE {[method |-> "GET", kind |-> "script"], [method |-> "GET", kind |-> "none"]}

VARIABLE program

PppOver ==
    /\ ends = {} /\ trouble = 0 /\ alarms = <<>> /\ isp = NewIsp
    /\ host = [h \in PppHosts |-> Fresh]
    /\ line = [e \in PppHosts \cup {Provider} |-> <<>>]
    /\ granted = [h \in PppHosts |-> {}]

TelnetOver ==
    /\ cons = <<>> /\ conup = MaxCons /\ notices = <<>> /\ arrived = 0 /\ lost = {}
    /\ con = [n \in Nums |-> [e \in Ends |-> NewEnd]]
    /\ loop = [at |-> "wait", cur |-> 1, done |-> TRUE]

HttpOver ==
    /\ webs = <<>> /\ visits = MaxVisits /\ httpNotices = <<>>
    /\ web = [n \in Visits |-> [NewWeb EXCEPT !.state = "CLOSED"]]
    /\ visitor = [n \in Visits |-> [wants |-> CHOOSE r \in Wants(n) : TRUE, tosend |-> <<>>, onway |-> <<>>,
                                    got |-> <<>>, room |-> TRUE, readAsked |-> FALSE, writeAsked |-> FALSE,
                                    left |-> TRUE]]
    /\ httpLoop = [at |-> "wait", cur |-> 1, done |-> TRUE]

DiskOver ==
    /\ user = NoRequest /\ at = "idle" /\ got = NoRequest /\ com = <<>>
    /\ toServer = <<>> /\ toClient = <<>> /\ serving = TRUE /\ buffer = Empty /\ short = 0
    /\ image = [b \in DiskBlocks |-> [i \in 1..BlkSize |-> 0]]

PipeOver ==
    /\ inode = [HasRW |-> {}, RRcv |-> NoClient, RLen |-> 0,
                WRcv |-> NoClient, WPtr |-> 0, WLeft |-> 0, WDone |-> 0]
    /\ finishing = <<>> /\ sender = <<>> /\ died = <<>> /\ files = {} /\ taken = <<>>
    /\ client = [c \in Clients |-> "gone"] /\ process = [c \in Clients |-> "over"]
    /\ message = [c \in Clients |-> NoMessage] /\ told = [c \in Clients |-> 0]

NetworkInit ==
    /\ program \in {"ppp", "telnetd", "httpd", "netdisk", "pipe"}
    /\ IF program = "ppp" THEN PppInit ELSE PppOver
    /\ IF program = "telnetd" THEN TelnetInit ELSE TelnetOver
    /\ IF program = "httpd" THEN HttpInit ELSE HttpOver
    /\ IF program = "netdisk" THEN DiskInit ELSE DiskOver
    /\ IF program = "pipe" THEN PipeInit ELSE PipeOver

NetworkNext ==
    \/ program = "ppp" /\ PppNext /\ UNCHANGED <<program, telnetVars, httpVars, diskVars, pipeVars>>
    \/ program = "telnetd" /\ TelnetNext /\ UNCHANGED <<program, pppVars, httpVars, diskVars, pipeVars>>
    \/ program = "httpd" /\ HttpNext /\ UNCHANGED <<program, pppVars, telnetVars, diskVars, pipeVars>>
    \/ program = "netdisk" /\ DiskNext /\ UNCHANGED <<program, pppVars, telnetVars, httpVars, pipeVars>>
    \/ program = "pipe" /\ PipeNext /\ UNCHANGED <<program, pppVars, telnetVars, httpVars, diskVars>>

NetworkSpec ==
    /\ NetworkInit
    /\ [][NetworkNext]_<<program, pppVars, telnetVars, httpVars, diskVars, pipeVars>>
=============================================================================
