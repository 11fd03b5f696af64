----------------------------- MODULE MailSessions -----------------------------
(***************************************************************************)
(* The POP3 sessions of src/programs/inetapps/mail/start.c.  The reader's  *)
(* main thread and one mailwatch thread for each account that is watched   *)
(* share one connection fp and one line buffer under the mutex             *)
(* exclservercon, which is taken in establishconnection and given back in  *)
(* terminateconnection.  The threads find their work in a list of nodes.   *)
(***************************************************************************)
EXTENDS Queues

CONSTANTS
    Accounts,      \* mail accounts
    MaxStarts,     \* bound on the watches ever started
    MaxFailures    \* bound on the connects that fail

ASSUME SessionAssumption == MaxStarts \in Nat /\ MaxFailures \in Nat

VARIABLES
    holder,        \* who has exclservercon
    fp,            \* who opened the connection that fp is, or nobody
    stage,         \* stage[t]: where thread t is
    errand,        \* errand[t]: what it talks to the server for
    headmailwatch, \* the list of nodes
    node,          \* node[t]: the node of a mailwatch thread, mw_s
    account,       \* account[n]: the account of node n
    cancelled,     \* the nodes with cancelmailcheck set
    freed,         \* the nodes given back to malloc
    failures       \* connects that failed

sessionVars == <<holder, fp, stage, errand, headmailwatch, node, account,
                 cancelled, freed, failures>>

Nobody == 0
Main == MaxStarts + 1
Watchers == 1..MaxStarts    \* a thread has the number of the start that made it
Threads == Watchers \cup {Main}

listVars == <<headmailwatch, node, account, cancelled, freed>>

SessionInit ==
    /\ holder = Nobody /\ fp = Nobody
    /\ stage = [t \in Threads |-> IF t = Main THEN "idle" ELSE "unborn"]
    /\ errand = [t \in Threads |-> "none"]
    /\ headmailwatch = <<>>
    /\ node = [t \in Watchers |-> Nobody]
    /\ account = <<>>
    /\ cancelled = {} /\ freed = {} /\ failures = 0

Goes(t, s) == stage' = [stage EXCEPT ![t] = s]

-----------------------------------------------------------------------------
(* Sessions *)

getMutexFree(t) ==
    /\ stage[t] = "lock"
    /\ holder' = t /\ Goes(t, "connect")
    /\ UNCHANGED <<fp, errand, failures>> /\ UNCHANGED listVars

(* establishconnection, up to getMutex.                                    *)
getMutex(t) ==
    /\ stage[t] = "lock" /\ holder = Nobody
    /\ holder' = t /\ Goes(t, "connect")
    /\ UNCHANGED <<fp, errand, failures>> /\ UNCHANGED listVars

(* fopen, and then USER and PASS; if nobody answers at the address the     *)
(* function returns without relMutex, and the caller without anything.     *)
Connect(t) ==
    /\ stage[t] = "connect"
    /\ \/ fp' = t /\ Goes(t, "login") /\ UNCHANGED failures
       \/ /\ failures < MaxFailures /\ failures' = failures + 1
          /\ fp' = Nobody /\ Goes(t, "idle")
    /\ UNCHANGED <<holder, errand>> /\ UNCHANGED listVars

(* QUIT, fclose and relMutex, and on to the stage s.                       *)
HangsUpOn(t, s) ==
    /\ fp' = Nobody /\ holder' = Nobody
    /\ Goes(t, s)

(* A wrong password ends the session.                                      *)
Login(t) ==
    /\ stage[t] = "login"
    /\ \/ Goes(t, "list") /\ UNCHANGED <<holder, fp>>
       \/ HangsUpOn(t, "idle")
    /\ UNCHANGED <<errand, failures>> /\ UNCHANGED listVars

newmailcheckKeeping(t) ==
    /\ stage[t] = "list" /\ errand[t] \in {"new", "watch"}
    /\ \/ Goes(t, "idle") /\ UNCHANGED <<holder, fp>>
       \/ Goes(t, "info") /\ UNCHANGED <<holder, fp>>
    /\ UNCHANGED <<errand, failures>> /\ UNCHANGED listVars

(* newmailcheck: LIST n is refused, or there is something new.             *)
newmailcheck(t) ==
    /\ stage[t] = "list" /\ errand[t] \in {"new", "watch"}
    /\ \/ HangsUpOn(t, "idle")
       \/ Goes(t, "info") /\ UNCHANGED <<holder, fp>>
    /\ UNCHANGED <<errand, failures>> /\ UNCHANGED listVars

(* getnewmsgsinfo hands the connection on, unless fewer messages are there *)
(* than it thought.                                                        *)
getnewmsgsinfo(t) ==
    /\ stage[t] = "info" /\ errand[t] = "new"
    /\ \/ HangsUpOn(t, "idle")
       \/ Goes(t, "fetch") /\ UNCHANGED <<holder, fp>>
    /\ UNCHANGED <<errand, failures>> /\ UNCHANGED listVars

(* getnewmail: the messages, QUIT, and if they were deleted a session of   *)
(* its own to count what is left.                                          *)
FetchesMail(t) ==
    /\ stage[t] = "fetch"
    /\ \/ HangsUpOn(t, "idle") /\ UNCHANGED errand
       \/ HangsUpOn(t, "lock") /\ errand' = [errand EXCEPT ![t] = "count"]
    /\ UNCHANGED failures /\ UNCHANGED listVars

(* countservermessages, in a session of its own or in that of mailwatch.   *)
countservermessages(t) ==
    /\ <<stage[t], errand[t]>> \in {<<"list", "count">>, <<"info", "watch">>}
    /\ HangsUpOn(t, "idle")
    /\ UNCHANGED <<errand, failures>> /\ UNCHANGED listVars

(* Key 'N' in the INBOX, and 'h' in the settings.                          *)
UserConnects ==
    /\ stage[Main] = "idle"
    /\ \E e \in {"new", "count"} : errand' = [errand EXCEPT ![Main] = e]
    /\ Goes(Main, "lock")
    /\ UNCHANGED <<holder, fp, failures>> /\ UNCHANGED listVars

-----------------------------------------------------------------------------
(* Watches *)

Nodes == On(headmailwatch)
Watched == {account[n] : n \in Nodes}

(* The user takes longer over the questions of startmailwatch and          *)
(* stopmailwatch than a new thread takes to find its node.                 *)
Settled == \A t \in Watchers : stage[t] # "start"

(* The inbox screen starts a watch on an account that has none ...         *)
startmailwatch ==
    /\ stage[Main] = "idle" /\ Settled
    /\ Len(account) < MaxStarts
    /\ \E a \in Accounts \ Watched :
          /\ account' = Append(account, a)
          /\ headmailwatch' = Append(headmailwatch, Len(account'))
          /\ Goes(Len(account'), "start")
    /\ UNCHANGED <<holder, fp, errand, node, cancelled, freed, failures>>

TakesHead(t) ==
    /\ stage[t] = "start"
    /\ node' = [node EXCEPT ![t] = headmailwatch[1]]
    /\ Goes(t, "idle")
    /\ UNCHANGED <<holder, fp, errand, headmailwatch, account, cancelled, freed, failures>>

(* ... and the thread takes the last node of the list.                     *)
TakesNode(t) ==
    /\ stage[t] = "start"
    /\ node' = [node EXCEPT ![t] = headmailwatch[Len(headmailwatch)]]
    /\ Goes(t, "idle")
    /\ UNCHANGED <<holder, fp, errand, headmailwatch, account, cancelled, freed, failures>>

stopmailwatch ==
    /\ stage[Main] = "idle" /\ Settled
    /\ \E n \in Nodes :
          /\ headmailwatch' = Without(headmailwatch, n)
          /\ cancelled' = cancelled \cup {n}
    /\ UNCHANGED <<holder, fp, stage, errand, node, account, freed, failures>>

(* The alarm of a mailwatch thread: it ends if it has been cancelled.      *)
mailwatch(t) ==
    /\ stage[t] = "idle"
    /\ \/ /\ node[t] \in cancelled
          /\ freed' = freed \cup {node[t]}
          /\ Goes(t, "ended")
          /\ UNCHANGED errand
       \/ /\ node[t] \notin cancelled
          /\ Goes(t, "lock") /\ errand' = [errand EXCEPT ![t] = "watch"]
          /\ UNCHANGED freed
    /\ UNCHANGED <<holder, fp, headmailwatch, node, account, cancelled, failures>>

InSession(t) ==
    \/ getMutex(t) \/ Connect(t) \/ Login(t) \/ newmailcheck(t)
    \/ getnewmsgsinfo(t) \/ FetchesMail(t) \/ countservermessages(t)

SessionNext ==
    \/ \E t \in Threads : InSession(t)
    \/ UserConnects \/ startmailwatch \/ stopmailwatch
    \/ \E t \in Watchers : TakesNode(t) \/ mailwatch(t)

SessionSpec == SessionInit /\ [][SessionNext]_sessionVars

(* The server answers, alarms end, and the mutex goes to who waits longest. *)
SessionFairness ==
    /\ \A t \in Threads : SF_sessionVars(InSession(t))
    /\ \A t \in Watchers : WF_sessionVars(TakesNode(t) \/ mailwatch(t))

-----------------------------------------------------------------------------
Talking == {"login", "list", "info", "fetch"}

(* Each node in the list has one thread of its own, which is there as long *)
(* as the node is; nobody keeps a node that was freed.                     *)
WatchedOnce ==
    /\ \A n \in Nodes : n \notin freed
    /\ Settled => \A n \in Nodes :
          Cardinality({t \in Watchers : node[t] = n /\ stage[t] # "ended"}) = 1
    /\ \A t \in Watchers : node[t] \in freed => stage[t] = "ended"

(* Whoever reads a line from fp opened it and holds the mutex, so that no  *)
(* thread gets the answer to another's command or closes its connection;   *)
(* and the mutex is held by nobody else, but for one whose connect failed  *)
(* (establishconnection, terminateconnection and all their callers).       *)
(* Every watch has a thread and every thread its own watch.                *)
OwnSession ==
    /\ WatchedOnce
    /\ \A t \in Threads : stage[t] \in Talking => fp = t /\ holder = t
    /\ holder # Nobody /\ failures = 0 => stage[holder] \in Talking \cup {"connect"}

(* As long as every connect succeeds, every session begun comes to its end *)
(* and so does a watch once it is stopped: no path through the program     *)
(* keeps the mutex.                                                        *)
SessionsEnd ==
    SessionFairness => \A t \in Threads : stage[t] = "lock" ~> (stage[t] \in {"idle", "ended"} \/ failures > 0)
=============================================================================
