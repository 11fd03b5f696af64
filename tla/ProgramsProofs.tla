---------------------------- MODULE ProgramsProofs ----------------------------
(***************************************************************************)
(* What is proved of the programs that stay on one machine: the            *)
(* window manager, the taskbar and the window driver never wait in a circle, *)
(* the mail reader's threads keep out of each other's sessions, and the     *)
(* mutex they all take from the C library counts its threads wherever they *)
(* lose the processor.                                                     *)
(***************************************************************************)
EXTENDS WinMan, MailSessions, MailBoxes, Mutex, QueuesProofs

-----------------------------------------------------------------------------
(* The window manager, the taskbar and the window driver *)

(* What is in the scripts of each thread, apart from sends.                *)
Inside(t) ==
    CASE t = Driver -> {}
      [] t = Manager -> {"draw", "list", "focus", "unlist", "forget", "infocus"}
      [] t = ManListener -> {"draw", "focus", "infocus", "newthread"}
      [] t = Taskbar -> {"draw"}
      [] t = BarListener -> {"newthread"}
      [] t = GetRunning -> {}
      [] OTHER -> {"draw", "focus", "infocus", "additem", "remitem", "find"}

(* Whom it sends to: no server to one that may wait for it.                *)
SendsTo(t) ==
    CASE t = Driver -> {ManListener}
      [] t = Manager -> {BarListener}
      [] t = ManListener -> {Manager, BarListener}
      [] t = Taskbar -> {ManListener}
      [] t = BarListener -> {}
      [] t = GetRunning -> {Taskbar, ManListener}
      [] OTHER -> {Taskbar, BarListener}

Doing == {"send", "draw", "list", "focus", "unlist", "forget", "infocus", "newthread",
          "additem", "remitem", "find"}
Codes == {"", "refresh", "position", "getall", "getnum", "setcol", "infocus", "newitem", "killed",
          "minimized", "nextwin", "focus"}
Steps == [do : Doing, to : 0..5, code : Codes, win : Windows \cup {None}]

May(t) ==
    {x \in Steps :
        IF x.do = "send"
        THEN /\ x.to \in SendsTo(t)
             /\ x.to = ManListener =>
                  CASE t = Driver -> x.code = "nextwin"
                    [] t = Taskbar -> x.code = "infocus"
                    [] OTHER -> x.code \in {"position", "getall", "getnum"}
             /\ x.code = "getall" => t = GetRunning /\ x.to = ManListener
        ELSE x.do \in Inside(t) /\ x.to = None}

WinTypes ==
    /\ script = [t \in WinThreads |-> script[t]] /\ \A t \in WinThreads : script[t] \in Seq(May(t))
    /\ asked \in [WinThreads -> BOOLEAN]
    /\ chan \in [Servers -> Seq(WinThreads)]
    /\ taken \in [Servers -> WinThreads \cup {None}]
    /\ winList \subseteq Windows \cup {None} /\ IsFiniteSet(winList) /\ items \subseteq Windows \cup {None}

(* A message of t to s.                                                    *)
HasAsked(t, s) == asked[t] /\ script[t] # <<>> /\ First(t).do = "send" /\ First(t).to = s

(* Who waits at a channel or has been taken from it has sent there; and the *)
(* manager's listener is busy with a message only.                         *)
Mail ==
    /\ \A s \in Servers :
         /\ Distinct(chan[s])
         /\ \A t \in On(chan[s]) : HasAsked(t, s) /\ t # taken[s]
         /\ taken[s] # None => HasAsked(taken[s], s)
    /\ \A t \in WinThreads : asked[t] => script[t] # <<>> /\ First(t).do = "send"
    /\ script[ManListener] # <<>> => taken[ManListener] # None

(* While the key is down nobody else has anything to send to the listener.  *)
OnlyTheKey ==
    KeyPressed =>
        /\ taken[ManListener] \in {None, Driver}
        /\ \A i \in 1..Len(script[ManListener]) : script[ManListener][i].do = "newthread"
        /\ \A t \in {Taskbar, GetRunning} : \A i \in 1..Len(script[t]) : script[t][i].to # ManListener

WinInv == WinTypes /\ Mail /\ OnlyTheKey

LEMMA WinThreadsAre ==
    /\ {Driver, Manager, ManListener, Taskbar, BarListener} = Servers
    /\ Servers \subseteq WinThreads /\ GetRunning \in WinThreads /\ Workers \subseteq WinThreads
    /\ GetRunning \notin Servers /\ Workers \cap Servers = {} /\ GetRunning \notin Workers
    /\ None \notin WinThreads /\ Servers \subseteq 0..5 /\ None \in 0..5 /\ None \notin Servers
    /\ Driver # Manager /\ Driver # ManListener /\ Driver # Taskbar /\ Driver # BarListener
    /\ Manager # ManListener /\ Manager # Taskbar /\ Manager # BarListener
    /\ ManListener # Taskbar /\ ManListener # BarListener /\ Taskbar # BarListener
    /\ \A t \in WinThreads : t \in Servers \/ t = GetRunning \/ t \in Workers
<1>1. MaxWorkers \in Nat
  BY WinAssumption
<1>2. \A t \in Workers : t \in Nat /\ t > 6
  BY <1>1 DEF Workers
<1>3. Servers = {1, 2, 3, 4, 5}
  BY DEF Servers
<1>4. QED BY <1>1, <1>2, <1>3 DEF WinThreads, GetRunning, Driver, Manager, ManListener, Taskbar, BarListener, None

(* Each thread's own steps and partners.                                   *)
LEMMA Partners ==
    /\ Inside(Driver) = {} /\ SendsTo(Driver) = {ManListener}
    /\ Inside(Manager) = {"draw", "list", "focus", "unlist", "forget", "infocus"} /\ SendsTo(Manager) = {BarListener}
    /\ Inside(ManListener) = {"draw", "focus", "infocus", "newthread"} /\ SendsTo(ManListener) = {Manager, BarListener}
    /\ Inside(Taskbar) = {"draw"} /\ SendsTo(Taskbar) = {ManListener}
    /\ Inside(BarListener) = {"newthread"} /\ SendsTo(BarListener) = {}
    /\ Inside(GetRunning) = {} /\ SendsTo(GetRunning) = {Taskbar, ManListener}
    /\ \A t \in Workers : /\ Inside(t) = {"draw", "focus", "infocus", "additem", "remitem", "find"}
                          /\ SendsTo(t) = {Taskbar, BarListener}
    /\ \A t \in WinThreads : Driver \notin SendsTo(t) /\ SendsTo(t) \subseteq Servers
<1>1. /\ Inside(Driver) = {} /\ SendsTo(Driver) = {ManListener}
      /\ Inside(Manager) = {"draw", "list", "focus", "unlist", "forget", "infocus"} /\ SendsTo(Manager) = {BarListener}
      /\ Inside(ManListener) = {"draw", "focus", "infocus", "newthread"} /\ SendsTo(ManListener) = {Manager, BarListener}
  BY WinThreadsAre DEF Inside, SendsTo
<1>2. /\ Inside(Taskbar) = {"draw"} /\ SendsTo(Taskbar) = {ManListener}
      /\ Inside(BarListener) = {"newthread"} /\ SendsTo(BarListener) = {}
      /\ Inside(GetRunning) = {} /\ SendsTo(GetRunning) = {Taskbar, ManListener}
  BY WinThreadsAre DEF Inside, SendsTo
<1>3. ASSUME NEW t \in Workers
      PROVE  /\ Inside(t) = {"draw", "focus", "infocus", "additem", "remitem", "find"}
             /\ SendsTo(t) = {Taskbar, BarListener}
  <2>1. t # Driver /\ t # Manager /\ t # ManListener /\ t # Taskbar /\ t # BarListener /\ t # GetRunning
    BY WinThreadsAre
  <2>2. QED BY <2>1 DEF Inside, SendsTo
<1>4. ASSUME NEW t \in WinThreads PROVE Driver \notin SendsTo(t) /\ SendsTo(t) \subseteq Servers
  <2>1. \/ t \in {Driver, Manager, ManListener, Taskbar, BarListener} \/ t = GetRunning \/ t \in Workers
    BY WinThreadsAre
  <2>2. QED BY <1>1, <1>2, <1>3, <2>1, WinThreadsAre
<1>5. QED BY <1>1, <1>2, <1>3, <1>4

LEMMA ToListener ==
    \A t \in WinThreads : ManListener \in SendsTo(t) => t \in {Driver, Taskbar, GetRunning}
<1>1. SUFFICES ASSUME NEW t \in WinThreads, ManListener \in SendsTo(t)
               PROVE  t \in {Driver, Taskbar, GetRunning}
  OBVIOUS
<1>2. t # Manager /\ t # ManListener /\ t # BarListener /\ t \notin Workers
  BY <1>1, Partners, WinThreadsAre
<1>3. t \in Servers => t \in {Driver, Manager, ManListener, Taskbar, BarListener}
  BY WinThreadsAre
<1>4. t \in Servers \/ t = GetRunning \/ t \in Workers
  BY WinThreadsAre
<1>5. QED BY <1>2, <1>3, <1>4

LEMMA StepIn ==
    ASSUME NEW t, NEW d \in Inside(t), d \in Doing, d # "send", NEW w \in Windows \cup {None}
    PROVE  Step(d, w) \in May(t) /\ Step(d, w).to = None /\ Step(d, w).do = d
BY WinThreadsAre DEF Step, May, Steps, Codes

LEMMA DrawIn ==
    ASSUME NEW t, "draw" \in Inside(t)
    PROVE  Draw \in May(t) /\ Draw.to = None /\ Draw.do = "draw"
BY StepIn DEF Draw, Doing

LEMMA NewThreadIn ==
    ASSUME NEW t, "newthread" \in Inside(t), NEW code \in Codes, NEW w \in Windows \cup {None}
    PROVE  NewThread(code, w) \in May(t) /\ NewThread(code, w).do = "newthread"
BY WinThreadsAre DEF NewThread, May, Steps, Doing

LEMMA SendIn ==
    ASSUME NEW t, NEW s \in SendsTo(t), s \in Servers, NEW code \in Codes, NEW w \in Windows \cup {None},
           s # ManListener, code # "getall"
    PROVE  Send(s, code, w) \in May(t)
BY WinThreadsAre DEF Send, May, Steps, Doing

LEMMA Joined ==
    ASSUME NEW S, NEW a \in Seq(S), NEW b \in Seq(S)
    PROVE  a \o b \in Seq(S)
OBVIOUS

LEMMA FirstIs ==
    ASSUME WinTypes, NEW t \in WinThreads, script[t] # <<>>
    PROVE  /\ First(t) \in May(t) /\ First(t) \in Steps /\ First(t) = script[t][1]
           /\ Len(script[t]) \in Nat \ {0} /\ 1 \in 1..Len(script[t])
           /\ Left(t) \in Seq(May(t)) /\ Len(Left(t)) \in Nat
           /\ \A i \in 1..Len(Left(t)) : i + 1 \in 1..Len(script[t]) /\ Left(t)[i] = script[t][i + 1]
           /\ First(t).do = "send" => First(t).to \in SendsTo(t) /\ First(t).to \in Servers
           /\ First(t).do # "send" => First(t).do \in Inside(t) /\ First(t).to = None
           /\ First(t).win \in Windows \cup {None} /\ First(t).code \in Codes
<1>1. PICK q \in Seq(May(t)) : q = script[t]
  BY DEF WinTypes
<1>2. q # <<>> /\ First(t) = Head(q) /\ Left(t) = Tail(q)
  BY <1>1 DEF First, Left
<1>3. /\ Head(q) = q[1] /\ q[1] \in May(t) /\ Len(q) \in Nat \ {0} /\ 1 \in 1..Len(q)
      /\ Tail(q) \in Seq(May(t)) /\ Len(Tail(q)) = Len(q) - 1
      /\ \A i \in 1..Len(Tail(q)) : i + 1 \in 1..Len(q) /\ Tail(q)[i] = q[i + 1]
  BY <1>2
<1>4. First(t) \in May(t)
  BY <1>2, <1>3
<1>5. /\ First(t) \in Steps
      /\ First(t).do = "send" => First(t).to \in SendsTo(t)
      /\ First(t).do # "send" => First(t).do \in Inside(t) /\ First(t).to = None
  BY <1>4 DEF May
<1>6. First(t).win \in Windows \cup {None} /\ First(t).code \in Codes
  BY <1>5 DEF Steps
<1>7. QED BY <1>1, <1>2, <1>3, <1>4, <1>5, <1>6, Partners

LEMMA Asker ==
    ASSUME WinInv, NEW t \in WinThreads, NEW r \in Servers, HasAsked(t, r)
    PROVE  /\ script[t] # <<>> /\ r \in SendsTo(t) /\ r # Driver /\ First(t) \in May(t)
           /\ KeyPressed /\ r = ManListener => t = Driver
<1>1. script[t] # <<>> /\ First(t).do = "send" /\ First(t).to = r /\ WinTypes
  BY DEF HasAsked, WinInv
<1>2. First(t) \in May(t) /\ r \in SendsTo(t) /\ First(t) = script[t][1] /\ 1 \in 1..Len(script[t])
  BY <1>1, FirstIs
<1>3. r # Driver
  BY <1>2, Partners
<1>4. ASSUME KeyPressed, r = ManListener, t # Driver PROVE FALSE
  <2>1. t \in {Taskbar, GetRunning}
    BY <1>2, <1>4, ToListener
  <2>2. QED BY <1>1, <1>2, <1>4, <2>1 DEF WinInv, OnlyTheKey
<1>5. QED BY <1>1, <1>2, <1>3, <1>4

(* A step of a thread that waits for no answer leaves the messages alone.   *)
LEMMA MailStays ==
    ASSUME WinInv, UNCHANGED <<asked, chan, taken>>,
           \A t \in WinThreads : asked[t] => script'[t] = script[t],
           script'[ManListener] # <<>> => script[ManListener] # <<>>
    PROVE  Mail'
<1>1. \A t \in WinThreads : First(t)' = IF script'[t] = script[t] THEN First(t) ELSE Head(script'[t])
  BY DEF First
<1>2. ASSUME NEW r \in Servers
      PROVE  /\ Distinct(chan[r])
             /\ \A t \in On(chan[r]) : HasAsked(t, r)' /\ t # taken[r]
             /\ taken[r] # None => HasAsked(taken[r], r)'
  <2>1. On(chan[r]) \subseteq WinThreads /\ taken[r] \in WinThreads \cup {None}
    BY OnMember DEF WinInv, WinTypes
  <2>2. \A t \in WinThreads : HasAsked(t, r) => HasAsked(t, r)'
    BY <1>1 DEF HasAsked
  <2>3. QED BY <2>1, <2>2 DEF WinInv, Mail
<1>3. \A t \in WinThreads : asked[t] => script'[t] # <<>> /\ First(t)'.do = "send"
  BY <1>1 DEF WinInv, Mail
<1>4. QED BY <1>2, <1>3 DEF WinInv, Mail

LEMMA SendsKeeps ==
    ASSUME WinInv, NEW t \in WinThreads, Sends(t)
    PROVE  WinInv'
<1>1. /\ script[t] # <<>> /\ ~ asked[t] /\ First(t).do = "send"
      /\ asked' = [asked EXCEPT ![t] = TRUE]
      /\ chan' = [chan EXCEPT ![First(t).to] = Append(@, t)]
      /\ UNCHANGED <<script, taken, winList, LastFoc, items>>
  BY DEF Sends, Does
<1>2. WinTypes
  BY DEF WinInv
<1>3. PICK r \in Servers : r = First(t).to
  BY <1>1, <1>2, FirstIs
<1>4. /\ asked \in [WinThreads -> BOOLEAN] /\ chan \in [Servers -> Seq(WinThreads)]
      /\ taken \in [Servers -> WinThreads \cup {None}]
  BY <1>2 DEF WinTypes
<1>5. /\ asked' \in [WinThreads -> BOOLEAN] /\ asked'[t] /\ \A u \in WinThreads \ {t} : asked'[u] = asked[u]
      /\ chan'[r] = Append(chan[r], t) /\ \A q \in Servers \ {r} : chan'[q] = chan[q]
      /\ chan' = [q \in Servers |-> chan'[q]]
  BY <1>1, <1>3, <1>4
<1>6. t \notin On(chan[r]) /\ \A q \in Servers : t \notin On(chan[q]) /\ t # taken[q]
  <2>1. ASSUME NEW q \in Servers PROVE t \notin On(chan[q]) /\ t # taken[q]
    <3>1. \A u \in On(chan[q]) : asked[u]
      BY DEF WinInv, Mail, HasAsked
    <3>2. taken[q] # None => asked[taken[q]]
      BY DEF WinInv, Mail, HasAsked
    <3>3. QED BY <1>1, <3>1, <3>2, WinThreadsAre
  <2>2. QED BY <2>1
<1>7. Append(chan[r], t) \in Seq(WinThreads) /\ On(Append(chan[r], t)) = On(chan[r]) \cup {t} /\ Distinct(Append(chan[r], t))
  BY <1>4, <1>6, AppendLinks DEF WinInv, Mail
<1>8. chan' \in [Servers -> Seq(WinThreads)]
  BY <1>4, <1>5, <1>7
<1>9. WinTypes'
  <2>1. /\ script' = [u \in WinThreads |-> script'[u]] /\ \A u \in WinThreads : script'[u] \in Seq(May(u))
    BY SMTT(40), <1>1, <1>2 DEF WinTypes
  <2>2. QED BY <1>1, <1>2, <1>5, <1>8, <2>1 DEF WinTypes
<1>10. HasAsked(t, r)' /\ \A u \in WinThreads, q \in Servers : HasAsked(u, q) => HasAsked(u, q)'
  BY <1>1, <1>3, <1>5 DEF HasAsked, First
<1>11. Mail'
  <2>1. ASSUME NEW q \in Servers
        PROVE  /\ Distinct(chan'[q])
               /\ \A u \in On(chan'[q]) : HasAsked(u, q)' /\ u # taken[q]
               /\ taken[q] # None => HasAsked(taken[q], q)'
    <3>1. /\ Distinct(chan[q]) /\ On(chan[q]) \subseteq WinThreads /\ taken[q] \in WinThreads \cup {None}
          /\ \A u \in On(chan[q]) : HasAsked(u, q) /\ u # taken[q]
          /\ taken[q] # None => HasAsked(taken[q], q)
      BY <1>4, OnMember DEF WinInv, Mail
    <3>2. ASSUME NEW u \in On(chan'[q]) PROVE HasAsked(u, q)' /\ u # taken[q]
      <4>1. CASE u = t /\ q = r
        BY <1>6, <1>10, <4>1
      <4>2. CASE ~ (u = t /\ q = r)
        <5>1. u \in On(chan[q])
          BY <1>5, <1>7, <3>2, <4>2
        <5>2. QED BY <1>10, <3>1, <5>1
      <4>3. QED BY <4>1, <4>2
    <3>3. taken[q] # None => HasAsked(taken[q], q)'
      BY <1>1, <1>10, <3>1
    <3>4. Distinct(chan'[q])
      BY <1>5, <1>7, <3>1
    <3>5. QED BY <3>2, <3>3, <3>4
  <2>2. ASSUME NEW u \in WinThreads, asked'[u] PROVE script'[u] # <<>> /\ First(u)'.do = "send"
    BY <1>1, <1>5, <2>2 DEF WinInv, Mail, First
  <2>3. script'[ManListener] # <<>> => taken'[ManListener] # None
    BY <1>1 DEF WinInv, Mail
  <2>4. QED BY <1>1, <2>1, <2>2, <2>3 DEF Mail
<1>12. OnlyTheKey'
  BY <1>1 DEF WinInv, OnlyTheKey, KeyPressed
<1>13. QED BY <1>9, <1>11, <1>12 DEF WinInv

(* What a server does about a message is its own.                          *)
LEMMA HandlesIn ==
    ASSUME WinInv, NEW t \in WinThreads, NEW r \in Servers, HasAsked(t, r), NEW steps \in Handles(r, First(t))
    PROVE  /\ steps \in Seq(May(r))
           /\ r = Taskbar => \A i \in 1..Len(steps) : steps[i].to = None
           /\ KeyPressed /\ r = ManListener => \A i \in 1..Len(steps) : steps[i].do = "newthread"
<1>1. PICK x \in May(t) : x = First(t)
  BY Asker
<1>2. x.do = "send" /\ x.to = r /\ r \in SendsTo(t) /\ r # Driver /\ (KeyPressed /\ r = ManListener => t = Driver)
  BY <1>1, Asker DEF HasAsked
<1>3. x.win \in Windows \cup {None} /\ x.code \in Codes /\ steps \in Handles(r, x)
  BY <1>1 DEF May, Steps
<1>4. CASE r = Taskbar
  <2>1. steps = <<Draw>> /\ Draw \in May(r) /\ Draw.to = None
    BY <1>3, <1>4, WinThreadsAre, Partners, DrawIn DEF Handles
  <2>2. steps \in Seq(May(r)) /\ Len(steps) = 1 /\ steps[1] = Draw
    BY <2>1
  <2>3. QED BY <1>4, <2>1, <2>2, WinThreadsAre
<1>5. CASE r = BarListener
  <2>1. steps = <<NewThread(x.code, x.win)>> /\ NewThread(x.code, x.win) \in May(r)
    BY <1>3, <1>5, WinThreadsAre, Partners, NewThreadIn DEF Handles
  <2>2. QED BY <1>5, <2>1, WinThreadsAre
<1>6. CASE r = Manager
  <2>1. steps = <<Step("focus", x.win)>> /\ Step("focus", x.win) \in May(r)
    BY <1>3, <1>6, WinThreadsAre, Partners, StepIn DEF Handles, Doing
  <2>2. QED BY <1>6, <2>1, WinThreadsAre
<1>7. CASE r = ManListener
  <2>1. r # Taskbar /\ r # BarListener /\ r # Manager
    BY <1>7, WinThreadsAre
  <2>2. CASE x.code = "infocus"
    <3>1. steps = <<Step("focus", x.win), Send(Manager, "infocus", x.win)>>
      BY <1>3, <1>7, <2>1, <2>2 DEF Handles
    <3>2. Step("focus", x.win) \in May(r)
      BY <1>3, <1>7, Partners, StepIn DEF Doing
    <3>3. Send(Manager, "infocus", x.win) \in May(r)
      BY <1>3, <1>7, WinThreadsAre, Partners, SendIn DEF Codes
    <3>4. ASSUME t = Driver PROVE FALSE
      <4>1. x.code = "nextwin"
        BY <1>1, <1>2, <1>7, <3>4, WinThreadsAre DEF May
      <4>2. QED BY <2>2, <4>1
    <3>5. steps \in Seq(May(r))
      BY <3>1, <3>2, <3>3
    <3>6. QED BY <1>2, <2>1, <3>4, <3>5
  <2>3. CASE x.code = "nextwin"
    <3>1. \/ steps = <<>>
          \/ \E w \in winList : steps = <<NewThread("focus", w)>>
      BY <1>3, <1>7, <2>1, <2>3 DEF Handles
    <3>2. CASE steps = <<>>
      BY <2>1, <3>2
    <3>3. CASE \E w \in winList : steps = <<NewThread("focus", w)>>
      <4>1. PICK w \in Windows \cup {None} : steps = <<NewThread("focus", w)>>
        BY <3>3 DEF WinInv, WinTypes
      <4>2. NewThread("focus", w) \in May(r) /\ NewThread("focus", w).do = "newthread"
        BY <1>7, Partners, NewThreadIn DEF Codes
      <4>3. steps \in Seq(May(r)) /\ Len(steps) = 1 /\ steps[1] = NewThread("focus", w)
        BY <4>1, <4>2
      <4>4. QED BY <2>1, <4>2, <4>3
    <3>4. QED BY <3>1, <3>2, <3>3
  <2>4. CASE x.code \in {"position", "getall"}
    <3>1. steps = <<>>
      BY <1>3, <1>7, <2>1, <2>4 DEF Handles
    <3>2. QED BY <2>1, <3>1
  <2>5. CASE x.code = "getnum"
    <3>1. t # Driver
      BY <1>1, <1>2, <1>7, <2>5 DEF May
    <3>2. \/ steps = IfApp(x.win, <<Send(BarListener, "newitem", x.win)>>)
          \/ steps = IfApp(x.win, <<Draw, Step("focus", x.win), Send(BarListener, "newitem", x.win)>>)
      BY <1>3, <1>7, <2>1, <2>5 DEF Handles
    <3>3. Draw \in May(r) /\ Step("focus", x.win) \in May(r)
      BY <1>3, <1>7, Partners, StepIn, DrawIn DEF Doing
    <3>4. Send(BarListener, "newitem", x.win) \in May(r)
      BY <1>3, <1>7, WinThreadsAre, Partners, SendIn DEF Codes
    <3>5. steps \in Seq(May(r))
      <4>1. \/ steps = <<>> \/ steps = <<Send(BarListener, "newitem", x.win)>>
            \/ steps = <<Draw, Step("focus", x.win), Send(BarListener, "newitem", x.win)>>
        BY <3>2 DEF IfApp
      <4>2. CASE steps = <<>>
        BY <4>2
      <4>3. CASE steps = <<Send(BarListener, "newitem", x.win)>>
        BY <3>4, <4>3
      <4>4. CASE steps = <<Draw, Step("focus", x.win), Send(BarListener, "newitem", x.win)>>
        BY <3>3, <3>4, <4>4
      <4>5. QED BY <4>1, <4>2, <4>3, <4>4
    <3>6. QED BY <1>2, <2>1, <3>1, <3>5
  <2>6. x.code \in {"infocus", "nextwin", "position", "getall", "getnum"}
    <3>1. t \in {Driver, Taskbar, GetRunning}
      BY <1>2, <1>7, Partners, WinThreadsAre
    <3>2. CASE t = Driver
      BY <1>1, <1>2, <1>7, <3>2 DEF May
    <3>3. CASE t = Taskbar
      <4>1. t # Driver
        BY <3>3, WinThreadsAre
      <4>2. QED BY <1>1, <1>2, <1>7, <3>3, <4>1 DEF May
    <3>4. CASE t = GetRunning
      <4>1. t # Driver /\ t # Taskbar
        BY <3>4, WinThreadsAre
      <4>2. QED BY <1>1, <1>2, <1>7, <4>1 DEF May
    <3>5. QED BY <3>1, <3>2, <3>3, <3>4
  <2>7. QED BY <2>2, <2>3, <2>4, <2>5, <2>6
<1>8. QED BY <1>2, <1>4, <1>5, <1>6, <1>7, WinThreadsAre

LEMMA TakesKeeps ==
    ASSUME WinInv, NEW r \in Servers, Takes(r)
    PROVE  WinInv'
<1>1. PICK t : t = Head(chan[r])
  OBVIOUS
<1>2. /\ script[r] = <<>> /\ taken[r] = None /\ chan[r] # <<>>
      /\ taken' = [taken EXCEPT ![r] = t] /\ chan' = [chan EXCEPT ![r] = Tail(@)]
      /\ UNCHANGED <<asked, winList, LastFoc, items>>
  BY <1>1 DEF Takes, Free
<1>3. PICK steps \in Handles(r, First(t)) : script' = [script EXCEPT ![r] = steps]
  BY <1>1 DEF Takes
<1>4. /\ WinTypes /\ asked \in [WinThreads -> BOOLEAN] /\ chan \in [Servers -> Seq(WinThreads)]
      /\ taken \in [Servers -> WinThreads \cup {None}] /\ chan[r] \in Seq(WinThreads) /\ Distinct(chan[r])
  BY DEF WinInv, WinTypes, Mail
<1>5. /\ t \in On(chan[r]) /\ t \in WinThreads /\ Tail(chan[r]) \in Seq(WinThreads)
      /\ On(Tail(chan[r])) = On(chan[r]) \ {t} /\ Distinct(Tail(chan[r]))
  BY <1>1, <1>2, <1>4, TailUnlinks
<1>6. HasAsked(t, r)
  BY <1>5 DEF WinInv, Mail
<1>7. /\ steps \in Seq(May(r))
      /\ r = Taskbar => \A i \in 1..Len(steps) : steps[i].to = None
      /\ KeyPressed /\ r = ManListener => \A i \in 1..Len(steps) : steps[i].do = "newthread"
  BY <1>3, <1>5, <1>6, HandlesIn
<1>8. r # Driver /\ script[t] # <<>> /\ t # r /\ t # None /\ (KeyPressed /\ r = ManListener => t = Driver)
  BY <1>2, <1>5, <1>6, Asker, WinThreadsAre
<1>9. /\ script'[r] = steps /\ \A u \in WinThreads \ {r} : script'[u] = script[u]
      /\ script' = [u \in WinThreads |-> script'[u]] /\ r \in WinThreads
  BY <1>3, <1>4, WinThreadsAre DEF WinTypes
<1>10. /\ taken'[r] = t /\ \A q \in Servers \ {r} : taken'[q] = taken[q] /\ chan'[q] = chan[q]
       /\ chan'[r] = Tail(chan[r]) /\ taken' \in [Servers -> WinThreads \cup {None}]
       /\ chan' \in [Servers -> Seq(WinThreads)]
  BY <1>2, <1>4, <1>5
<1>11. WinTypes'
  <2>1. \A u \in WinThreads : script'[u] \in Seq(May(u))
    BY <1>4, <1>7, <1>9 DEF WinTypes
  <2>2. QED BY <1>2, <1>4, <1>9, <1>10, <2>1 DEF WinTypes
<1>12. \A u \in WinThreads, q \in Servers : HasAsked(u, q) => u # r /\ HasAsked(u, q)'
  BY <1>2, <1>9 DEF HasAsked, First
<1>13. Mail'
  <2>1. ASSUME NEW q \in Servers
        PROVE  /\ Distinct(chan'[q])
               /\ \A u \in On(chan'[q]) : HasAsked(u, q)' /\ u # taken'[q]
               /\ \A u : u = taken'[q] /\ u # None => HasAsked(u, q)'
    <3>1. /\ Distinct(chan[q]) /\ On(chan[q]) \subseteq WinThreads /\ taken[q] \in WinThreads \cup {None}
          /\ \A u \in On(chan[q]) : HasAsked(u, q) /\ u # taken[q]
          /\ taken[q] # None => HasAsked(taken[q], q)
      BY <1>4, OnMember DEF WinInv, Mail
    <3>2. CASE q = r
      <4>1. \A u \in On(chan'[q]) : u \in On(chan[q]) /\ u # t
        BY <1>5, <1>10, <3>2
      <4>2. \A u \in On(chan'[q]) : HasAsked(u, q)'
        BY <1>12, <3>1, <4>1
      <4>3. HasAsked(t, q)'
        BY <1>5, <1>6, <1>12, <3>2
      <4>4. QED BY <1>5, <1>10, <3>2, <4>1, <4>2, <4>3
    <3>3. CASE q # r
      BY <1>10, <1>12, <3>1, <3>3
    <3>4. QED BY <3>2, <3>3
  <2>2. ASSUME NEW u \in WinThreads, asked'[u] PROVE script'[u] # <<>> /\ First(u)'.do = "send"
    <3>1. asked[u] /\ script[u] # <<>> /\ First(u).do = "send"
      BY <1>2, <2>2 DEF WinInv, Mail
    <3>2. u # r /\ script'[u] = script[u]
      BY <1>2, <1>9, <3>1
    <3>3. QED BY <3>1, <3>2 DEF First
  <2>3. script'[ManListener] # <<>> => taken'[ManListener] # None
    <3>1. CASE r = ManListener
      BY <1>8, <1>10, <3>1
    <3>2. CASE r # ManListener
      <4>1. ManListener \in Servers \ {r} /\ ManListener \in WinThreads \ {r}
        BY <3>2, WinThreadsAre
      <4>2. QED BY <1>9, <1>10, <4>1 DEF WinInv, Mail
    <3>3. QED BY <3>1, <3>2
  <2>4. QED BY <2>1, <2>2, <2>3 DEF Mail
<1>14. OnlyTheKey'
  <2>1. SUFFICES ASSUME KeyPressed
                 PROVE  /\ taken'[ManListener] \in {None, Driver}
                        /\ \A i \in 1..Len(script'[ManListener]) : script'[ManListener][i].do = "newthread"
                        /\ \A u \in {Taskbar, GetRunning} :
                              \A i \in 1..Len(script'[u]) : script'[u][i].to # ManListener
    <3>1. script'[Driver] = script[Driver]
      BY <1>8, <1>9, WinThreadsAre
    <3>2. KeyPressed' => KeyPressed
      BY <3>1 DEF KeyPressed
    <3>3. QED BY <3>2 DEF OnlyTheKey
  <2>2. /\ taken[ManListener] \in {None, Driver}
        /\ \A i \in 1..Len(script[ManListener]) : script[ManListener][i].do = "newthread"
        /\ \A u \in {Taskbar, GetRunning} : \A i \in 1..Len(script[u]) : script[u][i].to # ManListener
    BY <2>1 DEF WinInv, OnlyTheKey
  <2>3. taken'[ManListener] \in {None, Driver}
    <3>1. CASE r = ManListener
      BY <1>8, <1>10, <2>1, <3>1
    <3>2. CASE r # ManListener
      BY <1>10, <2>2, <3>2, WinThreadsAre
    <3>3. QED BY <3>1, <3>2
  <2>4. \A i \in 1..Len(script'[ManListener]) : script'[ManListener][i].do = "newthread"
    <3>1. CASE r = ManListener
      BY <1>7, <1>9, <2>1, <3>1
    <3>2. CASE r # ManListener
      BY <1>9, <2>2, <3>2, WinThreadsAre
    <3>3. QED BY <3>1, <3>2
  <2>5. ASSUME NEW u \in {Taskbar, GetRunning}
        PROVE  \A i \in 1..Len(script'[u]) : script'[u][i].to # ManListener
    <3>1. CASE r = u
      <4>1. r = Taskbar
        BY <2>5, <3>1, WinThreadsAre
      <4>2. QED BY <1>7, <1>9, <3>1, <4>1, WinThreadsAre
    <3>2. CASE r # u
      BY <1>9, <2>2, <2>5, <3>2, WinThreadsAre
    <3>3. QED BY <3>1, <3>2
  <2>6. QED BY <2>3, <2>4, <2>5
<1>15. QED BY <1>11, <1>13, <1>14 DEF WinInv

(* getrunningapps' next question is about a window of the manager's list.   *)
LEMMA ListedInOrder ==
    ASSUME WinTypes
    PROVE  /\ Cardinality(winList) \in Nat
           /\ \A i \in 1..Cardinality(winList) : SetToSeq(winList)[i] \in Windows \cup {None}
<1>1. IsFiniteSet(winList) /\ winList \subseteq Windows \cup {None}
  BY DEF WinTypes
<1>2. Cardinality(winList) \in Nat
  BY <1>1, FS_CardinalityType
<1>3. \E f \in [1..Cardinality(winList) -> winList] : IsInjective(f)
  <2>1. ExistsBijection(1..Cardinality(winList), winList)
    BY <1>1, FS_CardinalityType
  <2>2. PICK f : f \in Bijection(1..Cardinality(winList), winList)
    BY <2>1 DEF ExistsBijection
  <2>3. f \in [1..Cardinality(winList) -> winList] /\ IsInjective(f)
    BY <2>2 DEF Bijection, Injection, IsInjective
  <2>4. QED BY <2>3
<1>4. SetToSeq(winList) \in [1..Cardinality(winList) -> winList]
  BY <1>3 DEF SetToSeq
<1>5. QED BY <1>1, <1>2, <1>4

LEMMA RepliesKeeps ==
    ASSUME WinInv, NEW r \in Servers, Replies(r)
    PROVE  WinInv'
<1>1. PICK t : t = taken[r]
  OBVIOUS
<1>2. PICK rest : rest = IF First(t).code = "getall"
                         THEN [i \in 1..Cardinality(winList) |-> Send(ManListener, "getnum", SetToSeq(winList)[i])]
                         ELSE Left(t)
  OBVIOUS
<1>3. /\ t # None /\ script[r] = <<>>
      /\ asked' = [asked EXCEPT ![t] = FALSE] /\ script' = [script EXCEPT ![t] = rest]
      /\ taken' = [taken EXCEPT ![r] = None]
      /\ UNCHANGED <<chan, winList, LastFoc, items>>
  BY <1>1, <1>2 DEF Replies
<1>4. /\ WinTypes /\ asked \in [WinThreads -> BOOLEAN] /\ chan \in [Servers -> Seq(WinThreads)]
      /\ taken \in [Servers -> WinThreads \cup {None}]
  BY DEF WinInv, WinTypes
<1>5. t \in WinThreads /\ HasAsked(t, r)
  BY <1>1, <1>3, <1>4 DEF WinInv, Mail
<1>6. script[t] # <<>> /\ First(t).do = "send" /\ First(t).to = r /\ t # r /\ asked[t]
  BY <1>3, <1>5 DEF HasAsked
<1>7. /\ script'[t] = rest /\ \A u \in WinThreads \ {t} : script'[u] = script[u] /\ asked'[u] = asked[u]
      /\ script' = [u \in WinThreads |-> script'[u]] /\ asked' \in [WinThreads -> BOOLEAN] /\ ~ asked'[t]
  BY <1>3, <1>4, <1>5 DEF WinTypes
<1>8. /\ taken'[r] = None /\ \A q \in Servers \ {r} : taken'[q] = taken[q]
      /\ taken' \in [Servers -> WinThreads \cup {None}]
  BY <1>3, <1>4
<1>9. /\ rest \in Seq(May(t))
      /\ First(t).code = "getall" => t = GetRunning /\ r = ManListener
      /\ First(t).code # "getall" => rest = Left(t)
  <2>1. First(t) \in May(t)
    BY <1>4, <1>5, <1>6, FirstIs
  <2>2. First(t).code = "getall" => t = GetRunning /\ r = ManListener
    BY <1>6, <2>1 DEF May
  <2>3. CASE First(t).code # "getall"
    BY <1>2, <1>4, <1>5, <1>6, <2>2, <2>3, FirstIs
  <2>4. CASE First(t).code = "getall"
    <3>1. ASSUME NEW w \in Windows \cup {None} PROVE Send(ManListener, "getnum", w) \in May(t)
      <4>1. t = GetRunning /\ t # Driver /\ t # Taskbar /\ ManListener \in SendsTo(t)
        BY <2>2, <2>4, Partners, WinThreadsAre
      <4>2. QED BY <4>1, WinThreadsAre DEF Send, May, Steps, Doing, Codes
    <3>2. Cardinality(winList) \in Nat /\ \A i \in 1..Cardinality(winList) : SetToSeq(winList)[i] \in Windows \cup {None}
      BY <1>4, ListedInOrder
    <3>3. rest = [i \in 1..Cardinality(winList) |-> Send(ManListener, "getnum", SetToSeq(winList)[i])]
      BY <1>2, <2>4
    <3>4. rest \in Seq(May(t))
      BY <3>1, <3>2, <3>3
    <3>5. QED BY <2>2, <2>4, <3>4
  <2>5. QED BY <2>3, <2>4
<1>10. WinTypes'
  <2>1. \A u \in WinThreads : script'[u] \in Seq(May(u))
    BY <1>4, <1>7, <1>9 DEF WinTypes
  <2>2. QED BY <1>3, <1>4, <1>7, <1>8, <2>1 DEF WinTypes
<1>11. \A u \in WinThreads \ {t}, q \in Servers : HasAsked(u, q) => HasAsked(u, q)'
  BY <1>7 DEF HasAsked, First
<1>12. \A q \in Servers : HasAsked(t, q) => q = r
  BY <1>6 DEF HasAsked
<1>13. Mail'
  <2>1. ASSUME NEW q \in Servers
        PROVE  /\ Distinct(chan[q])
               /\ \A u \in On(chan[q]) : HasAsked(u, q)' /\ u # taken'[q]
               /\ \A u : u = taken'[q] /\ u # None => HasAsked(u, q)'
    <3>1. /\ Distinct(chan[q]) /\ On(chan[q]) \subseteq WinThreads /\ taken[q] \in WinThreads \cup {None}
          /\ \A u \in On(chan[q]) : HasAsked(u, q) /\ u # taken[q]
          /\ taken[q] # None => HasAsked(taken[q], q)
      BY <1>4, OnMember DEF WinInv, Mail
    <3>2. \A u \in On(chan[q]) : u # t /\ HasAsked(u, q)'
      BY <1>1, <1>11, <1>12, <3>1
    <3>3. CASE q = r
      BY <1>8, <3>1, <3>2, <3>3, WinThreadsAre
    <3>4. CASE q # r
      BY <1>8, <1>11, <1>12, <3>1, <3>2, <3>4
    <3>5. QED BY <3>3, <3>4
  <2>2. ASSUME NEW u \in WinThreads, asked'[u] PROVE script'[u] # <<>> /\ First(u)'.do = "send"
    <3>1. u # t
      BY <1>7, <2>2
    <3>2. script'[u] = script[u] /\ asked[u]
      BY <1>7, <2>2, <3>1
    <3>3. QED BY <3>2 DEF WinInv, Mail, First
  <2>3. script'[ManListener] # <<>> => taken'[ManListener] # None
    <3>1. CASE r = ManListener
      BY <1>3, <1>6, <1>7, <3>1, WinThreadsAre
    <3>2. CASE r # ManListener
      <4>1. taken'[ManListener] = taken[ManListener]
        BY <1>8, <3>2, WinThreadsAre
      <4>2. script'[ManListener] # <<>> => script[ManListener] # <<>>
        BY <1>6, <1>7, WinThreadsAre
      <4>3. QED BY <4>1, <4>2 DEF WinInv, Mail
    <3>3. QED BY <3>1, <3>2
  <2>4. QED BY <1>3, <2>1, <2>2, <2>3 DEF Mail
<1>14. OnlyTheKey'
  <2>1. SUFFICES ASSUME KeyPressed
                 PROVE  /\ taken'[ManListener] \in {None, Driver}
                        /\ \A i \in 1..Len(script'[ManListener]) : script'[ManListener][i].do = "newthread"
                        /\ \A u \in {Taskbar, GetRunning} :
                              \A i \in 1..Len(script'[u]) : script'[u][i].to # ManListener
    <3>1. script'[Driver] # <<>> => script[Driver] # <<>>
      BY <1>6, <1>7, WinThreadsAre
    <3>2. KeyPressed' => KeyPressed
      BY <3>1 DEF KeyPressed
    <3>3. QED BY <3>2 DEF OnlyTheKey
  <2>2. /\ taken[ManListener] \in {None, Driver}
        /\ \A i \in 1..Len(script[ManListener]) : script[ManListener][i].do = "newthread"
        /\ \A u \in {Taskbar, GetRunning} : \A i \in 1..Len(script[u]) : script[u][i].to # ManListener
    BY <2>1 DEF WinInv, OnlyTheKey
  <2>3. taken'[ManListener] \in {None, Driver}
    BY <1>8, <2>2, WinThreadsAre
  <2>4. First(t).code # "getall"
    BY <1>1, <1>9, <2>2, WinThreadsAre
  <2>5. /\ rest = Left(t)
        /\ \A i \in 1..Len(rest) : i + 1 \in 1..Len(script[t]) /\ rest[i] = script[t][i + 1]
    BY <1>4, <1>5, <1>6, <1>9, <2>4, FirstIs
  <2>6. \A i \in 1..Len(script'[ManListener]) : script'[ManListener][i].do = "newthread"
    <3>1. CASE t = ManListener
      <4>1. ASSUME NEW i \in 1..Len(rest) PROVE rest[i].do = "newthread"
        <5>1. i + 1 \in 1..Len(script[ManListener]) /\ rest[i] = script[ManListener][i + 1]
          BY <2>5, <3>1
        <5>2. QED BY <2>2, <5>1
      <4>2. script'[ManListener] = rest
        BY <1>7, <3>1
      <4>3. QED BY <4>1, <4>2
    <3>2. CASE t # ManListener
      BY <1>7, <2>2, <3>2, WinThreadsAre
    <3>3. QED BY <3>1, <3>2
  <2>7. ASSUME NEW u \in {Taskbar, GetRunning}
        PROVE  \A i \in 1..Len(script'[u]) : script'[u][i].to # ManListener
    <3>1. CASE t = u
      <4>1. ASSUME NEW i \in 1..Len(rest) PROVE rest[i].to # ManListener
        <5>1. i + 1 \in 1..Len(script[u]) /\ rest[i] = script[u][i + 1]
          BY <2>5, <3>1
        <5>2. QED BY <2>2, <5>1
      <4>2. script'[u] = rest
        BY <1>7, <3>1
      <4>3. QED BY <4>1, <4>2
    <3>2. CASE t # u
      BY <1>7, <2>2, <3>2, WinThreadsAre
    <3>3. QED BY <3>1, <3>2
  <2>8. QED BY <2>3, <2>6, <2>7
<1>15. QED BY <1>10, <1>13, <1>14 DEF WinInv

(* What a thread does by itself, or an event, changes scripts only.        *)
LEMMA ScriptsKeep ==
    ASSUME WinInv, UNCHANGED <<asked, chan, taken>>,
           script' = [u \in WinThreads |-> script'[u]],
           \A u \in WinThreads : script'[u] \in Seq(May(u)) /\ (asked[u] => script'[u] = script[u]),
           script'[ManListener] # <<>> => script[ManListener] # <<>>,
           script'[Driver] = script[Driver],
           winList' \subseteq Windows \cup {None}, IsFiniteSet(winList'), items' \subseteq Windows \cup {None},
           KeyPressed => \A i \in 1..Len(script'[ManListener]) : script'[ManListener][i].do = "newthread",
           KeyPressed => \A u \in {Taskbar, GetRunning} :
                            \A i \in 1..Len(script'[u]) : script'[u][i].to # ManListener
    PROVE  WinInv'
<1>1. Mail'
  BY MailStays
<1>2. WinTypes'
  BY DEF WinInv, WinTypes
<1>3. OnlyTheKey'
  BY DEF WinInv, OnlyTheKey, KeyPressed
<1>4. QED BY <1>1, <1>2, <1>3 DEF WinInv

LEMMA FocusingIn ==
    ASSUME NEW t \in WinThreads, "focus" \in Inside(t), NEW w \in Windows \cup {None}
    PROVE  Focusing(w) \in Seq(May(t))
<1>1. "draw" \in Inside(t) /\ "infocus" \in Inside(t) /\ BarListener \in SendsTo(t)
  <2>1. t \in {Driver, Manager, ManListener, Taskbar, BarListener} \/ t = GetRunning \/ t \in Workers
    BY WinThreadsAre
  <2>2. CASE t \in {Driver, Taskbar, BarListener, GetRunning}
    BY <2>2, Partners
  <2>3. CASE t \in {Manager, ManListener}
    BY <2>3, Partners
  <2>4. CASE t \in Workers
    BY <2>4, Partners
  <2>5. QED BY <2>1, <2>2, <2>3, <2>4
<1>2. Draw \in May(t) /\ Step("infocus", w) \in May(t)
  BY <1>1, DrawIn, StepIn DEF Doing
<1>3. Send(BarListener, "infocus", w) \in May(t)
  BY <1>1, SendIn, WinThreadsAre DEF Codes
<1>4. IfApp(w, <<Send(BarListener, "infocus", w)>>) \in Seq(May(t))
  BY <1>3 DEF IfApp
<1>5. <<Draw, Step("infocus", w)>> \in Seq(May(t))
  BY <1>2
<1>6. IfApp(w, <<Send(BarListener, "infocus", w)>>) \o <<Draw, Step("infocus", w)>> \in Seq(May(t))
  BY <1>4, <1>5, Joined
<1>7. QED BY <1>6 DEF Focusing

LEMMA InnerKeeps ==
    ASSUME WinInv, NEW t \in WinThreads, Inner(t)
    PROVE  WinInv'
<1>1. PICK w \in Windows \cup {None} : w = First(t).win
  BY FirstIs DEF Inner, WinInv
<1>2. /\ script[t] # <<>> /\ ~ asked[t] /\ UNCHANGED <<asked, chan, taken>>
      /\ script' = [script EXCEPT ![t] = (IF Does(t, "focus") THEN Focusing(w) ELSE <<>>) \o Left(t)]
      /\ First(t).do \in {"focus", "draw", "find", "list", "unlist", "infocus", "forget", "additem", "remitem"}
      /\ \/ winList' = winList \/ winList' = winList \cup {w} \/ winList' = winList \ {w}
      /\ \/ items' = items \/ items' = items \cup {w} \/ items' = items \ {w}
  BY <1>1 DEF Inner, Does
<1>3. /\ WinTypes /\ Left(t) \in Seq(May(t)) /\ First(t).do \in Inside(t)
      /\ \A i \in 1..Len(Left(t)) : i + 1 \in 1..Len(script[t]) /\ Left(t)[i] = script[t][i + 1]
  BY <1>2, FirstIs DEF WinInv
<1>4. PICK rest : rest = (IF Does(t, "focus") THEN Focusing(w) ELSE <<>>) \o Left(t)
  OBVIOUS
<1>5. rest \in Seq(May(t)) /\ (First(t).do # "focus" => rest = Left(t))
  <2>1. CASE Does(t, "focus")
    <3>1. First(t).do = "focus"
      BY <2>1 DEF Does
    <3>2. Focusing(w) \in Seq(May(t))
      BY <1>3, <3>1, FocusingIn
    <3>3. QED BY <1>3, <1>4, <2>1, <3>1, <3>2, Joined
  <2>2. CASE ~ Does(t, "focus")
    <3>1. rest = Left(t)
      BY <1>3, <1>4, <2>2
    <3>2. QED BY <1>3, <3>1
  <2>3. QED BY <2>1, <2>2
<1>6. /\ script'[t] = rest /\ \A u \in WinThreads \ {t} : script'[u] = script[u]
      /\ script' = [u \in WinThreads |-> script'[u]]
  BY <1>2, <1>3, <1>4 DEF WinTypes
<1>7. t # Driver /\ t # GetRunning /\ (t = Taskbar => First(t).do # "focus")
  BY <1>3, Partners
<1>8. KeyPressed => t # ManListener
  <2>1. 1 \in 1..Len(script[t]) /\ First(t) = script[t][1]
    BY <1>2, <1>3, FirstIs
  <2>2. QED BY <1>2, <2>1 DEF WinInv, OnlyTheKey
<1>9. KeyPressed => \A i \in 1..Len(script'[ManListener]) : script'[ManListener][i].do = "newthread"
  BY <1>6, <1>8, WinThreadsAre DEF WinInv, OnlyTheKey
<1>10. ASSUME KeyPressed, NEW u \in {Taskbar, GetRunning}
       PROVE  \A i \in 1..Len(script'[u]) : script'[u][i].to # ManListener
  <2>1. \A i \in 1..Len(script[u]) : script[u][i].to # ManListener
    BY <1>10 DEF WinInv, OnlyTheKey
  <2>2. CASE t = u
    <3>1. script'[u] = Left(u)
      BY <1>5, <1>6, <1>7, <1>10, <2>2
    <3>2. QED BY <1>3, <2>1, <2>2, <3>1
  <2>3. CASE t # u
    BY <1>6, <2>1, <2>3, WinThreadsAre
  <2>4. QED BY <2>2, <2>3
<1>11. \A u \in WinThreads : script'[u] \in Seq(May(u)) /\ (asked[u] => script'[u] = script[u])
  BY <1>2, <1>3, <1>5, <1>6 DEF WinTypes
<1>12. /\ winList' \subseteq Windows \cup {None} /\ IsFiniteSet(winList') /\ items' \subseteq Windows \cup {None}
  <2>1. IsFiniteSet(winList) /\ IsFiniteSet(winList \cup {w}) /\ IsFiniteSet(winList \ {w})
    BY <1>3, FS_AddElement, FS_RemoveElement DEF WinTypes
  <2>2. QED BY <1>2, <1>3, <2>1 DEF WinTypes
<1>13. script'[Driver] = script[Driver] /\ (script'[ManListener] # <<>> => script[ManListener] # <<>>)
  BY <1>2, <1>6, <1>7, WinThreadsAre
<1>14. QED BY <1>2, <1>6, <1>9, <1>10, <1>11, <1>12, <1>13, ScriptsKeep

(* What updateitem makes a new thread of the taskbar do.                   *)
LEMMA UpdatesIn ==
    ASSUME WinTypes, NEW k \in Workers, NEW w \in Windows \cup {None},
           NEW code \in {"newitem", "killed", "minimized", "infocus"}, NEW steps \in updateitem(code, w)
    PROVE  steps \in Seq(May(k))
<1>1. /\ Inside(k) = {"draw", "focus", "infocus", "additem", "remitem", "find"}
      /\ Taskbar \in SendsTo(k)
  BY Partners
<1>2. /\ Draw \in May(k) /\ Step("additem", w) \in May(k) /\ Step("remitem", w) \in May(k)
      /\ Step("find", w) \in May(k)
  BY <1>1, DrawIn, StepIn DEF Doing
<1>3. /\ Send(Taskbar, "refresh", None) \in May(k)
      /\ \A v \in Windows \cup {None} : Send(Taskbar, "setcol", v) \in May(k)
  BY <1>1, SendIn, WinThreadsAre DEF Codes
<1>4. CASE code = "newitem"
  <2>1. steps = <<Draw, Step("additem", w), Draw, Send(Taskbar, "refresh", None), Send(Taskbar, "setcol", w)>>
    BY <1>4 DEF updateitem
  <2>2. QED BY <1>2, <1>3, <2>1
<1>5. CASE code # "newitem" /\ items = {}
  <2>1. steps = <<>>
    BY <1>5 DEF updateitem
  <2>2. QED BY <2>1
<1>6. CASE code = "killed" /\ items # {}
  <2>1. steps = <<Step("find", w), Draw, Step("remitem", w), Send(Taskbar, "refresh", None), Draw>>
    BY <1>6 DEF updateitem
  <2>2. QED BY <1>2, <1>3, <2>1
<1>7. CASE code = "minimized" /\ items # {}
  <2>1. steps = <<Step("find", w), Send(Taskbar, "setcol", w)>>
    BY <1>7 DEF updateitem
  <2>2. QED BY <1>2, <1>3, <2>1
<1>8. CASE code = "infocus" /\ items # {}
  <2>1. PICK blurred \in {<<>>} \cup {<<Send(Taskbar, "setcol", v)>> : v \in items \ {w}} :
          steps = <<Step("find", w)>> \o blurred \o <<Send(Taskbar, "setcol", w)>>
    BY <1>8 DEF updateitem
  <2>2. blurred \in Seq(May(k))
    <3>1. CASE blurred = <<>>
      BY <3>1
    <3>2. CASE blurred # <<>>
      <4>1. PICK v \in items \ {w} : blurred = <<Send(Taskbar, "setcol", v)>>
        BY <2>1, <3>2
      <4>2. v \in Windows \cup {None}
        BY <4>1 DEF WinTypes
      <4>3. PICK step \in May(k) : step = Send(Taskbar, "setcol", v)
        BY <1>3, <4>2
      <4>4. QED BY <4>1, <4>3
    <3>3. QED BY <3>1, <3>2
  <2>3. <<Step("find", w)>> \in Seq(May(k)) /\ <<Send(Taskbar, "setcol", w)>> \in Seq(May(k))
    BY <1>2, <1>3
  <2>4. <<Step("find", w)>> \o blurred \in Seq(May(k))
    BY <2>2, <2>3, Joined
  <2>5. QED BY <2>1, <2>3, <2>4, Joined
<1>9. QED BY <1>4, <1>5, <1>6, <1>7, <1>8

LEMMA StartsThreadKeeps ==
    ASSUME WinInv, NEW r \in Servers, StartsThread(r)
    PROVE  WinInv'
<1>1. PICK k \in Workers, code \in {"focus", "newitem", "killed", "minimized", "infocus"} :
        /\ Does(r, "newthread") /\ script[k] = <<>>
        /\ \E steps \in (IF code = "focus" THEN {<<Step("focus", First(r).win)>>}
                         ELSE updateitem(code, First(r).win)) :
              script' = [script EXCEPT ![k] = steps, ![r] = Left(r)]
        /\ UNCHANGED <<asked, chan, taken, winList, LastFoc, items>>
  BY DEF StartsThread
<1>2. PICK w \in Windows \cup {None} : w = First(r).win
  BY <1>1, WinThreadsAre, FirstIs DEF Does, WinInv
<1>3. PICK steps :
        /\ steps \in (IF code = "focus" THEN {<<Step("focus", w)>>} ELSE updateitem(code, w))
        /\ script' = [script EXCEPT ![k] = steps, ![r] = Left(r)]
  BY <1>1, <1>2
<1>4. /\ WinTypes /\ script[r] # <<>> /\ ~ asked[r] /\ r \in WinThreads /\ k \in WinThreads /\ k # r
      /\ First(r).do = "newthread"
  BY <1>1, WinThreadsAre DEF Does, WinInv
<1>5. /\ Left(r) \in Seq(May(r)) /\ "newthread" \in Inside(r)
      /\ \A i \in 1..Len(Left(r)) : i + 1 \in 1..Len(script[r]) /\ Left(r)[i] = script[r][i + 1]
  BY <1>4, FirstIs
<1>6. steps \in Seq(May(k))
  <2>1. CASE code = "focus"
    <3>1. steps = <<Step("focus", w)>> /\ Step("focus", w) \in May(k)
      BY <1>3, <2>1, Partners, StepIn DEF Doing
    <3>2. QED BY <3>1
  <2>2. CASE code # "focus"
    BY <1>3, <1>4, <2>2, UpdatesIn
  <2>3. QED BY <2>1, <2>2
<1>7. /\ script'[k] = steps /\ script'[r] = Left(r)
      /\ \A u \in WinThreads \ {k, r} : script'[u] = script[u]
      /\ script' = [u \in WinThreads |-> script'[u]]
  BY <1>3, <1>4 DEF WinTypes
<1>8. r # Driver /\ r # Taskbar /\ r # GetRunning /\ k \notin Servers /\ k # GetRunning
  BY <1>5, Partners, WinThreadsAre
<1>9. ~ asked[k]
  BY <1>1, <1>4 DEF WinInv, Mail
<1>10. \A u \in WinThreads : script'[u] \in Seq(May(u)) /\ (asked[u] => script'[u] = script[u])
  BY <1>4, <1>5, <1>6, <1>7, <1>9 DEF WinTypes
<1>11. KeyPressed => \A i \in 1..Len(script'[ManListener]) : script'[ManListener][i].do = "newthread"
  <2>1. CASE r = ManListener
    BY <1>5, <1>7, <2>1, SMTT(40) DEF WinInv, OnlyTheKey
  <2>2. CASE r # ManListener
    BY <1>7, <1>8, <2>2, WinThreadsAre DEF WinInv, OnlyTheKey
  <2>3. QED BY <2>1, <2>2
<1>12. KeyPressed => \A u \in {Taskbar, GetRunning} :
                        \A i \in 1..Len(script'[u]) : script'[u][i].to # ManListener
  BY <1>7, <1>8, WinThreadsAre DEF WinInv, OnlyTheKey
<1>13. script'[Driver] = script[Driver] /\ (script'[ManListener] # <<>> => script[ManListener] # <<>>)
  BY <1>4, <1>7, <1>8, WinThreadsAre
<1>14. QED BY <1>1, <1>4, <1>7, <1>10, <1>11, <1>12, <1>13, ScriptsKeep DEF WinTypes

(* An event for the manager or the taskbar.                                *)
LEMMA EventKeeps ==
    ASSUME WinInv, NEW r \in {Manager, Taskbar}, NEW steps \in Seq(May(r)), Event(r, steps),
           r = Taskbar => ~ KeyPressed
    PROVE  WinInv'
<1>1. /\ script[r] = <<>> /\ script' = [script EXCEPT ![r] = steps]
      /\ UNCHANGED <<asked, chan, taken, winList, LastFoc, items>>
  BY DEF Event, Free
<1>2. WinTypes /\ r \in WinThreads /\ r # Driver /\ r # ManListener /\ r # GetRunning
  BY WinThreadsAre DEF WinInv
<1>3. /\ script'[r] = steps /\ \A u \in WinThreads \ {r} : script'[u] = script[u]
      /\ script' = [u \in WinThreads |-> script'[u]]
  BY <1>1, <1>2 DEF WinTypes
<1>4. ~ asked[r]
  BY <1>1, <1>2 DEF WinInv, Mail
<1>5. \A u \in WinThreads : script'[u] \in Seq(May(u)) /\ (asked[u] => script'[u] = script[u])
  BY <1>2, <1>3, <1>4 DEF WinTypes
<1>6. script'[Driver] = script[Driver] /\ script'[ManListener] = script[ManListener]
  BY <1>2, <1>3, WinThreadsAre
<1>7. KeyPressed => \A u \in {Taskbar, GetRunning} :
                       \A i \in 1..Len(script'[u]) : script'[u][i].to # ManListener
  BY <1>2, <1>3, WinThreadsAre DEF WinInv, OnlyTheKey
<1>8. KeyPressed => \A i \in 1..Len(script'[ManListener]) : script'[ManListener][i].do = "newthread"
  BY <1>6 DEF WinInv, OnlyTheKey
<1>9. QED BY <1>1, <1>2, <1>3, <1>5, <1>6, <1>7, <1>8, ScriptsKeep DEF WinTypes

LEMMA WindowsKeep ==
    ASSUME WinInv, WindowOpens \/ WindowChosen \/ WindowHides \/ WindowDeleted
    PROVE  WinInv'
<1>1. /\ Draw \in May(Manager)
      /\ \A d \in {"list", "focus", "unlist", "forget"}, w \in Windows \cup {None} : Step(d, w) \in May(Manager)
  BY Partners, DrawIn, StepIn DEF Doing
<1>2. \A code \in {"newitem", "minimized", "killed"}, w \in Windows \cup {None} :
         IfApp(w, <<Send(BarListener, code, w)>>) \in Seq(May(Manager))
  <2>1. \A code \in {"newitem", "minimized", "killed"}, w \in Windows \cup {None} :
           Send(BarListener, code, w) \in May(Manager)
    BY Partners, SendIn, WinThreadsAre DEF Codes
  <2>2. QED BY <2>1 DEF IfApp
<1>3. winList \subseteq Windows \cup {None}
  BY DEF WinInv, WinTypes
<1>4. Manager # Taskbar
  BY WinThreadsAre
<1>5. CASE WindowOpens
  <2>1. PICK w \in Windows : Event(Manager, <<Draw, Step("list", w)>> \o IfApp(w, <<Send(BarListener, "newitem", w)>>)
                                            \o <<Draw, Step("focus", w)>>)
    BY <1>5 DEF WindowOpens
  <2>2. <<Draw, Step("list", w)>> \in Seq(May(Manager)) /\ <<Draw, Step("focus", w)>> \in Seq(May(Manager))
    BY <1>1
  <2>3. <<Draw, Step("list", w)>> \o IfApp(w, <<Send(BarListener, "newitem", w)>>) \in Seq(May(Manager))
    BY <1>2, <2>2, Joined
  <2>4. <<Draw, Step("list", w)>> \o IfApp(w, <<Send(BarListener, "newitem", w)>>)
          \o <<Draw, Step("focus", w)>> \in Seq(May(Manager))
    BY <2>2, <2>3, Joined
  <2>5. QED BY <1>4, <2>1, <2>4, EventKeeps
<1>6. CASE WindowChosen
  <2>1. PICK w \in Windows \cup {None} : Event(Manager, <<Step("focus", w)>>)
    BY <1>3, <1>6 DEF WindowChosen
  <2>2. <<Step("focus", w)>> \in Seq(May(Manager))
    BY <1>1
  <2>3. QED BY <1>4, <2>1, <2>2, EventKeeps
<1>7. CASE WindowHides
  <2>1. PICK w \in Windows \cup {None} : Event(Manager, IfApp(w, <<Send(BarListener, "minimized", w)>>)
                                                        \o <<Step("forget", w), Draw>>)
    BY <1>3, <1>7 DEF WindowHides
  <2>2. <<Step("forget", w), Draw>> \in Seq(May(Manager))
    BY <1>1
  <2>3. IfApp(w, <<Send(BarListener, "minimized", w)>>) \o <<Step("forget", w), Draw>> \in Seq(May(Manager))
    BY <1>2, <2>2, Joined
  <2>4. QED BY <1>4, <2>1, <2>3, EventKeeps
<1>8. CASE WindowDeleted
  <2>1. PICK w \in Windows \cup {None} :
          Event(Manager, IfApp(w, <<Send(BarListener, "killed", w)>>) \o <<Step("forget", w), Step("unlist", w), Draw>>)
    BY <1>3, <1>8 DEF WindowDeleted
  <2>2. <<Step("forget", w), Step("unlist", w), Draw>> \in Seq(May(Manager))
    BY <1>1
  <2>3. IfApp(w, <<Send(BarListener, "killed", w)>>) \o <<Step("forget", w), Step("unlist", w), Draw>> \in Seq(May(Manager))
    BY <1>2, <2>2, Joined
  <2>4. QED BY <1>4, <2>1, <2>3, EventKeeps
<1>9. QED BY <1>5, <1>6, <1>7, <1>8

LEMMA IconKeeps ==
    ASSUME WinInv, ~ KeysAnyTime, IconClicked
    PROVE  WinInv'
<1>1. ~ KeyPressed
  BY DEF IconClicked
<1>2. PICK w \in Windows \cup {None} : Event(Taskbar, <<Send(ManListener, "infocus", w)>>)
  BY DEF IconClicked, WinInv, WinTypes
<1>3. Send(ManListener, "infocus", w) \in May(Taskbar)
  <2>1. Taskbar # Driver /\ ManListener \in SendsTo(Taskbar)
    BY Partners, WinThreadsAre
  <2>2. QED BY <2>1, WinThreadsAre DEF Send, May, Steps, Doing, Codes
<1>4. <<Send(ManListener, "infocus", w)>> \in Seq(May(Taskbar))
  BY <1>3
<1>5. QED BY <1>1, <1>2, <1>4, EventKeeps

LEMMA KeyKeeps ==
    ASSUME WinInv, ~ KeysAnyTime, NextWinKey
    PROVE  WinInv'
<1>1. PICK steps : steps = <<Send(ManListener, "nextwin", None)>>
  OBVIOUS
<1>2. /\ ~ ListenerWanted /\ script[Driver] = <<>> /\ script' = [script EXCEPT ![Driver] = steps]
      /\ UNCHANGED <<asked, chan, taken, winList, LastFoc, items>>
  BY <1>1 DEF NextWinKey, Event, Free
<1>3. steps \in Seq(May(Driver))
  <2>1. Driver # Taskbar /\ ManListener \in SendsTo(Driver)
    BY Partners, WinThreadsAre
  <2>2. Send(ManListener, "nextwin", None) \in May(Driver)
    BY <2>1, WinThreadsAre DEF Send, May, Steps, Doing, Codes
  <2>3. QED BY <1>1, <2>2
<1>4. WinTypes /\ Driver \in WinThreads
  BY WinThreadsAre DEF WinInv
<1>5. /\ script'[Driver] = steps /\ \A u \in WinThreads \ {Driver} : script'[u] = script[u]
      /\ script' = [u \in WinThreads |-> script'[u]]
  BY <1>2, <1>4 DEF WinTypes
<1>6. ~ asked[Driver]
  BY <1>2, <1>4 DEF WinInv, Mail
<1>7. \A u \in WinThreads : script'[u] \in Seq(May(u)) /\ (asked[u] => script'[u] = script[u])
  BY <1>3, <1>4, <1>5, <1>6 DEF WinTypes
<1>8. WinTypes'
  BY <1>2, <1>4, <1>5, <1>7 DEF WinTypes
<1>9. script'[ManListener] = script[ManListener]
  BY <1>5, WinThreadsAre
<1>10. Mail'
  BY <1>2, <1>7, <1>9, MailStays
<1>11. taken[ManListener] = None /\ script[ManListener] = <<>>
  BY <1>2 DEF ListenerWanted, WinInv, Mail
<1>12. ASSUME NEW u \in {Taskbar, GetRunning}
       PROVE  \A i \in 1..Len(script'[u]) : script'[u][i].to # ManListener
  <2>1. u \in WinThreads /\ script'[u] = script[u] /\ script[u] \in Seq(May(u))
    BY <1>4, <1>5, <1>12, WinThreadsAre DEF WinTypes
  <2>2. \A i \in DOMAIN script[u] : script[u][i].to # ManListener
    BY <1>2, <2>1 DEF ListenerWanted
  <2>3. QED BY <2>1, <2>2
<1>13. OnlyTheKey'
  BY <1>2, <1>9, <1>11, <1>12 DEF OnlyTheKey
<1>14. QED BY <1>8, <1>10, <1>13 DEF WinInv

LEMMA WinNextKeeps ==
    ASSUME WinInv, ~ KeysAnyTime, [WinNext]_winVars
    PROVE  WinInv'
<1>1. CASE \E t \in WinThreads : Sends(t) \/ Inner(t)
  BY <1>1, SendsKeeps, InnerKeeps
<1>2. CASE \E r \in Servers : Takes(r) \/ Replies(r) \/ StartsThread(r)
  BY <1>2, TakesKeeps, RepliesKeeps, StartsThreadKeeps
<1>3. CASE WindowOpens \/ WindowChosen \/ WindowHides \/ WindowDeleted
  BY <1>3, WindowsKeep
<1>4. CASE IconClicked
  BY <1>4, IconKeeps
<1>5. CASE NextWinKey
  BY <1>5, KeyKeeps
<1>6. CASE UNCHANGED winVars
  <2>1. UNCHANGED <<script, asked, chan, taken, winList, LastFoc, items>>
    BY <1>6 DEF winVars
  <2>2. WinTypes'
    BY <2>1 DEF WinInv, WinTypes
  <2>3. Mail'
    <3>1. \A u \in WinThreads : asked[u] => script'[u] = script[u]
      BY <2>1
    <3>2. QED BY <2>1, <3>1, MailStays DEF WinInv
  <2>4. KeyPressed' <=> KeyPressed
    BY <2>1 DEF KeyPressed, HasAsked, First
  <2>5. OnlyTheKey'
    BY <2>1, <2>4 DEF WinInv, OnlyTheKey
  <2>6. QED BY <2>2, <2>3, <2>5 DEF WinInv
<1>7. QED BY <1>1, <1>2, <1>3, <1>4, <1>5, <1>6 DEF WinNext

LEMMA InitWinInv == WinInit => WinInv
<1> SUFFICES ASSUME WinInit PROVE WinInv
  OBVIOUS
<1>1. PICK steps : steps = <<Send(Taskbar, "refresh", None), Send(ManListener, "position", None),
                             Send(ManListener, "getall", None)>>
  OBVIOUS
<1>2. /\ script = [t \in WinThreads |-> IF t = GetRunning THEN steps ELSE <<>>]
      /\ asked = [t \in WinThreads |-> FALSE] /\ chan = [r \in Servers |-> <<>>]
      /\ taken = [r \in Servers |-> None] /\ winList = {} /\ items = {}
  BY <1>1 DEF WinInit
<1>3. steps \in Seq(May(GetRunning))
  <2>1. /\ GetRunning # Driver /\ GetRunning # Taskbar /\ Taskbar # ManListener
        /\ ManListener \in SendsTo(GetRunning) /\ Taskbar \in SendsTo(GetRunning)
    BY Partners, WinThreadsAre
  <2>2. Send(Taskbar, "refresh", None) \in May(GetRunning)
    BY <2>1, SendIn, WinThreadsAre DEF Codes
  <2>3. Send(ManListener, "position", None) \in May(GetRunning)
    BY <2>1, WinThreadsAre DEF Send, May, Steps, Doing, Codes
  <2>4. Send(ManListener, "getall", None) \in May(GetRunning)
    BY <2>1, WinThreadsAre DEF Send, May, Steps, Doing, Codes
  <2>5. QED BY <1>1, <2>2, <2>3, <2>4
<1>4. WinTypes
  <2>1. \A t \in WinThreads : script[t] \in Seq(May(t))
    BY <1>2, <1>3
  <2>2. IsFiniteSet(winList)
    BY <1>2, FS_EmptySet
  <2>3. QED BY <1>2, <2>1, <2>2 DEF WinTypes
<1>5. \A r \in Servers : chan[r] \in Seq(WinThreads) /\ Len(chan[r]) = 0 /\ taken[r] = None
  BY <1>2
<1>6. Mail
  <2>1. ASSUME NEW r \in Servers PROVE Distinct(chan[r]) /\ On(chan[r]) = {}
    <3>1. \A y : y \in On(chan[r]) <=> \E i \in 1..Len(chan[r]) : chan[r][i] = y
      BY <1>5, OnMember
    <3>2. DOMAIN chan[r] = {}
      BY <1>5
    <3>3. \A y : y \notin On(chan[r])
      BY <1>5, <3>1
    <3>4. QED BY <3>2, <3>3 DEF Distinct
  <2>2. script[ManListener] = <<>>
    BY <1>2, WinThreadsAre
  <2>3. QED BY <1>2, <1>5, <2>1, <2>2 DEF Mail
<1>7. OnlyTheKey
  <2>1. script[Driver] = <<>>
    BY <1>2, WinThreadsAre
  <2>2. QED BY <2>1 DEF OnlyTheKey, KeyPressed
<1>8. QED BY <1>4, <1>6, <1>7 DEF WinInv

(* Who waits for whom: the window driver for a listener that waits for      *)
(* nobody, and otherwise each for one further down the line.               *)
LEMMA NobodyCircles ==
    ASSUME WinInv
    PROVE  NoCircle
<1>1. SUFFICES ASSUME NEW S \in (SUBSET Servers) \ {{}}, \A r \in S : WaitsFor(r) \cap S # {}
               PROVE  FALSE
  BY DEF NoCircle
<1>9. S # {} /\ S \subseteq Servers
  OBVIOUS
<1>2. ASSUME NEW r \in Servers
      PROVE  \A q \in WaitsFor(r) : \/ q \in SendsTo(r) /\ First(r).do = "send" /\ script[r] # <<>>
                                    \/ q = Driver /\ "draw" \in Inside(r) /\ First(r).do = "draw" /\ script[r] # <<>>
  <2>1. r \in WinThreads /\ WinTypes
    BY WinThreadsAre DEF WinInv
  <2>2. CASE asked[r]
    <3>1. script[r] # <<>> /\ First(r).do = "send"
      BY <2>1, <2>2 DEF WinInv, Mail
    <3>2. First(r).to \in SendsTo(r)
      BY <2>1, <3>1, FirstIs
    <3>3. QED BY <2>2, <3>1, <3>2 DEF WaitsFor
  <2>3. CASE ~ asked[r] /\ Does(r, "draw")
    <3>1. script[r] # <<>> /\ First(r).do = "draw" /\ First(r).do # "send"
      BY <2>3 DEF Does
    <3>2. "draw" \in Inside(r)
      BY <2>1, <3>1, FirstIs
    <3>3. QED BY <2>3, <3>1, <3>2 DEF WaitsFor
  <2>4. CASE ~ asked[r] /\ ~ Does(r, "draw")
    BY <2>4 DEF WaitsFor
  <2>5. QED BY <2>2, <2>3, <2>4
<1>3. BarListener \notin S
  BY <1>1, <1>2, Partners
<1>4. Driver \notin S
  <2>1. SUFFICES ASSUME Driver \in S PROVE FALSE
    OBVIOUS
  <2>2. ManListener \in S /\ KeyPressed
    BY <1>1, <1>2, <2>1, Partners DEF KeyPressed
  <2>3. PICK q \in WaitsFor(ManListener) : TRUE
    BY <1>1, <2>2
  <2>4. script[ManListener] # <<>> /\ First(ManListener).do \in {"send", "draw"}
    BY <1>2, <2>3, WinThreadsAre
  <2>5. First(ManListener) = script[ManListener][1] /\ 1 \in 1..Len(script[ManListener])
    BY <2>4, FirstIs, WinThreadsAre DEF WinInv
  <2>6. First(ManListener).do = "newthread"
    BY <2>2, <2>5 DEF WinInv, OnlyTheKey
  <2>7. QED BY <2>4, <2>6
<1>5. Manager \notin S
  BY <1>1, <1>2, <1>3, <1>4, Partners
<1>6. ManListener \notin S
  BY <1>1, <1>2, <1>3, <1>4, <1>5, Partners
<1>7. Taskbar \notin S
  BY <1>1, <1>2, <1>4, <1>6, Partners
<1>8. QED BY <1>9, <1>3, <1>4, <1>5, <1>6, <1>7, WinThreadsAre

(* For any windows, threads and events: the window driver, the manager and  *)
(* the taskbar never wait for each other in a circle, as long as the key    *)
(* for the next window is not pressed while the manager's listener is asked *)
(* something else.                                                         *)
THEOREM NobodyWaitsInACircle == ~ KeysAnyTime => (WinSpec => []NoCircle)
<1>1. SUFFICES ASSUME ~ KeysAnyTime PROVE WinSpec => []NoCircle
  OBVIOUS
<1>2. WinInv /\ [WinNext]_winVars => WinInv'
  BY <1>1, WinNextKeeps
<1>3. WinInv => NoCircle
  BY NobodyCircles
<1>4. QED BY <1>2, <1>3, InitWinInv, PTL DEF WinSpec

-----------------------------------------------------------------------------
(* The sessions of the mail reader *)

Stages == {"unborn", "start", "idle", "lock", "connect", "login", "list", "info", "fetch", "ended"}
Born == 1..Len(account)

SessionTypes ==
    /\ stage \in [Threads -> Stages] /\ errand \in [Threads -> {"none", "new", "count", "watch"}]
    /\ holder \in Threads \cup {Nobody} /\ fp \in Threads \cup {Nobody}
    /\ account \in Seq(Accounts) /\ Len(account) <= MaxStarts
    /\ headmailwatch \in Seq(Born) /\ Distinct(headmailwatch)
    /\ node \in [Watchers -> Watchers \cup {Nobody}]
    /\ cancelled \subseteq Born /\ freed \subseteq cancelled
    /\ failures \in Nat

(* The mutex is taken from connect on, and is lost only by a failure.      *)
MutexKept ==
    /\ \A t \in Threads : stage[t] \in Talking \cup {"connect"} => holder = t
    /\ \A t \in Threads : stage[t] \in Talking => fp = t
    /\ holder # Nobody /\ failures = 0 => stage[holder] \in Talking \cup {"connect"}

(* A thread that starts will find its node as the last one; all others     *)
(* have found theirs, and free it when they end.                           *)
NodesOwned ==
    /\ stage[Main] \notin {"unborn", "start", "ended"}
    /\ \A t \in Watchers :
          /\ stage[t] = "unborn" <=> t \notin Born
          /\ stage[t] = "start" => /\ headmailwatch # << >> /\ t = headmailwatch[Len(headmailwatch)]
                                   /\ t = Len(account)
          /\ stage[t] \notin {"unborn", "start"} => node[t] = t
          /\ stage[t] \in {"unborn", "start"} => node[t] = Nobody
          /\ stage[t] = "ended" <=> t \in freed
    /\ Nodes \cap cancelled = {}

SessionInv == SessionTypes /\ MutexKept /\ NodesOwned

LEMMA StagesAre ==
    ASSUME SessionTypes, NEW t \in Threads, NEW s \in Stages, Goes(t, s)
    PROVE  stage' \in [Threads -> Stages] /\ stage'[t] = s /\ \A u \in Threads \ {t} : stage'[u] = stage[u]
BY DEF SessionTypes, Goes

LEMMA MainIsNoWatcher ==
    /\ MaxStarts \in Nat /\ Main \in Threads /\ Main \notin Watchers /\ Nobody \notin Threads
    /\ Watchers \subseteq Threads /\ Threads = Watchers \cup {Main}
BY SessionAssumption DEF Main, Threads, Watchers, Nobody

(* Within a session the list of nodes does not change.                     *)
LEMMA NodesStay ==
    ASSUME SessionInv, NEW t \in Threads, stage[t] \notin {"unborn", "start", "ended"},
           NEW s \in Stages \ {"unborn", "start", "ended"}, Goes(t, s), UNCHANGED listVars
    PROVE  NodesOwned'
<1>1. stage'[t] = s /\ \A u \in Threads \ {t} : stage'[u] = stage[u]
  BY StagesAre DEF SessionInv
<1>2. UNCHANGED <<headmailwatch, node, account, cancelled, freed, Born, Nodes>>
  BY DEF listVars, Born, Nodes
<1>3. stage'[Main] \notin {"unborn", "start", "ended"} /\ (Nodes \cap cancelled = {})'
  BY <1>1, <1>2, MainIsNoWatcher DEF SessionInv, NodesOwned
<1>4. ASSUME NEW u \in Watchers
      PROVE  /\ stage'[u] = "unborn" <=> u \notin Born
             /\ stage'[u] = "start" => /\ headmailwatch # << >> /\ u = headmailwatch[Len(headmailwatch)]
                                       /\ u = Len(account)
             /\ stage'[u] \notin {"unborn", "start"} => node[u] = u
             /\ stage'[u] \in {"unborn", "start"} => node[u] = Nobody
             /\ stage'[u] = "ended" <=> u \in freed
  <2>1. CASE u = t
    BY <1>1, <1>4, <2>1 DEF SessionInv, NodesOwned
  <2>2. CASE u # t
    <3>1. stage'[u] = stage[u]
      BY <1>1, <1>4, <2>2, MainIsNoWatcher
    <3>2. QED BY <1>4, <3>1 DEF SessionInv, NodesOwned
  <2>3. QED BY <2>1, <2>2
<1>5. QED BY <1>2, <1>3, <1>4 DEF NodesOwned

LEMMA InSessionKeeps ==
    ASSUME SessionInv, NEW t \in Threads, InSession(t)
    PROVE  SessionInv'
<1> DEFINE Taken == Talking \cup {"connect"}
<1>1. UNCHANGED listVars
  BY DEF InSession, getMutex, Connect, Login, newmailcheck, getnewmsgsinfo, FetchesMail, countservermessages
<1>2. PICK s \in {"connect", "login", "list", "info", "fetch", "idle", "lock"} :
        /\ Goes(t, s) /\ stage[t] \in {"lock", "connect", "login", "list", "info", "fetch"}
        /\ \/ stage[t] = "lock" /\ s = "connect" /\ holder = Nobody /\ holder' = t /\ fp' = fp /\ failures' = failures
           \/ stage[t] = "connect" /\ s = "login" /\ holder' = holder /\ fp' = t /\ failures' = failures
           \/ stage[t] = "connect" /\ s = "idle" /\ holder' = holder /\ fp' = Nobody /\ failures' = failures + 1
           \/ stage[t] \in Talking /\ s \in Talking /\ holder' = holder /\ fp' = fp /\ failures' = failures
           \/ stage[t] \in Talking /\ s \in {"idle", "lock"} /\ holder' = Nobody /\ fp' = Nobody /\ failures' = failures
        /\ errand' \in {errand, [errand EXCEPT ![t] = "count"]}
  BY DEF InSession, getMutex, Connect, Login, newmailcheck, getnewmsgsinfo, FetchesMail, countservermessages, HangsUpOn, Talking
<1>3. stage' \in [Threads -> Stages] /\ stage'[t] = s /\ \A u \in Threads \ {t} : stage'[u] = stage[u]
  BY <1>2, StagesAre DEF SessionInv, Stages
<1>4. NodesOwned'
  BY <1>1, <1>2, NodesStay DEF Stages
<1>5. SessionTypes'
  <2>1. errand' \in [Threads -> {"none", "new", "count", "watch"}]
    BY <1>2 DEF SessionInv, SessionTypes
  <2>2. holder' \in Threads \cup {Nobody} /\ fp' \in Threads \cup {Nobody} /\ failures' \in Nat
    BY <1>2 DEF SessionInv, SessionTypes
  <2>3. QED BY <1>1, <1>3, <2>1, <2>2 DEF SessionInv, SessionTypes, listVars, Born
<1>6. MutexKept'
  <2>1. stage[t] \in Taken => \A u \in Threads \ {t} : stage[u] \notin Taken
    BY DEF SessionInv, MutexKept
  <2>2. holder = Nobody => \A u \in Threads : stage[u] \notin Taken
    BY MainIsNoWatcher DEF SessionInv, MutexKept
  <2>3. failures \in Nat /\ Nobody \notin Threads
    BY MainIsNoWatcher DEF SessionInv, SessionTypes
  <2>4. CASE stage[t] = "lock" /\ s = "connect" /\ holder = Nobody /\ holder' = t /\ fp' = fp /\ failures' = failures
    BY <1>3, <2>2, <2>3, <2>4 DEF SessionInv, MutexKept, Talking
  <2>5. CASE stage[t] = "connect" /\ s = "login" /\ holder' = holder /\ fp' = t /\ failures' = failures
    BY <1>3, <2>1, <2>3, <2>5 DEF SessionInv, MutexKept, Talking
  <2>6. CASE stage[t] = "connect" /\ s = "idle" /\ holder' = holder /\ fp' = Nobody /\ failures' = failures + 1
    BY <1>3, <2>1, <2>3, <2>6 DEF SessionInv, MutexKept, Talking
  <2>7. CASE stage[t] \in Talking /\ s \in Talking /\ holder' = holder /\ fp' = fp /\ failures' = failures
    BY <1>3, <2>1, <2>3, <2>7 DEF SessionInv, MutexKept, Talking
  <2>8. CASE stage[t] \in Talking /\ s \in {"idle", "lock"} /\ holder' = Nobody /\ fp' = Nobody /\ failures' = failures
    BY <1>3, <2>1, <2>3, <2>8 DEF SessionInv, MutexKept, Talking
  <2>9. QED BY <1>2, <2>4, <2>5, <2>6, <2>7, <2>8
<1>7. QED BY <1>4, <1>5, <1>6 DEF SessionInv

(* Outside a session a thread that goes to another stage neither has the   *)
(* mutex nor takes it, unless it lost it in a connect that failed.         *)
LEMMA MutexStays ==
    ASSUME SessionInv, NEW t \in Threads, NEW s \in Stages, Goes(t, s),
           stage[t] \notin Talking \cup {"connect"}, s \notin Talking \cup {"connect"},
           UNCHANGED <<holder, fp, failures>>
    PROVE  MutexKept'
<1>1. stage'[t] = s /\ \A u \in Threads \ {t} : stage'[u] = stage[u]
  BY StagesAre DEF SessionInv
<1>2. holder # Nobody => holder \in Threads
  BY DEF SessionInv, SessionTypes
<1>3. QED BY <1>1, <1>2 DEF SessionInv, MutexKept

LEMMA UserConnectsKeeps ==
    ASSUME SessionInv, UserConnects
    PROVE  SessionInv'
<1>1. /\ stage[Main] = "idle" /\ Goes(Main, "lock") /\ Main \in Threads
      /\ UNCHANGED <<holder, fp, failures>> /\ UNCHANGED listVars
  BY MainIsNoWatcher DEF UserConnects
<1>2. NodesOwned'
  BY <1>1, NodesStay DEF Stages
<1>3. MutexKept'
  BY <1>1, MutexStays DEF Stages, Talking
<1>4. errand' \in [Threads -> {"none", "new", "count", "watch"}]
  BY DEF UserConnects, SessionInv, SessionTypes
<1>5. SessionTypes'
  BY <1>1, <1>4, StagesAre DEF SessionInv, SessionTypes, listVars, Born, Stages
<1>6. QED BY <1>2, <1>3, <1>5 DEF SessionInv

LEMMA StartKeeps ==
    ASSUME SessionInv, startmailwatch
    PROVE  SessionInv'
<1>1. PICK a \in Accounts : account' = Append(account, a)
  BY DEF startmailwatch
<1>2. PICK n : n = Len(account) + 1
  OBVIOUS
<1>3. /\ account \in Seq(Accounts) /\ Len(account) \in Nat /\ Len(account) < MaxStarts /\ n \in Watchers /\ n \in Threads
      /\ account' \in Seq(Accounts) /\ Len(account') = n
  BY <1>1, <1>2, MainIsNoWatcher DEF SessionInv, SessionTypes, startmailwatch, Watchers
<1>4. /\ headmailwatch' = Append(headmailwatch, n) /\ Goes(n, "start")
      /\ UNCHANGED <<holder, fp, errand, node, cancelled, freed, failures>>
      /\ stage[Main] = "idle" /\ Settled
  BY <1>3 DEF startmailwatch
<1>5. Born' = Born \cup {n} /\ n \notin Born /\ n \in Born'
  BY <1>2, <1>3 DEF Born
<1>6. /\ headmailwatch' \in Seq(Born') /\ Nodes' = Nodes \cup {n} /\ Distinct(headmailwatch')
      /\ headmailwatch' # << >> /\ headmailwatch'[Len(headmailwatch')] = n
  <2>1. headmailwatch \in Seq(Born) /\ headmailwatch \in Seq(Born') /\ Distinct(headmailwatch) /\ n \notin Nodes
    BY <1>5, OnMember DEF SessionInv, SessionTypes, Nodes
  <2>2. /\ Append(headmailwatch, n) \in Seq(Born') /\ On(Append(headmailwatch, n)) = On(headmailwatch) \cup {n}
        /\ Distinct(Append(headmailwatch, n))
    BY <1>5, <2>1, AppendLinks DEF Nodes
  <2>3. Append(headmailwatch, n) # << >> /\ Append(headmailwatch, n)[Len(Append(headmailwatch, n))] = n
    BY <1>5, <2>1
  <2>4. QED BY <1>4, <2>2, <2>3 DEF Nodes
<1>7. stage' \in [Threads -> Stages] /\ stage'[n] = "start" /\ \A u \in Threads \ {n} : stage'[u] = stage[u]
  BY <1>3, <1>4, StagesAre DEF SessionInv, Stages
<1>8. stage[n] = "unborn" /\ node[n] = Nobody /\ n \notin freed /\ n \notin cancelled /\ n # Main
  BY <1>3, <1>5, MainIsNoWatcher DEF SessionInv, NodesOwned, SessionTypes
<1>9. SessionTypes'
  <2>1. Len(account') <= MaxStarts
    BY <1>3, SessionAssumption DEF Watchers
  <2>2. cancelled' \subseteq Born' /\ freed' \subseteq cancelled'
    BY <1>4, <1>5 DEF SessionInv, SessionTypes
  <2>3. QED BY <1>3, <1>4, <1>6, <1>7, <2>1, <2>2 DEF SessionInv, SessionTypes
<1>10. MutexKept'
  BY <1>3, <1>4, <1>8, MutexStays DEF Stages, Talking
<1>11. NodesOwned'
  <2>1. stage'[Main] \notin {"unborn", "start", "ended"}
    BY <1>4, <1>7, <1>8, MainIsNoWatcher
  <2>2. Nodes' \cap cancelled' = {}
    BY <1>4, <1>6, <1>8 DEF SessionInv, NodesOwned
  <2>3. ASSUME NEW t \in Watchers
        PROVE  /\ stage'[t] = "unborn" <=> t \notin Born'
               /\ stage'[t] = "start" => /\ headmailwatch' # << >> /\ t = headmailwatch'[Len(headmailwatch')]
                                         /\ t = Len(account')
               /\ stage'[t] \notin {"unborn", "start"} => node[t] = t
               /\ stage'[t] \in {"unborn", "start"} => node[t] = Nobody
               /\ stage'[t] = "ended" <=> t \in freed
    <3>1. CASE t = n
      BY <1>3, <1>5, <1>6, <1>7, <1>8, <3>1
    <3>2. CASE t # n
      <4>1. stage'[t] = stage[t] /\ stage[t] # "start" /\ (t \in Born' <=> t \in Born)
        BY <1>4, <1>5, <1>7, <2>3, <3>2, MainIsNoWatcher DEF Settled
      <4>2. QED BY <2>3, <4>1 DEF SessionInv, NodesOwned
    <3>3. QED BY <3>1, <3>2
  <2>4. QED BY <1>4, <2>1, <2>2, <2>3 DEF NodesOwned
<1>12. QED BY <1>9, <1>10, <1>11 DEF SessionInv

LEMMA TakesNodeKeeps ==
    ASSUME SessionInv, NEW t \in Watchers, TakesNode(t)
    PROVE  SessionInv'
<1>1. /\ stage[t] = "start" /\ Goes(t, "idle") /\ node' = [node EXCEPT ![t] = headmailwatch[Len(headmailwatch)]]
      /\ UNCHANGED <<holder, fp, errand, headmailwatch, account, cancelled, freed, failures>> /\ t \in Threads
  BY MainIsNoWatcher DEF TakesNode
<1>2. headmailwatch[Len(headmailwatch)] = t
  BY <1>1 DEF SessionInv, NodesOwned
<1>3. stage' \in [Threads -> Stages] /\ stage'[t] = "idle" /\ \A u \in Threads \ {t} : stage'[u] = stage[u]
  BY <1>1, StagesAre DEF SessionInv, Stages
<1>4. node' \in [Watchers -> Watchers \cup {Nobody}] /\ node'[t] = t /\ \A u \in Watchers \ {t} : node'[u] = node[u]
  BY <1>1, <1>2 DEF SessionInv, SessionTypes
<1>5. SessionTypes'
  BY <1>1, <1>3, <1>4 DEF SessionInv, SessionTypes, Born
<1>6. MutexKept'
  BY <1>1, MutexStays DEF Stages, Talking
<1>7. NodesOwned'
  <2>1. UNCHANGED <<Nodes, Born>> /\ t # Main
    BY <1>1, MainIsNoWatcher DEF Nodes, Born
  <2>2. stage'[Main] \notin {"unborn", "start", "ended"} /\ Nodes' \cap cancelled' = {}
    BY <1>1, <1>3, <2>1, MainIsNoWatcher DEF SessionInv, NodesOwned
  <2>3. ASSUME NEW u \in Watchers
        PROVE  /\ stage'[u] = "unborn" <=> u \notin Born
               /\ stage'[u] = "start" => /\ headmailwatch # << >> /\ u = headmailwatch[Len(headmailwatch)]
                                         /\ u = Len(account)
               /\ stage'[u] \notin {"unborn", "start"} => node'[u] = u
               /\ stage'[u] \in {"unborn", "start"} => node'[u] = Nobody
               /\ stage'[u] = "ended" <=> u \in freed
    <3>1. CASE u = t
      BY <1>1, <1>3, <1>4, <3>1 DEF SessionInv, NodesOwned
    <3>2. CASE u # t
      <4>1. stage'[u] = stage[u] /\ node'[u] = node[u]
        BY <1>3, <1>4, <2>3, <3>2, MainIsNoWatcher
      <4>2. QED BY <2>3, <4>1 DEF SessionInv, NodesOwned
    <3>3. QED BY <3>1, <3>2
  <2>4. QED BY <1>1, <2>1, <2>2, <2>3 DEF NodesOwned
<1>8. QED BY <1>5, <1>6, <1>7 DEF SessionInv

LEMMA StopKeeps ==
    ASSUME SessionInv, stopmailwatch
    PROVE  SessionInv'
<1>1. PICK n \in Nodes : headmailwatch' = Without(headmailwatch, n) /\ cancelled' = cancelled \cup {n}
  BY DEF stopmailwatch
<1>2. Settled /\ UNCHANGED <<holder, fp, stage, errand, node, account, freed, failures, Born>>
  BY DEF stopmailwatch, Born
<1>3. headmailwatch \in Seq(Born) /\ Distinct(headmailwatch) /\ Nodes \subseteq Born
  BY OnMember DEF SessionInv, SessionTypes, Nodes
<1>4. /\ Without(headmailwatch, n) \in Seq(Born) /\ On(Without(headmailwatch, n)) = On(headmailwatch) \ {n}
      /\ Distinct(Without(headmailwatch, n))
  BY <1>1, <1>3, WithoutUnlinks DEF Nodes
<1>5. headmailwatch' \in Seq(Born) /\ Nodes' = Nodes \ {n} /\ Distinct(headmailwatch')
  BY <1>1, <1>4 DEF Nodes
<1>6. cancelled' \subseteq Born /\ freed \subseteq cancelled' /\ Nodes' \cap cancelled' = {}
  BY <1>1, <1>3, <1>5 DEF SessionInv, SessionTypes, NodesOwned
<1>7. SessionTypes'
  BY <1>2, <1>5, <1>6 DEF SessionInv, SessionTypes
<1>8. MutexKept'
  BY <1>2 DEF SessionInv, MutexKept
<1>9. NodesOwned'
  BY <1>2, <1>6 DEF SessionInv, NodesOwned, Settled
<1>10. QED BY <1>7, <1>8, <1>9 DEF SessionInv

LEMMA mailwatchKeeps ==
    ASSUME SessionInv, NEW t \in Watchers, mailwatch(t)
    PROVE  SessionInv'
<1>1. /\ stage[t] = "idle" /\ t \in Threads /\ t # Main /\ node[t] = t
      /\ UNCHANGED <<holder, fp, headmailwatch, node, account, cancelled, failures, Born, Nodes>>
  BY MainIsNoWatcher DEF mailwatch, SessionInv, NodesOwned, Born, Nodes
<1>2. CASE t \in cancelled /\ freed' = freed \cup {t} /\ Goes(t, "ended") /\ UNCHANGED errand
  <2>1. stage' \in [Threads -> Stages] /\ stage'[t] = "ended" /\ \A u \in Threads \ {t} : stage'[u] = stage[u]
    BY <1>1, <1>2, StagesAre DEF SessionInv, Stages
  <2>2. SessionTypes'
    BY <1>1, <1>2, <2>1 DEF SessionInv, SessionTypes
  <2>3. MutexKept'
    BY <1>1, <1>2, MutexStays DEF Stages, Talking
  <2>4. stage'[Main] \notin {"unborn", "start", "ended"} /\ Nodes' \cap cancelled' = {}
    BY <1>1, <2>1, MainIsNoWatcher DEF SessionInv, NodesOwned
  <2>5. ASSUME NEW u \in Watchers
        PROVE  /\ stage'[u] = "unborn" <=> u \notin Born
               /\ stage'[u] = "start" => /\ headmailwatch # << >> /\ u = headmailwatch[Len(headmailwatch)]
                                         /\ u = Len(account)
               /\ stage'[u] \notin {"unborn", "start"} => node[u] = u
               /\ stage'[u] \in {"unborn", "start"} => node[u] = Nobody
               /\ stage'[u] = "ended" <=> u \in freed'
    <3>1. CASE u = t
      BY <1>1, <1>2, <2>1, <3>1 DEF SessionInv, NodesOwned
    <3>2. CASE u # t
      <4>1. stage'[u] = stage[u] /\ (u \in freed' <=> u \in freed)
        BY <1>2, <2>1, <2>5, <3>2, MainIsNoWatcher
      <4>2. QED BY <2>5, <4>1 DEF SessionInv, NodesOwned
    <3>3. QED BY <3>1, <3>2
  <2>6. NodesOwned'
    BY <1>1, <2>4, <2>5 DEF NodesOwned
  <2>7. QED BY <2>2, <2>3, <2>6 DEF SessionInv
<1>3. CASE Goes(t, "lock") /\ errand' = [errand EXCEPT ![t] = "watch"] /\ UNCHANGED freed
  <2>1. UNCHANGED listVars
    BY <1>1, <1>3 DEF listVars
  <2>2. NodesOwned'
    BY <1>1, <1>3, <2>1, NodesStay DEF Stages
  <2>3. MutexKept'
    BY <1>1, <1>3, MutexStays DEF Stages, Talking
  <2>4. errand' \in [Threads -> {"none", "new", "count", "watch"}]
    BY <1>3 DEF SessionInv, SessionTypes
  <2>5. SessionTypes'
    BY <1>1, <1>3, <2>4, StagesAre DEF SessionInv, SessionTypes, Stages
  <2>6. QED BY <2>2, <2>3, <2>5 DEF SessionInv
<1>4. QED BY <1>1, <1>2, <1>3 DEF mailwatch

LEMMA InitSessionInv == SessionInit => SessionInv
<1>1. SUFFICES ASSUME SessionInit PROVE SessionInv
  OBVIOUS
<1>2. Born = {} /\ Nodes = {} /\ Distinct(headmailwatch)
  BY <1>1 DEF SessionInit, Born, Nodes, On, ToSet, Distinct
<1>3. stage \in [Threads -> Stages] /\ stage[Main] = "idle" /\ \A t \in Watchers : stage[t] = "unborn"
  BY <1>1, MainIsNoWatcher DEF SessionInit, Stages
<1>4. SessionTypes
  BY <1>1, <1>2, <1>3, MainIsNoWatcher DEF SessionInit, SessionTypes
<1>5. MutexKept
  BY <1>1, <1>3, MainIsNoWatcher DEF SessionInit, MutexKept, Talking
<1>6. NodesOwned
  BY <1>1, <1>2, <1>3 DEF SessionInit, NodesOwned
<1>7. QED BY <1>4, <1>5, <1>6 DEF SessionInv

(* For any accounts, watches and failures: the mutex, the connection and    *)
(* the list of nodes are what the stages of the threads say they are        *)
(* (SessionInv), in every state of the mail reader's sessions (start.c).    *)
THEOREM SessionInvariant == SessionSpec => []SessionInv
<1>1. SessionInv /\ [SessionNext]_sessionVars => SessionInv'
  <2>1. SUFFICES ASSUME SessionInv, [SessionNext]_sessionVars PROVE SessionInv'
    OBVIOUS
  <2>2. CASE \E t \in Threads : InSession(t)
    BY <2>1, <2>2, InSessionKeeps
  <2>3. CASE UserConnects \/ startmailwatch \/ stopmailwatch
    BY <2>1, <2>3, UserConnectsKeeps, StartKeeps, StopKeeps
  <2>4. CASE \E t \in Watchers : TakesNode(t) \/ mailwatch(t)
    BY <2>1, <2>4, TakesNodeKeeps, mailwatchKeeps
  <2>5. CASE UNCHANGED sessionVars
    BY <2>1, <2>5 DEF sessionVars, SessionInv, SessionTypes, MutexKept, NodesOwned, Nodes, Born
  <2>6. QED BY <2>1, <2>2, <2>3, <2>4, <2>5 DEF SessionNext
<1>2. QED BY <1>1, InitSessionInv, PTL DEF SessionSpec

(* For any accounts, watches and failures: no thread of the mail reader     *)
(* reads an answer to another's command or closes its connection, every     *)
(* watch has one thread and nobody keeps a node that was freed              *)
(* (establishconnection, terminateconnection, startmailwatch, mailwatch).   *)
THEOREM EachHasItsSession == SessionSpec => []OwnSession
<1>1. SessionInv => OwnSession
  <2>1. SUFFICES ASSUME SessionInv PROVE OwnSession
    OBVIOUS
  <2>2. \A n \in Nodes : n \notin freed
    BY <2>1 DEF SessionInv, SessionTypes, NodesOwned
  <2>3. ASSUME Settled, NEW n \in Nodes
        PROVE  Cardinality({t \in Watchers : node[t] = n /\ stage[t] # "ended"}) = 1
    <3>1. n \in Born /\ n \in Watchers /\ n # Nobody
      BY <2>1, <2>3, OnMember, SessionAssumption DEF SessionInv, SessionTypes, Nodes, Born, Watchers, Nobody
    <3>2. stage[n] \notin {"unborn", "start", "ended"} /\ node[n] = n
      BY <2>1, <2>2, <2>3, <3>1 DEF SessionInv, NodesOwned, Settled
    <3>3. \A t \in Watchers : node[t] = n => t = n
      BY <2>1, <3>1 DEF SessionInv, NodesOwned
    <3>4. {t \in Watchers : node[t] = n /\ stage[t] # "ended"} = {n}
      BY <3>1, <3>2, <3>3
    <3>5. QED BY <3>4, FS_Singleton
  <2>4. \A t \in Watchers : node[t] \in freed => stage[t] = "ended"
    <3>1. Nobody \notin freed
      BY <2>1 DEF SessionInv, SessionTypes, Born, Nobody
    <3>2. \A t \in Watchers : node[t] = Nobody \/ (node[t] = t /\ (t \in freed => stage[t] = "ended"))
      BY <2>1 DEF SessionInv, NodesOwned
    <3>3. QED BY <3>1, <3>2
  <2>5. QED BY <2>1, <2>2, <2>3, <2>4 DEF SessionInv, MutexKept, OwnSession, WatchedOnce
<1>2. QED BY <1>1, SessionInvariant, PTL

-----------------------------------------------------------------------------
(* The mutex of the C library *)

Wanting == In({"owner", "wait", "asleep"})

(* The inductive invariant for every program and every scheduler: a thread  *)
(* is on the queue its own place names, once, and the count is right.       *)
CountInv ==
    /\ count \in Int /\ mutq \in Seq(Thread) /\ condq \in Seq(Thread)
    /\ pc \in [Thread -> {"outside", "wait", "asleep", "owner", "wake",
                          "condition", "regain"}]
    /\ Distinct(mutq) /\ Distinct(condq)
    /\ On(mutq) = In({"asleep"}) /\ On(condq) = In({"condition"})
    /\ count + 1 = Cardinality(Wanting)

-----------------------------------------------------------------------------

LEMMA WantingFinite ==
    IsFiniteSet(Wanting) /\ Cardinality(Wanting) \in Nat
    /\ Cardinality(Wanting) <= Cardinality(Thread) /\ Cardinality(Thread) \in Nat
BY MutexAssumption, FS_Subset, FS_CardinalityType DEF Wanting, In

(* A thread begins or ends to want the mutex, or none does.                 *)
LEMMA CountFollows ==
    ASSUME CountInv, NEW t \in Thread,
           \/ count' = count /\ Wanting' = Wanting
           \/ count' = count + 1 /\ t \notin Wanting /\ Wanting' = Wanting \cup {t}
           \/ count' = count - 1 /\ t \in Wanting /\ Wanting' = Wanting \ {t}
    PROVE  count' \in Int /\ count' + 1 = Cardinality(Wanting')
<1>1. IsFiniteSet(Wanting) /\ Cardinality(Wanting) \in Nat
  BY WantingFinite
<1>2. count \in Int /\ count + 1 = Cardinality(Wanting)
  BY DEF CountInv
<1>3. CASE count' = count /\ Wanting' = Wanting
  BY <1>2, <1>3
<1>4. CASE count' = count + 1 /\ t \notin Wanting /\ Wanting' = Wanting \cup {t}
  <2>1. Cardinality(Wanting') = Cardinality(Wanting) + 1
    BY <1>1, <1>4, FS_AddElement
  <2>2. QED BY <1>2, <1>4, <2>1
<1>5. CASE count' = count - 1 /\ t \in Wanting /\ Wanting' = Wanting \ {t}
  <2>1. Cardinality(Wanting') = Cardinality(Wanting) - 1
    BY <1>1, <1>5, FS_RemoveElement
  <2>2. QED BY <1>2, <1>5, <2>1
<1>6. QED BY <1>3, <1>4, <1>5

(* The mutex is wanted as long as the count is not -1.                      *)
LEMMA CountTells ==
    ASSUME CountInv
    PROVE  /\ count >= -1 /\ (count = -1 <=> Wanting = {})
           /\ \A t, u \in Wanting : t # u => count >= 1
<1>1. IsFiniteSet(Wanting) /\ Cardinality(Wanting) \in Nat
  BY WantingFinite
<1>2. count \in Int /\ count + 1 = Cardinality(Wanting)
  BY DEF CountInv
<1>3. Cardinality(Wanting) = 0 <=> Wanting = {}
  BY <1>1, FS_EmptySet
<1>4. ASSUME NEW t \in Wanting, NEW u \in Wanting, t # u PROVE count >= 1
  <2> DEFINE others == Wanting \ {t}
  <2>1. IsFiniteSet(others) /\ Cardinality(others) = Cardinality(Wanting) - 1 /\ u \in others
    BY <1>1, <1>4, FS_RemoveElement
  <2> HIDE DEF others
  <2>2. Cardinality(others) \in Nat /\ Cardinality(others) # 0
    BY <2>1, FS_EmptySet, FS_CardinalityType
  <2>3. QED BY <1>1, <1>2, <2>1, <2>2
<1>5. QED BY <1>1, <1>2, <1>3, <1>4

-----------------------------------------------------------------------------
(***************************************************************************)
(* What each call does to the places of the threads, the queues and the    *)
(* count.                                                                  *)
(***************************************************************************)

LEMMA GetMutexKeeps ==
    ASSUME CountInv, NEW t \in Thread, GetMutex(t)
    PROVE  CountInv'
<1>1. /\ pc[t] \in {"outside", "regain"} /\ count' = count + 1 /\ UNCHANGED <<mutq, condq>>
      /\ \A u \in Thread : pc'[u] = IF u = t THEN IF count' = 0 THEN "owner" ELSE "wait" ELSE pc[u]
      /\ pc' \in [Thread -> {"outside", "wait", "asleep", "owner", "wake",
                             "condition", "regain"}]
  BY DEF GetMutex, CountInv
<1>2. t \notin Wanting /\ Wanting' = Wanting \cup {t}
  BY <1>1 DEF Wanting, In
<1>3. In({"asleep"})' = In({"asleep"}) /\ In({"condition"})' = In({"condition"})
  BY <1>1 DEF In
<1>4. QED BY <1>1, <1>2, <1>3, CountFollows DEF CountInv

LEMMA WaitOnQueKeeps ==
    ASSUME CountInv, NEW t \in Thread, WaitOnQue(t)
    PROVE  CountInv'
<1>1. pc[t] = "wait" /\ UNCHANGED <<count, condq>>
  BY DEF WaitOnQue
<1>2. CASE count = 0 /\ pc' = [pc EXCEPT ![t] = "owner"] /\ UNCHANGED mutq
  <2>1. /\ \A u \in Thread : pc'[u] = IF u = t THEN "owner" ELSE pc[u]
        /\ pc' \in [Thread -> {"outside", "wait", "asleep", "owner", "wake",
                               "condition", "regain"}]
    BY <1>2 DEF CountInv
  <2>2. Wanting' = Wanting /\ In({"asleep"})' = In({"asleep"})
        /\ In({"condition"})' = In({"condition"})
    BY <1>1, <2>1 DEF Wanting, In
  <2>3. QED BY <1>1, <1>2, <2>1, <2>2, CountFollows DEF CountInv
<1>3. CASE count # 0 /\ pc' = [pc EXCEPT ![t] = "asleep"] /\ mutq' = Append(mutq, t)
  <2>1. /\ \A u \in Thread : pc'[u] = IF u = t THEN "asleep" ELSE pc[u]
        /\ pc' \in [Thread -> {"outside", "wait", "asleep", "owner", "wake",
                               "condition", "regain"}]
    BY <1>3 DEF CountInv
  <2>2. Wanting' = Wanting /\ In({"asleep"})' = In({"asleep"}) \cup {t}
        /\ In({"condition"})' = In({"condition"})
    BY <1>1, <2>1 DEF Wanting, In
  <2>3. t \notin On(mutq)
    BY <1>1 DEF CountInv, In
  <2>4. mutq' \in Seq(Thread) /\ On(mutq') = On(mutq) \cup {t} /\ Distinct(mutq')
    BY <1>3, <2>3, AppendLinks DEF CountInv
  <2>5. QED BY <1>1, <2>1, <2>2, <2>4, CountFollows DEF CountInv
<1>4. QED BY <1>2, <1>3 DEF WaitOnQue

LEMMA RelMutexKeeps ==
    ASSUME CountInv, NEW t \in Thread, RelMutex(t)
    PROVE  CountInv'
<1>1. /\ pc[t] = "owner" /\ count' = count - 1 /\ UNCHANGED <<mutq, condq>>
      /\ \A u \in Thread : pc'[u] = IF u = t THEN IF count' < 0 THEN "outside" ELSE "wake" ELSE pc[u]
      /\ pc' \in [Thread -> {"outside", "wait", "asleep", "owner", "wake",
                             "condition", "regain"}]
  BY DEF RelMutex, CountInv
<1>2. t \in Wanting /\ Wanting' = Wanting \ {t}
  BY <1>1 DEF Wanting, In
<1>3. In({"asleep"})' = In({"asleep"}) /\ In({"condition"})' = In({"condition"})
  BY <1>1 DEF In
<1>4. QED BY <1>1, <1>2, <1>3, CountFollows DEF CountInv

(* wake1 takes the first sleeper off the queue and makes it the owner.      *)
LEMMA WakesFirst ==
    ASSUME CountInv, NEW t \in Thread, pc[t] # "asleep",
           NEW place \in {"outside", "condition"}, WakeOwner([pc EXCEPT ![t] = place])
    PROVE  /\ mutq' \in Seq(Thread) /\ Distinct(mutq')
           /\ pc' \in [Thread -> {"outside", "wait", "asleep", "owner", "wake",
                                  "condition", "regain"}]
           /\ On(mutq') = In({"asleep"})'
           /\ \/ /\ mutq = << >> /\ In({"asleep"}) = {}
                 /\ \A u \in Thread : pc'[u] = IF u = t THEN place ELSE pc[u]
              \/ \E h \in Thread : /\ pc[h] = "asleep" /\ h # t
                                   /\ \A u \in Thread : pc'[u] = IF u = t THEN place ELSE
                                                                 IF u = h THEN "owner" ELSE pc[u]
<1>1. /\ mutq \in Seq(Thread) /\ Distinct(mutq) /\ On(mutq) = In({"asleep"})
      /\ pc \in [Thread -> {"outside", "wait", "asleep", "owner", "wake",
                            "condition", "regain"}]
  BY DEF CountInv
<1>2. CASE mutq = << >>
  <2>1. pc' = [pc EXCEPT ![t] = place] /\ mutq' = mutq
    BY <1>2 DEF WakeOwner
  <2>2. /\ \A u \in Thread : pc'[u] = IF u = t THEN place ELSE pc[u]
        /\ pc' \in [Thread -> {"outside", "wait", "asleep", "owner", "wake",
                               "condition", "regain"}]
    BY <1>1, <2>1
  <2>3. In({"asleep"})' = In({"asleep"})
    BY <2>2 DEF In
  <2>4. In({"asleep"}) = {}
    BY <1>1, <1>2 DEF On, ToSet
  <2>5. QED BY <1>1, <1>2, <2>1, <2>2, <2>3, <2>4
<1>3. CASE mutq # << >>
  <2> DEFINE h == Head(mutq)
  <2>1. pc' = [[pc EXCEPT ![t] = place] EXCEPT ![h] = "owner"] /\ mutq' = Tail(mutq)
    BY <1>3 DEF WakeOwner
  <2>2. /\ h \in Thread /\ h \in On(mutq) /\ Tail(mutq) \in Seq(Thread)
        /\ On(Tail(mutq)) = On(mutq) \ {h} /\ Distinct(Tail(mutq))
    BY <1>1, <1>3, TailUnlinks
  <2> HIDE DEF h
  <2>3. pc[h] = "asleep" /\ h # t
    BY <1>1, <2>2 DEF In
  <2>4. /\ \A u \in Thread : pc'[u] = IF u = t THEN place ELSE IF u = h THEN "owner" ELSE pc[u]
        /\ pc' \in [Thread -> {"outside", "wait", "asleep", "owner", "wake",
                               "condition", "regain"}]
    BY <1>1, <2>1, <2>2, <2>3
  <2>5. In({"asleep"})' = In({"asleep"}) \ {h}
    BY <2>3, <2>4 DEF In
  <2>6. QED BY <1>1, <2>1, <2>2, <2>3, <2>4, <2>5
<1>4. QED BY <1>2, <1>3

LEMMA WakeupQueKeeps ==
    ASSUME CountInv, NEW t \in Thread, WakeupQue(t)
    PROVE  CountInv'
<1>1. pc[t] = "wake" /\ WakeOwner([pc EXCEPT ![t] = "outside"]) /\ UNCHANGED <<count, condq>>
  BY DEF WakeupQue
<1>2. /\ mutq' \in Seq(Thread) /\ Distinct(mutq') /\ On(mutq') = In({"asleep"})'
      /\ pc' \in [Thread -> {"outside", "wait", "asleep", "owner", "wake",
                             "condition", "regain"}]
  BY <1>1, WakesFirst
<1>3. \/ \A u \in Thread : pc'[u] = IF u = t THEN "outside" ELSE pc[u]
      \/ \E h \in Thread : pc[h] = "asleep" /\ h # t
                           /\ \A u \in Thread : pc'[u] = IF u = t THEN "outside" ELSE
                                                         IF u = h THEN "owner" ELSE pc[u]
  BY <1>1, WakesFirst
<1>4. Wanting' = Wanting /\ In({"condition"})' = In({"condition"})
  BY <1>1, <1>3 DEF Wanting, In
<1>5. QED BY <1>1, <1>2, <1>4, CountFollows DEF CountInv

LEMMA WaitCondKeeps ==
    ASSUME CountInv, NEW t \in Thread, WaitCond(t)
    PROVE  CountInv'
<1>1. /\ pc[t] = "owner" /\ WakeOwner([pc EXCEPT ![t] = "condition"])
      /\ condq' = Append(condq, t) /\ count' = count - 1
  BY DEF WaitCond
<1>2. /\ mutq' \in Seq(Thread) /\ Distinct(mutq') /\ On(mutq') = In({"asleep"})'
      /\ pc' \in [Thread -> {"outside", "wait", "asleep", "owner", "wake",
                             "condition", "regain"}]
  BY <1>1, WakesFirst
<1>3. \/ \A u \in Thread : pc'[u] = IF u = t THEN "condition" ELSE pc[u]
      \/ \E h \in Thread : pc[h] = "asleep" /\ h # t
                           /\ \A u \in Thread : pc'[u] = IF u = t THEN "condition" ELSE
                                                         IF u = h THEN "owner" ELSE pc[u]
  BY <1>1, WakesFirst
<1>4. /\ t \in Wanting /\ Wanting' = Wanting \ {t}
      /\ In({"condition"})' = In({"condition"}) \cup {t}
  BY <1>1, <1>3 DEF Wanting, In
<1>5. t \notin On(condq)
  BY <1>1 DEF CountInv, In
<1>6. condq' \in Seq(Thread) /\ On(condq') = On(condq) \cup {t} /\ Distinct(condq')
  BY <1>1, <1>5, AppendLinks DEF CountInv
<1>7. QED BY <1>1, <1>2, <1>4, <1>6, CountFollows DEF CountInv

LEMMA SignalCondKeeps ==
    ASSUME CountInv, NEW t \in Thread, SignalCond(t)
    PROVE  CountInv'
<1> DEFINE h == Head(condq)
<1>1. /\ condq' = Tail(condq) /\ condq # << >> /\ pc' = [pc EXCEPT ![h] = "regain"]
      /\ UNCHANGED <<count, mutq>>
  BY DEF SignalCond
<1>2. /\ h \in Thread /\ h \in On(condq) /\ Tail(condq) \in Seq(Thread)
      /\ On(Tail(condq)) = On(condq) \ {h} /\ Distinct(Tail(condq))
  BY <1>1, TailUnlinks DEF CountInv
<1> HIDE DEF h
<1>3. pc[h] = "condition"
  BY <1>2 DEF CountInv, In
<1>4. /\ \A u \in Thread : pc'[u] = IF u = h THEN "regain" ELSE pc[u]
      /\ pc' \in [Thread -> {"outside", "wait", "asleep", "owner", "wake",
                             "condition", "regain"}]
  BY <1>1, <1>2 DEF CountInv
<1>5. /\ Wanting' = Wanting /\ In({"asleep"})' = In({"asleep"})
      /\ In({"condition"})' = In({"condition"}) \ {h}
  BY <1>3, <1>4 DEF Wanting, In
<1>6. QED BY <1>1, <1>2, <1>4, <1>5, CountFollows DEF CountInv

LEMMA BroadCondKeeps ==
    ASSUME CountInv, NEW t \in Thread, BroadCond(t)
    PROVE  CountInv'
<1>1. /\ condq' = << >> /\ UNCHANGED <<count, mutq>>
      /\ \A u \in Thread : pc'[u] = IF u \in On(condq) THEN "regain" ELSE pc[u]
      /\ pc' \in [Thread -> {"outside", "wait", "asleep", "owner", "wake",
                             "condition", "regain"}]
  BY DEF BroadCond, CountInv, On
<1>2. \A u \in Thread : u \in On(condq) <=> pc[u] = "condition"
  BY DEF CountInv, In
<1>3. /\ Wanting' = Wanting /\ In({"asleep"})' = In({"asleep"})
      /\ In({"condition"})' = {}
  BY <1>1, <1>2 DEF Wanting, In
<1>4. condq' \in Seq(Thread) /\ On(condq') = {} /\ Distinct(condq')
  BY <1>1 DEF On, ToSet, Distinct
<1>5. QED BY <1>1, <1>3, <1>4, CountFollows DEF CountInv

LEMMA NextCounts == CountInv /\ [MutexNext]_mutexVars => CountInv'
<1> SUFFICES ASSUME CountInv, [MutexNext]_mutexVars PROVE CountInv'
  OBVIOUS
<1>1. ASSUME NEW t \in Thread, GetMutex(t) PROVE CountInv'
  BY <1>1, GetMutexKeeps
<1>2. ASSUME NEW t \in Thread, WaitOnQue(t) PROVE CountInv'
  BY <1>2, WaitOnQueKeeps
<1>3. ASSUME NEW t \in Thread, RelMutex(t) PROVE CountInv'
  BY <1>3, RelMutexKeeps
<1>4. ASSUME NEW t \in Thread, WakeupQue(t) PROVE CountInv'
  BY <1>4, WakeupQueKeeps
<1>5. ASSUME NEW t \in Thread, WaitCond(t) PROVE CountInv'
  BY <1>5, WaitCondKeeps
<1>6. ASSUME NEW t \in Thread, SignalCond(t) PROVE CountInv'
  BY <1>6, SignalCondKeeps
<1>7. ASSUME NEW t \in Thread, BroadCond(t) PROVE CountInv'
  BY <1>7, BroadCondKeeps
<1>8. CASE UNCHANGED mutexVars
  BY <1>8 DEF mutexVars, CountInv, Wanting, In
<1>9. QED BY <1>1, <1>2, <1>3, <1>4, <1>5, <1>6, <1>7, <1>8 DEF MutexNext

LEMMA InitCounts == MutexInit => CountInv
<1> SUFFICES ASSUME MutexInit PROVE CountInv
  OBVIOUS
<1>1. Wanting = {} /\ In({"asleep"}) = {} /\ In({"condition"}) = {}
  BY DEF MutexInit, Wanting, In
<1>2. On(<<>>) = {} /\ Distinct(<<>>)
  BY DEF On, ToSet, Distinct
<1>3. Cardinality(Wanting) = 0
  BY <1>1, FS_EmptySet
<1>4. /\ count = -1 /\ mutq = <<>> /\ condq = <<>>
      /\ pc \in [Thread -> {"outside", "wait", "asleep", "owner", "wake",
                            "condition", "regain"}]
  BY DEF MutexInit
<1>5. count \in Int /\ count + 1 = Cardinality(Wanting)
  BY <1>3, <1>4
<1>6. /\ mutq \in Seq(Thread) /\ condq \in Seq(Thread) /\ Distinct(mutq) /\ Distinct(condq)
      /\ On(mutq) = {} /\ On(condq) = {}
  BY <1>2, <1>4
<1>7. QED BY <1>1, <1>4, <1>5, <1>6 DEF CountInv

LEMMA CountInvSays == CountInv => MutexTypeOK /\ Counted
<1> SUFFICES ASSUME CountInv PROVE MutexTypeOK /\ Counted
  OBVIOUS
<1>1. Counted
  BY DEF CountInv, Counted, Wanting, On
<1>2. count \in -1..(2 * Cardinality(Thread))
  BY WantingFinite DEF CountInv
<1>3. QED BY <1>1, <1>2 DEF CountInv, MutexTypeOK

-----------------------------------------------------------------------------
(* Wherever the threads lose the processor, the first word of the wmutex is *)
(* the number of those that own or want it less one, and who sleeps is on  *)
(* the queue that will wake it.                                            *)
THEOREM MutexCounts == MutexSpec => [](MutexTypeOK /\ Counted)
BY InitCounts, NextCounts, CountInvSays, PTL DEF MutexSpec

-----------------------------------------------------------------------------
(* The mailboxes *)

(* The boxes that can be moved to, and what entries and indexes are.       *)
Others == {"DRAFTS", "SENT"}
Entries == [file : Nat, msg : Nat, kind : {"mail", "sent", "draft"}, mark : {"none", "flag", "delete"}]
Indexes == [ref : Nat, first : Nat, list : Seq(Entries)]

(* A list whose entries have different files, with numbers below n, and    *)
(* each its own message or none.                                           *)
Good(list, n, fs) ==
    /\ \A i \in 1..Len(list) : list[i].file < n
    /\ \A i \in 1..Len(list) : list[i].msg # NoMsg => ReadFile(fs, list[i].file) \in {list[i].msg, NoMsg}
    /\ \A i, j \in 1..Len(list) : i # j => list[i].file # list[j].file

(* Message m can be read from the list.                                    *)
Lists(list, m, fs) ==
    \E i \in 1..Len(list) : list[i].msg = m /\ ReadFile(fs, list[i].file) = m

(* The list has no message twice.                                          *)
Once(list) == \A i, j \in 1..Len(list) : i # j => list[i].msg # list[j].msg

(* Two lists that only differ in marks.                                    *)
SameMail(list, other) ==
    /\ Len(list) = Len(other)
    /\ \A i \in 1..Len(list) : list[i].file = other[i].file /\ list[i].msg = other[i].msg

(* The other list has all its entries.                                     *)
Within(list, other) == \A i \in 1..Len(list) : \E j \in 1..Len(other) : other[j] = list[i]

(* What a file that is put, or erased, leaves readable.                    *)
LEMMA ReadPut ==
    ASSUME NEW fs, NEW f, NEW m, NEW g
    PROVE  ReadFile(Put(fs, f, m), g) = IF g = f THEN m ELSE ReadFile(fs, g)
<1>1. DOMAIN Put(fs, f, m) = DOMAIN fs \cup {f}
  BY DEF Put
<1>2. \A x \in DOMAIN fs \cup {f} : Put(fs, f, m)[x] = IF x = f THEN m ELSE fs[x]
  BY DEF Put
<1>3. QED BY <1>1, <1>2 DEF ReadFile

LEMMA ReadErase ==
    ASSUME NEW fs, NEW f, NEW g
    PROVE  ReadFile(Erase(fs, f), g) = IF g = f THEN NoMsg ELSE ReadFile(fs, g)
<1>1. DOMAIN Erase(fs, f) = DOMAIN fs \ {f}
  BY DEF Erase, Restrict
<1>2. \A x \in DOMAIN fs \ {f} : Erase(fs, f)[x] = fs[x]
  BY DEF Erase, Restrict
<1>3. QED BY <1>1, <1>2 DEF ReadFile

(* The entries of a list, by their places.                                 *)
LEMMA EntriesOf ==
    ASSUME NEW list \in Seq(Entries)
    PROVE  /\ Len(list) \in Nat /\ DOMAIN list = 1..Len(list)
           /\ \A i \in 1..Len(list) :
                 list[i] \in Entries /\ list[i].file \in Nat /\ list[i].msg \in Nat
           /\ \A e : e \in ToSet(list) <=> \E i \in 1..Len(list) : list[i] = e
<1>1. /\ Len(list) \in Nat /\ DOMAIN list = 1..Len(list) /\ \A i \in 1..Len(list) : list[i] \in Entries
  BY OnMember
<1>2. \A i \in 1..Len(list) : list[i].file \in Nat /\ list[i].msg \in Nat
  BY <1>1 DEF Entries
<1>3. \A e : e \in ToSet(list) <=> \E i \in 1..Len(list) : list[i] = e
  BY <1>1 DEF ToSet
<1>4. QED BY <1>1, <1>2, <1>3

(* A message is filed under a number that no entry has.                    *)
LEMMA GoodPut ==
    ASSUME NEW list \in Seq(Entries), NEW n \in Nat, NEW f \in Nat, n <= f, NEW fs, NEW m,
           Good(list, n, fs)
    PROVE  /\ Good(list, n, Put(fs, f, m))
           /\ \A x : Lists(list, x, fs) => Lists(list, x, Put(fs, f, m))
<1>1. ASSUME NEW i \in 1..Len(list)
      PROVE  ReadFile(Put(fs, f, m), list[i].file) = ReadFile(fs, list[i].file)
  <2>1. list[i].file # f
    BY EntriesOf DEF Good
  <2>2. QED BY <2>1, ReadPut
<1>2. Good(list, n, Put(fs, f, m))
  BY <1>1 DEF Good
<1>3. \A x : Lists(list, x, fs) => Lists(list, x, Put(fs, f, m))
  BY <1>1 DEF Lists
<1>4. QED BY <1>2, <1>3

(* Some file goes.                                                         *)
LEMMA GoodErase ==
    ASSUME NEW list \in Seq(Entries), NEW n \in Nat, NEW f, NEW fs, Good(list, n, fs)
    PROVE  Good(list, n, Erase(fs, f))
<1>1. ASSUME NEW i \in 1..Len(list)
      PROVE  ReadFile(Erase(fs, f), list[i].file) \in {NoMsg, ReadFile(fs, list[i].file)}
  <2>1. ReadFile(Erase(fs, f), list[i].file)
          = IF list[i].file = f THEN NoMsg ELSE ReadFile(fs, list[i].file)
    BY ReadErase
  <2>2. QED BY <2>1
<1>2. QED BY <1>1 DEF Good

(* An entry under the next number.                                         *)
LEMMA GoodAppend ==
    ASSUME NEW list \in Seq(Entries), NEW n \in Nat, NEW fs, NEW e \in Entries,
           Good(list, n, fs), e.file = n, e.msg # NoMsg => ReadFile(fs, n) = e.msg
    PROVE  /\ Good(Append(list, e), n + 1, fs)
           /\ \A x : Lists(list, x, fs) => Lists(Append(list, e), x, fs)
           /\ e.msg # NoMsg => Lists(Append(list, e), e.msg, fs)
<1> DEFINE r == Append(list, e)
<1>1. /\ Len(r) = Len(list) + 1 /\ r[Len(list) + 1] = e /\ \A i \in 1..Len(list) : r[i] = list[i]
  BY AppendProperties
<1>2. Len(list) \in Nat /\ \A i \in 1..Len(list) : list[i].file \in Nat /\ list[i].file < n
  BY EntriesOf DEF Good
<1> HIDE DEF r
<1>3. \A i \in 1..Len(r) : i \in 1..Len(list) \/ i = Len(list) + 1
  BY <1>1, <1>2
<1>4. ASSUME NEW i \in 1..Len(r)
      PROVE  r[i].file < n + 1 /\ (r[i].msg # NoMsg => ReadFile(fs, r[i].file) \in {r[i].msg, NoMsg})
  <2>1. CASE i \in 1..Len(list)
    BY <1>1, <1>2, <2>1 DEF Good
  <2>2. CASE i = Len(list) + 1
    BY <1>1, <2>2
  <2>3. QED BY <1>3, <2>1, <2>2
<1>5. ASSUME NEW i \in 1..Len(r), NEW j \in 1..Len(r), i # j PROVE r[i].file # r[j].file
  <2>1. CASE i \in 1..Len(list) /\ j \in 1..Len(list)
    BY <1>1, <1>5, <2>1 DEF Good
  <2>2. CASE i \in 1..Len(list) /\ j = Len(list) + 1
    BY <1>1, <1>2, <2>2
  <2>3. CASE j \in 1..Len(list) /\ i = Len(list) + 1
    BY <1>1, <1>2, <2>3
  <2>4. QED BY <1>3, <1>5, <2>1, <2>2, <2>3
<1>6. Good(r, n + 1, fs)
  BY <1>4, <1>5 DEF Good
<1>7. ASSUME NEW x, Lists(list, x, fs) PROVE Lists(r, x, fs)
  <2>1. PICK i \in 1..Len(list) : list[i].msg = x /\ ReadFile(fs, list[i].file) = x
    BY <1>7 DEF Lists
  <2>2. i \in 1..Len(r) /\ r[i] = list[i]
    BY <1>1, <1>2
  <2>3. QED BY <2>1, <2>2 DEF Lists
<1>8. ASSUME e.msg # NoMsg PROVE Lists(r, e.msg, fs)
  <2>1. Len(list) + 1 \in 1..Len(r)
    BY <1>1, <1>2
  <2>2. QED BY <1>1, <1>8, <2>1 DEF Lists
<1>9. QED BY <1>6, <1>7, <1>8 DEF r

(* An entry goes, and its file may go with it: all others can be read.     *)
LEMMA GoodRemove ==
    ASSUME NEW list \in Seq(Entries), NEW n \in Nat, NEW fs, NEW k \in 1..Len(list),
           Good(list, n, fs)
    PROVE  /\ RemoveAt(list, k) \in Seq(Entries)
           /\ Good(RemoveAt(list, k), n, fs)
           /\ Good(RemoveAt(list, k), n, Erase(fs, list[k].file))
           /\ \A x : Lists(list, x, fs) =>
                 \/ list[k].msg = x /\ ReadFile(fs, list[k].file) = x
                 \/ /\ Lists(RemoveAt(list, k), x, fs)
                    /\ Lists(RemoveAt(list, k), x, Erase(fs, list[k].file))
<1> DEFINE r == RemoveAt(list, k)
<1>0. r \in Seq(Entries) /\ OneLess(list, k, r)
  BY RemoveAtPlaces
<1> HIDE DEF r
<1>1. /\ \A i \in 1..Len(r) : \E j \in 1..Len(list) : j # k /\ r[i] = list[j]
      /\ \A j \in 1..Len(list) : j # k => \E i \in 1..Len(r) : r[i] = list[j]
      /\ \A i, j \in 1..Len(r) : i # j =>
            \E u, v \in 1..Len(list) : u # v /\ r[i] = list[u] /\ r[j] = list[v]
  BY <1>0 DEF OneLess
<1>2. Good(r, n, fs)
  <2>1. ASSUME NEW i \in 1..Len(r)
        PROVE  /\ r[i].file < n
               /\ r[i].msg # NoMsg => ReadFile(fs, r[i].file) \in {r[i].msg, NoMsg}
    <3>1. PICK j \in 1..Len(list) : r[i] = list[j]
      BY <1>1
    <3>2. QED BY <3>1 DEF Good
  <2>3. ASSUME NEW i \in 1..Len(r), NEW j \in 1..Len(r), i # j PROVE r[i].file # r[j].file
    <3>1. PICK u \in 1..Len(list), v \in 1..Len(list) : u # v /\ r[i] = list[u] /\ r[j] = list[v]
      BY <1>1, <2>3
    <3>2. QED BY <3>1 DEF Good
  <2>4. QED BY <2>1, <2>3 DEF Good
<1>3. Good(r, n, Erase(fs, list[k].file))
  BY <1>0, <1>2, GoodErase
<1>4. ASSUME NEW x, Lists(list, x, fs), ~ (list[k].msg = x /\ ReadFile(fs, list[k].file) = x)
      PROVE  Lists(r, x, fs) /\ Lists(r, x, Erase(fs, list[k].file))
  <2>1. PICK j \in 1..Len(list) : list[j].msg = x /\ ReadFile(fs, list[j].file) = x
    BY <1>4 DEF Lists
  <2>2. j # k
    BY <1>4, <2>1
  <2>3. PICK i \in 1..Len(r) : r[i] = list[j]
    BY <1>1, <2>2
  <2>4. list[j].file # list[k].file
    BY <2>2 DEF Good
  <2>5. ReadFile(Erase(fs, list[k].file), list[j].file) = x
    <3>1. ReadFile(Erase(fs, list[k].file), list[j].file)
            = IF list[j].file = list[k].file THEN NoMsg ELSE ReadFile(fs, list[j].file)
      BY ReadErase
    <3>2. QED BY <3>1, <2>1, <2>4
  <2>6. QED BY <2>1, <2>3, <2>5 DEF Lists
<1>5. QED BY <1>0, <1>2, <1>3, <1>4 DEF r

(* Marks do not matter.                                                    *)
LEMMA GoodSame ==
    ASSUME NEW list \in Seq(Entries), NEW other \in Seq(Entries), SameMail(list, other)
    PROVE  /\ \A n, fs : Good(list, n, fs) => Good(other, n, fs)
           /\ \A x, fs : Lists(list, x, fs) => Lists(other, x, fs)
           /\ Once(list) => Once(other)
<1>1. Len(list) \in Nat /\ Len(other) = Len(list)
      /\ \A i \in 1..Len(list) : list[i].file = other[i].file /\ list[i].msg = other[i].msg
  BY EntriesOf DEF SameMail
<1>2. ASSUME NEW n, NEW fs, Good(list, n, fs) PROVE Good(other, n, fs)
  BY <1>1, <1>2 DEF Good
<1>3. ASSUME NEW x, NEW fs, Lists(list, x, fs) PROVE Lists(other, x, fs)
  BY <1>1, <1>3 DEF Lists
<1>4. Once(list) => Once(other)
  BY <1>1 DEF Once
<1>5. QED BY <1>2, <1>3, <1>4

(* A list that has no message twice stays so when an entry goes ...        *)
LEMMA OnceRemove ==
    ASSUME NEW list \in Seq(Entries), NEW k \in 1..Len(list), Once(list)
    PROVE  Once(RemoveAt(list, k))
<1> DEFINE r == RemoveAt(list, k)
<1>1. OneLess(list, k, r)
  BY RemoveAtPlaces
<1> HIDE DEF r
<1>2. ASSUME NEW i \in 1..Len(r), NEW j \in 1..Len(r), i # j PROVE r[i].msg # r[j].msg
  <2>1. PICK u \in 1..Len(list), v \in 1..Len(list) : u # v /\ r[i] = list[u] /\ r[j] = list[v]
    BY <1>1, <1>2 DEF OneLess
  <2>2. QED BY <2>1 DEF Once
<1>3. QED BY <1>2 DEF Once, r

(* What the one list has, the other has.                                   *)
LEMMA WithinLists ==
    ASSUME NEW list, NEW other, Within(list, other), NEW x, NEW fs, Lists(list, x, fs)
    PROVE  Lists(other, x, fs)
BY DEF Within, Lists

LEMMA WithinAppend ==
    ASSUME NEW list, NEW other \in Seq(Entries), NEW e \in Entries, Within(list, other)
    PROVE  Within(list, Append(other, e))
<1>1. /\ Len(Append(other, e)) = Len(other) + 1 /\ Len(other) \in Nat
      /\ \A j \in 1..Len(other) : Append(other, e)[j] = other[j]
  BY AppendProperties, EntriesOf
<1>2. \A j \in 1..Len(other) : j \in 1..Len(Append(other, e))
  BY <1>1
<1>3. QED BY <1>1, <1>2 DEF Within

(* ... and when one comes for a message that it does not have.             *)
LEMMA OnceAppend ==
    ASSUME NEW list \in Seq(Entries), NEW e \in Entries, Once(list),
           \A i \in 1..Len(list) : list[i].msg # e.msg
    PROVE  Once(Append(list, e))
<1> DEFINE r == Append(list, e)
<1>1. /\ Len(r) = Len(list) + 1 /\ r[Len(list) + 1] = e /\ \A i \in 1..Len(list) : r[i] = list[i]
  BY AppendProperties
<1>2. Len(list) \in Nat
  BY EntriesOf
<1> HIDE DEF r
<1>3. ASSUME NEW i \in 1..Len(r), NEW j \in 1..Len(r), i # j PROVE r[i].msg # r[j].msg
  <2>0. \A l \in 1..Len(r) : l \in 1..Len(list) \/ l = Len(list) + 1
    BY <1>1, <1>2
  <2>1. CASE i \in 1..Len(list) /\ j \in 1..Len(list)
    BY <1>1, <1>3, <2>1 DEF Once
  <2>2. CASE i \in 1..Len(list) /\ j = Len(list) + 1
    BY <1>1, <2>2
  <2>3. CASE j \in 1..Len(list) /\ i = Len(list) + 1
    BY <1>1, <2>3
  <2>4. QED BY <2>0, <1>3, <2>1, <2>2, <2>3
<1>4. QED BY <1>3 DEF Once, r

(* Which boxes can be open, and what the program can be in the middle of.  *)
Opens == {<<>>, <<"INBOX">>, <<"INBOX", "DRAFTS">>, <<"INBOX", "SENT">>}
Doings ==
    [op : {"idle", "close", "compose", "movesave"}]
    \cup [op : {"expunge"}, then : {"idle", "close"}]
    \cup [op : {"fetch"}, next : Nat, count : Nat, ref : Nat, got : SUBSET (Nat \ {NoMsg})]
    \cup [op : {"count"}, count : Nat, ref : Nat]
    \cup [op : {"file"}, to : Others, file : Nat, msg : Nat]
    \cup [op : {"move"}, to : Others, index : Indexes, first : BOOLEAN]

MailType ==
    /\ deletemsgs \in BOOLEAN /\ server \in Seq(Nat)
    /\ mailDisk \in [Boxes -> Indexes] /\ mailIndex \in [Boxes -> Indexes]
    /\ DOMAIN mailFiles = Boxes
    /\ \A b \in Boxes : \A f \in DOMAIN mailFiles[b] : mailFiles[b][f] \in Nat
    /\ temporary \in Nat /\ opened \in Opens /\ doing \in Doings
    /\ mailSpent \in [{"mail", "written", "crashes", "changes"} -> Nat]
    /\ owed \subseteq Nat \ {NoMsg} /\ spoiled \subseteq Others
    /\ opened = <<>> => doing = Idle
    /\ doing.op \in {"fetch", "count"} => Top = "INBOX"

(* The number that the next file of box b would get.                       *)
NextFile(b, ref) == IF b = "INBOX" THEN ref ELSE ref + 1

(* While mail is fetched the refnum in the index is behind.                *)
RefNow(b) == IF b = "INBOX" /\ doing.op \in {"fetch", "count"} THEN doing.ref ELSE Current(b).ref

(* The saved index and the one that counts are good, and the one that      *)
(* counts is not behind.                                                   *)
BoxGood(b) ==
    /\ Good(mailDisk[b].list, NextFile(b, mailDisk[b].ref), mailFiles[b])
    /\ Good(Current(b).list, NextFile(b, RefNow(b)), mailFiles[b])
    /\ mailDisk[b].ref <= RefNow(b)

(* The index that a move builds for the other box, unless it spoils that.  *)
MoveGood ==
    doing.op = "move" /\ doing.to \notin spoiled =>
        /\ doing.to # Top /\ mailDisk[doing.to].ref <= doing.index.ref
        /\ Good(doing.index.list, doing.index.ref + 1, mailFiles[doing.to])
        /\ Within(mailDisk[doing.to].list, doing.index.list)
        /\ doing.first => Marked(mailIndex[Top].list, "flag") # {}

(* The file that still has no entry.                                       *)
FileGood ==
    doing.op = "file" =>
        /\ doing.file = Current(doing.to).ref + 1
        /\ doing.msg # NoMsg => ReadFile(mailFiles[doing.to], doing.file) = doing.msg

(* Where a message that must not be lost is.                               *)
Safe(m) ==
    \/ doing.op = "compose" /\ temporary = m
    \/ doing.op = "file" /\ doing.msg = m
    \/ doing.op = "move" /\ Lists(doing.index.list, m, mailFiles[doing.to])
    \/ \E b \in Boxes : Lists(Current(b).list, m, mailFiles[b])

OwedSafe == spoiled = {} => \A m \in owed : Safe(m)

(* What the server has, which mail came last, and whether it deletes.      *)
Post == [server |-> server, last |-> mailSpent.mail, deletes |-> deletemsgs]

ServerOK == Distinct(server) /\ On(server) \subseteq 1..mailSpent.mail

(* A list of mail that was asked for up to bound: what the server still    *)
(* has of it was got in this session, or lies before bound.                *)
Asked(list, bound, got, post) ==
    /\ Once(list)
    /\ \A i \in 1..Len(list) : list[i].msg \in 1..post.last
    /\ \A i \in 1..Len(list) :
          IF post.deletes THEN list[i].msg \in On(post.server) => list[i].msg \in got
          ELSE \E j \in 1..Len(post.server) : j < bound /\ post.server[j] = list[i].msg

(* What the INBOX has asked for, and got, while it fetches.                *)
Bound == CASE doing.op = "fetch" -> doing.next
           [] doing.op = "count" -> doing.count
           [] OTHER -> Current("INBOX").first
Got == IF doing.op = "fetch" THEN doing.got ELSE {}

InboxOK ==
    /\ Current("INBOX").first = mailDisk["INBOX"].first
    /\ Asked(mailDisk["INBOX"].list, mailDisk["INBOX"].first, {}, Post)
    /\ Asked(Current("INBOX").list, Bound, Got, Post)

FetchOK ==
    doing.op = "fetch" =>
        /\ doing.next \in 1..doing.count /\ doing.count <= Len(server) + 1
        /\ \A m \in doing.got : Lists(Current("INBOX").list, m, mailFiles["INBOX"])
        /\ \A m \in doing.got : \E i \in 1..Len(server) : i < doing.next /\ server[i] = m

(* All of it.                                                              *)
MailInv ==
    /\ MailType
    /\ \A b \in Boxes \ spoiled : BoxGood(b)
    /\ MoveGood /\ FileGood /\ OwedSafe /\ ServerOK /\ InboxOK /\ FetchOK

(* The INBOX is open, and at most one box above it.                        *)
LEMMA OpenIs ==
    ASSUME opened \in Opens
    PROVE  /\ opened # <<>> => Top \in Boxes /\ IsOpen("INBOX") /\ IsOpen(Top)
           /\ opened # <<>> => \A b \in Others : b # Top => ~IsOpen(b)
           /\ opened = <<>> => \A b \in Boxes : ~IsOpen(b)
<1>1. CASE opened = <<>>
  BY <1>1 DEF IsOpen
<1>2. CASE opened = <<"INBOX">>
  BY <1>2 DEF IsOpen, Top, Last, Boxes, Others
<1>3. CASE opened = <<"INBOX", "DRAFTS">>
  BY <1>3 DEF IsOpen, Top, Last, Boxes, Others
<1>4. CASE opened = <<"INBOX", "SENT">>
  BY <1>4 DEF IsOpen, Top, Last, Boxes, Others
<1>5. QED BY <1>1, <1>2, <1>3, <1>4 DEF Opens

(* The index that counts is the one in memory, if the box is open.         *)
LEMMA CurrentIs ==
    ASSUME MailType
    PROVE  /\ \A b \in Boxes : Current(b) \in Indexes /\ mailDisk[b] \in Indexes /\ mailIndex[b] \in Indexes
           /\ opened = <<>> => \A b \in Boxes : Current(b) = mailDisk[b]
           /\ opened # <<>> =>
                /\ Top \in Boxes /\ Current(Top) = mailIndex[Top]
                /\ Current("INBOX") = mailIndex["INBOX"]
                /\ \A b \in Others : b # Top => Current(b) = mailDisk[b]
                /\ \A b \in Others : IndexOf(b) = Current(b)
<1>1. mailDisk \in [Boxes -> Indexes] /\ mailIndex \in [Boxes -> Indexes] /\ opened \in Opens
  BY DEF MailType
<1>2. "INBOX" \in Boxes /\ Others \subseteq Boxes
  BY DEF Boxes, Others
<1>3. \A b \in Boxes : Current(b) \in Indexes /\ mailDisk[b] \in Indexes /\ mailIndex[b] \in Indexes
  BY <1>1 DEF Current
<1>4. opened = <<>> => \A b \in Boxes : Current(b) = mailDisk[b]
  BY <1>1, OpenIs DEF Current
<1>5. ASSUME opened # <<>>
      PROVE  /\ Top \in Boxes /\ Current(Top) = mailIndex[Top]
             /\ Current("INBOX") = mailIndex["INBOX"]
             /\ \A b \in Others : b # Top => Current(b) = mailDisk[b]
             /\ \A b \in Others : IndexOf(b) = Current(b)
  <2>1. Top \in Boxes /\ IsOpen("INBOX") /\ IsOpen(Top) /\ \A b \in Others : b # Top => ~IsOpen(b)
    BY <1>1, <1>5, OpenIs
  <2>2. QED BY <2>1 DEF Current, IndexOf
<1>6. QED BY <1>3, <1>4, <1>5

(* The parts of an index.                                                  *)
LEMMA IndexIs ==
    ASSUME NEW x \in Indexes
    PROVE  x.ref \in Nat /\ x.first \in Nat /\ x.list \in Seq(Entries)
BY DEF Indexes

(* What is known of an operation in progress, by its name.                 *)
LEMMA DoingIs ==
    ASSUME doing \in Doings
    PROVE  /\ doing.op \in {"idle", "close", "compose", "movesave", "expunge", "fetch", "count", "file", "move"}
           /\ doing.op = "expunge" => doing \in [op : {"expunge"}, then : {"idle", "close"}]
           /\ doing.op = "fetch" =>
                doing \in [op : {"fetch"}, next : Nat, count : Nat, ref : Nat, got : SUBSET (Nat \ {NoMsg})]
           /\ doing.op = "count" => doing \in [op : {"count"}, count : Nat, ref : Nat]
           /\ doing.op = "file" => doing \in [op : {"file"}, to : Others, file : Nat, msg : Nat]
           /\ doing.op = "move" => doing \in [op : {"move"}, to : Others, index : Indexes, first : BOOLEAN]
BY DEF Doings

(* What nobody touched is as good as before.                               *)
LEMMA BoxStays ==
    ASSUME NEW b, BoxGood(b), mailDisk'[b] = mailDisk[b], Current(b)' = Current(b),
           RefNow(b)' = RefNow(b), mailFiles'[b] = mailFiles[b]
    PROVE  BoxGood(b)'
BY DEF BoxGood

(* The box at which the user looks changes in memory and no other does.    *)
LEMMA TopChanges ==
    ASSUME MailType, opened # <<>>, NEW x, opened' = opened, mailDisk' = mailDisk,
           mailIndex' = [mailIndex EXCEPT ![Top] = x]
    PROVE  /\ Top' = Top /\ mailIndex'[Top] = x
           /\ \A b \in Boxes : Current(b)' = IF b = Top THEN x ELSE Current(b)
<1>1. Top' = Top /\ \A b : IsOpen(b)' = IsOpen(b)
  BY DEF Top, IsOpen
<1>2. Top \in Boxes /\ IsOpen(Top) /\ mailIndex \in [Boxes -> Indexes]
  BY OpenIs DEF MailType
<1>3. QED BY <1>1, <1>2 DEF Current

(* Boxes, files and the server's mail stay as they are.                    *)
Quiet == UNCHANGED <<mailDisk, mailIndex, mailFiles, opened, server, deletemsgs>> /\ mailSpent'.mail = mailSpent.mail

(* Then what is said of boxes and server is still true.                    *)
LEMMA QuietKeeps ==
    ASSUME MailInv, Quiet, spoiled \subseteq spoiled', RefNow("INBOX")' = RefNow("INBOX"),
           Bound' = Bound, Got' = Got
    PROVE  /\ \A b \in Boxes : Current(b)' = Current(b)
           /\ Top' = Top
           /\ \A b \in Boxes \ spoiled' : BoxGood(b)'
           /\ ServerOK' /\ InboxOK'
<1>1. \A b \in Boxes : Current(b)' = Current(b)
  BY DEF Current, IsOpen, Quiet
<1>2. \A b \in Boxes : RefNow(b)' = RefNow(b)
  BY <1>1 DEF RefNow
<1>3. ASSUME NEW b \in Boxes \ spoiled' PROVE BoxGood(b)'
  <2>1. BoxGood(b)
    BY <1>3 DEF MailInv
  <2>2. mailDisk'[b] = mailDisk[b] /\ mailFiles'[b] = mailFiles[b]
    BY DEF Quiet
  <2>3. QED BY <1>1, <1>2, <2>1, <2>2, BoxStays
<1>4. ServerOK'
  BY DEF ServerOK, MailInv, Quiet
<1>5. "INBOX" \in Boxes
  BY DEF Boxes
<1>6. Post' = Post
  BY DEF Post, Quiet
<1>7. InboxOK'
  BY <1>1, <1>5, <1>6 DEF InboxOK, MailInv, Quiet
<1>8. Top' = Top
  BY DEF Top, Quiet
<1>9. QED BY <1>1, <1>3, <1>4, <1>7, <1>8

(* Spending leaves the count of mail alone.                                *)
LEMMA SpendIs ==
    ASSUME MailType, NEW what \in {"mail", "written", "crashes", "changes"}, NEW max, Spend(what, max)
    PROVE  /\ mailSpent' \in [{"mail", "written", "crashes", "changes"} -> Nat]
           /\ what # "mail" => mailSpent'.mail = mailSpent.mail
           /\ mailSpent'[what] = mailSpent[what] + 1
BY DEF MailType, Spend

(* A sub-mailbox opens above the INBOX.                                    *)
LEMMA SecondBox ==
    ASSUME NEW x
    PROVE  Append(<<"INBOX">>, x) = <<"INBOX", x>>
<1> DEFINE S == {"INBOX", x}
           r == Append(<<"INBOX">>, x)
<1>1. <<"INBOX">> \in Seq(S) /\ <<"INBOX", x>> \in Seq(S) /\ x \in S
  OBVIOUS
<1>2. Len(<<"INBOX">>) = 1 /\ Len(<<"INBOX", x>>) = 2
  OBVIOUS
<1>3. r \in Seq(S) /\ Len(r) = 2 /\ r[2] = x /\ r[1] = "INBOX"
  <2>1. /\ r \in Seq(S) /\ Len(r) = Len(<<"INBOX">>) + 1 /\ r[Len(<<"INBOX">>) + 1] = x
        /\ \A i \in 1..Len(<<"INBOX">>) : r[i] = <<"INBOX">>[i]
    BY <1>1, AppendProperties
  <2> HIDE DEF r
  <2>2. r[1] = "INBOX"
    BY <1>2, <2>1
  <2>3. QED BY <1>2, <2>1, <2>2
<1> HIDE DEF r
<1>4. \A i \in 1..Len(r) : r[i] = <<"INBOX", x>>[i]
  <2>1. <<"INBOX", x>>[1] = "INBOX" /\ <<"INBOX", x>>[2] = x
    OBVIOUS
  <2>2. \A i \in 1..Len(r) : i = 1 \/ i = 2
    BY <1>3
  <2>3. QED BY <1>3, <2>1, <2>2
<1>5. r = <<"INBOX", x>>
  BY <1>1, <1>2, <1>3, <1>4, SeqEqual
<1>6. QED BY <1>5 DEF r

(* Opening reads the index that counted already.                           *)
LEMMA OpenMailboxKeeps == ASSUME MailInv, openmailbox PROVE MailInv'
<1>0. MailType /\ doing = Idle
  BY DEF MailInv, openmailbox
<1>1. PICK b \in Boxes :
        /\ opened = IF b = "INBOX" THEN <<>> ELSE <<"INBOX">>
        /\ opened' = Append(opened, b)
        /\ mailIndex' = [mailIndex EXCEPT ![b] = mailDisk[b]]
  BY DEF openmailbox
<1>2. UNCHANGED <<deletemsgs, server, mailDisk, mailFiles, temporary, doing, mailSpent, owed, spoiled>>
  BY DEF openmailbox
<1>3. opened' \in Opens /\ opened' # <<>>
  <2>1. CASE b = "INBOX"
    <3>1. Append(<<>>, "INBOX") = <<"INBOX">>
      OBVIOUS
    <3>2. QED BY <1>1, <2>1, <3>1 DEF Opens
  <2>2. CASE b = "DRAFTS"
    <3>1. Append(<<"INBOX">>, "DRAFTS") = <<"INBOX", "DRAFTS">>
      BY SecondBox
    <3>2. QED BY <1>1, <2>2, <3>1 DEF Opens
  <2>3. CASE b = "SENT"
    <3>1. Append(<<"INBOX">>, "SENT") = <<"INBOX", "SENT">>
      BY SecondBox
    <3>2. QED BY <1>1, <2>3, <3>1 DEF Opens
  <2>4. QED BY <2>1, <2>2, <2>3 DEF Boxes
<1>4. \A c \in Boxes : IsOpen(c)' <=> IsOpen(c) \/ c = b
  <2>1. CASE b = "INBOX"
    <3>1. opened' = <<"INBOX">> /\ opened = <<>>
      BY <1>1, <2>1
    <3>2. QED BY <3>1, <2>1 DEF IsOpen
  <2>2. CASE b # "INBOX"
    <3>1. opened' = <<"INBOX", b>> /\ opened = <<"INBOX">>
      BY <1>1, <2>2, SecondBox
    <3>2. QED BY <3>1, <2>2 DEF IsOpen
  <2>3. QED BY <2>1, <2>2
<1>5. ~IsOpen(b)
  BY <1>1 DEF IsOpen
<1>6. \A c \in Boxes : Current(c)' = Current(c)
  <2>1. mailIndex \in [Boxes -> Indexes]
    BY <1>0 DEF MailType
  <2>2. QED BY <1>1, <1>2, <1>4, <1>5, <2>1 DEF Current
<1>7. doing.op = "idle"
  BY <1>0 DEF Idle
<1>8. MailType'
  <2>1. mailIndex' \in [Boxes -> Indexes]
    BY <1>0, <1>1 DEF MailType
  <2>2. doing'.op \notin {"fetch", "count"}
    BY <1>2, <1>7
  <2>3. QED BY <1>0, <1>2, <1>3, <2>1, <2>2 DEF MailType
<1>9. ASSUME NEW c \in Boxes \ spoiled' PROVE BoxGood(c)'
  <2>1. BoxGood(c)
    BY <1>2, <1>9 DEF MailInv
  <2>2. RefNow(c)' = RefNow(c)
    BY <1>2, <1>6, <1>7 DEF RefNow
  <2>3. QED BY <1>2, <1>6, <1>9, <2>1, <2>2, BoxStays
<1>10. MoveGood' /\ FileGood' /\ FetchOK'
  BY <1>2, <1>7 DEF MoveGood, FileGood, FetchOK
<1>11. OwedSafe'
  BY <1>2, <1>6 DEF OwedSafe, Safe, MailInv
<1>12. ServerOK'
  BY <1>2 DEF ServerOK, MailInv
<1>13. InboxOK'
  <2>1. Bound' = Bound /\ Got' = Got /\ Post' = Post /\ "INBOX" \in Boxes
    BY <1>2, <1>6, <1>7 DEF Bound, Got, Post, Boxes
  <2>2. QED BY <1>2, <1>6, <2>1 DEF InboxOK, MailInv
<1>14. QED BY <1>8, <1>9, <1>10, <1>11, <1>12, <1>13 DEF MailInv

(* Expunging begins: nothing has happened yet.                             *)
LEMMA ExpungeKeeps == ASSUME MailInv, Expunge PROVE MailInv'
<1>0. MailType /\ doing.op = "idle" /\ opened # <<>>
  BY DEF MailInv, Expunge, Looking, Idle
<1>1. /\ UNCHANGED <<deletemsgs, server, mailDisk, mailFiles, temporary, opened, mailIndex, mailSpent,
                    owed, spoiled>>
      /\ doing' \in [op : {"expunge"}, then : {"idle", "close"}]
  BY DEF Expunge
<1>2. doing'.op = "expunge" /\ doing' \in Doings
  BY <1>1 DEF Doings
<1>3. Quiet /\ RefNow("INBOX")' = RefNow("INBOX") /\ Bound' = Bound /\ Got' = Got
  BY <1>0, <1>1, <1>2 DEF Quiet, RefNow, Bound, Got, Current, IsOpen
<1>4. /\ \A b \in Boxes : Current(b)' = Current(b)
      /\ \A b \in Boxes \ spoiled' : BoxGood(b)'
      /\ ServerOK' /\ InboxOK'
  BY <1>1, <1>3, QuietKeeps
<1>5. MailType'
  BY <1>0, <1>1, <1>2 DEF MailType
<1>6. MoveGood' /\ FileGood' /\ FetchOK'
  BY <1>2 DEF MoveGood, FileGood, FetchOK
<1>7. OwedSafe'
  BY <1>0, <1>1, <1>2, <1>4 DEF OwedSafe, Safe, MailInv
<1>8. QED BY <1>4, <1>5, <1>6, <1>7 DEF MailInv

(* Fetching begins where the saved index left off.                         *)
LEMMA FetchBeginsKeeps == ASSUME MailInv, FetchBegins PROVE MailInv'
<1>0. MailType /\ doing.op = "idle" /\ opened # <<>> /\ Top = "INBOX"
      /\ mailIndex["INBOX"].first \in DOMAIN server
  BY DEF MailInv, FetchBegins, Looking, Idle
<1>1. /\ UNCHANGED <<deletemsgs, server, mailDisk, mailFiles, temporary, opened, mailIndex, mailSpent,
                    owed, spoiled>>
      /\ doing' = [op |-> "fetch", next |-> mailIndex["INBOX"].first, count |-> Len(server) + 1,
                   ref |-> mailIndex["INBOX"].ref, got |-> {}]
  BY DEF FetchBegins
<1>2. "INBOX" \in Boxes /\ server \in Seq(Nat) /\ mailIndex["INBOX"] \in Indexes
  BY <1>0 DEF Boxes, MailType
<1>3. /\ mailIndex["INBOX"].first \in 1..Len(server) /\ Len(server) \in Nat /\ mailIndex["INBOX"].ref \in Nat
      /\ Current("INBOX") = mailIndex["INBOX"]
  BY <1>0, <1>2, IndexIs, CurrentIs
<1>4. /\ doing'.op = "fetch" /\ doing'.next = mailIndex["INBOX"].first /\ doing'.got = {}
      /\ doing'.ref = mailIndex["INBOX"].ref /\ doing'.count = Len(server) + 1
  BY <1>1
<1>5. doing' \in Doings
  BY <1>1, <1>3 DEF Doings
<1>6. Quiet /\ RefNow("INBOX")' = RefNow("INBOX") /\ Bound' = Bound /\ Got' = Got
  BY <1>0, <1>1, <1>3, <1>4 DEF Quiet, RefNow, Bound, Got
<1>7. /\ \A b \in Boxes : Current(b)' = Current(b)
      /\ Top' = Top
      /\ \A b \in Boxes \ spoiled' : BoxGood(b)'
      /\ ServerOK' /\ InboxOK'
  BY <1>1, <1>6, QuietKeeps
<1>8. MailType'
  BY <1>0, <1>1, <1>5, <1>7 DEF MailType
<1>9. MoveGood' /\ FileGood'
  BY <1>4 DEF MoveGood, FileGood
<1>10. FetchOK'
  BY <1>1, <1>3, <1>4 DEF FetchOK
<1>11. OwedSafe'
  BY <1>0, <1>1, <1>7 DEF OwedSafe, Safe, MailInv
<1>12. QED BY <1>7, <1>8, <1>9, <1>10, <1>11 DEF MailInv

(* temporary.txt is overwritten when nobody is owed what is in it.         *)
LEMMA ComposeNewKeeps == ASSUME MailInv, ComposeNew PROVE MailInv'
<1>0. MailType /\ doing.op = "idle" /\ opened # <<>>
  BY DEF MailInv, ComposeNew, Looking, Idle
<1>1. /\ UNCHANGED <<deletemsgs, server, mailDisk, mailFiles, opened, mailIndex, owed, spoiled>>
      /\ temporary' = NextWritten /\ doing' = [op |-> "compose"] /\ Spend("written", MaxWritten)
  BY DEF ComposeNew
<1>2. doing'.op = "compose" /\ doing' \in Doings
  BY <1>1 DEF Doings
<1>3. /\ mailSpent' \in [{"mail", "written", "crashes", "changes"} -> Nat]
      /\ mailSpent'.mail = mailSpent.mail
  BY <1>0, <1>1, SpendIs
<1>4. Quiet /\ RefNow("INBOX")' = RefNow("INBOX") /\ Bound' = Bound /\ Got' = Got
  BY <1>0, <1>1, <1>2, <1>3 DEF Quiet, RefNow, Bound, Got, Current, IsOpen
<1>5. /\ \A b \in Boxes : Current(b)' = Current(b)
      /\ \A b \in Boxes \ spoiled' : BoxGood(b)'
      /\ ServerOK' /\ InboxOK'
  BY <1>1, <1>4, QuietKeeps
<1>6. temporary' \in Nat
  <2>1. MaxMail \in Nat /\ mailSpent.written \in Nat
    BY <1>0, MailAssumption DEF MailType
  <2>2. QED BY <1>1, <2>1 DEF NextWritten
<1>7. MailType'
  BY <1>0, <1>1, <1>2, <1>3, <1>6 DEF MailType
<1>8. MoveGood' /\ FileGood' /\ FetchOK'
  BY <1>2 DEF MoveGood, FileGood, FetchOK
<1>9. OwedSafe'
  BY <1>0, <1>1, <1>2, <1>5 DEF OwedSafe, Safe, MailInv
<1>10. QED BY <1>5, <1>7, <1>8, <1>9 DEF MailInv

(* What the user abandons is owed no more.                                 *)
LEMMA AbandonKeeps == ASSUME MailInv, Abandon PROVE MailInv'
<1>0. MailType /\ doing.op = "compose" /\ opened # <<>>
  BY DEF MailInv, Abandon, MailType, Idle
<1>1. /\ UNCHANGED <<deletemsgs, server, mailDisk, mailFiles, opened, mailIndex, mailSpent, spoiled>>
      /\ owed' = owed \ {temporary} /\ temporary' = NoMsg /\ doing' = Idle
  BY DEF Abandon
<1>2. doing'.op = "idle" /\ doing' \in Doings /\ NoMsg \in Nat
  BY <1>1 DEF Doings, Idle, NoMsg
<1>3. Quiet /\ RefNow("INBOX")' = RefNow("INBOX") /\ Bound' = Bound /\ Got' = Got
  BY <1>0, <1>1, <1>2 DEF Quiet, RefNow, Bound, Got, Current, IsOpen
<1>4. /\ \A b \in Boxes : Current(b)' = Current(b)
      /\ \A b \in Boxes \ spoiled' : BoxGood(b)'
      /\ ServerOK' /\ InboxOK'
  BY <1>1, <1>3, QuietKeeps
<1>5. MailType'
  BY <1>0, <1>1, <1>2 DEF MailType
<1>6. MoveGood' /\ FileGood' /\ FetchOK'
  BY <1>2 DEF MoveGood, FileGood, FetchOK
<1>7. OwedSafe'
  BY <1>0, <1>1, <1>2, <1>4 DEF OwedSafe, Safe, MailInv
<1>8. QED BY <1>4, <1>5, <1>6, <1>7 DEF MailInv

(* An entry less, or another mark, and the list asks for no more.          *)
LEMMA AskedRemove ==
    ASSUME NEW list \in Seq(Entries), NEW k \in 1..Len(list), NEW bound, NEW got, NEW post,
           Asked(list, bound, got, post)
    PROVE  Asked(RemoveAt(list, k), bound, got, post)
<1> DEFINE r == RemoveAt(list, k)
<1>1. OneLess(list, k, r)
  BY RemoveAtPlaces
<1>2. Once(r)
  BY OnceRemove DEF Asked
<1> HIDE DEF r
<1>3. ASSUME NEW i \in 1..Len(r)
      PROVE  /\ r[i].msg \in 1..post.last
             /\ IF post.deletes THEN r[i].msg \in On(post.server) => r[i].msg \in got
                ELSE \E j \in 1..Len(post.server) : j < bound /\ post.server[j] = r[i].msg
  <2>1. PICK u \in 1..Len(list) : r[i] = list[u]
    BY <1>1 DEF OneLess
  <2>2. QED BY <2>1 DEF Asked
<1>4. QED BY <1>2, <1>3 DEF Asked, r

LEMMA AskedSame ==
    ASSUME NEW list \in Seq(Entries), NEW other \in Seq(Entries), SameMail(list, other),
           NEW bound, NEW got, NEW post, Asked(list, bound, got, post)
    PROVE  Asked(other, bound, got, post)
<1>1. Once(other)
  BY GoodSame DEF Asked
<1>2. QED BY <1>1 DEF Asked, SameMail

(* A new entry for a message the list did not have.                        *)
LEMMA AskedAppend ==
    ASSUME NEW list \in Seq(Entries), NEW e \in Entries, NEW bound, NEW got, NEW post,
           Asked(list, bound, got, post), \A i \in 1..Len(list) : list[i].msg # e.msg,
           e.msg \in 1..post.last,
           IF post.deletes THEN e.msg \in got
           ELSE \E j \in 1..Len(post.server) : j < bound /\ post.server[j] = e.msg
    PROVE  Asked(Append(list, e), bound, got, post)
<1> DEFINE r == Append(list, e)
<1>1. /\ Len(r) = Len(list) + 1 /\ r[Len(list) + 1] = e /\ \A i \in 1..Len(list) : r[i] = list[i]
  BY AppendProperties
<1>2. Len(list) \in Nat
  BY EntriesOf
<1>3. Once(r)
  BY OnceAppend DEF Asked
<1> HIDE DEF r
<1>4. ASSUME NEW i \in 1..Len(r)
      PROVE  /\ r[i].msg \in 1..post.last
             /\ IF post.deletes THEN r[i].msg \in On(post.server) => r[i].msg \in got
                ELSE \E j \in 1..Len(post.server) : j < bound /\ post.server[j] = r[i].msg
  <2>1. CASE i \in 1..Len(list)
    BY <1>1, <2>1 DEF Asked
  <2>2. CASE i = Len(list) + 1
    BY <1>1, <2>2
  <2>3. i \in 1..Len(list) \/ i = Len(list) + 1
    BY <1>1, <1>2
  <2>4. QED BY <2>1, <2>2, <2>3
<1>5. QED BY <1>3, <1>4 DEF Asked, r

(* More was asked for and more was got.                                    *)
LEMMA AskedMore ==
    ASSUME NEW list, NEW bound \in Nat, NEW far \in Nat, bound <= far, NEW got, NEW more, got \subseteq more,
           NEW post, Len(post.server) \in Nat, Asked(list, bound, got, post)
    PROVE  Asked(list, far, more, post)
<1>1. ASSUME NEW i \in 1..Len(list)
      PROVE  IF post.deletes THEN list[i].msg \in On(post.server) => list[i].msg \in more
             ELSE \E j \in 1..Len(post.server) : j < far /\ post.server[j] = list[i].msg
  <2>1. CASE post.deletes
    BY <2>1 DEF Asked
  <2>2. CASE ~post.deletes
    <3>1. PICK j \in 1..Len(post.server) : j < bound /\ post.server[j] = list[i].msg
      BY <2>2 DEF Asked
    <3>2. j < far
      BY <3>1
    <3>3. QED BY <2>2, <3>1, <3>2
  <2>3. QED BY <2>1, <2>2
<1>2. QED BY <1>1 DEF Asked

(* What Post stands for.                                                   *)
LEMMA PostIs == Post.server = server /\ Post.last = mailSpent.mail /\ Post.deletes = deletemsgs
BY DEF Post

(* Nothing happens to the files of box b, but for file f of the box at     *)
(* which the user looks.                                                   *)
OnlyFile(b, f) ==
    \/ mailFiles'[b] = mailFiles[b]
    \/ b = Top /\ mailFiles'[b] = Erase(mailFiles[b], f)

(* An entry is taken out of the box at which the user looks.               *)
LEMMA EntryTaken ==
    ASSUME MailInv, opened # <<>>,
           doing.op \in {"idle", "expunge", "move"}, doing'.op \in {"expunge", "compose", "move"},
           NEW i \in DOMAIN mailIndex[Top].list,
           UNCHANGED <<deletemsgs, server, mailDisk, opened, spoiled>>, mailSpent'.mail = mailSpent.mail,
           mailIndex' = [mailIndex EXCEPT ![Top].list = RemoveAt(@, i)]
    PROVE  /\ mailIndex' \in [Boxes -> Indexes] /\ ServerOK' /\ InboxOK'
           /\ \A b \in Boxes : b # Top => Current(b)' = Current(b) /\ RefNow(b)' = RefNow(b)
           /\ \A b \in Boxes \ spoiled' : OnlyFile(b, mailIndex[Top].list[i].file) => BoxGood(b)'
           /\ \A b \in Boxes \ spoiled : \A m :
                 OnlyFile(b, mailIndex[Top].list[i].file) /\ Lists(Current(b).list, m, mailFiles[b]) =>
                   \/ mailIndex[Top].list[i].msg = m /\ ReadFile(mailFiles[Top], mailIndex[Top].list[i].file) = m
                   \/ Lists(Current(b)'.list, m, mailFiles'[b])
<1>0. MailType
  BY DEF MailInv
<1>1. UNCHANGED <<deletemsgs, server, mailDisk, opened, spoiled>> /\ mailSpent'.mail = mailSpent.mail
  OBVIOUS
<1> DEFINE T == Top
           list == mailIndex[T].list
<1>2. /\ T \in Boxes /\ mailIndex[T] \in Indexes /\ Current(T) = mailIndex[T] /\ mailDisk[T] \in Indexes
      /\ \A b \in Boxes : Current(b) \in Indexes /\ mailDisk[b] \in Indexes
  BY <1>0, CurrentIs
<1>3. list \in Seq(Entries) /\ mailDisk[T].list \in Seq(Entries) /\ i \in 1..Len(list)
  BY <1>2, IndexIs, EntriesOf
<1> DEFINE shorter == RemoveAt(list, i)
           index == [mailIndex[T] EXCEPT !.list = shorter]
<1>4. mailIndex' = [mailIndex EXCEPT ![T] = index]
  OBVIOUS
<1>5. shorter \in Seq(Entries)
  BY <1>3, RemoveAtPlaces
<1>6. index \in Indexes /\ index.list = shorter /\ index.ref = mailIndex[T].ref /\ index.first = mailIndex[T].first
  BY <1>2, <1>5 DEF Indexes
<1>7. \A b \in Boxes : Current(b)' = IF b = T THEN index ELSE Current(b)
  BY <1>0, <1>1, <1>4, TopChanges
<1> HIDE DEF index
<1>8. mailIndex' \in [Boxes -> Indexes]
  BY <1>0, <1>4, <1>6 DEF MailType
<1>9. \A b \in Boxes : RefNow(b) = Current(b).ref /\ RefNow(b)' = Current(b)'.ref
  BY DEF RefNow
<1>10. \A b \in Boxes : RefNow(b)' = RefNow(b)
  BY <1>2, <1>6, <1>7, <1>9
<1> DEFINE n == NextFile(T, RefNow(T))
           d == NextFile(T, mailDisk[T].ref)
<1>11. n \in Nat /\ d \in Nat
  BY <1>2, <1>9, IndexIs DEF NextFile
<1>12. T \notin spoiled => Good(list, n, mailFiles[T]) /\ Good(mailDisk[T].list, d, mailFiles[T])
  BY <1>2 DEF BoxGood, MailInv
<1> HIDE DEF n, d
<1>13. ASSUME NEW b \in Boxes \ spoiled', OnlyFile(b, list[i].file) PROVE BoxGood(b)'
  <2>0. BoxGood(b) /\ mailDisk'[b] = mailDisk[b]
    BY <1>1, <1>13 DEF MailInv
  <2>1. CASE b # T
    BY <1>7, <1>10, <1>13, <2>0, <2>1, BoxStays DEF OnlyFile
  <2>2. CASE b = T
    <3>1. mailFiles'[b] \in {mailFiles[T], Erase(mailFiles[T], list[i].file)}
      BY <1>13, <2>2 DEF OnlyFile
    <3>2. Good(list, n, mailFiles[T]) /\ Good(mailDisk[T].list, d, mailFiles[T])
      BY <1>1, <1>12, <1>13, <2>2
    <3>3. Good(mailDisk[T].list, d, Erase(mailFiles[T], list[i].file))
      BY <1>3, <1>11, <3>2, GoodErase
    <3>4. Good(shorter, n, Erase(mailFiles[T], list[i].file)) /\ Good(shorter, n, mailFiles[T])
      BY <1>3, <1>11, <3>2, GoodRemove
    <3>5. mailDisk'[b] = mailDisk[T] /\ RefNow(b)' = RefNow(T) /\ Current(b)'.list = shorter
      BY <1>2, <1>6, <1>7, <1>10, <2>0, <2>2
    <3>6. mailDisk[T].ref <= RefNow(T)
      BY <2>0, <2>2 DEF BoxGood
    <3>7. Good(mailDisk[T].list, d, mailFiles'[b]) /\ Good(shorter, n, mailFiles'[b])
      BY <3>1, <3>2, <3>3, <3>4
    <3>8. QED BY <2>2, <3>5, <3>6, <3>7 DEF BoxGood, n, d
  <2>3. QED BY <2>1, <2>2
<1>14. ServerOK'
  BY <1>1 DEF ServerOK, MailInv
<1>15. InboxOK'
  <2>1. Post' = Post /\ "INBOX" \in Boxes
    BY <1>1 DEF Post, Boxes
  <2>2. Bound = Current("INBOX").first /\ Bound' = Current("INBOX")'.first /\ Got = {} /\ Got' = {}
    BY DEF Bound, Got
  <2>3. CASE T # "INBOX"
    <3>1. Current("INBOX")' = Current("INBOX")
      BY <1>7, <2>1, <2>3
    <3>2. QED BY <1>1, <2>1, <2>2, <3>1 DEF InboxOK, MailInv
  <2>4. CASE T = "INBOX"
    <3>1. Current("INBOX")'.first = Current("INBOX").first /\ Current("INBOX")'.list = shorter
          /\ Current("INBOX").list = list
      BY <1>2, <1>6, <1>7, <2>4
    <3>2. Asked(list, Bound, Got, Post)
      BY <3>1 DEF InboxOK, MailInv
    <3>3. Asked(shorter, Bound, Got, Post)
      BY <1>3, <3>2, AskedRemove
    <3>4. QED BY <1>1, <2>1, <2>2, <3>1, <3>3 DEF InboxOK, MailInv
  <2>5. QED BY <2>3, <2>4
<1>16. ASSUME NEW b \in Boxes \ spoiled, NEW m,
              OnlyFile(b, list[i].file), Lists(Current(b).list, m, mailFiles[b]),
              ~ (list[i].msg = m /\ ReadFile(mailFiles[T], list[i].file) = m)
       PROVE  Lists(Current(b)'.list, m, mailFiles'[b])
  <2>1. CASE b # T
    BY <1>7, <1>16, <2>1 DEF OnlyFile
  <2>2. CASE b = T
    <3>1. mailFiles'[b] \in {mailFiles[T], Erase(mailFiles[T], list[i].file)}
      BY <1>16, <2>2 DEF OnlyFile
    <3>2. Good(list, n, mailFiles[T]) /\ Lists(list, m, mailFiles[T])
      BY <1>2, <1>12, <1>16, <2>2
    <3>3. Lists(shorter, m, Erase(mailFiles[T], list[i].file)) /\ Lists(shorter, m, mailFiles[T])
      BY <1>3, <1>11, <1>16, <3>2, GoodRemove
    <3>4. Current(b)'.list = shorter
      BY <1>2, <1>6, <1>7, <2>2
    <3>5. QED BY <3>1, <3>3, <3>4
  <2>3. QED BY <2>1, <2>2
<1>17. \A b \in Boxes : b # T => Current(b)' = Current(b) /\ RefNow(b)' = RefNow(b)
  BY <1>7, <1>10
<1>18. QED BY <1>8, <1>13, <1>14, <1>15, <1>16, <1>17

(* Its file goes too.                                                      *)
LEMMA EntryGoes ==
    ASSUME MailInv, opened # <<>>, doing.op \in {"idle", "expunge"}, doing'.op \in {"expunge", "compose"},
           NEW i \in DOMAIN mailIndex[Top].list,
           UNCHANGED <<deletemsgs, server, mailDisk, opened, spoiled>>, mailSpent'.mail = mailSpent.mail,
           mailFiles' = [mailFiles EXCEPT ![Top] = Erase(@, mailIndex[Top].list[i].file)],
           mailIndex' = [mailIndex EXCEPT ![Top].list = RemoveAt(@, i)]
    PROVE  /\ mailIndex' \in [Boxes -> Indexes] /\ DOMAIN mailFiles' = Boxes
           /\ \A b \in Boxes : \A f \in DOMAIN mailFiles'[b] : mailFiles'[b][f] \in Nat
           /\ \A b \in Boxes \ spoiled' : BoxGood(b)'
           /\ ServerOK' /\ InboxOK'
           /\ spoiled = {} =>
                \A m \in owed :
                   \/ mailIndex[Top].list[i].msg = m /\ ReadFile(mailFiles[Top], mailIndex[Top].list[i].file) = m
                   \/ \E b \in Boxes : Lists(Current(b)'.list, m, mailFiles'[b])
<1>0. MailType /\ Top \in Boxes
  BY CurrentIs DEF MailInv
<1> DEFINE e == mailIndex[Top].list[i]
<1>1. /\ mailIndex' \in [Boxes -> Indexes] /\ ServerOK' /\ InboxOK'
      /\ \A b \in Boxes \ spoiled' : OnlyFile(b, e.file) => BoxGood(b)'
      /\ \A b \in Boxes \ spoiled : \A m :
            OnlyFile(b, e.file) /\ Lists(Current(b).list, m, mailFiles[b]) =>
              \/ e.msg = m /\ ReadFile(mailFiles[Top], e.file) = m
              \/ Lists(Current(b)'.list, m, mailFiles'[b])
  BY EntryTaken
<1>2. /\ DOMAIN mailFiles' = Boxes /\ \A b \in Boxes : OnlyFile(b, e.file)
      /\ \A b \in Boxes : mailFiles'[b] = IF b = Top THEN Erase(mailFiles[b], e.file) ELSE mailFiles[b]
  <2>1. mailFiles' = [mailFiles EXCEPT ![Top] = Erase(mailFiles[Top], e.file)] /\ DOMAIN mailFiles = Boxes
    BY <1>0 DEF MailType
  <2> HIDE DEF e
  <2>2. DOMAIN mailFiles' = Boxes
        /\ \A b \in Boxes : mailFiles'[b] = IF b = Top THEN Erase(mailFiles[b], e.file) ELSE mailFiles[b]
    BY <1>0, <2>1
  <2>3. QED BY <2>2 DEF OnlyFile
<1>3. ASSUME NEW b \in Boxes, NEW f \in DOMAIN mailFiles'[b] PROVE mailFiles'[b][f] \in Nat
  <2>1. f \in DOMAIN mailFiles[b] /\ mailFiles'[b][f] = mailFiles[b][f]
    BY <1>2, <1>3 DEF Erase, Restrict
  <2>2. QED BY <1>0, <2>1 DEF MailType
<1>4. ASSUME spoiled = {}, NEW m \in owed
      PROVE  \/ e.msg = m /\ ReadFile(mailFiles[Top], e.file) = m
             \/ \E b \in Boxes : Lists(Current(b)'.list, m, mailFiles'[b])
  <2>1. PICK b \in Boxes : Lists(Current(b).list, m, mailFiles[b])
    BY <1>4 DEF MailInv, OwedSafe, Safe
  <2>2. QED BY <1>1, <1>2, <1>4, <2>1
<1>5. QED BY <1>1, <1>2, <1>3, <1>4

(* A file goes with its own entry and no other.                            *)
LEMMA ExpungeMailboxKeeps == ASSUME MailInv, expungemailbox PROVE MailInv'
<1>0. MailType /\ doing.op = "expunge" /\ opened # <<>>
  BY DEF MailInv, expungemailbox, MailType, Idle
<1>1. /\ UNCHANGED <<deletemsgs, server, mailDisk, temporary, opened, mailSpent, spoiled>>
  BY DEF expungemailbox
<1>2. CASE doing' = [op |-> doing.then] /\ UNCHANGED <<mailFiles, mailIndex, owed>>
  <2>1. doing'.op \in {"idle", "close"} /\ doing' \in Doings
    <3>1. doing.then \in {"idle", "close"}
      BY <1>0, DoingIs DEF MailType
    <3>2. QED BY <1>2, <3>1 DEF Doings
  <2>2. Quiet /\ RefNow("INBOX")' = RefNow("INBOX") /\ Bound' = Bound /\ Got' = Got
    BY <1>0, <1>1, <1>2, <2>1 DEF Quiet, RefNow, Bound, Got, Current, IsOpen
  <2>3. /\ \A b \in Boxes : Current(b)' = Current(b)
        /\ \A b \in Boxes \ spoiled' : BoxGood(b)'
        /\ ServerOK' /\ InboxOK'
    BY <1>1, <2>2, QuietKeeps
  <2>4. MailType'
    BY <1>0, <1>1, <1>2, <2>1 DEF MailType
  <2>5. MoveGood' /\ FileGood' /\ FetchOK'
    BY <2>1 DEF MoveGood, FileGood, FetchOK
  <2>6. OwedSafe'
    BY <1>0, <1>1, <1>2, <2>1, <2>3 DEF OwedSafe, Safe, MailInv
  <2>7. QED BY <2>3, <2>4, <2>5, <2>6 DEF MailInv
<1>3. CASE \E i \in Marked(mailIndex[Top].list, "delete") :
             /\ mailFiles' = [mailFiles EXCEPT ![Top] = Erase(@, mailIndex[Top].list[i].file)]
             /\ mailIndex' = [mailIndex EXCEPT ![Top].list = RemoveAt(@, i)]
             /\ owed' = owed \ {mailIndex[Top].list[i].msg}
             /\ UNCHANGED doing
  <2>1. PICK i \in DOMAIN mailIndex[Top].list :
          /\ mailFiles' = [mailFiles EXCEPT ![Top] = Erase(@, mailIndex[Top].list[i].file)]
          /\ mailIndex' = [mailIndex EXCEPT ![Top].list = RemoveAt(@, i)]
          /\ owed' = owed \ {mailIndex[Top].list[i].msg}
          /\ UNCHANGED doing
    BY <1>3 DEF Marked
  <2>2. doing'.op = "expunge" /\ doing' = doing /\ Top' = Top
    BY <1>0, <1>1, <2>1 DEF Top
  <2>3. /\ mailIndex' \in [Boxes -> Indexes] /\ DOMAIN mailFiles' = Boxes
        /\ \A b \in Boxes : \A f \in DOMAIN mailFiles'[b] : mailFiles'[b][f] \in Nat
        /\ \A b \in Boxes \ spoiled' : BoxGood(b)'
        /\ ServerOK' /\ InboxOK'
        /\ spoiled = {} =>
             \A m \in owed :
                \/ mailIndex[Top].list[i].msg = m /\ ReadFile(mailFiles[Top], mailIndex[Top].list[i].file) = m
                \/ \E b \in Boxes : Lists(Current(b)'.list, m, mailFiles'[b])
    BY <1>0, <1>1, <2>1, <2>2, EntryGoes
  <2>4. MailType'
    BY <1>0, <1>1, <2>1, <2>2, <2>3 DEF MailType
  <2>5. MoveGood' /\ FileGood' /\ FetchOK'
    BY <2>2 DEF MoveGood, FileGood, FetchOK
  <2>6. OwedSafe'
    BY <1>1, <2>1, <2>3 DEF OwedSafe, Safe
  <2>7. QED BY <2>3, <2>4, <2>5, <2>6 DEF MailInv
<1>4. QED BY <1>2, <1>3 DEF expungemailbox

(* Closing shuts the box at which the user looks.                          *)
LEMMA FrontOfOpened ==
    ASSUME opened \in Opens, opened # <<>>, opened' = Front(opened)
    PROVE  opened' \in Opens /\ \A b \in Boxes : IsOpen(b)' <=> IsOpen(b) /\ b # Top
<1>1. CASE opened = <<"INBOX">>
  <2>1. opened' = <<>>
    BY <1>1 DEF Front
  <2>2. Top = "INBOX"
    BY <1>1 DEF Top, Last
  <2>3. QED BY <1>1, <2>1, <2>2 DEF IsOpen, Opens
<1>2. ASSUME NEW x \in Others, opened = <<"INBOX", x>>
      PROVE  opened' \in Opens /\ \A b \in Boxes : IsOpen(b)' <=> IsOpen(b) /\ b # Top
  <2>1. opened' = <<"INBOX">>
    <3> DEFINE S == {"INBOX", x}
               r == SubSeq(<<"INBOX", x>>, 1, 1)
    <3>1. <<"INBOX", x>> \in Seq(S) /\ Len(<<"INBOX", x>>) = 2 /\ <<"INBOX", x>>[1] = "INBOX"
      OBVIOUS
    <3>2. r \in Seq(S) /\ Len(r) = 1 /\ r[1] = "INBOX"
      <4>1. \A i \in 1..1 : <<"INBOX", x>>[i] \in S
        OBVIOUS
      <4>2. /\ r \in Seq(S) /\ Len(r) = IF 1 <= 1 THEN 1 - 1 + 1 ELSE 0
            /\ \A i \in 1 .. 1 - 1 + 1 : r[i] = <<"INBOX", x>>[1 + i - 1]
        BY <4>1, SubSeqProperties
      <4> HIDE DEF r
      <4>3. QED BY <4>2, <3>1
    <3>3. <<"INBOX">> \in Seq(S) /\ Len(<<"INBOX">>) = 1 /\ <<"INBOX">>[1] = "INBOX"
      OBVIOUS
    <3>4. opened' = r
      BY <1>2, <3>1 DEF Front
    <3> HIDE DEF r
    <3>5. \A i \in 1..Len(r) : r[i] = <<"INBOX">>[i]
      BY <3>2, <3>3
    <3>6. r = <<"INBOX">>
      BY <3>2, <3>3, <3>5, SeqEqual
    <3>7. QED BY <3>4, <3>6
  <2>2. Top = x /\ x # "INBOX"
    BY <1>2 DEF Top, Last, Others
  <2>3. QED BY <1>2, <2>1, <2>2 DEF IsOpen, Opens
<1>3. QED BY <1>1, <1>2 DEF Opens, Others

(* Closing saves the index that counted already.                           *)
LEMMA CloseMailboxKeeps == ASSUME MailInv, closemailbox PROVE MailInv'
<1>0. MailType /\ doing.op = "close" /\ opened # <<>> /\ opened \in Opens
  BY DEF MailInv, closemailbox, MailType, Idle
<1>1. /\ UNCHANGED <<deletemsgs, server, mailFiles, temporary, mailIndex, mailSpent, owed, spoiled>>
      /\ mailDisk' = [mailDisk EXCEPT ![Top] = mailIndex[Top]]
      /\ opened' = Front(opened) /\ doing' = Idle
  BY DEF closemailbox
<1> DEFINE T == Top
<1>2. /\ T \in Boxes /\ Current(T) = mailIndex[T]
      /\ \A b \in Boxes : Current(b) \in Indexes /\ mailDisk[b] \in Indexes /\ mailIndex[b] \in Indexes
  BY <1>0, CurrentIs
<1>3. opened' \in Opens /\ \A b \in Boxes : IsOpen(b)' <=> IsOpen(b) /\ b # T
  BY <1>0, <1>1, FrontOfOpened
<1>4. \A b \in Boxes : mailDisk'[b] = IF b = T THEN Current(b) ELSE mailDisk[b]
  BY <1>0, <1>1, <1>2 DEF MailType
<1>5. \A b \in Boxes : Current(b)' = Current(b)
  BY <1>1, <1>2, <1>3, <1>4 DEF Current
<1>6. doing'.op = "idle" /\ doing' \in Doings
  BY <1>1 DEF Idle, Doings
<1>7. MailType'
  <2>1. mailDisk' \in [Boxes -> Indexes]
    BY <1>0, <1>1, <1>2 DEF MailType
  <2>2. QED BY <1>0, <1>1, <1>3, <1>6, <2>1 DEF MailType
<1>8. \A b \in Boxes : RefNow(b) = Current(b).ref /\ RefNow(b)' = Current(b).ref
  BY <1>0, <1>5, <1>6 DEF RefNow
<1>9. ASSUME NEW b \in Boxes \ spoiled' PROVE BoxGood(b)'
  <2>1. BoxGood(b) /\ mailFiles'[b] = mailFiles[b]
    BY <1>1, <1>9 DEF MailInv
  <2>2. CASE b # T
    BY <1>4, <1>5, <1>8, <2>1, <2>2, BoxStays
  <2>3. CASE b = T
    <3>1. mailDisk'[b] = Current(b) /\ Current(b)' = Current(b) /\ RefNow(b)' = Current(b).ref
          /\ RefNow(b) = Current(b).ref
      BY <1>4, <1>5, <1>8, <2>3
    <3>2. Good(Current(b).list, NextFile(b, Current(b).ref), mailFiles[b])
      BY <2>1, <3>1 DEF BoxGood
    <3>3. Current(b).ref \in Nat
      BY <1>2, IndexIs
    <3>4. QED BY <2>1, <3>1, <3>2, <3>3 DEF BoxGood
  <2>4. QED BY <2>2, <2>3
<1>10. MoveGood' /\ FileGood' /\ FetchOK'
  BY <1>6 DEF MoveGood, FileGood, FetchOK
<1>11. OwedSafe'
  BY <1>0, <1>1, <1>5, <1>6 DEF OwedSafe, Safe, MailInv
<1>12. ServerOK'
  BY <1>1 DEF ServerOK, MailInv
<1>13. InboxOK'
  <2>1. Post' = Post /\ "INBOX" \in Boxes
    BY <1>1 DEF Post, Boxes
  <2>2. Bound = Current("INBOX").first /\ Bound' = Current("INBOX").first /\ Got = {} /\ Got' = {}
    BY <1>0, <1>5, <1>6, <2>1 DEF Bound, Got
  <2>3. /\ Current("INBOX").first = mailDisk["INBOX"].first
        /\ Asked(mailDisk["INBOX"].list, mailDisk["INBOX"].first, {}, Post)
        /\ Asked(Current("INBOX").list, Current("INBOX").first, {}, Post)
    BY <2>2 DEF InboxOK, MailInv
  <2>4. mailDisk'["INBOX"] \in {Current("INBOX"), mailDisk["INBOX"]}
    BY <1>4, <2>1
  <2>5. QED BY <1>5, <2>1, <2>2, <2>3, <2>4 DEF InboxOK
<1>14. QED BY <1>7, <1>9, <1>10, <1>11, <1>12, <1>13 DEF MailInv

(* A mark changes no file and no message.                                  *)
LEMMA MarkKeeps == ASSUME MailInv, Mark PROVE MailInv'
<1>0. MailType /\ doing.op = "idle" /\ opened # <<>>
  BY DEF MailInv, Mark, Looking, Idle
<1> DEFINE T == Top
           list == mailIndex[T].list
<1>1. /\ UNCHANGED <<deletemsgs, server, mailDisk, mailFiles, temporary, opened, doing, owed, spoiled>>
      /\ Spend("changes", MaxChanges)
  BY DEF Mark
<1>2. PICK i \in DOMAIN list, k \in {"flag", "delete"} :
        mailIndex' = [mailIndex EXCEPT ![T].list[i].mark = IF list[i].mark = k THEN "none" ELSE k]
  BY DEF Mark
<1>3. /\ T \in Boxes /\ mailIndex[T] \in Indexes /\ Current(T) = mailIndex[T]
      /\ \A b \in Boxes : Current(b) \in Indexes /\ mailDisk[b] \in Indexes
  BY <1>0, CurrentIs
<1>4. list \in Seq(Entries)
  BY <1>3, IndexIs
<1>5. /\ i \in 1..Len(list) /\ Len(list) \in Nat /\ DOMAIN list = 1..Len(list)
      /\ \A j \in 1..Len(list) : list[j] \in Entries
  BY <1>2, <1>4, EntriesOf
<1> DEFINE v == IF list[i].mark = k THEN "none" ELSE k
           other == [list EXCEPT ![i] = [list[i] EXCEPT !.mark = v]]
           index == [mailIndex[T] EXCEPT !.list = other]
<1>6. other \in Seq(Entries) /\ SameMail(list, other)
  <2>1. [list[i] EXCEPT !.mark = v] \in Entries
    BY <1>5 DEF Entries
  <2>2. other \in Seq(Entries)
    BY <1>4, <1>5, <2>1, ExceptSeq
  <2>3. Len(other) = Len(list)
    BY <1>4, <1>5, <2>1, ExceptSeq
  <2>4. ASSUME NEW j \in 1..Len(list) PROVE list[j].file = other[j].file /\ list[j].msg = other[j].msg
    BY <1>5 DEF Entries
  <2>5. QED BY <2>2, <2>3, <2>4 DEF SameMail
<1>7. mailIndex' = [mailIndex EXCEPT ![T] = index]
  BY <1>2
<1>8. index \in Indexes /\ index.list = other /\ index.ref = mailIndex[T].ref /\ index.first = mailIndex[T].first
  BY <1>3, <1>6 DEF Indexes
<1> HIDE DEF other, index
<1>9. Top' = T /\ \A b \in Boxes : Current(b)' = IF b = T THEN index ELSE Current(b)
  BY <1>0, <1>1, <1>7, TopChanges
<1>10. /\ mailSpent' \in [{"mail", "written", "crashes", "changes"} -> Nat]
       /\ mailSpent'.mail = mailSpent.mail
  BY <1>0, <1>1, SpendIs
<1>11. MailType'
  <2>1. mailIndex' \in [Boxes -> Indexes]
    BY <1>0, <1>7, <1>8 DEF MailType
  <2>2. QED BY <1>0, <1>1, <1>9, <1>10, <2>1 DEF MailType
<1>12. \A b \in Boxes : RefNow(b)' = RefNow(b) /\ RefNow(b) = Current(b).ref
  BY <1>0, <1>1, <1>3, <1>8, <1>9 DEF RefNow
<1>13. ASSUME NEW b \in Boxes \ spoiled' PROVE BoxGood(b)'
  <2>1. BoxGood(b) /\ mailFiles'[b] = mailFiles[b] /\ mailDisk'[b] = mailDisk[b] /\ RefNow(b)' = RefNow(b)
    BY <1>1, <1>12, <1>13 DEF MailInv
  <2>2. CASE b # T
    BY <1>9, <2>1, <2>2, BoxStays
  <2>3. CASE b = T
    <3>1. Current(b).list = list /\ Current(b)'.list = other
      BY <1>3, <1>8, <1>9, <2>3
    <3>2. Good(list, NextFile(b, RefNow(b)), mailFiles[b])
      BY <2>1, <3>1 DEF BoxGood
    <3>3. Good(other, NextFile(b, RefNow(b)), mailFiles[b])
      BY <1>4, <1>6, <3>2, GoodSame
    <3>4. QED BY <2>1, <3>1, <3>3 DEF BoxGood
  <2>4. QED BY <2>2, <2>3
<1>14. MoveGood' /\ FileGood' /\ FetchOK'
  BY <1>0, <1>1 DEF MoveGood, FileGood, FetchOK
<1>15. OwedSafe'
  <2>1. SUFFICES ASSUME spoiled' = {}, NEW m \in owed'
                 PROVE  \E b \in Boxes : Lists(Current(b)'.list, m, mailFiles'[b])
    BY DEF OwedSafe, Safe
  <2>2. PICK b \in Boxes : Lists(Current(b).list, m, mailFiles[b])
    BY <1>0, <1>1, <2>1 DEF MailInv, OwedSafe, Safe
  <2>3. CASE b # T
    BY <1>1, <1>9, <2>2, <2>3
  <2>4. CASE b = T
    <3>1. Current(b).list = list /\ Current(b)'.list = other
      BY <1>3, <1>8, <1>9, <2>4
    <3>2. Lists(other, m, mailFiles[b])
      BY <1>4, <1>6, <2>2, <3>1, GoodSame
    <3>3. QED BY <1>1, <3>1, <3>2
  <2>5. QED BY <2>3, <2>4
<1>16. ServerOK'
  BY <1>1, <1>10 DEF ServerOK, MailInv
<1>17. InboxOK'
  <2>1. Post' = Post /\ "INBOX" \in Boxes
    BY <1>1, <1>10 DEF Post, Boxes
  <2>2. CASE T # "INBOX"
    <3>1. Current("INBOX")' = Current("INBOX")
      BY <1>9, <2>1, <2>2
    <3>2. Bound' = Bound /\ Got' = Got
      BY <1>0, <1>1, <3>1 DEF Bound, Got
    <3>3. QED BY <1>1, <2>1, <3>1, <3>2 DEF InboxOK, MailInv
  <2>3. CASE T = "INBOX"
    <3>1. /\ Current("INBOX")'.first = Current("INBOX").first /\ Current("INBOX")'.list = other
          /\ Current("INBOX").list = list
      BY <1>3, <1>8, <1>9, <2>3
    <3>2. Bound' = Bound /\ Got' = Got
      BY <1>0, <1>1, <3>1 DEF Bound, Got
    <3>3. Asked(list, Bound, Got, Post)
      BY <3>1 DEF InboxOK, MailInv
    <3>4. Asked(other, Bound, Got, Post)
      BY <1>4, <1>6, <3>3, AskedSame
    <3>5. QED BY <1>1, <2>1, <3>1, <3>2, <3>4 DEF InboxOK, MailInv
  <2>4. QED BY <2>2, <2>3
<1>18. QED BY <1>11, <1>13, <1>14, <1>15, <1>16, <1>17 DEF MailInv

(* A list does not ask again for a message that comes in.                  *)
LEMMA AskedArrives ==
    ASSUME NEW list \in Seq(Entries), NEW bound, NEW got, NEW post, NEW later,
           post.server \in Seq(Nat), post.last \in Nat,
           later.server = Append(post.server, post.last + 1), later.last = post.last + 1,
           later.deletes = post.deletes, Asked(list, bound, got, post)
    PROVE  Asked(list, bound, got, later)
<1>1. /\ Len(later.server) = Len(post.server) + 1 /\ Len(post.server) \in Nat
      /\ \A i \in 1..Len(post.server) : later.server[i] = post.server[i]
  BY AppendProperties
<1>2. On(later.server) = On(post.server) \cup {post.last + 1}
  BY AppendLinks, SMTT(40)
<1>3. ASSUME NEW i \in 1..Len(list)
      PROVE  /\ list[i].msg \in 1..later.last
             /\ IF later.deletes THEN list[i].msg \in On(later.server) => list[i].msg \in got
                ELSE \E j \in 1..Len(later.server) : j < bound /\ later.server[j] = list[i].msg
  <2>1. list[i].msg \in 1..post.last
    BY DEF Asked
  <2>2. list[i].msg # post.last + 1 /\ list[i].msg \in 1..later.last
    BY <2>1
  <2>3. CASE post.deletes
    BY <1>2, <2>2, <2>3 DEF Asked
  <2>4. CASE ~post.deletes
    <3>1. PICK j \in 1..Len(post.server) : j < bound /\ post.server[j] = list[i].msg
      BY <2>4 DEF Asked
    <3>2. j \in 1..Len(later.server) /\ later.server[j] = list[i].msg
      BY <1>1, <3>1
    <3>3. QED BY <2>2, <2>4, <3>1, <3>2
  <2>5. QED BY <2>3, <2>4
<1>4. QED BY <1>3 DEF Asked

(* New mail is no mail that a list has.                                    *)
LEMMA MailArrivesKeeps == ASSUME MailInv, MailArrives PROVE MailInv'
<1>0. MailType
  BY DEF MailInv
<1>1. /\ UNCHANGED <<deletemsgs, mailDisk, mailFiles, temporary, opened, mailIndex, doing, owed, spoiled>>
      /\ Spend("mail", MaxMail) /\ server' = Append(server, mailSpent'.mail)
  BY DEF MailArrives
<1>2. mailSpent' \in [{"mail", "written", "crashes", "changes"} -> Nat] /\ mailSpent'.mail = mailSpent.mail + 1
  BY <1>0, <1>1, SpendIs
<1>3. server \in Seq(Nat) /\ mailSpent.mail \in Nat /\ mailSpent.mail + 1 \in Nat
  BY <1>0 DEF MailType
<1>4. /\ server' \in Seq(Nat) /\ On(server') = On(server) \cup {mailSpent.mail + 1}
      /\ Distinct(server) /\ mailSpent.mail + 1 \notin On(server) => Distinct(server')
  BY <1>1, <1>2, <1>3, AppendLinks
<1>5. /\ Len(server') = Len(server) + 1 /\ Len(server) \in Nat
      /\ \A i \in 1..Len(server) : server'[i] = server[i]
  BY <1>1, <1>2, <1>3, AppendProperties
<1>6. ServerOK'
  BY <1>2, <1>3, <1>4 DEF ServerOK, MailInv
<1>7. \A b \in Boxes : Current(b)' = Current(b) /\ RefNow(b)' = RefNow(b)
  BY <1>1 DEF Current, IsOpen, RefNow
<1>8. MailType'
  BY <1>0, <1>1, <1>2, <1>4 DEF MailType, Top
<1>9. ASSUME NEW b \in Boxes \ spoiled' PROVE BoxGood(b)'
  <2>1. BoxGood(b) /\ mailFiles'[b] = mailFiles[b] /\ mailDisk'[b] = mailDisk[b]
    BY <1>1, <1>9 DEF MailInv
  <2>2. QED BY <1>7, <2>1, BoxStays
<1>10. MoveGood'
  BY <1>1 DEF MoveGood, MailInv, Top
<1>11. FileGood'
  <2>1. doing.op = "file" => doing.to \in Boxes
    BY <1>0, DoingIs DEF MailType, Others, Boxes
  <2>2. QED BY <1>1, <1>7, <2>1 DEF FileGood, MailInv
<1>12. OwedSafe'
  BY <1>1, <1>7 DEF OwedSafe, Safe, MailInv
<1>13. InboxOK'
  <2>1. "INBOX" \in Boxes
    BY DEF Boxes
  <2>2. Bound' = Bound /\ Got' = Got /\ Current("INBOX")' = Current("INBOX")
    BY <1>1, <1>7, <2>1 DEF Bound, Got
  <2>3. mailDisk["INBOX"].list \in Seq(Entries) /\ Current("INBOX").list \in Seq(Entries)
    BY <1>0, <2>1, CurrentIs, IndexIs
  <2>4. Post'.server = Append(Post.server, Post.last + 1) /\ Post'.last = Post.last + 1
        /\ Post'.deletes = Post.deletes /\ Post.server \in Seq(Nat) /\ Post.last \in Nat
    BY <1>1, <1>2, <1>3 DEF Post
  <2>5. /\ Asked(mailDisk["INBOX"].list, mailDisk["INBOX"].first, {}, Post')
        /\ Asked(Current("INBOX").list, Bound, Got, Post')
    <3>1. /\ Asked(mailDisk["INBOX"].list, mailDisk["INBOX"].first, {}, Post)
          /\ Asked(Current("INBOX").list, Bound, Got, Post)
      BY DEF InboxOK, MailInv
    <3>2. QED BY <2>3, <2>4, <3>1, AskedArrives
  <2>6. Current("INBOX").first = mailDisk["INBOX"].first
    BY DEF InboxOK, MailInv
  <2>7. QED BY <1>1, <2>2, <2>5, <2>6 DEF InboxOK
<1>14. FetchOK'
  <2>1. SUFFICES ASSUME doing.op = "fetch" PROVE FetchOK'
    BY <1>1 DEF FetchOK
  <2>2. /\ doing.next \in 1..doing.count /\ doing.count <= Len(server) + 1
        /\ \A m \in doing.got : Lists(Current("INBOX").list, m, mailFiles["INBOX"])
        /\ \A m \in doing.got : \E i \in 1..Len(server) : i < doing.next /\ server[i] = m
    BY <2>1 DEF FetchOK, MailInv
  <2>3. doing.count \in Nat
    BY <1>0, <2>1, DoingIs DEF MailType
  <2>4. doing.count <= Len(server') + 1
    BY <1>5, <2>2, <2>3
  <2>5. \A m \in doing.got : \E i \in 1..Len(server') : i < doing.next /\ server'[i] = m
    BY <1>5, <2>2
  <2>6. "INBOX" \in Boxes
    BY DEF Boxes
  <2>7. QED BY <1>1, <1>7, <2>2, <2>4, <2>5, <2>6 DEF FetchOK
<1>15. QED BY <1>6, <1>8, <1>9, <1>10, <1>11, <1>12, <1>13, <1>14 DEF MailInv

(* What the fetching program knows of its own numbers.                     *)
LEMMA FetchIs ==
    ASSUME MailInv, doing.op = "fetch"
    PROVE  /\ doing.next \in Nat /\ doing.count \in Nat /\ doing.ref \in Nat /\ doing.got \subseteq Nat \ {NoMsg}
           /\ Top = "INBOX" /\ opened # <<>> /\ Len(server) \in Nat
           /\ doing.next \in 1..doing.count /\ doing.count <= Len(server) + 1
           /\ Bound = doing.next /\ Got = doing.got /\ RefNow("INBOX") = doing.ref
           /\ Current("INBOX") = mailIndex["INBOX"] /\ mailIndex["INBOX"] \in Indexes
           /\ mailDisk["INBOX"] \in Indexes
           /\ Good(mailIndex["INBOX"].list, doing.ref, mailFiles["INBOX"])
           /\ Good(mailDisk["INBOX"].list, mailDisk["INBOX"].ref, mailFiles["INBOX"])
           /\ mailDisk["INBOX"].ref <= doing.ref
<1>1. MailType
  BY DEF MailInv
<1>2. "INBOX" \in Boxes \ spoiled
  BY <1>1 DEF MailType, Boxes, Others
<1>3. /\ doing.next \in Nat /\ doing.count \in Nat /\ doing.ref \in Nat /\ doing.got \subseteq Nat \ {NoMsg}
  BY <1>1, DoingIs DEF MailType
<1>4. Top = "INBOX" /\ opened # <<>> /\ Len(server) \in Nat
  BY <1>1 DEF MailType, Idle
<1>5. Bound = doing.next /\ Got = doing.got /\ RefNow("INBOX") = doing.ref
  BY DEF Bound, Got, RefNow
<1>6. Current("INBOX") = mailIndex["INBOX"] /\ mailIndex["INBOX"] \in Indexes /\ mailDisk["INBOX"] \in Indexes
  BY <1>1, <1>2, <1>4, CurrentIs
<1>7. BoxGood("INBOX")
  BY <1>2 DEF MailInv
<1>8. /\ Good(mailIndex["INBOX"].list, doing.ref, mailFiles["INBOX"])
      /\ Good(mailDisk["INBOX"].list, mailDisk["INBOX"].ref, mailFiles["INBOX"])
      /\ mailDisk["INBOX"].ref <= doing.ref
  BY <1>5, <1>6, <1>7 DEF BoxGood, NextFile
<1>9. doing.next \in 1..doing.count /\ doing.count <= Len(server) + 1
  BY DEF FetchOK, MailInv
<1>10. QED BY <1>3, <1>4, <1>5, <1>6, <1>8, <1>9

(* A fetched message gets a file of its own, and no list has it.           *)
LEMMA GetNewMailKeeps == ASSUME MailInv, getnewmail PROVE MailInv'
<1> DEFINE m == server[doing.next]
           f == doing.ref
           list == mailIndex["INBOX"].list
           e == Entry(f, m, "mail")
<1>0. MailType /\ doing.op = "fetch" /\ doing.next < doing.count
  BY DEF MailInv, getnewmail
<1>1. UNCHANGED <<deletemsgs, server, mailDisk, temporary, opened, mailSpent, owed, spoiled>>
  BY DEF getnewmail
<1>2. /\ doing.next \in Nat /\ doing.count \in Nat /\ doing.ref \in Nat /\ doing.got \subseteq Nat \ {NoMsg}
      /\ Top = "INBOX" /\ opened # <<>> /\ Len(server) \in Nat
      /\ doing.next \in 1..doing.count /\ doing.count <= Len(server) + 1
      /\ Bound = doing.next /\ Got = doing.got /\ RefNow("INBOX") = doing.ref
      /\ Current("INBOX") = mailIndex["INBOX"] /\ mailIndex["INBOX"] \in Indexes
      /\ mailDisk["INBOX"] \in Indexes
      /\ Good(mailIndex["INBOX"].list, doing.ref, mailFiles["INBOX"])
      /\ Good(mailDisk["INBOX"].list, mailDisk["INBOX"].ref, mailFiles["INBOX"])
      /\ mailDisk["INBOX"].ref <= doing.ref
  BY <1>0, FetchIs
<1>3. doing.next \in 1..Len(server) /\ doing.next + 1 \in 1..doing.count
  BY <1>0, <1>2
<1>4. m \in 1..mailSpent.mail /\ m \in On(server) /\ Distinct(server) /\ m \in Nat \ {NoMsg}
  <2>1. server \in Seq(Nat) /\ ServerOK /\ mailSpent.mail \in Nat
    BY <1>0 DEF MailInv, MailType
  <2>2. m \in On(server)
    BY <1>3, <2>1, OnMember
  <2>3. QED BY <2>1, <2>2 DEF ServerOK, NoMsg
<1>5. "INBOX" \in Boxes /\ Post' = Post /\ Top' = Top /\ \A b \in Boxes : b # "INBOX" => b \in Others
  BY <1>1 DEF Boxes, Post, Top, Others
<1>6. doing \in [op : {"fetch"}, next : Nat, count : Nat, ref : Nat, got : SUBSET (Nat \ {NoMsg})]
  BY <1>0, DoingIs DEF MailType
<1>7. \A x \in doing.got : \E i \in 1..Len(server) : i < doing.next /\ server[i] = x
  BY <1>0 DEF FetchOK, MailInv
<1>8. \A x \in doing.got : Lists(list, x, mailFiles["INBOX"])
  BY <1>0, <1>2 DEF FetchOK, MailInv
<1>9. /\ list \in Seq(Entries) /\ mailDisk["INBOX"].list \in Seq(Entries)
      /\ mailDisk["INBOX"].ref \in Nat /\ mailIndex["INBOX"].ref \in Nat
  BY <1>2, IndexIs
<1>10. /\ Asked(list, doing.next, doing.got, Post) /\ Current("INBOX").first = mailDisk["INBOX"].first
       /\ Asked(mailDisk["INBOX"].list, mailDisk["INBOX"].first, {}, Post)
  BY <1>2 DEF InboxOK, MailInv
<1>11. CASE /\ doing' = [doing EXCEPT !.next = @ + 1]
            /\ UNCHANGED <<mailFiles, mailIndex>>
  <2>1. /\ doing'.op = "fetch" /\ doing'.next = doing.next + 1 /\ doing'.count = doing.count
        /\ doing'.ref = doing.ref /\ doing'.got = doing.got
    BY <1>6, <1>11
  <2>2. doing' \in Doings
    <3>1. doing' \in [op : {"fetch"}, next : Nat, count : Nat, ref : Nat, got : SUBSET (Nat \ {NoMsg})]
      BY <1>2, <1>6, <1>11
    <3>2. QED BY <3>1 DEF Doings
  <2>3. \A b \in Boxes : Current(b)' = Current(b) /\ RefNow(b)' = RefNow(b)
    BY <1>0, <1>1, <1>11, <2>1 DEF Current, IsOpen, RefNow
  <2>4. MailType'
    BY <1>0, <1>1, <1>2, <1>5, <1>11, <2>2 DEF MailType
  <2>5. ASSUME NEW b \in Boxes \ spoiled' PROVE BoxGood(b)'
    <3>1. BoxGood(b) /\ mailFiles'[b] = mailFiles[b] /\ mailDisk'[b] = mailDisk[b]
      BY <1>1, <1>11, <2>5 DEF MailInv
    <3>2. QED BY <2>3, <3>1, BoxStays
  <2>6. MoveGood' /\ FileGood'
    BY <2>1 DEF MoveGood, FileGood
  <2>7. OwedSafe'
    BY <1>0, <1>1, <1>11, <2>1, <2>3 DEF OwedSafe, Safe, MailInv
  <2>8. ServerOK'
    BY <1>1 DEF ServerOK, MailInv
  <2>9. InboxOK'
    <3>1. Bound' = doing.next + 1 /\ Got' = doing.got /\ Current("INBOX")' = Current("INBOX")
      BY <1>5, <2>1, <2>3 DEF Bound, Got
    <3>2. Asked(list, doing.next + 1, doing.got, Post)
      <4>1. Len(Post.server) \in Nat /\ doing.next + 1 \in Nat /\ doing.next <= doing.next + 1
        BY <1>2, PostIs
      <4>2. QED BY <1>2, <1>10, <4>1, AskedMore
    <3>3. QED BY <1>1, <1>2, <1>5, <1>10, <3>1, <3>2 DEF InboxOK
  <2>10. FetchOK'
    <3>1. \A x \in doing.got : \E i \in 1..Len(server) : i < doing.next + 1 /\ server[i] = x
      BY <1>2, <1>7
    <3>2. \A x \in doing'.got : Lists(Current("INBOX")'.list, x, mailFiles'["INBOX"])
      BY <1>2, <1>5, <1>8, <1>11, <2>1, <2>3
    <3>3. doing'.count <= Len(server') + 1 /\ doing'.next \in 1..doing'.count
      BY <1>1, <1>2, <1>3, <2>1
    <3>4. \A x \in doing'.got : \E i \in 1..Len(server') : i < doing'.next /\ server'[i] = x
      BY <1>1, <2>1, <3>1
    <3>5. QED BY <3>2, <3>3, <3>4 DEF FetchOK
  <2>11. QED BY <2>4, <2>5, <2>6, <2>7, <2>8, <2>9, <2>10 DEF MailInv
<1>12. CASE /\ mailFiles' = [mailFiles EXCEPT !["INBOX"] = Put(@, f, m)]
            /\ mailIndex' = [mailIndex EXCEPT !["INBOX"].list = Append(@, e)]
            /\ doing' = [doing EXCEPT !.next = @ + 1, !.ref = @ + 1, !.got = @ \cup {m}]
  <2> DEFINE longer == Append(list, e)
             index == [mailIndex["INBOX"] EXCEPT !.list = longer]
             fs == Put(mailFiles["INBOX"], f, m)
  <2>1. /\ doing'.op = "fetch" /\ doing'.next = doing.next + 1 /\ doing'.count = doing.count
        /\ doing'.ref = doing.ref + 1 /\ doing'.got = doing.got \cup {m}
    BY <1>6, <1>12
  <2>2. doing' \in Doings
    <3>1. doing.next + 1 \in Nat /\ doing.ref + 1 \in Nat /\ doing.got \cup {m} \in SUBSET (Nat \ {NoMsg})
      BY <1>2, <1>4, <1>6
    <3>2. doing' = [doing EXCEPT !.next = doing.next + 1, !.ref = doing.ref + 1, !.got = doing.got \cup {m}]
      BY <1>12
    <3> HIDE DEF m
    <3>3. doing' \in [op : {"fetch"}, next : Nat, count : Nat, ref : Nat, got : SUBSET (Nat \ {NoMsg})]
      BY ONLY <1>6, <3>1, <3>2
    <3>4. QED BY <3>3 DEF Doings
  <2>3. e \in Entries /\ e.file = f /\ e.msg = m
    BY <1>2, <1>4 DEF Entry, Entries
  <2> HIDE DEF e
  <2>4. longer \in Seq(Entries)
    BY <1>9, <2>3, AppendProperties
  <2>5. index \in Indexes /\ index.list = longer /\ index.ref = mailIndex["INBOX"].ref
        /\ index.first = mailIndex["INBOX"].first
    BY <1>2, <2>4 DEF Indexes
  <2>6. mailIndex' = [mailIndex EXCEPT !["INBOX"] = index]
    BY <1>12 DEF e
  <2> HIDE DEF index
  <2>7. \A b \in Boxes : Current(b)' = IF b = "INBOX" THEN index ELSE Current(b)
    <3>1. mailIndex' = [mailIndex EXCEPT ![Top] = index]
      BY <1>2, <2>6
    <3>2. QED BY <1>0, <1>1, <1>2, <3>1, TopChanges
  <2>8. /\ mailFiles'["INBOX"] = fs /\ DOMAIN mailFiles' = Boxes
        /\ \A b \in Boxes : b # "INBOX" => mailFiles'[b] = mailFiles[b]
    BY <1>0, <1>5, <1>12 DEF MailType
  <2>9. /\ Good(longer, f + 1, fs) /\ Lists(longer, m, fs)
        /\ \A x : Lists(list, x, mailFiles["INBOX"]) => Lists(longer, x, fs)
    <3>1. Good(list, f, fs) /\ \A x : Lists(list, x, mailFiles["INBOX"]) => Lists(list, x, fs)
      BY <1>2, <1>9, GoodPut
    <3>2. ReadFile(fs, f) = m
      BY ReadPut
    <3>3. /\ Good(longer, f + 1, fs) /\ (e.msg # NoMsg => Lists(longer, e.msg, fs))
          /\ \A x : Lists(list, x, fs) => Lists(longer, x, fs)
      <4> HIDE DEF fs
      <4>1. QED BY <1>2, <1>9, <2>3, <3>1, <3>2, GoodAppend
    <3>4. QED BY <1>4, <2>3, <3>1, <3>3
  <2>10. Good(mailDisk["INBOX"].list, mailDisk["INBOX"].ref, fs)
    BY <1>2, <1>9, GoodPut
  <2>11. MailType'
    <3>1. mailIndex' \in [Boxes -> Indexes]
      BY <1>0, <2>5, <2>6 DEF MailType
    <3>2. ASSUME NEW b \in Boxes, NEW g \in DOMAIN mailFiles'[b] PROVE mailFiles'[b][g] \in Nat
      <4>1. CASE b = "INBOX"
        <5>1. mailFiles'[b][g] = IF g = f THEN m ELSE mailFiles["INBOX"][g]
          BY <2>8, <3>2, <4>1 DEF Put
        <5>2. g = f \/ g \in DOMAIN mailFiles["INBOX"]
          BY <2>8, <3>2, <4>1 DEF Put
        <5>3. QED BY <1>0, <1>4, <1>5, <5>1, <5>2 DEF MailType
      <4>2. CASE b # "INBOX"
        BY <1>0, <2>8, <3>2, <4>2 DEF MailType
      <4>3. QED BY <4>1, <4>2
    <3>3. QED BY <1>0, <1>1, <1>2, <1>5, <2>2, <2>8, <3>1, <3>2 DEF MailType
  <2> HIDE DEF fs, longer
  <2>12. ASSUME NEW b \in Boxes \ spoiled' PROVE BoxGood(b)'
    <3>0. BoxGood(b) /\ mailDisk'[b] = mailDisk[b]
      BY <1>1, <2>12 DEF MailInv
    <3>1. CASE b # "INBOX"
      <4>1. RefNow(b)' = RefNow(b) /\ Current(b)' = Current(b)
        BY <2>7, <3>1 DEF RefNow
      <4>2. QED BY <2>8, <3>0, <3>1, <4>1, BoxStays
    <3>2. CASE b = "INBOX"
      <4>1. RefNow(b)' = f + 1 /\ Current(b)'.list = longer
        BY <2>1, <2>5, <2>7, <3>2 DEF RefNow
      <4>2. mailDisk["INBOX"].ref <= f + 1
        BY <1>2, <1>9
      <4>3. QED BY <2>8, <2>9, <2>10, <3>0, <3>2, <4>1, <4>2 DEF BoxGood, NextFile
    <3>3. QED BY <3>1, <3>2
  <2>13. MoveGood' /\ FileGood'
    BY <2>1 DEF MoveGood, FileGood
  <2>14. OwedSafe'
    <3>1. SUFFICES ASSUME spoiled' = {}, NEW x \in owed'
                   PROVE  \E b \in Boxes : Lists(Current(b)'.list, x, mailFiles'[b])
      BY DEF OwedSafe, Safe
    <3>2. PICK b \in Boxes : Lists(Current(b).list, x, mailFiles[b])
      BY <1>0, <1>1, <3>1 DEF MailInv, OwedSafe, Safe
    <3>3. CASE b # "INBOX"
      BY <2>7, <2>8, <3>2, <3>3
    <3>4. CASE b = "INBOX"
      BY <1>2, <2>5, <2>7, <2>8, <2>9, <3>2, <3>4
    <3>5. QED BY <3>3, <3>4
  <2>15. ServerOK'
    BY <1>1 DEF ServerOK, MailInv
  <2>16. InboxOK'
    <3>1. Bound' = doing.next + 1 /\ Got' = doing.got \cup {m}
      BY <2>1 DEF Bound, Got
    <3>2. Asked(list, doing.next + 1, doing.got \cup {m}, Post)
      <4>1. /\ Len(Post.server) \in Nat /\ doing.next + 1 \in Nat /\ doing.next <= doing.next + 1
            /\ doing.got \subseteq doing.got \cup {m}
        BY <1>2, PostIs
      <4>2. QED BY <1>2, <1>10, <4>1, AskedMore
    <3>3. ASSUME NEW i \in 1..Len(list) PROVE list[i].msg # m
      <4>1. SUFFICES ASSUME list[i].msg = m PROVE FALSE
        OBVIOUS
      <4>2. \E j \in 1..Len(server) : j < doing.next /\ server[j] = m
        <5>1. CASE deletemsgs
          <6>1. m \in doing.got
            BY <1>4, <1>10, <4>1, <5>1, PostIs DEF Asked
          <6>2. QED BY <1>7, <6>1
        <5>2. CASE ~deletemsgs
          BY <1>10, <4>1, <5>2, PostIs DEF Asked
        <5>3. QED BY <5>1, <5>2
      <4>3. DOMAIN server = 1..Len(server)
        BY <1>0, OnMember DEF MailType
      <4>4. QED BY <1>2, <1>3, <1>4, <4>2, <4>3 DEF Distinct
    <3>4. IF Post.deletes THEN m \in doing.got \cup {m}
          ELSE \E j \in 1..Len(Post.server) : j < doing.next + 1 /\ Post.server[j] = m
      BY <1>2, <1>3, PostIs
    <3>5. Asked(longer, doing.next + 1, doing.got \cup {m}, Post)
      BY <1>4, <1>9, <2>3, <3>2, <3>3, <3>4, PostIs, AskedAppend DEF longer
    <3>6. Current("INBOX")'.list = longer /\ Current("INBOX")'.first = Current("INBOX").first
      BY <1>2, <1>5, <2>5, <2>7
    <3>7. QED BY <1>1, <1>5, <1>10, <3>1, <3>5, <3>6 DEF InboxOK
  <2>17. FetchOK'
    <3>1. \A x \in doing'.got : \E i \in 1..Len(server') : i < doing'.next /\ server'[i] = x
      <4>1. \A x \in doing.got : \E i \in 1..Len(server) : i < doing.next + 1 /\ server[i] = x
        BY <1>2, <1>7
      <4>2. doing.next < doing.next + 1
        BY <1>2
      <4>3. QED BY <1>1, <1>3, <2>1, <4>1, <4>2
    <3>2. \A x \in doing'.got : Lists(longer, x, mailFiles'["INBOX"])
      BY <1>8, <2>1, <2>8, <2>9
    <3>3. Current("INBOX")'.list = longer
      BY <1>5, <2>5, <2>7
    <3>4. doing'.count <= Len(server') + 1 /\ doing'.next \in 1..doing'.count
      BY <1>1, <1>2, <1>3, <2>1
    <3>5. QED BY <3>1, <3>2, <3>3, <3>4 DEF FetchOK
  <2>18. QED BY <2>11, <2>12, <2>13, <2>14, <2>15, <2>16, <2>17 DEF MailInv
<1>13. QED BY <1>11, <1>12 DEF getnewmail

(* What was got is deleted from the server, or nothing happens to it.      *)
LEMMA AskedLess ==
    ASSUME NEW list, NEW bound, NEW got, NEW post, NEW later,
           later.last = post.last, later.deletes = post.deletes,
           IF post.deletes THEN On(later.server) \subseteq On(post.server) \ got
           ELSE later.server = post.server,
           Asked(list, bound, got, post)
    PROVE  Asked(list, bound, {}, later)
<1>1. ASSUME NEW i \in 1..Len(list)
      PROVE  /\ list[i].msg \in 1..later.last
             /\ IF later.deletes THEN list[i].msg \in On(later.server) => list[i].msg \in {}
                ELSE \E j \in 1..Len(later.server) : j < bound /\ later.server[j] = list[i].msg
  <2>1. CASE post.deletes
    BY <2>1 DEF Asked
  <2>2. CASE ~post.deletes
    BY <2>2 DEF Asked
  <2>3. QED BY <2>1, <2>2
<1>2. QED BY <1>1 DEF Asked

(* What the server deletes is what the INBOX lists.                        *)
LEMMA TerminateConnectionKeeps == ASSUME MailInv, terminateconnection PROVE MailInv'
<1>0. MailType /\ doing.op = "fetch" /\ doing.next = doing.count
  BY DEF MailInv, terminateconnection
<1>1. /\ UNCHANGED <<deletemsgs, mailDisk, mailFiles, temporary, opened, mailIndex, mailSpent, spoiled>>
      /\ server' = IF deletemsgs THEN Only(server, ToSet(server) \ doing.got) ELSE server
      /\ doing' = [op |-> "count", count |-> doing.count, ref |-> doing.ref]
      /\ owed' = owed \cup doing.got
  BY DEF terminateconnection
<1>2. /\ doing.count \in Nat /\ doing.ref \in Nat /\ doing.got \subseteq Nat \ {NoMsg}
      /\ Top = "INBOX" /\ opened # <<>>
      /\ Bound = doing.next /\ Got = doing.got /\ RefNow("INBOX") = doing.ref
      /\ Current("INBOX") = mailIndex["INBOX"]
  BY <1>0, FetchIs
<1>3. doing'.op = "count" /\ doing'.count = doing.count /\ doing'.ref = doing.ref
  BY <1>1
<1>4. doing' \in Doings
  BY <1>1, <1>2 DEF Doings
<1>5. "INBOX" \in Boxes /\ Top' = Top
  BY <1>1 DEF Boxes, Top
<1>6. \A b \in Boxes : Current(b)' = Current(b) /\ RefNow(b)' = RefNow(b)
  BY <1>0, <1>1, <1>3 DEF Current, IsOpen, RefNow
<1>7. server' \in Seq(Nat) /\ (Distinct(server) => Distinct(server'))
      /\ IF deletemsgs THEN On(server') \subseteq On(server) \ doing.got ELSE server' = server
  <2>1. server \in Seq(Nat)
    BY <1>0 DEF MailType
  <2>2. CASE deletemsgs
    <3> DEFINE S == ToSet(server) \ doing.got
    <3>1. /\ Only(server, S) \in Seq(Nat) /\ On(Only(server, S)) = On(server) \cap S
          /\ Distinct(server) => Distinct(Only(server, S))
      BY <2>1, OnlyKeeps
    <3>2. QED BY <1>1, <2>2, <3>1
  <2>3. CASE ~deletemsgs
    BY <1>1, <2>1, <2>3
  <2>4. QED BY <2>2, <2>3
<1>8. On(server') \subseteq On(server)
  BY <1>7
<1>9. MailType'
  <2>1. owed' \subseteq Nat \ {NoMsg}
    BY <1>0, <1>1, <1>2 DEF MailType
  <2>2. QED BY <1>0, <1>1, <1>2, <1>4, <1>5, <1>7, <2>1 DEF MailType
<1>10. ASSUME NEW b \in Boxes \ spoiled' PROVE BoxGood(b)'
  <2>1. BoxGood(b) /\ mailFiles'[b] = mailFiles[b] /\ mailDisk'[b] = mailDisk[b]
    BY <1>1, <1>10 DEF MailInv
  <2>2. QED BY <1>6, <2>1, BoxStays
<1>11. MoveGood' /\ FileGood' /\ FetchOK'
  BY <1>3 DEF MoveGood, FileGood, FetchOK
<1>12. OwedSafe'
  <2>1. SUFFICES ASSUME spoiled' = {}, NEW x \in owed'
                 PROVE  \E b \in Boxes : Lists(Current(b)'.list, x, mailFiles'[b])
    BY DEF OwedSafe, Safe
  <2>2. \E b \in Boxes : Lists(Current(b).list, x, mailFiles[b])
    <3>1. CASE x \in owed
      BY <1>0, <1>1, <2>1, <3>1 DEF MailInv, OwedSafe, Safe
    <3>2. CASE x \in doing.got
      BY <1>0, <1>5, <3>2 DEF MailInv, FetchOK
    <3>3. QED BY <1>1, <3>1, <3>2
  <2>3. QED BY <1>1, <1>6, <2>2
<1>13. ServerOK'
  BY <1>1, <1>7, <1>8 DEF ServerOK, MailInv
<1>14. InboxOK'
  <2>1. Bound' = doing.next /\ Got' = {} /\ Current("INBOX")' = Current("INBOX")
    BY <1>0, <1>3, <1>5, <1>6 DEF Bound, Got
  <2>2. Post'.server = server' /\ Post'.last = Post.last /\ Post'.deletes = Post.deletes
    BY <1>1 DEF Post
  <2>3. /\ Asked(mailDisk["INBOX"].list, mailDisk["INBOX"].first, {}, Post)
        /\ Asked(Current("INBOX").list, doing.next, doing.got, Post)
        /\ Current("INBOX").first = mailDisk["INBOX"].first
    BY <1>2 DEF InboxOK, MailInv
  <2>4. /\ IF Post.deletes THEN On(Post'.server) \subseteq On(Post.server) \ doing.got
           ELSE Post'.server = Post.server
        /\ IF Post.deletes THEN On(Post'.server) \subseteq On(Post.server) \ {}
           ELSE Post'.server = Post.server
    BY <1>7, <2>2, PostIs
  <2>5. Asked(mailDisk["INBOX"].list, mailDisk["INBOX"].first, {}, Post')
    BY <2>2, <2>3, <2>4, AskedLess
  <2>6. Asked(Current("INBOX").list, doing.next, {}, Post')
    BY <2>2, <2>3, <2>4, AskedLess
  <2>7. QED BY <1>1, <2>1, <2>3, <2>5, <2>6 DEF InboxOK
<1>15. QED BY <1>9, <1>10, <1>11, <1>12, <1>13, <1>14 DEF MailInv

(* The new numbers are those that were counted up to.                      *)
LEMMA NumbersSavedKeeps == ASSUME MailInv, NumbersSaved PROVE MailInv'
<1>0. MailType /\ doing.op = "count" /\ opened # <<>> /\ Top = "INBOX"
  BY DEF MailInv, NumbersSaved, MailType, Idle
<1> DEFINE first == IF deletemsgs THEN Len(server) ELSE doing.count
           inbox == [mailIndex["INBOX"] EXCEPT !.first = first, !.ref = doing.ref]
<1>1. /\ UNCHANGED <<deletemsgs, server, mailFiles, temporary, opened, mailSpent, owed, spoiled>>
      /\ mailIndex' = [mailIndex EXCEPT !["INBOX"] = inbox]
      /\ mailDisk' = [mailDisk EXCEPT !["INBOX"] = inbox]
      /\ doing' = Idle
  BY DEF NumbersSaved
<1>2. doing.count \in Nat /\ doing.ref \in Nat
  BY <1>0, DoingIs DEF MailType
<1>3. "INBOX" \in Boxes /\ Current("INBOX") = mailIndex["INBOX"] /\ mailIndex["INBOX"] \in Indexes
      /\ "INBOX" \notin spoiled
  BY <1>0, CurrentIs DEF Boxes, MailType, Others
<1>4. first \in Nat
  <2>1. Len(server) \in Nat
    BY <1>0 DEF MailType
  <2>2. QED BY <1>2, <2>1
<1> HIDE DEF first
<1>5. inbox \in Indexes /\ inbox.list = mailIndex["INBOX"].list /\ inbox.first = first /\ inbox.ref = doing.ref
  BY <1>2, <1>3, <1>4 DEF Indexes
<1> HIDE DEF inbox
<1>6. \A b \in Boxes : mailDisk'[b] = IF b = "INBOX" THEN inbox ELSE mailDisk[b]
  BY <1>0, <1>1 DEF MailType
<1>7. \A b \in Boxes : Current(b)' = IF b = "INBOX" THEN inbox ELSE Current(b)
  <2>1. IsOpen("INBOX") /\ \A b : IsOpen(b)' = IsOpen(b)
    BY <1>0, <1>1, OpenIs DEF MailType, IsOpen
  <2>2. \A b \in Boxes : mailIndex'[b] = IF b = "INBOX" THEN inbox ELSE mailIndex[b]
    BY <1>0, <1>1 DEF MailType
  <2>3. QED BY <1>6, <2>1, <2>2 DEF Current
<1>8. doing'.op = "idle" /\ doing' \in Doings /\ Top' = Top
  BY <1>1 DEF Idle, Doings, Top
<1>9. MailType'
  <2>1. mailDisk' \in [Boxes -> Indexes] /\ mailIndex' \in [Boxes -> Indexes]
    BY <1>0, <1>1, <1>5 DEF MailType
  <2>2. QED BY <1>0, <1>1, <1>8, <2>1 DEF MailType
<1>10. ASSUME NEW b \in Boxes \ spoiled' PROVE BoxGood(b)'
  <2>1. BoxGood(b) /\ mailFiles'[b] = mailFiles[b]
    BY <1>1, <1>10 DEF MailInv
  <2>2. CASE b # "INBOX"
    <3>1. RefNow(b)' = RefNow(b) /\ mailDisk'[b] = mailDisk[b] /\ Current(b)' = Current(b)
      BY <1>6, <1>7, <2>2 DEF RefNow
    <3>2. QED BY <2>1, <3>1, BoxStays
  <2>3. CASE b = "INBOX"
    <3>1. RefNow(b) = doing.ref /\ Current(b).list = inbox.list
      BY <1>0, <1>3, <1>5, <2>3 DEF RefNow
    <3>2. mailDisk'[b] = inbox /\ Current(b)' = inbox /\ RefNow(b)' = inbox.ref
      BY <1>6, <1>7, <1>8, <2>3 DEF RefNow
    <3>3. Good(inbox.list, NextFile(b, inbox.ref), mailFiles[b])
      BY <1>5, <2>1, <3>1 DEF BoxGood
    <3>4. inbox.ref <= inbox.ref
      BY <1>2, <1>5
    <3>5. QED BY <2>1, <3>2, <3>3, <3>4 DEF BoxGood
  <2>4. QED BY <2>2, <2>3
<1>11. MoveGood' /\ FileGood' /\ FetchOK'
  BY <1>8 DEF MoveGood, FileGood, FetchOK
<1>12. OwedSafe'
  <2>1. SUFFICES ASSUME spoiled' = {}, NEW x \in owed'
                 PROVE  \E b \in Boxes : Lists(Current(b)'.list, x, mailFiles'[b])
    BY DEF OwedSafe, Safe
  <2>2. PICK b \in Boxes : Lists(Current(b).list, x, mailFiles[b])
    BY <1>0, <1>1, <2>1 DEF MailInv, OwedSafe, Safe
  <2>3. Current(b)'.list = Current(b).list
    BY <1>3, <1>5, <1>7
  <2>4. QED BY <1>1, <2>2, <2>3
<1>13. ServerOK'
  BY <1>1 DEF ServerOK, MailInv
<1>14. InboxOK'
  <2>1. Post' = Post /\ Bound = doing.count /\ Got = {}
    BY <1>0, <1>1 DEF Post, Bound, Got
  <2>2. Asked(inbox.list, doing.count, {}, Post)
    BY <1>3, <1>5, <2>1 DEF InboxOK, MailInv
  <2>3. Asked(inbox.list, first, {}, Post)
    <3>1. CASE deletemsgs
      BY <2>2, <3>1, PostIs DEF Asked
    <3>2. CASE ~deletemsgs
      BY <2>2, <3>2 DEF first
    <3>3. QED BY <3>1, <3>2
  <2>4. mailDisk'["INBOX"] = inbox /\ Current("INBOX")' = inbox /\ Bound' = first /\ Got' = {}
    BY <1>3, <1>5, <1>6, <1>7, <1>8 DEF Bound, Got
  <2>5. QED BY <1>5, <2>1, <2>3, <2>4 DEF InboxOK
<1>15. QED BY <1>9, <1>10, <1>11, <1>12, <1>13, <1>14 DEF MailInv

(* What is read is a message, or none.                                     *)
LEMMA ReadIsNat ==
    ASSUME MailType, NEW b \in Boxes, NEW f
    PROVE  ReadFile(mailFiles[b], f) \in Nat
BY DEF ReadFile, NoMsg, MailType

(* A draft goes from its box to temporary.txt.                             *)
LEMMA OpenMessageKeeps == ASSUME MailInv, openmessage PROVE MailInv'
<1>0. MailType /\ doing.op = "idle" /\ opened # <<>> /\ Top \in Boxes
  BY CurrentIs DEF MailInv, openmessage, Looking, Idle
<1>1. /\ UNCHANGED <<deletemsgs, server, mailDisk, opened, owed, spoiled>>
      /\ doing' = [op |-> "compose"]
  BY DEF openmessage
<1>2. PICK i \in DOMAIN mailIndex[Top].list :
        LET e == mailIndex[Top].list[i]
            m == ReadFile(mailFiles[Top], e.file)
        IN  \/ /\ Spend("changes", MaxChanges)
               /\ temporary' = IF m = NoMsg THEN temporary ELSE m
               /\ mailFiles' = [mailFiles EXCEPT ![Top] = Erase(@, e.file)]
               /\ mailIndex' = [mailIndex EXCEPT ![Top].list = RemoveAt(@, i)]
            \/ /\ Spend("written", MaxWritten)
               /\ temporary' = IF m = NoMsg THEN temporary ELSE NextWritten
               /\ UNCHANGED <<mailFiles, mailIndex>>
  BY DEF openmessage
<1> DEFINE e == mailIndex[Top].list[i]
           m == ReadFile(mailFiles[Top], e.file)
<1>3. doing'.op = "compose" /\ doing' \in Doings /\ Top' = Top
  BY <1>1 DEF Doings, Top
<1>4. /\ mailSpent' \in [{"mail", "written", "crashes", "changes"} -> Nat]
      /\ mailSpent'.mail = mailSpent.mail
  BY <1>0, <1>2, SpendIs
<1>5. temporary' \in Nat
  <2>1. m \in Nat /\ temporary \in Nat
    BY <1>0, ReadIsNat DEF MailType
  <2>2. NextWritten \in Nat
    BY <1>0, MailAssumption DEF MailType, NextWritten
  <2> HIDE DEF m
  <2>3. temporary' \in {temporary, m, NextWritten}
    BY <1>2 DEF m
  <2>4. QED BY <2>1, <2>2, <2>3
<1>6. MoveGood' /\ FileGood' /\ FetchOK'
  BY <1>3 DEF MoveGood, FileGood, FetchOK
<1>7. CASE /\ temporary' = IF m = NoMsg THEN temporary ELSE m
           /\ mailFiles' = [mailFiles EXCEPT ![Top] = Erase(@, e.file)]
           /\ mailIndex' = [mailIndex EXCEPT ![Top].list = RemoveAt(@, i)]
  <2>1. /\ mailIndex' \in [Boxes -> Indexes] /\ DOMAIN mailFiles' = Boxes
        /\ \A b \in Boxes : \A f \in DOMAIN mailFiles'[b] : mailFiles'[b][f] \in Nat
        /\ \A b \in Boxes \ spoiled' : BoxGood(b)'
        /\ ServerOK' /\ InboxOK'
        /\ spoiled = {} =>
             \A x \in owed :
                \/ e.msg = x /\ m = x
                \/ \E b \in Boxes : Lists(Current(b)'.list, x, mailFiles'[b])
    BY <1>0, <1>1, <1>3, <1>4, <1>7, EntryGoes
  <2>2. MailType'
    BY <1>0, <1>1, <1>3, <1>4, <1>5, <2>1 DEF MailType
  <2>3. OwedSafe'
    <3>1. \A x \in owed : x # NoMsg
      BY <1>0 DEF MailType
    <3>2. ASSUME spoiled' = {}, NEW x \in owed' PROVE Safe(x)'
      <4>1. CASE m = x
        BY <1>1, <1>3, <1>7, <3>1, <3>2, <4>1 DEF Safe
      <4>2. CASE \E b \in Boxes : Lists(Current(b)'.list, x, mailFiles'[b])
        BY <4>2 DEF Safe
      <4>3. QED BY <1>1, <2>1, <3>2, <4>1, <4>2
    <3>3. QED BY <3>2 DEF OwedSafe
  <2>4. QED BY <1>6, <2>1, <2>2, <2>3, SMTT(40) DEF MailInv
<1>8. CASE UNCHANGED <<mailFiles, mailIndex>>
  <2>1. Quiet /\ RefNow("INBOX")' = RefNow("INBOX") /\ Bound' = Bound /\ Got' = Got
    BY <1>0, <1>1, <1>3, <1>4, <1>8 DEF Quiet, RefNow, Bound, Got, Current, IsOpen
  <2>2. /\ \A b \in Boxes : Current(b)' = Current(b)
        /\ \A b \in Boxes \ spoiled' : BoxGood(b)'
        /\ ServerOK' /\ InboxOK'
    BY <1>1, <2>1, QuietKeeps
  <2>3. MailType'
    BY <1>0, <1>1, <1>3, <1>4, <1>5, <1>8 DEF MailType
  <2>4. OwedSafe'
    BY <1>0, <1>1, <1>8, <2>2 DEF OwedSafe, Safe, MailInv
  <2>5. QED BY <1>6, <2>2, <2>3, <2>4 DEF MailInv
<1>9. QED BY <1>2, <1>7, <1>8

(* One box gets a file.                                                    *)
LEMMA FilesPut ==
    ASSUME MailType, NEW b \in Boxes, NEW f \in Nat, NEW m \in Nat,
           mailFiles' = [mailFiles EXCEPT ![b] = Put(@, f, m)]
    PROVE  /\ DOMAIN mailFiles' = Boxes
           /\ \A c \in Boxes : \A g \in DOMAIN mailFiles'[c] : mailFiles'[c][g] \in Nat
           /\ mailFiles'[b] = Put(mailFiles[b], f, m)
           /\ \A c \in Boxes : c # b => mailFiles'[c] = mailFiles[c]
<1>1. /\ DOMAIN mailFiles' = Boxes /\ mailFiles'[b] = Put(mailFiles[b], f, m)
      /\ \A c \in Boxes : c # b => mailFiles'[c] = mailFiles[c]
  BY DEF MailType
<1>2. ASSUME NEW c \in Boxes, NEW g \in DOMAIN mailFiles'[c] PROVE mailFiles'[c][g] \in Nat
  <2>1. CASE c = b
    <3>1. g \in DOMAIN mailFiles[b] \cup {f}
      BY <1>1, <1>2, <2>1 DEF Put
    <3>2. mailFiles'[c][g] = IF g = f THEN m ELSE mailFiles[b][g]
      BY <1>1, <2>1, <3>1 DEF Put
    <3>3. QED BY <3>1, <3>2 DEF MailType
  <2>2. CASE c # b
    BY <1>1, <1>2, <2>2 DEF MailType
  <2>3. QED BY <2>1, <2>2
<1>3. QED BY <1>1, <1>2

(* temporary.txt becomes a file under a new number ...                     *)
LEMMA ComposeKeeps == ASSUME MailInv, Compose PROVE MailInv'
<1>0. MailType /\ doing.op = "compose" /\ opened # <<>>
  BY DEF MailInv, Compose, MailType, Idle
<1>1. /\ UNCHANGED <<deletemsgs, server, mailDisk, opened, mailIndex, mailSpent, spoiled>>
      /\ owed' = owed \cup ({temporary} \ {NoMsg}) /\ temporary' = NoMsg
  BY DEF Compose
<1>2. PICK b \in Others : FileTemporary(b)
  BY DEF Compose, Others
<1> DEFINE f == Current(b).ref + 1
<1>3. b \in Boxes /\ "INBOX" \in Boxes /\ b # "INBOX"
  BY DEF Boxes, Others
<1>4. /\ IndexOf(b) = Current(b) /\ Current(b) \in Indexes /\ mailDisk[b] \in Indexes
  BY <1>0, <1>3, CurrentIs
<1>5. f \in Nat /\ Current(b).ref \in Nat /\ mailDisk[b].ref \in Nat
      /\ Current(b).list \in Seq(Entries) /\ mailDisk[b].list \in Seq(Entries)
  BY <1>4, IndexIs
<1>6. /\ mailFiles' = IF temporary = NoMsg THEN mailFiles ELSE [mailFiles EXCEPT ![b] = Put(@, f, temporary)]
      /\ doing' = [op |-> "file", to |-> b, file |-> f, msg |-> temporary]
  BY <1>2, <1>4 DEF FileTemporary
<1>7. temporary \in Nat /\ NoMsg \in Nat
  BY <1>0 DEF MailType, NoMsg
<1>8. doing'.op = "file" /\ doing'.to = b /\ doing'.file = f /\ doing'.msg = temporary
  BY <1>6
<1>9. doing' \in Doings
  BY <1>5, <1>6, <1>7 DEF Doings
<1>10. \A c \in Boxes : /\ Current(c)' = Current(c) /\ RefNow(c)' = Current(c).ref
                        /\ RefNow(c) = Current(c).ref
  BY <1>0, <1>1, <1>8 DEF Current, IsOpen, RefNow
<1> HIDE DEF f
<1>11. /\ DOMAIN mailFiles' = Boxes
       /\ \A c \in Boxes : \A g \in DOMAIN mailFiles'[c] : mailFiles'[c][g] \in Nat
       /\ \A c \in Boxes : c # b => mailFiles'[c] = mailFiles[c]
       /\ mailFiles'[b] = IF temporary = NoMsg THEN mailFiles[b] ELSE Put(mailFiles[b], f, temporary)
  <2>1. CASE temporary = NoMsg
    BY <1>0, <1>6, <2>1 DEF MailType
  <2>2. CASE temporary # NoMsg
    BY <1>0, <1>3, <1>5, <1>6, <1>7, <2>2, FilesPut
  <2>3. QED BY <2>1, <2>2
<1>12. MailType'
  <2>1. owed' \subseteq Nat \ {NoMsg}
    BY <1>0, <1>1, <1>7 DEF MailType
  <2>2. QED BY <1>0, <1>1, <1>7, <1>8, <1>9, <1>11, <2>1 DEF MailType
<1>13. ASSUME BoxGood(b)
       PROVE  /\ Good(mailDisk[b].list, mailDisk[b].ref + 1, mailFiles'[b])
              /\ Good(Current(b).list, f, mailFiles'[b])
              /\ \A x : Lists(Current(b).list, x, mailFiles[b]) => Lists(Current(b).list, x, mailFiles'[b])
  <2>1. /\ Good(mailDisk[b].list, mailDisk[b].ref + 1, mailFiles[b])
        /\ Good(Current(b).list, f, mailFiles[b]) /\ mailDisk[b].ref <= Current(b).ref
    BY <1>3, <1>10, <1>13 DEF BoxGood, NextFile, f
  <2>2. mailDisk[b].ref + 1 <= f /\ mailDisk[b].ref + 1 \in Nat /\ f <= f
    BY <1>5, <2>1 DEF f
  <2>3. CASE temporary = NoMsg
    BY <1>11, <2>1, <2>3
  <2>4. CASE temporary # NoMsg
    <3>1. Good(mailDisk[b].list, mailDisk[b].ref + 1, Put(mailFiles[b], f, temporary))
      BY <1>5, <2>1, <2>2, GoodPut
    <3>2. /\ Good(Current(b).list, f, Put(mailFiles[b], f, temporary))
          /\ \A x : Lists(Current(b).list, x, mailFiles[b]) =>
                    Lists(Current(b).list, x, Put(mailFiles[b], f, temporary))
      BY <1>5, <2>1, <2>2, GoodPut
    <3>3. QED BY <1>11, <2>4, <3>1, <3>2
  <2>5. QED BY <2>3, <2>4
<1>14. ASSUME NEW c \in Boxes \ spoiled' PROVE BoxGood(c)'
  <2>1. BoxGood(c) /\ mailDisk'[c] = mailDisk[c]
    BY <1>1, <1>14 DEF MailInv
  <2>2. CASE c # b
    BY <1>10, <1>11, <2>1, <2>2, BoxStays
  <2>3. CASE c = b
    <3>1. mailDisk[b].ref <= Current(b).ref
      BY <1>3, <1>10, <2>1, <2>3 DEF BoxGood
    <3>2. QED BY <1>3, <1>10, <1>13, <2>1, <2>3, <3>1 DEF BoxGood, NextFile, f
  <2>4. QED BY <2>2, <2>3
<1>15. MoveGood' /\ FetchOK'
  BY <1>8 DEF MoveGood, FetchOK
<1>16. FileGood'
  <2>1. temporary # NoMsg => ReadFile(mailFiles'[b], f) = temporary
    BY <1>11, ReadPut
  <2>2. QED BY <1>3, <1>8, <1>10, <2>1 DEF FileGood, f
<1>17. OwedSafe'
  <2>1. ASSUME spoiled' = {}, NEW x \in owed' PROVE Safe(x)'
    <3>1. CASE x = temporary
      BY <1>8, <3>1 DEF Safe
    <3>2. CASE x # temporary
      <4>1. PICK c \in Boxes : Lists(Current(c).list, x, mailFiles[c])
        BY <1>0, <1>1, <2>1, <3>2 DEF MailInv, OwedSafe, Safe
      <4>2. BoxGood(b)
        BY <1>1, <1>3, <2>1 DEF MailInv
      <4>3. Lists(Current(c)'.list, x, mailFiles'[c])
        BY <1>10, <1>11, <1>13, <4>1, <4>2
      <4>4. QED BY <4>3 DEF Safe
    <3>3. QED BY <3>1, <3>2
  <2>2. QED BY <2>1 DEF OwedSafe
<1>18. ServerOK'
  BY <1>1 DEF ServerOK, MailInv
<1>19. InboxOK'
  <2>1. Post' = Post /\ Bound' = Bound /\ Got' = Got
    BY <1>0, <1>1, <1>3, <1>8, <1>10 DEF Post, Bound, Got
  <2>2. QED BY <1>1, <1>3, <1>10, <2>1 DEF InboxOK, MailInv
<1>20. QED BY <1>12, <1>14, <1>15, <1>16, <1>17, <1>18, <1>19 DEF MailInv

(* ... and then gets its entry.                                            *)
LEMMA EntryMadeKeeps == ASSUME MailInv, EntryMade PROVE MailInv'
<1>0. MailType /\ doing.op = "file" /\ opened # <<>>
  BY DEF MailInv, EntryMade, MailType, Idle
<1>1. UNCHANGED <<deletemsgs, server, mailFiles, temporary, opened, mailSpent, owed, spoiled>> /\ doing' = Idle
  BY DEF EntryMade
<1>2. PICK b \in Others : doing.to = b /\ doing.file \in Nat /\ doing.msg \in Nat
  BY <1>0, DoingIs DEF MailType
<1> DEFINE e == Entry(doing.file, doing.msg, IF b = "SENT" THEN "sent" ELSE "draft")
           longer == Append(Current(b).list, e)
           index == [Current(b) EXCEPT !.ref = doing.file, !.list = longer]
<1>3. b \in Boxes /\ "INBOX" \in Boxes /\ b # "INBOX"
  BY <1>2 DEF Boxes, Others
<1>4. IndexOf(b) = Current(b) /\ Current(b) \in Indexes /\ mailDisk[b] \in Indexes
  BY <1>0, <1>2, <1>3, CurrentIs
<1>5. With(b, index)
  BY <1>2, <1>4 DEF EntryMade
<1>6. e \in Entries /\ e.file = doing.file /\ e.msg = doing.msg
  BY <1>2 DEF Entry, Entries
<1> HIDE DEF e
<1>7. Current(b).list \in Seq(Entries) /\ Current(b).ref \in Nat
  BY <1>4, IndexIs
<1>8. longer \in Seq(Entries)
  BY <1>6, <1>7, AppendProperties
<1>9. index \in Indexes /\ index.ref = doing.file /\ index.list = longer
  BY <1>2, <1>4, <1>8 DEF Indexes
<1> HIDE DEF longer, index
<1>10. /\ \A c \in Boxes : Current(c)' = IF c = b THEN index ELSE Current(c)
       /\ \A c \in Boxes : c # b => mailDisk'[c] = mailDisk[c]
       /\ mailDisk'[b] \in {mailDisk[b], index}
       /\ mailDisk' \in [Boxes -> Indexes] /\ mailIndex' \in [Boxes -> Indexes]
  <2>1. /\ \A c : IsOpen(c)' = IsOpen(c)
        /\ mailDisk \in [Boxes -> Indexes] /\ mailIndex \in [Boxes -> Indexes]
    BY <1>0, <1>1 DEF IsOpen, MailType
  <2>2. CASE Top = b
    <3>1. mailIndex' = [mailIndex EXCEPT ![b] = index] /\ mailDisk' = mailDisk
      BY <1>5, <2>2 DEF With
    <3>2. IsOpen(b)
      BY <1>0, <2>2, OpenIs DEF MailType
    <3>3. QED BY <1>3, <1>9, <2>1, <3>1, <3>2 DEF Current
  <2>3. CASE Top # b
    <3>1. mailDisk' = [mailDisk EXCEPT ![b] = index] /\ mailIndex' = mailIndex
      BY <1>5, <2>3 DEF With
    <3>2. ~IsOpen(b)
      BY <1>0, <1>2, <2>3, OpenIs DEF MailType
    <3>3. QED BY <1>3, <1>9, <2>1, <3>1, <3>2 DEF Current
  <2>4. QED BY <2>2, <2>3
<1>11. doing'.op = "idle" /\ doing' \in Doings
  BY <1>1 DEF Idle, Doings
<1>12. MailType'
  BY <1>0, <1>1, <1>10, <1>11 DEF MailType
<1>13. \A c \in Boxes : RefNow(c)' = Current(c)'.ref /\ RefNow(c) = Current(c).ref
  BY <1>0, <1>11 DEF RefNow
<1>14. ASSUME BoxGood(b)
       PROVE  /\ Good(longer, doing.file + 1, mailFiles[b])
              /\ mailDisk[b].ref <= doing.file
              /\ doing.msg # NoMsg => Lists(longer, doing.msg, mailFiles[b])
              /\ \A x : Lists(Current(b).list, x, mailFiles[b]) => Lists(longer, x, mailFiles[b])
  <2>1. /\ doing.file = Current(b).ref + 1
        /\ doing.msg # NoMsg => ReadFile(mailFiles[b], doing.file) = doing.msg
    BY <1>0, <1>2 DEF FileGood, MailInv
  <2>2. Good(Current(b).list, doing.file, mailFiles[b]) /\ mailDisk[b].ref <= Current(b).ref
    BY <1>3, <1>13, <1>14, <2>1 DEF BoxGood, NextFile
  <2>3. mailDisk[b].ref <= doing.file
    BY <1>4, <1>7, <2>1, <2>2, IndexIs
  <2>4. /\ Good(longer, doing.file + 1, mailFiles[b])
        /\ e.msg # NoMsg => Lists(longer, e.msg, mailFiles[b])
        /\ \A x : Lists(Current(b).list, x, mailFiles[b]) => Lists(longer, x, mailFiles[b])
    BY <1>2, <1>6, <1>7, <2>1, <2>2, GoodAppend DEF longer
  <2>5. QED BY <1>6, <2>3, <2>4
<1>15. ASSUME NEW c \in Boxes \ spoiled' PROVE BoxGood(c)'
  <2>1. BoxGood(c) /\ mailFiles'[c] = mailFiles[c]
    BY <1>1, <1>15 DEF MailInv
  <2>2. CASE c # b
    BY <1>10, <1>13, <2>1, <2>2, BoxStays
  <2>3. CASE c = b
    <3>1. /\ Good(longer, doing.file + 1, mailFiles[b]) /\ mailDisk[b].ref <= doing.file
          /\ Good(mailDisk[b].list, mailDisk[b].ref + 1, mailFiles[b])
      BY <1>3, <1>14, <2>1, <2>3 DEF BoxGood, NextFile
    <3>2. Current(b)' = index /\ RefNow(b)' = doing.file /\ doing.file <= doing.file
      BY <1>2, <1>3, <1>9, <1>10, <1>13
    <3>3. QED BY <1>3, <1>9, <1>10, <2>1, <2>3, <3>1, <3>2 DEF BoxGood, NextFile
  <2>4. QED BY <2>2, <2>3
<1>16. MoveGood' /\ FileGood' /\ FetchOK'
  BY <1>11 DEF MoveGood, FileGood, FetchOK
<1>17. OwedSafe'
  <2>1. SUFFICES ASSUME spoiled' = {}, NEW x \in owed'
                 PROVE  \E c \in Boxes : Lists(Current(c)'.list, x, mailFiles'[c])
    BY DEF OwedSafe, Safe
  <2>2. BoxGood(b) /\ x # NoMsg /\ x \in owed /\ spoiled = {}
    BY <1>0, <1>1, <1>3, <2>1 DEF MailInv, MailType
  <2>3. Current(b)'.list = longer
    BY <1>3, <1>9, <1>10
  <2>4. CASE doing.msg = x
    BY <1>1, <1>3, <1>14, <2>2, <2>3, <2>4
  <2>5. CASE doing.msg # x
    <3>1. PICK c \in Boxes : Lists(Current(c).list, x, mailFiles[c])
      BY <1>0, <2>2, <2>5 DEF MailInv, OwedSafe, Safe
    <3>2. QED BY <1>1, <1>10, <1>14, <2>2, <2>3, <3>1
  <2>6. QED BY <2>4, <2>5
<1>18. ServerOK'
  BY <1>1 DEF ServerOK, MailInv
<1>19. InboxOK'
  <2>1. Current("INBOX")' = Current("INBOX") /\ mailDisk'["INBOX"] = mailDisk["INBOX"]
    BY <1>3, <1>10
  <2>2. Post' = Post /\ Bound' = Bound /\ Got' = Got
    BY <1>0, <1>1, <1>11, <2>1 DEF Post, Bound, Got
  <2>3. QED BY <2>1, <2>2 DEF InboxOK, MailInv
<1>20. QED BY <1>12, <1>15, <1>16, <1>17, <1>18, <1>19 DEF MailInv

(* A move begins with the index of the other box as it is on disk.         *)
LEMMA MoveMessagesNowKeeps == ASSUME MailInv, movemessagesnow PROVE MailInv'
<1>0. MailType /\ doing.op = "idle" /\ opened # <<>>
  BY DEF MailInv, movemessagesnow, Looking, Idle
<1>1. UNCHANGED <<deletemsgs, server, mailDisk, mailFiles, temporary, opened, mailIndex, owed>>
      /\ Spend("changes", MaxChanges)
  BY DEF movemessagesnow
<1>2. PICK to \in Others :
        /\ doing' = [op |-> "move", to |-> to, index |-> mailDisk[to], first |-> TRUE]
        /\ spoiled' = IF to = Top \/ Marked(mailIndex[Top].list, "flag") = {}
                      THEN spoiled \cup {to} ELSE spoiled
  BY DEF movemessagesnow, Others
<1>3. to \in Boxes /\ mailDisk[to] \in Indexes
  BY <1>0, CurrentIs DEF Others, Boxes
<1>4. doing'.op = "move" /\ doing'.to = to /\ doing'.index = mailDisk[to] /\ doing'.first = TRUE
  BY <1>2
<1>5. doing' \in Doings
  BY <1>2, <1>3 DEF Doings
<1>6. /\ mailSpent' \in [{"mail", "written", "crashes", "changes"} -> Nat]
      /\ mailSpent'.mail = mailSpent.mail
  BY <1>0, <1>1, SpendIs
<1>7. Quiet /\ RefNow("INBOX")' = RefNow("INBOX") /\ Bound' = Bound /\ Got' = Got /\ spoiled \subseteq spoiled'
  BY <1>0, <1>1, <1>2, <1>4, <1>6 DEF Quiet, RefNow, Bound, Got, Current, IsOpen
<1>8. /\ \A b \in Boxes : Current(b)' = Current(b)
      /\ Top' = Top
      /\ \A b \in Boxes \ spoiled' : BoxGood(b)'
      /\ ServerOK' /\ InboxOK'
  BY <1>7, QuietKeeps
<1>9. MailType'
  <2>1. spoiled' \subseteq Others
    BY <1>0, <1>2 DEF MailType
  <2>2. QED BY <1>0, <1>1, <1>4, <1>5, <1>6, <2>1 DEF MailType
<1>10. MoveGood'
  <2>1. SUFFICES ASSUME to \notin spoiled'
                 PROVE  /\ to # Top' /\ mailDisk'[to].ref <= mailDisk[to].ref
                        /\ Good(mailDisk[to].list, mailDisk[to].ref + 1, mailFiles'[to])
                        /\ Within(mailDisk'[to].list, mailDisk[to].list)
                        /\ Marked(mailIndex'[Top'].list, "flag") # {}
    BY <1>4 DEF MoveGood
  <2>2. to # Top /\ to \notin spoiled /\ Marked(mailIndex[Top].list, "flag") # {}
    BY <1>2, <2>1
  <2>3. BoxGood(to) /\ mailDisk[to].ref \in Nat
    BY <1>3, <2>2, IndexIs DEF MailInv
  <2>4. Good(mailDisk[to].list, mailDisk[to].ref + 1, mailFiles[to])
    BY <1>2, <2>3 DEF BoxGood, NextFile, Others
  <2>5. Within(mailDisk[to].list, mailDisk[to].list)
    BY DEF Within
  <2>6. QED BY <1>1, <1>8, <2>2, <2>3, <2>4, <2>5
<1>11. FileGood' /\ FetchOK'
  BY <1>4 DEF FileGood, FetchOK
<1>12. OwedSafe'
  BY <1>0, <1>1, <1>2, <1>4, <1>7, <1>8 DEF OwedSafe, Safe, MailInv
<1>13. QED BY <1>8, <1>9, <1>10, <1>11, <1>12 DEF MailInv

(* A message moves: one box loses file and entry, the other gets both.     *)
LEMMA MoveOneKeeps == ASSUME MailInv, MoveOne PROVE MailInv'
<1>0. MailType /\ doing.op = "move" /\ opened # <<>> /\ Top \in Boxes
  BY CurrentIs DEF MailInv, MoveOne, MailType, Idle
<1>1. UNCHANGED <<deletemsgs, server, mailDisk, temporary, opened, mailSpent, owed, spoiled>>
  BY DEF MoveOne
<1>2. PICK to \in Others, J \in Indexes : to = doing.to /\ J = doing.index
  BY <1>0, DoingIs, SMTT(40) DEF MailType
<1> DEFINE T == Top
           f == J.ref + 1
<1>3. PICK i \in DOMAIN mailIndex[T].list :
        LET m == ReadFile(mailFiles[T], mailIndex[T].list[i].file)
            fewer == [mailFiles EXCEPT ![T] = Erase(@, mailIndex[T].list[i].file)]
        IN  /\ mailFiles' = IF m = NoMsg THEN mailFiles ELSE [fewer EXCEPT ![to] = Put(@, f, m)]
            /\ doing' = [doing EXCEPT !.first = FALSE, !.index.ref = f,
                            !.index.list = Append(@, Entry(f, m, mailIndex[T].list[i].kind))]
            /\ mailIndex' = [mailIndex EXCEPT ![T].list = RemoveAt(@, i)]
  BY <1>2 DEF MoveOne, Marked
<1> DEFINE e == mailIndex[T].list[i]
           m == ReadFile(mailFiles[T], e.file)
           moved == Entry(f, m, e.kind)
           longer == Append(J.list, moved)
           index == [J EXCEPT !.ref = f, !.list = longer]
<1>4. to \in Boxes /\ to # "INBOX" /\ J.ref \in Nat /\ J.list \in Seq(Entries) /\ f \in Nat
      /\ mailDisk[to] \in Indexes /\ mailDisk[to].ref \in Nat /\ mailDisk[to].list \in Seq(Entries)
  BY <1>0, <1>2, CurrentIs, IndexIs DEF Others, Boxes
<1>5. m \in Nat /\ NoMsg \in Nat
  BY <1>0, ReadIsNat DEF NoMsg
<1>6. e \in Entries
  <2>1. mailIndex[T].list \in Seq(Entries)
    BY <1>0, CurrentIs, IndexIs
  <2>2. QED BY <2>1, EntriesOf
<1>7. doing' = [doing EXCEPT !.first = FALSE, !.index = index]
  BY <1>2, <1>3
<1> HIDE DEF f
<1>8. moved \in Entries /\ moved.file = f /\ moved.msg = m
  BY <1>4, <1>5, <1>6 DEF Entry, Entries
<1> HIDE DEF moved, m
<1>9. longer \in Seq(Entries)
  BY <1>4, <1>8, AppendProperties
<1>10. index \in Indexes /\ index.ref = f /\ index.list = longer
  BY <1>2, <1>4, <1>9 DEF Indexes
<1> HIDE DEF longer, index
<1>11. doing'.op = "move" /\ doing'.to = to /\ doing'.index = index /\ doing'.first = FALSE /\ doing' \in Doings
  <2>1. doing \in [op : {"move"}, to : Others, index : Indexes, first : BOOLEAN]
    BY <1>0, DoingIs, SMTT(40) DEF MailType
  <2>2. QED BY <1>2, <1>7, <1>10, <2>1 DEF Doings
<1>12. /\ mailIndex' \in [Boxes -> Indexes] /\ ServerOK' /\ InboxOK'
       /\ \A b \in Boxes : b # T => Current(b)' = Current(b) /\ RefNow(b)' = RefNow(b)
       /\ \A b \in Boxes \ spoiled' : OnlyFile(b, e.file) => BoxGood(b)'
       /\ \A b \in Boxes \ spoiled : \A x :
            OnlyFile(b, e.file) /\ Lists(Current(b).list, x, mailFiles[b]) =>
              \/ e.msg = x /\ ReadFile(mailFiles[T], e.file) = x
              \/ Lists(Current(b)'.list, x, mailFiles'[b])
  BY <1>0, <1>1, <1>3, <1>11, EntryTaken
<1>13. /\ DOMAIN mailFiles' = Boxes
       /\ \A b \in Boxes : b # to => OnlyFile(b, e.file)
       /\ to # T => mailFiles'[to] = IF m = NoMsg THEN mailFiles[to] ELSE Put(mailFiles[to], f, m)
       /\ \A b \in Boxes : \A g \in DOMAIN mailFiles'[b] : mailFiles'[b][g] \in Nat
  <2>1. DOMAIN mailFiles = Boxes /\ \A b \in Boxes : \A g \in DOMAIN mailFiles[b] : mailFiles[b][g] \in Nat
    BY <1>0 DEF MailType
  <2>2. CASE m = NoMsg
    <3>1. mailFiles' = mailFiles
      BY <1>3, <2>2 DEF m
    <3>2. QED BY <2>1, <2>2, <3>1 DEF OnlyFile
  <2>3. CASE m # NoMsg
    <3> DEFINE less == Erase(mailFiles[T], e.file)
               fewer == [mailFiles EXCEPT ![T] = less]
    <3>1. mailFiles' = [fewer EXCEPT ![to] = Put(fewer[to], f, m)]
      BY <1>3, <2>3 DEF m, f
    <3>2. \A g \in DOMAIN less : less[g] \in Nat
      <4>1. \A g \in DOMAIN less : g \in DOMAIN mailFiles[T] /\ less[g] = mailFiles[T][g]
        BY DEF Erase, Restrict
      <4>2. QED BY <1>0, <2>1, <4>1
    <3> HIDE DEF less
    <3>3. DOMAIN fewer = Boxes /\ \A b \in Boxes : fewer[b] = IF b = T THEN less ELSE mailFiles[b]
      BY <2>1
    <3> HIDE DEF fewer
    <3>4. DOMAIN mailFiles' = Boxes /\ \A b \in Boxes : mailFiles'[b] = IF b = to THEN Put(fewer[to], f, m) ELSE fewer[b]
      BY <3>1, <3>3
    <3>5. \A b \in Boxes : \A g \in DOMAIN fewer[b] : fewer[b][g] \in Nat
      BY <2>1, <3>2, <3>3
    <3>6. ASSUME NEW b \in Boxes, NEW g \in DOMAIN mailFiles'[b] PROVE mailFiles'[b][g] \in Nat
      <4>1. CASE b = to
        <5>1. g \in DOMAIN fewer[to] \cup {f} /\ mailFiles'[b][g] = IF g = f THEN m ELSE fewer[to][g]
          BY <3>4, <3>6, <4>1 DEF Put
        <5>2. QED BY <1>4, <1>5, <3>5, <5>1
      <4>2. CASE b # to
        BY <3>4, <3>5, <3>6, <4>2
      <4>3. QED BY <4>1, <4>2
    <3>7. to # T => mailFiles'[to] = Put(mailFiles[to], f, m)
      BY <1>4, <3>3, <3>4
    <3>8. ASSUME NEW b \in Boxes, b # to PROVE OnlyFile(b, e.file)
      BY <3>3, <3>4, <3>8 DEF OnlyFile, less
    <3>9. QED BY <2>3, <3>4, <3>6, <3>7, <3>8
  <2>4. QED BY <2>2, <2>3
<1>14. MailType'
  BY <1>0, <1>1, <1>11, <1>12, <1>13 DEF MailType
<1>15. ASSUME to \notin spoiled
       PROVE  /\ to # T /\ mailDisk[to].ref <= J.ref /\ Current(to) = mailDisk[to]
              /\ Good(mailDisk[to].list, mailDisk[to].ref + 1, mailFiles'[to])
              /\ Good(J.list, f, mailFiles'[to])
              /\ m # NoMsg => ReadFile(mailFiles'[to], f) = m
              /\ \A x : Lists(J.list, x, mailFiles[to]) => Lists(J.list, x, mailFiles'[to])
              /\ \A x : Lists(mailDisk[to].list, x, mailFiles[to]) => Lists(mailDisk[to].list, x, mailFiles'[to])
  <2>1. /\ to # T /\ mailDisk[to].ref <= J.ref /\ Good(J.list, f, mailFiles[to])
    BY <1>0, <1>2, <1>15 DEF MoveGood, MailInv, f
  <2>2. Current(to) = mailDisk[to]
    BY <1>0, <1>2, <2>1, CurrentIs
  <2>3. Good(mailDisk[to].list, mailDisk[to].ref + 1, mailFiles[to])
    BY <1>4, <1>15 DEF BoxGood, NextFile, MailInv
  <2>4. mailDisk[to].ref + 1 <= f /\ mailDisk[to].ref + 1 \in Nat /\ f <= f
    BY <1>4, <2>1 DEF f
  <2>5. CASE m = NoMsg
    BY <1>13, <2>1, <2>2, <2>3, <2>5
  <2>6. CASE m # NoMsg
    <3>1. mailFiles'[to] = Put(mailFiles[to], f, m)
      BY <1>13, <2>1, <2>6
    <3>2. /\ Good(mailDisk[to].list, mailDisk[to].ref + 1, Put(mailFiles[to], f, m))
          /\ \A x : Lists(mailDisk[to].list, x, mailFiles[to]) => Lists(mailDisk[to].list, x, Put(mailFiles[to], f, m))
      BY <1>4, <2>3, <2>4, GoodPut
    <3>3. /\ Good(J.list, f, Put(mailFiles[to], f, m))
          /\ \A x : Lists(J.list, x, mailFiles[to]) => Lists(J.list, x, Put(mailFiles[to], f, m))
      BY <1>4, <2>1, <2>4, GoodPut
    <3>4. ReadFile(Put(mailFiles[to], f, m), f) = m
      BY ReadPut
    <3>5. QED BY <2>1, <2>2, <3>1, <3>2, <3>3, <3>4
  <2>7. QED BY <2>5, <2>6
<1>16. ASSUME to \notin spoiled
       PROVE  /\ Good(longer, f + 1, mailFiles'[to])
              /\ m # NoMsg => Lists(longer, m, mailFiles'[to])
              /\ \A x : Lists(J.list, x, mailFiles[to]) => Lists(longer, x, mailFiles'[to])
  <2>1. /\ Good(J.list, f, mailFiles'[to]) /\ (m # NoMsg => ReadFile(mailFiles'[to], f) = m)
        /\ \A x : Lists(J.list, x, mailFiles[to]) => Lists(J.list, x, mailFiles'[to])
    BY <1>15, <1>16
  <2>2. /\ Good(longer, f + 1, mailFiles'[to])
        /\ moved.msg # NoMsg => Lists(longer, moved.msg, mailFiles'[to])
        /\ \A x : Lists(J.list, x, mailFiles'[to]) => Lists(longer, x, mailFiles'[to])
    BY <1>4, <1>8, <2>1, GoodAppend DEF longer
  <2>3. QED BY <1>8, <2>1, <2>2
<1>17. ASSUME NEW b \in Boxes \ spoiled' PROVE BoxGood(b)'
  <2>1. CASE b # to
    BY <1>12, <1>13, <1>17, <2>1
  <2>2. CASE b = to
    <3>1. to \notin spoiled /\ BoxGood(to) /\ mailDisk'[to] = mailDisk[to]
      BY <1>1, <1>4, <1>17, <2>2 DEF MailInv
    <3>2. /\ to # T /\ Current(to) = mailDisk[to]
          /\ Good(mailDisk[to].list, mailDisk[to].ref + 1, mailFiles'[to])
      BY <1>15, <3>1
    <3>3. Current(to)' = mailDisk[to] /\ RefNow(to)' = mailDisk[to].ref
      BY <1>4, <1>12, <3>2 DEF RefNow
    <3>4. mailDisk[to].ref <= mailDisk[to].ref
      BY <1>4
    <3>5. QED BY <1>4, <2>2, <3>1, <3>2, <3>3, <3>4 DEF BoxGood, NextFile
  <2>3. QED BY <2>1, <2>2
<1>18. MoveGood'
  <2>1. Top' = T /\ spoiled' = spoiled /\ mailDisk' = mailDisk
    BY <1>1 DEF Top
  <2>2. ASSUME to \notin spoiled
        PROVE  /\ to # T /\ mailDisk[to].ref <= f /\ Good(longer, f + 1, mailFiles'[to])
               /\ Within(mailDisk[to].list, longer)
    <3>1. Within(mailDisk[to].list, J.list)
      BY <1>0, <1>2, <2>2 DEF MoveGood, MailInv
    <3>2. Within(mailDisk[to].list, longer)
      BY <1>4, <1>8, <3>1, WithinAppend DEF longer
    <3>3. QED BY <1>4, <1>15, <1>16, <2>2, <3>2 DEF f
  <2>3. QED BY <1>10, <1>11, <2>1, <2>2 DEF MoveGood
<1>19. FileGood' /\ FetchOK'
  BY <1>11 DEF FileGood, FetchOK
<1>20. OwedSafe'
  <2>1. ASSUME spoiled' = {}, NEW x \in owed' PROVE Safe(x)'
    <3>1. to \notin spoiled /\ spoiled = {} /\ x \in owed /\ x # NoMsg
      BY <1>0, <1>1, <2>1 DEF MailType
    <3>2. CASE Lists(longer, x, mailFiles'[to])
      BY <1>10, <1>11, <3>2 DEF Safe
    <3>3. CASE Lists(J.list, x, mailFiles[to])
      BY <1>16, <3>1, <3>2, <3>3
    <3>4. CASE \E b \in Boxes : Lists(Current(b).list, x, mailFiles[b])
      <4>1. PICK b \in Boxes : Lists(Current(b).list, x, mailFiles[b])
        BY <3>4
      <4>2. CASE b = to
        <5>1. Lists(mailDisk[to].list, x, mailFiles'[to]) /\ Current(to)' = mailDisk[to]
          BY <1>4, <1>12, <1>15, <3>1, <4>1, <4>2
        <5>2. Lists(Current(to)'.list, x, mailFiles'[to])
          BY <5>1
        <5>3. QED BY <1>4, <5>2 DEF Safe
      <4>3. CASE b # to
        <5>1. \/ e.msg = x /\ ReadFile(mailFiles[T], e.file) = x
              \/ Lists(Current(b)'.list, x, mailFiles'[b])
          BY <1>12, <1>13, <3>1, <4>1, <4>3
        <5>2. CASE e.msg = x /\ ReadFile(mailFiles[T], e.file) = x
          <6>1. m = x
            BY <5>2 DEF m
          <6>2. QED BY <1>16, <3>1, <3>2, <6>1
        <5>3. CASE Lists(Current(b)'.list, x, mailFiles'[b])
          BY <5>3 DEF Safe
        <5>4. QED BY <5>1, <5>2, <5>3
      <4>4. QED BY <4>2, <4>3
    <3>5. Safe(x)
      BY <3>1 DEF MailInv, OwedSafe
    <3>6. QED BY <1>0, <1>2, <3>3, <3>4, <3>5 DEF Safe
  <2>2. QED BY <2>1 DEF OwedSafe
<1>21. QED BY <1>12, <1>14, <1>17, <1>18, <1>19, <1>20 DEF MailInv

(* The other box first gets the index that lists what moved into it.       *)
LEMMA MoveSavedKeeps == ASSUME MailInv, MoveSaved PROVE MailInv'
<1>0. MailType /\ doing.op \in {"move", "movesave"} /\ opened # <<>> /\ "INBOX" \in Boxes
  BY DEF MailInv, MoveSaved, Moved, MailType, Idle, Boxes
<1>1. UNCHANGED <<deletemsgs, server, mailFiles, temporary, opened, mailIndex, mailSpent, owed, spoiled>>
  BY DEF MoveSaved
<1>2. doing' \in Doings /\ doing'.op \in {"idle", "movesave"}
  BY DEF MoveSaved, Doings, Idle
<1>3. \A b : IsOpen(b)' = IsOpen(b)
  BY <1>1 DEF IsOpen
<1>4. /\ Top \in Boxes /\ Current(Top) = mailIndex[Top] /\ Current("INBOX") = mailIndex["INBOX"]
      /\ IsOpen("INBOX") /\ IsOpen(Top)
      /\ \A b \in Boxes : Current(b) \in Indexes /\ mailDisk[b] \in Indexes /\ mailIndex[b] \in Indexes
  BY <1>0, CurrentIs, OpenIs DEF MailType
<1>5. MoveGood' /\ FileGood' /\ FetchOK'
  BY <1>2 DEF MoveGood, FileGood, FetchOK
<1>6. ServerOK'
  BY <1>1 DEF ServerOK, MailInv
<1>7. Post' = Post /\ Top' = Top
  BY <1>1 DEF Post, Top
<1>8. CASE doing.op = "move"
  <2>1. PICK to \in Others, J \in Indexes : to = doing.to /\ J = doing.index
    BY <1>0, <1>8, DoingIs DEF MailType
  <2>2. PICK ref \in IF doing.first THEN {0, J.ref} ELSE {J.ref} :
          mailDisk' = [mailDisk EXCEPT ![to] = [J EXCEPT !.ref = ref]]
    BY <1>8, <2>1 DEF MoveSaved
  <2> DEFINE saved == [J EXCEPT !.ref = ref]
  <2>3. to \in Boxes /\ to # "INBOX" /\ J.ref \in Nat /\ J.list \in Seq(Entries) /\ ref \in Nat
    BY <2>1, <2>2, IndexIs DEF Others, Boxes
  <2>4. saved \in Indexes /\ saved.ref = ref /\ saved.list = J.list
    BY <2>1, <2>3 DEF Indexes
  <2> HIDE DEF saved
  <2>5. mailDisk' = [mailDisk EXCEPT ![to] = saved]
    BY <2>2 DEF saved
  <2>6. mailDisk' \in [Boxes -> Indexes] /\ mailDisk'[to] = saved /\ \A b \in Boxes : b # to => mailDisk'[b] = mailDisk[b]
    BY <1>0, <2>3, <2>4, <2>5 DEF MailType
  <2>7. MailType'
    BY <1>0, <1>1, <1>2, <1>7, <2>6 DEF MailType
  <2>8. \A b \in Boxes : b # to => Current(b)' = Current(b)
    BY <1>1, <1>3, <2>6 DEF Current
  <2>9. \A b \in Boxes : RefNow(b) = Current(b).ref /\ RefNow(b)' = Current(b)'.ref
    BY <1>2, <1>8 DEF RefNow
  <2>10. ASSUME to \notin spoiled
         PROVE  /\ Current(to)' = saved /\ Current(to) = mailDisk[to] /\ ref = J.ref
                /\ Good(J.list, ref + 1, mailFiles[to]) /\ Within(mailDisk[to].list, J.list)
    <3>1. /\ to # Top /\ Good(J.list, J.ref + 1, mailFiles[to]) /\ Within(mailDisk[to].list, J.list)
          /\ doing.first => Marked(mailIndex[Top].list, "flag") # {}
      BY <1>8, <2>1, <2>10 DEF MoveGood, MailInv
    <3>2. Marked(mailIndex[Top].list, "flag") = {}
      BY <1>8 DEF MoveSaved, Moved
    <3>3. ref = J.ref
      BY <2>2, <3>1, <3>2
    <3>4. ~IsOpen(to)
      BY <1>0, <2>1, <3>1, OpenIs DEF MailType
    <3>5. QED BY <1>3, <2>6, <3>1, <3>3, <3>4 DEF Current
  <2>11. ASSUME NEW b \in Boxes \ spoiled' PROVE BoxGood(b)'
    <3>1. BoxGood(b) /\ mailFiles'[b] = mailFiles[b]
      BY <1>1, <2>11 DEF MailInv
    <3>2. CASE b # to
      <4>1. RefNow(b)' = RefNow(b)
        BY <2>8, <2>9, <3>2
      <4>2. QED BY <2>6, <2>8, <3>1, <3>2, <4>1, BoxStays
    <3>3. CASE b = to
      <4>1. Current(to)' = saved /\ Good(J.list, ref + 1, mailFiles[to])
        BY <1>1, <2>10, <2>11, <3>3
      <4>2. RefNow(to)' = ref /\ ref <= ref
        BY <2>3, <2>4, <2>9, <4>1
      <4>3. QED BY <2>3, <2>4, <2>6, <3>1, <3>3, <4>1, <4>2 DEF BoxGood, NextFile
    <3>4. QED BY <3>2, <3>3
  <2>12. OwedSafe'
    <3>1. SUFFICES ASSUME spoiled' = {}, NEW x \in owed'
                   PROVE  \E b \in Boxes : Lists(Current(b)'.list, x, mailFiles'[b])
      BY DEF OwedSafe, Safe
    <3>2. to \notin spoiled
      BY <1>1, <3>1
    <3>3. CASE Lists(J.list, x, mailFiles[to])
      BY <1>1, <2>3, <2>4, <2>10, <3>2, <3>3
    <3>4. CASE \E b \in Boxes : Lists(Current(b).list, x, mailFiles[b])
      <4>1. PICK b \in Boxes : Lists(Current(b).list, x, mailFiles[b])
        BY <3>4
      <4>2. CASE b # to
        BY <1>1, <2>8, <4>1, <4>2
      <4>3. CASE b = to
        <5>1. Lists(J.list, x, mailFiles[to])
          BY <2>10, <3>2, <4>1, <4>3, WithinLists
        <5>2. QED BY <3>3, <5>1
      <4>4. QED BY <4>2, <4>3
    <3>5. Safe(x)
      BY <1>1, <3>1 DEF MailInv, OwedSafe
    <3>6. QED BY <1>8, <2>1, <3>3, <3>4, <3>5 DEF Safe
  <2>13. InboxOK'
    <3>1. Current("INBOX")' = Current("INBOX") /\ mailDisk'["INBOX"] = mailDisk["INBOX"]
      BY <1>0, <2>3, <2>6, <2>8
    <3>2. Bound' = Bound /\ Got' = Got
      BY <1>2, <1>8, <3>1 DEF Bound, Got
    <3>3. QED BY <1>7, <3>1, <3>2 DEF InboxOK, MailInv
  <2>14. QED BY <1>5, <1>6, <2>7, <2>11, <2>12, <2>13 DEF MailInv
<1>9. CASE doing.op = "movesave"
  <2> DEFINE T == Top
  <2>1. mailDisk' = [mailDisk EXCEPT ![T] = mailIndex[T]]
    BY <1>9 DEF MoveSaved, Moved
  <2>2. mailDisk' \in [Boxes -> Indexes] /\ \A b \in Boxes : mailDisk'[b] = IF b = T THEN Current(b) ELSE mailDisk[b]
    BY <1>0, <1>4, <2>1 DEF MailType
  <2>3. \A b \in Boxes : Current(b)' = Current(b)
    BY <1>1, <1>3, <1>4, <2>2 DEF Current
  <2>4. \A b \in Boxes : RefNow(b) = Current(b).ref /\ RefNow(b)' = Current(b).ref
    BY <1>2, <1>9, <2>3 DEF RefNow
  <2>5. MailType'
    BY <1>0, <1>1, <1>2, <1>7, <2>2 DEF MailType
  <2>6. ASSUME NEW b \in Boxes \ spoiled' PROVE BoxGood(b)'
    <3>1. BoxGood(b) /\ mailFiles'[b] = mailFiles[b] /\ Current(b)' = Current(b)
          /\ RefNow(b)' = Current(b).ref /\ RefNow(b) = Current(b).ref
      BY <1>1, <2>3, <2>4, <2>6 DEF MailInv
    <3>2. CASE b # T
      BY <2>2, <3>1, <3>2, BoxStays
    <3>3. CASE b = T
      <4>1. mailDisk'[b] = Current(b) /\ Current(b).ref <= Current(b).ref
        BY <1>4, <2>2, <3>3, IndexIs
      <4>2. Good(Current(b).list, NextFile(b, Current(b).ref), mailFiles[b])
        BY <3>1 DEF BoxGood
      <4>3. QED BY <3>1, <4>1, <4>2 DEF BoxGood
    <3>4. QED BY <3>2, <3>3
  <2>7. OwedSafe'
    BY <1>1, <1>9, <2>3 DEF OwedSafe, Safe, MailInv
  <2>8. InboxOK'
    <3>1. Bound = Current("INBOX").first /\ Bound' = Current("INBOX").first /\ Got = {} /\ Got' = {}
      BY <1>0, <1>2, <1>9, <2>3 DEF Bound, Got
    <3>2. /\ Current("INBOX").first = mailDisk["INBOX"].first
          /\ Asked(mailDisk["INBOX"].list, mailDisk["INBOX"].first, {}, Post)
          /\ Asked(Current("INBOX").list, Current("INBOX").first, {}, Post)
      BY <3>1 DEF InboxOK, MailInv
    <3>3. mailDisk'["INBOX"] \in {Current("INBOX"), mailDisk["INBOX"]}
      BY <1>0, <2>2
    <3>4. QED BY <1>0, <1>7, <2>3, <3>1, <3>2, <3>3 DEF InboxOK
  <2>9. QED BY <1>5, <1>6, <2>5, <2>6, <2>7, <2>8 DEF MailInv
<1>10. QED BY <1>0, <1>8, <1>9

(* What is on disk is as good as what was in memory.                       *)
LEMMA CrashKeeps == ASSUME MailInv, Crash PROVE MailInv'
<1>0. MailType /\ "INBOX" \in Boxes
  BY DEF MailInv, Boxes
<1>1. /\ UNCHANGED <<deletemsgs, server, mailDisk, mailFiles, temporary, spoiled>>
      /\ Spend("crashes", MaxCrashes)
      /\ opened' = <<>> /\ doing' = Idle /\ mailIndex' = [b \in Boxes |-> NewIndex]
      /\ owed' = {m \in owed : OnDisk(m)}
  BY DEF Crash
<1>2. doing'.op = "idle" /\ doing' \in Doings
  BY <1>1 DEF Idle, Doings
<1>3. /\ mailSpent' \in [{"mail", "written", "crashes", "changes"} -> Nat]
      /\ mailSpent'.mail = mailSpent.mail
  BY <1>0, <1>1, SpendIs
<1>4. \A b \in Boxes : Current(b)' = mailDisk[b] /\ RefNow(b)' = mailDisk[b].ref
  BY <1>1, <1>2 DEF Current, IsOpen, RefNow
<1>5. \A b \in Boxes : mailDisk[b] \in Indexes /\ mailDisk[b].ref \in Nat /\ mailDisk[b].list \in Seq(Entries)
  BY <1>0, CurrentIs, IndexIs
<1>6. MailType'
  <2>1. mailIndex' \in [Boxes -> Indexes]
    <3>1. <<>> \in Seq(Entries)
      OBVIOUS
    <3>2. NewIndex \in Indexes
      BY <3>1 DEF NewIndex, Indexes
    <3>3. QED BY <1>1, <3>2
  <2>2. opened' \in Opens /\ owed' \subseteq Nat \ {NoMsg}
    BY <1>0, <1>1 DEF MailType, Opens
  <2>3. QED BY <1>0, <1>1, <1>2, <1>3, <2>1, <2>2 DEF MailType
<1>7. ASSUME NEW b \in Boxes \ spoiled' PROVE BoxGood(b)'
  <2>1. BoxGood(b) /\ mailDisk'[b] = mailDisk[b] /\ mailFiles'[b] = mailFiles[b] /\ mailDisk[b].ref <= mailDisk[b].ref
    BY <1>1, <1>5, <1>7 DEF MailInv
  <2>2. QED BY <1>4, <2>1 DEF BoxGood
<1>8. MoveGood' /\ FileGood' /\ FetchOK'
  BY <1>2 DEF MoveGood, FileGood, FetchOK
<1>9. OwedSafe'
  <2>1. SUFFICES ASSUME NEW x \in owed'
                 PROVE  \E b \in Boxes : Lists(Current(b)'.list, x, mailFiles'[b])
    BY DEF OwedSafe, Safe
  <2>2. PICK b \in Boxes : \E e \in ToSet(mailDisk[b].list) : e.msg = x /\ ReadFile(mailFiles[b], e.file) = x
    BY <1>1, <2>1 DEF OnDisk
  <2>3. Lists(mailDisk[b].list, x, mailFiles[b])
    BY <1>5, <2>2, EntriesOf DEF Lists
  <2>4. QED BY <1>1, <1>4, <2>3
<1>10. ServerOK'
  BY <1>1, <1>3 DEF ServerOK, MailInv
<1>11. InboxOK'
  <2>1. Post' = Post /\ Bound' = mailDisk["INBOX"].first /\ Got' = {} /\ Current("INBOX")' = mailDisk["INBOX"]
    BY <1>0, <1>1, <1>2, <1>3, <1>4 DEF Post, Bound, Got
  <2>2. QED BY <1>1, <2>1 DEF InboxOK, MailInv
<1>12. QED BY <1>6, <1>7, <1>8, <1>9, <1>10, <1>11 DEF MailInv

(* Nothing is there at first.                                              *)
LEMMA MailInitInv == ASSUME MailInit PROVE MailInv
<1>1. <<>> \in Seq(Entries) /\ <<>> \in Seq(Nat) /\ Len(<<>>) = 0
  OBVIOUS
<1>2. NewIndex \in Indexes /\ NewIndex.list = <<>> /\ NewIndex.ref = 0 /\ NewIndex.first = 1
  BY <1>1 DEF NewIndex, Indexes
<1>3. doing.op = "idle" /\ doing = Idle /\ doing \in Doings /\ "INBOX" \in Boxes
  BY DEF MailInit, Idle, Doings, Boxes
<1>4. \A b \in Boxes : mailDisk[b] = NewIndex /\ Current(b) = NewIndex /\ RefNow(b) = 0
  BY <1>2, <1>3 DEF MailInit, Current, RefNow
<1>5. MailType
  <2>1. mailDisk \in [Boxes -> Indexes] /\ mailIndex \in [Boxes -> Indexes]
    BY <1>2 DEF MailInit
  <2>2. DOMAIN mailFiles = Boxes /\ \A b \in Boxes : \A f \in DOMAIN mailFiles[b] : mailFiles[b][f] \in Nat
    <3>1. mailFiles = [b \in Boxes |-> <<>>] /\ DOMAIN <<>> = {}
      BY DEF MailInit
    <3>2. QED BY <3>1
  <2>3. mailSpent \in [{"mail", "written", "crashes", "changes"} -> Nat]
    BY DEF MailInit
  <2>4. deletemsgs \in BOOLEAN /\ server \in Seq(Nat) /\ temporary \in Nat /\ opened \in Opens
        /\ owed \subseteq Nat \ {NoMsg} /\ spoiled \subseteq Others
    BY <1>1 DEF MailInit, NoMsg, Opens
  <2>5. QED BY <1>3, <2>1, <2>2, <2>3, <2>4 DEF MailType
<1>6. \A n, fs : Good(<<>>, n, fs)
  BY <1>1 DEF Good
<1>7. \A b \in Boxes : BoxGood(b)
  BY <1>2, <1>4, <1>6 DEF BoxGood
<1>8. MoveGood /\ FileGood /\ FetchOK /\ OwedSafe
  BY <1>3 DEF MoveGood, FileGood, FetchOK, OwedSafe, MailInit
<1>9. ServerOK
  <2>1. DOMAIN <<>> = {} /\ On(<<>>) = {}
    BY DEF On, ToSet
  <2>2. QED BY <2>1 DEF ServerOK, Distinct, MailInit
<1>10. InboxOK
  <2>1. Bound = 1 /\ Got = {}
    BY <1>2, <1>3, <1>4 DEF Bound, Got
  <2>2. \A bound, got, post : Asked(<<>>, bound, got, post)
    BY <1>1 DEF Asked, Once
  <2>3. QED BY <1>2, <1>3, <1>4, <2>1, <2>2 DEF InboxOK
<1>11. QED BY <1>5, <1>7, <1>8, <1>9, <1>10 DEF MailInv

(* And nothing happens while nobody steps.                                 *)
LEMMA MailStutters == ASSUME MailInv, UNCHANGED mailVars PROVE MailInv'
<1>1. UNCHANGED <<deletemsgs, server, mailDisk, mailFiles, temporary, opened, mailIndex, doing, mailSpent, owed, spoiled>>
  BY DEF mailVars
<1>2. Quiet /\ RefNow("INBOX")' = RefNow("INBOX") /\ Bound' = Bound /\ Got' = Got
  BY <1>1 DEF Quiet, RefNow, Bound, Got, Current, IsOpen
<1>3. /\ \A b \in Boxes : Current(b)' = Current(b)
      /\ Top' = Top
      /\ \A b \in Boxes \ spoiled' : BoxGood(b)'
      /\ ServerOK' /\ InboxOK'
  BY <1>1, <1>2, QuietKeeps
<1>4. MailType' /\ "INBOX" \in Boxes
  BY <1>1, <1>3 DEF MailType, MailInv, Boxes
<1>5. MoveGood'
  BY <1>1, <1>3 DEF MoveGood, MailInv
<1>6. FileGood'
  <2>1. doing.op = "file" => doing.to \in Boxes
    BY DoingIs DEF MailInv, MailType, Others, Boxes
  <2>2. QED BY <1>1, <1>3, <2>1 DEF FileGood, MailInv
<1>7. FetchOK'
  BY <1>1, <1>3, <1>4 DEF FetchOK, MailInv
<1>8. OwedSafe'
  BY <1>1, <1>3 DEF OwedSafe, Safe, MailInv
<1>9. QED BY <1>3, <1>4, <1>5, <1>6, <1>7, <1>8 DEF MailInv

(* The invariant of the mailboxes: every numbered file is reached from at  *)
(* most one entry of a box, every number that may still be given out is    *)
(* above those in use, and what is owed can be found also in the middle of *)
(* fetching, filing and moving (start.c, all operations on an index).      *)
THEOREM MailBoxesInvariant == MailSpec => []MailInv
<1>1. ASSUME MailInv, MailNext PROVE MailInv'
  BY <1>1, OpenMailboxKeeps, ExpungeKeeps, ExpungeMailboxKeeps, CloseMailboxKeeps, MarkKeeps,
     MailArrivesKeeps, FetchBeginsKeeps, GetNewMailKeeps, TerminateConnectionKeeps,
     NumbersSavedKeeps, ComposeNewKeeps, OpenMessageKeeps, ComposeKeeps, EntryMadeKeeps,
     AbandonKeeps, MoveMessagesNowKeeps, MoveOneKeeps, MoveSavedKeeps, CrashKeeps
     DEF MailNext
<1>2. MailInv /\ [MailNext]_mailVars => MailInv'
  BY <1>1, MailStutters
<1>3. MailInit => MailInv
  BY MailInitInv
<1>4. QED BY <1>2, <1>3, PTL DEF MailSpec

(* Whatever the user does in whatever order, and whenever the machine      *)
(* stops: no entry names a file with another message in it, the INBOX has  *)
(* no message twice, and until a move overwrites an index every message    *)
(* that the server deleted, and every one that was sent or saved, is       *)
(* listed with its file or is being edited (expungemailbox, getnewmail,    *)
(* savetosent, savetodrafts, movemessagesnow).                             *)
THEOREM MailIsKept == MailSpec => []MailKept
<1>1. ASSUME MailInv PROVE MailKept
  <2>0. MailType
    BY <1>1 DEF MailInv
  <2>1. \A b \in Boxes : mailDisk[b].list \in Seq(Entries) /\ Current(b).list \in Seq(Entries)
    BY <2>0, CurrentIs, IndexIs
  <2>2. "INBOX" \in Boxes
    BY DEF Boxes
  <2>3. OwnFiles
    <3>1. SUFFICES ASSUME NEW b \in Boxes \ spoiled,
                          NEW e \in ToSet(mailDisk[b].list) \cup ToSet(Current(b).list), e.msg # NoMsg
                   PROVE  ReadFile(mailFiles[b], e.file) \in {e.msg, NoMsg}
      BY DEF OwnFiles
    <3>2. PICK list \in Seq(Entries) : list \in {mailDisk[b].list, Current(b).list} /\ e \in ToSet(list)
      BY <2>1, <3>1
    <3>3. PICK n : Good(list, n, mailFiles[b])
      BY <1>1, <3>1, <3>2 DEF MailInv, BoxGood
    <3>4. PICK i \in 1..Len(list) : list[i] = e
      BY <3>2, EntriesOf
    <3>5. QED BY <3>1, <3>3, <3>4 DEF Good
  <2>4. FetchedOnce
    <3>1. Once(mailDisk["INBOX"].list) /\ Once(Current("INBOX").list)
      BY <1>1 DEF MailInv, InboxOK, Asked
    <3>2. ASSUME NEW list \in Seq(Entries), Once(list), NEW i \in DOMAIN list, NEW j \in DOMAIN list,
                 list[i].msg = list[j].msg
          PROVE  i = j
      BY <3>2, EntriesOf DEF Once
    <3>3. QED BY <2>1, <2>2, <3>1, <3>2 DEF FetchedOnce
  <2>5. ASSUME spoiled = {}, doing.op \in {"idle", "compose"}, NEW m \in owed
        PROVE  \/ doing.op = "compose" /\ temporary = m
               \/ \E b \in Boxes : \E e \in ToSet(Current(b).list) :
                     e.msg = m /\ ReadFile(mailFiles[b], e.file) = m
    <3>1. \/ doing.op = "compose" /\ temporary = m
          \/ \E b \in Boxes : Lists(Current(b).list, m, mailFiles[b])
      BY <1>1, <2>5 DEF MailInv, OwedSafe, Safe
    <3>2. ASSUME NEW b \in Boxes, Lists(Current(b).list, m, mailFiles[b])
          PROVE  \E e \in ToSet(Current(b).list) : e.msg = m /\ ReadFile(mailFiles[b], e.file) = m
      BY <2>1, <3>2, EntriesOf DEF Lists
    <3>3. QED BY <3>1, <3>2
  <2>6. QED BY <2>3, <2>4, <2>5 DEF MailKept
<1>2. QED BY <1>1, MailBoxesInvariant, PTL

=============================================================================
