-------------------------------- MODULE WinMan --------------------------------
(***************************************************************************)
(* The window manager (src/programs/guiapps/winman.c) and the taskbar      *)
(* (src/programs/guiapps/taskbar.c), two programs of several threads that  *)
(* send each other messages and wait for the answers, and the window       *)
(* driver, one thread that both send to and that sends to the manager when *)
(* the key for the next window is pressed.                                 *)
(*                                                                         *)
(* The module is about who waits for whom.  What a thread has yet to do is *)
(* a script: sends, and the assignments between them that matter.  Sends  *)
(* to the window driver, which it answers at once unless it waits itself,  *)
(* are one step; an open of the other program and the message sent to it   *)
(* are one, as the same thread answers both.                               *)
(***************************************************************************)
EXTENDS Naturals, SequencesExt

CONSTANTS
    Windows,       \* windows that programs may open
    Apps,          \* those with an icon on the taskbar (parentreg is -1)
    MaxWorkers,    \* threads started at once by the two listeners
    MaxEvents,     \* what the user and the programs do
    KeysAnyTime    \* whether the key may be pressed while an icon is clicked

ASSUME WinAssumption == Apps \subseteq Windows /\ MaxEvents \in Nat /\ MaxWorkers \in Nat /\ KeysAnyTime \in BOOLEAN

VARIABLES
    script,        \* script[t]: what a thread has yet to do
    asked,         \* asked[t]: its first step is a message sent and not answered
    chan,          \* chan[s]: threads whose message waits at a server's channel
    taken,       \* taken[s]: the thread whose message the server has taken
    winList,       \* windows the manager manages
    LastFoc,       \* the one in focus
    items,         \* those the taskbar has icons for
    events         \* events so far

winVars == <<script, asked, chan, taken, winList, LastFoc, items, events>>

(* The window driver; the manager's main thread and its listener; the      *)
(* taskbar's.                                                              *)
Driver == 1
Manager == 2
ManListener == 3
Taskbar == 4
BarListener == 5
Servers == 1..5
GetRunning == 6
Workers == 7..6 + MaxWorkers
WinThreads == Servers \cup {GetRunning} \cup Workers

None == 0

Send(s, code, w) == [do |-> "send", to |-> s, code |-> code, win |-> w]
Step(what, w) == [do |-> what, to |-> None, code |-> "", win |-> w]
Draw == Step("draw", None)    \* sends to the window driver
NewThread(code, w) == [do |-> "newthread", to |-> None, code |-> code, win |-> w]

IfApp(w, steps) == IF w \in Apps THEN steps ELSE <<>>

(* makecbutton and then getrunningapps, which asks for every window the     *)
(* manager has.                                                            *)
WinInit ==
    /\ script = [t \in WinThreads |->
                   IF t = GetRunning
                   THEN <<Send(Taskbar, "refresh", None), Send(ManListener, "position", None),
                          Send(ManListener, "getall", None)>>
                   ELSE <<>>]
    /\ asked = [t \in WinThreads |-> FALSE]
    /\ chan = [s \in Servers |-> <<>>]
    /\ taken = [s \in Servers |-> None]
    /\ winList = {} /\ LastFoc = None /\ items = {} /\ events = 0

-----------------------------------------------------------------------------
(* JManDoFocus *)
Focusing(w) ==
    IF w = LastFoc THEN <<>>
    ELSE IfApp(w, <<Send(BarListener, "infocus", w)>>) \o <<Draw, Step("infocus", w)>>

(* updateitem: what a thread of the taskbar does about a message.  The     *)
(* loops that look for the window's icon end when it is there; an empty    *)
(* list is not looked at.  Some of the icons passed may be in focus.       *)
updateitem(code, w) ==
    CASE code = "newitem" ->
            {<<Draw, Step("additem", w), Draw, Send(Taskbar, "refresh", None), Send(Taskbar, "setcol", w)>>}
      [] items = {} /\ code # "newitem" -> {<<>>}
      [] items # {} /\ code = "killed" ->
            {<<Step("find", w), Draw, Step("remitem", w), Send(Taskbar, "refresh", None), Draw>>}
      [] items # {} /\ code = "minimized" -> {<<Step("find", w), Send(Taskbar, "setcol", w)>>}
      [] items # {} /\ code = "infocus" ->
            {<<Step("find", w)>> \o blurred \o <<Send(Taskbar, "setcol", w)>> :
                blurred \in {<<>>} \cup {<<Send(Taskbar, "setcol", v)>> : v \in items \ {w}}}

HandlesItself(s, m) ==
    CASE s = Taskbar -> {<<Draw>>}
      [] s = BarListener -> updateitem(m.code, m.win)
      [] s = Manager -> {<<Step("focus", m.win)>>}
      [] s = ManListener /\ m.code = "infocus" -> {<<Step("focus", m.win), Send(Manager, "infocus", m.win)>>}
      [] s = ManListener /\ m.code = "nextwin" ->
            {<<>>} \cup {<<NewThread("focus", w)>> : w \in IF LastFoc = None THEN {} ELSE winList \ {LastFoc}}
      [] s = ManListener /\ m.code \in {"position", "getall"} -> {<<>>}
      [] s = ManListener /\ m.code = "getnum" -> {IfApp(m.win, <<Send(BarListener, "newitem", m.win)>>)}

(* What a server does about a message before it answers.                   *)
Handles(s, m) ==
    CASE s = Taskbar -> {<<Draw>>}
      [] s = BarListener -> {<<NewThread(m.code, m.win)>>}
      [] s = Manager -> {<<Step("focus", m.win)>>}
      [] s = ManListener /\ m.code = "infocus" -> {<<Step("focus", m.win), Send(Manager, "infocus", m.win)>>}
      [] s = ManListener /\ m.code = "nextwin" ->
            {<<>>} \cup {<<NewThread("focus", w)>> : w \in IF LastFoc = None THEN {} ELSE winList \ {LastFoc}}
      [] s = ManListener /\ m.code \in {"position", "getall"} -> {<<>>}
      [] s = ManListener /\ m.code = "getnum" ->
            {IfApp(m.win, <<Send(BarListener, "newitem", m.win)>>),
             IfApp(m.win, <<Draw, Step("focus", m.win), Send(BarListener, "newitem", m.win)>>)}

-----------------------------------------------------------------------------
First(t) == Head(script[t])
Left(t) == Tail(script[t])
Does(t, what) == script[t] # <<>> /\ ~asked[t] /\ First(t).do = what

Sends(t) ==
    /\ Does(t, "send")
    /\ asked' = [asked EXCEPT ![t] = TRUE]
    /\ chan' = [chan EXCEPT ![First(t).to] = Append(@, t)]
    /\ UNCHANGED <<script, taken, winList, LastFoc, items, events>>

Free(s) == script[s] = <<>> /\ taken[s] = None

Takes(s) ==
    /\ Free(s) /\ chan[s] # <<>>
    /\ taken' = [taken EXCEPT ![s] = Head(chan[s])]
    /\ chan' = [chan EXCEPT ![s] = Tail(@)]
    /\ \E steps \in Handles(s, First(Head(chan[s]))) : script' = [script EXCEPT ![s] = steps]
    /\ UNCHANGED <<asked, winList, LastFoc, items, events>>

(* The thread that asks for the windows asks for one after another.        *)
Replies(s) ==
    /\ taken[s] # None /\ script[s] = <<>>
    /\ LET t == taken[s] IN
       /\ asked' = [asked EXCEPT ![t] = FALSE]
       /\ script' = [script EXCEPT ![t] =
                       IF First(t).code = "getall"
                       THEN [i \in 1..Cardinality(winList) |-> Send(ManListener, "getnum", SetToSeq(winList)[i])]
                       ELSE Left(t)]
    /\ taken' = [taken EXCEPT ![s] = None]
    /\ UNCHANGED <<chan, winList, LastFoc, items, events>>

(* The steps between sends *)
Inner(t) ==
    /\ script[t] # <<>> /\ ~asked[t]
    /\ LET w == First(t).win IN
       /\ script' = [script EXCEPT ![t] = (IF Does(t, "focus") THEN Focusing(w) ELSE <<>>) \o Left(t)]
       /\ \/ /\ Does(t, "focus") \/ (Does(t, "draw") /\ script[Driver] = <<>>) \/ (Does(t, "find") /\ w \in items)
             /\ UNCHANGED <<winList, LastFoc, items>>
          \/ Does(t, "list") /\ winList' = winList \cup {w} /\ UNCHANGED <<LastFoc, items>>
          \/ Does(t, "unlist") /\ winList' = winList \ {w} /\ UNCHANGED <<LastFoc, items>>
          \/ Does(t, "infocus") /\ LastFoc' = w /\ UNCHANGED <<winList, items>>
          \/ Does(t, "forget") /\ LastFoc' = (IF LastFoc = w THEN None ELSE LastFoc) /\ UNCHANGED <<winList, items>>
          \/ Does(t, "additem") /\ items' = items \cup {w} /\ UNCHANGED <<winList, LastFoc>>
          \/ Does(t, "remitem") /\ items' = items \ {w} /\ UNCHANGED <<winList, LastFoc>>
    /\ UNCHANGED <<asked, chan, taken, events>>

(* newThread: updateitem in the taskbar, JManDoFocus in the manager.       *)
StartsThread(s) ==
    \E k \in Workers, code \in {"focus", "newitem", "killed", "minimized", "infocus"} :
       /\ Does(s, "newthread") /\ First(s).code = code
       /\ script[k] = <<>>
       /\ \E steps \in (IF code = "focus" THEN {<<Step("focus", First(s).win)>>} ELSE updateitem(code, First(s).win)) :
             script' = [script EXCEPT ![k] = steps, ![s] = Left(s)]
       /\ UNCHANGED <<asked, chan, taken, winList, LastFoc, items, events>>

-----------------------------------------------------------------------------
(* What the user and the programs do: an event for the thread that draws   *)
(* it from its queue.                                                      *)
Event(s, steps) ==
    /\ Free(s) /\ events < MaxEvents
    /\ events' = events + 1
    /\ script' = [script EXCEPT ![s] = steps]
    /\ UNCHANGED <<asked, chan, taken, winList, LastFoc, items>>

WindowOpens ==
    \E w \in Windows \ winList :
       Event(Manager, <<Draw, Step("list", w)>> \o IfApp(w, <<Send(BarListener, "newitem", w)>>)
                      \o <<Draw, Step("focus", w)>>)

WindowChosen == \E w \in winList : Event(Manager, <<Step("focus", w)>>)

WindowHides ==
    \E w \in winList :
       Event(Manager, IfApp(w, <<Send(BarListener, "minimized", w)>>) \o <<Step("forget", w), Draw>>)

WindowDeleted ==
    \E w \in winList :
       Event(Manager, IfApp(w, <<Send(BarListener, "killed", w)>>)
                      \o <<Step("forget", w), Step("unlist", w), Draw>>)

(* The key and what is asked of the manager's listener meanwhile: doNextWin *)
(* makes the window driver itself send to the listener, which answers at   *)
(* once unless it is busy with something that needs the window driver;     *)
(* then both wait for ever.                                                *)
KeyPressed == script[Driver] # <<>>
ListenerWanted == taken[ManListener] # None
                  \/ \E t \in WinThreads :
                        \E i \in DOMAIN script[t] : script[t][i].to = ManListener

(* changefocus: a click on an icon                                         *)
IconClicked ==
    /\ KeysAnyTime \/ ~KeyPressed
    /\ \E w \in items : Event(Taskbar, <<Send(ManListener, "infocus", w)>>)

NextWinKey ==
    /\ KeysAnyTime \/ ~ListenerWanted
    /\ Event(Driver, <<Send(ManListener, "nextwin", None)>>)

WinNext ==
    \/ \E t \in WinThreads : Sends(t) \/ Inner(t)
    \/ \E s \in Servers : Takes(s) \/ Replies(s) \/ StartsThread(s)
    \/ WindowOpens \/ WindowChosen \/ WindowHides \/ WindowDeleted \/ IconClicked \/ NextWinKey

WinSpec == WinInit /\ [][WinNext]_winVars

-----------------------------------------------------------------------------
(* A server that has sent waits for the one it has sent to; the window     *)
(* driver is waited for by whoever draws.                                  *)
WaitsFor(s) == IF asked[s] THEN {First(s).to} ELSE IF Does(s, "draw") THEN {Driver} ELSE {}

(* The threads that answer messages never wait in a circle, whatever is    *)
(* clicked, opened, hidden and closed meanwhile: the taskbar's main thread *)
(* waits for the manager's listener, that for the manager's main thread,   *)
(* that for the taskbar's listener, which leaves its work to new threads.  *)
NoCircle ==
    ~\E S \in (SUBSET Servers) \ {{}} : \A s \in S : WaitsFor(s) \cap S # {}
=============================================================================
