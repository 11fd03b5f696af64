----------------------------- MODULE ServerLoop -----------------------------
(***************************************************************************)
(* KernelIPC with the program every server of the system runs, MM and PROC  *)
(* among them: receive, work, reply, and receive again.  A client sends     *)
(* whenever it likes, or computes for ever.                                 *)
(***************************************************************************)
EXTENDS KernelIPC

IsServer(t) == \E c \in Channel : <<t, c>> \in Serves

(* One request at a time, as in the main loop of the process manager.       *)
AwaitRequest(t) == \E c \in Channel :
    /\ held[t] = {}
    /\ ReceivePulse(t, c) \/ ReceiveMsg(t, c) \/ ReceiveBlocks(t, c)

(* While it works on a request a server may send to another one, as a file  *)
(* system does to its block driver.                                        *)
Sends(t) ==
    /\ IsServer(t) => held[t] # {}
    /\ \E c \in Channel : SendBlocks(t, c) \/ SendMeets(t, c)

Replies(t) == \E x \in Thread : Reply(t, x)

LoopNext ==
    \/ \E t \in Thread : AwaitRequest(t) \/ Sends(t) \/ Replies(t)
    \/ Interrupt
    \/ Idle

(* The timer keeps ticking, the idle loop keeps yielding, and a server that *)
(* gets the processor time and again comes to its reply and to its next     *)
(* receive.  Nothing is asked of clients or of interrupts.                 *)
Fairness ==
    /\ WF_vars(Tick) /\ WF_vars(Idle)
    /\ \A t \in Thread : SF_vars(AwaitRequest(t)) /\ SF_vars(Replies(t))

LoopSpec == Init /\ [][LoopNext]_vars /\ Fairness

(* Every send returns, whoever computes for ever and in whatever order the  *)
(* timer runs the threads, provided the server catches up with the pulses   *)
(* for good: receive_S always serves pulses first, so an interrupt that     *)
(* sends one for every receive keeps the senders waiting.                  *)
SendReturns ==
    (\A c \in Channel : <>[](pulses[c] = << >>)) =>
        \A t \in Thread : state[t] \in {"Send", "Reply"} ~> state[t] = "Ready"

=============================================================================
