----------------------------- MODULE Rendezvous -----------------------------
(***************************************************************************)
(* What the IPC calls promise to programs, with no processor, no run queue  *)
(* and no priorities: send blocks until the reply, receive blocks until     *)
(* something arrives, reply unblocks the sender (doc/SysCalls.txt).         *)
(***************************************************************************)
EXTENDS Naturals, Sequences

CONSTANTS Thread, Channel

VARIABLES
    phase,      \* "none": no such thread, "runs", or "blocked" in a call
    line,       \* per channel, the senders nobody has received from, in order
    listening,  \* per channel, the threads blocked in receive
    owes        \* per thread, the senders it must still reply to

vars == <<phase, line, listening, owes>>

Init ==
    /\ phase \in [Thread -> {"none", "runs"}]
    /\ line = [c \in Channel |-> << >>]
    /\ listening = [c \in Channel |-> {}]
    /\ owes = [t \in Thread |-> {}]

(* Send when nobody listens.                                               *)
Ask(t, c) ==
    /\ phase[t] = "runs" /\ listening[c] = {}
    /\ phase' = [phase EXCEPT ![t] = "blocked"]
    /\ line' = [line EXCEPT ![c] = Append(@, t)]
    /\ UNCHANGED <<listening, owes>>

(* Send to a listener: nobody is in front in the line, and the sender is     *)
(* blocked from the moment the listener runs.                              *)
Meet(t, s, c) ==
    /\ phase[t] = "runs" /\ s \in listening[c] /\ line[c] = << >>
    /\ phase' = [phase EXCEPT ![t] = "blocked", ![s] = "runs"]
    /\ listening' = [listening EXCEPT ![c] = @ \ {s}]
    /\ owes' = [owes EXCEPT ![s] = @ \cup {t}]
    /\ UNCHANGED line

(* Receive takes the first of the line ...                                 *)
Take(s, c) ==
    /\ phase[s] = "runs" /\ line[c] # << >>
    /\ line' = [line EXCEPT ![c] = Tail(@)]
    /\ owes' = [owes EXCEPT ![s] = @ \cup {Head(line[c])}]
    /\ UNCHANGED <<phase, listening>>

(* ... and blocks only when there is none.                                 *)
Listen(s, c) ==
    /\ phase[s] = "runs" /\ line[c] = << >>
    /\ phase' = [phase EXCEPT ![s] = "blocked"]
    /\ listening' = [listening EXCEPT ![c] = @ \cup {s}]
    /\ UNCHANGED <<line, owes>>

(* A pulse ends a receive without a message.                               *)
Notify(s, c) ==
    /\ s \in listening[c]
    /\ phase' = [phase EXCEPT ![s] = "runs"]
    /\ listening' = [listening EXCEPT ![c] = @ \ {s}]
    /\ UNCHANGED <<line, owes>>

(* Reply ends the call of a sender that is blocked, once.                   *)
Answer(s, t) ==
    /\ phase[s] = "runs" /\ t \in owes[s] /\ phase[t] = "blocked"
    /\ phase' = [phase EXCEPT ![t] = "runs"]
    /\ owes' = [owes EXCEPT ![s] = @ \ {t}]
    /\ UNCHANGED <<line, listening>>

Start(t) ==
    /\ phase[t] = "none"
    /\ phase' = [phase EXCEPT ![t] = "runs"]
    /\ UNCHANGED <<line, listening, owes>>

(* Only a thread that runs can end: nothing frees a thread that is blocked. *)
Stop(t) ==
    /\ phase[t] = "runs"
    /\ phase' = [phase EXCEPT ![t] = "none"]
    /\ owes' = [owes EXCEPT ![t] = {}]
    /\ UNCHANGED <<line, listening>>

(* Scheduling alone is no step of this module: a step changes something.    *)
Next == vars' # vars /\ \E t \in Thread :
    \/ Start(t) \/ Stop(t)
    \/ \E s \in Thread : Answer(t, s)
    \/ \E c \in Channel :
         \/ Ask(t, c) \/ Take(t, c) \/ Listen(t, c) \/ Notify(t, c)
         \/ \E s \in Thread : Meet(t, s, c)

Spec == Init /\ [][Next]_vars

=============================================================================
