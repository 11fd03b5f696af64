---------------------------- MODULE MCKernelIPC ----------------------------
(***************************************************************************)
(* A server process with two threads, the second of which is created while *)
(* the system runs, that is served by a second server in turn; both servers *)
(* have a client of their own and call each other.                         *)
(***************************************************************************)
EXTENDS KernelIPC

CONSTANTS s1, s2, a1, b1,   \* threads
          srv, pa, pb,      \* processes
          ch, ch2,          \* channels
          tick              \* a pulse

MCThread == {s1, s2, a1, b1}
MCProcess == {srv, pa, pb}
MCProcOf == s1 :> srv @@ s2 :> srv @@ a1 :> pa @@ b1 :> pb
MCServes == {<<s1, ch>>, <<s2, ch>>, <<b1, ch2>>}
MCCalls == {<<a1, ch>>, <<b1, ch>>, <<s1, ch2>>, <<s2, ch2>>}

(* The client of the first server outranks both servers.                   *)
ClientFirst == srv :> 1 @@ pa :> 2 @@ pb :> 0
=============================================================================
