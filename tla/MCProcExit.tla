----------------------------- MODULE MCProcExit -----------------------------
(***************************************************************************)
(* A client process with two threads and room for a third that a signal    *)
(* makes, a server it talks to, its parent, and the two managers.          *)
(***************************************************************************)
EXTENDS ProcExit

CONSTANTS s1, pm, mm, a1, a2, a3, b1,   \* threads
          srv, kern, pa, pb,            \* processes
          ch, ca, cp, cm,               \* channels
          died                          \* a pulse

MCThread == {s1, pm, mm, a1, a2, a3, b1}
MCProcess == {srv, kern, pa, pb}
MCProcOf == s1 :> srv @@ pm :> kern @@ mm :> kern
            @@ a1 :> pa @@ a2 :> pa @@ a3 :> pa @@ b1 :> pb
MCChannel == {ch, ca, cp, cm}
MCOwner == ch :> srv @@ ca :> pa @@ cp :> kern @@ cm :> kern
MCServes == {<<s1, ch>>, <<pm, cp>>, <<mm, cm>>, <<a1, ca>>}
MCCalls == {a1, a2, a3} \X {ch} \cup {<<b1, ca>>} \cup {a1, a2, a3, b1} \X {cp, cm}
MCSignals == {<<b1, pa>>}
MCChild == b1 :> pa

(* The window server is above everybody else.                              *)
WindowServer == [p \in MCProcess |-> IF p = srv THEN 11 ELSE 10]
ServerFirst == <<s1, pm, mm, a1, a2, b1>>

(* The drivers of serial disk drives are below.                            *)
DiskDriver == [p \in MCProcess |-> IF p = srv THEN 9 ELSE 10]
ServerLast == <<pm, mm, a1, a2, b1, s1>>
=============================================================================
