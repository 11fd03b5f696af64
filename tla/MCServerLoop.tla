---------------------------- MODULE MCServerLoop ----------------------------
(* A file system fs, its block driver dv, and two clients, one of which also *)
(* talks to the driver.                                                    *)
EXTENDS ServerLoop

CONSTANTS fs, dv, a, b, pfs, pdv, pa, pb, files, blocks, tick

MCThread == {fs, dv, a, b}
MCProcess == {pfs, pdv, pa, pb}
MCProcOf == fs :> pfs @@ dv :> pdv @@ a :> pa @@ b :> pb
MCServes == {<<fs, files>>, <<dv, blocks>>}
MCCalls == {<<a, files>>, <<b, files>>, <<b, blocks>>, <<fs, blocks>>}
AllEqual == [p \in MCProcess |-> 0]
=============================================================================
