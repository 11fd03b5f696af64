------------------------------ MODULE BlockDevice ------------------------------
(***************************************************************************)
(* What a block driver promises the file systems that use it, one request  *)
(* at a time: a block that is read holds what was last written to it.      *)
(***************************************************************************)
CONSTANTS Blocks, Contents, None
VARIABLES store,      \* what each block holds
          request,    \* the request being served, or None
          answer      \* what a read returned, until the next request

deviceVars == <<store, request, answer>>

Requests == [op : {"read"}, blk : Blocks] \cup [op : {"write"}, blk : Blocks, data : Contents]

DeviceInit == store \in [Blocks -> Contents] /\ request = None /\ answer = None

Ask == /\ request = None
       /\ request' \in Requests
       /\ answer' = None
       /\ UNCHANGED store

Serve == /\ request # None
         /\ request' = None
         /\ IF request.op = "read"
              THEN answer' = store[request.blk] /\ UNCHANGED store
              ELSE store' = [store EXCEPT ![request.blk] = request.data] /\ UNCHANGED answer

DeviceNext == Ask \/ Serve

DeviceSpec == DeviceInit /\ [][DeviceNext]_deviceVars
=============================================================================
