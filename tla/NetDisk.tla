------------------------------- MODULE NetDisk -------------------------------
(***************************************************************************)
(* A block driver whose disk is an image file on another machine: the      *)
(* driver (src/drivers/net/netdisk.c) sends requests over one TCP          *)
(* connection to the drive server (src/btools/netdrive.c).  Requests are   *)
(* three units on the wire: 'r' or 'w', the place, the length.             *)
(*                                                                         *)
(* A read takes what has arrived of what it asks for.  The server collects *)
(* a command until all of it is there; a block is read once on either side *)
(* and the count is ignored, so a read that comes back short leaves old    *)
(* units in the block, and the rest of it to be taken for something else.  *)
(***************************************************************************)
EXTENDS Naturals, SequencesExt

CONSTANTS DiskBlocks,   \* places in the image
          Units,        \* what a unit of a block can be
          Rd, Wr,       \* the units 'r' and 'w'
          INBUFLEN,     \* units in the server's command buffer
          MaxStream,    \* units under way in one direction, TCP's window
          MaxAfter      \* bound: requests made once a read has come back short

(* The buffer has room for a command and, once more, for what getcommand   *)
(* wants of it last: 13 bytes in the code, which has 4096.                 *)
ASSUME InbufAssumption == INBUFLEN \in Nat /\ INBUFLEN >= 5
ASSUME WireAssumption == Rd # Wr /\ MaxStream \in Nat /\ MaxAfter \in Nat

BlkSize == 2                        \* units in a block
BlockData == [1..BlkSize -> Units]
NoRequest == [op |-> "none"]
Empty == [units |-> <<>>, cur |-> 0, unused |-> 0]

VARIABLES user,       \* the request netdisk is serving
          at,         \* where netdisk is: "idle", "ack", "block"
          got,        \* the block a read gave back, until the next request
          toServer,   \* the connection, one way
          toClient,   \* and the other
          serving,    \* the server has not exited
          buffer,     \* its command buffer: buf up to inbuf, cur, unused
          com,        \* the command the server is working on
          image,      \* the file
          short       \* history: 0 until a read of a block took less than the
                      \* block, then 1 and one more for each request since

diskVars == <<user, at, got, toServer, toClient, serving, buffer, com, image, short>>

clientVars == <<user, at, got>>
serverVars == <<serving, buffer, com, image>>

DiskInit ==
  /\ user = NoRequest /\ at = "idle" /\ got = NoRequest
  /\ toServer = <<>> /\ toClient = <<>> /\ serving = TRUE
  /\ buffer = Empty /\ com = <<>>
  /\ image \in [DiskBlocks -> BlockData]
  /\ short = 0

-----------------------------------------------------------------------------
(* The connection *)

(* How many units a read can return: it waits only while there are none,   *)
(* and not even then if none are wanted or the other side is gone.         *)
Arrived(stream, wanted) ==
  {n \in 0..Len(stream) : n <= wanted /\ (n = 0 => wanted = 0 \/ (stream = <<>> /\ ~serving))}

Rest(stream, n) == SubSeq(stream, n + 1, Len(stream))

(* A write waits until all of it is on its way; to a server that is gone   *)
(* it goes nowhere.                                                        *)
SendsServer(units) ==
  IF serving THEN /\ Len(toServer) + Len(units) <= MaxStream
                  /\ toServer' = toServer \o units
  ELSE UNCHANGED toServer

SendsClient(units) ==
  /\ Len(toClient) + Len(units) <= MaxStream
  /\ toClient' = toClient \o units

-----------------------------------------------------------------------------
(* The driver *)

Code(op) == IF op = "read" THEN Rd ELSE Wr

(* A program asks: netdisk sends 'r' or 'w', the place and the length.     *)
Asks(request) ==
  /\ user = NoRequest /\ short <= MaxAfter
  /\ user' = request /\ at' = "ack" /\ got' = NoRequest
  /\ short' = IF short = 0 THEN 0 ELSE short + 1
  /\ SendsServer(<<Code(request.op), request.blk, BlkSize>>)
  /\ UNCHANGED <<toClient, serverVars>>

ReadB == \E b \in DiskBlocks : Asks([op |-> "read", blk |-> b])
WriteB == \E b \in DiskBlocks, d \in BlockData : Asks([op |-> "write", blk |-> b, data |-> d])

(* One byte, taken for the server's 0 whatever it is; a write then sends   *)
(* the block and is done, without waiting for the server.                  *)
Acknowledged ==
  /\ at = "ack"
  /\ \E n \in Arrived(toClient, 1) : toClient' = Rest(toClient, n)
  /\ IF user.op = "read"
       THEN at' = "block" /\ UNCHANGED <<user, toServer>>
       ELSE /\ at' = "idle" /\ user' = NoRequest
            /\ SendsServer(user.data)
  /\ UNCHANGED <<got, serverVars, short>>

(* read(sock, blk, blksize), once: what does not come leaves the program's *)
(* block as it was, and the answer is blksize all the same.                *)
BlockComes ==
  /\ at = "block" /\ at' = "idle" /\ user' = NoRequest
  /\ \E n \in Arrived(toClient, BlkSize), old \in BlockData :
       /\ got' = SubSeq(toClient, 1, n) \o SubSeq(old, n + 1, BlkSize)
       /\ toClient' = Rest(toClient, n)
       /\ short' = IF n < BlkSize /\ short = 0 THEN 1 ELSE short
  /\ UNCHANGED <<toServer, serverVars>>

-----------------------------------------------------------------------------
(* The server *)

(* getcommand: the units wanted next.                                      *)
Awaited == IF com = <<>> THEN 1 ELSE 2
Commanding == serving /\ Len(com) < 3
Room(b) == INBUFLEN - Len(b.units)

(* It begins by moving the unread units to the front if there is too       *)
(* little room behind them, and forgets how many they were.                *)
Moved(b) ==
  LET unread == SubSeq(b.units, b.cur + 1, b.cur + b.unused)
      over == unread \o Rest(b.units, b.unused)
  IN  [units |-> SubSeq(over, 1, Len(b.units) - b.unused), cur |-> 0, unused |-> 0]

EnteredTight(b, min) == IF Room(b) > min THEN b ELSE Moved(b)
Entered(b, min) == IF Room(b) >= min THEN b ELSE Moved(b)

(* It ends by taking them; when none is left the buffer is empty.          *)
Taken(b, min) ==
  IF b.unused = min THEN Empty
  ELSE [units |-> b.units, cur |-> b.cur + min, unused |-> b.unused - min]

(* What read() put behind the units that are there.                        *)
Appended(b, more) ==
  [units |-> b.units \o more, cur |-> b.cur, unused |-> b.unused + Len(more)]

ReadSome ==
  /\ Commanding /\ buffer.unused < Awaited
  /\ \E n \in 1..Len(toServer) :
       /\ n <= Room(buffer)
       /\ buffer' = Appended(buffer, SubSeq(toServer, 1, n))
       /\ toServer' = Rest(toServer, n)
  /\ UNCHANGED <<clientVars, toClient, serving, com, image, short>>

(* No room at all: read returns 0, which getcommand takes for the end.     *)
Exits ==
  /\ Commanding /\ buffer.unused < Awaited /\ Room(buffer) = 0
  /\ serving' = FALSE
  /\ UNCHANGED <<clientVars, toServer, toClient, buffer, com, image, short>>

(* A command of main's switch that is neither 'r' nor 'w' is passed over.  *)
(* getcommand is called again until all three units are there.             *)
getcommand ==
  /\ Commanding /\ buffer.unused >= Awaited
  /\ LET taken == SubSeq(buffer.units, buffer.cur + 1, buffer.cur + Awaited)
         left == Taken(buffer, Awaited)
     IN  IF com # <<>> THEN com' = com \o taken /\ buffer' = left
         ELSE IF taken[1] \in {Rd, Wr} THEN com' = taken /\ buffer' = Entered(left, 2)
         ELSE com' = <<>> /\ buffer' = Entered(left, 1)
  /\ UNCHANGED <<clientVars, toServer, toClient, serving, image, short>>

(* The next command.                                                       *)
NextCommand == com' = <<>> /\ buffer' = Entered(buffer, 1)

(* The length a command gives, at most a block's; and what is at its       *)
(* place: one that no request names lies behind the end of the file, where *)
(* a read finds nothing and blkbuf, which is never cleared, has old units. *)
Amount == IF com[3] \in 0..BlkSize THEN com[3] ELSE BlkSize
Held(old) == IF com[2] \in DiskBlocks THEN image[com[2]] ELSE old

(* 'r': the block goes out behind a byte 0.                                *)
SendsBlock ==
  /\ serving /\ Len(com) = 3 /\ com[1] = Rd
  /\ \E old \in BlockData : SendsClient(<<0>> \o SubSeq(Held(old), 1, Amount))
  /\ NextCommand
  /\ UNCHANGED <<clientVars, toServer, serving, image, short>>

(* 'w': the byte 0 goes out first.                                         *)
SendsAck ==
  /\ serving /\ Len(com) = 3 /\ com[1] = Wr
  /\ SendsClient(<<0>>)
  /\ com' = Append(com, "acked")
  /\ UNCHANGED <<clientVars, toServer, serving, buffer, image, short>>

(* Over the front of what a block holds; the blocks are left alone if the  *)
(* place is not one of theirs.                                             *)
Overwritten(units) ==
  IF com[2] \in DiskBlocks
    THEN [image EXCEPT ![com[2]] = units \o SubSeq(@, Amount + 1, BlkSize)]
    ELSE image

StoresBlockLater ==
  /\ serving /\ Len(com) = 4
  /\ \E n \in Arrived(toServer, Amount), old \in BlockData :
       /\ image' = Overwritten(SubSeq(old, 1, Amount))
       /\ toServer' = Rest(toServer, n)
       /\ short' = IF n < Amount /\ short = 0 THEN 1 ELSE short
  /\ NextCommand
  /\ UNCHANGED <<clientVars, toClient, serving>>

(* read(sock, blkbuf, len), once, straight from the connection over what   *)
(* blkbuf held; len units are written to the file, whatever came.          *)
StoresBlock ==
  /\ serving /\ Len(com) = 4
  /\ \E n \in Arrived(toServer, Amount), old \in BlockData :
       /\ image' = Overwritten(SubSeq(toServer, 1, n) \o SubSeq(old, n + 1, Amount))
       /\ toServer' = Rest(toServer, n)
       /\ short' = IF n < Amount /\ short = 0 THEN 1 ELSE short
  /\ NextCommand
  /\ UNCHANGED <<clientVars, toClient, serving>>

DiskNext ==
  \/ ReadB \/ WriteB \/ Acknowledged \/ BlockComes
  \/ ReadSome \/ Exits \/ getcommand \/ SendsBlock \/ SendsAck \/ StoresBlock

DiskSpec == DiskInit /\ [][DiskNext]_diskVars

(* Both programs run, and TCP delivers.                                    *)
DiskFairness ==
  /\ WF_diskVars(Acknowledged \/ BlockComes)
  /\ WF_diskVars(ReadSome \/ Exits \/ getcommand \/ SendsBlock \/ SendsAck \/ StoresBlock)

-----------------------------------------------------------------------------

(* The disk as the driver's users see it: a block they have been told is   *)
(* written may still be on its way.                                        *)
Seen == IF Len(com) = 4 /\ Len(toServer) >= BlkSize
          THEN [image EXCEPT ![com[2]] = SubSeq(toServer, 1, BlkSize)]
          ELSE image

Device == INSTANCE BlockDevice WITH Blocks <- DiskBlocks, Contents <- BlockData,
            None <- NoRequest, store <- Seen, answer <- got, request <- user

(* netdisk and netdrive together are a block device until a read of a      *)
(* block comes back short: a read gives what was written last, although a  *)
(* write returns before the server has the block, and whatever pieces the  *)
(* requests arrive in.  From then on nothing is promised.                  *)
ReadsBack ==
  Device!DeviceInit /\ [][short' > 0 \/ Device!DeviceNext]_(Device!deviceVars)

(* getcommand always begins with room for what it wants: the branch for    *)
(* the other case sets unused to 0 and would forget bytes.                 *)
RoomForCommand == Room(buffer) >= 2

(* Until a read of a block comes back short every request is answered:     *)
(* getcommand never throws bytes away, and the two programs never each     *)
(* wait for the other's.                                                   *)
DiskAnswers ==
  /\ [](short > 0 \/ RoomForCommand)
  /\ DiskFairness => (at # "idle" ~> at = "idle" \/ short > 0)
=============================================================================
