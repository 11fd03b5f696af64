-------------------------------- MODULE Heap --------------------------------
(***************************************************************************)
(* The memory manager, MemMan in memm.a65: a server on channel 0 that hands *)
(* out the RAM between FirstRAM and LastRAM.  Memory is a row of blocks,    *)
(* each with a header before it; free blocks are also on 32 doubly linked   *)
(* bins by size.  One message is one action: the server is one thread and   *)
(* nobody else touches headers or bins.                                    *)
(*                                                                         *)
(* Sizes and addresses are in units of two bytes, as getFreesz makes every  *)
(* size even.  The statistic PCB_MemAlloc and the copying of realloc are    *)
(* left out.                                                               *)
(***************************************************************************)
EXTENDS Integers, Queues

CONSTANTS
    Process,    \* who sends messages
    NoOwner,
    Header,     \* MEM_SIZE
    MinBlock,        \* MEM_MIN, the header with the links of a bin
    Slack,      \* a rest smaller than MinBlock + Slack is not split off
    Bank,       \* 64K
    FirstRAM, LastRAM,\* FirstRAM, LastRAM
    Request,    \* sizes asked for with MMSG_Alloc and MMSG_Realloc
    RequestBA,  \* sizes asked for with MMSG_AllocBA
    MaxBlocks   \* bound: blocks in use at a time

ASSUME HeapAssumption ==
    /\ Header \in Nat \ {0} /\ MinBlock \in Nat /\ MinBlock > Header /\ Slack \in Nat
    /\ FirstRAM \in Nat /\ LastRAM \in Nat /\ FirstRAM + MinBlock <= LastRAM
    /\ Request \subseteq Nat /\ RequestBA \subseteq 0 .. Bank - Header - 1
    /\ NoOwner \notin Process
\* FirstRAM is at the beginning of a page.
ASSUME FirstAssumption == Bank \in Nat \ {0} /\ (FirstRAM % Bank) + Header + MinBlock <= Bank

VARIABLES
    hdr,    \* the headers in memory: PrevSize, ThisSize, Magic, Own
    bins,   \* Bins: the free blocks by size, last one freed first
    want,   \* what the user of a block was promised: bytes, and whether in one bank
    lost    \* the manager works on an address that is no block of its own

heapVars == <<hdr, bins, want, lost>>

Addr == FirstRAM .. LastRAM - 1
NBins == 32

HeapTypeOK ==
    /\ DOMAIN hdr \subseteq Addr
    /\ \A a \in DOMAIN hdr :
          hdr[a] \in [prev : 0..LastRAM, size : MinBlock..LastRAM, free : BOOLEAN,
                      own : Process \cup {NoOwner}]
    /\ bins \in [0 .. NBins - 1 -> Seq(Addr)]
    /\ DOMAIN want = {a \in DOMAIN hdr : ~ hdr[a].free}
    /\ \A a \in DOMAIN want : want[a] \in [size : Request \cup RequestBA, ba : BOOLEAN]
    /\ lost \in BOOLEAN

-----------------------------------------------------------------------------
(***************************************************************************)
(* Sizes and bins.  A heap below is a record of hdr and bins.              *)
(***************************************************************************)

(* getFreesz.                                                              *)
FreeSize(n) == IF n + Header < MinBlock THEN MinBlock ELSE n + Header

(* getbin: the number of significant bits of size - MinBlock, that is of    *)
(* the powers of two up to it.                                             *)
GetBin(size) == Cardinality({k \in 0 .. NBins - 2 : 2^k \in 1 .. size - MinBlock})

RemBin(bs, k, a) == [bs EXCEPT ![k] = Without(@, a)]

Add2Bin(h, a, size) ==
    [hdr |-> [h.hdr EXCEPT ![a].free = TRUE, ![a].size = size],
     bins |-> [h.bins EXCEPT ![GetBin(size)] = <<a>> \o @]]

(* The part of memory from a on becomes a block of the given size.         *)
NewBlock(size, prev) == [prev |-> prev, size |-> size, free |-> FALSE, own |-> NoOwner]
PutBlock(f, a, b) ==
    [x \in DOMAIN f \cup {a} |->
        IF x = a THEN b
        ELSE IF x = a + b.size THEN [f[x] EXCEPT !.prev = b.size] ELSE f[x]]

HeapInit ==
    LET none == [prev |-> 0, size |-> LastRAM - FirstRAM, free |-> FALSE, own |-> NoOwner]
        h == Add2Bin([hdr |-> [a \in {FirstRAM} |-> none],
                      bins |-> [k \in 0 .. NBins - 1 |-> << >>]], FirstRAM, LastRAM - FirstRAM)
    IN  /\ hdr = h.hdr /\ bins = h.bins
        /\ want = << >> /\ lost = FALSE

Store == [hdr |-> hdr, bins |-> bins]

-----------------------------------------------------------------------------
(***************************************************************************)
(* malloc.                                                                 *)
(***************************************************************************)

(* How far the data of block a is from the next bank, and whether a block   *)
(* of that size at a would go beyond it.                                   *)
ToBank(a) == Bank - ((a + Header) % Bank)
CrossesBank(a, size) == ((a + Header) % Bank) + size - Header > Bank

(* findbin: from the bin of the size upwards, each from its head, the first *)
(* block that is large enough, for MMSG_AllocBA behind the next bank's      *)
(* beginning too if the data would cross it.  A block in use stops it.      *)
Fits(a, size, ba) ==
    /\ hdr[a].size >= size
    /\ ba /\ CrossesBank(a, size) => hdr[a].size - ToBank(a) >= size
Stops(a, size, ba) == ~ hdr[a].free \/ Fits(a, size, ba)
FoundIn(k, size, ba) == {i \in DOMAIN bins[k] : Stops(bins[k][i], size, ba)}
Candidates(size, ba) == {k \in GetBin(size) .. NBins - 1 : FoundIn(k, size, ba) # {}}
FindBin(size, ba) ==
    LET k == Min(Candidates(size, ba)) IN bins[k][Min(FoundIn(k, size, ba))]

(* split and add2bin: what is left behind the first size units becomes a    *)
(* free block, unless it is too small to be worth it.                      *)
Split(h, a, size) ==
    LET rest == h.hdr[a].size - size
        f == [h.hdr EXCEPT ![a].size = size]
    IN  IF rest >= MinBlock + Slack
        THEN Add2Bin([h EXCEPT !.hdr = PutBlock(f, a + size, NewBlock(rest, size))],
                     a + size, rest)
        ELSE h

(* nospl: the block is its owner's.                                        *)
Owned(f, a, p) == [f EXCEPT ![a].free = FALSE, ![a].own = p]
Give(h, a, p, n, ba) ==
    /\ hdr' = Owned(h.hdr, a, p)
    /\ bins' = h.bins
    /\ want' = [x \in DOMAIN want \cup {a} |->
                   IF x = a THEN [size |-> n, ba |-> ba] ELSE want[x]]
    /\ UNCHANGED lost

(* The chosen block is taken out of its bin and cut down to size.          *)
Take(a, p, n, ba) ==
    LET h == [hdr |-> hdr, bins |-> RemBin(bins, GetBin(hdr[a].size), a)]
    IN  Give(Split(h, a, FreeSize(n)), a, p, n, ba)

(* itsbal: the block is cut at the next bank first.                        *)
TakeAtBank(a, p, n) ==
    LET front == ToBank(a)
        size == hdr[a].size
        rest == a + front
        b == RemBin(bins, GetBin(size), a)
    IN  \/ \* The front is too small for a block: the block before a grows.
           /\ front < MinBlock
           /\ LET before == a - hdr[a].prev
                  grown == hdr[before].size + front
                  f == [x \in DOMAIN hdr \ {a} |->
                          IF x = before THEN [hdr[x] EXCEPT !.size = grown] ELSE hdr[x]]
                  h == [hdr |-> PutBlock(f, rest, NewBlock(size - front, grown)), bins |-> b]
              IN  Give(Split(h, rest, FreeSize(n)), rest, p, n, TRUE)
        \/ \* The front becomes a free block.
           /\ front >= MinBlock /\ size - front >= MinBlock + Slack
           /\ LET f == PutBlock(hdr, rest, NewBlock(size - front, front))
                  h == Add2Bin([hdr |-> f, bins |-> b], a, front)
              IN  Give(Split(h, rest, FreeSize(n)), rest, p, n, TRUE)
        \/ \* split does nothing because the rest is small, and nobody looks:
           \* MemP2 is still what rembin left there, the next block of the bin.
           /\ front >= MinBlock /\ size - front < MinBlock + Slack
           /\ LET q == bins[GetBin(size)]
                  i == CHOOSE j \in DOMAIN q : q[j] = a
              IN  IF i < Len(q) /\ hdr[q[i + 1]].size >= FreeSize(n)
                  THEN Give(Split([hdr |-> hdr, bins |-> b], q[i + 1], FreeSize(n)),
                            q[i + 1], p, n, TRUE)
                  ELSE /\ lost' = TRUE /\ bins' = b
                       /\ UNCHANGED <<hdr, want>>

Place(a, p, n, ba) ==
    IF ba /\ CrossesBank(a, FreeSize(n)) THEN TakeAtBank(a, p, n) ELSE Take(a, p, n, ba)

InUse == {a \in DOMAIN hdr : ~ hdr[a].free}

(* badmem: the kernel panics.                                              *)
BadMem == lost' = TRUE /\ UNCHANGED <<hdr, bins, want>>

(* MMSG_Alloc and MMSG_AllocBA; no memory is an answer like any other.      *)
Malloc(p, n, ba) ==
    /\ ~ lost /\ Cardinality(InUse) < MaxBlocks
    /\ LET a == FindBin(FreeSize(n), ba)
       IN  IF Candidates(FreeSize(n), ba) = {} THEN UNCHANGED heapVars
           ELSE IF hdr[a].free THEN Place(a, p, n, ba)
           ELSE BadMem

-----------------------------------------------------------------------------
(***************************************************************************)
(* free.                                                                   *)
(***************************************************************************)

Free2Behind(h, a) ==
    LET Joins(x) == x \in DOMAIN h.hdr /\ h.hdr[x].free
        prv == a - h.hdr[a].prev
        nxt == a + h.hdr[a].size
        withPrev == h.hdr[a].prev # 0 /\ Joins(prv)
        withNext == FALSE
        at == IF withPrev THEN prv ELSE a
        end == IF withNext THEN nxt + h.hdr[nxt].size ELSE nxt
        b1 == IF withPrev THEN RemBin(h.bins, GetBin(h.hdr[prv].size), prv) ELSE h.bins
        b2 == IF withNext THEN RemBin(b1, GetBin(h.hdr[nxt].size), nxt) ELSE b1
        f == [x \in DOMAIN h.hdr \ ((IF withPrev THEN {a} ELSE {})
                                     \cup (IF withNext THEN {nxt} ELSE {})) |-> h.hdr[x]]
        g == PutBlock(f, at, NewBlock(end - at, h.hdr[at].prev))
    IN  Add2Bin([hdr |-> g, bins |-> b2], at, end - at)

(* free2: merge the block with the free ones beside it.                    *)
Free2(h, a) ==
    LET Joins(x) == x \in DOMAIN h.hdr /\ h.hdr[x].free
        prv == a - h.hdr[a].prev
        nxt == a + h.hdr[a].size
        withPrev == h.hdr[a].prev # 0 /\ Joins(prv)
        withNext == nxt < LastRAM /\ Joins(nxt)
        at == IF withPrev THEN prv ELSE a
        end == IF withNext THEN nxt + h.hdr[nxt].size ELSE nxt
        b1 == IF withPrev THEN RemBin(h.bins, GetBin(h.hdr[prv].size), prv) ELSE h.bins
        b2 == IF withNext THEN RemBin(b1, GetBin(h.hdr[nxt].size), nxt) ELSE b1
        f == [x \in DOMAIN h.hdr \ ((IF withPrev THEN {a} ELSE {})
                                     \cup (IF withNext THEN {nxt} ELSE {})) |-> h.hdr[x]]
        g == PutBlock(f, at, NewBlock(end - at, h.hdr[at].prev))
    IN  Add2Bin([hdr |-> g, bins |-> b2], at, end - at)

SetHeap(h) ==
    /\ hdr' = h.hdr /\ bins' = h.bins
    /\ want' = [a \in {x \in DOMAIN h.hdr : ~ h.hdr[x].free} |-> want[a]]
    /\ UNCHANGED lost

(* MMSG_Free by whoever has the pointer.                                   *)
Free(a) == ~ lost /\ a \in InUse /\ SetHeap(Free2(Store, a))

(* MMSG_Realloc of a block: it stays if it is large enough, and shrinks     *)
(* never; without memory for another one the block stays too.              *)
Realloc(p, a, n) ==
    /\ ~ lost /\ a \in InUse
    /\ LET c == FindBin(FreeSize(n), FALSE)
           h == [hdr |-> hdr, bins |-> RemBin(bins, GetBin(hdr[c].size), c)]
           s == Split(h, c, FreeSize(n))
           g == Free2([hdr |-> Owned(s.hdr, c, p), bins |-> s.bins], a)
       IN  IF hdr[a].size >= FreeSize(n)
           THEN /\ want' = [want EXCEPT ![a] = [size |-> n, ba |-> FALSE]]
                /\ UNCHANGED <<hdr, bins, lost>>
           ELSE IF Candidates(FreeSize(n), FALSE) = {} THEN UNCHANGED heapVars
           ELSE IF ~ hdr[c].free THEN BadMem
           ELSE /\ hdr' = g.hdr /\ bins' = g.bins /\ UNCHANGED lost
                /\ want' = [x \in (DOMAIN want \ {a}) \cup {c} |->
                              IF x = c THEN [size |-> n, ba |-> FALSE] ELSE want[x]]

(* killPID: walk over memory and free what p owns, merging behind the walk; *)
(* swept[i] is what the walk has left of the heap before FirstRAM + i.      *)
Reaps(h, a, mine) == IF a \in mine THEN Free2(h, a) ELSE h
KillMem(p) ==
    LET mine == {a \in InUse : hdr[a].own = p}
        swept[i \in 0 .. LastRAM - FirstRAM] ==
            IF i = 0 THEN Store ELSE Reaps(swept[i - 1], FirstRAM + i - 1, mine)
    IN  /\ ~ lost /\ mine # {}
        /\ SetHeap(swept[LastRAM - FirstRAM])

-----------------------------------------------------------------------------

HeapNext ==
    \/ \E p \in Process :
          \/ \E n \in Request : Malloc(p, n, FALSE)
          \/ \E n \in RequestBA : Malloc(p, n, TRUE)
          \/ \E a \in InUse, n \in Request : Realloc(p, a, n)
          \/ KillMem(p)
    \/ \E a \in InUse : Free(a)

HeapSpec == HeapInit /\ [][HeapNext]_heapVars

-----------------------------------------------------------------------------
(***************************************************************************)
(* Properties.                                                             *)
(***************************************************************************)

(* The blocks lie side by side from FirstRAM to LastRAM, and each header's  *)
(* PrevSize is its neighbour's ThisSize: free2, killPID and memleft walk by *)
(* these two fields in both directions.                                    *)
Tiled ==
    /\ FirstRAM \in DOMAIN hdr /\ hdr[FirstRAM].prev = 0
    /\ \A a \in DOMAIN hdr :
          /\ a + hdr[a].size \in DOMAIN hdr \cup {LastRAM}
          /\ \A x \in DOMAIN hdr : x > a => x >= a + hdr[a].size
          /\ a # FirstRAM => a - hdr[a].prev \in DOMAIN hdr
                         /\ hdr[a - hdr[a].prev].size = hdr[a].prev

(* Two free blocks never lie side by side: after any history of requests    *)
(* and process deaths, memory that was given back is one block again.       *)
Coalesced ==
    \A a \in DOMAIN hdr :
        hdr[a].free /\ a + hdr[a].size < LastRAM => ~ hdr[a + hdr[a].size].free

(* Every free block is once in the bin of its size, and nothing else is in  *)
(* a bin.                                                                  *)
BinsExact ==
    \A k \in DOMAIN bins :
        /\ Distinct(bins[k])
        /\ On(bins[k]) = {a \in DOMAIN hdr : hdr[a].free /\ GetBin(hdr[a].size) = k}

(* findbin finds a block for malloc whenever one is large enough.           *)
FindsFit ==
    \A n \in Request :
        (\E a \in DOMAIN hdr : hdr[a].free /\ hdr[a].size >= FreeSize(n))
            => Candidates(FreeSize(n), FALSE) # {}

(* A block holds what its user asked for, and in one bank if that was asked *)
(* for too, however its neighbours come and go.                            *)
Usable ==
    \A a \in DOMAIN want :
        /\ hdr[a].size >= want[a].size + Header
        /\ want[a].ba => ((a + Header) % Bank) + want[a].size <= Bank

(* badmem: findbin never meets a block in a bin that is in use.             *)
BinsFree == \A k \in DOMAIN bins : \A a \in On(bins[k]) : hdr[a].free

(* What the allocator's structures and its users' blocks promise together   *)
(* after any history of requests, frees and deaths of processes.            *)
HeapSound == HeapTypeOK /\ Tiled /\ Coalesced /\ BinsExact /\ FindsFit /\ Usable

=============================================================================
