-------------------------------- MODULE Linker --------------------------------
(***************************************************************************)
(* What makes a program of assembled files: the linker jl65                *)
(* (src/btools/jl65.c), and the kernel's loader (src/kernel/loadproc.a65)  *)
(* that puts it and its shared libraries into memory.  The last of the     *)
(* files linked is the program and those before it are its libraries.      *)
(*                                                                         *)
(* Segments are of the kinds that ja writes, none of them page aligned or  *)
(* position independent.  Symbols are found by name, without hashing.      *)
(***************************************************************************)
EXTENDS Assembler

CONSTANT Offsets    \* where in its bank a segment may be put

VARIABLES
    how,       \* the commands: how many files of each the linker makes one of, and how it packs
    jl,        \* the linker at work on a file
    linked,    \* the files it has written
    memory     \* of each linked file, from the last to the first: what the loader made of it

linkVars == <<how, jl, linked, memory>>

-----------------------------------------------------------------------------
(* The linker.  A segment of an object has its number <<o, s>>; outseg is  *)
(* a sequence of segments of the output, each the sequence of its parts.   *)

NewLinker(o) ==
    [next |-> o, outseg |-> <<>>, segs |-> <<>>, labs |-> <<>>, names |-> <<>>, implabs |-> <<>>]

NumFiles == Len(how.files)
FirstObject(k) == 1 + SumFunction(SubSeq(how.files, 1, k - 1))
Behind(k) == FirstObject(k) + how.files[k]

TotalSize(l, i) == FoldLeft(LAMBDA n, id : n + l.segs[id].size, 0, l.outseg[i])

Joins(l, seg, i) ==
    LET head == l.segs[Head(l.outseg[i])]
    IN  seg.flags = head.flags /\ ("NOCROSS" \in head.flags => TotalSize(l, i) + seg.size < 65536)

mergeseg(l, id) ==
    LET seg == l.segs[id]
        at == {i \in DOMAIN l.outseg : Joins(l, seg, i)}
        i == CHOOSE i \in at : \A j \in at : i <= j
        newpc == l.segs[Head(l.outseg[i])].startpc + TotalSize(l, i)
    IN  IF at = {} THEN [l EXCEPT !.outseg = Append(@, <<id>>), !.segs[id].newsegnum = Len(l.outseg) + 1]
        ELSE [l EXCEPT !.outseg[i] = Append(@, id),
                       !.segs[id].newsegnum = i, !.segs[id].reloff = newpc - seg.startpc, !.segs[id].startpc = newpc]

linksegs(l, o) ==
    LET read == [id \in {<<o, s>> : s \in 1..3} |->
                   [startpc |-> objects[o].segs[id[2]].startpc, size |-> objects[o].segs[id[2]].size,
                    flags |-> objects[o].segs[id[2]].flags, bytes |-> objects[o].segs[id[2]].bytes,
                    rel |-> objects[o].segs[id[2]].rel, reloff |-> 0, newsegnum |-> 0]]
    IN  FoldLeft(LAMBDA m, s : IF read[<<o, s>>].size = 0 THEN m ELSE mergeseg(m, <<o, s>>),
                 [l EXCEPT !.segs = read @@ @], <<1, 2, 3>>)

(* names is the list hundef, the symbol first met last.                    *)
dolab(l, name) ==
    IF name \in DOMAIN l.labs THEN l
    ELSE [l EXCEPT !.names = <<name>> \o @,
                   !.labs = (name :> [seg |-> -1, val |-> 0, export |-> FALSE, origseg |-> <<>>, number |-> -1]) @@ @]

linkexport(l, o, e) ==
    LET id == <<o, e.seg>>
    IN  [dolab(l, e.name) EXCEPT
            !.labs[e.name] = [@ EXCEPT !.export = TRUE, !.val = e.val, !.origseg = id,
                                       !.seg = IF e.seg = 0 THEN 0 ELSE l.segs[id].newsegnum]]

getimports(l, o) ==
    [FoldLeft(dolab, l, objects[o].imports) EXCEPT !.implabs = (o :> objects[o].imports) @@ @]

(* The files are linked as one program, or the first of them are made a    *)
(* library for the last.                                                   *)
Invoked ==
    /\ jl.phase = "idle" /\ Len(objects) = Len(sources)
    /\ \E n \in {Len(sources)} \cup 1..(Len(sources) - 1), pack \in 0..2 :
         how' = [files |-> IF n = Len(sources) THEN <<n>> ELSE <<n, Len(sources) - n>>, pack |-> pack]
    /\ jl' = [phase |-> "files", l |-> NewLinker(1)]
    /\ UNCHANGED <<linked, memory>>

linkfile ==
    /\ jl.phase = "files" /\ Len(linked) < NumFiles /\ jl.l.next < Behind(Len(linked) + 1)
    /\ LET o == jl.l.next
           l == linksegs(getimports(jl.l, o), o)
       IN  jl' = [jl EXCEPT !.l = [FoldSet(LAMBDA e, m : linkexport(m, o, e), l, objects[o].exports)
                                   EXCEPT !.next = @ + 1]]
    /\ UNCHANGED <<how, linked, memory>>

(* With -d the data segments, with -p all segments are put one behind the  *)
(* other.                                                                  *)
Packed(l) ==
    FoldLeftDomain(
        LAMBDA x, i :
            LET head == x.l.segs[Head(x.l.outseg[i])]
                dif == x.pcupto - head.startpc
                moved == [id \in ToSet(x.l.outseg[i]) |->
                            [x.l.segs[id] EXCEPT !.reloff = @ + dif, !.startpc = @ + dif]]
            IN  IF how.pack # 2 /\ "DBR" \notin head.flags THEN x
                ELSE IF x.pcupto = -1 THEN [x EXCEPT !.pcupto = head.startpc + TotalSize(x.l, i)]
                ELSE [l |-> [x.l EXCEPT !.segs = moved @@ @], pcupto |-> x.pcupto + TotalSize(x.l, i)],
        [l |-> l, pcupto |-> -1], l.outseg)

dopack ==
    /\ jl.phase = "files" /\ Len(linked) < NumFiles /\ jl.l.next = Behind(Len(linked) + 1)
    /\ jl' = [phase |-> "reloc", l |-> IF how.pack = 0 THEN jl.l ELSE Packed(jl.l).l]
    /\ UNCHANGED <<how, linked, memory>>

(* A program is linked to the libraries that are there, a library to none. *)
Links == IF Len(linked) + 1 = Len(how.files) THEN linked ELSE <<>>
DynSyms == UNION {{e.name : e \in Links[k].exports} : k \in DOMAIN Links}

(* prepImpExp with exports that stay where their file had them.            *)
prepImpExpUnmoved(l, junk) ==
    LET missing == SelectSeq(l.names, LAMBDA x : l.labs[x].seg = -1)
    IN  [l EXCEPT !.labs = [x \in DOMAIN @ |->
            LET lab == @[x]
            IN  CASE lab.seg = -1 -> [lab EXCEPT !.number = SelectInSeq(missing, LAMBDA y : y = x) - 1]
                  [] lab.export /\ lab.seg # 0 -> [lab EXCEPT !.number = junk]
                  [] OTHER -> [lab EXCEPT !.number = junk]]]

(* What is not defined in the files linked gets a number as an import; a   *)
(* symbol's number is not set otherwise.  Exports move with their segment. *)
prepImpExp(l, junk) ==
    LET missing == SelectSeq(l.names, LAMBDA x : l.labs[x].seg = -1)
    IN  [l EXCEPT !.labs = [x \in DOMAIN @ |->
            LET lab == @[x]
            IN  CASE lab.seg = -1 -> [lab EXCEPT !.number = SelectInSeq(missing, LAMBDA y : y = x) - 1]
                  [] lab.export /\ lab.seg # 0 -> [lab EXCEPT !.val = @ + l.segs[lab.origseg].reloff, !.number = junk]
                  [] OTHER -> [lab EXCEPT !.number = junk]]]

ReadBytes(bytes, at, n) == FoldLeft(LAMBDA v, i : v + bytes[at + i] * 256 ^ i, 0, [i \in 1..n |-> i - 1])
Width(kind) == CASE kind = "RWORD" -> 2 [] kind = "RSEGADR" -> 3 [] kind = "RLONG" -> 4 [] OTHER -> 1
Sets(bytes, at, v, n) == Placed(at, LowBytes(v, n)) @@ bytes

(* One entry e of segment id: x has the place reached in its bytes, and    *)
(* lastpc, from which the next entry of the output counts.  tseg is the    *)
(* segment of the last entry that named one: relseg looks at it also after *)
(* an entry for an import, and then there may have been none before.       *)
relentry(l, id, x, e, junk) ==
    LET at == x.at + GapOf(e.gap)
        pc == l.segs[id].startpc + at
        lab == l.labs[l.implabs[id[1]][e.imp + 1]]
        named == e.seg # 0
        tseg == IF named THEN <<id[1], e.seg>> ELSE x.tseg
        nseg == IF named THEN l.segs[tseg].newsegnum ELSE IF lab.seg # -1 THEN lab.seg ELSE 0
        reloff == IF named THEN l.segs[tseg].reloff ELSE IF lab.seg # -1 THEN lab.val ELSE 0
        nocross == IF tseg = <<>> THEN junk # 0 ELSE "NOCROSS" \in l.segs[tseg].flags
        low == IF e.extra = <<>> THEN 0 ELSE e.extra[1]
        sum == reloff + low + CASE e.kind = "RHIGH" -> x.bytes[at] * 256
                                [] e.kind = "RSEG" -> x.bytes[at] * 65536
                                [] OTHER -> ReadBytes(x.bytes, at, Width(e.kind))
        value == CASE e.kind = "RHIGH" -> sum \div 256
                   [] e.kind = "RSEG" -> IF e.extra = <<>> THEN l.segs[tseg].startpc \div 65536 ELSE sum \div 65536
                   [] OTHER -> sum
        extra == CASE e.kind = "RHIGH" -> <<sum % 256>>
                   [] e.kind = "RSEG" /\ (nseg = 0 \/ ~nocross) -> <<sum % 65536>>
                   [] OTHER -> <<>>
        entry == [gap |-> Gap(pc - x.lastpc), kind |-> e.kind, seg |-> nseg,
                  imp |-> IF nseg = 0 THEN lab.number ELSE -1, extra |-> extra]
    IN  [x EXCEPT !.at = at, !.lastpc = pc, !.tseg = tseg, !.bytes = Sets(@, at, value, Width(e.kind)),
                  !.rel = Append(@, entry)]

relseg(l, id, x, junk) ==
    FoldLeft(LAMBDA y, e : relentry(l, id, y, e, junk),
             [x EXCEPT !.at = -1, !.bytes = l.segs[id].bytes, !.tseg = <<>>], l.segs[id].rel)

(* The output segment i: its parts one behind the other.                   *)
OutSegment(l, i, junk) ==
    LET head == l.segs[Head(l.outseg[i])]
        whole == FoldLeft(
            LAMBDA x, id :
                LET y == IF "BLANK" \in head.flags THEN x ELSE relseg(l, id, x, junk)
                IN  [y EXCEPT !.size = x.size + l.segs[id].size,
                              !.data = [k \in {x.size + j : j \in DOMAIN y.bytes} |-> y.bytes[k - x.size]] @@ x.data],
            [at |-> -1, lastpc |-> head.startpc - 1, tseg |-> <<>>, bytes |-> <<>>, rel |-> <<>>, size |-> 0, data |-> <<>>],
            l.outseg[i])
    IN  [startpc |-> head.startpc, size |-> whole.size, flags |-> head.flags, data |-> whole.data,
         rel |-> whole.rel, parts |-> l.outseg[i]]

reloc ==
    /\ jl.phase = "reloc"
    /\ \E junk \in Rubbish :
         LET l == prepImpExp(jl.l, junk)
             missing == SelectSeq(l.names, LAMBDA x : l.labs[x].seg = -1)
         IN  IF \E x \in ToSet(missing) : x \notin DynSyms THEN jl' = [phase |-> "failed"] /\ UNCHANGED linked
             ELSE /\ linked' = Append(linked,
                        [imports |-> missing,
                         segs |-> [i \in DOMAIN l.outseg |-> OutSegment(l, i, junk)],
                         exports |-> {[name |-> x, seg |-> l.labs[x].seg, val |-> l.labs[x].val] :
                                         x \in {y \in DOMAIN l.labs : l.labs[y].export}},
                         sizes |-> [id \in DOMAIN l.segs |-> l.segs[id].size]])
                  /\ jl' = IF Len(linked') = NumFiles THEN [phase |-> "over"]
                              ELSE [phase |-> "files", l |-> NewLinker(Behind(Len(linked')))]
    /\ UNCHANGED <<how, memory>>

-----------------------------------------------------------------------------
(* The loader.  Every segment that need not be in the data bank gets a     *)
(* bank of its own here, and the data segments of the program and its      *)
(* libraries are put into one, the program's first.                        *)

DBRSize(f) == FoldLeft(LAMBDA n, s : n + (IF "DBR" \in s.flags THEN s.size ELSE 0), 0, linked[f].segs)

(* Where the data of file f begins, when that of the program does at base. *)
DataBank(f, base) ==
    IF f = NumFiles THEN base ELSE base + FoldLeft(LAMBDA n, g : n + DBRSize(g), 0, [i \in 1..(NumFiles - f) |-> f + i])

NewPC(f, i, off, base) ==
    LET before == SelectSeq(SubSeq(linked[f].segs, 1, i - 1), LAMBDA s : "DBR" \in s.flags)
    IN  IF "DBR" \in linked[f].segs[i].flags
        THEN DataBank(f, base) + FoldLeft(LAMBDA n, s : n + s.size, 0, before)
        ELSE (16 * f + i) * 65536 + off

(* mapFiles: from the program on, each file's segments get their places    *)
(* before anything is relocated.                                           *)
mapFiles ==
    /\ NumFiles > 0 /\ Len(linked) = NumFiles /\ memory = <<>>
    /\ \E off \in [1..NumFiles -> Offsets], base \in Offsets :
         memory' = [f \in 1..NumFiles |->
            [segs |-> [i \in DOMAIN linked[f].segs |->
                         [newpc |-> NewPC(f, i, off[f], 131072 + base), data |-> linked[f].segs[i].data]],
             done |-> FALSE, bad |-> FALSE]]
    /\ UNCHANGED <<how, jl, linked>>

(* doexp and prpUndef: a global is an offset from its segment's start.     *)
Global(name) ==
    LET f == CHOOSE f \in 1..(NumFiles - 1) : \E e \in linked[f].exports : e.name = name
        e == CHOOSE e \in linked[f].exports : e.name = name
    IN  IF e.seg = 0 THEN e.val ELSE memory[f].segs[e.seg].newpc + e.val - linked[f].segs[e.seg].startpc

(* One relocation in segment i of file f.  A segment within one bank needs *)
(* no low bytes to find its bank, an import does; a loader that reads them *)
(* where there are none loses its place.  RHIGH it does not know.          *)
doreloc(f, x, e) ==
    LET at == x.at + GapOf(e.gap)
        seg == linked[f].segs[e.seg]
        newpc == memory[f].segs[e.seg].newpc
        offs == IF e.seg = 0 THEN Global(linked[f].imports[e.imp + 1]) ELSE newpc - seg.startpc
        inbank == e.seg # 0 /\ "NOCROSS" \in seg.flags
        v == CASE e.kind = "RSEG" -> IF inbank THEN newpc \div 65536
                                               ELSE (offs + e.extra[1] + x.data[at] * 65536) \div 65536
               [] OTHER -> offs + ReadBytes(x.data, at, Width(e.kind))
    IN  IF x.bad \/ e.kind = "RHIGH" \/ (e.seg = 0 /\ e.imp \notin 0..(Len(linked[f].imports) - 1))
                 \/ (e.kind = "RSEG" /\ inbank # (e.extra = <<>>))
        THEN [x EXCEPT !.bad = TRUE]
        ELSE [x EXCEPT !.at = at, !.data = Sets(@, at, v, Width(e.kind))]

relFile(f) ==
    /\ f \in DOMAIN memory /\ ~memory[f].done /\ \A g \in (f + 1)..NumFiles : memory[g].done
    /\ LET done == [i \in DOMAIN linked[f].segs |->
                      FoldLeft(LAMBDA x, e : doreloc(f, x, e),
                               [at |-> -1, data |-> memory[f].segs[i].data, bad |-> FALSE], linked[f].segs[i].rel)]
       IN  memory' = [memory EXCEPT
                ![f] = [segs |-> [i \in DOMAIN done |-> [newpc |-> @.segs[i].newpc, data |-> done[i].data]],
                        done |-> TRUE, bad |-> \E i \in DOMAIN done : done[i].bad]]
    /\ UNCHANGED <<how, jl, linked>>

LinkInit == how = [files |-> <<>>, pack |-> 0] /\ jl = [phase |-> "idle"] /\ linked = <<>> /\ memory = <<>>

LinkNext ==
    \/ Invoked \/ linkfile \/ dopack \/ reloc
    \/ mapFiles
    \/ \E f \in 1..NumFiles : relFile(f)

ToolsInit == AsmInit /\ LinkInit
ToolsNext == (AsmNext /\ UNCHANGED linkVars) \/ (LinkNext /\ UNCHANGED asmVars)
ToolsSpec == ToolsInit /\ [][ToolsNext]_<<asmVars, linkVars>>

-----------------------------------------------------------------------------
(* What a source means.  The blocks around line i, the innermost first,    *)
(* each by the line that opens it and the outermost as 0.                  *)
Blocks(src, i) ==
    FoldLeftDomain(LAMBDA path, j : CASE src[j].does.is = "(" -> <<j>> \o path
                                      [] src[j].does.is = ")" -> Tail(path)
                                      [] OTHER -> path,
                   <<0>>, SubSeq(src, 1, i - 1))

Outwards(path, n) == SubSeq(path, IF n < Len(path) THEN n + 1 ELSE Len(path), Len(path))

Exported(src, name) == \E j \in DOMAIN src : src[j].does.is = "export" /\ src[j].does.e = name
BlockOf(src, d) == IF Exported(src, src[d].name) THEN 0 ELSE Head(Outwards(Blocks(src, d), src[d].up))
Definitions(src, name, block) == {d \in DOMAIN src : src[d].name = name /\ BlockOf(src, d) = block}

(* The place <<o, line>> where the name is meant: in the nearest block     *)
(* around it that has it, or else in another file, a library among them.   *)
MeantIn(p, name, block) == <<p, CHOOSE d \in Definitions(sources[p], name, block) : TRUE>>
Meant(o, i, name, up) ==
    LET src == sources[o]
        near == SelectSeq(Outwards(Blocks(src, i), up), LAMBDA b : Definitions(src, name, b) # {})
        far == {p \in DOMAIN sources : p # o /\ Definitions(sources[p], name, 0) # {}}
    IN  IF near # <<>> THEN MeantIn(o, name, Head(near)) ELSE MeantIn(CHOOSE p \in far : TRUE, name, 0)

FileOf(o) == CHOOSE f \in 1..NumFiles : o \in FirstObject(f)..(Behind(f) - 1)

(* Where place n of segment s of object o is in output segment i of file   *)
(* f, and in memory.                                                       *)
SegmentOf(o, s, f) == CHOOSE i \in DOMAIN linked[f].segs : <<o, s>> \in ToSet(linked[f].segs[i].parts)
Within(o, s, n, f, parts) ==
    n + FoldLeft(LAMBDA m, id : m + linked[f].sizes[id], 0,
                 SubSeq(parts, 1, SelectInSeq(parts, LAMBDA id : id = <<o, s>>) - 1))
LoadedAt(o, s, n, f, i) == memory[f].segs[i].newpc + Within(o, s, n, f, linked[f].segs[i].parts)
LoadedIn(o, s, n, f) == LoadedAt(o, s, n, f, SegmentOf(o, s, f))
Loaded(o, s, n) == LoadedIn(o, s, n, FileOf(o))

\* Where what stands on line d[2] of source d[1] is.
Address(d) ==
    LET place == objects[d[1]].places[d[2]]
    IN  IF place.abs THEN place.val ELSE Loaded(d[1], place.seg - 2, place.at)

RECURSIVE Means(_, _, _, _)
LabelMeans(d, there) ==
    LET equ == sources[d[1]][d[2]].equ
    IN  IF equ.is = "none" THEN there ELSE Means(d[1], d[2], equ, there)

Means(o, i, e, here) ==
    CASE e.is = "val" -> e.n
      [] e.is = "here" -> here
      [] e.is = "()" -> Means(o, i, e.e, here)
      [] e.is = "calc" -> Combine(e.op, SABS, Means(o, i, e.l, here), [Asked EXCEPT !.val = Means(o, i, e.r, here)]).val
      [] e.is = "lab" -> LET d == Meant(o, i, e.name, e.up) IN LabelMeans(d, Address(d))

Part(part, v) == CASE part = ">" -> v \div 256 [] part = "^" -> v \div 65536 [] OTHER -> v

InMemory(o, s, n, size) ==
    LET f == FileOf(o)
        i == SegmentOf(o, s, f)
        at == Within(o, s, n, f, linked[f].segs[i].parts)
    IN  [k \in 1..size |-> memory[f].segs[i].data[at + k - 1]]

(* The bytes that reference r of object o asks for, being at here.         *)
Intended(o, r, here) ==
    LET does == sources[o][r.line].does
        v == Means(o, r.line, IF does.is = "op" THEN does.e ELSE does.es[r.k], here)
    IN  LowBytes(IF r.relative THEN v - (here + r.size + 1) ELSE Part(r.part, v), r.size)

IsLoaded == memory # <<>> /\ \A f \in DOMAIN memory : memory[f].done /\ ~memory[f].bad
HasHigh(f) == \E i \in DOMAIN linked[f].segs : \E e \in ToSet(linked[f].segs[i].rel) : e.kind = "RHIGH"

(* In a program that is loaded, every operand and every datum is what its  *)
(* expression says, with each label at the place where what it stands      *)
(* before has come to lie: through scopes, passes, relocation entries,     *)
(* merged and packed segments, imports and libraries (getlabel, blockEnd,  *)
(* outbytes, mergeseg, relseg, prepImpExp, doreloc).  The loader refuses   *)
(* nothing that the linker wrote but the high byte of an address.          *)
LoadedRight ==
    /\ \A f \in DOMAIN memory : memory[f].bad => HasHigh(f)
    /\ IsLoaded => \A o \in DOMAIN objects : \A r \in objects[o].refs :
           InMemory(o, r.seg - 2, r.at, r.size) = Intended(o, r, Loaded(o, r.seg - 2, r.here))
=============================================================================
