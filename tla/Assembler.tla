------------------------------ MODULE Assembler ------------------------------
(***************************************************************************)
(* The assembler ja: src/btools/parse.c, which gives labels their scopes,  *)
(* and asm.c, which passes over what was parsed until every expression is  *)
(* resolved, and once more to put the code out.  Source lines are records, *)
(* expressions trees, and an instruction has the operand sizes of optab.   *)
(*                                                                         *)
(* An object's bytes are a function from the places that were written to   *)
(* what is there; .dsb leaves its own out.  places and refs are not in the *)
(* file: where each line came to lie, and what was written for which       *)
(* expression.                                                             *)
(***************************************************************************)
EXTENDS Integers, SequencesExt

CONSTANTS
    Jobs,      \* what to build, each a sequence of sources
    Rubbish    \* what a variable may hold that was never set

VARIABLES
    sources,   \* the one of Jobs
    objects,   \* the object files written so far, by the place of their source
    ja         \* the assembler at work on the next one

asmVars == <<sources, objects, ja>>

-----------------------------------------------------------------------------
(* Source lines *)

Val(n) == [is |-> "val", n |-> n]
OuterRef(up, name) == [is |-> "lab", up |-> up, name |-> name]
Ref(name) == OuterRef(0, name)
Here == [is |-> "here"]
Calc(op, l, r) == [is |-> "calc", op |-> op, l |-> l, r |-> r]
Brackets(e) == [is |-> "()", e |-> e]

Nothing == [is |-> "none"]
Op(m, how, part, e) == [is |-> "op", m |-> m, how |-> how, part |-> part, e |-> e]
Data(size, part, es) == [is |-> "data", size |-> size, part |-> part, es |-> es]
Given(word, e) == [is |-> word, e |-> e]
Plain(word) == [is |-> word]

(* up is the number of & in front of a label.                              *)
Line(does) == [name |-> "", up |-> 0, redef |-> FALSE, equ |-> Nothing, does |-> does]
Label(name, does) == [Line(does) EXCEPT !.name = name]
Equals(name, e) == [Line(Nothing) EXCEPT !.name = name, !.equ = e]
Redefines(name, e) == [Equals(name, e) EXCEPT !.redef = TRUE]

SUNDEF == 0
SABS == 1
SCODE == 3
SDATA == 4
SBSS == 5
Segments == {SUNDEF, SABS, SCODE, SDATA, SBSS}
Bytesless == {SUNDEF, SABS, SBSS}
Startpc(seg) == CASE seg = SCODE -> 4096 [] seg = SDATA -> 16384 [] seg = SBSS -> 32768 [] OTHER -> 0
FlagsOf(seg) == CASE seg = SCODE -> {"RO", "NOCROSS"} [] seg = SDATA -> {"DBR", "NOCROSS"}
                  [] seg = SBSS -> {"BLANK", "DBR", "NOCROSS"} [] OTHER -> {"BLANK"}

optab == [lda |-> {"IMM", "ZP", "ABS", "ABSL"}, ldx |-> {"IMM", "ZP", "ABS"}, inx |-> {"IMPL"},
          jmp |-> {"ABS", "ABSL"}, jsl |-> {"ABSL"}, bra |-> {"REL"}, brl |-> {"RELL"}, pei |-> {"ZP"}]
Jumps == {"jmp", "jsl"}
tozp(mode) == CASE mode = "ABS" -> "ZP" [] mode = "ABSL" -> "ABS" [] OTHER -> mode
tolong(mode) == IF mode = "ABS" THEN "ABSL" ELSE mode
adlen(mode) == CASE mode = "IMPL" -> 1 [] mode \in {"ABS", "RELL"} -> 3 [] mode = "ABSL" -> 4 [] OTHER -> 2

-----------------------------------------------------------------------------
(* parse.c.  A parser p has the labels by their numbers, for each scope    *)
(* the names in it, and the places of conditions that are not closed.      *)

NewParser ==
    [parsed |-> <<>>, labels |-> <<>>, LabTable |-> [s \in 0..7 |-> <<>>], scope |-> 0, open |-> <<>>,
     stopped |-> FALSE]

LookUp(p, s, name) == IF name \in DOMAIN p.LabTable[s] THEN p.LabTable[s][name] ELSE 0

getlabel(p, labscope, define, name, canred) ==
    LET global == LookUp(p, 0, name)
        list == IF define /\ global # 0 /\ p.labels[global].exported THEN 0 ELSE labscope
        cur == LookUp(p, list, name)
        fresh == [name |-> name, value |-> 0, seg |-> 0, impnum |-> -1, canredef |-> canred,
                  hasdef |-> define, exported |-> FALSE, next |-> 0]
    IN  IF cur = 0
        THEN [p |-> [p EXCEPT !.labels = Append(@, fresh),
                              !.LabTable[list] = (name :> Len(p.labels) + 1) @@ @],
              lab |-> Len(p.labels) + 1]
        ELSE LET lab == p.labels[cur]
             IN  [p |-> IF define THEN [p EXCEPT !.labels[cur].canredef = @ \/ canred, !.labels[cur].hasdef = TRUE,
                                                 !.stopped = @ \/ (lab.hasdef /\ ~canred /\ ~lab.canredef)]
                                  ELSE p,
                  lab |-> cur]

Upwards(s, n) == IF s > n THEN s - n ELSE 0
Emit(p, s) == [p EXCEPT !.parsed = Append(@, s)]
Upto(p) == Len(p.parsed) + 1

RECURSIVE parexpr(_, _)
parexpr(p, e) ==
    CASE e.is = "lab" -> LET g == getlabel(p, Upwards(p.scope, e.up), FALSE, e.name, FALSE)
                         IN  [p |-> g.p, e |-> [is |-> "lab", lab |-> g.lab]]
      [] e.is = "()" -> LET x == parexpr(p, e.e) IN [p |-> x.p, e |-> Brackets(x.e)]
      [] e.is = "calc" -> LET l == parexpr(p, e.l)
                              r == parexpr(l.p, e.r)
                          IN  [p |-> r.p, e |-> Calc(e.op, l.e, r.e)]
      [] OTHER -> [p |-> p, e |-> e]

parexprs(p, es) ==
    FoldLeft(LAMBDA x, e : LET y == parexpr(x.p, e) IN [p |-> y.p, es |-> Append(x.es, y.e)],
             [p |-> p, es |-> <<>>], es)

(* The address mode, and whether it is forced.                             *)
domnemo(m, how) ==
    LET wanted == CASE how = "" -> "IMPL" [] how = "#" -> "IMM" [] how = "@" -> "ABSL"
                    [] how = "!" -> "ABS"
                    [] OTHER -> IF optab[m] \cap {"ABS", "ABSL"} = {"ABSL"} THEN "ABSL" ELSE "ABS"
        mode == CASE wanted \notin optab[m] /\ "RELL" \in optab[m] -> "RELL"
                  [] wanted = "ABS" /\ "REL" \in optab[m] -> "REL"
                  [] OTHER -> wanted
    IN  IF mode \in optab[m] THEN [mode |-> mode, force |-> how \in {"@", "!"}]
                             ELSE [mode |-> tozp(mode), force |-> TRUE]

(* A block ends: what it uses and does not define goes to the block        *)
(* around it, as a label of that or as another name of one it has.         *)
blockEnd(p) ==
    LET inner == p.LabTable[p.scope]
        outer == p.LabTable[p.scope - 1]
        free == {x \in DOMAIN inner : ~ p.labels[inner[x]].hasdef}
        known == free \cap DOMAIN outer
        moved == [p EXCEPT !.scope = @ - 1, !.LabTable[p.scope] = <<>>,
                           !.LabTable[p.scope - 1] = @ @@ [x \in free \ known |-> inner[x]]]
    IN  FoldSet(LAMBDA x, q : [q EXCEPT !.labels[inner[x]].next = outer[x], !.labels[inner[x]].seg = -1],
                moved, known)

Opens(p, at) == [p EXCEPT !.open = Append(@, at)]
Patch(p, to) == [p EXCEPT !.parsed[Last(p.open)].to = to, !.open = Front(@)]

(* s is a statement on line i.                                             *)
Parse(p, s, i) ==
    CASE s.is = "op" -> LET x == parexpr(p, s.e)
                        IN  Emit(x.p, [op |-> "MNEMO", m |-> s.m, admode |-> domnemo(s.m, s.how).mode,
                                       force |-> domnemo(s.m, s.how).force, part |-> s.part, e |-> x.e, line |-> i])
      [] s.is = "data" -> LET x == parexprs(p, s.es)
                          IN  Emit(x.p, [op |-> "BYTES", size |-> s.size, part |-> s.part, es |-> x.es, line |-> i])
      [] s.is \in {"dsb", "setabspc"} -> LET x == parexpr(p, s.e) IN Emit(x.p, [op |-> s.is, e |-> x.e])
      [] s.is \in {"segment", "ass", "acc16"} -> Emit(p, [op |-> s.is, n |-> s.e])
      [] s.is = "abs" -> LET x == parexpr(Emit(p, [op |-> "segment", n |-> SABS]), s.e)
                         IN  Emit(x.p, [op |-> "setabspc", e |-> x.e])
      [] s.is = "(" -> [p EXCEPT !.scope = @ + 1]
      [] s.is = ")" -> blockEnd(p)
      [] s.is = "export" -> LET g == getlabel(p, 0, FALSE, s.e, FALSE)
                            IN  [g.p EXCEPT !.labels[g.lab].exported = TRUE]
      [] s.is \in {"if", "while"} -> LET x == parexpr(p, s.e)
                                     IN  Opens(Emit(x.p, [op |-> "IF", e |-> x.e, to |-> 0]), Upto(p))
      [] s.is = "else" -> Opens(Emit(Patch(p, Upto(p) + 1), [op |-> "JUMP", to |-> 0]), Upto(p))
      [] s.is = "endif" -> Patch(p, Upto(p))
      [] s.is = "wend" -> Patch(Emit(p, [op |-> "JUMP", to |-> Last(p.open)]), Upto(p) + 1)
      [] s.is = "do" -> Opens(p, Upto(p))
      [] s.is = "until" -> LET x == parexpr(p, s.e)
                           IN  [Emit(x.p, [op |-> "IFN", e |-> x.e, to |-> Last(p.open)]) EXCEPT !.open = Front(@)]
      [] s.is = "none" -> p

parseline(p, l, i) ==
    LET g == getlabel(p, Upwards(p.scope, l.up), TRUE, l.name, l.redef)
        x == parexpr(g.p, IF l.equ.is = "none" THEN Here ELSE l.equ)
    IN  Parse(IF l.name = "" THEN p ELSE Emit(x.p, [op |-> "LABEL", lab |-> g.lab, e |-> x.e, line |-> i]),
              l.does, i)

parse(source) == FoldLeftDomain(LAMBDA p, i : parseline(p, source[i], i), NewParser, source)

-----------------------------------------------------------------------------
(* Expressions.  r has the globals of eval0 to eval4: the segment that the *)
(* whole is relative to (base) and the one of the last operand (lbase), 1  *)
(* for a number and 0 for an import, which is glab.  ok is "stop" when the *)
(* assembler gives up.                                                     *)

Asked == [ok |-> "yes", val |-> 0, base |-> SABS, lbase |-> SABS, glab |-> 0]
Operand(r, val, lbase) ==
    CASE r.base = SUNDEF /\ lbase # SABS -> [r EXCEPT !.ok = "no", !.lbase = lbase]
      [] r.base \notin {SUNDEF, SABS} /\ lbase \notin {SABS, r.base} -> [r EXCEPT !.ok = "stop"]
      [] OTHER -> [r EXCEPT !.val = val, !.lbase = lbase, !.base = IF @ = SABS THEN lbase ELSE @]

(* The label that a name stands for in the end.                            *)
Stands(labels, lab) ==
    LET f[i \in DOMAIN labels] == IF labels[i].seg = -1 THEN f[labels[i].next] ELSE i
    IN  f[lab]

eval4(c, e, r) ==
    CASE e.is = "val" -> Operand(r, e.n, SABS)
      [] e.is = "here" -> IF c.useabs THEN Operand(r, c.abspc, SABS) ELSE Operand(r, c.curpc, c.cur)
      [] e.is = "lab" ->
           LET i == Stands(c.labels, e.lab)
               lab == c.labels[i]
               g == IF lab.seg = SUNDEF THEN [r EXCEPT !.glab = i, !.lbase = SUNDEF] ELSE r
           IN  IF lab.seg = SUNDEF /\ lab.hasdef THEN [g EXCEPT !.ok = "no"] ELSE Operand(g, lab.value, lab.seg)

Truth(b) == IF b THEN 1 ELSE 0

(* What an operator does to left and right, tbase being left's lbase.      *)
Combine(op, tbase, val, r) ==
    CASE op = "+" -> IF tbase > SABS /\ r.lbase > SABS THEN [r EXCEPT !.ok = "stop"] ELSE [r EXCEPT !.val = val + @]
      [] op = "-" -> IF tbase > SABS /\ tbase = r.lbase
                     THEN [r EXCEPT !.val = val - @, !.base = SABS, !.lbase = SABS] ELSE [r EXCEPT !.val = val - @]
      [] op = "*" -> IF tbase # SABS \/ r.lbase # SABS THEN [r EXCEPT !.ok = "stop"] ELSE [r EXCEPT !.val = val * @]
      [] op = "<" -> [r EXCEPT !.val = Truth(val < @), !.base = SABS]
      [] op = "==" -> [r EXCEPT !.val = Truth(val = @), !.base = SABS]

RECURSIVE eval0(_, _, _)
eval0(c, e, r) ==
    CASE e.is = "()" -> LET x == eval0(c, e.e, [r EXCEPT !.base = SABS])
                        IN  IF x.ok # "yes" THEN x ELSE Operand([x EXCEPT !.base = r.base], x.val, x.base)
      [] e.is = "calc" ->
           LET left == eval0(c, e.l, r)
               right == eval0(c, e.r, left)
           IN  IF left.ok # "yes" THEN left
               ELSE IF right.ok # "yes" THEN right
               ELSE Combine(e.op, left.lbase, left.val, right)
      [] OTHER -> eval4(c, e, r)

relocmode(part) == CASE part = "" -> "RLONG" [] part = "^" -> "RSEG" [] part = "<" -> "RLOW" [] part = ">" -> "RHIGH"

evalexpr(c, e) == eval0(c, e, Asked)

(* c after an evaluation that gave r.                                      *)
Asks(c, r) ==
    CASE r.ok = "stop" -> [c EXCEPT !.stopped = TRUE]
      [] r.ok = "no" -> [c EXCEPT !.needpass = TRUE]
      [] OTHER -> c

-----------------------------------------------------------------------------
(* A pass.  c has its globals, the labels and the segments' buffers.       *)

EmptyBuffer == [n |-> 0, bytes |-> <<>>, lastrel |-> -1, rel |-> <<>>]

preppass(c) ==
    [c EXCEPT !.pcs = [s \in Segments |-> Startpc(s)], !.curpc = Startpc(SCODE), !.cur = SCODE,
              !.useabs = FALSE, !.acc16 = FALSE, !.needpass = FALSE]

LowBytes(val, size) == [i \in 1..size |-> (val \div 256 ^ (i - 1)) % 256]
Placed(at, bytes) == [k \in at..(at + Len(bytes) - 1) |-> bytes[k - at + 1]]

(* Distances of more than 254 are cut to pieces.                           *)
Gap(d) == LET k == (d - 1) \div 254 IN [i \in 1..k |-> 255] \o <<d - 254 * k>>
GapOf(gap) == FoldLeft(LAMBDA d, b : d + (IF b = 255 THEN 254 ELSE b), 0, gap)

Kind(reloc, size, tbase) ==
    LET r1 == IF reloc = "RLONG" /\ (size < 4 \/ tbase # SUNDEF) THEN "RSEGADR" ELSE reloc
        r2 == IF r1 = "RSEGADR" /\ size < 3 THEN "RWORD" ELSE r1
    IN  IF r2 = "RWORD" /\ size = 1 THEN "RLOW" ELSE r2

(* Low bytes of an address that only its high part is written of.          *)
Extra(kind, val, flags) ==
    CASE kind = "RSEG" /\ "NOCROSS" \notin flags -> <<val % 65536>>
      [] kind = "RHIGH" -> <<val % 256>>
      [] OTHER -> <<>>

Write(c, bytes) ==
    [c EXCEPT !.bufs[c.cur].bytes = Placed(c.bufs[c.cur].n, bytes) @@ @, !.bufs[c.cur].n = @ + Len(bytes)]

(* A relocation entry; the first of an import gives it its number.         *)
Relocates(c, kind, r) ==
    LET buf == c.bufs[c.cur]
        new == r.base = SUNDEF /\ c.labels[r.glab].impnum = -1
        c2 == IF new THEN [c EXCEPT !.labels[r.glab].impnum = Len(c.imports),
                                    !.imports = Append(@, c.labels[r.glab].name)] ELSE c
        entry == [gap |-> Gap(buf.n - buf.lastrel), kind |-> kind,
                  seg |-> IF r.base = SUNDEF THEN 0 ELSE r.base - SCODE + 1,
                  imp |-> IF r.base = SUNDEF THEN c2.labels[r.glab].impnum ELSE -1,
                  extra |-> Extra(kind, r.val, FlagsOf(r.base))]
    IN  [c2 EXCEPT !.bufs[c.cur].rel = Append(@, entry), !.bufs[c.cur].lastrel = buf.n]

outbytes(c, size, reloc, r) ==
    LET kind == Kind(reloc, size, r.base)
        out == CASE kind = "RSEG" -> r.val \div 65536 [] kind = "RHIGH" -> r.val \div 256 [] OTHER -> r.val
    IN  IF c.cur \in Bytesless THEN c
        ELSE Write(IF reloc # "none" /\ r.base # SABS THEN Relocates(c, kind, r) ELSE c, LowBytes(out, size))

Advance(c, n) == [c EXCEPT !.curpc = @ + n, !.abspc = IF c.useabs THEN @ + n ELSE @]

(* An expression of line i is about to be written, skip bytes from here.   *)
Noted(c, i, k, size, part, skip, relative) ==
    IF c.cur \in Bytesless THEN c
    ELSE [c EXCEPT !.refs = @ \cup {[line |-> i, k |-> k, size |-> size, part |-> part, seg |-> c.cur,
                                     at |-> c.bufs[c.cur].n + skip, here |-> c.bufs[c.cur].n, relative |-> relative]}]

Shortened(c, s, r) ==
    CASE s.admode = "IMPL" -> "IMPL"
      [] r.ok = "yes" /\ ~s.force /\ r.base = SABS /\ r.val < 256 /\ tozp(s.admode) \in optab[s.m] -> tozp(s.admode)
      [] r.ok = "yes" /\ ~s.force /\ r.base = SABS /\ r.val > 65535 /\ tolong(s.admode) \in optab[s.m] -> tolong(s.admode)
      [] r.ok = "yes" /\ r.base = SCODE /\ c.assdbr /\ s.m \notin Jumps /\ s.admode = "ABS" /\ "ABSL" \in optab[s.m] -> "ABSL"
      [] OTHER -> s.admode

dopmne(c0, s) ==
    LET r == evalexpr(c0, s.e)
        c == IF s.admode = "IMPL" THEN c0 ELSE Asks(c0, r)
        mode == Shortened(c, s, r)
        len == IF mode = "IMM" /\ c.acc16 /\ s.m = "lda" THEN 3 ELSE adlen(mode)
        relative == mode \in {"REL", "RELL"}
        away == r.val - (IF c.useabs THEN c.abspc ELSE c.curpc) - len
        reach == IF mode = "REL" THEN 128 ELSE 32768
        noted == Noted(c, s.line, 1, len - 1, s.part, 1, relative)
        coded == Write(noted, <<0>>)
    IN  Advance(CASE ~c.outputting \/ c.stopped -> c
                  [] mode \notin optab[s.m] -> [c EXCEPT !.stopped = TRUE]
                  [] c.cur \in Bytesless -> c
                  [] len = 1 -> Write(c, <<0>>)
                  [] relative -> IF r.base \notin {SABS, c.cur} \/ away \notin -reach..(reach - 1)
                                 THEN [c EXCEPT !.stopped = TRUE]
                                 ELSE outbytes(coded, len - 1, "none", [r EXCEPT !.val = away])
                  [] OTHER -> outbytes(coded, len - 1, relocmode(s.part), r), len)

dobytes(c, s) ==
    FoldLeftDomain(
        LAMBDA d, k :
            LET r == evalexpr(d, s.es[k])
                out == IF d.outputting /\ r.ok = "yes"
                       THEN outbytes(Noted(d, s.line, k, s.size, s.part, 0, FALSE), s.size, relocmode(s.part), r)
                       ELSE d
            IN  Advance(Asks(out, r), s.size),
        c, s.es)

(* With an expression that cannot be resolved yet, .dsb leaves as much     *)
(* room as its variable happens to say.                                    *)
dodsb(c, s) ==
    LET r == evalexpr(c, s.e)
        len == IF r.ok = "yes" THEN r.val ELSE c.rubbish
        left == IF c.outputting /\ c.cur \notin Bytesless THEN [c EXCEPT !.bufs[c.cur].n = @ + len] ELSE c
    IN  Advance(Asks(left, r), len)

dosegment(c, n) ==
    IF n = c.cur THEN [c EXCEPT !.useabs = FALSE]
    ELSE [c EXCEPT !.useabs = FALSE, !.pcs[c.cur] = c.curpc, !.cur = n, !.curpc = c.pcs[n]]

(* dolabel with no further pass for a label that has moved.                *)
dolabelOnce(c0, s) ==
    LET r == evalexpr(c0, s.e)
        c == Asks(c0, r)
        valued == [c EXCEPT !.labels[s.lab].value = r.val, !.labels[s.lab].seg = r.base,
                            !.places = (s.line :> [seg |-> c.cur, abs |-> c.useabs, val |-> r.val,
                                                   at |-> IF c.cur \in Bytesless THEN c.curpc - Startpc(c.cur)
                                                                             ELSE c.bufs[c.cur].n]) @@ @]
    IN  CASE r.ok # "yes" -> c
          [] OTHER -> valued

dolabel(c0, s) ==
    LET r == evalexpr(c0, s.e)
        c == Asks(c0, r)
        lab == c.labels[s.lab]
        valued == [c EXCEPT !.labels[s.lab].value = r.val, !.labels[s.lab].seg = r.base,
                            !.places = (s.line :> [seg |-> c.cur, abs |-> c.useabs, val |-> r.val,
                                                   at |-> IF c.cur \in Bytesless THEN c.curpc - Startpc(c.cur)
                                                                             ELSE c.bufs[c.cur].n]) @@ @]
    IN  CASE r.ok # "yes" -> c
          [] lab.seg = SUNDEF \/ lab.canredef \/ (r.val = lab.value /\ r.base = lab.seg) -> valued
          [] OTHER -> [valued EXCEPT !.needpass = TRUE]

(* Where the pass goes on after statement i; .until goes back as long as   *)
(* its expression is true.                                                 *)
After(c, s, i) ==
    CASE s.op = "IF" -> LET r == evalexpr(c, s.e) IN IF r.ok = "yes" /\ r.val # 0 THEN i + 1 ELSE s.to
      [] s.op = "IFN" -> LET r == evalexpr(c, s.e) IN IF r.ok = "yes" /\ r.val = 0 THEN i + 1 ELSE s.to
      [] s.op = "JUMP" -> s.to
      [] OTHER -> i + 1

Statement(c, s) ==
    CASE s.op = "LABEL" -> dolabel(c, s)
      [] s.op = "MNEMO" -> dopmne(c, s)
      [] s.op = "BYTES" -> dobytes(c, s)
      [] s.op = "dsb" -> dodsb(c, s)
      [] s.op = "segment" -> dosegment(c, s.n)
      [] s.op = "setabspc" -> LET r == evalexpr(c, s.e)
                              IN  [Asks(c, r) EXCEPT !.useabs = TRUE, !.abspc = IF r.ok = "yes" THEN r.val ELSE c.rubbish]
      [] s.op = "acc16" -> [c EXCEPT !.acc16 = s.n]
      [] s.op = "ass" -> [c EXCEPT !.assdbr = s.n]
      [] s.op \in {"IF", "IFN"} -> Asks(c, evalexpr(c, s.e))
      [] s.op = "JUMP" -> c

-----------------------------------------------------------------------------
NoSource == [phase |-> "idle"]
MaxPasses == 20

AsmInit == sources \in Jobs /\ objects = <<>> /\ ja = NoSource

Parses ==
    /\ ja = NoSource /\ Len(objects) < Len(sources)
    /\ LET p == parse(sources[Len(objects) + 1])
       IN  ja' = IF p.stopped THEN [phase |-> "failed"]
                 ELSE [phase |-> "pass", parsed |-> p.parsed, i |-> 1, passup |-> 1, planned |-> <<>>,
                  c |-> preppass([labels |-> p.labels, globals |-> p.LabTable[0], pcs |-> <<>>, curpc |-> 0,
                         cur |-> SCODE, useabs |-> FALSE, abspc |-> 0, acc16 |-> FALSE, assdbr |-> FALSE,
                         needpass |-> FALSE, outputting |-> FALSE, bufs |-> [s \in Segments |-> EmptyBuffer],
                         imports |-> <<>>, places |-> <<>>, refs |-> {}, rubbish |-> 0, stopped |-> FALSE])]
    /\ UNCHANGED <<sources, objects>>

(* dopass, one statement.                                                  *)
dopass ==
    /\ ja.phase \in {"pass", "output"} /\ ja.i <= Len(ja.parsed)
    /\ \E junk \in IF ja.parsed[ja.i].op \in {"dsb", "setabspc"} THEN Rubbish ELSE {0} :
         LET s == ja.parsed[ja.i]
             c == Statement([ja.c EXCEPT !.rubbish = junk], s)
         IN  ja' = IF c.stopped THEN [phase |-> "failed"]
                   ELSE [ja EXCEPT !.i = After(ja.c, s, @), !.c = [c EXCEPT !.rubbish = 0]]
    /\ UNCHANGED <<sources, objects>>

PassEnds(phase) == ja.phase = phase /\ ja.i > Len(ja.parsed)
FinalPcs == [ja.c.pcs EXCEPT ![ja.c.cur] = ja.c.curpc]

(* Passes until nothing is open; after MaxPasses the assembler gives up.   *)
(* The segments get the room that the last pass needed.                    *)
Pass ==
    /\ PassEnds("pass")
    /\ ja' = CASE ja.c.needpass /\ ja.passup < MaxPasses -> [ja EXCEPT !.i = 1, !.c = preppass(@), !.passup = @ + 1]
               [] ja.c.needpass /\ ja.passup = MaxPasses -> [phase |-> "failed"]
               [] OTHER -> [ja EXCEPT !.phase = "output", !.i = 1, !.planned = FinalPcs,
                                      !.c = [preppass(@) EXCEPT !.outputting = TRUE]]
    /\ UNCHANGED <<sources, objects>>

(* Every label of the outermost scope that has a value is exported.        *)
getglobs(c) ==
    {[name |-> x, val |-> c.labels[c.globals[x]].value,
      seg |-> IF c.labels[c.globals[x]].seg = SABS THEN 0 ELSE c.labels[c.globals[x]].seg - SCODE + 1] :
       x \in {y \in DOMAIN c.globals : c.labels[c.globals[y]].seg # SUNDEF}}

(* The file has as many bytes of each segment as were planned.             *)
output ==
    /\ PassEnds("output")
    /\ LET Size(s) == ja.planned[s] - Startpc(s)
           buf == ja.c.bufs
       IN  objects' = Append(objects,
             [imports |-> ja.c.imports, exports |-> getglobs(ja.c),
              segs |-> [s \in 1..3 |-> [startpc |-> Startpc(s + 2), size |-> Size(s + 2), flags |-> FlagsOf(s + 2),
                                        bytes |-> buf[s + 2].bytes, rel |-> buf[s + 2].rel, written |-> buf[s + 2].n]],
              places |-> ja.c.places, refs |-> ja.c.refs])
    /\ ja' = NoSource
    /\ UNCHANGED sources

AsmNext == Parses \/ dopass \/ Pass \/ output

-----------------------------------------------------------------------------
(* The last pass puts out what the passes before it made room for: no      *)
(* operand, condition or .dsb comes out otherwise when everything seemed   *)
(* resolved (dopass sets needpass; output asks for no further pass).       *)
OutputAsPlanned ==
    \A o \in DOMAIN objects, s \in 1..2 : objects[o].segs[s].written = objects[o].segs[s].size
=============================================================================
