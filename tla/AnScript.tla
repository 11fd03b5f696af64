------------------------------- MODULE AnScript -------------------------------
(***************************************************************************)
(* The script language of src/programs/sysapps/an.c: a compiler of one     *)
(* pass, function by function, to the code of a stack machine, and the     *)
(* machine.  A script is a tree here, written out as tokens with no more   *)
(* brackets than the grammar needs; what it is to do is said by Evaluate   *)
(* and Perform on the tree, and the compiler has only the tokens.          *)
(*                                                                         *)
(* Instructions have no length and a constant string is its own number.    *)
(* Scripts have no syntax errors, assign a variable before they read it,   *)
(* and branch on numbers: BEQ and BNE look at a.val even of a string.      *)
(* They use no globals, for which execute has no instructions.             *)
(***************************************************************************)
EXTENDS Integers, SequencesExt

CONSTANT Scripts     \* sequences of functions [name, params, body]

VARIABLES
    tree,          \* the script
    parser,        \* the compiler's globals
    MainBuf,       \* the code so far
    offsets,       \* where the functions begin in it
    running,       \* the calls of execute that have not returned: [pc, bp, sp]
    acc,           \* the variable a
    stack          \* the array of that name

anVars == <<tree, parser, MainBuf, offsets, running, acc, stack>>

-----------------------------------------------------------------------------
(* Trees, and how they are written *)

Num(n) == [is |-> "num", n |-> n]
Str(s) == [is |-> "str", s |-> s]
Loc(x) == [is |-> "loc", x |-> x]
Call(f, args) == [is |-> "call", f |-> f, args |-> args]
Not(e) == [is |-> "not", e |-> e]
Bin(op, l, r) == [is |-> "bin", op |-> op, l |-> l, r |-> r]
Let(v, e) == [is |-> "let", v |-> v, e |-> e]
LetOp(v, op, e) == [is |-> "letop", v |-> v, op |-> op, e |-> e]
Incr(v, op) == [is |-> "incr", v |-> v, op |-> op]
Chain(op, es) == [is |-> "chain", op |-> op, es |-> es]

Do(e) == [is |-> "expr", e |-> e]
Block(ss) == [is |-> "block", ss |-> ss]
If(c, s) == [is |-> "if", c |-> c, s |-> s, else |-> Block(<<>>)]
IfElse(c, s, t) == [If(c, s) EXCEPT !.else = t]
While(c, s) == [is |-> "while", c |-> c, s |-> s]
DoWhile(s, c) == [is |-> "do", c |-> c, s |-> s]
For(e, c, i, s) == [is |-> "for", e |-> e, c |-> c, i |-> i, s |-> s]
Return(e) == [is |-> "return", e |-> e]

Tok(t) == <<[t |-> t]>>
Products == {"*", "/", "%"}
Sums == {"+", "-", "@"}

Level(e) ==
    CASE e.is \in {"num", "str", "loc", "call"} -> 1
      [] e.is = "bin" /\ e.op \in Products -> 2
      [] e.is = "not" -> 3
      [] e.is = "bin" /\ e.op \in Sums -> 4
      [] e.is = "chain" -> 6
      [] OTHER -> 5

RECURSIVE WriteExpr(_, _)
WriteExpr(e, level) ==
    IF Level(e) > level THEN Tok("(") \o WriteExpr(e, 6) \o Tok(")")
    ELSE CASE e.is = "num" -> <<[t |-> "ICON", n |-> e.n]>>
           [] e.is = "str" -> <<[t |-> "SCON", s |-> e.s]>>
           [] e.is = "loc" -> <<[t |-> "ID", id |-> e.x]>>
           [] e.is = "call" ->
                <<[t |-> "ID", id |-> e.f]>> \o Tok("(")
                \o FoldLeft(LAMBDA ts, a : (IF ts = <<>> THEN ts ELSE ts \o Tok(",")) \o WriteExpr(a, 6), <<>>, e.args)
                \o Tok(")")
           [] e.is = "not" -> Tok("!") \o WriteExpr(e.e, 3)
           [] e.is = "bin" ->
                LET l == CASE e.op \in Products -> 2 [] OTHER -> 4
                    r == CASE e.op \in Products -> 1 [] e.op \in Sums -> 3 [] OTHER -> 5
                IN  WriteExpr(e.l, l) \o Tok(e.op) \o WriteExpr(e.r, r)
           [] e.is = "let" -> WriteExpr(e.v, 1) \o Tok("=") \o WriteExpr(e.e, 5)
           [] e.is = "letop" -> WriteExpr(e.v, 1) \o Tok(e.op) \o Tok("=") \o WriteExpr(e.e, 5)
           [] e.is = "incr" -> WriteExpr(e.v, 1) \o Tok(e.op \o e.op)
           [] e.is = "chain" ->
                FoldLeft(LAMBDA ts, a : (IF ts = <<>> THEN ts ELSE ts \o Tok(e.op)) \o WriteExpr(a, 5), <<>>, e.es)

Cond(e) == Tok("(") \o WriteExpr(e, 6) \o Tok(")")

RECURSIVE WriteStmt(_)
WriteStmt(s) ==
    CASE s.is = "expr" -> WriteExpr(s.e, 6) \o Tok(";")
      [] s.is = "block" ->
           IF s.ss = <<>> THEN Tok(";")
           ELSE Tok("{") \o FlattenSeq([i \in DOMAIN s.ss |-> WriteStmt(s.ss[i])]) \o Tok("}")
      [] s.is = "if" -> Tok("IF") \o Cond(s.c) \o WriteStmt(s.s)
                        \o (IF s.else.is = "block" /\ s.else.ss = <<>> THEN <<>> ELSE Tok("ELSE") \o WriteStmt(s.else))
      [] s.is = "while" -> Tok("WHILE") \o Cond(s.c) \o WriteStmt(s.s)
      [] s.is = "do" -> Tok("DO") \o WriteStmt(s.s) \o Tok("WHILE") \o Cond(s.c)
      [] s.is = "for" -> Tok("FOR") \o Tok("(") \o WriteExpr(s.e, 6) \o Tok(";") \o WriteExpr(s.c, 6) \o Tok(";")
                         \o WriteExpr(s.i, 6) \o Tok(")") \o WriteStmt(s.s)
      [] s.is = "return" -> Tok("RETURN") \o WriteExpr(s.e, 6) \o Tok(";")

WriteFunc(f) ==
    Tok("FUNC") \o <<[t |-> "ID", id |-> f.name]>> \o Tok("(")
    \o FlattenSeq([i \in DOMAIN f.params |-> (IF i = 1 THEN <<>> ELSE Tok(",")) \o <<[t |-> "ID", id |-> f.params[i]]>>])
    \o Tok(")") \o WriteStmt(f.body)

-----------------------------------------------------------------------------
(* The compiler.  A parser is a record of its globals: the tokens left     *)
(* (t is the first), the two buffers code is put in and which of them is   *)
(* CurBuf, the symbols by their numbers, marks and varnum.                 *)

NewCompiler(toks) ==
    [toks |-> toks, CurBuf |-> "FuncBuf", FuncBuf |-> <<>>, temp |-> <<>>,
     Locals |-> <<>>, Funcs |-> <<>>, marks |-> <<>>, varnum |-> 0]

t(s) == Head(s.toks).t
gettok(s) == [s EXCEPT !.toks = Tail(@)]
expect(s, type) == IF t(s) = type THEN gettok(s) ELSE Assert(FALSE, <<"Syntax error", s.toks, type>>)
putop(s, op, n) == [s EXCEPT ![s.CurBuf] = Append(@, [op |-> op, n |-> n])]

Position(table, id) == SelectInSeq(table, LAMBDA x : x = id)

(* addlocal and addfunc: the number of a symbol, old or new.               *)
AddSymbol(s, table, id) ==
    IF Position(s[table], id) # 0
    THEN [s EXCEPT !.varnum = Position(s[table], id) - 1]
    ELSE [s EXCEPT ![table] = Append(@, id), !.varnum = Len(s[table])]

(* Labels count from 1.  markit looks at FuncBuf whatever CurBuf is.       *)
getlabels(s, how) == [s EXCEPT !.marks = @ \o [i \in 1..how |-> -1]]
markit(s, lab) == [s EXCEPT !.marks[lab] = Len(s.FuncBuf)]
dobra(s, type, lab) == putop(s, type, lab)

(* The functions of the grammar call each other through Compile, which     *)
(* does what the one called rule does.                                     *)
RECURSIVE Compile(_, _)

RECURSIVE Arguments(_, _)
Arguments(s, parms) ==
    IF t(s) = ")" THEN [s |-> s, parms |-> parms]
    ELSE LET arg == putop(Compile("doexpr2", s), "PHA", 0)
         IN  Arguments(IF t(arg) # ")" THEN expect(arg, ",") ELSE arg, parms - 1)

CallsFunction(s, f) ==
    LET named == AddSymbol(s, "Funcs", f)
        args == Arguments(expect(named, "("), 0)
    IN  putop(putop(expect(args.s, ")"), "JSR", named.varnum), "LOCL", args.parms)

ReadsVariable(s, id) ==
    LET named == AddSymbol(s, "Locals", id)
    IN  IF t(s) = "=" THEN named ELSE putop(named, "LDAS", named.varnum)

doterm2(s) ==
    LET tok == Head(s.toks)
    IN  CASE tok.t = "(" -> expect(Compile("doexpr2", expect(s, "(")), ")")
          [] tok.t = "ID" -> IF t(gettok(s)) = "(" THEN CallsFunction(gettok(s), tok.id)
                             ELSE ReadsVariable(gettok(s), tok.id)
          [] tok.t = "ICON" -> putop(gettok(s), "LDA", tok.n)
          [] tok.t = "SCON" -> putop(gettok(s), "LDAT", tok.s)

Opcode(sign) ==
    CASE sign = "+" -> "ADD" [] sign = "-" -> "SUB" [] sign = "*" -> "MUL" [] sign = "/" -> "DIV"
      [] sign = "%" -> "MOD" [] sign = "@" -> "CAT" [] sign = "<" -> "CMPL" [] sign = "<=" -> "CMPLE"
      [] sign = "==" -> "CMPEQ" [] sign = "!=" -> "CMPNE" [] sign = ">" -> "CMPG" [] sign = ">=" -> "CMPGE"

RECURSIVE MoreFactors(_)
MoreFactors(s) ==
    IF t(s) \notin Products THEN s
    ELSE MoreFactors(putop(Compile("doterm2", putop(gettok(s), "PHA", 0)), Opcode(t(s)), 0))

doterm(s) == IF t(s) = "!" THEN putop(Compile("doterm", gettok(s)), "NOT", 0) ELSE MoreFactors(Compile("doterm2", s))

(* The loop of doexpr, with opassign.                                      *)
RECURSIVE MoreTerms(_, _)
MoreTerms(s, assign) ==
    IF t(s) \notin Sums THEN [s |-> s, assign |-> assign]
    ELSE LET pushed == putop(gettok(s), "PHA", 0)
             assigns == t(pushed) = "="
             right == IF assigns THEN Compile("doexpr", gettok(pushed)) ELSE Compile("doterm", pushed)
         IN  MoreTerms(putop(right, Opcode(t(s)), 0), assigns)

doexpr(s0) ==
    LET first == Compile("doterm", s0)
        sum == MoreTerms(first, FALSE)
        s == sum.s
        e == CASE t(s) = "=" -> [s |-> Compile("doexpr", gettok(s)), assign |-> TRUE]
               [] t(s) \in {"++", "--"} ->
                    [s |-> putop(putop(putop(gettok(s), "PHA", 0), "LDA", 1),
                                 IF t(s) = "++" THEN "ADD" ELSE "SUB", 0), assign |-> TRUE]
               [] t(s) \in {"<", "<=", "==", "!=", ">", ">="} ->
                    [s |-> putop(Compile("doexpr", putop(gettok(s), "PHA", 0)), Opcode(t(s)), 0), assign |-> sum.assign]
               [] OTHER -> sum
    IN  IF e.assign THEN putop(e.s, "STAS", first.varnum) ELSE e.s

(* All operators of a chain branch to the same label, behind the last.     *)
RECURSIVE MoreExprs(_, _)
MoreExprs(s, shortcut) ==
    IF t(s) \notin {"&&", "||"}
    THEN IF shortcut = 0 THEN s ELSE markit(s, shortcut)
    ELSE LET labelled == IF shortcut = 0 THEN getlabels(gettok(s), 1) ELSE gettok(s)
             lab == IF shortcut = 0 THEN Len(labelled.marks) ELSE shortcut
         IN  MoreExprs(Compile("doexpr", dobra(labelled, IF t(s) = "&&" THEN "BNE" ELSE "BEQ", lab)), lab)

doexpr2(s) == MoreExprs(Compile("doexpr", s), 0)

RECURSIVE Statements(_)
Statements(s) == IF t(s) = "}" THEN s ELSE Statements(Compile("dostmt", s))
docomp(s) == expect(Statements(expect(s, "{")), "}")

Condition(s) == expect(Compile("doexpr2", expect(s, "(")), ")")

(* The last part of the head is compiled to a buffer of its own and put    *)
(* behind the body.                                                        *)
ForLoop(s0) ==
    LET start == getlabels(expect(Compile("doexpr2", expect(gettok(s0), "(")), ";"), 2)
        lab == Len(start.marks) - 1
        cond == dobra(expect(Compile("doexpr2", markit(start, lab)), ";"), "BNE", lab + 1)
        step == expect(Compile("doexpr2", [cond EXCEPT !.CurBuf = "temp", !.temp = <<>>]), ")")
        body == Compile("dostmt", [step EXCEPT !.CurBuf = "FuncBuf"])
        whole == [body EXCEPT !.FuncBuf = @ \o step.temp]
    IN  markit(dobra(whole, "BRA", lab), lab + 1)

IfElseStmt(s0) ==
    LET start == getlabels(gettok(s0), 2)
        lab == Len(start.marks) - 1
        then == Compile("dostmt", dobra(Condition(start), "BNE", lab))
    IN  IF t(then) = "ELSE"
        THEN markit(Compile("dostmt", markit(dobra(gettok(then), "BRA", lab + 1), lab)), lab + 1)
        ELSE markit(then, lab)

DoLoop(s0) ==
    LET start == getlabels(gettok(s0), 1)
        lab == Len(start.marks)
        body == Compile("dostmt", markit(start, lab))
    IN  dobra(Condition(expect(body, "WHILE")), "BEQ", lab)

WhileLoop(s0) ==
    LET start == getlabels(gettok(s0), 2)
        lab == Len(start.marks) - 1
        body == Compile("dostmt", dobra(Condition(markit(start, lab)), "BNE", lab + 1))
    IN  markit(dobra(body, "BRA", lab), lab + 1)

dostmt(s) ==
    CASE t(s) = "{" -> docomp(s)
      [] t(s) = "FOR" -> ForLoop(s)
      [] t(s) = "IF" -> IfElseStmt(s)
      [] t(s) = "DO" -> DoLoop(s)
      [] t(s) = "WHILE" -> WhileLoop(s)
      [] t(s) = "RETURN" -> putop(Compile("doexpr2", gettok(s)), "RET", 0)
      [] t(s) = ";" -> gettok(s)
      [] OTHER -> expect(Compile("doexpr2", s), ";")

Compile(rule, s) ==
    CASE rule = "doterm2" -> doterm2(s)
      [] rule = "doterm" -> doterm(s)
      [] rule = "doexpr" -> doexpr(s)
      [] rule = "doexpr2" -> doexpr2(s)
      [] rule = "dostmt" -> dostmt(s)

(* assemble with locals counted from the first parameter.                  *)
assembleFlat(code, marks, parnum) ==
    [i \in DOMAIN code |->
        CASE code[i].op \in {"STAS", "LDAS"} -> code[i]
          [] code[i].op \in {"BRA", "BEQ", "BNE"} -> [code[i] EXCEPT !.n = marks[@] + 1 - i]
          [] OTHER -> code[i]]

(* Locals are numbered behind the parameters, which lie below bp; a branch *)
(* holds the distance to its mark.                                         *)
assemble(code, marks, parnum) ==
    [i \in DOMAIN code |->
        CASE code[i].op \in {"STAS", "LDAS"} -> [code[i] EXCEPT !.n = @ - parnum]
          [] code[i].op \in {"BRA", "BEQ", "BNE"} -> [code[i] EXCEPT !.n = marks[@] + 1 - i]
          [] OTHER -> code[i]]

RECURSIVE Parameters(_)
Parameters(s) ==
    IF t(s) = ")" THEN s
    ELSE LET named == gettok(AddSymbol(s, "Locals", Head(s.toks).id))
         IN  Parameters(IF t(named) # ")" THEN expect(named, ",") ELSE named)

dofunc ==
    /\ running = <<>> /\ t(parser) # "EOI"
    /\ LET func == expect([parser EXCEPT !.FuncBuf = <<>>, !.marks = <<>>, !.Locals = <<>>], "FUNC")
           named == AddSymbol(func, "Funcs", Head(func.toks).id)
           params == Parameters(expect(gettok(named), "("))
           parnum == Len(params.Locals)
           body == putop(Compile("dostmt", expect(params, ")")), "RET", 0)
       IN  /\ parser' = body
           /\ offsets' = [f \in DOMAIN offsets \cup {named.varnum} |->
                            IF f = named.varnum THEN Len(MainBuf) ELSE offsets[f]]
           /\ MainBuf' = MainBuf \o <<[op |-> "LOCL", n |-> Len(body.Locals) - parnum]>>
                                 \o assemble(body.FuncBuf, body.marks, parnum)
    /\ UNCHANGED <<tree, running, acc, stack>>

-----------------------------------------------------------------------------
(* The machine.  A variable is a number or a string, and keeps the other   *)
(* from before; strings are sequences of digits, Minus in front.           *)
StackSize == 24
Minus == 10
NumVal(n) == [valid |-> "I", val |-> n, name |-> <<>>]

(* strtol with base 0, and sprintf.                                        *)
Digits(n) ==
    LET f[m \in Nat] == IF m < 10 THEN <<m>> ELSE Append(f[m \div 10], m % 10)
    IN  IF n < 0 THEN <<Minus>> \o f[-n] ELSE f[n]
Value(s) ==
    LET neg == s # <<>> /\ s[1] = Minus
        ds == IF neg THEN Tail(s) ELSE s
        base == IF ds # <<>> /\ ds[1] = 0 THEN 8 ELSE 10
        n == FoldLeft(LAMBDA v, d : v * base + d, 0, ds)
    IN  IF neg THEN -n ELSE n

makeNum(a) == IF a.valid = "I" THEN a.val ELSE Value(a.name)
makeSure(a) == IF a.valid = "S" THEN a.name ELSE Digits(a.val)
assign(a, b) == IF a.valid = "S" THEN [b EXCEPT !.valid = "S", !.name = a.name]
                                 ELSE [b EXCEPT !.valid = "I", !.val = a.val]

Bit(b) == IF b THEN 1 ELSE 0
Quotient(m, n) == LET q == (IF m < 0 THEN -m ELSE m) \div (IF n < 0 THEN -n ELSE n)
                  IN  IF (m < 0) = (n < 0) THEN q ELSE -q

(* What the arithmetic opcodes leave in a, m being below n on the stack.   *)
Arithmetic(op, m, n) ==
    CASE op = "ADD" -> m + n [] op = "SUB" -> m - n [] op = "MUL" -> m * n
      [] op = "DIV" -> Quotient(m, n) [] op = "MOD" -> m - n * Quotient(m, n)
      [] op = "CMPL" -> Bit(m < n) [] op = "CMPLE" -> Bit(m <= n)
      [] op = "CMPG" -> Bit(m > n) [] op = "CMPGE" -> Bit(m >= n)

Equal(u, v) == IF "I" \in {u.valid, v.valid} THEN makeNum(u) = makeNum(v) ELSE u.name = v.name

Operate(op, u, v) ==
    CASE op = "CAT" -> [v EXCEPT !.valid = "S", !.name = makeSure(u) \o makeSure(v)]
      [] op = "CMPEQ" -> [v EXCEPT !.valid = "I", !.val = Bit(Equal(u, v))]
      [] op = "CMPNE" -> [v EXCEPT !.valid = "I", !.val = Bit(~Equal(u, v))]
      [] OTHER -> [v EXCEPT !.valid = "I", !.val = Arithmetic(op, makeNum(u), makeNum(v))]

Topmost == Len(running)
Now == running[Topmost]
Instruction == MainBuf[Now.pc]

(* The call in progress goes on at the next instruction, sp moved by n.    *)
Proceeds(n) == running' = [running EXCEPT ![Topmost].pc = @ + 1, ![Topmost].sp = @ + n]

execute ==
    /\ running = <<>> /\ t(parser) = "EOI" /\ acc.valid = "none"
    /\ running' = <<[pc |-> 1, bp |-> 0, sp |-> 0]>>
    /\ acc' = NumVal(0)
    /\ UNCHANGED <<tree, parser, MainBuf, offsets, stack>>

Loads ==
    /\ CASE Instruction.op = "LDA" -> acc' = [acc EXCEPT !.valid = "I", !.val = Instruction.n]
         [] Instruction.op = "LDAT" -> acc' = [acc EXCEPT !.valid = "S", !.name = Instruction.n]
         [] Instruction.op = "LDAS" -> acc' = assign(stack[Now.bp + Instruction.n], acc)
         [] Instruction.op = "NOT" -> acc' = [acc EXCEPT !.valid = "I", !.val = Bit(makeNum(acc) = 0)]
    /\ Proceeds(0) /\ UNCHANGED stack

Stores ==
    /\ CASE Instruction.op = "STAS" ->
              stack' = [stack EXCEPT ![Now.bp + Instruction.n] = assign(acc, @)] /\ Proceeds(0)
         [] Instruction.op = "PHA" -> stack' = [stack EXCEPT ![Now.sp] = assign(acc, @)] /\ Proceeds(1)
    /\ UNCHANGED acc

Binary ==
    /\ Instruction.op \in {"ADD", "SUB", "MUL", "DIV", "MOD", "CAT", "CMPL", "CMPLE", "CMPEQ", "CMPNE", "CMPG", "CMPGE"}
    /\ acc' = Operate(Instruction.op, stack[Now.sp - 1], acc)
    /\ Proceeds(-1) /\ UNCHANGED stack

Branches ==
    /\ LET taken == CASE Instruction.op = "BRA" -> TRUE
                      [] Instruction.op = "BEQ" -> acc.val # 0
                      [] Instruction.op = "BNE" -> acc.val = 0
       IN  running' = [running EXCEPT ![Topmost].pc = IF taken THEN @ + Instruction.n ELSE @ + 1]
    /\ UNCHANGED <<acc, stack>>

(* A function's execute starts with the caller's sp; both come back.       *)
Calls ==
    /\ CASE Instruction.op = "LOCL" -> Proceeds(Instruction.n)
         [] Instruction.op = "JSR" ->
              running' = Append([running EXCEPT ![Topmost].pc = @ + 1],
                                [pc |-> offsets[Instruction.n] + 1, bp |-> Now.sp, sp |-> Now.sp])
         [] Instruction.op = "RET" -> running' = Front(running)
    /\ UNCHANGED <<acc, stack>>

Instructs ==
    /\ running # <<>>
    /\ CASE Instruction.op \in {"LDA", "LDAT", "LDAS", "NOT"} -> Loads
         [] Instruction.op \in {"STAS", "PHA"} -> Stores
         [] Instruction.op \in {"BRA", "BEQ", "BNE"} -> Branches
         [] Instruction.op \in {"LOCL", "JSR", "RET"} -> Calls
         [] OTHER -> Binary
    /\ UNCHANGED <<tree, parser, MainBuf, offsets>>

AnInit ==
    /\ tree \in Scripts
    /\ parser = NewCompiler(FlattenSeq([i \in DOMAIN tree |-> WriteFunc(tree[i])]) \o Tok("EOI"))
    /\ MainBuf = <<>> /\ offsets = <<>> /\ running = <<>>
    /\ acc = [NumVal(0) EXCEPT !.valid = "none"]
    /\ stack = [i \in 0..StackSize |-> NumVal(0)]

AnNext == dofunc \/ execute \/ Instructs

AnSpec == AnInit /\ [][AnNext]_anVars

-----------------------------------------------------------------------------
(* What a script is to do.  Evaluating a tree gives its value and the      *)
(* variables afterwards; performing a statement may also end the function. *)
(* A chain has the value of the term that decides it.                      *)

Pure(v) == IF v.valid = "S" THEN [valid |-> "S", val |-> 0, name |-> v.name] ELSE NumVal(v.val)
StrVal(x) == [valid |-> "S", val |-> 0, name |-> x]
Bind(env, x, v) == [y \in DOMAIN env \cup {x} |-> IF y = x THEN v ELSE env[y]]

RECURSIVE Evaluate(_, _), EvaluateAll(_, _), Perform(_, _), PerformAll(_, _), Loop(_, _, _, _)

EvaluateAll(es, env) ==
    FoldLeft(LAMBDA r, e : LET v == Evaluate(e, r.env) IN [vs |-> Append(r.vs, v.v), env |-> v.env],
             [vs |-> <<>>, env |-> env], es)

Evaluate(e, env) ==
    CASE e.is = "num" -> [v |-> NumVal(e.n), env |-> env]
      [] e.is = "str" -> [v |-> StrVal(e.s), env |-> env]
      [] e.is = "loc" -> [v |-> env[e.x], env |-> env]
      [] e.is = "not" -> LET a == Evaluate(e.e, env) IN [a EXCEPT !.v = NumVal(Bit(makeNum(a.v) = 0))]
      [] e.is = "bin" -> LET a == EvaluateAll(<<e.l, e.r>>, env)
                         IN  [v |-> Pure(Operate(Opcode(e.op), a.vs[1], a.vs[2])), env |-> a.env]
      [] e.is = "let" -> LET a == Evaluate(e.e, env) IN [v |-> a.v, env |-> Bind(a.env, e.v.x, a.v)]
      [] e.is = "letop" -> Evaluate(Let(e.v, Bin(e.op, e.v, e.e)), env)
      [] e.is = "incr" -> Evaluate(Let(e.v, Bin(e.op, e.v, Num(1))), env)
      [] e.is = "chain" ->
           LET a == Evaluate(Head(e.es), env)
               decided == Len(e.es) = 1 \/ (makeNum(a.v) = 0) = (e.op = "&&")
           IN  IF decided THEN a ELSE Evaluate(Chain(e.op, Tail(e.es)), a.env)
      [] e.is = "call" ->
           LET a == EvaluateAll(e.args, env)
               f == tree[SelectInSeq(tree, LAMBDA g : g.name = e.f)]
               inner == [x \in ToSet(f.params) |-> a.vs[SelectInSeq(f.params, LAMBDA y : y = x)]]
           IN  [v |-> Perform(f.body, inner).v, env |-> a.env]

(* v is the value returned, or none.                                       *)
NoValue == [valid |-> "none"]
IsTrue(v) == makeNum(v) # 0

PerformAll(ss, env) ==
    IF ss = <<>> THEN [v |-> NoValue, env |-> env]
    ELSE LET r == Perform(Head(ss), env)
         IN  IF r.v # NoValue THEN r ELSE PerformAll(Tail(ss), r.env)

(* While c holds, body and then step.                                      *)
Loop(c, body, step, env) ==
    LET test == Evaluate(c, env)
        r == Perform(body, test.env)
    IN  IF ~IsTrue(test.v) THEN [v |-> NoValue, env |-> test.env]
        ELSE IF r.v # NoValue THEN r
        ELSE Loop(c, body, step, Evaluate(step, r.env).env)

Perform(s, env) ==
    CASE s.is = "expr" -> [v |-> NoValue, env |-> Evaluate(s.e, env).env]
      [] s.is = "block" -> PerformAll(s.ss, env)
      [] s.is = "if" -> LET test == Evaluate(s.c, env) IN Perform(IF IsTrue(test.v) THEN s.s ELSE s.else, test.env)
      [] s.is = "while" -> Loop(s.c, s.s, Num(0), env)
      [] s.is = "do" -> LET r == Perform(s.s, env)
                        IN  IF r.v # NoValue THEN r ELSE Loop(s.c, s.s, Num(0), r.env)
      [] s.is = "for" -> Loop(s.c, s.s, s.i, Evaluate(s.e, env).env)
      [] s.is = "return" -> LET r == Evaluate(s.e, env) IN r

(* A script that has run to its end has returned what it was to return:    *)
(* operators bind and group, assignments find their variable again behind  *)
(* a whole expression, branches meet their marks, parameters and locals    *)
(* keep apart from what is pushed (doterm2 to dostmt, assemble, execute).  *)
ComputesScript ==
    running = <<>> /\ acc.valid # "none" => Pure(acc) = Perform(tree[1].body, <<>>).v
=============================================================================
