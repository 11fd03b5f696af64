------------------------------- MODULE MCScript -------------------------------
(***************************************************************************)
(* Scripts for AnScript: expressions of two operators of every kind of     *)
(* precedence, with calls of a recursive function, and every statement     *)
(* around conditions and bodies that change the variables they look at.    *)
(***************************************************************************)
EXTENDS AnScript

x == Loc("x")
y == Loc("y")
Leaves == {Num(1), Num(2), Str(<<1>>), x, Call("f", <<x, Num(2)>>)}
Some == {Num(3), x, y}
Lit == {Num(2), x}
Sub1 == {Bin(op, l, r) : op \in {"-", "*", "@"}, l \in Lit, r \in {Num(3), y}}
Nested ==
    {Bin(op, l, r) : op \in {"+", "-", "/", "%", "@"}, l \in Sub1 \cup Some, r \in Sub1}
    \cup {Bin(op, l, r) : op \in {"<", "<=", ">", ">=", "==", "!="}, l \in Sub1, r \in Some \cup {Let(x, Num(1))}}
    \cup {Bin("+", Not(a), b) : a \in Sub1, b \in Some}
    \cup {LetOp(x, op, b) : op \in {"+", "-", "@"}, b \in Sub1}
    \cup {Bin("-", Call("f", <<a, b>>), c) : a \in Some, b \in {y, Bin("*", x, Num(2))}, c \in Some}
    \cup {Not(Bin("*", a, b)) : a \in Some, b \in {Not(y), Num(0)}}
Prologue == <<Do(Let(y, Let(x, Num(2)))), Do(LetOp(y, "+", Num(3)))>>
F == [name |-> "f", params |-> <<"a", "b">>,
      body |-> Block(<<Do(Let(Loc("c"), Bin("*", Loc("a"), Num(10)))),
                       IfElse(Bin("<", Loc("a"), Loc("b")),
                              Block(<<Return(Call("f", <<Bin("+", Loc("a"), Num(1)), Loc("b")>>))>>),
                              Do(LetOp(Loc("c"), "-", Loc("b")))),
                       Return(Bin("@", Loc("c"), Loc("a")))>>)]
MainFunc(ss) == <<[name |-> "main", params |-> <<>>, body |-> Block(Prologue \o ss)], F>>
Expressions == {MainFunc(<<Return(e)>>) : e \in Nested}
Conds == {Chain(op, <<a, b>>) : op \in {"&&", "||"}, a \in {Bin("<", x, Num(5)), Incr(y, "+"), Not(x)},
              b \in {Bin("<", y, Num(6)), Incr(x, "+")}}
         \cup {Bin("<", x, Num(4))}
Bodies == {Do(Incr(x, "+")), IfElse(Bin("==", x, y), Do(LetOp(x, "+", Num(3))), Block(<<Do(Incr(x, "+")), Do(Let(y, x))>>)),
           Block(<<If(Bin(">", x, Num(2)), Block(<<Return(x)>>)), Do(Incr(x, "+"))>>)}
Limited(b) == Block(<<b, If(Bin(">", Loc("n"), Num(3)), Block(<<Return(Num(9))>>)), Do(Incr(Loc("n"), "+"))>>)
Loops ==
    UNION {{While(c, Limited(b)), DoWhile(Limited(b), c), For(Let(y, Num(0)), c, LetOp(y, "+", Num(2)), Limited(b)),
            IfElse(c, b, Do(Let(y, Num(7))))} : c \in Conds, b \in Bodies}
Result == Return(Bin("@", x, y))
Statements1 == {MainFunc(<<Do(Let(Loc("n"), Num(0))), l, Result>>) : l \in Loops}
MCScripts == Expressions \cup Statements1
=============================================================================
