------------------------------- MODULE MCLink -------------------------------
(***************************************************************************)
(* Sources for Assembler and Linker: two files that use each other's       *)
(* labels in every form an operand or a datum has, and single ones that    *)
(* are about scopes, sizes and loops.                                      *)
(***************************************************************************)
EXTENDS Linker

Seg(s) == Line(Given("segment", s))
Do1(s) == Line(s)
RefForms(e) ==
    {Op("lda", "abs", "", e), Op("ldx", "abs", "", e), Op("lda", "@", "", e), Op("lda", "#", "<", e), Op("lda", "#", "^", e),
     Data(2, "", <<Here, e>>), Data(3, "", <<e>>), Data(4, "", <<e>>)}
Targets ==
    {Ref("near"), Ref("far"), Ref("dat"), Calc("+", Ref("bss"), Val(3)), Ref("fun"), Calc("+", Ref("word"), Val(250)),
     Ref("low"), Ref("long"), Calc("-", Ref("far"), Ref("near"))}

\* The first file: references before and behind a distance of gap.
User(form, gap) ==
    <<Equals("low", Val(20)), Equals("long", Val(70000)), Do1(Given("ass", TRUE)),
      Label("start", Op("lda", "#", "^", Ref("dat"))),
      Label("near", Given("dsb", Val(gap))), Do1(form), Label("far", Op("brl", "abs", "", Ref("near"))),
      Seg(SDATA), Label("dat", Data(2, "", <<Ref("start"), Ref("dat"), Ref("word")>>)),
      Seg(SBSS), Label("bss", Given("dsb", Calc("-", Ref("far"), Ref("near"))))>>

\* The second file defines what the first one imports.
Used ==
    <<Do1(Op("jsl", "abs", "", Ref("fun"))), Label("fun", Op("inx", "", "", Nothing)),
      Seg(SDATA), Do1(Data(2, "", <<Ref("room")>>)), Label("word", Data(4, "", <<Ref("fun")>>)),
      Seg(SBSS), Do1(Given("dsb", Val(9))), Label("room", Given("dsb", Val(2)))>>

Programs1 ==
    {<<Used, User(form, gap)>> : form \in UNION {RefForms(e) : e \in Targets}, gap \in {1, 250, 252, 503}}
        \cup {<<User(form, 250), Used>> : form \in RefForms(Ref("fun")) \cup RefForms(Ref("dat"))}

\* Names in blocks: not defined yet, defined further out, brought out with & and .export.
Scopes ==
    {<<Do1(Given("export", "up")), Do1(Plain("(")),
       Label("x", Op("bra", "abs", "", Ref("y"))), Do1(Plain("(")),
       Do1(Data(2, "", <<Ref("x"), Ref("y"), OuterRef(u, "x"), Ref("z"), Ref("up")>>)),
       IF inner THEN Label("x", Nothing) ELSE Label("v", Nothing), [Label("w", Nothing) EXCEPT !.up = u],
       Label("up", Data(2, "", <<Ref("z")>>)), Do1(Plain(")")),
       Label("y", Data(2, "", <<Ref("w"), Ref("x")>>)), Do1(Plain(")")),
       Do1(Data(2, "", <<Ref("up"), Ref("x")>>)), Label("x", Nothing), Label("z", Given("dsb", Val(1))),
       Label("w", Given("dsb", Val(1)))>> : u \in 0..2, inner \in BOOLEAN}

\* Sizes that depend on each other through conditions.
Sizes ==
    {<<Do1(Op("lda", "abs", "", Ref("k"))), Label("a", Given("dsb", Ref("m"))),
       Do1(Given("if", Calc("<", Ref("n"), Val(t)))), Label("c", Op("lda", "abs", "", Val(5))), Do1(Plain("else")),
       Label("d", Given("dsb", Val(300))), Do1(Plain("endif")),
       Label("b", Op("jmp", "abs", "", Ref("a"))), Do1(Given("acc16", TRUE)), Do1(Op("lda", "#", "", Ref("n"))),
       Do1(Op("lda", "abs", "", Ref("f"))),
       Equals("k", Calc("-", Ref("b"), Ref("a"))), Equals("m", Val(g)), Equals("n", Brackets(Calc("*", Ref("m"), Val(2)))),
       Do1(Given("abs", Ref("k"))), Label("e", Given("dsb", Val(2))), Label("f", Data(2, "", <<Val(0)>>))>> :
         g \in {2, 120, 127, 128, 253}, t \in {20, 250, 400}}

\* LoopSources: 3 pei, whose size depends on what comes later, and as many bytes.
LoopSources ==
    {<<Redefines("i", Val(0)), Do1(Given("while", Calc("<", Ref("i"), Val(3)))), Do1(Op("pei", "abs", "", Ref("m"))),
       Redefines("i", Calc("+", Ref("i"), Val(1))), Do1(Plain("wend")),
       Do1(Plain("do")), Redefines("i", Calc("-", Ref("i"), Val(1))), Do1(Data(1, "", <<Val(1)>>)),
       Do1(Given("until", Ref("i"))), Label("l", Op("ldx", "abs", "", Ref("m"))),
       Equals("m", Calc("-", Ref("l"), Val(n)))>> : n \in {0, 4096}}

MCJobs == Programs1 \cup {<<src>> : src \in Scopes \cup Sizes \cup LoopSources}
=============================================================================
