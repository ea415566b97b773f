------------------------------- MODULE MCLuxVM -------------------------------
(* Small programs.                                                         *)
EXTENDS LuxVM

I == Spec0("int")
C0 == Spec0("char")
LL == Spec0("llong")
Ints(n) == ArrayOf(I, n)

N0(op, x) == [op |-> op, c |-> <<>>, x |-> x]
T(op, c) == [op |-> op, c |-> c, x |-> ""]
None == N0("none", 0)
Con(v) == [decimal |-> TRUE, u |-> FALSE, suffix |-> "", v |-> v]
K(v) == N0("iconst", Con(v))
V(x, t) == N0("id", <<x, t>>)
Init0(c) == T("init", c)
Str(s) == N0("str", s)
Assign(l, r) == T("=", <<l, r>>)
AssignOp(op, l, r) == [op |-> "=", c |-> <<l, r>>, x |-> op]
At0(a, i) == T("[]", <<a, i>>)
Field(e, id) == [op |-> ".", c |-> <<e>>, x |-> id]
CastTo(t, e) == [op |-> "cast", c |-> <<e>>, x |-> t]
Call(f, as) == T("call", <<f>> \o as)

S(k, e, b, x, l) == [k |-> k, e |-> e, b |-> b, x |-> x, l |-> l]
Block(l, b) == S("compound", <<>>, b, 0, l)
E(e) == S("expr", <<e>>, <<>>, 0, <<>>)
If(c, a) == S("if", <<c>>, <<a>>, 0, <<>>)
IfElse(c, a, b) == S("if", <<c>>, <<a, b>>, 0, <<>>)
While(c, b) == S("while", <<c>>, <<b>>, 0, <<>>)
DoWhile(b, c) == S("do", <<c>>, <<b>>, 0, <<>>)
For(i, c, s, b) == S("for", <<i, c, s>>, <<b>>, 0, <<>>)
Ret(e) == S("return", <<e>>, <<>>, 0, <<>>)
Return == S("return", <<>>, <<>>, 0, <<>>)
Switch(e, b) == S("switch", <<e>>, <<b>>, 0, <<>>)
Case(v, s) == S("case", <<>>, <<s>>, v, <<>>)
Default(s) == S("default", <<>>, <<s>>, 0, <<>>)
Label(x, s) == S("label", <<>>, <<s>>, x, <<>>)
Goto(x) == S("goto", <<>>, <<>>, x, <<>>)
Break == S("break", <<>>, <<>>, 0, <<>>)
Continue0 == S("continue", <<>>, <<>>, 0, <<>>)

Var(n, t, init) == [n |-> n, t |-> t, init |-> init, sto |-> "none"]
Static(n, t, init) == [n |-> n, t |-> t, init |-> init, sto |-> "static"]
Skip == Block(<<>>, <<>>)
Ext(k, n, t, sto, init, ps, body) ==
  [k |-> k, n |-> n, t |-> t, sto |-> sto, init |-> init, params |-> ps, body |-> body]
Param(n, t) == [n |-> n, t |-> t]
Fun(n, ret, ps, body) ==
  Ext("function", n, FunctionOf(ret, [i \in DOMAIN ps |-> ps[i].t]), "none", None, ps, body)
Obj(n, t, init) == Ext("object", n, t, "none", init, <<>>, Skip)
Uses(n, t) == Ext("referenced", n, t, "extern", None, <<>>, Skip)
Main(body) == Fun("main", I, <<>>, body)


Stdout == V("stdout", PointerTo(Spec0("void")))
FputcType == FunctionOf(I, <<I, PointerTo(Spec0("void"))>>)
Fputc(e) == E(Call(V("fputc", FputcType), <<e, Stdout>>))
UsesOutput == <<Uses("fputc", FputcType), Uses("stdout", PointerTo(Spec0("void")))>>
Plus0(a, b) == T("+", <<a, b>>)
Minus0(a, b) == T("-", <<a, b>>)
Less(a, b) == T("<", <<a, b>>)
Neg(a) == T("u-", <<a>>)
Inc(e) == E(T("++post", <<e>>))
AddrOf(e) == T("addr", <<e>>)
Deref(e) == T("ind", <<e>>)
Set(l, r) == E(Assign(l, r))
CharPtr == PointerTo(C0)
IntPtr == PointerTo(I)

MCStructTable ==
  [A |-> <<<<"c", C0>>, <<"n", LL>>, <<"s", Spec0("short")>>>>,
   P |-> <<<<"x", I>>, <<"y", I>>>>,
   N |-> <<<<"p", ArrayOf(Struct("P"), 2)>>, <<"q", PointerTo(Struct("P"))>>, <<"k", C0>>>>,
   U |-> <<<<"i", I>>, <<"l", LL>>>>]
SA == Struct("A")
SP == Struct("P")
SN == Struct("N")

g == V("g", I)
h == V("h", I)
i0 == V("i", I)
j0 == V("j", I)
n0 == V("n", I)
G(k) == At0(V("r", Ints(8)), K(k))
R8 == Obj("r", Ints(8), None)

\* Loops, jumps out of them, a jump back.
Flow ==
  <<<<R8, Main(Block(<<Var("i", I, None), Var("j", I, K(0))>>,
       <<For(Assign(i0, K(0)), Less(i0, K(6)), T("++post", <<i0>>),
             Block(<<Var("k", I, T("*", <<i0, K(2)>>))>>,
               <<If(T("==", <<i0, K(1)>>), Continue0),
                 If(T("==", <<i0, K(4)>>), Break),
                 E(AssignOp("+", G(0), V("k", I)))>>)),
         Label("again", Inc(j0)),
         DoWhile(Block(<<>>, <<E(AssignOp("+", G(1), j0)),
                               If(T(">", <<G(1), K(9)>>), Break),
                               If(T("%", <<G(1), K(2)>>), Continue0), Inc(G(2))>>), Less(G(1), K(5))),
         If(Less(j0, K(3)), Goto("again")),
         While(K(1), Block(<<>>, <<E(AssignOp("-", j0, K(1))), IfElse(j0, Inc(G(3)), Goto("out")), Inc(G(4))>>)),
         Label("out", For(None, None, None, If(T(">=", <<T("++pre", <<G(5)>>), K(3)>>), Break))),
         Ret(Plus0(i0, K(10)))>>))>>>>

\* A switch with a default in the middle, fall through, inside a loop; one in the other.
Choose0 ==
  <<<<R8, Fun("f", I, <<Param("n", I)>>,
        Block(<<>>, <<Switch(n0, Block(<<>>,
             <<Case(-3, Set(G(0), K(1))), Break,
               Default(Inc(G(1))),
               Case(7, Inc(G(2))), Break,
               Case(2, Case(3, Switch(Minus0(n0, K(2)), Block(<<>>, <<Case(0, Ret(K(40))), Default(Inc(G(3))), Break>>)))),
               Break>>)), Ret(n0)>>)),
      Main(Block(<<Var("i", I, None)>>,
        <<For(Assign(i0, K(-3)), T("<=", <<i0, K(7)>>), AssignOp("+", i0, K(1)),
              E(AssignOp("+", G(4), Call(V("f", FunctionOf(I, <<I>>)), <<i0>>)))),
          Switch(G(4), Inc(G(5))), Set(G(6), Plus0(Neg(G(4)), T("~", <<G(1)>>))), Set(G(7), T("!", <<G(1)>>)),
          Ret(G(4))>>))>>>>

\* Long long: a switch, a condition, arguments, results, steps.
l0 == V("l", LL)
Wide ==
  <<<<R8, Obj("w", ArrayOf(LL, 4), None),
      Fun("f", LL, <<Param("l", LL), Param("i", I), Param("m", LL)>>,
        Block(<<>>, <<Switch(l0, Block(<<>>,
          <<Case(-1, Ret(Minus0(V("m", LL), i0))), Case(600, Ret(T("++pre", <<l0>>))), Default(Break)>>)),
          Ret(T("*", <<l0, V("m", LL)>>))>>)),
      Main(Block(<<Var("l", LL, K(1000)), Var("k", I, K(0))>>,
        <<Set(At0(V("w", ArrayOf(LL, 4)), K(0)), Call(V("f", FunctionOf(LL, <<LL, I, LL>>)), <<K(-1), K(5), l0>>)),
          Set(At0(V("w", ArrayOf(LL, 4)), K(1)), Call(V("f", FunctionOf(LL, <<LL, I, LL>>)), <<K(600), K(5), l0>>)),
          Set(At0(V("w", ArrayOf(LL, 4)), K(2)), Call(V("f", FunctionOf(LL, <<LL, I, LL>>)), <<l0, K(5), T("*", <<l0, K(2)>>)>>)),
          E(T("++post", <<l0>>)), E(T("--pre", <<At0(V("w", ArrayOf(LL, 4)), K(0))>>)),
          Set(At0(V("w", ArrayOf(LL, 4)), K(3)), T(",", <<l0, T("--post", <<l0>>)>>)),
          Set(G(0), T("!", <<l0>>)), Set(G(1), T("~", <<l0>>)), Set(G(2), Neg(l0)),
          Set(G(3), T("&&", <<l0, T("||", <<V("k", I), l0>>)>>)),
          Set(G(4), T("?:", <<Minus0(l0, K(1000)), K(1), l0>>)),
          While(l0, E(AssignOp(">>", l0, K(3)))),
          Set(G(5), Less(l0, At0(V("w", ArrayOf(LL, 4)), K(1)))),
          Ret(T("==", <<l0, K(0)>>))>>))>>>>

\* Structures: copies, members, arguments, results, arrays of them.
s0 == V("s", SA)
p0 == V("p", PointerTo(SP))
Structs ==
  <<<<R8, Obj("o", SN, Init0(<<Init0(<<Init0(<<K(1), K(2)>>)>>), K(0), K(3)>>)), Obj("a", SA, None),
      Fun("mk", SA, <<Param("c", C0), Param("n", LL)>>,
        Block(<<Var("s", SA, None)>>,
          <<Set(Field(s0, "c"), V("c", C0)), Set(Field(s0, "n"), V("n", LL)), Set(Field(s0, "s"), K(7)), Ret(s0)>>)),
      Fun("use", I, <<Param("s", SA), Param("p", PointerTo(SP)), Param("k", C0)>>,
        Block(<<>>, <<Inc(Field(s0, "s")), Set([op |-> "->", c |-> <<p0>>, x |-> "y"], Field(s0, "s")),
                      Ret(Plus0(Field(s0, "c"), V("k", C0)))>>)),
      Main(Block(<<Var("s", SA, Call(V("mk", FunctionOf(SA, <<C0, LL>>)), <<K(2), K(3000)>>)),
                   Var("t", SN, V("o", SN)), Var("u", Union("U"), Init0(<<K(9)>>))>>,
        <<Set(V("a", SA), s0),
          Set(G(0), Call(V("use", FunctionOf(I, <<SA, PointerTo(SP), C0>>)),
                         <<s0, AddrOf(At0(Field(V("t", SN), "p"), K(1))), Field(V("o", SN), "k")>>)),
          Set(G(1), Field(At0(Field(V("t", SN), "p"), K(1)), "y")),
          Set(G(2), Field(At0(Field(V("t", SN), "p"), K(0)), "y")),
          Set(G(3), Field(Call(V("mk", FunctionOf(SA, <<C0, LL>>)), <<K(1), K(4)>>), "s")),
          Set(G(4), Field(V("u", Union("U")), "i")), Set(Field(V("u", Union("U")), "l"), K(5000)),
          Set(Field(V("a", SA), "n"), Plus0(Field(V("u", Union("U")), "l"), Field(s0, "n"))),
          Set(Field(V("o", SN), "q"), AddrOf(At0(Field(V("o", SN), "p"), K(1)))),
          Set([op |-> "->", c |-> <<Field(V("o", SN), "q")>>, x |-> "x"], K(77)),
          Ret(Field(At0(Field(V("o", SN), "p"), K(1)), "x"))>>))>>>>

\* Objects of automatic and static duration with initialisers.
Inits0 ==
  <<<<R8, Fun("f", I, <<Param("n", I)>>,
       Block(<<Static("count", I, K(10)), Static("z", I, None), Var("a", Ints(4), Init0(<<n0, K(2)>>)),
               Var("b", ArrayOf(C0, 4), Str(<<1, 2>>)), Var("d", ArrayOf(C0, 2), Str(<<3, 2, 1>>)),
               Var("e", ArrayOf(SP, 2), Init0(<<Init0(<<n0>>), Init0(<<K(4), Plus0(n0, K(1))>>)>>)),
               Var("u", Union("U"), Init0(<<n0>>)), Static("t", ArrayOf(C0, 3), Str(<<1>>))>>,
         <<E(AssignOp("+", V("count", I), At0(V("a", Ints(4)), K(0)))), Inc(V("z", I)),
           Set(G(0), Plus0(At0(V("a", Ints(4)), K(1)), At0(V("a", Ints(4)), K(3)))),
           Set(G(1), Plus0(At0(V("b", ArrayOf(C0, 4)), K(1)), At0(V("b", ArrayOf(C0, 4)), K(3)))),
           Set(G(2), Plus0(At0(V("d", ArrayOf(C0, 2)), K(1)), Field(V("u", Union("U")), "i"))),
           Set(G(3), Plus0(Field(At0(V("e", ArrayOf(SP, 2)), K(1)), "y"), Field(At0(V("e", ArrayOf(SP, 2)), K(0)), "y"))),
           E(AssignOp("-", At0(V("t", ArrayOf(C0, 3)), K(0)), K(1))),
           Set(G(4), At0(V("t", ArrayOf(C0, 3)), K(0))),
           Ret(Plus0(V("count", I), V("z", I)))>>)),
      Main(Block(<<Var("i", I, K(2))>>,
         <<E(Call(V("f", FunctionOf(I, <<I>>)), <<i0>>)), Ret(Call(V("f", FunctionOf(I, <<I>>)), <<K(5)>>))>>))>>>>

\* Two units: each has its own h, they share g; recursion and a pointer to a function.
StaticH(v) == Ext("object", "h", I, "static", K(v), <<>>, Skip)
Fact == V("fact", FunctionOf(I, <<I>>))
Units ==
  <<<<Uses("fact", FunctionOf(I, <<I>>)), Uses("fp", PointerTo(FunctionOf(I, <<I>>))), Obj("g", I, K(3)), StaticH(6),
      Main(Block(<<>>, <<Set(g, Call(Fact, <<g>>)), Set(h, Plus0(h, K(1))),
                         Ret(Plus0(Call(Deref(V("fp", PointerTo(FunctionOf(I, <<I>>)))), <<h>>), g))>>))>>,
    <<Uses("g", I), StaticH(100), Obj("p", IntPtr, AddrOf(g)),
      Fun("fact", I, <<Param("n", I)>>,
        Block(<<>>, <<Inc(h), IfElse(T("<=", <<n0, K(1)>>), Ret(h),
                                     Ret(Plus0(n0, Call(Fact, <<Minus0(n0, K(1))>>))))>>)),
      Obj("fp", PointerTo(FunctionOf(I, <<I>>)), Fact)>>>>

\* Pointers, strings, output.
cp == V("p", CharPtr)
Text0 ==
  <<UsesOutput \o
    <<R8, Obj("m", CharPtr, Str(<<1, 3, 2>>)),
      Fun("put", Spec0("void"), <<Param("p", CharPtr), Param("n", I)>>,
        Block(<<Var("e", CharPtr, Plus0(cp, n0))>>,
          <<If(T("==", <<n0, K(0)>>), Return),
            While(T("!=", <<cp, V("e", CharPtr)>>), Fputc(Deref(T("++post", <<cp>>)))),
            Set(G(0), Minus0(cp, V("m", CharPtr)))>>)),
      Main(Block(<<Var("a", Ints(3), Init0(<<K(1), K(2), K(3)>>)), Var("q", IntPtr, Plus0(K(1), V("a", Ints(3))))>>,
        <<E(Call(V("put", FunctionOf(Spec0("void"), <<CharPtr, I>>)), <<V("m", CharPtr), K(3)>>)),
          E(Call(V("put", FunctionOf(Spec0("void"), <<CharPtr, I>>)), <<Str(<<2, 2>>), K(0)>>)),
          Set(G(1), Deref(T("--pre", <<V("q", IntPtr)>>))),
          E(T("++post", <<Deref(V("q", IntPtr))>>)),
          Set(G(2), At0(V("q", IntPtr), K(0))), Set(G(3), Minus0(AddrOf(At0(V("a", Ints(3)), K(2))), V("q", IntPtr))),
          Set(G(4), At0(K(2), V("a", Ints(3)))), Set(G(5), Deref(Minus0(Plus0(V("q", IntPtr), K(2)), K(1)))),
          Set(G(6), Less(V("q", IntPtr), AddrOf(At0(V("a", Ints(3)), K(1))))),
          E(AssignOp("+", V("q", IntPtr), K(2))), Fputc(At0(Str(<<3, 1>>), K(1))),
          Set(G(7), T("?:", <<V("q", IntPtr), Deref(V("q", IntPtr)), K(0)>>)),
          Ret(At0(V("m", CharPtr), K(1)))>>))>>>>

\* exit() from below main, arguments beyond the parameters, small integers.
SC == Spec0("schar")
US == Spec0("ushort")
VarArgs == FunctionOf(I, <<I, Ellipsis>>)
Leave ==
  <<<<R8, Uses("exit", FunctionOf(Spec0("void"), <<I>>)), Obj("c", C0, Neg(K(1))), Obj("u", Spec0("uchar"), K(6)),
      Obj("us", US, K(60)),
      Ext("function", "v", VarArgs, "static", None, <<Param("n", I)>>, Block(<<>>, <<Ret(Plus0(n0, K(1)))>>)),
      Fun("f", Spec0("void"), <<Param("n", I)>>,
        Block(<<>>, <<IfElse(n0, E(Call(V("f", FunctionOf(Spec0("void"), <<I>>)), <<Minus0(n0, K(1))>>)),
                             E(Call(V("exit", FunctionOf(Spec0("void"), <<I>>)), <<K(0)>>))), Inc(G(0))>>)),
      Main(Block(<<>>,
        <<Set(G(1), Call(V("v", VarArgs), <<K(4), CastTo(LL, K(5)), V("c", C0), V("us", US)>>)),
          E(T("++post", <<V("u", Spec0("uchar"))>>)), E(T("++pre", <<V("u", Spec0("uchar"))>>)),
          Inc(V("c", C0)), E(T("--pre", <<V("c", C0)>>)), E(AssignOp("<<", V("us", US), K(2))),
          Set(G(2), CastTo(SC, K(1000))), Set(G(3), CastTo(US, K(1000))), Set(G(4), CastTo(Spec0("short"), K(1000))),
          Set(G(5), CastTo(Spec0("uchar"), K(1000))),
          Set(G(6), T("^", <<T("|", <<V("us", US), K(1)>>), T("&", <<V("u", Spec0("uchar")), K(5)>>)>>)),
          E(Call(V("f", FunctionOf(Spec0("void"), <<I>>)), <<K(2)>>)), Ret(K(1))>>))>>>>

\* What the linker refuses, and an unused name that it does not.
Undefined == <<<<Uses("f", FunctionOf(I, <<>>)), Main(Block(<<>>, <<Ret(Call(V("f", FunctionOf(I, <<>>)), <<>>))>>))>>>>
Twice == <<<<Obj("g", I, K(1)), Main(Block(<<>>, <<Ret(g)>>))>>, <<Obj("g", I, K(2))>>>>
Unused == <<<<Uses("f", FunctionOf(I, <<>>)), Obj("b", C0, K(1)), Obj("g", I, None), Main(Block(<<>>, <<Ret(g)>>))>>,
            <<Uses("b", C0), Obj("d", C0, K(2)), Obj("e", C0, None), Obj("q", CharPtr, AddrOf(V("b", C0)))>>>>

\* Every operator on operands of two types.
Classes == <<"schar", "ushort", "int", "unsigned", "long", "ullong">>
Left(t) == CASE t = "schar" -> -3 [] t \in {"ushort", "unsigned", "ullong"} -> -6 [] t = "int" -> -600 [] OTHER -> -650
\* The two machines differ from the language here (README): the subtraction of a wide
\* operand from a narrow one, the relation of an unsigned operand to a wider signed one.
Narrow(a, b) == Rank[a] < Rank[b] /\ Rank[b] > 3
Operators0(a, b) ==
  <<"+", "*", "/", "%", "&", "|", "^", "==", "!=">>
  \o (IF Narrow(a, b) THEN <<>> ELSE <<"-">>)
  \o (IF {a, b} = {"unsigned", "long"} THEN <<>> ELSE <<"<", ">", "<=", ">=">>)
Shifts0(b) == IF b < 0 THEN <<>> ELSE <<"<<", ">>">>
Value(v) == IF v < 0 THEN Neg(K(-v)) ELSE K(v)
Operation0(a, b, v) ==
  LET ops == Operators0(a, b) \o Shifts0(v) IN
  <<<<Obj("a", Spec0(a), Value(Left(a))), Obj("b", Spec0(b), Value(v)), Obj("w", ArrayOf(LL, 16), None),
      Main(Block(<<>>, [k \in DOMAIN ops |-> Set(At0(V("w", ArrayOf(LL, 16)), K(k - 1)),
                                                 T(ops[k], <<V("a", Spec0(a)), V("b", Spec0(b))>>))]
                       \o <<Ret(K(0))>>))>>>>
Operations0 ==
  [x \in 1..(2 * Len(Classes) * Len(Classes)) |->
     Operation0(Classes[((x - 1) \div 2) \div Len(Classes) + 1], Classes[(((x - 1) \div 2) % Len(Classes)) + 1],
                IF x % 2 = 0 THEN 3 ELSE -3)]

MCPrograms ==
  <<Flow, Choose0, Wide, Structs, Inits0, Units, Text0, Leave, Undefined, Twice, Unused>> \o Operations0
=============================================================================
