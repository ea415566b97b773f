--------------------------- MODULE MCExpressions ----------------------------
(* Small types, identifiers, constants and initialised objects.            *)
EXTENDS Expressions

MCStructTable ==
  [A |-> <<<<"c", Spec0("char")>>, <<"n", Spec0("llong")>>, <<"s", Spec0("short")>>>>,
   P |-> <<<<"x", Spec0("int")>>, <<"y", PointerTo(Spec0("char"))>>>>,
   U |-> <<<<"l", Spec0("long")>>, <<"c", Spec0("uchar")>>>>,
   N |-> <<<<"p", ArrayOf(Struct("P"), 2)>>, <<"u", Union("U")>>, <<"e", Spec0("int")>>>>]

IntFunction == FunctionOf(Spec0("int"), <<Spec0("int")>>)

MCTypeOf ==
  [c |-> Spec0("schar"), h |-> Spec0("ushort"), i |-> Spec0("int"), u |-> Spec0("unsigned"),
   l |-> Spec0("long"), ul |-> Spec0("ulong"), ll |-> Spec0("llong"), e |-> Spec0("enum"),
   p |-> PointerTo(Spec0("int")), a |-> ArrayOf(Spec0("int"), 3), v |-> PointerTo(Spec0("void")),
   f |-> IntFunction, s |-> Struct("A"), m |-> ArrayOf(Struct("N"), 2)]

Con(v) == [decimal |-> TRUE, u |-> FALSE, suffix |-> "", v |-> v]
MCConstants ==
  {Con(0), Con(3), Con(127), Con(128), Con(2^15),
   [decimal |-> FALSE, u |-> FALSE, suffix |-> "", v |-> 255],
   [decimal |-> FALSE, u |-> FALSE, suffix |-> "", v |-> 2^15],
   [decimal |-> TRUE, u |-> TRUE, suffix |-> "l", v |-> 5]}

MCCastTypes == {Spec0("schar"), Spec0("ushort"), Spec0("long"), Spec0("ullong"), Spec0("void"),
                PointerTo(Spec0("char")), Struct("A")}

N0(op, x) == [op |-> op, c |-> <<>>, x |-> x]
T(op, c) == [op |-> op, c |-> c, x |-> ""]
K(v) == N0("iconst", Con(v))
V(x) == N0("id", x)
L(c) == T("init", c)
Str(s) == N0("str", s)
Field(e, id) == [op |-> ".", c |-> <<e>>, x |-> id]
CastTo(t, e) == [op |-> "cast", c |-> <<e>>, x |-> t]
Char(n) == ArrayOf(Spec0("char"), n)

MCObjects ==
  <<<<Spec0("int"), K(5)>>,
    <<Spec0("short"), T("u-", <<K(2)>>)>>,
    <<Spec0("llong"), T("-", <<K(1), K(7)>>)>>,
    <<Spec0("ulong"), T("sizeof", <<V("s")>>)>>,
    <<Spec0("long"), T("-", <<T("addr", <<T("[]", <<V("a"), K(2)>>)>>), V("a")>>)>>,
    <<Spec0("llong"), V("a")>>,
    <<Spec0("int"), V("i")>>,
    <<Spec0("int"), T("/", <<K(7), T("+", <<K(1), K(1)>>)>>)>>,
    <<Spec0("int"), T("&&", <<V("a"), K(0)>>)>>,
    <<Spec0("uchar"), CastTo(Spec0("uchar"), T("u-", <<K(3)>>))>>,
    <<PointerTo(Spec0("int")), T("+", <<V("a"), K(2)>>)>>,
    <<PointerTo(Spec0("int")), T("+", <<K(1), V("a")>>)>>,
    <<PointerTo(Spec0("int")), T("-", <<T("addr", <<T("[]", <<V("a"), K(2)>>)>>), K(1)>>)>>,
    <<PointerTo(Spec0("short")), T("addr", <<Field(V("s"), "s")>>)>>,
    <<PointerTo(Spec0("int")), T("addr", <<Field(T("[]", <<Field(T("[]", <<V("m"), K(1)>>), "p"), K(1)>>), "x")>>)>>,
    <<PointerTo(IntFunction), V("f")>>,
    <<PointerTo(Spec0("char")), CastTo(PointerTo(Spec0("char")), T("addr", <<V("i")>>))>>,
    <<PointerTo(Spec0("int")), T("?:", <<T("<", <<K(2), K(1)>>), V("a"), V("p")>>)>>,
    <<PointerTo(Spec0("int")), T("?:", <<K(1), V("a"), K(0)>>)>>,
    <<Char(4), Str(<<1, 2>>)>>,
    <<Char(2), Str(<<1>>)>>,
    <<Char(5), Str(<<1, 2>>)>>,
    <<ArrayOf(Char(3), 3), L(<<Str(<<1, 2>>), Str(<<3>>)>>)>>,
    <<ArrayOf(Spec0("int"), 3), L(<<K(1), L(<<K(2)>>)>>)>>,
    <<ArrayOf(Spec0("int"), 1), L(<<K(1), K(2)>>)>>,
    <<Struct("A"), L(<<K(1), K(2), K(3)>>)>>,
    <<Struct("A"), L(<<K(1)>>)>>,
    <<Union("U"), L(<<K(6)>>)>>,
    <<ArrayOf(Struct("A"), 2), L(<<L(<<K(1), K(2)>>), L(<<K(3), K(4), K(5)>>)>>)>>,
    <<Struct("N"), L(<<L(<<L(<<K(1), V("v")>>)>>)>>)>>,
    <<Struct("N"), L(<<L(<<L(<<K(1), T("addr", <<V("c")>>)>>), L(<<K(2)>>)>>), L(<<K(3)>>), K(4)>>)>>,
    <<ArrayOf(Struct("N"), 3), L(<<L(<<L(<<L(<<K(0), K(0)>>)>>), L(<<K(9)>>)>>)>>)>>,
    <<Struct("N"), N0("none", 0)>>>>
=============================================================================
