-------------------------------- MODULE CSem ---------------------------------
(***************************************************************************)
(* What C99 says a program does, on analysed trees: an evaluator of        *)
(* statements and expressions over objects, written without the functions  *)
(* of the compiler.  It is meant for programs whose behaviour is defined.  *)
(*                                                                         *)
(* A value is [b, n, s]: a number n, or n bytes into the object b, or the  *)
(* scalars s of a structure by offset.  The state is [units, mem, done,    *)
(* env, unit, fn, ret, frame, depth, out, st, seek, val]: mem maps         *)
(* <<object, offset>> to scalars, done holds the initialised static        *)
(* locals, env the names in scope; st is "go", how the flow leaves a       *)
(* statement (break, continue, return, goto, exit), or "seek" while it     *)
(* looks for the label in seek; val is the value of the last expression.   *)
(***************************************************************************)
EXTENDS CRules

CONSTANT Programs   \* sequences of units, not analysed yet

-----------------------------------------------------------------------------
(* The trees.  Before the analysis the attribute of an identifier is <<name, type>>.     *)
(* A unit is a sequence of external declarations [k, n, t, sto, init, params, body], k   *)
(* being "object", "function" or "referenced".                                           *)
RECURSIVE TypedTree(_), TypedStatement(_)
TypedTree(e) ==
  CASE e.op = "init" -> [op |-> "init", c |-> [i \in DOMAIN e.c |-> TypedTree(e.c[i])], x |-> "", t |-> IntType]
    [] e.op = "id" -> analyze_primary_expression("id", e.x[1], e.x[2])
    [] e.op \in {"iconst", "str"} -> analyze_primary_expression(e.op, e.x, ErrorType)
    [] e.op = "none" -> NoInit
    [] OTHER -> Analyzed(e.op, [i \in DOMAIN e.c |-> TypedTree(e.c[i])], e.x)
TypedStatement(s) ==
  [s EXCEPT !.e = [i \in DOMAIN @ |-> TypedTree(@[i])],
            !.b = [i \in DOMAIN @ |-> TypedStatement(@[i])],
            !.l = [i \in DOMAIN @ |-> [@[i] EXCEPT !.init = TypedTree(@)]]]
TypedUnit(unit) ==
  [i \in DOMAIN unit |-> [unit[i] EXCEPT !.init = TypedTree(@), !.body = TypedStatement(@)]]
TypedProgram(n) == [u \in DOMAIN Programs[n] |-> TypedUnit(Programs[n][u])]

-----------------------------------------------------------------------------
(* Values                                                                  *)

NoObj == <<"none">>
Number(n) == [b |-> NoObj, n |-> n, s |-> <<>>]
Address(b, n) == [b |-> b, n |-> n, s |-> <<>>]
Yield(m, v) == [m EXCEPT !.val = v]
IsTrue(v) == v.b # NoObj \/ v.n # 0

ConvertedTo(v, t) == IF IsArith(t) /\ v.b = NoObj THEN Number(Congruent(v.n, get_type_category(t))) ELSE v

-----------------------------------------------------------------------------
(* Objects                                                                 *)
Get(m, b, o) ==
  IF b[1] = "str" THEN Number(IF o + 1 \in DOMAIN b[2] THEN b[2][o + 1] ELSE 0)
  ELSE IF <<b, o>> \in DOMAIN m.mem THEN m.mem[<<b, o>>] ELSE Number(0)

Within(m, p, size) == {k \in DOMAIN m.mem : k[1] = p.b /\ k[2] \in p.n..(p.n + size - 1)}
Load(m, p, t) ==
  IF IsStruct(t)
  THEN [Number(0) EXCEPT !.s = [o \in {k[2] - p.n : k \in Within(m, p, get_sizeof(t))} |-> m.mem[<<p.b, p.n + o>>]]]
  ELSE IF get_type_category(t) \in {"[]", "()"} THEN p ELSE Get(m, p.b, p.n)
StoreScalar(m, p, v) ==
  [m EXCEPT !.mem = [k \in DOMAIN @ \cup {<<p.b, p.n>>} |-> IF k = <<p.b, p.n>> THEN v ELSE @[k]], !.val = v]
Store0(m, p, v, t) ==
  IF ~IsStruct(t) THEN StoreScalar(m, p, ConvertedTo(v, t))
  ELSE [m EXCEPT !.val = v,
         !.mem = [k \in (DOMAIN @ \ Within(m, p, get_sizeof(t))) \cup {<<p.b, p.n + o>> : o \in DOMAIN v.s} |->
                    IF k[1] = p.b /\ k[2] - p.n \in DOMAIN v.s THEN v.s[k[2] - p.n] ELSE @[k]]]

\* The object of a name: in scope, or of the unit.
DefinedStatic(m, x) == \E i \in DOMAIN m.units[m.unit] : m.units[m.unit][i].n = x /\ m.units[m.unit][i].sto = "static"
ObjectOf(m, x) ==
  IF x \in DOMAIN m.env THEN m.env[x] ELSE IF DefinedStatic(m, x) THEN <<"u", m.unit, x>> ELSE <<"g", x>>

-----------------------------------------------------------------------------
(* Operators: a and b are the operands, of decayed types s and t.          *)
Calculated(op, a, b, cat) ==
  Congruent(CASE op = "+" -> a + b [] op = "-" -> a - b
              [] op = "*" -> TimesModulo(a % 2^Width(cat), b % 2^Width(cat), Width(cat))
              [] op = "/" -> Quotient(a, b) [] op = "%" -> a - b * Quotient(a, b)
              [] op = "&" -> (a % 2^Width(cat)) & (b % 2^Width(cat))
              [] op = "|" -> (a % 2^Width(cat)) | (b % 2^Width(cat))
              [] op = "^" -> (a % 2^Width(cat)) ^^ (b % 2^Width(cat))
              [] op = "<<" -> TimesModulo(a % 2^Width(cat), 2^b, Width(cat))
              [] op = ">>" -> a \div 2^b, cat)

OnIntegers(op, a, b, s, t) ==
  IF op \in {"<<", ">>"} THEN Number(Calculated(op, a, b, Promoted(s)))
  ELSE IF op \in relational
  THEN Number(Truth(RuleCompare(op, Congruent(a, CommonType(s, t).s), Congruent(b, CommonType(s, t).s))))
  ELSE Number(Calculated(op, Congruent(a, CommonType(s, t).s), Congruent(b, CommonType(s, t).s), CommonType(s, t).s))

Element(t) == get_sizeof(Derived(t))
OnAddresses(op, a, b, s, t) ==
  CASE op = "+" /\ IsPtr(s) -> [a EXCEPT !.n = @ + b.n * Element(s)]
    [] op = "+" /\ ~IsPtr(s) -> [b EXCEPT !.n = @ + a.n * Element(t)]
    [] op = "-" /\ IsArith(t) -> [a EXCEPT !.n = @ - b.n * Element(s)]
    [] op = "-" /\ IsPtr(t) -> Number((a.n - b.n) \div Element(s))
    [] op = "==" -> Number(Truth(a.b = b.b /\ a.n = b.n))
    [] op = "!=" -> Number(Truth(~(a.b = b.b /\ a.n = b.n)))
    [] OTHER -> Number(Truth(RuleCompare(op, a.n, b.n)))
Applied(op, a, b, s, t) ==
  IF IsArith(s) /\ IsArith(t) THEN OnIntegers(op, a.n, b.n, get_type_category(s), get_type_category(t))
  ELSE OnAddresses(op, a, b, s, t)
Binary0(op, a, b, e) == Applied(op, a, b, Decayed(e.c[1].t), Decayed(e.c[2].t))

OnOne(op, v, cat) ==
  CASE op = "u+" -> Number(Congruent(v.n, Promoted(cat)))
    [] op = "u-" -> Number(Congruent(-v.n, Promoted(cat)))
    [] op = "~" -> Number(Congruent(-v.n - 1, Promoted(cat)))
    [] op = "!" -> Number(Truth(~IsTrue(v)))

-----------------------------------------------------------------------------
(* Expressions.  Do(kind, x, m) is the state after x: the "value" or the   *)
(* "place" of an expression, a "statement", the rest of a "loop", the      *)
(* "init"ialisation of an object, a "call".                                *)
RECURSIVE Do(_, _, _), Arguments(_, _, _, _), Pass(_, _, _), Inits(_, _), Enter(_, _, _), Run(_, _, _)

MemberOffset(e, t) == get_member_descriptor(t.tag, e.x).offset
PlaceOf(e, m) ==
  CASE e.op = "id" -> Yield(m, Address(ObjectOf(m, e.x), 0))
    [] e.op = "ind" -> Do("value", e.c[1], m)
    [] e.op = "[]" -> Do("value", [e EXCEPT !.op = "+", !.t = PointerTo(e.t)], m)
    [] e.op = "." -> LET p == Do("place", e.c[1], m)
                     IN  Yield(p, [p.val EXCEPT !.n = @ + MemberOffset(e, e.c[1].t)])
    [] e.op = "->" -> LET p == Do("value", e.c[1], m)
                      IN  Yield(p, [p.val EXCEPT !.n = @ + MemberOffset(e, e.c[1].t)])

Designated(e, m) == LET p == Do("place", e, m) IN Yield(p, Load(p, p.val, e.t))

\* A member of a structure that is not an object: s keeps what is not zero.
OfValue(e, m) ==
  LET v == Do("value", e.c[1], m)
      o == MemberOffset(e, e.c[1].t)
  IN  Yield(v, IF o \in DOMAIN v.val.s THEN v.val.s[o] ELSE Number(0))

Assigned0(e, m) ==
  LET r == Do("value", e.c[2], m)
      p == Do("place", e.c[1], r)
  IN  Store0(p, p.val, IF e.x = "" THEN r.val ELSE Binary0(e.x, Load(p, p.val, e.c[1].t), r.val, e), e.t)

Stepped(e, m) ==
  LET p == Do("place", e.c[1], m)
      old == Load(p, p.val, e.t)
      new == Applied(IF e.op \in {"++pre", "++post"} THEN "+" ELSE "-", old, Number(1), e.t, IntType)
      q == Store0(p, p.val, new, e.t)
  IN  IF e.op \in {"++post", "--post"} THEN Yield(q, old) ELSE q

Logical(e, m) ==
  LET l == Do("value", e.c[1], m)
      r == Do("value", e.c[2], l)
  IN  IF IsTrue(l.val) = (e.op = "||") THEN Yield(l, Number(Truth(e.op = "||")))
      ELSE Yield(r, Number(Truth(IsTrue(r.val))))
Conditional0(e, m) ==
  LET c == Do("value", e.c[1], m)
      r == Do("value", e.c[IF IsTrue(c.val) THEN 2 ELSE 3], c)
  IN  Yield(r, ConvertedTo(r.val, e.t))
BothSides(e, m) ==
  LET l == Do("value", e.c[1], m)
      r == Do("value", e.c[2], l)
  IN  Yield(r, Binary0(e.op, l.val, r.val, e))

\* The last argument first; then the function.
Arguments(e, i, m, vals) ==
  IF i = 1 THEN [m |-> m, vals |-> vals]
  ELSE LET r == Do("value", e.c[i], m) IN Arguments(e, i - 1, r, <<r.val>> \o vals)
Called(e, m) ==
  LET args == Arguments(e, Len(e.c), m, <<>>)
      f == Do("value", e.c[1], args.m)
  IN  Do("call", [f |-> f.val.b, vals |-> args.vals], f)

ValueOf(e, m) ==
  CASE e.op = "iconst" -> Yield(m, ConvertedTo(Number(e.x), e.t))
    [] e.op = "str" -> Yield(m, Address(<<"str", e.x>>, 0))
    [] e.op = "." /\ ~Designates(e) -> OfValue(e, m)
    [] e.op \in {"id", "ind", "[]", "->"} \/ (e.op = "." /\ Designates(e)) -> Designated(e, m)
    [] e.op = "=" -> Assigned0(e, m)
    [] e.op \in inc_dec -> Stepped(e, m)
    [] e.op = "addr" -> Do("place", e.c[1], m)
    [] e.op \in {"&&", "||"} -> Logical(e, m)
    [] e.op = "?:" -> Conditional0(e, m)
    [] e.op = "," -> Do("value", e.c[2], Do("value", e.c[1], m))
    [] e.op = "call" -> Called(e, m)
    [] e.op = "cast" -> LET v == Do("value", e.c[1], m) IN Yield(v, ConvertedTo(v.val, e.x))
    [] e.op \in {"u+", "u-", "~", "!"} ->
         LET v == Do("value", e.c[1], m) IN Yield(v, OnOne(e.op, v.val, Cat(e.c[1])))
    [] OTHER -> BothSides(e, m)

-----------------------------------------------------------------------------
(* Functions                                                               *)
\* The definition of a function, <<unit, index>>.
Definition(m, f) ==
  CHOOSE d \in {<<u, i>> : u \in DOMAIN m.units, i \in 1..20} :
    /\ d[2] \in DOMAIN m.units[d[1]]
    /\ m.units[d[1]][d[2]].k = "function"
    /\ f = (IF m.units[d[1]][d[2]].sto = "static" THEN <<"u", d[1], m.units[d[1]][d[2]].n>>
            ELSE <<"g", m.units[d[1]][d[2]].n>>)

Pass(ps, vals, m) ==
  IF ps = <<>> THEN m
  ELSE Pass(Tail(ps), Tail(vals),
            Store0([m EXCEPT !.env = [x \in DOMAIN @ \cup {Head(ps).n} |->
                                        IF x = Head(ps).n THEN <<"l", m.frame, x, 0>> ELSE @[x]]],
                   Address(<<"l", m.frame, Head(ps).n, 0>>, 0), Head(vals), Head(ps).t))

\* The body from its start or, after a goto, from the label.
Enter(body, m, st) ==
  LET r == Do("statement", body, [m EXCEPT !.st = st])
  IN  IF r.st = "goto" THEN Enter(body, r, "seek") ELSE r

Entered(d, vals, unit, m) ==
  LET r == Enter(d.body, Pass(d.params, vals,
                              [m EXCEPT !.frame = @ + 1, !.env = <<>>, !.unit = unit, !.fn = d.n,
                                        !.depth = 0, !.ret = Derived(d.t)]), "go")
  IN  [r EXCEPT !.frame = m.frame, !.env = m.env, !.unit = m.unit, !.fn = m.fn, !.depth = m.depth,
                !.ret = m.ret, !.st = IF @ = "exit" THEN @ ELSE "go"]

Invoked(c, m) ==
  CASE c.f = <<"g", "fputc">> ->
         [Yield(m, Number(Congruent(c.vals[1].n, "uchar"))) EXCEPT !.out = Append(@, Congruent(c.vals[1].n, "uchar"))]
    [] c.f = <<"g", "exit">> -> [m EXCEPT !.st = "exit"]
    [] OTHER -> LET d == Definition(m, c.f) IN Entered(m.units[d[1]][d[2]], c.vals, d[1], m)

-----------------------------------------------------------------------------
(* Objects with an initialiser: what is not given is zero.                 *)
Part(e, i) == IF i \in DOMAIN e.c THEN e.c[i] ELSE NoInit
Elements(t, e, p) ==
  [i \in 1..Head(t.d).n |->
     [t |-> Derived(t), p |-> [p EXCEPT !.n = @ + (i - 1) * Element(t)],
      e |-> IF e.op = "str" THEN IConst(IF i \in DOMAIN e.x THEN e.x[i] ELSE 0, IntType) ELSE Part(e, i)]]
Fields(t, e, p) ==
  [i \in 1..(IF get_type_category(t) = "union" THEN 1 ELSE Len(Descriptor(t.tag).members)) |->
     [t |-> Descriptor(t.tag).members[i].type,
      p |-> [p EXCEPT !.n = @ + Descriptor(t.tag).members[i].offset], e |-> Part(e, i)]]

Inits(parts, m) == IF parts = <<>> THEN m ELSE Inits(Tail(parts), Do("init", Head(parts), m))
Initialised(x, m) ==
  IF get_type_category(x.t) = "[]" THEN Inits(Elements(x.t, x.e, x.p), m)
  ELSE IF IsStruct(x.t) /\ x.e.op \in {"init", "none"} THEN Inits(Fields(x.t, x.e, x.p), m)
  ELSE IF x.e.op = "none" THEN Store0(m, x.p, Number(0), x.t)
  ELSE LET v == Do("value", IF x.e.op = "init" THEN x.e.c[1] ELSE x.e, m) IN Store0(v, x.p, v.val, x.t)

Bind(m, l) ==
  [m EXCEPT !.env = [x \in DOMAIN @ \cup {l.n} |->
     IF x # l.n THEN @[x]
     ELSE CASE l.sto = "static" -> <<"s", m.fn, m.depth, l.n>>
            [] l.sto = "extern" -> <<"g", l.n>>
            [] OTHER -> <<"l", m.frame, l.n, m.depth>>]]
NewObject(m, l) == [t |-> l.t, e |-> l.init, p |-> Address(ObjectOf(m, l.n), 0)]
Declared1(m, l) ==
  IF l.sto = "static"
  THEN IF ObjectOf(m, l.n) \in m.done THEN m
       ELSE [Do("init", NewObject(m, l), m) EXCEPT !.done = @ \cup {ObjectOf(m, l.n)}]
  ELSE IF l.sto = "extern" \/ l.init.op = "none" \/ m.st # "go" THEN m
  ELSE Do("init", NewObject(m, l), m)

-----------------------------------------------------------------------------
(* Statements                                                              *)
Run(ss, kind, m) ==
  IF ss = <<>> \/ m.st \notin {"go", "seek"} THEN m ELSE Run(Tail(ss), kind, Do(kind, Head(ss), m))
Compound(s, m) ==
  LET r == Run(s.b, "statement", Run(s.l, "declaration", [m EXCEPT !.depth = @ + 1]))
  IN  [r EXCEPT !.env = m.env, !.depth = m.depth]

Absent(e) == e.op = "none"
Evaluated(e, m) == IF Absent(e) THEN m ELSE Do("value", e, m)
Condition(s) == IF s.k = "for" THEN s.e[2] ELSE s.e[1]
Checked(s, m) == IF Absent(Condition(s)) THEN Yield(m, Number(1)) ELSE Do("value", Condition(s), m)
\* After the body of a loop, then back to its test.
Again(s, m) ==
  CASE m.st = "break" -> [m EXCEPT !.st = "go"]
    [] m.st \in {"go", "continue"} ->
         Do("loop", s, IF s.k = "for" THEN Evaluated(s.e[3], [m EXCEPT !.st = "go"]) ELSE [m EXCEPT !.st = "go"])
    [] OTHER -> m
Body(s, m) == Do("statement", s.b[1], m)
Loop(s, m) == LET c == Checked(s, m) IN IF IsTrue(c.val) THEN Again(s, Body(s, c)) ELSE c

Sought(m, label) == IF m.st = "seek" /\ m.seek = label THEN [m EXCEPT !.st = "go"] ELSE m
Switched(s, m) ==
  LET v == Do("value", s.e[1], m)
      r == Body(s, [v EXCEPT !.st = "seek", !.seek = <<"case", v.val.n>>])
      q == IF r.st = "seek" THEN Body(s, [v EXCEPT !.st = "seek", !.seek = <<"default">>]) ELSE r
  IN  IF q.st \in {"break", "seek"} THEN [q EXCEPT !.st = "go"] ELSE q

\* A statement that the flow passes by while it looks for a label.
Passed(s, m) ==
  CASE s.k = "compound" -> Compound(s, m)
    [] s.k = "if" -> LET r == Body(s, m) IN
         IF r.st = "seek" /\ Len(s.b) = 2 THEN Do("statement", s.b[2], r) ELSE r
    [] s.k \in {"while", "do", "for"} -> LET r == Body(s, m) IN IF r.st = "seek" THEN r ELSE Again(s, r)
    [] s.k = "switch" -> IF m.seek[1] # "goto" THEN m
                         ELSE LET r == Body(s, m) IN IF r.st = "break" THEN [r EXCEPT !.st = "go"] ELSE r
    [] s.k = "label" -> Body(s, Sought(m, <<"goto", s.x>>))
    [] s.k = "case" -> Body(s, Sought(m, <<"case", s.x>>))
    [] s.k = "default" -> Body(s, Sought(m, <<"default">>))
    [] OTHER -> m

Executed(s, m) ==
  CASE s.k = "compound" -> Compound(s, m)
    [] s.k = "if" -> LET c == Do("value", s.e[1], m) IN
         IF IsTrue(c.val) THEN Body(s, c) ELSE IF Len(s.b) = 2 THEN Do("statement", s.b[2], c) ELSE c
    [] s.k = "while" -> Loop(s, m)
    [] s.k = "for" -> Loop(s, Evaluated(s.e[1], m))
    [] s.k = "do" -> Again(s, Body(s, m))
    [] s.k = "switch" -> Switched(s, m)
    [] s.k \in {"label", "case", "default"} -> Body(s, m)
    [] s.k \in {"break", "continue"} -> [m EXCEPT !.st = s.k]
    [] s.k = "goto" -> [m EXCEPT !.st = "goto", !.seek = <<"goto", s.x>>]
    [] s.k = "return" -> IF s.e = <<>> THEN [m EXCEPT !.st = "return"]
         ELSE LET v == Do("value", s.e[1], m) IN
              [v EXCEPT !.st = IF @ = "exit" THEN @ ELSE "return", !.val = ConvertedTo(@, m.ret)]
    [] s.k = "expr" -> IF s.e = <<>> THEN m ELSE Evaluated(s.e[1], m)

Do(kind, x, m) ==
  CASE m.st = "exit" -> m
    [] kind = "value" -> ValueOf(x, m)
    [] kind = "place" -> PlaceOf(x, m)
    [] kind = "call" -> Invoked(x, m)
    [] kind = "init" -> Initialised(x, m)
    [] kind = "declaration" -> Declared1(Bind(m, x), x)
    [] kind = "loop" -> Loop(x, m)
    [] kind = "statement" -> IF m.st = "seek" THEN Passed(x, m) ELSE Executed(x, m)

-----------------------------------------------------------------------------
(* A program: its static objects are initialised, then main is called.     *)
InitialState(units) ==
  [units |-> units, mem |-> <<>>, done |-> {}, env |-> <<>>, unit |-> 1, fn |-> "", ret |-> IntType,
   frame |-> 0, depth |-> 0, out |-> <<>>, st |-> "go", seek |-> NoObj, val |-> Number(0)]
ObjectsOf(m, u) ==
  Concat([i \in DOMAIN m.units[u] |->
            IF m.units[u][i].k # "object" THEN <<>>
            ELSE <<[t |-> m.units[u][i].t, e |-> m.units[u][i].init,
                    p |-> Address(ObjectOf(m, m.units[u][i].n), 0)]>>])
RECURSIVE Started(_, _)
Started(m, u) ==
  IF u > Len(m.units) THEN [m EXCEPT !.unit = 1]
  ELSE Started(Inits(ObjectsOf([m EXCEPT !.unit = u], u), [m EXCEPT !.unit = u]), u + 1)
Meaning(units) ==
  Do("call", [f |-> <<"g", "main">>, vals |-> <<>>], Started(InitialState(units), 1))
=============================================================================
