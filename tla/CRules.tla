------------------------------- MODULE CRules -------------------------------
(***************************************************************************)
(* What C99 says of the type and the value of an expression and of the     *)
(* contents of an initialised object, written from the rules of the        *)
(* language and without the functions of expr.c that implement them.       *)
(***************************************************************************)
EXTENDS StaticInits

\* The integer types of a target, by whether its long has eight bytes.
WidthIn(long64, cat) == ByteBits * <<1, 2, 4, IF long64 THEN 8 ELSE 4, 8>>[Rank[cat]]
LeastIn(long64, cat) == IF is_signed_int(cat) THEN -(2^(WidthIn(long64, cat) - 1)) ELSE 0
GreatestIn(long64, cat) == LeastIn(long64, cat) + 2^WidthIn(long64, cat) - 1
Values == [long64 \in BOOLEAN |-> [cat \in Integers0 |->
            [width |-> WidthIn(long64, cat),
             least |-> LeastIn(long64, cat), greatest |-> GreatestIn(long64, cat)]]]

Width(cat) == Values[targeting_arch64][cat].width
GreatestOf(cat) == Values[targeting_arch64][cat].greatest
Fits(v, cat) == Values[targeting_arch64][cat].least <= v /\ v <= GreatestOf(cat)

\* 6.3.1.1: int when it represents all the values.  6.3.1.8: the first type of a rank
\* no less than either that is unsigned or represents all the values of both.
Order == <<"int", "unsigned", "long", "ulong", "llong", "ullong">>
PromotedIn(represents(_, _), cat) ==
  IF Rank[cat] <= Rank["int"] /\ represents("int", cat) THEN "int" ELSE cat
CommonIn(represents(_, _), a, b) ==
  LET fits(t) == Rank[t] >= Rank[a] /\ Rank[t] >= Rank[b]
                 /\ (is_unsigned_int(t) \/ (represents(t, a) /\ represents(t, b)))
      i == CHOOSE i \in DOMAIN Order : fits(Order[i]) /\ \A j \in 1..(i - 1) : ~fits(Order[j])
  IN  Spec0(Order[i])
Represents == [long64 \in BOOLEAN |->
  {p \in Integers0 \X Integers0 : /\ LeastIn(long64, p[1]) <= LeastIn(long64, p[2])
                                  /\ GreatestIn(long64, p[1]) >= GreatestIn(long64, p[2])}]
Promotions == [long64 \in BOOLEAN |->
  LET represents(t, u) == <<t, u>> \in Represents[long64]
  IN  [cat \in Integers0 |-> PromotedIn(represents, cat)]]
CommonTypes == [long64 \in BOOLEAN |->
  LET represents(t, u) == <<t, u>> \in Represents[long64]
  IN  [p \in Integers0 \X Integers0 |->
         CommonIn(represents, Promotions[long64][p[1]], Promotions[long64][p[2]])]]

Promoted(cat) == Promotions[targeting_arch64][cat]
CommonType(a, b) == CommonTypes[targeting_arch64][<<a, b>>]

\* 6.3.2.1: arrays and functions become pointers.
Decayed(t) ==
  CASE get_type_category(t) = "[]" -> PointerTo(Derived(t))
    [] get_type_category(t) = "()" -> PointerTo(t)
    [] OTHER -> t

IsArith(t) == is_integer(get_type_category(t))
IsPtr(t) == get_type_category(t) = "*"
IsScalar(t) == IsArith(t) \/ IsPtr(t)
IsStruct(t) == get_type_category(t) \in {"struct", "union"}
ToFunction(t) == IsPtr(t) /\ get_type_category(Derived(t)) = "()"
ToVoid(t) == IsPtr(t) /\ Derived(t) = Spec0("void")
ToObject(t) == IsPtr(t) /\ ~ToFunction(t) /\ ~ToVoid(t)
IsNull(e) == e.op = "iconst" /\ e.x = 0

\* The constraint two pointer operands share in assignments, ?: and ==.
Pointers(l, r) ==
  LET a == Decayed(l.t)
      b == Decayed(r.t)
  IN  \/ IsPtr(a) /\ IsPtr(b) /\ (a = b \/ (ToVoid(a) /\ ~ToFunction(b)) \/ (ToVoid(b) /\ ~ToFunction(a)))
      \/ IsPtr(a) /\ IsNull(r)

\* 6.5.5 to 6.5.14, 6.5.17: the type, or ErrorType when a constraint is violated.
RuleBinary(op, l, r) ==
  LET a == Decayed(l.t)
      b == Decayed(r.t)
      arith == IsArith(a) /\ IsArith(b)
      common == CommonType(get_type_category(a), get_type_category(b))
      same == IsPtr(a) /\ a = b
  IN
  CASE op \in {"*", "/", "%", "&", "|", "^"} -> IF arith THEN common ELSE ErrorType
    [] op \in {"<<", ">>"} -> IF arith THEN Spec0(Promoted(get_type_category(a))) ELSE ErrorType
    [] op = "+" -> IF arith THEN common
                   ELSE IF ToObject(a) /\ IsArith(b) THEN a
                   ELSE IF IsArith(a) /\ ToObject(b) THEN b ELSE ErrorType
    [] op = "-" -> IF arith THEN common
                   ELSE IF ToObject(a) /\ IsArith(b) THEN a
                   ELSE IF same /\ ToObject(a) THEN Spec0("long") ELSE ErrorType
    [] op \in {"<", ">", "<=", ">="} -> IF arith \/ (same /\ ~ToFunction(a)) THEN IntType ELSE ErrorType
    [] op \in {"==", "!="} ->
         IF arith \/ Pointers(l, r) \/ Pointers(r, l) THEN IntType ELSE ErrorType
    [] op \in {"&&", "||"} -> IF IsScalar(a) /\ IsScalar(b) THEN IntType ELSE ErrorType
    [] op = "," -> r.t

RECURSIVE Designates(_)
\* e designates an object.
Designates(e) ==
  /\ get_type_category(e.t) # "()"
  /\ e.op \in {"id", "ind", "[]", "->"} \/ (e.op = "." /\ Designates(e.c[1]))

\* 6.5.16
Modifiable(e) == Designates(e) /\ get_type_category(e.t) \notin {"[]", "void"}
Assignable(l, r) ==
  \/ IsArith(l.t) /\ IsArith(r.t)
  \/ IsStruct(l.t) /\ l.t = r.t
  \/ IsPtr(l.t) /\ Pointers(l, r)
RuleAssign(op, l, r) ==
  LET value == IF op = "" THEN r ELSE [r EXCEPT !.t = RuleBinary(op, l, r), !.op = "value"]
  IN  IF Modifiable(l) /\ value.t # ErrorType /\ Assignable(l, value) THEN l.t ELSE ErrorType

\* 6.5.15
RuleConditional(a, b, c) ==
  LET u == Decayed(b.t)
      v == Decayed(c.t)
  IN  IF ~IsScalar(Decayed(a.t)) THEN ErrorType
      ELSE IF IsArith(u) /\ IsArith(v) THEN CommonType(get_type_category(u), get_type_category(v))
      ELSE IF u = v THEN u
      ELSE IF IsPtr(u) /\ IsNull(c) THEN u
      ELSE IF IsPtr(v) /\ IsNull(b) THEN v
      ELSE IF ToVoid(u) /\ Pointers(b, c) THEN u
      ELSE IF ToVoid(v) /\ Pointers(b, c) THEN v ELSE ErrorType

\* 6.5.2 to 6.5.4
RuleUnary(op, e, x) ==
  LET t == Decayed(e.t) IN
  CASE op \in inc_dec -> IF Modifiable(e) /\ (IsArith(t) \/ ToObject(t)) THEN e.t ELSE ErrorType
    [] op = "addr" -> IF Designates(e) \/ get_type_category(e.t) = "()" THEN PointerTo(e.t) ELSE ErrorType
    [] op = "ind" -> IF IsPtr(t) THEN Derived(t) ELSE ErrorType
    [] op \in {"u+", "u-", "~"} -> IF IsArith(t) THEN Spec0(Promoted(get_type_category(t))) ELSE ErrorType
    [] op = "!" -> IF IsScalar(t) THEN IntType ELSE ErrorType
    [] op = "cast" -> IF x = Spec0("void") \/ (IsScalar(x) /\ IsScalar(t)) THEN x ELSE ErrorType

\* What the compiler accepts with a warning: integers and pointers, or pointers
\* of different types, in place of each other; void pointers stepped like others.
OnlyWarned(e) ==
  LET some == \E i \in DOMAIN e.c : IsPtr(Decayed(e.c[i].t))
      scalars == \A i \in DOMAIN e.c : IsScalar(Decayed(e.c[i].t))
  IN  \/ e.op \in {"=", "==", "!=", "<", ">", "<=", ">="} /\ some /\ scalars
      \/ e.op = "?:" /\ IsPtr(Decayed(e.c[2].t)) /\ IsScalar(Decayed(e.c[3].t))
      \/ e.op = "?:" /\ IsPtr(Decayed(e.c[3].t)) /\ IsScalar(Decayed(e.c[2].t))
      \/ e.op \in inc_dec

RuleType(e) ==
  CASE e.op = "=" -> RuleAssign(e.x, e.c[1], e.c[2])
    [] e.op = "?:" -> RuleConditional(e.c[1], e.c[2], e.c[3])
    [] e.op \in inc_dec \cup {"addr", "ind", "u+", "u-", "~", "!", "cast"} -> RuleUnary(e.op, e.c[1], e.x)
    [] e.op = "[]" -> LET s == RuleBinary("+", e.c[1], e.c[2])
                      IN  IF IsPtr(s) THEN Derived(s) ELSE ErrorType
    [] OTHER -> RuleBinary(e.op, e.c[1], e.c[2])

(***************************************************************************)
(* Values.  RuleConst gives the value of an integer constant expression    *)
(* when every operation and conversion in it is exact; [ok |-> FALSE]      *)
(* otherwise.                                                              *)
(***************************************************************************)
Exact(v, t) == [ok |-> IsArith(t) /\ Fits(v, get_type_category(t)), v |-> v]
Inexact == [ok |-> FALSE, v |-> 0]

\* The member of the type that is congruent to v.
Congruent(v, cat) ==
  LET u == v % 2^Width(cat) IN IF u > GreatestOf(cat) THEN u - 2^Width(cat) ELSE u

Quotient(a, b) ==
  LET abs(n) == IF n < 0 THEN -n ELSE n
      q == abs(a) \div abs(b)
  IN  IF (a < 0) = (b < 0) THEN q ELSE -q

RuleArith(op, a, b, t) ==
  LET cat == get_type_category(t) IN
  CASE op = "+" -> Exact(a + b, t)
    [] op = "-" -> Exact(a - b, t)
    [] op = "*" -> Exact(a * b, t)
    [] op = "/" -> IF b = 0 THEN Inexact ELSE Exact(Quotient(a, b), t)
    [] op = "%" -> IF b = 0 THEN Inexact ELSE Exact(a - b * Quotient(a, b), t)
    [] op = "<<" -> IF a < 0 \/ b \notin 0..(Width(cat) - 1) THEN Inexact ELSE Exact(a * 2^b, t)
    [] op = ">>" -> IF a < 0 \/ b \notin 0..(Width(cat) - 1) THEN Inexact ELSE Exact(a \div 2^b, t)
    [] op \in {"&", "|", "^"} -> IF a < 0 \/ b < 0 THEN Inexact
                               ELSE Exact(CASE op = "&" -> a & b [] op = "|" -> a | b [] op = "^" -> a ^^ b, t)

RuleCompare(op, a, b) ==
  CASE op = "<" -> a < b [] op = ">" -> a > b [] op = "<=" -> a <= b [] op = ">=" -> a >= b
    [] op = "==" -> a = b [] op = "!=" -> a # b

RECURSIVE RuleConst(_)
RuleConst(e) ==
  LET l == RuleConst(e.c[1])
      r == RuleConst(e.c[2])
      \* Both operands are exact and stay what they are in the type t.
      both(t) == l.ok /\ r.ok /\ Exact(l.v, t).ok /\ Exact(r.v, t).ok
      common == CommonType(Cat(e.c[1]), Cat(e.c[2]))
  IN
  IF ~IsArith(e.t) \/ \E i \in DOMAIN e.c : ~IsArith(e.c[i].t) THEN Inexact
  ELSE CASE e.op = "iconst" -> Exact(e.x, e.t)
    [] e.op = "u+" -> l
    [] e.op = "u-" -> IF l.ok THEN Exact(-l.v, e.t) ELSE Inexact
    [] e.op = "~" -> IF l.ok /\ is_signed_int(Cat(e)) THEN Exact(-l.v - 1, e.t) ELSE Inexact
    [] e.op = "!" -> IF l.ok THEN Exact(Truth(l.v = 0), e.t) ELSE Inexact
    [] e.op = "cast" ->
         IF l.ok THEN IF get_rank(Cat(e)) > INT_RANK THEN Exact(l.v, e.t)
                      ELSE Exact(Congruent(l.v, Cat(e)), e.t)
         ELSE Inexact
    [] e.op \in {"<<", ">>"} -> IF l.ok /\ r.ok THEN RuleArith(e.op, l.v, r.v, e.t) ELSE Inexact
    [] e.op \in {"+", "-", "*", "/", "%", "&", "|", "^"} ->
         IF both(e.t) THEN RuleArith(e.op, l.v, r.v, e.t) ELSE Inexact
    [] e.op \in relational ->
         IF both(common) THEN Exact(Truth(RuleCompare(e.op, l.v, r.v)), e.t) ELSE Inexact
    [] e.op = "&&" -> IF ~l.ok THEN Inexact ELSE IF l.v = 0 THEN l
                      ELSE IF r.ok THEN Exact(Truth(r.v # 0), e.t) ELSE Inexact
    [] e.op = "||" -> IF ~l.ok THEN Inexact ELSE IF l.v # 0 THEN Exact(1, e.t)
                      ELSE IF r.ok THEN Exact(Truth(r.v # 0), e.t) ELSE Inexact
    [] e.op = "?:" -> IF ~l.ok THEN Inexact
                      ELSE LET chosen == RuleConst(e.c[IF l.v # 0 THEN 2 ELSE 3])
                           IN  IF chosen.ok THEN Exact(chosen.v, e.t) ELSE Inexact
    [] OTHER -> Inexact

(***************************************************************************)
(* Objects.  The value of an initialiser is a number or an address, [sym,  *)
(* n]; the contents of an object are the scalars <<offset, size, value>>   *)
(* that are not zero.                                                      *)
(***************************************************************************)
RECURSIVE RuleStatic(_), Place(_)
\* The address of the object that e designates.
Place(e) ==
  CASE e.op = "id" -> [sym |-> <<"id", e.x>>, n |-> 0]
    [] e.op = "ind" -> RuleStatic(e.c[1])
    [] e.op = "[]" -> RuleStatic([e EXCEPT !.op = "+", !.t = PointerTo(e.t)])
    [] e.op = "." -> Plus(Place(e.c[1]), Num(get_member_descriptor(e.c[1].t.tag, e.x).offset))
    [] e.op = "->" -> Plus(RuleStatic(e.c[1]), Num(get_member_descriptor(e.c[1].t.tag, e.x).offset))

RuleStatic(e) ==
  LET step(i, j) == Times(get_sizeof(Derived(Decayed(e.c[i].t))), RuleStatic(e.c[j])) IN
  CASE Cat(e) \in {"[]", "()"} /\ e.op # "str" /\ e.op # "+" /\ e.op # "-" /\ e.op # "?:" -> Place(e)
    [] e.op = "str" -> [sym |-> <<"id", e.x>>, n |-> 0]
    [] e.op = "addr" -> Place(e.c[1])
    [] e.op = "cast" /\ ~RuleConst(e).ok -> RuleStatic(e.c[1])
    [] e.op = "+" /\ ~IsArith(e.t) ->
         IF IsArith(e.c[1].t) THEN Plus(RuleStatic(e.c[2]), step(2, 1)) ELSE Plus(RuleStatic(e.c[1]), step(1, 2))
    [] e.op = "-" /\ ~IsArith(e.c[1].t) -> Plus(RuleStatic(e.c[1]), Times(-1, step(1, 2)))
    [] e.op = "?:" /\ ~RuleConst(e).ok ->
         RuleStatic(e.c[IF RuleConst(e.c[1]).ok /\ RuleConst(e.c[1]).v = 0 THEN 3 ELSE 2])
    [] OTHER -> Num(RuleConst(e).v)

Scalars(t, e, base) ==
  LET size == ScalarSize(get_type_category(t))
  IN  {<<base, size, [v EXCEPT !.n = @ % 2^(ByteBits * size)]>> : v \in {RuleStatic(e)}}
        \ {<<base, size, Num(0)>>}

RECURSIVE RuleObject(_, _, _)
RuleObject(t, e, base) ==
  LET cat == get_type_category(t)
      ms == Descriptor(t.tag).members
  IN
  CASE cat = "[]" /\ e.op = "str" ->
         {<<base + i - 1, 1, Num(e.x[i])>> : i \in DOMAIN e.x \cap 1..Head(t.d).n}
    [] cat = "[]" /\ e.op # "str" ->
         UNION {RuleObject(Derived(t), e.c[i], base + (i - 1) * get_sizeof(Derived(t))) : i \in DOMAIN e.c}
    [] cat = "struct" -> UNION {RuleObject(ms[i].type, e.c[i], base + ms[i].offset) : i \in DOMAIN e.c}
    [] cat = "union" -> RuleObject(ms[1].type, e.c[1], base)
    [] e.op = "none" -> {}
    [] OTHER -> Scalars(t, IF IsInitList(e) THEN e.c[1] ELSE e, base)
=============================================================================
