------------------------------ MODULE ExprTypes -----------------------------
(***************************************************************************)
(* Expression trees and their semantic analysis (the analyze_ functions of *)
(* expr.c), which gives each node its type and rejects the trees that      *)
(* violate a constraint.                                                   *)
(*                                                                         *)
(* A node is [op, c, x, t]: operator, children, attribute (the name of an  *)
(* identifier or a member, the value of a constant, the type of a cast)    *)
(* and type; t2 is the type inferred for the arithmetic of a compound      *)
(* assignment.  Warnings and type qualifiers are left out.                 *)
(***************************************************************************)
EXTENDS CLayout

Node(op, c, x, t) == [op |-> op, c |-> c, x |-> x, t |-> t, t2 |-> t]
IConst(v, t) == Node("iconst", <<>>, v, t)
Id(name, t) == Node("id", <<>>, name, t)

Cat(e) == get_type_category(e.t)

INT_MAX == 2^(4 * ByteBits - 1) - 1
UINT_MAX == 2^(4 * ByteBits) - 1
LLONG_MAX == 2^(8 * ByteBits - 1) - 1

Suffixed(suffix, none, l, ll) == CASE suffix = "" -> none [] suffix = "l" -> l [] OTHER -> ll
BeyondInt(l, ll) == IF targeting_arch64 THEN l ELSE ll

\* (long long) of an unsigned value.
LongLong(v) == IF v > LLONG_MAX THEN v - 2 * (LLONG_MAX + 1) ELSE v

\* A constant is [decimal, u, suffix, v]; the conversion stops at the largest value.
analyze_iconst(k) ==
  LET signed == Suffixed(k.suffix, "int", "long", "llong")
      unsigned == Suffixed(k.suffix, "unsigned", "ulong", "ullong")
      big == k.v > LLONG_MAX
      ty == IF k.decimal /\ ~k.u
            THEN IF big THEN "llong"
                 ELSE IF k.v <= INT_MAX THEN signed ELSE BeyondInt("long", "llong")
            ELSE IF ~k.u /\ ~big
            THEN IF k.v <= INT_MAX THEN signed
                 ELSE IF k.v <= UINT_MAX THEN unsigned
                 ELSE BeyondInt("long", "llong")
            ELSE IF k.v <= UINT_MAX THEN unsigned ELSE BeyondInt("ulong", "ullong")
  IN  IConst(IF k.decimal /\ ~k.u /\ big THEN LLONG_MAX ELSE LongLong(k.v), Spec0(ty))

is_scalar(cat) == is_integer(cat) \/ cat = "*"
\* What the checks of scalar operands accept: arrays and functions decay.
is_scalar_operand(cat) == is_scalar(cat) \/ cat \in {"[]", "()"}

RECURSIVE is_lvalue(_)
is_lvalue(e) ==
  CASE e.op = "id" -> Cat(e) # "()"
    [] e.op \in {"[]", "->", "ind", "str"} -> TRUE
    [] e.op = "." -> is_lvalue(e.c[1])
    [] OTHER -> FALSE

is_modif_lvalue(e) == is_lvalue(e) /\ Cat(e) \notin {"[]", "void"}

\* Every structure of the table is complete and every array has a size.
is_ptr2obj(t) ==
  LET to == Derived(t) IN IF to.d = <<>> THEN to.s # "void" ELSE Head(to.d).op # "()"

can_assign_to(dest, src) ==
  LET cat_d == get_type_category(dest)
      cat_s == get_type_category(src)
      address == is_pointer(cat_s) \/ cat_s = "()"
  IN  CASE is_integer(cat_d) \/ cat_d = "*" -> is_integer(cat_s) \/ address
        [] cat_d \in {"struct", "union"} -> cat_d = cat_s /\ dest.tag = src.tag
        [] OTHER -> TRUE

ArithmeticType(l, r) ==
  Spec0(get_result_type(get_promoted_type(get_type_category(l)),
                        get_promoted_type(get_type_category(r))))
\* get_type_node(TOK_ENUM) is int.
NoEnum(t) == IF t = Spec0("enum") THEN IntType ELSE t

analyze_multiplicative_expression(op, l, r) ==
  IF is_integer(Cat(l)) /\ is_integer(Cat(r)) THEN NoEnum(ArithmeticType(l.t, r.t)) ELSE ErrorType

analyze_bitwise_operator(op, l, r) ==
  IF ~is_integer(Cat(l)) \/ ~is_integer(Cat(r)) THEN ErrorType
  ELSE IF op \in {"<<", ">>"} THEN NoEnum(Spec0(get_promoted_type(Cat(l))))
  ELSE NoEnum(ArithmeticType(l.t, r.t))

are_compatible(t1, t2) == t1 = t2

analyze_additive_expression(op, l, r) ==
  LET lc == Cat(l)
      rc == Cat(r)
  IN  CASE is_integer(lc) /\ is_integer(rc) -> NoEnum(ArithmeticType(l.t, r.t))
        [] op = "+" /\ is_integer(lc) /\ is_pointer(rc) -> IF is_ptr2obj(r.t) THEN r.t ELSE ErrorType
        [] is_pointer(lc) /\ is_integer(rc) -> IF is_ptr2obj(l.t) THEN l.t ELSE ErrorType
        [] op = "-" /\ is_pointer(lc) /\ is_pointer(rc) ->
             IF is_ptr2obj(l.t) /\ is_ptr2obj(r.t) /\ are_compatible(Derived(l.t), Derived(r.t))
             THEN Spec0("long") ELSE ErrorType
        [] OTHER -> ErrorType

analyze_relational_equality_expression(op, l, r) ==
  LET comparable(cat) == is_integer(cat) \/ is_pointer(cat) \/ cat = "()"
  IN  IF comparable(Cat(l)) /\ comparable(Cat(r)) THEN IntType ELSE ErrorType

analyze_logical_operator(op, l, r) ==
  IF is_scalar_operand(Cat(l)) /\ is_scalar_operand(Cat(r)) THEN IntType ELSE ErrorType

is_void_ptr(t) == Derived(t) = Spec0("void")

analyze_conditional_expression(a, b, c) ==
  LET ty2 == Cat(b)
      ty3 == Cat(c)
      address(cat) == is_pointer(cat) \/ cat = "()"
  IN  CASE ~is_scalar_operand(Cat(a)) -> ErrorType
        [] is_integer(ty2) /\ is_integer(ty3) -> NoEnum(ArithmeticType(b.t, c.t))
        [] is_integer(ty2) /\ address(ty3) -> c.t
        [] ty2 \in {"struct", "union"} /\ ty3 = ty2 /\ b.t.tag = c.t.tag -> b.t
        [] address(ty2) /\ is_integer(ty3) -> b.t
        [] address(ty2) /\ address(ty3) ->
             IF are_compatible(Derived(b.t), Derived(c.t)) THEN IF Derived(b.t).d = <<>> \/
                Head(Derived(b.t).d).op = "*" THEN c.t ELSE b.t
             ELSE IF ty2 # "()" /\ is_void_ptr(b.t) THEN b.t
             ELSE IF ty3 # "()" /\ is_void_ptr(c.t) THEN c.t ELSE b.t
        [] ty2 = "void" /\ ty3 = "void" -> b.t
        [] OTHER -> ErrorType

multiplicative == {"*", "/", "%"}
additive == {"+", "-"}
bitwise == {"<<", ">>", "&", "^", "|"}
relational == {"<", ">", "<=", ">=", "==", "!="}

BinaryType(op, l, r) ==
  CASE op \in multiplicative -> analyze_multiplicative_expression(op, l, r)
    [] op \in additive -> analyze_additive_expression(op, l, r)
    [] op \in bitwise -> analyze_bitwise_operator(op, l, r)
    [] op \in relational -> analyze_relational_equality_expression(op, l, r)
    [] op \in {"&&", "||"} -> analyze_logical_operator(op, l, r)
    [] op = "," -> r.t

\* The node of `l op= r', or of `l = r' when op is "".
analyze_assignment_expression(op, l, r) ==
  LET t2 == IF op = "" THEN r.t ELSE BinaryType(op, l, r)
      ok == is_modif_lvalue(l) /\ t2 # ErrorType /\ can_assign_to(l.t, t2)
  IN  [Node("=", <<l, r>>, op, IF ok THEN l.t ELSE ErrorType) EXCEPT !.t2 = t2]

analyze_inc_dec_operator(e) ==
  IF (is_integer(Cat(e)) \/ is_pointer(Cat(e))) /\ is_modif_lvalue(e) THEN e.t ELSE ErrorType

analyze_cast_expression(type, e) ==
  LET src == Cat(e)
      tgt == get_type_category(type)
  IN  IF (is_scalar_operand(src) \/ src = "void") /\ (is_scalar(tgt) \/ tgt = "void")
         /\ (src = "void" => tgt = "void")
      THEN type ELSE ErrorType

inc_dec == {"++pre", "--pre", "++post", "--post"}

\* sizeof and __alignof__ make their node a constant.
SizeOrAlignment(op, type) ==
  IF get_type_category(type) = "()" THEN Node("iconst", <<>>, 0, ErrorType)
  ELSE IConst(IF op = "sizeof" THEN get_sizeof(type) ELSE get_alignment(type), Spec0("ulong"))

UnaryType(op, e) ==
  LET cat == Cat(e) IN
  CASE op \in inc_dec -> analyze_inc_dec_operator(e)
    [] op = "addr" -> IF is_lvalue(e) \/ cat = "()" THEN PointerTo(e.t) ELSE ErrorType
    [] op = "ind" -> IF is_pointer(cat) THEN Derived(e.t)
                     ELSE IF cat = "()" THEN e.t ELSE ErrorType
    [] op \in {"u+", "u-", "~"} ->
         IF is_integer(cat) THEN NoEnum(Spec0(get_promoted_type(cat))) ELSE ErrorType
    [] op = "!" -> IF is_scalar_operand(cat) THEN IntType ELSE ErrorType

analyze_unary_expression(op, e) ==
  IF op \in {"sizeof", "alignof"} THEN SizeOrAlignment(op, e.t)
  ELSE Node(op, <<e>>, "", UnaryType(op, e))

\* The type of a function expression without the pointer it may be reached through.
FunctionType(t) ==
  IF t.d # <<>> /\ Head(t.d).op = "()" THEN t
  ELSE IF t.d # <<>> /\ Head(t.d).op = "*" /\ Tail(t.d) # <<>> /\ t.d[2].op = "()"
  THEN Derived(t) ELSE ErrorType

\* The parameters of the type, without the ellipsis; (void) is the empty sequence.
Parameters(t) == SelectSeq(Head(t.d).p, LAMBDA q : q # Ellipsis)
is_variadic(t) == Len(Parameters(t)) # Len(Head(t.d).p)

CallType(f, args) ==
  LET ty == FunctionType(f.t)
      ps == Parameters(ty)
  IN  IF ty = ErrorType THEN ErrorType
      ELSE IF Len(args) < Len(ps) \/ (Len(args) > Len(ps) /\ ~is_variadic(ty)) THEN ErrorType
      ELSE IF \E i \in DOMAIN ps : ~can_assign_to(ps[i], args[i].t) THEN ErrorType
      ELSE Derived(ty)

SubscriptType(l, r) ==
  LET p == IF is_pointer(Cat(l)) THEN l ELSE r
      i == IF is_pointer(Cat(l)) THEN r ELSE l
  IN  IF ~is_pointer(Cat(p)) \/ ~is_integer(Cat(i)) THEN ErrorType
      ELSE IF Tail(p.t.d) # <<>> /\ p.t.d[2].op = "()" THEN ErrorType
      ELSE Derived(p.t)

MemberType(op, e, id) ==
  LET d == IF op = "." THEN <<>> ELSE SubSeq(e.t.d, 2, Len(e.t.d))
      right == IF op = "." THEN e.t.d = <<>> ELSE e.t.d # <<>> /\ is_pointer(Head(e.t.d).op)
      ms == {i \in DOMAIN StructTable[e.t.tag] : StructTable[e.t.tag][i][1] = id}
  IN  IF e.t.tag = "" \/ ~right \/ ms = {} THEN ErrorType
      ELSE StructTable[e.t.tag][CHOOSE i \in ms : TRUE][2]

analyze_postfix_expression(op, cs, x) ==
  CASE op = "[]" -> Node(op, cs, x, SubscriptType(cs[1], cs[2]))
    [] op = "call" -> Node(op, cs, x, CallType(cs[1], Tail(cs)))
    [] op \in {".", "->"} -> Node(op, cs, x, MemberType(op, cs[1], x))
    [] op \in inc_dec -> Node(op, cs, x, analyze_inc_dec_operator(cs[1]))

analyze_primary_expression(op, x, t) ==
  CASE op = "iconst" -> analyze_iconst(x)
    [] op = "id" -> Id(x, t)
    [] op = "str" -> Node("str", <<>>, x, ArrayOf(Spec0("char"), Len(x) + 1))

\* The node for an operator and its analysed operands, as the parser builds it.
Analyzed(op, cs, x) ==
  IF \E i \in DOMAIN cs : cs[i].t = ErrorType THEN Node(op, cs, x, ErrorType)
  ELSE CASE op = "=" -> analyze_assignment_expression(x, cs[1], cs[2])
         [] op = "?:" -> Node(op, cs, x, analyze_conditional_expression(cs[1], cs[2], cs[3]))
         [] op = "cast" -> Node(op, cs, x, analyze_cast_expression(x, cs[1]))
         [] op \in {"addr", "ind", "u+", "u-", "~", "!", "sizeof", "alignof", "++pre", "--pre"} ->
              analyze_unary_expression(op, cs[1])
         [] op \in {"[]", "call", ".", "->", "++post", "--post"} ->
              analyze_postfix_expression(op, cs, x)
         [] OTHER -> Node(op, cs, x, BinaryType(op, cs[1], cs[2]))
=============================================================================
