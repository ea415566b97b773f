------------------------------ MODULE ConstExpr -----------------------------
(***************************************************************************)
(* Constant expressions: eval_const_expr() of expr.c, which folds an       *)
(* analysed tree in place.  The result is [ok, v, e]: ok is FALSE when the *)
(* compiler stops with "invalid constant expression", v is the value       *)
(* returned and e the tree left behind, an "iconst" node when it folded.   *)
(* The arithmetic is that of the compiler's own long long, never that of   *)
(* the type of the expression.                                             *)
(***************************************************************************)
EXTENDS ExprTypes, Bitwise

CONSTANT StaticIds  \* the identifiers is_external_id() or their storage class make static

Truncated(v, bits) == v % 2^bits
\* The value of the low bits of v as a signed number.
SignedValue(v, bits) ==
  LET u == v % 2^bits IN IF u >= 2^(bits - 1) THEN u - 2^bits ELSE u

\* The compiler's (unsigned long) of a long long.
UnsignedLong(v) == v % 2^(8 * ByteBits)
Truth(b) == IF b THEN 1 ELSE 0

\* C's division truncates towards zero.
CDiv(a, b) == IF (a >= 0) = (b > 0) THEN (IF a >= 0 THEN a ELSE -a) \div (IF b > 0 THEN b ELSE -b)
              ELSE -((IF a >= 0 THEN a ELSE -a) \div (IF b > 0 THEN b ELSE -b))
CRem(a, b) == a - b * CDiv(a, b)

BitOp(op, a, b) ==
  LET x == UnsignedLong(a)
      y == UnsignedLong(b)
  IN  SignedValue(CASE op = "&" -> x & y [] op = "|" -> x | y [] op = "^" -> x ^^ y, 8 * ByteBits)

\* A folded operand of a node of type t.
InType(t, v) == IF is_unsigned_int(get_type_category(t)) THEN UnsignedLong(v) ELSE v

\* The operators whose operands must both have folded; t is the type of the node.
FoldMultiplicative(op, a, b, t) ==
  CASE op = "*" -> a * b
    [] op = "/" -> CDiv(InType(t, a), InType(t, b))
    [] op = "%" -> CRem(InType(t, a), InType(t, b))

FoldBinary(op, a, b, t) ==
  LET x == InType(t, a)
      y == InType(t, b)
  IN  CASE op = "<<" -> a * 2^b
        [] op = ">>" -> x \div 2^y
        [] op = "<" -> Truth(x < y)
        [] op = ">" -> Truth(x > y)
        [] op = "<=" -> Truth(x <= y)
        [] op = ">=" -> Truth(x >= y)
        [] op = "==" -> Truth(a = b)
        [] op = "!=" -> Truth(a # b)
        [] OTHER -> BitOp(op, a, b)

\* Mutant: a cast to a narrow signed type only drops the high bits.
FoldCast_mut(cat, v) ==
  CASE cat \in {"short", "ushort"} -> Truncated(v, 2 * ByteBits)
    [] cat \in {"char", "schar", "uchar"} -> Truncated(v, ByteBits)
    [] OTHER -> v

FoldCast(cat, v) ==
  CASE cat = "short" -> SignedValue(v, 2 * ByteBits)
    [] cat = "ushort" -> Truncated(v, 2 * ByteBits)
    [] cat \in {"char", "schar"} -> SignedValue(v, ByteBits)
    [] cat = "uchar" -> Truncated(v, ByteBits)
    [] cat \in {"int", "enum"} -> SignedValue(v, 4 * ByteBits)
    [] cat \in {"unsigned", "*"} -> Truncated(v, 4 * ByteBits)
    [] OTHER -> v

\* A cast may not truncate an address.
FoldableCast(cat) ==
  cat \notin {"short", "ushort", "char", "schar", "uchar"}
    \cup (IF targeting_arch64 THEN {"int", "unsigned"} ELSE {})

Failed(e) == [ok |-> FALSE, v |-> 0, e |-> e]
Folded(e, v) == [ok |-> TRUE, v |-> v, e |-> [e EXCEPT !.op = "iconst", !.c = <<>>, !.x = v]]
Kept(e, v, cs) == [ok |-> TRUE, v |-> v, e |-> [e EXCEPT !.c = cs]]
\* VALUE(e) = cond overwrites the operator of e, which shares its place with the value.
Overwritten(e) == [e EXCEPT !.op = "]"]
\* An address is known to be true; the value of an address plus a number is not used.
AnAddress == 1

IsConst(r) == r.e.op = "iconst"
\* KIND(e) = OpExp: an operator that did not fold, so its value is unknown.
Unknown(r) == r.e.op \notin {"iconst", "id", "str"}

\* The pointer operand and the integer operand of + and [], and the size pointed at.
PtrChild(e) == IF is_integer(Cat(e.c[1])) THEN 2 ELSE 1
IntChild(e) == 3 - PtrChild(e)
ElemSize(e, i) == get_sizeof(Derived(e.c[i].t))

\* The fold_ operators are the cases of eval_const_expr().
RECURSIVE eval_const_expr(_, _, _)

\* An operator that passes the address of its operand on, `offset' further.
Through(e, r, offset) ==
  IF ~r.ok THEN Failed(e)
  ELSE IF IsConst(r) THEN Folded(e, r.v + offset)
  ELSE Kept(e, r.v, <<r.e>>)

fold_subscript(e, is_addr, is_iconst) ==
  LET i == eval_const_expr(e.c[IntChild(e)], FALSE, is_iconst)
      p == eval_const_expr(e.c[PtrChild(e)], is_addr, is_iconst)
  IN  IF is_iconst \/ ~i.ok \/ ~IsConst(i) \/ ~p.ok THEN Failed(e)
      ELSE IF IsConst(p) THEN Folded(e, p.v + i.v * ElemSize(e, PtrChild(e)))
      ELSE Kept(e, p.v, IF PtrChild(e) = 1 THEN <<p.e, i.e>> ELSE <<i.e, p.e>>)

fold_member(e, is_addr, is_iconst) ==
  IF is_iconst THEN Failed(e)
  ELSE Through(e, eval_const_expr(e.c[1], is_addr, is_iconst),
               IF Cat(e.c[1]) = "union" THEN 0 ELSE get_member_descriptor(e.c[1].t.tag, e.x).offset)

fold_address(e, is_iconst) ==
  IF is_iconst THEN Failed(e) ELSE Through(e, eval_const_expr(e.c[1], TRUE, is_iconst), 0)

fold_indirection(e, is_addr, is_iconst) ==
  IF is_iconst THEN Failed(e) ELSE Through(e, eval_const_expr(e.c[1], is_addr, is_iconst), 0)

fold_unary(e, is_iconst) ==
  LET r == eval_const_expr(e.c[1], FALSE, is_iconst) IN
  IF ~r.ok \/ ~IsConst(r) THEN Failed(e)
  ELSE Folded(e, CASE e.op = "u+" -> r.v [] e.op = "u-" -> -r.v
                   [] e.op = "~" -> -r.v - 1 [] e.op = "!" -> Truth(r.v = 0))

fold_cast(e, is_iconst) ==
  LET cat == get_type_category(e.x)
      r == eval_const_expr(e.c[1], FALSE, is_iconst)
  IN  IF (is_iconst /\ ~is_integer(cat)) \/ ~r.ok THEN Failed(e)
      ELSE IF IsConst(r) THEN Folded(e, FoldCast(cat, r.v))
      ELSE IF FoldableCast(cat) THEN Kept(e, r.v, <<r.e>>) ELSE Failed(e)

fold_plus(e, is_iconst) ==
  LET l == eval_const_expr(e.c[1], FALSE, is_iconst)
      r == eval_const_expr(e.c[2], FALSE, is_iconst)
      i == IF PtrChild(e) = 1 THEN r ELSE l
      p == IF PtrChild(e) = 1 THEN l ELSE r
      kept == Kept(e, AnAddress, <<l.e, r.e>>)
  IN  IF ~l.ok \/ ~r.ok THEN Failed(e)
      ELSE IF is_integer(Cat(e)) THEN IF IsConst(l) /\ IsConst(r) THEN Folded(e, l.v + r.v) ELSE kept
      ELSE IF is_iconst \/ ~IsConst(i) THEN Failed(e)
      ELSE IF IsConst(p) THEN Folded(e, p.v + i.v * ElemSize(e, PtrChild(e))) ELSE kept

fold_minus(e, is_iconst) ==
  LET l == eval_const_expr(e.c[1], FALSE, is_iconst)
      r == eval_const_expr(e.c[2], FALSE, is_iconst)
      int == is_integer(Cat(e.c[1]))
  IN  IF (~int /\ is_iconst) \/ ~l.ok \/ ~r.ok \/ ~IsConst(r) THEN Failed(e)
      ELSE IF ~IsConst(l) THEN Kept(e, AnAddress, <<l.e, r.e>>)
      ELSE Folded(e, IF int THEN l.v - r.v
                     ELSE IF is_integer(Cat(e.c[2])) THEN l.v - r.v * ElemSize(e, 1)
                     ELSE (l.v - r.v) \div ElemSize(e, 1))

fold_logical(e, is_iconst) ==
  LET l == eval_const_expr(e.c[1], FALSE, is_iconst)
      r == eval_const_expr(e.c[2], FALSE, is_iconst)
      decides(v) == IF e.op = "&&" THEN v = 0 ELSE v # 0
      short == Folded(e, Truth(e.op = "||"))
  IN  IF ~l.ok THEN Failed(e)
      ELSE IF Unknown(l) THEN IF ~r.ok \/ Unknown(r) \/ ~decides(r.v) THEN Failed(e) ELSE short
      ELSE IF decides(l.v) THEN short
      ELSE IF ~r.ok THEN Failed(e) ELSE Folded(e, Truth(r.v # 0))

fold_conditional(e, is_iconst) ==
  LET c == eval_const_expr(e.c[1], FALSE, is_iconst)
      i == IF c.v # 0 THEN 2 ELSE 3
      r == eval_const_expr(e.c[i], FALSE, is_iconst)
  IN  IF ~c.ok \/ Unknown(c) \/ ~r.ok THEN Failed(e)
      ELSE IF IsConst(r) THEN Folded(e, r.v)
      ELSE Kept(IF IsConst(c) THEN e ELSE Overwritten(e), r.v, [e.c EXCEPT ![1] = c.e, ![i] = r.e])

fold_primary(e, is_addr, is_iconst) ==
  CASE e.op = "iconst" -> [ok |-> TRUE, v |-> e.x, e |-> e]
    [] e.op = "str" -> IF is_iconst THEN Failed(e) ELSE [ok |-> TRUE, v |-> AnAddress, e |-> e]
    [] e.op = "id" ->
         IF is_iconst \/ (~is_addr /\ Cat(e) \notin {"[]", "()"}) \/ e.x \notin StaticIds THEN Failed(e)
         ELSE [ok |-> TRUE, v |-> AnAddress, e |-> e]

eval_const_expr(e, is_addr, is_iconst) ==
  CASE e.op \in {"iconst", "str", "id"} -> fold_primary(e, is_addr, is_iconst)
    [] e.op = "[]" -> fold_subscript(e, is_addr, is_iconst)
    [] e.op \in {".", "->"} -> fold_member(e, is_addr, is_iconst)
    [] e.op = "addr" -> fold_address(e, is_iconst)
    [] e.op = "ind" -> fold_indirection(e, is_addr, is_iconst)
    [] e.op \in {"u+", "u-", "~", "!"} -> fold_unary(e, is_iconst)
    [] e.op = "cast" -> fold_cast(e, is_iconst)
    [] e.op = "+" -> fold_plus(e, is_iconst)
    [] e.op = "-" -> fold_minus(e, is_iconst)
    [] e.op \in {"&&", "||"} -> fold_logical(e, is_iconst)
    [] e.op = "?:" -> fold_conditional(e, is_iconst)
    [] e.op \in multiplicative \cup bitwise \cup relational ->
         LET l == eval_const_expr(e.c[1], FALSE, is_iconst)
             r == eval_const_expr(e.c[2], FALSE, is_iconst)
         IN  IF ~l.ok \/ ~r.ok \/ ~IsConst(l) \/ ~IsConst(r) THEN Failed(e)
             ELSE Folded(e, IF e.op \in multiplicative THEN FoldMultiplicative(e.op, l.v, r.v, e.t)
                            ELSE FoldBinary(e.op, l.v, r.v, e.t))
    [] OTHER -> Failed(e)
=============================================================================
