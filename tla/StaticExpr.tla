----------------------------- MODULE StaticExpr -----------------------------
(***************************************************************************)
(* The value of a folded initialiser as the code generators emit it: a     *)
(* number, or a symbol + number, [sym, n].                                 *)
(***************************************************************************)
EXTENDS ConstExpr

NoSymbol == <<"none">>
Num(n) == [sym |-> NoSymbol, n |-> n]
Plus(v, w) == [sym |-> IF v.sym = NoSymbol THEN w.sym ELSE v.sym, n |-> v.n + w.n]
Times(n, v) == [v EXCEPT !.n = n * @]
\* The default of the switch on the operator: assert(0).
AssertionFails == [sym |-> <<"assert">>, n |-> 0]

RECURSIVE static_expr(_), Scaled(_, _, _)
\* Child j times the size of what child i points at.
Scaled(e, i, j) == Times(ElemSize(e, i), static_expr(e.c[j]))

static_expr(e) ==
  CASE e.op = "iconst" -> Num(e.x)
    [] e.op \in {"str", "id"} -> [sym |-> <<e.op, e.x>>, n |-> 0]
    [] e.op = "[]" \/ (e.op = "+" /\ ~is_integer(Cat(e))) ->
         Plus(static_expr(e.c[PtrChild(e)]), Scaled(e, PtrChild(e), IntChild(e)))
    [] e.op \in {".", "->"} ->
         IF Cat(e.c[1]) # "union"
         THEN Plus(static_expr(e.c[1]), Num(get_member_descriptor(e.c[1].t.tag, e.x).offset))
         ELSE static_expr(e.c[1])
    [] e.op \in {"addr", "ind", "cast"} -> static_expr(e.c[1])
    [] e.op = "+" -> Plus(static_expr(e.c[1]), static_expr(e.c[2]))
    [] e.op = "-" ->
         Plus(static_expr(e.c[1]),
              Times(-1, IF is_integer(Cat(e.c[1])) THEN static_expr(e.c[2]) ELSE Scaled(e, 1, 2)))
    [] e.op = "?:" -> static_expr(e.c[IF e.c[1].x # 0 THEN 2 ELSE 3])
    [] OTHER -> AssertionFails
=============================================================================
