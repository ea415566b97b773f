---------------------------- MODULE Expressions -----------------------------
(***************************************************************************)
(* The front end on expressions: the parser analyses an expression from    *)
(* its operands up, here on a stack of analysed trees, and an initialised  *)
(* static object is folded, checked and emitted for the target.            *)
(***************************************************************************)
EXTENDS CRules

CONSTANTS
  TypeOf,        \* the declared identifiers and their types
  Constants,     \* integer constants [decimal, u, suffix, v]
  UnaryOps, BinaryOps, AssignOps, CastTypes,
  MaxOperators,  \* bound: operators of the trees on the stack
  ExprArchs,     \* bound: the targets whose expressions are built (they differ in long)
  SmallConstant, \* bound: the constants combined with a tree that has an operator
  Objects        \* static objects <<type, initialiser>>, the initialiser not analysed yet

VARIABLES
  stack,    \* the trees that are analysed, the last one built on top
  object    \* the last object: its type, initialiser, directives; or the error

vars == <<target_arch, stack, object>>

NoObject == [t |-> ErrorType, e |-> NoInit, ok |-> FALSE, directives |-> <<>>]

Init ==
  /\ target_arch \in Archs
  /\ stack = <<>>
  /\ object = NoObject

RECURSIVE Operators(_)
Operators(e) ==
  IF e.c = <<>> THEN 0
  ELSE 1 + Operators(e.c[1]) + (IF Len(e.c) > 1 THEN Operators(e.c[2]) ELSE 0)
         + (IF Len(e.c) > 2 THEN Operators(e.c[3]) ELSE 0)

Used == LET sum[i \in 0..Len(stack)] == IF i = 0 THEN 0 ELSE sum[i - 1] + Operators(stack[i])
        IN  sum[Len(stack)]

\* The parser stops at a tree in error; an operator needs its operands.
Room == /\ object = NoObject /\ target_arch \in ExprArchs
        /\ \A i \in DOMAIN stack : stack[i].t # ErrorType
        /\ Used + Len(stack) <= MaxOperators
Top(n) == SubSeq(stack, Len(stack) - n + 1, Len(stack))
Reduce(n, e) == stack' = Append(SubSeq(stack, 1, Len(stack) - n), e)

Operand(e) == Room /\ Reduce(0, e) /\ UNCHANGED <<target_arch, object>>

\* Bound: a tree with a binary operator is an operand only among constants.
Monadic == \A i \in DOMAIN stack : Len(stack[i].c) <= 1
Identifier(x) == Monadic /\ Operand(analyze_primary_expression("id", x, TypeOf[x]))
RECURSIVE Numeric(_)
Numeric(e) == e.op = "iconst" \/ (e.c # <<>> /\ \A i \in DOMAIN e.c : Numeric(e.c[i]))
Constant(k) ==
  /\ Used > 0 => k.v <= SmallConstant /\ (Monadic \/ Numeric(stack[1]))
  /\ Operand(analyze_primary_expression("iconst", k, ErrorType))

Operator(n, op, x) ==
  /\ Len(stack) = n
  /\ \A i \in DOMAIN stack : stack[i].t # ErrorType
  /\ object = NoObject
  /\ Used < MaxOperators
  /\ Reduce(n, Analyzed(op, Top(n), x))
  /\ UNCHANGED <<target_arch, object>>

Unary(op) == Operator(1, op, "")
Cast(t) == Operator(1, "cast", t)
Binary(op) == Operator(2, op, "")
Assign(op) == Operator(2, "=", op)
Conditional == Operator(3, "?:", "")

(* The tree of an initialiser, analysed.                                   *)
RECURSIVE Typed(_)
Typed(e) ==
  CASE e.op = "init" -> [e EXCEPT !.c = [i \in DOMAIN e.c |-> Typed(e.c[i])]]
    [] e.op = "id" -> analyze_primary_expression("id", e.x, TypeOf[e.x])
    [] e.op \in {"iconst", "str"} -> analyze_primary_expression(e.op, e.x, ErrorType)
    [] e.op = "none" -> e
    [] OTHER -> Analyzed(e.op, [i \in DOMAIN e.c |-> Typed(e.c[i])], e.x)

StaticObjectDefinition ==
  /\ stack = <<>> /\ object = NoObject
  /\ \E i \in DOMAIN Objects :
       LET t == Objects[i][1] IN
       \E e \in {Typed(Objects[i][2])} : \E r \in {analyze_initializer(t, e)} :
         object' = [t |-> t, e |-> e, ok |-> r.ok,
                    directives |-> IF r.ok THEN StaticObject(t, r.e) ELSE <<>>]
  /\ UNCHANGED <<target_arch, stack>>

Next ==
  \/ \E x \in DOMAIN TypeOf : Identifier(x)
  \/ \E k \in Constants : Constant(k)
  \/ \E op \in UnaryOps : Unary(op)
  \/ \E t \in CastTypes : Cast(t)
  \/ \E op \in BinaryOps : Binary(op)
  \/ \E op \in AssignOps : Assign(op)
  \/ Conditional
  \/ StaticObjectDefinition

Spec == Init /\ [][Next]_vars

-----------------------------------------------------------------------------
(***************************************************************************)
(* Properties                                                              *)
(***************************************************************************)
HasTop == stack # <<>>
top == stack[Len(stack)]

\* analyze_cast_expression() rejects (void) of a structure too.
StructToVoid(e) == e.op = "cast" /\ e.x = Spec0("void") /\ IsStruct(e.c[1].t)

\* is_modif_lvalue() takes *f for modifiable when f is a function.
FunctionAssigned(e) == e.op = "=" /\ e.c[1].op = "ind" /\ Cat(e.c[1]) = "()"

\* Every operator gets the type C99 gives it on every target (analyze_ functions of
\* expr.c): a tree is rejected only when it violates a constraint, and a violation
\* passes only where expr.c warns instead.  A constant fits the type it gets.
TypesRight ==
  HasTop =>
    IF top.c = <<>> THEN top.op = "iconst" /\ top.t # ErrorType =>
           Fits(IF is_unsigned_int(Cat(top)) THEN UnsignedLong(top.x) ELSE top.x, Cat(top))
    ELSE /\ top.t = ErrorType => RuleType(top) = ErrorType \/ StructToVoid(top)
         /\ top.t # ErrorType =>
              IF RuleType(top) = ErrorType THEN OnlyWarned(top) \/ FunctionAssigned(top)
              ELSE Decayed(top.t) = Decayed(RuleType(top))

\* eval_const_expr() of expr.c computes with the numbers of the compiler, not with
\* those of the types; it still gives the value of every constant expression whose
\* operations and conversions are exact, with the short circuits of && || and ?:.
ConstantsRight ==
  (HasTop /\ top.t # ErrorType /\ RuleConst(top).ok) =>
    LET r == eval_const_expr(top, FALSE, TRUE) IN r.ok /\ r.v = RuleConst(top).v

\* Where the assembler puts what the directives say: the end of the object and the
\* scalars that are not zero.
Layout(ds) ==
  LET low(v, n) == [v EXCEPT !.n = @ % 2^(ByteBits * n)]
      at[i \in 0..Len(ds)] ==
        IF i = 0 THEN [end |-> 0, scalars |-> {}]
        ELSE LET prev == at[i - 1]
                 d == ds[i]
             IN  IF d.k = "align" THEN [prev EXCEPT !.end = round_up(@, d.n)]
                 ELSE [end |-> prev.end + d.n,
                       scalars |-> prev.scalars \cup
                         (IF d.k = "zero" \/ low(d.v, d.n) = Num(0) THEN {}
                          ELSE {<<prev.end, d.n, low(d.v, d.n)>>})]
  IN  at[Len(ds)]

\* The bytes that are not zero; an address stays whole.
InBytes(scalars) ==
  LET byte(v, i) == (v.n \div 2^(ByteBits * i)) % 2^ByteBits IN
  UNION {IF s[3].sym = NoSymbol
         THEN {<<s[1] + i, byte(s[3], i)>> : i \in {j \in 0..(s[2] - 1) : byte(s[3], j) # 0}}
         ELSE {s} : s \in scalars}

\* An accepted static object holds each scalar of its initialiser, converted to the
\* type of its element, at its offset and zero everywhere else, on every target
\* (do_static_init() and its five copies, with get_sizeof() and the descriptors).
StaticDataRight ==
  object.ok =>
    LET image == Layout(object.directives)
    IN  /\ InBytes(image.scalars) = InBytes(RuleObject(object.t, object.e, 0))
        /\ round_up(image.end, get_alignment(object.t)) = get_sizeof(object.t)

\* The comment at expr.c:1392 counts the trailing padding of a structure in its size;
\* the directives of an initialised object reserve that size.
PaddingReserved == object.ok => Layout(object.directives).end = get_sizeof(object.t)
=============================================================================
