------------------------------ MODULE VM64CGen ------------------------------
(***************************************************************************)
(* The code generator for the 64-bit virtual machine (vm64_cgen.c): one    *)
(* operator per function and per case of expression(), each the code that  *)
(* is emitted for an analysed tree in a context (VMCode).                  *)
(***************************************************************************)
EXTENDS VMCode

\* What takes two stack slots: the address of a structure as well.
is_64val(cat) ==
  cat \in {"long", "ulong", "llong", "ullong", "*", "[]", "()", "struct", "union"}
Is64(t) == is_64val(get_type_category(t))
\* The test of the arithmetic operators.
IsLongRank(t) == get_rank(get_type_category(t)) >= LONG_RANK

vm64_pop(t) == Ops(IF Is64(t) THEN <<"pop", "pop">> ELSE <<"pop">>)

vm64_store(t) ==
  CASE IsChar(get_type_category(t)) -> Ops(<<"stb">>)
    [] IsShort(get_type_category(t)) -> Ops(<<"stw">>)
    [] IsStruct0(t) -> <<Op("swap2"), OpN("memcpy", get_sizeof(t))>>
    [] OTHER -> Ops(<<IF Is64(t) THEN "stqw" ELSE "stdw">>)

vm64_LoadOp(cat) ==
  CASE cat = "uchar" -> "ldub" [] cat \in {"char", "schar"} -> "ldb"
    [] cat = "short" -> "ldw" [] cat = "ushort" -> "lduw"
    [] is_64val(cat) -> "ldqw" [] OTHER -> "lddw"
vm64_load(t) ==
  IF get_type_category(t) \in {"struct", "union", "()", "[]"} THEN <<>>
  ELSE <<Op(vm64_LoadOp(get_type_category(t)))>>
vm64_loaded(t, is_addr) == IF is_addr THEN <<>> ELSE vm64_load(t)

\* A name is a local or a parameter, a static local, or external.
vm64_load_addr(e, c) ==
  IF e.x \in c.statics THEN <<OpS("ldiqw", StaticLocal(c.fn, e.x))>>
  ELSE IF e.x \in DOMAIN c.loc THEN <<OpN("ldbp", c.loc[e.x])>>
  ELSE <<OpS("ldiqw", Global(e.x))>>

\* What expr_convert() emits after the expression.
vm64_narrow(src, kept, op) ==
  IF is_64val(src) THEN <<"pop", op>> ELSE IF src \in kept THEN <<>> ELSE <<op>>
vm64_widen(src) ==
  IF ~is_integer(src) \/ get_rank(src) > INT_RANK THEN <<>>
  ELSE IF is_unsigned_int(src) THEN <<"udw2qw">> ELSE <<"dw2qw">>
vm64_Convert(src, dest) ==
  Ops(CASE dest \in {"char", "schar"} -> vm64_narrow(src, {"char", "schar"}, "dw2b")
        [] dest = "uchar" -> vm64_narrow(src, {"uchar"}, "dw2ub")
        [] dest = "short" -> vm64_narrow(src, {"char", "schar", "uchar", "short"}, "dw2w")
        [] dest = "ushort" -> vm64_narrow(src, {"uchar", "ushort"}, "dw2uw")
        [] dest \in {"int", "enum", "unsigned"} -> IF is_64val(src) THEN <<"pop">> ELSE <<>>
        [] dest \in {"void", "struct", "union"} -> <<>>
        [] OTHER -> vm64_widen(src))

\* The code of a tree: the value or the address of an expression, or a statement.
RECURSIVE vm64_code(_, _, _), vm64_function_argument(_, _, _), vm64_do_auto_init(_, _, _, _)
vm64_value(e, c) == vm64_code("value", e, c)
vm64_address(e, c) == vm64_code("address", e, c)
vm64_child(e, i, c) == vm64_value(e.c[i], At(c, i))

vm64_expr_convert(e, dest, c) == vm64_value(e, c) \o vm64_Convert(Cat(e), get_type_category(dest))
vm64_child_convert(e, i, dest, c) == vm64_expr_convert(e.c[i], dest, At(c, i))

vm64_controlling_expression(e, c) == vm64_value(e, c) \o (IF Is64(e.t) THEN Ops(<<"ordw">>) ELSE <<>>)

\* An operator whose operands are converted when type t has eight bytes (BIN_OPS2()).
vm64_binary(e, t, op, c) ==
  IF IsLongRank(t) THEN vm64_child_convert(e, 1, e.t, c) \o vm64_child_convert(e, 2, e.t, c) \o Ops(<<op \o "qw">>)
             ELSE vm64_child(e, 1, c) \o vm64_child(e, 2, c) \o Ops(<<op \o "dw">>)

\* The operands of a comparison: the other one becomes the type of one with eight bytes.
vm64_comparison(e, op, c) ==
  IF Is64(e.c[1].t)
  THEN vm64_child(e, 1, c) \o vm64_child_convert(e, 2, e.c[1].t, c) \o Ops(<<op \o "qw">>)
  ELSE IF Is64(e.c[2].t)
  THEN vm64_child_convert(e, 1, e.c[2].t, c) \o vm64_child(e, 2, c) \o Ops(<<op \o "qw">>)
  ELSE vm64_child(e, 1, c) \o vm64_child(e, 2, c) \o Ops(<<op \o "dw">>)

vm64_equality(e, c) == vm64_comparison(e, EqualityOp(e), c)
vm64_relational(e, c) == vm64_comparison(e, RelationSign(e) \o RelationOp[e.op], c)

vm64_shift(e, c) ==
  vm64_child(e, 1, c) \o vm64_child_convert(e, 2, IntType, c)
  \o Ops(<<ShiftOp(e) \o (IF IsLongRank(e.t) THEN "qw" ELSE "dw")>>)

\* The size of what a pointer steps over.
vm64_scale(size, op) == IF size > 1 THEN <<OpN("ldiqw", size), Op(op)>> ELSE <<>>

\* Child i is the integer that is added to the pointer, child j.
vm64_offset_pointer(e, i, j, size, c) ==
  vm64_child(e, j, c) \o vm64_child_convert(e, i, e.c[j].t, c) \o vm64_scale(size, "mulqw")

vm64_plus(e, c) ==
  IF is_integer(Cat(e)) THEN vm64_binary(e, e.t, "add", c)
  ELSE vm64_offset_pointer(e, IntegerOperand(e), 3 - IntegerOperand(e),
                           get_sizeof(Derived(e.c[3 - IntegerOperand(e)].t)), c)
       \o Ops(<<"addqw">>)

\* The test of an integer subtraction is on the first operand.
vm64_minus(e, c) ==
  IF is_integer(Cat(e.c[1])) THEN vm64_binary(e, e.c[1].t, "sub", c)
  ELSE IF is_integer(Cat(e.c[2]))
  THEN vm64_offset_pointer(e, 2, 1, get_sizeof(Derived(e.c[1].t)), c) \o Ops(<<"subqw">>)
  ELSE vm64_child(e, 1, c) \o vm64_child_convert(e, 2, e.c[1].t, c) \o Ops(<<"subqw">>)
       \o vm64_scale(get_sizeof(Derived(e.c[1].t)), "sdivqw")

vm64_one(t, by) ==
  IF is_integer(get_type_category(t)) /\ ~IsLongRank(t) THEN OpN(by, 1) ELSE OpN("ldiqw", Step(t))
vm64_pre_inc(e, c) ==
  vm64_address(e.c[1], At(c, 1)) \o Ops(<<"dup2", "dup2">>) \o vm64_load(e.t)
  \o <<vm64_one(e.t, "ldidw")>>
  \o Ops(IF is_integer(Cat(e)) /\ ~IsLongRank(e.t) THEN <<IncDecOp(e.op) \o "dw", "dup", "swap2">>
         ELSE <<IncDecOp(e.op) \o "qw", "swap2">>)
  \o vm64_store(e.t) \o Ops(<<"pop", "pop">>) \o vm64_load(e.t)

\* The new value of what is not 64-bit is computed as a qword; which of the two
\* conversions makes it one does not matter.
vm64_post_inc(e, c) ==
  vm64_address(e.c[1], At(c, 1)) \o Ops(<<"dup2">>) \o vm64_load(e.t)
  \o Ops(IF Is64(e.t) THEN <<>> ELSE <<"dw2qw">>) \o Ops(<<"swap2", "dup2">>) \o vm64_load(e.t)
  \o Ops(IF Is64(e.t) THEN <<>> ELSE IF is_unsigned_int(Cat(e)) THEN <<"dw2qw">> ELSE <<"udw2qw">>)
  \o <<vm64_one(e.t, "ldiqw"), Op(IncDecOp(e.op) \o "qw")>>
  \o Ops(IF Is64(e.t) THEN <<>> ELSE <<"pop", "dup">>) \o Ops(<<"swap2">>) \o vm64_store(e.t)
  \o Ops(<<"pop", "pop">>) \o Ops(IF Is64(e.t) THEN <<>> ELSE <<"pop">>)

vm64_unary(e, c) ==
  vm64_child(e, 1, c)
  \o (CASE e.op = "u+" -> <<>>
        [] e.op = "u-" -> Ops(<<"neg" \o (IF IsLongRank(e.t) THEN "qw" ELSE "dw")>>)
        [] e.op = "~" -> Ops(<<"cmpl" \o (IF IsLongRank(e.t) THEN "qw" ELSE "dw")>>)
        [] e.op = "!" -> Ops(<<"not" \o (IF Is64(e.c[1].t) THEN "qw" ELSE "dw")>>))

vm64_subscript(e, is_addr, c) ==
  vm64_offset_pointer(e, 3 - PointerOperand(e), PointerOperand(e), get_sizeof(e.t), c)
  \o Ops(<<"addqw">>) \o vm64_loaded(e.t, is_addr)

\* The arguments from the i-th on, the last one first.
vm64_function_argument(e, i, c) ==
  IF i >= Len(e.c) THEN <<>>
  ELSE vm64_function_argument(e, i + 1, c)
       \o vm64_child_convert(e, i + 1, ArgumentType(e, i), c)
       \o (IF IsStruct0(ArgumentType(e, i)) THEN <<OpN("ldn", get_sizeof(ArgumentType(e, i)))>> ELSE <<>>)

\* The high dword of a narrow result, or half of the zero of a void function, is dropped.
vm64_call(e, c) ==
  vm64_function_argument(e, 1, c) \o vm64_child(e, 1, c) \o <<OpN("call", ArgumentArea(e, 1))>>
  \o Ops(IF Cat(e) = "void" \/ (is_integer(Cat(e)) /\ ~IsLongRank(e.t)) THEN <<"pop">> ELSE <<>>)

vm64_member(e, is_addr, c) ==
  vm64_child(e, 1, c)
  \o (IF IsUnion(e.c[1].t) THEN <<>>
      ELSE <<OpN("ldiqw", get_member_descriptor(e.c[1].t.tag, e.x).offset), Op("addqw")>>)
  \o vm64_loaded(e.t, is_addr)

vm64_assignment(e, c) ==
  vm64_expr_convert(Assigned(e), e.t, At(c, 3)) \o vm64_address(e.c[1], At(c, 4)) \o vm64_store(e.t)

vm64_conditional(e, c) ==
  ConditionalCode(c, vm64_controlling_expression(e.c[1], At(c, 1)),
                  vm64_child_convert(e, 2, e.t, c), vm64_child_convert(e, 3, e.t, c))
vm64_logical(e, c) ==
  LogicalCode(c, e.op, vm64_controlling_expression(e.c[1], At(c, 1)),
                       vm64_controlling_expression(e.c[2], At(c, 2)))

vm64_expression(e, is_addr, c) ==
  CASE e.op = "," -> vm64_child(e, 1, c) \o vm64_pop(e.c[1].t) \o vm64_child(e, 2, c)
    [] e.op = "=" -> vm64_assignment(e, c)
    [] e.op = "?:" -> vm64_conditional(e, c)
    [] e.op \in {"||", "&&"} -> vm64_logical(e, c)
    [] e.op \in {"&", "|", "^"} -> vm64_binary(e, e.t, BitwiseOp[e.op], c)
    [] e.op \in {"==", "!="} -> vm64_equality(e, c)
    [] e.op \in {"<", ">", "<=", ">="} -> vm64_relational(e, c)
    [] e.op \in {"<<", ">>"} -> vm64_shift(e, c)
    [] e.op = "+" -> vm64_plus(e, c)
    [] e.op = "-" -> vm64_minus(e, c)
    [] e.op \in multiplicative -> vm64_binary(e, e.t, MultiplicativeOp(e), c)
    [] e.op = "cast" -> vm64_child_convert(e, 1, e.x, c)
    [] e.op \in {"++pre", "--pre"} -> vm64_pre_inc(e, c)
    [] e.op \in {"++post", "--post"} -> vm64_post_inc(e, c)
    [] e.op = "addr" -> vm64_address(e.c[1], At(c, 1))
    [] e.op = "ind" -> vm64_child(e, 1, c) \o vm64_loaded(e.t, is_addr)
    [] e.op \in {"u+", "u-", "~", "!"} -> vm64_unary(e, c)
    [] e.op = "[]" -> vm64_subscript(e, is_addr, c)
    [] e.op = "call" -> vm64_call(e, c)
    [] e.op \in {".", "->"} -> vm64_member(e, is_addr, c)
    [] e.op = "iconst" -> <<OpN(IF IsLongRank(e.t) THEN "ldiqw" ELSE "ldidw", e.x)>>
    [] e.op = "str" -> <<OpS("ldiqw", StringLiteral(e.x))>>
    [] e.op = "id" -> vm64_load_addr(e, c) \o vm64_loaded(e.t, is_addr)

-----------------------------------------------------------------------------
(* Statements                                                              *)
vm64_discarded(e, c) == IF e.op = "none" THEN <<>> ELSE vm64_value(e, c) \o vm64_pop(e.t)

vm64_expression_statement(s, c) == IF s.e = <<>> THEN <<>> ELSE vm64_discarded(s.e[1], At(c, 1))

\* n bytes at the offset become zero.
vm64_fill(offset, n) ==
  IF n = 0 THEN <<>> ELSE <<OpN("ldbp", offset), OpN("ldidw", 0), OpN("fill", n), Op("pop"), Op("pop")>>

\* A character array of n elements: what fits of the literal's m, then zeros.
vm64_string_init(n, m, e, offset, c) ==
  <<OpN("ldbp", offset)>> \o vm64_value(e, c) \o <<OpN("memcpy", IF n < m THEN n ELSE m)>>
  \o (IF n > m THEN <<OpN("ldiqw", m), Op("addqw"), OpN("ldidw", 0), OpN("fill", n - m)>> ELSE <<>>)
  \o Ops(<<"pop", "pop">>)

vm64_array_init(t, e, offset, c) ==
  Concat([i \in DOMAIN e.c |->
            vm64_do_auto_init(Derived(t), e.c[i], offset + (i - 1) * get_sizeof(Derived(t)), At(c, i))])
  \o vm64_fill(offset + Len(e.c) * get_sizeof(Derived(t)),
               (Head(t.d).n - Len(e.c)) * get_sizeof(Derived(t)))

vm64_struct_init(ms, e, offset, c) ==
  Concat([i \in DOMAIN ms |->
            IF i \in DOMAIN e.c
            THEN vm64_do_auto_init(ms[i].type, e.c[i], offset + ms[i].offset, At(c, i))
            ELSE vm64_fill(offset + ms[i].offset, ms[i].size)])

vm64_scalar_init(t, e, offset, c) ==
  vm64_expr_convert(IF IsInitList(e) THEN e.c[1] ELSE e, t, c)
  \o <<OpN("ldbp", offset)>> \o vm64_store(t) \o vm64_pop(t)

vm64_do_auto_init(t, e, offset, c) ==
  CASE get_type_category(t) = "[]" /\ e.op = "str" ->
         vm64_string_init(Head(t.d).n, Len(e.x) + 1, e, offset, c)
    [] get_type_category(t) = "[]" /\ e.op # "str" -> vm64_array_init(t, e, offset, c)
    [] get_type_category(t) = "struct" /\ IsInitList(e) ->
         vm64_struct_init(Descriptor(t.tag).members, e, offset, c)
    [] get_type_category(t) = "union" /\ IsInitList(e) ->
         vm64_do_auto_init(Descriptor(t.tag).members[1].type, e.c[1], offset, At(c, 1))
    [] OTHER -> vm64_scalar_init(t, e, offset, c)

\* The lines of an object of static duration.
vm64_static_object(t, init, label, static) ==
  ObjectLines(t, init, label, static,
              IF init.op = "none" THEN <<>>
              ELSE DataLines(vm64_static_init(Walk(t, analyze_initializer(t, init).e))))

\* The i-th declaration of a block.
vm64_local(ls, i, c) ==
  IF ls[i].sto = "static"
  THEN vm64_static_object(ls[i].t, ls[i].init, StaticLocal(c.fn, ls[i].n), TRUE) \o <<Dir("text", 0)>>
  ELSE IF ls[i].sto = "extern" \/ ls[i].init.op = "none" THEN <<>>
  ELSE vm64_do_auto_init(ls[i].t, ls[i].init, LocalOffset(Declared(c, ls, i - 1), ls[i]),
                         At(At(Declared(c, ls, i), 0), i))

vm64_compound_statement(s, c) ==
  Concat([i \in DOMAIN s.l |-> vm64_local(s.l, i, c)])
  \o Concat([i \in DOMAIN s.b |-> vm64_code("statement", s.b[i], At(Declared(c, s.l, Len(s.l)), i))])

\* The value returned is a qword, whatever integer type the function has.
vm64_returned(t) ==
  IF is_integer(get_type_category(t)) /\ ~IsLongRank(t) THEN Spec0("long") ELSE t
vm64_return_statement(s, c) ==
  (IF s.e = <<>> THEN <<OpN("ldiqw", 0)>>
   ELSE vm64_expr_convert(s.e[1], vm64_returned(c.ret), At(c, 1))
        \o (IF IsStruct0(c.ret)
            THEN <<OpS("ldiqw", TempStruct), Op("swap2"), OpN("memcpy", get_sizeof(c.ret))>>
            ELSE <<>>))
  \o Ops(<<"ret">>)

vm64_if_statement(s, c) ==
  IfCode(c, vm64_controlling_expression(s.e[1], At(c, 0)),
         [i \in DOMAIN s.b |-> vm64_code("statement", s.b[i], At(c, i))])

vm64_while_statement(s, c) ==
  WhileCode(c, vm64_controlling_expression(s.e[1], At(c, 0)),
            vm64_code("statement", s.b[1], At(LoopTargets(c, NewLabel(c, 2), NewLabel(c, 1)), 1)))

vm64_do_statement(s, c) ==
  DoCode(c, vm64_controlling_expression(s.e[1], At(c, 0)),
         vm64_code("statement", s.b[1], At(LoopTargets(c, NewLabel(c, 3), NewLabel(c, 2)), 1)))

vm64_for_statement(s, c) ==
  ForCode(c, vm64_discarded(s.e[1], At(c, 2)),
          IF s.e[2].op = "none" THEN <<>> ELSE vm64_controlling_expression(s.e[2], At(c, 3)),
          vm64_discarded(s.e[3], At(c, 4)),
          vm64_code("statement", s.b[1], At(LoopTargets(c, NewLabel(c, 3), ForContinue(c, s.e[3])), 1)))

\* Label 1 is that of the table, label 2 the exit.
vm64_switch_statement(s, c, inside) ==
  vm64_value(s.e[1], At(c, 0))
  \o <<OpS("ldiqw", NewLabel(c, 1)), Op(IF Is64(s.e[1].t) THEN "switch2" ELSE "switch")>>
  \o vm64_code("statement", s.b[1], inside) \o emit_lab(NewLabel(c, 2))
  \o SwitchTable(SearchTable(SwitchLabels(s.b[1], inside)), NewLabel(c, 1), NewLabel(c, 2),
                 Is64(s.e[1].t), 8, "qword")

vm64_statement(s, c) ==
  CASE s.k = "compound" -> vm64_compound_statement(s, c)
    [] s.k = "if" -> vm64_if_statement(s, c)
    [] s.k = "while" -> vm64_while_statement(s, c)
    [] s.k = "do" -> vm64_do_statement(s, c)
    [] s.k = "for" -> vm64_for_statement(s, c)
    [] s.k = "switch" -> vm64_switch_statement(s, c, SwitchContext(c))
    [] s.k \in {"case", "default"} -> emit_lab(NewLabel(c, 1)) \o vm64_code("statement", s.b[1], At(c, 1))
    [] s.k = "label" -> <<Lab(UserLabel(c.fn, s.x))>> \o vm64_code("statement", s.b[1], At(c, 1))
    [] s.k = "goto" -> <<OpS("jmp", UserLabel(c.fn, s.x))>>
    [] s.k = "continue" -> emit_jmp(c.ctarget)
    [] s.k = "break" -> emit_jmp(c.btarget)
    [] s.k = "return" -> vm64_return_statement(s, c)
    [] s.k = "expr" -> vm64_expression_statement(s, c)

vm64_code(kind, x, c) ==
  IF kind = "statement" THEN vm64_statement(x, c) ELSE vm64_expression(x, kind = "address", c)

-----------------------------------------------------------------------------
vm64_frame(f) == Placed(f.params, 1, -16, 4, [Context(f.n, Derived(f.t), <<>>) EXCEPT !.off = 4])
vm64_function_definition(f) ==
  <<Dir("text", 0), Lab(Global(f.n))>>
  \o (IF f.sto = "static" THEN <<>> ELSE <<DirS("global", Global(f.n), 0)>>)
  \o <<OpN("addsp", round_up(LocalArea(f.body, vm64_frame(f)) - 4, 4))>>
  \o vm64_code("statement", f.body, vm64_frame(f))
  \o <<OpN("ldidw", 0), Op("ret")>>

vm64_external(d) ==
  CASE d.k = "referenced" -> IF d.sto = "static" THEN <<>> ELSE <<DirS("extern", Global(d.n), 0)>>
    [] d.k = "function" -> vm64_function_definition(d)
    [] d.k = "object" -> vm64_static_object(d.t, d.init, Global(d.n), d.sto = "static")

vm64_cgen(unit) ==
  Concat([i \in DOMAIN unit |-> vm64_external(unit[i])])
  \o TempStructLines(unit, 8) \o emit_string_literals(UnitStrings(unit))
=============================================================================
