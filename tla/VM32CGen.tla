------------------------------ MODULE VM32CGen ------------------------------
(***************************************************************************)
(* The code generator for the 32-bit virtual machine (vm32_cgen.c): one    *)
(* operator per function and per case of expression(), each the code that  *)
(* is emitted for an analysed tree in a context (VMCode).                  *)
(***************************************************************************)
EXTENDS VMCode

IsQW(t) == IsLLong(get_type_category(t))
\* Mutant: the same for a long long.
vm32_pop_mut(t) == Ops(<<"pop">>)
\* An expression is discarded: one pop, two for a long long.
vm32_pop(t) == Ops(IF IsQW(t) THEN <<"pop", "pop">> ELSE <<"pop">>)

vm32_store(t) ==
  CASE IsChar(get_type_category(t)) -> Ops(<<"stb">>)
    [] IsShort(get_type_category(t)) -> Ops(<<"stw">>)
    [] IsQW(t) -> Ops(<<"stqw">>)
    [] IsStruct0(t) -> <<Op("swap"), OpN("memcpy", get_sizeof(t))>>
    [] OTHER -> Ops(<<"stdw">>)

vm32_LoadOp(cat) ==
  CASE cat = "uchar" -> "ldub" [] cat \in {"char", "schar"} -> "ldb"
    [] cat = "short" -> "ldw" [] cat = "ushort" -> "lduw"
    [] IsLLong(cat) -> "ldqw" [] OTHER -> "lddw"
vm32_load(t) ==
  IF get_type_category(t) \in {"struct", "union", "()", "[]"} THEN <<>>
  ELSE <<Op(vm32_LoadOp(get_type_category(t)))>>
vm32_loaded(t, is_addr) == IF is_addr THEN <<>> ELSE vm32_load(t)

\* A name is a local or a parameter, a static local, or external.
vm32_load_addr(e, c) ==
  IF e.x \in c.statics THEN <<OpS("ldidw", StaticLocal(c.fn, e.x))>>
  ELSE IF e.x \in DOMAIN c.loc THEN <<OpN("ldbp", c.loc[e.x])>>
  ELSE <<OpS("ldidw", Global(e.x))>>

\* Mutant: an unsigned int is sign extended.
vm32_Convert_mut(src, dest) ==
  Ops(IF IsLLong(dest) THEN IF IsLLong(src) THEN <<>> ELSE <<"dw2qw">>
      ELSE IF IsLLong(src) THEN <<"pop">> ELSE <<>>)

\* What expr_convert() emits after the expression.
vm32_narrow(src, kept, op) ==
  IF IsLLong(src) THEN <<"pop", op>> ELSE IF src \in kept THEN <<>> ELSE <<op>>
vm32_Convert(src, dest) ==
  Ops(CASE dest \in {"char", "schar"} -> vm32_narrow(src, {"char", "schar"}, "dw2b")
        [] dest = "uchar" -> vm32_narrow(src, {"uchar"}, "dw2ub")
        [] dest = "short" -> vm32_narrow(src, {"char", "schar", "uchar", "short"}, "dw2w")
        [] dest = "ushort" -> vm32_narrow(src, {"uchar", "ushort"}, "dw2uw")
        [] IsLLong(dest) ->
             IF IsLLong(src) THEN <<>> ELSE IF is_unsigned_int(src) THEN <<"udw2qw">> ELSE <<"dw2qw">>
        [] dest \in {"void", "struct", "union"} -> <<>>
        [] OTHER -> IF IsLLong(src) THEN <<"pop">> ELSE <<>>)

\* The code of a tree: the value or the address of an expression, or a statement.
RECURSIVE vm32_code(_, _, _), vm32_function_argument(_, _, _), vm32_do_auto_init(_, _, _, _)
vm32_value(e, c) == vm32_code("value", e, c)
vm32_address(e, c) == vm32_code("address", e, c)
vm32_child(e, i, c) == vm32_value(e.c[i], At(c, i))

vm32_expr_convert(e, dest, c) == vm32_value(e, c) \o vm32_Convert(Cat(e), get_type_category(dest))
vm32_child_convert(e, i, dest, c) == vm32_expr_convert(e.c[i], dest, At(c, i))

vm32_controlling_expression(e, c) == vm32_value(e, c) \o (IF IsQW(e.t) THEN Ops(<<"ordw">>) ELSE <<>>)

\* An operator whose operands are converted when type t is a long long (BIN_OPS2()).
vm32_binary(e, t, op, c) ==
  IF IsQW(t) THEN vm32_child_convert(e, 1, e.t, c) \o vm32_child_convert(e, 2, e.t, c) \o Ops(<<op \o "qw">>)
             ELSE vm32_child(e, 1, c) \o vm32_child(e, 2, c) \o Ops(<<op \o "dw">>)

\* The operands of a comparison: the other one becomes the type of a long long.
vm32_comparison(e, op, c) ==
  IF IsQW(e.c[1].t)
  THEN vm32_child(e, 1, c) \o vm32_child_convert(e, 2, e.c[1].t, c) \o Ops(<<op \o "qw">>)
  ELSE IF IsQW(e.c[2].t)
  THEN vm32_child_convert(e, 1, e.c[2].t, c) \o vm32_child(e, 2, c) \o Ops(<<op \o "qw">>)
  ELSE vm32_child(e, 1, c) \o vm32_child(e, 2, c) \o Ops(<<op \o "dw">>)

vm32_equality(e, c) == vm32_comparison(e, EqualityOp(e), c)
vm32_relational(e, c) == vm32_comparison(e, RelationSign(e) \o RelationOp[e.op], c)

vm32_shift(e, c) ==
  vm32_child(e, 1, c) \o vm32_child_convert(e, 2, IntType, c)
  \o Ops(<<ShiftOp(e) \o (IF IsQW(e.t) THEN "qw" ELSE "dw")>>)

\* The size of what a pointer steps over.
vm32_scale(size, op) == IF size > 1 THEN <<OpN("ldidw", size), Op(op)>> ELSE <<>>

\* Child i is the integer that is added to the pointer, child j.
vm32_offset_pointer(e, i, j, size, c) ==
  vm32_child(e, j, c) \o vm32_child_convert(e, i, e.c[j].t, c) \o vm32_scale(size, "muldw")

vm32_plus(e, c) ==
  IF is_integer(Cat(e)) THEN vm32_binary(e, e.t, "add", c)
  ELSE vm32_offset_pointer(e, IntegerOperand(e), 3 - IntegerOperand(e),
                           get_sizeof(Derived(e.c[3 - IntegerOperand(e)].t)), c)
       \o Ops(<<"adddw">>)

\* The test of an integer subtraction is on the first operand.
vm32_minus(e, c) ==
  IF is_integer(Cat(e.c[1])) THEN vm32_binary(e, e.c[1].t, "sub", c)
  ELSE IF is_integer(Cat(e.c[2]))
  THEN vm32_offset_pointer(e, 2, 1, get_sizeof(Derived(e.c[1].t)), c) \o Ops(<<"subdw">>)
  ELSE vm32_child(e, 1, c) \o vm32_child_convert(e, 2, e.c[1].t, c) \o Ops(<<"subdw">>)
       \o vm32_scale(get_sizeof(Derived(e.c[1].t)), "sdivdw")

\* The operand of a long long is evaluated twice.
vm32_pre_inc(e, c) ==
  IF IsQW(e.t)
  THEN vm32_child(e, 1, c) \o <<OpN("ldiqw", 1), Op(IncDecOp(e.op) \o "qw")>>
       \o vm32_address(e.c[1], At(c, 2)) \o vm32_store(e.t)
  ELSE vm32_address(e.c[1], At(c, 1)) \o Ops(<<"dup", "dup">>) \o vm32_load(e.t)
       \o <<OpN("ldidw", Step(e.t)), Op(IncDecOp(e.op) \o "dw"), Op("swap")>>
       \o vm32_store(e.t) \o Ops(<<"pop">>) \o vm32_load(e.t)

vm32_post_inc(e, c) ==
  IF IsQW(e.t)
  THEN vm32_child(e, 1, c) \o vm32_value(e.c[1], At(c, 2))
       \o <<OpN("ldiqw", 1), Op(IncDecOp(e.op) \o "qw")>>
       \o vm32_address(e.c[1], At(c, 3)) \o vm32_store(e.t) \o <<OpN("addsp", -8)>>
  ELSE vm32_address(e.c[1], At(c, 1)) \o Ops(<<"dup">>) \o vm32_load(e.t)
       \o Ops(<<"swap", "dup">>) \o vm32_load(e.t)
       \o <<OpN("ldidw", Step(e.t)), Op(IncDecOp(e.op) \o "dw"), Op("swap")>>
       \o vm32_store(e.t) \o Ops(<<"pop">>)

vm32_unary(e, c) ==
  vm32_child(e, 1, c)
  \o (CASE e.op = "u+" -> <<>>
        [] e.op = "u-" -> Ops(<<"neg" \o (IF IsQW(e.t) THEN "qw" ELSE "dw")>>)
        [] e.op = "~" -> Ops(<<"cmpl" \o (IF IsQW(e.t) THEN "qw" ELSE "dw")>>)
        [] e.op = "!" -> Ops(<<"not" \o (IF IsQW(e.c[1].t) THEN "qw" ELSE "dw")>>))

vm32_subscript(e, is_addr, c) ==
  vm32_offset_pointer(e, 3 - PointerOperand(e), PointerOperand(e), get_sizeof(e.t), c)
  \o Ops(<<"adddw">>) \o vm32_loaded(e.t, is_addr)

\* The arguments from the i-th on, the last one first.
vm32_function_argument(e, i, c) ==
  IF i >= Len(e.c) THEN <<>>
  ELSE vm32_function_argument(e, i + 1, c)
       \o vm32_child_convert(e, i + 1, ArgumentType(e, i), c)
       \o (IF IsStruct0(ArgumentType(e, i)) THEN <<OpN("ldn", get_sizeof(ArgumentType(e, i)))>> ELSE <<>>)

\* A long long result is below the address that the call leaves on the stack.
vm32_call(e, c) ==
  vm32_function_argument(e, 1, c) \o vm32_child(e, 1, c) \o <<OpN("call", ArgumentArea(e, 1))>>
  \o (IF IsQW(e.t) THEN <<OpN("ldidw", -4), Op("adddw"), Op("ldqw")>> ELSE <<>>)

vm32_member(e, is_addr, c) ==
  vm32_child(e, 1, c)
  \o (IF IsUnion(e.c[1].t) THEN <<>>
      ELSE <<OpN("ldidw", get_member_descriptor(e.c[1].t.tag, e.x).offset), Op("adddw")>>)
  \o vm32_loaded(e.t, is_addr)

vm32_assignment(e, c) ==
  vm32_expr_convert(Assigned(e), e.t, At(c, 3)) \o vm32_address(e.c[1], At(c, 4)) \o vm32_store(e.t)

vm32_conditional(e, c) ==
  ConditionalCode(c, vm32_controlling_expression(e.c[1], At(c, 1)),
                  vm32_child_convert(e, 2, e.t, c), vm32_child_convert(e, 3, e.t, c))
vm32_logical(e, c) ==
  LogicalCode(c, e.op, vm32_controlling_expression(e.c[1], At(c, 1)),
                       vm32_controlling_expression(e.c[2], At(c, 2)))

vm32_expression(e, is_addr, c) ==
  CASE e.op = "," -> vm32_child(e, 1, c) \o vm32_pop(e.c[1].t) \o vm32_child(e, 2, c)
    [] e.op = "=" -> vm32_assignment(e, c)
    [] e.op = "?:" -> vm32_conditional(e, c)
    [] e.op \in {"||", "&&"} -> vm32_logical(e, c)
    [] e.op \in {"&", "|", "^"} -> vm32_binary(e, e.t, BitwiseOp[e.op], c)
    [] e.op \in {"==", "!="} -> vm32_equality(e, c)
    [] e.op \in {"<", ">", "<=", ">="} -> vm32_relational(e, c)
    [] e.op \in {"<<", ">>"} -> vm32_shift(e, c)
    [] e.op = "+" -> vm32_plus(e, c)
    [] e.op = "-" -> vm32_minus(e, c)
    [] e.op \in multiplicative -> vm32_binary(e, e.t, MultiplicativeOp(e), c)
    [] e.op = "cast" -> vm32_child_convert(e, 1, e.x, c)
    [] e.op \in {"++pre", "--pre"} -> vm32_pre_inc(e, c)
    [] e.op \in {"++post", "--post"} -> vm32_post_inc(e, c)
    [] e.op = "addr" -> vm32_address(e.c[1], At(c, 1))
    [] e.op = "ind" -> vm32_child(e, 1, c) \o vm32_loaded(e.t, is_addr)
    [] e.op \in {"u+", "u-", "~", "!"} -> vm32_unary(e, c)
    [] e.op = "[]" -> vm32_subscript(e, is_addr, c)
    [] e.op = "call" -> vm32_call(e, c)
    [] e.op \in {".", "->"} -> vm32_member(e, is_addr, c)
    [] e.op = "iconst" -> <<OpN(IF IsQW(e.t) THEN "ldiqw" ELSE "ldidw", e.x)>>
    [] e.op = "str" -> <<OpS("ldidw", StringLiteral(e.x))>>
    [] e.op = "id" -> vm32_load_addr(e, c) \o vm32_loaded(e.t, is_addr)

-----------------------------------------------------------------------------
(* Statements                                                              *)
vm32_discarded(e, c) == IF e.op = "none" THEN <<>> ELSE vm32_value(e, c) \o vm32_pop(e.t)

vm32_expression_statement(s, c) == IF s.e = <<>> THEN <<>> ELSE vm32_discarded(s.e[1], At(c, 1))

\* n bytes at the offset become zero.
vm32_fill(offset, n) ==
  IF n = 0 THEN <<>> ELSE <<OpN("ldbp", offset), OpN("ldidw", 0), OpN("fill", n), Op("pop")>>

\* A character array of n elements: what fits of the literal's m, then zeros.
vm32_string_init(n, m, e, offset, c) ==
  <<OpN("ldbp", offset)>> \o vm32_value(e, c) \o <<OpN("memcpy", IF n < m THEN n ELSE m)>>
  \o (IF n > m THEN <<OpN("ldidw", m), Op("adddw"), OpN("ldidw", 0), OpN("fill", n - m)>> ELSE <<>>)
  \o Ops(<<"pop">>)

vm32_array_init(t, e, offset, c) ==
  Concat([i \in DOMAIN e.c |->
            vm32_do_auto_init(Derived(t), e.c[i], offset + (i - 1) * get_sizeof(Derived(t)), At(c, i))])
  \o vm32_fill(offset + Len(e.c) * get_sizeof(Derived(t)),
               (Head(t.d).n - Len(e.c)) * get_sizeof(Derived(t)))

vm32_struct_init(ms, e, offset, c) ==
  Concat([i \in DOMAIN ms |->
            IF i \in DOMAIN e.c
            THEN vm32_do_auto_init(ms[i].type, e.c[i], offset + ms[i].offset, At(c, i))
            ELSE vm32_fill(offset + ms[i].offset, ms[i].size)])

vm32_scalar_init(t, e, offset, c) ==
  vm32_expr_convert(IF IsInitList(e) THEN e.c[1] ELSE e, t, c)
  \o <<OpN("ldbp", offset)>> \o vm32_store(t) \o vm32_pop(t)

vm32_do_auto_init(t, e, offset, c) ==
  CASE get_type_category(t) = "[]" /\ e.op = "str" ->
         vm32_string_init(Head(t.d).n, Len(e.x) + 1, e, offset, c)
    [] get_type_category(t) = "[]" /\ e.op # "str" -> vm32_array_init(t, e, offset, c)
    [] get_type_category(t) = "struct" /\ IsInitList(e) ->
         vm32_struct_init(Descriptor(t.tag).members, e, offset, c)
    [] get_type_category(t) = "union" /\ IsInitList(e) ->
         vm32_do_auto_init(Descriptor(t.tag).members[1].type, e.c[1], offset, At(c, 1))
    [] OTHER -> vm32_scalar_init(t, e, offset, c)

\* The lines of an object of static duration.
vm32_static_object(t, init, label, static) ==
  ObjectLines(t, init, label, static,
              IF init.op = "none" THEN <<>>
              ELSE DataLines(vm32_static_init(Walk(t, analyze_initializer(t, init).e))))

\* The i-th declaration of a block.
vm32_local(ls, i, c) ==
  IF ls[i].sto = "static"
  THEN vm32_static_object(ls[i].t, ls[i].init, StaticLocal(c.fn, ls[i].n), TRUE) \o <<Dir("text", 0)>>
  ELSE IF ls[i].sto = "extern" \/ ls[i].init.op = "none" THEN <<>>
  ELSE vm32_do_auto_init(ls[i].t, ls[i].init, LocalOffset(Declared(c, ls, i - 1), ls[i]),
                         At(At(Declared(c, ls, i), 0), i))

vm32_compound_statement(s, c) ==
  Concat([i \in DOMAIN s.l |-> vm32_local(s.l, i, c)])
  \o Concat([i \in DOMAIN s.b |-> vm32_code("statement", s.b[i], At(Declared(c, s.l, Len(s.l)), i))])

\* A long long is returned below its address; a structure in __temp_struct.
vm32_return_statement(s, c) ==
  (IF s.e = <<>> THEN <<OpN("ldidw", 0)>>
   ELSE vm32_expr_convert(s.e[1], c.ret, At(c, 1))
        \o (IF IsQW(c.ret) THEN Ops(<<"pushsp">>)
            ELSE IF IsStruct0(c.ret)
            THEN <<OpS("ldidw", TempStruct), Op("swap"), OpN("memcpy", get_sizeof(c.ret))>>
            ELSE <<>>))
  \o Ops(<<"ret">>)

vm32_if_statement(s, c) ==
  IfCode(c, vm32_controlling_expression(s.e[1], At(c, 0)),
         [i \in DOMAIN s.b |-> vm32_code("statement", s.b[i], At(c, i))])

vm32_while_statement(s, c) ==
  WhileCode(c, vm32_controlling_expression(s.e[1], At(c, 0)),
            vm32_code("statement", s.b[1], At(LoopTargets(c, NewLabel(c, 2), NewLabel(c, 1)), 1)))

vm32_do_statement(s, c) ==
  DoCode(c, vm32_controlling_expression(s.e[1], At(c, 0)),
         vm32_code("statement", s.b[1], At(LoopTargets(c, NewLabel(c, 3), NewLabel(c, 2)), 1)))

vm32_for_statement(s, c) ==
  ForCode(c, vm32_discarded(s.e[1], At(c, 2)),
          IF s.e[2].op = "none" THEN <<>> ELSE vm32_controlling_expression(s.e[2], At(c, 3)),
          vm32_discarded(s.e[3], At(c, 4)),
          vm32_code("statement", s.b[1], At(LoopTargets(c, NewLabel(c, 3), ForContinue(c, s.e[3])), 1)))

\* Label 1 is that of the table, label 2 the exit.
vm32_switch_statement(s, c, inside) ==
  vm32_value(s.e[1], At(c, 0))
  \o <<OpS("ldidw", NewLabel(c, 1)), Op(IF IsQW(s.e[1].t) THEN "switch2" ELSE "switch")>>
  \o vm32_code("statement", s.b[1], inside) \o emit_lab(NewLabel(c, 2))
  \o SwitchTable(SearchTable(SwitchLabels(s.b[1], inside)), NewLabel(c, 1), NewLabel(c, 2),
                 IsQW(s.e[1].t), 4, "dword")

vm32_statement(s, c) ==
  CASE s.k = "compound" -> vm32_compound_statement(s, c)
    [] s.k = "if" -> vm32_if_statement(s, c)
    [] s.k = "while" -> vm32_while_statement(s, c)
    [] s.k = "do" -> vm32_do_statement(s, c)
    [] s.k = "for" -> vm32_for_statement(s, c)
    [] s.k = "switch" -> vm32_switch_statement(s, c, SwitchContext(c))
    [] s.k \in {"case", "default"} -> emit_lab(NewLabel(c, 1)) \o vm32_code("statement", s.b[1], At(c, 1))
    [] s.k = "label" -> <<Lab(UserLabel(c.fn, s.x))>> \o vm32_code("statement", s.b[1], At(c, 1))
    [] s.k = "goto" -> <<OpS("jmp", UserLabel(c.fn, s.x))>>
    [] s.k = "continue" -> emit_jmp(c.ctarget)
    [] s.k = "break" -> emit_jmp(c.btarget)
    [] s.k = "return" -> vm32_return_statement(s, c)
    [] s.k = "expr" -> vm32_expression_statement(s, c)

vm32_code(kind, x, c) ==
  IF kind = "statement" THEN vm32_statement(x, c) ELSE vm32_expression(x, kind = "address", c)

-----------------------------------------------------------------------------
vm32_frame(f) == Placed(f.params, 1, -8, 4, [Context(f.n, Derived(f.t), <<>>) EXCEPT !.off = 4])
vm32_function_definition(f) ==
  <<Dir("text", 0), Lab(Global(f.n))>>
  \o (IF f.sto = "static" THEN <<>> ELSE <<DirS("global", Global(f.n), 0)>>)
  \o <<OpN("addsp", round_up(LocalArea(f.body, vm32_frame(f)) - 4, 4))>>
  \o vm32_code("statement", f.body, vm32_frame(f))
  \o <<OpN("ldidw", 0), Op("ret")>>

vm32_external(d) ==
  CASE d.k = "referenced" -> IF d.sto = "static" THEN <<>> ELSE <<DirS("extern", Global(d.n), 0)>>
    [] d.k = "function" -> vm32_function_definition(d)
    [] d.k = "object" -> vm32_static_object(d.t, d.init, Global(d.n), d.sto = "static")

vm32_cgen(unit) ==
  Concat([i \in DOMAIN unit |-> vm32_external(unit[i])])
  \o TempStructLines(unit, 4) \o emit_string_literals(UnitStrings(unit))
=============================================================================
