------------------------------- MODULE VMCode -------------------------------
(***************************************************************************)
(* The assembly language of the virtual machines and what the two code     *)
(* generators for them share.                                              *)
(*                                                                         *)
(* A line is [k, o, s, v]: k is "label", "op" or "dir"; o the mnemonic or  *)
(* the directive; s the symbol and v the number of its operand.  A symbol  *)
(* is a tuple that names its origin, where the code prints a string.       *)
(*                                                                         *)
(* A statement is [k, e, b, x, l]: its kind, expressions, substatements,   *)
(* attribute (a label, the value of a case) and local declarations.        *)
(***************************************************************************)
EXTENDS StaticInits, SequencesExt

Lab(s) == [k |-> "label", o |-> "", s |-> s, v |-> 0]
Op(o) == [k |-> "op", o |-> o, s |-> NoSymbol, v |-> 0]
OpN(o, n) == [k |-> "op", o |-> o, s |-> NoSymbol, v |-> n]
OpS(o, s) == [k |-> "op", o |-> o, s |-> s, v |-> 0]
Dir(d, n) == [k |-> "dir", o |-> d, s |-> NoSymbol, v |-> n]
DirS(d, s, n) == [k |-> "dir", o |-> d, s |-> s, v |-> n]

Ops(os) == [i \in DOMAIN os |-> Op(os[i])]

Global(name) == <<"id", name>>
StringLiteral(s) == <<"str", s>>
\* The mangled names of static locals and of labels.
StaticLocal(fn, name) == <<"static", fn, name>>
UserLabel(fn, name) == <<"goto", fn, name>>
TempStruct == <<"id", "__temp_struct">>

\* The directives of an initialiser (StaticInits) as lines.
DataDir(n) == CASE n = 1 -> "byte" [] n = 2 -> "word" [] n = 4 -> "dword" [] n = 8 -> "qword"
DataLine(d) ==
  CASE d.k = "align" -> Dir("align", d.n)
    [] d.k = "zero" -> Dir("zero", d.n)
    [] d.k = "data" -> DirS(DataDir(d.n), d.v.sym, d.v.n)
DataLines(ds) == [i \in DOMAIN ds |-> DataLine(ds[i])]

(***************************************************************************)
(* The state of a code generator inside a function.  new_label() numbers   *)
(* the labels of a unit; here a label is named by its place: the path p    *)
(* from the function down to the node that makes it, and a number.         *)
(***************************************************************************)
Context(fn, ret, loc) ==
  [fn |-> fn, ret |-> ret, loc |-> loc, statics |-> {}, off |-> 0,
   btarget |-> NoSymbol, ctarget |-> NoSymbol, p |-> <<>>]
At(c, i) == [c EXCEPT !.p = Append(@, i)]
NewLabel(c, i) == <<"L", c.fn, c.p, i>>
location_new(c, name, offset) == [c EXCEPT !.loc = [x \in DOMAIN @ \cup {name} |->
                                               IF x = name THEN offset ELSE @[x]],
                                    !.statics = @ \ {name}]
BindStatic(c, name) == [c EXCEPT !.statics = @ \cup {name}]

\* A local declaration is [n, t, sto, init].  What it does to the context.
LocalOffset(c, l) == round_up(c.off, get_alignment(l.t))
Automatic(l) == l.sto \notin {"static", "extern"}
Declare(c, l) ==
  CASE l.sto = "static" -> BindStatic(c, l.n)
    [] l.sto = "extern" -> c
    [] Automatic(l) -> [location_new(c, l.n, LocalOffset(c, l)) EXCEPT !.off = LocalOffset(c, l) + get_sizeof(l.t)]

RECURSIVE Declared(_, _, _), LocalArea(_, _), Placed(_, _, _, _, _)
\* The context after the first n declarations of a block.
Declared(c, ls, n) == IF n = 0 THEN c ELSE Declare(Declared(c, ls, n - 1), ls[n])

\* size_of_local_area: the largest offset that the blocks of the statement reach.
LocalArea(s, c) ==
  Largest({Declared(c, s.l, Len(s.l)).off}
          \cup {LocalArea(s.b[i], Declared(c, s.l, Len(s.l))) : i \in DOMAIN s.b})

\* Where the caller left the parameters from the i-th on, the first one nearest to
\* the frame; each takes a multiple of unit bytes.
Placed(ps, i, offset, unit, c) ==
  IF i > Len(ps) THEN c
  ELSE Placed(ps, i + 1, offset - round_up(get_sizeof(ps[i].t), unit), unit,
              location_new(c, ps[i].n, offset - round_up(get_sizeof(ps[i].t), unit)))

emit_jmp(l) == <<OpS("jmp", l)>>
emit_jmpf(l) == <<OpS("jmpf", l)>>
emit_jmpt(l) == <<OpS("jmpt", l)>>
emit_lab(l) == <<Lab(l)>>

IfCode(c, cond, bodies) ==
  cond \o emit_jmpf(NewLabel(c, 1)) \o bodies[1]
  \o (IF Len(bodies) = 1 THEN emit_lab(NewLabel(c, 1))
      ELSE emit_jmp(NewLabel(c, 2)) \o emit_lab(NewLabel(c, 1)) \o bodies[2] \o emit_lab(NewLabel(c, 2)))

LoopTargets(c, break, continue) == [c EXCEPT !.btarget = break, !.ctarget = continue]

WhileCode(c, cond, body) ==
  emit_lab(NewLabel(c, 1)) \o cond \o emit_jmpf(NewLabel(c, 2)) \o body
  \o emit_jmp(NewLabel(c, 1)) \o emit_lab(NewLabel(c, 2))

DoCode(c, cond, body) ==
  emit_lab(NewLabel(c, 1)) \o body \o emit_lab(NewLabel(c, 2)) \o cond
  \o emit_jmpf(NewLabel(c, 3)) \o emit_jmp(NewLabel(c, 1)) \o emit_lab(NewLabel(c, 3))

\* An absent expression has no code, and an absent step no label.
ForCode(c, init, cond, step, body) ==
  init \o emit_lab(NewLabel(c, 1))
  \o (IF cond = <<>> THEN <<>> ELSE cond \o emit_jmpf(NewLabel(c, 3)))
  \o body
  \o (IF step = <<>> THEN <<>> ELSE emit_lab(NewLabel(c, 2)) \o step)
  \o emit_jmp(NewLabel(c, 1)) \o emit_lab(NewLabel(c, 3))
SwitchContext(c) == At([c EXCEPT !.btarget = NewLabel(c, 2)], 1)
\* Mutant: continue goes back to the condition, past the step.
ForContinue_mut(c, step) == NewLabel(c, 1)
ForContinue(c, step) == NewLabel(c, IF step.op = "none" THEN 1 ELSE 2)

ConditionalCode(c, cond, a, b) ==
  cond \o emit_jmpf(NewLabel(c, 1)) \o a \o emit_jmp(NewLabel(c, 2))
  \o emit_lab(NewLabel(c, 1)) \o b \o emit_lab(NewLabel(c, 2))

\* || jumps when an operand is true, && when one is false.
Shortcut(op, l) == IF op = "||" THEN emit_jmpt(l) ELSE emit_jmpf(l)
Truth0(op) == IF op = "||" THEN 1 ELSE 0
LogicalCode(c, op, a, b) ==
  a \o Shortcut(op, NewLabel(c, 1)) \o b \o Shortcut(op, NewLabel(c, 1))
  \o <<OpN("ldidw", 1 - Truth0(op))>> \o emit_jmp(NewLabel(c, 2))
  \o emit_lab(NewLabel(c, 1)) \o <<OpN("ldidw", Truth0(op))>> \o emit_lab(NewLabel(c, 2))

-----------------------------------------------------------------------------
(* The labels of a switch.  A label statement is named by its path.        *)
RECURSIVE SwitchLabels(_, _)
SwitchLabels(s, c) ==
  (IF s.k = "case" THEN {[val |-> s.x, lab |-> NewLabel(c, 1), is_default |-> FALSE]}
   ELSE IF s.k = "default" THEN {[val |-> 0, lab |-> NewLabel(c, 1), is_default |-> TRUE]}
   ELSE {})
  \cup (IF s.k = "switch" THEN {}
        ELSE UNION {SwitchLabels(s.b[i], At(c, i)) : i \in DOMAIN s.b})

\* cmp_switch_label(): the default label first, then by value.
Before(a, b) == a.is_default \/ (~b.is_default /\ a.val < b.val)
RECURSIVE SearchTable(_)
SearchTable(labels) ==
  IF labels = {} THEN <<>>
  ELSE LET first == CHOOSE a \in labels : \A b \in labels \ {a} : Before(a, b)
       IN  <<first>> \o SearchTable(labels \ {first})

\* A case value is one or two dwords; the first entry is the size of the table.
CaseValue(v, ce64) ==
  <<Dir("dword", v % 2^(4 * ByteBits))>>
  \o (IF ce64 THEN <<Dir("dword", (v \div 2^(4 * ByteBits)) % 2^(4 * ByteBits))>> ELSE <<>>)

SwitchTable(table, ST, EXIT, ce64, align, pointer) ==
  LET has_default == table # <<>> /\ table[1].is_default
      cases == IF has_default THEN Tail(table) ELSE table
  IN  <<Dir("data", 0), Dir("align", align), Lab(ST)>>
      \o CaseValue(Len(cases) + 1, ce64)
      \o Concat([i \in DOMAIN cases |-> CaseValue(cases[i].val, ce64)])
      \o (IF has_default THEN <<>> ELSE <<DirS(pointer, EXIT, 0)>>)
      \o [i \in DOMAIN table |-> DirS(pointer, table[i].lab, 0)]
      \o <<Dir("text", 0)>>

IsStruct0(t) == get_type_category(t) \in {"struct", "union"}
IsUnion(t) == t.s = "union"

BitwiseOp == [b \in {"&", "|", "^"} |-> CASE b = "&" -> "and" [] b = "|" -> "or" [] b = "^" -> "xor"]
RelationOp ==
  [r \in {"<", ">", "<=", ">="} |->
     CASE r = "<" -> "lt" [] r = ">" -> "gt" [] r = "<=" -> "let" [] r = ">=" -> "get"]
EqualityOp(e) == IF e.op = "==" THEN "eq" ELSE "neq"
IncDecOp(op) == IF op \in {"++pre", "++post"} THEN "add" ELSE "sub"

\* A relation is unsigned when an operand is, once promoted, or when one is a pointer.
SignedOperand(cat) == is_integer(cat) /\ ~is_unsigned_int(get_promoted_type(cat))
RelationSign(e) == IF SignedOperand(Cat(e.c[1])) /\ SignedOperand(Cat(e.c[2])) THEN "s" ELSE "u"
ShiftOp(e) == IF e.op = "<<" THEN "sll" ELSE IF is_unsigned_int(Cat(e)) THEN "srl" ELSE "sra"
MultiplicativeOp(e) ==
  IF e.op = "*" THEN "mul"
  ELSE (IF is_unsigned_int(Cat(e)) THEN "u" ELSE "s") \o (IF e.op = "/" THEN "div" ELSE "mod")

\* The operand of an addition or a subscript that is an integer.
IntegerOperand(e) == IF is_integer(Cat(e.c[1])) THEN 1 ELSE 2
PointerOperand(e) == IF is_pointer(Cat(e.c[1])) THEN 1 ELSE 2
\* How much ++ and -- add.
Step(t) == IF is_integer(get_type_category(t)) THEN 1 ELSE get_sizeof(Derived(t))
\* The value of a compound assignment is computed as a node of the operator, of the
\* type t2 that the analysis inferred; the left operand is then evaluated again.
Operation(e) == [e EXCEPT !.op = e.x, !.t = e.t2]
Assigned(e) == IF e.x = "" THEN e.c[2] ELSE Operation(e)

\* The parameter types that a call converts its arguments to.
Declared0(e) == Parameters(FunctionType(e.c[1].t))
ArgumentType(e, i) == IF i <= Len(Declared0(e)) THEN Declared0(e)[i] ELSE e.c[i + 1].t
\* The size of the argument area that function_argument() returns, from the i-th on;
\* an array or a function beyond the declared parameters counts for four bytes.
RECURSIVE ArgumentArea(_, _)
ArgumentArea(e, i) ==
  IF i >= Len(e.c) THEN 0
  ELSE round_up(IF i > Len(Declared0(e)) /\ Cat(e.c[i + 1]) \in {"[]", "()"} THEN 4
                ELSE get_sizeof(ArgumentType(e, i)), 4)
       + ArgumentArea(e, i + 1)

\* The string literals of an expression, of a statement.
RECURSIVE Strings(_), StringsOf(_)
Strings(e) == IF e.op = "str" THEN {e.x} ELSE UNION {Strings(e.c[i]) : i \in DOMAIN e.c}
StringsOf(s) ==
  UNION {Strings(s.l[i].init) : i \in DOMAIN s.l}
  \cup UNION {Strings(s.e[i]) : i \in DOMAIN s.e}
  \cup UNION {StringsOf(s.b[i]) : i \in DOMAIN s.b}

\* Literals with equal characters are one symbol here, and two in the pool.
StringLines(s) ==
  <<Lab(StringLiteral(s))>>
  \o [i \in 1..(Len(s) + 1) |-> Dir("byte", IF i > Len(s) THEN 0 ELSE s[i])]
emit_string_literals(pool) ==
  IF pool = {} THEN <<>>
  ELSE <<Dir("data", 0)>> \o Concat([i \in 1..Cardinality(pool) |-> StringLines(SetToSeq(pool)[i])])

\* The size of the largest structure that a return statement of the unit copies.
StructReturned(d) == IF d.k = "function" /\ IsStruct0(Derived(d.t)) THEN get_sizeof(Derived(d.t)) ELSE 0
TempStructSize(unit) == Largest({StructReturned(unit[i]) : i \in DOMAIN unit})
TempStructLines(unit, align) ==
  IF TempStructSize(unit) = 0 THEN <<>>
  ELSE <<Dir("bss", 0), Dir("align", align), Lab(TempStruct), Dir("res", TempStructSize(unit))>>

UnitStrings(unit) ==
  UNION {IF unit[i].k = "function" THEN StringsOf(unit[i].body)
         ELSE IF unit[i].k = "object" THEN Strings(unit[i].init) ELSE {} : i \in DOMAIN unit}

\* The lines before and after the initialiser of a static object.
Alignment(t) == IF get_alignment(t) > 1 THEN <<Dir("align", get_alignment(t))>> ELSE <<>>
ObjectLines(t, init, label, static, data) ==
  <<Dir(IF init.op = "none" THEN "bss" ELSE "data", 0)>> \o Alignment(t) \o <<Lab(label)>>
  \o (IF init.op = "none" THEN <<Dir("res", get_sizeof(t))>> ELSE data)
  \o (IF static THEN <<>> ELSE <<DirS("global", label, 0)>>)
=============================================================================
