---------------------------- MODULE StaticInits -----------------------------
(***************************************************************************)
(* The directives for an object of static duration and its initialiser.    *)
(* Every code generator has its own copy of these functions; the copies    *)
(* walk the initialiser alike and differ in scalars and strings.           *)
(*                                                                         *)
(* A directive is [k, n, v]: "align" to n, "zero" n bytes, or "data", the  *)
(* low n bytes of v.                                                       *)
(***************************************************************************)
EXTENDS StaticExpr

AlignTo(n) == [k |-> "align", n |-> n, v |-> Num(0)]
Bytes(n, v) == [k |-> "data", n |-> n, v |-> v]
Byte(c) == Bytes(1, Num(c))
Zeros(n) == IF n > 0 THEN <<[k |-> "zero", n |-> n, v |-> Num(0)]>> ELSE <<>>

IsChar(cat) == is_integer(cat) /\ get_rank(cat) = CHAR_RANK
IsShort(cat) == is_integer(cat) /\ get_rank(cat) = SHORT_RANK
IsInt(cat) == is_integer(cat) /\ get_rank(cat) = INT_RANK
IsLLong(cat) == is_integer(cat) /\ get_rank(cat) = LLONG_RANK

\* Mutant: the terminator is not counted when the rest is filled.
vm_string_mut(nelem, s) ==
  LET chars == Append(s, 0)
      n == IF Len(chars) < nelem THEN Len(chars) ELSE nelem
  IN  [i \in 1..n |-> Byte(chars[i])] \o Zeros(nelem - Len(s))

\* The vm code generators: characters up to the terminator while there is room.
vm_string(nelem, s) ==
  LET chars == Append(s, 0)
      n == IF Len(chars) < nelem THEN Len(chars) ELSE nelem
  IN  [i \in 1..n |-> Byte(chars[i])] \o Zeros(nelem - n)

\* The directives of a scalar, and its size when long and pointers have 4 and 8 bytes.
Sized(align, n, v) == (IF align > 1 THEN <<AlignTo(align)>> ELSE <<>>) \o <<Bytes(n, v)>>
Size32(cat) == IF IsChar(cat) THEN 1 ELSE IF IsShort(cat) THEN 2 ELSE IF IsLLong(cat) THEN 8 ELSE 4
Size64(cat) == IF IsChar(cat) THEN 1 ELSE IF IsShort(cat) THEN 2 ELSE IF IsInt(cat) THEN 4 ELSE 8
\* The alignment when a long long needs no more than a word.
Word32(cat) == IF IsLLong(cat) THEN 4 ELSE Size32(cat)

vm32_static_expr(e) == static_expr(e)
vm32_scalar(cat, e) == Sized(Word32(cat), Size32(cat), vm32_static_expr(e))

vm64_static_expr(e) == static_expr(e)
vm64_scalar(cat, e) == Sized(Size64(cat), Size64(cat), vm64_static_expr(e))

\* The native ones write the terminator over the last character first, inside
\* a string as long as the array or longer.
native_string(nelem, s) ==
  LET n == IF Len(s) < nelem THEN Len(s) ELSE nelem - 1
  IN  [i \in 1..n |-> Byte(s[i])] \o <<Byte(0)>> \o Zeros(nelem - n - 1)

x86_static_expr(e) == static_expr(e)
x86_scalar(cat, e) == Sized(Word32(cat), Size32(cat), x86_static_expr(e))

x64_static_expr(e) == static_expr(e)
x64_scalar(cat, e) == Sized(Size64(cat), Size64(cat), x64_static_expr(e))

\* Two words; an address cannot initialise a long long here.
Halves(v) ==
  <<Bytes(4, [v EXCEPT !.n = Truncated(@, 4 * ByteBits)]),
    Bytes(4, [v EXCEPT !.n = Truncated(@ \div 2^(4 * ByteBits), 4 * ByteBits)])>>

arm_static_expr(e) == static_expr(e)
arm_scalar(cat, e) == 
  IF IsLLong(cat) THEN <<AlignTo(8)>> \o Halves(arm_static_expr(e))
  ELSE Sized(Size32(cat), Size32(cat), arm_static_expr(e))

mips_static_expr(e) == static_expr(e)
mips_scalar(cat, e) == 
  IF IsLLong(cat) THEN <<AlignTo(8)>> \o Halves(mips_static_expr(e))
  ELSE Sized(Size32(cat), Size32(cat), mips_static_expr(e))

IsInitList(e) == e.op = "init"

\* The initialiser of a static object with its constant expressions folded.
RECURSIVE analyze_initializer(_, _)
analyze_initializer(t, e) ==
  LET cat == get_type_category(t)
      ms == Descriptor(t.tag).members
      parts(type(_)) == [i \in DOMAIN e.c |-> analyze_initializer(type(i), e.c[i])]
      all(ps, room) == [ok |-> Len(e.c) <= room /\ \A i \in DOMAIN ps : ps[i].ok,
                        e |-> [e EXCEPT !.c = [i \in DOMAIN ps |-> ps[i].e]]]
      v == IF IsInitList(e) THEN e.c[1] ELSE e
      r == eval_const_expr(v, FALSE, IsLLong(cat) /\ ~targeting_arch64)
  IN
  CASE e.op = "none" -> [ok |-> TRUE, e |-> e]
    [] cat = "[]" /\ e.op = "str" -> [ok |-> TRUE, e |-> e]
    [] cat = "[]" /\ IsInitList(e) -> all(parts(LAMBDA i : Derived(t)), Head(t.d).n)
    [] cat = "struct" /\ IsInitList(e) -> all(parts(LAMBDA i : ms[i].type), Len(ms))
    [] cat = "union" /\ IsInitList(e) -> all(parts(LAMBDA i : ms[1].type), 1)
    [] cat \notin {"[]", "struct", "union"} ->
         IF v.t = ErrorType THEN [ok |-> FALSE, e |-> v]
         ELSE [ok |-> r.ok /\ can_assign_to(t, r.e.t), e |-> r.e]
    [] OTHER -> [ok |-> FALSE, e |-> e]

RECURSIVE Concat(_)
Concat(ss) == IF ss = <<>> THEN <<>> ELSE Head(ss) \o Concat(Tail(ss))

Item(k, n, a) == [k |-> k, n |-> n, a |-> a]
AlignItem(ty) == <<Item("align", get_alignment(ty), 0)>>
ZeroItem(ty, count) == AlignItem(ty) \o <<Item("zero", count * get_sizeof(ty), 0)>>

RECURSIVE Walk(_, _)
\* What the initialiser e of an object of type t consists of, in the order in which
\* do_static_init() comes to it: alignments, zeros, strings and scalars.
Walk(t, e) ==
  LET cat == get_type_category(t)
      members == Descriptor(t.tag).members
      align == IF get_alignment(t) > 1 THEN AlignItem(t) ELSE <<>>
      absent == SubSeq(members, Len(e.c) + 1, Len(members))
  IN
  CASE cat = "[]" /\ e.op = "str" -> <<Item("string", Head(t.d).n, e.x)>>
    [] cat = "[]" /\ e.op # "str" ->
         Concat([i \in DOMAIN e.c |-> Walk(Derived(t), e.c[i])])
         \o (IF Len(e.c) < Head(t.d).n THEN ZeroItem(Derived(t), Head(t.d).n - Len(e.c)) ELSE <<>>)
    [] cat = "struct" ->
         align \o Concat([i \in DOMAIN e.c |-> Walk(members[i].type, e.c[i])])
         \o Concat([i \in DOMAIN absent |-> ZeroItem(absent[i].type, 1)])
    [] cat = "union" -> align \o Walk(members[1].type, e.c[1])
    [] OTHER -> <<Item("scalar", cat, IF IsInitList(e) THEN e.c[1] ELSE e)>>

\* The directives of one target for a walk: scalar(category, initialiser) and
\* string(elements, characters) are its own.
Directives(scalar(_, _), string(_, _), i) ==
  CASE i.k = "align" -> <<AlignTo(i.n)>>
    [] i.k = "zero" -> Zeros(i.n)
    [] i.k = "string" -> string(i.n, i.a)
    [] i.k = "scalar" -> scalar(i.n, i.a)
Expanded(scalar(_, _), string(_, _), w) ==
  Concat([j \in DOMAIN w |-> Directives(scalar, string, w[j])])

vm32_static_init(w) == Expanded(vm32_scalar, vm_string, w)
vm64_static_init(w) == Expanded(vm64_scalar, vm_string, w)
x86_static_init(w) == Expanded(x86_scalar, native_string, w)
x64_static_init(w) == Expanded(x64_scalar, native_string, w)
arm_static_init(w) == Expanded(arm_scalar, native_string, w)
mips_static_init(w) == Expanded(mips_scalar, native_string, w)

\* An object without an initialiser, NoInit, goes to the bss.
NoInit == Node("none", <<>>, 0, ErrorType)

\* The directives of an object of type t that `init' initialises.
Allocated(t, e, init) ==
  (IF get_alignment(t) > 1 THEN <<AlignTo(get_alignment(t))>> ELSE <<>>)
  \o (IF e.op = "none" THEN Zeros(get_sizeof(t)) ELSE init)

vm32_static_object_definition(t, e, w) == Allocated(t, e, vm32_static_init(w))
vm64_static_object_definition(t, e, w) == Allocated(t, e, vm64_static_init(w))
x86_allocate_static_objects(t, e, w) == Allocated(t, e, x86_static_init(w))
x64_allocate_static_objects(t, e, w) == Allocated(t, e, x64_static_init(w))
arm_allocate_static_objects(t, e, w) == Allocated(t, e, arm_static_init(w))
mips_allocate_static_objects(t, e, w) == Allocated(t, e, mips_static_init(w))

\* w: the walk of e.
TargetObject(t, e, w) ==
  CASE target_arch = "vm32" -> vm32_static_object_definition(t, e, w)
    [] target_arch = "vm64" -> vm64_static_object_definition(t, e, w)
    [] target_arch = "x86" -> x86_allocate_static_objects(t, e, w)
    [] target_arch = "x64" -> x64_allocate_static_objects(t, e, w)
    [] target_arch = "arm" -> arm_allocate_static_objects(t, e, w)
    [] target_arch = "mips" -> mips_allocate_static_objects(t, e, w)
StaticObject(t, e) == TargetObject(t, e, Walk(t, e))
=============================================================================
