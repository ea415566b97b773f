------------------------------- MODULE CLayout ------------------------------
(* Sizes, alignments and the offsets of members: get_sizeof() and          *)
(* get_alignment() of expr.c, the struct descriptors of decl.c.  A table   *)
(* maps the tags to their descriptors on a target.                         *)
EXTENDS CTypes

RECURSIVE AlignmentOn(_, _, _), SizeOn(_, _, _), PushMembers(_, _, _)

\* The alignment of a type, given the target and its table.
AlignmentOn(arch, table, t) ==
  CASE get_type_category(t) \in {"struct", "union"} -> table[t.tag].alignment
    [] get_type_category(t) = "[]" -> AlignmentOn(arch, table, Derived(t))
    [] OTHER -> ScalarAlignmentOn(arch, get_type_category(t))

Largest(sizes) == CHOOSE s \in sizes : \A r \in sizes : r <= s
UnionSize(n) == round_up(Largest({n.members[i].size : i \in DOMAIN n.members}), n.alignment)

SizeOn(arch, table, t) ==
  CASE get_type_category(t) = "union" -> UnionSize(table[t.tag])
    [] get_type_category(t) = "struct" -> table[t.tag].size
    [] get_type_category(t) = "[]" -> Head(t.d).n * SizeOn(arch, table, Derived(t))
    [] get_type_category(t) \in {"void", "error", "()"} -> 0
    [] OTHER -> ScalarSizeOn(arch, get_type_category(t))

Larger(m, n) == IF m > n THEN m ELSE n

\* new_struct_member(): the descriptor on top of the stack with one more member.
new_struct_member(n, member, size, alignment) ==
  [size |-> round_up(n.size, alignment) + size,
   alignment |-> Larger(n.alignment, alignment),
   members |-> Append(n.members, [id |-> member[1], type |-> member[2], size |-> size,
                                  offset |-> round_up(n.size, alignment)])]

\* push_struct_descriptor() and a new_struct_member() for each member.
PushMembers(arch, table, ms) ==
  IF ms = <<>> THEN [size |-> 0, alignment |-> 0, members |-> <<>>]
  ELSE new_struct_member(PushMembers(arch, table, SubSeq(ms, 1, Len(ms) - 1)), ms[Len(ms)],
                         SizeOn(arch, table, ms[Len(ms)][2]),
                         AlignmentOn(arch, table, ms[Len(ms)][2]))

pop_struct_descriptor(n) == [n EXCEPT !.size = round_up(@, n.alignment)]

\* The tables of the targets; a structure contains only complete ones.
Descriptors ==
  [arch \in Archs |->
     LET table[tag \in DOMAIN StructTable] ==
           pop_struct_descriptor(PushMembers(arch, table, StructTable[tag]))
     IN  table]

Descriptor(tag) == Descriptors[target_arch][tag]

Member(members, id) == members[CHOOSE i \in DOMAIN members : members[i].id = id]
get_member_descriptor(tag, id) == Member(Descriptor(tag).members, id)

get_alignment(t) == AlignmentOn(target_arch, Descriptors[target_arch], t)
get_sizeof(t) == SizeOn(target_arch, Descriptors[target_arch], t)
=============================================================================
