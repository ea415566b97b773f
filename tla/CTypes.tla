------------------------------- MODULE CTypes -------------------------------
(***************************************************************************)
(* The types of the C front end: categories, ranks and conversions (expr.c)*)
(* and the layout of structures and unions (decl.c, expr.c).               *)
(*                                                                         *)
(* A Declaration of the source is a type specifier and a list of           *)
(* declarators; here [s |-> specifier, tag |-> its tag, d |-> sequence of    *)
(* declarators], the outermost declarator first.  Qualifiers and storage   *)
(* classes are left out.                                                   *)
(***************************************************************************)
EXTENDS Integers, Sequences

CONSTANTS
  StructTable,  \* tag -> the members <<name, type>> of the structure or union
  ByteBits      \* bits of a byte; 8 in the source, less in the instances

VARIABLE target_arch   \* the -m option, a global variable of luxcc.c

ASSUME CTypesAssumption == ByteBits \in Nat \ {0}

Archs == {"x86", "x64", "arm", "mips", "vm32", "vm64"}
Archs64 == {"x64", "vm64"}
targeting_arch64 == target_arch \in Archs64

Star == [op |-> "*", n |-> 0, p |-> <<>>]
Array(n) == [op |-> "[]", n |-> n, p |-> <<>>]
Function(params) == [op |-> "()", n |-> 0, p |-> params]

Spec0(s) == [s |-> s, tag |-> "", d |-> <<>>]
Struct(tag) == [Spec0("struct") EXCEPT !.tag = tag]
Union(tag) == [Spec0("union") EXCEPT !.tag = tag]
PointerTo(t) == [t EXCEPT !.d = <<Star>> \o @]
ArrayOf(t, n) == [t EXCEPT !.d = <<Array(n)>> \o @]
FunctionOf(t, params) == [t EXCEPT !.d = <<Function(params)>> \o @]
\* ty.idl->child: the type an array, a pointer or a function is derived from.
Derived(t) == [t EXCEPT !.d = Tail(@)]

IntType == Spec0("int")
ErrorType == Spec0("error")
Ellipsis == Spec0("...")

get_type_category(t) == IF t.d # <<>> THEN Head(t.d).op ELSE t.s

CHAR_RANK == 1
SHORT_RANK == 2
INT_RANK == 3
LONG_RANK == 4
LLONG_RANK == 5

Rank ==
  [char |-> CHAR_RANK, schar |-> CHAR_RANK, uchar |-> CHAR_RANK,
   short |-> SHORT_RANK, ushort |-> SHORT_RANK,
   int |-> INT_RANK, unsigned |-> INT_RANK, enum |-> INT_RANK,
   long |-> LONG_RANK, ulong |-> LONG_RANK,
   llong |-> LLONG_RANK, ullong |-> LLONG_RANK]

Integers0 == DOMAIN Rank
is_integer(cat) == cat \in Integers0
is_pointer(cat) == cat \in {"*", "[]"}
get_rank(cat) == Rank[cat]
is_unsigned_int(cat) == cat \in {"uchar", "ushort", "unsigned", "ulong", "ullong"}
is_signed_int(cat) == is_integer(cat) /\ ~is_unsigned_int(cat)

get_promoted_type(cat) == IF get_rank(cat) < INT_RANK THEN "int" ELSE cat

UnsignedOf(cat) == IF cat = "long" THEN "ulong" ELSE "ullong"

\* Mutant: an unsigned operand always wins, whatever the ranks are.
get_result_type_mut(ty1, ty2) ==
  IF is_unsigned_int(ty1) THEN ty1
  ELSE IF is_unsigned_int(ty2) THEN ty2
  ELSE IF get_rank(ty1) > get_rank(ty2) THEN ty1 ELSE ty2

\* The usual arithmetic conversions, for promoted operands.  When neither operand
\* decides, `s' is the signed one, of the greater rank, and `u' the unsigned one.
get_result_type(ty1, ty2) ==
  LET s == IF is_signed_int(ty1) THEN ty1 ELSE ty2
      u == IF is_signed_int(ty1) THEN ty2 ELSE ty1
      represents == IF targeting_arch64 THEN u # "ulong" ELSE s = "llong"
  IN  IF ty1 = ty2 THEN ty1
      ELSE IF is_signed_int(ty1) = is_signed_int(ty2)
      THEN IF get_rank(ty1) > get_rank(ty2) THEN ty1 ELSE ty2
      ELSE IF get_rank(u) >= get_rank(s) THEN u
      ELSE IF represents THEN s ELSE UnsignedOf(s)

round_up(n, m) == ((n + m - 1) \div m) * m

\* The size of the object of an integer or pointer type on a target.
ScalarSizeOn(arch, cat) ==
  IF is_integer(cat) /\ get_rank(cat) # LONG_RANK
  THEN CASE get_rank(cat) = CHAR_RANK -> 1
         [] get_rank(cat) = SHORT_RANK -> 2
         [] get_rank(cat) = INT_RANK -> 4
         [] get_rank(cat) = LLONG_RANK -> 8
  ELSE IF arch \in Archs64 THEN 8 ELSE 4

ScalarAlignmentOn(arch, cat) ==
  IF is_integer(cat) /\ get_rank(cat) = LLONG_RANK
  THEN IF arch \in {"x64", "vm64", "mips", "arm"} THEN 8 ELSE 4
  ELSE ScalarSizeOn(arch, cat)

ScalarSize(cat) == ScalarSizeOn(target_arch, cat)

-----------------------------------------------------------------------------
(* Arithmetic on words of w bits, each held as its unsigned value.         *)
Signed(u, w) == IF u >= 2^(w - 1) THEN u - 2^w ELSE u

\* a * b in w bits, w even, without a product of more than w bits.
LowHalf(a, w) == a % 2^(w \div 2)
HighHalf(a, w) == a \div 2^(w \div 2)
TimesModulo(a, b, w) ==
  (LowHalf(a, w) * LowHalf(b, w)
     + LowHalf(HighHalf(a, w) * LowHalf(b, w) + LowHalf(a, w) * HighHalf(b, w), w) * 2^(w \div 2)) % 2^w

\* Division as in C: towards zero.
Magnitude(n) == IF n < 0 THEN -n ELSE n
Truncating(a, b) ==
  IF (a < 0) = (b < 0) THEN Magnitude(a) \div Magnitude(b) ELSE -(Magnitude(a) \div Magnitude(b))
=============================================================================
