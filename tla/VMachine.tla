------------------------------ MODULE VMachine -------------------------------
(***************************************************************************)
(* What the two virtual machines share: the state of exec(), the stack of  *)
(* dwords and what the instructions compute.                               *)
(*                                                                         *)
(* An address is a number.  The text is at TextBase, the data, the bss and *)
(* the stack follow; mem holds the bytes of those three.  sp is the        *)
(* address of the dword on top of the stack.                               *)
(***************************************************************************)
EXTENDS VMAs, Bitwise

VARIABLES
  phase,   \* what runs: a step of the build, the machine, or nothing any more
  build,   \* what a step of the build leaves to the next
  text,    \* cells of the loaded text, see VMAs
  mem,     \* address -> byte
  ip, sp, bp,
  out      \* the characters written

machine == <<text, mem, ip, sp, bp, out>>

DWord == 4 * ByteBits
QWord == 8 * ByteBits

TextBase == 8
Cells == DOMAIN text
NoCell == [o |-> "none", n |-> 0, v |-> 0]
CellAt(p) == IF p - TextBase + 1 \in Cells THEN text[p - TextBase + 1] ELSE NoCell
Instr == CellAt(ip)
Executes(arch, ops) == phase = "running" /\ target_arch = arch /\ Instr.o \in ops

\* The value of bytes of memory; an address outside reads as 0.
Byte0(a) == IF a \in DOMAIN mem THEN mem[a] ELSE 0
Word2(a) == Byte0(a) + 2^ByteBits * Byte0(a + 1)
Word4(a) == Word2(a) + 2^(2 * ByteBits) * Word2(a + 2)
Word8(a) == Word4(a) + 2^(4 * ByteBits) * Word4(a + 4)
WordOf(a, n) == CASE n = 1 -> Byte0(a) [] n = 2 -> Word2(a) [] n = 4 -> Word4(a) [] n = 8 -> Word8(a)

\* m with n bytes of v at a, or a copy of n bytes from src at dest.
Put(m, a, n, v) ==
  [x \in DOMAIN m |-> IF x \in a..(a + n - 1) THEN (v \div 2^(ByteBits * (x - a))) % 2^ByteBits ELSE m[x]]
Copied(m, dest, src, n) ==
  [x \in DOMAIN m |-> IF x \in dest..(dest + n - 1) /\ src + (x - dest) \in DOMAIN m
                      THEN m[src + (x - dest)] ELSE m[x]]
Filled(m, dest, b, n) == [x \in DOMAIN m |-> IF x \in dest..(dest + n - 1) THEN b ELSE m[x]]

\* The memory with what getvars leaves at a: three files, argc, argv, the address of errno.
HostVars == <<1, 2, 3, 1, 0, 0>>
WithVars(a, size) ==
  [x \in DOMAIN mem |->
     IF x \notin a..(a + 6 * size - 1) THEN mem[x]
     ELSE IF (x - a) % size = 0 THEN HostVars[(x - a) \div size + 1] ELSE 0]

\* sp[i], and the qword that begins there.
Slot(i) == sp + 4 * i
D(i) == Word4(Slot(i))
Q(i) == Word8(Slot(i))

\* The operand of the instruction as a number.
Operand4 == Signed(Instr.v % 2^DWord, DWord)

\* The instruction ends: the memory becomes m, the stack grows by n bytes.
Continue(m, n) ==
  /\ mem' = m /\ sp' = sp + n /\ ip' = ip + Instr.n
  /\ UNCHANGED <<phase, build, target_arch, text, bp, out>>
Branch(target, n) ==
  ip' = target /\ sp' = sp + n /\ UNCHANGED <<phase, build, target_arch, text, mem, bp, out>>

-----------------------------------------------------------------------------
\* The operation and the width that a mnemonic is made of.
Mnemonics(stems, widths) ==
  [o \in {f \o w : f \in stems, w \in widths} |-> CHOOSE f \in stems : \E w \in widths : f \o w = o]

ArithmeticStems == {"add", "sub", "mul", "sdiv", "udiv", "smod", "umod"}
ComparisonStems == {"slt", "ult", "slet", "ulet", "sgt", "ugt", "sget", "uget", "eq", "neq"}
BitwiseStems == {"and", "or", "xor"}
ShiftStems == {"sll", "srl", "sra"}
ArithmeticDW == Mnemonics(ArithmeticStems, {"dw"})
ArithmeticQW == Mnemonics(ArithmeticStems, {"qw"})
ComparisonDW == Mnemonics(ComparisonStems, {"dw"})
ComparisonQW == Mnemonics(ComparisonStems, {"qw"})
BitwiseDW == Mnemonics(BitwiseStems, {"dw"})
BitwiseQW == Mnemonics(BitwiseStems, {"qw"})
ShiftDW == Mnemonics(ShiftStems, {"dw"})
ShiftQW == Mnemonics(ShiftStems, {"qw"})

\* The operands and the results are unsigned words of w bits.
Compute(f, a, b, w) ==
  CASE f = "add" -> (a + b) % 2^w
    [] f = "sub" -> (a - b) % 2^w
    [] f = "mul" -> TimesModulo(a, b, w)
    [] f = "sdiv" -> Truncating(Signed(a, w), Signed(b, w)) % 2^w
    [] f = "udiv" -> a \div b
    [] f = "smod" -> (Signed(a, w) - Signed(b, w) * Truncating(Signed(a, w), Signed(b, w))) % 2^w
    [] f = "umod" -> a % b
Compare(f, a, b, w) ==
  CASE f = "eq" -> a = b [] f = "neq" -> a # b
    [] f = "ult" -> a < b [] f = "ulet" -> a <= b [] f = "ugt" -> a > b [] f = "uget" -> a >= b
    [] f = "slt" -> Signed(a, w) < Signed(b, w) [] f = "slet" -> Signed(a, w) <= Signed(b, w)
    [] f = "sgt" -> Signed(a, w) > Signed(b, w) [] f = "sget" -> Signed(a, w) >= Signed(b, w)
Combine(f, a, b) == CASE f = "and" -> a & b [] f = "or" -> a | b [] f = "xor" -> a ^^ b
Shift(f, a, n, w) ==
  CASE f = "sll" -> TimesModulo(a, 2^n, w)
    [] f = "srl" -> a \div 2^n
    [] f = "sra" -> (Signed(a, w) \div 2^n) % 2^w

Truth0Of(b) == IF b THEN 1 ELSE 0

\* The stack effects: two dwords, two qwords, two qwords to a dword, a qword and a dword.
BinaryDW(v) == Continue(Put(mem, Slot(-1), 4, v), -4)
BinaryQW(v) == Continue(Put(mem, Slot(-3), 8, v), -8)
RelationQW(v) == Continue(Put(mem, Slot(-3), 4, v), -12)
CountedQW(v) == Continue(Put(mem, Slot(-2), 8, v), -4)

\* dw2b, dw2ub, dw2w, dw2uw keep the low bytes and extend them.
Narrowings == [dw2b |-> 1, dw2ub |-> 1, dw2w |-> 2, dw2uw |-> 2]
SignExtending == {"dw2b", "dw2w", "ldb", "ldw", "dw2qw"}
Extended(v, n, signed, w) == IF signed THEN Signed(v % 2^(ByteBits * n), ByteBits * n) % 2^w ELSE v % 2^(ByteBits * n)

\* Bytes read by a load and written by a store.
LoadSize == [ldb |-> 1, ldub |-> 1, ldw |-> 2, lduw |-> 2, lddw |-> 4]
StoreSize == [stb |-> 1, stw |-> 2, stdw |-> 4]

\* bsearch() for a word of size bytes among n sorted words at a, by its signed value:
\* the index of the word, or -1.
RECURSIVE bsearch(_, _, _, _, _)
bsearch(val, a, lo, hi, size) ==
  IF lo >= hi THEN -1
  ELSE LET mid == (lo + hi) \div 2
           v == Signed(WordOf(a + size * mid, size), ByteBits * size)
       IN  IF val = v THEN mid
           ELSE IF val < v THEN bsearch(val, a, lo, mid, size) ELSE bsearch(val, a, mid + 1, hi, size)

\* Mutant: the address of the default is not counted.
SwitchTarget_mut(val, tab, size, pointer) ==
  LET count == WordOf(tab, size)
  IN  WordOf(tab + size * count + pointer * bsearch(val, tab + size, 0, count - 1, size), pointer)
\* Where a table of a switch sends a value: count, count - 1 words, then an address for
\* the default and for each word.
SwitchTarget(val, tab, size, pointer) ==
  LET count == WordOf(tab, size)
  IN  WordOf(tab + size * count + pointer * (1 + bsearch(val, tab + size, 0, count - 1, size)), pointer)
=============================================================================
