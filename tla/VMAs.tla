-------------------------------- MODULE VMAs ---------------------------------
(***************************************************************************)
(* The assembler of the virtual machines (as.c), on lines that are already *)
(* parsed.                                                                 *)
(*                                                                         *)
(* An object is [seg, text, data, bss, syms, relocs, err]: the current     *)
(* segment, the two segments with contents, the size of the third, the     *)
(* symbols (name -> [kind, seg, off]), the relocations [seg, off, sym] in  *)
(* order, and whether the assembler gave up.                               *)
(*                                                                         *)
(* A segment is a sequence of cells [o, n, v], one for each byte: a byte   *)
(* of data, or in .text an instruction (n bytes long, with its operand) in *)
(* the cell of its opcode and fillers in those of its operand.             *)
(***************************************************************************)
EXTENDS VMCode

EmptyObject ==
  [seg |-> "text", text |-> <<>>, data |-> <<>>, bss |-> 0,
   syms |-> <<>>, relocs |-> <<>>, err |-> "none"]
Failing(a, why) == [a EXCEPT !.err = IF @ = "none" THEN why ELSE @]

CURR_OFFS(a) ==
  CASE a.seg = "data" -> Len(a.data) [] a.seg = "text" -> Len(a.text) [] a.seg = "bss" -> a.bss

Cell(b) == [o |-> "byte", n |-> 1, v |-> b]
\* n bytes of v, the low one first.
LittleEndian(v, n) == [i \in 1..n |-> Cell((v \div 2^(ByteBits * (i - 1))) % 2^ByteBits)]

WriteCells(a, cells) ==
  CASE a.seg = "text" -> [a EXCEPT !.text = @ \o cells]
    [] a.seg = "data" -> [a EXCEPT !.data = @ \o cells]
    [] a.seg = "bss" -> Failing(a, "bss")
\* write_byte(), write_word(), write_dword(), write_qword(); (int) truncates.
Write(a, v, n) == WriteCells(a, LittleEndian(v, n))

lookup_symbol(a, name) == name \in DOMAIN a.syms
SetSymbol(a, name, kind, seg, off) ==
  [a EXCEPT !.syms = [s \in DOMAIN @ \cup {name} |->
                        IF s = name THEN [kind |-> kind, seg |-> seg, off |-> off] ELSE @[s]]]

\* A symbol may be declared extern more than once.
define_symbol(a, name, kind, seg, off) ==
  IF ~lookup_symbol(a, name) THEN SetSymbol(a, name, kind, seg, off)
  ELSE IF a.syms[name].kind = "extern" /\ kind = "extern" THEN a ELSE Failing(a, "redefined")

globalize_symbol(a, name) ==
  IF ~lookup_symbol(a, name) THEN Failing(a, "undefined")
  ELSE IF a.syms[name].kind = "extern" THEN Failing(a, "redefined")
  ELSE [a EXCEPT !.syms[name].kind = "global"]

\* The fix is made at the current offset + skip.
append_reloc(a, skip, sym) ==
  [a EXCEPT !.relocs = Append(@, [seg |-> a.seg, off |-> CURR_OFFS(a) + skip, sym |-> sym])]

-----------------------------------------------------------------------------
label(a, name) == define_symbol(a, name, "local", a.seg, CURR_OFFS(a))

\* operations.c: the operations with an operand.
has_operand ==
  {"ldn", "memcpy", "fill", "ldbp", "ldidw", "ldiqw", "call", "jmp", "jmpf", "jmpt", "libcall", "addsp"}
\* A name takes an address, a number four bytes but in ldiqw.
OperandSize(l, vm64) ==
  IF l.o \notin has_operand THEN 0
  ELSE IF l.s # NoSymbol THEN IF vm64 THEN 8 ELSE 4
  ELSE IF l.o = "ldiqw" THEN 8 ELSE 4

InstructionCells(l, size) ==
  <<[o |-> l.o, n |-> size + 1, v |-> l.v % 2^(ByteBits * Larger(size, 1))]>>
  \o [i \in 1..size |-> [o |-> "operand", n |-> 0, v |-> 0]]
instruction(a, l, vm64) ==
  WriteCells(IF l.s = NoSymbol THEN a ELSE append_reloc(a, 1, l.s), InstructionCells(l, OperandSize(l, vm64)))

\* .dword and .qword take a name when it fills them.
number(a, l, size, pointer) ==
  IF l.s = NoSymbol THEN Write(a, l.v, size)
  ELSE IF size = pointer THEN Write(append_reloc(a, 0, l.s), l.v, size)
  ELSE Failing(a, "operand")

OpNop == [o |-> "nop", n |-> 1, v |-> 0]
align(a, n) ==
  IF a.seg = "bss" THEN [a EXCEPT !.bss = round_up(@, n)]
  ELSE WriteCells(a, [i \in 1..(round_up(CURR_OFFS(a), n) - CURR_OFFS(a)) |-> OpNop])

directive(a, l, vm64) ==
  CASE l.o \in {"text", "data", "bss"} -> [a EXCEPT !.seg = l.o]
    [] l.o = "global" -> globalize_symbol(a, l.s)
    [] l.o = "extern" -> define_symbol(a, l.s, "extern", "none", 0)
    [] l.o = "byte" -> Write(a, l.v, 1)
    [] l.o = "word" -> Write(a, l.v, 2)
    [] l.o = "dword" -> number(a, l, 4, IF vm64 THEN 8 ELSE 4)
    [] l.o = "qword" -> number(a, l, 8, IF vm64 THEN 8 ELSE 4)
    [] l.o = "res" -> IF a.seg = "bss" THEN [a EXCEPT !.bss = @ + l.v] ELSE Failing(a, "res")
    [] l.o = "align" -> align(a, l.v)
    [] l.o = "zero" -> WriteCells(a, [i \in 1..l.v |-> Cell(0)])

statement(a, l, vm64) ==
  CASE l.k = "label" -> label(a, l.s)
    [] l.k = "op" -> instruction(a, l, vm64)
    [] l.k = "dir" -> directive(a, l, vm64)

\* The lines from i to j, in halves so that a long program does not nest as deep.
RECURSIVE program(_, _, _, _, _)
program(a, lines, i, j, vm64) ==
  IF a.err # "none" \/ i > j THEN a
  ELSE IF i = j THEN statement(a, lines[i], vm64)
  ELSE program(program(a, lines, i, (i + j) \div 2, vm64), lines, (i + j) \div 2 + 1, j, vm64)

\* A label that is used and not declared is found when the object is written.
Written(a) ==
  IF \A i \in DOMAIN a.relocs : lookup_symbol(a, a.relocs[i].sym) THEN a ELSE Failing(a, "undefined")
assemble(lines, vm64) == Written(program(EmptyObject, lines, 1, Len(lines), vm64))
=============================================================================
