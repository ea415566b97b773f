------------------------------- MODULE MCCGen -------------------------------
(* The instances of CGens: which variables the function has.             *)
EXTENDS CGens

CONSTANTS
  x, c,       \* an int and a char variable
  d,          \* a long long variable
  s1,         \* a structure
  t, u, v, w, z,  \* temporaries: int,
  l,          \* long long,
  b           \* and structure

\* Temporaries of a type are interchangeable: the operators choose registers and
\* slots by their number, never variables.
TempSymmetry == Permutations(WordTemps) \cup Permutations(WideTemps)

\* Each set names what it leaves out because the code violates the properties there (see
\* README, Disagreements found).

\* The handlers of the one-word instructions.  Left out: "ind_asn_const", x64_ind_asn() of a
\* constant qword, whose register may be that of the pointer.
WordHandlers ==
  {"alu", "shift", "setcc", "div_rem", "relop_jump", "unary",
   "addr_of", "asn", "ind", "ind_asn", "call", "indcall", "arg", "ret",
   "cbr", "switch", "next_block", "function_definition"}
\* Those of the 64-bit instructions.  Left out: "self_add2", mips_add() of x + x, which loses
\* the carry; "ret2", x86_ret() and mips_ret() of a 64-bit value, whose registers are given.
PairHandlers ==
  {"alu2", "unary2", "llx", "do_libcall", "addr_of", "asn", "ind", "ind_asn", "call",
   "indcall", "arg", "ret", "cbr", "switch", "next_block", "function_definition"}
\* Those that copy structures.  Left out: "big_args", x64_pre_call() with a structure of more
\* than 16 bytes, which changes R12 and R13 unmarked; "ind_asn_edi", *p = s on x86 and x64
\* with p in EDI, which the copy moves, and used again.
StructHandlers ==
  {"addr_of", "asn", "ind", "ind_asn", "call", "indcall", "arg", "ret", "next_block",
   "function_definition"}
=============================================================================
