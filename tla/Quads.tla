------------------------------- MODULE Quads -------------------------------
(***************************************************************************)
(* The intermediate code as the data-flow analyses of dflow.c see it: which*)
(* variables an instruction reads and which one it defines.                *)
(*                                                                         *)
(* The 40 operators of ic.h are grouped by the cases of the `switch'es of  *)
(* live_init_block() and compute_function_liveness_and_next_use():         *)
(*   "bin"     x = y op z         "addrof"  x = &y                         *)
(*   "un"      x = op y           "ind"     x = *y                         *)
(*   "asn"     x = y              "indasn"  *y = z                         *)
(*   "use"     OpArg, OpRet, OpSwitch, OpCBr                               *)
(*   "call", "indcall"  a direct call, a call through a pointer               *)
(*   "other"   labels, jumps, cases                                        *)
(* Constants and empty operands are NoVar.                                 *)
(***************************************************************************)
EXTENDS Integers, Sequences

CONSTANTS
  Vars,       \* variables and temporaries of a function
  NoVar,      \* a constant or an absent operand
  Statics,    \* the variables of static duration
  AddrTaken   \* address_taken_variables

ASSUME QuadsAssumption ==
  NoVar \notin Vars /\ Statics \subseteq Vars /\ AddrTaken \subseteq Vars

Ops == {"bin", "un", "asn", "use", "addrof", "ind", "indasn", "call", "indcall", "other"}
Operand == Vars \cup {NoVar}
Quad == [op : Ops, tar : Operand, arg1 : Operand, arg2 : Operand]

ReadsArg1 == {"bin", "un", "asn", "use", "ind", "indasn", "indcall"}
ReadsArg2 == {"bin", "indasn"}
Defines   == {"bin", "un", "asn", "addrof", "ind", "call", "indcall"}

\* Mutant: constant operands are not left out.
Uses_mut(q) ==
  (IF q.op \in ReadsArg1 THEN {q.arg1} ELSE {}) \cup
  (IF q.op \in ReadsArg2 THEN {q.arg2} ELSE {})

\* The variables an instruction names as operands.
Uses(q) ==
  ((IF q.op \in ReadsArg1 THEN {q.arg1} ELSE {}) \cup
   (IF q.op \in ReadsArg2 THEN {q.arg2} ELSE {})) \ {NoVar}

\* The variable an instruction defines; an indirect assignment defines none.
Defs(q) == IF q.op \in Defines THEN {q.tar} \ {NoVar} ELSE {}

IsCall(q) == q.op \in {"call", "indcall"}
=============================================================================
