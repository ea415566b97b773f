-------------------------------- MODULE CGen --------------------------------
(***************************************************************************)
(* The state of a code generator and of the machine its code runs on, the  *)
(* marks an instruction comes with, and what makes generated code right.   *)
(* X86CGen, X64CGen, ArmCGen and MipsCGen add the handlers of the targets, *)
(* CGens puts them together.                                               *)
(*                                                                         *)
(* The program is not given in advance: every step chooses an instruction, *)
(* its operands and what happens to them afterwards.  fut[v] is what the   *)
(* liveness and next-use marks say of v's value: it is used again in this  *)
(* block ("next"), only later or without being named ("live"), or never    *)
(* ("dead").  Module NextUse shows that dflow.c computes these marks so.   *)
(***************************************************************************)
EXTENDS CGenRegs

CONSTANTS
  Targets,    \* the code generators that an instance runs
  AddrTaken,  \* address_taken_variables
  Statics,    \* static objects that the function modifies
  Crossing,   \* variables that may be live at the end of a block
  Handlers,   \* the handlers that an instance uses
  MaxArgs,    \* bound on the argument words of a call (arm, mips)
  MaxPushed   \* bound on the arguments pushed for a call (x86, x64)

ASSUME CGenAssumption ==
  /\ Targets \subseteq {"x86", "x64", "arm", "mips"}
  /\ AddrTaken \subseteq Crossing /\ Statics \subseteq Crossing
  /\ Statics \subseteq Ids /\ AddrTaken \subseteq Pointed
  /\ MaxArgs \in Nat /\ MaxPushed \in 0 .. MaxArgs

VARIABLES
  target,         \* the code generator that runs
  reg_descr_tab, addr_descr_tab, pinned, modified,
  temp_list,      \* owners of the temporary slots
  arg_words,      \* words of arguments passed so far (arg_stack_top, arg_offs / 4)
  passed,         \* those of them that are in argument registers
  fut,            \* what becomes of each variable's value
  R, M,           \* contents of registers and memory, see CGenRegs
  written,        \* callee-save registers the emitted code has changed
  faults          \* what has gone wrong with the emitted code

vars == <<target, reg_descr_tab, addr_descr_tab, pinned, modified, temp_list, arg_words,
          passed, fut, R, M, written, faults>>

\* The code generator's state as one record, the form CGenRegs works on.
cg == [reg |-> reg_descr_tab, addr |-> addr_descr_tab, pinned |-> pinned,
       modified |-> modified, temps |-> temp_list, args |-> arg_words, passed |-> passed,
       fut |-> fut, R |-> R, M |-> M, written |-> written, faults |-> faults,
       got |-> None, res |-> NoReg, opd |-> {}]

\* The registers that the calling convention of the target makes the callee keep.
CalleeSave == [x86 |-> {1, 4, 5}, x64 |-> {1} \cup (10 .. 13), arm |-> 4 .. 10, mips |-> {}]

Words(v) == IF v \in Wide THEN {1, 2} ELSE {1}
Futures(v) == IF v \in Crossing THEN {"next", "live", "dead"} ELSE {"next", "dead"}

TypeOK ==
  /\ target \in Targets
  /\ reg_descr_tab \in [Regs -> Vars \cup {NoVar}]
  /\ addr_descr_tab \in [Vars -> [r1 : Regs \cup {None}, r2 : Regs \cup {None}]]
  /\ pinned \subseteq Regs /\ modified \subseteq Regs /\ written \subseteq Regs
  /\ temp_list \in Seq(Temps \cup {NoVar}) /\ Len(temp_list) <= Cardinality(Temps)
  /\ arg_words \in 0 .. MaxArgs + 4 /\ passed \subseteq 0 .. 3
  /\ \A v \in Vars : fut[v] \in Futures(v)
  /\ \A r \in Regs : R[r] \subseteq Tokens
  /\ \A L \in Locs, w \in {1, 2} : M[L][w] \subseteq Tokens
  /\ faults \subseteq {"operand", "argument", "assert", "modified"}

-----------------------------------------------------------------------------
\* What a state keeps of the contents: those the descriptors vouch for.  Forgetting
\* the others is on the safe side, since an unknown content is never right.
Vouched(n, L, v) ==
  /\ n.fut[v] # "dead"
  /\ \/ v \in Structs
     \/ ~InReg(n, v) /\ IF v \in Temps THEN L \in DOMAIN n.temps /\ n.temps[L] = v ELSE L = v

Addresses(v) == IF v \in Structs THEN Locs \X {0} ELSE {}

Commit(result) ==
  \E n \in {result} :
    /\ reg_descr_tab' = n.reg /\ addr_descr_tab' = n.addr
    /\ pinned' = n.pinned /\ modified' = n.modified /\ temp_list' = n.temps
    /\ arg_words' = n.args /\ passed' = n.passed /\ UNCHANGED target
    /\ fut' = n.fut /\ written' = n.written \cap CalleeSave[target] /\ faults' = n.faults
    /\ R' = [r \in Regs |->
               IF n.reg[r] = NoVar THEN n.R[r] \cap ({Arg} \X n.passed)
               ELSE n.R[r] \cap (({n.reg[r]} \X {1, 2}) \cup Addresses(n.reg[r]))]
    /\ M' = [L \in Locs |-> [w \in {1, 2} |->
               {t \in n.M[L][w] :
                  \/ t[1] \in Vars /\ Vouched(n, L, t[1])
                  \/ t[2] = 0 /\ L \in DOMAIN n.temps /\ n.temps[L] \in Structs}]]

\* The states in which code for an instruction is emitted: cg, with what may become
\* of each variable after the instruction.  The instruction reads `args' and, without
\* naming them, the variables in `implicit'; it defines tar (or nothing, NoVar).
Marks(tar, args, implicit) ==
  LET named == (args \cup {tar}) \cap Vars
      right == /\ \A a \in args \ {Const} : fut[a] = "next"
               /\ tar \in Vars \ args => fut[tar] = IF tar \in implicit THEN "live" ELSE "dead"
               /\ \A v \in implicit : fut[v] # "dead"
      after(v) == IF v \in named THEN Futures(v)
                  ELSE IF v \in implicit /\ fut[v] = "live" THEN {"live", "dead"} ELSE {fut[v]}
      free == {v \in Vars : after(v) # {fut[v]}}
  IN  IF right THEN {[cg EXCEPT !.fut = [v \in Vars |-> IF v \in free THEN g[v] ELSE fut[v]]] :
                      g \in {h \in [free -> {"next", "live", "dead"}] : \A v \in free : h[v] \in after(v)}}
      ELSE {}

\* The block ends with this instruction.
LastOfBlock(m) == \A v \in Vars : m.fut[v] # "next"

\* The marks of the operands, with the target and equal operands taken into
\* account in the order of update_tar(), update_arg1() and update_arg2() (dflow.c).
Live(n, v) == v \in Vars /\ n.fut[v] # "dead"
Used(n, v) == v \in Vars /\ n.fut[v] = "next"
Live1(n, tar, a1) == a1 # tar /\ Live(n, a1)
Used1(n, tar, a1) == a1 # tar /\ Used(n, a1)
Live2(n, tar, a1, a2) == a2 = a1 \/ (a2 # tar /\ Live(n, a2))
Used2(n, tar, a1, a2) == a2 = a1 \/ (a2 # tar /\ Used(n, a2))

\* update_arg_descriptors() of both arguments, Update being the target's.
UpdateArgs(n, tar, a1, a2, Update(_, _, _, _)) ==
  Update(Update(n, a1, Live1(n, tar, a1), Used1(n, tar, a1)),
         a2, Live2(n, tar, a1, a2), Used2(n, tar, a1, a2))

\* The emitted code gives variable tar a new value: nothing else in the machine is
\* that value, or everything that is src (a copy).
Other(X, S) == {t \in X : t[1] \notin S \/ t[2] = 0}
CopyIn(X, tar, src) == Other(X, {tar}) \cup {<<tar, t[2]>> : t \in {t \in X : t[1] = src /\ t[2] # 0}}
Forget(n, S) ==
  [n EXCEPT !.R = [r \in Regs |-> Other(@[r], S)],
            !.M = [L \in Locs |-> [w \in {1, 2} |-> Other(@[L][w], S)]]]
Copies(n, tar, src) ==
  IF tar = src THEN n
  ELSE [n EXCEPT !.R = [r \in Regs |-> CopyIn(@[r], tar, src)],
                 !.M = [L \in Locs |-> [w \in {1, 2} |-> CopyIn(@[L][w], tar, src)]]]

\* The result is in n.res: one register, or a pair.
Computes(n, tar) == SetReg(Forget(n, {tar}), n.res.r1, {<<tar, 1>>})
Computes2(n, tar) == SetReg(Computes(n, tar), n.res.r2, {<<tar, 2>>})

\* A structure-valued expression leaves the address L of its value in n.res.
ComputesAt(n, tar, L) ==
  [SetReg(Forget(n, {tar}), n.res.r1, {<<L, 0>>}) EXCEPT !.M[L][1] = @ \cup {<<tar, 1>>}]

\* An operand is read: from register r, from a pair, from n.res, from n.opd.
RightIn(n, r, a, w) == Reads(n, n.R[r], a, w)
RightIn2(n, r, a) == RightIn(RightIn(n, r.r1, a, 1), r.r2, a, 2)
RightOpd(n, a, w) == Reads(n, n.opd, a, w)
RightRes(n, a) == RightIn(n, n.res.r1, a, 1)

\* A failed assertion ends the compiler.
Enabled(t, h) == target = t /\ h \in Handlers /\ faults \cap {"assert", "modified"} = {}

Scalars == Vars \ Structs                          \* operands of 32-bit instructions
WordTemps == Temps \ (Wide \cup Structs)
WideTemps == Temps \cap Wide
Pointers == Scalars \ (Wide \cup Bytes)

-----------------------------------------------------------------------------
\* Memory accesses the compiler cannot see through.

\* The variables of S are read from memory, where their values have to be.
ReadsMemory(n, S) ==
  Fault(n, "operand", \A v \in S : fut[v] # "dead" =>
                        ~InReg(n, v) /\ \A w \in Words(v) : <<v, w>> \in n.M[v][w])

\* The variables of S get new values in memory; so does memory not in a variable.
WritesMemory(n, S) ==
  [Forget(n, S) EXCEPT !.M = [L \in Locs |-> [w \in {1, 2} |->
                                IF L = Far THEN {} ELSE IF L \in S THEN {<<L, w>>} ELSE @[L][w]]]]

\* The address-taken variables that are in registers.
Aliased == AddrTaken \cap Ids

\* The callee may read and write static objects and whatever pointers reach, and
\* changes the registers it need not keep.
Called(n, clobbered) ==
  Clobber(WritesMemory(ReadsMemory(n, Pointed \cup Statics), Pointed \cup Statics), clobbered)

RoundUp(k, to) == ((k + to - 1) \div to) * to

\* The k-th word of the arguments is put in register r, and found there by the callee.
Passes(n, r, k) == [SetReg(n, r, {<<Arg, k>>}) EXCEPT !.passed = @ \cup {k}]

\* The words ks of the arguments are put in the registers from first on.
PassesWords(n, first, ks) ==
  [n EXCEPT !.R = [r \in Regs |-> IF r - first \in ks THEN {<<Arg, r - first>>} ELSE @[r]],
            !.written = @ \cup {first + k : k \in ks}, !.passed = @ \cup ks]
FindsArguments(n, first) ==
  Fault([n EXCEPT !.passed = {}], "argument", \A k \in n.passed : <<Arg, k>> \in n.R[first + k])

-----------------------------------------------------------------------------
\* A block begins: control may come from any block, which by NothingLost has left
\* every live variable in memory.  A temporary is not revived.
Entry(n, dom) ==
  \E f \in [Vars -> {"next", "live", "dead"}] :
    /\ \A v \in Vars : f[v] \in Futures(v)
    /\ \A v \in Temps \ dom : f[v] = "dead"
    /\ Commit([n EXCEPT !.fut = f,
                        !.M = [L \in Locs |-> [w \in {1, 2} |->
                                 n.M[L][w] \cup (IF L \in Ids THEN {<<L, w>>} ELSE {})]]])

\* The end of a function: everything is reset for the next one.
NewFunction ==
  Entry([cg EXCEPT !.reg = [r \in Regs |-> NoVar], !.addr = [v \in Vars |-> NoReg],
                   !.pinned = {}, !.modified = {}, !.temps = <<>>, !.written = {}], {})

Init ==
  /\ target \in Targets
  /\ reg_descr_tab = [r \in Regs |-> NoVar]
  /\ addr_descr_tab = [v \in Vars |-> NoReg]
  /\ pinned = {} /\ modified = {} /\ temp_list = <<>> /\ arg_words = 0 /\ passed = {}
  /\ fut = [v \in Vars |-> "dead"]
  /\ R = [r \in Regs |-> {}] /\ M = [L \in Locs |-> [w \in {1, 2} |-> {}]]
  /\ written = {} /\ faults = {}

Ops2 == {p \in (Scalars \cup {Const}) \X (Scalars \cup {Const}) : p # <<Const, Const>>}
\* A constant may or may not fit the instruction that uses it.
Kinds(a) == IF a = Const THEN BOOLEAN ELSE {FALSE}
\* The words and the alignment, in words, of the structures that are passed.
StructKinds == {<<1, 1>>, <<4, 2>>}
WideOps == {p \in ((Wide \cup {Const}) \X (Wide \cup {Const})) : p # <<Const, Const>>}

-----------------------------------------------------------------------------
\* The emitted code reads the values that the intermediate code names: every
\* operand of every instruction (ic.h: "x = y op z", "*x = y", ...) is taken from
\* a place that holds the operand's current value, through spills, reuse of
\* registers, aliasing and calls.  Not held to it are the handlers that MCCGen leaves out
\* (mips_add() of a 64-bit x + x, x86_ret() and mips_ret() of a 64-bit value, x64_ind_asn()
\* of a constant qword) and stores through a pointer that is evicted for the value.
OperandsRight == "operand" \notin faults

\* No assertion of the four generators fails: get_reg0() always finds a register, and the
\* two halves of a 64-bit value are where x86_load2() expects them.  The assertion on
\* modified[] of arm_cgen.c (line 276) is not meant here: a program can make it fail, and
\* ends there.
AssertionsHold == "assert" \notin faults

\* The words of the arguments that are passed in registers are still there when the
\* callee is called, whatever was computed after they were put there.
ArgumentsRight == "argument" \notin faults

\* v's value is where the descriptors say.
InPlace(v) ==
  IF InReg(cg, v) THEN \A w \in Words(v) :
                        Holds(cg, R[IF w = 1 THEN addr_descr_tab[v].r1 ELSE addr_descr_tab[v].r2], v, w)
  ELSE IF v \in Temps THEN \E k \in DOMAIN temp_list :
                             temp_list[k] = v /\ \A w \in Words(v) : Holds(cg, M[k][w], v, w)
  ELSE \A w \in Words(v) : <<v, w>> \in M[v][w]

\* A value that may still be read is never lost: it is in the variable's registers,
\* or, if it has none, in its memory or its own temporary slot.
NothingLost == \A v \in Vars : fut[v] # "dead" => InPlace(v)

\* The same of the scalar variables alone: copying structures with `rep movsb' (x86, x64)
\* leaves whatever ECX, ESI and EDI held, and all memory but the target, as it was; so does
\* memcpy (ARM, MIPS).  Not held to it: a pointer in EDI through which a structure is stored
\* ("ind_asn_edi"), and r14 of ARM, which the call of memcpy changes.
ScalarsKept == \A v \in Scalars : fut[v] # "dead" => InPlace(v)

\* The register and the address descriptors say the same, a 64-bit variable has
\* both registers or none, and nothing stays pinned between instructions.
DescriptorsAgree ==
  /\ \A r \in Regs, v \in Vars :
       reg_descr_tab[r] = v <=> r \in {addr_descr_tab[v].r1, addr_descr_tab[v].r2}
  /\ \A v \in Vars : LET at == addr_descr_tab[v]
                     IN  /\ at.r1 = None => at.r2 = None
                         /\ at.r2 # None => v \in Wide /\ at.r1 # at.r2
                         /\ v \in Wide /\ at.r1 # None => at.r2 # None
  /\ pinned = {}

\* A variable keeps a register only while it has a next use in the block, so at
\* the end of a block all registers are empty.
RegistersForNextUse == \A v \in Vars : InReg(cg, v) => fut[v] = "next"

\* A temporary never has two slots, and the slot of a temporary that dies is free
\* again: the frame does not grow for values that are gone.
SlotsReclaimed ==
  /\ \A j, k \in DOMAIN temp_list : temp_list[j] = temp_list[k] /\ temp_list[j] # NoVar => j = k
  /\ \A k \in DOMAIN temp_list : temp_list[k] # NoVar => fut[temp_list[k]] # "dead"

\* A callee-save register that the emitted code changes is saved in the function's
\* prologue.  arm_cgen.c is not held to it: it moves the results of calls to r4 and
\* r5 without marking them.  Nor is x64_pre_call() with a structure of more than 16 bytes
\* ("big_args"), which changes R12 and R13.
CalleeSaved == target # "arm" => written \subseteq modified
=============================================================================
