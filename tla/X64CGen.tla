------------------------------ MODULE X64CGen ------------------------------
(***************************************************************************)
(* x64_cgen.c: the helpers on the descriptors and the instruction handlers.*)
(* Every variable fits one register, so there are no pairs; RCX, RSI and   *)
(* RDI have the numbers of ECX, ESI and EDI and copy structures the same   *)
(* way.                                                                    *)
(***************************************************************************)
EXTENDS CGen, X86Regs

CONSTANT X64Pool    \* the registers that get_reg0() may give out

RAX == 0
RBX == 1
RCX == 2
RDX == 3
RSI == 4
RDI == 5
R11 == 9
R12 == 10
R13 == 11

\* X64_NREG is 14; with fewer the register file is full sooner.
ASSUME X64Assumption ==
  /\ X64Pool \subseteq 0 .. 13 /\ X64Pool # {} /\ 0 .. 13 \subseteq Regs
  /\ "x64" \in Targets => Wide = {}

-----------------------------------------------------------------------------
x64_load_addr(m, r, a) == SetReg(m, r, {<<a, 0>>})
x64_load(m, r, a) == Load(m, r, a)

\* None of the registers that copy a structure is callee-save, so nothing is marked.
x64_PutSource(m, r) == IF r = RSI THEN m ELSE SetReg(m, RSI, m.R[r])
x64_PutTarget(m, a) == IF addr_reg1(m, a) = RDI THEN m ELSE x64_load_addr(m, RDI, a)
x64_store(m, r, a) ==
  IF a \in Structs \cap Ids
    THEN Copy(x64_PutTarget(x64_PutSource(m, r), a), m, r = RSI, addr_reg1(m, a) = RDI)
    ELSE ToHome(WithHome(m, a), r, a, 1)

x64_StoreVar(m, a) == x64_store(m, addr_reg1(m, a), a)
x64_spill_reg(m, r) == SpillReg(m, r, x64_StoreVar)
x64_spill_all(m) == SpillThese(m, Vars, x64_spill_reg)
x64_spill_aliased_objects(m) == SpillThese(m, Aliased, x64_spill_reg)

\* Of the modified[] flags only those of callee-save registers are ever read.
x64_Modified(m, r) == [m EXCEPT !.modified = @ \cup ({r} \cap CalleeSave["x64"])]
x64_Take(m, r) == [x64_spill_reg(x64_Modified(m, r), r) EXCEPT !.got = r]
x64_get_reg0(m) ==
  IF X64Pool \subseteq m.pinned THEN Fault([m EXCEPT !.got = RAX], "assert", FALSE)
  ELSE x64_Take(m, Min(IF EmptyRegs(m, X64Pool) \subseteq m.pinned
                         THEN X64Pool \ m.pinned ELSE EmptyRegs(m, X64Pool) \ m.pinned))

x64_get_reg(m, arg1, arg1_liveness) == GetReg(m, arg1, arg1_liveness, x64_get_reg0)

\* x64_get_operand32() and x64_get_operand64(): a variable narrower than the operation,
\* a string literal and a constant that needs 64 bits (long) go to a register.
x64_LoadGot(m, a) == x64_load(m, m.got, a)
x64_get_operand(m, a, long) ==
  IF InReg(m, a) THEN Operand(m, m.R[addr_reg1(m, a)])
  ELSE IF a \in Bytes \/ (a = Const /\ long) THEN InGot(x64_LoadGot(x64_get_reg0(m), a))
  ELSE IF a = Const THEN Operand(m, {<<Const, 1>>})
  ELSE InHome(WithHome(m, a), a, 1)

x64_update_arg_descriptors(m, arg, liveness, next_use) ==
  UpdateArg(m, arg, liveness, next_use, x64_StoreVar)
x64_update_tar_descriptors(m, r, tar, liveness, next_use) ==
  UpdateTar(m, r, tar, liveness, next_use, x64_store)

x64_update_args(n, tar, a1, a2) == UpdateArgs(n, tar, a1, a2, x64_update_arg_descriptors)
x64_update_tar(n, tar) ==
  x64_update_tar_descriptors(n, n.res.r1, tar, Live(n, tar), Used(n, tar))
x64_UPDATE_ADDRESSES(n, tar, a1, a2) == x64_update_tar(x64_update_args(n, tar, a1, a2), tar)

-----------------------------------------------------------------------------
x64_LoadRes(n, a) == x64_load(n, n.res.r1, a)
x64_LoadRight(n, r, a) == RightIn(x64_load(n, r, a), r, a, 1)
x64_Loaded(n, tar, a1) == x64_LoadRes(x64_get_reg(n, a1, Live1(n, tar, a1)), a1)
x64_InPlace(n, tar, a1) ==
  IF InReg(n, a1) THEN Into(n, addr_reg1(n, a1), None) ELSE x64_Loaded(n, tar, a1)
x64_OnOperands(n, a1, a2, long) ==
  UnpinRes(RightRes(RightOpd(x64_get_operand(PinRes(n), a2, long), a2, 1), a1))

\* x64_add(), x64_sub() and x64_mul(); x64_and(), x64_or() and x64_xor() are the same.
x64_alu(tar, a1, a2, long) ==
  /\ Enabled("x64", "alu")
  /\ \E m \in Marks(tar, {a1, a2}, {}) :
       LET m1 == x64_OnOperands(x64_Loaded(m, tar, a1), a1, a2, long)
       IN  Commit(x64_UPDATE_ADDRESSES(Computes(m1, tar), tar, a1, a2))

\* x64_div_rem(): the operands go to RAX and RDX whatever get_reg() says.
x64_Dividend(n) == IF n.res.r1 # RAX THEN x64_spill_reg(n, RAX) ELSE n
x64_Divisor(n, a2) ==
  IF a2 = Const THEN RightOpd(InGot(x64_LoadGot(x64_get_reg0(n), a2)), a2, 1)
                ELSE RightOpd(x64_get_operand(n, a2, FALSE), a2, 1)
x64_div_rem(res, tar, a1, a2) ==
  /\ Enabled("x64", "div_rem")
  /\ \E m \in Marks(tar, {a1, a2}, {}) :
       LET m1 == x64_Dividend(x64_get_reg(m, a1, Live1(m, tar, a1)))
           m2 == pin_reg(x64_load(m1, RAX, a1), RAX)
           m3 == Clobber(pin_reg(x64_spill_reg(m2, RDX), RDX), {RDX})
           m4 == Clobber(RightIn(x64_Divisor(m3, a2), RAX, a1, 1), {RAX, RDX})
           m5 == Into(unpin_reg(unpin_reg(m4, RAX), RDX), res, None)
       IN  Commit(x64_UPDATE_ADDRESSES(Computes(m5, tar), tar, a1, a2))

\* x64_shl() and x64_shr(): the count goes to RCX, which stays pinned.
x64_Count(n, a2) ==
  IF InReg(n, a2) /\ addr_reg1(n, a2) = RCX THEN n ELSE x64_load(x64_spill_reg(n, RCX), RCX, a2)
x64_shift(tar, a1, a2) ==
  /\ Enabled("x64", "shift")
  /\ \E m \in Marks(tar, {a1, a2}, {}) :
       LET m1 == x64_Loaded(pin_reg(x64_Count(m, a2), RCX), tar, a1)
           m2 == IF a2 = Const THEN x64_Loaded(m, tar, a1) ELSE unpin_reg(RightIn(m1, RCX, a2, 1), RCX)
       IN  Commit(x64_UPDATE_ADDRESSES(Computes(RightRes(m2, a1), tar), tar, a1, a2))

\* The relational operators when they decide a jump, with do_relop_jump().  With
\* IC_STORE they are like x64_alu(): every register has a low byte for `setcc'.
x64_relop_jump(a1, a2, long) ==
  /\ Enabled("x64", "relop_jump")
  /\ \E m \in Marks(NoVar, {a1, a2}, {}) :
       LET m1 == x64_OnOperands(x64_InPlace(m, NoVar, a1), a1, a2, long)
       IN  LastOfBlock(m) /\ Commit(x64_update_args(m1, NoVar, a1, a2))

\* x64_neg(), x64_cmpl(), x64_not(), x64_ch(), x64_uch(), x64_sh(), x64_ush(),
\* x64_llsx() and x64_llzx().
x64_unary(tar, a1) ==
  /\ Enabled("x64", "unary")
  /\ \E m \in Marks(tar, {a1}, {}) :
       LET m1 == RightRes(x64_Loaded(m, tar, a1), a1)
       IN  Commit(x64_UPDATE_ADDRESSES(Computes(m1, tar), tar, a1, Const))

x64_addr_of(tar) ==
  /\ Enabled("x64", "addr_of")
  /\ \E m \in Marks(tar, {}, {}) : Commit(x64_update_tar(Computes(Got1(x64_get_reg0(m)), tar), tar))

x64_asn(tar, a1) ==
  /\ Enabled("x64", "asn")
  /\ \E m \in Marks(tar, {a1}, {}) :
       LET m1 == RightRes(x64_Loaded(m, tar, a1), a1)
       IN  Commit(x64_UPDATE_ADDRESSES(Copies(m1, tar, a1), tar, a1, Const))

-----------------------------------------------------------------------------
x64_ind(tar, a1) ==
  /\ Enabled("x64", "ind")
  /\ \E m \in Marks(tar, {a1}, AddrTaken) :
       LET m1 == RightRes(x64_Loaded(x64_spill_aliased_objects(m), tar, a1), a1)
           m2 == ReadsMemory(m1, Pointed)
       IN  Commit(x64_UPDATE_ADDRESSES(IF tar \in Structs THEN ComputesAt(m2, tar, Far)
                                                          ELSE Computes(m2, tar), tar, a1, Const))

\* The pointer is pinned only if it has just been loaded, though a constant qword goes
\* through a register, too (the test for a short one compares INT_MIN with itself).
x64_Pointer(n, a1) ==
  IF InReg(n, a1) THEN Into(n, addr_reg1(n, a1), None) ELSE PinRes(x64_Loaded(n, NoVar, a1))
x64_StoredWord(n, a2, qword) ==
  IF a2 = Const /\ ~qword THEN n
  ELSE IF InReg(n, a2) THEN RightIn(n, addr_reg1(n, a2), a2, 1)
  ELSE RightOpd(InGot(x64_LoadGot(x64_get_reg0(n), a2)), a2, 1)
x64_PointerRight(n, a1) == UnpinRes(RightRes(n, a1))

x64_ToSource(n, a) == IF addr_reg1(n, a) = RSI THEN n ELSE x64_load(n, RSI, a)
x64_ToTarget(n, a) == IF addr_reg1(n, a) = RDI THEN n ELSE x64_load(n, RDI, a)
x64_StoredStruct(n, a1, a2) ==
  Copy(RightIn(RightIn(x64_ToTarget(x64_ToSource(n, a2), a1), RSI, a2, 1), RDI, a1, 1), n,
       addr_reg1(n, a2) = RSI, addr_reg1(n, a1) = RDI)

\* See PointerMoved of X86CGen.
x64_PointerMoved(a1, a2) == a2 \in Structs /\ addr_reg1(cg, a1) = RDI /\ fut'[a1] # "dead"

x64_ind_asn(a1, a2, qword) ==
  /\ Enabled("x64", "ind_asn")
  /\ qword => a2 # Const \/ "ind_asn_const" \in Handlers
  /\ \E m \in Marks(NoVar, {a1, a2}, {}) :
       LET m1 == x64_spill_aliased_objects(m)
           m2 == IF a2 \in Structs THEN x64_StoredStruct(m1, a1, a2)
                 ELSE x64_PointerRight(x64_StoredWord(x64_Pointer(m1, a1), a2, qword), a1)
       IN  Commit(x64_update_args(WritesMemory(m2, Pointed), NoVar, a1, a2))
  /\ x64_PointerMoved(a1, a2) => "ind_asn_edi" \in Handlers

-----------------------------------------------------------------------------
X64CallerSave == {RAX, RCX, RDX, RSI, RDI} \cup (6 .. 9)

\* x64_pre_call(): the arguments were pushed; those that fit are copied to argument
\* registers, and the others pushed again.  A structure of more than
\* 16 bytes among the latter is copied with RDI, RSI and RCX kept in R11, R12 and R13.
x64_pre_call(n, big) == Clobber(x64_spill_all(n), IF big THEN {R11, R12, R13} ELSE {})
x64_post_call(n, nargs) == [n EXCEPT !.args = @ - nargs]

\* The value is in RAX; x64_post_call() stores a structure returned in registers in the
\* frame's area and leaves its address in RAX.
x64_Returned(n, tar) ==
  IF tar \in Structs
    THEN x64_update_tar(ComputesAt([Into(n, RAX, None) EXCEPT !.M[Area][1] = {}], tar, Area), tar)
  ELSE IF tar \in Vars THEN x64_update_tar(Computes(Into(n, RAX, None), tar), tar)
  ELSE n

\* Structures of more than 16 bytes are passed only where an instance says so.
BigArgs == IF "big_args" \in Handlers THEN BOOLEAN ELSE {FALSE}

x64_call(tar, nargs, big) ==
  /\ Enabled("x64", "call") /\ nargs <= arg_words
  /\ \E m \in Marks(tar, {}, AddrTaken \cup Statics) :
       LET m1 == Called(x64_pre_call(m, big), X64CallerSave)
       IN  Commit(x64_Returned(x64_post_call(m1, nargs), tar))

x64_indcall(tar, a1, nargs, big) ==
  /\ Enabled("x64", "indcall") /\ nargs <= arg_words
  /\ \E m \in Marks(tar, {a1}, AddrTaken \cup Statics) :
       LET m1 == RightOpd(x64_get_operand(x64_pre_call(m, big), a1, FALSE), a1, 1)
           m2 == x64_post_call(Called(m1, X64CallerSave), nargs)
       IN  Commit(x64_Returned(x64_update_args(m2, tar, a1, Const), tar))

\* x64_arg(): every argument is pushed.
x64_PushStruct(n, a1) ==
  Copy(Clobber(RightIn(x64_ToSource(n, a1), RSI, a1, 1), {RDI}), n, addr_reg1(n, a1) = RSI, FALSE)
x64_arg(a1, long) ==
  /\ Enabled("x64", "arg") /\ arg_words < MaxPushed
  /\ \E m \in Marks(NoVar, {a1}, {}) :
       LET m1 == IF a1 \in Structs THEN x64_PushStruct(m, a1)
                 ELSE RightOpd(x64_get_operand(m, a1, long), a1, 1)
       IN  Commit([x64_update_args(m1, NoVar, a1, Const) EXCEPT !.args = @ + 1])

\* x64_ret(): a structure is copied to where the caller wants it, or taken apart into
\* RAX and RDX: with moves (even), or through the stack.
x64_CopyOut(n) == rep_movsb(Clobber(x64_spill_reg(Clobber(x64_spill_reg(n, RDI), {RDI}), RCX), {RCX}))
x64_TakeApart(n, even) ==
  IF even THEN Clobber(n, {RAX, RDX})
  ELSE Clobber(x64_spill_reg(x64_spill_reg(x64_spill_reg(n, RSI), RDI), RCX),
               {RAX, RDX, RSI, RDI, RCX})
x64_ret(a1, small, even) ==
  /\ Enabled("x64", "ret")
  /\ \E m \in Marks(NoVar, {a1}, {}) :
       LET m1 == IF a1 \notin Structs THEN x64_LoadRight(m, RAX, a1)
                 ELSE IF small THEN x64_TakeApart(x64_LoadRight(m, RAX, a1), even)
                 ELSE x64_CopyOut(x64_LoadRight(m, RSI, a1))
       IN  LastOfBlock(m) /\ Commit(x64_update_args(m1, NoVar, a1, Const))

\* x64_compare_against_constant() and the jumps.
x64_Compared(n, a) ==
  RightOpd(IF InReg(n, a) THEN Operand(n, n.R[addr_reg1(n, a)]) ELSE InHome(WithHome(n, a), a, 1), a, 1)
x64_cbr(a1) ==
  /\ Enabled("x64", "cbr")
  /\ \E m \in Marks(NoVar, {a1}, {}) :
       LastOfBlock(m) /\ Commit(x64_update_args(x64_Compared(m, a1), NoVar, a1, Const))

\* x64_switch(): the value stays pinned after its variable has given up the register,
\* since the bounds of the jump table are loaded into two registers, a 64-bit case
\* value of the linear search into one.
x64_Bounds(n, k) ==
  LET m1 == IF k = 0 THEN n ELSE x64_get_reg0(n)
      m2 == Clobber(m1, {m1.got})
  IN  IF k = 0 THEN m1
      ELSE IF k = 1 THEN m2 ELSE unpin_reg(x64_get_reg0(pin_reg(m2, m1.got)), m1.got)
x64_switch(a1, k) ==
  /\ Enabled("x64", "switch")
  /\ \E m \in Marks(NoVar, {a1}, {}) :
       LET m1 == x64_update_args(PinRes(x64_InPlace(m, NoVar, a1)), NoVar, a1, Const)
           m2 == UnpinRes(RightRes(x64_Bounds(m1, k), a1))
       IN  LastOfBlock(m) /\ Commit(Clobber(m2, {m2.res.r1}))

\* x64_lab(), x64_jmp(): nothing changes in the tables.
x64_next_block ==
  /\ Enabled("x64", "next_block") /\ LastOfBlock(cg)
  /\ Entry(cg, {v \in Temps : fut[v] = "live"})

\* The end of x64_function_definition().
x64_function_definition ==
  Enabled("x64", "function_definition") /\ LastOfBlock(cg) /\ arg_words = 0 /\ NewFunction

x64_Next ==
  \/ \E t \in WordTemps, p \in Ops2 :
       \/ \E long \in Kinds(p[2]) : x64_alu(t, p[1], p[2], long)
       \/ x64_shift(t, p[1], p[2])
       \/ \E res \in {RAX, RDX} : x64_div_rem(res, t, p[1], p[2])
  \/ \E p \in Ops2 : \E long \in Kinds(p[2]) : x64_relop_jump(p[1], p[2], long)
  \/ \E t \in WordTemps, a \in Scalars : x64_unary(t, a)
  \/ \E t \in WordTemps : x64_addr_of(t)
  \/ \E t \in Scalars, a \in Scalars \cup {Const} : x64_asn(t, a)
  \/ \E t \in Structs, a \in Structs : x64_asn(t, a)
  \/ \E t \in Temps, a \in Pointers : x64_ind(t, a)
  \/ \E a \in Pointers, b \in Vars \cup {Const} : \E qword \in Kinds(b) : x64_ind_asn(a, b, qword)
  \/ \E t \in Temps \cup {NoVar}, n \in 0 .. MaxPushed, big \in BigArgs :
       x64_call(t, n, big) \/ \E a \in Pointers : x64_indcall(t, a, n, big)
  \/ \E a \in Vars \cup {Const} : \E long \in Kinds(a) : x64_arg(a, long)
  \/ \E a \in Vars, small, even \in BOOLEAN : x64_ret(a, small, even)
  \/ \E a \in Scalars : x64_cbr(a) \/ \E k \in 0 .. 2 : x64_switch(a, k)
  \/ x64_next_block \/ x64_function_definition
=============================================================================
