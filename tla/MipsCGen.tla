------------------------------ MODULE MipsCGen ------------------------------
(***************************************************************************)
(* mips_cgen.c: the helpers on the descriptors and the instruction         *)
(* handlers.  Variables live in $2, $3, $8-$15 and $24, none of which the  *)
(* callee keeps; $4-$7 carry arguments, $2 and $3 results, and $25 is a    *)
(* scratch register.                                                       *)
(***************************************************************************)
EXTENDS CGen

CONSTANT MipsPool    \* the registers that get_reg0() may give out

Scratch == 25
FirstArg == 4
MipsArgs == 4 .. 7

ASSUME MipsAssumption ==
  /\ MipsPool \subseteq {2, 3, 24} \cup (8 .. 15) /\ {2, 3} \subseteq MipsPool
  /\ MipsPool \cup MipsArgs \cup {Scratch} \subseteq Regs

mips_load_addr(m, r, a) == SetReg(m, r, {<<a, 0>>})
mips_load(m, r, a) == Load(m, r, a)
mips_load2(m, r, a) == Load2(m, r, a)

\* __lux_mips_memcpy changes no register; its arguments are stored through the
\* scratch register.
mips_memcpy(m, src, dst) == Clobber([m EXCEPT !.M = Copied(@, src, dst)], {Scratch})

mips_store(m, r, a) ==
  IF a \in Structs \cap Ids THEN mips_memcpy(m, PointedBy(m, r), {a})
  ELSE ToHome(WithHome(m, a), r, a, 1)
mips_store2(m, r, a) == Store2(m, r, a)

mips_StoreVar(m, a) ==
  IF addr_reg2(m, a) # None THEN mips_store2(m, m.addr[a], a) ELSE mips_store(m, addr_reg1(m, a), a)
mips_spill_reg(m, r) == SpillReg(m, r, mips_StoreVar)
mips_spill_all(m) == SpillThese(m, Vars, mips_spill_reg)
mips_spill_aliased_objects(m) == SpillThese(m, Aliased, mips_spill_reg)

mips_Take(m, r) == [mips_spill_reg(m, r) EXCEPT !.got = r]
mips_get_reg0(m) ==
  IF MipsPool \subseteq m.pinned THEN Fault([m EXCEPT !.got = 2], "assert", FALSE)
  ELSE mips_Take(m, Min(IF EmptyRegs(m, MipsPool) \subseteq m.pinned
                          THEN MipsPool \ m.pinned ELSE EmptyRegs(m, MipsPool) \ m.pinned))

mips_get_reg(m, arg1, arg1_liveness) == GetReg(m, arg1, arg1_liveness, mips_get_reg0)

mips_get_reg2(m, arg1, arg1_liveness) == GetReg2(m, arg1, arg1_liveness, mips_get_reg0)

mips_LoadGot(m, a) == mips_load(m, m.got, a)

\* imm: the constant fits the 16 bits of an instruction that takes one.
mips_get_operand(m, a, imm) ==
  IF a = Const /\ imm THEN Operand(m, {<<Const, 1>>})
  ELSE IF InReg(m, a) THEN Operand(m, m.R[addr_reg1(m, a)])
  ELSE InGot(mips_LoadGot(mips_get_reg0(m), a))

\* The registers of a 64-bit operand, m.res being kept for the result.
mips_LoadPair(m, res, a) == [mips_load2(m, m.res, a) EXCEPT !.opd = m.res, !.res = res]
mips_get_operand2(m, a) ==
  IF InReg(m, a)
    THEN Fault(Operand(m, m.addr[a]), "assert", addr_reg2(m, a) # None)
    ELSE mips_LoadPair(GetReg2(m, Const, TRUE, mips_get_reg0), m.res, a)

mips_update_arg_descriptors(m, arg, liveness, next_use) ==
  UpdateArg(m, arg, liveness, next_use, mips_StoreVar)
mips_update_tar_descriptors(m, r, tar, liveness, next_use) ==
  UpdateTar(m, r, tar, liveness, next_use, mips_store)
mips_update_tar_descriptors2(m, r, tar, liveness, next_use) ==
  UpdateTar2(m, r, tar, liveness, next_use, mips_store2)

mips_update_args(n, tar, a1, a2) == UpdateArgs(n, tar, a1, a2, mips_update_arg_descriptors)
mips_update_tar(n, tar) ==
  mips_update_tar_descriptors(n, n.res.r1, tar, Live(n, tar), Used(n, tar))
mips_update_tar2(n, tar) ==
  mips_update_tar_descriptors2(n, n.res, tar, Live(n, tar), Used(n, tar))
mips_UPDATE_ADDRESSES(n, tar, a1, a2) == mips_update_tar(mips_update_args(n, tar, a1, a2), tar)
mips_UPDATE_ADDRESSES2(n, tar, a1, a2) == mips_update_tar2(mips_update_args(n, tar, a1, a2), tar)

-----------------------------------------------------------------------------
\* get_reg() and a load, the beginning of most handlers, for one register and two.
mips_LoadRes(n, a) == mips_load(n, n.res.r1, a)
mips_LoadRes2(n, a) == RightIn2(mips_load2(n, n.res, a), n.res, a)
mips_Loaded(n, tar, a1) == mips_LoadRes(mips_get_reg(n, a1, Live1(n, tar, a1)), a1)
mips_Loaded2(n, tar, a1) == mips_LoadRes2(mips_get_reg2(n, a1, Live1(n, tar, a1)), a1)
mips_LoadedLow(n, tar, a1) == mips_LoadRes(mips_get_reg2(n, a1, Live1(n, tar, a1)), a1)
mips_InPlace(n, tar, a1) ==
  IF InReg(n, a1) THEN Into(n, addr_reg1(n, a1), None) ELSE mips_Loaded(n, tar, a1)
mips_InPlace2(n, tar, a1) ==
  IF InReg(n, a1) THEN [n EXCEPT !.res = n.addr[a1]] ELSE mips_Loaded2(n, tar, a1)

mips_OnOperands(n, a1, a2, imm) ==
  UnpinRes(RightRes(RightOpd(mips_get_operand(PinRes(n), a2, imm), a2, 1), a1))

\* mips_add(), mips_sub(), mips_mul(), mips_div(), mips_rem(), mips_shl(), mips_shr(),
\* mips_and(), mips_or(), mips_xor() and the relational operators.
mips_alu(tar, a1, a2, imm) ==
  /\ Enabled("mips", "alu")
  /\ \E m \in Marks(tar, {a1, a2}, {}) :
       LET m1 == mips_OnOperands(mips_Loaded(m, tar, a1), a1, a2, imm)
       IN  Commit(mips_UPDATE_ADDRESSES(Computes(m1, tar), tar, a1, a2))

mips_PinRes2(n) == pin_reg(PinRes(n), n.res.r2)
mips_UnpinRes2(n) == unpin_reg(UnpinRes(n), n.res.r2)
mips_Operands2(n, tar, a1, a2) == mips_get_operand2(mips_PinRes2(mips_Loaded2(n, tar, a1)), a2)
mips_ReadLow(n, a1, a2) == RightIn(RightRes(n, a1), n.opd.r1, a2, 1)
mips_ReadHigh(n, a1, a2) == RightIn(RightIn(n, n.res.r2, a1, 2), n.opd.r2, a2, 2)
mips_Result2(n, tar, a1, a2) ==
  mips_UPDATE_ADDRESSES2(Computes2(mips_UnpinRes2(n), tar), tar, a1, a2)

\* mips_and(), mips_or() and mips_xor() on 64-bit operands: word by word.
mips_LowWords(n, a1, a2) == Clobber(mips_ReadLow(n, a1, a2), {n.res.r1})
mips_logic2(tar, a1, a2) ==
  /\ Enabled("mips", "alu2")
  /\ \E m \in Marks(tar, {a1, a2}, {}) :
       LET m1 == mips_LowWords(mips_Operands2(m, tar, a1, a2), a1, a2)
       IN  Commit(mips_Result2(mips_ReadHigh(m1, a1, a2), tar, a1, a2))

\* mips_add(): the sum of the low words is compared with the second operand's low word
\* to find the carry, after the first operand's register has been changed.  When both
\* operands are the same dying variable that is one register.
mips_Carry(n, a2) == RightIn(n, n.opd.r1, a2, 1)
mips_add2(tar, a1, a2) ==
  /\ Enabled("mips", IF a1 = a2 THEN "self_add2" ELSE "alu2")
  /\ \E m \in Marks(tar, {a1, a2}, {}) :
       LET m1 == mips_LowWords(mips_Operands2(m, tar, a1, a2), a1, a2)
           m2 == Clobber(mips_Carry(m1, a2), {Scratch})
       IN  Commit(mips_Result2(mips_ReadHigh(m2, a1, a2), tar, a1, a2))

\* mips_sub(): the difference is put together in the scratch register and the borrow in
\* a register of its own.
mips_Borrow(n) == pin_reg(n, n.got)
mips_sub2(tar, a1, a2) ==
  /\ Enabled("mips", "alu2")
  /\ \E m \in Marks(tar, {a1, a2}, {}) :
       LET m1 == mips_Borrow(mips_get_reg0(mips_PinRes2(mips_Loaded2(m, tar, a1))))
           m2 == mips_ReadLow(mips_get_operand2(m1, a2), a1, a2)
           m3 == Clobber(m2, {Scratch, m1.got, m2.res.r1})
       IN  Commit(mips_Result2(unpin_reg(mips_ReadHigh(m3, a1, a2), m1.got), tar, a1, a2))

\* Calls to library functions.  The argument registers in use, of a call that is being
\* prepared, are saved before and restored after them.
mips_save_arg_regs(n) == {r \in MipsArgs : r - FirstArg < n.args}
\* Mutant: the argument registers are not restored.
mips_restore_arg_regs_mut(n, before) == n

mips_restore_arg_regs(n, before) ==
  [n EXCEPT !.R = [r \in Regs |-> IF r \in mips_save_arg_regs(before) THEN before.R[r] ELSE @[r]]]
MipsCallerSave == (2 .. 15) \cup {24, Scratch}
mips_LibCall(n, before) == mips_restore_arg_regs(Clobber(mips_spill_all(n), MipsCallerSave), before)
mips_LoadArg(n, r, a) == RightIn(mips_load(n, r, a), r, a, 1)
mips_LoadArg2(n, r, a) == RightIn2(mips_load2(n, r, a), r, a)

\* mips_do_libcall(): the result is $2:$3 for arithmetic, $2 for relations and `!'
\* (a2 is Const there).  The count of a shift is a 32-bit operand.
mips_do_libcall(tar, a1, a2) ==
  /\ Enabled("mips", "do_libcall")
  /\ \E m \in Marks(tar, {a1, a2}, {}) :
       LET m1 == mips_LoadArg2(m, Pair(4, 5), a1)
           m2 == IF a2 \in Wide \cup {Const} THEN mips_LoadArg2(m1, Pair(6, 7), a2)
                                            ELSE mips_LoadArg(m1, 6, a2)
           m3 == mips_LibCall(m2, m)
       IN  IF tar \in Wide
             THEN Commit(mips_UPDATE_ADDRESSES2(Computes2(Into(m3, 2, 3), tar), tar, a1, a2))
             ELSE Commit(mips_UPDATE_ADDRESSES(Computes(Into(m3, 2, None), tar), tar, a1, a2))

\* mips_neg(), mips_cmpl(), mips_not(), mips_ch(), mips_uch(), mips_sh() and mips_ush().
mips_unary(tar, a1) ==
  /\ Enabled("mips", "unary")
  /\ \E m \in Marks(tar, {a1}, {}) :
       LET m1 == RightRes(mips_Loaded(m, tar, a1), a1)
       IN  Commit(mips_UPDATE_ADDRESSES(Computes(m1, tar), tar, a1, Const))

\* mips_neg() and mips_cmpl() on 64-bit operands.
mips_unary2(tar, a1) ==
  /\ Enabled("mips", "unary2")
  /\ \E m \in Marks(tar, {a1}, {}) :
       Commit(mips_UPDATE_ADDRESSES2(Computes2(mips_Loaded2(m, tar, a1), tar), tar, a1, Const))

\* mips_llsx() and mips_llzx().
mips_llx(tar, a1) ==
  /\ Enabled("mips", "llx")
  /\ \E m \in Marks(tar, {a1}, {}) :
       LET m1 == RightRes(mips_LoadedLow(m, tar, a1), a1)
       IN  Commit(mips_UPDATE_ADDRESSES2(Computes2(m1, tar), tar, a1, Const))

mips_addr_of(tar) ==
  /\ Enabled("mips", "addr_of")
  /\ \E m \in Marks(tar, {}, {}) : Commit(mips_update_tar(Computes(Got1(mips_get_reg0(m)), tar), tar))

mips_asn(tar, a1) ==
  /\ Enabled("mips", "asn")
  /\ \E m \in Marks(tar, {a1}, {}) :
       IF tar \in Wide
         THEN Commit(mips_UPDATE_ADDRESSES2(Copies(mips_Loaded2(m, tar, a1), tar, a1), tar, a1, Const))
         ELSE Commit(mips_UPDATE_ADDRESSES(Copies(RightRes(mips_Loaded(m, tar, a1), a1), tar, a1),
                                          tar, a1, Const))

-----------------------------------------------------------------------------
mips_ind(tar, a1) ==
  /\ Enabled("mips", "ind")
  /\ \E m \in Marks(tar, {a1}, AddrTaken) :
       LET m1 == mips_spill_aliased_objects(m)
           word == ReadsMemory(RightRes(mips_Loaded(m1, tar, a1), a1), Pointed)
           pair == ReadsMemory(RightRes(mips_LoadedLow(m1, tar, a1), a1), Pointed)
       IN  \/ tar \in Wide /\ Commit(mips_UPDATE_ADDRESSES2(Computes2(pair, tar), tar, a1, Const))
           \/ tar \in Structs /\ Commit(mips_UPDATE_ADDRESSES(ComputesAt(word, tar, Far), tar, a1, Const))
           \/ /\ tar \notin Wide \cup Structs
              /\ Commit(mips_UPDATE_ADDRESSES(Computes(word, tar), tar, a1, Const))

\* The pointer is pinned only if it has just been loaded; constants are stored
\* through the scratch register.
mips_Pointer(n, a1) ==
  IF InReg(n, a1) THEN Into(n, addr_reg1(n, a1), None) ELSE PinRes(mips_Loaded(n, NoVar, a1))
mips_StoredWord(n, a2) ==
  IF a2 = Const THEN mips_LoadArg(n, Scratch, a2)
  ELSE IF InReg(n, a2) THEN RightIn(n, addr_reg1(n, a2), a2, 1)
  ELSE RightOpd(InGot(mips_LoadGot(mips_get_reg0(n), a2)), a2, 1)
mips_ReadPair(n, a2) == RightIn2(n, n.opd, a2)
mips_StoredPair(n, a2) ==
  IF a2 = Const THEN Clobber(n, {Scratch}) ELSE mips_ReadPair(mips_get_operand2(n, a2), a2)
mips_PointerRight(n, a1) == UnpinRes(RightRes(n, a1))
mips_StoredStruct(n, a1, a2) ==
  Clobber(mips_LoadArg(mips_LoadArg(n, Scratch, a1), Scratch, a2), {Scratch})

mips_ind_asn(a1, a2) ==
  /\ Enabled("mips", "ind_asn")
  /\ \E m \in Marks(NoVar, {a1, a2}, {}) :
       LET Done(n) == Commit(mips_update_args(WritesMemory(n, Pointed), NoVar, a1, a2))
           m1 == mips_spill_aliased_objects(m)
       IN  \/ a2 \in Structs /\ Done(mips_StoredStruct(m1, a1, a2))
           \/ a2 \in Wide /\ Done(mips_PointerRight(mips_StoredPair(mips_Pointer(m1, a1), a2), a1))
           \/ /\ a2 \notin Structs \cup Wide
              /\ Done(mips_PointerRight(mips_StoredWord(mips_Pointer(m1, a1), a2), a1))

\* mips_call() and mips_indcall(): the value, or the address of the frame's area that
\* holds it, is in $2 (and $3).  mips_post_call() forgets the arguments.
mips_post_call(n) == [n EXCEPT !.args = 0, !.passed = {}]
mips_Returned(n, tar) ==
  IF tar \in Wide THEN mips_update_tar2(Computes2(Into(n, 2, 3), tar), tar)
  ELSE IF tar \in Structs
    THEN mips_update_tar(ComputesAt([Into(n, 2, None) EXCEPT !.M[Area][1] = {}], tar, Area), tar)
  ELSE IF tar \in Vars THEN mips_update_tar(Computes(Into(n, 2, None), tar), tar)
  ELSE n
mips_Call(n) == mips_post_call(Called(FindsArguments(n, FirstArg), MipsCallerSave))

mips_call(tar) ==
  /\ Enabled("mips", "call")
  /\ \E m \in Marks(tar, {}, AddrTaken \cup Statics) : Commit(mips_Returned(mips_Call(mips_spill_all(m)), tar))

mips_indcall(tar, a1) ==
  /\ Enabled("mips", "indcall")
  /\ \E m \in Marks(tar, {a1}, AddrTaken \cup Statics) :
       LET m1 == mips_Call(RightOpd(mips_get_operand(mips_spill_all(m), a1, FALSE), a1, 1))
       IN  Commit(mips_Returned(mips_update_args(m1, tar, a1, Const), tar))

-----------------------------------------------------------------------------
\* mips_arg(): the words of an argument go to $4-$7 while there is one left, the others
\* to the stack.  A 64-bit argument takes an even word and the next one, or the
\* stack; a structure may be divided between both.
mips_Words(n, first, k) == [n EXCEPT !.args = first + k]
mips_ArgWord(n, a1) ==
  IF n.args < 4 THEN Passes(mips_LoadArg(n, FirstArg + n.args, a1), FirstArg + n.args, n.args)
  ELSE IF InReg(n, a1) THEN RightIn(n, addr_reg1(n, a1), a1, 1)
  ELSE mips_LoadArg(n, Scratch, a1)
mips_ArgPair(n, k, a1) ==
  IF k < 4 THEN Passes(Passes(mips_LoadArg2(n, Pair(FirstArg + k, FirstArg + k + 1), a1),
                              FirstArg + k, k), FirstArg + k + 1, k + 1)
           ELSE mips_ReadPair(mips_get_operand2(n, a1), a1)
\* Mutant: the words of a structure start at $4 whatever is there.
mips_ArgStruct_mut(n, k, size, a1) ==
  Passes(mips_LoadArg(n, Scratch, a1), FirstArg, k)

mips_ArgStruct(n, k, size, a1) ==
  LET m1 == mips_LoadArg(n, Scratch, a1)
  IN  IF k + size <= 4 THEN PassesWords(m1, FirstArg, k .. k + size - 1)
                       ELSE Clobber(PassesWords(m1, FirstArg, k .. 3), {Scratch})

mips_arg(a1, size, align) ==
  /\ Enabled("mips", "arg")
  /\ \E m \in Marks(NoVar, {a1}, {}) :
       LET k == RoundUp(arg_words, IF a1 \in Wide THEN 2 ELSE align)
           m1 == IF a1 \in Structs THEN mips_Words(mips_ArgStruct(m, k, size, a1), k, size)
                 ELSE IF a1 \in Wide THEN mips_Words(mips_ArgPair(m, k, a1), k, 2)
                 ELSE mips_Words(mips_ArgWord(m, a1), arg_words, 1)
       IN  arg_words < MaxArgs /\ Commit(mips_update_args(m1, NoVar, a1, Const))

\* The first argument of a structure-valued call is the address of the area.
mips_arg_area ==
  /\ Enabled("mips", "arg") /\ arg_words = 0 /\ Structs # {} /\ MaxArgs > 0
  /\ \E m \in Marks(NoVar, {}, {}) : Commit(mips_Words(Passes(m, FirstArg, 0), 0, 1))

\* mips_ret(): a structure is copied to where the caller wants it.
mips_ReturnStruct(n, a1) ==
  Clobber(mips_LoadArg(n, Scratch, a1), {Scratch, 2})
mips_ret(a1) ==
  /\ Enabled("mips", IF a1 \in Wide THEN "ret2" ELSE "ret") /\ arg_words = 0
  /\ \E m \in Marks(NoVar, {a1}, {}) :
       LET m1 == IF a1 \in Wide THEN mips_LoadArg2(m, Pair(2, 3), a1)
                 ELSE IF a1 \in Structs THEN mips_ReturnStruct(m, a1)
                 ELSE mips_LoadArg(m, 2, a1)
       IN  LastOfBlock(m) /\ Commit(mips_update_args(m1, NoVar, a1, Const))

mips_OrWords(n) == Clobber(n, {n.res.r1})
mips_cbr(a1) ==
  /\ Enabled("mips", "cbr")
  /\ \E m \in Marks(NoVar, {a1}, {}) :
       LET m1 == IF a1 \in Wide THEN mips_OrWords(mips_Loaded2(m, NoVar, a1))
                                ELSE RightRes(mips_Loaded(m, NoVar, a1), a1)
       IN  LastOfBlock(m) /\ Commit(mips_update_args(m1, NoVar, a1, Const))

\* mips_switch() and mips_do_switch64(): the value is compared after its variable has
\* given up the register, and a jump table changes the register.
mips_Compare(n, a1) == Clobber(RightRes(n, a1), {n.res.r1})
mips_Compare2(n, a1) == RightIn2(n, n.res, a1)
mips_switch(a1) ==
  /\ Enabled("mips", "switch")
  /\ \E m \in Marks(NoVar, {a1}, {}) :
       /\ LastOfBlock(m)
       /\ IF a1 \in Wide
            THEN Commit(mips_Compare2(mips_update_args(mips_InPlace2(m, NoVar, a1), NoVar, a1, Const), a1))
            ELSE Commit(mips_Compare(mips_update_args(mips_InPlace(m, NoVar, a1), NoVar, a1, Const), a1))

\* mips_lab(), mips_jmp(): nothing changes in the tables.
mips_next_block ==
  /\ Enabled("mips", "next_block") /\ LastOfBlock(cg)
  /\ Entry(cg, {v \in Temps : fut[v] = "live"})

\* The end of mips_function_definition(): the pins are not reset.
mips_function_definition ==
  /\ Enabled("mips", "function_definition") /\ LastOfBlock(cg) /\ arg_words = 0
  /\ Entry([cg EXCEPT !.reg = [r \in Regs |-> NoVar], !.addr = [v \in Vars |-> NoReg],
                      !.temps = <<>>], {})

mips_Next ==
  \/ \E t \in WordTemps, p \in Ops2 :
       \E imm \in Kinds(p[2]) : mips_alu(t, p[1], p[2], imm)
  \/ \E t \in WideTemps, p \in WideOps :
       mips_add2(t, p[1], p[2]) \/ mips_sub2(t, p[1], p[2]) \/ mips_logic2(t, p[1], p[2])
  \/ \E t \in WordTemps \cup WideTemps, p \in WideOps : mips_do_libcall(t, p[1], p[2])
  \/ \E t \in WideTemps, a \in Wide, c \in Scalars \ Wide : mips_do_libcall(t, a, c)
  \/ \E t \in WordTemps, a \in Scalars : mips_unary(t, a)
  \/ \E t \in WideTemps : \/ \E a \in Wide : mips_unary2(t, a)
                          \/ \E a \in Scalars \ Wide : mips_llx(t, a)
  \/ \E t \in WordTemps : mips_addr_of(t)
  \/ \E t \in Wide, a \in Wide \cup {Const} : mips_asn(t, a)
  \/ \E t \in Scalars \ Wide, a \in Scalars \cup {Const} : mips_asn(t, a)
  \/ \E t \in Structs, a \in Structs : mips_asn(t, a)
  \/ \E t \in Temps, a \in Pointers : mips_ind(t, a)
  \/ \E a \in Pointers, b \in Vars \cup {Const} : mips_ind_asn(a, b)
  \/ \E t \in Temps \cup {NoVar} : mips_call(t) \/ \E a \in Pointers : mips_indcall(t, a)
  \/ \E a \in Vars : mips_ret(a) \/ \E s \in StructKinds : mips_arg(a, s[1], s[2])
  \/ mips_arg_area
  \/ \E a \in Scalars : mips_cbr(a) \/ mips_switch(a)
  \/ mips_next_block \/ mips_function_definition
=============================================================================
