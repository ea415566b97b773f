------------------------------ MODULE ArmCGen ------------------------------
(***************************************************************************)
(* arm_cgen.c: the helpers on the descriptors and the instruction handlers.*)
(* Variables live in r4-r10 and r14; r0-r3 carry arguments and results and *)
(* r12 is a scratch register.  Every instruction works on registers only.  *)
(***************************************************************************)
EXTENDS CGen

CONSTANT ArmPool    \* the registers that get_reg0() may give out

SCRATCH_REG == 12
LinkReg == 14
ArmArgs == 0 .. 3

ASSUME ArmAssumption ==
  /\ ArmPool \subseteq (4 .. 10) \cup {LinkReg} /\ ArmPool # {}
  /\ (0 .. 10) \cup {SCRATCH_REG, LinkReg} \subseteq Regs

\* An offset that does not fit an instruction goes through the scratch register.
arm_load_addr(m, r, a) == SetReg(Clobber(m, {SCRATCH_REG}), r, {<<a, 0>>})
arm_load(m, r, a) == Load(m, r, a)
arm_load2(m, r, a) == Load2(Clobber(m, {SCRATCH_REG}), r, a)

\* __lux_arm_memcpy: changes no register but the link register of the `bl'.  Its
\* arguments are stored through the scratch register.
arm_memcpy(m, src, dst) ==
  Clobber([m EXCEPT !.M = Copied(@, src, dst)], {SCRATCH_REG, LinkReg})

arm_store(m, r, a) ==
  IF a \in Structs \cap Ids THEN arm_memcpy(m, PointedBy(m, r), {a})
  ELSE ToHome(WithHome(Clobber(m, {SCRATCH_REG}), a), r, a, 1)
arm_store2(m, r, a) == Store2(Clobber(m, {SCRATCH_REG}), r, a)

arm_StoreVar(m, a) ==
  IF addr_reg2(m, a) # None THEN arm_store2(m, m.addr[a], a) ELSE arm_store(m, addr_reg1(m, a), a)
arm_spill_reg(m, r) == SpillReg(m, r, arm_StoreVar)
arm_spill_all(m) == SpillThese(m, Vars, arm_spill_reg)
arm_spill_aliased_objects(m) == SpillThese(m, Aliased, arm_spill_reg)

\* The first loop of get_reg0() marks the register as modified, the second one, which
\* spills a register, expects it to be.
arm_TakeEmpty(m, r) == [m EXCEPT !.got = r, !.modified = @ \cup {r}]
arm_TakeUsed(m, r) == [arm_spill_reg(Fault(m, "modified", r \in m.modified), r) EXCEPT !.got = r]
arm_get_reg0(m) ==
  IF ArmPool \subseteq m.pinned THEN Fault([m EXCEPT !.got = 4], "assert", FALSE)
  ELSE IF EmptyRegs(m, ArmPool) \subseteq m.pinned
    THEN arm_TakeUsed(m, Min(ArmPool \ m.pinned))
    ELSE arm_TakeEmpty(m, Min(EmptyRegs(m, ArmPool) \ m.pinned))

arm_get_reg(m, arg1, arg1_liveness) == GetReg(m, arg1, arg1_liveness, arm_get_reg0)

\* The registers of `ldmia' and `stmia' are in ascending order.
arm_Ordered(m) ==
  IF m.res.r1 > m.res.r2 THEN [m EXCEPT !.res = Pair(m.res.r2, m.res.r1)] ELSE m
arm_get_reg2(m, arg1, arg1_liveness) ==
  arm_Ordered(GetReg2(m, arg1, arg1_liveness, arm_get_reg0))

arm_LoadGot(m, a) == arm_load(m, m.got, a)

\* imm: the constant is_representable_in_imm12() and the instruction takes one.
arm_get_operand(m, a, imm) ==
  IF a = Const /\ imm THEN Operand(m, {<<Const, 1>>})
  ELSE IF InReg(m, a) THEN Operand(m, m.R[addr_reg1(m, a)])
  ELSE InGot(arm_LoadGot(arm_get_reg0(m), a))

\* The registers of a 64-bit operand, m.res being kept for the result.
arm_LoadPair(m, res, a) == [arm_load2(m, m.res, a) EXCEPT !.opd = m.res, !.res = res]
arm_get_operand2(m, a) ==
  IF InReg(m, a)
    THEN Fault(Operand(m, m.addr[a]), "assert", addr_reg2(m, a) # None)
    ELSE arm_LoadPair(GetReg2(m, Const, TRUE, arm_get_reg0), m.res, a)

\* Mutant: a live variable that has no next use is not stored.
arm_update_arg_descriptors_mut(m, arg, liveness, next_use) ==
  UpdateArg(m, arg, FALSE, next_use, arm_StoreVar)

arm_update_arg_descriptors(m, arg, liveness, next_use) ==
  UpdateArg(m, arg, liveness, next_use, arm_StoreVar)
arm_update_tar_descriptors(m, r, tar, liveness, next_use) ==
  UpdateTar(m, r, tar, liveness, next_use, arm_store)
arm_update_tar_descriptors2(m, r, tar, liveness, next_use) ==
  UpdateTar2(m, r, tar, liveness, next_use, arm_store2)

arm_update_args(n, tar, a1, a2) == UpdateArgs(n, tar, a1, a2, arm_update_arg_descriptors)
arm_update_tar(n, tar) ==
  arm_update_tar_descriptors(n, n.res.r1, tar, Live(n, tar), Used(n, tar))
arm_update_tar2(n, tar) ==
  arm_update_tar_descriptors2(n, n.res, tar, Live(n, tar), Used(n, tar))
arm_UPDATE_ADDRESSES(n, tar, a1, a2) == arm_update_tar(arm_update_args(n, tar, a1, a2), tar)
arm_UPDATE_ADDRESSES2(n, tar, a1, a2) == arm_update_tar2(arm_update_args(n, tar, a1, a2), tar)

-----------------------------------------------------------------------------
\* get_reg() and a load, the beginning of most handlers, for one register and two.
arm_LoadRes(n, a) == arm_load(n, n.res.r1, a)
arm_LoadRes2(n, a) == RightIn2(arm_load2(n, n.res, a), n.res, a)
arm_Loaded(n, tar, a1) == arm_LoadRes(arm_get_reg(n, a1, Live1(n, tar, a1)), a1)
arm_Loaded2(n, tar, a1) == arm_LoadRes2(arm_get_reg2(n, a1, Live1(n, tar, a1)), a1)
arm_LoadedLow(n, tar, a1) == arm_LoadRes(arm_get_reg2(n, a1, Live1(n, tar, a1)), a1)
arm_InPlace(n, tar, a1) ==
  IF InReg(n, a1) THEN Into(n, addr_reg1(n, a1), None) ELSE arm_Loaded(n, tar, a1)
arm_InPlace2(n, tar, a1) ==
  IF InReg(n, a1) THEN [n EXCEPT !.res = n.addr[a1]] ELSE arm_Loaded2(n, tar, a1)

arm_OnOperands(n, a1, a2, imm) ==
  UnpinRes(RightRes(RightOpd(arm_get_operand(PinRes(n), a2, imm), a2, 1), a1))

\* arm_add(), arm_sub(), arm_mul(), arm_shl(), arm_shr(), arm_and(), arm_or(),
\* arm_xor(), and the relational operators when their value is wanted (IC_STORE).
arm_alu(tar, a1, a2, imm) ==
  /\ Enabled("arm", "alu")
  /\ \E m \in Marks(tar, {a1, a2}, {}) :
       LET m1 == arm_OnOperands(arm_Loaded(m, tar, a1), a1, a2, imm)
       IN  Commit(arm_UPDATE_ADDRESSES(Computes(m1, tar), tar, a1, a2))

\* The same on 64-bit operands: the low words are combined before the high words.
\* Mutant: only the first register of the result is pinned.
arm_PinRes2_mut(n) == PinRes(n)

arm_PinRes2(n) == pin_reg(PinRes(n), n.res.r2)
arm_UnpinRes2(n) == unpin_reg(UnpinRes(n), n.res.r2)
arm_LowWords(n, a1, a2) == Clobber(RightIn(RightRes(n, a1), n.opd.r1, a2, 1), {n.res.r1})
arm_HighWords(n, a1, a2) == RightIn(RightIn(n, n.res.r2, a1, 2), n.opd.r2, a2, 2)
arm_alu2(tar, a1, a2) ==
  /\ Enabled("arm", "alu2")
  /\ \E m \in Marks(tar, {a1, a2}, {}) :
       LET m1 == arm_get_operand2(arm_PinRes2(arm_Loaded2(m, tar, a1)), a2)
           m2 == arm_UnpinRes2(arm_HighWords(arm_LowWords(m1, a1, a2), a1, a2))
       IN  Commit(arm_UPDATE_ADDRESSES2(Computes2(m2, tar), tar, a1, a2))

\* Calls to library functions.  The argument registers in use, of a call that is being
\* prepared, are saved before and restored after them.
arm_save_arg_regs(n) == {r \in ArmArgs : r < n.args}
\* Mutant: the argument registers are not restored.
arm_restore_arg_regs_mut(n, before) == n

arm_restore_arg_regs(n, before) ==
  [n EXCEPT !.R = [r \in Regs |-> IF r \in arm_save_arg_regs(before) THEN before.R[r] ELSE @[r]]]
ArmCallerSave == ArmArgs \cup {SCRATCH_REG, LinkReg}
arm_LibCall(n, before) == arm_restore_arg_regs(Clobber(arm_spill_all(n), ArmCallerSave), before)
arm_LoadArg(n, r, a) == RightIn(arm_load(n, r, a), r, a, 1)
arm_LoadArg2(n, r, a) == RightIn2(arm_load2(n, r, a), r, a)

\* arm_div() and arm_rem(): the quotient is moved to r4.
arm_div(tar, a1, a2) ==
  /\ Enabled("arm", "div_rem")
  /\ \E m \in Marks(tar, {a1, a2}, {}) :
       LET m1 == arm_LibCall(arm_LoadArg(arm_LoadArg(m, 0, a1), 1, a2), m)
       IN  Commit(arm_UPDATE_ADDRESSES(Computes(Into(m1, 4, None), tar), tar, a1, a2))

\* arm_do_libcall(): the result is r4:r5 for arithmetic, r4 for relations and `!'
\* (a2 is Const there).  The count of a shift is a 32-bit operand.
arm_do_libcall(tar, a1, a2) ==
  /\ Enabled("arm", "do_libcall")
  /\ \E m \in Marks(tar, {a1, a2}, {}) :
       LET m1 == arm_LoadArg2(m, Pair(0, 1), a1)
           m2 == IF a2 \in Wide \cup {Const} THEN arm_LoadArg2(m1, Pair(2, 3), a2)
                                            ELSE arm_LoadArg(m1, 2, a2)
           m3 == arm_LibCall(m2, m)
       IN  IF tar \in Wide
             THEN Commit(arm_UPDATE_ADDRESSES2(Computes2(Into(m3, 4, 5), tar), tar, a1, a2))
             ELSE Commit(arm_UPDATE_ADDRESSES(Computes(Into(m3, 4, None), tar), tar, a1, a2))

\* The relational operators when they decide a jump, with do_relop_jump().
arm_relop_jump(a1, a2, imm) ==
  /\ Enabled("arm", "relop_jump")
  /\ \E m \in Marks(NoVar, {a1, a2}, {}) :
       LET m1 == arm_OnOperands(arm_InPlace(m, NoVar, a1), a1, a2, imm)
       IN  LastOfBlock(m) /\ Commit(arm_update_args(m1, NoVar, a1, a2))

\* arm_neg(), arm_cmpl(), arm_not(), arm_ch(), arm_uch(), arm_sh() and arm_ush().
arm_unary(tar, a1) ==
  /\ Enabled("arm", "unary")
  /\ \E m \in Marks(tar, {a1}, {}) :
       LET m1 == RightRes(arm_Loaded(m, tar, a1), a1)
       IN  Commit(arm_UPDATE_ADDRESSES(Computes(m1, tar), tar, a1, Const))

\* arm_neg() and arm_cmpl() on 64-bit operands.
arm_unary2(tar, a1) ==
  /\ Enabled("arm", "unary2")
  /\ \E m \in Marks(tar, {a1}, {}) :
       Commit(arm_UPDATE_ADDRESSES2(Computes2(arm_Loaded2(m, tar, a1), tar), tar, a1, Const))

\* arm_llsx() and arm_llzx().
arm_llx(tar, a1) ==
  /\ Enabled("arm", "llx")
  /\ \E m \in Marks(tar, {a1}, {}) :
       LET m1 == RightRes(arm_LoadedLow(m, tar, a1), a1)
       IN  Commit(arm_UPDATE_ADDRESSES2(Computes2(m1, tar), tar, a1, Const))

arm_addr_of(tar) ==
  /\ Enabled("arm", "addr_of")
  /\ \E m \in Marks(tar, {}, {}) : Commit(arm_update_tar(Computes(Got1(arm_get_reg0(m)), tar), tar))

arm_asn(tar, a1) ==
  /\ Enabled("arm", "asn")
  /\ \E m \in Marks(tar, {a1}, {}) :
       IF tar \in Wide
         THEN Commit(arm_UPDATE_ADDRESSES2(Copies(arm_Loaded2(m, tar, a1), tar, a1), tar, a1, Const))
         ELSE Commit(arm_UPDATE_ADDRESSES(Copies(RightRes(arm_Loaded(m, tar, a1), a1), tar, a1),
                                          tar, a1, Const))

-----------------------------------------------------------------------------
arm_ind(tar, a1) ==
  /\ Enabled("arm", "ind")
  /\ \E m \in Marks(tar, {a1}, AddrTaken) :
       LET m1 == arm_spill_aliased_objects(m)
           word == ReadsMemory(RightRes(arm_Loaded(m1, tar, a1), a1), Pointed)
           pair == ReadsMemory(RightRes(arm_LoadedLow(m1, tar, a1), a1), Pointed)
       IN  \/ tar \in Wide /\ Commit(arm_UPDATE_ADDRESSES2(Computes2(pair, tar), tar, a1, Const))
           \/ tar \in Structs /\ Commit(arm_UPDATE_ADDRESSES(ComputesAt(word, tar, Far), tar, a1, Const))
           \/ /\ tar \notin Wide \cup Structs
              /\ Commit(arm_UPDATE_ADDRESSES(Computes(word, tar), tar, a1, Const))

\* The pointer is pinned only if it has just been loaded; constants are stored
\* through the scratch register.
arm_Pointer(n, a1) ==
  IF InReg(n, a1) THEN Into(n, addr_reg1(n, a1), None) ELSE PinRes(arm_Loaded(n, NoVar, a1))
arm_StoredWord(n, a2) ==
  IF a2 = Const THEN arm_LoadArg(n, SCRATCH_REG, a2)
  ELSE IF InReg(n, a2) THEN RightIn(n, addr_reg1(n, a2), a2, 1)
  ELSE RightOpd(InGot(arm_LoadGot(arm_get_reg0(n), a2)), a2, 1)
arm_ReadPair(n, a2) == RightIn2(n, n.opd, a2)
arm_StoredPair(n, a2) ==
  IF a2 = Const THEN Clobber(n, {SCRATCH_REG}) ELSE arm_ReadPair(arm_get_operand2(n, a2), a2)
arm_PointerRight(n, a1) == UnpinRes(RightRes(n, a1))
arm_StoredStruct(n, a1, a2) ==
  Clobber(arm_LoadArg(arm_LoadArg(n, SCRATCH_REG, a1), SCRATCH_REG, a2), {SCRATCH_REG, LinkReg})

arm_ind_asn(a1, a2) ==
  /\ Enabled("arm", "ind_asn")
  /\ \E m \in Marks(NoVar, {a1, a2}, {}) :
       LET Done(n) == Commit(arm_update_args(WritesMemory(n, Pointed), NoVar, a1, a2))
           m1 == arm_spill_aliased_objects(m)
       IN  \/ a2 \in Structs /\ Done(arm_StoredStruct(m1, a1, a2))
           \/ a2 \in Wide /\ Done(arm_PointerRight(arm_StoredPair(arm_Pointer(m1, a1), a2), a1))
           \/ /\ a2 \notin Structs \cup Wide
              /\ Done(arm_PointerRight(arm_StoredWord(arm_Pointer(m1, a1), a2), a1))

\* arm_call() and arm_indcall(): the value, or the address of the frame's area that
\* holds it, is moved from r0 (and r1) to r4 (and r5).  arm_post_call() forgets the
\* arguments.
arm_post_call(n) == [n EXCEPT !.args = 0, !.passed = {}]
arm_Returned(n, tar) ==
  IF tar \in Wide THEN arm_update_tar2(Computes2(Into(n, 4, 5), tar), tar)
  ELSE IF tar \in Structs
    THEN arm_update_tar(ComputesAt([Into(n, 4, None) EXCEPT !.M[Area][1] = {}], tar, Area), tar)
  ELSE IF tar \in Vars THEN arm_update_tar(Computes(Into(n, 4, None), tar), tar)
  ELSE n
arm_Call(n) == arm_post_call(Called(FindsArguments(n, 0), ArmCallerSave))

arm_call(tar) ==
  /\ Enabled("arm", "call")
  /\ \E m \in Marks(tar, {}, AddrTaken \cup Statics) : Commit(arm_Returned(arm_Call(arm_spill_all(m)), tar))

arm_indcall(tar, a1) ==
  /\ Enabled("arm", "indcall")
  /\ \E m \in Marks(tar, {a1}, AddrTaken \cup Statics) :
       LET m1 == arm_Call(arm_LoadArg(arm_spill_all(m), SCRATCH_REG, a1))
       IN  Commit(arm_Returned(arm_update_args(m1, tar, a1, Const), tar))

-----------------------------------------------------------------------------
\* arm_arg(): the words of an argument go to r0-r3 while there is one left, the others
\* to the stack.  A 64-bit argument takes an even register and the next one, or the
\* stack; a structure may be divided between both.
arm_Words(n, first, k) == [n EXCEPT !.args = first + k]
arm_ArgWord(n, a1) ==
  IF n.args < 4 THEN Passes(arm_LoadArg(arm_spill_reg(n, n.args), n.args, a1), n.args, n.args)
  ELSE IF InReg(n, a1) THEN RightIn(n, addr_reg1(n, a1), a1, 1)
  ELSE arm_LoadArg(n, SCRATCH_REG, a1)
arm_ArgPair(n, k, a1) ==
  IF k < 4 THEN Passes(Passes(arm_LoadArg2(n, Pair(k, k + 1), a1), k, k), k + 1, k + 1)
           ELSE arm_ReadPair(arm_get_operand2(n, a1), a1)
arm_ArgStruct(n, k, size, a1) ==
  LET m1 == arm_LoadArg(n, SCRATCH_REG, a1)
  IN  IF k + size <= 4 THEN PassesWords(m1, 0, k .. k + size - 1)
                       ELSE Clobber(PassesWords(m1, 0, k .. 3), {SCRATCH_REG, LinkReg})

arm_arg(a1, size, align) ==
  /\ Enabled("arm", "arg")
  /\ \E m \in Marks(NoVar, {a1}, {}) :
       LET k == RoundUp(arg_words, IF a1 \in Wide THEN 2 ELSE align)
           m1 == IF a1 \in Structs THEN arm_Words(arm_ArgStruct(m, k, size, a1), k, size)
                 ELSE IF a1 \in Wide THEN arm_Words(arm_ArgPair(m, k, a1), k, 2)
                 ELSE arm_Words(arm_ArgWord(m, a1), arg_words, 1)
       IN  arg_words < MaxArgs /\ Commit(arm_update_args(m1, NoVar, a1, Const))

\* The first argument of a structure-valued call is the address of the area.
arm_arg_area ==
  /\ Enabled("arm", "arg") /\ arg_words = 0 /\ Structs # {} /\ MaxArgs > 0
  /\ \E m \in Marks(NoVar, {}, {}) : Commit(arm_Words(Passes(arm_spill_reg(m, 0), 0, 0), 0, 1))

\* arm_ret(): a structure is copied to where the caller wants it, or is its word in r0.
arm_ReturnStruct(n, a1) ==
  Clobber(arm_LoadArg(Clobber(n, {0}), SCRATCH_REG, a1), {SCRATCH_REG, LinkReg})
arm_ret(a1) ==
  /\ Enabled("arm", "ret") /\ arg_words = 0
  /\ \E m \in Marks(NoVar, {a1}, {}) :
       LET m1 == IF a1 \in Wide THEN arm_LoadArg2(m, Pair(0, 1), a1)
                 ELSE IF a1 \in Structs THEN arm_ReturnStruct(m, a1)
                 ELSE arm_LoadArg(m, 0, a1)
       IN  LastOfBlock(m) /\ Commit(arm_update_args(m1, NoVar, a1, Const))

arm_OrWords(n) == Clobber(n, {n.res.r1})
arm_cbr(a1) ==
  /\ Enabled("arm", "cbr")
  /\ \E m \in Marks(NoVar, {a1}, {}) :
       LET m1 == IF a1 \in Wide THEN arm_OrWords(arm_Loaded2(m, NoVar, a1))
                                ELSE RightRes(arm_Loaded(m, NoVar, a1), a1)
       IN  LastOfBlock(m) /\ Commit(arm_update_args(m1, NoVar, a1, Const))

\* arm_switch() and arm_do_switch64(): the value is compared after its variable has
\* given up the register, and a jump table changes the register.
arm_Compare(n, a1) == Clobber(RightRes(n, a1), {n.res.r1})
arm_Compare2(n, a1) == RightIn2(n, n.res, a1)
arm_switch(a1) ==
  /\ Enabled("arm", "switch")
  /\ \E m \in Marks(NoVar, {a1}, {}) :
       /\ LastOfBlock(m)
       /\ IF a1 \in Wide
            THEN Commit(arm_Compare2(arm_update_args(arm_InPlace2(m, NoVar, a1), NoVar, a1, Const), a1))
            ELSE Commit(arm_Compare(arm_update_args(arm_InPlace(m, NoVar, a1), NoVar, a1, Const), a1))

\* arm_lab(), arm_jmp(): nothing changes in the tables.
arm_next_block ==
  /\ Enabled("arm", "next_block") /\ LastOfBlock(cg)
  /\ Entry(cg, {v \in Temps : fut[v] = "live"})

\* The end of arm_function_definition(): the descriptors are not reset.
arm_function_definition ==
  /\ Enabled("arm", "function_definition") /\ LastOfBlock(cg) /\ arg_words = 0
  /\ Entry([cg EXCEPT !.modified = {}, !.temps = <<>>, !.written = {}], {})

arm_Next ==
  \/ \E t \in WordTemps, p \in Ops2 :
       arm_div(t, p[1], p[2]) \/ \E imm \in Kinds(p[2]) : arm_alu(t, p[1], p[2], imm)
  \/ \E t \in WideTemps, p \in WideOps : arm_alu2(t, p[1], p[2])
  \/ \E t \in WordTemps \cup WideTemps, p \in WideOps : arm_do_libcall(t, p[1], p[2])
  \/ \E t \in WideTemps, a \in Wide, c \in Scalars \ Wide : arm_do_libcall(t, a, c)
  \/ \E p \in Ops2 : \E imm \in Kinds(p[2]) : arm_relop_jump(p[1], p[2], imm)
  \/ \E t \in WordTemps, a \in Scalars : arm_unary(t, a)
  \/ \E t \in WideTemps : \/ \E a \in Wide : arm_unary2(t, a)
                          \/ \E a \in Scalars \ Wide : arm_llx(t, a)
  \/ \E t \in WordTemps : arm_addr_of(t)
  \/ \E t \in Wide, a \in Wide \cup {Const} : arm_asn(t, a)
  \/ \E t \in Scalars \ Wide, a \in Scalars \cup {Const} : arm_asn(t, a)
  \/ \E t \in Structs, a \in Structs : arm_asn(t, a)
  \/ \E t \in Temps, a \in Pointers : arm_ind(t, a)
  \/ \E a \in Pointers, b \in Vars \cup {Const} : arm_ind_asn(a, b)
  \/ \E t \in Temps \cup {NoVar} : arm_call(t) \/ \E a \in Pointers : arm_indcall(t, a)
  \/ \E a \in Vars : arm_ret(a) \/ \E s \in StructKinds : arm_arg(a, s[1], s[2])
  \/ arm_arg_area
  \/ \E a \in Scalars : arm_cbr(a) \/ arm_switch(a)
  \/ arm_next_block \/ arm_function_definition
=============================================================================
