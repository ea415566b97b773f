------------------------------ MODULE X86CGen ------------------------------
(***************************************************************************)
(* The instruction handlers of x86_cgen.c: one action per handler (per     *)
(* group of handlers with the same body).  A step emits the code of one    *)
(* intermediate instruction and records what that code does.               *)
(***************************************************************************)
EXTENDS CGen, X86Regs

update_args(n, tar, a1, a2) == UpdateArgs(n, tar, a1, a2, update_arg_descriptors)
update_tar(n, tar) == update_tar_descriptors(n, n.res.r1, tar, Live(n, tar), Used(n, tar))
update_tar2(n, tar) == update_tar_descriptors2(n, n.res, tar, Live(n, tar), Used(n, tar))

UPDATE_ADDRESSES(n, tar, a1, a2) == update_tar(update_args(n, tar, a1, a2), tar)
UPDATE_ADDRESSES2(n, tar, a1, a2) == update_tar2(update_args(n, tar, a1, a2), tar)
UPDATE_ADDRESSES_UNARY(n, tar, a1) == UPDATE_ADDRESSES(n, tar, a1, Const)
UPDATE_ADDRESSES_UNARY2(n, tar, a1) == UPDATE_ADDRESSES2(n, tar, a1, Const)

LoadRight(n, r, a) == RightIn(x86_load(n, r, a), r, a, 1)
LoadRight2(n, r, a) == RightIn2(x86_load2(n, r, a), r, a)
LoadRes(n, a) == x86_load(n, n.res.r1, a)
LoadRes2(n, a) == LoadRight2(n, n.res, a)
OperandRight(n, a) == RightOpd(x86_get_operand(n, a), a, 1)
OperandRight2(n, a, w) == RightOpd(x86_get_operand2(n, a, w), a, w)
PushPair(n, a) == OperandRight2(OperandRight2(n, a, 2), a, 1)

\* The register(s) the first operand is in, or get_reg() and a load.
InPlaceReg(n, tar, a1) ==
  IF InReg(n, a1) THEN Into(n, addr_reg1(n, a1), None)
                  ELSE LoadRes(get_reg(n, a1, Live1(n, tar, a1)), a1)
InPlaceReg2(n, tar, a1) ==
  IF InReg(n, a1) THEN [n EXCEPT !.res = n.addr[a1]]
                  ELSE LoadRes2(get_reg2(n, a1, Live1(n, tar, a1)), a1)

\* get_reg() and x86_load(), the beginning of most handlers.
Loaded(n, tar, a1) == LoadRes(get_reg(n, a1, Live1(n, tar, a1)), a1)
Loaded2(n, tar, a1) == LoadRes2(get_reg2(n, a1, Live1(n, tar, a1)), a1)
\* get_reg2() and x86_load() of a 32-bit operand into its first register.
LoadedLow(n, tar, a1) == LoadRes(get_reg2(n, a1, Live1(n, tar, a1)), a1)
\* The instruction on the first operand, in n.res and pinned, and the second one.
OnOperands(n, a1, a2) == UnpinRes(RightRes(OperandRight(PinRes(n), a2), a1))

-----------------------------------------------------------------------------
\* x86_add(), x86_sub(), x86_mul(), x86_and(), x86_or(), x86_xor().
x86_alu(tar, a1, a2) ==
  /\ Enabled("x86", "alu")
  /\ \E m \in Marks(tar, {a1, a2}, {}) :
       Commit(UPDATE_ADDRESSES(Computes(OnOperands(Loaded(m, tar, a1), a1, a2), tar), tar, a1, a2))

\* x86_add(), x86_sub() and the others on 64-bit operands: the low words are
\* combined before the high words are read.
LowWords(n, a2) == Clobber(OperandRight2(n, a2, 1), {n.res.r1})
x86_alu2(tar, a1, a2) ==
  /\ Enabled("x86", "alu2")
  /\ \E m \in Marks(tar, {a1, a2}, {}) :
       LET m1 == OperandRight2(LowWords(Loaded2(m, tar, a1), a2), a2, 2)
       IN  Commit(UPDATE_ADDRESSES2(Computes2(m1, tar), tar, a1, a2))

\* x86_div() and x86_rem(): the operands go to EAX and EDX whatever get_reg() says.
\* Mutant: EAX is not spilled.
DividendReg_mut(n) == n

DividendReg(n) == IF n.res.r1 # EAX THEN spill_reg(n, EAX) ELSE n
LoadGot(n, a) == LoadRight(n, n.got, a)
Divisor(n, a2) == IF a2 = Const THEN LoadGot(get_reg0(n), a2) ELSE OperandRight(n, a2)
x86_div_rem(res, tar, a1, a2) ==
  /\ Enabled("x86", "div_rem")
  /\ \E m \in Marks(tar, {a1, a2}, {}) :
       LET m1 == DividendReg(get_reg(m, a1, Live1(m, tar, a1)))
           m2 == pin_reg(x86_load(m1, EAX, a1), EAX)
           m3 == Clobber(pin_reg(spill_reg(m2, EDX), EDX), {EDX})
           m4 == Clobber(RightIn(Divisor(m3, a2), EAX, a1, 1), {EAX, EDX})
           m5 == Into(unpin_reg(unpin_reg(m4, EAX), EDX), res, None)
       IN  Commit(UPDATE_ADDRESSES(Computes(m5, tar), tar, a1, a2))

\* x86_shl() and x86_shr(): the count goes to ECX.
Count(n, a2) ==
  IF InReg(n, a2) /\ addr_reg1(n, a2) = ECX THEN n ELSE x86_load(spill_reg(n, ECX), ECX, a2)
x86_shift(tar, a1, a2) ==
  /\ Enabled("x86", "shift")
  /\ \E m \in Marks(tar, {a1, a2}, {}) :
       LET m1 == Loaded(pin_reg(Count(m, a2), ECX), tar, a1)
           m2 == IF a2 = Const THEN Loaded(m, tar, a1) ELSE unpin_reg(RightIn(m1, ECX, a2, 1), ECX)
       IN  Commit(UPDATE_ADDRESSES(Computes(RightRes(m2, a1), tar), tar, a1, a2))

\* The relational operators when their value is wanted (IC_STORE), and x86_not().
x86_setcc(tar, a1, a2) ==
  /\ Enabled("x86", "setcc")
  /\ \E m \in Marks(tar, {a1, a2}, {}) :
       LET m1 == OnOperands(Loaded(m, tar, a1), a1, a2)
       IN  Commit(UPDATE_ADDRESSES(Computes(m1, tar), tar, a1, a2))

\* The relational operators when they decide a jump: do_relop_jump() stores what
\* has to be stored, jumps and removes the OpCBr that follows.
x86_relop_jump(a1, a2) ==
  /\ Enabled("x86", "relop_jump")
  /\ \E m \in Marks(NoVar, {a1, a2}, {}) :
       LastOfBlock(m) /\ Commit(update_args(OnOperands(InPlaceReg(m, NoVar, a1), a1, a2), NoVar, a1, a2))

\* x86_neg(), x86_cmpl(), x86_ch(), x86_uch(), x86_sh() and x86_ush(): the byte
\* conversions go through EAX when the register has no low byte, and restore it.
x86_unary(tar, a1) ==
  /\ Enabled("x86", "unary")
  /\ \E m \in Marks(tar, {a1}, {}) :
       Commit(UPDATE_ADDRESSES_UNARY(Computes(RightRes(Loaded(m, tar, a1), a1), tar), tar, a1))

\* x86_neg() and x86_cmpl() on 64-bit operands.
x86_unary2(tar, a1) ==
  /\ Enabled("x86", "unary2")
  /\ \E m \in Marks(tar, {a1}, {}) :
       Commit(UPDATE_ADDRESSES_UNARY2(Computes2(Loaded2(m, tar, a1), tar), tar, a1))

\* x86_llsx() and x86_llzx(): the high word is made from the low word.
x86_llx(tar, a1) ==
  /\ Enabled("x86", "llx")
  /\ \E m \in Marks(tar, {a1}, {}) :
       Commit(UPDATE_ADDRESSES_UNARY2(Computes2(RightRes(LoadedLow(m, tar, a1), a1), tar), tar, a1))

x86_addr_of(tar) ==
  /\ Enabled("x86", "addr_of")
  /\ \E m \in Marks(tar, {}, {}) : Commit(update_tar(Computes(Got1(get_reg0(m)), tar), tar))

\* A structure is assigned by assigning the address of its value.
x86_asn(tar, a1) ==
  /\ Enabled("x86", "asn")
  /\ \E m \in Marks(tar, {a1}, {}) :
       IF tar \in Wide
         THEN Commit(UPDATE_ADDRESSES_UNARY2(Copies(Loaded2(m, tar, a1), tar, a1), tar, a1))
         ELSE Commit(UPDATE_ADDRESSES_UNARY(Copies(RightRes(Loaded(m, tar, a1), a1), tar, a1), tar, a1))

-----------------------------------------------------------------------------
\* Mutant: the aliased objects stay in their registers.
spill_aliased_objects_mut(n) == n

spill_aliased_objects(n) == SpillThese(n, Aliased, spill_reg)

x86_ind(tar, a1) ==
  /\ Enabled("x86", "ind")
  /\ \E m \in Marks(tar, {a1}, AddrTaken) :
       LET low  == ReadsMemory(RightRes(Loaded(spill_aliased_objects(m), tar, a1), a1), Pointed)
           pair == ReadsMemory(RightRes(LoadedLow(spill_aliased_objects(m), tar, a1), a1), Pointed)
       IN  \/ /\ tar \in Wide
              /\ Commit(UPDATE_ADDRESSES_UNARY2(Computes2(pair, tar), tar, a1))
           \/ /\ tar \in Structs
              /\ Commit(UPDATE_ADDRESSES_UNARY(ComputesAt(low, tar, Far), tar, a1))
           \/ /\ tar \notin Wide \cup Structs
              /\ Commit(UPDATE_ADDRESSES_UNARY(Computes(low, tar), tar, a1))

\* The register that holds the pointer of an indirect assignment.  It is pinned
\* only if the pointer has just been loaded.
Pointer(n, a1) ==
  IF InReg(n, a1) THEN Into(n, addr_reg1(n, a1), None)
                  ELSE PinRes(Loaded(n, NoVar, a1))

\* The value that an indirect assignment stores.
StoredWord(n, a2) ==
  IF a2 = Const THEN n
  ELSE IF InReg(n, a2) THEN RightIn(n, addr_reg1(n, a2), a2, 1)
  ELSE LoadGot(get_reg0(n), a2)
LoadPair(n, pointer, a2) == [LoadRes2(n, a2) EXCEPT !.res = pointer]
StoredPair(n, a2) ==
  IF a2 = Const THEN n
  ELSE IF InReg(n, a2) THEN PushPair(n, a2)
  ELSE LoadPair(get_reg2(n, Const, TRUE), n.res, a2)
PointerRight(n, a1) == UnpinRes(RightIn(n, n.res.r1, a1, 1))

\* A structure and a pointer to its new place; ESI is loaded before EDI.
ToSource(n, a) == IF addr_reg1(n, a) = ESI THEN n ELSE x86_load(Save(n, ESI), ESI, a)
ToTarget(n, a) == IF addr_reg1(n, a) = EDI THEN n ELSE x86_load(Save(n, EDI), EDI, a)
StoredStruct(n, a1, a2) ==
  Copy(RightIn(RightIn(ToTarget(ToSource(n, a2), a1), ESI, a2, 1), EDI, a1, 1), n,
       addr_reg1(n, a2) = ESI, addr_reg1(n, a1) = EDI)

\* The copy moves EDI past the end of the new place, and a pointer that is there already is
\* not saved: "ind_asn_edi" stores a structure through a pointer in EDI that is used again.
PointerMoved(a1, a2) == a2 \in Structs /\ addr_reg1(cg, a1) = EDI /\ fut'[a1] # "dead"

x86_ind_asn(a1, a2) ==
  /\ Enabled("x86", "ind_asn")
  /\ \E m \in Marks(NoVar, {a1, a2}, {}) :
       LET Done(n) == Commit(update_args(WritesMemory(n, Pointed), NoVar, a1, a2))
           m1 == spill_aliased_objects(m)
       IN  \/ a2 \in Structs /\ Done(StoredStruct(m1, a1, a2))
           \/ a2 \in Wide /\ Done(PointerRight(StoredPair(Pointer(m1, a1), a2), a1))
           \/ a2 \notin Structs \cup Wide /\ Done(PointerRight(StoredWord(Pointer(m1, a1), a2), a1))
  /\ PointerMoved(a1, a2) => "ind_asn_edi" \in Handlers

-----------------------------------------------------------------------------
\* x86_pre_call() stores every register; the arguments are removed afterwards.
CallerSave == {EAX, ECX, EDX}
Pops(n, nargs) == [n EXCEPT !.args = @ - nargs]

\* The value of a call is in EAX (and EDX), or in the frame's area for structures.
\* tar is NoVar when the value is not used.
Returned(n, tar) ==
  IF tar \in Wide THEN update_tar2(Computes2(Into(n, EAX, EDX), tar), tar)
  ELSE IF tar \in Structs
    THEN update_tar(ComputesAt([Into(n, EAX, None) EXCEPT !.M[Area][1] = {}], tar, Area), tar)
  ELSE IF tar \in Vars THEN update_tar(Computes(Into(n, EAX, None), tar), tar)
  ELSE n

x86_call(tar, nargs) ==
  /\ Enabled("x86", "call") /\ nargs <= arg_words
  /\ \E m \in Marks(tar, {}, AddrTaken \cup Statics) :
       Commit(Returned(Pops(Called(spill_all(m), CallerSave), nargs), tar))

x86_indcall(tar, a1, nargs) ==
  /\ Enabled("x86", "indcall") /\ nargs <= arg_words
  /\ \E m \in Marks(tar, {a1}, AddrTaken \cup Statics) :
       LET m1 == Pops(Called(OperandRight(spill_all(m), a1), CallerSave), nargs)
       IN  Commit(Returned(update_args(m1, tar, a1, Const), tar))

\* x86_do_libcall(): both operands are pushed, the high word first, before the
\* registers are spilled.  The result is a pair for arithmetic and EAX for relations.
\* The count of a shift is a 32-bit operand.
x86_do_libcall(tar, a1, a2) ==
  /\ Enabled("x86", "do_libcall")
  /\ \E m \in Marks(tar, {a1, a2}, {}) :
       LET m1 == PushPair(IF a2 \in Wide THEN PushPair(m, a2) ELSE OperandRight(m, a2), a1)
           m2 == Clobber(spill_all(m1), CallerSave)
       IN  IF tar \in Wide
             THEN Commit(UPDATE_ADDRESSES2(Computes2(Into(m2, EAX, EDX), tar), tar, a1, a2))
             ELSE Commit(UPDATE_ADDRESSES(Computes(Into(m2, EAX, None), tar), tar, a1, a2))

\* x86_arg(): the copy of a structure on the stack is made with `rep movsb'.
PushStruct(n, a1) ==
  Copy(Clobber(Save(RightIn(ToSource(n, a1), ESI, a1, 1), EDI), {EDI}), n,
       addr_reg1(n, a1) = ESI, FALSE)

Pushed(n) == [n EXCEPT !.args = @ + 1]

x86_arg(a1) ==
  /\ Enabled("x86", "arg") /\ arg_words < MaxPushed
  /\ \E m \in Marks(NoVar, {a1}, {}) :
       LET m1 == IF a1 \in Structs THEN PushStruct(m, a1)
                 ELSE IF a1 \in Wide THEN PushPair(m, a1) ELSE OperandRight(m, a1)
       IN  Commit(Pushed(update_args(m1, NoVar, a1, Const)))

\* x86_ret(): the jump to the exit label follows.  "ret2" returns a 64-bit value.
ReturnStruct(n, a1) ==
  LET m1 == Modified(LoadRight(n, ESI, a1), ESI)
      m2 == Clobber(Modified(spill_reg(m1, EDI), EDI), {EDI})
  IN  rep_movsb(spill_reg(m2, ECX))

x86_ret(a1) ==
  /\ Enabled("x86", IF a1 \in Wide THEN "ret2" ELSE "ret")
  /\ \E m \in Marks(NoVar, {a1}, {}) :
       LET m1 == IF a1 \in Wide THEN LoadRight2(m, [r1 |-> EAX, r2 |-> EDX], a1)
                 ELSE IF a1 \in Structs THEN ReturnStruct(m, a1)
                 ELSE LoadRight(m, EAX, a1)
       IN  LastOfBlock(m) /\ Commit(update_args(m1, NoVar, a1, Const))

\* x86_compare_against_constant(): a char is compared in memory as it is.
Compared(n, a) ==
  RightOpd(IF InReg(n, a) THEN Operand(n, n.R[addr_reg1(n, a)]) ELSE InHome(WithHome(n, a), a, 1), a, 1)
OrWords(n) == Clobber(n, {n.res.r1})

x86_cbr(a1) ==
  /\ Enabled("x86", "cbr")
  /\ \E m \in Marks(NoVar, {a1}, {}) :
       LET m1 == IF a1 \in Wide THEN OrWords(Loaded2(m, NoVar, a1)) ELSE Compared(m, a1)
       IN  LastOfBlock(m) /\ Commit(update_args(m1, NoVar, a1, Const))

\* x86_switch() and x86_do_switch64(): the value is compared after its variable has
\* given up the register, and a jump table changes the register.
CompareRes(n, a1) == Clobber(RightIn(n, n.res.r1, a1, 1), {n.res.r1})
CompareRes2(n, a1) == RightIn2(n, n.res, a1)
x86_switch(a1) ==
  /\ Enabled("x86", "switch")
  /\ \E m \in Marks(NoVar, {a1}, {}) :
       /\ LastOfBlock(m)
       /\ IF a1 \in Wide
            THEN Commit(CompareRes2(update_args(InPlaceReg2(m, NoVar, a1), NoVar, a1, Const), a1))
            ELSE Commit(CompareRes(update_args(InPlaceReg(m, NoVar, a1), NoVar, a1, Const), a1))

\* x86_lab(), x86_jmp(): nothing changes in the tables.
x86_next_block ==
  /\ Enabled("x86", "next_block") /\ LastOfBlock(cg)
  /\ Entry(cg, {v \in Temps : fut[v] = "live"})

\* The end of x86_function_definition().
x86_function_definition == Enabled("x86", "function_definition") /\ LastOfBlock(cg) /\ NewFunction

x86_Next ==
  \/ \E t \in WordTemps, p \in Ops2 :
       \/ x86_alu(t, p[1], p[2]) \/ x86_shift(t, p[1], p[2]) \/ x86_setcc(t, p[1], p[2])
       \/ \E res \in {EAX, EDX} : x86_div_rem(res, t, p[1], p[2])
  \/ \E t \in WideTemps, p \in WideOps : x86_alu2(t, p[1], p[2])
  \/ \E t \in WordTemps \cup WideTemps, p \in WideOps : x86_do_libcall(t, p[1], p[2])
  \/ \E t \in WideTemps, a \in Wide, c \in (Scalars \ Wide) \cup {Const} : x86_do_libcall(t, a, c)
  \/ \E p \in Ops2 : x86_relop_jump(p[1], p[2])
  \/ \E t \in WordTemps, a \in Scalars : x86_unary(t, a)
  \/ \E t \in WideTemps : \/ \E a \in Wide : x86_unary2(t, a)
                          \/ \E a \in Scalars \ Wide : x86_llx(t, a)
  \/ \E t \in WordTemps : x86_addr_of(t)
  \/ \E t \in Wide, a \in Wide \cup {Const} : x86_asn(t, a)
  \/ \E t \in Scalars \ Wide, a \in Scalars \cup {Const} : x86_asn(t, a)
  \/ \E t \in Structs, a \in Structs : x86_asn(t, a)
  \/ \E t \in Temps, a \in Scalars \ (Wide \cup Bytes) : x86_ind(t, a)
  \/ \E a \in Scalars \ (Wide \cup Bytes), b \in Vars \cup {Const} : x86_ind_asn(a, b)
  \/ \E t \in Temps \cup {NoVar}, n \in 0 .. MaxPushed :
       \/ x86_call(t, n)
       \/ \E a \in Scalars \ (Wide \cup Bytes) : x86_indcall(t, a, n)
  \/ \E a \in Vars : x86_arg(a) \/ x86_ret(a)
  \/ \E a \in Scalars : x86_cbr(a) \/ x86_switch(a)
  \/ x86_next_block \/ x86_function_definition

=============================================================================
