------------------------------ MODULE X86Regs ------------------------------
(***************************************************************************)
(* The helpers of x86_cgen.c that read and change the descriptors while    *)
(* code is emitted: get_reg(), spill_reg(), x86_load(), x86_get_operand(), *)
(* x86_store(), update_*_descriptors()...                                  *)
(***************************************************************************)
EXTENDS CGenRegs

CONSTANT X86Pool    \* the registers that get_reg0() may give out

EAX == 0
EBX == 1
ECX == 2
EDX == 3
ESI == 4
EDI == 5

\* X86_NREG is 6; with fewer the register file is full sooner.
ASSUME X86Assumption == X86Pool \subseteq 0 .. 5 /\ X86Pool # {} /\ 0 .. 5 \subseteq Regs

\* Of the modified[] flags only those of these registers are ever read.
X86CalleeSave == {EBX, ESI, EDI}
Modified(m, r) == [m EXCEPT !.modified = @ \cup ({r} \cap X86CalleeSave)]

-----------------------------------------------------------------------------
x86_load_addr(m, r, a) == SetReg(m, r, {<<a, 0>>})

x86_load(m, r, a) == Load(m, r, a)
x86_load2(m, r, a) == Load2(m, r, a)

\* `rep movsb': copies what ESI points at to where EDI points and leaves both
\* past the end, and ECX zero.
rep_movsb(m) ==
  Clobber([m EXCEPT !.M = Copied(@, PointedBy(m, ESI), PointedBy(m, EDI))], {ESI, EDI, ECX})

\* The copy sequence shared by x86_store(), x86_ind_asn() and x86_arg(): a
\* register that holds a variable is pushed before and popped after it, an empty
\* one is marked as modified.  ESI (EDI) may be in place already.
\* Mutant: the register is not marked as modified.
Save_mut(m, r) == m

Save(m, r) == IF reg_isempty(m, r) THEN Modified(m, r) ELSE m
\* Mutant: the registers pushed are not popped.
Restore_mut(m, before, S) == m

Restore(m, before, S) ==
  [m EXCEPT !.R = [r \in Regs |-> IF r \in S THEN before.R[r] ELSE @[r]],
            !.written = (@ \ S) \cup (before.written \cap S)]
Copy(m, before, src, dst) ==
  Restore(rep_movsb(m), before,
          {r \in {ECX} \cup (IF src THEN {} ELSE {ESI}) \cup (IF dst THEN {} ELSE {EDI}) :
             ~reg_isempty(before, r)})

PutSource(m, r) == IF r = ESI THEN m ELSE SetReg(Save(m, ESI), ESI, m.R[r])
PutTarget(m, a) == IF addr_reg1(m, a) = EDI THEN m ELSE x86_load_addr(Save(m, EDI), EDI, a)

x86_store(m, r, a) ==
  IF a \in Structs \cap Ids
    THEN Copy(PutTarget(PutSource(m, r), a), m, r = ESI, addr_reg1(m, a) = EDI)
    ELSE ToHome(WithHome(m, a), r, a, 1)

\* Mutant: only the low word is stored.
x86_store2_mut(m, r, a) == ToHome(WithHome(m, a), r.r1, a, 1)

x86_store2(m, r, a) == Store2(m, r, a)

-----------------------------------------------------------------------------
Store(m, a) ==
  IF addr_reg2(m, a) # None THEN x86_store2(m, m.addr[a], a)
                            ELSE x86_store(m, addr_reg1(m, a), a)

spill_reg(m, r) == SpillReg(m, r, Store)
spill_all(m) == SpillThese(m, Vars, spill_reg)

\* Mutant: the register is not marked as modified.
Take_mut(m, r) == [spill_reg(m, r) EXCEPT !.got = r]

Take(m, r) == [spill_reg(Modified(m, r), r) EXCEPT !.got = r]

\* get_reg0(): the first empty register that is not pinned, or else the first
\* one that is not pinned, which is spilled.
get_reg0(m) ==
  IF X86Pool \subseteq m.pinned THEN Fault([m EXCEPT !.got = EAX], "assert", FALSE)
  ELSE Take(m, Min(IF EmptyRegs(m, X86Pool) \subseteq m.pinned
                     THEN X86Pool \ m.pinned ELSE EmptyRegs(m, X86Pool) \ m.pinned))

get_reg(m, arg1, arg1_liveness) == GetReg(m, arg1, arg1_liveness, get_reg0)
get_reg2(m, arg1, arg1_liveness) == GetReg2(m, arg1, arg1_liveness, get_reg0)

-----------------------------------------------------------------------------
\* A char or a short in memory is promoted in a register of its own.
Promoted(m, a) == x86_load(m, m.got, a)

x86_get_operand(m, a) ==
  IF a = Const THEN Operand(m, {<<Const, 1>>})
  ELSE IF InReg(m, a) THEN Operand(m, m.R[addr_reg1(m, a)])
  ELSE IF a \in Bytes THEN InGot(Promoted(get_reg0(m), a))
  ELSE InHome(WithHome(m, a), a, 1)

\* Word w of the operand.
x86_get_operand2(m, a, w) ==
  IF a = Const THEN Operand(m, {<<Const, w>>})
  ELSE IF ~InReg(m, a) THEN InHome(WithHome(m, a), a, w)
  ELSE IF addr_reg2(m, a) = None THEN Fault(m, "assert", FALSE)
  ELSE Operand(m, m.R[IF w = 1 THEN addr_reg1(m, a) ELSE addr_reg2(m, a)])

-----------------------------------------------------------------------------
\* Mutant: a live variable that has no next use is not stored.
update_arg_descriptors_mut(m, arg, liveness, next_use) ==
  UpdateArg(m, arg, FALSE, next_use, Store)

update_arg_descriptors(m, arg, liveness, next_use) ==
  UpdateArg(m, arg, liveness, next_use, Store)

\* Mutant: a target that is not used again keeps its register.
update_tar_descriptors_mut(m, r, tar, liveness, next_use) ==
  Bind(IF liveness /\ ~next_use THEN x86_store(Bind(m, r, tar), r, tar) ELSE m, r, tar)

update_tar_descriptors(m, r, tar, liveness, next_use) ==
  UpdateTar(m, r, tar, liveness, next_use, x86_store)

\* Mutant: a pair that is not used again stays taken.
update_tar_descriptors2_mut(m, r, tar, liveness, next_use) ==
  IF liveness /\ ~next_use THEN x86_store2(Bind2(m, r, tar), r, tar) ELSE Bind(Bind2(m, r, tar), r.r1, tar)

update_tar_descriptors2(m, r, tar, liveness, next_use) ==
  UpdateTar2(m, r, tar, liveness, next_use, x86_store2)
=============================================================================
