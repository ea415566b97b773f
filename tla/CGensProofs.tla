----------------------------- MODULE CGensProofs -----------------------------
(***************************************************************************)
(* The invariant of the code generators, from the lemmas on the handlers   *)
(* of each target, and the properties that follow from it; then the second *)
(* half of the invariant for x64_cgen.c, that the values are where the     *)
(* tables say, and the properties of the operands that follow from that.   *)
(***************************************************************************)
EXTENDS CGens, CGenIntelProofs, CGenRiscProofs

\* The instances the theorems are about: get_reg0() has a register to choose besides those
\* that an instruction has pinned, two on x86 and x64, three on ARM, four on MIPS.
Proved ==
  /\ "x86" \in Targets => Roomy(X86Pool)
  /\ "x64" \in Targets => Roomy(X64Pool)
  /\ "arm" \in Targets => Roomy3(ArmPool)
  /\ "mips" \in Targets => Roomy4(MipsPool)

\* A handler of another generator does not run.
LEMMA x86_Off == ASSUME target # "x86" PROVE ~x86_Next
  BY DEF x86_Next, x86_alu, x86_shift, x86_setcc, x86_div_rem, x86_alu2, x86_do_libcall, x86_relop_jump,
         x86_unary, x86_unary2, x86_llx, x86_addr_of, x86_asn, x86_ind, x86_ind_asn, x86_call, x86_indcall,
         x86_arg, x86_ret, x86_cbr, x86_switch, x86_next_block, x86_function_definition, Enabled

LEMMA x64_Off == ASSUME target # "x64" PROVE ~x64_Next
  BY DEF x64_Next, x64_alu, x64_shift, x64_div_rem, x64_relop_jump, x64_unary, x64_addr_of, x64_asn, x64_ind,
         x64_ind_asn, x64_call, x64_indcall, x64_arg, x64_ret, x64_cbr, x64_switch, x64_next_block,
         x64_function_definition, Enabled

LEMMA arm_Off == ASSUME target # "arm" PROVE ~arm_Next
  BY DEF arm_Next, arm_div, arm_alu, arm_alu2, arm_do_libcall, arm_relop_jump, arm_unary, arm_unary2, arm_llx,
         arm_addr_of, arm_asn, arm_ind, arm_ind_asn, arm_call, arm_indcall, arm_ret, arm_arg, arm_arg_area,
         arm_cbr, arm_switch, arm_next_block, arm_function_definition, Enabled

LEMMA mips_Off == ASSUME target # "mips" PROVE ~mips_Next
  BY DEF mips_Next, mips_alu, mips_add2, mips_sub2, mips_logic2, mips_do_libcall, mips_unary, mips_unary2,
         mips_llx, mips_addr_of, mips_asn, mips_ind, mips_ind_asn, mips_call, mips_indcall, mips_ret, mips_arg,
         mips_arg_area, mips_cbr, mips_switch, mips_next_block, mips_function_definition, Enabled

LEMMA Stutters == ASSUME IInv, UNCHANGED vars PROVE IInv'
  <1>1. cg' = cg /\ target' = target /\ written' = written BY DEF vars, cg
  <1> QED BY <1>1 DEF IInv, Going, Marked, Misplaced

\* What the invariant says of the variables.
LEMMA Described ==
  ASSUME IInv
  PROVE  /\ cg \in States /\ cg \in Gen /\ Agree(cg) /\ OneSlot(cg.temps) /\ pinned = {}
         /\ cg.reg = reg_descr_tab /\ cg.addr = addr_descr_tab /\ cg.temps = temp_list
         /\ cg.fut = fut /\ cg.args = arg_words /\ cg.faults = faults
  <1>1. Going(cg, NoVar, {}, {}) BY DEF IInv
  <1>2. cg \in States /\ cg.pinned = {} BY <1>1, GoingIs
  <1> QED BY <1>2 DEF States, cg

LEMMA TypeRight == ASSUME IInv PROVE TypeOK
  <1>1. /\ cg \in Gen /\ OneSlot(cg.temps) /\ Going(cg, NoVar, {}, {}) /\ target \in Targets /\ written \subseteq Regs
    BY Described DEF IInv
  <1>2. /\ reg_descr_tab \in [Regs -> Vars \cup {NoVar}] /\ addr_descr_tab \in [Vars -> Pairs]
        /\ pinned \subseteq Regs /\ modified \subseteq Regs /\ temp_list \in Seq(Temps \cup {NoVar})
        /\ passed \subseteq 0 .. 3 /\ faults \subseteq Faults
        /\ R \in [Regs -> Contents] /\ M \in Memory
    BY <1>1 DEF Gen, cg
  <1>3. Len(temp_list) <= Cardinality(Temps) BY <1>1 DEF OneSlot, cg
  <1>4. arg_words \in 0 .. MaxArgs + 4 /\ \A v \in Vars : fut[v] \in Futures(v) BY <1>1 DEF Going, cg
  <1>5. \A r \in Regs : R[r] \subseteq Tokens BY <1>2 DEF Contents
  <1>6. \A L \in Locs, w \in {1, 2} : M[L][w] \subseteq Tokens BY <1>2 DEF Memory, Contents
  <1> QED BY <1>1, <1>2, <1>3, <1>4, <1>5, <1>6 DEF TypeOK, Pairs, Faults

LEMMA TablesRight == ASSUME IInv PROVE DescriptorsAgree
  <1>1. Agree(cg) /\ pinned = {} /\ cg.reg = reg_descr_tab /\ cg.addr = addr_descr_tab BY Described
  <1> QED BY <1>1 DEF DescriptorsAgree, Agree

LEMMA NextUseRight == ASSUME IInv PROVE RegistersForNextUse
  <1>1. \A v \in Vars : v \in Busy(cg) => cg.fut[v] = "next" BY DEF IInv, Going, Marked
  <1> QED BY <1>1, Described DEF RegistersForNextUse, Busy

LEMMA SlotsRight == ASSUME IInv, Crossing \cap Temps = {} PROVE SlotsReclaimed
  <1>1. OneSlot(temp_list) /\ temp_list \in Seq(Temps \cup {NoVar}) /\ cg.temps = temp_list /\ cg.fut = fut
    BY Described DEF Gen
  <1>2. \A v \in Vars : v \in Owners(cg) \ Crossing => cg.fut[v] # "dead" BY DEF IInv, Going, Marked
  <1>3. ASSUME NEW k \in DOMAIN temp_list, temp_list[k] # NoVar PROVE fut[temp_list[k]] # "dead"
    <2>1. temp_list[k] \in Temps BY <1>1, <1>3
    <2>2. temp_list[k] \in Owners(cg) /\ temp_list[k] \in Vars \ Crossing
      BY <1>1, <2>1, CGenRegsAssumption DEF Owners, HasSlot
    <2> QED BY <1>1, <1>2, <2>2
  <1> QED BY <1>1, <1>3 DEF SlotsReclaimed, OneSlot

LEMMA AssertsRight == ASSUME IInv, ~Misplaced PROVE AssertionsHold
  BY Described DEF IInv, Going, AssertionsHold

LEMMA TidyStutters == ASSUME SInv, UNCHANGED vars PROVE SInv'
  <1>1. cg' = cg /\ target' = target /\ written' = written BY DEF vars, cg
  <1>2. Tidy(cg, {}, cg) BY DEF SInv
  <1>3. Form(cg)' BY <1>1, <1>2 DEF Tidy, Form
  <1>4. ASSUME NEW r PROVE Noted(cg, r)' <=> Noted(cg, r) BY <1>1 DEF Noted
  <1>5. ASSUME NEW r PROVE Ours(cg, r)' <=> Ours(cg, r) BY <1>1, <1>4 DEF Ours
  <1>6. ASSUME NEW k PROVE Intact(cg, k)' <=> Intact(cg, k) BY <1>1 DEF Intact
  <1>7. (/\ "argument" \notin cg.faults /\ None \notin ArgRegs[target] \cup Watched[target]
         /\ cg.args = cg.args /\ cg.passed = cg.passed /\ cg.modified \subseteq cg.modified)'
    BY <1>1, <1>2 DEF Tidy
  <1>8. (/\ \A k \in cg.passed : FirstArgReg[target] + k \in {} \/ Intact(cg, k)
         /\ \A r \in cg.written : r \in {} \/ Noted(cg, r))'
    BY <1>1, <1>2, <1>4, <1>6 DEF Tidy
  <1>9. (/\ \A r \in Regs : cg.reg[r] # NoVar => Ours(cg, r)
         /\ \A v \in Vars : Ours(cg, cg.addr[v].r1) /\ Ours(cg, cg.addr[v].r2)
         /\ Ours(cg, cg.got) /\ Ours(cg, cg.res.r1) /\ Ours(cg, cg.res.r2))'
    BY <1>1, <1>2, <1>5 DEF Tidy
  <1>10. Tidy(cg, {}, cg)' BY <1>3, <1>7, <1>8, <1>9 DEF Tidy
  <1> QED BY <1>1, <1>10 DEF SInv

LEMMA SavedRight == ASSUME IInv, SInv PROVE CalleeSaved
  <1>1. target \in {"x86", "x64", "arm", "mips"} BY CGenAssumption DEF IInv
  <1>2. target # "arm" => Watched[target] = CalleeSave[target]
    <2>1. Watched["x86"] = CalleeSave["x86"] BY DEF Watched
    <2>2. Watched["x64"] = CalleeSave["x64"] BY DEF Watched
    <2>3. Watched["mips"] = CalleeSave["mips"] BY DEF Watched, CalleeSave
    <2> QED BY <1>1, <2>1, <2>2, <2>3
  <1>3. cg.written = written /\ cg.modified = modified BY DEF cg
  <1>4. \A r \in written : r \in Watched[target] => r \in modified BY <1>3 DEF SInv, Tidy, Noted
  <1> QED BY <1>2, <1>4 DEF CalleeSaved, SInv

-----------------------------------------------------------------------------
\* The inductive invariant holds in every state: the two descriptors agree, a register is
\* taken only by a variable that is used again in the block, a temporary that is dead has
\* no slot, nothing is pinned between instructions, and no assertion has failed.
THEOREM Invariant == ASSUME Proved PROVE Spec => []IInv
  <1>1. Init => IInv BY Starts
  <1>2. IInv /\ [Next]_vars => IInv'
    <2> SUFFICES ASSUME IInv, [Next]_vars PROVE IInv' OBVIOUS
    <2>1. target \in Targets BY DEF IInv
    <2>2. CASE x64_Next
      <3>1. target = "x64" BY <2>2, x64_Off
      <3> QED BY <2>1, <2>2, <3>1, x64_Step DEF x64_Runs, Proved
    <2>3. CASE x86_Next
      <3>1. target = "x86" BY <2>3, x86_Off
      <3> QED BY <2>1, <2>3, <3>1, x86_Step DEF x86_Runs, Proved
    <2>4. CASE arm_Next
      <3>1. target = "arm" BY <2>4, arm_Off
      <3> QED BY <2>1, <2>4, <3>1, arm_Step DEF arm_Runs, Proved
    <2>5. CASE mips_Next
      <3>1. target = "mips" BY <2>5, mips_Off
      <3> QED BY <2>1, <2>5, <3>1, mips_Step DEF mips_Runs, Proved
    <2>6. CASE UNCHANGED vars BY <2>6, Stutters
    <2> QED BY <2>2, <2>3, <2>4, <2>5, <2>6 DEF Next
  <1> QED BY <1>1, <1>2, PTL DEF Spec

\* The tables and the frame keep their types, and there is never more than one slot for
\* each temporary.
THEOREM Typed == ASSUME Proved PROVE Spec => []TypeOK
  <1>1. IInv => TypeOK BY TypeRight
  <1> QED BY <1>1, Invariant, PTL

\* The descriptors of registers and variables agree after every instruction, 64-bit
\* variables have two registers or none, and every register that was pinned is unpinned.
THEOREM TablesAgree == ASSUME Proved PROVE Spec => []DescriptorsAgree
  <1>1. IInv => DescriptorsAgree BY TablesRight
  <1> QED BY <1>1, Invariant, PTL

\* Whatever the marks of the operands are, a variable that is not used again in its block
\* has given up its registers.
THEOREM RegistersNeeded == ASSUME Proved PROVE Spec => []RegistersForNextUse
  <1>1. IInv => RegistersForNextUse BY NextUseRight
  <1> QED BY <1>1, Invariant, PTL

\* A temporary never has two slots, and gives up its slot when it dies, provided that
\* temporaries are used in the block that defines them only.
THEOREM SlotsFreed == ASSUME Proved, Crossing \cap Temps = {} PROVE Spec => []SlotsReclaimed
  <1>1. IInv => SlotsReclaimed BY SlotsRight
  <1> QED BY <1>1, Invariant, PTL

\* get_reg0() always finds a register that is not pinned, and load2() always finds the
\* pairs where it expects them, except in the return of a 64-bit value on x86 and MIPS
\* (Misplaced).  AssertionsHold does not speak of assert(modified[i]), arm_cgen.c:276, which
\* can fail.
THEOREM NoAssertionFails ==
  ASSUME Proved, Targets \cap {"x86", "mips"} = {} \/ "ret2" \notin Handlers \/ Wide = {}
  PROVE  Spec => []AssertionsHold
  <1>1. IInv => AssertionsHold
    <2>1. IInv => ~Misplaced BY DEF IInv, Misplaced
    <2> QED BY <2>1, AssertsRight
  <1> QED BY <1>1, Invariant, PTL

\* The code changes, and the tables give to variables, no register of arguments and no
\* callee-save register that modified[] does not name, and the words that have been passed
\* are in their registers.  Left out is a call on x64 with a structure of more than 16 bytes
\* on the stack: x64_pre_call() copies it by way of R12 and R13, which it does not mark.
THEOREM RegistersTidy ==
  ASSUME Proved, "x64" \notin Targets \/ "big_args" \notin Handlers PROVE Spec => [](IInv /\ SInv)
  <1>1. Init => SInv BY StartsTidy
  <1>2. IInv /\ SInv /\ [Next]_vars => SInv'
    <2> SUFFICES ASSUME IInv, SInv, [Next]_vars PROVE SInv' OBVIOUS
    <2>1. target \in Targets BY DEF IInv
    <2>2. CASE x64_Next
      <3>1. target = "x64" BY <2>2, x64_Off
      <3> QED BY <2>1, <2>2, <3>1, x64_StepTidy DEF x64_Kept
    <2>3. CASE x86_Next
      <3>1. target = "x86" BY <2>3, x86_Off
      <3> QED BY <2>1, <2>3, <3>1, x86_StepTidy DEF x86_Kept, Proved
    <2>4. CASE arm_Next
      <3>1. target = "arm" BY <2>4, arm_Off
      <3> QED BY <2>1, <2>4, <3>1, arm_StepTidy DEF arm_Kept, Proved
    <2>5. CASE mips_Next
      <3>1. target = "mips" BY <2>5, mips_Off
      <3> QED BY <2>1, <2>5, <3>1, mips_StepTidy DEF mips_Kept, Proved
    <2>6. CASE UNCHANGED vars BY <2>6, TidyStutters
    <2> QED BY <2>2, <2>3, <2>4, <2>5, <2>6 DEF Next
  <1>3. Spec => []IInv BY Invariant
  <1> QED BY <1>1, <1>2, <1>3, PTL DEF Spec

\* A callee-save register that the emitted code changes is one that the prologue saves:
\* every handler that takes one goes through get_reg0() or sets modified[] itself.
THEOREM SavedByCallee ==
  ASSUME Proved, "x64" \notin Targets \/ "big_args" \notin Handlers PROVE Spec => []CalleeSaved
  <1>1. IInv /\ SInv => CalleeSaved BY SavedRight
  <1> QED BY <1>1, RegistersTidy, PTL

\* The callee finds every argument that was passed in a register, whatever has been
\* computed, spilled or called between the instruction of the argument and the call.
THEOREM ArgumentsFound ==
  ASSUME Proved, "x64" \notin Targets \/ "big_args" \notin Handlers PROVE Spec => []ArgumentsRight
  <1>1. IInv /\ SInv => ArgumentsRight
    <2>1. cg.faults = faults BY DEF cg
    <2> QED BY <2>1 DEF SInv, Tidy, ArgumentsRight
  <1> QED BY <1>1, RegistersTidy, PTL

-----------------------------------------------------------------------------
(* x64_cgen.c: values, stores and spills                                   *)

LEMMA x64_SpillIs ==
  ASSUME Plain
  PROVE  /\ \A m, r, a : x64_store(m, r, a) = ToHome(WithHome(m, a), r, a, 1)
         /\ \A m, a : x64_StoreVar(m, a) = Saved(m, a)
         /\ \A m, r : x64_spill_reg(m, r) = Spilt(m, r)
         /\ \A m, a, live, next : x64_update_arg_descriptors(m, a, live, next) = UpdatedArg(m, a, live, next)
  <1>1. \A m, r, a : x64_store(m, r, a) = ToHome(WithHome(m, a), r, a, 1) BY DEF x64_store, Plain
  <1>2. \A m, a : x64_StoreVar(m, a) = Saved(m, a) BY <1>1 DEF x64_StoreVar, Saved
  <1>3. \A m, r : x64_spill_reg(m, r) = Spilt(m, r) BY <1>2 DEF x64_spill_reg, SpillReg, Spilt
  <1>4. \A m, a, live, next : x64_update_arg_descriptors(m, a, live, next) = UpdatedArg(m, a, live, next)
    <2> TAKE m, a, live, next
    <2>1. PICK k : k = x64_StoreVar(m, a) OBVIOUS
    <2>2. k = Saved(m, a) BY <1>2, <2>1
    <2>3. x64_update_arg_descriptors(m, a, live, next)
            = IF a = Const \/ next THEN m
              ELSE Release(IF live /\ InReg(m, a) THEN k ELSE IF ~live /\ a \in Temps THEN free_temp(m, a) ELSE m,
                           a, m.addr[a])
      BY <2>1 DEF x64_update_arg_descriptors, UpdateArg, Kept
    <2> QED BY <2>2, <2>3 DEF UpdatedArg
  <1> QED BY <1>1, <1>2, <1>3, <1>4

LEMMA x64_SpillSound ==
  ASSUME Plain, NEW S \in SUBSET Vars, NEW m \in Sound(S), NEW r \in Regs, NEW n, n = x64_spill_reg(m, r)
  PROVE  n \in Sound(S) /\ n.R = m.R
  BY x64_SpillIs, SpiltSound

LEMMA x64_SpillTheseSound ==
  ASSUME Plain, NEW S \in SUBSET Vars, NEW m \in Sound(S), NEW X \in SUBSET Vars,
         NEW n, n = SpillThese(m, X, x64_spill_reg)
  PROVE  n \in Sound(S) /\ n.R = m.R
  <1>1. m \in States BY SoundIs
  <1>2. PICK f : n = f[LastReg] /\ x64_Loop(f, m, X) BY <1>1, x64_Spilling
  <1>3. ASSUME NEW r \in 0 .. LastReg, f[r - 1] \in Sound(S) PROVE f[r] \in Sound(S) /\ f[r].R = f[r - 1].R
    <2>1. f[r] = IF r \in Regs /\ f[r - 1].reg[r] \in X THEN x64_spill_reg(f[r - 1], r) ELSE f[r - 1]
      BY <1>2 DEF x64_Loop
    <2> QED BY <1>3, <2>1, x64_SpillSound
  <1>4. f[-1] = m BY <1>2 DEF x64_Loop
  <1>5. PICK N \in Nat : N = LastReg BY LastRegIs
  <1>6. \A r \in 0 .. N : f[r - 1] \in Sound(S) => f[r] \in Sound(S) /\ f[r].R = f[r - 1].R BY <1>3, <1>5
  <1>7. f[N] \in Sound(S) /\ f[N].R = f[-1].R BY <1>4, <1>6, LoopSound
  <1> QED BY <1>2, <1>4, <1>5, <1>7

-----------------------------------------------------------------------------
(* x64_cgen.c: values, registers and operands                              *)

LEMMA x64_Get0Sound ==
  ASSUME Plain, NEW S \in SUBSET Vars, NEW m \in Sound(S), ~ (X64Pool \subseteq m.pinned), NEW n, n = x64_get_reg0(m)
  PROVE  n \in Sound(S) /\ n.R = m.R
  <1>1. m \in States BY SoundIs
  <1>2. X64Pool \in SUBSET Regs /\ Regs \subseteq Nat BY X64Assumption, RegsAre
  <1>3. PICK Z : Z = IF EmptyRegs(m, X64Pool) \subseteq m.pinned
                       THEN X64Pool \ m.pinned ELSE EmptyRegs(m, X64Pool) \ m.pinned
    OBVIOUS
  <1>4. Z # {} /\ Z \in SUBSET Nat /\ Z \subseteq Regs \ m.pinned BY <1>2, <1>3 DEF EmptyRegs
  <1>5. PICK r : r = Min(Z) OBVIOUS
  <1>6. r \in Regs BY <1>4, <1>5, MinIs
  <1>7. n = x64_Take(m, r) BY <1>3, <1>5 DEF x64_get_reg0
  <1>8. PICK k : k = x64_Modified(m, r) OBVIOUS
  <1>9. k \in Picked(m)
    <2>1. {r} \cap CalleeSave["x64"] \in SUBSET Regs BY <1>6
    <2> QED BY <1>1, <1>8, <2>1, ModifiedPicks DEF x64_Modified
  <1>10. k \in Sound(S) /\ k.R = m.R BY <1>9, SoundPicked
  <1>11. PICK q : q = x64_spill_reg(k, r) OBVIOUS
  <1>12. q \in Sound(S) /\ q.R = k.R BY <1>6, <1>10, <1>11, x64_SpillSound
  <1>13. q \in States BY <1>12, SoundIs
  <1>14. n = [q EXCEPT !.got = r] BY <1>7, <1>8, <1>11 DEF x64_Take
  <1>15. n \in Picked(q) BY <1>6, <1>13, <1>14, GotPicks
  <1> QED BY <1>10, <1>12, <1>15, SoundPicked

LEMMA x64_GetRegSound ==
  ASSUME Plain, NEW S \in SUBSET Vars, NEW m \in Sound(S), NEW a \in Vars \cup {Const}, NEW live \in BOOLEAN,
         ~ (X64Pool \subseteq m.pinned), NEW n, n = x64_get_reg(m, a, live)
  PROVE  n \in Sound(S) /\ n.R = m.R
  <1>1. m \in States BY SoundIs
  <1>2. PICK g : g = x64_get_reg0(m) OBVIOUS
  <1>3. n = IF InReg(m, a) /\ ~live THEN [m EXCEPT !.res.r1 = addr_reg1(m, a)] ELSE Got1(g)
    BY <1>2 DEF x64_get_reg, GetReg
  <1>4. CASE InReg(m, a) /\ ~live
    <2>1. addr_reg1(m, a) \in Regs BY <1>1, <1>4, RegOf
    <2>2. PICK r \in Regs : r = addr_reg1(m, a) BY <2>1
    <2>3. n = [m EXCEPT !.res.r1 = r] BY <1>3, <1>4, <2>2
    <2>4. PICK d : d = [m.res EXCEPT !.r1 = r] OBVIOUS
    <2>5. d \in Pairs BY <1>1, <2>2, <2>4 DEF States, Gen, Pairs
    <2>6. n = [m EXCEPT !.res = d] BY <2>3, <2>4
    <2>7. n \in Picked(m) BY <1>1, <2>5, <2>6 DEF Picked, States, Gen
    <2> QED BY <2>7, SoundPicked
  <1>5. CASE ~(InReg(m, a) /\ ~live)
    <2>1. g \in Sound(S) /\ g.R = m.R BY <1>2, x64_Get0Sound
    <2>2. g \in States /\ g.got \in Regs BY <1>1, <1>2, <2>1, x64_Get0, SoundIs
    <2>3. n \in Picked(g) BY <1>3, <1>5, <2>2, Got1Picks
    <2> QED BY <2>1, <2>3, SoundPicked
  <1> QED BY <1>4, <1>5

LEMMA x64_LoadedSound ==
  ASSUME Plain, NEW S \in SUBSET Vars, NEW m \in Sound(S), NEW tar, NEW a \in S \cup {Const},
         ~ (X64Pool \subseteq m.pinned), NEW n, n = x64_Loaded(m, tar, a)
  PROVE  /\ n \in Sound(S) /\ n.res.r1 \in Regs /\ Has(n, n.res.r1, a)
         /\ \A q \in Regs \ {n.res.r1} : n.R[q] = m.R[q]
  <1>1. m \in States BY SoundIs
  <1>2. PICK live \in BOOLEAN : live = Live1(m, tar, a) BY LiveBoolean
  <1>3. PICK k : k = x64_get_reg(m, a, live) OBVIOUS
  <1>4. k \in Sound(S) /\ k.R = m.R BY <1>3, x64_GetRegSound
  <1>5. Ready(k, a, live, Regs) /\ k.res.r1 \in Regs BY <1>1, <1>3, x64_GetReg
  <1>6. n = Load(k, k.res.r1, a) BY <1>2, <1>3 DEF x64_Loaded, x64_LoadRes, x64_load
  <1>7. k.reg[k.res.r1] \notin S \/ (k.reg[k.res.r1] = a /\ a # Const)
    <2>1. k \in Gen BY <1>4, SoundIs
    <2>2. k.reg[k.res.r1] \in Vars \cup {NoVar} BY <1>5, <2>1 DEF Gen
    <2>3. k.reg[k.res.r1] = NoVar \/ k.reg[k.res.r1] = a BY <1>5 DEF Ready, Free
    <2> QED BY <2>2, <2>3, VarsAre, CGenRegsAssumption
  <1>8. /\ n \in Sound(S) /\ Has(n, k.res.r1, a) /\ n.res = k.res
        /\ \A q \in Regs \ {k.res.r1} : n.R[q] = k.R[q]
    BY <1>4, <1>5, <1>6, <1>7, LoadSound
  <1> QED BY <1>4, <1>5, <1>8

LEMMA x64_InPlaceSound ==
  ASSUME Plain, NEW S \in SUBSET Vars, NEW m \in Sound(S), NEW tar, NEW a \in S \cup {Const},
         ~ (X64Pool \subseteq m.pinned), NEW n, n = x64_InPlace(m, tar, a)
  PROVE  n \in Sound(S) /\ n.res.r1 \in Regs /\ Has(n, n.res.r1, a)
  <1>1. CASE InReg(m, a)
    <2>1. m \in States /\ a \in S BY <1>1, SoundIs DEF InReg
    <2>2. addr_reg1(m, a) \in Regs /\ Has(m, addr_reg1(m, a), a) BY <1>1, <2>1, SoundHas
    <2>3. n = Into(m, addr_reg1(m, a), None) BY <1>1 DEF x64_InPlace
    <2>4. n \in Picked(m) /\ n.res.r1 = addr_reg1(m, a) BY <2>1, <2>2, <2>3, IntoPicks
    <2>5. n \in Sound(S) /\ n.R = m.R BY <2>4, SoundPicked
    <2> QED BY <2>2, <2>4, <2>5 DEF Has
  <1>2. CASE ~InReg(m, a) BY <1>2, x64_LoadedSound DEF x64_InPlace
  <1> QED BY <1>1, <1>2

\* The operand is loaded into the register of get_reg0().
LEMMA x64_GotSound ==
  ASSUME Plain, NEW S \in SUBSET Vars, NEW m \in Sound(S), NEW a \in S \cup {Const},
         ~ (X64Pool \subseteq m.pinned), NEW n, n = InGot(x64_LoadGot(x64_get_reg0(m), a))
  PROVE  /\ n \in Sound(S) /\ <<a, 1>> \in n.opd /\ n.res = m.res
         /\ \A q \in Regs : q \in m.pinned \/ q # x64_get_reg0(m).got => n.R[q] = m.R[q]
  <1>1. m \in States BY SoundIs
  <1>2. PICK g : g = x64_get_reg0(m) OBVIOUS
  <1>3. g \in Sound(S) /\ g.R = m.R BY <1>2, x64_Get0Sound
  <1>4. g \in Fewer(m) /\ g.got \in Regs \ m.pinned /\ g.reg[g.got] = NoVar BY <1>1, <1>2, x64_Get0
  <1>5. PICK l : l = Load(g, g.got, a) OBVIOUS
  <1>6. g.reg[g.got] \notin S BY <1>4, VarsAre
  <1>7. /\ l \in Sound(S) /\ Has(l, g.got, a) /\ l.res = g.res /\ l.got = g.got
        /\ \A q \in Regs \ {g.got} : l.R[q] = g.R[q]
    BY <1>3, <1>4, <1>5, <1>6, LoadSound
  <1>8. n = Operand(l, l.R[g.got]) BY <1>2, <1>5, <1>7 DEF x64_LoadGot, x64_load, InGot
  <1>9. n \in Sound(S) /\ n.R = l.R /\ n.res = l.res /\ <<a, 1>> \in n.opd BY <1>4, <1>7, <1>8, InRegSound
  <1>10. g.res = m.res BY <1>4 DEF Fewer
  <1> QED BY <1>2, <1>3, <1>4, <1>7, <1>9, <1>10

LEMMA x64_OperandSound ==
  ASSUME Plain, NEW S \in SUBSET Vars, NEW m \in Sound(S), NEW a \in S \cup {Const}, NEW long,
         ~ (X64Pool \subseteq m.pinned), NEW n, n = x64_get_operand(m, a, long)
  PROVE  n \in Sound(S) /\ <<a, 1>> \in n.opd /\ n.res = m.res /\ \A q \in Regs \cap m.pinned : n.R[q] = m.R[q]
  <1>1. m \in States BY SoundIs
  <1>2. CASE InReg(m, a)
    <2>1. a \in S BY <1>2 DEF InReg
    <2>2. addr_reg1(m, a) \in Regs /\ Has(m, addr_reg1(m, a), a) BY <1>2, <2>1, SoundHas
    <2>3. n = Operand(m, m.R[addr_reg1(m, a)]) BY <1>2 DEF x64_get_operand
    <2> QED BY <2>2, <2>3, InRegSound
  <1>3. CASE ~InReg(m, a) /\ (a \in Bytes \/ (a = Const /\ long))
    <2>1. n = InGot(x64_LoadGot(x64_get_reg0(m), a)) BY <1>3 DEF x64_get_operand
    <2> QED BY <2>1, x64_GotSound
  <1>4. CASE ~InReg(m, a) /\ ~(a \in Bytes \/ (a = Const /\ long)) /\ a = Const
    <2>1. PICK C : C = {<<Const, 1>>} OBVIOUS
    <2>2. C \in Contents /\ <<Const, 1>> \in C BY <2>1, TokensAre
    <2>3. n = Operand(m, C) BY <1>4, <2>1 DEF x64_get_operand
    <2>4. n \in Sound(S) /\ n.R = m.R /\ n.res = m.res /\ n.opd = C BY <2>2, <2>3, OperandSound
    <2> QED BY <1>4, <2>2, <2>4
  <1>5. CASE ~InReg(m, a) /\ ~(a \in Bytes \/ (a = Const /\ long)) /\ a # Const
    <2>1. n = InHome(WithHome(m, a), a, 1) /\ a \in S BY <1>5 DEF x64_get_operand
    <2> QED BY <1>5, <2>1, InHomeSound
  <1> QED BY <1>2, <1>3, <1>4, <1>5

LEMMA x64_OnOperandsSound ==
  ASSUME Plain, Roomy(X64Pool), NEW S \in SUBSET Vars, NEW m \in Sound(S), m.pinned = {}, m.res.r1 \in Regs,
         NEW a1, Has(m, m.res.r1, a1), NEW a2 \in S \cup {Const}, NEW long,
         NEW n, n = x64_OnOperands(m, a1, a2, long)
  PROVE  n \in Sound(S) /\ n.res = m.res /\ Has(n, m.res.r1, a1)
  <1>1. PICK r \in Regs : r = m.res.r1 OBVIOUS
  <1>2. m \in States BY SoundIs
  <1>3. PICK p : p = pin_reg(m, r) OBVIOUS
  <1>4. p \in Picked(m) /\ p.pinned = {} \cup {r} /\ p.res = m.res BY <1>2, <1>3, PinPicks
  <1>5. p \in Sound(S) /\ p.R = m.R BY <1>4, SoundPicked
  <1>6. ~ (X64Pool \subseteq p.pinned)
    <2>1. ~ (X64Pool \subseteq {r, r}) BY DEF Roomy
    <2> QED BY <1>4, <2>1
  <1>7. PICK k : k = x64_get_operand(p, a2, long) OBVIOUS
  <1>8. k \in Sound(S) /\ <<a2, 1>> \in k.opd /\ k.res = p.res /\ k.R[r] = p.R[r]
    BY <1>4, <1>5, <1>6, <1>7, x64_OperandSound
  <1>9. RightOpd(k, a2, 1) = k BY <1>8, ReadsRight
  <1>10. Has(k, k.res.r1, a1) BY <1>1, <1>4, <1>5, <1>8 DEF Has
  <1>11. RightRes(k, a1) = k BY <1>10, ReadsRight
  <1>12. p = PinRes(m) BY <1>1, <1>3 DEF PinRes
  <1>13. n = unpin_reg(k, k.res.r1) BY <1>7, <1>9, <1>11, <1>12 DEF x64_OnOperands, UnpinRes
  <1>14. k \in States BY <1>8, SoundIs
  <1>15. n \in Picked(k) /\ n.res = k.res BY <1>13, <1>14, UnpinPicks
  <1>16. n \in Sound(S) /\ n.R = k.R BY <1>8, <1>15, SoundPicked
  <1> QED BY <1>4, <1>8, <1>10, <1>15, <1>16 DEF Has

-----------------------------------------------------------------------------
(* x64_cgen.c: values, the ends of the handlers                            *)

LEMMA x64_TarSound ==
  ASSUME Plain, NEW T \in SUBSET Vars, NEW m \in Sound(T), NEW tar \in Vars, tar \notin T, Marked(m, tar, {}, Regs),
         m.res.r1 \in Regs, m.reg[m.res.r1] = NoVar, Has(m, m.res.r1, tar),
         NEW U, U \subseteq T \cup {tar}, tar \in U => Live(m, tar), NEW n, n = x64_update_tar(m, tar)
  PROVE  n \in Sound(U)
  <1>1. PICK r \in Regs : r = m.res.r1 OBVIOUS
  <1>2. PICK b : b = Bind(m, r, tar) OBVIOUS
  <1>3. PICK k : k = x64_store(b, r, tar) OBVIOUS
  <1>4. k = ToHome(WithHome(b, tar), r, tar, 1) BY <1>3, x64_SpillIs
  <1>5. n = IF Used(m, tar) THEN b ELSE Unbind(IF Live(m, tar) THEN k ELSE b, r, tar)
    BY <1>1, <1>2, <1>3 DEF x64_update_tar, x64_update_tar_descriptors, UpdateTar
  <1>6. tar \in Vars \ Wide BY DEF Plain
  <1> QED BY <1>1, <1>2, <1>4, <1>5, <1>6, TarSound

LEMMA x64_ArgsSound ==
  ASSUME Plain, NEW tar, NEW n, NEW T \in SUBSET Vars, T \subseteq Alive(n) \ {tar}, n \in Sound(T),
         NEW a1 \in Vars \cup {Const}, NEW a2 \in Vars \cup {Const}, NEW q, q = x64_update_args(n, tar, a1, a2)
  PROVE  q \in Sound(T) /\ q.R = n.R
  <1>1. PICK k : k = x64_update_arg_descriptors(n, a1, Live1(n, tar, a1), Used1(n, tar, a1)) OBVIOUS
  <1>2. q = x64_update_arg_descriptors(k, a2, Live2(n, tar, a1, a2), Used2(n, tar, a1, a2))
    BY <1>1 DEF x64_update_args, UpdateArgs
  <1> QED BY <1>1, <1>2, x64_SpillIs, ArgsSound

\* The target is set.
LEMMA x64_SetsSound ==
  ASSUME Plain, IInv', target = "x64", "x64" \in Targets, NEW tar \in Vars, NEW n, Going(n, tar, {}, {}),
         n.res.r1 \in Regs, n.reg[n.res.r1] = NoVar, NEW T, T = Alive(n) \ {tar}, n \in Sound(T), Has(n, n.res.r1, tar),
         Commit(x64_update_tar(n, tar))
  PROVE  VInv'
  <1>1. Marked(n, tar, {}, Regs) BY GoingIs DEF Usable
  <1>2. PICK q : q = x64_update_tar(n, tar) OBVIOUS
  <1>3. q \in Done(n, Regs) BY <1>1, <1>2, x64_TarRight
  <1>4. Alive(q) = Alive(n) BY <1>3 DEF Done, Alive
  <1>5. T \in SUBSET Vars /\ tar \notin T /\ Alive(n) \subseteq T \cup {tar} BY AliveIs
  <1>6. tar \in Alive(n) => Live(n, tar) BY DEF Alive, Live
  <1>7. q \in Sound(Alive(n)) BY <1>1, <1>2, <1>5, <1>6, x64_TarSound
  <1> QED BY <1>2, <1>4, <1>7, FinishSound

\* The result is in n.res; a1's register may be taken for it.
LEMMA x64_DefinesSound ==
  ASSUME Plain, IInv', target = "x64", "x64" \in Targets, NEW tar \in Vars,
         NEW a1 \in Vars \cup {Const}, NEW a2 \in Vars \cup {Const}, NEW n, Going(n, tar, {a1, a2}, {}),
         Free(n, n.res.r1, a1, Live1(n, tar, a1)), NEW T, T = Alive(n) \ {tar}, n \in Sound(T), Has(n, n.res.r1, tar),
         Commit(x64_UPDATE_ADDRESSES(n, tar, a1, a2))
  PROVE  VInv'
  <1>1. PICK u : u = x64_update_args(n, tar, a1, a2) OBVIOUS
  <1>2. Going(u, tar, {}, {}) /\ u.res = n.res /\ u \in Settled(n, tar, a1, Regs) BY <1>1, x64_ArgsGoing
  <1>3. n.res.r1 \in Regs BY DEF Free
  <1>4. u.reg[n.res.r1] = NoVar BY <1>1, <1>3, x64_ArgsFree
  <1>5. T \in SUBSET Vars /\ T \subseteq Alive(n) \ {tar} BY AliveIs
  <1>6. u \in Sound(T) /\ u.R = n.R BY <1>1, <1>5, x64_ArgsSound
  <1>7. Alive(u) = Alive(n)
    <2>1. n \in States /\ u \in After(n, {}) BY <1>2, GoingIs, FewerIs DEF Settled
    <2> QED BY <2>1, AfterIs DEF Alive
  <1>8. Has(u, u.res.r1, tar) BY <1>2, <1>6 DEF Has
  <1>9. Commit(x64_update_tar(u, tar)) BY <1>1 DEF x64_UPDATE_ADDRESSES
  <1> QED BY <1>2, <1>3, <1>4, <1>6, <1>7, <1>8, <1>9, x64_SetsSound

LEMMA x64_UsesSound ==
  ASSUME Plain, IInv', target = "x64", NEW a1 \in Vars \cup {Const}, NEW a2 \in Vars \cup {Const},
         NEW n, Going(n, NoVar, {a1, a2}, {}), n \in Sound(Alive(n)), NEW u, u = x64_update_args(n, NoVar, a1, a2)
  PROVE  Alive(u) = Alive(n) /\ u \in Sound(Alive(u)) /\ u.R = n.R
  <1>1. u \in Settled(n, NoVar, a1, Regs) BY x64_ArgsGoing
  <1>2. Alive(n) \in SUBSET Vars /\ Alive(n) \subseteq Alive(n) \ {NoVar} BY AliveIs, VarsAre
  <1>3. u \in Sound(Alive(n)) /\ u.R = n.R BY <1>2, x64_ArgsSound
  <1>4. Alive(u) = Alive(n)
    <2>1. n \in States /\ u \in After(n, {}) BY <1>1, GoingIs, FewerIs DEF Settled
    <2> QED BY <2>1, AfterIs DEF Alive
  <1> QED BY <1>3, <1>4

\* What the lemmas on the values assume: an instruction has begun, and its operands are in
\* place.
x64_Begun(m, tar, args, implicit) ==
  /\ Plain /\ IInv' /\ x64_Runs /\ VInv /\ target = "x64" /\ "x64" \in Targets
  /\ implicit \subseteq Crossing /\ m \in Marks(tar, args, implicit)

LEMMA x64_BeginSound ==
  ASSUME NEW tar, NEW args, NEW implicit, NEW m, x64_Begun(m, tar, args, implicit), NEW h, Enabled("x64", h)
  PROVE  /\ Going(m, tar, args, {}) /\ m.args = arg_words /\ m \in States /\ m.pinned = {}
         /\ ~ (X64Pool \subseteq m.pinned) /\ Alive(cg) \in SUBSET Vars /\ m \in Sound(Alive(cg))
         /\ Alive(m) \ {tar} \subseteq Alive(cg) \ {tar} /\ Alive(m) \ {tar} \in SUBSET Vars
         /\ \A a \in args \cap (Vars \cup {Const}) : a \in Alive(cg) \cup {Const}
         /\ \A v \in implicit \cap Vars : v \in Alive(cg)
         /\ m.reg = cg.reg /\ m.addr = cg.addr
  <1>1. /\ Going(m, tar, args, {}) /\ m.args = arg_words /\ m \in States /\ m.pinned = {}
        /\ ~ (X64Pool \subseteq m.pinned)
    BY x64_Begin DEF x64_Begun
  <1>2. /\ m \in Sound(Alive(cg)) /\ Alive(m) \ {tar} \subseteq Alive(cg)
        /\ \A a \in args \cap Vars : a \in Alive(cg)
        /\ \A v \in implicit \cap Vars : v \in Alive(cg)
        /\ m.reg = cg.reg /\ m.addr = cg.addr
    BY <1>1, BeginSound DEF x64_Begun
  <1> QED BY <1>1, <1>2, AliveIs

\* The register of the result holds nothing that lives on.
LEMMA x64_FreeNot ==
  ASSUME NEW n \in States, NEW r, NEW a1, NEW tar, NEW m, Free(n, r, a1, Live1(m, tar, a1))
  PROVE  n.reg[r] \notin Alive(m) \ {tar}
  BY VarsAre DEF Free, Live1, Live, Alive

LEMMA x64_ComputedSound ==
  ASSUME NEW tar \in Vars, NEW a1 \in Vars \cup {Const}, NEW a2 \in Vars \cup {Const},
         NEW args, args \subseteq {a1, a2}, NEW implicit, NEW m, x64_Begun(m, tar, args, implicit), Going(m, tar, args, {}),
         NEW A \in SUBSET Vars, A \subseteq args, NEW n \in Reached(m, A, {}),
         Free(n, n.res.r1, a1, Live1(m, tar, a1)), n \in Sound(Alive(m) \ {tar}), Has(n, n.res.r1, tar),
         Commit(x64_UPDATE_ADDRESSES(n, tar, a1, a2))
  PROVE  VInv'
  <1>1. m \in States BY GoingIs
  <1>2. Going(n, tar, {a1, a2}, {}) BY GoingReached
  <1>3. n.fut = m.fut BY <1>1, ReachedState
  <1>4. Live1(n, tar, a1) = Live1(m, tar, a1) /\ Alive(n) = Alive(m) BY <1>3, LiveSame DEF Alive
  <1> QED BY <1>2, <1>4, x64_DefinesSound DEF x64_Begun

LEMMA x64_ReadSound ==
  ASSUME NEW a1 \in Vars \cup {Const}, NEW a2 \in Vars \cup {Const},
         NEW args, args \subseteq {a1, a2}, NEW implicit, NEW m, x64_Begun(m, NoVar, args, implicit),
         Going(m, NoVar, args, {}), Alive(m) \ {NoVar} \subseteq Alive(cg) \ {NoVar},
         NEW A \in SUBSET Vars, A \subseteq args, NEW n \in Reached(m, A, {}), n \in Sound(Alive(cg)),
         Commit(x64_update_args(n, NoVar, a1, a2))
  PROVE  VInv'
  <1>1. m \in States BY GoingIs
  <1>2. Going(n, NoVar, {a1, a2}, {}) BY GoingReached
  <1>3. n.fut = m.fut BY <1>1, ReachedState
  <1>4. Alive(n) \subseteq Alive(cg)
    <2>1. Alive(n) = Alive(m) /\ NoVar \notin Alive(m) BY <1>3, VarsAre DEF Alive
    <2> QED BY <2>1
  <1>5. n \in Sound(Alive(n)) BY <1>4, SoundLess
  <1>6. PICK u : u = x64_update_args(n, NoVar, a1, a2) OBVIOUS
  <1>7. u \in Sound(Alive(u)) BY <1>2, <1>5, <1>6, x64_UsesSound DEF x64_Begun
  <1> QED BY <1>6, <1>7, FinishSound DEF x64_Begun

-----------------------------------------------------------------------------
(* x64_cgen.c: values, the handlers                                        *)

x64_Good == x64_Runs /\ Plain /\ VInv

\* An instruction has begun.
x64_Ready(m, tar, args) ==
  /\ target = "x64" /\ "x64" \in Targets /\ Going(m, tar, args, {}) /\ m \in States /\ m.pinned = {}
  /\ ~ (X64Pool \subseteq m.pinned) /\ Alive(cg) \in SUBSET Vars /\ m \in Sound(Alive(cg))
  /\ Alive(m) \ {tar} \subseteq Alive(cg) \ {tar} /\ Alive(m) \ {tar} \in SUBSET Vars
  /\ \A a \in args \cap (Vars \cup {Const}) : a \in Alive(cg) \cup {Const}

LEMMA x64_BeginsSound ==
  ASSUME x64_Good, IInv', NEW h, Enabled("x64", h), NEW tar, NEW args, NEW implicit, implicit \subseteq Crossing,
         NEW m \in Marks(tar, args, implicit)
  PROVE  x64_Begun(m, tar, args, implicit) /\ x64_Ready(m, tar, args) /\ \A v \in implicit \cap Vars : v \in Alive(cg)
  <1>1. target = "x64" /\ "x64" \in Targets BY x64_Begin DEF x64_Good
  <1>2. x64_Begun(m, tar, args, implicit) BY <1>1 DEF x64_Begun, x64_Good
  <1> QED BY <1>1, <1>2, x64_BeginSound DEF x64_Ready

\* The operands are m's, the result is computed in k's result register.
LEMMA x64_ComputesHere ==
  ASSUME NEW tar \in Vars, NEW a1 \in Vars \cup {Const}, NEW a2 \in Vars \cup {Const},
         NEW args, args \subseteq {a1, a2}, NEW implicit, NEW m, x64_Begun(m, tar, args, implicit), x64_Ready(m, tar, args),
         NEW A \in SUBSET Vars, A \subseteq args, NEW k \in Reached(m, A, {}), k \in Sound(Alive(m) \ {tar}),
         k.res.r1 \in Regs, Free(k, k.res.r1, a1, Live1(m, tar, a1)),
         NEW n, n = Computes(k, tar), Commit(x64_UPDATE_ADDRESSES(n, tar, a1, a2))
  PROVE  VInv'
  <1>1. PICK T : T = Alive(m) \ {tar} OBVIOUS
  <1>2. T \in SUBSET Vars /\ T \subseteq T \ {tar} BY <1>1 DEF x64_Ready
  <1>3. m \in States /\ Going(m, tar, args, {}) BY DEF x64_Ready
  <1>4. k \in States /\ k \in Gen BY <1>3, ReachedIs
  <1>5. k.reg[k.res.r1] \notin T BY <1>1, <1>4, x64_FreeNot
  <1>6. n \in Sound(T) /\ n.res = k.res /\ n.reg = k.reg /\ Has(n, k.res.r1, tar)
    BY <1>1, <1>2, <1>5, ComputesSound
  <1>7. n \in Emitted(k) BY <1>4, EmittedSelf, ComputesEmits
  <1>8. n \in Reached(m, A, {}) BY <1>3, <1>7, ReachedEmitted
  <1>9. Free(n, n.res.r1, a1, Live1(m, tar, a1)) BY <1>6 DEF Free
  <1>10. Has(n, n.res.r1, tar) /\ n \in Sound(Alive(m) \ {tar}) BY <1>1, <1>6
  <1> QED BY <1>3, <1>8, <1>9, <1>10, x64_ComputedSound

LEMMA x64_ComputesSound ==
  ASSUME NEW tar \in Vars, NEW a1 \in Vars \cup {Const}, NEW a2 \in Vars \cup {Const},
         NEW args, args \subseteq {a1, a2}, NEW implicit, NEW m, x64_Begun(m, tar, args, implicit), x64_Ready(m, tar, args),
         NEW A \in SUBSET Vars, A \subseteq args, NEW k \in Reached(m, A, {}), k \in Sound(Alive(cg)), k.res.r1 \in Regs,
         Free(k, k.res.r1, a1, Live1(m, tar, a1)),
         NEW n, n = Computes(k, tar), Commit(x64_UPDATE_ADDRESSES(n, tar, a1, a2))
  PROVE  VInv'
  <1>1. Alive(m) \ {tar} \subseteq Alive(cg) BY DEF x64_Ready
  <1>2. k \in Sound(Alive(m) \ {tar}) BY <1>1, SoundLess
  <1> QED BY <1>2, x64_ComputesHere

LEMMA x64_AluSound ==
  ASSUME x64_Good, NEW tar \in WordTemps, NEW a1 \in Vars \cup {Const}, NEW a2 \in Vars \cup {Const}, NEW long,
         x64_alu(tar, a1, a2, long)
  PROVE  VInv'
  <1>1. PICK m \in Marks(tar, {a1, a2}, {}) :
          /\ Enabled("x64", "alu")
          /\ Commit(x64_UPDATE_ADDRESSES(Computes(x64_OnOperands(x64_Loaded(m, tar, a1), a1, a2, long), tar),
                                         tar, a1, a2))
    BY DEF x64_alu
  <1>2. PICK A : A = Named(a1, a2) OBVIOUS
  <1>3. A \in SUBSET Vars /\ A \subseteq {a1, a2} /\ a1 \in A \cup {Const} /\ a2 \in A \cup {Const} /\ tar \in Vars
    BY <1>2, NamedIs, CGenRegsAssumption DEF WordTemps
  <1>4. IInv' BY x64_AluRight DEF x64_Good
  <1>5. x64_Begun(m, tar, {a1, a2}, {}) /\ x64_Ready(m, tar, {a1, a2}) BY <1>1, <1>4, x64_BeginsSound
  <1>6. PICK S : S = Alive(cg) OBVIOUS
  <1>7. /\ S \in SUBSET Vars /\ a1 \in S \cup {Const} /\ a2 \in S \cup {Const} /\ m \in Sound(S) /\ m \in States
        /\ m.pinned = {} /\ ~ (X64Pool \subseteq m.pinned) /\ Plain
    BY <1>5, <1>6 DEF x64_Ready, x64_Good
  <1>8. PICK k : k = x64_Loaded(m, tar, a1) OBVIOUS
  <1>9. k \in Reached(m, A, {}) /\ k.res.r1 \in Regs /\ Free(k, k.res.r1, a1, Live1(m, tar, a1))
    BY <1>3, <1>7, <1>8, x64_LoadedRight
  <1>10. k \in Sound(S) /\ Has(k, k.res.r1, a1) BY <1>7, <1>8, x64_LoadedSound
  <1>11. k \in States /\ k.pinned = {} BY <1>3, <1>7, <1>9, ReachedState
  <1>12. PICK q : q = x64_OnOperands(k, a1, a2, long) OBVIOUS
  <1>13. q \in Sound(S) /\ q.res = k.res
    BY <1>7, <1>9, <1>10, <1>11, <1>12, x64_OnOperandsSound DEF x64_Good, x64_Runs
  <1>14. q \in Still(k, A) BY <1>3, <1>9, <1>11, <1>12, x64_OnOperandsStill DEF x64_Good, x64_Runs
  <1>15. q \in Reached(m, A, {}) BY <1>3, <1>7, <1>9, <1>14, ReachedStill
  <1>16. Free(q, q.res.r1, a1, Live1(m, tar, a1)) BY <1>3, <1>9, <1>11, <1>13, <1>14, FreeKept, StillIs
  <1>17. q.res.r1 \in Regs BY <1>9, <1>13
  <1>18. PICK n : n = Computes(q, tar) OBVIOUS
  <1>19. Commit(x64_UPDATE_ADDRESSES(n, tar, a1, a2)) BY <1>1, <1>8, <1>12, <1>18
  <1> QED BY <1>3, <1>5, <1>6, <1>13, <1>15, <1>16, <1>17, <1>18, <1>19, x64_ComputesSound

LEMMA x64_UnarySound ==
  ASSUME x64_Good, NEW tar \in Vars, NEW a1 \in Vars, x64_unary(tar, a1) PROVE VInv'
  <1>1. PICK m \in Marks(tar, {a1}, {}) :
          /\ Enabled("x64", "unary")
          /\ Commit(x64_UPDATE_ADDRESSES(Computes(RightRes(x64_Loaded(m, tar, a1), a1), tar), tar, a1, Const))
    BY DEF x64_unary
  <1>2. PICK A : A = {a1} OBVIOUS
  <1>3. A \in SUBSET Vars /\ A \subseteq A /\ a1 \in A \cup {Const} /\ A \subseteq {a1, Const} BY <1>2
  <1>4. IInv' BY x64_UnaryRight DEF x64_Good
  <1>5. x64_Begun(m, tar, A, {}) /\ x64_Ready(m, tar, A) BY <1>1, <1>2, <1>4, x64_BeginsSound
  <1>6. PICK S : S = Alive(cg) OBVIOUS
  <1>7. /\ S \in SUBSET Vars /\ a1 \in S \cup {Const} /\ m \in Sound(S) /\ m \in States
        /\ m.pinned = {} /\ ~ (X64Pool \subseteq m.pinned) /\ Plain
    BY <1>2, <1>5, <1>6 DEF x64_Ready, x64_Good
  <1>8. PICK k : k = x64_Loaded(m, tar, a1) OBVIOUS
  <1>9. k \in Reached(m, A, {}) /\ k.res.r1 \in Regs /\ Free(k, k.res.r1, a1, Live1(m, tar, a1))
    BY <1>3, <1>7, <1>8, x64_LoadedRight
  <1>10. k \in Sound(S) /\ Has(k, k.res.r1, a1) BY <1>7, <1>8, x64_LoadedSound
  <1>11. RightRes(k, a1) = k BY <1>7, <1>10, ReadsRight
  <1>12. PICK n : n = Computes(k, tar) OBVIOUS
  <1>13. Commit(x64_UPDATE_ADDRESSES(n, tar, a1, Const)) BY <1>1, <1>8, <1>11, <1>12
  <1>14. Const \in Vars \cup {Const} /\ a1 \in Vars \cup {Const} OBVIOUS
  <1> QED BY <1>3, <1>5, <1>6, <1>9, <1>10, <1>12, <1>13, <1>14, x64_ComputesSound

LEMMA x64_AsnSound ==
  ASSUME x64_Good, NEW tar \in Vars, NEW a1 \in Vars \cup {Const}, x64_asn(tar, a1) PROVE VInv'
  <1>1. PICK m \in Marks(tar, {a1}, {}) :
          /\ Enabled("x64", "asn")
          /\ Commit(x64_UPDATE_ADDRESSES(Copies(RightRes(x64_Loaded(m, tar, a1), a1), tar, a1), tar, a1, Const))
    BY DEF x64_asn
  <1>2. PICK A, args : A = args \cap Vars /\ args = {a1} OBVIOUS
  <1>3. A \in SUBSET Vars /\ A \subseteq args /\ a1 \in A \cup {Const} /\ args \subseteq {a1, Const} BY <1>2
  <1>4. IInv' BY x64_AsnRight DEF x64_Good
  <1>5. x64_Begun(m, tar, args, {}) /\ x64_Ready(m, tar, args) BY <1>1, <1>2, <1>4, x64_BeginsSound
  <1>6. PICK S, T : S = Alive(cg) /\ T = Alive(m) \ {tar} OBVIOUS
  <1>7. /\ S \in SUBSET Vars /\ a1 \in S \cup {Const} /\ m \in Sound(S) /\ m \in States
        /\ m.pinned = {} /\ ~ (X64Pool \subseteq m.pinned) /\ Plain
        /\ T \subseteq S \ {tar} /\ Going(m, tar, args, {})
    BY <1>2, <1>5, <1>6 DEF x64_Ready, x64_Good
  <1>8. PICK k : k = x64_Loaded(m, tar, a1) OBVIOUS
  <1>9. k \in Reached(m, A, {}) /\ k.res.r1 \in Regs /\ Free(k, k.res.r1, a1, Live1(m, tar, a1))
    BY <1>3, <1>7, <1>8, x64_LoadedRight
  <1>10. k \in Sound(S) /\ Has(k, k.res.r1, a1) BY <1>7, <1>8, x64_LoadedSound
  <1>11. RightRes(k, a1) = k BY <1>7, <1>10, ReadsRight
  <1>12. PICK n : n = Copies(k, tar, a1) OBVIOUS
  <1>13. n \in Sound(T) /\ n.res = k.res /\ n.reg = k.reg /\ Has(n, k.res.r1, tar)
    BY <1>7, <1>9, <1>10, <1>12, CopiesSound
  <1>14. n \in Emitted(k) BY <1>10, <1>12, EmittedSelf, CopiesEmits, SoundIs
  <1>15. n \in Reached(m, A, {}) BY <1>3, <1>7, <1>9, <1>14, ReachedEmitted
  <1>16. Free(n, n.res.r1, a1, Live1(m, tar, a1)) BY <1>9, <1>13 DEF Free
  <1>17. Has(n, n.res.r1, tar) /\ n \in Sound(Alive(m) \ {tar}) BY <1>6, <1>13
  <1>18. Commit(x64_UPDATE_ADDRESSES(n, tar, a1, Const)) BY <1>1, <1>8, <1>11, <1>12
  <1>19. Const \in Vars \cup {Const} OBVIOUS
  <1> QED BY <1>3, <1>5, <1>7, <1>15, <1>16, <1>17, <1>18, <1>19, x64_ComputedSound

LEMMA x64_AddrOfSound ==
  ASSUME x64_Good, NEW tar \in Vars, x64_addr_of(tar) PROVE VInv'
  <1>1. PICK m \in Marks(tar, {}, {}) :
          Enabled("x64", "addr_of") /\ Commit(x64_update_tar(Computes(Got1(x64_get_reg0(m)), tar), tar))
    BY DEF x64_addr_of
  <1>2. IInv' BY x64_AddrOfRight DEF x64_Good
  <1>3. x64_Ready(m, tar, {}) BY <1>1, <1>2, x64_BeginsSound
  <1>4. PICK S, T : S = Alive(cg) /\ T = Alive(m) \ {tar} OBVIOUS
  <1>5. /\ target = "x64" /\ "x64" \in Targets /\ Going(m, tar, {}, {}) /\ m \in States /\ m.pinned = {}
        /\ ~ (X64Pool \subseteq m.pinned) /\ m \in Sound(S) /\ T \subseteq S \ {tar} /\ S \in SUBSET Vars /\ Plain
    BY <1>3, <1>4 DEF x64_Ready, x64_Good
  <1>6. PICK g : g = x64_get_reg0(m) OBVIOUS
  <1>7. g \in Fewer(m) /\ g.got \in Regs \cap Regs /\ g.reg[g.got] = NoVar BY <1>5, <1>6, x64_Get0
  <1>8. g \in Sound(S) BY <1>5, <1>6, x64_Get0Sound
  <1>9. PICK k : k = Got1(g) OBVIOUS
  <1>10. k \in After(m, {}) /\ k.pinned = {} /\ k.res.r1 = g.got /\ k.reg = g.reg
    BY <1>5, <1>7, <1>9, NewRegRight
  <1>11. k \in Reached(m, {}, {}) /\ k \in States /\ k \in Gen BY <1>5, <1>10, AfterIs DEF Reached, States
  <1>12. k \in Sound(S)
    <2>1. k.temps = g.temps /\ k.addr = g.addr /\ k.R = g.R /\ k.M = g.M /\ k.faults = g.faults
      BY <1>7, <1>9 DEF Got1
    <2> QED BY <1>8, <1>11, <2>1, PresentSame, SoundIs DEF Sound
  <1>13. PICK n : n = Computes(k, tar) OBVIOUS
  <1>14. NoVar \notin T BY <1>5, VarsAre
  <1>15. n \in Sound(T) /\ n.res = k.res /\ n.reg = k.reg /\ Has(n, k.res.r1, tar)
    BY <1>5, <1>7, <1>10, <1>12, <1>13, <1>14, ComputesSound
  <1>16. n \in Emitted(k) BY <1>7, <1>10, <1>11, <1>13, EmittedSelf, ComputesEmits
  <1>17. n \in Reached(m, {}, {}) BY <1>5, <1>11, <1>16, ReachedEmitted
  <1>18. Going(n, tar, {}, {}) BY <1>5, <1>17, GoingReached
  <1>19. T = Alive(n) \ {tar}
    <2>1. n.fut = m.fut BY <1>5, <1>17, ReachedState
    <2> QED BY <1>4, <2>1 DEF Alive
  <1>20. Has(n, n.res.r1, tar) /\ n.res.r1 \in Regs /\ n.reg[n.res.r1] = NoVar BY <1>7, <1>10, <1>15
  <1> QED BY <1>1, <1>2, <1>5, <1>6, <1>9, <1>13, <1>15, <1>18, <1>19, <1>20, x64_SetsSound

LEMMA x64_RelopJumpSound ==
  ASSUME x64_Good, NEW a1 \in Vars \cup {Const}, NEW a2 \in Vars \cup {Const}, NEW long,
         x64_relop_jump(a1, a2, long)
  PROVE  VInv'
  <1>1. PICK m \in Marks(NoVar, {a1, a2}, {}) :
          /\ Enabled("x64", "relop_jump")
          /\ Commit(x64_update_args(x64_OnOperands(x64_InPlace(m, NoVar, a1), a1, a2, long), NoVar, a1, a2))
    BY DEF x64_relop_jump
  <1>2. PICK A : A = Named(a1, a2) OBVIOUS
  <1>3. A \in SUBSET Vars /\ A \subseteq {a1, a2} /\ a1 \in A \cup {Const} /\ a2 \in A \cup {Const}
    BY <1>2, NamedIs
  <1>4. IInv' BY x64_RelopJumpRight DEF x64_Good
  <1>5. x64_Begun(m, NoVar, {a1, a2}, {}) /\ x64_Ready(m, NoVar, {a1, a2}) BY <1>1, <1>4, x64_BeginsSound
  <1>6. PICK S : S = Alive(cg) OBVIOUS
  <1>7. /\ S \in SUBSET Vars /\ a1 \in S \cup {Const} /\ a2 \in S \cup {Const} /\ m \in Sound(S) /\ m \in States
        /\ m.pinned = {} /\ ~ (X64Pool \subseteq m.pinned) /\ Plain /\ Going(m, NoVar, {a1, a2}, {})
        /\ Alive(m) \ {NoVar} \subseteq Alive(cg) \ {NoVar}
    BY <1>5, <1>6 DEF x64_Ready, x64_Good
  <1>8. PICK k : k = x64_InPlace(m, NoVar, a1) OBVIOUS
  <1>9. k \in Reached(m, A, {}) /\ k.res.r1 \in Regs BY <1>3, <1>7, <1>8, x64_InPlaceRight
  <1>10. k \in Sound(S) /\ Has(k, k.res.r1, a1) BY <1>7, <1>8, x64_InPlaceSound
  <1>11. k \in States /\ k.pinned = {} BY <1>3, <1>7, <1>9, ReachedState
  <1>12. PICK q : q = x64_OnOperands(k, a1, a2, long) OBVIOUS
  <1>13. q \in Sound(S)
    BY <1>7, <1>9, <1>10, <1>11, <1>12, x64_OnOperandsSound DEF x64_Good, x64_Runs
  <1>14. q \in Still(k, A) BY <1>3, <1>9, <1>11, <1>12, x64_OnOperandsStill DEF x64_Good, x64_Runs
  <1>15. q \in Reached(m, A, {}) BY <1>3, <1>7, <1>9, <1>14, ReachedStill
  <1>16. Commit(x64_update_args(q, NoVar, a1, a2)) BY <1>1, <1>8, <1>12
  <1> QED BY <1>3, <1>5, <1>6, <1>7, <1>13, <1>15, <1>16, x64_ReadSound

-----------------------------------------------------------------------------
(* x64_cgen.c: values, division and shifts                                 *)

LEMMA x64_DivisorSound ==
  ASSUME Plain, NEW S \in SUBSET Vars, NEW m \in Sound(S), NEW a \in S \cup {Const}, ~ (X64Pool \subseteq m.pinned),
         NEW n, n = x64_Divisor(m, a)
  PROVE  n \in Sound(S) /\ \A q \in Regs \cap m.pinned : n.R[q] = m.R[q]
  <1>1. PICK k : k = IF a = Const THEN InGot(x64_LoadGot(x64_get_reg0(m), a)) ELSE x64_get_operand(m, a, FALSE)
    OBVIOUS
  <1>2. k \in Sound(S) /\ <<a, 1>> \in k.opd /\ \A q \in Regs \cap m.pinned : k.R[q] = m.R[q]
    <2>1. CASE a = Const BY <1>1, <2>1, x64_GotSound
    <2>2. CASE a # Const
      <3>1. PICK long : long = FALSE OBVIOUS
      <3>2. k = x64_get_operand(m, a, long) BY <1>1, <2>2, <3>1
      <3> QED BY <3>2, x64_OperandSound
    <2> QED BY <2>1, <2>2
  <1>3. RightOpd(k, a, 1) = k BY <1>2, ReadsRight
  <1>4. n = k BY <1>1, <1>3 DEF x64_Divisor
  <1> QED BY <1>2, <1>4

LEMMA PinSound ==
  ASSUME NEW S, NEW m \in Sound(S), NEW r \in Regs
  PROVE  /\ pin_reg(m, r) \in Sound(S) /\ pin_reg(m, r).R = m.R /\ pin_reg(m, r).reg = m.reg
         /\ pin_reg(m, r).addr = m.addr /\ pin_reg(m, r).res = m.res
         /\ unpin_reg(m, r) \in Sound(S) /\ unpin_reg(m, r).R = m.R /\ unpin_reg(m, r).reg = m.reg
         /\ unpin_reg(m, r).addr = m.addr /\ unpin_reg(m, r).res = m.res
  <1>1. m \in States BY SoundIs
  <1> QED BY <1>1, PinPicks, UnpinPicks, SoundPicked

LEMMA IntoSound ==
  ASSUME NEW S, NEW m \in Sound(S), NEW r \in Regs
  PROVE  /\ Into(m, r, None) \in Sound(S) /\ Into(m, r, None).R = m.R /\ Into(m, r, None).reg = m.reg
         /\ Into(m, r, None).addr = m.addr /\ Into(m, r, None).res.r1 = r /\ Into(m, r, None).pinned = m.pinned
  <1>1. m \in States BY SoundIs
  <1> QED BY <1>1, IntoPicks, SoundPicked

\* A register that is free for the result holds nothing that lives on.
LEMMA x64_FreeClobber ==
  ASSUME NEW tar, NEW a1, NEW m, NEW T \in SUBSET Vars, T = Alive(m) \ {tar}, NEW n \in Sound(T),
         NEW X \in SUBSET Int, \A r \in X : Free(n, r, a1, Live1(m, tar, a1))
  PROVE  Clobber(n, X) \in Sound(T)
  <1>1. n \in States BY SoundIs
  <1>2. \A r \in Regs : r \in X => n.reg[r] \notin T BY <1>1, x64_FreeNot
  <1>3. T \subseteq T \cap Vars OBVIOUS
  <1> QED BY <1>2, <1>3, SoundClobber

LEMMA x64_DivRemSound ==
  ASSUME x64_Good, NEW res \in {RAX, RDX}, NEW tar \in WordTemps, NEW a1 \in Vars \cup {Const},
         NEW a2 \in Vars \cup {Const}, x64_div_rem(res, tar, a1, a2)
  PROVE  VInv'
  <1>1. PICK m, m0, m1, l, m2, s, m3, d, r, m4, u, m5 :
          /\ m \in Marks(tar, {a1, a2}, {})
          /\ Enabled("x64", "div_rem")
          /\ m0 = x64_get_reg(m, a1, Live1(m, tar, a1)) /\ m1 = x64_Dividend(m0)
          /\ l = x64_load(m1, RAX, a1) /\ m2 = pin_reg(l, RAX)
          /\ s = x64_spill_reg(m2, RDX) /\ m3 = Clobber(pin_reg(s, RDX), {RDX})
          /\ d = x64_Divisor(m3, a2) /\ r = RightIn(d, RAX, a1, 1)
          /\ m4 = Clobber(r, {RAX, RDX})
          /\ u = unpin_reg(unpin_reg(m4, RAX), RDX)
          /\ m5 = Into(u, res, None)
          /\ Commit(x64_UPDATE_ADDRESSES(Computes(m5, tar), tar, a1, a2))
    BY DEF x64_div_rem
  <1>2. PICK A : A = Named(a1, a2) OBVIOUS
  <1>3. A \in SUBSET Vars /\ A \subseteq {a1, a2} /\ a1 \in A \cup {Const} /\ a2 \in A \cup {Const} /\ tar \in Vars
    BY <1>2, NamedIs, CGenRegsAssumption DEF WordTemps
  <1>4. IInv' BY x64_DivRemRight DEF x64_Good
  <1>5. x64_Begun(m, tar, {a1, a2}, {}) /\ x64_Ready(m, tar, {a1, a2}) BY <1>1, <1>4, x64_BeginsSound
  <1>6. PICK S, T : S = Alive(cg) /\ T = Alive(m) \ {tar} OBVIOUS
  <1>7. /\ S \in SUBSET Vars /\ a1 \in S \cup {Const} /\ a2 \in S \cup {Const} /\ m \in Sound(S) /\ m \in States
        /\ m.pinned = {} /\ ~ (X64Pool \subseteq m.pinned) /\ Plain /\ Roomy(X64Pool)
        /\ T \in SUBSET Vars /\ T \subseteq S
    BY <1>5, <1>6 DEF x64_Ready, x64_Good, x64_Runs
  <1>8. PICK live : live = Live1(m, tar, a1) OBVIOUS
  <1>9. x64_Divided(m, A, res, tar, a1, a2, m0, m1, l, m2, s, m3, d, r, m4, u, m5)
    BY <1>1, <1>3, <1>7 DEF x64_Divided
  <1>10. /\ Free(m1, RAX, a1, live) /\ l \in States /\ m2 \in States /\ s \in States /\ s.reg[RDX] = NoVar
         /\ m3 \in States /\ m3.pinned = {RAX, RDX} /\ d \in States
         /\ Free(d, RAX, a1, live) /\ Free(d, RDX, a1, live)
         /\ m5 \in Reached(m, A, {}) /\ m5.res.r1 = res /\ Free(m5, res, a1, live)
    BY <1>8, <1>9, x64_DividedRight
  <1>11. m0 \in Sound(S)
    <2>1. PICK b \in BOOLEAN : b = Live1(m, tar, a1) BY LiveBoolean
    <2>2. m0 = x64_get_reg(m, a1, b) BY <1>1, <2>1
    <2> QED BY <1>7, <2>2, x64_GetRegSound
  <1>12. m1 \in Sound(S)
    <2>1. CASE m0.res.r1 # RAX
      <3>1. m1 = x64_spill_reg(m0, RAX) BY <1>1, <2>1 DEF x64_Dividend
      <3> QED BY <1>7, <1>11, <3>1, x64_SpillSound, x64_Regs
    <2>2. CASE m0.res.r1 = RAX BY <1>1, <1>11, <2>2 DEF x64_Dividend
    <2> QED BY <2>1, <2>2
  <1>13. l \in Sound(S) /\ Has(l, RAX, a1)
    <2>1. m1.reg[RAX] \notin S \/ (m1.reg[RAX] = a1 /\ a1 # Const)
      <3>1. m1.reg[RAX] = NoVar \/ m1.reg[RAX] = a1 BY <1>10 DEF Free
      <3> QED BY <1>7, <3>1, VarsAre
    <2>2. l = Load(m1, RAX, a1) BY <1>1 DEF x64_load
    <2> QED BY <1>7, <1>12, <2>1, <2>2, LoadSound, x64_Regs
  <1>14. m2 \in Sound(S) /\ m2.R = l.R BY <1>1, <1>13, PinSound, x64_Regs
  <1>15. s \in Sound(S) /\ s.R = m2.R
    <2>1. s = x64_spill_reg(m2, RDX) /\ RDX \in Regs BY <1>1, x64_Regs
    <2>2. Plain /\ S \in SUBSET Vars /\ m2 \in Sound(S) BY <1>7, <1>14
    <2> QED BY <2>1, <2>2, x64_SpillSound
  <1>16. m3 \in Sound(S) /\ m3.R[RAX] = s.R[RAX]
    <2>1. PICK p : p = pin_reg(s, RDX) OBVIOUS
    <2>2. p \in Sound(S) /\ p.R = s.R /\ p.reg = s.reg BY <1>15, <2>1, PinSound, x64_Regs
    <2>3. {RDX} \in SUBSET Int /\ RAX \in Regs \ {RDX} BY x64_Regs DEF RAX, RDX
    <2>4. \A q \in Regs : q \in {RDX} => p.reg[q] \notin S BY <1>7, <1>10, <2>2, VarsAre
    <2>5. S \subseteq S \cap Vars BY <1>7
    <2>6. Clobber(p, {RDX}) \in Sound(S) /\ Clobber(p, {RDX}).R[RAX] = p.R[RAX] BY <2>2, <2>3, <2>4, <2>5, SoundClobber
    <2> QED BY <1>1, <2>1, <2>2, <2>6
  <1>17. d \in Sound(S) /\ d.R[RAX] = m3.R[RAX]
    <2>1. ~ (X64Pool \subseteq m3.pinned) BY <1>7, <1>10, x64_Regs DEF Roomy
    <2>2. RAX \in Regs \cap m3.pinned BY <1>10, x64_Regs
    <2>3. Plain /\ S \in SUBSET Vars /\ m3 \in Sound(S) /\ a2 \in S \cup {Const} BY <1>7, <1>16
    <2>4. d = x64_Divisor(m3, a2) BY <1>1
    <2>5. d \in Sound(S) /\ \A q \in Regs \cap m3.pinned : d.R[q] = m3.R[q] BY <2>1, <2>3, <2>4, x64_DivisorSound
    <2> QED BY <2>2, <2>5
  <1>18. r = d
    <2>1. Has(d, RAX, a1) BY <1>13, <1>14, <1>15, <1>16, <1>17 DEF Has
    <2>2. r = RightIn(d, RAX, a1, 1) BY <1>1
    <2>3. Plain BY <1>7
    <2> QED BY <2>1, <2>2, <2>3, ReadsRight
  <1>19. m4 \in Sound(T)
    <2>1. d \in Sound(T) BY <1>7, <1>17, SoundLess
    <2>2. {RAX, RDX} \in SUBSET Int BY DEF RAX, RDX
    <2>3. \A q \in {RAX, RDX} : Free(d, q, a1, Live1(m, tar, a1)) BY <1>8, <1>10
    <2> QED BY <1>1, <1>6, <1>7, <1>18, <2>1, <2>2, <2>3, x64_FreeClobber
  <1>20. u \in Sound(T)
    <2>1. PICK w : w = unpin_reg(m4, RAX) OBVIOUS
    <2>2. w \in Sound(T) BY <1>19, <2>1, PinSound, x64_Regs
    <2> QED BY <1>1, <2>1, <2>2, PinSound, x64_Regs
  <1>21. res \in Regs BY x64_Regs
  <1>22. m5 \in Sound(T) BY <1>1, <1>20, <1>21, IntoSound
  <1>23. PICK n : n = Computes(m5, tar) OBVIOUS
  <1>24. Commit(x64_UPDATE_ADDRESSES(n, tar, a1, a2)) BY <1>1, <1>23
  <1>25. m5.res.r1 \in Regs /\ Free(m5, m5.res.r1, a1, Live1(m, tar, a1)) BY <1>8, <1>10, <1>21
  <1> QED BY <1>3, <1>5, <1>6, <1>10, <1>22, <1>23, <1>24, <1>25, x64_ComputesHere

\* get_reg() gives out no pinned register unless the operand is in it.
LEMMA x64_Unpinned ==
  ASSUME NEW m \in States, NEW tar, NEW a \in Vars \cup {Const}, ~ (X64Pool \subseteq m.pinned),
         NEW n, n = x64_Loaded(m, tar, a)
  PROVE  n.res.r1 \notin m.pinned \/ m.reg[n.res.r1] = a
  <1>1. PICK g : g = x64_get_reg0(m) OBVIOUS
  <1>2. g \in Fewer(m) /\ g.got \in Regs \ m.pinned BY <1>1, x64_Get0
  <1>3. PICK k : k = x64_get_reg(m, a, Live1(m, tar, a)) OBVIOUS
  <1>4. k.res.r1 \notin m.pinned \/ m.reg[k.res.r1] = a
    <2>1. CASE InReg(m, a) /\ ~Live1(m, tar, a)
      <3>1. addr_reg1(m, a) \in Regs /\ m.reg[addr_reg1(m, a)] = a BY <2>1, RegOf
      <3>2. k = [m EXCEPT !.res.r1 = addr_reg1(m, a)] BY <1>3, <2>1 DEF x64_get_reg, GetReg
      <3>3. k.res.r1 = addr_reg1(m, a) BY <3>1, <3>2, Res1Picks
      <3> QED BY <3>1, <3>3
    <2>2. CASE ~(InReg(m, a) /\ ~Live1(m, tar, a))
      <3>1. k = Got1(g) BY <1>1, <1>3, <2>2 DEF x64_get_reg, GetReg
      <3>2. k.res.r1 = g.got BY <1>2, <3>1, Got1Picks, FewerIs
      <3> QED BY <1>2, <3>2
    <2> QED BY <2>1, <2>2
  <1>5. n.res = k.res
    <2>1. Live1(m, tar, a) \in BOOLEAN BY LiveBoolean
    <2>2. k \in After(m, {}) /\ k.res.r1 \in Regs BY <1>3, <2>1, x64_GetReg
    <2>3. k \in States BY <2>2, AfterIs
    <2>4. PICK A : A = {a} \cap Vars OBVIOUS
    <2>5. A \in SUBSET Vars /\ a \in A \cup {Const} BY <2>4
    <2>6. Load(k, k.res.r1, a) \in Stored(k, A) BY <2>2, <2>3, <2>5, LoadStored
    <2>7. n = Load(k, k.res.r1, a) BY <1>3 DEF x64_Loaded, x64_LoadRes, x64_load
    <2> QED BY <2>6, <2>7, StoredIs
  <1> QED BY <1>4, <1>5

LEMMA x64_CountSound ==
  ASSUME Plain, NEW S \in SUBSET Vars, NEW m \in Sound(S), NEW a \in S, NEW n, n = x64_Count(m, a)
  PROVE  n \in Sound(S) /\ Has(n, RCX, a) /\ n.reg[RCX] \in {NoVar, a}
  <1>1. CASE InReg(m, a) /\ addr_reg1(m, a) = RCX
    <2>1. n = m BY <1>1 DEF x64_Count
    <2>2. addr_reg1(m, a) \in Regs /\ m.reg[addr_reg1(m, a)] = a /\ Has(m, addr_reg1(m, a), a) BY <1>1, SoundHas
    <2>3. m.reg[RCX] = a /\ Has(m, RCX, a) BY <1>1, <2>2
    <2> QED BY <2>1, <2>3
  <1>2. CASE ~(InReg(m, a) /\ addr_reg1(m, a) = RCX)
    <2>1. PICK s : s = x64_spill_reg(m, RCX) OBVIOUS
    <2>2. n = Load(s, RCX, a) BY <1>2, <2>1 DEF x64_Count, x64_load
    <2>3. s \in Sound(S) BY <2>1, x64_SpillSound, x64_Regs
    <2>4. m \in States BY SoundIs
    <2>5. s.reg[RCX] = NoVar BY <2>1, <2>4, x64_SpillFewer, x64_Regs DEF reg_isempty
    <2>6. s.reg[RCX] \notin S BY <2>5, VarsAre
    <2> QED BY <2>2, <2>3, <2>5, <2>6, LoadSound, x64_Regs
  <1> QED BY <1>1, <1>2

LEMMA x64_ShiftSound ==
  ASSUME x64_Good, NEW tar \in WordTemps, NEW a1 \in Vars \cup {Const}, NEW a2 \in Vars \cup {Const},
         x64_shift(tar, a1, a2)
  PROVE  VInv'
  <1>1. PICK m, c, p, m1, r, m2 :
          /\ m \in Marks(tar, {a1, a2}, {})
          /\ Enabled("x64", "shift")
          /\ c = x64_Count(m, a2) /\ p = pin_reg(c, RCX)
          /\ m1 = x64_Loaded(p, tar, a1) /\ r = RightIn(m1, RCX, a2, 1)
          /\ m2 = IF a2 = Const THEN x64_Loaded(m, tar, a1) ELSE unpin_reg(r, RCX)
          /\ Commit(x64_UPDATE_ADDRESSES(Computes(RightRes(m2, a1), tar), tar, a1, a2))
    BY DEF x64_shift
  <1>2. PICK A : A = Named(a1, a2) OBVIOUS
  <1>3. A \in SUBSET Vars /\ A \subseteq {a1, a2} /\ a1 \in A \cup {Const} /\ a2 \in A \cup {Const} /\ tar \in Vars
    BY <1>2, NamedIs, CGenRegsAssumption DEF WordTemps
  <1>4. IInv' BY x64_ShiftRight DEF x64_Good
  <1>5. x64_Begun(m, tar, {a1, a2}, {}) /\ x64_Ready(m, tar, {a1, a2}) BY <1>1, <1>4, x64_BeginsSound
  <1>6. PICK S : S = Alive(cg) OBVIOUS
  <1>7. /\ S \in SUBSET Vars /\ a1 \in S \cup {Const} /\ a2 \in S \cup {Const} /\ m \in Sound(S) /\ m \in States
        /\ m.pinned = {} /\ ~ (X64Pool \subseteq m.pinned) /\ Plain /\ Roomy(X64Pool)
    BY <1>5, <1>6 DEF x64_Ready, x64_Good, x64_Runs
  <1>8. /\ m2 \in Reached(m, A, {}) /\ m2.res.r1 \in Regs /\ Free(m2, m2.res.r1, a1, Live1(m, tar, a1))
        /\ m2 \in Sound(S) /\ Has(m2, m2.res.r1, a1)
    <2>1. CASE a2 = Const
      <3>1. m2 = x64_Loaded(m, tar, a1) BY <1>1, <2>1
      <3> QED BY <1>3, <1>7, <3>1, x64_LoadedRight, x64_LoadedSound
    <2>2. CASE a2 # Const
      <3>1. a2 \in A /\ a2 \in S /\ m2 = unpin_reg(r, RCX) BY <1>1, <1>3, <1>7, <2>2
      <3>2. /\ c \in States /\ p \in States /\ p.pinned = {RCX} /\ ~ (X64Pool \subseteq p.pinned) /\ m1 \in States
            /\ m2 \in Reached(m, A, {}) /\ m2.res.r1 \in Regs /\ Free(m2, m2.res.r1, a1, Live1(m, tar, a1))
        <4>1. x64_Counted(m, A, tar, a1, a2, c, p, m1, r, m2) BY <1>1, <1>3, <1>7, <3>1 DEF x64_Counted
        <4> QED BY <4>1, x64_CountedRight
      <3>3. c \in Sound(S) /\ Has(c, RCX, a2) /\ c.reg[RCX] \in {NoVar, a2} BY <1>1, <1>7, <3>1, x64_CountSound
      <3>4. p \in Sound(S) /\ p.R = c.R /\ p.reg = c.reg BY <1>1, <3>3, PinSound, x64_Regs
      <3>5. /\ m1 \in Sound(S) /\ m1.res.r1 \in Regs /\ Has(m1, m1.res.r1, a1)
            /\ \A q \in Regs \ {m1.res.r1} : m1.R[q] = p.R[q]
        BY <1>1, <1>7, <3>2, <3>4, x64_LoadedSound
      <3>6. Has(m1, RCX, a2)
        <4>1. CASE m1.res.r1 # RCX
          <5>1. m1.R[RCX] = c.R[RCX] BY <3>4, <3>5, <4>1, x64_Regs
          <5> QED BY <3>3, <5>1 DEF Has
        <4>2. CASE m1.res.r1 = RCX
          <5>1. p.reg[RCX] = a1
            <6>1. m1.res.r1 \notin p.pinned \/ p.reg[m1.res.r1] = a1 BY <1>1, <3>2, x64_Unpinned
            <6> QED BY <3>2, <4>2, <6>1
          <5>2. a1 # NoVar BY VarsAre, CGenRegsAssumption
          <5>3. a1 = a2 BY <3>3, <3>4, <5>1, <5>2
          <5> QED BY <3>5, <4>2, <5>3
        <4> QED BY <4>1, <4>2
      <3>7. r = m1
        <4>1. r = RightIn(m1, RCX, a2, 1) BY <1>1
        <4>2. Plain BY <1>7
        <4> QED BY <3>6, <4>1, <4>2, ReadsRight
      <3>8. m2 \in Sound(S) /\ m2.R = m1.R /\ m2.res = m1.res BY <3>1, <3>5, <3>7, PinSound, x64_Regs
      <3>9. Has(m2, m2.res.r1, a1) BY <3>5, <3>8 DEF Has
      <3> QED BY <3>2, <3>8, <3>9
    <2> QED BY <2>1, <2>2
  <1>9. RightRes(m2, a1) = m2 BY <1>7, <1>8, ReadsRight
  <1>10. PICK n : n = Computes(m2, tar) OBVIOUS
  <1>11. Commit(x64_UPDATE_ADDRESSES(n, tar, a1, a2)) BY <1>1, <1>9, <1>10
  <1> QED BY <1>3, <1>5, <1>6, <1>8, <1>10, <1>11, x64_ComputesSound

-----------------------------------------------------------------------------
(* x64_cgen.c: values, memory                                              *)

\* After spill_aliased_objects() nothing a pointer reaches is in a register.
LEMMA Unheld ==
  ASSUME NEW m \in States, NEW X \in SUBSET Vars, \A r \in Regs : m.reg[r] \notin X PROVE \A v \in X : ~InReg(m, v)
  <1> SUFFICES ASSUME NEW v \in X, InReg(m, v) PROVE FALSE OBVIOUS
  <1>1. v \in Vars \cup {Const} /\ v \in X OBVIOUS
  <1> QED BY <1>1, RegOf

LEMMA x64_AliasedSound ==
  ASSUME Plain, NEW S \in SUBSET Vars, NEW m \in Sound(S), NEW s, s = x64_spill_aliased_objects(m)
  PROVE  s \in Sound(S) /\ s \in Fewer(m) /\ \A r \in Regs : s.reg[r] \notin Pointed
  <1>1. m \in States BY SoundIs
  <1>2. PICK X : X = Aliased OBVIOUS
  <1>3. X \in SUBSET Vars /\ Pointed \subseteq X BY <1>2, CGenRegsAssumption DEF Aliased, Plain, Ids
  <1>4. s = SpillThese(m, X, x64_spill_reg) BY <1>2 DEF x64_spill_aliased_objects
  <1>5. s \in Sound(S) BY <1>3, <1>4, x64_SpillTheseSound
  <1>6. s \in Fewer(m) /\ \A r \in Regs : s.reg[r] \notin X BY <1>1, <1>3, <1>4, x64_SpillTheseFewer
  <1> QED BY <1>3, <1>5, <1>6

LEMMA x64_IndSound ==
  ASSUME x64_Good, NEW tar \in Vars, NEW a1 \in Vars, x64_ind(tar, a1) PROVE VInv'
  <1>1. PICK m, s, k, m1, m2, n :
          /\ m \in Marks(tar, {a1}, AddrTaken)
          /\ Enabled("x64", "ind")
          /\ s = x64_spill_aliased_objects(m) /\ k = x64_Loaded(s, tar, a1)
          /\ m1 = RightRes(k, a1) /\ m2 = ReadsMemory(m1, Pointed)
          /\ n = IF tar \in Structs THEN ComputesAt(m2, tar, Far) ELSE Computes(m2, tar)
          /\ Commit(x64_UPDATE_ADDRESSES(n, tar, a1, Const))
    BY DEF x64_ind
  <1>2. PICK A : A = {a1} OBVIOUS
  <1>3. /\ A \in SUBSET Vars /\ A \subseteq A /\ a1 \in A \cup {Const} /\ A \subseteq {a1, Const}
        /\ AddrTaken \subseteq Crossing /\ Pointed \in SUBSET Ids /\ Pointed \in SUBSET Vars
        /\ Const \in Vars \cup {Const} /\ a1 \in Vars \cup {Const}
    BY <1>2, CGenAssumption, CGenRegsAssumption DEF Ids
  <1>4. IInv' BY x64_IndRight DEF x64_Good
  <1>5. x64_Begun(m, tar, A, AddrTaken) /\ x64_Ready(m, tar, A) BY <1>1, <1>2, <1>3, <1>4, x64_BeginsSound
  <1>6. PICK S : S = Alive(cg) OBVIOUS
  <1>7. /\ S \in SUBSET Vars /\ a1 \in S \cup {Const} /\ m \in Sound(S) /\ m \in States
        /\ m.pinned = {} /\ ~ (X64Pool \subseteq m.pinned) /\ Plain /\ target = "x64"
    BY <1>2, <1>5, <1>6 DEF x64_Ready, x64_Good
  <1>8. s \in Sound(S) /\ s \in Fewer(m) /\ \A r \in Regs : s.reg[r] \notin Pointed
    BY <1>1, <1>7, x64_AliasedSound
  <1>9. m \in Reached(m, A, {}) BY <1>3, <1>7, ReachedSelf
  <1>10. s \in Reached(m, A, {}) BY <1>3, <1>7, <1>8, <1>9, ReachedFewer
  <1>11. s \in States /\ s.pinned = {} /\ s.fut = m.fut BY <1>3, <1>7, <1>10, ReachedState
  <1>12. ~ (X64Pool \subseteq s.pinned) BY <1>7, <1>11
  <1>13. k \in Reached(s, A, {}) /\ k.res.r1 \in Regs /\ Free(k, k.res.r1, a1, Live1(s, tar, a1))
    BY <1>1, <1>3, <1>7, <1>11, <1>12, x64_LoadedRight
  <1>14. k \in Sound(S) /\ Has(k, k.res.r1, a1) BY <1>1, <1>7, <1>8, <1>12, x64_LoadedSound
  <1>15. k \in Reached(m, A, {}) BY <1>3, <1>7, <1>10, <1>13, ReachedTrans
  <1>16. Live1(s, tar, a1) = Live1(m, tar, a1) BY <1>11, LiveSame
  <1>17. Free(k, k.res.r1, a1, Live1(m, tar, a1)) BY <1>13, <1>16
  <1>18. m1 = k BY <1>1, <1>7, <1>14, ReadsRight
  <1>19. \A v \in Pointed : ~InReg(k, v)
    <2>1. k \in States BY <1>14, SoundIs
    <2>2. \A r \in Regs : k.reg[r] \in {s.reg[r], NoVar} BY <1>3, <1>11, <1>13, AfterIs DEF Reached
    <2>3. \A r \in Regs : k.reg[r] \notin Pointed BY <1>3, <1>8, <2>2, VarsAre
    <2> QED BY <1>3, <2>1, <2>3, Unheld
  <1>20. S = {v \in Vars : fut[v] # "dead"} BY <1>6, AliveIs
  <1>21. ReadsMemory(k, Pointed) = k BY <1>3, <1>7, <1>14, <1>19, <1>20, MemoryRead
  <1>22. n = Computes(k, tar) BY <1>1, <1>7, <1>18, <1>21 DEF Plain
  <1>23. k \in Sound(Alive(cg)) /\ k.res.r1 \in Regs BY <1>6, <1>13, <1>14
  <1> QED BY <1>1, <1>3, <1>5, <1>15, <1>17, <1>22, <1>23, x64_ComputesSound

\* With fewer variables than registers get_reg0() never spills while a word is stored
\* through a pointer, whose register is not pinned.
Ample == "ind_asn" \in Handlers =>
           Cardinality(Vars) < Cardinality(X64Pool) + (IF "ind_asn_const" \in Handlers THEN 0 ELSE 1)

LEMMA x64_EmptyChosen ==
  ASSUME NEW m \in States, ~ (EmptyRegs(m, X64Pool) \subseteq m.pinned), NEW r, r = x64_get_reg0(m).got
  PROVE  r \in Regs /\ m.reg[r] = NoVar
  <1>1. X64Pool \in SUBSET Regs /\ Regs \subseteq Nat BY X64Assumption, RegsAre
  <1>2. PICK E : E = EmptyRegs(m, X64Pool) \ m.pinned OBVIOUS
  <1>3. E # {} /\ E \in SUBSET Nat /\ E \subseteq Regs /\ \A e \in E : m.reg[e] = NoVar
    BY <1>1, <1>2 DEF EmptyRegs, reg_isempty
  <1>4. Min(E) \in E BY <1>3, MinIs
  <1>5. ~ (X64Pool \subseteq m.pinned) BY DEF EmptyRegs
  <1>6. x64_get_reg0(m) = x64_Take(m, Min(E)) BY <1>2, <1>5 DEF x64_get_reg0
  <1>7. x64_Take(m, Min(E)).got = Min(E) BY <1>3, <1>4, x64_TakeFewer
  <1> QED BY <1>3, <1>4, <1>6, <1>7

LEMMA x64_PoolFinite == IsFiniteSet(X64Pool) /\ Cardinality(X64Pool) \in Nat
  <1>1. PICK n \in Nat : n = 13 OBVIOUS
  <1>2. X64Pool \in SUBSET Nat /\ \A r \in X64Pool : r <= n BY <1>1, X64Assumption
  <1>3. IsFiniteSet(X64Pool) BY <1>2, FS_BoundedSetOfNaturals
  <1> QED BY <1>3, FS_CardinalityType

\* There are not enough variables for all registers.
LEMMA x64_RoomLeft ==
  ASSUME Plain, NEW m \in States, NEW X \in SUBSET Vars, Cardinality(X) < Cardinality(X64Pool),
         \A v \in Vars \ X : ~InReg(m, v)
  PROVE  EmptyRegs(m, X64Pool) # {}
  <1> SUFFICES ASSUME EmptyRegs(m, X64Pool) = {} PROVE FALSE OBVIOUS
  <1>1. X64Pool \in SUBSET Regs BY X64Assumption
  <1>2. IsFiniteSet(X64Pool) BY x64_PoolFinite
  <1>3. IsFiniteSet(X) BY CGenRegsAssumption, FS_Subset
  <1>4. PICK f : f = [r \in X64Pool |-> m.reg[r]] OBVIOUS
  <1>5. \A r \in X64Pool : m.reg[r] # NoVar BY <1>1 DEF EmptyRegs, reg_isempty
  <1>6. \A r \in X64Pool : m.reg[r] \in X BY <1>1, <1>5, OwnerIs
  <1>7. f \in [X64Pool -> X] BY <1>4, <1>6
  <1>8. PICK x, y \in X64Pool : x # y /\ f[x] = f[y] BY <1>2, <1>3, <1>7, FS_PigeonHole
  <1>9. PICK v : v = m.reg[x] OBVIOUS
  <1>10. v = m.reg[x] /\ v = m.reg[y] /\ v \in Vars BY <1>4, <1>6, <1>8, <1>9
  <1>11. x \in {m.addr[v].r1, m.addr[v].r2} /\ y \in {m.addr[v].r1, m.addr[v].r2} /\ m.addr[v].r2 = None
    BY <1>1, <1>8, <1>10 DEF States, Agree, Plain
  <1>12. x # None /\ y # None BY <1>1, <1>8, RegsAre
  <1> QED BY <1>8, <1>11, <1>12

LEMMA x64_StoredSound ==
  ASSUME Plain, Ample, "ind_asn" \in Handlers, NEW S \in SUBSET Vars, NEW k \in Sound(S), k.res.r1 \in Regs,
         NEW a1 \in Vars, Has(k, k.res.r1, a1), k.res.r1 \in k.pinned \/ (k.pinned = {} /\ k.reg[k.res.r1] = a1),
         ~ (X64Pool \subseteq k.pinned), NEW a2 \in S \cup {Const}, NEW qword,
         qword => a2 # Const \/ "ind_asn_const" \in Handlers, NEW d, d = x64_StoredWord(k, a2, qword)
  PROVE  d \in Sound(S) /\ d.res = k.res /\ Has(d, d.res.r1, a1)
  <1>1. k \in States BY SoundIs
  <1>2. CASE a2 = Const /\ ~qword BY <1>2 DEF x64_StoredWord
  <1>3. CASE ~(a2 = Const /\ ~qword) /\ InReg(k, a2)
    <2>1. a2 \in S BY <1>3 DEF InReg
    <2>2. Has(k, addr_reg1(k, a2), a2) BY <1>3, <2>1, SoundHas
    <2>3. RightIn(k, addr_reg1(k, a2), a2, 1) = k BY <2>2, ReadsRight
    <2> QED BY <1>3, <2>3 DEF x64_StoredWord
  <1>4. CASE ~(a2 = Const /\ ~qword) /\ ~InReg(k, a2)
    <2>1. PICK g : g = x64_get_reg0(k).got OBVIOUS
    <2>2. PICK n : n = InGot(x64_LoadGot(x64_get_reg0(k), a2)) OBVIOUS
    <2>3. /\ n \in Sound(S) /\ <<a2, 1>> \in n.opd /\ n.res = k.res
          /\ \A q \in Regs : q \in k.pinned \/ q # g => n.R[q] = k.R[q]
      BY <2>1, <2>2, x64_GotSound
    <2>4. RightOpd(n, a2, 1) = n BY <2>3, ReadsRight
    <2>5. d = n BY <1>4, <2>2, <2>4 DEF x64_StoredWord
    <2>6. k.res.r1 \in k.pinned \/ k.res.r1 # g
      <3>1. CASE k.res.r1 \in k.pinned BY <3>1
      <3>2. CASE k.pinned = {} /\ k.reg[k.res.r1] = a1
        <4>1. PICK X : X = IF a2 = Const THEN Vars ELSE Vars \ {a2} OBVIOUS
        <4>2. Cardinality(X) < Cardinality(X64Pool)
          <5>1. IsFiniteSet(Vars) /\ Cardinality(Vars) \in Nat BY CGenRegsAssumption, FS_CardinalityType
          <5>2. Cardinality(X64Pool) \in Nat BY x64_PoolFinite
          <5>3. CASE a2 = Const
            <6>1. "ind_asn_const" \in Handlers BY <1>4, <5>3
            <6>2. Cardinality(Vars) < Cardinality(X64Pool) + 0 BY <6>1 DEF Ample
            <6> QED BY <4>1, <5>1, <5>2, <5>3, <6>2
          <5>4. CASE a2 # Const
            <6>1. a2 \in Vars BY <5>4
            <6>2. Cardinality(Vars \ {a2}) = Cardinality(Vars) - 1 BY <5>1, <6>1, FS_RemoveElement
            <6>3. Cardinality(Vars) < Cardinality(X64Pool) + 1 \/ Cardinality(Vars) < Cardinality(X64Pool) + 0
              BY DEF Ample
            <6>4. X = Vars \ {a2} BY <4>1, <5>4
            <6> QED BY <5>1, <5>2, <6>2, <6>3, <6>4
          <5> QED BY <5>3, <5>4
        <4>3. X \in SUBSET Vars /\ \A v \in Vars \ X : ~InReg(k, v) BY <1>4, <4>1
        <4>4. EmptyRegs(k, X64Pool) # {} BY <1>1, <4>2, <4>3, x64_RoomLeft
        <4>5. ~ (EmptyRegs(k, X64Pool) \subseteq k.pinned) BY <3>2, <4>4
        <4>6. k.reg[g] = NoVar BY <1>1, <2>1, <4>5, x64_EmptyChosen
        <4> QED BY <3>2, <4>6, VarsAre
      <3> QED BY <3>1, <3>2
    <2>7. n.R[k.res.r1] = k.R[k.res.r1] BY <2>3, <2>6
    <2> QED BY <2>3, <2>5, <2>7 DEF Has
  <1> QED BY <1>2, <1>3, <1>4

LEMMA x64_PointerSound ==
  ASSUME Plain, NEW S \in SUBSET Vars, NEW m \in Sound(S), m.pinned = {}, ~ (X64Pool \subseteq m.pinned), Roomy(X64Pool),
         NEW a \in S, NEW A \in SUBSET Vars, a \in A, NEW k, k = x64_Pointer(m, a)
  PROVE  /\ k \in Sound(S) /\ k.res.r1 \in Regs /\ Has(k, k.res.r1, a)
         /\ k.res.r1 \in k.pinned \/ (k.pinned = {} /\ k.reg[k.res.r1] = a)
         /\ ~ (X64Pool \subseteq k.pinned)
         /\ k \in Reached(m, A, k.pinned) /\ k.pinned \subseteq {k.res.r1}
  <1>1. m \in States BY SoundIs
  <1>3. a \in A \cup {Const} /\ a \in S \cup {Const} /\ a \in Vars \cup {Const} OBVIOUS
  <1>4. CASE InReg(m, a)
    <2>1. PICK r : r = addr_reg1(m, a) OBVIOUS
    <2>2. r \in Regs /\ m.reg[r] = a /\ Has(m, r, a)
      <3>1. addr_reg1(m, a) \in Regs /\ m.reg[addr_reg1(m, a)] = a /\ Has(m, addr_reg1(m, a), a) BY <1>4, SoundHas
      <3> QED BY <2>1, <3>1
    <2>3. k = Into(m, r, None) BY <1>4, <2>1 DEF x64_Pointer
    <2>4. k \in Sound(S) /\ k.R = m.R /\ k.reg = m.reg /\ k.res.r1 = r /\ k.pinned = m.pinned
      BY <2>2, <2>3, IntoSound
    <2>5. m \in Reached(m, A, {}) BY <1>1, <1>3, ReachedSelf
    <2>6. k \in Reached(m, A, {}) BY <1>1, <1>3, <2>2, <2>3, <2>5, ReachedInto
    <2>7. Has(k, k.res.r1, a) BY <2>2, <2>4 DEF Has
    <2> QED BY <2>2, <2>4, <2>6, <2>7
  <1>5. CASE ~InReg(m, a)
    <2>1. PICK l : l = x64_Loaded(m, NoVar, a) OBVIOUS
    <2>2. l \in Sound(S) /\ l.res.r1 \in Regs /\ Has(l, l.res.r1, a) BY <1>3, <2>1, x64_LoadedSound
    <2>3. l \in Reached(m, A, {}) BY <1>1, <1>3, <2>1, x64_LoadedRight
    <2>4. PICK r : r = l.res.r1 OBVIOUS
    <2>5. r \in Regs /\ k = pin_reg(l, r) BY <1>5, <2>1, <2>2, <2>4 DEF x64_Pointer, PinRes
    <2>6. k \in Sound(S) /\ k.R = l.R /\ k.res = l.res
      <3>1. /\ pin_reg(l, r) \in Sound(S) /\ pin_reg(l, r).R = l.R /\ pin_reg(l, r).res = l.res
        BY <2>2, <2>5, PinSound
      <3> QED BY <2>5, <3>1
    <2>7. k \in Reached(m, A, {} \cup {r}) BY <1>1, <1>3, <2>3, <2>5, ReachedPin
    <2>8. k.pinned = {r} /\ k \in Reached(m, A, k.pinned) BY <2>7 DEF Reached
    <2>9. ~ (X64Pool \subseteq {r}) BY <2>5 DEF Roomy
    <2>10. Has(k, k.res.r1, a) /\ k.res.r1 = r BY <2>2, <2>4, <2>6 DEF Has
    <2> QED BY <2>5, <2>6, <2>8, <2>9, <2>10
  <1> QED BY <1>4, <1>5

LEMMA x64_IndAsnSound ==
  ASSUME x64_Good, Ample, NEW a1 \in Vars, NEW a2 \in Vars \cup {Const}, NEW qword, x64_ind_asn(a1, a2, qword)
  PROVE  VInv'
  <1>1. PICK m, s, k, d, q, m2 :
          /\ m \in Marks(NoVar, {a1, a2}, {})
          /\ Enabled("x64", "ind_asn") /\ (qword => a2 # Const \/ "ind_asn_const" \in Handlers)
          /\ s = x64_spill_aliased_objects(m)
          /\ k = x64_Pointer(s, a1) /\ d = x64_StoredWord(k, a2, qword) /\ q = RightRes(d, a1)
          /\ m2 = IF a2 \in Structs THEN x64_StoredStruct(s, a1, a2) ELSE unpin_reg(q, q.res.r1)
          /\ Commit(x64_update_args(WritesMemory(m2, Pointed), NoVar, a1, a2))
    BY DEF x64_ind_asn, x64_PointerRight, UnpinRes
  <1>2. PICK A : A = Named(a1, a2) OBVIOUS
  <1>3. /\ A \in SUBSET Vars /\ A \subseteq {a1, a2} /\ a1 \in A \cup {Const} /\ a2 \in A \cup {Const}
        /\ (\A B : B = {a1} => B \in SUBSET A) /\ Pointed \in SUBSET Vars /\ Pointed \in SUBSET Ids /\ a1 \in Vars \cup {Const}
    BY <1>2, NamedIs, CGenRegsAssumption DEF Named, Ids
  <1>4. IInv' BY <1>1, x64_IndAsnRight DEF x64_Good
  <1>5. x64_Begun(m, NoVar, {a1, a2}, {}) /\ x64_Ready(m, NoVar, {a1, a2}) BY <1>1, <1>4, x64_BeginsSound
  <1>6. PICK S : S = Alive(cg) OBVIOUS
  <1>7. /\ S \in SUBSET Vars /\ a1 \in S \cup {Const} /\ a2 \in S \cup {Const} /\ m \in Sound(S) /\ m \in States
        /\ m.pinned = {} /\ ~ (X64Pool \subseteq m.pinned) /\ Plain /\ Going(m, NoVar, {a1, a2}, {})
        /\ Alive(m) \ {NoVar} \subseteq Alive(cg) \ {NoVar} /\ Roomy(X64Pool)
    BY <1>5, <1>6 DEF x64_Ready, x64_Good, x64_Runs
  <1>8. s \in Sound(S) /\ s \in Fewer(m) /\ \A r \in Regs : s.reg[r] \notin Pointed
    BY <1>1, <1>7, x64_AliasedSound
  <1>9. m \in Reached(m, A, {}) BY <1>3, <1>7, ReachedSelf
  <1>10. s \in Reached(m, A, {}) BY <1>3, <1>7, <1>8, <1>9, ReachedFewer
  <1>11. s \in States /\ s.pinned = {} BY <1>3, <1>7, <1>10, ReachedState
  <1>12. ~ (X64Pool \subseteq s.pinned) /\ a1 \in S BY <1>7, <1>11, VarsAre
  <1>36. PICK B : B = {a1} OBVIOUS
  <1>13. /\ k \in Sound(S) /\ k.res.r1 \in Regs /\ Has(k, k.res.r1, a1)
         /\ k.res.r1 \in k.pinned \/ (k.pinned = {} /\ k.reg[k.res.r1] = a1)
         /\ ~ (X64Pool \subseteq k.pinned)
         /\ k \in Reached(s, B, k.pinned) /\ k.pinned \subseteq {k.res.r1}
    <2>1. k = x64_Pointer(s, a1) BY <1>1
    <2>2. Plain /\ Roomy(X64Pool) /\ S \in SUBSET Vars BY <1>7
    <2>3. s \in Sound(S) /\ s.pinned = {} BY <1>8, <1>11
    <2>4. ~ (X64Pool \subseteq s.pinned) /\ a1 \in S BY <1>12
    <2>5. B \in SUBSET Vars /\ a1 \in B BY <1>36
    <2>6. /\ k \in Sound(S) /\ k.res.r1 \in Regs /\ Has(k, k.res.r1, a1)
          /\ k.res.r1 \in k.pinned \/ (k.pinned = {} /\ k.reg[k.res.r1] = a1)
          /\ ~ (X64Pool \subseteq k.pinned)
      BY <2>1, <2>2, <2>3, <2>4, <2>5, x64_PointerSound
    <2>7. k \in Reached(s, B, k.pinned) /\ k.pinned \subseteq {k.res.r1}
      BY <2>1, <2>2, <2>3, <2>4, <2>5, x64_PointerSound
    <2> QED BY <2>6, <2>7
  <1>14. PICK p, r : p = k.pinned /\ r = k.res.r1 OBVIOUS
  <1>15. r \in Regs /\ p \ {r} = {} BY <1>13, <1>14
  <1>16. k \in Reached(s, A, p) BY <1>3, <1>13, <1>14, <1>36, AfterMore DEF Reached
  <1>17. "ind_asn" \in Handlers BY <1>1 DEF Enabled
  <1>18. d \in Sound(S) /\ d.res = k.res /\ Has(d, d.res.r1, a1)
    <2>1. d = x64_StoredWord(k, a2, qword) /\ (qword => a2 # Const \/ "ind_asn_const" \in Handlers) BY <1>1
    <2>2. Plain /\ S \in SUBSET Vars /\ a2 \in S \cup {Const} BY <1>7
    <2>3. k \in Sound(S) /\ k.res.r1 \in Regs /\ Has(k, k.res.r1, a1) /\ ~ (X64Pool \subseteq k.pinned) BY <1>13
    <2>4. k.res.r1 \in k.pinned \/ (k.pinned = {} /\ k.reg[k.res.r1] = a1) BY <1>13
    <2> QED BY <1>17, <2>1, <2>2, <2>3, <2>4, x64_StoredSound
  <1>19. k \in States BY <1>13, SoundIs
  <1>20. d \in Still(k, A) BY <1>1, <1>3, <1>13, <1>19, x64_StoredWordStill
  <1>21. d \in Reached(s, A, p) BY <1>3, <1>11, <1>16, <1>20, ReachedStill
  <1>22. q = d BY <1>1, <1>7, <1>18, ReadsRight
  <1>23. m2 = unpin_reg(d, r) BY <1>1, <1>7, <1>14, <1>18, <1>22 DEF Plain
  <1>24. m2 \in Reached(s, A, p \ {r}) BY <1>3, <1>11, <1>21, <1>23, ReachedUnpin
  <1>25. m2 \in Reached(s, A, {}) BY <1>15, <1>24
  <1>26. m2 \in Sound(S) BY <1>15, <1>18, <1>23, PinSound
  <1>27. \A v \in Pointed : ~InReg(m2, v)
    <2>1. m2 \in States BY <1>26, SoundIs
    <2>2. \A t \in Regs : m2.reg[t] \in {s.reg[t], NoVar} BY <1>3, <1>11, <1>25, AfterIs DEF Reached
    <2>3. \A t \in Regs : m2.reg[t] \notin Pointed BY <1>3, <1>8, <2>2, VarsAre
    <2> QED BY <1>3, <2>1, <2>3, Unheld
  <1>28. PICK w : w = WritesMemory(m2, Pointed) OBVIOUS
  <1>29. w \in Sound(S) BY <1>3, <1>7, <1>26, <1>27, <1>28, WritesMemorySound
  <1>30. m2 \in Reached(m, A, {}) BY <1>3, <1>7, <1>10, <1>25, ReachedTrans
  <1>31. m2 \in Gen BY <1>26, SoundIs
  <1>32. w \in Emitted(m2) BY <1>3, <1>28, <1>31, EmittedSelf, WritesMemoryEmits
  <1>33. w \in Reached(m, A, {}) BY <1>3, <1>7, <1>30, <1>32, ReachedEmitted
  <1>34. Commit(x64_update_args(w, NoVar, a1, a2)) BY <1>1, <1>28
  <1>35. w \in Sound(Alive(cg)) BY <1>6, <1>29
  <1> QED BY <1>3, <1>5, <1>7, <1>33, <1>34, <1>35, x64_ReadSound

-----------------------------------------------------------------------------
(* x64_cgen.c: values, calls                                               *)

LEMMA CountSound ==
  ASSUME NEW S, NEW m \in Sound(S), NEW k \in Int, NEW n, n = [m EXCEPT !.args = k]
  PROVE  n \in Sound(S) /\ n.reg = m.reg /\ n.fut = m.fut
  <1>1. m \in States /\ m \in Gen /\ Agree(m) /\ OneSlot(m.temps) BY SoundIs DEF States
  <1>2. /\ n \in Gen /\ n.reg = m.reg /\ n.addr = m.addr /\ n.temps = m.temps /\ n.R = m.R /\ n.M = m.M
        /\ n.fut = m.fut /\ n.faults = m.faults
    BY <1>1 DEF Gen
  <1>3. n \in States
    <2>1. Agree(n) BY <1>1, <1>2 DEF Agree
    <2>2. OneSlot(n.temps) BY <1>1, <1>2
    <2> QED BY <1>2, <2>1, <2>2 DEF States
  <1>4. \A v \in S : Present(n, v) BY <1>2, PresentSame, SoundIs
  <1> QED BY <1>2, <1>3, <1>4, SoundIs DEF Sound

LEMMA x64_PoppedSound ==
  ASSUME NEW S, NEW m \in Sound(S), NEW k \in Int, NEW n, n = x64_post_call(m, k)
  PROVE  n \in Sound(S) /\ n.reg = m.reg /\ n.fut = m.fut
  <1>1. PICK j : j = m.args - k OBVIOUS
  <1>2. m \in Gen BY SoundIs
  <1>3. j \in Int BY <1>1, <1>2 DEF Gen
  <1>4. n = [m EXCEPT !.args = j] BY <1>1, <1>2 DEF x64_post_call, Gen
  <1> QED BY <1>3, <1>4, CountSound

LEMMA x64_PreCallSound ==
  ASSUME Plain, NEW S \in SUBSET Vars, NEW m \in Sound(S), NEW big, NEW n, n = x64_pre_call(m, big)
  PROVE  n \in Sound(S)
  <1>1. m \in States BY SoundIs
  <1>2. PICK s : s = x64_spill_all(m) OBVIOUS
  <1>3. s = SpillThese(m, Vars, x64_spill_reg) BY <1>2 DEF x64_spill_all
  <1>4. PICK V : V = Vars OBVIOUS
  <1>5. V \in SUBSET Vars /\ s = SpillThese(m, V, x64_spill_reg) BY <1>3, <1>4
  <1>6. s \in Sound(S) BY <1>5, x64_SpillTheseSound
  <1>7. \A r \in Regs : s.reg[r] \notin S BY <1>1, <1>4, <1>5, x64_SpillTheseFewer
  <1>8. PICK X : X = IF big THEN {R11, R12, R13} ELSE {} OBVIOUS
  <1>9. X \in SUBSET Int BY <1>8 DEF R11, R12, R13
  <1>10. n = Clobber(s, X) BY <1>2, <1>8 DEF x64_pre_call
  <1>11. S \subseteq S \cap Vars OBVIOUS
  <1> QED BY <1>6, <1>7, <1>9, <1>10, <1>11, SoundClobber

LEMMA x64_ReturnedSound ==
  ASSUME Plain, IInv', target = "x64", "x64" \in Targets, NEW tar \in Vars \cup {NoVar}, NEW n, Going(n, tar, {}, {}),
         \A r \in Regs : n.reg[r] = NoVar, NEW T, T = Alive(n) \ {tar}, n \in Sound(T), Commit(x64_Returned(n, tar))
  PROVE  VInv'
  <1>1. CASE tar \notin Vars
    <2>1. tar = NoVar /\ tar \notin Structs BY <1>1, CGenRegsAssumption
    <2>2. x64_Returned(n, tar) = n BY <1>1, <2>1 DEF x64_Returned
    <2>3. T = Alive(n) BY <2>1, VarsAre DEF Alive
    <2> QED BY <2>2, <2>3, FinishSound
  <1>2. CASE tar \in Vars
    <2>1. n \in States /\ n.pinned = {} BY GoingIs
    <2>2. n \in Reached(n, {}, {}) BY <2>1, ReachedSelf
    <2>3. PICK k : k = Into(n, RAX, None) OBVIOUS
    <2>4. k \in Reached(n, {}, {}) /\ k.res.r1 = RAX /\ k.reg = n.reg /\ RAX \in Regs
      BY <2>1, <2>2, <2>3, ReachedInto, x64_Regs
    <2>5. k \in Sound(T) BY <2>3, <2>4, IntoSound
    <2>6. k \in States /\ k \in Gen BY <2>5, SoundIs
    <2>7. PICK q : q = Computes(k, tar) OBVIOUS
    <2>8. q \in Emitted(k) BY <1>2, <2>4, <2>6, <2>7, EmittedSelf, ComputesEmits
    <2>9. q \in Reached(n, {}, {}) /\ q.res = k.res /\ q.reg = k.reg BY <2>1, <2>4, <2>8, ReachedEmitted
    <2>10. Going(q, tar, {}, {}) BY <2>9, GoingReached
    <2>11. x64_Returned(n, tar) = x64_update_tar(q, tar) BY <1>2, <2>3, <2>7 DEF x64_Returned, Plain
    <2>12. q.res.r1 \in Regs /\ q.reg[q.res.r1] = NoVar BY <2>4, <2>9
    <2>13. T \in SUBSET Vars /\ T \subseteq T \ {tar} /\ k.reg[k.res.r1] \notin T
      <3>1. k.reg[k.res.r1] = NoVar BY <2>4
      <3> QED BY <3>1, VarsAre DEF Alive
    <2>14. q \in Sound(T) /\ Has(q, k.res.r1, tar) BY <1>2, <2>4, <2>5, <2>7, <2>13, ComputesSound
    <2>15. T = Alive(q) \ {tar} /\ Has(q, q.res.r1, tar)
      <3>1. q.fut = n.fut BY <2>1, <2>9, ReachedState
      <3> QED BY <2>9, <2>14, <3>1 DEF Alive
    <2>16. Commit(x64_update_tar(q, tar)) BY <2>11
    <2> QED BY <1>2, <2>10, <2>12, <2>14, <2>15, <2>16, x64_SetsSound
  <1> QED BY <1>1, <1>2

LEMMA x64_CallSound ==
  ASSUME x64_Good, NEW tar \in Vars \cup {NoVar}, NEW nargs \in 0 .. MaxPushed, NEW big, x64_call(tar, nargs, big)
  PROVE  VInv'
  <1>1. PICK m, c, m1, p :
          /\ m \in Marks(tar, {}, AddrTaken \cup Statics)
          /\ Enabled("x64", "call") /\ nargs <= arg_words
          /\ c = x64_pre_call(m, big) /\ m1 = Called(c, X64CallerSave) /\ p = x64_post_call(m1, nargs)
          /\ Commit(x64_Returned(p, tar))
    BY DEF x64_call
  <1>2. AddrTaken \cup Statics \subseteq Crossing BY CGenAssumption
  <1>3. IInv' BY x64_CallRight DEF x64_Good
  <1>4. /\ target = "x64" /\ "x64" \in Targets /\ Going(m, tar, {}, {}) /\ m.args = arg_words /\ m \in States
        /\ m.pinned = {}
    BY <1>1, <1>2, x64_Begin DEF x64_Good
  <1>5. PICK S : S = Alive(cg) OBVIOUS
  <1>6. S \in SUBSET Vars /\ m \in Sound(S) /\ Alive(m) \ {tar} \subseteq S /\ Plain
    BY <1>1, <1>2, <1>3, <1>5, x64_BeginsSound DEF x64_Ready, x64_Good
  <1>7. c \in Reached(m, {}, {}) /\ \A r \in Regs : c.reg[r] = NoVar BY <1>1, <1>4, x64_PreCallRight
  <1>8. m1 \in Reached(m, {}, {}) /\ m1.reg = c.reg BY <1>1, <1>4, <1>7, x64_CalledRight
  <1>9. Going(m1, tar, {}, {}) BY <1>4, <1>8, GoingReached
  <1>10. m1.args = arg_words /\ m1.fut = m.fut BY <1>4, <1>8, ReachedIs, ReachedState
  <1>11. Going(p, tar, {}, {}) /\ p.reg = m1.reg BY <1>1, <1>9, <1>10, x64_PostCallRight
  <1>12. c \in Sound(S) BY <1>1, <1>6, x64_PreCallSound
  <1>13. S = {v \in Vars : fut[v] # "dead"} BY <1>5, AliveIs
  <1>14. X64CallerSave \in SUBSET Int BY DEF X64CallerSave, RAX, RCX, RDX, RSI, RDI
  <1>15. m1 \in Sound(S) BY <1>1, <1>6, <1>7, <1>12, <1>13, <1>14, CalledSound
  <1>16. PICK T : T = Alive(p) \ {tar} OBVIOUS
  <1>17. p \in Sound(S) /\ p.fut = m1.fut BY <1>1, <1>15, CGenAssumption, x64_PoppedSound
  <1>18. T \subseteq S BY <1>6, <1>10, <1>16, <1>17 DEF Alive
  <1>19. p \in Sound(T) BY <1>17, <1>18, SoundLess
  <1>20. \A r \in Regs : p.reg[r] = NoVar BY <1>7, <1>8, <1>11
  <1> QED BY <1>1, <1>3, <1>4, <1>6, <1>11, <1>16, <1>19, <1>20, x64_ReturnedSound

LEMMA x64_IndCallSound ==
  ASSUME x64_Good, NEW tar \in Vars \cup {NoVar}, NEW a1 \in Vars, NEW nargs \in 0 .. MaxPushed, NEW big,
         x64_indcall(tar, a1, nargs, big)
  PROVE  VInv'
  <1>0. PICK long : long = FALSE OBVIOUS
  <1>1. PICK m, c, o, m1, d, m2, u :
          /\ m \in Marks(tar, {a1}, AddrTaken \cup Statics)
          /\ Enabled("x64", "indcall") /\ nargs <= arg_words
          /\ c = x64_pre_call(m, big) /\ o = x64_get_operand(c, a1, long) /\ m1 = RightOpd(o, a1, 1)
          /\ d = Called(m1, X64CallerSave) /\ m2 = x64_post_call(d, nargs)
          /\ u = x64_update_args(m2, tar, a1, Const) /\ Commit(x64_Returned(u, tar))
    BY <1>0 DEF x64_indcall
  <1>2. PICK A, C : A = {a1} /\ C = {a1, Const} OBVIOUS
  <1>3. /\ AddrTaken \cup Statics \subseteq Crossing /\ A \in SUBSET Vars /\ A \subseteq A
        /\ a1 \in A \cup {Const} /\ A \subseteq C /\ a1 \in Vars \cup {Const} /\ Const \in Vars \cup {Const}
    BY <1>2, CGenAssumption
  <1>4. IInv' BY x64_IndCallRight DEF x64_Good
  <1>5. /\ target = "x64" /\ "x64" \in Targets /\ Going(m, tar, A, {}) /\ m.args = arg_words /\ m \in States
        /\ m.pinned = {} /\ ~ (X64Pool \subseteq {})
    BY <1>1, <1>2, <1>3, x64_Begin DEF x64_Good
  <1>6. x64_Ready(m, tar, A) BY <1>1, <1>2, <1>3, <1>4, x64_BeginsSound
  <1>7. PICK S : S = Alive(cg) OBVIOUS
  <1>8. S \in SUBSET Vars /\ m \in Sound(S) /\ Alive(m) \ {tar} \subseteq S /\ Plain /\ a1 \in S \cup {Const}
    BY <1>2, <1>6, <1>7 DEF x64_Ready, x64_Good
  <1>9. c \in Reached(m, A, {}) /\ \A r \in Regs : c.reg[r] = NoVar BY <1>1, <1>3, <1>5, x64_PreCallRight
  <1>10. c \in States /\ c.pinned = {} BY <1>3, <1>5, <1>9, ReachedState
  <1>11. c \in Sound(S) BY <1>1, <1>8, x64_PreCallSound
  <1>12. ~ (X64Pool \subseteq c.pinned) BY <1>5, <1>10
  <1>13. o \in Sound(S) /\ <<a1, 1>> \in o.opd BY <1>1, <1>8, <1>11, <1>12, x64_OperandSound
  <1>14. m1 = o BY <1>1, <1>8, <1>13, ReadsRight
  <1>15. o \in Still(c, A) BY <1>1, <1>3, <1>10, <1>12, x64_OperandStill
  <1>16. o \in Reached(m, A, {}) BY <1>3, <1>5, <1>9, <1>15, ReachedStill
  <1>17. \A r \in Regs : o.reg[r] = NoVar
    <2>1. o \in After(c, A) BY <1>3, <1>10, <1>15, StillIs
    <2>2. \A r \in Regs : o.reg[r] \in {c.reg[r], NoVar} BY <1>3, <1>10, <2>1, AfterIs
    <2> QED BY <1>9, <2>2
  <1>18. S = {v \in Vars : fut[v] # "dead"} BY <1>7, AliveIs
  <1>19. X64CallerSave \in SUBSET Int BY DEF X64CallerSave, RAX, RCX, RDX, RSI, RDI
  <1>20. d = Called(o, X64CallerSave) BY <1>1, <1>14
  <1>21. d \in Sound(S) /\ d.reg = o.reg BY <1>8, <1>13, <1>17, <1>18, <1>19, <1>20, CalledSound
  <1>22. d \in Reached(m, A, {}) BY <1>3, <1>5, <1>16, <1>20, x64_CalledRight
  <1>23. Going(d, tar, C, {}) BY <1>3, <1>5, <1>22, GoingReached
  <1>24. d.args = arg_words /\ d.fut = m.fut
    <2>1. d.args = m.args /\ d.fut = m.fut BY <1>3, <1>5, <1>22, ReachedState
    <2> QED BY <1>5, <2>1
  <1>25. Going(m2, tar, C, {}) /\ m2.reg = d.reg BY <1>1, <1>23, <1>24, x64_PostCallRight
  <1>26. m2 \in Sound(S) /\ m2.fut = d.fut BY <1>1, <1>21, CGenAssumption, x64_PoppedSound
  <1>27. PICK T : T = Alive(m2) \ {tar} OBVIOUS
  <1>28. T \in SUBSET Vars /\ T \subseteq S
    <2>1. Alive(m2) = Alive(m) BY <1>24, <1>26 DEF Alive
    <2> QED BY <1>8, <1>27, <2>1
  <1>29. m2 \in Sound(T) BY <1>26, <1>28, SoundLess
  <1>30. u \in Sound(T) BY <1>1, <1>3, <1>8, <1>27, <1>28, <1>29, x64_ArgsSound
  <1>31. Going(m2, tar, {a1, Const}, {}) BY <1>2, <1>25
  <1>32. /\ Going(u, tar, {}, {}) /\ u \in Settled(m2, tar, a1, Regs) BY <1>1, <1>5, <1>31, x64_ArgsGoing
  <1>33. m2 \in States BY <1>26, SoundIs
  <1>34. u.fut = m2.fut /\ \A r \in Regs : u.reg[r] \in {m2.reg[r], NoVar}
    <2>1. u \in After(m2, {}) BY <1>32, <1>33, FewerIs DEF Settled
    <2> QED BY <1>33, <2>1, AfterIs
  <1>35. \A r \in Regs : u.reg[r] = NoVar BY <1>17, <1>21, <1>25, <1>34
  <1>36. T = Alive(u) \ {tar} BY <1>27, <1>34 DEF Alive
  <1> QED BY <1>1, <1>4, <1>5, <1>8, <1>30, <1>32, <1>35, <1>36, x64_ReturnedSound

LEMMA x64_ArgSound ==
  ASSUME x64_Good, NEW a1 \in Vars \cup {Const}, NEW long, x64_arg(a1, long) PROVE VInv'
  <1>1. PICK m, o, m1, u :
          /\ m \in Marks(NoVar, {a1}, {})
          /\ Enabled("x64", "arg")
          /\ o = x64_get_operand(m, a1, long)
          /\ m1 = IF a1 \in Structs THEN x64_PushStruct(m, a1) ELSE RightOpd(o, a1, 1)
          /\ u = x64_update_args(m1, NoVar, a1, Const)
          /\ Commit([u EXCEPT !.args = @ + 1])
    BY DEF x64_arg
  <1>2. PICK A, B : A = B \cap Vars /\ B = {a1} OBVIOUS
  <1>3. /\ A \in SUBSET Vars /\ A \subseteq B /\ a1 \in A \cup {Const} /\ Const \in Vars \cup {Const}
    BY <1>2
  <1>4. IInv' BY x64_ArgRight DEF x64_Good
  <1>5. x64_Ready(m, NoVar, B) BY <1>1, <1>2, <1>4, x64_BeginsSound
  <1>6. PICK S : S = Alive(cg) OBVIOUS
  <1>7. /\ S \in SUBSET Vars /\ a1 \in S \cup {Const} /\ m \in Sound(S) /\ m \in States /\ target = "x64"
        /\ m.pinned = {} /\ ~ (X64Pool \subseteq m.pinned) /\ Plain /\ Going(m, NoVar, B, {})
        /\ Alive(m) \ {NoVar} \subseteq S
    BY <1>2, <1>5, <1>6 DEF x64_Ready, x64_Good
  <1>8. o \in Sound(S) /\ <<a1, 1>> \in o.opd BY <1>1, <1>7, x64_OperandSound
  <1>9. m1 = o
    <2>1. RightOpd(o, a1, 1) = o BY <1>7, <1>8, ReadsRight
    <2>2. a1 \notin Structs BY <1>7 DEF Plain
    <2> QED BY <1>1, <2>1, <2>2
  <1>10. o \in Still(m, A) BY <1>1, <1>3, <1>7, x64_OperandStill
  <1>11. o \in Reached(m, A, {}) BY <1>3, <1>7, <1>10, ReachedSelf, ReachedStill
  <1>12. B \subseteq {a1, Const} BY <1>2
  <1>13. Going(o, NoVar, {a1, Const}, {}) BY <1>3, <1>7, <1>11, <1>12, GoingReached
  <1>14. o \in Sound(Alive(o))
    <2>1. o.fut = m.fut BY <1>3, <1>7, <1>11, ReachedState
    <2>2. Alive(o) = Alive(m) \ {NoVar} BY <2>1, VarsAre DEF Alive
    <2>3. Alive(o) \subseteq S BY <1>7, <2>2
    <2> QED BY <1>8, <2>3, SoundLess
  <1>15. u = x64_update_args(o, NoVar, a1, Const) BY <1>1, <1>9
  <1>16. u \in Sound(Alive(u)) BY <1>3, <1>4, <1>7, <1>13, <1>14, <1>15, x64_UsesSound
  <1>17. PICK j : j = u.args + 1 OBVIOUS
  <1>18. u \in Gen BY <1>16, SoundIs
  <1>19. j \in Int BY <1>17, <1>18 DEF Gen
  <1>20. PICK n : n = [u EXCEPT !.args = j] OBVIOUS
  <1>21. n \in Sound(Alive(u)) /\ n.fut = u.fut BY <1>16, <1>19, <1>20, CountSound
  <1>22. n \in Sound(Alive(n)) BY <1>21 DEF Alive
  <1>23. Commit(n) BY <1>1, <1>17, <1>20
  <1> QED BY <1>4, <1>22, <1>23, FinishSound

-----------------------------------------------------------------------------
(* x64_cgen.c: values, the ends of blocks                                  *)

\* At the end of a block only operands are still in registers.
LEMMA LastHeld ==
  ASSUME NEW n, NEW tar, NEW args, NEW pins, Going(n, tar, args, pins), LastOfBlock(n), NEW r \in Regs, n.reg[r] # NoVar
  PROVE  n.reg[r] \in args
  <1>1. n \in States /\ Marked(n, tar, args, Usable[target]) BY GoingIs
  <1>2. n.reg[r] \in Vars /\ InReg(n, n.reg[r]) BY <1>1, OwnerIs
  <1>3. n.reg[r] \in Busy(n) /\ n.fut[n.reg[r]] # "next" BY <1>2 DEF Busy, LastOfBlock
  <1> QED BY <1>1, <1>2, <1>3 DEF Marked

LEMMA x64_RetSound ==
  ASSUME x64_Good, NEW a1 \in Vars, NEW small, NEW even, x64_ret(a1, small, even) PROVE VInv'
  <1>1. PICK m, l, k, m1 :
          /\ m \in Marks(NoVar, {a1}, {}) /\ LastOfBlock(m)
          /\ Enabled("x64", "ret") /\ l = Load(m, RAX, a1) /\ k = RightIn(l, RAX, a1, 1)
          /\ m1 = IF a1 \notin Structs THEN k ELSE IF small THEN x64_TakeApart(k, even)
                  ELSE x64_CopyOut(x64_LoadRight(m, RSI, a1))
          /\ Commit(x64_update_args(m1, NoVar, a1, Const))
    BY DEF x64_ret, x64_LoadRight, x64_load
  <1>2. PICK A : A = {a1} OBVIOUS
  <1>3. A \in SUBSET Vars /\ A \subseteq A /\ a1 \in A \cup {Const} /\ A \subseteq {a1, Const}
        /\ Const \in Vars \cup {Const} /\ a1 \in Vars \cup {Const} /\ RAX \in Regs
    BY <1>2, x64_Regs
  <1>4. IInv' BY x64_RetRight DEF x64_Good
  <1>5. x64_Begun(m, NoVar, A, {}) /\ x64_Ready(m, NoVar, A) BY <1>1, <1>2, <1>4, x64_BeginsSound
  <1>6. PICK S : S = Alive(cg) OBVIOUS
  <1>7. /\ S \in SUBSET Vars /\ a1 \in S \cup {Const} /\ m \in Sound(S) /\ m \in States /\ m.pinned = {}
        /\ Plain /\ Going(m, NoVar, A, {}) /\ Alive(m) \ {NoVar} \subseteq Alive(cg) \ {NoVar}
    BY <1>2, <1>5, <1>6 DEF x64_Ready, x64_Good
  <1>8. m.reg[RAX] \notin S \/ (m.reg[RAX] = a1 /\ a1 # Const)
    <2>1. m.reg[RAX] = NoVar \/ m.reg[RAX] \in A BY <1>1, <1>3, <1>7, LastHeld
    <2> QED BY <1>2, <1>7, <2>1, VarsAre
  <1>9. l \in Sound(S) /\ Has(l, RAX, a1) BY <1>1, <1>3, <1>7, <1>8, LoadSound
  <1>10. k = l BY <1>1, <1>7, <1>9, ReadsRight
  <1>11. m1 = l BY <1>1, <1>7, <1>10 DEF Plain
  <1>12. l \in Stored(m, A) BY <1>1, <1>3, <1>7, LoadStored
  <1>13. m \in Reached(m, A, {}) BY <1>3, <1>7, ReachedSelf
  <1>14. l \in Reached(m, A, {}) BY <1>3, <1>7, <1>12, <1>13, ReachedStored
  <1>15. l \in Sound(Alive(cg)) /\ Commit(x64_update_args(l, NoVar, a1, Const)) BY <1>1, <1>6, <1>9, <1>11
  <1> QED BY <1>3, <1>5, <1>7, <1>14, <1>15, x64_ReadSound

LEMMA x64_CbrSound ==
  ASSUME x64_Good, NEW a1 \in Vars, x64_cbr(a1) PROVE VInv'
  <1>1. PICK m, o, m1 :
          /\ m \in Marks(NoVar, {a1}, {})
          /\ Enabled("x64", "cbr") /\ m1 = RightOpd(o, a1, 1) /\ Commit(x64_update_args(m1, NoVar, a1, Const))
          /\ o = IF InReg(m, a1) THEN Operand(m, m.R[addr_reg1(m, a1)]) ELSE InHome(WithHome(m, a1), a1, 1)
    BY DEF x64_cbr, x64_Compared
  <1>2. PICK A : A = {a1} OBVIOUS
  <1>3. A \in SUBSET Vars /\ A \subseteq A /\ a1 \in A /\ A \subseteq {a1, Const}
        /\ Const \in Vars \cup {Const} /\ a1 \in Vars \cup {Const}
    BY <1>2
  <1>4. IInv' BY x64_CbrRight DEF x64_Good
  <1>5. x64_Begun(m, NoVar, A, {}) /\ x64_Ready(m, NoVar, A) BY <1>1, <1>2, <1>4, x64_BeginsSound
  <1>6. PICK S : S = Alive(cg) OBVIOUS
  <1>7. /\ S \in SUBSET Vars /\ a1 \in S /\ m \in Sound(S) /\ m \in States /\ m.pinned = {}
        /\ Plain /\ Going(m, NoVar, A, {}) /\ Alive(m) \ {NoVar} \subseteq Alive(cg) \ {NoVar}
    BY <1>2, <1>5, <1>6, VarsAre DEF x64_Ready, x64_Good
  <1>8. o \in Sound(S) /\ <<a1, 1>> \in o.opd
    <2>1. CASE InReg(m, a1)
      <3>1. addr_reg1(m, a1) \in Regs /\ Has(m, addr_reg1(m, a1), a1) BY <1>7, <2>1, SoundHas
      <3>2. PICK r : r = addr_reg1(m, a1) OBVIOUS
      <3>3. r \in Regs /\ Has(m, r, a1) /\ o = Operand(m, m.R[r]) BY <1>1, <2>1, <3>1, <3>2
      <3> QED BY <1>7, <3>3, InRegSound
    <2>2. CASE ~InReg(m, a1)
      <3>1. o = InHome(WithHome(m, a1), a1, 1) BY <1>1, <2>2
      <3> QED BY <1>7, <2>2, <3>1, InHomeSound
    <2> QED BY <2>1, <2>2
  <1>9. m1 = o BY <1>1, <1>7, <1>8, ReadsRight
  <1>10. o \in Stored(m, A)
    <2>1. InReg(m, a1) => addr_reg1(m, a1) \in Regs BY <1>7, SoundHas
    <2> QED BY <1>1, <1>3, <1>7, <2>1, InRegStored, InHomeStored
  <1>11. m \in Reached(m, A, {}) BY <1>3, <1>7, ReachedSelf
  <1>12. o \in Reached(m, A, {}) BY <1>3, <1>7, <1>10, <1>11, ReachedStored
  <1>13. o \in Sound(Alive(cg)) /\ Commit(x64_update_args(o, NoVar, a1, Const)) BY <1>1, <1>6, <1>8, <1>9
  <1> QED BY <1>3, <1>5, <1>7, <1>12, <1>13, x64_ReadSound

LEMMA x64_BoundsSound ==
  ASSUME Plain, Roomy(X64Pool), NEW S \in SUBSET Vars, NEW n \in Sound(S), NEW r \in Regs, n.pinned = {r}, NEW k,
         NEW b, b = x64_Bounds(n, k)
  PROVE  b \in Sound(S) /\ b.R[r] = n.R[r]
  <1>1. PICK m1 : m1 = IF k = 0 THEN n ELSE x64_get_reg0(n) OBVIOUS
  <1>2. CASE k = 0 BY <1>1, <1>2 DEF x64_Bounds
  <1>3. CASE k # 0
    <2>1. ~ (X64Pool \subseteq n.pinned) /\ n \in States BY SoundIs DEF Roomy
    <2>2. m1 = x64_get_reg0(n) BY <1>1, <1>3
    <2>3. m1.got \in Regs \ {r} /\ m1.reg[m1.got] = NoVar /\ m1 \in Fewer(n) BY <2>1, <2>2, x64_Get0
    <2>4. m1 \in Sound(S) /\ m1.R = n.R BY <2>1, <2>2, x64_Get0Sound
    <2>5. PICK g : g = m1.got OBVIOUS
    <2>6. PICK X : X = {g} OBVIOUS
    <2>7. g \in Regs /\ g # r /\ X \in SUBSET Int /\ r \notin X BY <2>3, <2>5, <2>6, RegsAre
    <2>8. S \subseteq S \cap Vars /\ \A q \in Regs : q \in X => m1.reg[q] \notin S
      BY <2>3, <2>5, <2>6, VarsAre
    <2>9. PICK m2 : m2 = Clobber(m1, X) OBVIOUS
    <2>10. m2 \in Sound(S) /\ m2.R[r] = m1.R[r] BY <2>4, <2>7, <2>8, <2>9, SoundClobber
    <2>11. PICK p : p = pin_reg(m2, g) OBVIOUS
    <2>12. p \in Sound(S) /\ p.R = m2.R BY <2>7, <2>10, <2>11, PinSound
    <2>13. ~ (X64Pool \subseteq p.pinned)
      <3>1. m2 \in Still(n, {})
        <4>1. m1 \in Still(n, {}) BY <2>1, <2>3, FewerStill
        <4> QED BY <2>1, <2>6, <2>7, <2>9, <4>1, ClobberStill
      <3>2. m2 \in States /\ m2.pinned = {r} BY <2>1, <3>1, StillIs
      <3>3. p.pinned = {r} \cup {g} BY <2>7, <2>11, <3>2, PinPicks
      <3>4. ~ (X64Pool \subseteq {r, g}) BY <2>7 DEF Roomy
      <3> QED BY <3>3, <3>4
    <2>14. PICK q : q = x64_get_reg0(p) OBVIOUS
    <2>15. q \in Sound(S) /\ q.R = p.R BY <2>12, <2>13, <2>14, x64_Get0Sound
    <2>16. PICK u : u = unpin_reg(q, g) OBVIOUS
    <2>17. u \in Sound(S) /\ u.R = q.R BY <2>7, <2>15, <2>16, PinSound
    <2>18. b = IF k = 1 THEN m2 ELSE u
      BY <1>1, <1>3, <2>5, <2>6, <2>9, <2>11, <2>14, <2>16 DEF x64_Bounds
    <2>19. m2.R[r] = n.R[r] /\ u.R[r] = n.R[r] BY <2>4, <2>10, <2>12, <2>15, <2>17
    <2> QED BY <2>10, <2>17, <2>18, <2>19
  <1> QED BY <1>2, <1>3

LEMMA x64_SwitchSound ==
  ASSUME x64_Good, NEW a1 \in Vars, NEW k, x64_switch(a1, k) PROVE VInv'
  <1>1. PICK m, i, p, m1, b, q, m2 :
          /\ m \in Marks(NoVar, {a1}, {}) /\ LastOfBlock(m)
          /\ Enabled("x64", "switch")
          /\ i = x64_InPlace(m, NoVar, a1) /\ p = pin_reg(i, i.res.r1)
          /\ m1 = x64_update_args(p, NoVar, a1, Const) /\ b = x64_Bounds(m1, k) /\ q = RightRes(b, a1)
          /\ m2 = unpin_reg(q, q.res.r1) /\ Commit(Clobber(m2, {m2.res.r1}))
    BY DEF x64_switch, PinRes, UnpinRes
  <1>2. PICK A : A = {a1} OBVIOUS
  <1>3. A \in SUBSET Vars /\ A \subseteq A /\ a1 \in A \cup {Const} /\ A \subseteq {a1, Const}
        /\ Const \in Vars \cup {Const} /\ a1 \in Vars \cup {Const}
    BY <1>2
  <1>4. IInv' BY x64_SwitchRight DEF x64_Good
  <1>5. x64_Ready(m, NoVar, A) BY <1>1, <1>2, <1>4, x64_BeginsSound
  <1>6. PICK S, T : S = Alive(cg) /\ T = Alive(m) \ {NoVar} OBVIOUS
  <1>7. /\ S \in SUBSET Vars /\ a1 \in S \cup {Const} /\ m \in Sound(S) /\ m \in States /\ m.pinned = {}
        /\ ~ (X64Pool \subseteq m.pinned) /\ Plain /\ Roomy(X64Pool) /\ Going(m, NoVar, A, {}) /\ T \subseteq S
        /\ T \in SUBSET Vars /\ target = "x64"
    BY <1>2, <1>5, <1>6 DEF x64_Ready, x64_Good, x64_Runs
  <1>8. i \in Sound(S) /\ Has(i, i.res.r1, a1) BY <1>1, <1>7, x64_InPlaceSound
  <1>9. i \in Reached(m, A, {}) /\ i.res.r1 \in Regs BY <1>1, <1>3, <1>7, x64_InPlaceRight
  <1>10. PICK r : r = i.res.r1 OBVIOUS
  <1>11. PICK X : X = {r} OBVIOUS
  <1>12. r \in Regs /\ X \in SUBSET Int BY <1>9, <1>10, <1>11, RegsAre
  <1>13. p \in Reached(m, A, X) /\ p.res = i.res
    <2>1. p = pin_reg(i, r) BY <1>1, <1>10
    <2>2. p \in Reached(m, A, {} \cup X) /\ p.res = i.res BY <1>3, <1>7, <1>9, <1>11, <1>12, <2>1, ReachedPin
    <2>3. {} \cup X = X OBVIOUS
    <2> QED BY <2>2, <2>3
  <1>14. p \in Sound(S) /\ p.R = i.R BY <1>1, <1>8, <1>9, PinSound
  <1>15. p \in Sound(T) /\ p.fut = m.fut /\ T \subseteq Alive(p) \ {NoVar}
    <2>1. p.fut = m.fut BY <1>3, <1>7, <1>13, ReachedState
    <2> QED BY <1>6, <1>7, <1>14, <2>1, SoundLess DEF Alive
  <1>16. m1 \in Sound(T) /\ m1.R = p.R
    <2>1. Plain /\ T \in SUBSET Vars /\ T \subseteq Alive(p) \ {NoVar} /\ p \in Sound(T) BY <1>7, <1>15
    <2>2. m1 = x64_update_args(p, NoVar, a1, Const) BY <1>1
    <2>3. a1 \in Vars \cup {Const} /\ Const \in Vars \cup {Const} BY <1>3
    <2> QED BY <2>1, <2>2, <2>3, x64_ArgsSound
  <1>17. Going(p, NoVar, {a1, Const}, X) BY <1>3, <1>7, <1>13, GoingReached
  <1>18. Going(m1, NoVar, {}, X) /\ m1 \in Settled(p, NoVar, a1, Regs) BY <1>1, <1>7, <1>17, x64_ArgsGoing
  <1>19. m1.res = p.res /\ m1.fut = m.fut
    <2>1. p \in States BY <1>17, GoingIs
    <2>2. m1 \in Fewer(p) BY <1>18 DEF Settled
    <2>3. m1 \in After(p, {}) BY <2>1, <2>2, FewerIs
    <2>4. m1.fut = p.fut BY <2>1, <2>3, AfterIs
    <2>5. m1.res = p.res BY <2>1, <2>2, FewerIs
    <2> QED BY <1>15, <2>4, <2>5
  <1>20. m1 \in States /\ m1.pinned = X BY <1>18, GoingIs
  <1>21. b \in Sound(T) /\ b.R[r] = m1.R[r]
    <2>1. Plain /\ Roomy(X64Pool) /\ T \in SUBSET Vars BY <1>7
    <2>2. m1 \in Sound(T) /\ r \in Regs /\ m1.pinned = {r} BY <1>11, <1>12, <1>16, <1>20
    <2>3. b = x64_Bounds(m1, k) BY <1>1
    <2> QED BY <2>1, <2>2, <2>3, x64_BoundsSound
  <1>22. b \in Still(m1, {}) BY <1>1, <1>7, <1>11, <1>12, <1>20, x64_BoundsStill
  <1>23. b.res.r1 = r BY <1>10, <1>13, <1>19, <1>20, <1>22, StillIs
  <1>24. Has(b, b.res.r1, a1) BY <1>8, <1>10, <1>14, <1>16, <1>21, <1>23 DEF Has
  <1>25. q = b BY <1>1, <1>7, <1>24, ReadsRight
  <1>26. m2 = unpin_reg(b, r) BY <1>1, <1>23, <1>25
  <1>27. m2 \in Sound(T) /\ m2.res = b.res BY <1>12, <1>21, <1>26, PinSound
  <1>28. m2 \in Reached(m1, {}, X \ X)
    <2>1. b \in Reached(m1, {}, X) BY <1>20, <1>22, ReachedSelf, ReachedStill
    <2> QED BY <1>11, <1>20, <1>26, <2>1, ReachedUnpin
  <1>29. X \ X = {} OBVIOUS
  <1>30. Going(m2, NoVar, {}, {}) BY <1>18, <1>28, <1>29, GoingReached
  <1>31. m2.fut = m1.fut BY <1>20, <1>28, ReachedState
  <1>32. LastOfBlock(m2) BY <1>1, <1>19, <1>31 DEF LastOfBlock
  <1>33. \A g \in Regs : m2.reg[g] = NoVar BY <1>30, <1>32, LastHeld
  <1>34. PICK c : c = Clobber(m2, X) OBVIOUS
  <1>35. T \subseteq T \cap Vars /\ \A g \in Regs : g \in X => m2.reg[g] \notin T BY <1>7, <1>33, VarsAre
  <1>36. c \in Sound(T) BY <1>12, <1>27, <1>34, <1>35, SoundClobber
  <1>37. Alive(c) = T
    <2>1. c.fut = m2.fut BY <1>34 DEF Clobber
    <2>2. Alive(c) = Alive(m) BY <1>19, <1>31, <2>1 DEF Alive
    <2> QED BY <1>6, <2>2, VarsAre DEF Alive
  <1>38. Commit(c) BY <1>1, <1>11, <1>23, <1>27, <1>34
  <1> QED BY <1>4, <1>36, <1>37, <1>38, FinishSound

-----------------------------------------------------------------------------
(* x64_cgen.c: values, every step                                          *)

LEMMA x64_StepSound == ASSUME x64_Good, Ample, x64_Next PROVE VInv'
  <1>1. /\ WordTemps \subseteq Vars /\ Scalars \subseteq Vars /\ Pointers \subseteq Vars
        /\ Temps \subseteq Vars /\ Structs \subseteq Vars
        /\ \A p \in Ops2 : p[1] \in Vars \cup {Const} /\ p[2] \in Vars \cup {Const}
    BY CGenRegsAssumption DEF WordTemps, Scalars, Pointers, Ops2
  <1>2. CASE \E t \in WordTemps, p \in Ops2 : \E long \in Kinds(p[2]) : x64_alu(t, p[1], p[2], long)
    BY <1>1, <1>2, x64_AluSound
  <1>3. CASE \E t \in WordTemps, p \in Ops2 : x64_shift(t, p[1], p[2]) BY <1>1, <1>3, x64_ShiftSound
  <1>4. CASE \E t \in WordTemps, p \in Ops2 : \E res \in {RAX, RDX} : x64_div_rem(res, t, p[1], p[2])
    BY <1>1, <1>4, x64_DivRemSound
  <1>5. CASE \E p \in Ops2 : \E long \in Kinds(p[2]) : x64_relop_jump(p[1], p[2], long)
    BY <1>1, <1>5, x64_RelopJumpSound
  <1>6. CASE \E t \in WordTemps, a \in Scalars : x64_unary(t, a) BY <1>1, <1>6, x64_UnarySound
  <1>7. CASE \E t \in WordTemps : x64_addr_of(t) BY <1>1, <1>7, x64_AddrOfSound
  <1>8. CASE \/ \E t \in Scalars, a \in Scalars \cup {Const} : x64_asn(t, a)
             \/ \E t \in Structs, a \in Structs : x64_asn(t, a)
    BY <1>1, <1>8, x64_AsnSound
  <1>9. CASE \E t \in Temps, a \in Pointers : x64_ind(t, a) BY <1>1, <1>9, x64_IndSound
  <1>10. CASE \E a \in Pointers, b \in Vars \cup {Const} : \E qword \in Kinds(b) : x64_ind_asn(a, b, qword)
    BY <1>1, <1>10, x64_IndAsnSound
  <1>11. CASE \E t \in Temps \cup {NoVar}, n \in 0 .. MaxPushed, big \in BigArgs : x64_call(t, n, big)
    BY <1>1, <1>11, x64_CallSound
  <1>12. CASE \E t \in Temps \cup {NoVar}, n \in 0 .. MaxPushed, big \in BigArgs :
                \E a \in Pointers : x64_indcall(t, a, n, big)
    BY <1>1, <1>12, x64_IndCallSound
  <1>13. CASE \E a \in Vars \cup {Const} : \E long \in Kinds(a) : x64_arg(a, long) BY <1>13, x64_ArgSound
  <1>14. CASE \E a \in Vars, small, even \in BOOLEAN : x64_ret(a, small, even) BY <1>14, x64_RetSound
  <1>15. CASE \E a \in Scalars : x64_cbr(a) \/ \E k \in 0 .. 2 : x64_switch(a, k)
    BY <1>1, <1>15, x64_CbrSound, x64_SwitchSound
  <1>16. CASE x64_next_block \/ x64_function_definition
    <2>1. IInv' BY x64_Step DEF x64_Good
    <2>2. IInv /\ VInv BY DEF x64_Good, x64_Runs
    <2>3. CASE x64_next_block BY <2>1, <2>2, <2>3, NextBlockSound DEF x64_next_block
    <2>4. CASE x64_function_definition BY <2>1, <2>2, <2>4, NewFunctionSound DEF x64_function_definition
    <2> QED BY <1>16, <2>3, <2>4
  <1> QED BY <1>2, <1>3, <1>4, <1>5, <1>6, <1>7, <1>8, <1>9, <1>10, <1>11, <1>12, <1>13, <1>14, <1>15, <1>16
          DEF x64_Next

-----------------------------------------------------------------------------
(* The values, on x64                                                      *)

LEMMA TargetStays == ASSUME Next PROVE target' = target
  <1>1. ASSUME NEW n, Commit(n) PROVE target' = target BY <1>1 DEF Commit
  <1>2. ASSUME NEW n, NEW dom, Entry(n, dom) PROVE target' = target BY <1>1, <1>2 DEF Entry
  <1>3. NewFunction => target' = target BY <1>2 DEF NewFunction
  <1>4. x86_Next => target' = target
    <2>1. ASSUME NEW t, NEW a, NEW b,
                x86_alu(t, a, b) \/ x86_shift(t, a, b) \/ x86_setcc(t, a, b) \/ x86_alu2(t, a, b)
         PROVE  target' = target
      BY <1>1, <2>1 DEF x86_alu, x86_shift, x86_setcc, x86_alu2
    <2>2. ASSUME NEW t, NEW a, NEW b,
                x86_do_libcall(t, a, b) \/ x86_indcall(t, a, b) \/ x86_call(t, a)
         PROVE  target' = target
      BY <1>1, <2>2 DEF x86_do_libcall, x86_indcall, x86_call
    <2>3. ASSUME NEW t, NEW a, NEW b, NEW r,
                x86_div_rem(r, t, a, b) \/ x86_relop_jump(a, b) \/ x86_ind_asn(a, b) \/ x86_addr_of(t)
         PROVE  target' = target
      BY <1>1, <2>3 DEF x86_div_rem, x86_relop_jump, x86_ind_asn, x86_addr_of
    <2>4. ASSUME NEW t, NEW a,
                x86_unary(t, a) \/ x86_unary2(t, a) \/ x86_llx(t, a) \/ x86_asn(t, a) \/ x86_ind(t, a)
         PROVE  target' = target
      BY <1>1, <2>4 DEF x86_unary, x86_unary2, x86_llx, x86_asn, x86_ind
    <2>5. ASSUME NEW a,
                x86_arg(a) \/ x86_ret(a) \/ x86_cbr(a) \/ x86_switch(a)
         PROVE  target' = target
      BY <1>1, <2>5 DEF x86_arg, x86_ret, x86_cbr, x86_switch
    <2>6. x86_next_block \/ x86_function_definition => target' = target
      BY <1>2, <1>3 DEF x86_next_block, x86_function_definition
    <2> QED BY <2>1, <2>2, <2>3, <2>4, <2>5, <2>6 DEF x86_Next
  <1>5. x64_Next => target' = target
    <2>1. ASSUME NEW t, NEW a, NEW b, NEW k,
                \/ x64_alu(t, a, b, k) \/ x64_shift(t, a, b) \/ x64_div_rem(k, t, a, b)
                \/ x64_relop_jump(a, b, k)
         PROVE  target' = target
      BY <1>1, <2>1 DEF x64_alu, x64_shift, x64_div_rem, x64_relop_jump
    <2>2. ASSUME NEW t, NEW a,
                x64_unary(t, a) \/ x64_addr_of(t) \/ x64_asn(t, a) \/ x64_ind(t, a) \/ x64_cbr(a)
         PROVE  target' = target
      BY <1>1, <2>2 DEF x64_unary, x64_addr_of, x64_asn, x64_ind, x64_cbr
    <2>3. ASSUME NEW t, NEW a, NEW n, NEW k,
                x64_call(t, n, k) \/ x64_indcall(t, a, n, k) \/ x64_ind_asn(t, a, k)
         PROVE  target' = target
      BY <1>1, <2>3 DEF x64_call, x64_indcall, x64_ind_asn
    <2>4. ASSUME NEW a, NEW k, NEW e,
                x64_arg(a, k) \/ x64_ret(a, k, e) \/ x64_switch(a, k)
         PROVE  target' = target
      BY <1>1, <2>4 DEF x64_arg, x64_ret, x64_switch
    <2>5. x64_next_block \/ x64_function_definition => target' = target
      BY <1>2, <1>3 DEF x64_next_block, x64_function_definition
    <2> QED BY <2>1, <2>2, <2>3, <2>4, <2>5 DEF x64_Next
  <1>6. arm_Next => target' = target
    <2>1. ASSUME NEW t, NEW a, NEW b, NEW k,
                \/ arm_div(t, a, b) \/ arm_alu(t, a, b, k) \/ arm_alu2(t, a, b) \/ arm_do_libcall(t, a, b)
                \/ arm_relop_jump(a, b, k)
         PROVE  target' = target
      BY <1>1, <2>1 DEF arm_div, arm_alu, arm_alu2, arm_do_libcall, arm_relop_jump
    <2>2. ASSUME NEW t, NEW a,
                \/ arm_unary(t, a) \/ arm_unary2(t, a) \/ arm_llx(t, a) \/ arm_addr_of(t) \/ arm_asn(t, a)
                \/ arm_ind(t, a)
         PROVE  target' = target
      BY <1>1, <2>2 DEF arm_unary, arm_unary2, arm_llx, arm_addr_of, arm_asn, arm_ind
    <2>3. ASSUME NEW t, NEW a,
                arm_ind_asn(t, a) \/ arm_call(t) \/ arm_indcall(t, a)
         PROVE  target' = target
      BY <1>1, <2>3 DEF arm_ind_asn, arm_call, arm_indcall
    <2>4. ASSUME NEW a, NEW k, NEW e,
                arm_ret(a) \/ arm_arg(a, k, e) \/ arm_arg_area \/ arm_cbr(a) \/ arm_switch(a)
         PROVE  target' = target
      BY <1>1, <2>4 DEF arm_ret, arm_arg, arm_arg_area, arm_cbr, arm_switch
    <2>5. arm_next_block \/ arm_function_definition => target' = target
      BY <1>2, <1>3 DEF arm_next_block, arm_function_definition
    <2> QED BY <2>1, <2>2, <2>3, <2>4, <2>5 DEF arm_Next
  <1>7. mips_Next => target' = target
    <2>1. ASSUME NEW t, NEW a, NEW b, NEW k,
                \/ mips_alu(t, a, b, k) \/ mips_add2(t, a, b) \/ mips_sub2(t, a, b) \/ mips_logic2(t, a, b)
                \/ mips_do_libcall(t, a, b)
         PROVE  target' = target
      BY <1>1, <2>1 DEF mips_alu, mips_add2, mips_sub2, mips_logic2, mips_do_libcall
    <2>2. ASSUME NEW t, NEW a,
                \/ mips_unary(t, a) \/ mips_unary2(t, a) \/ mips_llx(t, a) \/ mips_addr_of(t)
                \/ mips_asn(t, a) \/ mips_ind(t, a)
         PROVE  target' = target
      BY <1>1, <2>2 DEF mips_unary, mips_unary2, mips_llx, mips_addr_of, mips_asn, mips_ind
    <2>3. ASSUME NEW t, NEW a,
                mips_ind_asn(t, a) \/ mips_call(t) \/ mips_indcall(t, a)
         PROVE  target' = target
      BY <1>1, <2>3 DEF mips_ind_asn, mips_call, mips_indcall
    <2>4. ASSUME NEW a, NEW k, NEW e,
                mips_ret(a) \/ mips_arg(a, k, e) \/ mips_arg_area \/ mips_cbr(a) \/ mips_switch(a)
         PROVE  target' = target
      BY <1>1, <2>4 DEF mips_ret, mips_arg, mips_arg_area, mips_cbr, mips_switch
    <2>5. mips_next_block \/ mips_function_definition => target' = target
      BY <1>2, <1>3 DEF mips_next_block, mips_function_definition
    <2> QED BY <2>1, <2>2, <2>3, <2>4, <2>5 DEF mips_Next
  <1> QED BY <1>4, <1>5, <1>6, <1>7 DEF Next

\* No operand on x64 was wrong, and every value that may be read again is where the
\* descriptors and the slots say, for words (Plain) and where the pointer of a store is
\* never pushed out of its register, which x64_ind_asn() does not pin (Ample).
THEOREM ValuesPlaced == ASSUME Proved, Plain, Ample PROVE Spec => [](IInv /\ (target = "x64" => VInv))
  <1>1. Init => (target = "x64" => VInv) BY StartsSound
  <1>2. IInv /\ (target = "x64" => VInv) /\ [Next]_vars => (target = "x64" => VInv)'
    <2> SUFFICES ASSUME IInv, target = "x64" => VInv, [Next]_vars, target' = "x64" PROVE VInv' OBVIOUS
    <2>1. CASE UNCHANGED vars
      <3>1. target' = target BY <2>1 DEF vars
      <3> QED BY <2>1, <3>1, RestsSound
    <2>2. CASE Next
      <3>1. x64_Next BY <2>2, TargetStays, x86_Off, arm_Off, mips_Off DEF Next
      <3>2. target = "x64" BY <3>1, x64_Off
      <3>3. x64_Good BY <3>2 DEF x64_Good, x64_Runs, Proved, IInv
      <3> QED BY <3>1, <3>3, x64_StepSound
    <2> QED BY <2>1, <2>2
  <1>3. Spec => []IInv BY Invariant
  <1> QED BY <1>1, <1>2, <1>3, PTL DEF Spec

\* Every instruction that x64_cgen.c emits reads the values that its quadruple names:
\* whatever the order of loads, spills, calls and stores through pointers, no register or
\* slot that an operand is taken from has been overwritten.
THEOREM OperandsFound == ASSUME Proved, Plain, Ample PROVE Spec => [](target = "x64" => OperandsRight)
  <1>1. IInv /\ (target = "x64" => VInv) => (target = "x64" => OperandsRight) BY SoundShows
  <1> QED BY <1>1, ValuesPlaced, PTL

\* x64_cgen.c drops no value that may still be used: it is in the register that its
\* descriptor names, or in its own memory or slot once the register is given away.
THEOREM NothingDropped == ASSUME Proved, Plain, Ample PROVE Spec => [](target = "x64" => NothingLost)
  <1>1. IInv /\ (target = "x64" => VInv) => (target = "x64" => NothingLost) BY SoundShows
  <1> QED BY <1>1, ValuesPlaced, PTL
=============================================================================
