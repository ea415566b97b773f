-------------------------- MODULE CGenRiscProofs --------------------------
(***************************************************************************)
(* The handlers of arm_cgen.c and of mips_cgen.c keep the inductive        *)
(* invariant of CGenProofs.  Arguments go through registers that no        *)
(* variable is ever bound to; the results of calls come back in registers  *)
(* that variables do live in.                                              *)
(***************************************************************************)
EXTENDS ArmCGen, MipsCGen, CGenProofs

\* Variables are bound to registers of P only.
Only(m, P) == \A r \in Regs : m.reg[r] # NoVar => r \in P

LEMMA OnlyKept ==
  ASSUME NEW m \in States, NEW A \in SUBSET Vars, NEW n \in After(m, A), NEW P, Only(m, P) PROVE Only(n, P)
  <1>1. \A r \in Regs : n.reg[r] \in {m.reg[r], NoVar} BY AfterIs
  <1> QED BY <1>1 DEF Only

LEMMA OnlyReached ==
  ASSUME NEW m \in States, NEW A \in SUBSET Vars, NEW pins, NEW n \in Reached(m, A, pins), NEW P, Only(m, P)
  PROVE  Only(n, P)
  BY OnlyKept DEF Reached

\* get_reg0() has four registers to choose from at least, or five.
Roomy3(pool) == \A r1, r2, r3 \in Regs : ~ (pool \subseteq {r1, r2, r3})
Roomy4(pool) == \A r1, r2, r3, r4 \in Regs : ~ (pool \subseteq {r1, r2, r3, r4})

LEMMA CopiedEmits ==
  ASSUME NEW m \in Gen, NEW r \in Regs, NEW dst
  PROVE  [m EXCEPT !.M = Copied(@, PointedBy(m, r), dst)] \in Emitted(m)
  <1>1. PICK src : src = PointedBy(m, r) OBVIOUS
  <1>2. src \in SUBSET Locs BY <1>1 DEF PointedBy
  <1>3. m.M \in Memory BY DEF Gen
  <1>4. PICK M1 : M1 = Copied(m.M, src, dst) OBVIOUS
  <1>5. M1 \in Memory BY <1>2, <1>3, <1>4, CopiedMemory
  <1>6. m \in Emitted(m) BY EmittedSelf
  <1>7. [m EXCEPT !.M = M1] \in Emitted(m) BY <1>5, <1>6, MemoryEmits
  <1>8. [m EXCEPT !.M = Copied(@, PointedBy(m, r), dst)] = [m EXCEPT !.M = M1] BY <1>1, <1>4
  <1> QED BY <1>7, <1>8

\* The words of registers are put back: nothing but their contents changes.
LEMMA ContentsEmit ==
  ASSUME NEW m, NEW n \in Emitted(m), NEW S, NEW k \in Gen
  PROVE  [n EXCEPT !.R = [r \in Regs |-> IF r \in S THEN k.R[r] ELSE @[r]]] \in Emitted(m)
  <1>1. n \in Gen BY DEF Emitted
  <1>2. PICK X : X = [r \in Regs |-> IF r \in S THEN k.R[r] ELSE n.R[r]] OBVIOUS
  <1>3. X \in [Regs -> Contents] BY <1>1, <1>2 DEF Gen
  <1>4. [n EXCEPT !.R = X] \in Emitted(m) BY <1>1, <1>3 DEF Emitted, Gen
  <1>5. [n EXCEPT !.R = [r \in Regs |-> IF r \in S THEN k.R[r] ELSE @[r]]] = [n EXCEPT !.R = X] BY <1>2
  <1> QED BY <1>4, <1>5

-----------------------------------------------------------------------------
(* arm_cgen.c: stores and spills                                           *)

\* The registers that variables are bound to, and the others.
ArmVars == (4 .. 10) \cup {LinkReg}

LEMMA arm_Regs ==
  /\ ArmVars \in SUBSET Regs /\ ArmPool \in SUBSET ArmVars /\ ArmPool # {}
  /\ 0 \in Regs \ ArmVars /\ 1 \in Regs \ ArmVars /\ 2 \in Regs \ ArmVars /\ 3 \in Regs \ ArmVars
  /\ SCRATCH_REG \in Regs \ ArmVars /\ {SCRATCH_REG} \in SUBSET Int /\ {SCRATCH_REG, LinkReg} \in SUBSET Int
  /\ 4 \in ArmVars /\ 5 \in ArmVars /\ 4 \in Regs /\ 5 \in Regs /\ ArmCallerSave \in SUBSET Int
  <1>1. /\ ArmPool \subseteq ArmVars /\ ArmPool # {} /\ (0 .. 10) \cup {SCRATCH_REG, LinkReg} \subseteq Regs
    BY ArmAssumption DEF ArmVars
  <1>2. ArmVars \subseteq Regs BY <1>1 DEF ArmVars
  <1>3. SCRATCH_REG = 12 /\ LinkReg = 14 BY DEF SCRATCH_REG, LinkReg
  <1>4. SCRATCH_REG \notin ArmVars BY <1>3 DEF ArmVars
  <1>5. ArmCallerSave \subseteq Int BY <1>3 DEF ArmCallerSave, ArmArgs
  <1>6. 0 \notin ArmVars /\ 1 \notin ArmVars /\ 2 \notin ArmVars /\ 3 \notin ArmVars BY <1>3 DEF ArmVars
  <1> QED BY <1>1, <1>2, <1>3, <1>4, <1>5, <1>6 DEF ArmVars

LEMMA arm_ClobberStored ==
  ASSUME NEW m \in States, NEW A \in SUBSET Vars, NEW S \in SUBSET Int
  PROVE  Clobber(m, S) \in Stored(m, A) /\ Clobber(m, S) \in States /\ Clobber(m, S).addr = m.addr
  <1>1. m \in Emitted(m) BY EmittedSelf DEF States
  <1>2. Clobber(m, S) \in Emitted(m) BY <1>1, ClobberEmits
  <1>3. Clobber(m, S) \in Stored(m, A) BY <1>2, EmittedStored
  <1> QED BY <1>3, StoredIs

LEMMA arm_StoreStored ==
  ASSUME NEW m \in States, NEW A \in SUBSET Vars, NEW r \in Regs, NEW a \in Vars, a \in Busy(m) \cup A
  PROVE  arm_store(m, r, a) \in Stored(m, A)
  <1>1. CASE a \in Structs \cap Ids
    <2>1. m \in Gen BY DEF States
    <2>2. PICK k : k = [m EXCEPT !.M = Copied(@, PointedBy(m, r), {a})] OBVIOUS
    <2>3. k \in Emitted(m) BY <2>1, <2>2, CopiedEmits
    <2>4. Clobber(k, {SCRATCH_REG, LinkReg}) \in Emitted(m) BY <2>3, arm_Regs, ClobberEmits
    <2>5. arm_store(m, r, a) = Clobber(k, {SCRATCH_REG, LinkReg}) BY <1>1, <2>2 DEF arm_store, arm_memcpy
    <2> QED BY <2>4, <2>5, EmittedStored
  <1>2. CASE a \notin Structs \cap Ids
    <2>1. PICK c : c = Clobber(m, {SCRATCH_REG}) OBVIOUS
    <2>2. c \in Stored(m, A) /\ c \in States /\ c.addr = m.addr BY <2>1, arm_Regs, arm_ClobberStored
    <2>3. a \in Busy(c) \cup A BY <2>2 DEF Busy, InReg, addr_reg1
    <2>4. ToHome(WithHome(c, a), r, a, 1) \in Stored(c, A) BY <2>2, <2>3, Store1Stored
    <2>5. arm_store(m, r, a) = ToHome(WithHome(c, a), r, a, 1) BY <1>2, <2>1 DEF arm_store
    <2> QED BY <2>2, <2>4, <2>5, StoredTrans
  <1> QED BY <1>1, <1>2

LEMMA arm_Store2Stored ==
  ASSUME NEW m \in States, NEW A \in SUBSET Vars, NEW r, r.r1 \in Regs, r.r2 \in Regs,
         NEW a \in Vars, a \in Busy(m) \cup A
  PROVE  arm_store2(m, r, a) \in Stored(m, A)
  <1>1. PICK c : c = Clobber(m, {SCRATCH_REG}) OBVIOUS
  <1>2. c \in Stored(m, A) /\ c \in States /\ c.addr = m.addr BY <1>1, arm_Regs, arm_ClobberStored
  <1>3. a \in Busy(c) \cup A BY <1>2 DEF Busy, InReg, addr_reg1
  <1>4. Store2(c, r, a) \in Stored(c, A) BY <1>2, <1>3, Store2Stored
  <1>5. arm_store2(m, r, a) = Store2(c, r, a) BY <1>1 DEF arm_store2
  <1> QED BY <1>2, <1>4, <1>5, StoredTrans

LEMMA arm_StoreVarStored ==
  ASSUME NEW m \in States, NEW a \in Vars, InReg(m, a) PROVE arm_StoreVar(m, a) \in Stored(m, {})
  <1>1. addr_reg1(m, a) \in Regs /\ a \in Busy(m) BY RegOf
  <1>2. CASE addr_reg2(m, a) # None
    <2>1. m.addr[a].r1 \in Regs /\ m.addr[a].r2 \in Regs BY <1>2, RegOf
    <2>2. arm_store2(m, m.addr[a], a) \in Stored(m, {}) BY <1>1, <2>1, arm_Store2Stored
    <2> QED BY <1>2, <2>2 DEF arm_StoreVar
  <1>3. CASE addr_reg2(m, a) = None
    <2>1. arm_store(m, addr_reg1(m, a), a) \in Stored(m, {}) BY <1>1, arm_StoreStored
    <2> QED BY <1>3, <2>1 DEF arm_StoreVar
  <1> QED BY <1>2, <1>3

LEMMA arm_SpillFewer ==
  ASSUME NEW m \in States, NEW r \in Regs
  PROVE  arm_spill_reg(m, r) \in Fewer(m) /\ reg_isempty(arm_spill_reg(m, r), r)
  <1>1. ~reg_isempty(m, r) => arm_StoreVar(m, m.reg[r]) \in Stored(m, {})
    BY OwnerIs, arm_StoreVarStored DEF reg_isempty
  <1> QED BY <1>1, SpillFewer DEF arm_spill_reg, SpillReg

\* What SpillThese leaves after each register: f is the recursive function it defines.
arm_Loop(f, m, S) ==
  /\ f[-1] = m
  /\ \A r \in 0 .. LastReg :
       f[r] = IF r \in Regs /\ f[r - 1].reg[r] \in S THEN arm_spill_reg(f[r - 1], r) ELSE f[r - 1]

LEMMA arm_Spilling ==
  ASSUME NEW m \in States, NEW S \in SUBSET Vars
  PROVE  \E f : SpillThese(m, S, arm_spill_reg) = f[LastReg] /\ arm_Loop(f, m, S)
  <1> DEFINE F(h) == [r \in -1 .. LastReg |->
                       IF r = -1 THEN m
                       ELSE LET n == h[r - 1]
                            IN  IF r \in Regs /\ n.reg[r] \in S THEN arm_spill_reg(n, r) ELSE n]
             f == CHOOSE h : h = F(h)
  <1>1. CASE \A r \in Regs : m.reg[r] \notin S
    <2>1. SpillThese(m, S, arm_spill_reg) = m BY <1>1 DEF SpillThese
    <2>2. PICK idle : idle = [r \in -1 .. LastReg |-> m] OBVIOUS
    <2>3. idle[LastReg] = m /\ idle[-1] = m BY <2>2, LastRegIs
    <2>4. \A r \in 0 .. LastReg : idle[r] = m /\ idle[r - 1] = m BY <2>2, LastRegIs
    <2>5. arm_Loop(idle, m, S) BY <1>1, <2>3, <2>4 DEF arm_Loop
    <2> QED BY <2>1, <2>3, <2>5
  <1>2. CASE ~ \A r \in Regs : m.reg[r] \notin S
    <2>1. SpillThese(m, S, arm_spill_reg) = f[LastReg] BY <1>2 DEF SpillThese
    <2>2. PICK g : g = [r \in 0 .. LastReg |-> [n \in States |->
                          IF r \in Regs /\ n.reg[r] \in S THEN arm_spill_reg(n, r) ELSE n]]
      OBVIOUS
    <2>3. g \in [0 .. LastReg -> [States -> States]]
      <3>1. \A n \in States, r \in Regs : arm_spill_reg(n, r) \in States BY arm_SpillFewer, FewerIs
      <3> QED BY <2>2, <3>1
    <2>4. PICK h \in [-1 .. LastReg -> States] : h[-1] = m /\ \A r \in 0 .. LastReg : h[r] = g[r][h[r - 1]]
      <3>1. PICK N \in Nat : N = LastReg BY LastRegIs
      <3>2. g \in [0 .. N -> [States -> States]] BY <2>3, <3>1
      <3>3. PICK h : Iterated(h, g, m, N) BY <3>1, <3>2, Iterate
      <3> QED BY <3>1, <3>3 DEF Iterated
    <2>5. h = F(h)
      <3>1. ASSUME NEW r \in -1 .. LastReg PROVE h[r] = F(h)[r]
        <4>1. CASE r = -1 BY <2>4, <4>1
        <4>2. CASE r # -1
          <5>1. r \in 0 .. LastReg /\ r - 1 \in -1 .. LastReg /\ h[r - 1] \in States BY <4>2, <2>4, LastRegIs
          <5> QED BY <4>2, <5>1, <2>2, <2>4
        <4> QED BY <4>1, <4>2
      <3> QED BY <3>1, <2>4
    <2>6. f = F(f) BY <2>5
    <2> HIDE DEF f
    <2>7. f[-1] = m BY <2>6, LastRegIs
    <2>8. \A r \in 0 .. LastReg : f[r] = IF r \in Regs /\ f[r - 1].reg[r] \in S THEN arm_spill_reg(f[r - 1], r) ELSE f[r - 1]
      BY <2>6, LastRegIs
    <2>9. arm_Loop(f, m, S) BY <2>7, <2>8 DEF arm_Loop
    <2> QED BY <2>1, <2>9
  <1> QED BY <1>1, <1>2

LEMMA arm_SpillTheseFewer ==
  ASSUME NEW m \in States, NEW S \in SUBSET Vars
  PROVE  /\ SpillThese(m, S, arm_spill_reg) \in Fewer(m)
         /\ \A r \in Regs : SpillThese(m, S, arm_spill_reg).reg[r] \notin S
  <1>1. PICK f : SpillThese(m, S, arm_spill_reg) = f[LastReg] /\ arm_Loop(f, m, S) BY arm_Spilling
  <1>2. ASSUME NEW r \in 0 .. LastReg, f[r - 1] \in States
        PROVE  f[r] \in Fewer(f[r - 1]) /\ (r \in Regs => f[r].reg[r] \notin S)
    <2>1. f[r] = IF r \in Regs /\ f[r - 1].reg[r] \in S THEN arm_spill_reg(f[r - 1], r) ELSE f[r - 1]
      BY <1>1 DEF arm_Loop
    <2>2. NoVar \notin S BY CGenRegsAssumption
    <2> QED BY <1>2, <2>1, <2>2, arm_SpillFewer, FewerSelf DEF reg_isempty
  <1>3. \A r \in 0 .. LastReg : f[r] \in Fewer(m) /\ \A s \in Regs : s <= r => f[r].reg[s] \notin S
    BY <1>1, <1>2, LoopFewer, LastRegIs DEF arm_Loop
  <1> QED BY <1>1, <1>3, LastRegIs

-----------------------------------------------------------------------------
(* arm_cgen.c: registers and operands                                      *)
LEMMA arm_TakeFewer ==
  ASSUME NEW m \in States, NEW r \in Regs
  PROVE  /\ arm_TakeEmpty(m, r).got = r /\ (reg_isempty(m, r) => arm_TakeEmpty(m, r) \in Fewer(m))
         /\ arm_TakeEmpty(m, r).reg = m.reg
         /\ arm_TakeUsed(m, r) \in Fewer(m) /\ arm_TakeUsed(m, r).got = r /\ arm_TakeUsed(m, r).reg[r] = NoVar
  <1>1. PICK k : k = [m EXCEPT !.got = r] OBVIOUS
  <1>2. k \in Picked(m) /\ k.pinned = m.pinned /\ k.res = m.res /\ k.got = r BY <1>1, GotPicks
  <1>3. k \in Fewer(m) /\ k \in States /\ k.reg = m.reg BY <1>2, PickedFewer
  <1>4. PICK e : e = [k EXCEPT !.modified = @ \cup {r}] OBVIOUS
  <1>5. e \in Picked(k) /\ e.pinned = k.pinned /\ e.res = k.res /\ e.got = k.got BY <1>3, <1>4, ModifiedPicks
  <1>6. e \in Fewer(k) /\ e.reg = k.reg BY <1>3, <1>5, PickedFewer
  <1>7. e \in Fewer(m) BY <1>3, <1>6, FewerTrans
  <1>8. e = arm_TakeEmpty(m, r) BY <1>1, <1>4 DEF arm_TakeEmpty
  <1>9. PICK f : f = Fault(m, "modified", r \in m.modified) OBVIOUS
  <1>10. f \in Emitted(m) BY <1>9, EmittedSelf, FaultEmits DEF Faults, States
  <1>11. f \in Fewer(m) /\ f \in States BY <1>10, EmittedState, EmittedStored, StoredFewer
  <1>12. PICK q : q = arm_spill_reg(f, r) OBVIOUS
  <1>13. q \in Fewer(f) /\ q.reg[r] = NoVar /\ q \in States BY <1>11, <1>12, arm_SpillFewer, FewerIs DEF reg_isempty
  <1>14. PICK n : n = [q EXCEPT !.got = r] OBVIOUS
  <1>15. n \in Picked(q) /\ n.pinned = q.pinned /\ n.res = q.res /\ n.got = r BY <1>13, <1>14, GotPicks
  <1>16. n \in Fewer(q) /\ n.reg = q.reg BY <1>13, <1>15, PickedFewer
  <1>17. n \in Fewer(m) BY <1>11, <1>13, <1>16, FewerTrans
  <1>18. n = arm_TakeUsed(m, r) BY <1>9, <1>12, <1>14 DEF arm_TakeUsed
  <1> QED BY <1>2, <1>3, <1>5, <1>6, <1>7, <1>8, <1>13, <1>15, <1>16, <1>17, <1>18

LEMMA arm_Get0 ==
  ASSUME NEW m \in States, ~ (ArmPool \subseteq m.pinned)
  PROVE  /\ arm_get_reg0(m) \in Fewer(m) /\ arm_get_reg0(m).got \in (Regs \cap ArmVars) \ m.pinned
         /\ arm_get_reg0(m).reg[arm_get_reg0(m).got] = NoVar
  <1>1. ArmPool \in SUBSET (Regs \cap ArmVars) /\ Regs \subseteq Nat BY arm_Regs, RegsAre
  <1>2. CASE EmptyRegs(m, ArmPool) \subseteq m.pinned
    <2>1. PICK S : S = ArmPool \ m.pinned OBVIOUS
    <2>2. S # {} /\ S \in SUBSET Nat /\ S \subseteq (Regs \cap ArmVars) \ m.pinned BY <1>1, <2>1
    <2>3. PICK r : r = Min(S) OBVIOUS
    <2>4. r \in (Regs \cap ArmVars) \ m.pinned BY <2>2, <2>3, MinIs
    <2>5. arm_get_reg0(m) = arm_TakeUsed(m, r) BY <1>2, <2>1, <2>3 DEF arm_get_reg0
    <2> QED BY <2>4, <2>5, arm_TakeFewer
  <1>3. CASE ~ (EmptyRegs(m, ArmPool) \subseteq m.pinned)
    <2>1. PICK S : S = EmptyRegs(m, ArmPool) \ m.pinned OBVIOUS
    <2>2. S # {} /\ S \in SUBSET Nat /\ S \subseteq (Regs \cap ArmVars) \ m.pinned
      BY <1>1, <1>3, <2>1 DEF EmptyRegs
    <2>3. PICK r : r = Min(S) OBVIOUS
    <2>4. r \in S BY <2>2, <2>3, MinIs
    <2>5. r \in (Regs \cap ArmVars) \ m.pinned /\ reg_isempty(m, r) BY <2>1, <2>2, <2>4 DEF EmptyRegs
    <2>6. arm_get_reg0(m) = arm_TakeEmpty(m, r) BY <1>3, <2>1, <2>3 DEF arm_get_reg0
    <2> QED BY <2>5, <2>6, arm_TakeFewer DEF reg_isempty
  <1> QED BY <1>2, <1>3

LEMMA arm_GetReg ==
  ASSUME NEW m \in States, Only(m, ArmVars), NEW a \in Vars \cup {Const}, NEW live \in BOOLEAN,
         ~ (ArmPool \subseteq m.pinned)
  PROVE  /\ arm_get_reg(m, a, live) \in After(m, {}) /\ arm_get_reg(m, a, live).pinned = m.pinned
         /\ Ready(arm_get_reg(m, a, live), a, live, ArmVars)
         /\ arm_get_reg(m, a, live).res.r1 \in Regs
  <1>1. \A r \in Regs : m.reg[r] # NoVar => r \in ArmVars BY DEF Only
  <1>2. PICK g : g = arm_get_reg0(m) OBVIOUS
  <1>3. g \in Fewer(m) /\ g.got \in Regs \cap ArmVars /\ g.reg[g.got] = NoVar BY <1>2, arm_Get0
  <1>4. PICK n : n = arm_get_reg(m, a, live) OBVIOUS
  <1>5. n = IF InReg(m, a) /\ ~live THEN [m EXCEPT !.res.r1 = addr_reg1(m, a)] ELSE Got1(g)
    BY <1>2, <1>4 DEF arm_get_reg, GetReg
  <1>6. n \in After(m, {}) /\ n.pinned = m.pinned /\ Ready(n, a, live, ArmVars) /\ n.res.r1 \in Regs
    <2>1. CASE InReg(m, a) /\ ~live BY <2>1, <1>1, <1>5, OwnRegRight
    <2>2. CASE ~(InReg(m, a) /\ ~live) BY <2>2, <1>3, <1>5, NewRegRight
    <2> QED BY <2>1, <2>2
  <1> QED BY <1>4, <1>6

LEMMA arm_ArgUpdated ==
  ASSUME NEW m \in States, NEW a \in Vars \cup {Const}, NEW live \in BOOLEAN, NEW next \in BOOLEAN
  PROVE  arm_update_arg_descriptors(m, a, live, next) \in Updated(m, a, live, next)
  <1>1. PICK k : k = Kept(m, a, live, arm_StoreVar) OBVIOUS
  <1>2. PICK n : n = arm_update_arg_descriptors(m, a, live, next) OBVIOUS
  <1>3. n = IF a = Const \/ next THEN m ELSE Release(k, a, m.addr[a])
    BY <1>1, <1>2 DEF arm_update_arg_descriptors, UpdateArg
  <1>4. a \in Vars => k \in Stored(m, {}) /\ (~live => a \notin Owners(k))
    <2>1. CASE live /\ InReg(m, a) BY <1>1, <2>1, arm_StoreVarStored DEF Kept
    <2>2. CASE ~live /\ a \in Temps BY <1>1, <2>2, FreeTempStored DEF Kept
    <2>3. CASE ~(live /\ InReg(m, a)) /\ ~(~live /\ a \in Temps)
      BY <1>1, <2>3, StoredSelf DEF Kept, Owners
    <2> QED BY <2>1, <2>2, <2>3
  <1> QED BY <1>2, <1>3, <1>4, UpdatedRight

LEMMA arm_ArgsRight ==
  ASSUME NEW m, NEW tar, NEW a1 \in Vars \cup {Const}, NEW a2 \in Vars \cup {Const}, NEW P,
         Marked(m, tar, {a1, a2}, P)
  PROVE  arm_update_args(m, tar, a1, a2) \in Settled(m, tar, a1, P)
  <1>1. m \in States BY MarkedIs
  <1>2. PICK n : n = arm_update_arg_descriptors(m, a1, Live1(m, tar, a1), Used1(m, tar, a1)) OBVIOUS
  <1>3. n \in Updated(m, a1, Live1(m, tar, a1), Used1(m, tar, a1)) BY <1>1, <1>2, LiveBoolean, arm_ArgUpdated
  <1>4. n \in States BY <1>1, <1>3, FewerIs DEF Updated
  <1>5. PICK q : q = arm_update_arg_descriptors(n, a2, Live2(m, tar, a1, a2), Used2(m, tar, a1, a2)) OBVIOUS
  <1>6. q \in Updated(n, a2, Live2(m, tar, a1, a2), Used2(m, tar, a1, a2))
    BY <1>4, <1>5, LiveBoolean, arm_ArgUpdated
  <1>7. q = arm_update_args(m, tar, a1, a2) BY <1>2, <1>5 DEF arm_update_args, UpdateArgs
  <1> QED BY <1>3, <1>6, <1>7, ArgsSettled

LEMMA arm_TarRight ==
  ASSUME NEW m, NEW tar \in Vars \ Wide, NEW P, Marked(m, tar, {}, P), m.res.r1 \in Regs \cap P,
         m.reg[m.res.r1] = NoVar
  PROVE  arm_update_tar(m, tar) \in Done(m, P)
  <1>1. PICK r : r = m.res.r1 OBVIOUS
  <1>2. PICK k : k = arm_store(Bind(m, r, tar), r, tar) OBVIOUS
  <1>3. PICK b : b = Bind(m, r, tar) OBVIOUS
  <1>4. b \in States => k \in Stored(b, {tar}) BY <1>1, <1>2, <1>3, arm_StoreStored
  <1>5. arm_update_tar(m, tar)
          = IF Used(m, tar) THEN Bind(m, r, tar) ELSE Unbind(IF Live(m, tar) THEN k ELSE Bind(m, r, tar), r, tar)
    BY <1>1, <1>2 DEF arm_update_tar, arm_update_tar_descriptors, UpdateTar
  <1> QED BY <1>1, <1>3, <1>4, <1>5, TarDone

LEMMA arm_Tar2Right ==
  ASSUME NEW m, NEW tar \in Wide, NEW P, Marked(m, tar, {}, P), m.res.r1 \in Regs \cap P, m.res.r2 \in Regs \cap P,
         m.res.r1 # m.res.r2, m.reg[m.res.r1] = NoVar, m.reg[m.res.r2] = NoVar
  PROVE  arm_update_tar2(m, tar) \in Done(m, P)
  <1>1. PICK d : d = m.res OBVIOUS
  <1>2. d \in Pairs BY <1>1, MarkedIs DEF States, Gen
  <1>3. PICK b : b = Bind2(m, d, tar) OBVIOUS
  <1>4. PICK k : k = arm_store2(b, d, tar) OBVIOUS
  <1>5. tar \in Vars /\ {tar} \in SUBSET Vars /\ d.r1 \in Regs /\ d.r2 \in Regs BY <1>1, CGenRegsAssumption
  <1>6. b \in States => k \in Stored(b, {tar}) BY <1>4, <1>5, arm_Store2Stored
  <1>7. arm_update_tar2(m, tar)
          = IF Used(m, tar) THEN Bind2(m, d, tar) ELSE Release(IF Live(m, tar) THEN k ELSE Bind2(m, d, tar), tar, d)
    BY <1>1, <1>3, <1>4 DEF arm_update_tar2, arm_update_tar_descriptors2, UpdateTar2
  <1> QED BY <1>1, <1>2, <1>3, <1>6, <1>7, Tar2Done

\* Where get_reg() finds a register.
LEMMA arm_GetRegPlace ==
  ASSUME NEW m \in States, NEW a \in Vars \cup {Const}, NEW live \in BOOLEAN, ~ (ArmPool \subseteq m.pinned),
         NEW k, k = arm_get_reg(m, a, live)
  PROVE  IF InReg(m, a) /\ ~live THEN k.res.r1 = addr_reg1(m, a)
                                 ELSE k.reg[k.res.r1] = NoVar /\ k.res.r1 \notin m.pinned
  <1>1. CASE InReg(m, a) /\ ~live
    <2>1. PICK r \in Regs : r = addr_reg1(m, a) BY <1>1, RegOf
    <2>2. [m EXCEPT !.res.r1 = r].res.r1 = r BY Res1Picks
    <2>3. k = [m EXCEPT !.res.r1 = r] BY <1>1, <2>1 DEF arm_get_reg, GetReg
    <2> QED BY <1>1, <2>1, <2>2, <2>3
  <1>2. CASE ~(InReg(m, a) /\ ~live)
    <2>1. PICK g : g = arm_get_reg0(m) OBVIOUS
    <2>2. g \in Fewer(m) /\ g.got \in Regs \cap ArmVars /\ g.got \notin m.pinned /\ g.reg[g.got] = NoVar
      BY <2>1, arm_Get0
    <2>3. Got1(g).res.r1 = g.got /\ Got1(g).reg = g.reg BY <2>2, NewRegRight
    <2>4. k = Got1(g) BY <1>2, <2>1 DEF arm_get_reg, GetReg
    <2> QED BY <1>2, <2>2, <2>3, <2>4
  <1> QED BY <1>1, <1>2

\* get_reg2() before the registers are put in order.
LEMMA arm_GetPair ==
  ASSUME NEW m \in States, Only(m, ArmVars), NEW a \in Vars \cup {Const}, NEW live \in BOOLEAN, Roomy3(ArmPool),
         NEW p1 \in Regs, NEW p2 \in Regs, m.pinned \subseteq {p1, p2},
         NEW n, n = GetReg2(m, a, live, arm_get_reg0)
  PROVE  /\ n \in After(m, {}) /\ n.pinned = m.pinned \ {n.res.r1} /\ Ready2(n, a, live, ArmVars)
         /\ a \in Wide /\ InReg(n, a) => PairExpected(n.addr[a], n.res, a)
         /\ a = Const => n.res.r1 \notin m.pinned
         /\ InReg(m, a) /\ ~live => n.res.r1 = addr_reg1(m, a)
  <1>1. ~ (ArmPool \subseteq m.pinned)
    <2>1. ~ (ArmPool \subseteq {p1, p1, p2}) BY DEF Roomy3
    <2> QED BY <2>1
  <1>2. PICK k : k = arm_get_reg(m, a, live) OBVIOUS
  <1>3. k \in After(m, {}) /\ k.pinned = m.pinned /\ Ready(k, a, live, ArmVars) /\ k.res.r1 \in Regs
    BY <1>1, <1>2, arm_GetReg
  <1>4. IF InReg(m, a) /\ ~live THEN k.res.r1 = addr_reg1(m, a)
                                ELSE k.reg[k.res.r1] = NoVar /\ k.res.r1 \notin m.pinned
    BY <1>1, <1>2, arm_GetRegPlace
  <1>5. k \in States BY <1>3, AfterIs
  <1>6. PICK p : p = PinRes(k) OBVIOUS
  <1>7. PICK s : s = k.res.r1 OBVIOUS
  <1>8. p \in States /\ p.pinned \subseteq {p1, p2, s}
    <2>1. p = pin_reg(k, s) BY <1>6, <1>7 DEF PinRes
    <2>2. pin_reg(k, s) \in Picked(k) /\ pin_reg(k, s).pinned = k.pinned \cup {s} BY <1>3, <1>5, <1>7, PinPicks
    <2>3. p \in States BY <1>5, <2>1, <2>2, PickedAfter
    <2> QED BY <1>3, <2>1, <2>2, <2>3
  <1>9. ~ (ArmPool \subseteq p.pinned)
    <2>1. ~ (ArmPool \subseteq {p1, p2, s}) BY <1>3, <1>7 DEF Roomy3
    <2> QED BY <1>8, <2>1
  <1>10. PICK g : g = arm_get_reg0(p) OBVIOUS
  <1>11. g \in Fewer(p) /\ g.got \in (Regs \cap ArmVars) \ p.pinned /\ g.reg[g.got] = NoVar
    BY <1>8, <1>9, <1>10, arm_Get0
  <1>13. PICK h : h = SecondOf(p, a, live, g) OBVIOUS
  <1>14. n = UnpinRes(h) BY <1>2, <1>6, <1>10, <1>13 DEF GetReg2, HighReg, arm_get_reg, SecondOf, OwnSecond
  <1>15. \A t \in Regs : m.reg[t] # NoVar => t \in ArmVars BY DEF Only
  <1>18. FirstOf(m, k, a, live) BY <1>4 DEF FirstOf
  <1>16. /\ n \in After(m, {}) /\ n.pinned = m.pinned \ {n.res.r1} /\ n.res.r1 = k.res.r1
         /\ Ready2(n, a, live, ArmVars)
         /\ a \in Wide /\ InReg(n, a) => PairExpected(n.addr[a], n.res, a)
    BY <1>3, <1>6, <1>11, <1>13, <1>14, <1>15, <1>18, PairReady
  <1>17. a = Const => ~InReg(m, a) BY DEF InReg
  <1> QED BY <1>4, <1>16, <1>17

\* A pair that is swapped is still one that load2() expects.
LEMMA arm_OrderedRight ==
  ASSUME NEW m \in States, NEW n \in States, NEW a \in Vars \cup {Const}, NEW live \in BOOLEAN,
         n \in After(m, {}), Ready2(n, a, live, ArmVars),
         a \in Wide /\ InReg(n, a) => PairExpected(n.addr[a], n.res, a),
         InReg(m, a) /\ ~live => n.res.r1 = addr_reg1(m, a), NEW q, q = arm_Ordered(n)
  PROVE  /\ q \in After(m, {}) /\ q.pinned = n.pinned /\ Ready2(q, a, live, ArmVars)
         /\ a \in Wide /\ InReg(q, a) => PairExpected(q.addr[a], q.res, a)
  <1>1. CASE ~(n.res.r1 > n.res.r2)
    <2>1. q = n BY <1>1 DEF arm_Ordered
    <2> QED BY <2>1
  <1>2. CASE n.res.r1 > n.res.r2
    <2>1. n.res.r1 \in Regs /\ n.res.r2 \in Regs /\ n.res.r1 # n.res.r2 BY DEF Ready2, Ready, Free
    <2>2. PICK d : d = Pair(n.res.r2, n.res.r1) OBVIOUS
    <2>3. d \in Pairs /\ d.r1 = n.res.r2 /\ d.r2 = n.res.r1 BY <2>1, <2>2 DEF Pair, Pairs
    <2>4. q = [n EXCEPT !.res = d] BY <1>2, <2>2 DEF arm_Ordered
    <2>5. q \in Picked(n) /\ q.pinned = n.pinned /\ q.res = d BY <2>3, <2>4, ResPicks
    <2>6. q \in After(n, {}) /\ q.reg = n.reg /\ q.addr = n.addr BY <2>5, PickedAfter
    <2>7. q \in After(m, {}) BY <2>6, AfterTrans
    <2>8. Ready2(q, a, live, ArmVars) BY <2>1, <2>3, <2>5, <2>6 DEF Ready2, Ready, Free
    <2>9. ASSUME a \in Wide, InReg(q, a) PROVE PairExpected(q.addr[a], q.res, a)
      <3>1. InReg(n, a) BY <2>6, <2>9 DEF InReg, addr_reg1
      <3>2. /\ n.addr[a].r1 \in Regs /\ n.addr[a].r2 \in Regs /\ n.addr[a].r1 # n.addr[a].r2
            /\ n.addr[a].r2 # None
            /\ n.reg[n.addr[a].r1] = a /\ n.reg[n.addr[a].r2] = a /\ a \in Vars
        BY <2>9, <3>1, RegOf
      <3>3. PairExpected(n.addr[a], n.res, a) BY <2>9, <3>1
      <3>4. CASE live
        <4>1. n.reg[n.res.r1] = NoVar /\ n.reg[n.res.r2] = NoVar BY <3>4 DEF Ready2, Ready, Free
        <4>2. NoVar # a BY <3>2, CGenRegsAssumption
        <4>3. n.addr[a].r1 # n.res.r2 /\ n.addr[a].r2 # n.res.r1 BY <3>2, <4>1, <4>2
        <4> QED BY <2>3, <2>5, <2>6, <3>2, <4>3 DEF PairExpected
      <3>5. CASE ~live
        <4>1. n.addr[a] \in {m.addr[a], NoReg} BY <3>2, AfterIs
        <4>2. n.addr[a] = m.addr[a] BY <3>1, <4>1 DEF InReg, addr_reg1, NoReg
        <4>3. InReg(m, a) /\ n.res.r1 = n.addr[a].r1 BY <3>1, <3>5, <4>2 DEF InReg, addr_reg1
        <4> QED BY <2>3, <2>5, <2>6, <3>2, <3>3, <4>3 DEF PairExpected
      <3> QED BY <3>4, <3>5
    <2> QED BY <2>5, <2>7, <2>8, <2>9
  <1> QED BY <1>1, <1>2

LEMMA arm_GetReg2 ==
  ASSUME NEW m \in States, Only(m, ArmVars), NEW a \in Vars \cup {Const}, NEW live \in BOOLEAN, Roomy3(ArmPool),
         m.pinned = {}, NEW n, n = arm_get_reg2(m, a, live)
  PROVE  /\ n \in After(m, {}) /\ n.pinned = {} /\ Ready2(n, a, live, ArmVars)
         /\ a \in Wide /\ InReg(n, a) => PairExpected(n.addr[a], n.res, a)
  <1>1. PICK k : k = GetReg2(m, a, live, arm_get_reg0) OBVIOUS
  <1>2. m.pinned \subseteq {4, 4} /\ 4 \in Regs BY arm_Regs
  <1>3. /\ k \in After(m, {}) /\ k.pinned = m.pinned \ {k.res.r1} /\ Ready2(k, a, live, ArmVars)
        /\ a \in Wide /\ InReg(k, a) => PairExpected(k.addr[a], k.res, a)
        /\ InReg(m, a) /\ ~live => k.res.r1 = addr_reg1(m, a)
    BY <1>1, <1>2, arm_GetPair
  <1>4. k \in States /\ k.pinned = {} BY <1>3, AfterIs
  <1>5. n = arm_Ordered(k) BY <1>1 DEF arm_get_reg2
  <1> QED BY <1>3, <1>4, <1>5, arm_OrderedRight

\* load2() to a pair, and to one that no variable is in.
LEMMA arm_LoadedPair ==
  ASSUME NEW k \in States, NEW A \in SUBSET Vars, NEW r, r.r1 \in Regs, r.r2 \in Regs, NEW a,
         a \in A \cup {Const}, a \in Wide \cup {Const}, InReg(k, a) => PairExpected(k.addr[a], r, a)
  PROVE  arm_load2(k, r, a) \in Stored(k, A) /\ RightIn2(arm_load2(k, r, a), r, a) \in Stored(k, A)
  <1>1. PICK c : c = Clobber(k, {SCRATCH_REG}) OBVIOUS
  <1>2. c \in Stored(k, A) /\ c \in States /\ c.addr = k.addr BY <1>1, arm_Regs, arm_ClobberStored
  <1>3. InReg(c, a) => PairExpected(c.addr[a], r, a) BY <1>2 DEF InReg, addr_reg1
  <1>4. Load2(c, r, a) \in Stored(c, A) BY <1>2, <1>3, Load2Stored
  <1>5. RightIn2(Load2(c, r, a), r, a) \in Stored(c, A) BY <1>2, <1>3, LoadedPair
  <1>6. arm_load2(k, r, a) = Load2(c, r, a) BY <1>1 DEF arm_load2
  <1> QED BY <1>2, <1>4, <1>5, <1>6, StoredTrans

LEMMA arm_LoadArg2Still ==
  ASSUME NEW m \in States, Only(m, ArmVars), NEW A \in SUBSET Vars, NEW n \in Still(m, A),
         NEW r1 \in Regs \ ArmVars, NEW r2 \in Regs \ ArmVars,
         NEW a \in A \cup {Const}, a \in Wide \cup {Const}
  PROVE  arm_LoadArg2(n, Pair(r1, r2), a) \in Still(m, A)
  <1>1. n \in States /\ n \in After(m, A) BY StillIs
  <1>2. Only(n, ArmVars) BY <1>1, OnlyKept
  <1>3. PICK d : d = Pair(r1, r2) OBVIOUS
  <1>4. d.r1 = r1 /\ d.r2 = r2 BY <1>3 DEF Pair
  <1>5. ASSUME InReg(n, a) PROVE PairExpected(n.addr[a], d, a)
    <2>1. /\ a \in Vars /\ n.addr[a].r1 \in Regs /\ n.reg[n.addr[a].r1] = a /\ n.addr[a].r2 # None
          /\ n.addr[a].r2 \in Regs /\ n.reg[n.addr[a].r2] = a
      <3>1. a \in Vars \cup {Const} /\ (a \in Wide) BY <1>5 DEF InReg
      <3> QED BY <1>1, <1>5, <3>1, RegOf
    <2>2. a # NoVar BY <2>1, CGenRegsAssumption
    <2>3. n.addr[a].r1 \in ArmVars /\ n.addr[a].r2 \in ArmVars BY <1>2, <2>1, <2>2 DEF Only
    <2> QED BY <1>4, <2>1, <2>3 DEF PairExpected
  <1>6. arm_LoadArg2(n, d, a) \in Stored(n, A) BY <1>1, <1>4, <1>5, arm_LoadedPair DEF arm_LoadArg2
  <1> QED BY <1>3, <1>6, StillThenStored

\* The first operand is in the pair n.res.
LEMMA arm_Loaded2Right ==
  ASSUME NEW n \in States, Only(n, ArmVars), NEW A \in SUBSET Vars, NEW tar,
         NEW a1 \in A \cup {Const}, a1 \in Wide \cup {Const}, n.pinned = {}, Roomy3(ArmPool)
  PROVE  /\ arm_Loaded2(n, tar, a1) \in Reached(n, A, {})
         /\ Ready2(arm_Loaded2(n, tar, a1), a1, Live1(n, tar, a1), ArmVars)
  <1>1. PICK live : live = Live1(n, tar, a1) OBVIOUS
  <1>2. PICK k : k = arm_get_reg2(n, a1, live) OBVIOUS
  <1>3. live \in BOOLEAN BY <1>1, LiveBoolean
  <1>4. /\ k \in After(n, {}) /\ k.pinned = {} /\ Ready2(k, a1, live, ArmVars)
        /\ a1 \in Wide /\ InReg(k, a1) => PairExpected(k.addr[a1], k.res, a1)
    BY <1>2, <1>3, arm_GetReg2
  <1>5. k \in States /\ k.pinned = {} /\ k.res.r1 \in Regs /\ k.res.r2 \in Regs
    BY <1>4, AfterIs DEF Ready2, Ready, Free
  <1>6. k \in After(n, A) BY <1>4, AfterMore
  <1>7. PICK q : q = RightIn2(arm_load2(k, k.res, a1), k.res, a1) OBVIOUS
  <1>8. q \in Stored(k, A)
    <2>1. InReg(k, a1) => a1 \in Wide BY DEF InReg
    <2> QED BY <1>4, <1>5, <1>7, <2>1, arm_LoadedPair
  <1>9. q \in After(k, A) /\ q.res = k.res /\ q.pinned = k.pinned BY <1>8, StoredIs
  <1>10. Ready2(q, a1, live, ArmVars) BY <1>4, <1>5, <1>9, FreeKept
  <1>11. q \in Reached(n, A, {}) BY <1>5, <1>6, <1>9, AfterTrans DEF Reached
  <1>12. q = arm_Loaded2(n, tar, a1) BY <1>1, <1>2, <1>7 DEF arm_Loaded2, arm_LoadRes2
  <1> QED BY <1>1, <1>10, <1>11, <1>12

\* The low word is in the first register of a pair.
LEMMA arm_LoadedLowRight ==
  ASSUME NEW n \in States, Only(n, ArmVars), NEW A \in SUBSET Vars, NEW tar,
         NEW a1 \in A \cup {Const}, n.pinned = {}, Roomy3(ArmPool)
  PROVE  /\ arm_LoadedLow(n, tar, a1) \in Reached(n, A, {})
         /\ Ready2(arm_LoadedLow(n, tar, a1), a1, Live1(n, tar, a1), ArmVars)
  <1>1. PICK live : live = Live1(n, tar, a1) OBVIOUS
  <1>2. PICK k : k = arm_get_reg2(n, a1, live) OBVIOUS
  <1>3. live \in BOOLEAN BY <1>1, LiveBoolean
  <1>4. k \in After(n, {}) /\ k.pinned = {} /\ Ready2(k, a1, live, ArmVars)
    BY <1>2, <1>3, arm_GetReg2
  <1>5. k \in States /\ k.pinned = {} /\ k.res.r1 \in Regs /\ k.res.r2 \in Regs
    BY <1>4, AfterIs DEF Ready2, Ready, Free
  <1>6. k \in After(n, A) BY <1>4, AfterMore
  <1>7. PICK q : q = Load(k, k.res.r1, a1) OBVIOUS
  <1>8. q \in Stored(k, A) BY <1>5, <1>7, LoadStored
  <1>9. q \in After(k, A) /\ q.res = k.res /\ q.pinned = k.pinned BY <1>8, StoredIs
  <1>10. Ready2(q, a1, live, ArmVars) BY <1>4, <1>5, <1>9, FreeKept
  <1>11. q \in Reached(n, A, {}) BY <1>5, <1>6, <1>9, AfterTrans DEF Reached
  <1>12. q = arm_LoadedLow(n, tar, a1) BY <1>1, <1>2, <1>7 DEF arm_LoadedLow, arm_LoadRes, arm_load
  <1> QED BY <1>1, <1>10, <1>11, <1>12
\* An operand is a constant, in its register or loaded to one.
LEMMA arm_LoadGotStill ==
  ASSUME NEW n \in States, NEW A \in SUBSET Vars, NEW a \in A \cup {Const}, ~ (ArmPool \subseteq n.pinned)
  PROVE  InGot(arm_LoadGot(arm_get_reg0(n), a)) \in Still(n, A)
  <1>1. arm_get_reg0(n) \in Fewer(n) /\ arm_get_reg0(n).got \in Regs BY arm_Get0
  <1>2. InGot(Load(arm_get_reg0(n), arm_get_reg0(n).got, a)) \in Still(n, A) BY <1>1, InGotStill
  <1> QED BY <1>2 DEF arm_LoadGot, arm_load

LEMMA arm_OperandStill ==
  ASSUME NEW m \in States, NEW A \in SUBSET Vars, NEW a \in A \cup {Const}, NEW imm, ~ (ArmPool \subseteq m.pinned)
  PROVE  arm_get_operand(m, a, imm) \in Still(m, A)
  <1>1. CASE a = Const /\ imm BY <1>1, ConstStored, StoredStill DEF arm_get_operand
  <1>2. CASE ~(a = Const /\ imm) /\ InReg(m, a)
    <2>1. addr_reg1(m, a) \in Regs BY <1>2, RegOf
    <2> QED BY <1>2, <2>1, InRegStored, StoredStill DEF arm_get_operand
  <1>3. CASE ~(a = Const /\ imm) /\ ~InReg(m, a) BY <1>3, arm_LoadGotStill DEF arm_get_operand
  <1> QED BY <1>1, <1>2, <1>3

LEMMA arm_OperandRightStill ==
  ASSUME NEW m \in States, NEW A \in SUBSET Vars, NEW n \in Still(m, A), NEW a \in A \cup {Const}, NEW imm,
         ~ (ArmPool \subseteq m.pinned)
  PROVE  RightOpd(arm_get_operand(n, a, imm), a, 1) \in Still(m, A)
  <1>1. n \in States /\ n.pinned = m.pinned BY StillIs
  <1>2. PICK o : o = arm_get_operand(n, a, imm) OBVIOUS
  <1>3. o \in Still(n, A) BY <1>1, <1>2, arm_OperandStill
  <1>4. o \in Gen BY <1>1, <1>3, StillIs DEF States
  <1>5. RightOpd(o, a, 1) \in Emitted(o) BY <1>4, EmittedSelf, RightEmits
  <1>6. o \in Still(m, A) BY <1>3, StillTrans
  <1>7. RightOpd(o, a, 1) \in Still(m, A) BY <1>5, <1>6, StillThenEmitted
  <1> QED BY <1>2, <1>7

\* The operand is in a pair of its own, or in one that get_reg2() has just emptied.
LEMMA arm_Operand2Still ==
  ASSUME NEW n \in States, Only(n, ArmVars), NEW A \in SUBSET Vars, NEW a \in A \cup {Const},
         a \in Wide \cup {Const}, Roomy3(ArmPool), NEW p1 \in Regs, NEW p2 \in Regs, n.pinned \subseteq {p1, p2}
  PROVE  arm_get_operand2(n, a) \in Still(n, A)
  <1>1. CASE InReg(n, a)
    <2>1. n.addr[a] \in Pairs /\ addr_reg2(n, a) # None
      <3>1. a \in Wide BY <1>1 DEF InReg
      <3> QED BY <1>1, <3>1, RegOf
    <2>2. Operand(n, n.addr[a]) \in Emitted(n) BY <2>1, EmittedSelf, OperandEmits DEF States
    <2>3. arm_get_operand2(n, a) = Operand(n, n.addr[a]) BY <1>1, <2>1 DEF arm_get_operand2, Fault
    <2> QED BY <2>2, <2>3, EmittedStill
  <1>2. CASE ~InReg(n, a)
    <2>1. PICK g : g = GetReg2(n, Const, TRUE, arm_get_reg0) OBVIOUS
    <2>2. /\ g \in After(n, {}) /\ g.pinned = n.pinned \ {g.res.r1} /\ Ready2(g, Const, TRUE, ArmVars)
          /\ g.res.r1 \notin n.pinned
      BY <2>1, arm_GetPair
    <2>3. g \in States /\ g.pinned = n.pinned /\ g.res.r1 \in Regs /\ g.res.r2 \in Regs
      BY <2>2, AfterIs DEF Ready2, Ready, Free
    <2>4. ~InReg(g, a)
      <3>1. a \in Vars => g.addr[a] \in {n.addr[a], NoReg} BY <2>2, AfterIs
      <3>2. a = Const => ~InReg(g, a) BY DEF InReg
      <3> QED BY <1>2, <3>1, <3>2 DEF InReg, addr_reg1, NoReg
    <2>5. PICK q : q = arm_load2(g, g.res, a) OBVIOUS
    <2>6. q \in Stored(g, A) BY <2>3, <2>4, <2>5, arm_LoadedPair
    <2>7. q \in After(g, A) /\ q.pinned = g.pinned /\ q \in States /\ q \in Gen BY <2>3, <2>6, StoredIs
    <2>8. g \in After(n, A) BY <2>2, AfterMore
    <2>9. q \in After(n, A) BY <2>7, <2>8, AfterTrans
    <2>10. PICK o : o = Operand(q, g.res) OBVIOUS
    <2>11. n.res \in Pairs /\ g.res \in Pairs BY <2>3 DEF States, Gen
    <2>12. o \in Emitted(q) BY <2>7, <2>10, <2>11, EmittedSelf, OperandEmits
    <2>13. o \in Still(q, A) BY <2>7, <2>12, EmittedStill
    <2>14. o \in After(q, A) /\ o \in States /\ o.pinned = q.pinned BY <2>7, <2>13, StillIs
    <2>15. PICK w : w = [o EXCEPT !.res = n.res] OBVIOUS
    <2>16. w \in Picked(o) /\ w.pinned = o.pinned /\ w.res = n.res BY <2>11, <2>14, <2>15, ResPicks
    <2>17. w \in After(o, A) BY <2>14, <2>16, PickedAfter
    <2>18. w \in After(n, A) BY <2>9, <2>14, <2>17, AfterTrans
    <2>19. arm_get_operand2(n, a) = w
      BY <1>2, <2>1, <2>5, <2>10, <2>15 DEF arm_get_operand2, arm_LoadPair, Operand
    <2> QED BY <2>3, <2>7, <2>14, <2>16, <2>18, <2>19 DEF Still
  <1> QED BY <1>1, <1>2

LEMMA arm_LoadedRight ==
  ASSUME NEW n \in States, Only(n, ArmVars), NEW A \in SUBSET Vars, NEW tar,
         NEW a1 \in A \cup {Const}, ~ (ArmPool \subseteq n.pinned)
  PROVE  /\ arm_Loaded(n, tar, a1) \in Reached(n, A, n.pinned)
         /\ arm_Loaded(n, tar, a1).res.r1 \in Regs \cap ArmVars
         /\ Ready(arm_Loaded(n, tar, a1), a1, Live1(n, tar, a1), ArmVars)
  <1>1. PICK live : live = Live1(n, tar, a1) OBVIOUS
  <1>2. PICK k : k = arm_get_reg(n, a1, live) OBVIOUS
  <1>3. live \in BOOLEAN BY <1>1, LiveBoolean
  <1>4. k \in After(n, {}) /\ k.pinned = n.pinned /\ Ready(k, a1, live, ArmVars) /\ k.res.r1 \in Regs
    BY <1>2, <1>3, arm_GetReg
  <1>5. k \in States BY <1>4, AfterIs
  <1>13. k.res.r1 \in Regs \cap ArmVars BY <1>4 DEF Ready
  <1>6. k \in After(n, A) BY <1>4, AfterMore
  <1>7. PICK q : q = Load(k, k.res.r1, a1) OBVIOUS
  <1>8. q \in Stored(k, A) BY <1>4, <1>5, <1>7, LoadStored
  <1>9. q \in After(k, A) /\ q.res = k.res /\ q.pinned = k.pinned BY <1>8, StoredIs
  <1>10. Ready(q, a1, live, ArmVars) BY <1>4, <1>5, <1>9, FreeKept
  <1>11. q \in Reached(n, A, n.pinned) BY <1>4, <1>6, <1>9, AfterTrans DEF Reached
  <1>12. q = arm_Loaded(n, tar, a1) BY <1>1, <1>2, <1>7 DEF arm_Loaded, arm_LoadRes, arm_load
  <1> QED BY <1>1, <1>9, <1>10, <1>11, <1>12, <1>13

LEMMA arm_InPlaceRight ==
  ASSUME NEW n \in States, Only(n, ArmVars), NEW A \in SUBSET Vars, NEW tar,
         NEW a1 \in A \cup {Const}, ~ (ArmPool \subseteq n.pinned)
  PROVE  /\ arm_InPlace(n, tar, a1) \in Reached(n, A, n.pinned)
         /\ arm_InPlace(n, tar, a1).res.r1 \in Regs
  <1>1. CASE InReg(n, a1)
    <2>1. addr_reg1(n, a1) \in Regs BY <1>1, RegOf
    <2>2. n \in Reached(n, A, n.pinned) BY ReachedSelf
    <2> QED BY <1>1, <2>1, <2>2, ReachedInto DEF arm_InPlace
  <1>2. CASE ~InReg(n, a1)
    <2>1. arm_InPlace(n, tar, a1) = arm_Loaded(n, tar, a1) BY <1>2 DEF arm_InPlace, arm_Loaded
    <2> QED BY <2>1, arm_LoadedRight
  <1> QED BY <1>1, <1>2

LEMMA arm_OnOperandsStill ==
  ASSUME NEW n \in States, NEW A \in SUBSET Vars, n.pinned = {}, n.res.r1 \in Regs, NEW a1, NEW imm,
         NEW a2 \in A \cup {Const}, Roomy3(ArmPool)
  PROVE  arm_OnOperands(n, a1, a2, imm) \in Still(n, A)
  <1>1. PICK r : r = n.res.r1 OBVIOUS
  <1>2. ~ (ArmPool \subseteq {r}) BY <1>1 DEF Roomy3
  <1>3. n \in Reached(n, A, {}) BY ReachedSelf
  <1>4. PICK p : p = PinRes(n) OBVIOUS
  <1>5. p \in Reached(n, A, {r}) /\ p.res = n.res
    <2>1. pin_reg(n, r) \in Reached(n, A, {} \cup {r}) /\ pin_reg(n, r).res = n.res BY <1>1, <1>3, ReachedPin
    <2>2. {} \cup {r} = {r} OBVIOUS
    <2> QED BY <1>1, <1>4, <2>1, <2>2 DEF PinRes
  <1>6. p \in States /\ p.pinned = {r} BY <1>5, ReachedState
  <1>7. PICK k : k = RightOpd(arm_get_operand(p, a2, imm), a2, 1) OBVIOUS
  <1>8. k \in Still(p, A)
    <2>1. p \in Still(p, A) BY <1>6, StillSelf
    <2> QED BY <1>2, <1>6, <1>7, <2>1, arm_OperandRightStill
  <1>9. k \in Reached(n, A, {r}) /\ k.res = p.res BY <1>5, <1>8, ReachedStill
  <1>16. k \in Gen BY <1>6, <1>8, StillIs DEF States
  <1>10. PICK q : q = RightRes(k, a1) OBVIOUS
  <1>11. q \in Emitted(k) BY <1>10, <1>16, EmittedSelf, RightEmits
  <1>12. q \in Reached(n, A, {r}) /\ q.res = k.res BY <1>9, <1>11, ReachedEmitted
  <1>13. unpin_reg(q, r) \in Reached(n, A, {r} \ {r}) /\ unpin_reg(q, r).res = q.res BY <1>12, ReachedUnpin
  <1>14. {r} \ {r} = {} OBVIOUS
  <1>15. arm_OnOperands(n, a1, a2, imm) = unpin_reg(q, r)
    BY <1>1, <1>4, <1>5, <1>7, <1>9, <1>10, <1>12 DEF arm_OnOperands, UnpinRes
  <1> QED BY <1>5, <1>9, <1>12, <1>13, <1>14, <1>15 DEF Reached, Still

-----------------------------------------------------------------------------
(* arm_cgen.c: the ends of the handlers                                    *)

LEMMA arm_Saves == target = "arm" => Usable[target] = ArmVars /\ CalleeSave[target] \subseteq Regs
  BY ArmAssumption DEF Usable, CalleeSave, ArmVars, LinkReg

\* The target is set.
LEMMA arm_Sets ==
  ASSUME target = "arm", "arm" \in Targets, NEW tar \in Vars \ Wide, NEW n, Going(n, tar, {}, {}),
         n.res.r1 \in Regs \cap ArmVars, n.reg[n.res.r1] = NoVar, Commit(arm_update_tar(n, tar))
  PROVE  IInv'
  <1>1. Usable[target] = ArmVars /\ CalleeSave[target] \subseteq Regs BY arm_Saves
  <1>2. PICK q : q = arm_update_tar(n, tar) OBVIOUS
  <1>3. q \in Done(n, ArmVars) BY <1>1, <1>2, GoingIs, arm_TarRight
  <1>4. Going(q, NoVar, {}, {}) BY <1>1, <1>3, GoingDone
  <1> QED BY <1>1, <1>2, <1>4, Finish

LEMMA arm_Sets2 ==
  ASSUME target = "arm", "arm" \in Targets, NEW tar \in Wide, NEW n, Going(n, tar, {}, {}),
         n.res.r1 \in Regs \cap ArmVars, n.res.r2 \in Regs \cap ArmVars, n.res.r1 # n.res.r2,
         n.reg[n.res.r1] = NoVar, n.reg[n.res.r2] = NoVar, Commit(arm_update_tar2(n, tar))
  PROVE  IInv'
  <1>1. Usable[target] = ArmVars /\ CalleeSave[target] \subseteq Regs BY arm_Saves
  <1>2. PICK q : q = arm_update_tar2(n, tar) OBVIOUS
  <1>3. q \in Done(n, ArmVars) BY <1>1, <1>2, GoingIs, arm_Tar2Right
  <1>4. Going(q, NoVar, {}, {}) BY <1>1, <1>3, GoingDone
  <1> QED BY <1>1, <1>2, <1>4, Finish

\* Nothing is set, or it has been.
LEMMA arm_Ends ==
  ASSUME target = "arm", "arm" \in Targets, NEW n, Going(n, NoVar, {}, {}), Commit(n) PROVE IInv'
  <1>1. CalleeSave[target] \subseteq Regs BY arm_Saves
  <1> QED BY <1>1, Finish

LEMMA arm_ArgsGoing ==
  ASSUME target = "arm", NEW n, NEW tar, NEW a1 \in Vars \cup {Const}, NEW a2 \in Vars \cup {Const}, NEW pins,
         Going(n, tar, {a1, a2}, pins)
  PROVE  /\ Going(arm_update_args(n, tar, a1, a2), tar, {}, pins)
         /\ arm_update_args(n, tar, a1, a2).res = n.res
         /\ arm_update_args(n, tar, a1, a2) \in Settled(n, tar, a1, ArmVars)
  <1>1. Usable[target] = ArmVars BY arm_Saves
  <1>2. n \in States /\ Marked(n, tar, {a1, a2}, ArmVars) BY <1>1, GoingIs
  <1>3. PICK q : q = arm_update_args(n, tar, a1, a2) OBVIOUS
  <1>4. q \in Settled(n, tar, a1, ArmVars) BY <1>2, <1>3, arm_ArgsRight
  <1>5. q.res = n.res BY <1>2, <1>4, FewerIs DEF Settled
  <1> QED BY <1>1, <1>3, <1>4, <1>5, GoingSettled

LEMMA arm_ArgsFree ==
  ASSUME target = "arm", NEW n, NEW tar, NEW a1 \in Vars \cup {Const}, NEW a2 \in Vars \cup {Const}, NEW pins,
         Going(n, tar, {a1, a2}, pins), NEW r \in Regs, n.reg[r] = NoVar \/ Free(n, r, a1, Live1(n, tar, a1))
  PROVE  arm_update_args(n, tar, a1, a2).reg[r] = NoVar
  <1>1. Free(n, r, a1, Live1(n, tar, a1)) BY DEF Free
  <1>2. arm_update_args(n, tar, a1, a2) \in Settled(n, tar, a1, ArmVars) BY arm_ArgsGoing
  <1> QED BY <1>1, <1>2 DEF Settled

\* The result is in n.res; the registers of a1 may be taken for it.
LEMMA arm_Defines ==
  ASSUME target = "arm", "arm" \in Targets, NEW tar \in Vars \ Wide,
         NEW a1 \in Vars \cup {Const}, NEW a2 \in Vars \cup {Const}, NEW n, Going(n, tar, {a1, a2}, {}),
         Ready(n, a1, Live1(n, tar, a1), ArmVars), Commit(arm_UPDATE_ADDRESSES(n, tar, a1, a2))
  PROVE  IInv'
  <1>1. Going(arm_update_args(n, tar, a1, a2), tar, {}, {}) /\ arm_update_args(n, tar, a1, a2).res = n.res
    BY arm_ArgsGoing
  <1>2. n.res.r1 \in Regs \cap ArmVars /\ Free(n, n.res.r1, a1, Live1(n, tar, a1)) BY DEF Ready, Free
  <1>3. arm_update_args(n, tar, a1, a2).reg[n.res.r1] = NoVar BY <1>2, arm_ArgsFree
  <1> QED BY <1>1, <1>2, <1>3, arm_Sets DEF arm_UPDATE_ADDRESSES

LEMMA arm_Defines2 ==
  ASSUME target = "arm", "arm" \in Targets, NEW tar \in Wide,
         NEW a1 \in Vars \cup {Const}, NEW a2 \in Vars \cup {Const}, NEW n, Going(n, tar, {a1, a2}, {}),
         Ready2(n, a1, Live1(n, tar, a1), ArmVars), Commit(arm_UPDATE_ADDRESSES2(n, tar, a1, a2))
  PROVE  IInv'
  <1>1. Going(arm_update_args(n, tar, a1, a2), tar, {}, {}) /\ arm_update_args(n, tar, a1, a2).res = n.res
    BY arm_ArgsGoing
  <1>2. /\ n.res.r1 \in Regs \cap ArmVars /\ n.res.r2 \in Regs \cap ArmVars /\ n.res.r1 # n.res.r2
        /\ Free(n, n.res.r1, a1, Live1(n, tar, a1)) /\ Free(n, n.res.r2, a1, Live1(n, tar, a1))
    BY DEF Ready2, Ready, Free
  <1>3. arm_update_args(n, tar, a1, a2).reg[n.res.r1] = NoVar
    <2>1. PICK r : r = n.res.r1 OBVIOUS
    <2>2. r \in Regs \cap ArmVars /\ Free(n, r, a1, Live1(n, tar, a1)) BY <1>2, <2>1
    <2>3. arm_update_args(n, tar, a1, a2).reg[r] = NoVar BY <2>2, arm_ArgsFree
    <2> QED BY <2>1, <2>3
  <1>4. arm_update_args(n, tar, a1, a2).reg[n.res.r2] = NoVar
    <2>1. PICK r : r = n.res.r2 OBVIOUS
    <2>2. r \in Regs \cap ArmVars /\ Free(n, r, a1, Live1(n, tar, a1)) BY <1>2, <2>1
    <2>3. arm_update_args(n, tar, a1, a2).reg[r] = NoVar BY <2>2, arm_ArgsFree
    <2> QED BY <2>1, <2>3
  <1> QED BY <1>1, <1>2, <1>3, <1>4, arm_Sets2 DEF arm_UPDATE_ADDRESSES2

LEMMA arm_Uses ==
  ASSUME target = "arm", "arm" \in Targets, NEW a1 \in Vars \cup {Const}, NEW a2 \in Vars \cup {Const}, NEW n,
         Going(n, NoVar, {a1, a2}, {}), Commit(arm_update_args(n, NoVar, a1, a2))
  PROVE  IInv'
  BY arm_ArgsGoing, arm_Ends

-----------------------------------------------------------------------------
(* arm_cgen.c: the handlers                                                *)

\* What the lemmas on the handlers assume.
arm_Runs == IInv /\ Roomy3(ArmPool)

LEMMA arm_Begin ==
  ASSUME arm_Runs, NEW h, Enabled("arm", h), NEW tar, NEW args, NEW implicit, implicit \subseteq Crossing,
         NEW m \in Marks(tar, args, implicit)
  PROVE  /\ target = "arm" /\ "arm" \in Targets /\ Going(m, tar, args, {}) /\ m.args = arg_words
         /\ m \in States /\ m.pinned = {} /\ ~ (ArmPool \subseteq {}) /\ ~ (ArmPool \subseteq m.pinned)
         /\ Only(m, ArmVars)
  <1>1. target = "arm" /\ "arm" \in Targets BY DEF Enabled, arm_Runs, IInv
  <1>2. Going(m, tar, args, {}) /\ m.args = arg_words BY Begin DEF arm_Runs
  <1>3. m \in States /\ m.pinned = {} /\ Marked(m, tar, args, ArmVars) BY <1>1, <1>2, GoingIs, arm_Saves
  <1>4. Only(m, ArmVars) BY <1>3 DEF Marked, Only
  <1> QED BY <1>1, <1>2, <1>3, <1>4, ArmAssumption

\* The operands are in m, the instruction has been emitted in n.
LEMMA arm_Result ==
  ASSUME target = "arm", "arm" \in Targets, NEW tar \in Vars \ Wide, NEW a1 \in Vars \cup {Const},
         NEW a2 \in Vars \cup {Const}, NEW args, args \subseteq {a1, a2}, NEW m, Going(m, tar, args, {}),
         NEW A \in SUBSET Vars, A \subseteq args, NEW n \in Reached(m, A, {}),
         Ready(n, a1, Live1(m, tar, a1), ArmVars), Commit(arm_UPDATE_ADDRESSES(n, tar, a1, a2))
  PROVE  IInv'
  <1>1. m \in States BY GoingIs
  <1>2. Going(n, tar, {a1, a2}, {}) BY GoingReached
  <1>4. n.fut = m.fut BY <1>1, ReachedState
  <1>3. Live1(n, tar, a1) = Live1(m, tar, a1) BY <1>4, LiveSame
  <1> QED BY <1>2, <1>3, arm_Defines

LEMMA arm_Result2 ==
  ASSUME target = "arm", "arm" \in Targets, NEW tar \in Wide, NEW a1 \in Vars \cup {Const},
         NEW a2 \in Vars \cup {Const}, NEW args, args \subseteq {a1, a2}, NEW m, Going(m, tar, args, {}),
         NEW A \in SUBSET Vars, A \subseteq args, NEW n \in Reached(m, A, {}),
         Ready2(n, a1, Live1(m, tar, a1), ArmVars), Commit(arm_UPDATE_ADDRESSES2(n, tar, a1, a2))
  PROVE  IInv'
  <1>1. m \in States BY GoingIs
  <1>2. Going(n, tar, {a1, a2}, {}) BY GoingReached
  <1>4. n.fut = m.fut BY <1>1, ReachedState
  <1>3. Live1(n, tar, a1) = Live1(m, tar, a1) BY <1>4, LiveSame
  <1> QED BY <1>2, <1>3, arm_Defines2

LEMMA arm_Read ==
  ASSUME target = "arm", "arm" \in Targets, NEW a1 \in Vars \cup {Const},
         NEW a2 \in Vars \cup {Const}, NEW args, args \subseteq {a1, a2}, NEW m, Going(m, NoVar, args, {}),
         NEW A \in SUBSET Vars, A \subseteq args, NEW n \in Reached(m, A, {}),
         Commit(arm_update_args(n, NoVar, a1, a2))
  PROVE  IInv'
  <1>1. Going(n, NoVar, {a1, a2}, {}) BY GoingReached
  <1> QED BY <1>1, arm_Uses

\* The result goes to the register of the first operand, which has been loaded in k.
LEMMA arm_Computed ==
  ASSUME target = "arm", "arm" \in Targets, NEW tar \in Vars \ Wide, NEW a1 \in Vars \cup {Const},
         NEW a2 \in Vars \cup {Const}, NEW args, args \subseteq {a1, a2}, NEW m, Going(m, tar, args, {}),
         NEW A \in SUBSET Vars, A \subseteq args, NEW k \in Reached(m, A, {}),
         Ready(k, a1, Live1(m, tar, a1), ArmVars),
         NEW q \in Still(k, A), NEW n \in Emitted(q), Commit(arm_UPDATE_ADDRESSES(n, tar, a1, a2))
  PROVE  IInv'
  <1>1. m \in States /\ k \in States BY GoingIs, ReachedIs
  <1>2. q \in Reached(m, A, {}) /\ q.res = k.res BY <1>1, ReachedStill
  <1>3. n \in Reached(m, A, {}) /\ n.res = q.res /\ n.reg = q.reg BY <1>1, <1>2, ReachedEmitted
  <1>4. Ready(q, a1, Live1(m, tar, a1), ArmVars) BY <1>1, <1>2, FreeKept, StillIs
  <1>5. Ready(n, a1, Live1(m, tar, a1), ArmVars) BY <1>2, <1>3, <1>4 DEF Ready, Free
  <1> QED BY <1>3, <1>5, arm_Result

LEMMA arm_Computed2 ==
  ASSUME target = "arm", "arm" \in Targets, NEW tar \in Wide, NEW a1 \in Vars \cup {Const},
         NEW a2 \in Vars \cup {Const}, NEW args, args \subseteq {a1, a2}, NEW m, Going(m, tar, args, {}),
         NEW A \in SUBSET Vars, A \subseteq args, NEW k \in Reached(m, A, {}),
         Ready2(k, a1, Live1(m, tar, a1), ArmVars),
         NEW q \in Still(k, A), NEW n \in Emitted(q), Commit(arm_UPDATE_ADDRESSES2(n, tar, a1, a2))
  PROVE  IInv'
  <1>1. m \in States /\ k \in States BY GoingIs, ReachedIs
  <1>2. q \in Reached(m, A, {}) /\ q.res = k.res BY <1>1, ReachedStill
  <1>3. n \in Reached(m, A, {}) /\ n.res = q.res /\ n.reg = q.reg BY <1>1, <1>2, ReachedEmitted
  <1>4. Ready2(q, a1, Live1(m, tar, a1), ArmVars) BY <1>1, <1>2, FreeKept, StillIs
  <1>5. Ready2(n, a1, Live1(m, tar, a1), ArmVars) BY <1>2, <1>3, <1>4 DEF Ready2, Ready, Free
  <1> QED BY <1>3, <1>5, arm_Result2

LEMMA arm_AluRight ==
  ASSUME arm_Runs, NEW tar \in WordTemps, NEW a1 \in Vars \cup {Const}, NEW a2 \in Vars \cup {Const}, NEW imm,
         arm_alu(tar, a1, a2, imm)
  PROVE  IInv'
  <1>1. PICK m \in Marks(tar, {a1, a2}, {}) :
          /\ Enabled("arm", "alu")
          /\ Commit(arm_UPDATE_ADDRESSES(Computes(arm_OnOperands(arm_Loaded(m, tar, a1), a1, a2, imm), tar),
                                         tar, a1, a2))
    BY DEF arm_alu
  <1>2. PICK A : A = Named(a1, a2) OBVIOUS
  <1>3. A \in SUBSET Vars /\ A \subseteq {a1, a2} /\ a1 \in A \cup {Const} /\ a2 \in A \cup {Const} /\ tar \in Vars \ Wide
    BY <1>2, NamedIs, CGenRegsAssumption DEF WordTemps
  <1>4. /\ target = "arm" /\ "arm" \in Targets /\ Going(m, tar, {a1, a2}, {}) /\ m \in States /\ m.pinned = {}
        /\ ~ (ArmPool \subseteq m.pinned) /\ Only(m, ArmVars)
    BY <1>1, arm_Begin
  <1>5. PICK k : k = arm_Loaded(m, tar, a1) OBVIOUS
  <1>6. k \in Reached(m, A, {}) /\ k.res.r1 \in Regs /\ Ready(k, a1, Live1(m, tar, a1), ArmVars)
    BY <1>3, <1>4, <1>5, arm_LoadedRight
  <1>7. k \in States /\ k.pinned = {} BY <1>3, <1>4, <1>6, ReachedState
  <1>8. PICK q : q = arm_OnOperands(k, a1, a2, imm) OBVIOUS
  <1>9. q \in Still(k, A) BY <1>3, <1>6, <1>7, <1>8, arm_OnOperandsStill DEF arm_Runs
  <1>10. q \in Gen /\ q.res = k.res BY <1>3, <1>7, <1>9, StillIs DEF States
  <1>11. Computes(q, tar) \in Emitted(q) BY <1>3, <1>6, <1>10, EmittedSelf, ComputesEmits
  <1> QED BY <1>1, <1>3, <1>4, <1>5, <1>6, <1>8, <1>9, <1>11, arm_Computed

LEMMA arm_UnaryRight ==
  ASSUME arm_Runs, NEW tar \in Vars \ Wide, NEW a1 \in Vars, arm_unary(tar, a1) PROVE IInv'
  <1>1. PICK m \in Marks(tar, {a1}, {}) :
          /\ Enabled("arm", "unary")
          /\ Commit(arm_UPDATE_ADDRESSES(Computes(RightRes(arm_Loaded(m, tar, a1), a1), tar), tar, a1, Const))
    BY DEF arm_unary
  <1>2. PICK A : A = {a1} OBVIOUS
  <1>3. A \in SUBSET Vars /\ A \subseteq {a1} /\ a1 \in A \cup {Const} /\ {a1} \subseteq {a1, Const} BY <1>2
  <1>4. /\ target = "arm" /\ "arm" \in Targets /\ Going(m, tar, {a1}, {}) /\ m \in States /\ m.pinned = {}
        /\ ~ (ArmPool \subseteq m.pinned) /\ Only(m, ArmVars)
    BY <1>1, arm_Begin
  <1>5. PICK k : k = arm_Loaded(m, tar, a1) OBVIOUS
  <1>6. k \in Reached(m, A, {}) /\ k.res.r1 \in Regs /\ Ready(k, a1, Live1(m, tar, a1), ArmVars)
    BY <1>3, <1>4, <1>5, arm_LoadedRight
  <1>7. k \in States /\ k \in Gen BY <1>3, <1>4, <1>6, ReachedIs
  <1>8. RightRes(k, a1) \in Emitted(k) BY <1>7, EmittedSelf, RightEmits
  <1>9. RightRes(k, a1).res = k.res BY <1>8 DEF Emitted
  <1>10. Computes(RightRes(k, a1), tar) \in Emitted(k) BY <1>6, <1>8, <1>9, ComputesEmits
  <1>11. k \in Still(k, A) BY <1>3, <1>7, StillSelf
  <1> QED BY <1>1, <1>3, <1>4, <1>5, <1>6, <1>10, <1>11, arm_Computed

LEMMA arm_AddrOfRight ==
  ASSUME arm_Runs, NEW tar \in Vars \ Wide, arm_addr_of(tar) PROVE IInv'
  <1>1. PICK m \in Marks(tar, {}, {}) :
          Enabled("arm", "addr_of") /\ Commit(arm_update_tar(Computes(Got1(arm_get_reg0(m)), tar), tar))
    BY DEF arm_addr_of
  <1>2. /\ target = "arm" /\ "arm" \in Targets /\ Going(m, tar, {}, {}) /\ m \in States /\ m.pinned = {}
        /\ ~ (ArmPool \subseteq m.pinned) /\ Only(m, ArmVars)
    BY <1>1, arm_Begin
  <1>3. PICK g : g = arm_get_reg0(m) OBVIOUS
  <1>4. g \in Fewer(m) /\ g.got \in Regs \cap ArmVars /\ g.reg[g.got] = NoVar BY <1>2, <1>3, arm_Get0
  <1>5. PICK k : k = Got1(g) OBVIOUS
  <1>6. k \in After(m, {}) /\ k.pinned = {} /\ k.res.r1 = g.got /\ k.reg = g.reg
    BY <1>2, <1>4, <1>5, NewRegRight
  <1>7. k \in Reached(m, {}, {}) /\ k \in States /\ k \in Gen BY <1>2, <1>6, AfterIs DEF Reached, States
  <1>8. PICK n : n = Computes(k, tar) OBVIOUS
  <1>9. n \in Emitted(k) BY <1>4, <1>6, <1>7, <1>8, EmittedSelf, ComputesEmits
  <1>10. n \in Reached(m, {}, {}) /\ n.res = k.res /\ n.reg = k.reg BY <1>2, <1>7, <1>9, ReachedEmitted
  <1>11. Going(n, tar, {}, {}) BY <1>2, <1>10, GoingReached
  <1> QED BY <1>1, <1>2, <1>3, <1>4, <1>5, <1>6, <1>8, <1>10, <1>11, arm_Sets

LEMMA arm_RelopJumpRight ==
  ASSUME arm_Runs, NEW a1 \in Vars \cup {Const}, NEW a2 \in Vars \cup {Const}, NEW imm,
         arm_relop_jump(a1, a2, imm)
  PROVE  IInv'
  <1>1. PICK m \in Marks(NoVar, {a1, a2}, {}) :
          /\ Enabled("arm", "relop_jump")
          /\ Commit(arm_update_args(arm_OnOperands(arm_InPlace(m, NoVar, a1), a1, a2, imm), NoVar, a1, a2))
    BY DEF arm_relop_jump
  <1>2. PICK A : A = Named(a1, a2) OBVIOUS
  <1>3. A \in SUBSET Vars /\ A \subseteq {a1, a2} /\ a1 \in A \cup {Const} /\ a2 \in A \cup {Const}
    BY <1>2, NamedIs
  <1>4. /\ target = "arm" /\ "arm" \in Targets /\ Going(m, NoVar, {a1, a2}, {}) /\ m \in States /\ m.pinned = {}
        /\ ~ (ArmPool \subseteq m.pinned) /\ Only(m, ArmVars)
    BY <1>1, arm_Begin
  <1>5. PICK k : k = arm_InPlace(m, NoVar, a1) OBVIOUS
  <1>6. k \in Reached(m, A, {}) /\ k.res.r1 \in Regs BY <1>3, <1>4, <1>5, arm_InPlaceRight
  <1>7. k \in States /\ k.pinned = {} BY <1>3, <1>4, <1>6, ReachedState
  <1>8. PICK q : q = arm_OnOperands(k, a1, a2, imm) OBVIOUS
  <1>9. q \in Still(k, A) BY <1>3, <1>6, <1>7, <1>8, arm_OnOperandsStill DEF arm_Runs
  <1>10. q \in Reached(m, A, {}) BY <1>3, <1>4, <1>6, <1>9, ReachedStill
  <1> QED BY <1>1, <1>3, <1>4, <1>5, <1>8, <1>10, arm_Read

\* The operand is in the pair of k, the instruction has been emitted in n.
LEMMA arm_PairComputed ==
  ASSUME arm_Runs, NEW h, Enabled("arm", h), NEW tar \in Wide, NEW a1 \in Vars \cup {Const},
         NEW m, m \in Marks(tar, {a1}, {}),
         NEW k, k = arm_LoadedLow(m, tar, a1) \/ (k = arm_Loaded2(m, tar, a1) /\ a1 \in Wide \cup {Const}),
         NEW n, k \in Gen /\ k.res.r1 \in Regs /\ k.res.r2 \in Regs => n \in Emitted(k),
         Commit(arm_UPDATE_ADDRESSES2(n, tar, a1, Const))
  PROVE  IInv'
  <1>1. PICK A : A = {a1} \cap Vars OBVIOUS
  <1>2. A \in SUBSET Vars /\ A \subseteq {a1} /\ a1 \in A \cup {Const} /\ {a1} \subseteq {a1, Const} BY <1>1
  <1>3. /\ target = "arm" /\ "arm" \in Targets /\ Going(m, tar, {a1}, {}) /\ m \in States /\ m.pinned = {}
        /\ Only(m, ArmVars)
    BY arm_Begin
  <1>4. k \in Reached(m, A, {}) /\ Ready2(k, a1, Live1(m, tar, a1), ArmVars)
    BY <1>2, <1>3, arm_Loaded2Right, arm_LoadedLowRight DEF arm_Runs
  <1>5. k \in States /\ k \in Gen BY <1>2, <1>3, <1>4, ReachedIs
  <1>6. k.res.r1 \in Regs /\ k.res.r2 \in Regs BY <1>4 DEF Ready2, Ready, Free
  <1>7. k \in Still(k, A) BY <1>2, <1>5, StillSelf
  <1>8. n \in Emitted(k) BY <1>5, <1>6
  <1> QED BY <1>2, <1>3, <1>4, <1>7, <1>8, arm_Computed2

LEMMA arm_Unary2Right == ASSUME arm_Runs, NEW tar \in Wide, NEW a1 \in Wide, arm_unary2(tar, a1) PROVE IInv'
  <1>1. PICK m, k :
          /\ m \in Marks(tar, {a1}, {}) /\ Enabled("arm", "unary2") /\ k = arm_Loaded2(m, tar, a1)
          /\ Commit(arm_UPDATE_ADDRESSES2(Computes2(k, tar), tar, a1, Const))
    BY DEF arm_unary2
  <1>2. tar \in Vars /\ a1 \in Vars BY CGenRegsAssumption
  <1>3. k \in Gen /\ k.res.r1 \in Regs /\ k.res.r2 \in Regs => Computes2(k, tar) \in Emitted(k)
    BY <1>2, EmittedSelf, Computes2Emits
  <1> QED BY <1>1, <1>2, <1>3, arm_PairComputed

LEMMA arm_LlxRight == ASSUME arm_Runs, NEW tar \in Wide, NEW a1 \in Vars, arm_llx(tar, a1) PROVE IInv'
  <1>1. PICK m, k :
          /\ m \in Marks(tar, {a1}, {}) /\ Enabled("arm", "llx") /\ k = arm_LoadedLow(m, tar, a1)
          /\ Commit(arm_UPDATE_ADDRESSES2(Computes2(RightRes(k, a1), tar), tar, a1, Const))
    BY DEF arm_llx
  <1>2. tar \in Vars BY CGenRegsAssumption
  <1>3. ASSUME k \in Gen, k.res.r1 \in Regs, k.res.r2 \in Regs
        PROVE  Computes2(RightRes(k, a1), tar) \in Emitted(k)
    <2>1. RightRes(k, a1) \in Emitted(k) BY <1>3, EmittedSelf, RightEmits
    <2>2. RightRes(k, a1).res = k.res BY <2>1 DEF Emitted
    <2> QED BY <1>2, <1>3, <2>1, <2>2, Computes2Emits
  <1> QED BY <1>1, <1>3, arm_PairComputed

\* Both registers of the result are pinned while the second operand is fetched.
LEMMA arm_Alu2Right ==
  ASSUME arm_Runs, NEW tar \in Wide, NEW a1 \in Wide \cup {Const}, NEW a2 \in Wide \cup {Const}, arm_alu2(tar, a1, a2)
  PROVE  IInv'
  <1>1. PICK m, k, p1, p2, o, l, h, u1, u2 :
          /\ m \in Marks(tar, {a1, a2}, {}) /\ Enabled("arm", "alu2")
          /\ k = arm_Loaded2(m, tar, a1) /\ p1 = pin_reg(k, k.res.r1) /\ p2 = pin_reg(p1, k.res.r2)
          /\ o = arm_get_operand2(p2, a2)
          /\ l = arm_LowWords(o, a1, a2) /\ h = arm_HighWords(l, a1, a2)
          /\ u1 = unpin_reg(h, h.res.r1) /\ u2 = unpin_reg(u1, h.res.r2)
          /\ Commit(arm_UPDATE_ADDRESSES2(Computes2(u2, tar), tar, a1, a2))
    <2>1. PICK m \in Marks(tar, {a1, a2}, {}) :
            /\ Enabled("arm", "alu2")
            /\ Commit(arm_UPDATE_ADDRESSES2(
                 Computes2(arm_UnpinRes2(arm_HighWords(
                   arm_LowWords(arm_get_operand2(arm_PinRes2(arm_Loaded2(m, tar, a1)), a2), a1, a2), a1, a2)), tar),
                 tar, a1, a2))
      BY DEF arm_alu2
    <2>2. PICK k : k = arm_Loaded2(m, tar, a1) OBVIOUS
    <2>3. PICK p1 : p1 = pin_reg(k, k.res.r1) OBVIOUS
    <2>4. PICK p2 : p2 = pin_reg(p1, k.res.r2) OBVIOUS
    <2>5. p2 = arm_PinRes2(k) BY <2>3, <2>4 DEF arm_PinRes2, PinRes
    <2>6. PICK o : o = arm_get_operand2(p2, a2) OBVIOUS
    <2>7. PICK l : l = arm_LowWords(o, a1, a2) OBVIOUS
    <2>8. PICK h : h = arm_HighWords(l, a1, a2) OBVIOUS
    <2>9. PICK u1 : u1 = unpin_reg(h, h.res.r1) OBVIOUS
    <2>10. PICK u2 : u2 = unpin_reg(u1, h.res.r2) OBVIOUS
    <2>11. u2 = arm_UnpinRes2(h) BY <2>9, <2>10 DEF arm_UnpinRes2, UnpinRes
    <2> QED BY <2>1, <2>2, <2>3, <2>4, <2>5, <2>6, <2>7, <2>8, <2>9, <2>10, <2>11
  <1>2. PICK A : A = Named(a1, a2) OBVIOUS
  <1>3. /\ A \in SUBSET Vars /\ A \subseteq {a1, a2} /\ a1 \in A \cup {Const} /\ a2 \in A \cup {Const}
        /\ tar \in Vars /\ a1 \in Vars \cup {Const} /\ a2 \in Vars \cup {Const}
    BY <1>2, NamedIs, CGenRegsAssumption
  <1>4. /\ target = "arm" /\ "arm" \in Targets /\ Going(m, tar, {a1, a2}, {}) /\ m \in States /\ m.pinned = {}
        /\ Only(m, ArmVars)
    BY <1>1, arm_Begin
  <1>5. k \in Reached(m, A, {}) /\ Ready2(k, a1, Live1(m, tar, a1), ArmVars)
    BY <1>1, <1>3, <1>4, arm_Loaded2Right DEF arm_Runs
  <1>6. k \in States /\ k.pinned = {} /\ Only(k, ArmVars) BY <1>3, <1>4, <1>5, ReachedState, OnlyReached
  <1>7. PICK r1 \in Regs, r2 \in Regs : r1 = k.res.r1 /\ r2 = k.res.r2 /\ r1 # r2
    BY <1>5 DEF Ready2, Ready, Free
  <1>8. k \in Reached(k, A, {}) BY <1>3, <1>6, ReachedSelf
  <1>9. p1 \in Reached(k, A, {r1}) /\ p1.res = k.res
    <2>1. pin_reg(k, r1) \in Reached(k, A, {} \cup {r1}) /\ pin_reg(k, r1).res = k.res
      BY <1>3, <1>6, <1>7, <1>8, ReachedPin
    <2>2. {} \cup {r1} = {r1} OBVIOUS
    <2> QED BY <1>1, <1>7, <2>1, <2>2
  <1>10. p2 \in Reached(k, A, {r1, r2}) /\ p2.res = k.res
    <2>1. pin_reg(p1, r2) \in Reached(k, A, {r1} \cup {r2}) /\ pin_reg(p1, r2).res = p1.res
      BY <1>3, <1>6, <1>7, <1>9, ReachedPin
    <2>2. {r1} \cup {r2} = {r1, r2} OBVIOUS
    <2> QED BY <1>1, <1>7, <1>9, <2>1, <2>2
  <1>11. p2 \in States /\ p2.pinned = {r1, r2} /\ Only(p2, ArmVars)
    BY <1>3, <1>6, <1>10, ReachedState, OnlyReached
  <1>12. o \in Still(p2, A) BY <1>1, <1>3, <1>7, <1>11, arm_Operand2Still DEF arm_Runs
  <1>13. o \in Reached(k, A, {r1, r2}) /\ o.res = k.res BY <1>3, <1>6, <1>10, <1>12, ReachedStill
  <1>14. o \in Gen BY <1>3, <1>6, <1>13, ReachedIs
  <1>15. l \in Emitted(o)
    <2>1. PICK e : e = RightIn(RightRes(o, a1), o.opd.r1, a2, 1) OBVIOUS
    <2>2. e \in Emitted(o) BY <1>14, <2>1, EmittedSelf, RightEmits
    <2>3. l = Clobber(e, {o.res.r1}) BY <1>1, <2>1 DEF arm_LowWords
    <2>4. {o.res.r1} \in SUBSET Int BY <1>7, <1>13, RegsAre
    <2> QED BY <2>2, <2>3, <2>4, ClobberEmits
  <1>16. h \in Emitted(o)
    <2>1. PICK e : e = RightIn(l, l.res.r2, a1, 2) OBVIOUS
    <2>2. e \in Emitted(o) BY <1>15, <2>1, RightEmits
    <2>3. h = RightIn(e, l.opd.r2, a2, 2) BY <1>1, <2>1 DEF arm_HighWords
    <2> QED BY <2>2, <2>3, RightEmits
  <1>17. h \in Reached(k, A, {r1, r2}) /\ h.res = k.res BY <1>3, <1>6, <1>13, <1>16, ReachedEmitted
  <1>18. u1 \in Reached(k, A, {r1, r2} \ {r1}) /\ u1.res = k.res
    <2>1. unpin_reg(h, r1) \in Reached(k, A, {r1, r2} \ {r1}) /\ unpin_reg(h, r1).res = h.res
      BY <1>3, <1>6, <1>7, <1>17, ReachedUnpin
    <2>2. u1 = unpin_reg(h, r1) BY <1>1, <1>7, <1>17
    <2> QED BY <1>17, <2>1, <2>2
  <1>19. u2 \in Reached(k, A, ({r1, r2} \ {r1}) \ {r2}) /\ u2.res = k.res
    <2> DEFINE P == {r1, r2} \ {r1}
    <2>0. u1 \in Reached(k, A, P) BY <1>18
    <2> HIDE DEF P
    <2>1. unpin_reg(u1, r2) \in Reached(k, A, P \ {r2}) /\ unpin_reg(u1, r2).res = u1.res
      BY <1>3, <1>6, <2>0, ReachedUnpin
    <2> USE DEF P
    <2>2. u2 = unpin_reg(u1, r2) BY <1>1, <1>7, <1>17
    <2> QED BY <1>18, <2>1, <2>2
  <1>20. ({r1, r2} \ {r1}) \ {r2} = {} OBVIOUS
  <1>21. u2 \in Still(k, A) /\ u2 \in Gen
    <2>1. u2 \in Reached(k, A, {}) BY <1>19, <1>20
    <2> QED BY <1>3, <1>6, <1>19, <2>1, ReachedIs DEF Reached, Still
  <1>22. Computes2(u2, tar) \in Emitted(u2)
    <2>1. u2.res.r1 \in Regs /\ u2.res.r2 \in Regs BY <1>7, <1>19
    <2>2. u2 \in Emitted(u2) BY <1>21, EmittedSelf
    <2>3. tar \in Vars BY <1>3
    <2> QED BY <2>1, <2>2, <2>3, Computes2Emits
  <1>23. PICK n : n = Computes2(u2, tar) OBVIOUS
  <1>24. n \in Emitted(u2) BY <1>22, <1>23
  <1>25. Commit(arm_UPDATE_ADDRESSES2(n, tar, a1, a2)) BY <1>1, <1>23
  <1>26. PICK args : args = {a1, a2} OBVIOUS
  <1>27. Going(m, tar, args, {}) /\ args \subseteq {a1, a2} /\ A \subseteq args BY <1>3, <1>4, <1>26
  <1> QED BY <1>3, <1>4, <1>5, <1>21, <1>24, <1>25, <1>27, arm_Computed2

LEMMA arm_AsnRight ==
  ASSUME arm_Runs, NEW tar \in Vars, NEW a1 \in Vars \cup {Const}, tar \in Wide => a1 \in Wide \cup {Const},
         arm_asn(tar, a1)
  PROVE  IInv'
  <1>1. PICK m, p, k :
          /\ m \in Marks(tar, {a1}, {}) /\ Enabled("arm", "asn")
          /\ p = arm_Loaded2(m, tar, a1) /\ k = arm_Loaded(m, tar, a1)
          /\ IF tar \in Wide
               THEN Commit(arm_UPDATE_ADDRESSES2(Copies(p, tar, a1), tar, a1, Const))
               ELSE Commit(arm_UPDATE_ADDRESSES(Copies(RightRes(k, a1), tar, a1), tar, a1, Const))
    BY DEF arm_asn
  <1>2. CASE tar \in Wide
    <2>1. p \in Gen => Copies(p, tar, a1) \in Emitted(p) BY EmittedSelf, CopiesEmits
    <2> QED BY <1>1, <1>2, <2>1, arm_PairComputed
  <1>3. CASE tar \notin Wide
    <2>1. PICK A : A = {a1} \cap Vars OBVIOUS
    <2>2. A \in SUBSET Vars /\ A \subseteq {a1} /\ a1 \in A \cup {Const} /\ {a1} \subseteq {a1, Const} BY <2>1
    <2>3. /\ target = "arm" /\ "arm" \in Targets /\ Going(m, tar, {a1}, {}) /\ m \in States /\ m.pinned = {}
          /\ ~ (ArmPool \subseteq m.pinned) /\ Only(m, ArmVars)
      BY <1>1, arm_Begin
    <2>4. k \in Reached(m, A, {}) /\ k.res.r1 \in Regs /\ Ready(k, a1, Live1(m, tar, a1), ArmVars)
      BY <1>1, <2>2, <2>3, arm_LoadedRight
    <2>5. k \in States /\ k \in Gen BY <2>2, <2>3, <2>4, ReachedIs
    <2>6. RightRes(k, a1) \in Emitted(k) BY <2>5, EmittedSelf, RightEmits
    <2>7. Copies(RightRes(k, a1), tar, a1) \in Emitted(k) BY <2>6, CopiesEmits
    <2>8. k \in Still(k, A) BY <2>2, <2>5, StillSelf
    <2> QED BY <1>1, <1>3, <2>2, <2>3, <2>4, <2>7, <2>8, arm_Computed
  <1> QED BY <1>2, <1>3

LEMMA arm_AliasedFewer ==
  ASSUME NEW m \in States PROVE arm_spill_aliased_objects(m) \in Fewer(m)
  <1>1. Aliased \in SUBSET Vars BY CGenRegsAssumption DEF Aliased, Ids
  <1> QED BY <1>1, arm_SpillTheseFewer DEF arm_spill_aliased_objects

LEMMA arm_IndRight ==
  ASSUME arm_Runs, NEW tar \in Vars, NEW a1 \in Vars, arm_ind(tar, a1) PROVE IInv'
  <1>1. PICK m, s, k, p :
          /\ m \in Marks(tar, {a1}, AddrTaken)
          /\ Enabled("arm", "ind")
          /\ s = arm_spill_aliased_objects(m) /\ k = arm_Loaded(s, tar, a1) /\ p = arm_LoadedLow(s, tar, a1)
          /\ \/ /\ tar \in Wide
                /\ Commit(arm_UPDATE_ADDRESSES2(Computes2(ReadsMemory(RightRes(p, a1), Pointed), tar), tar, a1, Const))
             \/ /\ tar \in Structs
                /\ Commit(arm_UPDATE_ADDRESSES(ComputesAt(ReadsMemory(RightRes(k, a1), Pointed), tar, Far), tar, a1, Const))
             \/ /\ tar \notin Wide \cup Structs
                /\ Commit(arm_UPDATE_ADDRESSES(Computes(ReadsMemory(RightRes(k, a1), Pointed), tar), tar, a1, Const))
    BY DEF arm_ind
  <1>2. PICK A : A = {a1} OBVIOUS
  <1>3. /\ A \in SUBSET Vars /\ A \subseteq {a1} /\ a1 \in A \cup {Const} /\ {a1} \subseteq {a1, Const}
        /\ AddrTaken \subseteq Crossing /\ Far \in Locs
    BY <1>2, CGenAssumption DEF Locs
  <1>4. /\ target = "arm" /\ "arm" \in Targets /\ Going(m, tar, {a1}, {}) /\ m \in States /\ m.pinned = {}
        /\ Only(m, ArmVars)
    BY <1>1, <1>3, arm_Begin
  <1>5. s \in Fewer(m) BY <1>1, <1>4, arm_AliasedFewer
  <1>6. m \in Reached(m, A, {}) BY <1>3, <1>4, ReachedSelf
  <1>7. s \in Reached(m, A, {}) BY <1>3, <1>4, <1>5, <1>6, ReachedFewer
  <1>8. s \in States /\ s.pinned = {} /\ s.fut = m.fut /\ Only(s, ArmVars)
    BY <1>3, <1>4, <1>7, ReachedState, OnlyReached
  <1>9. ~ (ArmPool \subseteq s.pinned) BY <1>8, ArmAssumption
  <1>10. Live1(s, tar, a1) = Live1(m, tar, a1) BY <1>8, LiveSame
  <1>11. ASSUME NEW l \in States PROVE ReadsMemory(RightRes(l, a1), Pointed) \in Emitted(l)
    <2>1. RightRes(l, a1) \in Emitted(l) BY EmittedSelf, RightEmits DEF States
    <2> QED BY <2>1, ReadsMemoryEmits
  <1>12. CASE tar \in Wide
    <2>1. p \in Reached(s, A, {}) /\ Ready2(p, a1, Live1(m, tar, a1), ArmVars)
      BY <1>1, <1>3, <1>8, <1>10, arm_LoadedLowRight DEF arm_Runs
    <2>2. p \in Reached(m, A, {}) /\ p \in States BY <1>3, <1>4, <1>7, <2>1, ReachedTrans, ReachedIs
    <2>3. PICK q : q = ReadsMemory(RightRes(p, a1), Pointed) OBVIOUS
    <2>4. q \in Emitted(p) BY <1>11, <2>2, <2>3
    <2>5. q.res.r1 \in Regs /\ q.res.r2 \in Regs BY <2>1, <2>4 DEF Emitted, Ready2, Ready, Free
    <2>6. Computes2(q, tar) \in Emitted(p) BY <2>4, <2>5, Computes2Emits
    <2>7. p \in Still(p, A) BY <1>3, <2>2, StillSelf
    <2>8. Commit(arm_UPDATE_ADDRESSES2(Computes2(q, tar), tar, a1, Const))
      BY <1>1, <1>12, <2>3, CGenRegsAssumption
    <2> QED BY <1>3, <1>4, <1>12, <2>1, <2>2, <2>6, <2>7, <2>8, arm_Computed2
  <1>13. CASE tar \notin Wide
    <2>1. k \in Reached(s, A, {}) /\ k.res.r1 \in Regs /\ Ready(k, a1, Live1(m, tar, a1), ArmVars)
      BY <1>1, <1>3, <1>8, <1>9, <1>10, arm_LoadedRight
    <2>2. k \in Reached(m, A, {}) /\ k \in States BY <1>3, <1>4, <1>7, <2>1, ReachedTrans, ReachedIs
    <2>3. PICK q : q = ReadsMemory(RightRes(k, a1), Pointed) OBVIOUS
    <2>4. q \in Emitted(k) BY <1>11, <2>2, <2>3
    <2>5. q.res.r1 \in Regs BY <2>1, <2>4 DEF Emitted
    <2>6. PICK n : n = IF tar \in Structs THEN ComputesAt(q, tar, Far) ELSE Computes(q, tar) OBVIOUS
    <2>7. n \in Emitted(k) BY <1>3, <2>4, <2>5, <2>6, ComputesEmits, ComputesAtEmits
    <2>8. k \in Still(k, A) BY <1>3, <2>2, StillSelf
    <2>9. Commit(arm_UPDATE_ADDRESSES(n, tar, a1, Const)) BY <1>1, <1>13, <2>3, <2>6
    <2> QED BY <1>3, <1>4, <1>13, <2>1, <2>2, <2>7, <2>8, <2>9, arm_Computed
  <1> QED BY <1>12, <1>13

LEMMA arm_LoadArgStill ==
  ASSUME NEW m \in States, NEW A \in SUBSET Vars, NEW n \in Still(m, A), NEW r \in Regs, NEW a \in A \cup {Const}
  PROVE  arm_LoadArg(n, r, a) \in Still(m, A)
  <1>1. n \in States BY StillIs
  <1>2. PICK l : l = arm_load(n, r, a) OBVIOUS
  <1>3. l \in Stored(n, A) BY <1>1, <1>2, LoadStored DEF arm_load
  <1>4. l \in Still(m, A) BY <1>3, StillThenStored
  <1> QED BY <1>2, <1>4, RightInStill DEF arm_LoadArg

LEMMA arm_StoredWordStill ==
  ASSUME NEW n \in States, NEW A \in SUBSET Vars, NEW a2 \in A \cup {Const}, ~ (ArmPool \subseteq n.pinned)
  PROVE  arm_StoredWord(n, a2) \in Still(n, A)
  <1>1. n \in Still(n, A) /\ SCRATCH_REG \in Regs BY StillSelf, arm_Regs
  <1>2. CASE a2 = Const BY <1>1, <1>2, arm_LoadArgStill DEF arm_StoredWord
  <1>3. CASE a2 # Const /\ InReg(n, a2) BY <1>1, <1>3, RightInStill DEF arm_StoredWord
  <1>4. CASE a2 # Const /\ ~InReg(n, a2)
    <2>1. PICK o : o = InGot(arm_LoadGot(arm_get_reg0(n), a2)) OBVIOUS
    <2>2. o \in Still(n, A) BY <2>1, arm_LoadGotStill
    <2>3. o \in Gen BY <2>2, StillIs DEF States
    <2>4. RightOpd(o, a2, 1) \in Emitted(o) BY <2>3, EmittedSelf, RightEmits
    <2> QED BY <1>4, <2>1, <2>2, <2>4, StillThenEmitted DEF arm_StoredWord
  <1> QED BY <1>2, <1>3, <1>4

LEMMA arm_StoredPairStill ==
  ASSUME NEW n \in States, Only(n, ArmVars), NEW A \in SUBSET Vars, NEW a2 \in A \cup {Const},
         a2 \in Wide \cup {Const}, NEW r \in Regs, n.pinned \subseteq {r}, Roomy3(ArmPool)
  PROVE  arm_StoredPair(n, a2) \in Still(n, A)
  <1>1. CASE a2 = Const BY <1>1, StillSelf, ClobberStill, arm_Regs DEF arm_StoredPair
  <1>2. CASE a2 # Const
    <2>1. PICK o : o = arm_get_operand2(n, a2) OBVIOUS
    <2>2. n.pinned \subseteq {r, r} OBVIOUS
    <2>3. o \in Still(n, A) BY <2>1, <2>2, arm_Operand2Still
    <2>4. o \in Gen BY <2>3, StillIs DEF States
    <2>5. RightIn2(o, o.opd, a2) \in Emitted(o) BY <2>4, EmittedSelf, RightEmits
    <2> QED BY <1>2, <2>1, <2>3, <2>5, StillThenEmitted DEF arm_StoredPair, arm_ReadPair
  <1> QED BY <1>1, <1>2

LEMMA arm_StoredStructStill ==
  ASSUME NEW n \in States, NEW A \in SUBSET Vars, NEW a1 \in A, NEW a2 \in A
  PROVE  arm_StoredStruct(n, a1, a2) \in Still(n, A)
  <1>1. n \in Still(n, A) /\ SCRATCH_REG \in Regs BY StillSelf, arm_Regs
  <1>2. PICK k : k = arm_LoadArg(n, SCRATCH_REG, a1) OBVIOUS
  <1>3. k \in Still(n, A) BY <1>1, <1>2, arm_LoadArgStill
  <1>4. PICK q : q = arm_LoadArg(k, SCRATCH_REG, a2) OBVIOUS
  <1>5. q \in Still(n, A) BY <1>1, <1>3, <1>4, arm_LoadArgStill
  <1> QED BY <1>2, <1>4, <1>5, ClobberStill, arm_Regs DEF arm_StoredStruct

LEMMA arm_PointerPinned ==
  ASSUME NEW s \in States, Only(s, ArmVars), s.pinned = {}, NEW A \in SUBSET Vars, NEW a1 \in A,
         NEW k, k = arm_Pointer(s, a1)
  PROVE  k \in Reached(s, A, k.pinned) /\ k.res.r1 \in Regs /\ k.pinned \subseteq {k.res.r1}
  <1>1. CASE InReg(s, a1)
    <2>1. addr_reg1(s, a1) \in Regs BY <1>1, RegOf
    <2>2. s \in Reached(s, A, {}) BY ReachedSelf
    <2>3. k = Into(s, addr_reg1(s, a1), None) BY <1>1 DEF arm_Pointer
    <2>4. k \in Reached(s, A, {}) /\ k.res.r1 = addr_reg1(s, a1) BY <2>1, <2>2, <2>3, ReachedInto
    <2>5. k.pinned = {} BY <2>4, ReachedState
    <2> QED BY <2>1, <2>4, <2>5
  <1>2. CASE ~InReg(s, a1)
    <2>1. PICK l : l = arm_Loaded(s, NoVar, a1) OBVIOUS
    <2>2. l \in Reached(s, A, {}) /\ l.res.r1 \in Regs
      <3>1. ~ (ArmPool \subseteq s.pinned) BY ArmAssumption
      <3> QED BY <2>1, <3>1, arm_LoadedRight
    <2>3. PICK r : r = l.res.r1 OBVIOUS
    <2>4. r \in Regs /\ k = pin_reg(l, r) BY <1>2, <2>1, <2>2, <2>3 DEF arm_Pointer, PinRes
    <2>5. k \in Reached(s, A, {} \cup {r}) /\ k.res = l.res BY <2>2, <2>4, ReachedPin
    <2>6. {} \cup {r} = {r} OBVIOUS
    <2>7. k \in Reached(s, A, {r}) /\ k.pinned = {r} BY <2>5, <2>6, ReachedState
    <2> QED BY <2>3, <2>4, <2>5, <2>7
  <1> QED BY <1>1, <1>2

LEMMA arm_IndAsnRight ==
  ASSUME arm_Runs, NEW a1 \in Vars, NEW a2 \in Vars \cup {Const}, arm_ind_asn(a1, a2) PROVE IInv'
  <1>1. PICK m, s, k, d, q, m2 :
          /\ m \in Marks(NoVar, {a1, a2}, {})
          /\ Enabled("arm", "ind_asn")
          /\ s = arm_spill_aliased_objects(m) /\ k = arm_Pointer(s, a1)
          /\ d = IF a2 \in Wide THEN arm_StoredPair(k, a2) ELSE arm_StoredWord(k, a2)
          /\ q = RightRes(d, a1)
          /\ m2 = IF a2 \in Structs THEN arm_StoredStruct(s, a1, a2) ELSE unpin_reg(q, q.res.r1)
          /\ Commit(arm_update_args(WritesMemory(m2, Pointed), NoVar, a1, a2))
    <2>1. PICK m, s :
            /\ m \in Marks(NoVar, {a1, a2}, {}) /\ Enabled("arm", "ind_asn") /\ s = arm_spill_aliased_objects(m)
            /\ \/ /\ a2 \in Structs
                  /\ Commit(arm_update_args(WritesMemory(arm_StoredStruct(s, a1, a2), Pointed), NoVar, a1, a2))
               \/ /\ a2 \in Wide
                  /\ Commit(arm_update_args(
                       WritesMemory(arm_PointerRight(arm_StoredPair(arm_Pointer(s, a1), a2), a1), Pointed),
                       NoVar, a1, a2))
               \/ /\ a2 \notin Structs \cup Wide
                  /\ Commit(arm_update_args(
                       WritesMemory(arm_PointerRight(arm_StoredWord(arm_Pointer(s, a1), a2), a1), Pointed),
                       NoVar, a1, a2))
      BY DEF arm_ind_asn
    <2>3. PICK k : k = arm_Pointer(s, a1) OBVIOUS
    <2>4. PICK d : d = IF a2 \in Wide THEN arm_StoredPair(k, a2) ELSE arm_StoredWord(k, a2) OBVIOUS
    <2>5. PICK q : q = RightRes(d, a1) OBVIOUS
    <2>6. PICK m2 : m2 = IF a2 \in Structs THEN arm_StoredStruct(s, a1, a2) ELSE unpin_reg(q, q.res.r1) OBVIOUS
    <2>7. a2 \in Structs => a2 \notin Wide BY CGenRegsAssumption
    <2>8. Commit(arm_update_args(WritesMemory(m2, Pointed), NoVar, a1, a2))
      BY <2>1, <2>3, <2>4, <2>5, <2>6, <2>7 DEF arm_PointerRight, UnpinRes
    <2> QED BY <2>1, <2>3, <2>4, <2>5, <2>6, <2>8
  <1>2. PICK A : A = Named(a1, a2) OBVIOUS
  <1>3. /\ A \in SUBSET Vars /\ A \subseteq {a1, a2} /\ a1 \in A \cup {Const} /\ a2 \in A \cup {Const}
        /\ a1 \in A /\ (a2 \in Structs => a2 \in A) /\ Pointed \in SUBSET Vars
    BY <1>2, NamedIs, CGenRegsAssumption DEF Named, Ids
  <1>4. /\ target = "arm" /\ "arm" \in Targets /\ Going(m, NoVar, {a1, a2}, {}) /\ m \in States /\ m.pinned = {}
        /\ Only(m, ArmVars)
    BY <1>1, arm_Begin
  <1>5. s \in Fewer(m) BY <1>1, <1>4, arm_AliasedFewer
  <1>6. m \in Reached(m, A, {}) BY <1>3, <1>4, ReachedSelf
  <1>7. s \in Reached(m, A, {}) BY <1>3, <1>4, <1>5, <1>6, ReachedFewer
  <1>8. s \in States /\ s.pinned = {} /\ Only(s, ArmVars) BY <1>3, <1>4, <1>7, ReachedState, OnlyReached
  <1>9. m2 \in Reached(m, A, {})
    <2>1. CASE a2 \in Structs
      <3>1. m2 \in Still(s, A) BY <1>1, <1>3, <1>8, <2>1, arm_StoredStructStill
      <3> QED BY <1>3, <1>4, <1>7, <3>1, ReachedStill
    <2>2. CASE a2 \notin Structs
      <3>1. PICK p : p = k.pinned OBVIOUS
      <3>2. k \in Reached(s, A, p) /\ k.res.r1 \in Regs /\ p \subseteq {k.res.r1}
        BY <1>1, <1>3, <1>8, <3>1, arm_PointerPinned
      <3>3. p \ {k.res.r1} = {} BY <3>2
      <3>4. k \in States /\ k.pinned = p /\ Only(k, ArmVars) BY <1>3, <1>8, <3>2, ReachedState, OnlyReached
      <3>5. ~ (ArmPool \subseteq k.pinned)
        <4>1. ~ (ArmPool \subseteq {k.res.r1}) BY <3>2 DEF arm_Runs, Roomy3
        <4> QED BY <3>2, <3>4, <4>1
      <3>6. d \in Still(k, A)
        <4>1. CASE a2 \in Wide
          <5>1. arm_StoredPair(k, a2) \in Still(k, A)
            BY <1>3, <3>2, <3>4, <4>1, arm_StoredPairStill DEF arm_Runs
          <5> QED BY <1>1, <4>1, <5>1
        <4>2. CASE a2 \notin Wide BY <1>1, <1>3, <3>4, <3>5, <4>2, arm_StoredWordStill
        <4> QED BY <4>1, <4>2
      <3>7. d \in Reached(s, A, p) /\ d.res = k.res BY <1>3, <1>8, <3>2, <3>6, ReachedStill
      <3>8. d \in Gen BY <1>3, <1>8, <3>7, ReachedIs
      <3>9. q \in Emitted(d) BY <1>1, <3>8, EmittedSelf, RightEmits
      <3>10. q \in Reached(s, A, p) /\ q.res = d.res BY <1>3, <1>8, <3>7, <3>9, ReachedEmitted
      <3>11. m2 \in Reached(s, A, p \ {k.res.r1}) BY <1>1, <1>3, <1>8, <2>2, <3>7, <3>10, ReachedUnpin
      <3> QED BY <1>3, <1>4, <1>7, <3>3, <3>11, ReachedTrans
    <2> QED BY <2>1, <2>2
  <1>10. m2 \in States /\ m2 \in Gen BY <1>3, <1>4, <1>9, ReachedIs
  <1>11. WritesMemory(m2, Pointed) \in Emitted(m2) BY <1>3, <1>10, EmittedSelf, WritesMemoryEmits
  <1>12. WritesMemory(m2, Pointed) \in Reached(m, A, {}) BY <1>3, <1>4, <1>9, <1>11, ReachedEmitted
  <1> QED BY <1>1, <1>3, <1>4, <1>12, arm_Read

-----------------------------------------------------------------------------
(* arm_cgen.c: calls                                                       *)

\* The registers arm_pre_call() empties.
LEMMA arm_SpillAllRight ==
  ASSUME NEW m \in States PROVE arm_spill_all(m) \in Fewer(m) /\ \A r \in Regs : arm_spill_all(m).reg[r] = NoVar
  <1>1. PICK s : s = arm_spill_all(m) OBVIOUS
  <1>2. s \in Fewer(m) /\ \A r \in Regs : s.reg[r] \notin Vars
    BY <1>1, arm_SpillTheseFewer DEF arm_spill_all
  <1>3. s \in States BY <1>2, FewerIs
  <1>4. \A r \in Regs : s.reg[r] = NoVar BY <1>2, <1>3, OwnerIs
  <1> QED BY <1>1, <1>2, <1>4

\* The arguments have been passed: arm_post_call() forgets them.
LEMMA arm_CallGoing ==
  ASSUME NEW n, NEW tar, NEW args, Going(n, tar, args, {}), \A r \in Regs : n.reg[r] = NoVar
  PROVE  Going(arm_Call(n), tar, args, {}) /\ \A r \in Regs : arm_Call(n).reg[r] = NoVar
  <1>1. n \in States /\ n \in Gen /\ n.pinned = {} /\ {} \in SUBSET Vars BY GoingIs DEF States
  <1>2. PICK c : c = Called(FindsArguments(n, 0), ArmCallerSave) OBVIOUS
  <1>3. c \in Emitted(n) BY <1>1, <1>2, EmittedSelf, FindsArgumentsEmits, CalledEmits, arm_Regs
  <1>4. c \in Reached(n, {}, {}) /\ c.reg = n.reg
    <2>1. n \in Reached(n, {}, {}) BY <1>1, ReachedSelf
    <2> QED BY <1>1, <1>3, <2>1, ReachedEmitted
  <1>5. Going(c, tar, args, {}) BY <1>1, <1>4, GoingReached
  <1>6. PICK d : d = [c EXCEPT !.args = 0] OBVIOUS
  <1>7. Going(d, tar, args, {}) /\ d.reg = c.reg
    <2>1. 0 \in 0 .. MaxArgs + 4 BY CGenAssumption
    <2>2. c \in Gen BY <1>5, GoingIs DEF States
    <2>3. d.reg = c.reg BY <1>6, <2>2 DEF Gen
    <2> QED BY <1>5, <1>6, <2>1, <2>3, GoingArgs
  <1>8. d \in States /\ d \in Gen /\ d.pinned = {} BY <1>7, GoingIs DEF States
  <1>9. PICK e : e = [d EXCEPT !.passed = {}] OBVIOUS
  <1>10. e \in Emitted(d) BY <1>8, <1>9 DEF Emitted, Gen
  <1>11. e \in Reached(d, {}, {}) /\ e.reg = d.reg
    <2>1. d \in Reached(d, {}, {}) BY <1>1, <1>8, ReachedSelf
    <2> QED BY <1>1, <1>8, <1>10, <2>1, ReachedEmitted
  <1>12. Going(e, tar, args, {}) BY <1>1, <1>7, <1>11, GoingReached
  <1>13. arm_Call(n) = e BY <1>2, <1>6, <1>9 DEF arm_Call, arm_post_call
  <1> QED BY <1>4, <1>7, <1>11, <1>12, <1>13

\* The call has been made, and all registers are empty.
LEMMA arm_ReturnedRight ==
  ASSUME target = "arm", "arm" \in Targets, NEW tar \in Vars \cup {NoVar}, NEW n, Going(n, tar, {}, {}),
         \A r \in Regs : n.reg[r] = NoVar, Commit(arm_Returned(n, tar))
  PROVE  IInv'
  <1>0. n \in States /\ n.pinned = {} /\ n \in Reached(n, {}, {})
    <2>1. n \in States /\ n.pinned = {} BY GoingIs
    <2> QED BY <2>1, ReachedSelf
  <1>1. CASE tar \notin Vars
    <2>1. tar = NoVar /\ tar \notin Structs /\ tar \notin Wide BY <1>1, CGenRegsAssumption
    <2>2. arm_Returned(n, tar) = n BY <1>1, <2>1 DEF arm_Returned
    <2> QED BY <2>1, <2>2, arm_Ends
  <1>2. CASE tar \in Wide
    <2>1. PICK k : k = Into(n, 4, 5) OBVIOUS
    <2>2. k \in Reached(n, {}, {}) /\ k.res.r1 = 4 /\ k.res.r2 = 5 /\ k.reg = n.reg
      BY <1>0, <2>1, ReachedInto, arm_Regs
    <2>3. k \in Gen /\ tar \in Vars BY <1>0, <1>2, <2>2, ReachedIs, CGenRegsAssumption
    <2>4. PICK q : q = Computes2(k, tar) OBVIOUS
    <2>5. q \in Emitted(k) BY <2>2, <2>3, <2>4, EmittedSelf, Computes2Emits, arm_Regs
    <2>6. q \in Reached(n, {}, {}) /\ q.res = k.res /\ q.reg = k.reg BY <1>0, <2>2, <2>5, ReachedEmitted
    <2>7. Going(q, tar, {}, {}) BY <2>6, GoingReached
    <2>8. 4 \in Regs /\ 5 \in Regs /\ 4 # 5 /\ 4 \in ArmVars /\ 5 \in ArmVars BY arm_Regs
    <2>9. arm_Returned(n, tar) = arm_update_tar2(q, tar) BY <1>2, <2>1, <2>4 DEF arm_Returned
    <2> QED BY <1>2, <2>2, <2>6, <2>7, <2>8, <2>9, arm_Sets2
  <1>3. CASE tar \in Vars \ Wide
    <2>3. PICK k : k = Into(n, 4, None) OBVIOUS
    <2>4. k \in Reached(n, {}, {}) /\ k.res.r1 = 4 /\ k.reg = n.reg
      BY <1>0, <2>3, ReachedInto, arm_Regs
    <2>5. k \in States /\ k \in Gen BY <1>0, <2>4, ReachedIs
    <2>6. k \in Emitted(k) BY <2>5, EmittedSelf
    <2>7. PICK l : l = [k EXCEPT !.M[Area][1] = {}] OBVIOUS
    <2>8. l \in Emitted(k) BY <2>6, <2>7, AreaEmits
    <2>9. l.res.r1 = 4 BY <2>4, <2>8 DEF Emitted
    <2>10. PICK q : q = IF tar \in Structs THEN ComputesAt(l, tar, Area) ELSE Computes(k, tar) OBVIOUS
    <2>11. q \in Emitted(k)
      <3>1. Area \in Locs BY DEF Locs
      <3>2. l.res.r1 \in Regs /\ k.res.r1 \in Regs BY <2>4, <2>9, arm_Regs
      <3>3. CASE tar \in Structs
        <4>1. q = ComputesAt(l, tar, Area) BY <2>10, <3>3
        <4> QED BY <1>3, <2>8, <3>1, <3>2, <4>1, ComputesAtEmits
      <3>4. CASE tar \notin Structs
        <4>1. q = Computes(k, tar) BY <2>10, <3>4
        <4> QED BY <1>3, <2>6, <3>2, <4>1, ComputesEmits
      <3> QED BY <3>3, <3>4
    <2>12. q \in Reached(n, {}, {}) /\ q.res = k.res /\ q.reg = k.reg
      <3>1. PICK E : E = {} OBVIOUS
      <3>2. n \in States /\ E \in SUBSET Vars /\ k \in Reached(n, E, E) BY <1>0, <2>4, <3>1
      <3>3. q \in Reached(n, E, E) /\ q.res = k.res /\ q.reg = k.reg BY <2>11, <3>2, ReachedEmitted
      <3> QED BY <3>1, <3>3
    <2>13. Going(q, tar, {}, {}) BY <2>12, GoingReached
    <2>14. arm_Returned(n, tar) = arm_update_tar(q, tar) BY <1>3, <2>3, <2>7, <2>10 DEF arm_Returned
    <2>15. q.res.r1 \in Regs \cap ArmVars /\ q.reg[q.res.r1] = NoVar BY <2>4, <2>12, arm_Regs
    <2> QED BY <1>3, <2>13, <2>14, <2>15, arm_Sets
  <1> QED BY <1>1, <1>2, <1>3

LEMMA arm_CallRight == ASSUME arm_Runs, NEW tar \in Vars \cup {NoVar}, arm_call(tar) PROVE IInv'
  <1>1. PICK m, c :
          /\ m \in Marks(tar, {}, AddrTaken \cup Statics)
          /\ Enabled("arm", "call") /\ c = arm_spill_all(m) /\ Commit(arm_Returned(arm_Call(c), tar))
    BY DEF arm_call
  <1>2. AddrTaken \cup Statics \subseteq Crossing /\ {} \in SUBSET Vars BY CGenAssumption
  <1>3. /\ target = "arm" /\ "arm" \in Targets /\ Going(m, tar, {}, {}) /\ m \in States /\ m.pinned = {}
    BY <1>1, <1>2, arm_Begin
  <1>4. c \in Reached(m, {}, {}) /\ \A r \in Regs : c.reg[r] = NoVar
    BY <1>1, <1>2, <1>3, arm_SpillAllRight, ReachedSelf, ReachedFewer
  <1>5. Going(c, tar, {}, {}) BY <1>2, <1>3, <1>4, GoingReached
  <1>6. Going(arm_Call(c), tar, {}, {}) /\ \A r \in Regs : arm_Call(c).reg[r] = NoVar BY <1>4, <1>5, arm_CallGoing
  <1> QED BY <1>1, <1>3, <1>6, arm_ReturnedRight

LEMMA arm_IndCallRight ==
  ASSUME arm_Runs, NEW tar \in Vars \cup {NoVar}, NEW a1 \in Vars, arm_indcall(tar, a1) PROVE IInv'
  <1>1. PICK m, c, l, d, u :
          /\ m \in Marks(tar, {a1}, AddrTaken \cup Statics)
          /\ Enabled("arm", "indcall")
          /\ c = arm_spill_all(m) /\ l = arm_LoadArg(c, SCRATCH_REG, a1) /\ d = arm_Call(l)
          /\ u = arm_update_args(d, tar, a1, Const) /\ Commit(arm_Returned(u, tar))
    BY DEF arm_indcall
  <1>2. PICK A : A = {a1} OBVIOUS
  <1>3. /\ AddrTaken \cup Statics \subseteq Crossing /\ A \in SUBSET Vars /\ A \subseteq {a1}
        /\ a1 \in A \cup {Const} /\ {a1} \subseteq {a1, Const}
    BY <1>2, CGenAssumption
  <1>4. /\ target = "arm" /\ "arm" \in Targets /\ Going(m, tar, {a1}, {}) /\ m \in States /\ m.pinned = {}
    BY <1>1, <1>3, arm_Begin
  <1>5. c \in Fewer(m) /\ \A r \in Regs : c.reg[r] = NoVar BY <1>1, <1>4, arm_SpillAllRight
  <1>6. c \in States /\ c.pinned = {} BY <1>4, <1>5, FewerIs
  <1>7. c \in Reached(m, A, {}) BY <1>3, <1>4, <1>5, ReachedSelf, ReachedFewer
  <1>8. l \in Still(c, A)
    <2>1. c \in Still(c, A) BY <1>3, <1>6, StillSelf
    <2> QED BY <1>1, <1>3, <1>6, <2>1, arm_LoadArgStill, arm_Regs
  <1>9. l \in Reached(m, A, {}) BY <1>3, <1>4, <1>7, <1>8, ReachedStill
  <1>10. \A r \in Regs : l.reg[r] = NoVar
    <2>1. l \in After(c, A) BY <1>3, <1>6, <1>8, StillIs
    <2>2. \A r \in Regs : l.reg[r] \in {c.reg[r], NoVar} BY <1>3, <1>6, <2>1, AfterIs
    <2> QED BY <1>5, <2>2
  <1>11. Going(l, tar, {a1, Const}, {}) BY <1>3, <1>4, <1>9, GoingReached
  <1>12. Going(d, tar, {a1, Const}, {}) /\ \A r \in Regs : d.reg[r] = NoVar BY <1>1, <1>10, <1>11, arm_CallGoing
  <1>13. Going(u, tar, {}, {}) BY <1>1, <1>4, <1>12, arm_ArgsGoing
  <1>14. \A r \in Regs : u.reg[r] = NoVar
    <2>1. Const \in Vars \cup {Const} /\ a1 \in Vars \cup {Const} OBVIOUS
    <2>2. ASSUME NEW r \in Regs PROVE arm_update_args(d, tar, a1, Const).reg[r] = NoVar
      BY <1>4, <1>12, <2>1, arm_ArgsFree
    <2> QED BY <1>1, <2>2
  <1> QED BY <1>1, <1>4, <1>13, <1>14, arm_ReturnedRight

-----------------------------------------------------------------------------
(* arm_cgen.c: calls of library functions                                  *)

LEMMA arm_LibCallStill ==
  ASSUME NEW m \in States, NEW A \in SUBSET Vars, NEW n \in Still(m, A), NEW before \in Gen
  PROVE  arm_LibCall(n, before) \in Still(m, A) /\ \A r \in Regs : arm_LibCall(n, before).reg[r] = NoVar
  <1>1. n \in States BY StillIs
  <1>2. PICK s : s = arm_spill_all(n) OBVIOUS
  <1>3. s \in Fewer(n) /\ \A r \in Regs : s.reg[r] = NoVar BY <1>1, <1>2, arm_SpillAllRight
  <1>4. s \in Still(m, A) BY <1>3, StillThenFewer
  <1>5. s \in Gen BY <1>4, StillIs DEF States
  <1>6. PICK c : c = Clobber(s, ArmCallerSave) OBVIOUS
  <1>7. c \in Emitted(s) BY <1>5, <1>6, EmittedSelf, ClobberEmits, arm_Regs
  <1>8. arm_LibCall(n, before) \in Emitted(s)
    BY <1>2, <1>6, <1>7, ContentsEmit DEF arm_LibCall, arm_restore_arg_regs
  <1>9. arm_LibCall(n, before).reg = s.reg BY <1>8 DEF Emitted
  <1> QED BY <1>3, <1>4, <1>8, <1>9, StillThenEmitted

\* The result is moved to r4, or to r4 and r5.
LEMMA arm_LibResult ==
  ASSUME target = "arm", "arm" \in Targets, NEW tar \in Vars, NEW a1 \in Vars \cup {Const},
         NEW a2 \in Vars \cup {Const}, NEW m, Going(m, tar, {a1, a2}, {}), NEW A \in SUBSET Vars, A \subseteq {a1, a2},
         NEW n \in Still(m, A), \A r \in Regs : n.reg[r] = NoVar,
         IF tar \in Wide THEN Commit(arm_UPDATE_ADDRESSES2(Computes2(Into(n, 4, 5), tar), tar, a1, a2))
                         ELSE Commit(arm_UPDATE_ADDRESSES(Computes(Into(n, 4, None), tar), tar, a1, a2))
  PROVE  IInv'
  <1>1. m \in States /\ m.pinned = {} BY GoingIs
  <1>2. n \in Reached(m, A, {}) BY <1>1, ReachedSelf, ReachedStill
  <1>3. 4 \in Regs /\ 5 \in Regs /\ 4 \in ArmVars /\ 5 \in ArmVars /\ 4 # 5 BY arm_Regs
  <1>4. PICK k : k = IF tar \in Wide THEN Into(n, 4, 5) ELSE Into(n, 4, None) OBVIOUS
  <1>5. k \in Reached(m, A, {}) /\ k.res.r1 = 4 /\ (tar \in Wide => k.res.r2 = 5) /\ k.reg = n.reg
    BY <1>1, <1>2, <1>3, <1>4, ReachedInto
  <1>6. k \in States /\ k \in Gen BY <1>1, <1>5, ReachedIs
  <1>7. PICK q : q = IF tar \in Wide THEN Computes2(k, tar) ELSE Computes(k, tar) OBVIOUS
  <1>8. q \in Emitted(k) BY <1>3, <1>5, <1>6, <1>7, EmittedSelf, ComputesEmits, Computes2Emits
  <1>9. k \in Still(k, A) BY <1>6, StillSelf
  <1>10. \A r \in Regs : Free(k, r, a1, Live1(m, tar, a1)) BY <1>5 DEF Free
  <1>11. CASE tar \in Wide
    <2>1. Ready2(k, a1, Live1(m, tar, a1), ArmVars) BY <1>3, <1>5, <1>10, <1>11 DEF Ready2, Ready
    <2>2. Commit(arm_UPDATE_ADDRESSES2(q, tar, a1, a2)) BY <1>4, <1>7, <1>11
    <2> QED BY <1>5, <1>8, <1>9, <1>11, <2>1, <2>2, arm_Computed2
  <1>12. CASE tar \notin Wide
    <2>1. Ready(k, a1, Live1(m, tar, a1), ArmVars) BY <1>3, <1>5, <1>10 DEF Ready
    <2>2. Commit(arm_UPDATE_ADDRESSES(q, tar, a1, a2)) BY <1>4, <1>7, <1>12
    <2> QED BY <1>5, <1>8, <1>9, <1>12, <2>1, <2>2, arm_Computed
  <1> QED BY <1>11, <1>12

LEMMA arm_DivRight ==
  ASSUME arm_Runs, NEW tar \in WordTemps, NEW a1 \in Vars \cup {Const}, NEW a2 \in Vars \cup {Const},
         arm_div(tar, a1, a2)
  PROVE  IInv'
  <1>1. PICK m, l1, l2 :
          /\ m \in Marks(tar, {a1, a2}, {}) /\ Enabled("arm", "div_rem")
          /\ l1 = arm_LoadArg(m, 0, a1) /\ l2 = arm_LoadArg(l1, 1, a2)
          /\ Commit(arm_UPDATE_ADDRESSES(Computes(Into(arm_LibCall(l2, m), 4, None), tar), tar, a1, a2))
    BY DEF arm_div
  <1>2. PICK A : A = Named(a1, a2) OBVIOUS
  <1>3. /\ A \in SUBSET Vars /\ A \subseteq {a1, a2} /\ a1 \in A \cup {Const} /\ a2 \in A \cup {Const}
        /\ tar \in Vars /\ tar \notin Wide
    BY <1>2, NamedIs, CGenRegsAssumption DEF WordTemps
  <1>4. target = "arm" /\ "arm" \in Targets /\ Going(m, tar, {a1, a2}, {}) /\ m \in States BY <1>1, arm_Begin
  <1>5. l1 \in Still(m, A) BY <1>1, <1>3, <1>4, StillSelf, arm_LoadArgStill, arm_Regs
  <1>6. l2 \in Still(m, A) BY <1>1, <1>3, <1>4, <1>5, arm_LoadArgStill, arm_Regs
  <1>7. m \in Gen BY <1>4 DEF States
  <1>8. arm_LibCall(l2, m) \in Still(m, A) /\ \A r \in Regs : arm_LibCall(l2, m).reg[r] = NoVar
    BY <1>3, <1>4, <1>6, <1>7, arm_LibCallStill
  <1> QED BY <1>1, <1>3, <1>4, <1>8, arm_LibResult

LEMMA arm_LibcallRight ==
  ASSUME arm_Runs, NEW tar \in Vars, NEW a1 \in Wide \cup {Const}, NEW a2 \in Vars \cup {Const},
         arm_do_libcall(tar, a1, a2)
  PROVE  IInv'
  <1>1. PICK m, l1, l2, n :
          /\ m \in Marks(tar, {a1, a2}, {}) /\ Enabled("arm", "do_libcall")
          /\ l1 = arm_LoadArg2(m, Pair(0, 1), a1)
          /\ l2 = IF a2 \in Wide \cup {Const} THEN arm_LoadArg2(l1, Pair(2, 3), a2) ELSE arm_LoadArg(l1, 2, a2)
          /\ n = arm_LibCall(l2, m)
          /\ IF tar \in Wide THEN Commit(arm_UPDATE_ADDRESSES2(Computes2(Into(n, 4, 5), tar), tar, a1, a2))
                             ELSE Commit(arm_UPDATE_ADDRESSES(Computes(Into(n, 4, None), tar), tar, a1, a2))
    BY DEF arm_do_libcall
  <1>2. PICK A : A = Named(a1, a2) OBVIOUS
  <1>3. /\ A \in SUBSET Vars /\ A \subseteq {a1, a2} /\ a1 \in A \cup {Const} /\ a2 \in A \cup {Const}
        /\ a1 \in Vars \cup {Const}
    BY <1>2, NamedIs, CGenRegsAssumption
  <1>4. /\ target = "arm" /\ "arm" \in Targets /\ Going(m, tar, {a1, a2}, {}) /\ m \in States /\ Only(m, ArmVars)
    BY <1>1, arm_Begin
  <1>5. m \in Still(m, A) BY <1>3, <1>4, StillSelf
  <1>6. l1 \in Still(m, A) BY <1>1, <1>3, <1>4, <1>5, arm_LoadArg2Still, arm_Regs
  <1>7. l2 \in Still(m, A) BY <1>1, <1>3, <1>4, <1>6, arm_LoadArg2Still, arm_LoadArgStill, arm_Regs
  <1>8. m \in Gen BY <1>4 DEF States
  <1>9. n \in Still(m, A) /\ \A r \in Regs : n.reg[r] = NoVar
    BY <1>1, <1>3, <1>4, <1>7, <1>8, arm_LibCallStill
  <1> QED BY <1>1, <1>3, <1>4, <1>9, arm_LibResult

-----------------------------------------------------------------------------
(* arm_cgen.c: arguments                                                   *)

\* The words of arguments start at a multiple of their alignment.
LEMMA RoundUpIs ==
  ASSUME NEW k \in Nat, NEW to \in {1, 2}
  PROVE  /\ RoundUp(k, to) \in Nat /\ k <= RoundUp(k, to) /\ RoundUp(k, to) <= k + 1
         /\ to = 2 => RoundUp(k, to) # 1 /\ RoundUp(k, to) # 3
  <1>1. CASE to = 1
    <2>1. (k + 1 - 1) \div 1 = k OBVIOUS
    <2> QED BY <1>1, <2>1 DEF RoundUp
  <1>2. CASE to = 2
    <2>1. PICK h \in Nat : h = (k + 2 - 1) \div 2 /\ 2 * h <= k + 1 /\ k <= 2 * h OBVIOUS
    <2>2. RoundUp(k, to) = 2 * h BY <1>2, <2>1 DEF RoundUp
    <2> QED BY <1>2, <2>1, <2>2
  <1> QED BY <1>1, <1>2

\* Word k is in register k.
LEMMA arm_ArgRegs == \A k \in 0 .. 3 : k \in Regs \ ArmVars
  <1>1. 0 .. 3 = {0, 1, 2, 3} OBVIOUS
  <1> QED BY <1>1, arm_Regs

LEMMA arm_ArgWordStill ==
  ASSUME NEW m \in States, NEW a1 \in Vars, m.args \in Nat PROVE arm_ArgWord(m, a1) \in Still(m, {a1})
  <1>1. PICK A : A = {a1} OBVIOUS
  <1>2. A \in SUBSET Vars /\ a1 \in A \cup {Const} BY <1>1
  <1>3. m \in Still(m, A) BY <1>2, StillSelf
  <1>4. CASE m.args < 4
    <2>1. PICK k \in 0 .. 3 : k = m.args BY <1>4
    <2>2. k \in Regs BY <2>1, arm_ArgRegs
    <2>3. PICK s : s = arm_spill_reg(m, k) OBVIOUS
    <2>4. s \in Still(m, A) BY <1>2, <2>2, <2>3, arm_SpillFewer, FewerStill
    <2>5. PICK l : l = arm_LoadArg(s, k, a1) OBVIOUS
    <2>6. l \in Still(m, A) BY <1>2, <2>2, <2>4, <2>5, arm_LoadArgStill
    <2>7. l \in Gen BY <1>2, <2>6, StillIs DEF States
    <2>8. Passes(l, k, k) \in Emitted(l) BY <2>1, <2>2, <2>7, EmittedSelf, PassesEmits
    <2>9. arm_ArgWord(m, a1) = Passes(l, k, k) BY <1>4, <2>1, <2>3, <2>5 DEF arm_ArgWord
    <2> QED BY <1>1, <1>2, <2>6, <2>8, <2>9, StillThenEmitted
  <1>5. CASE ~(m.args < 4) /\ InReg(m, a1)
    <2>1. arm_ArgWord(m, a1) = RightIn(m, addr_reg1(m, a1), a1, 1) BY <1>5 DEF arm_ArgWord
    <2> QED BY <1>1, <1>2, <1>3, <2>1, RightInStill
  <1>6. CASE ~(m.args < 4) /\ ~InReg(m, a1)
    <2>1. arm_ArgWord(m, a1) = arm_LoadArg(m, SCRATCH_REG, a1) BY <1>6 DEF arm_ArgWord
    <2> QED BY <1>1, <1>2, <1>3, <2>1, arm_LoadArgStill, arm_Regs
  <1> QED BY <1>4, <1>5, <1>6

LEMMA arm_ArgPairStill ==
  ASSUME NEW m \in States, Only(m, ArmVars), m.pinned = {}, Roomy3(ArmPool), NEW a1 \in Wide,
         NEW k \in Nat, k # 1, k # 3
  PROVE  arm_ArgPair(m, k, a1) \in Still(m, {a1})
  <1>1. PICK A : A = {a1} OBVIOUS
  <1>2. A \in SUBSET Vars /\ a1 \in A \cup {Const} /\ a1 \in Wide \cup {Const} BY <1>1, CGenRegsAssumption
  <1>3. m \in Still(m, A) BY <1>2, StillSelf
  <1>4. CASE k < 4
    <2>1. k \in 0 .. 3 /\ k + 1 \in 0 .. 3 BY <1>4
    <2>2. k \in Regs \ ArmVars /\ k + 1 \in Regs \ ArmVars BY <2>1, arm_ArgRegs
    <2>3. PICK l : l = arm_LoadArg2(m, Pair(k, k + 1), a1) OBVIOUS
    <2>4. l \in Still(m, A) BY <1>2, <1>3, <2>2, <2>3, arm_LoadArg2Still
    <2>5. l \in Gen BY <1>2, <2>4, StillIs DEF States
    <2>6. PICK p : p = Passes(l, k, k) OBVIOUS
    <2>7. p \in Emitted(l) BY <2>1, <2>2, <2>5, <2>6, EmittedSelf, PassesEmits
    <2>8. Passes(p, k + 1, k + 1) \in Emitted(l) BY <2>1, <2>2, <2>7, PassesEmits
    <2>9. arm_ArgPair(m, k, a1) = Passes(p, k + 1, k + 1) BY <1>4, <2>3, <2>6 DEF arm_ArgPair
    <2> QED BY <1>1, <1>2, <2>4, <2>8, <2>9, StillThenEmitted
  <1>5. CASE ~(k < 4)
    <2>1. PICK r \in Regs : r = 0 BY arm_Regs
    <2>2. m.pinned \subseteq {r, r} OBVIOUS
    <2>3. PICK g : g = arm_get_operand2(m, a1) OBVIOUS
    <2>4. g \in Still(m, A) BY <1>2, <2>2, <2>3, arm_Operand2Still
    <2>5. g \in Gen BY <1>2, <2>4, StillIs DEF States
    <2>6. arm_ReadPair(g, a1) \in Emitted(g) BY <2>5, EmittedSelf, RightEmits DEF arm_ReadPair
    <2>7. arm_ArgPair(m, k, a1) = arm_ReadPair(g, a1) BY <1>5, <2>3 DEF arm_ArgPair
    <2> QED BY <1>1, <1>2, <2>4, <2>6, <2>7, StillThenEmitted
  <1> QED BY <1>4, <1>5

LEMMA arm_ArgStructStill ==
  ASSUME NEW m \in States, NEW a1 \in Vars, NEW k \in Nat, NEW size \in Nat
  PROVE  arm_ArgStruct(m, k, size, a1) \in Still(m, {a1})
  <1>1. PICK A : A = {a1} OBVIOUS
  <1>2. A \in SUBSET Vars /\ a1 \in A \cup {Const} BY <1>1
  <1>3. PICK l : l = arm_LoadArg(m, SCRATCH_REG, a1) OBVIOUS
  <1>4. l \in Still(m, A) BY <1>2, <1>3, StillSelf, arm_LoadArgStill, arm_Regs
  <1>5. l \in Gen BY <1>2, <1>4, StillIs DEF States
  <1>6. CASE k + size <= 4
    <2>1. k .. k + size - 1 \in SUBSET (0 .. 3) BY <1>6
    <2>2. PassesWords(l, 0, k .. k + size - 1) \in Emitted(l) BY <1>5, <2>1, EmittedSelf, PassesWordsEmits
    <2>3. arm_ArgStruct(m, k, size, a1) = PassesWords(l, 0, k .. k + size - 1) BY <1>3, <1>6 DEF arm_ArgStruct
    <2> QED BY <1>1, <1>2, <1>4, <2>2, <2>3, StillThenEmitted
  <1>7. CASE ~(k + size <= 4)
    <2>1. k .. 3 \in SUBSET (0 .. 3) OBVIOUS
    <2>2. PICK p : p = PassesWords(l, 0, k .. 3) OBVIOUS
    <2>3. p \in Emitted(l) BY <1>5, <2>1, <2>2, EmittedSelf, PassesWordsEmits
    <2>4. Clobber(p, {SCRATCH_REG, LinkReg}) \in Emitted(l) BY <2>3, ClobberEmits, arm_Regs
    <2>5. arm_ArgStruct(m, k, size, a1) = Clobber(p, {SCRATCH_REG, LinkReg}) BY <1>3, <1>7, <2>2 DEF arm_ArgStruct
    <2> QED BY <1>1, <1>2, <1>4, <2>4, <2>5, StillThenEmitted
  <1> QED BY <1>6, <1>7

\* The words of the argument are counted.
LEMMA arm_Passed ==
  ASSUME target = "arm", "arm" \in Targets, NEW a1 \in Vars, NEW m, Going(m, NoVar, {a1}, {}),
         NEW n \in Still(m, {a1}), NEW j \in 0 .. MaxArgs + 4, Commit(arm_update_args([n EXCEPT !.args = j], NoVar, a1, Const))
  PROVE  IInv'
  <1>1. PICK A : A = {a1} OBVIOUS
  <1>2. /\ A \in SUBSET Vars /\ A \subseteq {a1} /\ {a1} \subseteq {a1, Const} /\ m \in States /\ m.pinned = {}
        /\ Const \in Vars \cup {Const} /\ a1 \in Vars \cup {Const}
    BY <1>1, GoingIs
  <1>3. m \in Reached(m, A, {}) BY <1>2, ReachedSelf
  <1>4. n \in Reached(m, A, {}) BY <1>1, <1>2, <1>3, ReachedStill
  <1>5. Going(n, NoVar, {a1, Const}, {}) BY <1>2, <1>4, GoingReached
  <1>6. Going([n EXCEPT !.args = j], NoVar, {a1, Const}, {}) BY <1>5, GoingArgs
  <1> QED BY <1>2, <1>6, arm_Uses

LEMMA arm_ArgRight ==
  ASSUME arm_Runs, NEW a1 \in Vars, NEW size \in {1, 4}, NEW align \in {1, 2}, arm_arg(a1, size, align) PROVE IInv'
  <1>1. PICK m, k, w, m1 :
          /\ m \in Marks(NoVar, {a1}, {}) /\ Enabled("arm", "arg")
          /\ w = (IF a1 \in Wide THEN 2 ELSE align) /\ k = RoundUp(arg_words, w)
          /\ m1 = IF a1 \in Structs THEN arm_Words(arm_ArgStruct(m, k, size, a1), k, size)
                  ELSE IF a1 \in Wide THEN arm_Words(arm_ArgPair(m, k, a1), k, 2)
                  ELSE arm_Words(arm_ArgWord(m, a1), arg_words, 1)
          /\ arg_words < MaxArgs /\ Commit(arm_update_args(m1, NoVar, a1, Const))
    BY DEF arm_arg
  <1>2. /\ target = "arm" /\ "arm" \in Targets /\ Going(m, NoVar, {a1}, {}) /\ m.args = arg_words /\ m \in States
        /\ m.pinned = {} /\ Only(m, ArmVars)
    BY <1>1, arm_Begin
  <1>3. MaxArgs \in Nat /\ arg_words \in Nat
    <2>1. m.args \in 0 .. MaxArgs + 4 BY <1>2 DEF Going
    <2> QED BY <1>2, <2>1, CGenAssumption
  <1>4. w \in {1, 2} BY <1>1
  <1>5. k \in Nat /\ k <= arg_words + 1 /\ (a1 \in Wide => k # 1 /\ k # 3) BY <1>1, <1>3, <1>4, RoundUpIs
  <1>6. /\ k + size \in 0 .. MaxArgs + 4 /\ k + 2 \in 0 .. MaxArgs + 4 /\ arg_words + 1 \in 0 .. MaxArgs + 4
        /\ size \in Nat
    BY <1>1, <1>3, <1>5
  <1>7. CASE a1 \in Structs
    <2>1. PICK n : n = arm_ArgStruct(m, k, size, a1) OBVIOUS
    <2>2. n \in Still(m, {a1}) BY <1>2, <1>5, <1>6, <2>1, arm_ArgStructStill
    <2>3. m1 = [n EXCEPT !.args = k + size] BY <1>1, <1>7, <2>1 DEF arm_Words
    <2> QED BY <1>1, <1>2, <1>6, <2>2, <2>3, arm_Passed
  <1>8. CASE a1 \notin Structs /\ a1 \in Wide
    <2>1. PICK n : n = arm_ArgPair(m, k, a1) OBVIOUS
    <2>2. n \in Still(m, {a1}) BY <1>2, <1>5, <1>8, <2>1, arm_ArgPairStill DEF arm_Runs
    <2>3. m1 = [n EXCEPT !.args = k + 2] BY <1>1, <1>8, <2>1 DEF arm_Words
    <2> QED BY <1>1, <1>2, <1>6, <2>2, <2>3, arm_Passed
  <1>9. CASE a1 \notin Structs /\ a1 \notin Wide
    <2>1. PICK n : n = arm_ArgWord(m, a1) OBVIOUS
    <2>2. n \in Still(m, {a1}) BY <1>2, <1>3, <2>1, arm_ArgWordStill
    <2>3. m1 = [n EXCEPT !.args = arg_words + 1] BY <1>1, <1>9, <2>1 DEF arm_Words
    <2> QED BY <1>1, <1>2, <1>6, <2>2, <2>3, arm_Passed
  <1> QED BY <1>7, <1>8, <1>9

LEMMA arm_ArgAreaRight == ASSUME arm_Runs, arm_arg_area PROVE IInv'
  <1>1. PICK m \in Marks(NoVar, {}, {}) :
          /\ Enabled("arm", "arg") /\ MaxArgs > 0
          /\ Commit(arm_Words(Passes(arm_spill_reg(m, 0), 0, 0), 0, 1))
    BY DEF arm_arg_area
  <1>2. {} \subseteq Crossing /\ {} \in SUBSET Vars OBVIOUS
  <1>3. target = "arm" /\ "arm" \in Targets /\ Going(m, NoVar, {}, {}) /\ m \in States /\ m.pinned = {}
    BY <1>1, <1>2, arm_Begin
  <1>4. PICK s : s = arm_spill_reg(m, 0) OBVIOUS
  <1>5. s \in Fewer(m) BY <1>3, <1>4, arm_SpillFewer, arm_Regs
  <1>6. m \in Reached(m, {}, {}) BY <1>2, <1>3, ReachedSelf
  <1>7. s \in Reached(m, {}, {}) BY <1>2, <1>3, <1>5, <1>6, ReachedFewer
  <1>8. s \in Gen BY <1>2, <1>3, <1>7, ReachedIs
  <1>9. PICK p : p = Passes(s, 0, 0) OBVIOUS
  <1>10. p \in Emitted(s) BY <1>8, <1>9, EmittedSelf, PassesEmits, arm_Regs
  <1>11. p \in Reached(m, {}, {}) BY <1>2, <1>3, <1>7, <1>10, ReachedEmitted
  <1>12. Going(p, NoVar, {}, {}) BY <1>2, <1>3, <1>11, GoingReached
  <1>13. 1 \in 0 .. MaxArgs + 4 BY CGenAssumption
  <1>14. Going([p EXCEPT !.args = 1], NoVar, {}, {}) BY <1>12, <1>13, GoingArgs
  <1>15. arm_Words(p, 0, 1) = [p EXCEPT !.args = 1] BY DEF arm_Words
  <1> QED BY <1>1, <1>3, <1>4, <1>9, <1>14, <1>15, arm_Ends

-----------------------------------------------------------------------------
(* arm_cgen.c: the ends of blocks and functions                            *)

LEMMA arm_ReturnStructStill ==
  ASSUME NEW m \in States, NEW A \in SUBSET Vars, NEW a1 \in A PROVE arm_ReturnStruct(m, a1) \in Still(m, A)
  <1>1. {0} \in SUBSET Int OBVIOUS
  <1>2. Clobber(m, {0}) \in Still(m, A) BY <1>1, StillSelf, ClobberStill
  <1>3. arm_LoadArg(Clobber(m, {0}), SCRATCH_REG, a1) \in Still(m, A) BY <1>2, arm_LoadArgStill, arm_Regs
  <1> QED BY <1>3, ClobberStill, arm_Regs DEF arm_ReturnStruct

LEMMA arm_RetRight == ASSUME arm_Runs, NEW a1 \in Vars, arm_ret(a1) PROVE IInv'
  <1>1. PICK m, m1 :
          /\ m \in Marks(NoVar, {a1}, {})
          /\ Enabled("arm", "ret")
          /\ m1 = IF a1 \in Wide THEN arm_LoadArg2(m, Pair(0, 1), a1)
                  ELSE IF a1 \in Structs THEN arm_ReturnStruct(m, a1) ELSE arm_LoadArg(m, 0, a1)
          /\ Commit(arm_update_args(m1, NoVar, a1, Const))
    BY DEF arm_ret
  <1>2. PICK A : A = {a1} OBVIOUS
  <1>3. A \in SUBSET Vars /\ A \subseteq {a1} /\ a1 \in A /\ {a1} \subseteq {a1, Const} BY <1>2
  <1>4. /\ target = "arm" /\ "arm" \in Targets /\ Going(m, NoVar, {a1}, {}) /\ m \in States /\ m.pinned = {}
        /\ Only(m, ArmVars)
    BY <1>1, arm_Begin
  <1>5. m \in Still(m, A) BY <1>3, <1>4, StillSelf
  <1>6. a1 \in Wide => arm_LoadArg2(m, Pair(0, 1), a1) \in Still(m, A)
    BY <1>3, <1>4, <1>5, arm_LoadArg2Still, arm_Regs
  <1>7. arm_ReturnStruct(m, a1) \in Still(m, A) /\ arm_LoadArg(m, 0, a1) \in Still(m, A)
    BY <1>3, <1>4, <1>5, arm_ReturnStructStill, arm_LoadArgStill, arm_Regs
  <1>8. m1 \in Still(m, A) BY <1>1, <1>6, <1>7
  <1>9. m1 \in Reached(m, A, {}) BY <1>3, <1>4, <1>8, ReachedSelf, ReachedStill
  <1> QED BY <1>1, <1>3, <1>4, <1>9, arm_Read

LEMMA arm_CbrRight == ASSUME arm_Runs, NEW a1 \in Vars, arm_cbr(a1) PROVE IInv'
  <1>1. PICK m, k, m1 :
          /\ m \in Marks(NoVar, {a1}, {})
          /\ Enabled("arm", "cbr") /\ k = arm_Loaded2(m, NoVar, a1)
          /\ m1 = IF a1 \in Wide THEN Clobber(k, {k.res.r1}) ELSE RightRes(arm_Loaded(m, NoVar, a1), a1)
          /\ Commit(arm_update_args(m1, NoVar, a1, Const))
    BY DEF arm_cbr, arm_OrWords
  <1>2. PICK A : A = {a1} OBVIOUS
  <1>3. A \in SUBSET Vars /\ A \subseteq {a1} /\ a1 \in A /\ {a1} \subseteq {a1, Const} BY <1>2
  <1>4. /\ target = "arm" /\ "arm" \in Targets /\ Going(m, NoVar, {a1}, {}) /\ m \in States /\ m.pinned = {}
        /\ ~ (ArmPool \subseteq m.pinned) /\ Only(m, ArmVars)
    BY <1>1, arm_Begin
  <1>5. CASE a1 \in Wide
    <2>1. k \in Reached(m, A, {}) /\ Ready2(k, a1, Live1(m, NoVar, a1), ArmVars)
      BY <1>1, <1>3, <1>4, <1>5, arm_Loaded2Right DEF arm_Runs
    <2>2. k \in Gen BY <1>3, <1>4, <2>1, ReachedIs
    <2>3. k.res.r1 \in Regs BY <2>1 DEF Ready2, Ready, Free
    <2>4. {k.res.r1} \in SUBSET Int BY <2>3, RegsAre
    <2>5. m1 \in Emitted(k) BY <1>1, <1>5, <2>2, <2>4, EmittedSelf, ClobberEmits
    <2>6. m1 \in Reached(m, A, {}) BY <1>3, <1>4, <2>1, <2>5, ReachedEmitted
    <2> QED BY <1>1, <1>3, <1>4, <2>6, arm_Read
  <1>6. CASE a1 \notin Wide
    <2>1. PICK l : l = arm_Loaded(m, NoVar, a1) OBVIOUS
    <2>2. l \in Reached(m, A, {}) BY <1>3, <1>4, <2>1, arm_LoadedRight
    <2>3. l \in Gen BY <1>3, <1>4, <2>2, ReachedIs
    <2>4. m1 \in Emitted(l) BY <1>1, <1>6, <2>1, <2>3, EmittedSelf, RightEmits
    <2>5. m1 \in Reached(m, A, {}) BY <1>3, <1>4, <2>2, <2>4, ReachedEmitted
    <2> QED BY <1>1, <1>3, <1>4, <2>5, arm_Read
  <1> QED BY <1>5, <1>6

\* The value is compared after its variable has given up its registers.
LEMMA arm_SwitchedRight ==
  ASSUME target = "arm", "arm" \in Targets, NEW a1 \in Vars, NEW k, Going(k, NoVar, {a1, Const}, {}),
         NEW u, u = arm_update_args(k, NoVar, a1, Const), NEW n, u \in Gen /\ u.res = k.res => n \in Emitted(u), Commit(n)
  PROVE  IInv'
  <1>1. Going(u, NoVar, {}, {}) /\ u.res = k.res BY arm_ArgsGoing
  <1>2. u \in States /\ u \in Gen /\ u.pinned = {} BY <1>1, GoingIs DEF States
  <1>3. n \in Emitted(u) BY <1>1, <1>2
  <1>4. n \in Reached(u, {}, {}) BY <1>2, <1>3, ReachedSelf, ReachedEmitted
  <1>5. Going(n, NoVar, {}, {}) BY <1>1, <1>4, GoingReached
  <1> QED BY <1>5, arm_Ends

LEMMA arm_SwitchRight == ASSUME arm_Runs, NEW a1 \in Vars, arm_switch(a1) PROVE IInv'
  <1>1. PICK m, k, p, u, n :
          /\ m \in Marks(NoVar, {a1}, {})
          /\ Enabled("arm", "switch")
          /\ k = arm_InPlace(m, NoVar, a1) /\ p = arm_InPlace2(m, NoVar, a1)
          /\ u = arm_update_args(IF a1 \in Wide THEN p ELSE k, NoVar, a1, Const)
          /\ n = IF a1 \in Wide THEN RightIn2(u, u.res, a1)
                                ELSE Clobber(RightIn(u, u.res.r1, a1, 1), {u.res.r1})
          /\ Commit(n)
    BY DEF arm_switch, arm_Compare, arm_Compare2, RightRes
  <1>2. PICK A : A = {a1} OBVIOUS
  <1>3. A \in SUBSET Vars /\ A \subseteq {a1} /\ a1 \in A /\ {a1} \subseteq {a1, Const} BY <1>2
  <1>4. /\ target = "arm" /\ "arm" \in Targets /\ Going(m, NoVar, {a1}, {}) /\ m \in States /\ m.pinned = {}
        /\ ~ (ArmPool \subseteq m.pinned) /\ Only(m, ArmVars)
    BY <1>1, arm_Begin
  <1>5. CASE a1 \in Wide
    <2>1. p \in Reached(m, A, {})
      <3>1. CASE InReg(m, a1)
        <4>1. p = [m EXCEPT !.res = m.addr[a1]] BY <1>1, <3>1 DEF arm_InPlace2
        <4>2. m \in Gen /\ m.addr[a1] \in Pairs BY <1>4 DEF States, Gen
        <4>3. p \in Picked(m) /\ p.pinned = m.pinned BY <4>1, <4>2 DEF Picked, Gen
        <4>4. p \in After(m, A) BY <1>3, <1>4, <4>3, PickedAfter
        <4> QED BY <1>4, <4>3, <4>4 DEF Reached
      <3>2. CASE ~InReg(m, a1)
        <4>1. p = arm_Loaded2(m, NoVar, a1) BY <1>1, <3>2 DEF arm_InPlace2, arm_Loaded2
        <4> QED BY <1>3, <1>4, <1>5, <4>1, arm_Loaded2Right DEF arm_Runs
      <3> QED BY <3>1, <3>2
    <2>2. Going(p, NoVar, {a1, Const}, {}) BY <1>3, <1>4, <2>1, GoingReached
    <2>3. u \in Gen => n \in Emitted(u) BY <1>1, <1>5, EmittedSelf, RightEmits
    <2> QED BY <1>1, <1>4, <1>5, <2>2, <2>3, arm_SwitchedRight
  <1>6. CASE a1 \notin Wide
    <2>1. k \in Reached(m, A, {}) /\ k.res.r1 \in Regs BY <1>1, <1>3, <1>4, arm_InPlaceRight
    <2>2. Going(k, NoVar, {a1, Const}, {}) BY <1>3, <1>4, <2>1, GoingReached
    <2>3. ASSUME u \in Gen, u.res = k.res PROVE n \in Emitted(u)
      <3>1. {u.res.r1} \in SUBSET Int BY <2>1, <2>3, RegsAre
      <3>2. RightIn(u, u.res.r1, a1, 1) \in Emitted(u) BY <2>3, EmittedSelf, RightEmits
      <3> QED BY <1>1, <1>6, <3>1, <3>2, ClobberEmits
    <2> QED BY <1>1, <1>4, <1>6, <2>2, <2>3, arm_SwitchedRight
  <1> QED BY <1>5, <1>6

\* At the end of a function the descriptors are not reset: they are empty.
LEMMA arm_FunctionEnds == ASSUME arm_Runs, arm_function_definition PROVE IInv'
  <1>1. PICK n : n = [cg EXCEPT !.modified = {}, !.temps = <<>>, !.written = {}] OBVIOUS
  <1>2. Entry(n, {}) /\ LastOfBlock(cg) /\ target = "arm" /\ IInv
    BY <1>1 DEF arm_function_definition, Enabled, arm_Runs
  <1>3. /\ cg \in States /\ cg \in Gen /\ cg.args \in 0 .. MaxArgs + 4 /\ ("assert" \in cg.faults => Misplaced)
        /\ cg.pinned = {} /\ target \in Targets
    BY <1>2, GoingIs DEF IInv, Going, States
  <1>4. <<>> \in Seq(Temps \cup {NoVar}) /\ Len(<<>>) = 0 /\ DOMAIN <<>> = {} OBVIOUS
  <1>5. /\ n \in Gen /\ n.reg = cg.reg /\ n.addr = cg.addr /\ n.pinned = {} /\ n.temps = <<>> /\ n.args = cg.args
        /\ n.faults = cg.faults
    BY <1>1, <1>3, <1>4 DEF Gen
  <1>6. Agree(n) BY <1>3, <1>5 DEF States, Agree
  <1>7. OneSlot(n.temps) BY <1>4, <1>5, TempsFinite DEF OneSlot
  <1>8. n \in States BY <1>5, <1>6, <1>7 DEF States
  <1>9. \A r \in Regs : n.reg[r] = NoVar BY <1>2, <1>5, BlockEnds
  <1>10. \A v \in Vars : v \notin Busy(n) /\ v \notin Owners(n)
    <2>1. \A v \in Vars : v \notin Busy(cg) BY <1>2, BlockEnds
    <2> QED BY <1>4, <1>5, <2>1 DEF Busy, InReg, addr_reg1, Owners, HasSlot
  <1>11. CalleeSave[target] \subseteq Regs BY <1>2, arm_Saves
  <1> QED BY <1>2, <1>3, <1>5, <1>8, <1>9, <1>10, <1>11, EntryKeeps

LEMMA arm_Step == ASSUME arm_Runs, arm_Next PROVE IInv'
  <1>1. /\ Const \notin Vars /\ Wide \subseteq Vars /\ Temps \subseteq Vars /\ Structs \subseteq Vars
        /\ Structs \cap Wide = {} /\ WordTemps \subseteq Vars \ Wide /\ WideTemps \subseteq Wide
        /\ Scalars \subseteq Vars /\ Pointers \subseteq Vars
        /\ \A p \in Ops2 : p[1] \in Vars \cup {Const} /\ p[2] \in Vars \cup {Const}
        /\ \A p \in WideOps : p[1] \in Wide \cup {Const} /\ p[2] \in Wide \cup {Const}
        /\ \A s \in StructKinds : s[1] \in {1, 4} /\ s[2] \in {1, 2}
    BY CGenRegsAssumption DEF WordTemps, WideTemps, Scalars, Pointers, Ops2, WideOps, StructKinds
  <1>2. CASE \E t \in WordTemps, p \in Ops2 :
               arm_div(t, p[1], p[2]) \/ \E imm \in Kinds(p[2]) : arm_alu(t, p[1], p[2], imm)
    BY <1>1, <1>2, arm_AluRight, arm_DivRight
  <1>5. CASE \E t \in WideTemps, p \in WideOps : arm_alu2(t, p[1], p[2]) BY <1>1, <1>5, arm_Alu2Right
  <1>6. CASE \/ \E t \in WordTemps \cup WideTemps, p \in WideOps : arm_do_libcall(t, p[1], p[2])
             \/ \E t \in WideTemps, a \in Wide, c \in Scalars \ Wide : arm_do_libcall(t, a, c)
    BY <1>1, <1>6, arm_LibcallRight
  <1>7. CASE \E p \in Ops2 : \E imm \in Kinds(p[2]) : arm_relop_jump(p[1], p[2], imm)
    BY <1>1, <1>7, arm_RelopJumpRight
  <1>8. CASE \E t \in WordTemps, a \in Scalars : arm_unary(t, a) BY <1>1, <1>8, arm_UnaryRight
  <1>9. CASE \E t \in WideTemps : \/ \E a \in Wide : arm_unary2(t, a)
                                  \/ \E a \in Scalars \ Wide : arm_llx(t, a)
    BY <1>1, <1>9, arm_Unary2Right, arm_LlxRight
  <1>10. CASE \E t \in WordTemps : arm_addr_of(t) BY <1>1, <1>10, arm_AddrOfRight
  <1>11. CASE \/ \E t \in Wide, a \in Wide \cup {Const} : arm_asn(t, a)
              \/ \E t \in Scalars \ Wide, a \in Scalars \cup {Const} : arm_asn(t, a)
              \/ \E t \in Structs, a \in Structs : arm_asn(t, a)
    BY <1>1, <1>11, arm_AsnRight
  <1>12. CASE \E t \in Temps, a \in Pointers : arm_ind(t, a) BY <1>1, <1>12, arm_IndRight
  <1>13. CASE \E a \in Pointers, b \in Vars \cup {Const} : arm_ind_asn(a, b) BY <1>1, <1>13, arm_IndAsnRight
  <1>14. CASE \E t \in Temps \cup {NoVar} : arm_call(t) \/ \E a \in Pointers : arm_indcall(t, a)
    BY <1>1, <1>14, arm_CallRight, arm_IndCallRight
  <1>15. CASE \E a \in Vars : arm_ret(a) \/ \E s \in StructKinds : arm_arg(a, s[1], s[2])
    BY <1>1, <1>15, arm_ArgRight, arm_RetRight
  <1>16. CASE arm_arg_area BY <1>16, arm_ArgAreaRight
  <1>17. CASE \E a \in Scalars : arm_cbr(a) \/ arm_switch(a) BY <1>1, <1>17, arm_CbrRight, arm_SwitchRight
  <1>18. CASE arm_next_block
    <2>1. IInv /\ LastOfBlock(cg) /\ target = "arm" BY <1>18 DEF arm_Runs, arm_next_block, Enabled
    <2>2. CalleeSave[target] \subseteq Regs BY <2>1, arm_Saves
    <2> QED BY <1>18, <2>1, <2>2, NextBlock DEF arm_next_block
  <1>19. CASE arm_function_definition BY <1>19, arm_FunctionEnds
  <1> QED BY <1>2, <1>5, <1>6, <1>7, <1>8, <1>9, <1>10, <1>11, <1>12, <1>13, <1>14, <1>15, <1>16, <1>17,
             <1>18, <1>19 DEF arm_Next

-----------------------------------------------------------------------------
(* mips_cgen.c: stores and spills                                          *)

\* The registers that variables are bound to, and the others.
MipsVars == {2, 3, 24} \cup (8 .. 15)

LEMMA mips_Regs ==
  /\ MipsPool \in SUBSET (Regs \cap MipsVars) /\ MipsPool # {}
  /\ 4 \in Regs \ MipsVars /\ 5 \in Regs \ MipsVars /\ 6 \in Regs \ MipsVars /\ 7 \in Regs \ MipsVars
  /\ Scratch \in Regs \ MipsVars /\ {Scratch} \in SUBSET Int /\ {Scratch, 2} \in SUBSET Int
  /\ 2 \in MipsVars /\ 3 \in MipsVars /\ 2 \in Regs /\ 3 \in Regs /\ MipsCallerSave \in SUBSET Int
  /\ FirstArg = 4
  <1>1. /\ MipsPool \subseteq MipsVars /\ {2, 3} \subseteq MipsPool
        /\ MipsPool \subseteq Regs /\ MipsArgs \subseteq Regs /\ Scratch \in Regs
    BY MipsAssumption DEF MipsVars
  <1>2. Scratch = 25 /\ FirstArg = 4 /\ MipsArgs = 4 .. 7 BY DEF Scratch, FirstArg, MipsArgs
  <1>3. 4 \in MipsArgs /\ 5 \in MipsArgs /\ 6 \in MipsArgs /\ 7 \in MipsArgs BY <1>2
  <1>4. Scratch \notin MipsVars /\ 4 \notin MipsVars /\ 5 \notin MipsVars /\ 6 \notin MipsVars /\ 7 \notin MipsVars
    BY <1>2 DEF MipsVars
  <1>5. MipsCallerSave \subseteq Int BY <1>2 DEF MipsCallerSave
  <1>6. 2 \in MipsVars /\ 3 \in MipsVars BY DEF MipsVars
  <1> QED BY <1>1, <1>2, <1>3, <1>4, <1>5, <1>6

LEMMA mips_StoreStored ==
  ASSUME NEW m \in States, NEW A \in SUBSET Vars, NEW r \in Regs, NEW a \in Vars, a \in Busy(m) \cup A
  PROVE  mips_store(m, r, a) \in Stored(m, A)
  <1>1. CASE a \in Structs \cap Ids
    <2>1. m \in Gen BY DEF States
    <2>2. PICK k : k = [m EXCEPT !.M = Copied(@, PointedBy(m, r), {a})] OBVIOUS
    <2>3. k \in Emitted(m) BY <2>1, <2>2, CopiedEmits
    <2>4. Clobber(k, {Scratch}) \in Emitted(m) BY <2>3, mips_Regs, ClobberEmits
    <2>5. mips_store(m, r, a) = Clobber(k, {Scratch}) BY <1>1, <2>2 DEF mips_store, mips_memcpy
    <2> QED BY <2>4, <2>5, EmittedStored
  <1>2. CASE a \notin Structs \cap Ids BY <1>2, Store1Stored DEF mips_store
  <1> QED BY <1>1, <1>2

LEMMA mips_Store2Stored ==
  ASSUME NEW m \in States, NEW A \in SUBSET Vars, NEW r, r.r1 \in Regs, r.r2 \in Regs,
         NEW a \in Vars, a \in Busy(m) \cup A
  PROVE  mips_store2(m, r, a) \in Stored(m, A)
  BY Store2Stored DEF mips_store2

LEMMA mips_StoreVarStored ==
  ASSUME NEW m \in States, NEW a \in Vars, InReg(m, a) PROVE mips_StoreVar(m, a) \in Stored(m, {})
  <1>1. addr_reg1(m, a) \in Regs /\ a \in Busy(m) BY RegOf
  <1>2. CASE addr_reg2(m, a) # None
    <2>1. m.addr[a].r1 \in Regs /\ m.addr[a].r2 \in Regs BY <1>2, RegOf
    <2>2. mips_store2(m, m.addr[a], a) \in Stored(m, {}) BY <1>1, <2>1, mips_Store2Stored
    <2> QED BY <1>2, <2>2 DEF mips_StoreVar
  <1>3. CASE addr_reg2(m, a) = None
    <2>1. mips_store(m, addr_reg1(m, a), a) \in Stored(m, {}) BY <1>1, mips_StoreStored
    <2> QED BY <1>3, <2>1 DEF mips_StoreVar
  <1> QED BY <1>2, <1>3

LEMMA mips_SpillFewer ==
  ASSUME NEW m \in States, NEW r \in Regs
  PROVE  mips_spill_reg(m, r) \in Fewer(m) /\ reg_isempty(mips_spill_reg(m, r), r)
  <1>1. ~reg_isempty(m, r) => mips_StoreVar(m, m.reg[r]) \in Stored(m, {})
    BY OwnerIs, mips_StoreVarStored DEF reg_isempty
  <1> QED BY <1>1, SpillFewer DEF mips_spill_reg, SpillReg

\* What SpillThese leaves after each register: f is the recursive function it defines.
mips_Loop(f, m, S) ==
  /\ f[-1] = m
  /\ \A r \in 0 .. LastReg :
       f[r] = IF r \in Regs /\ f[r - 1].reg[r] \in S THEN mips_spill_reg(f[r - 1], r) ELSE f[r - 1]

LEMMA mips_Spilling ==
  ASSUME NEW m \in States, NEW S \in SUBSET Vars
  PROVE  \E f : SpillThese(m, S, mips_spill_reg) = f[LastReg] /\ mips_Loop(f, m, S)
  <1> DEFINE F(h) == [r \in -1 .. LastReg |->
                       IF r = -1 THEN m
                       ELSE LET n == h[r - 1]
                            IN  IF r \in Regs /\ n.reg[r] \in S THEN mips_spill_reg(n, r) ELSE n]
             f == CHOOSE h : h = F(h)
  <1>1. CASE \A r \in Regs : m.reg[r] \notin S
    <2>1. SpillThese(m, S, mips_spill_reg) = m BY <1>1 DEF SpillThese
    <2>2. PICK idle : idle = [r \in -1 .. LastReg |-> m] OBVIOUS
    <2>3. idle[LastReg] = m /\ idle[-1] = m BY <2>2, LastRegIs
    <2>4. \A r \in 0 .. LastReg : idle[r] = m /\ idle[r - 1] = m BY <2>2, LastRegIs
    <2>5. mips_Loop(idle, m, S) BY <1>1, <2>3, <2>4 DEF mips_Loop
    <2> QED BY <2>1, <2>3, <2>5
  <1>2. CASE ~ \A r \in Regs : m.reg[r] \notin S
    <2>1. SpillThese(m, S, mips_spill_reg) = f[LastReg] BY <1>2 DEF SpillThese
    <2>2. PICK g : g = [r \in 0 .. LastReg |-> [n \in States |->
                          IF r \in Regs /\ n.reg[r] \in S THEN mips_spill_reg(n, r) ELSE n]]
      OBVIOUS
    <2>3. g \in [0 .. LastReg -> [States -> States]]
      <3>1. \A n \in States, r \in Regs : mips_spill_reg(n, r) \in States BY mips_SpillFewer, FewerIs
      <3> QED BY <2>2, <3>1
    <2>4. PICK h \in [-1 .. LastReg -> States] : h[-1] = m /\ \A r \in 0 .. LastReg : h[r] = g[r][h[r - 1]]
      <3>1. PICK N \in Nat : N = LastReg BY LastRegIs
      <3>2. g \in [0 .. N -> [States -> States]] BY <2>3, <3>1
      <3>3. PICK h : Iterated(h, g, m, N) BY <3>1, <3>2, Iterate
      <3> QED BY <3>1, <3>3 DEF Iterated
    <2>5. h = F(h)
      <3>1. ASSUME NEW r \in -1 .. LastReg PROVE h[r] = F(h)[r]
        <4>1. CASE r = -1 BY <2>4, <4>1
        <4>2. CASE r # -1
          <5>1. r \in 0 .. LastReg /\ r - 1 \in -1 .. LastReg /\ h[r - 1] \in States BY <4>2, <2>4, LastRegIs
          <5> QED BY <4>2, <5>1, <2>2, <2>4
        <4> QED BY <4>1, <4>2
      <3> QED BY <3>1, <2>4
    <2>6. f = F(f) BY <2>5
    <2> HIDE DEF f
    <2>7. f[-1] = m BY <2>6, LastRegIs
    <2>8. \A r \in 0 .. LastReg : f[r] = IF r \in Regs /\ f[r - 1].reg[r] \in S THEN mips_spill_reg(f[r - 1], r) ELSE f[r - 1]
      BY <2>6, LastRegIs
    <2>9. mips_Loop(f, m, S) BY <2>7, <2>8 DEF mips_Loop
    <2> QED BY <2>1, <2>9
  <1> QED BY <1>1, <1>2

LEMMA mips_SpillTheseFewer ==
  ASSUME NEW m \in States, NEW S \in SUBSET Vars
  PROVE  /\ SpillThese(m, S, mips_spill_reg) \in Fewer(m)
         /\ \A r \in Regs : SpillThese(m, S, mips_spill_reg).reg[r] \notin S
  <1>1. PICK f : SpillThese(m, S, mips_spill_reg) = f[LastReg] /\ mips_Loop(f, m, S) BY mips_Spilling
  <1>2. ASSUME NEW r \in 0 .. LastReg, f[r - 1] \in States
        PROVE  f[r] \in Fewer(f[r - 1]) /\ (r \in Regs => f[r].reg[r] \notin S)
    <2>1. f[r] = IF r \in Regs /\ f[r - 1].reg[r] \in S THEN mips_spill_reg(f[r - 1], r) ELSE f[r - 1]
      BY <1>1 DEF mips_Loop
    <2>2. NoVar \notin S BY CGenRegsAssumption
    <2> QED BY <1>2, <2>1, <2>2, mips_SpillFewer, FewerSelf DEF reg_isempty
  <1>3. \A r \in 0 .. LastReg : f[r] \in Fewer(m) /\ \A s \in Regs : s <= r => f[r].reg[s] \notin S
    BY <1>1, <1>2, LoopFewer, LastRegIs DEF mips_Loop
  <1> QED BY <1>1, <1>3, LastRegIs

-----------------------------------------------------------------------------
(* mips_cgen.c: registers and operands                                      *)

LEMMA mips_TakeFewer ==
  ASSUME NEW m \in States, NEW r \in Regs
  PROVE  mips_Take(m, r) \in Fewer(m) /\ mips_Take(m, r).got = r /\ mips_Take(m, r).reg[r] = NoVar
  <1>1. PICK q : q = mips_spill_reg(m, r) OBVIOUS
  <1>2. q \in Fewer(m) /\ q.reg[r] = NoVar /\ q \in States BY <1>1, mips_SpillFewer, FewerIs DEF reg_isempty
  <1>3. PICK n : n = [q EXCEPT !.got = r] OBVIOUS
  <1>4. n \in Picked(q) /\ n.pinned = q.pinned /\ n.res = q.res /\ n.got = r BY <1>2, <1>3, GotPicks
  <1>5. n \in Fewer(q) /\ n.reg = q.reg BY <1>2, <1>4, PickedFewer
  <1>6. n \in Fewer(m) BY <1>2, <1>5, FewerTrans
  <1>7. n = mips_Take(m, r) BY <1>1, <1>3 DEF mips_Take
  <1> QED BY <1>2, <1>4, <1>5, <1>6, <1>7

LEMMA mips_Get0 ==
  ASSUME NEW m \in States, ~ (MipsPool \subseteq m.pinned)
  PROVE  /\ mips_get_reg0(m) \in Fewer(m) /\ mips_get_reg0(m).got \in (Regs \cap MipsVars) \ m.pinned
         /\ mips_get_reg0(m).reg[mips_get_reg0(m).got] = NoVar
  <1>1. MipsPool \in SUBSET (Regs \cap MipsVars) /\ Regs \subseteq Nat BY mips_Regs, RegsAre
  <1>2. PICK S : S = IF EmptyRegs(m, MipsPool) \subseteq m.pinned
                       THEN MipsPool \ m.pinned ELSE EmptyRegs(m, MipsPool) \ m.pinned
    OBVIOUS
  <1>3. S # {} /\ S \in SUBSET Nat /\ S \subseteq (Regs \cap MipsVars) \ m.pinned BY <1>1, <1>2 DEF EmptyRegs
  <1>4. PICK r : r = Min(S) OBVIOUS
  <1>5. r \in (Regs \cap MipsVars) \ m.pinned BY <1>3, <1>4, MinIs
  <1>6. mips_get_reg0(m) = mips_Take(m, r) BY <1>2, <1>4 DEF mips_get_reg0
  <1> QED BY <1>5, <1>6, mips_TakeFewer

LEMMA mips_GetReg ==
  ASSUME NEW m \in States, Only(m, MipsVars), NEW a \in Vars \cup {Const}, NEW live \in BOOLEAN,
         ~ (MipsPool \subseteq m.pinned)
  PROVE  /\ mips_get_reg(m, a, live) \in After(m, {}) /\ mips_get_reg(m, a, live).pinned = m.pinned
         /\ Ready(mips_get_reg(m, a, live), a, live, MipsVars)
         /\ mips_get_reg(m, a, live).res.r1 \in Regs
  <1>1. \A r \in Regs : m.reg[r] # NoVar => r \in MipsVars BY DEF Only
  <1>2. PICK g : g = mips_get_reg0(m) OBVIOUS
  <1>3. g \in Fewer(m) /\ g.got \in Regs \cap MipsVars /\ g.reg[g.got] = NoVar BY <1>2, mips_Get0
  <1>4. PICK n : n = mips_get_reg(m, a, live) OBVIOUS
  <1>5. n = IF InReg(m, a) /\ ~live THEN [m EXCEPT !.res.r1 = addr_reg1(m, a)] ELSE Got1(g)
    BY <1>2, <1>4 DEF mips_get_reg, GetReg
  <1>6. n \in After(m, {}) /\ n.pinned = m.pinned /\ Ready(n, a, live, MipsVars) /\ n.res.r1 \in Regs
    <2>1. CASE InReg(m, a) /\ ~live BY <2>1, <1>1, <1>5, OwnRegRight
    <2>2. CASE ~(InReg(m, a) /\ ~live) BY <2>2, <1>3, <1>5, NewRegRight
    <2> QED BY <2>1, <2>2
  <1> QED BY <1>4, <1>6

LEMMA mips_ArgUpdated ==
  ASSUME NEW m \in States, NEW a \in Vars \cup {Const}, NEW live \in BOOLEAN, NEW next \in BOOLEAN
  PROVE  mips_update_arg_descriptors(m, a, live, next) \in Updated(m, a, live, next)
  <1>1. PICK k : k = Kept(m, a, live, mips_StoreVar) OBVIOUS
  <1>2. PICK n : n = mips_update_arg_descriptors(m, a, live, next) OBVIOUS
  <1>3. n = IF a = Const \/ next THEN m ELSE Release(k, a, m.addr[a])
    BY <1>1, <1>2 DEF mips_update_arg_descriptors, UpdateArg
  <1>4. a \in Vars => k \in Stored(m, {}) /\ (~live => a \notin Owners(k))
    <2>1. CASE live /\ InReg(m, a) BY <1>1, <2>1, mips_StoreVarStored DEF Kept
    <2>2. CASE ~live /\ a \in Temps BY <1>1, <2>2, FreeTempStored DEF Kept
    <2>3. CASE ~(live /\ InReg(m, a)) /\ ~(~live /\ a \in Temps)
      BY <1>1, <2>3, StoredSelf DEF Kept, Owners
    <2> QED BY <2>1, <2>2, <2>3
  <1> QED BY <1>2, <1>3, <1>4, UpdatedRight

LEMMA mips_ArgsRight ==
  ASSUME NEW m, NEW tar, NEW a1 \in Vars \cup {Const}, NEW a2 \in Vars \cup {Const}, NEW P,
         Marked(m, tar, {a1, a2}, P)
  PROVE  mips_update_args(m, tar, a1, a2) \in Settled(m, tar, a1, P)
  <1>1. m \in States BY MarkedIs
  <1>2. PICK n : n = mips_update_arg_descriptors(m, a1, Live1(m, tar, a1), Used1(m, tar, a1)) OBVIOUS
  <1>3. n \in Updated(m, a1, Live1(m, tar, a1), Used1(m, tar, a1)) BY <1>1, <1>2, LiveBoolean, mips_ArgUpdated
  <1>4. n \in States BY <1>1, <1>3, FewerIs DEF Updated
  <1>5. PICK q : q = mips_update_arg_descriptors(n, a2, Live2(m, tar, a1, a2), Used2(m, tar, a1, a2)) OBVIOUS
  <1>6. q \in Updated(n, a2, Live2(m, tar, a1, a2), Used2(m, tar, a1, a2))
    BY <1>4, <1>5, LiveBoolean, mips_ArgUpdated
  <1>7. q = mips_update_args(m, tar, a1, a2) BY <1>2, <1>5 DEF mips_update_args, UpdateArgs
  <1> QED BY <1>3, <1>6, <1>7, ArgsSettled

LEMMA mips_TarRight ==
  ASSUME NEW m, NEW tar \in Vars \ Wide, NEW P, Marked(m, tar, {}, P), m.res.r1 \in Regs \cap P,
         m.reg[m.res.r1] = NoVar
  PROVE  mips_update_tar(m, tar) \in Done(m, P)
  <1>1. PICK r : r = m.res.r1 OBVIOUS
  <1>2. PICK k : k = mips_store(Bind(m, r, tar), r, tar) OBVIOUS
  <1>3. PICK b : b = Bind(m, r, tar) OBVIOUS
  <1>4. b \in States => k \in Stored(b, {tar}) BY <1>1, <1>2, <1>3, mips_StoreStored
  <1>5. mips_update_tar(m, tar)
          = IF Used(m, tar) THEN Bind(m, r, tar) ELSE Unbind(IF Live(m, tar) THEN k ELSE Bind(m, r, tar), r, tar)
    BY <1>1, <1>2 DEF mips_update_tar, mips_update_tar_descriptors, UpdateTar
  <1> QED BY <1>1, <1>3, <1>4, <1>5, TarDone

LEMMA mips_Tar2Right ==
  ASSUME NEW m, NEW tar \in Wide, NEW P, Marked(m, tar, {}, P), m.res.r1 \in Regs \cap P, m.res.r2 \in Regs \cap P,
         m.res.r1 # m.res.r2, m.reg[m.res.r1] = NoVar, m.reg[m.res.r2] = NoVar
  PROVE  mips_update_tar2(m, tar) \in Done(m, P)
  <1>1. PICK d : d = m.res OBVIOUS
  <1>2. d \in Pairs BY <1>1, MarkedIs DEF States, Gen
  <1>3. PICK b : b = Bind2(m, d, tar) OBVIOUS
  <1>4. PICK k : k = mips_store2(b, d, tar) OBVIOUS
  <1>5. tar \in Vars /\ {tar} \in SUBSET Vars /\ d.r1 \in Regs /\ d.r2 \in Regs BY <1>1, CGenRegsAssumption
  <1>6. b \in States => k \in Stored(b, {tar}) BY <1>4, <1>5, mips_Store2Stored
  <1>7. mips_update_tar2(m, tar)
          = IF Used(m, tar) THEN Bind2(m, d, tar) ELSE Release(IF Live(m, tar) THEN k ELSE Bind2(m, d, tar), tar, d)
    BY <1>1, <1>3, <1>4 DEF mips_update_tar2, mips_update_tar_descriptors2, UpdateTar2
  <1> QED BY <1>1, <1>2, <1>3, <1>6, <1>7, Tar2Done

\* Where get_reg() finds a register.
LEMMA mips_GetRegPlace ==
  ASSUME NEW m \in States, NEW a \in Vars \cup {Const}, NEW live \in BOOLEAN, ~ (MipsPool \subseteq m.pinned),
         NEW k, k = mips_get_reg(m, a, live)
  PROVE  IF InReg(m, a) /\ ~live THEN k.res.r1 = addr_reg1(m, a)
                                 ELSE k.reg[k.res.r1] = NoVar /\ k.res.r1 \notin m.pinned
  <1>1. CASE InReg(m, a) /\ ~live
    <2>1. PICK r \in Regs : r = addr_reg1(m, a) BY <1>1, RegOf
    <2>2. [m EXCEPT !.res.r1 = r].res.r1 = r BY Res1Picks
    <2>3. k = [m EXCEPT !.res.r1 = r] BY <1>1, <2>1 DEF mips_get_reg, GetReg
    <2> QED BY <1>1, <2>1, <2>2, <2>3
  <1>2. CASE ~(InReg(m, a) /\ ~live)
    <2>1. PICK g : g = mips_get_reg0(m) OBVIOUS
    <2>2. g \in Fewer(m) /\ g.got \in Regs \cap MipsVars /\ g.got \notin m.pinned /\ g.reg[g.got] = NoVar
      BY <2>1, mips_Get0
    <2>3. Got1(g).res.r1 = g.got /\ Got1(g).reg = g.reg BY <2>2, NewRegRight
    <2>4. k = Got1(g) BY <1>2, <2>1 DEF mips_get_reg, GetReg
    <2> QED BY <1>2, <2>2, <2>3, <2>4
  <1> QED BY <1>1, <1>2

\* A pair of registers, at most three others being pinned.
LEMMA mips_GetPair ==
  ASSUME NEW m \in States, Only(m, MipsVars), NEW a \in Vars \cup {Const}, NEW live \in BOOLEAN, Roomy4(MipsPool),
         NEW p1 \in Regs, NEW p2 \in Regs, NEW p3 \in Regs, m.pinned \subseteq {p1, p2, p3},
         NEW n, n = GetReg2(m, a, live, mips_get_reg0)
  PROVE  /\ n \in After(m, {}) /\ n.pinned = m.pinned \ {n.res.r1} /\ Ready2(n, a, live, MipsVars)
         /\ a \in Wide /\ InReg(n, a) => PairExpected(n.addr[a], n.res, a)
         /\ a = Const => n.res.r1 \notin m.pinned
  <1>1. ~ (MipsPool \subseteq m.pinned)
    <2>1. ~ (MipsPool \subseteq {p1, p1, p2, p3}) BY DEF Roomy4
    <2> QED BY <2>1
  <1>2. PICK k : k = mips_get_reg(m, a, live) OBVIOUS
  <1>3. k \in After(m, {}) /\ k.pinned = m.pinned /\ Ready(k, a, live, MipsVars) /\ k.res.r1 \in Regs
    BY <1>1, <1>2, mips_GetReg
  <1>4. IF InReg(m, a) /\ ~live THEN k.res.r1 = addr_reg1(m, a)
                                ELSE k.reg[k.res.r1] = NoVar /\ k.res.r1 \notin m.pinned
    BY <1>1, <1>2, mips_GetRegPlace
  <1>5. k \in States BY <1>3, AfterIs
  <1>6. PICK p : p = PinRes(k) OBVIOUS
  <1>7. PICK s : s = k.res.r1 OBVIOUS
  <1>8. p \in States /\ p.pinned \subseteq {p1, p2, p3, s}
    <2>1. p = pin_reg(k, s) BY <1>6, <1>7 DEF PinRes
    <2>2. pin_reg(k, s) \in Picked(k) /\ pin_reg(k, s).pinned = k.pinned \cup {s} BY <1>3, <1>5, <1>7, PinPicks
    <2>3. p \in States BY <1>5, <2>1, <2>2, PickedAfter
    <2> QED BY <1>3, <2>1, <2>2, <2>3
  <1>9. ~ (MipsPool \subseteq p.pinned)
    <2>1. ~ (MipsPool \subseteq {p1, p2, p3, s}) BY <1>3, <1>7 DEF Roomy4
    <2> QED BY <1>8, <2>1
  <1>10. PICK g : g = mips_get_reg0(p) OBVIOUS
  <1>11. g \in Fewer(p) /\ g.got \in (Regs \cap MipsVars) \ p.pinned /\ g.reg[g.got] = NoVar
    BY <1>8, <1>9, <1>10, mips_Get0
  <1>13. PICK h : h = SecondOf(p, a, live, g) OBVIOUS
  <1>14. n = UnpinRes(h) BY <1>2, <1>6, <1>10, <1>13 DEF GetReg2, HighReg, mips_get_reg, SecondOf, OwnSecond
  <1>15. \A t \in Regs : m.reg[t] # NoVar => t \in MipsVars BY DEF Only
  <1>18. FirstOf(m, k, a, live) BY <1>4 DEF FirstOf
  <1>16. /\ n \in After(m, {}) /\ n.pinned = m.pinned \ {n.res.r1} /\ n.res.r1 = k.res.r1
         /\ Ready2(n, a, live, MipsVars)
         /\ a \in Wide /\ InReg(n, a) => PairExpected(n.addr[a], n.res, a)
    BY <1>3, <1>6, <1>11, <1>13, <1>14, <1>15, <1>18, PairReady
  <1>17. a = Const => ~InReg(m, a) BY DEF InReg
  <1> QED BY <1>4, <1>16, <1>17

LEMMA mips_GetReg2 ==
  ASSUME NEW m \in States, Only(m, MipsVars), NEW a \in Vars \cup {Const}, NEW live \in BOOLEAN, Roomy4(MipsPool),
         m.pinned = {}, NEW n, n = mips_get_reg2(m, a, live)
  PROVE  /\ n \in After(m, {}) /\ n.pinned = {} /\ Ready2(n, a, live, MipsVars)
         /\ a \in Wide /\ InReg(n, a) => PairExpected(n.addr[a], n.res, a)
  <1>1. m.pinned \subseteq {2, 2, 2} /\ 2 \in Regs BY mips_Regs
  <1>2. n = GetReg2(m, a, live, mips_get_reg0) BY DEF mips_get_reg2
  <1>3. n.pinned = m.pinned \ {n.res.r1} /\ m.pinned \ {n.res.r1} = {} BY <1>1, <1>2, mips_GetPair
  <1> QED BY <1>1, <1>2, <1>3, mips_GetPair

\* load2() to a pair, and to one that no variable is in.
LEMMA mips_LoadedPair ==
  ASSUME NEW k \in States, NEW A \in SUBSET Vars, NEW r, r.r1 \in Regs, r.r2 \in Regs, NEW a,
         a \in A \cup {Const}, a \in Wide \cup {Const}, InReg(k, a) => PairExpected(k.addr[a], r, a)
  PROVE  mips_load2(k, r, a) \in Stored(k, A) /\ RightIn2(mips_load2(k, r, a), r, a) \in Stored(k, A)
  BY Load2Stored, LoadedPair DEF mips_load2

LEMMA mips_LoadArg2Still ==
  ASSUME NEW m \in States, Only(m, MipsVars), NEW A \in SUBSET Vars, NEW n \in Still(m, A),
         NEW r1 \in Regs \ MipsVars, NEW r2 \in Regs \ MipsVars,
         NEW a \in A \cup {Const}, a \in Wide \cup {Const}
  PROVE  mips_LoadArg2(n, Pair(r1, r2), a) \in Still(m, A)
  <1>1. n \in States /\ n \in After(m, A) BY StillIs
  <1>2. Only(n, MipsVars) BY <1>1, OnlyKept
  <1>3. PICK d : d = Pair(r1, r2) OBVIOUS
  <1>4. d.r1 = r1 /\ d.r2 = r2 BY <1>3 DEF Pair
  <1>5. ASSUME InReg(n, a) PROVE PairExpected(n.addr[a], d, a)
    <2>1. /\ a \in Vars /\ n.addr[a].r1 \in Regs /\ n.reg[n.addr[a].r1] = a /\ n.addr[a].r2 # None
          /\ n.addr[a].r2 \in Regs /\ n.reg[n.addr[a].r2] = a
      <3>1. a \in Vars \cup {Const} /\ (a \in Wide) BY <1>5 DEF InReg
      <3> QED BY <1>1, <1>5, <3>1, RegOf
    <2>2. a # NoVar BY <2>1, CGenRegsAssumption
    <2>3. n.addr[a].r1 \in MipsVars /\ n.addr[a].r2 \in MipsVars BY <1>2, <2>1, <2>2 DEF Only
    <2> QED BY <1>4, <2>1, <2>3 DEF PairExpected
  <1>6. mips_LoadArg2(n, d, a) \in Stored(n, A) BY <1>1, <1>4, <1>5, mips_LoadedPair DEF mips_LoadArg2
  <1> QED BY <1>3, <1>6, StillThenStored

\* The first operand is in the pair n.res.
LEMMA mips_Loaded2Right ==
  ASSUME NEW n \in States, Only(n, MipsVars), NEW A \in SUBSET Vars, NEW tar,
         NEW a1 \in A \cup {Const}, a1 \in Wide \cup {Const}, n.pinned = {}, Roomy4(MipsPool)
  PROVE  /\ mips_Loaded2(n, tar, a1) \in Reached(n, A, {})
         /\ Ready2(mips_Loaded2(n, tar, a1), a1, Live1(n, tar, a1), MipsVars)
  <1>1. PICK live : live = Live1(n, tar, a1) OBVIOUS
  <1>2. PICK k : k = mips_get_reg2(n, a1, live) OBVIOUS
  <1>3. live \in BOOLEAN BY <1>1, LiveBoolean
  <1>4. /\ k \in After(n, {}) /\ k.pinned = {} /\ Ready2(k, a1, live, MipsVars)
        /\ a1 \in Wide /\ InReg(k, a1) => PairExpected(k.addr[a1], k.res, a1)
    BY <1>2, <1>3, mips_GetReg2
  <1>5. k \in States /\ k.pinned = {} /\ k.res.r1 \in Regs /\ k.res.r2 \in Regs
    BY <1>4, AfterIs DEF Ready2, Ready, Free
  <1>6. k \in After(n, A) BY <1>4, AfterMore
  <1>7. PICK q : q = RightIn2(mips_load2(k, k.res, a1), k.res, a1) OBVIOUS
  <1>8. q \in Stored(k, A)
    <2>1. InReg(k, a1) => a1 \in Wide BY DEF InReg
    <2> QED BY <1>4, <1>5, <1>7, <2>1, mips_LoadedPair
  <1>9. q \in After(k, A) /\ q.res = k.res /\ q.pinned = k.pinned BY <1>8, StoredIs
  <1>10. Ready2(q, a1, live, MipsVars) BY <1>4, <1>5, <1>9, FreeKept
  <1>11. q \in Reached(n, A, {}) BY <1>5, <1>6, <1>9, AfterTrans DEF Reached
  <1>12. q = mips_Loaded2(n, tar, a1) BY <1>1, <1>2, <1>7 DEF mips_Loaded2, mips_LoadRes2
  <1> QED BY <1>1, <1>10, <1>11, <1>12

\* The low word is in the first register of a pair.
LEMMA mips_LoadedLowRight ==
  ASSUME NEW n \in States, Only(n, MipsVars), NEW A \in SUBSET Vars, NEW tar,
         NEW a1 \in A \cup {Const}, n.pinned = {}, Roomy4(MipsPool)
  PROVE  /\ mips_LoadedLow(n, tar, a1) \in Reached(n, A, {})
         /\ Ready2(mips_LoadedLow(n, tar, a1), a1, Live1(n, tar, a1), MipsVars)
  <1>1. PICK live : live = Live1(n, tar, a1) OBVIOUS
  <1>2. PICK k : k = mips_get_reg2(n, a1, live) OBVIOUS
  <1>3. live \in BOOLEAN BY <1>1, LiveBoolean
  <1>4. k \in After(n, {}) /\ k.pinned = {} /\ Ready2(k, a1, live, MipsVars)
    BY <1>2, <1>3, mips_GetReg2
  <1>5. k \in States /\ k.pinned = {} /\ k.res.r1 \in Regs /\ k.res.r2 \in Regs
    BY <1>4, AfterIs DEF Ready2, Ready, Free
  <1>6. k \in After(n, A) BY <1>4, AfterMore
  <1>7. PICK q : q = Load(k, k.res.r1, a1) OBVIOUS
  <1>8. q \in Stored(k, A) BY <1>5, <1>7, LoadStored
  <1>9. q \in After(k, A) /\ q.res = k.res /\ q.pinned = k.pinned BY <1>8, StoredIs
  <1>10. Ready2(q, a1, live, MipsVars) BY <1>4, <1>5, <1>9, FreeKept
  <1>11. q \in Reached(n, A, {}) BY <1>5, <1>6, <1>9, AfterTrans DEF Reached
  <1>12. q = mips_LoadedLow(n, tar, a1) BY <1>1, <1>2, <1>7 DEF mips_LoadedLow, mips_LoadRes, mips_load
  <1> QED BY <1>1, <1>10, <1>11, <1>12

\* An operand is a constant, in its register or loaded to one.
LEMMA mips_LoadGotStill ==
  ASSUME NEW n \in States, NEW A \in SUBSET Vars, NEW a \in A \cup {Const}, ~ (MipsPool \subseteq n.pinned)
  PROVE  InGot(mips_LoadGot(mips_get_reg0(n), a)) \in Still(n, A)
  <1>1. mips_get_reg0(n) \in Fewer(n) /\ mips_get_reg0(n).got \in Regs BY mips_Get0
  <1>2. InGot(Load(mips_get_reg0(n), mips_get_reg0(n).got, a)) \in Still(n, A) BY <1>1, InGotStill
  <1> QED BY <1>2 DEF mips_LoadGot, mips_load

LEMMA mips_OperandStill ==
  ASSUME NEW m \in States, NEW A \in SUBSET Vars, NEW a \in A \cup {Const}, NEW imm, ~ (MipsPool \subseteq m.pinned)
  PROVE  mips_get_operand(m, a, imm) \in Still(m, A)
  <1>1. CASE a = Const /\ imm BY <1>1, ConstStored, StoredStill DEF mips_get_operand
  <1>2. CASE ~(a = Const /\ imm) /\ InReg(m, a)
    <2>1. addr_reg1(m, a) \in Regs BY <1>2, RegOf
    <2> QED BY <1>2, <2>1, InRegStored, StoredStill DEF mips_get_operand
  <1>3. CASE ~(a = Const /\ imm) /\ ~InReg(m, a) BY <1>3, mips_LoadGotStill DEF mips_get_operand
  <1> QED BY <1>1, <1>2, <1>3

LEMMA mips_OperandRightStill ==
  ASSUME NEW m \in States, NEW A \in SUBSET Vars, NEW n \in Still(m, A), NEW a \in A \cup {Const}, NEW imm,
         ~ (MipsPool \subseteq m.pinned)
  PROVE  RightOpd(mips_get_operand(n, a, imm), a, 1) \in Still(m, A)
  <1>1. n \in States /\ n.pinned = m.pinned BY StillIs
  <1>2. PICK o : o = mips_get_operand(n, a, imm) OBVIOUS
  <1>3. o \in Still(n, A) BY <1>1, <1>2, mips_OperandStill
  <1>4. o \in Gen BY <1>1, <1>3, StillIs DEF States
  <1>5. RightOpd(o, a, 1) \in Emitted(o) BY <1>4, EmittedSelf, RightEmits
  <1>6. o \in Still(m, A) BY <1>3, StillTrans
  <1>7. RightOpd(o, a, 1) \in Still(m, A) BY <1>5, <1>6, StillThenEmitted
  <1> QED BY <1>2, <1>7

\* The operand is in a pair of its own, or in one that get_reg2() has just emptied.
LEMMA mips_Operand2Still ==
  ASSUME NEW n \in States, Only(n, MipsVars), NEW A \in SUBSET Vars, NEW a \in A \cup {Const},
         a \in Wide \cup {Const}, Roomy4(MipsPool), NEW p1 \in Regs, NEW p2 \in Regs,
         NEW p3 \in Regs, n.pinned \subseteq {p1, p2, p3}
  PROVE  mips_get_operand2(n, a) \in Still(n, A)
  <1>1. CASE InReg(n, a)
    <2>1. n.addr[a] \in Pairs /\ addr_reg2(n, a) # None
      <3>1. a \in Wide BY <1>1 DEF InReg
      <3> QED BY <1>1, <3>1, RegOf
    <2>2. Operand(n, n.addr[a]) \in Emitted(n) BY <2>1, EmittedSelf, OperandEmits DEF States
    <2>3. mips_get_operand2(n, a) = Operand(n, n.addr[a]) BY <1>1, <2>1 DEF mips_get_operand2, Fault
    <2> QED BY <2>2, <2>3, EmittedStill
  <1>2. CASE ~InReg(n, a)
    <2>1. PICK g : g = GetReg2(n, Const, TRUE, mips_get_reg0) OBVIOUS
    <2>2. /\ g \in After(n, {}) /\ g.pinned = n.pinned \ {g.res.r1} /\ Ready2(g, Const, TRUE, MipsVars)
          /\ g.res.r1 \notin n.pinned
      BY <2>1, mips_GetPair
    <2>3. g \in States /\ g.pinned = n.pinned /\ g.res.r1 \in Regs /\ g.res.r2 \in Regs
      BY <2>2, AfterIs DEF Ready2, Ready, Free
    <2>4. ~InReg(g, a)
      <3>1. a \in Vars => g.addr[a] \in {n.addr[a], NoReg} BY <2>2, AfterIs
      <3>2. a = Const => ~InReg(g, a) BY DEF InReg
      <3> QED BY <1>2, <3>1, <3>2 DEF InReg, addr_reg1, NoReg
    <2>5. PICK q : q = mips_load2(g, g.res, a) OBVIOUS
    <2>6. q \in Stored(g, A) BY <2>3, <2>4, <2>5, mips_LoadedPair
    <2>7. q \in After(g, A) /\ q.pinned = g.pinned /\ q \in States /\ q \in Gen BY <2>3, <2>6, StoredIs
    <2>8. g \in After(n, A) BY <2>2, AfterMore
    <2>9. q \in After(n, A) BY <2>7, <2>8, AfterTrans
    <2>10. PICK o : o = Operand(q, g.res) OBVIOUS
    <2>11. n.res \in Pairs /\ g.res \in Pairs BY <2>3 DEF States, Gen
    <2>12. o \in Emitted(q) BY <2>7, <2>10, <2>11, EmittedSelf, OperandEmits
    <2>13. o \in Still(q, A) BY <2>7, <2>12, EmittedStill
    <2>14. o \in After(q, A) /\ o \in States /\ o.pinned = q.pinned BY <2>7, <2>13, StillIs
    <2>15. PICK w : w = [o EXCEPT !.res = n.res] OBVIOUS
    <2>16. w \in Picked(o) /\ w.pinned = o.pinned /\ w.res = n.res BY <2>11, <2>14, <2>15, ResPicks
    <2>17. w \in After(o, A) BY <2>14, <2>16, PickedAfter
    <2>18. w \in After(n, A) BY <2>9, <2>14, <2>17, AfterTrans
    <2>19. mips_get_operand2(n, a) = w
      BY <1>2, <2>1, <2>5, <2>10, <2>15 DEF mips_get_operand2, mips_LoadPair, Operand
    <2> QED BY <2>3, <2>7, <2>14, <2>16, <2>18, <2>19 DEF Still
  <1> QED BY <1>1, <1>2

LEMMA mips_LoadedRight ==
  ASSUME NEW n \in States, Only(n, MipsVars), NEW A \in SUBSET Vars, NEW tar,
         NEW a1 \in A \cup {Const}, ~ (MipsPool \subseteq n.pinned)
  PROVE  /\ mips_Loaded(n, tar, a1) \in Reached(n, A, n.pinned)
         /\ mips_Loaded(n, tar, a1).res.r1 \in Regs \cap MipsVars
         /\ Ready(mips_Loaded(n, tar, a1), a1, Live1(n, tar, a1), MipsVars)
  <1>1. PICK live : live = Live1(n, tar, a1) OBVIOUS
  <1>2. PICK k : k = mips_get_reg(n, a1, live) OBVIOUS
  <1>3. live \in BOOLEAN BY <1>1, LiveBoolean
  <1>4. k \in After(n, {}) /\ k.pinned = n.pinned /\ Ready(k, a1, live, MipsVars) /\ k.res.r1 \in Regs
    BY <1>2, <1>3, mips_GetReg
  <1>5. k \in States BY <1>4, AfterIs
  <1>13. k.res.r1 \in Regs \cap MipsVars BY <1>4 DEF Ready
  <1>6. k \in After(n, A) BY <1>4, AfterMore
  <1>7. PICK q : q = Load(k, k.res.r1, a1) OBVIOUS
  <1>8. q \in Stored(k, A) BY <1>4, <1>5, <1>7, LoadStored
  <1>9. q \in After(k, A) /\ q.res = k.res /\ q.pinned = k.pinned BY <1>8, StoredIs
  <1>10. Ready(q, a1, live, MipsVars) BY <1>4, <1>5, <1>9, FreeKept
  <1>11. q \in Reached(n, A, n.pinned) BY <1>4, <1>6, <1>9, AfterTrans DEF Reached
  <1>12. q = mips_Loaded(n, tar, a1) BY <1>1, <1>2, <1>7 DEF mips_Loaded, mips_LoadRes, mips_load
  <1> QED BY <1>1, <1>9, <1>10, <1>11, <1>12, <1>13

LEMMA mips_InPlaceRight ==
  ASSUME NEW n \in States, Only(n, MipsVars), NEW A \in SUBSET Vars, NEW tar,
         NEW a1 \in A \cup {Const}, ~ (MipsPool \subseteq n.pinned)
  PROVE  /\ mips_InPlace(n, tar, a1) \in Reached(n, A, n.pinned)
         /\ mips_InPlace(n, tar, a1).res.r1 \in Regs
  <1>1. CASE InReg(n, a1)
    <2>1. addr_reg1(n, a1) \in Regs BY <1>1, RegOf
    <2>2. n \in Reached(n, A, n.pinned) BY ReachedSelf
    <2> QED BY <1>1, <2>1, <2>2, ReachedInto DEF mips_InPlace
  <1>2. CASE ~InReg(n, a1)
    <2>1. mips_InPlace(n, tar, a1) = mips_Loaded(n, tar, a1) BY <1>2 DEF mips_InPlace, mips_Loaded
    <2> QED BY <2>1, mips_LoadedRight
  <1> QED BY <1>1, <1>2

LEMMA mips_OnOperandsStill ==
  ASSUME NEW n \in States, NEW A \in SUBSET Vars, n.pinned = {}, n.res.r1 \in Regs, NEW a1, NEW imm,
         NEW a2 \in A \cup {Const}, Roomy4(MipsPool)
  PROVE  mips_OnOperands(n, a1, a2, imm) \in Still(n, A)
  <1>1. PICK r : r = n.res.r1 OBVIOUS
  <1>2. ~ (MipsPool \subseteq {r})
    <2>1. ~ (MipsPool \subseteq {r, r, r, r}) BY <1>1 DEF Roomy4
    <2> QED BY <2>1
  <1>3. n \in Reached(n, A, {}) BY ReachedSelf
  <1>4. PICK p : p = PinRes(n) OBVIOUS
  <1>5. p \in Reached(n, A, {r}) /\ p.res = n.res
    <2>1. pin_reg(n, r) \in Reached(n, A, {} \cup {r}) /\ pin_reg(n, r).res = n.res BY <1>1, <1>3, ReachedPin
    <2>2. {} \cup {r} = {r} OBVIOUS
    <2> QED BY <1>1, <1>4, <2>1, <2>2 DEF PinRes
  <1>6. p \in States /\ p.pinned = {r} BY <1>5, ReachedState
  <1>7. PICK k : k = RightOpd(mips_get_operand(p, a2, imm), a2, 1) OBVIOUS
  <1>8. k \in Still(p, A)
    <2>1. p \in Still(p, A) BY <1>6, StillSelf
    <2> QED BY <1>2, <1>6, <1>7, <2>1, mips_OperandRightStill
  <1>9. k \in Reached(n, A, {r}) /\ k.res = p.res BY <1>5, <1>8, ReachedStill
  <1>16. k \in Gen BY <1>6, <1>8, StillIs DEF States
  <1>10. PICK q : q = RightRes(k, a1) OBVIOUS
  <1>11. q \in Emitted(k) BY <1>10, <1>16, EmittedSelf, RightEmits
  <1>12. q \in Reached(n, A, {r}) /\ q.res = k.res BY <1>9, <1>11, ReachedEmitted
  <1>13. unpin_reg(q, r) \in Reached(n, A, {r} \ {r}) /\ unpin_reg(q, r).res = q.res BY <1>12, ReachedUnpin
  <1>14. {r} \ {r} = {} OBVIOUS
  <1>15. mips_OnOperands(n, a1, a2, imm) = unpin_reg(q, r)
    BY <1>1, <1>4, <1>5, <1>7, <1>9, <1>10, <1>12 DEF mips_OnOperands, UnpinRes
  <1> QED BY <1>5, <1>9, <1>12, <1>13, <1>14, <1>15 DEF Reached, Still

-----------------------------------------------------------------------------
(* mips_cgen.c: the ends of the handlers                                    *)

LEMMA mips_Saves == target = "mips" => Usable[target] = MipsVars /\ CalleeSave[target] \subseteq Regs
  BY DEF Usable, CalleeSave, MipsVars

\* The target is set.
LEMMA mips_Sets ==
  ASSUME target = "mips", "mips" \in Targets, NEW tar \in Vars \ Wide, NEW n, Going(n, tar, {}, {}),
         n.res.r1 \in Regs \cap MipsVars, n.reg[n.res.r1] = NoVar, Commit(mips_update_tar(n, tar))
  PROVE  IInv'
  <1>1. Usable[target] = MipsVars /\ CalleeSave[target] \subseteq Regs BY mips_Saves
  <1>2. PICK q : q = mips_update_tar(n, tar) OBVIOUS
  <1>3. q \in Done(n, MipsVars) BY <1>1, <1>2, GoingIs, mips_TarRight
  <1>4. Going(q, NoVar, {}, {}) BY <1>1, <1>3, GoingDone
  <1> QED BY <1>1, <1>2, <1>4, Finish

LEMMA mips_Sets2 ==
  ASSUME target = "mips", "mips" \in Targets, NEW tar \in Wide, NEW n, Going(n, tar, {}, {}),
         n.res.r1 \in Regs \cap MipsVars, n.res.r2 \in Regs \cap MipsVars, n.res.r1 # n.res.r2,
         n.reg[n.res.r1] = NoVar, n.reg[n.res.r2] = NoVar, Commit(mips_update_tar2(n, tar))
  PROVE  IInv'
  <1>1. Usable[target] = MipsVars /\ CalleeSave[target] \subseteq Regs BY mips_Saves
  <1>2. PICK q : q = mips_update_tar2(n, tar) OBVIOUS
  <1>3. q \in Done(n, MipsVars) BY <1>1, <1>2, GoingIs, mips_Tar2Right
  <1>4. Going(q, NoVar, {}, {}) BY <1>1, <1>3, GoingDone
  <1> QED BY <1>1, <1>2, <1>4, Finish

\* Nothing is set, or it has been.
LEMMA mips_Ends ==
  ASSUME target = "mips", "mips" \in Targets, NEW n, Going(n, NoVar, {}, {}), Commit(n) PROVE IInv'
  <1>1. CalleeSave[target] \subseteq Regs BY mips_Saves
  <1> QED BY <1>1, Finish

LEMMA mips_ArgsGoing ==
  ASSUME target = "mips", NEW n, NEW tar, NEW a1 \in Vars \cup {Const}, NEW a2 \in Vars \cup {Const}, NEW pins,
         Going(n, tar, {a1, a2}, pins)
  PROVE  /\ Going(mips_update_args(n, tar, a1, a2), tar, {}, pins)
         /\ mips_update_args(n, tar, a1, a2).res = n.res
         /\ mips_update_args(n, tar, a1, a2) \in Settled(n, tar, a1, MipsVars)
  <1>1. Usable[target] = MipsVars BY mips_Saves
  <1>2. n \in States /\ Marked(n, tar, {a1, a2}, MipsVars) BY <1>1, GoingIs
  <1>3. PICK q : q = mips_update_args(n, tar, a1, a2) OBVIOUS
  <1>4. q \in Settled(n, tar, a1, MipsVars) BY <1>2, <1>3, mips_ArgsRight
  <1>5. q.res = n.res BY <1>2, <1>4, FewerIs DEF Settled
  <1> QED BY <1>1, <1>3, <1>4, <1>5, GoingSettled

LEMMA mips_ArgsFree ==
  ASSUME target = "mips", NEW n, NEW tar, NEW a1 \in Vars \cup {Const}, NEW a2 \in Vars \cup {Const}, NEW pins,
         Going(n, tar, {a1, a2}, pins), NEW r \in Regs, n.reg[r] = NoVar \/ Free(n, r, a1, Live1(n, tar, a1))
  PROVE  mips_update_args(n, tar, a1, a2).reg[r] = NoVar
  <1>1. Free(n, r, a1, Live1(n, tar, a1)) BY DEF Free
  <1>2. mips_update_args(n, tar, a1, a2) \in Settled(n, tar, a1, MipsVars) BY mips_ArgsGoing
  <1> QED BY <1>1, <1>2 DEF Settled

\* The result is in n.res; the registers of a1 may be taken for it.
LEMMA mips_Defines ==
  ASSUME target = "mips", "mips" \in Targets, NEW tar \in Vars \ Wide,
         NEW a1 \in Vars \cup {Const}, NEW a2 \in Vars \cup {Const}, NEW n, Going(n, tar, {a1, a2}, {}),
         Ready(n, a1, Live1(n, tar, a1), MipsVars), Commit(mips_UPDATE_ADDRESSES(n, tar, a1, a2))
  PROVE  IInv'
  <1>1. Going(mips_update_args(n, tar, a1, a2), tar, {}, {}) /\ mips_update_args(n, tar, a1, a2).res = n.res
    BY mips_ArgsGoing
  <1>2. n.res.r1 \in Regs \cap MipsVars /\ Free(n, n.res.r1, a1, Live1(n, tar, a1)) BY DEF Ready, Free
  <1>3. mips_update_args(n, tar, a1, a2).reg[n.res.r1] = NoVar BY <1>2, mips_ArgsFree
  <1> QED BY <1>1, <1>2, <1>3, mips_Sets DEF mips_UPDATE_ADDRESSES

LEMMA mips_Defines2 ==
  ASSUME target = "mips", "mips" \in Targets, NEW tar \in Wide,
         NEW a1 \in Vars \cup {Const}, NEW a2 \in Vars \cup {Const}, NEW n, Going(n, tar, {a1, a2}, {}),
         Ready2(n, a1, Live1(n, tar, a1), MipsVars), Commit(mips_UPDATE_ADDRESSES2(n, tar, a1, a2))
  PROVE  IInv'
  <1>1. Going(mips_update_args(n, tar, a1, a2), tar, {}, {}) /\ mips_update_args(n, tar, a1, a2).res = n.res
    BY mips_ArgsGoing
  <1>2. /\ n.res.r1 \in Regs \cap MipsVars /\ n.res.r2 \in Regs \cap MipsVars /\ n.res.r1 # n.res.r2
        /\ Free(n, n.res.r1, a1, Live1(n, tar, a1)) /\ Free(n, n.res.r2, a1, Live1(n, tar, a1))
    BY DEF Ready2, Ready, Free
  <1>3. mips_update_args(n, tar, a1, a2).reg[n.res.r1] = NoVar
    <2>1. PICK r : r = n.res.r1 OBVIOUS
    <2>2. r \in Regs \cap MipsVars /\ Free(n, r, a1, Live1(n, tar, a1)) BY <1>2, <2>1
    <2>3. mips_update_args(n, tar, a1, a2).reg[r] = NoVar BY <2>2, mips_ArgsFree
    <2> QED BY <2>1, <2>3
  <1>4. mips_update_args(n, tar, a1, a2).reg[n.res.r2] = NoVar
    <2>1. PICK r : r = n.res.r2 OBVIOUS
    <2>2. r \in Regs \cap MipsVars /\ Free(n, r, a1, Live1(n, tar, a1)) BY <1>2, <2>1
    <2>3. mips_update_args(n, tar, a1, a2).reg[r] = NoVar BY <2>2, mips_ArgsFree
    <2> QED BY <2>1, <2>3
  <1> QED BY <1>1, <1>2, <1>3, <1>4, mips_Sets2 DEF mips_UPDATE_ADDRESSES2

LEMMA mips_Uses ==
  ASSUME target = "mips", "mips" \in Targets, NEW a1 \in Vars \cup {Const}, NEW a2 \in Vars \cup {Const}, NEW n,
         Going(n, NoVar, {a1, a2}, {}), Commit(mips_update_args(n, NoVar, a1, a2))
  PROVE  IInv'
  BY mips_ArgsGoing, mips_Ends

-----------------------------------------------------------------------------
(* mips_cgen.c: the handlers                                                *)

\* What the lemmas on the handlers assume.
mips_Runs == IInv /\ Roomy4(MipsPool)

LEMMA mips_Begin ==
  ASSUME mips_Runs, NEW h, Enabled("mips", h), NEW tar, NEW args, NEW implicit, implicit \subseteq Crossing,
         NEW m \in Marks(tar, args, implicit)
  PROVE  /\ target = "mips" /\ "mips" \in Targets /\ Going(m, tar, args, {}) /\ m.args = arg_words
         /\ m \in States /\ m.pinned = {} /\ ~ (MipsPool \subseteq {}) /\ ~ (MipsPool \subseteq m.pinned)
         /\ Only(m, MipsVars)
  <1>1. target = "mips" /\ "mips" \in Targets BY DEF Enabled, mips_Runs, IInv
  <1>2. Going(m, tar, args, {}) /\ m.args = arg_words BY Begin DEF mips_Runs
  <1>3. m \in States /\ m.pinned = {} /\ Marked(m, tar, args, MipsVars) BY <1>1, <1>2, GoingIs, mips_Saves
  <1>4. Only(m, MipsVars) BY <1>3 DEF Marked, Only
  <1> QED BY <1>1, <1>2, <1>3, <1>4, mips_Regs

\* The operands are in m, the instruction has been emitted in n.
LEMMA mips_Result ==
  ASSUME target = "mips", "mips" \in Targets, NEW tar \in Vars \ Wide, NEW a1 \in Vars \cup {Const},
         NEW a2 \in Vars \cup {Const}, NEW args, args \subseteq {a1, a2}, NEW m, Going(m, tar, args, {}),
         NEW A \in SUBSET Vars, A \subseteq args, NEW n \in Reached(m, A, {}),
         Ready(n, a1, Live1(m, tar, a1), MipsVars), Commit(mips_UPDATE_ADDRESSES(n, tar, a1, a2))
  PROVE  IInv'
  <1>1. m \in States BY GoingIs
  <1>2. Going(n, tar, {a1, a2}, {}) BY GoingReached
  <1>4. n.fut = m.fut BY <1>1, ReachedState
  <1>3. Live1(n, tar, a1) = Live1(m, tar, a1) BY <1>4, LiveSame
  <1> QED BY <1>2, <1>3, mips_Defines

LEMMA mips_PairResult ==
  ASSUME target = "mips", "mips" \in Targets, NEW tar \in Wide, NEW a1 \in Vars \cup {Const},
         NEW a2 \in Vars \cup {Const}, NEW args, args \subseteq {a1, a2}, NEW m, Going(m, tar, args, {}),
         NEW A \in SUBSET Vars, A \subseteq args, NEW n \in Reached(m, A, {}),
         Ready2(n, a1, Live1(m, tar, a1), MipsVars), Commit(mips_UPDATE_ADDRESSES2(n, tar, a1, a2))
  PROVE  IInv'
  <1>1. m \in States BY GoingIs
  <1>2. Going(n, tar, {a1, a2}, {}) BY GoingReached
  <1>4. n.fut = m.fut BY <1>1, ReachedState
  <1>3. Live1(n, tar, a1) = Live1(m, tar, a1) BY <1>4, LiveSame
  <1> QED BY <1>2, <1>3, mips_Defines2

LEMMA mips_Read ==
  ASSUME target = "mips", "mips" \in Targets, NEW a1 \in Vars \cup {Const},
         NEW a2 \in Vars \cup {Const}, NEW args, args \subseteq {a1, a2}, NEW m, Going(m, NoVar, args, {}),
         NEW A \in SUBSET Vars, A \subseteq args, NEW n \in Reached(m, A, {}),
         Commit(mips_update_args(n, NoVar, a1, a2))
  PROVE  IInv'
  <1>1. Going(n, NoVar, {a1, a2}, {}) BY GoingReached
  <1> QED BY <1>1, mips_Uses

\* The result goes to the register of the first operand, which has been loaded in k.
LEMMA mips_Computed ==
  ASSUME target = "mips", "mips" \in Targets, NEW tar \in Vars \ Wide, NEW a1 \in Vars \cup {Const},
         NEW a2 \in Vars \cup {Const}, NEW args, args \subseteq {a1, a2}, NEW m, Going(m, tar, args, {}),
         NEW A \in SUBSET Vars, A \subseteq args, NEW k \in Reached(m, A, {}),
         Ready(k, a1, Live1(m, tar, a1), MipsVars),
         NEW q \in Still(k, A), NEW n \in Emitted(q), Commit(mips_UPDATE_ADDRESSES(n, tar, a1, a2))
  PROVE  IInv'
  <1>1. m \in States /\ k \in States BY GoingIs, ReachedIs
  <1>2. q \in Reached(m, A, {}) /\ q.res = k.res BY <1>1, ReachedStill
  <1>3. n \in Reached(m, A, {}) /\ n.res = q.res /\ n.reg = q.reg BY <1>1, <1>2, ReachedEmitted
  <1>4. Ready(q, a1, Live1(m, tar, a1), MipsVars) BY <1>1, <1>2, FreeKept, StillIs
  <1>5. Ready(n, a1, Live1(m, tar, a1), MipsVars) BY <1>2, <1>3, <1>4 DEF Ready, Free
  <1> QED BY <1>3, <1>5, mips_Result

LEMMA mips_Computed2 ==
  ASSUME target = "mips", "mips" \in Targets, NEW tar \in Wide, NEW a1 \in Vars \cup {Const},
         NEW a2 \in Vars \cup {Const}, NEW args, args \subseteq {a1, a2}, NEW m, Going(m, tar, args, {}),
         NEW A \in SUBSET Vars, A \subseteq args, NEW k \in Reached(m, A, {}),
         Ready2(k, a1, Live1(m, tar, a1), MipsVars),
         NEW q \in Still(k, A), NEW n \in Emitted(q), Commit(mips_UPDATE_ADDRESSES2(n, tar, a1, a2))
  PROVE  IInv'
  <1>1. m \in States /\ k \in States BY GoingIs, ReachedIs
  <1>2. q \in Reached(m, A, {}) /\ q.res = k.res BY <1>1, ReachedStill
  <1>3. n \in Reached(m, A, {}) /\ n.res = q.res /\ n.reg = q.reg BY <1>1, <1>2, ReachedEmitted
  <1>4. Ready2(q, a1, Live1(m, tar, a1), MipsVars) BY <1>1, <1>2, FreeKept, StillIs
  <1>5. Ready2(n, a1, Live1(m, tar, a1), MipsVars) BY <1>2, <1>3, <1>4 DEF Ready2, Ready, Free
  <1> QED BY <1>3, <1>5, mips_PairResult

LEMMA mips_AluRight ==
  ASSUME mips_Runs, NEW tar \in WordTemps, NEW a1 \in Vars \cup {Const}, NEW a2 \in Vars \cup {Const}, NEW imm,
         mips_alu(tar, a1, a2, imm)
  PROVE  IInv'
  <1>1. PICK m \in Marks(tar, {a1, a2}, {}) :
          /\ Enabled("mips", "alu")
          /\ Commit(mips_UPDATE_ADDRESSES(Computes(mips_OnOperands(mips_Loaded(m, tar, a1), a1, a2, imm), tar),
                                         tar, a1, a2))
    BY DEF mips_alu
  <1>2. PICK A : A = Named(a1, a2) OBVIOUS
  <1>3. A \in SUBSET Vars /\ A \subseteq {a1, a2} /\ a1 \in A \cup {Const} /\ a2 \in A \cup {Const} /\ tar \in Vars \ Wide
    BY <1>2, NamedIs, CGenRegsAssumption DEF WordTemps
  <1>4. /\ target = "mips" /\ "mips" \in Targets /\ Going(m, tar, {a1, a2}, {}) /\ m \in States /\ m.pinned = {}
        /\ ~ (MipsPool \subseteq m.pinned) /\ Only(m, MipsVars)
    BY <1>1, mips_Begin
  <1>5. PICK k : k = mips_Loaded(m, tar, a1) OBVIOUS
  <1>6. k \in Reached(m, A, {}) /\ k.res.r1 \in Regs /\ Ready(k, a1, Live1(m, tar, a1), MipsVars)
    BY <1>3, <1>4, <1>5, mips_LoadedRight
  <1>7. k \in States /\ k.pinned = {} BY <1>3, <1>4, <1>6, ReachedState
  <1>8. PICK q : q = mips_OnOperands(k, a1, a2, imm) OBVIOUS
  <1>9. q \in Still(k, A) BY <1>3, <1>6, <1>7, <1>8, mips_OnOperandsStill DEF mips_Runs
  <1>10. q \in Gen /\ q.res = k.res BY <1>3, <1>7, <1>9, StillIs DEF States
  <1>11. Computes(q, tar) \in Emitted(q) BY <1>3, <1>6, <1>10, EmittedSelf, ComputesEmits
  <1> QED BY <1>1, <1>3, <1>4, <1>5, <1>6, <1>8, <1>9, <1>11, mips_Computed

LEMMA mips_UnaryRight ==
  ASSUME mips_Runs, NEW tar \in Vars \ Wide, NEW a1 \in Vars, mips_unary(tar, a1) PROVE IInv'
  <1>1. PICK m \in Marks(tar, {a1}, {}) :
          /\ Enabled("mips", "unary")
          /\ Commit(mips_UPDATE_ADDRESSES(Computes(RightRes(mips_Loaded(m, tar, a1), a1), tar), tar, a1, Const))
    BY DEF mips_unary
  <1>2. PICK A : A = {a1} OBVIOUS
  <1>3. A \in SUBSET Vars /\ A \subseteq {a1} /\ a1 \in A \cup {Const} /\ {a1} \subseteq {a1, Const} BY <1>2
  <1>4. /\ target = "mips" /\ "mips" \in Targets /\ Going(m, tar, {a1}, {}) /\ m \in States /\ m.pinned = {}
        /\ ~ (MipsPool \subseteq m.pinned) /\ Only(m, MipsVars)
    BY <1>1, mips_Begin
  <1>5. PICK k : k = mips_Loaded(m, tar, a1) OBVIOUS
  <1>6. k \in Reached(m, A, {}) /\ k.res.r1 \in Regs /\ Ready(k, a1, Live1(m, tar, a1), MipsVars)
    BY <1>3, <1>4, <1>5, mips_LoadedRight
  <1>7. k \in States /\ k \in Gen BY <1>3, <1>4, <1>6, ReachedIs
  <1>8. RightRes(k, a1) \in Emitted(k) BY <1>7, EmittedSelf, RightEmits
  <1>9. RightRes(k, a1).res = k.res BY <1>8 DEF Emitted
  <1>10. Computes(RightRes(k, a1), tar) \in Emitted(k) BY <1>6, <1>8, <1>9, ComputesEmits
  <1>11. k \in Still(k, A) BY <1>3, <1>7, StillSelf
  <1> QED BY <1>1, <1>3, <1>4, <1>5, <1>6, <1>10, <1>11, mips_Computed

LEMMA mips_AddrOfRight ==
  ASSUME mips_Runs, NEW tar \in Vars \ Wide, mips_addr_of(tar) PROVE IInv'
  <1>1. PICK m \in Marks(tar, {}, {}) :
          Enabled("mips", "addr_of") /\ Commit(mips_update_tar(Computes(Got1(mips_get_reg0(m)), tar), tar))
    BY DEF mips_addr_of
  <1>2. /\ target = "mips" /\ "mips" \in Targets /\ Going(m, tar, {}, {}) /\ m \in States /\ m.pinned = {}
        /\ ~ (MipsPool \subseteq m.pinned) /\ Only(m, MipsVars)
    BY <1>1, mips_Begin
  <1>3. PICK g : g = mips_get_reg0(m) OBVIOUS
  <1>4. g \in Fewer(m) /\ g.got \in Regs \cap MipsVars /\ g.reg[g.got] = NoVar BY <1>2, <1>3, mips_Get0
  <1>5. PICK k : k = Got1(g) OBVIOUS
  <1>6. k \in After(m, {}) /\ k.pinned = {} /\ k.res.r1 = g.got /\ k.reg = g.reg
    BY <1>2, <1>4, <1>5, NewRegRight
  <1>7. k \in Reached(m, {}, {}) /\ k \in States /\ k \in Gen BY <1>2, <1>6, AfterIs DEF Reached, States
  <1>8. PICK n : n = Computes(k, tar) OBVIOUS
  <1>9. n \in Emitted(k) BY <1>4, <1>6, <1>7, <1>8, EmittedSelf, ComputesEmits
  <1>10. n \in Reached(m, {}, {}) /\ n.res = k.res /\ n.reg = k.reg BY <1>2, <1>7, <1>9, ReachedEmitted
  <1>11. Going(n, tar, {}, {}) BY <1>2, <1>10, GoingReached
  <1> QED BY <1>1, <1>2, <1>3, <1>4, <1>5, <1>6, <1>8, <1>10, <1>11, mips_Sets

\* The operand is in the pair of k, the instruction has been emitted in n.
LEMMA mips_PairComputed ==
  ASSUME mips_Runs, NEW h, Enabled("mips", h), NEW tar \in Wide, NEW a1 \in Vars \cup {Const},
         NEW m, m \in Marks(tar, {a1}, {}),
         NEW k, k = mips_LoadedLow(m, tar, a1) \/ (k = mips_Loaded2(m, tar, a1) /\ a1 \in Wide \cup {Const}),
         NEW n, k \in Gen /\ k.res.r1 \in Regs /\ k.res.r2 \in Regs => n \in Emitted(k),
         Commit(mips_UPDATE_ADDRESSES2(n, tar, a1, Const))
  PROVE  IInv'
  <1>1. PICK A : A = {a1} \cap Vars OBVIOUS
  <1>2. A \in SUBSET Vars /\ A \subseteq {a1} /\ a1 \in A \cup {Const} /\ {a1} \subseteq {a1, Const} BY <1>1
  <1>3. /\ target = "mips" /\ "mips" \in Targets /\ Going(m, tar, {a1}, {}) /\ m \in States /\ m.pinned = {}
        /\ Only(m, MipsVars)
    BY mips_Begin
  <1>4. k \in Reached(m, A, {}) /\ Ready2(k, a1, Live1(m, tar, a1), MipsVars)
    BY <1>2, <1>3, mips_Loaded2Right, mips_LoadedLowRight DEF mips_Runs
  <1>5. k \in States /\ k \in Gen BY <1>2, <1>3, <1>4, ReachedIs
  <1>6. k.res.r1 \in Regs /\ k.res.r2 \in Regs BY <1>4 DEF Ready2, Ready, Free
  <1>7. k \in Still(k, A) BY <1>2, <1>5, StillSelf
  <1>8. n \in Emitted(k) BY <1>5, <1>6
  <1> QED BY <1>2, <1>3, <1>4, <1>7, <1>8, mips_Computed2

LEMMA mips_Unary2Right == ASSUME mips_Runs, NEW tar \in Wide, NEW a1 \in Wide, mips_unary2(tar, a1) PROVE IInv'
  <1>1. PICK m, k :
          /\ m \in Marks(tar, {a1}, {}) /\ Enabled("mips", "unary2") /\ k = mips_Loaded2(m, tar, a1)
          /\ Commit(mips_UPDATE_ADDRESSES2(Computes2(k, tar), tar, a1, Const))
    BY DEF mips_unary2
  <1>2. tar \in Vars /\ a1 \in Vars BY CGenRegsAssumption
  <1>3. k \in Gen /\ k.res.r1 \in Regs /\ k.res.r2 \in Regs => Computes2(k, tar) \in Emitted(k)
    BY <1>2, EmittedSelf, Computes2Emits
  <1> QED BY <1>1, <1>2, <1>3, mips_PairComputed

LEMMA mips_LlxRight == ASSUME mips_Runs, NEW tar \in Wide, NEW a1 \in Vars, mips_llx(tar, a1) PROVE IInv'
  <1>1. PICK m, k :
          /\ m \in Marks(tar, {a1}, {}) /\ Enabled("mips", "llx") /\ k = mips_LoadedLow(m, tar, a1)
          /\ Commit(mips_UPDATE_ADDRESSES2(Computes2(RightRes(k, a1), tar), tar, a1, Const))
    BY DEF mips_llx
  <1>2. tar \in Vars BY CGenRegsAssumption
  <1>3. ASSUME k \in Gen, k.res.r1 \in Regs, k.res.r2 \in Regs
        PROVE  Computes2(RightRes(k, a1), tar) \in Emitted(k)
    <2>1. RightRes(k, a1) \in Emitted(k) BY <1>3, EmittedSelf, RightEmits
    <2>2. RightRes(k, a1).res = k.res BY <2>1 DEF Emitted
    <2> QED BY <1>2, <1>3, <2>1, <2>2, Computes2Emits
  <1> QED BY <1>1, <1>3, mips_PairComputed

\* The first operand is in the pair of k, both registers of which are pinned in p.
PairPinned(m, tar, a1, a2, A, k, p) ==
  /\ A \in SUBSET Vars /\ A \subseteq {a1, a2} /\ a1 \in A \cup {Const} /\ a2 \in A \cup {Const}
  /\ target = "mips" /\ "mips" \in Targets /\ Going(m, tar, {a1, a2}, {}) /\ m \in States
  /\ k \in Reached(m, A, {}) /\ Ready2(k, a1, Live1(m, tar, a1), MipsVars)
  /\ k \in States /\ k.pinned = {} /\ k.res.r1 \in Regs /\ k.res.r2 \in Regs
  /\ p \in Reached(k, A, {k.res.r1, k.res.r2}) /\ p.res = k.res /\ Only(p, MipsVars)
  /\ p \in States /\ p.pinned = {k.res.r1, k.res.r2}

LEMMA mips_Begin2 ==
  ASSUME mips_Runs, NEW h, Enabled("mips", h), NEW tar \in Wide, NEW a1 \in Wide \cup {Const},
         NEW a2 \in Wide \cup {Const}, NEW m, m \in Marks(tar, {a1, a2}, {}), NEW A, A = Named(a1, a2),
         NEW k, k = mips_Loaded2(m, tar, a1), NEW p, p = mips_PinRes2(k)
  PROVE  PairPinned(m, tar, a1, a2, A, k, p)
  <1>1. /\ A \in SUBSET Vars /\ A \subseteq {a1, a2} /\ a1 \in A \cup {Const} /\ a2 \in A \cup {Const}
        /\ tar \in Vars /\ a1 \in Vars \cup {Const} /\ a2 \in Vars \cup {Const}
    BY NamedIs, CGenRegsAssumption
  <1>2. /\ target = "mips" /\ "mips" \in Targets /\ Going(m, tar, {a1, a2}, {}) /\ m \in States /\ m.pinned = {}
        /\ Only(m, MipsVars)
    BY mips_Begin
  <1>3. k \in Reached(m, A, {}) /\ Ready2(k, a1, Live1(m, tar, a1), MipsVars)
    BY <1>1, <1>2, mips_Loaded2Right DEF mips_Runs
  <1>4. k \in States /\ k.pinned = {} /\ Only(k, MipsVars) BY <1>1, <1>2, <1>3, ReachedState, OnlyReached
  <1>5. PICK r1 \in Regs, r2 \in Regs : r1 = k.res.r1 /\ r2 = k.res.r2 BY <1>3 DEF Ready2, Ready, Free
  <1>6. k \in Reached(k, A, {}) BY <1>1, <1>4, ReachedSelf
  <1>7. PICK q : q = pin_reg(k, r1) OBVIOUS
  <1>8. q \in Reached(k, A, {r1}) /\ q.res = k.res
    <2>1. PICK E : E = {} OBVIOUS
    <2>2. k \in Reached(k, A, E) BY <1>6, <2>1
    <2>3. pin_reg(k, r1) \in Reached(k, A, E \cup {r1}) /\ pin_reg(k, r1).res = k.res
      <3>1. A \in SUBSET Vars /\ k \in States /\ r1 \in Regs BY <1>1, <1>4, <1>5
      <3> QED BY <2>2, <3>1, ReachedPin
    <2>4. E \cup {r1} = {r1} BY <2>1
    <2> QED BY <1>7, <2>3, <2>4
  <1>9. p = pin_reg(q, r2) BY <1>5, <1>7 DEF mips_PinRes2, PinRes
  <1>10. p \in Reached(k, A, {r1, r2}) /\ p.res = k.res
    <2>1. PICK P : P = {r1} OBVIOUS
    <2>2. q \in Reached(k, A, P) BY <1>8, <2>1
    <2>3. pin_reg(q, r2) \in Reached(k, A, P \cup {r2}) /\ pin_reg(q, r2).res = q.res
      <3>1. A \in SUBSET Vars /\ k \in States /\ r2 \in Regs BY <1>1, <1>4, <1>5
      <3> QED BY <2>2, <3>1, ReachedPin
    <2>4. P \cup {r2} = {r1, r2} BY <2>1
    <2> QED BY <1>8, <1>9, <2>3, <2>4
  <1>11. p \in States /\ p.pinned = {r1, r2} /\ Only(p, MipsVars)
    BY <1>1, <1>4, <1>10, ReachedState, OnlyReached
  <1> QED BY <1>1, <1>2, <1>3, <1>4, <1>5, <1>10, <1>11 DEF PairPinned

\* Both registers of the result are unpinned, and the result is left in them.
LEMMA mips_End2 ==
  ASSUME target = "mips", "mips" \in Targets, NEW tar \in Wide, NEW a1 \in Wide \cup {Const},
         NEW a2 \in Wide \cup {Const}, NEW m, Going(m, tar, {a1, a2}, {}), NEW A \in SUBSET Vars, A \subseteq {a1, a2},
         NEW k \in Reached(m, A, {}), Ready2(k, a1, Live1(m, tar, a1), MipsVars),
         NEW n \in Reached(k, A, {k.res.r1, k.res.r2}), n.res = k.res, Commit(mips_Result2(n, tar, a1, a2))
  PROVE  IInv'
  <1>1. m \in States /\ tar \in Vars /\ a1 \in Vars \cup {Const} /\ a2 \in Vars \cup {Const}
    BY GoingIs, CGenRegsAssumption
  <1>2. k \in States /\ k.pinned = {} BY <1>1, ReachedState
  <1>3. PICK r1 \in Regs, r2 \in Regs : r1 = k.res.r1 /\ r2 = k.res.r2 BY DEF Ready2, Ready, Free
  <1>4. n \in Reached(k, A, {r1, r2}) BY <1>3
  <1>5. PICK q : q = unpin_reg(n, r1) OBVIOUS
  <1>6. PICK u : u = unpin_reg(q, r2) OBVIOUS
  <1>7. q \in Reached(k, A, {r1, r2} \ {r1}) /\ q.res = k.res BY <1>2, <1>3, <1>4, <1>5, ReachedUnpin
  <1>8. u \in Reached(k, A, {}) /\ u.res = k.res
    <2> DEFINE P == {r1, r2} \ {r1}
    <2>1. q \in Reached(k, A, P) BY <1>7
    <2>2. P \ {r2} = {} OBVIOUS
    <2> HIDE DEF P
    <2>3. unpin_reg(q, r2) \in Reached(k, A, P \ {r2}) /\ unpin_reg(q, r2).res = q.res
      BY <1>2, <2>1, ReachedUnpin
    <2> QED BY <1>6, <1>7, <2>2, <2>3
  <1>9. u \in Still(k, A) /\ u \in Gen BY <1>2, <1>8, ReachedIs DEF Reached, Still
  <1>10. u = mips_UnpinRes2(n) BY <1>3, <1>5, <1>6, <1>7 DEF mips_UnpinRes2, UnpinRes
  <1>11. Computes2(u, tar) \in Emitted(u) BY <1>1, <1>3, <1>8, <1>9, EmittedSelf, Computes2Emits
  <1>12. Commit(mips_UPDATE_ADDRESSES2(Computes2(u, tar), tar, a1, a2)) BY <1>10 DEF mips_Result2
  <1> QED BY <1>1, <1>9, <1>11, <1>12, mips_Computed2

\* What the instructions between do: they read the operands, and change registers.
LEMMA mips_Read2 ==
  ASSUME NEW o, NEW e \in Emitted(o), NEW a1, NEW a2, NEW r \in Regs, e.res.r1 = r
  PROVE  /\ mips_LowWords(e, a1, a2) \in Emitted(o) /\ mips_ReadLow(e, a1, a2) \in Emitted(o)
         /\ mips_ReadHigh(e, a1, a2) \in Emitted(o) /\ mips_Carry(e, a2) \in Emitted(o)
  <1>1. PICK q : q = RightRes(e, a1) OBVIOUS
  <1>2. q \in Emitted(o) BY <1>1, RightEmits
  <1>3. mips_ReadLow(e, a1, a2) = RightIn(q, q.opd.r1, a2, 1)
    <2>1. q.opd = e.opd BY <1>1 DEF RightRes, RightIn, Reads, Fault
    <2> QED BY <1>1, <2>1 DEF mips_ReadLow
  <1>4. mips_ReadLow(e, a1, a2) \in Emitted(o) BY <1>2, <1>3, RightEmits
  <1>5. {e.res.r1} \in SUBSET Int BY RegsAre
  <1>6. mips_LowWords(e, a1, a2) \in Emitted(o) BY <1>4, <1>5, ClobberEmits DEF mips_LowWords
  <1>7. PICK h : h = RightIn(e, e.res.r2, a1, 2) OBVIOUS
  <1>8. h \in Emitted(o) BY <1>7, RightEmits
  <1>9. mips_ReadHigh(e, a1, a2) = RightIn(h, e.opd.r2, a2, 2) BY <1>7 DEF mips_ReadHigh
  <1>10. mips_ReadHigh(e, a1, a2) \in Emitted(o) BY <1>8, <1>9, RightEmits
  <1>11. mips_Carry(e, a2) \in Emitted(o) BY RightEmits DEF mips_Carry
  <1> QED BY <1>4, <1>6, <1>10, <1>11

LEMMA mips_Operands2Right ==
  ASSUME mips_Runs, NEW h, Enabled("mips", h), NEW tar \in Wide, NEW a1 \in Wide \cup {Const},
         NEW a2 \in Wide \cup {Const}, NEW m, m \in Marks(tar, {a1, a2}, {}), NEW o, o = mips_Operands2(m, tar, a1, a2),
         NEW n, o \in Gen /\ o.res.r1 \in Regs => n \in Emitted(o), Commit(mips_Result2(n, tar, a1, a2))
  PROVE  IInv'
  <1>1. PICK A : A = Named(a1, a2) OBVIOUS
  <1>2. PICK k : k = mips_Loaded2(m, tar, a1) OBVIOUS
  <1>3. PICK p : p = mips_PinRes2(k) OBVIOUS
  <1>4. /\ A \in SUBSET Vars /\ A \subseteq {a1, a2} /\ a1 \in A \cup {Const} /\ a2 \in A \cup {Const}
        /\ target = "mips" /\ "mips" \in Targets /\ Going(m, tar, {a1, a2}, {}) /\ m \in States
        /\ k \in Reached(m, A, {}) /\ Ready2(k, a1, Live1(m, tar, a1), MipsVars)
        /\ k \in States /\ k.pinned = {} /\ k.res.r1 \in Regs /\ k.res.r2 \in Regs
        /\ p \in Reached(k, A, {k.res.r1, k.res.r2}) /\ p.res = k.res /\ Only(p, MipsVars)
        /\ p \in States /\ p.pinned = {k.res.r1, k.res.r2}
    <2>1. PairPinned(m, tar, a1, a2, A, k, p) BY <1>1, <1>2, <1>3, mips_Begin2
    <2> QED BY <2>1 DEF PairPinned
  <1>5. PICK r1 \in Regs, r2 \in Regs : r1 = k.res.r1 /\ r2 = k.res.r2 BY <1>4
  <1>6. o = mips_get_operand2(p, a2) BY <1>2, <1>3 DEF mips_Operands2
  <1>7. o \in Still(p, A)
    <2>1. p.pinned \subseteq {r1, r2, r2} BY <1>4, <1>5
    <2> QED BY <1>4, <1>5, <1>6, <2>1, mips_Operand2Still DEF mips_Runs
  <1>8. p \in Reached(k, A, {r1, r2}) BY <1>4, <1>5
  <1>9. o \in Reached(k, A, {r1, r2}) /\ o.res = k.res BY <1>4, <1>7, <1>8, ReachedStill
  <1>10. o \in Gen BY <1>4, <1>9, ReachedIs
  <1>11. n \in Emitted(o) BY <1>4, <1>9, <1>10
  <1>12. n \in Reached(k, A, {r1, r2}) /\ n.res = k.res BY <1>4, <1>9, <1>11, ReachedEmitted
  <1>13. n \in Reached(k, A, {k.res.r1, k.res.r2}) BY <1>5, <1>12
  <1> QED BY <1>4, <1>12, <1>13, mips_End2

LEMMA mips_Logic2Right ==
  ASSUME mips_Runs, NEW tar \in Wide, NEW a1 \in Wide \cup {Const}, NEW a2 \in Wide \cup {Const},
         mips_logic2(tar, a1, a2)
  PROVE  IInv'
  <1>1. PICK m, o, l, n :
          /\ m \in Marks(tar, {a1, a2}, {}) /\ Enabled("mips", "alu2") /\ o = mips_Operands2(m, tar, a1, a2)
          /\ l = mips_LowWords(o, a1, a2) /\ n = mips_ReadHigh(l, a1, a2) /\ Commit(mips_Result2(n, tar, a1, a2))
    BY DEF mips_logic2
  <1>2. ASSUME o \in Gen, o.res.r1 \in Regs PROVE n \in Emitted(o)
    <2>1. l \in Emitted(o) BY <1>1, <1>2, EmittedSelf, mips_Read2
    <2>2. l.res = o.res BY <2>1 DEF Emitted
    <2> QED BY <1>1, <1>2, <2>1, <2>2, mips_Read2
  <1> QED BY <1>1, <1>2, mips_Operands2Right

LEMMA mips_Add2Right ==
  ASSUME mips_Runs, NEW tar \in Wide, NEW a1 \in Wide \cup {Const}, NEW a2 \in Wide \cup {Const},
         mips_add2(tar, a1, a2)
  PROVE  IInv'
  <1>1. PICK m, o, l, c, n :
          /\ m \in Marks(tar, {a1, a2}, {}) /\ Enabled("mips", IF a1 = a2 THEN "self_add2" ELSE "alu2")
          /\ o = mips_Operands2(m, tar, a1, a2)
          /\ l = mips_LowWords(o, a1, a2) /\ c = Clobber(mips_Carry(l, a2), {Scratch})
          /\ n = mips_ReadHigh(c, a1, a2) /\ Commit(mips_Result2(n, tar, a1, a2))
    BY DEF mips_add2
  <1>2. ASSUME o \in Gen, o.res.r1 \in Regs PROVE n \in Emitted(o)
    <2>1. l \in Emitted(o) BY <1>1, <1>2, EmittedSelf, mips_Read2
    <2>2. l.res = o.res BY <2>1 DEF Emitted
    <2>3. mips_Carry(l, a2) \in Emitted(o) BY <1>2, <2>1, <2>2, mips_Read2
    <2>4. c \in Emitted(o) BY <1>1, <2>3, ClobberEmits, mips_Regs
    <2>5. c.res = o.res BY <2>4 DEF Emitted
    <2> QED BY <1>1, <1>2, <2>4, <2>5, mips_Read2
  <1> QED BY <1>1, <1>2, mips_Operands2Right

\* The register of the borrow is pinned besides the two of the result, and unpinned last.
LEMMA mips_Sub2Right ==
  ASSUME mips_Runs, NEW tar \in Wide, NEW a1 \in Wide \cup {Const}, NEW a2 \in Wide \cup {Const},
         mips_sub2(tar, a1, a2)
  PROVE  IInv'
  <1>1. PICK m, k, p, g, b, o, l, c, h, u :
          /\ m \in Marks(tar, {a1, a2}, {}) /\ Enabled("mips", "alu2")
          /\ k = mips_Loaded2(m, tar, a1) /\ p = mips_PinRes2(k) /\ g = mips_get_reg0(p) /\ b = pin_reg(g, g.got)
          /\ o = mips_get_operand2(b, a2) /\ l = mips_ReadLow(o, a1, a2)
          /\ c = Clobber(l, {Scratch, b.got, l.res.r1}) /\ h = mips_ReadHigh(c, a1, a2)
          /\ u = unpin_reg(h, b.got) /\ Commit(mips_Result2(u, tar, a1, a2))
    <2>1. PICK m, b, l, c :
            /\ m \in Marks(tar, {a1, a2}, {}) /\ Enabled("mips", "alu2")
            /\ b = mips_Borrow(mips_get_reg0(mips_PinRes2(mips_Loaded2(m, tar, a1))))
            /\ l = mips_ReadLow(mips_get_operand2(b, a2), a1, a2)
            /\ c = Clobber(l, {Scratch, b.got, l.res.r1})
            /\ Commit(mips_Result2(unpin_reg(mips_ReadHigh(c, a1, a2), b.got), tar, a1, a2))
      BY DEF mips_sub2
    <2>2. PICK k : k = mips_Loaded2(m, tar, a1) OBVIOUS
    <2>3. PICK p : p = mips_PinRes2(k) OBVIOUS
    <2>4. PICK g : g = mips_get_reg0(p) OBVIOUS
    <2>5. b = pin_reg(g, g.got) BY <2>1, <2>2, <2>3, <2>4 DEF mips_Borrow
    <2>6. PICK o : o = mips_get_operand2(b, a2) OBVIOUS
    <2>7. PICK h : h = mips_ReadHigh(c, a1, a2) OBVIOUS
    <2>8. PICK u : u = unpin_reg(h, b.got) OBVIOUS
    <2> QED BY <2>1, <2>2, <2>3, <2>4, <2>5, <2>6, <2>7, <2>8
  <1>2. PICK A : A = Named(a1, a2) OBVIOUS
  <1>3. /\ A \in SUBSET Vars /\ A \subseteq {a1, a2} /\ a1 \in A \cup {Const} /\ a2 \in A \cup {Const}
        /\ target = "mips" /\ "mips" \in Targets /\ Going(m, tar, {a1, a2}, {}) /\ m \in States
        /\ k \in Reached(m, A, {}) /\ Ready2(k, a1, Live1(m, tar, a1), MipsVars)
        /\ k \in States /\ k.pinned = {} /\ k.res.r1 \in Regs /\ k.res.r2 \in Regs
        /\ p \in Reached(k, A, {k.res.r1, k.res.r2}) /\ p.res = k.res /\ Only(p, MipsVars)
        /\ p \in States /\ p.pinned = {k.res.r1, k.res.r2}
    <2>1. PairPinned(m, tar, a1, a2, A, k, p) BY <1>1, <1>2, mips_Begin2
    <2> QED BY <2>1 DEF PairPinned
  <1>4. PICK r1 \in Regs, r2 \in Regs : r1 = k.res.r1 /\ r2 = k.res.r2 BY <1>3
  <1>5. p \in Reached(k, A, {r1, r2}) /\ p.pinned = {r1, r2} BY <1>3, <1>4
  <1>6. ~ (MipsPool \subseteq p.pinned)
    <2>1. ~ (MipsPool \subseteq {r1, r1, r1, r2}) BY DEF mips_Runs, Roomy4
    <2> QED BY <1>5, <2>1
  <1>7. g \in Fewer(p) /\ g.got \in Regs /\ g.got \notin {r1, r2} BY <1>1, <1>3, <1>5, <1>6, mips_Get0
  <1>8. PICK t \in Regs : t = g.got /\ t \notin {r1, r2} BY <1>7
  <1>9. g \in States /\ g \in Still(p, A) BY <1>3, <1>7, FewerIs, FewerStill
  <1>10. g \in Reached(k, A, {r1, r2}) /\ g.res = k.res BY <1>3, <1>5, <1>9, ReachedStill
  <1>11. b \in Reached(k, A, {r1, r2} \cup {t}) /\ b.res = k.res /\ b.got = t
    <2>1. pin_reg(g, t) \in Reached(k, A, {r1, r2} \cup {t}) /\ pin_reg(g, t).res = g.res
      BY <1>3, <1>8, <1>10, ReachedPin
    <2>2. pin_reg(g, t).got = g.got BY <1>8, <1>9, PinPicks
    <2> QED BY <1>1, <1>8, <1>10, <2>1, <2>2
  <1>12. {r1, r2} \cup {t} = {r1, r2, t} /\ {r1, r2, t} \ {t} = {r1, r2} BY <1>8
  <1>13. b \in Reached(k, A, {r1, r2, t}) BY <1>11, <1>12
  <1>14. b \in States /\ b.pinned = {r1, r2, t} /\ Only(b, MipsVars)
    <2>1. Only(g, MipsVars)
      <3>1. g \in After(p, A) BY <1>3, <1>9, StillIs
      <3> QED BY <1>3, <3>1, OnlyKept
    <2>2. b \in States /\ b.pinned = {r1, r2, t} BY <1>3, <1>13, ReachedState
    <2>3. b.reg = g.reg BY <1>1, <1>8, <1>9, PinPicks, PickedAfter
    <2> QED BY <2>1, <2>2, <2>3 DEF Only
  <1>15. o \in Still(b, A)
    <2>1. b.pinned \subseteq {r1, r2, t} BY <1>14
    <2> QED BY <1>1, <1>3, <1>4, <1>8, <1>14, <2>1, mips_Operand2Still DEF mips_Runs
  <1>16. o \in Reached(k, A, {r1, r2, t}) /\ o.res = k.res BY <1>3, <1>11, <1>13, <1>15, ReachedStill
  <1>17. o \in Gen BY <1>3, <1>16, ReachedIs
  <1>18. l \in Emitted(o) BY <1>1, <1>3, <1>16, <1>17, EmittedSelf, mips_Read2
  <1>19. l.res = k.res BY <1>16, <1>18 DEF Emitted
  <1>20. {Scratch, b.got, l.res.r1} \in SUBSET Int
    <2>1. Scratch \in Int /\ t \in Int /\ r1 \in Int BY <1>4, <1>8, mips_Regs, RegsAre
    <2> QED BY <1>4, <1>11, <1>19, <2>1
  <1>21. c \in Emitted(o) BY <1>1, <1>18, <1>20, ClobberEmits
  <1>22. c.res = k.res BY <1>16, <1>21 DEF Emitted
  <1>23. h \in Emitted(o) BY <1>1, <1>3, <1>21, <1>22, mips_Read2
  <1>24. h \in Reached(k, A, {r1, r2, t}) /\ h.res = k.res BY <1>3, <1>16, <1>23, ReachedEmitted
  <1>25. u \in Reached(k, A, {r1, r2}) /\ u.res = k.res
    <2>1. unpin_reg(h, t) \in Reached(k, A, {r1, r2, t} \ {t}) /\ unpin_reg(h, t).res = h.res
      BY <1>3, <1>24, ReachedUnpin
    <2> QED BY <1>1, <1>11, <1>12, <1>24, <2>1
  <1>26. u \in Reached(k, A, {k.res.r1, k.res.r2}) BY <1>4, <1>25
  <1> QED BY <1>1, <1>3, <1>25, <1>26, mips_End2

LEMMA mips_AsnRight ==
  ASSUME mips_Runs, NEW tar \in Vars, NEW a1 \in Vars \cup {Const}, tar \in Wide => a1 \in Wide \cup {Const},
         mips_asn(tar, a1)
  PROVE  IInv'
  <1>1. PICK m, p, k :
          /\ m \in Marks(tar, {a1}, {}) /\ Enabled("mips", "asn")
          /\ p = mips_Loaded2(m, tar, a1) /\ k = mips_Loaded(m, tar, a1)
          /\ IF tar \in Wide
               THEN Commit(mips_UPDATE_ADDRESSES2(Copies(p, tar, a1), tar, a1, Const))
               ELSE Commit(mips_UPDATE_ADDRESSES(Copies(RightRes(k, a1), tar, a1), tar, a1, Const))
    BY DEF mips_asn
  <1>2. CASE tar \in Wide
    <2>1. p \in Gen => Copies(p, tar, a1) \in Emitted(p) BY EmittedSelf, CopiesEmits
    <2> QED BY <1>1, <1>2, <2>1, mips_PairComputed
  <1>3. CASE tar \notin Wide
    <2>1. PICK A : A = {a1} \cap Vars OBVIOUS
    <2>2. A \in SUBSET Vars /\ A \subseteq {a1} /\ a1 \in A \cup {Const} /\ {a1} \subseteq {a1, Const} BY <2>1
    <2>3. /\ target = "mips" /\ "mips" \in Targets /\ Going(m, tar, {a1}, {}) /\ m \in States /\ m.pinned = {}
          /\ ~ (MipsPool \subseteq m.pinned) /\ Only(m, MipsVars)
      BY <1>1, mips_Begin
    <2>4. k \in Reached(m, A, {}) /\ k.res.r1 \in Regs /\ Ready(k, a1, Live1(m, tar, a1), MipsVars)
      BY <1>1, <2>2, <2>3, mips_LoadedRight
    <2>5. k \in States /\ k \in Gen BY <2>2, <2>3, <2>4, ReachedIs
    <2>6. RightRes(k, a1) \in Emitted(k) BY <2>5, EmittedSelf, RightEmits
    <2>7. Copies(RightRes(k, a1), tar, a1) \in Emitted(k) BY <2>6, CopiesEmits
    <2>8. k \in Still(k, A) BY <2>2, <2>5, StillSelf
    <2> QED BY <1>1, <1>3, <2>2, <2>3, <2>4, <2>7, <2>8, mips_Computed
  <1> QED BY <1>2, <1>3

LEMMA mips_AliasedFewer ==
  ASSUME NEW m \in States PROVE mips_spill_aliased_objects(m) \in Fewer(m)
  <1>1. Aliased \in SUBSET Vars BY CGenRegsAssumption DEF Aliased, Ids
  <1> QED BY <1>1, mips_SpillTheseFewer DEF mips_spill_aliased_objects

LEMMA mips_IndRight ==
  ASSUME mips_Runs, NEW tar \in Vars, NEW a1 \in Vars, mips_ind(tar, a1) PROVE IInv'
  <1>1. PICK m, s, k, p :
          /\ m \in Marks(tar, {a1}, AddrTaken)
          /\ Enabled("mips", "ind")
          /\ s = mips_spill_aliased_objects(m) /\ k = mips_Loaded(s, tar, a1) /\ p = mips_LoadedLow(s, tar, a1)
          /\ \/ /\ tar \in Wide
                /\ Commit(mips_UPDATE_ADDRESSES2(Computes2(ReadsMemory(RightRes(p, a1), Pointed), tar), tar, a1, Const))
             \/ /\ tar \in Structs
                /\ Commit(mips_UPDATE_ADDRESSES(ComputesAt(ReadsMemory(RightRes(k, a1), Pointed), tar, Far), tar, a1, Const))
             \/ /\ tar \notin Wide \cup Structs
                /\ Commit(mips_UPDATE_ADDRESSES(Computes(ReadsMemory(RightRes(k, a1), Pointed), tar), tar, a1, Const))
    BY DEF mips_ind
  <1>2. PICK A : A = {a1} OBVIOUS
  <1>3. /\ A \in SUBSET Vars /\ A \subseteq {a1} /\ a1 \in A \cup {Const} /\ {a1} \subseteq {a1, Const}
        /\ AddrTaken \subseteq Crossing /\ Far \in Locs
    BY <1>2, CGenAssumption DEF Locs
  <1>4. /\ target = "mips" /\ "mips" \in Targets /\ Going(m, tar, {a1}, {}) /\ m \in States /\ m.pinned = {}
        /\ Only(m, MipsVars)
    BY <1>1, <1>3, mips_Begin
  <1>5. s \in Fewer(m) BY <1>1, <1>4, mips_AliasedFewer
  <1>6. m \in Reached(m, A, {}) BY <1>3, <1>4, ReachedSelf
  <1>7. s \in Reached(m, A, {}) BY <1>3, <1>4, <1>5, <1>6, ReachedFewer
  <1>8. s \in States /\ s.pinned = {} /\ s.fut = m.fut /\ Only(s, MipsVars)
    BY <1>3, <1>4, <1>7, ReachedState, OnlyReached
  <1>9. ~ (MipsPool \subseteq s.pinned) BY <1>8, mips_Regs
  <1>10. Live1(s, tar, a1) = Live1(m, tar, a1) BY <1>8, LiveSame
  <1>11. ASSUME NEW l \in States PROVE ReadsMemory(RightRes(l, a1), Pointed) \in Emitted(l)
    <2>1. RightRes(l, a1) \in Emitted(l) BY EmittedSelf, RightEmits DEF States
    <2> QED BY <2>1, ReadsMemoryEmits
  <1>12. CASE tar \in Wide
    <2>1. p \in Reached(s, A, {}) /\ Ready2(p, a1, Live1(m, tar, a1), MipsVars)
      BY <1>1, <1>3, <1>8, <1>10, mips_LoadedLowRight DEF mips_Runs
    <2>2. p \in Reached(m, A, {}) /\ p \in States BY <1>3, <1>4, <1>7, <2>1, ReachedTrans, ReachedIs
    <2>3. PICK q : q = ReadsMemory(RightRes(p, a1), Pointed) OBVIOUS
    <2>4. q \in Emitted(p) BY <1>11, <2>2, <2>3
    <2>5. q.res.r1 \in Regs /\ q.res.r2 \in Regs BY <2>1, <2>4 DEF Emitted, Ready2, Ready, Free
    <2>6. Computes2(q, tar) \in Emitted(p) BY <2>4, <2>5, Computes2Emits
    <2>7. p \in Still(p, A) BY <1>3, <2>2, StillSelf
    <2>8. Commit(mips_UPDATE_ADDRESSES2(Computes2(q, tar), tar, a1, Const))
      BY <1>1, <1>12, <2>3, CGenRegsAssumption
    <2> QED BY <1>3, <1>4, <1>12, <2>1, <2>2, <2>6, <2>7, <2>8, mips_Computed2
  <1>13. CASE tar \notin Wide
    <2>1. k \in Reached(s, A, {}) /\ k.res.r1 \in Regs /\ Ready(k, a1, Live1(m, tar, a1), MipsVars)
      BY <1>1, <1>3, <1>8, <1>9, <1>10, mips_LoadedRight
    <2>2. k \in Reached(m, A, {}) /\ k \in States BY <1>3, <1>4, <1>7, <2>1, ReachedTrans, ReachedIs
    <2>3. PICK q : q = ReadsMemory(RightRes(k, a1), Pointed) OBVIOUS
    <2>4. q \in Emitted(k) BY <1>11, <2>2, <2>3
    <2>5. q.res.r1 \in Regs BY <2>1, <2>4 DEF Emitted
    <2>6. PICK n : n = IF tar \in Structs THEN ComputesAt(q, tar, Far) ELSE Computes(q, tar) OBVIOUS
    <2>7. n \in Emitted(k) BY <1>3, <2>4, <2>5, <2>6, ComputesEmits, ComputesAtEmits
    <2>8. k \in Still(k, A) BY <1>3, <2>2, StillSelf
    <2>9. Commit(mips_UPDATE_ADDRESSES(n, tar, a1, Const)) BY <1>1, <1>13, <2>3, <2>6
    <2> QED BY <1>3, <1>4, <1>13, <2>1, <2>2, <2>7, <2>8, <2>9, mips_Computed
  <1> QED BY <1>12, <1>13

LEMMA mips_LoadArgStill ==
  ASSUME NEW m \in States, NEW A \in SUBSET Vars, NEW n \in Still(m, A), NEW r \in Regs, NEW a \in A \cup {Const}
  PROVE  mips_LoadArg(n, r, a) \in Still(m, A)
  <1>1. n \in States BY StillIs
  <1>2. PICK l : l = mips_load(n, r, a) OBVIOUS
  <1>3. l \in Stored(n, A) BY <1>1, <1>2, LoadStored DEF mips_load
  <1>4. l \in Still(m, A) BY <1>3, StillThenStored
  <1> QED BY <1>2, <1>4, RightInStill DEF mips_LoadArg

LEMMA mips_StoredWordStill ==
  ASSUME NEW n \in States, NEW A \in SUBSET Vars, NEW a2 \in A \cup {Const}, ~ (MipsPool \subseteq n.pinned)
  PROVE  mips_StoredWord(n, a2) \in Still(n, A)
  <1>1. n \in Still(n, A) /\ Scratch \in Regs BY StillSelf, mips_Regs
  <1>2. CASE a2 = Const BY <1>1, <1>2, mips_LoadArgStill DEF mips_StoredWord
  <1>3. CASE a2 # Const /\ InReg(n, a2) BY <1>1, <1>3, RightInStill DEF mips_StoredWord
  <1>4. CASE a2 # Const /\ ~InReg(n, a2)
    <2>1. PICK o : o = InGot(mips_LoadGot(mips_get_reg0(n), a2)) OBVIOUS
    <2>2. o \in Still(n, A) BY <2>1, mips_LoadGotStill
    <2>3. o \in Gen BY <2>2, StillIs DEF States
    <2>4. RightOpd(o, a2, 1) \in Emitted(o) BY <2>3, EmittedSelf, RightEmits
    <2> QED BY <1>4, <2>1, <2>2, <2>4, StillThenEmitted DEF mips_StoredWord
  <1> QED BY <1>2, <1>3, <1>4

LEMMA mips_StoredPairStill ==
  ASSUME NEW n \in States, Only(n, MipsVars), NEW A \in SUBSET Vars, NEW a2 \in A \cup {Const},
         a2 \in Wide \cup {Const}, NEW r \in Regs, n.pinned \subseteq {r}, Roomy4(MipsPool)
  PROVE  mips_StoredPair(n, a2) \in Still(n, A)
  <1>1. CASE a2 = Const BY <1>1, StillSelf, ClobberStill, mips_Regs DEF mips_StoredPair
  <1>2. CASE a2 # Const
    <2>1. PICK o : o = mips_get_operand2(n, a2) OBVIOUS
    <2>2. n.pinned \subseteq {r, r, r} OBVIOUS
    <2>3. o \in Still(n, A) BY <2>1, <2>2, mips_Operand2Still
    <2>4. o \in Gen BY <2>3, StillIs DEF States
    <2>5. RightIn2(o, o.opd, a2) \in Emitted(o) BY <2>4, EmittedSelf, RightEmits
    <2> QED BY <1>2, <2>1, <2>3, <2>5, StillThenEmitted DEF mips_StoredPair, mips_ReadPair
  <1> QED BY <1>1, <1>2

LEMMA mips_StoredStructStill ==
  ASSUME NEW n \in States, NEW A \in SUBSET Vars, NEW a1 \in A, NEW a2 \in A
  PROVE  mips_StoredStruct(n, a1, a2) \in Still(n, A)
  <1>1. n \in Still(n, A) /\ Scratch \in Regs BY StillSelf, mips_Regs
  <1>2. PICK k : k = mips_LoadArg(n, Scratch, a1) OBVIOUS
  <1>3. k \in Still(n, A) BY <1>1, <1>2, mips_LoadArgStill
  <1>4. PICK q : q = mips_LoadArg(k, Scratch, a2) OBVIOUS
  <1>5. q \in Still(n, A) BY <1>1, <1>3, <1>4, mips_LoadArgStill
  <1> QED BY <1>2, <1>4, <1>5, ClobberStill, mips_Regs DEF mips_StoredStruct

LEMMA mips_PointerPinned ==
  ASSUME NEW s \in States, Only(s, MipsVars), s.pinned = {}, NEW A \in SUBSET Vars, NEW a1 \in A,
         NEW k, k = mips_Pointer(s, a1)
  PROVE  k \in Reached(s, A, k.pinned) /\ k.res.r1 \in Regs /\ k.pinned \subseteq {k.res.r1}
  <1>1. CASE InReg(s, a1)
    <2>1. addr_reg1(s, a1) \in Regs BY <1>1, RegOf
    <2>2. s \in Reached(s, A, {}) BY ReachedSelf
    <2>3. k = Into(s, addr_reg1(s, a1), None) BY <1>1 DEF mips_Pointer
    <2>4. k \in Reached(s, A, {}) /\ k.res.r1 = addr_reg1(s, a1) BY <2>1, <2>2, <2>3, ReachedInto
    <2>5. k.pinned = {} BY <2>4, ReachedState
    <2> QED BY <2>1, <2>4, <2>5
  <1>2. CASE ~InReg(s, a1)
    <2>1. PICK l : l = mips_Loaded(s, NoVar, a1) OBVIOUS
    <2>2. l \in Reached(s, A, {}) /\ l.res.r1 \in Regs
      <3>1. ~ (MipsPool \subseteq s.pinned) BY mips_Regs
      <3> QED BY <2>1, <3>1, mips_LoadedRight
    <2>3. PICK r : r = l.res.r1 OBVIOUS
    <2>4. r \in Regs /\ k = pin_reg(l, r) BY <1>2, <2>1, <2>2, <2>3 DEF mips_Pointer, PinRes
    <2>5. k \in Reached(s, A, {} \cup {r}) /\ k.res = l.res BY <2>2, <2>4, ReachedPin
    <2>6. {} \cup {r} = {r} OBVIOUS
    <2>7. k \in Reached(s, A, {r}) /\ k.pinned = {r} BY <2>5, <2>6, ReachedState
    <2> QED BY <2>3, <2>4, <2>5, <2>7
  <1> QED BY <1>1, <1>2

LEMMA mips_IndAsnRight ==
  ASSUME mips_Runs, NEW a1 \in Vars, NEW a2 \in Vars \cup {Const}, mips_ind_asn(a1, a2) PROVE IInv'
  <1>1. PICK m, s, k, d, q, m2 :
          /\ m \in Marks(NoVar, {a1, a2}, {})
          /\ Enabled("mips", "ind_asn")
          /\ s = mips_spill_aliased_objects(m) /\ k = mips_Pointer(s, a1)
          /\ d = IF a2 \in Wide THEN mips_StoredPair(k, a2) ELSE mips_StoredWord(k, a2)
          /\ q = RightRes(d, a1)
          /\ m2 = IF a2 \in Structs THEN mips_StoredStruct(s, a1, a2) ELSE unpin_reg(q, q.res.r1)
          /\ Commit(mips_update_args(WritesMemory(m2, Pointed), NoVar, a1, a2))
    <2>1. PICK m, s :
            /\ m \in Marks(NoVar, {a1, a2}, {}) /\ Enabled("mips", "ind_asn") /\ s = mips_spill_aliased_objects(m)
            /\ \/ /\ a2 \in Structs
                  /\ Commit(mips_update_args(WritesMemory(mips_StoredStruct(s, a1, a2), Pointed), NoVar, a1, a2))
               \/ /\ a2 \in Wide
                  /\ Commit(mips_update_args(
                       WritesMemory(mips_PointerRight(mips_StoredPair(mips_Pointer(s, a1), a2), a1), Pointed),
                       NoVar, a1, a2))
               \/ /\ a2 \notin Structs \cup Wide
                  /\ Commit(mips_update_args(
                       WritesMemory(mips_PointerRight(mips_StoredWord(mips_Pointer(s, a1), a2), a1), Pointed),
                       NoVar, a1, a2))
      BY DEF mips_ind_asn
    <2>3. PICK k : k = mips_Pointer(s, a1) OBVIOUS
    <2>4. PICK d : d = IF a2 \in Wide THEN mips_StoredPair(k, a2) ELSE mips_StoredWord(k, a2) OBVIOUS
    <2>5. PICK q : q = RightRes(d, a1) OBVIOUS
    <2>6. PICK m2 : m2 = IF a2 \in Structs THEN mips_StoredStruct(s, a1, a2) ELSE unpin_reg(q, q.res.r1) OBVIOUS
    <2>7. a2 \in Structs => a2 \notin Wide BY CGenRegsAssumption
    <2>8. Commit(mips_update_args(WritesMemory(m2, Pointed), NoVar, a1, a2))
      BY <2>1, <2>3, <2>4, <2>5, <2>6, <2>7 DEF mips_PointerRight, UnpinRes
    <2> QED BY <2>1, <2>3, <2>4, <2>5, <2>6, <2>8
  <1>2. PICK A : A = Named(a1, a2) OBVIOUS
  <1>3. /\ A \in SUBSET Vars /\ A \subseteq {a1, a2} /\ a1 \in A \cup {Const} /\ a2 \in A \cup {Const}
        /\ a1 \in A /\ (a2 \in Structs => a2 \in A) /\ Pointed \in SUBSET Vars
    BY <1>2, NamedIs, CGenRegsAssumption DEF Named, Ids
  <1>4. /\ target = "mips" /\ "mips" \in Targets /\ Going(m, NoVar, {a1, a2}, {}) /\ m \in States /\ m.pinned = {}
        /\ Only(m, MipsVars)
    BY <1>1, mips_Begin
  <1>5. s \in Fewer(m) BY <1>1, <1>4, mips_AliasedFewer
  <1>6. m \in Reached(m, A, {}) BY <1>3, <1>4, ReachedSelf
  <1>7. s \in Reached(m, A, {}) BY <1>3, <1>4, <1>5, <1>6, ReachedFewer
  <1>8. s \in States /\ s.pinned = {} /\ Only(s, MipsVars) BY <1>3, <1>4, <1>7, ReachedState, OnlyReached
  <1>9. m2 \in Reached(m, A, {})
    <2>1. CASE a2 \in Structs
      <3>1. m2 \in Still(s, A) BY <1>1, <1>3, <1>8, <2>1, mips_StoredStructStill
      <3> QED BY <1>3, <1>4, <1>7, <3>1, ReachedStill
    <2>2. CASE a2 \notin Structs
      <3>1. PICK p : p = k.pinned OBVIOUS
      <3>2. k \in Reached(s, A, p) /\ k.res.r1 \in Regs /\ p \subseteq {k.res.r1}
        BY <1>1, <1>3, <1>8, <3>1, mips_PointerPinned
      <3>3. p \ {k.res.r1} = {} BY <3>2
      <3>4. k \in States /\ k.pinned = p /\ Only(k, MipsVars) BY <1>3, <1>8, <3>2, ReachedState, OnlyReached
      <3>5. ~ (MipsPool \subseteq k.pinned)
        <4>1. ~ (MipsPool \subseteq {k.res.r1})
          <5>1. PICK r \in Regs : r = k.res.r1 BY <3>2
          <5>2. ~ (MipsPool \subseteq {r, r, r, r}) BY DEF mips_Runs, Roomy4
          <5> QED BY <5>1, <5>2
        <4> QED BY <3>2, <3>4, <4>1
      <3>6. d \in Still(k, A)
        <4>1. CASE a2 \in Wide
          <5>1. mips_StoredPair(k, a2) \in Still(k, A)
            BY <1>3, <3>2, <3>4, <4>1, mips_StoredPairStill DEF mips_Runs
          <5> QED BY <1>1, <4>1, <5>1
        <4>2. CASE a2 \notin Wide BY <1>1, <1>3, <3>4, <3>5, <4>2, mips_StoredWordStill
        <4> QED BY <4>1, <4>2
      <3>7. d \in Reached(s, A, p) /\ d.res = k.res BY <1>3, <1>8, <3>2, <3>6, ReachedStill
      <3>8. d \in Gen BY <1>3, <1>8, <3>7, ReachedIs
      <3>9. q \in Emitted(d) BY <1>1, <3>8, EmittedSelf, RightEmits
      <3>10. q \in Reached(s, A, p) /\ q.res = d.res BY <1>3, <1>8, <3>7, <3>9, ReachedEmitted
      <3>11. m2 \in Reached(s, A, p \ {k.res.r1}) BY <1>1, <1>3, <1>8, <2>2, <3>7, <3>10, ReachedUnpin
      <3> QED BY <1>3, <1>4, <1>7, <3>3, <3>11, ReachedTrans
    <2> QED BY <2>1, <2>2
  <1>10. m2 \in States /\ m2 \in Gen BY <1>3, <1>4, <1>9, ReachedIs
  <1>11. WritesMemory(m2, Pointed) \in Emitted(m2) BY <1>3, <1>10, EmittedSelf, WritesMemoryEmits
  <1>12. WritesMemory(m2, Pointed) \in Reached(m, A, {}) BY <1>3, <1>4, <1>9, <1>11, ReachedEmitted
  <1> QED BY <1>1, <1>3, <1>4, <1>12, mips_Read

-----------------------------------------------------------------------------
(* mips_cgen.c: calls                                                       *)

\* spill_all() empties every register.
LEMMA mips_SpillAllRight ==
  ASSUME NEW m \in States PROVE mips_spill_all(m) \in Fewer(m) /\ \A r \in Regs : mips_spill_all(m).reg[r] = NoVar
  <1>1. PICK s : s = mips_spill_all(m) OBVIOUS
  <1>2. s \in Fewer(m) /\ \A r \in Regs : s.reg[r] \notin Vars
    BY <1>1, mips_SpillTheseFewer DEF mips_spill_all
  <1>3. s \in States BY <1>2, FewerIs
  <1>4. \A r \in Regs : s.reg[r] = NoVar BY <1>2, <1>3, OwnerIs
  <1> QED BY <1>1, <1>2, <1>4

\* The arguments have been passed: mips_post_call() forgets them.
LEMMA mips_CallGoing ==
  ASSUME NEW n, NEW tar, NEW args, Going(n, tar, args, {}), \A r \in Regs : n.reg[r] = NoVar
  PROVE  Going(mips_Call(n), tar, args, {}) /\ \A r \in Regs : mips_Call(n).reg[r] = NoVar
  <1>1. n \in States /\ n \in Gen /\ n.pinned = {} /\ {} \in SUBSET Vars BY GoingIs DEF States
  <1>2. PICK c : c = Called(FindsArguments(n, FirstArg), MipsCallerSave) OBVIOUS
  <1>3. c \in Emitted(n) BY <1>1, <1>2, EmittedSelf, FindsArgumentsEmits, CalledEmits, mips_Regs
  <1>4. c \in Reached(n, {}, {}) /\ c.reg = n.reg
    <2>1. n \in Reached(n, {}, {}) BY <1>1, ReachedSelf
    <2> QED BY <1>1, <1>3, <2>1, ReachedEmitted
  <1>5. Going(c, tar, args, {}) BY <1>1, <1>4, GoingReached
  <1>6. PICK d : d = [c EXCEPT !.args = 0] OBVIOUS
  <1>7. Going(d, tar, args, {}) /\ d.reg = c.reg
    <2>1. 0 \in 0 .. MaxArgs + 4 BY CGenAssumption
    <2>2. c \in Gen BY <1>5, GoingIs DEF States
    <2>3. d.reg = c.reg BY <1>6, <2>2 DEF Gen
    <2> QED BY <1>5, <1>6, <2>1, <2>3, GoingArgs
  <1>8. d \in States /\ d \in Gen /\ d.pinned = {} BY <1>7, GoingIs DEF States
  <1>9. PICK e : e = [d EXCEPT !.passed = {}] OBVIOUS
  <1>10. e \in Emitted(d) BY <1>8, <1>9 DEF Emitted, Gen
  <1>11. e \in Reached(d, {}, {}) /\ e.reg = d.reg
    <2>1. d \in Reached(d, {}, {}) BY <1>1, <1>8, ReachedSelf
    <2> QED BY <1>1, <1>8, <1>10, <2>1, ReachedEmitted
  <1>12. Going(e, tar, args, {}) BY <1>1, <1>7, <1>11, GoingReached
  <1>13. mips_Call(n) = e BY <1>2, <1>6, <1>9 DEF mips_Call, mips_post_call
  <1> QED BY <1>4, <1>7, <1>11, <1>12, <1>13

\* The call has been made, and all registers are empty.
LEMMA mips_ReturnedRight ==
  ASSUME target = "mips", "mips" \in Targets, NEW tar \in Vars \cup {NoVar}, NEW n, Going(n, tar, {}, {}),
         \A r \in Regs : n.reg[r] = NoVar, Commit(mips_Returned(n, tar))
  PROVE  IInv'
  <1>0. n \in States /\ n.pinned = {} /\ n \in Reached(n, {}, {})
    <2>1. n \in States /\ n.pinned = {} BY GoingIs
    <2> QED BY <2>1, ReachedSelf
  <1>1. CASE tar \notin Vars
    <2>1. tar = NoVar /\ tar \notin Structs /\ tar \notin Wide BY <1>1, CGenRegsAssumption
    <2>2. mips_Returned(n, tar) = n BY <1>1, <2>1 DEF mips_Returned
    <2> QED BY <2>1, <2>2, mips_Ends
  <1>2. CASE tar \in Wide
    <2>1. PICK k : k = Into(n, 2, 3) OBVIOUS
    <2>2. k \in Reached(n, {}, {}) /\ k.res.r1 = 2 /\ k.res.r2 = 3 /\ k.reg = n.reg
      BY <1>0, <2>1, ReachedInto, mips_Regs
    <2>3. k \in Gen /\ tar \in Vars BY <1>0, <1>2, <2>2, ReachedIs, CGenRegsAssumption
    <2>4. PICK q : q = Computes2(k, tar) OBVIOUS
    <2>5. q \in Emitted(k) BY <2>2, <2>3, <2>4, EmittedSelf, Computes2Emits, mips_Regs
    <2>6. q \in Reached(n, {}, {}) /\ q.res = k.res /\ q.reg = k.reg BY <1>0, <2>2, <2>5, ReachedEmitted
    <2>7. Going(q, tar, {}, {}) BY <2>6, GoingReached
    <2>8. 2 \in Regs /\ 3 \in Regs /\ 2 # 3 /\ 2 \in MipsVars /\ 3 \in MipsVars BY mips_Regs
    <2>9. mips_Returned(n, tar) = mips_update_tar2(q, tar) BY <1>2, <2>1, <2>4 DEF mips_Returned
    <2> QED BY <1>2, <2>2, <2>6, <2>7, <2>8, <2>9, mips_Sets2
  <1>3. CASE tar \in Vars \ Wide
    <2>3. PICK k : k = Into(n, 2, None) OBVIOUS
    <2>4. k \in Reached(n, {}, {}) /\ k.res.r1 = 2 /\ k.reg = n.reg
      BY <1>0, <2>3, ReachedInto, mips_Regs
    <2>5. k \in States /\ k \in Gen BY <1>0, <2>4, ReachedIs
    <2>6. k \in Emitted(k) BY <2>5, EmittedSelf
    <2>7. PICK l : l = [k EXCEPT !.M[Area][1] = {}] OBVIOUS
    <2>8. l \in Emitted(k) BY <2>6, <2>7, AreaEmits
    <2>9. l.res.r1 = 2 BY <2>4, <2>8 DEF Emitted
    <2>10. PICK q : q = IF tar \in Structs THEN ComputesAt(l, tar, Area) ELSE Computes(k, tar) OBVIOUS
    <2>11. q \in Emitted(k)
      <3>1. Area \in Locs BY DEF Locs
      <3> QED BY <1>3, <2>4, <2>6, <2>8, <2>9, <2>10, <3>1, ComputesEmits, ComputesAtEmits, mips_Regs
    <2>12. q \in Reached(n, {}, {}) /\ q.res = k.res /\ q.reg = k.reg
      <3>1. PICK E : E = {} OBVIOUS
      <3>2. n \in States /\ E \in SUBSET Vars /\ k \in Reached(n, E, E) BY <1>0, <2>4, <3>1
      <3>3. q \in Reached(n, E, E) /\ q.res = k.res /\ q.reg = k.reg BY <2>11, <3>2, ReachedEmitted
      <3> QED BY <3>1, <3>3
    <2>13. Going(q, tar, {}, {}) BY <2>12, GoingReached
    <2>14. mips_Returned(n, tar) = mips_update_tar(q, tar) BY <1>3, <2>3, <2>7, <2>10 DEF mips_Returned
    <2>15. q.res.r1 \in Regs \cap MipsVars /\ q.reg[q.res.r1] = NoVar BY <2>4, <2>12, mips_Regs
    <2> QED BY <1>3, <2>13, <2>14, <2>15, mips_Sets
  <1> QED BY <1>1, <1>2, <1>3

LEMMA mips_CallRight == ASSUME mips_Runs, NEW tar \in Vars \cup {NoVar}, mips_call(tar) PROVE IInv'
  <1>1. PICK m, c :
          /\ m \in Marks(tar, {}, AddrTaken \cup Statics)
          /\ Enabled("mips", "call") /\ c = mips_spill_all(m) /\ Commit(mips_Returned(mips_Call(c), tar))
    BY DEF mips_call
  <1>2. AddrTaken \cup Statics \subseteq Crossing /\ {} \in SUBSET Vars BY CGenAssumption
  <1>3. /\ target = "mips" /\ "mips" \in Targets /\ Going(m, tar, {}, {}) /\ m \in States /\ m.pinned = {}
    BY <1>1, <1>2, mips_Begin
  <1>4. c \in Reached(m, {}, {}) /\ \A r \in Regs : c.reg[r] = NoVar
    BY <1>1, <1>2, <1>3, mips_SpillAllRight, ReachedSelf, ReachedFewer
  <1>5. Going(c, tar, {}, {}) BY <1>2, <1>3, <1>4, GoingReached
  <1>6. Going(mips_Call(c), tar, {}, {}) /\ \A r \in Regs : mips_Call(c).reg[r] = NoVar BY <1>4, <1>5, mips_CallGoing
  <1> QED BY <1>1, <1>3, <1>6, mips_ReturnedRight

LEMMA mips_IndCallRight ==
  ASSUME mips_Runs, NEW tar \in Vars \cup {NoVar}, NEW a1 \in Vars, mips_indcall(tar, a1) PROVE IInv'
  <1>1. PICK m, c, l, d, u :
          /\ m \in Marks(tar, {a1}, AddrTaken \cup Statics)
          /\ Enabled("mips", "indcall")
          /\ c = mips_spill_all(m) /\ l = RightOpd(mips_get_operand(c, a1, FALSE), a1, 1) /\ d = mips_Call(l)
          /\ u = mips_update_args(d, tar, a1, Const) /\ Commit(mips_Returned(u, tar))
    BY DEF mips_indcall
  <1>2. PICK A : A = {a1} OBVIOUS
  <1>3. /\ AddrTaken \cup Statics \subseteq Crossing /\ A \in SUBSET Vars /\ A \subseteq {a1}
        /\ a1 \in A \cup {Const} /\ {a1} \subseteq {a1, Const}
    BY <1>2, CGenAssumption
  <1>4. /\ target = "mips" /\ "mips" \in Targets /\ Going(m, tar, {a1}, {}) /\ m \in States /\ m.pinned = {}
    BY <1>1, <1>3, mips_Begin
  <1>5. c \in Fewer(m) /\ \A r \in Regs : c.reg[r] = NoVar BY <1>1, <1>4, mips_SpillAllRight
  <1>6. c \in States /\ c.pinned = {} BY <1>4, <1>5, FewerIs
  <1>7. c \in Reached(m, A, {}) BY <1>3, <1>4, <1>5, ReachedSelf, ReachedFewer
  <1>8. l \in Still(c, A)
    <2>1. c \in Still(c, A) BY <1>3, <1>6, StillSelf
    <2>2. ~ (MipsPool \subseteq c.pinned) BY <1>6, mips_Regs
    <2> QED BY <1>1, <1>3, <1>6, <2>1, <2>2, mips_OperandRightStill
  <1>9. l \in Reached(m, A, {}) BY <1>3, <1>4, <1>7, <1>8, ReachedStill
  <1>10. \A r \in Regs : l.reg[r] = NoVar
    <2>1. l \in After(c, A) BY <1>3, <1>6, <1>8, StillIs
    <2>2. \A r \in Regs : l.reg[r] \in {c.reg[r], NoVar} BY <1>3, <1>6, <2>1, AfterIs
    <2> QED BY <1>5, <2>2
  <1>11. Going(l, tar, {a1, Const}, {}) BY <1>3, <1>4, <1>9, GoingReached
  <1>12. Going(d, tar, {a1, Const}, {}) /\ \A r \in Regs : d.reg[r] = NoVar BY <1>1, <1>10, <1>11, mips_CallGoing
  <1>13. Going(u, tar, {}, {}) BY <1>1, <1>4, <1>12, mips_ArgsGoing
  <1>14. \A r \in Regs : u.reg[r] = NoVar
    <2>1. Const \in Vars \cup {Const} /\ a1 \in Vars \cup {Const} OBVIOUS
    <2>2. ASSUME NEW r \in Regs PROVE mips_update_args(d, tar, a1, Const).reg[r] = NoVar
      BY <1>4, <1>12, <2>1, mips_ArgsFree
    <2> QED BY <1>1, <2>2
  <1> QED BY <1>1, <1>4, <1>13, <1>14, mips_ReturnedRight

-----------------------------------------------------------------------------
(* mips_cgen.c: calls of library functions                                  *)

LEMMA mips_LibCallStill ==
  ASSUME NEW m \in States, NEW A \in SUBSET Vars, NEW n \in Still(m, A), NEW before \in Gen
  PROVE  mips_LibCall(n, before) \in Still(m, A) /\ \A r \in Regs : mips_LibCall(n, before).reg[r] = NoVar
  <1>1. n \in States BY StillIs
  <1>2. PICK s : s = mips_spill_all(n) OBVIOUS
  <1>3. s \in Fewer(n) /\ \A r \in Regs : s.reg[r] = NoVar BY <1>1, <1>2, mips_SpillAllRight
  <1>4. s \in Still(m, A) BY <1>3, StillThenFewer
  <1>5. s \in Gen BY <1>4, StillIs DEF States
  <1>6. PICK c : c = Clobber(s, MipsCallerSave) OBVIOUS
  <1>7. c \in Emitted(s) BY <1>5, <1>6, EmittedSelf, ClobberEmits, mips_Regs
  <1>8. mips_LibCall(n, before) \in Emitted(s)
    BY <1>2, <1>6, <1>7, ContentsEmit DEF mips_LibCall, mips_restore_arg_regs
  <1>9. mips_LibCall(n, before).reg = s.reg BY <1>8 DEF Emitted
  <1> QED BY <1>3, <1>4, <1>8, <1>9, StillThenEmitted

\* The result is in $2, or in $2 and $3.
LEMMA mips_LibResult ==
  ASSUME target = "mips", "mips" \in Targets, NEW tar \in Vars, NEW a1 \in Vars \cup {Const},
         NEW a2 \in Vars \cup {Const}, NEW m, Going(m, tar, {a1, a2}, {}), NEW A \in SUBSET Vars, A \subseteq {a1, a2},
         NEW n \in Still(m, A), \A r \in Regs : n.reg[r] = NoVar,
         IF tar \in Wide THEN Commit(mips_UPDATE_ADDRESSES2(Computes2(Into(n, 2, 3), tar), tar, a1, a2))
                         ELSE Commit(mips_UPDATE_ADDRESSES(Computes(Into(n, 2, None), tar), tar, a1, a2))
  PROVE  IInv'
  <1>1. m \in States /\ m.pinned = {} BY GoingIs
  <1>2. n \in Reached(m, A, {}) BY <1>1, ReachedSelf, ReachedStill
  <1>3. 2 \in Regs /\ 3 \in Regs /\ 2 \in MipsVars /\ 3 \in MipsVars /\ 2 # 3 BY mips_Regs
  <1>4. PICK k : k = IF tar \in Wide THEN Into(n, 2, 3) ELSE Into(n, 2, None) OBVIOUS
  <1>5. k \in Reached(m, A, {}) /\ k.res.r1 = 2 /\ (tar \in Wide => k.res.r2 = 3) /\ k.reg = n.reg
    BY <1>1, <1>2, <1>3, <1>4, ReachedInto
  <1>6. k \in States /\ k \in Gen BY <1>1, <1>5, ReachedIs
  <1>7. PICK q : q = IF tar \in Wide THEN Computes2(k, tar) ELSE Computes(k, tar) OBVIOUS
  <1>8. q \in Emitted(k) BY <1>3, <1>5, <1>6, <1>7, EmittedSelf, ComputesEmits, Computes2Emits
  <1>9. k \in Still(k, A) BY <1>6, StillSelf
  <1>10. \A r \in Regs : Free(k, r, a1, Live1(m, tar, a1)) BY <1>5 DEF Free
  <1>11. CASE tar \in Wide
    <2>1. Ready2(k, a1, Live1(m, tar, a1), MipsVars) BY <1>3, <1>5, <1>10, <1>11 DEF Ready2, Ready
    <2>2. Commit(mips_UPDATE_ADDRESSES2(q, tar, a1, a2)) BY <1>4, <1>7, <1>11
    <2> QED BY <1>5, <1>8, <1>9, <1>11, <2>1, <2>2, mips_Computed2
  <1>12. CASE tar \notin Wide
    <2>1. Ready(k, a1, Live1(m, tar, a1), MipsVars) BY <1>3, <1>5, <1>10 DEF Ready
    <2>2. Commit(mips_UPDATE_ADDRESSES(q, tar, a1, a2)) BY <1>4, <1>7, <1>12
    <2> QED BY <1>5, <1>8, <1>9, <1>12, <2>1, <2>2, mips_Computed
  <1> QED BY <1>11, <1>12

LEMMA mips_LibcallRight ==
  ASSUME mips_Runs, NEW tar \in Vars, NEW a1 \in Wide \cup {Const}, NEW a2 \in Vars \cup {Const},
         mips_do_libcall(tar, a1, a2)
  PROVE  IInv'
  <1>1. PICK m, l1, l2, n :
          /\ m \in Marks(tar, {a1, a2}, {}) /\ Enabled("mips", "do_libcall")
          /\ l1 = mips_LoadArg2(m, Pair(4, 5), a1)
          /\ l2 = IF a2 \in Wide \cup {Const} THEN mips_LoadArg2(l1, Pair(6, 7), a2) ELSE mips_LoadArg(l1, 6, a2)
          /\ n = mips_LibCall(l2, m)
          /\ IF tar \in Wide THEN Commit(mips_UPDATE_ADDRESSES2(Computes2(Into(n, 2, 3), tar), tar, a1, a2))
                             ELSE Commit(mips_UPDATE_ADDRESSES(Computes(Into(n, 2, None), tar), tar, a1, a2))
    BY DEF mips_do_libcall
  <1>2. PICK A : A = Named(a1, a2) OBVIOUS
  <1>3. /\ A \in SUBSET Vars /\ A \subseteq {a1, a2} /\ a1 \in A \cup {Const} /\ a2 \in A \cup {Const}
        /\ a1 \in Vars \cup {Const}
    BY <1>2, NamedIs, CGenRegsAssumption
  <1>4. /\ target = "mips" /\ "mips" \in Targets /\ Going(m, tar, {a1, a2}, {}) /\ m \in States /\ Only(m, MipsVars)
    BY <1>1, mips_Begin
  <1>5. m \in Still(m, A) BY <1>3, <1>4, StillSelf
  <1>6. l1 \in Still(m, A) BY <1>1, <1>3, <1>4, <1>5, mips_LoadArg2Still, mips_Regs
  <1>7. l2 \in Still(m, A) BY <1>1, <1>3, <1>4, <1>6, mips_LoadArg2Still, mips_LoadArgStill, mips_Regs
  <1>8. m \in Gen BY <1>4 DEF States
  <1>9. n \in Still(m, A) /\ \A r \in Regs : n.reg[r] = NoVar
    BY <1>1, <1>3, <1>4, <1>7, <1>8, mips_LibCallStill
  <1> QED BY <1>1, <1>3, <1>4, <1>9, mips_LibResult

-----------------------------------------------------------------------------
(* mips_cgen.c: arguments                                                   *)

\* Word k is in register $(4 + k).
LEMMA mips_ArgRegs == \A k \in 0 .. 3 : FirstArg + k \in Regs \ MipsVars
  <1>1. 0 .. 3 = {0, 1, 2, 3} OBVIOUS
  <1>2. FirstArg + 0 = 4 /\ FirstArg + 1 = 5 /\ FirstArg + 2 = 6 /\ FirstArg + 3 = 7 BY mips_Regs
  <1> QED BY <1>1, <1>2, mips_Regs

LEMMA mips_ArgWordStill ==
  ASSUME NEW m \in States, NEW a1 \in Vars, m.args \in Nat PROVE mips_ArgWord(m, a1) \in Still(m, {a1})
  <1>1. PICK A : A = {a1} OBVIOUS
  <1>2. A \in SUBSET Vars /\ a1 \in A \cup {Const} BY <1>1
  <1>3. m \in Still(m, A) BY <1>2, StillSelf
  <1>4. CASE m.args < 4
    <2>1. PICK k \in 0 .. 3 : k = m.args BY <1>4
    <2>2. PICK r \in Regs : r = FirstArg + k BY <2>1, mips_ArgRegs
    <2>3. PICK l : l = mips_LoadArg(m, r, a1) OBVIOUS
    <2>4. l \in Still(m, A) BY <1>2, <1>3, <2>2, <2>3, mips_LoadArgStill
    <2>5. l \in Gen BY <1>2, <2>4, StillIs DEF States
    <2>6. Passes(l, r, k) \in Emitted(l) BY <2>1, <2>2, <2>5, EmittedSelf, PassesEmits
    <2>7. mips_ArgWord(m, a1) = Passes(l, r, k) BY <1>4, <2>1, <2>2, <2>3 DEF mips_ArgWord
    <2> QED BY <1>1, <1>2, <2>4, <2>6, <2>7, StillThenEmitted
  <1>5. CASE ~(m.args < 4) /\ InReg(m, a1)
    <2>1. mips_ArgWord(m, a1) = RightIn(m, addr_reg1(m, a1), a1, 1) BY <1>5 DEF mips_ArgWord
    <2> QED BY <1>1, <1>2, <1>3, <2>1, RightInStill
  <1>6. CASE ~(m.args < 4) /\ ~InReg(m, a1)
    <2>1. mips_ArgWord(m, a1) = mips_LoadArg(m, Scratch, a1) BY <1>6 DEF mips_ArgWord
    <2> QED BY <1>1, <1>2, <1>3, <2>1, mips_LoadArgStill, mips_Regs
  <1> QED BY <1>4, <1>5, <1>6

LEMMA mips_FirstInt == FirstArg \in Int BY DEF FirstArg

LEMMA mips_ArgPairStill ==
  ASSUME NEW m \in States, Only(m, MipsVars), m.pinned = {}, Roomy4(MipsPool), NEW a1 \in Wide,
         NEW k \in Nat, k # 1, k # 3
  PROVE  mips_ArgPair(m, k, a1) \in Still(m, {a1})
  <1>1. PICK A : A = {a1} OBVIOUS
  <1>2. A \in SUBSET Vars /\ a1 \in A \cup {Const} /\ a1 \in Wide \cup {Const} BY <1>1, CGenRegsAssumption
  <1>3. m \in Still(m, A) BY <1>2, StillSelf
  <1>4. CASE k < 4
    <2>1. k \in 0 .. 3 /\ k + 1 \in 0 .. 3 BY <1>4
    <2>2. PICK r \in Regs \ MipsVars : r = FirstArg + k BY <2>1, mips_ArgRegs
    <2>3. PICK s \in Regs \ MipsVars : s = FirstArg + k + 1
      <3>1. FirstArg + (k + 1) \in Regs \ MipsVars BY <2>1, mips_ArgRegs
      <3>2. FirstArg + (k + 1) = FirstArg + k + 1 BY mips_Regs
      <3> QED BY <3>1, <3>2
    <2>4. PICK l : l = mips_LoadArg2(m, Pair(r, s), a1) OBVIOUS
    <2>5. l \in Still(m, A) BY <1>2, <1>3, <2>2, <2>3, <2>4, mips_LoadArg2Still
    <2>6. l \in Gen BY <1>2, <2>5, StillIs DEF States
    <2>7. PICK p : p = Passes(l, r, k) OBVIOUS
    <2>8. p \in Emitted(l) BY <2>1, <2>2, <2>6, <2>7, EmittedSelf, PassesEmits
    <2>9. Passes(p, s, k + 1) \in Emitted(l) BY <2>1, <2>3, <2>8, PassesEmits
    <2>10. mips_ArgPair(m, k, a1) = Passes(p, s, k + 1) BY <1>4, <2>2, <2>3, <2>4, <2>7 DEF mips_ArgPair
    <2> QED BY <1>1, <1>2, <2>5, <2>9, <2>10, StillThenEmitted
  <1>5. CASE ~(k < 4)
    <2>1. PICK r \in Regs : r = 2 BY mips_Regs
    <2>2. m.pinned \subseteq {r, r, r} OBVIOUS
    <2>3. PICK g : g = mips_get_operand2(m, a1) OBVIOUS
    <2>4. g \in Still(m, A) BY <1>2, <2>2, <2>3, mips_Operand2Still
    <2>5. g \in Gen BY <1>2, <2>4, StillIs DEF States
    <2>6. mips_ReadPair(g, a1) \in Emitted(g) BY <2>5, EmittedSelf, RightEmits DEF mips_ReadPair
    <2>7. mips_ArgPair(m, k, a1) = mips_ReadPair(g, a1) BY <1>5, <2>3 DEF mips_ArgPair
    <2> QED BY <1>1, <1>2, <2>4, <2>6, <2>7, StillThenEmitted
  <1> QED BY <1>4, <1>5

LEMMA mips_ArgStructStill ==
  ASSUME NEW m \in States, NEW a1 \in Vars, NEW k \in Nat, NEW size \in Nat
  PROVE  mips_ArgStruct(m, k, size, a1) \in Still(m, {a1})
  <1>1. PICK A : A = {a1} OBVIOUS
  <1>2. A \in SUBSET Vars /\ a1 \in A \cup {Const} BY <1>1
  <1>3. PICK l : l = mips_LoadArg(m, Scratch, a1) OBVIOUS
  <1>4. l \in Still(m, A) BY <1>2, <1>3, StillSelf, mips_LoadArgStill, mips_Regs
  <1>5. l \in Gen BY <1>2, <1>4, StillIs DEF States
  <1>6. CASE k + size <= 4
    <2>1. k .. k + size - 1 \in SUBSET (0 .. 3) BY <1>6
    <2>2. PassesWords(l, FirstArg, k .. k + size - 1) \in Emitted(l) BY <1>5, <2>1, EmittedSelf, PassesWordsEmits, mips_FirstInt
    <2>3. mips_ArgStruct(m, k, size, a1) = PassesWords(l, FirstArg, k .. k + size - 1) BY <1>3, <1>6 DEF mips_ArgStruct
    <2> QED BY <1>1, <1>2, <1>4, <2>2, <2>3, StillThenEmitted
  <1>7. CASE ~(k + size <= 4)
    <2>1. k .. 3 \in SUBSET (0 .. 3) OBVIOUS
    <2>2. PICK p : p = PassesWords(l, FirstArg, k .. 3) OBVIOUS
    <2>3. p \in Emitted(l) BY <1>5, <2>1, <2>2, EmittedSelf, PassesWordsEmits, mips_FirstInt
    <2>4. Clobber(p, {Scratch}) \in Emitted(l) BY <2>3, ClobberEmits, mips_Regs
    <2>5. mips_ArgStruct(m, k, size, a1) = Clobber(p, {Scratch}) BY <1>3, <1>7, <2>2 DEF mips_ArgStruct
    <2> QED BY <1>1, <1>2, <1>4, <2>4, <2>5, StillThenEmitted
  <1> QED BY <1>6, <1>7

\* The words of the argument are counted.
LEMMA mips_Passed ==
  ASSUME target = "mips", "mips" \in Targets, NEW a1 \in Vars, NEW m, Going(m, NoVar, {a1}, {}),
         NEW n \in Still(m, {a1}), NEW j \in 0 .. MaxArgs + 4, Commit(mips_update_args([n EXCEPT !.args = j], NoVar, a1, Const))
  PROVE  IInv'
  <1>1. PICK A : A = {a1} OBVIOUS
  <1>2. /\ A \in SUBSET Vars /\ A \subseteq {a1} /\ {a1} \subseteq {a1, Const} /\ m \in States /\ m.pinned = {}
        /\ Const \in Vars \cup {Const} /\ a1 \in Vars \cup {Const}
    BY <1>1, GoingIs
  <1>3. m \in Reached(m, A, {}) BY <1>2, ReachedSelf
  <1>4. n \in Reached(m, A, {}) BY <1>1, <1>2, <1>3, ReachedStill
  <1>5. Going(n, NoVar, {a1, Const}, {}) BY <1>2, <1>4, GoingReached
  <1>6. Going([n EXCEPT !.args = j], NoVar, {a1, Const}, {}) BY <1>5, GoingArgs
  <1> QED BY <1>2, <1>6, mips_Uses

LEMMA mips_ArgRight ==
  ASSUME mips_Runs, NEW a1 \in Vars, NEW size \in {1, 4}, NEW align \in {1, 2}, mips_arg(a1, size, align) PROVE IInv'
  <1>1. PICK m, k, w, m1 :
          /\ m \in Marks(NoVar, {a1}, {}) /\ Enabled("mips", "arg")
          /\ w = (IF a1 \in Wide THEN 2 ELSE align) /\ k = RoundUp(arg_words, w)
          /\ m1 = IF a1 \in Structs THEN mips_Words(mips_ArgStruct(m, k, size, a1), k, size)
                  ELSE IF a1 \in Wide THEN mips_Words(mips_ArgPair(m, k, a1), k, 2)
                  ELSE mips_Words(mips_ArgWord(m, a1), arg_words, 1)
          /\ arg_words < MaxArgs /\ Commit(mips_update_args(m1, NoVar, a1, Const))
    BY DEF mips_arg
  <1>2. /\ target = "mips" /\ "mips" \in Targets /\ Going(m, NoVar, {a1}, {}) /\ m.args = arg_words /\ m \in States
        /\ m.pinned = {} /\ Only(m, MipsVars)
    BY <1>1, mips_Begin
  <1>3. MaxArgs \in Nat /\ arg_words \in Nat
    <2>1. m.args \in 0 .. MaxArgs + 4 BY <1>2 DEF Going
    <2> QED BY <1>2, <2>1, CGenAssumption
  <1>4. w \in {1, 2} BY <1>1
  <1>5. k \in Nat /\ k <= arg_words + 1 /\ (a1 \in Wide => k # 1 /\ k # 3) BY <1>1, <1>3, <1>4, RoundUpIs
  <1>6. /\ k + size \in 0 .. MaxArgs + 4 /\ k + 2 \in 0 .. MaxArgs + 4 /\ arg_words + 1 \in 0 .. MaxArgs + 4
        /\ size \in Nat
    BY <1>1, <1>3, <1>5
  <1>7. CASE a1 \in Structs
    <2>1. PICK n : n = mips_ArgStruct(m, k, size, a1) OBVIOUS
    <2>2. n \in Still(m, {a1}) BY <1>2, <1>5, <1>6, <2>1, mips_ArgStructStill
    <2>3. m1 = [n EXCEPT !.args = k + size] BY <1>1, <1>7, <2>1 DEF mips_Words
    <2> QED BY <1>1, <1>2, <1>6, <2>2, <2>3, mips_Passed
  <1>8. CASE a1 \notin Structs /\ a1 \in Wide
    <2>1. PICK n : n = mips_ArgPair(m, k, a1) OBVIOUS
    <2>2. n \in Still(m, {a1}) BY <1>2, <1>5, <1>8, <2>1, mips_ArgPairStill DEF mips_Runs
    <2>3. m1 = [n EXCEPT !.args = k + 2] BY <1>1, <1>8, <2>1 DEF mips_Words
    <2> QED BY <1>1, <1>2, <1>6, <2>2, <2>3, mips_Passed
  <1>9. CASE a1 \notin Structs /\ a1 \notin Wide
    <2>1. PICK n : n = mips_ArgWord(m, a1) OBVIOUS
    <2>2. n \in Still(m, {a1}) BY <1>2, <1>3, <2>1, mips_ArgWordStill
    <2>3. m1 = [n EXCEPT !.args = arg_words + 1] BY <1>1, <1>9, <2>1 DEF mips_Words
    <2> QED BY <1>1, <1>2, <1>6, <2>2, <2>3, mips_Passed
  <1> QED BY <1>7, <1>8, <1>9

LEMMA mips_ArgAreaRight == ASSUME mips_Runs, mips_arg_area PROVE IInv'
  <1>1. PICK m \in Marks(NoVar, {}, {}) :
          Enabled("mips", "arg") /\ MaxArgs > 0 /\ Commit(mips_Words(Passes(m, FirstArg, 0), 0, 1))
    BY DEF mips_arg_area
  <1>2. {} \subseteq Crossing /\ {} \in SUBSET Vars OBVIOUS
  <1>3. target = "mips" /\ "mips" \in Targets /\ Going(m, NoVar, {}, {}) /\ m \in States /\ m.pinned = {}
    BY <1>1, <1>2, mips_Begin
  <1>4. m \in Reached(m, {}, {}) BY <1>2, <1>3, ReachedSelf
  <1>5. m \in Gen BY <1>3 DEF States
  <1>6. PICK p : p = Passes(m, FirstArg, 0) OBVIOUS
  <1>7. p \in Emitted(m) BY <1>5, <1>6, EmittedSelf, PassesEmits, mips_Regs
  <1>8. p \in Reached(m, {}, {}) BY <1>2, <1>3, <1>4, <1>7, ReachedEmitted
  <1>9. Going(p, NoVar, {}, {}) BY <1>2, <1>3, <1>8, GoingReached
  <1>10. 1 \in 0 .. MaxArgs + 4 BY <1>1, CGenAssumption
  <1>11. Going([p EXCEPT !.args = 1], NoVar, {}, {}) BY <1>9, <1>10, GoingArgs
  <1>12. mips_Words(p, 0, 1) = [p EXCEPT !.args = 1] BY DEF mips_Words
  <1> QED BY <1>1, <1>3, <1>6, <1>11, <1>12, mips_Ends

-----------------------------------------------------------------------------
(* mips_cgen.c: the ends of blocks and functions                            *)

LEMMA mips_ReturnStructStill ==
  ASSUME NEW m \in States, NEW A \in SUBSET Vars, NEW a1 \in A PROVE mips_ReturnStruct(m, a1) \in Still(m, A)
  <1>1. mips_LoadArg(m, Scratch, a1) \in Still(m, A) BY StillSelf, mips_LoadArgStill, mips_Regs
  <1> QED BY <1>1, ClobberStill, mips_Regs DEF mips_ReturnStruct

\* A pair is returned in $2 and $3, unless load2() finds it where it does not expect it.
LEMMA mips_RetPairRight ==
  ASSUME mips_Runs, Enabled("mips", "ret2"), NEW a1 \in Wide, NEW m, m \in Marks(NoVar, {a1}, {}),
         NEW m1, m1 = mips_LoadArg2(m, Pair(2, 3), a1), Commit(mips_update_args(m1, NoVar, a1, Const))
  PROVE  IInv'
  <1>1. PICK A : A = {a1} OBVIOUS
  <1>2. /\ A \in SUBSET Vars /\ A \subseteq {a1} /\ a1 \in A /\ {a1} \subseteq {a1, Const} /\ a1 \in Vars
        /\ a1 # Const
    BY <1>1, CGenRegsAssumption
  <1>3. target = "mips" /\ "mips" \in Targets /\ Going(m, NoVar, {a1}, {}) /\ m \in States /\ m.pinned = {}
    BY mips_Begin
  <1>4. PICK d : d = Pair(2, 3) OBVIOUS
  <1>5. d.r1 \in Regs /\ d.r2 \in Regs BY <1>4, mips_Regs DEF Pair
  <1>6. CASE InReg(m, a1) => PairExpected(m.addr[a1], d, a1)
    <2>1. m1 \in Stored(m, A) BY <1>2, <1>3, <1>4, <1>5, <1>6, mips_LoadedPair DEF mips_LoadArg2
    <2>2. m1 \in Reached(m, A, {}) BY <1>2, <1>3, <2>1, ReachedSelf, ReachedStored
    <2> QED BY <1>2, <1>3, <2>2, mips_Read
  <1>7. CASE InReg(m, a1) /\ ~PairExpected(m.addr[a1], d, a1)
    <2>1. Misplaced BY <1>3 DEF Misplaced, Enabled
    <2>2. PICK f : f = Fault(m, "assert", FALSE) OBVIOUS
    <2>3. Going(f, NoVar, {a1}, {}) BY <1>3, <2>1, <2>2, GoingFaulty
    <2>4. f \in States /\ f \in Gen /\ f.pinned = {} BY <2>3, GoingIs DEF States
    <2>5. m1 = RightIn2(f, d, a1) BY <1>2, <1>4, <1>7, <2>2 DEF mips_LoadArg2, mips_load2, Load2
    <2>6. m1 \in Emitted(f) BY <2>4, <2>5, EmittedSelf, RightEmits
    <2>7. m1 \in Reached(f, A, {}) BY <1>2, <2>4, <2>6, ReachedSelf, ReachedEmitted
    <2> QED BY <1>2, <1>3, <2>3, <2>7, mips_Read
  <1> QED BY <1>6, <1>7

LEMMA mips_RetRight == ASSUME mips_Runs, NEW a1 \in Vars, mips_ret(a1) PROVE IInv'
  <1>1. PICK m, m1 :
          /\ m \in Marks(NoVar, {a1}, {})
          /\ Enabled("mips", IF a1 \in Wide THEN "ret2" ELSE "ret")
          /\ m1 = IF a1 \in Wide THEN mips_LoadArg2(m, Pair(2, 3), a1)
                  ELSE IF a1 \in Structs THEN mips_ReturnStruct(m, a1) ELSE mips_LoadArg(m, 2, a1)
          /\ Commit(mips_update_args(m1, NoVar, a1, Const))
    BY DEF mips_ret
  <1>2. CASE a1 \in Wide BY <1>1, <1>2, mips_RetPairRight
  <1>3. CASE a1 \notin Wide
    <2>1. PICK A : A = {a1} OBVIOUS
    <2>2. A \in SUBSET Vars /\ A \subseteq {a1} /\ a1 \in A /\ {a1} \subseteq {a1, Const} BY <2>1
    <2>3. target = "mips" /\ "mips" \in Targets /\ Going(m, NoVar, {a1}, {}) /\ m \in States /\ m.pinned = {}
      BY <1>1, mips_Begin
    <2>4. m \in Still(m, A) BY <2>2, <2>3, StillSelf
    <2>5. mips_ReturnStruct(m, a1) \in Still(m, A) /\ mips_LoadArg(m, 2, a1) \in Still(m, A)
      BY <2>2, <2>3, <2>4, mips_ReturnStructStill, mips_LoadArgStill, mips_Regs
    <2>6. m1 \in Still(m, A) BY <1>1, <1>3, <2>5
    <2>7. m1 \in Reached(m, A, {}) BY <2>2, <2>3, <2>6, ReachedSelf, ReachedStill
    <2> QED BY <1>1, <2>2, <2>3, <2>7, mips_Read
  <1> QED BY <1>2, <1>3

LEMMA mips_CbrRight == ASSUME mips_Runs, NEW a1 \in Vars, mips_cbr(a1) PROVE IInv'
  <1>1. PICK m, k, m1 :
          /\ m \in Marks(NoVar, {a1}, {})
          /\ Enabled("mips", "cbr") /\ k = mips_Loaded2(m, NoVar, a1)
          /\ m1 = IF a1 \in Wide THEN Clobber(k, {k.res.r1}) ELSE RightRes(mips_Loaded(m, NoVar, a1), a1)
          /\ Commit(mips_update_args(m1, NoVar, a1, Const))
    BY DEF mips_cbr, mips_OrWords
  <1>2. PICK A : A = {a1} OBVIOUS
  <1>3. A \in SUBSET Vars /\ A \subseteq {a1} /\ a1 \in A /\ {a1} \subseteq {a1, Const} BY <1>2
  <1>4. /\ target = "mips" /\ "mips" \in Targets /\ Going(m, NoVar, {a1}, {}) /\ m \in States /\ m.pinned = {}
        /\ ~ (MipsPool \subseteq m.pinned) /\ Only(m, MipsVars)
    BY <1>1, mips_Begin
  <1>5. CASE a1 \in Wide
    <2>1. k \in Reached(m, A, {}) /\ Ready2(k, a1, Live1(m, NoVar, a1), MipsVars)
      BY <1>1, <1>3, <1>4, <1>5, mips_Loaded2Right DEF mips_Runs
    <2>2. k \in Gen BY <1>3, <1>4, <2>1, ReachedIs
    <2>3. k.res.r1 \in Regs BY <2>1 DEF Ready2, Ready, Free
    <2>4. {k.res.r1} \in SUBSET Int BY <2>3, RegsAre
    <2>5. m1 \in Emitted(k) BY <1>1, <1>5, <2>2, <2>4, EmittedSelf, ClobberEmits
    <2>6. m1 \in Reached(m, A, {}) BY <1>3, <1>4, <2>1, <2>5, ReachedEmitted
    <2> QED BY <1>1, <1>3, <1>4, <2>6, mips_Read
  <1>6. CASE a1 \notin Wide
    <2>1. PICK l : l = mips_Loaded(m, NoVar, a1) OBVIOUS
    <2>2. l \in Reached(m, A, {}) BY <1>3, <1>4, <2>1, mips_LoadedRight
    <2>3. l \in Gen BY <1>3, <1>4, <2>2, ReachedIs
    <2>4. m1 \in Emitted(l) BY <1>1, <1>6, <2>1, <2>3, EmittedSelf, RightEmits
    <2>5. m1 \in Reached(m, A, {}) BY <1>3, <1>4, <2>2, <2>4, ReachedEmitted
    <2> QED BY <1>1, <1>3, <1>4, <2>5, mips_Read
  <1> QED BY <1>5, <1>6

\* The value is compared after its variable has given up its registers.
LEMMA mips_SwitchedRight ==
  ASSUME target = "mips", "mips" \in Targets, NEW a1 \in Vars, NEW k, Going(k, NoVar, {a1, Const}, {}),
         NEW u, u = mips_update_args(k, NoVar, a1, Const), NEW n, u \in Gen /\ u.res = k.res => n \in Emitted(u), Commit(n)
  PROVE  IInv'
  <1>1. Going(u, NoVar, {}, {}) /\ u.res = k.res BY mips_ArgsGoing
  <1>2. u \in States /\ u \in Gen /\ u.pinned = {} BY <1>1, GoingIs DEF States
  <1>3. n \in Emitted(u) BY <1>1, <1>2
  <1>4. n \in Reached(u, {}, {}) BY <1>2, <1>3, ReachedSelf, ReachedEmitted
  <1>5. Going(n, NoVar, {}, {}) BY <1>1, <1>4, GoingReached
  <1> QED BY <1>5, mips_Ends

LEMMA mips_SwitchRight == ASSUME mips_Runs, NEW a1 \in Vars, mips_switch(a1) PROVE IInv'
  <1>1. PICK m, k, p, u, n :
          /\ m \in Marks(NoVar, {a1}, {})
          /\ Enabled("mips", "switch")
          /\ k = mips_InPlace(m, NoVar, a1) /\ p = mips_InPlace2(m, NoVar, a1)
          /\ u = mips_update_args(IF a1 \in Wide THEN p ELSE k, NoVar, a1, Const)
          /\ n = IF a1 \in Wide THEN RightIn2(u, u.res, a1)
                                ELSE Clobber(RightIn(u, u.res.r1, a1, 1), {u.res.r1})
          /\ Commit(n)
    BY DEF mips_switch, mips_Compare, mips_Compare2, RightRes
  <1>2. PICK A : A = {a1} OBVIOUS
  <1>3. A \in SUBSET Vars /\ A \subseteq {a1} /\ a1 \in A /\ {a1} \subseteq {a1, Const} BY <1>2
  <1>4. /\ target = "mips" /\ "mips" \in Targets /\ Going(m, NoVar, {a1}, {}) /\ m \in States /\ m.pinned = {}
        /\ ~ (MipsPool \subseteq m.pinned) /\ Only(m, MipsVars)
    BY <1>1, mips_Begin
  <1>5. CASE a1 \in Wide
    <2>1. p \in Reached(m, A, {})
      <3>1. CASE InReg(m, a1)
        <4>1. p = [m EXCEPT !.res = m.addr[a1]] BY <1>1, <3>1 DEF mips_InPlace2
        <4>2. m \in Gen /\ m.addr[a1] \in Pairs BY <1>4 DEF States, Gen
        <4>3. p \in Picked(m) /\ p.pinned = m.pinned BY <4>1, <4>2 DEF Picked, Gen
        <4>4. p \in After(m, A) BY <1>3, <1>4, <4>3, PickedAfter
        <4> QED BY <1>4, <4>3, <4>4 DEF Reached
      <3>2. CASE ~InReg(m, a1)
        <4>1. p = mips_Loaded2(m, NoVar, a1) BY <1>1, <3>2 DEF mips_InPlace2, mips_Loaded2
        <4> QED BY <1>3, <1>4, <1>5, <4>1, mips_Loaded2Right DEF mips_Runs
      <3> QED BY <3>1, <3>2
    <2>2. Going(p, NoVar, {a1, Const}, {}) BY <1>3, <1>4, <2>1, GoingReached
    <2>3. u \in Gen => n \in Emitted(u) BY <1>1, <1>5, EmittedSelf, RightEmits
    <2>4. u = mips_update_args(p, NoVar, a1, Const) /\ Commit(n) BY <1>1, <1>5
    <2> QED BY <1>4, <2>2, <2>3, <2>4, mips_SwitchedRight
  <1>6. CASE a1 \notin Wide
    <2>1. k \in Reached(m, A, {}) /\ k.res.r1 \in Regs BY <1>1, <1>3, <1>4, mips_InPlaceRight
    <2>2. Going(k, NoVar, {a1, Const}, {}) BY <1>3, <1>4, <2>1, GoingReached
    <2>3. ASSUME u \in Gen, u.res = k.res PROVE n \in Emitted(u)
      <3>1. {u.res.r1} \in SUBSET Int BY <2>1, <2>3, RegsAre
      <3>2. RightIn(u, u.res.r1, a1, 1) \in Emitted(u) BY <2>3, EmittedSelf, RightEmits
      <3> QED BY <1>1, <1>6, <3>1, <3>2, ClobberEmits
    <2>4. u = mips_update_args(k, NoVar, a1, Const) /\ Commit(n) BY <1>1, <1>6
    <2> QED BY <1>4, <2>2, <2>3, <2>4, mips_SwitchedRight
  <1> QED BY <1>5, <1>6

\* At the end of a function the pins are not reset: nothing is pinned.
LEMMA mips_FunctionEnds == ASSUME mips_Runs, mips_function_definition PROVE IInv'
  <1>1. IInv /\ target = "mips" BY DEF mips_Runs, mips_function_definition, Enabled
  <1>2. /\ cg \in States /\ cg \in Gen /\ cg.args \in 0 .. MaxArgs + 4 /\ ("assert" \in cg.faults => Misplaced)
        /\ cg.pinned = {} /\ target \in Targets
    BY <1>1, GoingIs DEF IInv, Going, States
  <1>3. PICK g : g = [r \in Regs |-> NoVar] OBVIOUS
  <1>4. PICK h : h = [v \in Vars |-> NoReg] OBVIOUS
  <1>5. PICK n : n = [cg EXCEPT !.reg = g, !.addr = h, !.temps = <<>>] OBVIOUS
  <1>6. Entry(n, {}) BY <1>3, <1>4, <1>5 DEF mips_function_definition
  <1>7. NoReg \in Pairs /\ NoReg.r1 = None /\ NoReg.r2 = None BY DEF NoReg, Pairs
  <1>8. g \in [Regs -> Vars \cup {NoVar}] /\ h \in [Vars -> Pairs] BY <1>3, <1>4, <1>7
  <1>9. <<>> \in Seq(Temps \cup {NoVar}) /\ Len(<<>>) = 0 /\ DOMAIN <<>> = {} OBVIOUS
  <1>10. /\ n \in Gen /\ n.reg = g /\ n.addr = h /\ n.pinned = {} /\ n.temps = <<>> /\ n.args = cg.args
         /\ n.faults = cg.faults
    BY <1>2, <1>5, <1>8, <1>9 DEF Gen
  <1>11. Agree(n) BY <1>3, <1>4, <1>7, <1>10, RegsAre, CGenRegsAssumption DEF Agree
  <1>12. OneSlot(n.temps) BY <1>9, <1>10, TempsFinite DEF OneSlot
  <1>13. n \in States BY <1>10, <1>11, <1>12 DEF States
  <1>14. \A v \in Vars : v \notin Busy(n) /\ v \notin Owners(n)
    BY <1>4, <1>7, <1>9, <1>10 DEF Busy, InReg, addr_reg1, Owners, HasSlot
  <1>15. \A r \in Regs : n.reg[r] = NoVar BY <1>3, <1>10
  <1>16. CalleeSave[target] \subseteq Regs BY <1>1, mips_Saves
  <1> QED BY <1>2, <1>6, <1>10, <1>13, <1>14, <1>15, <1>16, EntryKeeps

LEMMA mips_Step == ASSUME mips_Runs, mips_Next PROVE IInv'
  <1>1. /\ Const \notin Vars /\ Wide \subseteq Vars /\ Temps \subseteq Vars /\ Structs \subseteq Vars
        /\ Structs \cap Wide = {} /\ WordTemps \subseteq Vars \ Wide /\ WideTemps \subseteq Wide
        /\ Scalars \subseteq Vars /\ Pointers \subseteq Vars
        /\ \A p \in Ops2 : p[1] \in Vars \cup {Const} /\ p[2] \in Vars \cup {Const}
        /\ \A p \in WideOps : p[1] \in Wide \cup {Const} /\ p[2] \in Wide \cup {Const}
        /\ \A s \in StructKinds : s[1] \in {1, 4} /\ s[2] \in {1, 2}
    BY CGenRegsAssumption DEF WordTemps, WideTemps, Scalars, Pointers, Ops2, WideOps, StructKinds
  <1>2. CASE \E t \in WordTemps, p \in Ops2 :
               \E imm \in Kinds(p[2]) : mips_alu(t, p[1], p[2], imm)
    BY <1>1, <1>2, mips_AluRight
  <1>5. CASE \E t \in WideTemps, p \in WideOps :
               mips_add2(t, p[1], p[2]) \/ mips_sub2(t, p[1], p[2]) \/ mips_logic2(t, p[1], p[2])
    BY <1>1, <1>5, mips_Add2Right, mips_Sub2Right, mips_Logic2Right
  <1>6. CASE \/ \E t \in WordTemps \cup WideTemps, p \in WideOps : mips_do_libcall(t, p[1], p[2])
             \/ \E t \in WideTemps, a \in Wide, c \in Scalars \ Wide : mips_do_libcall(t, a, c)
    BY <1>1, <1>6, mips_LibcallRight
  <1>8. CASE \E t \in WordTemps, a \in Scalars : mips_unary(t, a) BY <1>1, <1>8, mips_UnaryRight
  <1>9. CASE \E t \in WideTemps : \/ \E a \in Wide : mips_unary2(t, a)
                                  \/ \E a \in Scalars \ Wide : mips_llx(t, a)
    BY <1>1, <1>9, mips_Unary2Right, mips_LlxRight
  <1>10. CASE \E t \in WordTemps : mips_addr_of(t) BY <1>1, <1>10, mips_AddrOfRight
  <1>11. CASE \/ \E t \in Wide, a \in Wide \cup {Const} : mips_asn(t, a)
              \/ \E t \in Scalars \ Wide, a \in Scalars \cup {Const} : mips_asn(t, a)
              \/ \E t \in Structs, a \in Structs : mips_asn(t, a)
    BY <1>1, <1>11, mips_AsnRight
  <1>12. CASE \E t \in Temps, a \in Pointers : mips_ind(t, a) BY <1>1, <1>12, mips_IndRight
  <1>13. CASE \E a \in Pointers, b \in Vars \cup {Const} : mips_ind_asn(a, b) BY <1>1, <1>13, mips_IndAsnRight
  <1>14. CASE \E t \in Temps \cup {NoVar} : mips_call(t) \/ \E a \in Pointers : mips_indcall(t, a)
    BY <1>1, <1>14, mips_CallRight, mips_IndCallRight
  <1>15. CASE \E a \in Vars : mips_ret(a) \/ \E s \in StructKinds : mips_arg(a, s[1], s[2])
    BY <1>1, <1>15, mips_ArgRight, mips_RetRight
  <1>16. CASE mips_arg_area BY <1>16, mips_ArgAreaRight
  <1>17. CASE \E a \in Scalars : mips_cbr(a) \/ mips_switch(a) BY <1>1, <1>17, mips_CbrRight, mips_SwitchRight
  <1>18. CASE mips_next_block
    <2>1. IInv /\ LastOfBlock(cg) /\ target = "mips" BY <1>18 DEF mips_Runs, mips_next_block, Enabled
    <2>2. CalleeSave[target] \subseteq Regs BY <2>1, mips_Saves
    <2> QED BY <1>18, <2>1, <2>2, NextBlock DEF mips_next_block
  <1>19. CASE mips_function_definition BY <1>19, mips_FunctionEnds
  <1> QED BY <1>2, <1>5, <1>6, <1>8, <1>9, <1>10, <1>11, <1>12, <1>13, <1>14, <1>15, <1>16, <1>17,
             <1>18, <1>19 DEF mips_Next

-----------------------------------------------------------------------------
(* Registers that the code may change                                      *)

\* Only the registers of the arguments are set apart.
LEMMA RiscIs ==
  /\ target = "arm" => FirstArgReg[target] = 0 /\ ArgRegs[target] = ArmArgs
  /\ target = "mips" => FirstArgReg[target] = FirstArg /\ ArgRegs[target] = MipsArgs
  /\ target \in {"arm", "mips"} => Watched[target] = {} /\ \A m, r : r \notin ArgRegs[target] => Ours(m, r)
  BY DEF FirstArgReg, ArgRegs, Watched, Ours, Noted, FirstArg, ArmArgs, MipsArgs

\* The arguments are gone.
LEMMA DropTidy ==
  ASSUME NEW m, NEW X, NEW o, Tidy(m, X, o), m.passed = {}, Watched[target] = {} PROVE Tidy(m, {}, o)
  BY DEF Tidy, Noted

LEMMA NoneTidy == ASSUME NEW m \in States, NEW o, Tidy(m, {}, o), m.args = 0 PROVE m.passed = {}
  <1>1. \A k \in m.passed : k \in 0 .. 3 /\ k < 0 BY DEF Tidy, Intact, States, Gen
  <1> QED BY <1>1

\* n comes from m by putting the words ks of an argument into their registers.
Passing(m, n, ks) ==
  /\ Form(n) /\ n.reg = m.reg /\ n.addr = m.addr /\ n.got = m.got /\ n.res = m.res /\ n.faults = m.faults
  /\ n.passed = m.passed \cup ks
  /\ \A k \in ks : <<Arg, k>> \in n.R[FirstArgReg[target] + k]
  /\ \A k \in m.passed \ ks : n.R[FirstArgReg[target] + k] = m.R[FirstArgReg[target] + k]

LEMMA PassingTidy ==
  ASSUME NEW m, NEW X, NEW o, Tidy(m, X, o), NEW ks, NEW n, Passing(m, n, ks), target \in {"arm", "mips"},
         \A k \in m.passed \ ks : FirstArgReg[target] + k \notin X,
         \A k \in m.passed \cup ks : k < n.args,
         \A k \in ks : FirstArgReg[target] + k \in ArgRegs[target] \cap Regs
  PROVE  Tidy(n, {}, n)
  <1>1. Watched[target] = {} BY RiscIs
  <1>2. \A k \in n.passed : Intact(n, k)
    <2> TAKE k \in n.passed
    <2>1. CASE k \in ks BY <2>1 DEF Passing, Intact
    <2>2. CASE k \in m.passed \ ks
      <3>1. Intact(m, k) BY <2>2 DEF Tidy
      <3> QED BY <2>2, <3>1 DEF Passing, Intact
    <2> QED BY <2>1, <2>2 DEF Passing
  <1> QED BY <1>1, <1>2 DEF Tidy, Passing, Ours, Noted

-----------------------------------------------------------------------------
(* arm_cgen.c                                                              *)

LEMMA arm_FreeRegs ==
  ASSUME target = "arm"
  PROVE  /\ Watched[target] = {} /\ ArgRegs[target] = ArmArgs /\ FirstArgReg[target] = 0
         /\ \A m : \A r \in ArmVars : Ours(m, r)
         /\ \A m : Ours(m, 4) /\ Ours(m, 5) /\ Ours(m, SCRATCH_REG) /\ Ours(m, LinkReg)
         /\ \A m : \A r \in ArmCallerSave : r \in ArgRegs[target] \/ Ours(m, r)
  BY RiscIs DEF ArmArgs, ArmVars, SCRATCH_REG, LinkReg, ArmCallerSave

LEMMA arm_StoreTidy ==
  ASSUME target = "arm", NEW m, NEW X, NEW o, Tidy(m, X, o), NEW r, NEW a
  PROVE  Tidy(arm_store(m, r, a), X, o) /\ Tidy(arm_store2(m, r, a), X, o)
  <1>1. \A n, S : Tidy(n, X, o) /\ S \subseteq {SCRATCH_REG, LinkReg} => Tidy(Clobber(n, S), X, o)
    <2> SUFFICES ASSUME NEW n, NEW S, Tidy(n, X, o), S \subseteq {SCRATCH_REG, LinkReg} PROVE Tidy(Clobber(n, S), X, o)
      OBVIOUS
    <2>1. \A q \in S : q \in X \/ Ours(n, q) BY arm_FreeRegs
    <2> QED BY <2>1, ClobberTidy
  <1>2. \A src, dst : Tidy(arm_memcpy(m, src, dst), X, o) BY <1>1, MemoryTidy DEF arm_memcpy
  <1> QED BY <1>1, <1>2, StoreTidy DEF arm_store, arm_store2

LEMMA arm_StoreVarTidy ==
  ASSUME target = "arm", NEW m, NEW X, NEW o, Tidy(m, X, o), NEW a PROVE Tidy(arm_StoreVar(m, a), X, o)
  BY arm_StoreTidy DEF arm_StoreVar

LEMMA arm_SpillTidy ==
  ASSUME target = "arm", NEW m, NEW X, NEW o, Tidy(m, X, o), NEW r PROVE Tidy(arm_spill_reg(m, r), X, o)
  BY arm_StoreVarTidy, ReleaseTidy DEF arm_spill_reg, SpillReg

LEMMA arm_SpillTheseTidy ==
  ASSUME target = "arm", NEW m \in States, NEW X, NEW o, Tidy(m, X, o), NEW S \in SUBSET Vars
  PROVE  Tidy(SpillThese(m, S, arm_spill_reg), X, o)
  <1>1. PICK f : SpillThese(m, S, arm_spill_reg) = f[LastReg] /\ arm_Loop(f, m, S) BY arm_Spilling
  <1>2. \A r \in 0 .. LastReg : Tidy(f[r - 1], X, o) => Tidy(f[r], X, o) BY <1>1, arm_SpillTidy DEF arm_Loop
  <1>3. PICK N \in Nat : N = LastReg BY LastRegIs
  <1>4. Tidy(f[N], X, o) BY <1>1, <1>2, <1>3, LoopTidy DEF arm_Loop
  <1> QED BY <1>1, <1>3, <1>4

LEMMA arm_AliasedTidy ==
  ASSUME target = "arm", NEW m \in States, NEW X, NEW o, Tidy(m, X, o)
  PROVE  Tidy(arm_spill_aliased_objects(m), X, o) /\ Tidy(arm_spill_all(m), X, o)
  <1>1. Aliased \subseteq Vars BY CGenRegsAssumption DEF Aliased, Ids
  <1> QED BY <1>1, arm_SpillTheseTidy DEF arm_spill_aliased_objects, arm_spill_all

LEMMA arm_Get0Tidy == ASSUME target = "arm", NEW m, NEW X, NEW o, Tidy(m, X, o) PROVE Tidy(arm_get_reg0(m), X, o)
  <1>1. \A r \in ArmVars : Tidy(arm_TakeEmpty(m, r), X, o) /\ Tidy(arm_TakeUsed(m, r), X, o)
    <2> TAKE r \in ArmVars
    <2>1. \A n : Ours(n, r) BY arm_FreeRegs
    <2>2. Tidy([m EXCEPT !.got = r], X, o) BY <2>1, ResTidy
    <2>3. Tidy(arm_TakeEmpty(m, r), X, o) BY <2>2, ModifiedTidy DEF arm_TakeEmpty
    <2>4. Tidy(Fault(m, "modified", r \in m.modified), X, o) BY FaultTidy
    <2>5. Tidy(arm_spill_reg(Fault(m, "modified", r \in m.modified), r), X, o) BY <2>4, arm_SpillTidy
    <2> QED BY <2>1, <2>3, <2>5, ResTidy DEF arm_TakeUsed
  <1>2. ArmPool \in SUBSET (Regs \cap ArmVars) /\ Regs \subseteq Nat BY arm_Regs, RegsAre
  <1>3. \A S \in SUBSET ArmPool : S # {} => Min(S) \in ArmVars
    <2> SUFFICES ASSUME NEW S \in SUBSET ArmPool, S # {} PROVE Min(S) \in ArmVars OBVIOUS
    <2>1. S \in SUBSET Nat BY <1>2
    <2>2. Min(S) \in S BY <2>1, MinIs
    <2> QED BY <1>2, <2>2
  <1>4. CASE ArmPool \subseteq m.pinned
    <2>1. Tidy([m EXCEPT !.got = 4], X, o) BY arm_FreeRegs, ResTidy
    <2> QED BY <1>4, <2>1, FaultTidy DEF arm_get_reg0
  <1>5. CASE ~ (ArmPool \subseteq m.pinned)
    <2>1. PICK p : p = Min(ArmPool \ m.pinned) OBVIOUS
    <2>2. PICK q : q = Min(EmptyRegs(m, ArmPool) \ m.pinned) OBVIOUS
    <2>3. p \in ArmVars /\ (~ (EmptyRegs(m, ArmPool) \subseteq m.pinned) => q \in ArmVars)
      BY <1>3, <1>5, <2>1, <2>2 DEF EmptyRegs
    <2> QED BY <1>1, <1>5, <2>1, <2>2, <2>3 DEF arm_get_reg0
  <1> QED BY <1>4, <1>5

LEMMA arm_GetRegTidy ==
  ASSUME target = "arm", NEW m, NEW X, NEW o, Tidy(m, X, o), NEW a \in Vars \cup {Const}, NEW live
  PROVE  /\ Tidy(arm_get_reg(m, a, live), X, o) /\ Tidy(GetReg2(m, a, live, arm_get_reg0), X, o)
         /\ Tidy(arm_get_reg2(m, a, live), X, o)
  <1>1. Tidy(arm_get_reg(m, a, live), X, o) BY arm_Get0Tidy, OwnTidy, ResTidy, GotTidy DEF arm_get_reg, GetReg, InReg
  <1>2. PICK n : n = PinRes(GetReg(m, a, live, arm_get_reg0)) OBVIOUS
  <1>3. Tidy(n, X, o) BY <1>1, <1>2, PinTidy DEF arm_get_reg
  <1>4. Tidy(HighReg(n, a, live, arm_get_reg0), X, o)
    <2>1. \A v \in Vars : Ours(n, addr_reg2(n, v)) BY <1>3, OwnTidy
    <2>2. \A r : Ours(n, r) => Tidy([n EXCEPT !.res.r2 = r], X, o) BY <1>3, ResTidy
    <2>3. Tidy(Got2(arm_get_reg0(n)), X, o) BY <1>3, arm_Get0Tidy, GotTidy
    <2> QED BY <2>1, <2>2, <2>3 DEF HighReg
  <1>5. PICK q : q = GetReg2(m, a, live, arm_get_reg0) OBVIOUS
  <1>6. Tidy(q, X, o) BY <1>2, <1>4, <1>5, PinTidy DEF GetReg2
  <1>7. Tidy(arm_Ordered(q), X, o) BY <1>6, OwnTidy, ResTidy DEF arm_Ordered, Into
  <1> QED BY <1>1, <1>5, <1>6, <1>7 DEF arm_get_reg2

LEMMA arm_LoadTidy ==
  ASSUME target = "arm", NEW m, NEW X, NEW o, Tidy(m, X, o), NEW r, r \in X \/ Ours(m, r), NEW a
  PROVE  Tidy(arm_load(m, r, a), X, o) /\ Tidy(arm_LoadArg(m, r, a), X, o)
  BY LoadTidy, RightTidy DEF arm_load, arm_LoadArg

LEMMA arm_Load2Tidy ==
  ASSUME target = "arm", NEW m, NEW X, NEW o, Tidy(m, X, o), NEW r, r.r1 \in X \/ Ours(m, r.r1), r.r2 \in X \/ Ours(m, r.r2),
         NEW a
  PROVE  Tidy(arm_load2(m, r, a), X, o) /\ Tidy(arm_LoadArg2(m, r, a), X, o)
  <1>1. PICK n : n = Clobber(m, {SCRATCH_REG}) OBVIOUS
  <1>2. Tidy(n, X, o) BY <1>1, arm_FreeRegs, ClobberTidy
  <1>3. (r.r1 \in X \/ Ours(n, r.r1)) /\ (r.r2 \in X \/ Ours(n, r.r2)) BY <1>1 DEF Clobber, Ours, Noted, Tidy, Form
  <1>4. Tidy(arm_load2(m, r, a), X, o) BY <1>1, <1>2, <1>3, Load2Tidy DEF arm_load2
  <1> QED BY <1>4, RightTidy DEF arm_LoadArg2

LEMMA arm_LoadResTidy ==
  ASSUME target = "arm", NEW m, NEW X, NEW o, Tidy(m, X, o), NEW a
  PROVE  Tidy(arm_LoadRes(m, a), X, o) /\ Tidy(arm_LoadRes2(m, a), X, o)
  BY OwnTidy, arm_LoadTidy, arm_Load2Tidy DEF arm_LoadRes, arm_LoadRes2, arm_LoadArg2

LEMMA arm_LoadedTidy ==
  ASSUME target = "arm", NEW m, NEW X, NEW o, Tidy(m, X, o), NEW tar, NEW a \in Vars \cup {Const}
  PROVE  /\ Tidy(arm_Loaded(m, tar, a), X, o) /\ Tidy(arm_Loaded2(m, tar, a), X, o) /\ Tidy(arm_LoadedLow(m, tar, a), X, o)
         /\ Tidy(arm_InPlace(m, tar, a), X, o) /\ Tidy(arm_InPlace2(m, tar, a), X, o)
  <1>1. Tidy(arm_Loaded(m, tar, a), X, o) BY arm_GetRegTidy, arm_LoadResTidy DEF arm_Loaded
  <1>2. Tidy(arm_Loaded2(m, tar, a), X, o) /\ Tidy(arm_LoadedLow(m, tar, a), X, o)
    BY arm_GetRegTidy, arm_LoadResTidy DEF arm_Loaded2, arm_LoadedLow
  <1>3. InReg(m, a) => a \in Vars BY DEF InReg
  <1>4. Tidy(arm_InPlace(m, tar, a), X, o) BY <1>1, <1>3, OwnTidy, ResTidy DEF arm_InPlace
  <1>5. InReg(m, a) => Tidy([m EXCEPT !.res = m.addr[a]], X, o) BY <1>3, OwnTidy, ResTidy
  <1> QED BY <1>1, <1>2, <1>4, <1>5 DEF arm_InPlace2

LEMMA arm_LoadGotTidy ==
  ASSUME target = "arm", NEW m, NEW X, NEW o, Tidy(m, X, o), NEW a PROVE Tidy(arm_LoadGot(arm_get_reg0(m), a), X, o)
  BY arm_Get0Tidy, OwnTidy, arm_LoadTidy DEF arm_LoadGot

LEMMA arm_OperandTidy ==
  ASSUME target = "arm", NEW m, NEW X, NEW o, Tidy(m, X, o), NEW a, NEW imm PROVE Tidy(arm_get_operand(m, a, imm), X, o)
  BY arm_LoadGotTidy, OperandTidy DEF arm_get_operand

LEMMA arm_Operand2Tidy ==
  ASSUME target = "arm", NEW m, NEW X, NEW o, Tidy(m, X, o), NEW a PROVE Tidy(arm_get_operand2(m, a), X, o)
  <1>1. \A Y, ok : Tidy(Fault(Operand(m, Y), "assert", ok), X, o) BY OperandTidy, FaultTidy
  <1>2. PICK q : q = GetReg2(m, Const, TRUE, arm_get_reg0) OBVIOUS
  <1>3. PICK k : k = arm_load2(q, q.res, a) OBVIOUS
  <1>4. Tidy(m, X, m) BY TidySelf
  <1>5. DOMAIN m.res = {"r1", "r2"} /\ Ours(m, m.res.r1) /\ Ours(m, m.res.r2) BY OwnTidy
  <1>6. Tidy(q, X, m) BY <1>2, <1>4, arm_GetRegTidy
  <1>7. Tidy(k, X, m) BY <1>3, <1>6, OwnTidy, arm_Load2Tidy
  <1>8. \A Y : Tidy([k EXCEPT !.opd = Y], X, m) BY <1>7, MemoryTidy
  <1>9. \A n, r : Tidy(n, X, m) /\ Ours(m, r) => Ours(n, r) BY DEF Tidy, Ours, Noted
  <1>10. Tidy([[k EXCEPT !.opd = q.res] EXCEPT !.res = m.res], X, m) BY <1>5, <1>8, <1>9, ResTidy
  <1>11. arm_LoadPair(q, m.res, a) = [[k EXCEPT !.opd = q.res] EXCEPT !.res = m.res] BY <1>3 DEF arm_LoadPair
  <1>12. Tidy(arm_LoadPair(q, m.res, a), X, o) BY <1>10, <1>11, TidyTrans
  <1> QED BY <1>1, <1>2, <1>12 DEF arm_get_operand2

LEMMA arm_OnOperandsTidy ==
  ASSUME target = "arm", NEW m, NEW X, NEW o, Tidy(m, X, o), NEW a1, NEW a2, NEW imm
  PROVE  Tidy(arm_OnOperands(m, a1, a2, imm), X, o)
  BY arm_OperandTidy, PinTidy, RightTidy DEF arm_OnOperands

LEMMA arm_ArgsTidy ==
  ASSUME target = "arm", NEW m, NEW X, NEW o, Tidy(m, X, o), NEW tar, NEW a1, NEW a2
  PROVE  Tidy(arm_update_args(m, tar, a1, a2), X, o)
  <1>1. \A n, a, live, next : Tidy(n, X, o) => Tidy(arm_update_arg_descriptors(n, a, live, next), X, o)
    BY arm_StoreVarTidy, ReleaseTidy, FreeTempTidy DEF arm_update_arg_descriptors, UpdateArg, Kept
  <1> QED BY <1>1 DEF arm_update_args, UpdateArgs

LEMMA arm_TarTidy ==
  ASSUME target = "arm", NEW m, NEW X, NEW o, Tidy(m, X, o), NEW tar
  PROVE  Tidy(arm_update_tar(m, tar), X, o) /\ Tidy(arm_update_tar2(m, tar), X, o)
  <1>1. Ours(m, m.res.r1) /\ Ours(m, m.res.r2) /\ DOMAIN m.res = {"r1", "r2"} BY OwnTidy
  <1>2. Tidy(Bind(m, m.res.r1, tar), X, o) /\ Tidy(Bind2(m, m.res, tar), X, o) BY <1>1, BindTidy, Bind2Tidy
  <1>3. Tidy(arm_update_tar(m, tar), X, o)
    BY <1>2, arm_StoreTidy, UnbindTidy DEF arm_update_tar, arm_update_tar_descriptors, UpdateTar
  <1>4. Tidy(arm_update_tar2(m, tar), X, o)
    BY <1>2, arm_StoreTidy, ReleaseTidy DEF arm_update_tar2, arm_update_tar_descriptors2, UpdateTar2
  <1> QED BY <1>3, <1>4

\* The end of most handlers.
LEMMA arm_CommitTidy ==
  ASSUME target = "arm", NEW m, NEW o, Tidy(m, {}, o), NEW tar, NEW a1, NEW a2
  PROVE  /\ Commit(arm_update_args(m, tar, a1, a2)) => SInv'
         /\ Commit(arm_UPDATE_ADDRESSES(m, tar, a1, a2)) => SInv'
         /\ Commit(arm_UPDATE_ADDRESSES2(m, tar, a1, a2)) => SInv'
         /\ Commit(arm_update_tar(m, tar)) => SInv'
         /\ Commit(arm_update_tar2(m, tar)) => SInv'
  <1>1. PICK n, q, k, q2, k2 :
          /\ n = arm_update_args(m, tar, a1, a2) /\ q = arm_update_tar(m, tar) /\ k = arm_update_tar(n, tar)
          /\ q2 = arm_update_tar2(m, tar) /\ k2 = arm_update_tar2(n, tar)
    OBVIOUS
  <1>2. Tidy(n, {}, o) BY <1>1, arm_ArgsTidy
  <1>3. Tidy(q, {}, o) /\ Tidy(k, {}, o) /\ Tidy(q2, {}, o) /\ Tidy(k2, {}, o) BY <1>1, <1>2, arm_TarTidy
  <1> QED BY <1>1, <1>2, <1>3, FinishTidy DEF arm_UPDATE_ADDRESSES, arm_UPDATE_ADDRESSES2

-----------------------------------------------------------------------------
(* The words of arguments                                                  *)

\* A state in which some of the first four words have been passed.
Fit(m) == Form(m) /\ m.passed \subseteq 0 .. 3

\* Words 0 to 3 of the arguments have registers.
Placed == \A k \in 0 .. 3 : FirstArgReg[target] + k \in ArgRegs[target] \cap Regs

LEMMA NothingPasses ==
  ASSUME NEW m, Form(m), NEW w, NEW n, n = [m EXCEPT !.args = w] PROVE Passing(m, n, {}) /\ n.args = w
  BY DEF Passing, Form

WordIn(m, k, w) == [Passes(m, FirstArgReg[target] + k, k) EXCEPT !.args = w]

LEMMA WordPasses ==
  ASSUME target \in {"arm", "mips"}, Placed
  PROVE  \A m, k, w : Fit(m) /\ k \in 0 .. 3 =>
           Passing(m, WordIn(m, k, w), {k}) /\ WordIn(m, k, w).args = w
  <1> SUFFICES ASSUME NEW m, NEW k, NEW w, Fit(m), k \in 0 .. 3
               PROVE  Passing(m, WordIn(m, k, w), {k}) /\ WordIn(m, k, w).args = w
    OBVIOUS
  <1>0. Form(m) /\ m.passed \subseteq 0 .. 3 BY DEF Fit
  <1>1. FirstArgReg[target] \in Nat BY DEF FirstArgReg
  <1>2. PICK q, n : q = Passes(m, FirstArgReg[target] + k, k) /\ n = WordIn(m, k, w) OBVIOUS
  <1>3. /\ Form(q) /\ q.reg = m.reg /\ q.addr = m.addr /\ q.got = m.got /\ q.res = m.res /\ q.faults = m.faults
        /\ q.passed = m.passed \cup {k} /\ q.R = [m.R EXCEPT ![FirstArgReg[target] + k] = {<<Arg, k>>}]
    BY <1>0, <1>2 DEF Passes, SetReg, Form
  <1>4. /\ Form(n) /\ n.reg = m.reg /\ n.addr = m.addr /\ n.got = m.got /\ n.res = m.res /\ n.faults = m.faults
        /\ n.passed = m.passed \cup {k} /\ n.R = q.R /\ n.args = w
    BY <1>0, <1>2, <1>3 DEF Form, WordIn
  <1>5. FirstArgReg[target] + k \in DOMAIN m.R BY <1>0 DEF Placed, Form
  <1>6. \A j \in m.passed \ {k} : FirstArgReg[target] + j # FirstArgReg[target] + k /\ FirstArgReg[target] + j \in DOMAIN m.R
    BY <1>0, <1>1 DEF Placed, Form
  <1> QED BY <1>0, <1>2, <1>3, <1>4, <1>5, <1>6 DEF Passing

PairIn(m, k, w) ==
  [Passes(Passes(m, FirstArgReg[target] + k, k), FirstArgReg[target] + k + 1, k + 1) EXCEPT !.args = w]

LEMMA PairPasses ==
  ASSUME target \in {"arm", "mips"}, Placed
  PROVE  \A m, k, w : Fit(m) /\ k \in 0 .. 3 /\ k + 1 \in 0 .. 3 =>
           Passing(m, PairIn(m, k, w), {k, k + 1}) /\ PairIn(m, k, w).args = w
  <1> SUFFICES ASSUME NEW m, NEW k, NEW w, Fit(m), k \in 0 .. 3, k + 1 \in 0 .. 3
               PROVE  Passing(m, PairIn(m, k, w), {k, k + 1}) /\ PairIn(m, k, w).args = w
    OBVIOUS
  <1>1. FirstArgReg[target] \in Nat BY DEF FirstArgReg
  <1>2. PICK u, p, n : u = m.args /\ p = WordIn(m, k, u) /\ n = PairIn(m, k, w) OBVIOUS
  <1>3. Passing(m, p, {k}) /\ p.args = u BY <1>2, WordPasses
  <1>4. p = Passes(m, FirstArgReg[target] + k, k) BY <1>2 DEF Passes, SetReg, Form, Fit, WordIn
  <1>5. FirstArgReg[target] + k + 1 = FirstArgReg[target] + (k + 1) BY <1>1
  <1>6. n = WordIn(p, k + 1, w) BY <1>2, <1>4, <1>5 DEF WordIn, PairIn
  <1>7. Fit(p) BY <1>3 DEF Passing, Fit
  <1>8. Passing(p, n, {k + 1}) /\ n.args = w BY <1>6, <1>7, WordPasses
  <1>9. k # k + 1 OBVIOUS
  <1> QED BY <1>2, <1>3, <1>8, <1>9 DEF Passing

\* Words ks have registers, and S are other registers.
Apart(ks, S) == ks \subseteq 0 .. 3 /\ S \cap ArgRegs[target] = {}

\* The registers S are changed if there are any.
WordsIn(m, ks, S, w) ==
  LET p == PassesWords(m, FirstArgReg[target], ks)
  IN  [IF S = {} THEN p ELSE Clobber(p, S) EXCEPT !.args = w]

LEMMA WordsPass ==
  ASSUME target \in {"arm", "mips"}, Placed
  PROVE  \A m, ks, S, w : Fit(m) /\ Apart(ks, S) =>
           Passing(m, WordsIn(m, ks, S, w), ks) /\ WordsIn(m, ks, S, w).args = w
  <1> SUFFICES ASSUME NEW m, NEW ks, NEW S, NEW w, Fit(m), Apart(ks, S)
               PROVE  Passing(m, WordsIn(m, ks, S, w), ks) /\ WordsIn(m, ks, S, w).args = w
    OBVIOUS
  <1>0. Form(m) /\ m.passed \subseteq 0 .. 3 /\ ks \subseteq 0 .. 3 /\ S \cap ArgRegs[target] = {} BY DEF Fit, Apart
  <1>1. FirstArgReg[target] \in Nat /\ Regs \subseteq Nat BY RegsAre DEF FirstArgReg
  <1>2. PICK q : q = PassesWords(m, FirstArgReg[target], ks) OBVIOUS
  <1>3. /\ Form(q) /\ q.reg = m.reg /\ q.addr = m.addr /\ q.got = m.got /\ q.res = m.res /\ q.faults = m.faults
        /\ q.passed = m.passed \cup ks
        /\ q.R = [r \in Regs |-> IF r - FirstArgReg[target] \in ks THEN {<<Arg, r - FirstArgReg[target]>>} ELSE m.R[r]]
    BY <1>0, <1>2 DEF PassesWords, Form
  <1>4. PICK c, n : c = Clobber(q, S) /\ n = WordsIn(m, ks, S, w) OBVIOUS
  <1>5. /\ Form(c) /\ c.reg = m.reg /\ c.addr = m.addr /\ c.got = m.got /\ c.res = m.res /\ c.faults = m.faults
        /\ c.passed = m.passed \cup ks /\ c.R = [r \in Regs |-> IF r \in S THEN {} ELSE q.R[r]]
    BY <1>3, <1>4 DEF Clobber, Form
  <1>6. \A k \in 0 .. 3 : /\ FirstArgReg[target] + k \in Regs /\ FirstArgReg[target] + k \notin S
                          /\ (FirstArgReg[target] + k) - FirstArgReg[target] = k
    BY <1>0, <1>1 DEF Placed
  <1>7. \A k \in 0 .. 3 : /\ k \in ks => c.R[FirstArgReg[target] + k] = {<<Arg, k>>}
                          /\ k \notin ks => c.R[FirstArgReg[target] + k] = m.R[FirstArgReg[target] + k]
    <2> TAKE k \in 0 .. 3
    <2>1. PICK x : x = FirstArgReg[target] + k OBVIOUS
    <2>2. x \in Regs /\ x \notin S /\ x - FirstArgReg[target] = k BY <1>6, <2>1
    <2>3. c.R[x] = q.R[x] BY <1>5, <2>2
    <2>4. (k \in ks => q.R[x] = {<<Arg, k>>}) /\ (k \notin ks => q.R[x] = m.R[x]) BY <1>3, <2>2
    <2> QED BY <2>1, <2>3, <2>4
  <1>8. /\ Form(n) /\ n.reg = m.reg /\ n.addr = m.addr /\ n.got = m.got /\ n.res = m.res /\ n.faults = m.faults
        /\ n.passed = m.passed \cup ks /\ n.args = w /\ n.R = c.R
    <2>1. S = {} => c.R = q.R BY <1>3, <1>5
    <2>2. n = [IF S = {} THEN q ELSE c EXCEPT !.args = w] BY <1>2, <1>4 DEF WordsIn
    <2> QED BY <1>3, <1>5, <2>1, <2>2 DEF Form
  <1> QED BY <1>0, <1>4, <1>7, <1>8 DEF Passing

-----------------------------------------------------------------------------
(* arm_cgen.c: the handlers keep the registers tidy                        *)

\* A register that may be changed may always be.
LEMMA RiscOurs == target \in {"arm", "mips"} => Watched[target] = {} /\ \A m, n, r : Ours(m, r) => Ours(n, r)
  BY RiscIs DEF Ours, Noted

arm_Kept == IInv /\ SInv /\ Roomy3(ArmPool)

LEMMA arm_BeginTidy ==
  ASSUME arm_Kept, NEW h, Enabled("arm", h), NEW tar, NEW args, NEW implicit, implicit \subseteq Crossing,
         NEW m \in Marks(tar, args, implicit)
  PROVE  target = "arm" /\ Tidy(m, {}, m) /\ m \in States /\ m.args = arg_words
  <1>1. Going(m, tar, args, {}) /\ m.args = arg_words BY Begin DEF arm_Kept
  <1> QED BY <1>1, GoingIs, BeginTidy DEF arm_Kept, Enabled


LEMMA arm_AluTidy ==
  ASSUME arm_Kept, NEW tar \in Vars, NEW a1 \in Vars \cup {Const}, NEW a2, NEW imm, arm_alu(tar, a1, a2, imm)
  PROVE  SInv'
  <1>1. PICK m, n :
          /\ m \in Marks(tar, {a1, a2}, {}) /\ Enabled("arm", "alu")
          /\ n = arm_OnOperands(arm_Loaded(m, tar, a1), a1, a2, imm)
          /\ Commit(arm_UPDATE_ADDRESSES(Computes(n, tar), tar, a1, a2))
    BY DEF arm_alu
  <1>2. target = "arm" /\ Tidy(m, {}, m) BY <1>1, arm_BeginTidy
  <1>3. Tidy(n, {}, m) BY <1>1, <1>2, arm_LoadedTidy, arm_OnOperandsTidy
  <1> QED BY <1>1, <1>2, <1>3, ComputesTidy, arm_CommitTidy

LEMMA arm_Alu2Tidy ==
  ASSUME arm_Kept, NEW tar \in Vars, NEW a1 \in Vars \cup {Const}, NEW a2, arm_alu2(tar, a1, a2)
  PROVE  SInv'
  <1>1. PICK m, k, p, n, q :
          /\ m \in Marks(tar, {a1, a2}, {}) /\ Enabled("arm", "alu2")
          /\ k = arm_Loaded2(m, tar, a1) /\ p = arm_PinRes2(k) /\ n = arm_get_operand2(p, a2)
          /\ q = arm_UnpinRes2(arm_HighWords(arm_LowWords(n, a1, a2), a1, a2))
          /\ Commit(arm_UPDATE_ADDRESSES2(Computes2(q, tar), tar, a1, a2))
    BY DEF arm_alu2
  <1>2. target = "arm" /\ Tidy(m, {}, m) BY <1>1, arm_BeginTidy
  <1>3. Tidy(k, {}, m) BY <1>1, <1>2, arm_LoadedTidy
  <1>4. Tidy(p, {}, m) BY <1>1, <1>3, PinTidy DEF arm_PinRes2
  <1>5. Tidy(n, {}, m) BY <1>1, <1>2, <1>4, arm_Operand2Tidy
  <1>6. Tidy(RightIn(RightRes(n, a1), n.opd.r1, a2, 1), {}, m) BY <1>5, RightTidy
  <1>7. \A x : Ours(x, n.res.r1) BY <1>2, <1>5, OwnTidy, RiscOurs
  <1>8. Tidy(arm_LowWords(n, a1, a2), {}, m) BY <1>6, <1>7, ClobberTidy DEF arm_LowWords
  <1>9. Tidy(q, {}, m) BY <1>1, <1>8, RightTidy, PinTidy DEF arm_HighWords, arm_UnpinRes2
  <1> QED BY <1>1, <1>2, <1>9, ComputesTidy, arm_CommitTidy

LEMMA arm_RelopJumpTidy ==
  ASSUME arm_Kept, NEW a1 \in Vars \cup {Const}, NEW a2, NEW imm, arm_relop_jump(a1, a2, imm) PROVE SInv'
  <1>1. PICK m, n :
          /\ m \in Marks(NoVar, {a1, a2}, {}) /\ Enabled("arm", "relop_jump")
          /\ n = arm_OnOperands(arm_InPlace(m, NoVar, a1), a1, a2, imm) /\ Commit(arm_update_args(n, NoVar, a1, a2))
    BY DEF arm_relop_jump
  <1>2. target = "arm" /\ Tidy(m, {}, m) BY <1>1, arm_BeginTidy
  <1>3. Tidy(n, {}, m) BY <1>1, <1>2, arm_LoadedTidy, arm_OnOperandsTidy
  <1> QED BY <1>1, <1>2, <1>3, arm_CommitTidy

LEMMA arm_UnaryTidy ==
  ASSUME arm_Kept, NEW tar \in Vars, NEW a1 \in Vars \cup {Const},
         arm_unary(tar, a1) \/ arm_unary2(tar, a1) \/ arm_llx(tar, a1) \/ arm_asn(tar, a1)
  PROVE  SInv'
  <1>1. PICK h, m, n, q :
          /\ m \in Marks(tar, {a1}, {}) /\ Enabled("arm", h)
          /\ \/ n = arm_Loaded(m, tar, a1) \/ n = arm_Loaded2(m, tar, a1) \/ n = arm_LoadedLow(m, tar, a1)
          /\ \/ q = Computes(RightRes(n, a1), tar) \/ q = Computes2(n, tar) \/ q = Computes2(RightRes(n, a1), tar)
             \/ q = Copies(n, tar, a1) \/ q = Copies(RightRes(n, a1), tar, a1)
          /\ \/ Commit(arm_UPDATE_ADDRESSES(q, tar, a1, Const)) \/ Commit(arm_UPDATE_ADDRESSES2(q, tar, a1, Const))
    BY DEF arm_unary, arm_unary2, arm_llx, arm_asn
  <1>2. target = "arm" /\ Tidy(m, {}, m) BY <1>1, arm_BeginTidy
  <1>3. Tidy(n, {}, m) BY <1>1, <1>2, arm_LoadedTidy
  <1>4. Tidy(q, {}, m) BY <1>1, <1>3, RightTidy, ComputesTidy, CopiesTidy
  <1> QED BY <1>1, <1>2, <1>4, arm_CommitTidy

LEMMA arm_AddrOfTidy == ASSUME arm_Kept, NEW tar \in Vars, arm_addr_of(tar) PROVE SInv'
  <1>1. PICK m :
          /\ m \in Marks(tar, {}, {}) /\ Enabled("arm", "addr_of")
          /\ Commit(arm_update_tar(Computes(Got1(arm_get_reg0(m)), tar), tar))
    BY DEF arm_addr_of
  <1>2. {} \subseteq Crossing OBVIOUS
  <1>3. target = "arm" /\ Tidy(m, {}, m) BY <1>1, <1>2, arm_BeginTidy
  <1>4. Tidy(Got1(arm_get_reg0(m)), {}, m) BY <1>3, arm_Get0Tidy, GotTidy
  <1> QED BY <1>1, <1>3, <1>4, ComputesTidy, arm_CommitTidy

-----------------------------------------------------------------------------
(* arm_cgen.c: calls of library functions                                  *)

LEMMA arm_LibCallTidy ==
  ASSUME target = "arm", NEW o \in States, Tidy(o, {}, o), NEW n \in States, Tidy(n, ArgRegs[target], o)
  PROVE  Tidy(arm_LibCall(n, o), {}, o)
  <1>1. PICK c : c = Clobber(arm_spill_all(n), ArmCallerSave) OBVIOUS
  <1>2. Tidy(arm_spill_all(n), ArgRegs[target], o) BY arm_AliasedTidy
  <1>3. Tidy(c, ArgRegs[target], o) BY <1>1, <1>2, arm_FreeRegs, ClobberTidy
  <1>4. \A k \in o.passed : FirstArgReg[target] + k \in arm_save_arg_regs(o)
    <2> TAKE k \in o.passed
    <2>1. k \in 0 .. 3 BY DEF States, Gen
    <2>2. Intact(o, k) BY DEF Tidy
    <2>3. k < o.args /\ FirstArgReg[target] + k = k BY <2>1, <2>2, arm_FreeRegs DEF Intact
    <2> QED BY <2>1, <2>3 DEF arm_save_arg_regs, ArmArgs
  <1> QED BY <1>1, <1>3, <1>4, arm_FreeRegs, RestoredTidy DEF arm_LibCall, arm_restore_arg_regs

LEMMA arm_LibResultTidy ==
  ASSUME target = "arm", NEW m, NEW o, Tidy(m, {}, o), NEW tar \in Vars, NEW a1, NEW a2
  PROVE  /\ Commit(arm_UPDATE_ADDRESSES2(Computes2(Into(m, 4, 5), tar), tar, a1, a2)) => SInv'
         /\ Commit(arm_UPDATE_ADDRESSES(Computes(Into(m, 4, None), tar), tar, a1, a2)) => SInv'
  <1>1. Tidy(Into(m, 4, 5), {}, o) /\ Tidy(Into(m, 4, None), {}, o) BY arm_FreeRegs, ResTidy
  <1> QED BY <1>1, ComputesTidy, arm_CommitTidy

LEMMA arm_DivTidy ==
  ASSUME arm_Kept, NEW tar \in Vars, NEW a1 \in Vars \cup {Const}, NEW a2 \in Vars \cup {Const}, arm_div(tar, a1, a2)
  PROVE  SInv'
  <1>1. PICK m, l1, l2 :
          /\ m \in Marks(tar, {a1, a2}, {}) /\ Enabled("arm", "div_rem")
          /\ l1 = arm_LoadArg(m, 0, a1) /\ l2 = arm_LoadArg(l1, 1, a2)
          /\ Commit(arm_UPDATE_ADDRESSES(Computes(Into(arm_LibCall(l2, m), 4, None), tar), tar, a1, a2))
    BY DEF arm_div
  <1>2. target = "arm" /\ Tidy(m, {}, m) /\ m \in States BY <1>1, arm_BeginTidy
  <1>3. PICK A : A = Named(a1, a2) OBVIOUS
  <1>4. A \in SUBSET Vars /\ A \subseteq {a1, a2} /\ a1 \in A \cup {Const} /\ a2 \in A \cup {Const}
    BY <1>3, NamedIs, CGenRegsAssumption
  <1>5. l2 \in States
    <2>1. l1 \in Still(m, A) BY <1>1, <1>2, <1>4, StillSelf, arm_LoadArgStill, arm_Regs
    <2>2. l2 \in Still(m, A) BY <1>1, <1>2, <1>4, <2>1, arm_LoadArgStill, arm_Regs
    <2> QED BY <1>2, <1>4, <2>2, StillIs
  <1>6. Tidy(m, ArgRegs[target], m) BY <1>2, TidySelf
  <1>7. 0 \in ArgRegs[target] /\ 1 \in ArgRegs[target] BY <1>2, arm_FreeRegs DEF ArmArgs
  <1>8. Tidy(l1, ArgRegs[target], m) BY <1>1, <1>2, <1>6, <1>7, arm_LoadTidy
  <1>9. Tidy(l2, ArgRegs[target], m) BY <1>1, <1>2, <1>7, <1>8, arm_LoadTidy
  <1>10. Tidy(arm_LibCall(l2, m), {}, m) BY <1>2, <1>5, <1>9, arm_LibCallTidy
  <1> QED BY <1>1, <1>2, <1>10, arm_LibResultTidy

LEMMA arm_DoLibcallTidy ==
  ASSUME arm_Kept, NEW tar \in Vars, NEW a1 \in Wide \cup {Const}, NEW a2 \in Vars \cup {Const}, arm_do_libcall(tar, a1, a2)
  PROVE  SInv'
  <1>1. PICK m, l1, l2 :
          /\ m \in Marks(tar, {a1, a2}, {}) /\ Enabled("arm", "do_libcall")
          /\ l1 = arm_LoadArg2(m, Pair(0, 1), a1)
          /\ l2 = IF a2 \in Wide \cup {Const} THEN arm_LoadArg2(l1, Pair(2, 3), a2) ELSE arm_LoadArg(l1, 2, a2)
          /\ \/ Commit(arm_UPDATE_ADDRESSES2(Computes2(Into(arm_LibCall(l2, m), 4, 5), tar), tar, a1, a2))
             \/ Commit(arm_UPDATE_ADDRESSES(Computes(Into(arm_LibCall(l2, m), 4, None), tar), tar, a1, a2))
    BY DEF arm_do_libcall
  <1>2. target = "arm" /\ Tidy(m, {}, m) /\ m \in States BY <1>1, arm_BeginTidy
  <1>3. PICK A : A = Named(a1, a2) OBVIOUS
  <1>4. A \in SUBSET Vars /\ A \subseteq {a1, a2} /\ a1 \in A \cup {Const} /\ a2 \in A \cup {Const}
    BY <1>3, NamedIs, CGenRegsAssumption
  <1>5. l2 \in States
    <2>1. m \in Still(m, A) BY <1>2, <1>4, StillSelf
    <2>2. m.pinned = {} /\ Only(m, ArmVars) BY <1>1, arm_Begin DEF arm_Kept, arm_Runs
    <2>3. l1 \in Still(m, A) BY <1>1, <1>2, <1>4, <2>1, <2>2, arm_LoadArg2Still, arm_Regs
    <2>4. l2 \in Still(m, A) BY <1>1, <1>2, <1>4, <2>2, <2>3, arm_LoadArg2Still, arm_LoadArgStill, arm_Regs
    <2> QED BY <1>2, <1>4, <2>4, StillIs
  <1>6. Tidy(m, ArgRegs[target], m) BY <1>2, TidySelf
  <1>7. /\ Pair(0, 1).r1 \in ArgRegs[target] /\ Pair(0, 1).r2 \in ArgRegs[target] /\ Pair(2, 3).r1 \in ArgRegs[target]
        /\ Pair(2, 3).r2 \in ArgRegs[target] /\ 2 \in ArgRegs[target]
    BY <1>2, arm_FreeRegs DEF ArmArgs, Pair
  <1>8. Tidy(l1, ArgRegs[target], m) BY <1>1, <1>2, <1>6, <1>7, arm_Load2Tidy
  <1>9. Tidy(l2, ArgRegs[target], m) BY <1>1, <1>2, <1>7, <1>8, arm_LoadTidy, arm_Load2Tidy
  <1>10. Tidy(arm_LibCall(l2, m), {}, m) BY <1>2, <1>5, <1>9, arm_LibCallTidy
  <1> QED BY <1>1, <1>2, <1>10, arm_LibResultTidy

-----------------------------------------------------------------------------
(* arm_cgen.c: pointers and calls                                          *)

LEMMA arm_IndTidy == ASSUME arm_Kept, NEW tar \in Vars, NEW a1 \in Vars \cup {Const}, arm_ind(tar, a1) PROVE SInv'
  <1>1. PICK m, n, word, pair :
          /\ m \in Marks(tar, {a1}, AddrTaken) /\ Enabled("arm", "ind") /\ n = arm_spill_aliased_objects(m)
          /\ word = ReadsMemory(RightRes(arm_Loaded(n, tar, a1), a1), Pointed)
          /\ pair = ReadsMemory(RightRes(arm_LoadedLow(n, tar, a1), a1), Pointed)
          /\ \/ Commit(arm_UPDATE_ADDRESSES2(Computes2(pair, tar), tar, a1, Const))
             \/ Commit(arm_UPDATE_ADDRESSES(ComputesAt(word, tar, Far), tar, a1, Const))
             \/ Commit(arm_UPDATE_ADDRESSES(Computes(word, tar), tar, a1, Const))
    BY DEF arm_ind
  <1>2. target = "arm" /\ Tidy(m, {}, m) /\ m \in States BY <1>1, arm_BeginTidy, CGenAssumption
  <1>3. Tidy(n, {}, m) BY <1>1, <1>2, arm_AliasedTidy
  <1>4. Tidy(word, {}, m) /\ Tidy(pair, {}, m) BY <1>1, <1>2, <1>3, arm_LoadedTidy, RightTidy, ReadsMemoryTidy
  <1>5. Tidy(Computes2(pair, tar), {}, m) /\ Tidy(ComputesAt(word, tar, Far), {}, m) /\ Tidy(Computes(word, tar), {}, m)
    BY <1>4, ComputesTidy, ComputesAtTidy
  <1> QED BY <1>1, <1>2, <1>5, arm_CommitTidy

LEMMA arm_StoredTidy ==
  ASSUME target = "arm", NEW n, NEW o, Tidy(n, {}, o), NEW a1 \in Vars, NEW a2 \in Vars \cup {Const}
  PROVE  /\ Tidy(arm_StoredStruct(n, a1, a2), {}, o)
         /\ Tidy(arm_PointerRight(arm_StoredPair(arm_Pointer(n, a1), a2), a1), {}, o)
         /\ Tidy(arm_PointerRight(arm_StoredWord(arm_Pointer(n, a1), a2), a1), {}, o)
  <1>1. PICK p : p = arm_Pointer(n, a1) OBVIOUS
  <1>2. Tidy(p, {}, o) BY <1>1, OwnTidy, ResTidy, PinTidy, arm_LoadedTidy DEF arm_Pointer
  <1>3. \A m : Ours(m, SCRATCH_REG) /\ Ours(m, LinkReg) BY arm_FreeRegs
  <1>4. Tidy(arm_LoadArg(arm_LoadArg(n, SCRATCH_REG, a1), SCRATCH_REG, a2), {}, o) BY <1>3, arm_LoadTidy
  <1>5. Tidy(arm_StoredStruct(n, a1, a2), {}, o) BY <1>3, <1>4, ClobberTidy DEF arm_StoredStruct
  <1>6. Tidy(arm_StoredWord(p, a2), {}, o)
    <2>1. Tidy(arm_LoadGot(arm_get_reg0(p), a2), {}, o) BY <1>2, arm_LoadGotTidy
    <2>2. Tidy(InGot(arm_LoadGot(arm_get_reg0(p), a2)), {}, o) BY <2>1, OperandTidy
    <2> QED BY <1>2, <1>3, <2>2, arm_LoadTidy, RightTidy DEF arm_StoredWord
  <1>7. Tidy(arm_StoredPair(p, a2), {}, o)
    <2>1. Tidy(arm_get_operand2(p, a2), {}, o) BY <1>2, arm_Operand2Tidy
    <2>2. Tidy(Clobber(p, {SCRATCH_REG}), {}, o) BY <1>2, <1>3, ClobberTidy
    <2> QED BY <2>1, <2>2, RightTidy DEF arm_StoredPair, arm_ReadPair
  <1> QED BY <1>1, <1>5, <1>6, <1>7, RightTidy, PinTidy DEF arm_PointerRight

LEMMA arm_IndAsnTidy ==
  ASSUME arm_Kept, NEW a1 \in Vars, NEW a2 \in Vars \cup {Const}, arm_ind_asn(a1, a2) PROVE SInv'
  <1>1. PICK m, n, q :
          /\ m \in Marks(NoVar, {a1, a2}, {}) /\ Enabled("arm", "ind_asn") /\ n = arm_spill_aliased_objects(m)
          /\ \/ q = arm_StoredStruct(n, a1, a2)
             \/ q = arm_PointerRight(arm_StoredPair(arm_Pointer(n, a1), a2), a1)
             \/ q = arm_PointerRight(arm_StoredWord(arm_Pointer(n, a1), a2), a1)
          /\ Commit(arm_update_args(WritesMemory(q, Pointed), NoVar, a1, a2))
    BY DEF arm_ind_asn
  <1>2. target = "arm" /\ Tidy(m, {}, m) /\ m \in States BY <1>1, arm_BeginTidy, CGenAssumption
  <1>3. Tidy(n, {}, m) BY <1>1, <1>2, arm_AliasedTidy
  <1>4. Pointed \in SUBSET Vars BY CGenRegsAssumption DEF Ids
  <1>5. Tidy(q, {}, m) BY <1>1, <1>2, <1>3, arm_StoredTidy
  <1> QED BY <1>1, <1>2, <1>4, <1>5, WritesMemoryTidy, arm_CommitTidy

LEMMA arm_ReturnedTidy ==
  ASSUME target = "arm", NEW m, NEW o, Tidy(m, {}, o), NEW tar, Commit(arm_Returned(m, tar)) PROVE SInv'
  <1>1. Tidy(Into(m, 4, None), {}, o) /\ Tidy(Into(m, 4, 5), {}, o) BY arm_FreeRegs, ResTidy
  <1>2. Tidy([Into(m, 4, None) EXCEPT !.M[Area][1] = {}], {}, o) BY <1>1 DEF Tidy, Form, Intact, Ours, Noted
  <1>3. Structs \subseteq Vars /\ Wide \subseteq Vars BY CGenRegsAssumption
  <1>4. CASE tar \in Wide BY <1>1, <1>3, <1>4, ComputesTidy, arm_CommitTidy DEF arm_Returned
  <1>5. CASE tar \in Structs \ Wide BY <1>2, <1>3, <1>5, ComputesAtTidy, arm_CommitTidy DEF arm_Returned
  <1>6. CASE tar \in Vars \ (Structs \cup Wide) BY <1>1, <1>6, ComputesTidy, arm_CommitTidy DEF arm_Returned
  <1>7. CASE tar \notin Vars
    <2>1. Commit(m) BY <1>3, <1>7 DEF arm_Returned
    <2> QED BY <2>1, FinishTidy
  <1> QED BY <1>4, <1>5, <1>6, <1>7

\* The callee finds its arguments, and they are gone after the call.
LEMMA arm_CalledTidy ==
  ASSUME target = "arm", NEW m, NEW o, Tidy(m, {}, o) PROVE Tidy(arm_Call(m), {}, arm_Call(m))
  <1>1. PICK n, c, p, q : /\ n = FindsArguments(m, 0) /\ c = Called(n, ArmCallerSave) /\ p = [c EXCEPT !.args = 0]
                          /\ q = arm_Call(m)
    OBVIOUS
  <1>2. FirstArgReg[target] = 0 /\ Watched[target] = {} BY arm_FreeRegs
  <1>3. Tidy(n, {}, n) /\ n.passed = {} BY <1>1, <1>2, FoundTidy
  <1>4. Tidy(n, ArgRegs[target], n) BY <1>3, TidySelf
  <1>5. Tidy(c, ArgRegs[target], n) BY <1>1, <1>4, arm_FreeRegs, CalledTidy
  <1>6. c.passed = {} BY <1>3, <1>5 DEF Tidy
  <1>7. Tidy(c, {}, n) BY <1>2, <1>5, <1>6, DropTidy
  <1>8. Tidy(p, {}, p) /\ p.passed = {} BY <1>1, <1>6, <1>7, PushedTidy
  <1>9. q = [p EXCEPT !.passed = {}] BY <1>1 DEF arm_Call, arm_post_call
  <1> QED BY <1>1, <1>8, <1>9 DEF Tidy, Form, Intact, Ours, Noted

LEMMA arm_CallTidy == ASSUME arm_Kept, NEW tar, arm_call(tar) PROVE SInv'
  <1>1. PICK m, n :
          /\ m \in Marks(tar, {}, AddrTaken \cup Statics) /\ Enabled("arm", "call")
          /\ n = arm_Call(arm_spill_all(m)) /\ Commit(arm_Returned(n, tar))
    BY DEF arm_call
  <1>2. target = "arm" /\ Tidy(m, {}, m) /\ m \in States BY <1>1, arm_BeginTidy, CGenAssumption
  <1>3. Tidy(arm_spill_all(m), {}, m) BY <1>2, arm_AliasedTidy
  <1>4. Tidy(n, {}, n) BY <1>1, <1>2, <1>3, arm_CalledTidy
  <1> QED BY <1>1, <1>2, <1>4, arm_ReturnedTidy

LEMMA arm_IndCallTidy == ASSUME arm_Kept, NEW tar, NEW a1, arm_indcall(tar, a1) PROVE SInv'
  <1>1. PICK m, n, q, s :
          /\ m \in Marks(tar, {a1}, AddrTaken \cup Statics) /\ Enabled("arm", "indcall")
          /\ n = arm_LoadArg(arm_spill_all(m), SCRATCH_REG, a1) /\ q = arm_Call(n)
          /\ s = arm_update_args(q, tar, a1, Const) /\ Commit(arm_Returned(s, tar))
    BY DEF arm_indcall
  <1>2. target = "arm" /\ Tidy(m, {}, m) /\ m \in States BY <1>1, arm_BeginTidy, CGenAssumption
  <1>3. Tidy(arm_spill_all(m), {}, m) BY <1>2, arm_AliasedTidy
  <1>4. Tidy(n, {}, m) BY <1>1, <1>2, <1>3, arm_FreeRegs, arm_LoadTidy
  <1>5. Tidy(q, {}, q) BY <1>1, <1>2, <1>4, arm_CalledTidy
  <1>6. Tidy(s, {}, q) BY <1>1, <1>2, <1>5, arm_ArgsTidy
  <1> QED BY <1>1, <1>2, <1>6, arm_ReturnedTidy

-----------------------------------------------------------------------------
(* arm_cgen.c: arguments                                                   *)

LEMMA arm_Placed == target = "arm" => Placed /\ \A k : k \in 0 .. 3 => FirstArgReg[target] + k = k
  BY arm_FreeRegs, arm_ArgRegs DEF Placed, ArmArgs

\* What a state has passed is below the number of the words.
LEMMA RiscPassed ==
  ASSUME NEW m \in States, Tidy(m, {}, m), NEW n, NEW X, Tidy(n, X, m)
  PROVE  n.passed = m.passed /\ n.passed \subseteq 0 .. 3 /\ (\A k \in n.passed : k < m.args) /\ Form(n) /\ Fit(n)
  BY DEF Tidy, Intact, States, Gen, Fit

LEMMA arm_ArgWordTidy ==
  ASSUME target = "arm", NEW m \in States, Tidy(m, {}, m), m.args \in Nat, NEW a1 \in Vars,
         NEW n, n = arm_Words(arm_ArgWord(m, a1), m.args, 1)
  PROVE  Tidy(n, {}, n)
  <1>1. CASE m.args < 4
    <2>1. PICK k, s, l, w : /\ k = m.args /\ w = m.args + 1 /\ s = arm_spill_reg(m, k) /\ l = arm_LoadArg(s, k, a1)
      OBVIOUS
    <2>2. k \in 0 .. 3 /\ w = k + 1 /\ k \in Nat BY <1>1, <2>1
    <2>3. Tidy(s, {k}, m) BY <2>1, arm_SpillTidy, TidySelf
    <2>4. Tidy(l, {k}, m) BY <2>1, <2>3, arm_LoadTidy
    <2>5. l.passed \subseteq 0 .. 3 /\ \A j \in l.passed : j < k BY <2>1, <2>4, RiscPassed
    <2>6. Placed /\ FirstArgReg[target] + k = k /\ \A j \in 0 .. 3 : FirstArgReg[target] + j = j BY <2>2, arm_Placed
    <2>7. n = WordIn(l, k, w) BY <1>1, <2>1, <2>6 DEF arm_Words, arm_ArgWord, WordIn
    <2>12. Fit(l) BY <2>4, RiscPassed
    <2>8. Passing(l, n, {k}) /\ n.args = w BY <2>2, <2>6, <2>7, <2>12, WordPasses
    <2>9. \A j \in l.passed \ {k} : FirstArgReg[target] + j \notin {k} BY <2>5, <2>6
    <2>10. \A j \in l.passed \cup {k} : j < n.args BY <2>2, <2>5, <2>8
    <2>11. \A j \in {k} : FirstArgReg[target] + j \in ArgRegs[target] \cap Regs BY <2>2, <2>6 DEF Placed
    <2> QED BY <2>4, <2>8, <2>9, <2>10, <2>11, PassingTidy
  <1>2. CASE ~(m.args < 4)
    <2>1. PICK q, w : q = arm_ArgWord(m, a1) /\ w = m.args + 1 OBVIOUS
    <2>2. Tidy(q, {}, m) BY <1>2, <2>1, RightTidy, arm_FreeRegs, arm_LoadTidy DEF arm_ArgWord
    <2>3. q.passed \subseteq 0 .. 3 /\ (\A j \in q.passed : j < m.args) /\ Form(q) BY <2>2, RiscPassed
    <2>4. n = [q EXCEPT !.args = w] BY <2>1 DEF arm_Words
    <2>5. Passing(q, n, {}) /\ n.args = w BY <2>3, <2>4, NothingPasses
    <2>6. \A j \in q.passed : j < n.args BY <2>1, <2>3, <2>5
    <2> QED BY <2>2, <2>5, <2>6, PassingTidy
  <1> QED BY <1>1, <1>2

LEMMA arm_ArgPairTidy ==
  ASSUME target = "arm", NEW m \in States, Tidy(m, {}, m), m.args \in Nat, NEW a1 \in Vars,
         NEW k \in Nat, m.args <= k, k # 1, k # 3, NEW n, n = arm_Words(arm_ArgPair(m, k, a1), k, 2)
  PROVE  Tidy(n, {}, n)
  <1>1. CASE k < 4
    <2>1. PICK l, w, X : l = arm_LoadArg2(m, Pair(k, k + 1), a1) /\ w = k + 2 /\ X = {k, k + 1} OBVIOUS
    <2>2. k \in 0 .. 3 /\ k + 1 \in 0 .. 3 BY <1>1
    <2>3. Tidy(m, X, m) /\ Pair(k, k + 1).r1 \in X /\ Pair(k, k + 1).r2 \in X BY <2>1, TidySelf DEF Pair
    <2>4. Tidy(l, X, m) BY <2>1, <2>3, arm_Load2Tidy
    <2>5. l.passed \subseteq 0 .. 3 /\ \A j \in l.passed : j < m.args BY <2>4, RiscPassed
    <2>6. Placed /\ \A j \in 0 .. 3 : FirstArgReg[target] + j = j BY arm_Placed
    <2>7. FirstArgReg[target] + k = k /\ FirstArgReg[target] + k + 1 = k + 1 BY <2>2, <2>6
    <2>8. n = PairIn(l, k, w) BY <1>1, <2>1, <2>7 DEF arm_Words, arm_ArgPair, PairIn
    <2>13. Fit(l) BY <2>4, RiscPassed
    <2>14. Fit(l) /\ k \in 0 .. 3 /\ k + 1 \in 0 .. 3 => Passing(l, PairIn(l, k, w), {k, k + 1}) /\ PairIn(l, k, w).args = w
      BY <2>6, PairPasses
    <2>9. Passing(l, n, {k, k + 1}) /\ n.args = w BY <2>2, <2>8, <2>13, <2>14
    <2>10. \A j \in l.passed \ {k, k + 1} : FirstArgReg[target] + j \notin X BY <2>1, <2>5, <2>6
    <2>11. \A j \in l.passed \cup {k, k + 1} : j < n.args BY <2>1, <2>2, <2>5, <2>9
    <2>12. \A j \in {k, k + 1} : FirstArgReg[target] + j \in ArgRegs[target] \cap Regs BY <2>2, <2>6 DEF Placed
    <2> QED BY <2>4, <2>9, <2>10, <2>11, <2>12, PassingTidy
  <1>2. CASE ~(k < 4)
    <2>1. PICK q, w : q = arm_ArgPair(m, k, a1) /\ w = k + 2 OBVIOUS
    <2>2. Tidy(q, {}, m) BY <1>2, <2>1, RightTidy, arm_Operand2Tidy DEF arm_ArgPair, arm_ReadPair
    <2>3. q.passed \subseteq 0 .. 3 /\ (\A j \in q.passed : j < m.args) /\ Form(q) BY <2>2, RiscPassed
    <2>4. n = [q EXCEPT !.args = w] BY <2>1 DEF arm_Words
    <2>5. Passing(q, n, {}) /\ n.args = w BY <2>3, <2>4, NothingPasses
    <2>6. \A j \in q.passed : j < n.args BY <2>1, <2>3, <2>5
    <2> QED BY <2>2, <2>5, <2>6, PassingTidy
  <1> QED BY <1>1, <1>2

LEMMA arm_ArgStructTidy ==
  ASSUME target = "arm", NEW m \in States, Tidy(m, {}, m), m.args \in Nat, NEW a1 \in Vars,
         NEW k \in Nat, m.args <= k, NEW size \in {1, 4}, NEW n, n = arm_Words(arm_ArgStruct(m, k, size, a1), k, size)
  PROVE  Tidy(n, {}, n)
  <1>1. PICK l, w, ks, S :
          /\ l = arm_LoadArg(m, SCRATCH_REG, a1) /\ w = k + size
          /\ S = (IF k + size <= 4 THEN {} ELSE {SCRATCH_REG, LinkReg}) /\ ks = IF k + size <= 4 THEN k .. k + size - 1 ELSE k .. 3
    OBVIOUS
  <1>2. ks \in SUBSET (0 .. 3) /\ \A j \in ks : j < w BY <1>1
  <1>3. Tidy(l, {}, m) BY <1>1, arm_FreeRegs, arm_LoadTidy
  <1>4. l.passed \subseteq 0 .. 3 /\ \A j \in l.passed : j < m.args BY <1>3, RiscPassed
  <1>5. Placed /\ FirstArgReg[target] = 0 BY arm_Placed, arm_FreeRegs
  <1>6. S \cap ArgRegs[target] = {} BY <1>1, arm_FreeRegs DEF ArmArgs, SCRATCH_REG, LinkReg
  <1>7. n = WordsIn(l, ks, S, w) BY <1>1, <1>5 DEF arm_Words, arm_ArgStruct, WordsIn
  <1>11. Fit(l) BY <1>3, RiscPassed
  <1>12. Apart(ks, S) BY <1>2, <1>6 DEF Apart
  <1>8. Passing(l, n, ks) /\ n.args = w BY <1>5, <1>7, <1>11, <1>12, WordsPass
  <1>9. \A j \in l.passed \cup ks : j < n.args BY <1>1, <1>2, <1>4, <1>8
  <1>10. \A j \in ks : FirstArgReg[target] + j \in ArgRegs[target] \cap Regs BY <1>2, <1>5 DEF Placed
  <1> QED BY <1>3, <1>8, <1>9, <1>10, PassingTidy

LEMMA arm_ArgTidy ==
  ASSUME arm_Kept, NEW a1 \in Vars, NEW size \in {1, 4}, NEW align \in {1, 2}, arm_arg(a1, size, align) PROVE SInv'
  <1>1. PICK m, k, w, n :
          /\ m \in Marks(NoVar, {a1}, {}) /\ Enabled("arm", "arg")
          /\ w = (IF a1 \in Wide THEN 2 ELSE align) /\ k = RoundUp(arg_words, w)
          /\ \/ n = arm_Words(arm_ArgStruct(m, k, size, a1), k, size)
             \/ a1 \in Wide /\ n = arm_Words(arm_ArgPair(m, k, a1), k, 2)
             \/ n = arm_Words(arm_ArgWord(m, a1), arg_words, 1)
          /\ Commit(arm_update_args(n, NoVar, a1, Const))
    BY DEF arm_arg
  <1>2. target = "arm" /\ Tidy(m, {}, m) /\ m \in States /\ m.args = arg_words BY <1>1, arm_BeginTidy
  <1>3. m.args \in Nat
    <2>1. Going(m, NoVar, {a1}, {}) BY <1>1, Begin DEF arm_Kept
    <2> QED BY <2>1, CGenAssumption DEF Going
  <1>4. w \in {1, 2} BY <1>1
  <1>5. k \in Nat /\ m.args <= k /\ (a1 \in Wide => k # 1 /\ k # 3) BY <1>1, <1>2, <1>3, <1>4, RoundUpIs
  <1>6. Tidy(n, {}, n) BY <1>1, <1>2, <1>3, <1>5, arm_ArgWordTidy, arm_ArgPairTidy, arm_ArgStructTidy
  <1> QED BY <1>1, <1>2, <1>6, arm_CommitTidy

LEMMA arm_ArgAreaTidy == ASSUME arm_Kept, arm_arg_area PROVE SInv'
  <1>1. PICK m, s, n :
          /\ m \in Marks(NoVar, {}, {}) /\ Enabled("arm", "arg") /\ arg_words = 0
          /\ s = arm_spill_reg(m, 0) /\ n = arm_Words(Passes(s, 0, 0), 0, 1) /\ Commit(n)
    BY DEF arm_arg_area
  <1>2. {} \subseteq Crossing /\ {} \subseteq {0} OBVIOUS
  <1>3. target = "arm" /\ Tidy(m, {}, m) /\ m \in States /\ m.args = 0 BY <1>1, <1>2, arm_BeginTidy
  <1>4. Tidy(s, {}, m) BY <1>1, <1>3, arm_SpillTidy
  <1>5. s.passed = {} /\ Form(s) BY <1>3, <1>4, NoneTidy DEF Tidy
  <1>6. Placed /\ FirstArgReg[target] + 0 = 0 BY <1>3, arm_Placed
  <1>7. n = WordIn(s, 0, 1) BY <1>1, <1>6 DEF arm_Words, WordIn
  <1>8. Passing(s, n, {0}) /\ n.args = 1 BY <1>3, <1>5, <1>6, <1>7, WordPasses DEF Fit
  <1>9. \A j \in {0} : FirstArgReg[target] + j \in ArgRegs[target] \cap Regs BY <1>6 DEF Placed
  <1>10. \A j \in s.passed \cup {0} : j < n.args BY <1>5, <1>8
  <1>11. Tidy(n, {}, n) BY <1>3, <1>4, <1>5, <1>8, <1>9, <1>10, PassingTidy
  <1> QED BY <1>1, <1>11, FinishTidy

-----------------------------------------------------------------------------
(* arm_cgen.c: the ends of blocks and functions                            *)

LEMMA arm_RetTidy == ASSUME arm_Kept, NEW a1 \in Vars, arm_ret(a1) PROVE SInv'
  <1>1. PICK m, n :
          /\ m \in Marks(NoVar, {a1}, {}) /\ Enabled("arm", "ret") /\ arg_words = 0
          /\ \/ n = arm_LoadArg2(m, Pair(0, 1), a1) \/ n = arm_ReturnStruct(m, a1) \/ n = arm_LoadArg(m, 0, a1)
          /\ Commit(arm_update_args(n, NoVar, a1, Const))
    BY DEF arm_ret
  <1>2. target = "arm" /\ Tidy(m, {}, m) /\ m \in States /\ m.args = 0 BY <1>1, arm_BeginTidy
  <1>3. PICK X : X = ArgRegs[target] OBVIOUS
  <1>4. /\ Watched[target] = {} /\ 0 \in X /\ Pair(0, 1).r1 \in X /\ Pair(0, 1).r2 \in X
        /\ \A q : Ours(q, SCRATCH_REG) /\ Ours(q, LinkReg)
    BY <1>2, <1>3, arm_FreeRegs DEF ArmArgs, Pair
  <1>5. Tidy(m, X, m) /\ m.passed = {} BY <1>2, TidySelf, NoneTidy
  <1>6. Tidy(arm_ReturnStruct(m, a1), X, m)
    <2>1. Tidy(Clobber(m, {0}), X, m) BY <1>4, <1>5, ClobberTidy
    <2>2. Tidy(arm_LoadArg(Clobber(m, {0}), SCRATCH_REG, a1), X, m) BY <1>2, <1>4, <2>1, arm_LoadTidy
    <2> QED BY <1>4, <2>2, ClobberTidy DEF arm_ReturnStruct
  <1>7. Tidy(n, X, m) BY <1>1, <1>2, <1>4, <1>5, <1>6, arm_LoadTidy, arm_Load2Tidy
  <1>8. n.passed = {} BY <1>5, <1>7 DEF Tidy
  <1>9. Tidy(n, {}, m) BY <1>4, <1>7, <1>8, DropTidy
  <1> QED BY <1>1, <1>2, <1>9, arm_CommitTidy

LEMMA arm_CbrTidy == ASSUME arm_Kept, NEW a1 \in Vars, arm_cbr(a1) PROVE SInv'
  <1>1. PICK m, n :
          /\ m \in Marks(NoVar, {a1}, {}) /\ Enabled("arm", "cbr")
          /\ n = arm_OrWords(arm_Loaded2(m, NoVar, a1)) \/ n = RightRes(arm_Loaded(m, NoVar, a1), a1)
          /\ Commit(arm_update_args(n, NoVar, a1, Const))
    BY DEF arm_cbr
  <1>2. target = "arm" /\ Tidy(m, {}, m) BY <1>1, arm_BeginTidy
  <1>3. Tidy(arm_OrWords(arm_Loaded2(m, NoVar, a1)), {}, m)
    BY <1>2, arm_LoadedTidy, OwnTidy, ClobberTidy DEF arm_OrWords
  <1>4. Tidy(RightRes(arm_Loaded(m, NoVar, a1), a1), {}, m) BY <1>2, arm_LoadedTidy, RightTidy
  <1> QED BY <1>1, <1>2, <1>3, <1>4, arm_CommitTidy

LEMMA arm_SwitchTidy == ASSUME arm_Kept, NEW a1 \in Vars, arm_switch(a1) PROVE SInv'
  <1>1. PICK m, p, q :
          /\ m \in Marks(NoVar, {a1}, {}) /\ Enabled("arm", "switch")
          /\ p = arm_update_args(arm_InPlace2(m, NoVar, a1), NoVar, a1, Const)
          /\ q = arm_update_args(arm_InPlace(m, NoVar, a1), NoVar, a1, Const)
          /\ Commit(arm_Compare2(p, a1)) \/ Commit(arm_Compare(q, a1))
    BY DEF arm_switch
  <1>2. target = "arm" /\ Tidy(m, {}, m) BY <1>1, arm_BeginTidy
  <1>3. Tidy(p, {}, m) /\ Tidy(q, {}, m) BY <1>1, <1>2, arm_LoadedTidy, arm_ArgsTidy
  <1>4. Tidy(arm_Compare2(p, a1), {}, m) BY <1>3, RightTidy DEF arm_Compare2
  <1>5. Ours(RightRes(q, a1), q.res.r1) BY <1>2, <1>3, OwnTidy, RiscOurs
  <1>6. Tidy(RightRes(q, a1), {}, m) BY <1>3, RightTidy
  <1>7. RightRes(q, a1).res = q.res BY DEF RightRes, RightIn, Reads, Fault
  <1>8. Tidy(arm_Compare(q, a1), {}, m) BY <1>5, <1>6, <1>7, ClobberTidy DEF arm_Compare
  <1> QED BY <1>1, <1>4, <1>8, FinishTidy

LEMMA arm_FunctionTidy == ASSUME arm_Kept, arm_function_definition PROVE SInv'
  <1>1. PICK n : n = [cg EXCEPT !.modified = {}, !.temps = <<>>, !.written = {}] OBVIOUS
  <1>2. Entry(n, {}) /\ target = "arm" BY <1>1 DEF arm_function_definition, Enabled
  <1>3. PICK m : m = cg /\ Tidy(m, {}, m) BY DEF arm_Kept, SInv
  <1>4. Watched[target] = {} BY <1>2, arm_FreeRegs
  <1>5. Tidy(n, {}, n) BY <1>1, <1>3, <1>4 DEF Tidy, Form, Intact, Ours, Noted
  <1> QED BY <1>2, <1>5, EntryTidy

LEMMA arm_StepTidy == ASSUME arm_Kept, arm_Next PROVE SInv'
  <1>1. /\ WordTemps \subseteq Vars /\ WideTemps \subseteq Vars /\ Scalars \subseteq Vars /\ Wide \subseteq Vars
        /\ Temps \subseteq Vars /\ Structs \subseteq Vars /\ Pointers \subseteq Vars
        /\ \A p \in Ops2 : p[1] \in Vars \cup {Const} /\ p[2] \in Vars \cup {Const}
        /\ \A p \in WideOps : p[1] \in Wide \cup {Const} /\ p[2] \in Wide \cup {Const}
        /\ \A s \in StructKinds : s[1] \in {1, 4} /\ s[2] \in {1, 2}
    BY CGenRegsAssumption DEF WordTemps, WideTemps, Scalars, Pointers, Ops2, WideOps, StructKinds
  <1>2. CASE \E t \in WordTemps, p \in Ops2 :
               arm_div(t, p[1], p[2]) \/ \E imm \in Kinds(p[2]) : arm_alu(t, p[1], p[2], imm)
    BY <1>1, <1>2, arm_AluTidy, arm_DivTidy
  <1>3. CASE \E t \in WideTemps, p \in WideOps : arm_alu2(t, p[1], p[2]) BY <1>1, <1>3, arm_Alu2Tidy
  <1>4. CASE \/ \E t \in WordTemps \cup WideTemps, p \in WideOps : arm_do_libcall(t, p[1], p[2])
             \/ \E t \in WideTemps, a \in Wide, c \in Scalars \ Wide : arm_do_libcall(t, a, c)
    BY <1>1, <1>4, arm_DoLibcallTidy
  <1>5. CASE \E p \in Ops2 : \E imm \in Kinds(p[2]) : arm_relop_jump(p[1], p[2], imm) BY <1>1, <1>5, arm_RelopJumpTidy
  <1>6. CASE \/ \E t \in WordTemps, a \in Scalars : arm_unary(t, a)
             \/ \E t \in WideTemps : \/ \E a \in Wide : arm_unary2(t, a)
                                     \/ \E a \in Scalars \ Wide : arm_llx(t, a)
             \/ \E t \in Wide, a \in Wide \cup {Const} : arm_asn(t, a)
             \/ \E t \in Scalars \ Wide, a \in Scalars \cup {Const} : arm_asn(t, a)
             \/ \E t \in Structs, a \in Structs : arm_asn(t, a)
    BY <1>1, <1>6, arm_UnaryTidy
  <1>7. CASE \E t \in WordTemps : arm_addr_of(t) BY <1>1, <1>7, arm_AddrOfTidy
  <1>8. CASE \E t \in Temps, a \in Pointers : arm_ind(t, a) BY <1>1, <1>8, arm_IndTidy
  <1>9. CASE \E a \in Pointers, b \in Vars \cup {Const} : arm_ind_asn(a, b) BY <1>1, <1>9, arm_IndAsnTidy
  <1>10. CASE \E t \in Temps \cup {NoVar} : arm_call(t) \/ \E a \in Pointers : arm_indcall(t, a)
    BY <1>10, arm_CallTidy, arm_IndCallTidy
  <1>11. CASE \E a \in Vars : arm_ret(a) \/ \E s \in StructKinds : arm_arg(a, s[1], s[2])
    BY <1>1, <1>11, arm_ArgTidy, arm_RetTidy
  <1>12. CASE arm_arg_area BY <1>12, arm_ArgAreaTidy
  <1>13. CASE \E a \in Scalars : arm_cbr(a) \/ arm_switch(a) BY <1>1, <1>13, arm_CbrTidy, arm_SwitchTidy
  <1>14. CASE arm_next_block BY <1>14, EntryTidy DEF arm_next_block, arm_Kept, SInv
  <1>15. CASE arm_function_definition BY <1>15, arm_FunctionTidy
  <1> QED BY <1>2, <1>3, <1>4, <1>5, <1>6, <1>7, <1>8, <1>9, <1>10, <1>11, <1>12, <1>13, <1>14, <1>15 DEF arm_Next

-----------------------------------------------------------------------------
(* mips_cgen.c                                                              *)

LEMMA mips_FreeRegs ==
  ASSUME target = "mips"
  PROVE  /\ Watched[target] = {} /\ ArgRegs[target] = MipsArgs /\ FirstArgReg[target] = FirstArg
         /\ \A m : \A r \in MipsVars : Ours(m, r)
         /\ \A m : Ours(m, 2) /\ Ours(m, 3) /\ Ours(m, Scratch)
         /\ \A m : \A r \in MipsCallerSave : r \in ArgRegs[target] \/ Ours(m, r)
  BY RiscIs DEF MipsArgs, MipsVars, Scratch, MipsCallerSave

LEMMA mips_StoreTidy ==
  ASSUME target = "mips", NEW m, NEW X, NEW o, Tidy(m, X, o), NEW r, NEW a
  PROVE  Tidy(mips_store(m, r, a), X, o) /\ Tidy(mips_store2(m, r, a), X, o)
  <1>1. \A n : Tidy(n, X, o) => Tidy(Clobber(n, {Scratch}), X, o)
    <2> SUFFICES ASSUME NEW n, Tidy(n, X, o) PROVE Tidy(Clobber(n, {Scratch}), X, o)
      OBVIOUS
    <2>1. \A q \in {Scratch} : q \in X \/ Ours(n, q) BY mips_FreeRegs
    <2> QED BY <2>1, ClobberTidy
  <1>2. \A src, dst : Tidy(mips_memcpy(m, src, dst), X, o) BY <1>1, MemoryTidy DEF mips_memcpy
  <1> QED BY <1>2, StoreTidy DEF mips_store, mips_store2

LEMMA mips_StoreVarTidy ==
  ASSUME target = "mips", NEW m, NEW X, NEW o, Tidy(m, X, o), NEW a PROVE Tidy(mips_StoreVar(m, a), X, o)
  BY mips_StoreTidy DEF mips_StoreVar

LEMMA mips_SpillTidy ==
  ASSUME target = "mips", NEW m, NEW X, NEW o, Tidy(m, X, o), NEW r PROVE Tidy(mips_spill_reg(m, r), X, o)
  BY mips_StoreVarTidy, ReleaseTidy DEF mips_spill_reg, SpillReg

LEMMA mips_SpillTheseTidy ==
  ASSUME target = "mips", NEW m \in States, NEW X, NEW o, Tidy(m, X, o), NEW S \in SUBSET Vars
  PROVE  Tidy(SpillThese(m, S, mips_spill_reg), X, o)
  <1>1. PICK f : SpillThese(m, S, mips_spill_reg) = f[LastReg] /\ mips_Loop(f, m, S) BY mips_Spilling
  <1>2. \A r \in 0 .. LastReg : Tidy(f[r - 1], X, o) => Tidy(f[r], X, o) BY <1>1, mips_SpillTidy DEF mips_Loop
  <1>3. PICK N \in Nat : N = LastReg BY LastRegIs
  <1>4. Tidy(f[N], X, o) BY <1>1, <1>2, <1>3, LoopTidy DEF mips_Loop
  <1> QED BY <1>1, <1>3, <1>4

LEMMA mips_AliasedTidy ==
  ASSUME target = "mips", NEW m \in States, NEW X, NEW o, Tidy(m, X, o)
  PROVE  Tidy(mips_spill_aliased_objects(m), X, o) /\ Tidy(mips_spill_all(m), X, o)
  <1>1. Aliased \subseteq Vars BY CGenRegsAssumption DEF Aliased, Ids
  <1> QED BY <1>1, mips_SpillTheseTidy DEF mips_spill_aliased_objects, mips_spill_all

LEMMA mips_Get0Tidy == ASSUME target = "mips", NEW m, NEW X, NEW o, Tidy(m, X, o) PROVE Tidy(mips_get_reg0(m), X, o)
  <1>1. \A r \in MipsVars : Tidy(mips_Take(m, r), X, o)
    <2> TAKE r \in MipsVars
    <2>1. \A n : Ours(n, r) BY mips_FreeRegs
    <2>2. Tidy(mips_spill_reg(m, r), X, o) BY mips_SpillTidy
    <2> QED BY <2>1, <2>2, ResTidy DEF mips_Take
  <1>2. MipsPool \in SUBSET (Regs \cap MipsVars) /\ Regs \subseteq Nat BY mips_Regs, RegsAre
  <1>3. \A S \in SUBSET MipsPool : S # {} => Min(S) \in MipsVars
    <2> SUFFICES ASSUME NEW S \in SUBSET MipsPool, S # {} PROVE Min(S) \in MipsVars OBVIOUS
    <2>1. S \in SUBSET Nat BY <1>2
    <2>2. Min(S) \in S BY <2>1, MinIs
    <2> QED BY <1>2, <2>2
  <1>4. CASE MipsPool \subseteq m.pinned
    <2>1. Tidy([m EXCEPT !.got = 2], X, o) BY mips_FreeRegs, ResTidy
    <2> QED BY <1>4, <2>1, FaultTidy DEF mips_get_reg0
  <1>5. CASE ~ (MipsPool \subseteq m.pinned)
    <2>1. PICK S : S = IF EmptyRegs(m, MipsPool) \subseteq m.pinned
                       THEN MipsPool \ m.pinned ELSE EmptyRegs(m, MipsPool) \ m.pinned
      OBVIOUS
    <2>2. S \in SUBSET MipsPool /\ S # {} BY <1>5, <2>1 DEF EmptyRegs
    <2>3. Min(S) \in MipsVars BY <1>3, <2>2
    <2> QED BY <1>1, <1>5, <2>1, <2>3 DEF mips_get_reg0
  <1> QED BY <1>4, <1>5

LEMMA mips_GetRegTidy ==
  ASSUME target = "mips", NEW m, NEW X, NEW o, Tidy(m, X, o), NEW a \in Vars \cup {Const}, NEW live
  PROVE  /\ Tidy(mips_get_reg(m, a, live), X, o) /\ Tidy(GetReg2(m, a, live, mips_get_reg0), X, o)
         /\ Tidy(mips_get_reg2(m, a, live), X, o)
  <1>1. Tidy(mips_get_reg(m, a, live), X, o) BY mips_Get0Tidy, OwnTidy, ResTidy, GotTidy DEF mips_get_reg, GetReg, InReg
  <1>2. PICK n : n = PinRes(GetReg(m, a, live, mips_get_reg0)) OBVIOUS
  <1>3. Tidy(n, X, o) BY <1>1, <1>2, PinTidy DEF mips_get_reg
  <1>4. Tidy(HighReg(n, a, live, mips_get_reg0), X, o)
    <2>1. \A v \in Vars : Ours(n, addr_reg2(n, v)) BY <1>3, OwnTidy
    <2>2. \A r : Ours(n, r) => Tidy([n EXCEPT !.res.r2 = r], X, o) BY <1>3, ResTidy
    <2>3. Tidy(Got2(mips_get_reg0(n)), X, o) BY <1>3, mips_Get0Tidy, GotTidy
    <2> QED BY <2>1, <2>2, <2>3 DEF HighReg
  <1>5. PICK q : q = GetReg2(m, a, live, mips_get_reg0) OBVIOUS
  <1>6. Tidy(q, X, o) BY <1>2, <1>4, <1>5, PinTidy DEF GetReg2
  <1> QED BY <1>1, <1>5, <1>6 DEF mips_get_reg2

LEMMA mips_LoadTidy ==
  ASSUME target = "mips", NEW m, NEW X, NEW o, Tidy(m, X, o), NEW r, r \in X \/ Ours(m, r), NEW a
  PROVE  Tidy(mips_load(m, r, a), X, o) /\ Tidy(mips_LoadArg(m, r, a), X, o)
  BY LoadTidy, RightTidy DEF mips_load, mips_LoadArg

LEMMA mips_Load2Tidy ==
  ASSUME target = "mips", NEW m, NEW X, NEW o, Tidy(m, X, o), NEW r, r.r1 \in X \/ Ours(m, r.r1), r.r2 \in X \/ Ours(m, r.r2),
         NEW a
  PROVE  Tidy(mips_load2(m, r, a), X, o) /\ Tidy(mips_LoadArg2(m, r, a), X, o)
  BY Load2Tidy, RightTidy DEF mips_load2, mips_LoadArg2

LEMMA mips_LoadResTidy ==
  ASSUME target = "mips", NEW m, NEW X, NEW o, Tidy(m, X, o), NEW a
  PROVE  Tidy(mips_LoadRes(m, a), X, o) /\ Tidy(mips_LoadRes2(m, a), X, o)
  BY OwnTidy, mips_LoadTidy, mips_Load2Tidy DEF mips_LoadRes, mips_LoadRes2, mips_LoadArg2

LEMMA mips_LoadedTidy ==
  ASSUME target = "mips", NEW m, NEW X, NEW o, Tidy(m, X, o), NEW tar, NEW a \in Vars \cup {Const}
  PROVE  /\ Tidy(mips_Loaded(m, tar, a), X, o) /\ Tidy(mips_Loaded2(m, tar, a), X, o) /\ Tidy(mips_LoadedLow(m, tar, a), X, o)
         /\ Tidy(mips_InPlace(m, tar, a), X, o) /\ Tidy(mips_InPlace2(m, tar, a), X, o)
  <1>1. Tidy(mips_Loaded(m, tar, a), X, o) BY mips_GetRegTidy, mips_LoadResTidy DEF mips_Loaded
  <1>2. Tidy(mips_Loaded2(m, tar, a), X, o) /\ Tidy(mips_LoadedLow(m, tar, a), X, o)
    BY mips_GetRegTidy, mips_LoadResTidy DEF mips_Loaded2, mips_LoadedLow
  <1>3. InReg(m, a) => a \in Vars BY DEF InReg
  <1>4. Tidy(mips_InPlace(m, tar, a), X, o) BY <1>1, <1>3, OwnTidy, ResTidy DEF mips_InPlace
  <1>5. InReg(m, a) => Tidy([m EXCEPT !.res = m.addr[a]], X, o) BY <1>3, OwnTidy, ResTidy
  <1> QED BY <1>1, <1>2, <1>4, <1>5 DEF mips_InPlace2

LEMMA mips_LoadGotTidy ==
  ASSUME target = "mips", NEW m, NEW X, NEW o, Tidy(m, X, o), NEW a PROVE Tidy(mips_LoadGot(mips_get_reg0(m), a), X, o)
  BY mips_Get0Tidy, OwnTidy, mips_LoadTidy DEF mips_LoadGot

LEMMA mips_OperandTidy ==
  ASSUME target = "mips", NEW m, NEW X, NEW o, Tidy(m, X, o), NEW a, NEW imm PROVE Tidy(mips_get_operand(m, a, imm), X, o)
  BY mips_LoadGotTidy, OperandTidy DEF mips_get_operand

LEMMA mips_Operand2Tidy ==
  ASSUME target = "mips", NEW m, NEW X, NEW o, Tidy(m, X, o), NEW a PROVE Tidy(mips_get_operand2(m, a), X, o)
  <1>1. \A Y, ok : Tidy(Fault(Operand(m, Y), "assert", ok), X, o) BY OperandTidy, FaultTidy
  <1>2. PICK q : q = GetReg2(m, Const, TRUE, mips_get_reg0) OBVIOUS
  <1>3. PICK k : k = mips_load2(q, q.res, a) OBVIOUS
  <1>4. Tidy(m, X, m) BY TidySelf
  <1>5. DOMAIN m.res = {"r1", "r2"} /\ Ours(m, m.res.r1) /\ Ours(m, m.res.r2) BY OwnTidy
  <1>6. Tidy(q, X, m) BY <1>2, <1>4, mips_GetRegTidy
  <1>7. Tidy(k, X, m) BY <1>3, <1>6, OwnTidy, mips_Load2Tidy
  <1>8. \A Y : Tidy([k EXCEPT !.opd = Y], X, m) BY <1>7, MemoryTidy
  <1>9. \A n, r : Tidy(n, X, m) /\ Ours(m, r) => Ours(n, r) BY DEF Tidy, Ours, Noted
  <1>10. Tidy([[k EXCEPT !.opd = q.res] EXCEPT !.res = m.res], X, m) BY <1>5, <1>8, <1>9, ResTidy
  <1>11. mips_LoadPair(q, m.res, a) = [[k EXCEPT !.opd = q.res] EXCEPT !.res = m.res] BY <1>3 DEF mips_LoadPair
  <1>12. Tidy(mips_LoadPair(q, m.res, a), X, o) BY <1>10, <1>11, TidyTrans
  <1> QED BY <1>1, <1>2, <1>12 DEF mips_get_operand2

LEMMA mips_OnOperandsTidy ==
  ASSUME target = "mips", NEW m, NEW X, NEW o, Tidy(m, X, o), NEW a1, NEW a2, NEW imm
  PROVE  Tidy(mips_OnOperands(m, a1, a2, imm), X, o)
  BY mips_OperandTidy, PinTidy, RightTidy DEF mips_OnOperands

LEMMA mips_ArgsTidy ==
  ASSUME target = "mips", NEW m, NEW X, NEW o, Tidy(m, X, o), NEW tar, NEW a1, NEW a2
  PROVE  Tidy(mips_update_args(m, tar, a1, a2), X, o)
  <1>1. \A n, a, live, next : Tidy(n, X, o) => Tidy(mips_update_arg_descriptors(n, a, live, next), X, o)
    BY mips_StoreVarTidy, ReleaseTidy, FreeTempTidy DEF mips_update_arg_descriptors, UpdateArg, Kept
  <1> QED BY <1>1 DEF mips_update_args, UpdateArgs

LEMMA mips_TarTidy ==
  ASSUME target = "mips", NEW m, NEW X, NEW o, Tidy(m, X, o), NEW tar
  PROVE  Tidy(mips_update_tar(m, tar), X, o) /\ Tidy(mips_update_tar2(m, tar), X, o)
  <1>1. Ours(m, m.res.r1) /\ Ours(m, m.res.r2) /\ DOMAIN m.res = {"r1", "r2"} BY OwnTidy
  <1>2. Tidy(Bind(m, m.res.r1, tar), X, o) /\ Tidy(Bind2(m, m.res, tar), X, o) BY <1>1, BindTidy, Bind2Tidy
  <1>3. Tidy(mips_update_tar(m, tar), X, o)
    BY <1>2, mips_StoreTidy, UnbindTidy DEF mips_update_tar, mips_update_tar_descriptors, UpdateTar
  <1>4. Tidy(mips_update_tar2(m, tar), X, o)
    BY <1>2, mips_StoreTidy, ReleaseTidy DEF mips_update_tar2, mips_update_tar_descriptors2, UpdateTar2
  <1> QED BY <1>3, <1>4

\* The end of most handlers.
LEMMA mips_CommitTidy ==
  ASSUME target = "mips", NEW m, NEW o, Tidy(m, {}, o), NEW tar, NEW a1, NEW a2
  PROVE  /\ Commit(mips_update_args(m, tar, a1, a2)) => SInv'
         /\ Commit(mips_UPDATE_ADDRESSES(m, tar, a1, a2)) => SInv'
         /\ Commit(mips_UPDATE_ADDRESSES2(m, tar, a1, a2)) => SInv'
         /\ Commit(mips_update_tar(m, tar)) => SInv'
         /\ Commit(mips_update_tar2(m, tar)) => SInv'
  <1>1. PICK n, q, k, q2, k2 :
          /\ n = mips_update_args(m, tar, a1, a2) /\ q = mips_update_tar(m, tar) /\ k = mips_update_tar(n, tar)
          /\ q2 = mips_update_tar2(m, tar) /\ k2 = mips_update_tar2(n, tar)
    OBVIOUS
  <1>2. Tidy(n, {}, o) BY <1>1, mips_ArgsTidy
  <1>3. Tidy(q, {}, o) /\ Tidy(k, {}, o) /\ Tidy(q2, {}, o) /\ Tidy(k2, {}, o) BY <1>1, <1>2, mips_TarTidy
  <1> QED BY <1>1, <1>2, <1>3, FinishTidy DEF mips_UPDATE_ADDRESSES, mips_UPDATE_ADDRESSES2


-----------------------------------------------------------------------------
(* mips_cgen.c: the handlers keep the registers tidy                        *)

mips_Kept == IInv /\ SInv /\ Roomy4(MipsPool)

LEMMA mips_BeginTidy ==
  ASSUME mips_Kept, NEW h, Enabled("mips", h), NEW tar, NEW args, NEW implicit, implicit \subseteq Crossing,
         NEW m \in Marks(tar, args, implicit)
  PROVE  target = "mips" /\ Tidy(m, {}, m) /\ m \in States /\ m.args = arg_words
  <1>1. Going(m, tar, args, {}) /\ m.args = arg_words BY Begin DEF mips_Kept
  <1> QED BY <1>1, GoingIs, BeginTidy DEF mips_Kept, Enabled


LEMMA mips_AluTidy ==
  ASSUME mips_Kept, NEW tar \in Vars, NEW a1 \in Vars \cup {Const}, NEW a2, NEW imm, mips_alu(tar, a1, a2, imm)
  PROVE  SInv'
  <1>1. PICK m, n :
          /\ m \in Marks(tar, {a1, a2}, {}) /\ Enabled("mips", "alu")
          /\ n = mips_OnOperands(mips_Loaded(m, tar, a1), a1, a2, imm)
          /\ Commit(mips_UPDATE_ADDRESSES(Computes(n, tar), tar, a1, a2))
    BY DEF mips_alu
  <1>2. target = "mips" /\ Tidy(m, {}, m) BY <1>1, mips_BeginTidy
  <1>3. Tidy(n, {}, m) BY <1>1, <1>2, mips_LoadedTidy, mips_OnOperandsTidy
  <1> QED BY <1>1, <1>2, <1>3, ComputesTidy, mips_CommitTidy

\* The operands of a 64-bit instruction, and its result.
LEMMA mips_Pair2Tidy ==
  ASSUME target = "mips", NEW n, NEW o, Tidy(n, {}, o), NEW tar \in Vars, NEW a1 \in Vars \cup {Const}, NEW a2
  PROVE  /\ Tidy(mips_PinRes2(mips_Loaded2(n, tar, a1)), {}, o) /\ Tidy(mips_Operands2(n, tar, a1, a2), {}, o)
         /\ Tidy(mips_ReadLow(n, a1, a2), {}, o) /\ Tidy(mips_ReadHigh(n, a1, a2), {}, o)
         /\ Commit(mips_Result2(n, tar, a1, a2)) => SInv'
  <1>1. Tidy(mips_Loaded2(n, tar, a1), {}, o) BY mips_LoadedTidy
  <1>2. Tidy(mips_PinRes2(mips_Loaded2(n, tar, a1)), {}, o) BY <1>1, PinTidy DEF mips_PinRes2
  <1>3. Tidy(mips_Operands2(n, tar, a1, a2), {}, o) BY <1>2, mips_Operand2Tidy DEF mips_Operands2
  <1>4. Tidy(mips_ReadLow(n, a1, a2), {}, o) /\ Tidy(mips_ReadHigh(n, a1, a2), {}, o)
    BY RightTidy DEF mips_ReadLow, mips_ReadHigh
  <1>5. Tidy(mips_UnpinRes2(n), {}, o) BY PinTidy DEF mips_UnpinRes2
  <1>6. Tidy(Computes2(mips_UnpinRes2(n), tar), {}, o) BY <1>5, ComputesTidy
  <1> QED BY <1>2, <1>3, <1>4, <1>6, mips_CommitTidy DEF mips_Result2

LEMMA mips_LowWordsTidy ==
  ASSUME target = "mips", NEW n, NEW o, Tidy(n, {}, o), NEW a1, NEW a2 PROVE Tidy(mips_LowWords(n, a1, a2), {}, o)
  <1>1. Tidy(mips_ReadLow(n, a1, a2), {}, o) BY RightTidy DEF mips_ReadLow
  <1>2. \A x : Ours(x, n.res.r1) BY OwnTidy, RiscOurs
  <1> QED BY <1>1, <1>2, ClobberTidy DEF mips_LowWords

LEMMA mips_Logic2Tidy ==
  ASSUME mips_Kept, NEW tar \in Vars, NEW a1 \in Vars \cup {Const}, NEW a2, mips_logic2(tar, a1, a2) PROVE SInv'
  <1>1. PICK m, n, p, q :
          /\ m \in Marks(tar, {a1, a2}, {}) /\ Enabled("mips", "alu2") /\ n = mips_Operands2(m, tar, a1, a2)
          /\ p = mips_LowWords(n, a1, a2) /\ q = mips_ReadHigh(p, a1, a2) /\ Commit(mips_Result2(q, tar, a1, a2))
    BY DEF mips_logic2
  <1>2. target = "mips" /\ Tidy(m, {}, m) BY <1>1, mips_BeginTidy
  <1>3. Tidy(p, {}, m) BY <1>1, <1>2, mips_Pair2Tidy, mips_LowWordsTidy
  <1>4. Tidy(q, {}, m) BY <1>1, <1>2, <1>3, mips_Pair2Tidy
  <1> QED BY <1>1, <1>2, <1>4, mips_Pair2Tidy

LEMMA mips_Add2Tidy ==
  ASSUME mips_Kept, NEW tar \in Vars, NEW a1 \in Vars \cup {Const}, NEW a2, mips_add2(tar, a1, a2) PROVE SInv'
  <1>1. PICK h, m, n, p, s, q :
          /\ m \in Marks(tar, {a1, a2}, {}) /\ Enabled("mips", h) /\ n = mips_Operands2(m, tar, a1, a2)
          /\ p = mips_LowWords(n, a1, a2) /\ s = Clobber(mips_Carry(p, a2), {Scratch}) /\ q = mips_ReadHigh(s, a1, a2)
          /\ Commit(mips_Result2(q, tar, a1, a2))
    BY DEF mips_add2
  <1>2. target = "mips" /\ Tidy(m, {}, m) BY <1>1, mips_BeginTidy
  <1>3. Tidy(p, {}, m) BY <1>1, <1>2, mips_Pair2Tidy, mips_LowWordsTidy
  <1>4. Tidy(s, {}, m) BY <1>1, <1>2, <1>3, RightTidy, mips_FreeRegs, ClobberTidy DEF mips_Carry
  <1>5. Tidy(q, {}, m) BY <1>1, <1>2, <1>4, mips_Pair2Tidy
  <1> QED BY <1>1, <1>2, <1>5, mips_Pair2Tidy

LEMMA mips_Sub2Tidy ==
  ASSUME mips_Kept, NEW tar \in Vars, NEW a1 \in Vars \cup {Const}, NEW a2, mips_sub2(tar, a1, a2) PROVE SInv'
  <1>1. PICK m, k, n, p, s, q, g :
          /\ m \in Marks(tar, {a1, a2}, {}) /\ Enabled("mips", "alu2")
          /\ k = mips_get_reg0(mips_PinRes2(mips_Loaded2(m, tar, a1))) /\ n = mips_Borrow(k) /\ g = n.got
          /\ p = mips_ReadLow(mips_get_operand2(n, a2), a1, a2) /\ s = Clobber(p, {Scratch, g, p.res.r1})
          /\ q = unpin_reg(mips_ReadHigh(s, a1, a2), g) /\ Commit(mips_Result2(q, tar, a1, a2))
    BY DEF mips_sub2
  <1>2. target = "mips" /\ Tidy(m, {}, m) BY <1>1, mips_BeginTidy
  <1>3. Tidy(k, {}, m) BY <1>1, <1>2, mips_Pair2Tidy, mips_Get0Tidy
  <1>4. Tidy(n, {}, m) BY <1>1, <1>3, PinTidy DEF mips_Borrow
  <1>5. Tidy(mips_get_operand2(n, a2), {}, m) BY <1>2, <1>4, mips_Operand2Tidy
  <1>6. Tidy(p, {}, m) BY <1>1, <1>5, RightTidy DEF mips_ReadLow
  <1>7. \A r \in {Scratch, g, p.res.r1} : Ours(p, r) BY <1>1, <1>2, <1>4, <1>6, OwnTidy, RiscOurs, mips_FreeRegs
  <1>8. Tidy(s, {}, m) BY <1>1, <1>6, <1>7, ClobberTidy
  <1>9. Tidy(q, {}, m)
    <2>1. PICK h : h = RightIn(s, s.res.r2, a1, 2) OBVIOUS
    <2>2. Tidy(h, {}, m) BY <1>8, <2>1, RightTidy
    <2>3. PICK l : l = RightIn(h, s.opd.r2, a2, 2) OBVIOUS
    <2>4. Tidy(l, {}, m) BY <2>2, <2>3, RightTidy
    <2>5. q = unpin_reg(l, g) BY <1>1, <2>1, <2>3 DEF mips_ReadHigh
    <2> QED BY <2>4, <2>5, PinTidy
  <1> QED BY <1>1, <1>2, <1>9, mips_Pair2Tidy

LEMMA mips_UnaryTidy ==
  ASSUME mips_Kept, NEW tar \in Vars, NEW a1 \in Vars \cup {Const},
         mips_unary(tar, a1) \/ mips_unary2(tar, a1) \/ mips_llx(tar, a1) \/ mips_asn(tar, a1)
  PROVE  SInv'
  <1>1. PICK h, m, n, q :
          /\ m \in Marks(tar, {a1}, {}) /\ Enabled("mips", h)
          /\ \/ n = mips_Loaded(m, tar, a1) \/ n = mips_Loaded2(m, tar, a1) \/ n = mips_LoadedLow(m, tar, a1)
          /\ \/ q = Computes(RightRes(n, a1), tar) \/ q = Computes2(n, tar) \/ q = Computes2(RightRes(n, a1), tar)
             \/ q = Copies(n, tar, a1) \/ q = Copies(RightRes(n, a1), tar, a1)
          /\ \/ Commit(mips_UPDATE_ADDRESSES(q, tar, a1, Const)) \/ Commit(mips_UPDATE_ADDRESSES2(q, tar, a1, Const))
    BY DEF mips_unary, mips_unary2, mips_llx, mips_asn
  <1>2. target = "mips" /\ Tidy(m, {}, m) BY <1>1, mips_BeginTidy
  <1>3. Tidy(n, {}, m) BY <1>1, <1>2, mips_LoadedTidy
  <1>4. Tidy(q, {}, m) BY <1>1, <1>3, RightTidy, ComputesTidy, CopiesTidy
  <1> QED BY <1>1, <1>2, <1>4, mips_CommitTidy

LEMMA mips_AddrOfTidy == ASSUME mips_Kept, NEW tar \in Vars, mips_addr_of(tar) PROVE SInv'
  <1>1. PICK m :
          /\ m \in Marks(tar, {}, {}) /\ Enabled("mips", "addr_of")
          /\ Commit(mips_update_tar(Computes(Got1(mips_get_reg0(m)), tar), tar))
    BY DEF mips_addr_of
  <1>2. {} \subseteq Crossing OBVIOUS
  <1>3. target = "mips" /\ Tidy(m, {}, m) BY <1>1, <1>2, mips_BeginTidy
  <1>4. Tidy(Got1(mips_get_reg0(m)), {}, m) BY <1>3, mips_Get0Tidy, GotTidy
  <1> QED BY <1>1, <1>3, <1>4, ComputesTidy, mips_CommitTidy

-----------------------------------------------------------------------------
(* mips_cgen.c: calls of library functions                                  *)

LEMMA mips_LibCallTidy ==
  ASSUME target = "mips", NEW o \in States, Tidy(o, {}, o), NEW n \in States, Tidy(n, ArgRegs[target], o)
  PROVE  Tidy(mips_LibCall(n, o), {}, o)
  <1>1. PICK c : c = Clobber(mips_spill_all(n), MipsCallerSave) OBVIOUS
  <1>2. Tidy(mips_spill_all(n), ArgRegs[target], o) BY mips_AliasedTidy
  <1>3. Tidy(c, ArgRegs[target], o) BY <1>1, <1>2, mips_FreeRegs, ClobberTidy
  <1>4. \A k \in o.passed : FirstArgReg[target] + k \in mips_save_arg_regs(o)
    <2> TAKE k \in o.passed
    <2>1. k \in 0 .. 3 BY DEF States, Gen
    <2>2. Intact(o, k) BY DEF Tidy
    <2>3. k < o.args /\ FirstArgReg[target] = 4 /\ FirstArg = 4 BY <2>2, mips_FreeRegs, mips_Regs DEF Intact
    <2> QED BY <2>1, <2>3 DEF mips_save_arg_regs, MipsArgs
  <1> QED BY <1>1, <1>3, <1>4, mips_FreeRegs, RestoredTidy DEF mips_LibCall, mips_restore_arg_regs

LEMMA mips_LibResultTidy ==
  ASSUME target = "mips", NEW m, NEW o, Tidy(m, {}, o), NEW tar \in Vars, NEW a1, NEW a2
  PROVE  /\ Commit(mips_UPDATE_ADDRESSES2(Computes2(Into(m, 2, 3), tar), tar, a1, a2)) => SInv'
         /\ Commit(mips_UPDATE_ADDRESSES(Computes(Into(m, 2, None), tar), tar, a1, a2)) => SInv'
  <1>1. Tidy(Into(m, 2, 3), {}, o) /\ Tidy(Into(m, 2, None), {}, o) BY mips_FreeRegs, ResTidy
  <1> QED BY <1>1, ComputesTidy, mips_CommitTidy

LEMMA mips_DoLibcallTidy ==
  ASSUME mips_Kept, NEW tar \in Vars, NEW a1 \in Wide \cup {Const}, NEW a2 \in Vars \cup {Const}, mips_do_libcall(tar, a1, a2)
  PROVE  SInv'
  <1>1. PICK m, l1, l2 :
          /\ m \in Marks(tar, {a1, a2}, {}) /\ Enabled("mips", "do_libcall")
          /\ l1 = mips_LoadArg2(m, Pair(4, 5), a1)
          /\ l2 = IF a2 \in Wide \cup {Const} THEN mips_LoadArg2(l1, Pair(6, 7), a2) ELSE mips_LoadArg(l1, 6, a2)
          /\ \/ Commit(mips_UPDATE_ADDRESSES2(Computes2(Into(mips_LibCall(l2, m), 2, 3), tar), tar, a1, a2))
             \/ Commit(mips_UPDATE_ADDRESSES(Computes(Into(mips_LibCall(l2, m), 2, None), tar), tar, a1, a2))
    BY DEF mips_do_libcall
  <1>2. target = "mips" /\ Tidy(m, {}, m) /\ m \in States BY <1>1, mips_BeginTidy
  <1>3. PICK A : A = Named(a1, a2) OBVIOUS
  <1>4. A \in SUBSET Vars /\ A \subseteq {a1, a2} /\ a1 \in A \cup {Const} /\ a2 \in A \cup {Const}
    BY <1>3, NamedIs, CGenRegsAssumption
  <1>5. l2 \in States
    <2>1. m \in Still(m, A) BY <1>2, <1>4, StillSelf
    <2>2. m.pinned = {} /\ Only(m, MipsVars) BY <1>1, mips_Begin DEF mips_Kept, mips_Runs
    <2>3. l1 \in Still(m, A) BY <1>1, <1>2, <1>4, <2>1, <2>2, mips_LoadArg2Still, mips_Regs
    <2>4. l2 \in Still(m, A) BY <1>1, <1>2, <1>4, <2>2, <2>3, mips_LoadArg2Still, mips_LoadArgStill, mips_Regs
    <2> QED BY <1>2, <1>4, <2>4, StillIs
  <1>6. Tidy(m, ArgRegs[target], m) BY <1>2, TidySelf
  <1>7. /\ Pair(4, 5).r1 \in ArgRegs[target] /\ Pair(4, 5).r2 \in ArgRegs[target] /\ Pair(6, 7).r1 \in ArgRegs[target]
        /\ Pair(6, 7).r2 \in ArgRegs[target] /\ 6 \in ArgRegs[target]
    BY <1>2, mips_FreeRegs DEF MipsArgs, Pair
  <1>8. Tidy(l1, ArgRegs[target], m) BY <1>1, <1>2, <1>6, <1>7, mips_Load2Tidy
  <1>9. Tidy(l2, ArgRegs[target], m) BY <1>1, <1>2, <1>7, <1>8, mips_LoadTidy, mips_Load2Tidy
  <1>10. Tidy(mips_LibCall(l2, m), {}, m) BY <1>2, <1>5, <1>9, mips_LibCallTidy
  <1> QED BY <1>1, <1>2, <1>10, mips_LibResultTidy


-----------------------------------------------------------------------------
(* mips_cgen.c: pointers and calls                                          *)

LEMMA mips_IndTidy == ASSUME mips_Kept, NEW tar \in Vars, NEW a1 \in Vars \cup {Const}, mips_ind(tar, a1) PROVE SInv'
  <1>1. PICK m, n, word, pair :
          /\ m \in Marks(tar, {a1}, AddrTaken) /\ Enabled("mips", "ind") /\ n = mips_spill_aliased_objects(m)
          /\ word = ReadsMemory(RightRes(mips_Loaded(n, tar, a1), a1), Pointed)
          /\ pair = ReadsMemory(RightRes(mips_LoadedLow(n, tar, a1), a1), Pointed)
          /\ \/ Commit(mips_UPDATE_ADDRESSES2(Computes2(pair, tar), tar, a1, Const))
             \/ Commit(mips_UPDATE_ADDRESSES(ComputesAt(word, tar, Far), tar, a1, Const))
             \/ Commit(mips_UPDATE_ADDRESSES(Computes(word, tar), tar, a1, Const))
    BY DEF mips_ind
  <1>2. target = "mips" /\ Tidy(m, {}, m) /\ m \in States BY <1>1, mips_BeginTidy, CGenAssumption
  <1>3. Tidy(n, {}, m) BY <1>1, <1>2, mips_AliasedTidy
  <1>4. Tidy(word, {}, m) /\ Tidy(pair, {}, m) BY <1>1, <1>2, <1>3, mips_LoadedTidy, RightTidy, ReadsMemoryTidy
  <1>5. Tidy(Computes2(pair, tar), {}, m) /\ Tidy(ComputesAt(word, tar, Far), {}, m) /\ Tidy(Computes(word, tar), {}, m)
    BY <1>4, ComputesTidy, ComputesAtTidy
  <1> QED BY <1>1, <1>2, <1>5, mips_CommitTidy

LEMMA mips_StoredTidy ==
  ASSUME target = "mips", NEW n, NEW o, Tidy(n, {}, o), NEW a1 \in Vars, NEW a2 \in Vars \cup {Const}
  PROVE  /\ Tidy(mips_StoredStruct(n, a1, a2), {}, o)
         /\ Tidy(mips_PointerRight(mips_StoredPair(mips_Pointer(n, a1), a2), a1), {}, o)
         /\ Tidy(mips_PointerRight(mips_StoredWord(mips_Pointer(n, a1), a2), a1), {}, o)
  <1>1. PICK p : p = mips_Pointer(n, a1) OBVIOUS
  <1>2. Tidy(p, {}, o) BY <1>1, OwnTidy, ResTidy, PinTidy, mips_LoadedTidy DEF mips_Pointer
  <1>3. \A m : Ours(m, Scratch) BY mips_FreeRegs
  <1>4. Tidy(mips_LoadArg(mips_LoadArg(n, Scratch, a1), Scratch, a2), {}, o) BY <1>3, mips_LoadTidy
  <1>5. Tidy(mips_StoredStruct(n, a1, a2), {}, o) BY <1>3, <1>4, ClobberTidy DEF mips_StoredStruct
  <1>6. Tidy(mips_StoredWord(p, a2), {}, o)
    <2>1. Tidy(mips_LoadGot(mips_get_reg0(p), a2), {}, o) BY <1>2, mips_LoadGotTidy
    <2>2. Tidy(InGot(mips_LoadGot(mips_get_reg0(p), a2)), {}, o) BY <2>1, OperandTidy
    <2> QED BY <1>2, <1>3, <2>2, mips_LoadTidy, RightTidy DEF mips_StoredWord
  <1>7. Tidy(mips_StoredPair(p, a2), {}, o)
    <2>1. Tidy(mips_get_operand2(p, a2), {}, o) BY <1>2, mips_Operand2Tidy
    <2>2. Tidy(Clobber(p, {Scratch}), {}, o) BY <1>2, <1>3, ClobberTidy
    <2> QED BY <2>1, <2>2, RightTidy DEF mips_StoredPair, mips_ReadPair
  <1> QED BY <1>1, <1>5, <1>6, <1>7, RightTidy, PinTidy DEF mips_PointerRight

LEMMA mips_IndAsnTidy ==
  ASSUME mips_Kept, NEW a1 \in Vars, NEW a2 \in Vars \cup {Const}, mips_ind_asn(a1, a2) PROVE SInv'
  <1>1. PICK m, n, q :
          /\ m \in Marks(NoVar, {a1, a2}, {}) /\ Enabled("mips", "ind_asn") /\ n = mips_spill_aliased_objects(m)
          /\ \/ q = mips_StoredStruct(n, a1, a2)
             \/ q = mips_PointerRight(mips_StoredPair(mips_Pointer(n, a1), a2), a1)
             \/ q = mips_PointerRight(mips_StoredWord(mips_Pointer(n, a1), a2), a1)
          /\ Commit(mips_update_args(WritesMemory(q, Pointed), NoVar, a1, a2))
    BY DEF mips_ind_asn
  <1>2. target = "mips" /\ Tidy(m, {}, m) /\ m \in States BY <1>1, mips_BeginTidy, CGenAssumption
  <1>3. Tidy(n, {}, m) BY <1>1, <1>2, mips_AliasedTidy
  <1>4. Pointed \in SUBSET Vars BY CGenRegsAssumption DEF Ids
  <1>5. Tidy(q, {}, m) BY <1>1, <1>2, <1>3, mips_StoredTidy
  <1> QED BY <1>1, <1>2, <1>4, <1>5, WritesMemoryTidy, mips_CommitTidy

LEMMA mips_ReturnedTidy ==
  ASSUME target = "mips", NEW m, NEW o, Tidy(m, {}, o), NEW tar, Commit(mips_Returned(m, tar)) PROVE SInv'
  <1>1. Tidy(Into(m, 2, None), {}, o) /\ Tidy(Into(m, 2, 3), {}, o) BY mips_FreeRegs, ResTidy
  <1>2. Tidy([Into(m, 2, None) EXCEPT !.M[Area][1] = {}], {}, o) BY <1>1 DEF Tidy, Form, Intact, Ours, Noted
  <1>3. Structs \subseteq Vars /\ Wide \subseteq Vars BY CGenRegsAssumption
  <1>4. CASE tar \in Wide BY <1>1, <1>3, <1>4, ComputesTidy, mips_CommitTidy DEF mips_Returned
  <1>5. CASE tar \in Structs \ Wide BY <1>2, <1>3, <1>5, ComputesAtTidy, mips_CommitTidy DEF mips_Returned
  <1>6. CASE tar \in Vars \ (Structs \cup Wide) BY <1>1, <1>6, ComputesTidy, mips_CommitTidy DEF mips_Returned
  <1>7. CASE tar \notin Vars
    <2>1. Commit(m) BY <1>3, <1>7 DEF mips_Returned
    <2> QED BY <2>1, FinishTidy
  <1> QED BY <1>4, <1>5, <1>6, <1>7

\* The callee finds its arguments, and they are gone after the call.
LEMMA mips_CalledTidy ==
  ASSUME target = "mips", NEW m, NEW o, Tidy(m, {}, o) PROVE Tidy(mips_Call(m), {}, mips_Call(m))
  <1>1. PICK n, c, p, q : /\ n = FindsArguments(m, FirstArg) /\ c = Called(n, MipsCallerSave) /\ p = [c EXCEPT !.args = 0]
                          /\ q = mips_Call(m)
    OBVIOUS
  <1>2. FirstArgReg[target] = FirstArg /\ Watched[target] = {} BY mips_FreeRegs
  <1>3. Tidy(n, {}, n) /\ n.passed = {} BY <1>1, <1>2, FoundTidy
  <1>4. Tidy(n, ArgRegs[target], n) BY <1>3, TidySelf
  <1>5. Tidy(c, ArgRegs[target], n) BY <1>1, <1>4, mips_FreeRegs, CalledTidy
  <1>6. c.passed = {} BY <1>3, <1>5 DEF Tidy
  <1>7. Tidy(c, {}, n) BY <1>2, <1>5, <1>6, DropTidy
  <1>8. Tidy(p, {}, p) /\ p.passed = {} BY <1>1, <1>6, <1>7, PushedTidy
  <1>9. q = [p EXCEPT !.passed = {}] BY <1>1 DEF mips_Call, mips_post_call
  <1> QED BY <1>1, <1>8, <1>9 DEF Tidy, Form, Intact, Ours, Noted

LEMMA mips_CallTidy == ASSUME mips_Kept, NEW tar, mips_call(tar) PROVE SInv'
  <1>1. PICK m, n :
          /\ m \in Marks(tar, {}, AddrTaken \cup Statics) /\ Enabled("mips", "call")
          /\ n = mips_Call(mips_spill_all(m)) /\ Commit(mips_Returned(n, tar))
    BY DEF mips_call
  <1>2. target = "mips" /\ Tidy(m, {}, m) /\ m \in States BY <1>1, mips_BeginTidy, CGenAssumption
  <1>3. Tidy(mips_spill_all(m), {}, m) BY <1>2, mips_AliasedTidy
  <1>4. Tidy(n, {}, n) BY <1>1, <1>2, <1>3, mips_CalledTidy
  <1> QED BY <1>1, <1>2, <1>4, mips_ReturnedTidy

LEMMA mips_IndCallTidy == ASSUME mips_Kept, NEW tar, NEW a1, mips_indcall(tar, a1) PROVE SInv'
  <1>1. PICK m, n, q, s :
          /\ m \in Marks(tar, {a1}, AddrTaken \cup Statics) /\ Enabled("mips", "indcall")
          /\ n = RightOpd(mips_get_operand(mips_spill_all(m), a1, FALSE), a1, 1) /\ q = mips_Call(n)
          /\ s = mips_update_args(q, tar, a1, Const) /\ Commit(mips_Returned(s, tar))
    BY DEF mips_indcall
  <1>2. target = "mips" /\ Tidy(m, {}, m) /\ m \in States BY <1>1, mips_BeginTidy, CGenAssumption
  <1>3. Tidy(mips_spill_all(m), {}, m) BY <1>2, mips_AliasedTidy
  <1>4. Tidy(n, {}, m) BY <1>1, <1>2, <1>3, mips_OperandTidy, RightTidy
  <1>5. Tidy(q, {}, q) BY <1>1, <1>2, <1>4, mips_CalledTidy
  <1>6. Tidy(s, {}, q) BY <1>1, <1>2, <1>5, mips_ArgsTidy
  <1> QED BY <1>1, <1>2, <1>6, mips_ReturnedTidy

-----------------------------------------------------------------------------
(* mips_cgen.c: arguments                                                   *)

LEMMA mips_Placed ==
  target = "mips" => Placed /\ FirstArgReg[target] = FirstArg /\ \A j, k \in 0 .. 3 : j # k => FirstArg + j # FirstArg + k
  <1>1. \A k \in 0 .. 3 : FirstArg + k \in Regs /\ FirstArg + k \in MipsArgs
    <2>1. FirstArg = 4 BY mips_Regs
    <2> QED BY <2>1, mips_ArgRegs DEF MipsArgs
  <1>2. FirstArg = 4 BY mips_Regs
  <1> QED BY <1>1, <1>2, mips_FreeRegs DEF Placed

LEMMA mips_ArgWordTidy ==
  ASSUME target = "mips", NEW m \in States, Tidy(m, {}, m), m.args \in Nat, NEW a1 \in Vars,
         NEW n, n = mips_Words(mips_ArgWord(m, a1), m.args, 1)
  PROVE  Tidy(n, {}, n)
  <1>1. CASE m.args < 4
    <2>1. PICK k, r, l, w : k = m.args /\ w = m.args + 1 /\ r = FirstArg + k /\ l = mips_LoadArg(m, r, a1)
      OBVIOUS
    <2>2. k \in 0 .. 3 /\ w = k + 1 /\ k \in Nat BY <1>1, <2>1
    <2>3. Tidy(m, {r}, m) BY TidySelf
    <2>4. Tidy(l, {r}, m) BY <2>1, <2>3, mips_LoadTidy
    <2>5. l.passed \subseteq 0 .. 3 /\ \A j \in l.passed : j < k BY <2>1, <2>4, RiscPassed
    <2>6. Placed /\ FirstArgReg[target] = FirstArg /\ \A j \in 0 .. 3 : j # k => FirstArg + j # FirstArg + k
      BY <2>2, mips_Placed
    <2>7. n = WordIn(l, k, w) BY <1>1, <2>1, <2>6 DEF mips_Words, mips_ArgWord, WordIn
    <2>12. Fit(l) BY <2>4, RiscPassed
    <2>8. Passing(l, n, {k}) /\ n.args = w BY <2>2, <2>6, <2>7, <2>12, WordPasses
    <2>9. \A j \in l.passed \ {k} : FirstArgReg[target] + j \notin {r} BY <2>1, <2>5, <2>6
    <2>10. \A j \in l.passed \cup {k} : j < n.args BY <2>2, <2>5, <2>8
    <2>11. \A j \in {k} : FirstArgReg[target] + j \in ArgRegs[target] \cap Regs BY <2>2, <2>6 DEF Placed
    <2> QED BY <2>4, <2>8, <2>9, <2>10, <2>11, PassingTidy
  <1>2. CASE ~(m.args < 4)
    <2>1. PICK q, w : q = mips_ArgWord(m, a1) /\ w = m.args + 1 OBVIOUS
    <2>2. Tidy(q, {}, m) BY <1>2, <2>1, RightTidy, mips_FreeRegs, mips_LoadTidy DEF mips_ArgWord
    <2>3. q.passed \subseteq 0 .. 3 /\ (\A j \in q.passed : j < m.args) /\ Form(q) BY <2>2, RiscPassed
    <2>4. n = [q EXCEPT !.args = w] BY <2>1 DEF mips_Words
    <2>5. Passing(q, n, {}) /\ n.args = w BY <2>3, <2>4, NothingPasses
    <2>6. \A j \in q.passed : j < n.args BY <2>1, <2>3, <2>5
    <2> QED BY <2>2, <2>5, <2>6, PassingTidy
  <1> QED BY <1>1, <1>2

LEMMA mips_ArgPairTidy ==
  ASSUME target = "mips", NEW m \in States, Tidy(m, {}, m), m.args \in Nat, NEW a1 \in Vars,
         NEW k \in Nat, m.args <= k, k # 1, k # 3, NEW n, n = mips_Words(mips_ArgPair(m, k, a1), k, 2)
  PROVE  Tidy(n, {}, n)
  <1>1. CASE k < 4
    <2>1. PICK l, w, X : /\ l = mips_LoadArg2(m, Pair(FirstArg + k, FirstArg + k + 1), a1) /\ w = k + 2
                         /\ X = {FirstArg + k, FirstArg + k + 1}
      OBVIOUS
    <2>2. k \in 0 .. 3 /\ k + 1 \in 0 .. 3 BY <1>1
    <2>3. Tidy(m, X, m) /\ Pair(FirstArg + k, FirstArg + k + 1).r1 \in X
          /\ Pair(FirstArg + k, FirstArg + k + 1).r2 \in X BY <2>1, TidySelf DEF Pair
    <2>4. Tidy(l, X, m) BY <2>1, <2>3, mips_Load2Tidy
    <2>5. l.passed \subseteq 0 .. 3 /\ \A j \in l.passed : j < m.args BY <2>4, RiscPassed
    <2>6. Placed /\ FirstArgReg[target] = FirstArg /\ \A i, j \in 0 .. 3 : i # j => FirstArg + i # FirstArg + j BY mips_Placed
    <2>7. FirstArg + k + 1 = FirstArg + (k + 1) BY mips_Regs
    <2>8. n = PairIn(l, k, w) BY <1>1, <2>1, <2>6 DEF mips_Words, mips_ArgPair, PairIn
    <2>13. Fit(l) BY <2>4, RiscPassed
    <2>14. Fit(l) /\ k \in 0 .. 3 /\ k + 1 \in 0 .. 3 => Passing(l, PairIn(l, k, w), {k, k + 1}) /\ PairIn(l, k, w).args = w
      BY <2>6, PairPasses
    <2>9. Passing(l, n, {k, k + 1}) /\ n.args = w BY <2>2, <2>8, <2>13, <2>14
    <2>10. \A j \in l.passed \ {k, k + 1} : FirstArgReg[target] + j \notin X BY <2>1, <2>2, <2>5, <2>6, <2>7
    <2>11. \A j \in l.passed \cup {k, k + 1} : j < n.args BY <2>1, <2>2, <2>5, <2>9
    <2>12. \A j \in {k, k + 1} : FirstArgReg[target] + j \in ArgRegs[target] \cap Regs BY <2>2, <2>6 DEF Placed
    <2> QED BY <2>4, <2>9, <2>10, <2>11, <2>12, PassingTidy
  <1>2. CASE ~(k < 4)
    <2>1. PICK q, w : q = mips_ArgPair(m, k, a1) /\ w = k + 2 OBVIOUS
    <2>2. Tidy(q, {}, m) BY <1>2, <2>1, RightTidy, mips_Operand2Tidy DEF mips_ArgPair, mips_ReadPair
    <2>3. q.passed \subseteq 0 .. 3 /\ (\A j \in q.passed : j < m.args) /\ Form(q) BY <2>2, RiscPassed
    <2>4. n = [q EXCEPT !.args = w] BY <2>1 DEF mips_Words
    <2>5. Passing(q, n, {}) /\ n.args = w BY <2>3, <2>4, NothingPasses
    <2>6. \A j \in q.passed : j < n.args BY <2>1, <2>3, <2>5
    <2> QED BY <2>2, <2>5, <2>6, PassingTidy
  <1> QED BY <1>1, <1>2

LEMMA mips_ArgStructTidy ==
  ASSUME target = "mips", NEW m \in States, Tidy(m, {}, m), m.args \in Nat, NEW a1 \in Vars,
         NEW k \in Nat, m.args <= k, NEW size \in {1, 4}, NEW n, n = mips_Words(mips_ArgStruct(m, k, size, a1), k, size)
  PROVE  Tidy(n, {}, n)
  <1>1. PICK l, w, ks, S :
          /\ l = mips_LoadArg(m, Scratch, a1) /\ w = k + size
          /\ S = (IF k + size <= 4 THEN {} ELSE {Scratch}) /\ ks = IF k + size <= 4 THEN k .. k + size - 1 ELSE k .. 3
    OBVIOUS
  <1>2. ks \in SUBSET (0 .. 3) /\ \A j \in ks : j < w BY <1>1
  <1>3. Tidy(l, {}, m) BY <1>1, mips_FreeRegs, mips_LoadTidy
  <1>4. l.passed \subseteq 0 .. 3 /\ \A j \in l.passed : j < m.args BY <1>3, RiscPassed
  <1>5. Placed /\ FirstArgReg[target] = FirstArg BY mips_Placed, mips_FreeRegs
  <1>6. S \cap ArgRegs[target] = {} BY <1>1, mips_FreeRegs DEF MipsArgs, Scratch
  <1>7. n = WordsIn(l, ks, S, w) BY <1>1, <1>5 DEF mips_Words, mips_ArgStruct, WordsIn
  <1>11. Fit(l) BY <1>3, RiscPassed
  <1>12. Apart(ks, S) BY <1>2, <1>6 DEF Apart
  <1>8. Passing(l, n, ks) /\ n.args = w BY <1>5, <1>7, <1>11, <1>12, WordsPass
  <1>9. \A j \in l.passed \cup ks : j < n.args BY <1>1, <1>2, <1>4, <1>8
  <1>10. \A j \in ks : FirstArgReg[target] + j \in ArgRegs[target] \cap Regs BY <1>2, <1>5 DEF Placed
  <1> QED BY <1>3, <1>8, <1>9, <1>10, PassingTidy

LEMMA mips_ArgTidy ==
  ASSUME mips_Kept, NEW a1 \in Vars, NEW size \in {1, 4}, NEW align \in {1, 2}, mips_arg(a1, size, align) PROVE SInv'
  <1>1. PICK m, k, w, n :
          /\ m \in Marks(NoVar, {a1}, {}) /\ Enabled("mips", "arg")
          /\ w = (IF a1 \in Wide THEN 2 ELSE align) /\ k = RoundUp(arg_words, w)
          /\ \/ n = mips_Words(mips_ArgStruct(m, k, size, a1), k, size)
             \/ a1 \in Wide /\ n = mips_Words(mips_ArgPair(m, k, a1), k, 2)
             \/ n = mips_Words(mips_ArgWord(m, a1), arg_words, 1)
          /\ Commit(mips_update_args(n, NoVar, a1, Const))
    BY DEF mips_arg
  <1>2. target = "mips" /\ Tidy(m, {}, m) /\ m \in States /\ m.args = arg_words BY <1>1, mips_BeginTidy
  <1>3. m.args \in Nat
    <2>1. Going(m, NoVar, {a1}, {}) BY <1>1, Begin DEF mips_Kept
    <2> QED BY <2>1, CGenAssumption DEF Going
  <1>4. w \in {1, 2} BY <1>1
  <1>5. k \in Nat /\ m.args <= k /\ (a1 \in Wide => k # 1 /\ k # 3) BY <1>1, <1>2, <1>3, <1>4, RoundUpIs
  <1>6. Tidy(n, {}, n) BY <1>1, <1>2, <1>3, <1>5, mips_ArgWordTidy, mips_ArgPairTidy, mips_ArgStructTidy
  <1> QED BY <1>1, <1>2, <1>6, mips_CommitTidy

LEMMA mips_ArgAreaTidy == ASSUME mips_Kept, mips_arg_area PROVE SInv'
  <1>1. PICK m, n :
          /\ m \in Marks(NoVar, {}, {}) /\ Enabled("mips", "arg") /\ arg_words = 0
          /\ n = mips_Words(Passes(m, FirstArg, 0), 0, 1) /\ Commit(n)
    BY DEF mips_arg_area
  <1>2. {} \subseteq Crossing /\ {} \subseteq {0} OBVIOUS
  <1>3. target = "mips" /\ Tidy(m, {}, m) /\ m \in States /\ m.args = 0 BY <1>1, <1>2, mips_BeginTidy
  <1>4. m.passed = {} /\ Form(m) BY <1>3, NoneTidy DEF Tidy
  <1>5. Placed /\ FirstArgReg[target] + 0 = FirstArg BY <1>3, mips_Placed, mips_Regs
  <1>6. n = WordIn(m, 0, 1) BY <1>1, <1>5 DEF mips_Words, WordIn
  <1>7. Passing(m, n, {0}) /\ n.args = 1 BY <1>3, <1>4, <1>5, <1>6, WordPasses DEF Fit
  <1>8. \A j \in {0} : FirstArgReg[target] + j \in ArgRegs[target] \cap Regs BY <1>5 DEF Placed
  <1>9. \A j \in m.passed \cup {0} : j < n.args BY <1>4, <1>7
  <1>10. Tidy(n, {}, n) BY <1>3, <1>4, <1>7, <1>8, <1>9, PassingTidy
  <1> QED BY <1>1, <1>10, FinishTidy

-----------------------------------------------------------------------------
(* mips_cgen.c: the ends of blocks and functions                            *)

LEMMA mips_RetTidy == ASSUME mips_Kept, NEW a1 \in Vars, mips_ret(a1) PROVE SInv'
  <1>1. PICK m, n :
          /\ m \in Marks(NoVar, {a1}, {}) /\ Enabled("mips", IF a1 \in Wide THEN "ret2" ELSE "ret")
          /\ \/ n = mips_LoadArg2(m, Pair(2, 3), a1) \/ n = mips_ReturnStruct(m, a1) \/ n = mips_LoadArg(m, 2, a1)
          /\ Commit(mips_update_args(n, NoVar, a1, Const))
    BY DEF mips_ret
  <1>2. target = "mips" /\ Tidy(m, {}, m) BY <1>1, mips_BeginTidy
  <1>3. Pair(2, 3).r1 = 2 /\ Pair(2, 3).r2 = 3 BY DEF Pair
  <1>4. \A q : Ours(q, 2) /\ Ours(q, 3) /\ Ours(q, Scratch) BY <1>2, mips_FreeRegs
  <1>5. Tidy(mips_ReturnStruct(m, a1), {}, m) BY <1>2, <1>4, mips_LoadTidy, ClobberTidy DEF mips_ReturnStruct
  <1>6. Tidy(n, {}, m) BY <1>1, <1>2, <1>3, <1>4, <1>5, mips_LoadTidy, mips_Load2Tidy
  <1> QED BY <1>1, <1>2, <1>6, mips_CommitTidy

LEMMA mips_CbrTidy == ASSUME mips_Kept, NEW a1 \in Vars, mips_cbr(a1) PROVE SInv'
  <1>1. PICK m, n :
          /\ m \in Marks(NoVar, {a1}, {}) /\ Enabled("mips", "cbr")
          /\ n = mips_OrWords(mips_Loaded2(m, NoVar, a1)) \/ n = RightRes(mips_Loaded(m, NoVar, a1), a1)
          /\ Commit(mips_update_args(n, NoVar, a1, Const))
    BY DEF mips_cbr
  <1>2. target = "mips" /\ Tidy(m, {}, m) BY <1>1, mips_BeginTidy
  <1>3. Tidy(mips_OrWords(mips_Loaded2(m, NoVar, a1)), {}, m)
    BY <1>2, mips_LoadedTidy, OwnTidy, ClobberTidy DEF mips_OrWords
  <1>4. Tidy(RightRes(mips_Loaded(m, NoVar, a1), a1), {}, m) BY <1>2, mips_LoadedTidy, RightTidy
  <1> QED BY <1>1, <1>2, <1>3, <1>4, mips_CommitTidy

LEMMA mips_SwitchTidy == ASSUME mips_Kept, NEW a1 \in Vars, mips_switch(a1) PROVE SInv'
  <1>1. PICK m, p, q :
          /\ m \in Marks(NoVar, {a1}, {}) /\ Enabled("mips", "switch")
          /\ p = mips_update_args(mips_InPlace2(m, NoVar, a1), NoVar, a1, Const)
          /\ q = mips_update_args(mips_InPlace(m, NoVar, a1), NoVar, a1, Const)
          /\ Commit(mips_Compare2(p, a1)) \/ Commit(mips_Compare(q, a1))
    BY DEF mips_switch
  <1>2. target = "mips" /\ Tidy(m, {}, m) BY <1>1, mips_BeginTidy
  <1>3. Tidy(p, {}, m) /\ Tidy(q, {}, m) BY <1>1, <1>2, mips_LoadedTidy, mips_ArgsTidy
  <1>4. Tidy(mips_Compare2(p, a1), {}, m) BY <1>3, RightTidy DEF mips_Compare2
  <1>5. Ours(RightRes(q, a1), q.res.r1) BY <1>2, <1>3, OwnTidy, RiscOurs
  <1>6. Tidy(RightRes(q, a1), {}, m) BY <1>3, RightTidy
  <1>7. RightRes(q, a1).res = q.res BY DEF RightRes, RightIn, Reads, Fault
  <1>8. Tidy(mips_Compare(q, a1), {}, m) BY <1>5, <1>6, <1>7, ClobberTidy DEF mips_Compare
  <1> QED BY <1>1, <1>4, <1>8, FinishTidy

LEMMA mips_FunctionTidy == ASSUME mips_Kept, mips_function_definition PROVE SInv'
  <1>1. PICK n : n = [cg EXCEPT !.reg = [r \in Regs |-> NoVar], !.addr = [v \in Vars |-> NoReg], !.temps = <<>>] OBVIOUS
  <1>2. Entry(n, {}) /\ target = "mips" BY <1>1 DEF mips_function_definition, Enabled
  <1>3. PICK m : m = cg /\ Tidy(m, {}, m) BY DEF mips_Kept, SInv
  <1>4. Watched[target] = {} BY <1>2, mips_FreeRegs
  <1>5. Tidy(n, {}, n) BY <1>1, <1>3, <1>4 DEF Tidy, Form, Intact, Ours, Noted, NoReg
  <1> QED BY <1>2, <1>5, EntryTidy

LEMMA mips_StepTidy == ASSUME mips_Kept, mips_Next PROVE SInv'
  <1>1. /\ WordTemps \subseteq Vars /\ WideTemps \subseteq Vars /\ Scalars \subseteq Vars /\ Wide \subseteq Vars
        /\ Temps \subseteq Vars /\ Structs \subseteq Vars /\ Pointers \subseteq Vars
        /\ \A p \in Ops2 : p[1] \in Vars \cup {Const} /\ p[2] \in Vars \cup {Const}
        /\ \A p \in WideOps : p[1] \in Wide \cup {Const} /\ p[2] \in Wide \cup {Const}
        /\ \A s \in StructKinds : s[1] \in {1, 4} /\ s[2] \in {1, 2}
    BY CGenRegsAssumption DEF WordTemps, WideTemps, Scalars, Pointers, Ops2, WideOps, StructKinds
  <1>2. CASE \E t \in WordTemps, p \in Ops2 : \E imm \in Kinds(p[2]) : mips_alu(t, p[1], p[2], imm)
    BY <1>1, <1>2, mips_AluTidy
  <1>3. CASE \E t \in WideTemps, p \in WideOps :
               mips_add2(t, p[1], p[2]) \/ mips_sub2(t, p[1], p[2]) \/ mips_logic2(t, p[1], p[2])
    BY <1>1, <1>3, mips_Add2Tidy, mips_Sub2Tidy, mips_Logic2Tidy
  <1>4. CASE \/ \E t \in WordTemps \cup WideTemps, p \in WideOps : mips_do_libcall(t, p[1], p[2])
             \/ \E t \in WideTemps, a \in Wide, c \in Scalars \ Wide : mips_do_libcall(t, a, c)
    BY <1>1, <1>4, mips_DoLibcallTidy
  <1>6. CASE \/ \E t \in WordTemps, a \in Scalars : mips_unary(t, a)
             \/ \E t \in WideTemps : \/ \E a \in Wide : mips_unary2(t, a)
                                     \/ \E a \in Scalars \ Wide : mips_llx(t, a)
             \/ \E t \in Wide, a \in Wide \cup {Const} : mips_asn(t, a)
             \/ \E t \in Scalars \ Wide, a \in Scalars \cup {Const} : mips_asn(t, a)
             \/ \E t \in Structs, a \in Structs : mips_asn(t, a)
    BY <1>1, <1>6, mips_UnaryTidy
  <1>7. CASE \E t \in WordTemps : mips_addr_of(t) BY <1>1, <1>7, mips_AddrOfTidy
  <1>8. CASE \E t \in Temps, a \in Pointers : mips_ind(t, a) BY <1>1, <1>8, mips_IndTidy
  <1>9. CASE \E a \in Pointers, b \in Vars \cup {Const} : mips_ind_asn(a, b) BY <1>1, <1>9, mips_IndAsnTidy
  <1>10. CASE \E t \in Temps \cup {NoVar} : mips_call(t) \/ \E a \in Pointers : mips_indcall(t, a)
    BY <1>10, mips_CallTidy, mips_IndCallTidy
  <1>11. CASE \E a \in Vars : mips_ret(a) \/ \E s \in StructKinds : mips_arg(a, s[1], s[2])
    BY <1>1, <1>11, mips_ArgTidy, mips_RetTidy
  <1>12. CASE mips_arg_area BY <1>12, mips_ArgAreaTidy
  <1>13. CASE \E a \in Scalars : mips_cbr(a) \/ mips_switch(a) BY <1>1, <1>13, mips_CbrTidy, mips_SwitchTidy
  <1>14. CASE mips_next_block BY <1>14, EntryTidy DEF mips_next_block, mips_Kept, SInv
  <1>15. CASE mips_function_definition BY <1>15, mips_FunctionTidy
  <1> QED BY <1>2, <1>3, <1>4, <1>6, <1>7, <1>8, <1>9, <1>10, <1>11, <1>12, <1>13, <1>14, <1>15 DEF mips_Next
=============================================================================
