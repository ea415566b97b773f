--------------------------- MODULE CGenIntelProofs ---------------------------
(***************************************************************************)
(* The handlers of x64_cgen.c and of x86_cgen.c keep the inductive         *)
(* invariant of CGenProofs.                                                *)
(***************************************************************************)
EXTENDS X86CGen, X64CGen, CGenProofs

-----------------------------------------------------------------------------
(* x64_cgen.c: stores and spills                                           *)

LEMMA x64_Regs == RAX \in Regs /\ RCX \in Regs /\ RDX \in Regs /\ RSI \in Regs /\ RDI \in Regs /\ R11 \in Regs
                  /\ R12 \in Regs /\ R13 \in Regs
  BY X64Assumption DEF RAX, RCX, RDX, RSI, RDI, R11, R12, R13

LEMMA IntelRegs == ESI \in Regs /\ EDI \in Regs /\ ECX \in Regs
  BY X64Assumption DEF ESI, EDI, ECX

LEMMA rep_movsbEmits == ASSUME NEW m, NEW n \in Emitted(m) PROVE rep_movsb(n) \in Emitted(m)
  <1>1. n \in Gen /\ n.M \in Memory BY DEF Emitted, Gen
  <1>2. PICK N : N = Copied(n.M, PointedBy(n, ESI), PointedBy(n, EDI)) OBVIOUS
  <1>3. PointedBy(n, ESI) \in SUBSET Locs BY DEF PointedBy
  <1>4. N \in Memory BY <1>1, <1>2, <1>3, CopiedMemory
  <1>5. PICK q : q = [n EXCEPT !.M = N] OBVIOUS
  <1>6. q \in Emitted(m) BY <1>4, <1>5, MemoryEmits
  <1>7. {ESI, EDI, ECX} \in SUBSET Int BY DEF ESI, EDI, ECX
  <1>8. Clobber(q, {ESI, EDI, ECX}) \in Emitted(m) BY <1>6, <1>7, ClobberEmits
  <1>9. rep_movsb(n) = Clobber(q, {ESI, EDI, ECX}) BY <1>2, <1>5 DEF rep_movsb
  <1> QED BY <1>8, <1>9

LEMMA CopyEmits ==
  ASSUME NEW m, NEW n \in Emitted(m), NEW before \in Gen, NEW src, NEW dst
  PROVE  Copy(n, before, src, dst) \in Emitted(m)
  <1>1. PICK q : q = rep_movsb(n) OBVIOUS
  <1>2. q \in Emitted(m) /\ q \in Gen BY <1>1, rep_movsbEmits DEF Emitted
  <1>3. PICK S : S = {r \in {ECX} \cup (IF src THEN {} ELSE {ESI}) \cup (IF dst THEN {} ELSE {EDI}) :
                        ~reg_isempty(before, r)}
    OBVIOUS
  <1>4. PICK R1 : R1 = [r \in Regs |-> IF r \in S THEN before.R[r] ELSE q.R[r]] OBVIOUS
  <1>5. PICK W : W = (q.written \ S) \cup (before.written \cap S) OBVIOUS
  <1>6. R1 \in [Regs -> Contents] BY <1>2, <1>4, Contained
  <1>7. W \in SUBSET Int BY <1>2, <1>5 DEF Gen
  <1>8. Copy(n, before, src, dst) = [q EXCEPT !.R = R1, !.written = W]
    BY <1>1, <1>3, <1>4, <1>5 DEF Copy, Restore
  <1> QED BY <1>2, <1>6, <1>7, <1>8 DEF Emitted, Gen

LEMMA x64_StoreStored ==
  ASSUME NEW m \in States, NEW A \in SUBSET Vars, NEW r \in Regs, NEW a \in Vars, a \in Busy(m) \cup A
  PROVE  x64_store(m, r, a) \in Stored(m, A)
  <1>1. CASE a \in Structs \cap Ids
    <2>0. m \in Gen /\ m \in Emitted(m) /\ RSI \in Regs /\ RDI \in Regs BY EmittedSelf, x64_Regs DEF States
    <2>1. PICK q : q = x64_PutSource(m, r) OBVIOUS
    <2>2. q \in Emitted(m)
      <3>1. m.R[r] \in Contents BY <2>0, Contained
      <3> QED BY <2>0, <2>1, <3>1, SetRegEmits DEF x64_PutSource
    <2>3. PICK k : k = x64_PutTarget(q, a) OBVIOUS
    <2>4. k \in Emitted(m)
      <3>1. {<<a, 0>>} \in Contents BY <1>1, TokensAre DEF Locs
      <3> QED BY <2>0, <2>2, <2>3, <3>1, SetRegEmits DEF x64_PutTarget, x64_load_addr
    <2>5. Copy(k, m, r = RSI, addr_reg1(m, a) = RDI) \in Emitted(m) BY <2>0, <2>4, CopyEmits
    <2> QED BY <1>1, <2>1, <2>3, <2>5, EmittedStored DEF x64_store
  <1>2. CASE a \notin Structs \cap Ids BY <1>2, Store1Stored DEF x64_store
  <1> QED BY <1>1, <1>2

LEMMA x64_StoreVarStored ==
  ASSUME NEW m \in States, NEW a \in Vars, InReg(m, a) PROVE x64_StoreVar(m, a) \in Stored(m, {})
  <1>1. addr_reg1(m, a) \in Regs /\ a \in Busy(m) BY RegOf
  <1> QED BY <1>1, x64_StoreStored DEF x64_StoreVar

LEMMA x64_SpillFewer ==
  ASSUME NEW m \in States, NEW r \in Regs
  PROVE  x64_spill_reg(m, r) \in Fewer(m) /\ reg_isempty(x64_spill_reg(m, r), r)
  <1>1. ~reg_isempty(m, r) => x64_StoreVar(m, m.reg[r]) \in Stored(m, {})
    BY OwnerIs, x64_StoreVarStored DEF reg_isempty
  <1> QED BY <1>1, SpillFewer DEF x64_spill_reg, SpillReg

\* What SpillThese leaves after each register: f is the recursive function it defines.
x64_Loop(f, m, S) ==
  /\ f[-1] = m
  /\ \A r \in 0 .. LastReg :
       f[r] = IF r \in Regs /\ f[r - 1].reg[r] \in S THEN x64_spill_reg(f[r - 1], r) ELSE f[r - 1]

LEMMA x64_Spilling ==
  ASSUME NEW m \in States, NEW S \in SUBSET Vars
  PROVE  \E f : SpillThese(m, S, x64_spill_reg) = f[LastReg] /\ x64_Loop(f, m, S)
  <1> DEFINE F(h) == [r \in -1 .. LastReg |->
                       IF r = -1 THEN m
                       ELSE LET n == h[r - 1]
                            IN  IF r \in Regs /\ n.reg[r] \in S THEN x64_spill_reg(n, r) ELSE n]
             f == CHOOSE h : h = F(h)
  <1>1. CASE \A r \in Regs : m.reg[r] \notin S
    <2>1. SpillThese(m, S, x64_spill_reg) = m BY <1>1 DEF SpillThese
    <2>2. PICK idle : idle = [r \in -1 .. LastReg |-> m] OBVIOUS
    <2>3. idle[LastReg] = m /\ idle[-1] = m BY <2>2, LastRegIs
    <2>4. \A r \in 0 .. LastReg : idle[r] = m /\ idle[r - 1] = m BY <2>2, LastRegIs
    <2>5. x64_Loop(idle, m, S) BY <1>1, <2>3, <2>4 DEF x64_Loop
    <2> QED BY <2>1, <2>3, <2>5
  <1>2. CASE ~ \A r \in Regs : m.reg[r] \notin S
    <2>1. SpillThese(m, S, x64_spill_reg) = f[LastReg] BY <1>2 DEF SpillThese
    <2>2. PICK g : g = [r \in 0 .. LastReg |-> [n \in States |->
                          IF r \in Regs /\ n.reg[r] \in S THEN x64_spill_reg(n, r) ELSE n]]
      OBVIOUS
    <2>3. g \in [0 .. LastReg -> [States -> States]]
      <3>1. \A n \in States, r \in Regs : x64_spill_reg(n, r) \in States BY x64_SpillFewer, FewerIs
      <3> QED BY <2>2, <3>1
    <2>4. PICK h \in [-1 .. LastReg -> States] : h[-1] = m /\ \A r \in 0 .. LastReg : h[r] = g[r][h[r - 1]]
      <3>1. PICK N \in Nat : N = LastReg BY LastRegIs
      <3>2. g \in [0 .. N -> [States -> States]] BY <2>3, <3>1
      <3>3. PICK h : Iterated(h, g, m, N) BY <3>1, <3>2, Iterate
      <3> QED BY <3>1, <3>3 DEF Iterated
    <2>5. h = F(h)
      <3>1. ASSUME NEW r \in -1 .. LastReg PROVE h[r] = F(h)[r]
        <4>1. CASE r = -1 BY <2>4, <4>1
        <4>2. CASE r # -1
          <5>1. r \in 0 .. LastReg /\ r - 1 \in -1 .. LastReg /\ h[r - 1] \in States BY <4>2, <2>4, LastRegIs
          <5> QED BY <4>2, <5>1, <2>2, <2>4
        <4> QED BY <4>1, <4>2
      <3> QED BY <3>1, <2>4
    <2>6. f = F(f) BY <2>5
    <2> HIDE DEF f
    <2>7. f[-1] = m BY <2>6, LastRegIs
    <2>8. \A r \in 0 .. LastReg : f[r] = IF r \in Regs /\ f[r - 1].reg[r] \in S THEN x64_spill_reg(f[r - 1], r) ELSE f[r - 1]
      BY <2>6, LastRegIs
    <2>9. x64_Loop(f, m, S) BY <2>7, <2>8 DEF x64_Loop
    <2> QED BY <2>1, <2>9
  <1> QED BY <1>1, <1>2

LEMMA x64_SpillTheseFewer ==
  ASSUME NEW m \in States, NEW S \in SUBSET Vars
  PROVE  /\ SpillThese(m, S, x64_spill_reg) \in Fewer(m)
         /\ \A r \in Regs : SpillThese(m, S, x64_spill_reg).reg[r] \notin S
  <1>1. PICK f : SpillThese(m, S, x64_spill_reg) = f[LastReg] /\ x64_Loop(f, m, S) BY x64_Spilling
  <1>2. ASSUME NEW r \in 0 .. LastReg, f[r - 1] \in States
        PROVE  f[r] \in Fewer(f[r - 1]) /\ (r \in Regs => f[r].reg[r] \notin S)
    <2>1. f[r] = IF r \in Regs /\ f[r - 1].reg[r] \in S THEN x64_spill_reg(f[r - 1], r) ELSE f[r - 1]
      BY <1>1 DEF x64_Loop
    <2>2. NoVar \notin S BY CGenRegsAssumption
    <2> QED BY <1>2, <2>1, <2>2, x64_SpillFewer, FewerSelf DEF reg_isempty
  <1>3. \A r \in 0 .. LastReg : f[r] \in Fewer(m) /\ \A s \in Regs : s <= r => f[r].reg[s] \notin S
    BY <1>1, <1>2, LoopFewer, LastRegIs DEF x64_Loop
  <1> QED BY <1>1, <1>3, LastRegIs

-----------------------------------------------------------------------------
(* x64_cgen.c: registers and operands                                      *)

LEMMA x64_TakeFewer ==
  ASSUME NEW m \in States, NEW r \in Regs
  PROVE  /\ x64_Take(m, r) \in Fewer(m) /\ x64_Take(m, r).got = r /\ x64_Take(m, r).reg[r] = NoVar
  <1>1. PICK k : k = x64_Modified(m, r) OBVIOUS
  <1>2. {r} \cap CalleeSave["x64"] \in SUBSET Regs OBVIOUS
  <1>3. k \in Picked(m) /\ k.pinned = m.pinned /\ k.res = m.res BY <1>1, <1>2, ModifiedPicks DEF x64_Modified
  <1>4. k \in Fewer(m) /\ k \in States BY <1>3, PickedFewer
  <1>5. PICK q : q = x64_spill_reg(k, r) OBVIOUS
  <1>6. q \in Fewer(k) /\ q.reg[r] = NoVar /\ q \in States BY <1>4, <1>5, x64_SpillFewer, FewerIs DEF reg_isempty
  <1>7. PICK n : n = [q EXCEPT !.got = r] OBVIOUS
  <1>8. n \in Picked(q) /\ n.pinned = q.pinned /\ n.res = q.res /\ n.got = r BY <1>6, <1>7, GotPicks
  <1>9. n \in Fewer(q) /\ n.reg = q.reg BY <1>6, <1>8, PickedFewer
  <1>10. n \in Fewer(m) BY <1>4, <1>6, <1>9, FewerTrans
  <1> QED BY <1>1, <1>5, <1>6, <1>7, <1>8, <1>9, <1>10 DEF x64_Take

LEMMA x64_Get0 ==
  ASSUME NEW m \in States, ~ (X64Pool \subseteq m.pinned)
  PROVE  /\ x64_get_reg0(m) \in Fewer(m) /\ x64_get_reg0(m).got \in Regs \ m.pinned
         /\ x64_get_reg0(m).reg[x64_get_reg0(m).got] = NoVar
  <1>1. X64Pool \in SUBSET Regs /\ Regs \subseteq Nat BY X64Assumption, RegsAre
  <1>2. PICK S : S = IF EmptyRegs(m, X64Pool) \subseteq m.pinned
                       THEN X64Pool \ m.pinned ELSE EmptyRegs(m, X64Pool) \ m.pinned
    OBVIOUS
  <1>3. S # {} /\ S \in SUBSET Nat /\ S \subseteq Regs \ m.pinned BY <1>1, <1>2 DEF EmptyRegs
  <1>4. Min(S) \in Regs \ m.pinned BY <1>3, MinIs
  <1>5. x64_get_reg0(m) = x64_Take(m, Min(S)) BY <1>2 DEF x64_get_reg0
  <1> QED BY <1>4, <1>5, x64_TakeFewer

LEMMA x64_GetReg ==
  ASSUME NEW m \in States, NEW a \in Vars \cup {Const}, NEW live \in BOOLEAN, ~ (X64Pool \subseteq m.pinned)
  PROVE  /\ x64_get_reg(m, a, live) \in After(m, {}) /\ x64_get_reg(m, a, live).pinned = m.pinned
         /\ Ready(x64_get_reg(m, a, live), a, live, Regs)
         /\ x64_get_reg(m, a, live).res.r1 \in Regs
  <1>1. \A r \in Regs : m.reg[r] # NoVar => r \in Regs OBVIOUS
  <1>2. PICK g : g = x64_get_reg0(m) OBVIOUS
  <1>3. g \in Fewer(m) /\ g.got \in Regs \cap Regs /\ g.reg[g.got] = NoVar BY <1>2, x64_Get0
  <1>4. PICK n : n = x64_get_reg(m, a, live) OBVIOUS
  <1>5. n = IF InReg(m, a) /\ ~live THEN [m EXCEPT !.res.r1 = addr_reg1(m, a)] ELSE Got1(g)
    BY <1>2, <1>4 DEF x64_get_reg, GetReg
  <1>6. n \in After(m, {}) /\ n.pinned = m.pinned /\ Ready(n, a, live, Regs) /\ n.res.r1 \in Regs
    <2>1. CASE InReg(m, a) /\ ~live BY <2>1, <1>1, <1>5, OwnRegRight
    <2>2. CASE ~(InReg(m, a) /\ ~live) BY <2>2, <1>3, <1>5, NewRegRight
    <2> QED BY <2>1, <2>2
  <1> QED BY <1>4, <1>6

LEMMA x64_OperandStill ==
  ASSUME NEW m \in States, NEW A \in SUBSET Vars, NEW a \in A \cup {Const}, NEW long, ~ (X64Pool \subseteq m.pinned)
  PROVE  x64_get_operand(m, a, long) \in Still(m, A)
  <1>1. CASE InReg(m, a)
    <2>1. addr_reg1(m, a) \in Regs BY <1>1, RegOf
    <2> QED BY <1>1, <2>1, InRegStored, StoredStill DEF x64_get_operand
  <1>2. CASE ~InReg(m, a) /\ (a \in Bytes \/ (a = Const /\ long))
    <2>1. x64_get_reg0(m) \in Fewer(m) /\ x64_get_reg0(m).got \in Regs BY x64_Get0
    <2>2. InGot(Load(x64_get_reg0(m), x64_get_reg0(m).got, a)) \in Still(m, A) BY <2>1, InGotStill
    <2> QED BY <1>2, <2>2 DEF x64_get_operand, x64_LoadGot, x64_load
  <1>3. CASE ~InReg(m, a) /\ ~(a \in Bytes \/ (a = Const /\ long)) /\ a = Const
    BY <1>3, ConstStored, StoredStill DEF x64_get_operand
  <1>4. CASE ~InReg(m, a) /\ ~(a \in Bytes \/ (a = Const /\ long)) /\ a # Const
    <2>1. a \in A BY <1>4
    <2> QED BY <1>4, <2>1, InHomeStored, StoredStill DEF x64_get_operand
  <1> QED BY <1>1, <1>2, <1>3, <1>4

LEMMA x64_ArgUpdated ==
  ASSUME NEW m \in States, NEW a \in Vars \cup {Const}, NEW live \in BOOLEAN, NEW next \in BOOLEAN
  PROVE  x64_update_arg_descriptors(m, a, live, next) \in Updated(m, a, live, next)
  <1>1. PICK k : k = Kept(m, a, live, x64_StoreVar) OBVIOUS
  <1>2. PICK n : n = x64_update_arg_descriptors(m, a, live, next) OBVIOUS
  <1>3. n = IF a = Const \/ next THEN m ELSE Release(k, a, m.addr[a])
    BY <1>1, <1>2 DEF x64_update_arg_descriptors, UpdateArg
  <1>4. a \in Vars => k \in Stored(m, {}) /\ (~live => a \notin Owners(k))
    <2>1. CASE live /\ InReg(m, a) BY <1>1, <2>1, x64_StoreVarStored DEF Kept
    <2>2. CASE ~live /\ a \in Temps BY <1>1, <2>2, FreeTempStored DEF Kept
    <2>3. CASE ~(live /\ InReg(m, a)) /\ ~(~live /\ a \in Temps)
      BY <1>1, <2>3, StoredSelf DEF Kept, Owners
    <2> QED BY <2>1, <2>2, <2>3
  <1> QED BY <1>2, <1>3, <1>4, UpdatedRight

LEMMA x64_ArgsRight ==
  ASSUME NEW m, NEW tar, NEW a1 \in Vars \cup {Const}, NEW a2 \in Vars \cup {Const}, NEW P,
         Marked(m, tar, {a1, a2}, P)
  PROVE  x64_update_args(m, tar, a1, a2) \in Settled(m, tar, a1, P)
  <1>1. m \in States BY MarkedIs
  <1>2. PICK n : n = x64_update_arg_descriptors(m, a1, Live1(m, tar, a1), Used1(m, tar, a1)) OBVIOUS
  <1>3. n \in Updated(m, a1, Live1(m, tar, a1), Used1(m, tar, a1)) BY <1>1, <1>2, LiveBoolean, x64_ArgUpdated
  <1>4. n \in States BY <1>1, <1>3, FewerIs DEF Updated
  <1>5. PICK q : q = x64_update_arg_descriptors(n, a2, Live2(m, tar, a1, a2), Used2(m, tar, a1, a2)) OBVIOUS
  <1>6. q \in Updated(n, a2, Live2(m, tar, a1, a2), Used2(m, tar, a1, a2))
    BY <1>4, <1>5, LiveBoolean, x64_ArgUpdated
  <1>7. q = x64_update_args(m, tar, a1, a2) BY <1>2, <1>5 DEF x64_update_args, UpdateArgs
  <1> QED BY <1>3, <1>6, <1>7, ArgsSettled

LEMMA x64_TarRight ==
  ASSUME NEW m, NEW tar \in Vars, NEW P, "x64" \in Targets, Marked(m, tar, {}, P), m.res.r1 \in Regs \cap P,
         m.reg[m.res.r1] = NoVar
  PROVE  x64_update_tar(m, tar) \in Done(m, P)
  <1>1. PICK r : r = m.res.r1 OBVIOUS
  <1>2. tar \in Vars \ Wide BY X64Assumption
  <1>3. PICK k : k = x64_store(Bind(m, r, tar), r, tar) OBVIOUS
  <1>4. PICK b : b = Bind(m, r, tar) OBVIOUS
  <1>5. b \in States => k \in Stored(b, {tar}) BY <1>1, <1>3, <1>4, x64_StoreStored
  <1>6. x64_update_tar(m, tar)
          = IF Used(m, tar) THEN Bind(m, r, tar) ELSE Unbind(IF Live(m, tar) THEN k ELSE Bind(m, r, tar), r, tar)
    BY <1>1, <1>3 DEF x64_update_tar, x64_update_tar_descriptors, UpdateTar
  <1> QED BY <1>1, <1>2, <1>4, <1>5, <1>6, TarDone

-----------------------------------------------------------------------------
(* x64_cgen.c: the ends of the handlers                                    *)

\* The target is set.
LEMMA x64_Sets ==
  ASSUME target = "x64", "x64" \in Targets, NEW tar \in Vars, NEW n, Going(n, tar, {}, {}),
         n.res.r1 \in Regs, n.reg[n.res.r1] = NoVar, Commit(x64_update_tar(n, tar))
  PROVE  IInv'
  <1>1. Usable[target] = Regs /\ CalleeSave[target] \subseteq Regs
    BY X64Assumption DEF Usable, CalleeSave
  <1>2. PICK q : q = x64_update_tar(n, tar) OBVIOUS
  <1>3. q \in Done(n, Regs) BY <1>1, <1>2, GoingIs, x64_TarRight
  <1>4. Going(q, NoVar, {}, {}) BY <1>1, <1>3, GoingDone
  <1> QED BY <1>1, <1>2, <1>4, Finish

\* Nothing is set, or it has been.
LEMMA x64_Ends ==
  ASSUME target = "x64", "x64" \in Targets, NEW n, Going(n, NoVar, {}, {}), Commit(n) PROVE IInv'
  <1>1. CalleeSave[target] \subseteq Regs BY X64Assumption DEF CalleeSave
  <1> QED BY <1>1, Finish

LEMMA x64_ArgsGoing ==
  ASSUME target = "x64", NEW n, NEW tar, NEW a1 \in Vars \cup {Const}, NEW a2 \in Vars \cup {Const}, NEW pins,
         Going(n, tar, {a1, a2}, pins)
  PROVE  /\ Going(x64_update_args(n, tar, a1, a2), tar, {}, pins)
         /\ x64_update_args(n, tar, a1, a2).res = n.res
         /\ x64_update_args(n, tar, a1, a2) \in Settled(n, tar, a1, Regs)
  <1>1. Usable[target] = Regs BY DEF Usable
  <1>2. n \in States /\ Marked(n, tar, {a1, a2}, Regs) BY <1>1, GoingIs
  <1>3. PICK q : q = x64_update_args(n, tar, a1, a2) OBVIOUS
  <1>4. q \in Settled(n, tar, a1, Regs) BY <1>2, <1>3, x64_ArgsRight
  <1>5. q.res = n.res BY <1>2, <1>4, FewerIs DEF Settled
  <1> QED BY <1>1, <1>3, <1>4, <1>5, GoingSettled

LEMMA x64_ArgsFree ==
  ASSUME target = "x64", NEW n, NEW tar, NEW a1 \in Vars \cup {Const}, NEW a2 \in Vars \cup {Const}, NEW pins,
         Going(n, tar, {a1, a2}, pins), NEW r \in Regs, n.reg[r] = NoVar \/ Free(n, r, a1, Live1(n, tar, a1))
  PROVE  x64_update_args(n, tar, a1, a2).reg[r] = NoVar
  <1>1. Free(n, r, a1, Live1(n, tar, a1)) BY DEF Free
  <1>2. x64_update_args(n, tar, a1, a2) \in Settled(n, tar, a1, Regs) BY x64_ArgsGoing
  <1> QED BY <1>1, <1>2 DEF Settled

\* The result is in n.res; a1's registers may be taken for it.
LEMMA x64_Defines ==
  ASSUME target = "x64", "x64" \in Targets, NEW tar \in Vars,
         NEW a1 \in Vars \cup {Const}, NEW a2 \in Vars \cup {Const}, NEW n, Going(n, tar, {a1, a2}, {}),
         Free(n, n.res.r1, a1, Live1(n, tar, a1)), Commit(x64_UPDATE_ADDRESSES(n, tar, a1, a2))
  PROVE  IInv'
  <1>1. Going(x64_update_args(n, tar, a1, a2), tar, {}, {}) /\ x64_update_args(n, tar, a1, a2).res = n.res
    BY x64_ArgsGoing
  <1>2. n.res.r1 \in Regs BY DEF Free
  <1>3. x64_update_args(n, tar, a1, a2).reg[n.res.r1] = NoVar BY <1>2, x64_ArgsFree
  <1> QED BY <1>1, <1>2, <1>3, x64_Sets DEF x64_UPDATE_ADDRESSES

LEMMA x64_Uses ==
  ASSUME target = "x64", "x64" \in Targets, NEW a1 \in Vars \cup {Const}, NEW a2 \in Vars \cup {Const}, NEW n,
         Going(n, NoVar, {a1, a2}, {}), Commit(x64_update_args(n, NoVar, a1, a2))
  PROVE  IInv'
  BY x64_ArgsGoing, x64_Ends

\* The first operand is in n.res.
LEMMA x64_LoadedRight ==
  ASSUME NEW n \in States, NEW A \in SUBSET Vars, NEW tar, NEW a1 \in A \cup {Const}, ~ (X64Pool \subseteq n.pinned)
  PROVE  /\ x64_Loaded(n, tar, a1) \in Reached(n, A, n.pinned)
         /\ x64_Loaded(n, tar, a1).res.r1 \in Regs
         /\ Free(x64_Loaded(n, tar, a1), x64_Loaded(n, tar, a1).res.r1, a1, Live1(n, tar, a1))
  <1>1. PICK live : live = Live1(n, tar, a1) OBVIOUS
  <1>2. PICK k : k = x64_get_reg(n, a1, live) OBVIOUS
  <1>3. live \in BOOLEAN BY <1>1, LiveBoolean
  <1>4. k \in After(n, {}) /\ k.pinned = n.pinned /\ Ready(k, a1, live, Regs) /\ k.res.r1 \in Regs
    BY <1>2, <1>3, x64_GetReg
  <1>5. k \in States BY <1>4, AfterIs
  <1>6. k \in After(n, A) BY <1>4, AfterMore
  <1>7. PICK q : q = Load(k, k.res.r1, a1) OBVIOUS
  <1>8. q \in Stored(k, A) BY <1>4, <1>5, <1>7, LoadStored
  <1>9. q \in After(k, A) /\ q.res = k.res /\ q.pinned = k.pinned BY <1>8, StoredIs
  <1>10. Free(q, q.res.r1, a1, live) BY <1>4, <1>5, <1>9, FreeKept DEF Ready
  <1>11. q \in Reached(n, A, n.pinned) BY <1>4, <1>6, <1>9, AfterTrans DEF Reached
  <1>12. q = x64_Loaded(n, tar, a1) BY <1>1, <1>2, <1>7 DEF x64_Loaded, x64_LoadRes, x64_load
  <1> QED BY <1>1, <1>4, <1>9, <1>10, <1>11, <1>12

LEMMA x64_InPlaceRight ==
  ASSUME NEW n \in States, NEW A \in SUBSET Vars, NEW tar, NEW a1 \in A \cup {Const}, ~ (X64Pool \subseteq n.pinned)
  PROVE  /\ x64_InPlace(n, tar, a1) \in Reached(n, A, n.pinned)
         /\ x64_InPlace(n, tar, a1).res.r1 \in Regs
  <1>1. CASE InReg(n, a1)
    <2>1. addr_reg1(n, a1) \in Regs BY <1>1, RegOf
    <2>2. n \in Reached(n, A, n.pinned) BY ReachedSelf
    <2> QED BY <1>1, <2>1, <2>2, ReachedInto DEF x64_InPlace
  <1>2. CASE ~InReg(n, a1) BY <1>2, x64_LoadedRight DEF x64_InPlace
  <1> QED BY <1>1, <1>2

LEMMA x64_OnOperandsStill ==
  ASSUME NEW n \in States, NEW A \in SUBSET Vars, n.pinned = {}, n.res.r1 \in Regs, NEW a1,
         NEW a2 \in A \cup {Const}, NEW long, Roomy(X64Pool)
  PROVE  x64_OnOperands(n, a1, a2, long) \in Still(n, A)
  <1>1. PICK r : r = n.res.r1 OBVIOUS
  <1>2. ~ (X64Pool \subseteq {r}) BY <1>1 DEF Roomy
  <1>3. n \in Reached(n, A, {}) BY ReachedSelf
  <1>4. PICK p : p = PinRes(n) OBVIOUS
  <1>5. p \in Reached(n, A, {r}) /\ p.res = n.res
    <2>1. pin_reg(n, r) \in Reached(n, A, {} \cup {r}) /\ pin_reg(n, r).res = n.res BY <1>1, <1>3, ReachedPin
    <2>2. {} \cup {r} = {r} OBVIOUS
    <2> QED BY <1>1, <1>4, <2>1, <2>2 DEF PinRes
  <1>6. p \in States /\ p.pinned = {r} BY <1>5, ReachedState
  <1>7. PICK k : k = x64_get_operand(p, a2, long) OBVIOUS
  <1>8. k \in Still(p, A) /\ k \in Gen BY <1>2, <1>6, <1>7, x64_OperandStill, StillIs DEF States
  <1>9. k \in Reached(n, A, {r}) /\ k.res = p.res BY <1>5, <1>8, ReachedStill
  <1>10. PICK q : q = RightRes(RightOpd(k, a2, 1), a1) OBVIOUS
  <1>11. q \in Emitted(k) BY <1>8, <1>10, EmittedSelf, RightEmits
  <1>12. q \in Reached(n, A, {r}) /\ q.res = k.res BY <1>9, <1>11, ReachedEmitted
  <1>13. unpin_reg(q, r) \in Reached(n, A, {r} \ {r}) /\ unpin_reg(q, r).res = q.res BY <1>12, ReachedUnpin
  <1>14. {r} \ {r} = {} OBVIOUS
  <1>15. x64_OnOperands(n, a1, a2, long) = unpin_reg(q, r)
    BY <1>1, <1>4, <1>5, <1>7, <1>9, <1>10, <1>12 DEF x64_OnOperands, UnpinRes
  <1> QED BY <1>5, <1>9, <1>12, <1>13, <1>14, <1>15 DEF Reached, Still

-----------------------------------------------------------------------------
(* x64_cgen.c: the handlers                                                *)

\* What the lemmas on the handlers assume.
x64_Runs == IInv /\ Roomy(X64Pool)

LEMMA x64_Begin ==
  ASSUME x64_Runs, NEW h, Enabled("x64", h), NEW tar, NEW args, NEW implicit, implicit \subseteq Crossing,
         NEW m \in Marks(tar, args, implicit)
  PROVE  /\ target = "x64" /\ "x64" \in Targets /\ Going(m, tar, args, {}) /\ m.args = arg_words
         /\ m \in States /\ m.pinned = {} /\ ~ (X64Pool \subseteq {}) /\ ~ (X64Pool \subseteq m.pinned)
  <1>1. target = "x64" /\ "x64" \in Targets BY DEF Enabled, x64_Runs, IInv
  <1>2. Going(m, tar, args, {}) /\ m.args = arg_words BY Begin DEF x64_Runs
  <1> QED BY <1>1, <1>2, GoingIs, X64Assumption

\* The operands are m's, the instruction has been emitted in n.
LEMMA x64_Result ==
  ASSUME target = "x64", "x64" \in Targets, NEW tar \in Vars, NEW a1 \in Vars \cup {Const},
         NEW a2 \in Vars \cup {Const}, NEW args, args \subseteq {a1, a2}, NEW m, Going(m, tar, args, {}),
         NEW A \in SUBSET Vars, A \subseteq args, NEW n \in Reached(m, A, {}),
         Free(n, n.res.r1, a1, Live1(m, tar, a1)), Commit(x64_UPDATE_ADDRESSES(n, tar, a1, a2))
  PROVE  IInv'
  <1>1. m \in States BY GoingIs
  <1>2. Going(n, tar, {a1, a2}, {}) BY GoingReached
  <1>3. Live1(n, tar, a1) = Live1(m, tar, a1) BY <1>1, ReachedIs, LiveSame
  <1> QED BY <1>2, <1>3, x64_Defines

LEMMA x64_Read ==
  ASSUME target = "x64", "x64" \in Targets, NEW a1 \in Vars \cup {Const},
         NEW a2 \in Vars \cup {Const}, NEW args, args \subseteq {a1, a2}, NEW m, Going(m, NoVar, args, {}),
         NEW A \in SUBSET Vars, A \subseteq args, NEW n \in Reached(m, A, {}),
         Commit(x64_update_args(n, NoVar, a1, a2))
  PROVE  IInv'
  <1>1. Going(n, NoVar, {a1, a2}, {}) BY GoingReached
  <1> QED BY <1>1, x64_Uses

\* The result goes to the register of the first operand, which has been loaded in k.
LEMMA x64_Computed ==
  ASSUME target = "x64", "x64" \in Targets, NEW tar \in Vars, NEW a1 \in Vars \cup {Const},
         NEW a2 \in Vars \cup {Const}, NEW args, args \subseteq {a1, a2}, NEW m, Going(m, tar, args, {}),
         NEW A \in SUBSET Vars, A \subseteq args, NEW k \in Reached(m, A, {}),
         k.res.r1 \in Regs, Free(k, k.res.r1, a1, Live1(m, tar, a1)),
         NEW q \in Still(k, A), NEW n \in Emitted(q), Commit(x64_UPDATE_ADDRESSES(n, tar, a1, a2))
  PROVE  IInv'
  <1>1. m \in States /\ k \in States BY GoingIs, ReachedIs
  <1>2. q \in Reached(m, A, {}) /\ q.res = k.res BY <1>1, ReachedStill
  <1>3. n \in Reached(m, A, {}) /\ n.res = q.res /\ n.reg = q.reg BY <1>1, <1>2, ReachedEmitted
  <1>4. Free(q, k.res.r1, a1, Live1(m, tar, a1))
    <2>1. q \in After(k, A) BY <1>1, StillIs
    <2>2. PICK r, live : r = k.res.r1 /\ live = Live1(m, tar, a1) OBVIOUS
    <2>3. Free(k, r, a1, live) BY <2>2
    <2>4. Free(q, r, a1, live) BY <1>1, <2>1, <2>3, FreeKept
    <2> QED BY <2>2, <2>4
  <1>5. Free(n, n.res.r1, a1, Live1(m, tar, a1)) BY <1>2, <1>3, <1>4 DEF Free
  <1> QED BY <1>3, <1>5, x64_Result

LEMMA x64_AluRight ==
  ASSUME x64_Runs, NEW tar \in WordTemps, NEW a1 \in Vars \cup {Const}, NEW a2 \in Vars \cup {Const}, NEW long,
         x64_alu(tar, a1, a2, long)
  PROVE  IInv'
  <1>1. PICK m \in Marks(tar, {a1, a2}, {}) :
          /\ Enabled("x64", "alu")
          /\ Commit(x64_UPDATE_ADDRESSES(Computes(x64_OnOperands(x64_Loaded(m, tar, a1), a1, a2, long), tar),
                                         tar, a1, a2))
    BY DEF x64_alu
  <1>2. PICK A : A = Named(a1, a2) OBVIOUS
  <1>3. A \in SUBSET Vars /\ A \subseteq {a1, a2} /\ a1 \in A \cup {Const} /\ a2 \in A \cup {Const} /\ tar \in Vars
    BY <1>2, NamedIs, CGenRegsAssumption DEF WordTemps
  <1>4. /\ target = "x64" /\ "x64" \in Targets /\ Going(m, tar, {a1, a2}, {}) /\ m \in States /\ m.pinned = {}
        /\ ~ (X64Pool \subseteq m.pinned)
    BY <1>1, x64_Begin
  <1>5. PICK k : k = x64_Loaded(m, tar, a1) OBVIOUS
  <1>6. k \in Reached(m, A, {}) /\ k.res.r1 \in Regs /\ Free(k, k.res.r1, a1, Live1(m, tar, a1))
    BY <1>3, <1>4, <1>5, x64_LoadedRight
  <1>7. k \in States /\ k.pinned = {} BY <1>3, <1>4, <1>6, ReachedState
  <1>8. PICK q : q = x64_OnOperands(k, a1, a2, long) OBVIOUS
  <1>9. q \in Still(k, A) BY <1>3, <1>6, <1>7, <1>8, x64_OnOperandsStill DEF x64_Runs
  <1>10. q \in Gen /\ q.res = k.res BY <1>3, <1>7, <1>9, StillIs DEF States
  <1>11. Computes(q, tar) \in Emitted(q) BY <1>3, <1>6, <1>10, EmittedSelf, ComputesEmits
  <1> QED BY <1>1, <1>3, <1>4, <1>5, <1>6, <1>8, <1>9, <1>11, x64_Computed

LEMMA x64_UnaryRight ==
  ASSUME x64_Runs, NEW tar \in Vars, NEW a1 \in Vars, x64_unary(tar, a1) PROVE IInv'
  <1>1. PICK m \in Marks(tar, {a1}, {}) :
          /\ Enabled("x64", "unary")
          /\ Commit(x64_UPDATE_ADDRESSES(Computes(RightRes(x64_Loaded(m, tar, a1), a1), tar), tar, a1, Const))
    BY DEF x64_unary
  <1>2. PICK A : A = {a1} OBVIOUS
  <1>3. A \in SUBSET Vars /\ A \subseteq {a1} /\ a1 \in A \cup {Const} /\ {a1} \subseteq {a1, Const} BY <1>2
  <1>4. /\ target = "x64" /\ "x64" \in Targets /\ Going(m, tar, {a1}, {}) /\ m \in States /\ m.pinned = {}
        /\ ~ (X64Pool \subseteq m.pinned)
    BY <1>1, x64_Begin
  <1>5. PICK k : k = x64_Loaded(m, tar, a1) OBVIOUS
  <1>6. k \in Reached(m, A, {}) /\ k.res.r1 \in Regs /\ Free(k, k.res.r1, a1, Live1(m, tar, a1))
    BY <1>3, <1>4, <1>5, x64_LoadedRight
  <1>7. k \in States /\ k \in Gen BY <1>3, <1>4, <1>6, ReachedIs
  <1>8. RightRes(k, a1) \in Emitted(k) BY <1>7, EmittedSelf, RightEmits
  <1>9. RightRes(k, a1).res = k.res BY <1>8 DEF Emitted
  <1>10. Computes(RightRes(k, a1), tar) \in Emitted(k) BY <1>6, <1>8, <1>9, ComputesEmits
  <1>11. k \in Still(k, A) BY <1>3, <1>7, StillSelf
  <1> QED BY <1>1, <1>3, <1>4, <1>5, <1>6, <1>10, <1>11, x64_Computed

LEMMA x64_AsnRight ==
  ASSUME x64_Runs, NEW tar \in Vars, NEW a1 \in Vars \cup {Const}, x64_asn(tar, a1) PROVE IInv'
  <1>1. PICK m \in Marks(tar, {a1}, {}) :
          /\ Enabled("x64", "asn")
          /\ Commit(x64_UPDATE_ADDRESSES(Copies(RightRes(x64_Loaded(m, tar, a1), a1), tar, a1), tar, a1, Const))
    BY DEF x64_asn
  <1>2. PICK A : A = {a1} \cap Vars OBVIOUS
  <1>3. A \in SUBSET Vars /\ A \subseteq {a1} /\ a1 \in A \cup {Const} /\ {a1} \subseteq {a1, Const} BY <1>2
  <1>4. /\ target = "x64" /\ "x64" \in Targets /\ Going(m, tar, {a1}, {}) /\ m \in States /\ m.pinned = {}
        /\ ~ (X64Pool \subseteq m.pinned)
    BY <1>1, x64_Begin
  <1>5. PICK k : k = x64_Loaded(m, tar, a1) OBVIOUS
  <1>6. k \in Reached(m, A, {}) /\ k.res.r1 \in Regs /\ Free(k, k.res.r1, a1, Live1(m, tar, a1))
    BY <1>3, <1>4, <1>5, x64_LoadedRight
  <1>7. k \in States /\ k \in Gen BY <1>3, <1>4, <1>6, ReachedIs
  <1>8. RightRes(k, a1) \in Emitted(k) BY <1>7, EmittedSelf, RightEmits
  <1>10. Copies(RightRes(k, a1), tar, a1) \in Emitted(k) BY <1>8, CopiesEmits
  <1>11. k \in Still(k, A) BY <1>3, <1>7, StillSelf
  <1> QED BY <1>1, <1>3, <1>4, <1>5, <1>6, <1>10, <1>11, x64_Computed

LEMMA x64_AddrOfRight ==
  ASSUME x64_Runs, NEW tar \in Vars, x64_addr_of(tar) PROVE IInv'
  <1>1. PICK m \in Marks(tar, {}, {}) :
          Enabled("x64", "addr_of") /\ Commit(x64_update_tar(Computes(Got1(x64_get_reg0(m)), tar), tar))
    BY DEF x64_addr_of
  <1>2. /\ target = "x64" /\ "x64" \in Targets /\ Going(m, tar, {}, {}) /\ m \in States /\ m.pinned = {}
        /\ ~ (X64Pool \subseteq m.pinned)
    BY <1>1, x64_Begin
  <1>3. PICK g : g = x64_get_reg0(m) OBVIOUS
  <1>4. g \in Fewer(m) /\ g.got \in Regs \cap Regs /\ g.reg[g.got] = NoVar BY <1>2, <1>3, x64_Get0
  <1>5. PICK k : k = Got1(g) OBVIOUS
  <1>6. k \in After(m, {}) /\ k.pinned = {} /\ k.res.r1 = g.got /\ k.reg = g.reg
    BY <1>2, <1>4, <1>5, NewRegRight
  <1>7. k \in Reached(m, {}, {}) /\ k \in States /\ k \in Gen BY <1>2, <1>6, AfterIs DEF Reached, States
  <1>8. PICK n : n = Computes(k, tar) OBVIOUS
  <1>9. n \in Emitted(k) BY <1>4, <1>6, <1>7, <1>8, EmittedSelf, ComputesEmits
  <1>10. n \in Reached(m, {}, {}) /\ n.res = k.res /\ n.reg = k.reg BY <1>2, <1>7, <1>9, ReachedEmitted
  <1>11. Going(n, tar, {}, {}) BY <1>2, <1>10, GoingReached
  <1> QED BY <1>1, <1>2, <1>3, <1>4, <1>5, <1>6, <1>8, <1>10, <1>11, x64_Sets

LEMMA x64_DivisorStill ==
  ASSUME NEW n \in States, NEW A \in SUBSET Vars, NEW a2 \in A \cup {Const}, ~ (X64Pool \subseteq n.pinned)
  PROVE  x64_Divisor(n, a2) \in Still(n, A)
  <1>1. PICK k : k = IF a2 = Const THEN InGot(x64_LoadGot(x64_get_reg0(n), a2)) ELSE x64_get_operand(n, a2, FALSE)
    OBVIOUS
  <1>2. k \in Still(n, A)
    <2>1. x64_get_reg0(n) \in Fewer(n) /\ x64_get_reg0(n).got \in Regs BY x64_Get0
    <2>2. InGot(Load(x64_get_reg0(n), x64_get_reg0(n).got, a2)) \in Still(n, A) BY <2>1, InGotStill
    <2>3. x64_get_operand(n, a2, FALSE) \in Still(n, A) BY x64_OperandStill
    <2> QED BY <1>1, <2>2, <2>3 DEF x64_LoadGot, x64_load
  <1>3. k \in States /\ k \in Gen BY <1>2, StillIs DEF States
  <1>4. RightOpd(k, a2, 1) \in Emitted(k) BY <1>3, EmittedSelf, RightEmits
  <1>5. x64_Divisor(n, a2) = RightOpd(k, a2, 1) BY <1>1 DEF x64_Divisor
  <1> QED BY <1>2, <1>4, <1>5, StillThenEmitted

\* The dividend goes to RAX, RDX is emptied, and both are pinned while the divisor is found.
x64_Divided(m, A, res, tar, a1, a2, m0, m1, l, m2, s, m3, d, r, m4, u, m5) ==
  /\ Roomy(X64Pool) /\ m \in States /\ m.pinned = {} /\ ~ (X64Pool \subseteq m.pinned) /\ A \in SUBSET Vars
  /\ a1 \in A \cup {Const} /\ a2 \in A \cup {Const} /\ res \in {RAX, RDX}
  /\ m0 = x64_get_reg(m, a1, Live1(m, tar, a1)) /\ m1 = x64_Dividend(m0)
  /\ l = x64_load(m1, RAX, a1) /\ m2 = pin_reg(l, RAX)
  /\ s = x64_spill_reg(m2, RDX) /\ m3 = Clobber(pin_reg(s, RDX), {RDX})
  /\ d = x64_Divisor(m3, a2) /\ r = RightIn(d, RAX, a1, 1)
  /\ m4 = Clobber(r, {RAX, RDX})
  /\ u = unpin_reg(unpin_reg(m4, RAX), RDX)
  /\ m5 = Into(u, res, None)

LEMMA x64_DividedRight ==
  ASSUME NEW m, NEW A, NEW res, NEW tar, NEW a1, NEW a2,
         NEW m0, NEW m1, NEW l, NEW m2, NEW s, NEW m3, NEW d, NEW r, NEW m4, NEW u, NEW m5,
         x64_Divided(m, A, res, tar, a1, a2, m0, m1, l, m2, s, m3, d, r, m4, u, m5)
  PROVE  /\ Free(m1, RAX, a1, Live1(m, tar, a1)) /\ l \in States /\ m2 \in States /\ s \in States /\ s.reg[RDX] = NoVar
         /\ m3 \in States /\ m3.pinned = {RAX, RDX} /\ d \in States
         /\ Free(d, RAX, a1, Live1(m, tar, a1)) /\ Free(d, RDX, a1, Live1(m, tar, a1))
         /\ m5 \in Reached(m, A, {}) /\ m5.res.r1 = res /\ Free(m5, res, a1, Live1(m, tar, a1))
  <1>1. /\ m0 = x64_get_reg(m, a1, Live1(m, tar, a1)) /\ m1 = x64_Dividend(m0)
        /\ l = x64_load(m1, RAX, a1) /\ m2 = pin_reg(l, RAX)
        /\ s = x64_spill_reg(m2, RDX) /\ m3 = Clobber(pin_reg(s, RDX), {RDX})
        /\ d = x64_Divisor(m3, a2) /\ r = RightIn(d, RAX, a1, 1)
        /\ m4 = Clobber(r, {RAX, RDX})
        /\ u = unpin_reg(unpin_reg(m4, RAX), RDX)
        /\ m5 = Into(u, res, None)
    BY DEF x64_Divided
  <1>2. res \in {RAX, RDX} /\ Roomy(X64Pool) BY DEF x64_Divided
  <1>3. A \in SUBSET Vars /\ a1 \in A \cup {Const} /\ a2 \in A \cup {Const} BY DEF x64_Divided
  <1>4. m \in States /\ m.pinned = {} /\ ~ (X64Pool \subseteq m.pinned) BY DEF x64_Divided
  <1>5. PICK live \in BOOLEAN : live = Live1(m, tar, a1) BY LiveBoolean
  <1>6. m0 \in Reached(m, A, {}) /\ Free(m0, m0.res.r1, a1, live)
    <2>1. m0 \in After(m, {}) /\ m0.pinned = m.pinned /\ Ready(m0, a1, live, Regs)
      BY <1>1, <1>3, <1>4, <1>5, x64_GetReg
    <2>2. m0 \in After(m, A) BY <1>3, <2>1, AfterMore
    <2> QED BY <1>4, <2>1, <2>2 DEF Reached, Ready
  <1>7. m0 \in States BY <1>3, <1>4, <1>6, ReachedState
  <1>8. m1 \in Fewer(m0) /\ Free(m1, RAX, a1, live)
    <2>1. CASE m0.res.r1 # RAX
      <3>1. m1 = x64_spill_reg(m0, RAX) BY <1>1, <2>1 DEF x64_Dividend
      <3>2. m1 \in Fewer(m0) /\ reg_isempty(m1, RAX) BY <1>7, <3>1, x64_SpillFewer, x64_Regs
      <3> QED BY <3>2, x64_Regs DEF Free, reg_isempty
    <2>2. CASE m0.res.r1 = RAX
      <3>1. m1 = m0 BY <1>1, <2>2 DEF x64_Dividend
      <3> QED BY <1>6, <1>7, <2>2, <3>1, FewerSelf
    <2> QED BY <2>1, <2>2
  <1>9. m1 \in Reached(m, A, {}) /\ m1 \in States
    BY <1>3, <1>4, <1>6, <1>8, ReachedFewer, ReachedIs
  <1>10. l \in Stored(m1, A) BY <1>1, <1>3, <1>9, LoadStored, x64_Regs DEF x64_load
  <1>11. l \in Reached(m1, A, {})
    <2>1. m1.pinned = {} BY <1>3, <1>4, <1>9, ReachedIs
    <2>2. m1 \in Reached(m1, A, {}) BY <1>3, <1>9, <2>1, ReachedSelf
    <2> QED BY <1>3, <1>9, <1>10, <2>2, ReachedStored
  <1>12. m2 \in Reached(m1, A, {RAX})
    <2>1. m2 \in Reached(m1, A, {} \cup {RAX}) BY <1>1, <1>3, <1>9, <1>11, ReachedPin, x64_Regs
    <2>2. {} \cup {RAX} = {RAX} OBVIOUS
    <2> QED BY <2>1, <2>2
  <1>13. m2 \in States /\ m2.pinned = {RAX} BY <1>3, <1>9, <1>12, ReachedState
  <1>14. s \in Fewer(m2) /\ s.reg[RDX] = NoVar BY <1>1, <1>13, x64_SpillFewer, x64_Regs DEF reg_isempty
  <1>15. s \in States /\ s.pinned = {RAX} BY <1>13, <1>14, FewerIs
  <1>16. m3 \in Reached(s, A, {RAX, RDX})
    <2>1. PICK p : p = pin_reg(s, RDX) OBVIOUS
    <2>2. s \in Reached(s, A, {RAX}) BY <1>3, <1>15, ReachedSelf
    <2>3. p \in Reached(s, A, {RAX} \cup {RDX}) BY <1>3, <1>15, <2>1, <2>2, ReachedPin, x64_Regs
    <2>4. {RAX} \cup {RDX} = {RAX, RDX} OBVIOUS
    <2>5. p \in Reached(s, A, {RAX, RDX}) /\ p \in Gen BY <1>3, <1>15, <2>3, <2>4, ReachedIs
    <2>6. {RDX} \in SUBSET Int BY DEF RDX
    <2>7. m3 \in Emitted(p) BY <1>1, <2>1, <2>5, <2>6, EmittedSelf, ClobberEmits
    <2> QED BY <1>3, <1>15, <2>5, <2>7, ReachedEmitted
  <1>17. m3 \in States /\ m3.pinned = {RAX, RDX} BY <1>3, <1>15, <1>16, ReachedState
  <1>18. d \in Still(m3, A)
    <2>1. ~ (X64Pool \subseteq m3.pinned) BY <1>2, <1>17, x64_Regs DEF Roomy
    <2> QED BY <1>1, <1>3, <1>17, <2>1, x64_DivisorStill
  <1>19. d \in Reached(s, A, {RAX, RDX}) /\ d \in Gen
    <2>1. d \in Reached(s, A, {RAX, RDX}) BY <1>3, <1>15, <1>16, <1>18, ReachedStill
    <2> QED BY <1>3, <1>15, <2>1, ReachedIs
  <1>20. m4 \in Reached(s, A, {RAX, RDX})
    <2>1. {RAX, RDX} \in SUBSET Int BY DEF RAX, RDX
    <2>2. r \in Emitted(d) BY <1>1, <1>19, EmittedSelf, RightEmits
    <2>3. m4 \in Emitted(d) BY <1>1, <2>1, <2>2, ClobberEmits
    <2> QED BY <1>3, <1>15, <1>19, <2>3, ReachedEmitted
  <1>21. u \in Reached(s, A, {})
    <2>1. PICK w : w = unpin_reg(m4, RAX) OBVIOUS
    <2>2. w \in Reached(s, A, {RAX, RDX} \ {RAX}) BY <1>3, <1>15, <1>20, <2>1, ReachedUnpin
    <2>3. u \in Reached(s, A, ({RAX, RDX} \ {RAX}) \ {RDX}) BY <1>1, <1>3, <1>15, <2>1, <2>2, ReachedUnpin
    <2>4. ({RAX, RDX} \ {RAX}) \ {RDX} = {} OBVIOUS
    <2> QED BY <2>3, <2>4
  <1>22. res \in Regs BY <1>2, x64_Regs
  <1>23. m5 \in Reached(s, A, {}) /\ m5.res.r1 = res BY <1>1, <1>3, <1>15, <1>21, <1>22, ReachedInto
  <1>24. m5 \in States BY <1>3, <1>15, <1>23, ReachedState
  <1>25. s \in Reached(m1, A, {RAX}) BY <1>3, <1>9, <1>12, <1>14, ReachedFewer
  <1>26. m5 \in Reached(m1, A, {}) BY <1>3, <1>9, <1>23, <1>25, ReachedTrans
  <1>27. m5 \in Reached(m, A, {}) BY <1>3, <1>4, <1>9, <1>26, ReachedTrans
  <1>28. Free(m5, res, a1, live)
    <2>1. CASE res = RAX
      <3>1. m5 \in After(m1, A) BY <1>3, <1>9, <1>26, ReachedIs
      <3> QED BY <1>3, <1>8, <1>9, <2>1, <3>1, FreeKept
    <2>2. CASE res = RDX
      <3>1. m5 \in After(s, A) BY <1>3, <1>15, <1>23, ReachedIs
      <3>2. Free(s, RDX, a1, live) BY <1>14, x64_Regs DEF Free
      <3> QED BY <1>3, <1>15, <2>2, <3>1, <3>2, FreeKept
    <2> QED BY <1>2, <2>1, <2>2
  <1>29. Free(d, RAX, a1, live) /\ Free(d, RDX, a1, live)
    <2>1. Free(s, RAX, a1, live)
      <3>1. s \in After(m1, A) BY <1>3, <1>9, <1>25, ReachedIs
      <3> QED BY <1>3, <1>8, <1>9, <3>1, FreeKept
    <2>2. Free(s, RDX, a1, live) BY <1>14, x64_Regs DEF Free
    <2>3. d \in After(s, A) BY <1>3, <1>15, <1>19, ReachedIs
    <2> QED BY <1>3, <1>15, <2>1, <2>2, <2>3, FreeKept
  <1>30. l \in States /\ d \in States BY <1>3, <1>9, <1>11, <1>15, <1>19, ReachedState
  <1> QED BY <1>5, <1>8, <1>13, <1>14, <1>15, <1>17, <1>23, <1>27, <1>28, <1>29, <1>30

LEMMA x64_DivRemRight ==
  ASSUME x64_Runs, NEW res \in {RAX, RDX}, NEW tar \in WordTemps, NEW a1 \in Vars \cup {Const},
         NEW a2 \in Vars \cup {Const}, x64_div_rem(res, tar, a1, a2)
  PROVE  IInv'
  <1>1. PICK m, m0, m1, l, m2, s, m3, d, r, m4, u, m5 :
          /\ m \in Marks(tar, {a1, a2}, {})
          /\ Enabled("x64", "div_rem")
          /\ m0 = x64_get_reg(m, a1, Live1(m, tar, a1)) /\ m1 = x64_Dividend(m0)
          /\ l = x64_load(m1, RAX, a1) /\ m2 = pin_reg(l, RAX)
          /\ s = x64_spill_reg(m2, RDX) /\ m3 = Clobber(pin_reg(s, RDX), {RDX})
          /\ d = x64_Divisor(m3, a2) /\ r = RightIn(d, RAX, a1, 1)
          /\ m4 = Clobber(r, {RAX, RDX})
          /\ u = unpin_reg(unpin_reg(m4, RAX), RDX)
          /\ m5 = Into(u, res, None)
          /\ Commit(x64_UPDATE_ADDRESSES(Computes(m5, tar), tar, a1, a2))
    BY DEF x64_div_rem
  <1>2. PICK A : A = Named(a1, a2) OBVIOUS
  <1>3. A \in SUBSET Vars /\ A \subseteq {a1, a2} /\ a1 \in A \cup {Const} /\ a2 \in A \cup {Const} /\ tar \in Vars
    BY <1>2, NamedIs, CGenRegsAssumption DEF WordTemps
  <1>4. /\ target = "x64" /\ "x64" \in Targets /\ Going(m, tar, {a1, a2}, {}) /\ m \in States /\ m.pinned = {}
        /\ ~ (X64Pool \subseteq m.pinned)
    BY <1>1, x64_Begin
  <1>6. m5 \in Reached(m, A, {}) /\ m5.res.r1 = res /\ Free(m5, res, a1, Live1(m, tar, a1))
    <2>1. x64_Divided(m, A, res, tar, a1, a2, m0, m1, l, m2, s, m3, d, r, m4, u, m5)
      BY <1>1, <1>3, <1>4 DEF x64_Divided, x64_Runs
    <2> QED BY <2>1, x64_DividedRight
  <1>5. res \in Regs /\ m5 \in States BY <1>3, <1>4, <1>6, x64_Regs, ReachedState
  <1>7. Computes(m5, tar) \in Emitted(m5) BY <1>3, <1>5, <1>6, EmittedSelf, ComputesEmits DEF States
  <1>8. m5 \in Still(m5, A) BY <1>3, <1>5, StillSelf
  <1> QED BY <1>1, <1>3, <1>4, <1>5, <1>6, <1>7, <1>8, x64_Computed

\* The count goes to RCX, where it stays while the first operand is loaded.
x64_Counted(m, A, tar, a1, a2, c, p, m1, r, m2) ==
  /\ Roomy(X64Pool) /\ m \in States /\ m.pinned = {} /\ A \in SUBSET Vars /\ a1 \in A \cup {Const} /\ a2 \in A
  /\ c = x64_Count(m, a2) /\ p = pin_reg(c, RCX)
  /\ m1 = x64_Loaded(p, tar, a1) /\ r = RightIn(m1, RCX, a2, 1) /\ m2 = unpin_reg(r, RCX)

LEMMA x64_CountedRight ==
  ASSUME NEW m, NEW A, NEW tar, NEW a1, NEW a2, NEW c, NEW p, NEW m1, NEW r, NEW m2,
         x64_Counted(m, A, tar, a1, a2, c, p, m1, r, m2)
  PROVE  /\ c \in States /\ p \in States /\ p.pinned = {RCX} /\ ~ (X64Pool \subseteq p.pinned) /\ m1 \in States
         /\ m2 \in Reached(m, A, {}) /\ m2.res.r1 \in Regs /\ Free(m2, m2.res.r1, a1, Live1(m, tar, a1))
  <1>1. /\ c = x64_Count(m, a2) /\ p = pin_reg(c, RCX)
         /\ m1 = x64_Loaded(p, tar, a1) /\ r = RightIn(m1, RCX, a2, 1) /\ m2 = unpin_reg(r, RCX)
    BY DEF x64_Counted
  <1>2. A \in SUBSET Vars /\ a1 \in A \cup {Const} /\ a2 \in A /\ m \in States /\ m.pinned = {} BY DEF x64_Counted
  <1>3. Roomy(X64Pool) BY DEF x64_Counted
  <1>4. c \in Still(m, A)
    <2>1. CASE InReg(m, a2) /\ addr_reg1(m, a2) = RCX
      BY <1>1, <1>2, <2>1, StillSelf DEF x64_Count
    <2>2. CASE ~(InReg(m, a2) /\ addr_reg1(m, a2) = RCX)
      <3>1. PICK s : s = x64_spill_reg(m, RCX) OBVIOUS
      <3>2. s \in Still(m, A) /\ s \in States BY <1>2, <3>1, x64_SpillFewer, x64_Regs, FewerStill, FewerIs
      <3>3. c = Load(s, RCX, a2) BY <1>1, <2>2, <3>1 DEF x64_Count, x64_load
      <3>4. c \in Stored(s, A) BY <1>2, <3>2, <3>3, LoadStored, x64_Regs
      <3> QED BY <1>2, <3>2, <3>4, StillThenStored
    <2> QED BY <2>1, <2>2
  <1>5. c \in Reached(m, A, {}) BY <1>2, <1>4, StillIs DEF Reached
  <1>6. p \in Reached(m, A, {RCX})
    <2>1. p \in Reached(m, A, {} \cup {RCX}) BY <1>1, <1>2, <1>5, ReachedPin, x64_Regs
    <2>2. {} \cup {RCX} = {RCX} OBVIOUS
    <2> QED BY <2>1, <2>2
  <1>7. p \in States /\ p.pinned = {RCX} /\ p.fut = m.fut BY <1>2, <1>6, ReachedState
  <1>8. ~ (X64Pool \subseteq p.pinned) BY <1>3, <1>7, x64_Regs DEF Roomy
  <1>9. m1 \in Reached(p, A, {RCX}) /\ m1.res.r1 \in Regs /\ Free(m1, m1.res.r1, a1, Live1(p, tar, a1))
    BY <1>1, <1>2, <1>7, <1>8, x64_LoadedRight
  <1>10. m1 \in Reached(m, A, {RCX}) /\ m1 \in Gen BY <1>2, <1>6, <1>9, ReachedTrans, ReachedIs
  <1>11. r \in Emitted(m1) BY <1>1, <1>10, EmittedSelf, RightEmits
  <1>12. r \in Reached(m, A, {RCX}) /\ r.res = m1.res /\ r.reg = m1.reg BY <1>2, <1>10, <1>11, ReachedEmitted
  <1>13. m2 = unpin_reg(r, RCX) BY <1>1
  <1>14. m2 \in Reached(m, A, {RCX} \ {RCX}) /\ m2.res = r.res /\ m2.reg = r.reg
    BY <1>2, <1>12, <1>13, ReachedUnpin
  <1>15. {RCX} \ {RCX} = {} OBVIOUS
  <1>16. Live1(p, tar, a1) = Live1(m, tar, a1) BY <1>7, LiveSame
  <1>17. c \in States /\ m1 \in States BY <1>5, <1>10, <1>2, ReachedIs
  <1> QED BY <1>7, <1>8, <1>9, <1>12, <1>14, <1>15, <1>16, <1>17 DEF Free

LEMMA x64_ShiftRight ==
  ASSUME x64_Runs, NEW tar \in WordTemps, NEW a1 \in Vars \cup {Const}, NEW a2 \in Vars \cup {Const},
         x64_shift(tar, a1, a2)
  PROVE  IInv'
  <1>1. PICK m, c, p, m1, r, m2 :
          /\ m \in Marks(tar, {a1, a2}, {})
          /\ Enabled("x64", "shift")
          /\ c = x64_Count(m, a2) /\ p = pin_reg(c, RCX)
          /\ m1 = x64_Loaded(p, tar, a1) /\ r = RightIn(m1, RCX, a2, 1)
          /\ m2 = IF a2 = Const THEN x64_Loaded(m, tar, a1) ELSE unpin_reg(r, RCX)
          /\ Commit(x64_UPDATE_ADDRESSES(Computes(RightRes(m2, a1), tar), tar, a1, a2))
    BY DEF x64_shift
  <1>2. PICK A : A = Named(a1, a2) OBVIOUS
  <1>3. A \in SUBSET Vars /\ A \subseteq {a1, a2} /\ a1 \in A \cup {Const} /\ a2 \in A \cup {Const} /\ tar \in Vars
    BY <1>2, NamedIs, CGenRegsAssumption DEF WordTemps
  <1>4. /\ target = "x64" /\ "x64" \in Targets /\ Going(m, tar, {a1, a2}, {}) /\ m \in States /\ m.pinned = {}
        /\ ~ (X64Pool \subseteq m.pinned)
    BY <1>1, x64_Begin
  <1>5. m2 \in Reached(m, A, {}) /\ m2.res.r1 \in Regs /\ Free(m2, m2.res.r1, a1, Live1(m, tar, a1))
    <2>1. CASE a2 = Const BY <1>1, <1>3, <1>4, <2>1, x64_LoadedRight
    <2>2. CASE a2 # Const
      <3>1. x64_Counted(m, A, tar, a1, a2, c, p, m1, r, m2)
        BY <1>1, <1>3, <1>4, <2>2 DEF x64_Counted, x64_Runs
      <3> QED BY <3>1, x64_CountedRight
    <2> QED BY <2>1, <2>2
  <1>6. m2 \in States /\ m2 \in Gen BY <1>3, <1>4, <1>5, ReachedIs
  <1>7. RightRes(m2, a1) \in Emitted(m2) BY <1>6, EmittedSelf, RightEmits
  <1>8. RightRes(m2, a1).res = m2.res BY <1>7 DEF Emitted
  <1>9. Computes(RightRes(m2, a1), tar) \in Emitted(m2) BY <1>3, <1>5, <1>7, <1>8, ComputesEmits
  <1>10. m2 \in Still(m2, A) BY <1>3, <1>6, StillSelf
  <1> QED BY <1>1, <1>3, <1>4, <1>5, <1>9, <1>10, x64_Computed

LEMMA x64_RelopJumpRight ==
  ASSUME x64_Runs, NEW a1 \in Vars \cup {Const}, NEW a2 \in Vars \cup {Const}, NEW long,
         x64_relop_jump(a1, a2, long)
  PROVE  IInv'
  <1>1. PICK m \in Marks(NoVar, {a1, a2}, {}) :
          /\ Enabled("x64", "relop_jump")
          /\ Commit(x64_update_args(x64_OnOperands(x64_InPlace(m, NoVar, a1), a1, a2, long), NoVar, a1, a2))
    BY DEF x64_relop_jump
  <1>2. PICK A : A = Named(a1, a2) OBVIOUS
  <1>3. A \in SUBSET Vars /\ A \subseteq {a1, a2} /\ a1 \in A \cup {Const} /\ a2 \in A \cup {Const}
    BY <1>2, NamedIs
  <1>4. /\ target = "x64" /\ "x64" \in Targets /\ Going(m, NoVar, {a1, a2}, {}) /\ m \in States /\ m.pinned = {}
        /\ ~ (X64Pool \subseteq m.pinned)
    BY <1>1, x64_Begin
  <1>5. PICK k : k = x64_InPlace(m, NoVar, a1) OBVIOUS
  <1>6. k \in Reached(m, A, {}) /\ k.res.r1 \in Regs BY <1>3, <1>4, <1>5, x64_InPlaceRight
  <1>7. k \in States /\ k.pinned = {} BY <1>3, <1>4, <1>6, ReachedState
  <1>8. PICK q : q = x64_OnOperands(k, a1, a2, long) OBVIOUS
  <1>9. q \in Still(k, A) BY <1>3, <1>6, <1>7, <1>8, x64_OnOperandsStill DEF x64_Runs
  <1>10. q \in Reached(m, A, {}) BY <1>3, <1>4, <1>6, <1>9, ReachedStill
  <1> QED BY <1>1, <1>3, <1>4, <1>5, <1>8, <1>10, x64_Read

LEMMA x64_AliasedFewer ==
  ASSUME NEW m \in States PROVE x64_spill_aliased_objects(m) \in Fewer(m)
  <1>1. Aliased \in SUBSET Vars BY CGenRegsAssumption DEF Aliased, Ids
  <1> QED BY <1>1, x64_SpillTheseFewer DEF x64_spill_aliased_objects

LEMMA x64_IndRight ==
  ASSUME x64_Runs, NEW tar \in Vars, NEW a1 \in Vars, x64_ind(tar, a1) PROVE IInv'
  <1>1. PICK m, s, k, m1, m2, n :
          /\ m \in Marks(tar, {a1}, AddrTaken)
          /\ Enabled("x64", "ind")
          /\ s = x64_spill_aliased_objects(m) /\ k = x64_Loaded(s, tar, a1)
          /\ m1 = RightRes(k, a1) /\ m2 = ReadsMemory(m1, Pointed)
          /\ n = IF tar \in Structs THEN ComputesAt(m2, tar, Far) ELSE Computes(m2, tar)
          /\ Commit(x64_UPDATE_ADDRESSES(n, tar, a1, Const))
    BY DEF x64_ind
  <1>2. PICK A : A = {a1} OBVIOUS
  <1>3. /\ A \in SUBSET Vars /\ A \subseteq {a1} /\ a1 \in A \cup {Const} /\ {a1} \subseteq {a1, Const}
        /\ AddrTaken \subseteq Crossing /\ Far \in Locs
    BY <1>2, CGenAssumption DEF Locs
  <1>4. /\ target = "x64" /\ "x64" \in Targets /\ Going(m, tar, {a1}, {}) /\ m \in States /\ m.pinned = {}
        /\ ~ (X64Pool \subseteq m.pinned)
    BY <1>1, <1>3, x64_Begin
  <1>5. s \in Fewer(m) BY <1>1, <1>4, x64_AliasedFewer
  <1>6. m \in Reached(m, A, {}) BY <1>3, <1>4, ReachedSelf
  <1>7. s \in Reached(m, A, {}) BY <1>3, <1>4, <1>5, <1>6, ReachedFewer
  <1>8. s \in States /\ s.pinned = {} /\ s.fut = m.fut BY <1>3, <1>4, <1>7, ReachedState
  <1>9. k \in Reached(s, A, {}) /\ k.res.r1 \in Regs /\ Free(k, k.res.r1, a1, Live1(s, tar, a1))
    BY <1>1, <1>3, <1>4, <1>8, x64_LoadedRight
  <1>10. k \in Reached(m, A, {}) BY <1>3, <1>4, <1>7, <1>9, ReachedTrans
  <1>11. k \in States /\ k \in Gen BY <1>3, <1>4, <1>10, ReachedIs
  <1>12. m1 \in Emitted(k) BY <1>1, <1>11, EmittedSelf, RightEmits
  <1>13. m2 \in Emitted(k) BY <1>1, <1>12, ReadsMemoryEmits
  <1>14. m2.res.r1 \in Regs BY <1>9, <1>13 DEF Emitted
  <1>15. n \in Emitted(k) BY <1>1, <1>3, <1>13, <1>14, ComputesEmits, ComputesAtEmits
  <1>16. k \in Still(k, A) BY <1>3, <1>11, StillSelf
  <1>17. Live1(s, tar, a1) = Live1(m, tar, a1) BY <1>8, LiveSame
  <1> QED BY <1>1, <1>3, <1>4, <1>9, <1>10, <1>15, <1>16, <1>17, x64_Computed

\* The operand in register r1 or in the register of get_reg0().
LEMMA x64_LoadStored ==
  ASSUME NEW m \in States, NEW A \in SUBSET Vars, NEW r \in Regs, NEW a \in A \cup {Const}
  PROVE  x64_load(m, r, a) \in Stored(m, A)
  BY LoadStored DEF x64_load

LEMMA x64_ToStored ==
  ASSUME NEW m \in States, NEW A \in SUBSET Vars, NEW a \in A
  PROVE  x64_ToSource(m, a) \in Stored(m, A) /\ x64_ToTarget(m, a) \in Stored(m, A)
  BY StoredSelf, LoadStored, x64_Regs DEF x64_ToSource, x64_ToTarget, x64_load

LEMMA x64_StoredWordStill ==
  ASSUME NEW n \in States, NEW A \in SUBSET Vars, NEW a2 \in A \cup {Const}, NEW qword, ~ (X64Pool \subseteq n.pinned)
  PROVE  x64_StoredWord(n, a2, qword) \in Still(n, A)
  <1>1. CASE a2 = Const /\ ~qword BY <1>1, StillSelf DEF x64_StoredWord
  <1>2. CASE ~(a2 = Const /\ ~qword) /\ InReg(n, a2)
    <2>1. n \in Emitted(n) BY EmittedSelf DEF States
    <2>2. RightIn(n, addr_reg1(n, a2), a2, 1) \in Emitted(n) BY <2>1, RightEmits
    <2> QED BY <1>2, <2>2, EmittedStill DEF x64_StoredWord
  <1>3. CASE ~(a2 = Const /\ ~qword) /\ ~InReg(n, a2)
    <2>1. x64_get_reg0(n) \in Fewer(n) /\ x64_get_reg0(n).got \in Regs BY x64_Get0
    <2>2. PICK k : k = InGot(Load(x64_get_reg0(n), x64_get_reg0(n).got, a2)) OBVIOUS
    <2>3. k \in Still(n, A) BY <2>1, <2>2, InGotStill
    <2>4. k \in States /\ k \in Gen BY <2>3, StillIs DEF States
    <2>5. RightOpd(k, a2, 1) \in Emitted(k) BY <2>4, EmittedSelf, RightEmits
    <2>6. x64_StoredWord(n, a2, qword) = RightOpd(k, a2, 1) BY <1>3, <2>2 DEF x64_StoredWord, x64_LoadGot, x64_load
    <2> QED BY <2>3, <2>5, <2>6, StillThenEmitted
  <1> QED BY <1>1, <1>2, <1>3

LEMMA x64_StoredStructStill ==
  ASSUME NEW n \in States, NEW A \in SUBSET Vars, NEW a1 \in A, NEW a2 \in A
  PROVE  x64_StoredStruct(n, a1, a2) \in Still(n, A)
  <1>1. PICK k : k = x64_ToSource(n, a2) OBVIOUS
  <1>2. k \in Stored(n, A) /\ k \in States BY <1>1, x64_ToStored, StoredIs
  <1>3. PICK l : l = x64_ToTarget(k, a1) OBVIOUS
  <1>4. l \in Stored(k, A) /\ l \in Gen BY <1>2, <1>3, x64_ToStored, StoredIs
  <1>5. PICK q : q = RightIn(RightIn(l, RSI, a2, 1), RDI, a1, 1) OBVIOUS
  <1>6. q \in Emitted(l) BY <1>4, <1>5, EmittedSelf, RightEmits
  <1>7. n \in Gen BY DEF States
  <1>8. x64_StoredStruct(n, a1, a2) \in Emitted(l) BY <1>1, <1>3, <1>5, <1>6, <1>7, CopyEmits DEF x64_StoredStruct
  <1>9. l \in Stored(n, A) BY <1>2, <1>4, StoredTrans
  <1>10. x64_StoredStruct(n, a1, a2) \in Stored(n, A) BY <1>8, <1>9, StoredThen
  <1> QED BY <1>10, StoredStill

LEMMA x64_IndAsnRight ==
  ASSUME x64_Runs, NEW a1 \in Vars, NEW a2 \in Vars \cup {Const}, NEW qword, x64_ind_asn(a1, a2, qword) PROVE IInv'
  <1>1. PICK m, s, k, d, q, m2 :
          /\ m \in Marks(NoVar, {a1, a2}, {})
          /\ Enabled("x64", "ind_asn")
          /\ s = x64_spill_aliased_objects(m)
          /\ k = x64_Pointer(s, a1) /\ d = x64_StoredWord(k, a2, qword) /\ q = RightRes(d, a1)
          /\ m2 = IF a2 \in Structs THEN x64_StoredStruct(s, a1, a2) ELSE unpin_reg(q, q.res.r1)
          /\ Commit(x64_update_args(WritesMemory(m2, Pointed), NoVar, a1, a2))
    BY DEF x64_ind_asn, x64_PointerRight, UnpinRes
  <1>2. PICK A : A = Named(a1, a2) OBVIOUS
  <1>3. /\ A \in SUBSET Vars /\ A \subseteq {a1, a2} /\ a1 \in A \cup {Const} /\ a2 \in A \cup {Const}
        /\ a1 \in A /\ (a2 \in Structs => a2 \in A) /\ Pointed \in SUBSET Vars
    BY <1>2, NamedIs, CGenRegsAssumption DEF Named, Ids
  <1>4. /\ target = "x64" /\ "x64" \in Targets /\ Going(m, NoVar, {a1, a2}, {}) /\ m \in States /\ m.pinned = {}
        /\ ~ (X64Pool \subseteq m.pinned)
    BY <1>1, x64_Begin
  <1>5. s \in Fewer(m) BY <1>1, <1>4, x64_AliasedFewer
  <1>6. m \in Reached(m, A, {}) BY <1>3, <1>4, ReachedSelf
  <1>7. s \in Reached(m, A, {}) BY <1>3, <1>4, <1>5, <1>6, ReachedFewer
  <1>8. s \in States /\ s.pinned = {} BY <1>3, <1>4, <1>7, ReachedState
  <1>9. m2 \in Reached(m, A, {})
    <2>1. CASE a2 \in Structs
      <3>1. m2 \in Still(s, A) BY <1>1, <1>3, <1>8, <2>1, x64_StoredStructStill
      <3> QED BY <1>3, <1>4, <1>7, <3>1, ReachedStill
    <2>2. CASE a2 \notin Structs
      <3>1. /\ k \in Reached(s, A, {}) \/ k \in Reached(s, A, {k.res.r1})
            /\ k.res.r1 \in Regs
        <4>1. CASE InReg(s, a1)
          <5>1. addr_reg1(s, a1) \in Regs BY <4>1, RegOf, <1>8
          <5>2. s \in Reached(s, A, {}) BY <1>3, <1>8, ReachedSelf
          <5>3. k = Into(s, addr_reg1(s, a1), None) BY <1>1, <4>1 DEF x64_Pointer
          <5>4. k \in Reached(s, A, {}) /\ k.res.r1 = addr_reg1(s, a1) BY <1>3, <1>8, <5>1, <5>2, <5>3, ReachedInto
          <5> QED BY <5>1, <5>4
        <4>2. CASE ~InReg(s, a1)
          <5>1. PICK l : l = x64_Loaded(s, NoVar, a1) OBVIOUS
          <5>2. l \in Reached(s, A, {}) /\ l.res.r1 \in Regs BY <1>3, <1>4, <1>8, <5>1, x64_LoadedRight
          <5>3. k = pin_reg(l, l.res.r1) BY <1>1, <4>2, <5>1 DEF x64_Pointer, PinRes
          <5>4. PICK r : r = l.res.r1 OBVIOUS
          <5>5. r \in Regs /\ k = pin_reg(l, r) BY <5>2, <5>3, <5>4
          <5>6. k \in Reached(s, A, {} \cup {r}) /\ k.res = l.res BY <1>3, <1>8, <5>2, <5>5, ReachedPin
          <5>7. {} \cup {r} = {r} OBVIOUS
          <5> QED BY <5>2, <5>4, <5>6, <5>7
        <4> QED BY <4>1, <4>2
      <3>2. PICK p : p = k.pinned OBVIOUS
      <3>3. k \in Reached(s, A, p) /\ p \ {k.res.r1} = {} BY <3>1, <3>2 DEF Reached
      <3>4. k \in States BY <1>3, <1>8, <3>3, ReachedState
      <3>5. ~ (X64Pool \subseteq k.pinned)
        <4>1. ~ (X64Pool \subseteq {k.res.r1}) BY <3>1 DEF x64_Runs, Roomy
        <4> QED BY <3>2, <3>3, <4>1
      <3>6. d \in Still(k, A) BY <1>1, <1>3, <3>4, <3>5, x64_StoredWordStill
      <3>7. d \in Reached(s, A, p) /\ d.res = k.res BY <1>3, <1>8, <3>3, <3>6, ReachedStill
      <3>11. d \in Gen BY <1>3, <1>8, <3>7, ReachedIs
      <3>8. q \in Emitted(d) BY <1>1, <3>11, EmittedSelf, RightEmits
      <3>9. q \in Reached(s, A, p) /\ q.res = d.res BY <1>3, <1>8, <3>7, <3>8, ReachedEmitted
      <3>10. m2 \in Reached(s, A, p \ {k.res.r1}) BY <1>1, <1>3, <1>8, <2>2, <3>7, <3>9, ReachedUnpin
      <3> QED BY <1>3, <1>4, <1>7, <3>3, <3>10, ReachedTrans
    <2> QED BY <2>1, <2>2
  <1>10. m2 \in States /\ m2 \in Gen BY <1>3, <1>4, <1>9, ReachedIs
  <1>11. WritesMemory(m2, Pointed) \in Emitted(m2) BY <1>3, <1>10, EmittedSelf, WritesMemoryEmits
  <1>12. WritesMemory(m2, Pointed) \in Reached(m, A, {}) BY <1>3, <1>4, <1>9, <1>11, ReachedEmitted
  <1> QED BY <1>1, <1>3, <1>4, <1>12, x64_Read

-----------------------------------------------------------------------------
(* x64_cgen.c: calls                                                       *)

\* The registers x64_pre_call() empties.
LEMMA x64_PreCallRight ==
  ASSUME NEW m \in States, NEW A \in SUBSET Vars, m.pinned = {}, NEW big
  PROVE  /\ x64_pre_call(m, big) \in Reached(m, A, {})
         /\ \A r \in Regs : x64_pre_call(m, big).reg[r] = NoVar
  <1>1. PICK s : s = x64_spill_all(m) OBVIOUS
  <1>2. s \in Fewer(m) /\ \A r \in Regs : s.reg[r] \notin Vars
    BY <1>1, x64_SpillTheseFewer DEF x64_spill_all
  <1>3. m \in Reached(m, A, {}) BY ReachedSelf
  <1>4. s \in Reached(m, A, {}) BY <1>2, <1>3, ReachedFewer
  <1>5. s \in States /\ s \in Gen BY <1>4, ReachedIs
  <1>6. \A r \in Regs : s.reg[r] = NoVar BY <1>2, <1>5, OwnerIs
  <1>7. (IF big THEN {R11, R12, R13} ELSE {}) \in SUBSET Int BY DEF R11, R12, R13
  <1>8. PICK n : n = x64_pre_call(m, big) OBVIOUS
  <1>9. n \in Emitted(s) BY <1>1, <1>5, <1>7, <1>8, EmittedSelf, ClobberEmits DEF x64_pre_call
  <1>10. n \in Reached(m, A, {}) /\ n.reg = s.reg BY <1>4, <1>9, ReachedEmitted
  <1> QED BY <1>6, <1>8, <1>10

LEMMA x64_CalledRight ==
  ASSUME NEW m \in States, NEW A \in SUBSET Vars, NEW k \in Reached(m, A, {})
  PROVE  Called(k, X64CallerSave) \in Reached(m, A, {}) /\ Called(k, X64CallerSave).reg = k.reg
  <1>1. X64CallerSave \in SUBSET Int BY DEF X64CallerSave, RAX, RCX, RDX, RSI, RDI
  <1>2. k \in Gen BY ReachedIs
  <1>3. Called(k, X64CallerSave) \in Emitted(k) BY <1>1, <1>2, EmittedSelf, CalledEmits
  <1> QED BY <1>3, ReachedEmitted

\* The call has been made, and all registers are empty.
LEMMA x64_ReturnedRight ==
  ASSUME target = "x64", "x64" \in Targets, NEW tar \in Vars \cup {NoVar}, NEW n, Going(n, tar, {}, {}),
         \A r \in Regs : n.reg[r] = NoVar, Commit(x64_Returned(n, tar))
  PROVE  IInv'
  <1>1. CASE tar \notin Vars
    <2>1. tar = NoVar /\ tar \notin Structs BY <1>1, CGenRegsAssumption
    <2>2. x64_Returned(n, tar) = n BY <1>1, <2>1 DEF x64_Returned
    <2> QED BY <2>1, <2>2, x64_Ends
  <1>2. CASE tar \in Vars
    <2>1. n \in States /\ n.pinned = {} BY GoingIs
    <2>2. n \in Reached(n, {}, {}) BY <2>1, ReachedSelf
    <2>3. PICK k : k = Into(n, RAX, None) OBVIOUS
    <2>4. k \in Reached(n, {}, {}) /\ k.res.r1 = RAX /\ k.reg = n.reg
      BY <2>1, <2>2, <2>3, ReachedInto, x64_Regs
    <2>5. k \in States /\ k \in Gen BY <2>1, <2>4, ReachedIs
    <2>6. k \in Emitted(k) BY <2>5, EmittedSelf
    <2>7. PICK l : l = [k EXCEPT !.M[Area][1] = {}] OBVIOUS
    <2>8. l \in Emitted(k) BY <2>6, <2>7, AreaEmits
    <2>9. l.res.r1 = RAX BY <2>4, <2>8 DEF Emitted
    <2>10. PICK q : q = IF tar \in Structs THEN ComputesAt(l, tar, Area) ELSE Computes(k, tar) OBVIOUS
    <2>11. q \in Emitted(k)
      <3>1. Area \in Locs BY DEF Locs
      <3> QED BY <1>2, <2>4, <2>6, <2>8, <2>9, <2>10, <3>1, ComputesEmits, ComputesAtEmits, x64_Regs
    <2>12. q \in Reached(n, {}, {}) /\ q.res = k.res /\ q.reg = k.reg BY <2>1, <2>4, <2>11, ReachedEmitted
    <2>13. Going(q, tar, {}, {}) BY <2>12, GoingReached
    <2>14. x64_Returned(n, tar) = x64_update_tar(q, tar) BY <1>2, <2>3, <2>7, <2>10 DEF x64_Returned
    <2>15. q.res.r1 \in Regs /\ q.reg[q.res.r1] = NoVar BY <2>4, <2>12, x64_Regs
    <2> QED BY <1>2, <2>13, <2>14, <2>15, x64_Sets
  <1> QED BY <1>1, <1>2

\* The words of the arguments are popped.
LEMMA x64_PostCallRight ==
  ASSUME NEW n, NEW tar, NEW args, Going(n, tar, args, {}), n.args = arg_words, NEW k \in 0 .. MaxPushed, k <= arg_words
  PROVE  Going(x64_post_call(n, k), tar, args, {}) /\ x64_post_call(n, k).reg = n.reg
  <1>1. n.args \in 0 .. MaxArgs + 4 /\ n \in Gen BY GoingIs DEF Going, States
  <1>2. PICK j : j = n.args - k OBVIOUS
  <1>3. j \in 0 .. MaxArgs + 4 BY <1>1, <1>2, CGenAssumption
  <1>4. x64_post_call(n, k) = [n EXCEPT !.args = j] BY <1>1, <1>2 DEF x64_post_call, Gen
  <1>5. Going([n EXCEPT !.args = j], tar, args, {}) BY <1>3, GoingArgs
  <1>6. [n EXCEPT !.args = j].reg = n.reg BY <1>1 DEF Gen
  <1> QED BY <1>4, <1>5, <1>6

LEMMA x64_CallRight ==
  ASSUME x64_Runs, NEW tar \in Vars \cup {NoVar}, NEW nargs \in 0 .. MaxPushed, NEW big, x64_call(tar, nargs, big)
  PROVE  IInv'
  <1>1. PICK m, c, m1, p :
          /\ m \in Marks(tar, {}, AddrTaken \cup Statics)
          /\ Enabled("x64", "call") /\ nargs <= arg_words
          /\ c = x64_pre_call(m, big) /\ m1 = Called(c, X64CallerSave) /\ p = x64_post_call(m1, nargs)
          /\ Commit(x64_Returned(p, tar))
    BY DEF x64_call
  <1>2. AddrTaken \cup Statics \subseteq Crossing BY CGenAssumption
  <1>3. /\ target = "x64" /\ "x64" \in Targets /\ Going(m, tar, {}, {}) /\ m.args = arg_words /\ m \in States
        /\ m.pinned = {}
    BY <1>1, <1>2, x64_Begin
  <1>4. c \in Reached(m, {}, {}) /\ \A r \in Regs : c.reg[r] = NoVar BY <1>1, <1>3, x64_PreCallRight
  <1>5. m1 \in Reached(m, {}, {}) /\ m1.reg = c.reg BY <1>1, <1>3, <1>4, x64_CalledRight
  <1>6. Going(m1, tar, {}, {}) BY <1>3, <1>5, GoingReached
  <1>7. m1.args = arg_words
    <2>1. PICK E : E = {} OBVIOUS
    <2>2. m1 \in Reached(m, E, E) /\ E \in SUBSET Vars BY <1>5, <2>1
    <2>3. m1.args = m.args BY <1>3, <2>2, ReachedState
    <2> QED BY <1>3, <2>3
  <1>8. Going(p, tar, {}, {}) /\ p.reg = m1.reg BY <1>1, <1>6, <1>7, x64_PostCallRight
  <1> QED BY <1>1, <1>3, <1>4, <1>5, <1>8, x64_ReturnedRight

LEMMA x64_IndCallRight ==
  ASSUME x64_Runs, NEW tar \in Vars \cup {NoVar}, NEW a1 \in Vars, NEW nargs \in 0 .. MaxPushed, NEW big,
         x64_indcall(tar, a1, nargs, big)
  PROVE  IInv'
  <1>1. PICK m, c, o, m1, d, m2, u :
          /\ m \in Marks(tar, {a1}, AddrTaken \cup Statics)
          /\ Enabled("x64", "indcall") /\ nargs <= arg_words
          /\ c = x64_pre_call(m, big) /\ o = x64_get_operand(c, a1, FALSE) /\ m1 = RightOpd(o, a1, 1)
          /\ d = Called(m1, X64CallerSave) /\ m2 = x64_post_call(d, nargs)
          /\ u = x64_update_args(m2, tar, a1, Const) /\ Commit(x64_Returned(u, tar))
    BY DEF x64_indcall
  <1>2. PICK A : A = {a1} OBVIOUS
  <1>3. /\ AddrTaken \cup Statics \subseteq Crossing /\ A \in SUBSET Vars /\ A \subseteq {a1}
        /\ a1 \in A \cup {Const} /\ {a1} \subseteq {a1, Const}
    BY <1>2, CGenAssumption
  <1>4. /\ target = "x64" /\ "x64" \in Targets /\ Going(m, tar, {a1}, {}) /\ m.args = arg_words /\ m \in States
        /\ m.pinned = {} /\ ~ (X64Pool \subseteq {})
    BY <1>1, <1>3, x64_Begin
  <1>5. c \in Reached(m, A, {}) /\ \A r \in Regs : c.reg[r] = NoVar BY <1>1, <1>3, <1>4, x64_PreCallRight
  <1>6. c \in States /\ c.pinned = {} BY <1>3, <1>4, <1>5, ReachedState
  <1>7. o \in Still(c, A) BY <1>1, <1>3, <1>4, <1>6, x64_OperandStill
  <1>8. o \in States /\ o \in Gen BY <1>3, <1>6, <1>7, StillIs DEF States
  <1>9. m1 \in Emitted(o) BY <1>1, <1>8, EmittedSelf, RightEmits
  <1>10. m1 \in Still(c, A) BY <1>3, <1>6, <1>7, <1>9, StillThenEmitted
  <1>11. m1 \in Reached(m, A, {}) BY <1>3, <1>4, <1>5, <1>10, ReachedStill
  <1>12. \A r \in Regs : m1.reg[r] = NoVar
    <2>1. m1 \in After(c, A) BY <1>3, <1>6, <1>10, StillIs
    <2>2. \A r \in Regs : m1.reg[r] \in {c.reg[r], NoVar} BY <1>3, <1>6, <2>1, AfterIs
    <2> QED BY <1>5, <2>2
  <1>13. d \in Reached(m, A, {}) /\ d.reg = m1.reg BY <1>1, <1>3, <1>4, <1>11, x64_CalledRight
  <1>14. Going(d, tar, {a1, Const}, {}) BY <1>3, <1>4, <1>13, GoingReached
  <1>15. d.args = arg_words
    <2>1. d.args = m.args BY <1>3, <1>4, <1>13, ReachedState
    <2> QED BY <1>4, <2>1
  <1>16. Going(m2, tar, {a1, Const}, {}) /\ m2.reg = d.reg BY <1>1, <1>14, <1>15, x64_PostCallRight
  <1>17. Going(u, tar, {}, {}) BY <1>1, <1>4, <1>16, x64_ArgsGoing
  <1>18. \A r \in Regs : u.reg[r] = NoVar
    <2>1. \A r \in Regs : m2.reg[r] = NoVar BY <1>12, <1>13, <1>16
    <2>2. Const \in Vars \cup {Const} /\ a1 \in Vars \cup {Const} OBVIOUS
    <2>3. ASSUME NEW r \in Regs PROVE x64_update_args(m2, tar, a1, Const).reg[r] = NoVar
      <3>1. target = "x64" /\ Going(m2, tar, {a1, Const}, {}) BY <1>4, <1>16
      <3>2. m2.reg[r] = NoVar BY <2>1
      <3> QED BY <2>2, <3>1, <3>2, x64_ArgsFree
    <2> QED BY <1>1, <2>3
  <1> QED BY <1>1, <1>4, <1>17, <1>18, x64_ReturnedRight

LEMMA x64_ArgRight ==
  ASSUME x64_Runs, NEW a1 \in Vars \cup {Const}, NEW long, x64_arg(a1, long) PROVE IInv'
  <1>1. PICK m, o, k, l, q, m1, u :
          /\ m \in Marks(NoVar, {a1}, {})
          /\ Enabled("x64", "arg") /\ arg_words < MaxPushed
          /\ o = x64_get_operand(m, a1, long)
          /\ k = x64_ToSource(m, a1) /\ l = RightIn(k, RSI, a1, 1) /\ q = Clobber(l, {RDI})
          /\ m1 = IF a1 \in Structs THEN Copy(q, m, addr_reg1(m, a1) = RSI, FALSE) ELSE RightOpd(o, a1, 1)
          /\ u = x64_update_args(m1, NoVar, a1, Const)
          /\ Commit([u EXCEPT !.args = @ + 1])
    BY DEF x64_arg, x64_PushStruct
  <1>2. PICK A : A = {a1} \cap Vars OBVIOUS
  <1>3. /\ A \in SUBSET Vars /\ A \subseteq {a1} /\ a1 \in A \cup {Const} /\ {a1} \subseteq {a1, Const}
        /\ (a1 \in Structs => a1 \in A)
    BY <1>2, CGenRegsAssumption
  <1>4. /\ target = "x64" /\ "x64" \in Targets /\ Going(m, NoVar, {a1}, {}) /\ m.args = arg_words /\ m \in States
        /\ m.pinned = {} /\ ~ (X64Pool \subseteq m.pinned)
    BY <1>1, x64_Begin
  <1>5. m1 \in Still(m, A)
    <2>1. CASE a1 \in Structs
      <3>1. k \in Stored(m, A) /\ k \in Gen /\ m \in Gen
        BY <1>1, <1>3, <1>4, <2>1, x64_ToStored, StoredIs DEF States
      <3>2. l \in Emitted(k) BY <1>1, <3>1, EmittedSelf, RightEmits
      <3>3. {RDI} \in SUBSET Int BY DEF RDI
      <3>4. q \in Emitted(k) BY <1>1, <3>2, <3>3, ClobberEmits
      <3>5. m1 \in Emitted(k) BY <1>1, <2>1, <3>1, <3>4, CopyEmits
      <3>6. m1 \in Stored(m, A) BY <1>3, <1>4, <3>1, <3>5, StoredThen
      <3> QED BY <1>3, <1>4, <3>6, StoredStill
    <2>2. CASE a1 \notin Structs
      <3>1. o \in Still(m, A) BY <1>1, <1>3, <1>4, x64_OperandStill
      <3>2. o \in Gen BY <1>3, <1>4, <3>1, StillIs DEF States
      <3>3. m1 \in Emitted(o) BY <1>1, <2>2, <3>2, EmittedSelf, RightEmits
      <3> QED BY <1>3, <1>4, <3>1, <3>3, StillThenEmitted
    <2> QED BY <2>1, <2>2
  <1>6. m1 \in Reached(m, A, {}) BY <1>3, <1>4, <1>5, ReachedSelf, ReachedStill
  <1>7. Going(m1, NoVar, {a1, Const}, {}) BY <1>3, <1>4, <1>6, GoingReached
  <1>8. Going(u, NoVar, {}, {}) BY <1>1, <1>4, <1>7, x64_ArgsGoing
  <1>9. u.args = arg_words
    <2>1. m1.args = arg_words
      <3>1. m1.args = m.args BY <1>3, <1>4, <1>6, ReachedState
      <3> QED BY <1>4, <3>1
    <2>2. u \in Settled(m1, NoVar, a1, Regs) BY <1>1, <1>4, <1>7, x64_ArgsGoing
    <2>3. m1 \in States BY <1>7, GoingIs
    <2>4. u \in After(m1, {}) BY <2>2, <2>3, FewerIs DEF Settled
    <2> QED BY <2>1, <2>3, <2>4, AfterIs
  <1>10. PICK j : j = u.args + 1 OBVIOUS
  <1>11. j \in 0 .. MaxArgs + 4
    <2>1. u.args \in 0 .. MaxArgs + 4 BY <1>8 DEF Going
    <2>2. u.args < MaxPushed BY <1>1, <1>9
    <2>3. MaxPushed \in 0 .. MaxArgs /\ MaxArgs \in Nat BY CGenAssumption
    <2> QED BY <1>10, <2>1, <2>2, <2>3
  <1>12. Going([u EXCEPT !.args = j], NoVar, {}, {}) BY <1>8, <1>11, GoingArgs
  <1>13. [u EXCEPT !.args = j] = [u EXCEPT !.args = @ + 1] BY <1>10
  <1> QED BY <1>1, <1>4, <1>12, <1>13, x64_Ends

-----------------------------------------------------------------------------
(* x64_cgen.c: returns, jumps and switches                                 *)

LEMMA x64_SpillStill ==
  ASSUME NEW m \in States, NEW A \in SUBSET Vars, NEW n \in Still(m, A), NEW r \in Regs
  PROVE  x64_spill_reg(n, r) \in Still(m, A)
  <1>1. n \in States BY StillIs
  <1>2. x64_spill_reg(n, r) \in Fewer(n) BY <1>1, x64_SpillFewer
  <1> QED BY <1>2, StillThenFewer

LEMMA x64_LoadRightStill ==
  ASSUME NEW m \in States, NEW A \in SUBSET Vars, NEW r \in Regs, NEW a \in A \cup {Const}
  PROVE  x64_LoadRight(m, r, a) \in Still(m, A)
  <1>1. PICK l : l = x64_load(m, r, a) OBVIOUS
  <1>2. l \in Stored(m, A) BY <1>1, x64_LoadStored
  <1>3. l \in Still(m, A) BY <1>2, StoredStill
  <1> QED BY <1>1, <1>3, RightInStill DEF x64_LoadRight

LEMMA x64_CopyOutStill ==
  ASSUME NEW m \in States, NEW A \in SUBSET Vars, NEW n \in Still(m, A) PROVE x64_CopyOut(n) \in Still(m, A)
  <1>1. RDI \in Regs /\ RCX \in Regs /\ {RDI} \in SUBSET Int /\ {RCX} \in SUBSET Int
    BY x64_Regs DEF RDI, RCX
  <1>2. PICK s : s = x64_spill_reg(n, RDI) OBVIOUS
  <1>3. PICK c : c = Clobber(s, {RDI}) OBVIOUS
  <1>4. PICK t : t = x64_spill_reg(c, RCX) OBVIOUS
  <1>5. PICK q : q = Clobber(t, {RCX}) OBVIOUS
  <1>6. s \in Still(m, A) BY <1>1, <1>2, x64_SpillStill
  <1>7. c \in Still(m, A) BY <1>1, <1>3, <1>6, ClobberStill
  <1>8. t \in Still(m, A) BY <1>1, <1>4, <1>7, x64_SpillStill
  <1>9. q \in Still(m, A) BY <1>1, <1>5, <1>8, ClobberStill
  <1>10. q \in Gen BY <1>9, StillIs DEF States
  <1>11. rep_movsb(q) \in Emitted(q) BY <1>10, EmittedSelf, rep_movsbEmits
  <1>12. rep_movsb(q) \in Still(m, A) BY <1>9, <1>11, StillThenEmitted
  <1> QED BY <1>2, <1>3, <1>4, <1>5, <1>12 DEF x64_CopyOut

LEMMA x64_TakeApartStill ==
  ASSUME NEW m \in States, NEW A \in SUBSET Vars, NEW n \in Still(m, A), NEW even
  PROVE  x64_TakeApart(n, even) \in Still(m, A)
  <1>1. {RAX, RDX} \in SUBSET Int /\ {RAX, RDX, RSI, RDI, RCX} \in SUBSET Int
    BY DEF RAX, RDX, RSI, RDI, RCX
  <1>2. Clobber(n, {RAX, RDX}) \in Still(m, A) BY <1>1, ClobberStill
  <1>3. PICK s : s = x64_spill_reg(n, RSI) OBVIOUS
  <1>4. PICK t : t = x64_spill_reg(s, RDI) OBVIOUS
  <1>5. PICK u : u = x64_spill_reg(t, RCX) OBVIOUS
  <1>6. s \in Still(m, A) BY <1>3, x64_SpillStill, x64_Regs
  <1>7. t \in Still(m, A) BY <1>4, <1>6, x64_SpillStill, x64_Regs
  <1>8. u \in Still(m, A) BY <1>5, <1>7, x64_SpillStill, x64_Regs
  <1>9. Clobber(u, {RAX, RDX, RSI, RDI, RCX}) \in Still(m, A) BY <1>1, <1>8, ClobberStill
  <1> QED BY <1>2, <1>3, <1>4, <1>5, <1>9 DEF x64_TakeApart

LEMMA x64_RetRight ==
  ASSUME x64_Runs, NEW a1 \in Vars, NEW small, NEW even, x64_ret(a1, small, even) PROVE IInv'
  <1>1. PICK m, k, l, m1 :
          /\ m \in Marks(NoVar, {a1}, {})
          /\ Enabled("x64", "ret") /\ k = x64_LoadRight(m, RAX, a1) /\ l = x64_LoadRight(m, RSI, a1)
          /\ m1 = IF a1 \notin Structs THEN k ELSE IF small THEN x64_TakeApart(k, even) ELSE x64_CopyOut(l)
          /\ Commit(x64_update_args(m1, NoVar, a1, Const))
    BY DEF x64_ret
  <1>2. PICK A : A = {a1} OBVIOUS
  <1>3. A \in SUBSET Vars /\ A \subseteq {a1} /\ a1 \in A \cup {Const} /\ {a1} \subseteq {a1, Const} BY <1>2
  <1>4. /\ target = "x64" /\ "x64" \in Targets /\ Going(m, NoVar, {a1}, {}) /\ m \in States /\ m.pinned = {}
    BY <1>1, x64_Begin
  <1>5. k \in Still(m, A) /\ l \in Still(m, A) BY <1>1, <1>3, <1>4, x64_LoadRightStill, x64_Regs
  <1>6. x64_TakeApart(k, even) \in Still(m, A) /\ x64_CopyOut(l) \in Still(m, A)
    BY <1>3, <1>4, <1>5, x64_TakeApartStill, x64_CopyOutStill
  <1>7. m1 \in Still(m, A) BY <1>1, <1>5, <1>6
  <1>8. m1 \in Reached(m, A, {}) BY <1>3, <1>4, <1>7, ReachedSelf, ReachedStill
  <1> QED BY <1>1, <1>3, <1>4, <1>8, x64_Read

LEMMA x64_CbrRight ==
  ASSUME x64_Runs, NEW a1 \in Vars, x64_cbr(a1) PROVE IInv'
  <1>1. PICK m, m1 :
          /\ m \in Marks(NoVar, {a1}, {})
          /\ Enabled("x64", "cbr") /\ m1 = x64_Compared(m, a1) /\ Commit(x64_update_args(m1, NoVar, a1, Const))
    BY DEF x64_cbr
  <1>2. PICK A : A = {a1} OBVIOUS
  <1>3. A \in SUBSET Vars /\ A \subseteq {a1} /\ a1 \in A /\ {a1} \subseteq {a1, Const} BY <1>2
  <1>4. /\ target = "x64" /\ "x64" \in Targets /\ Going(m, NoVar, {a1}, {}) /\ m \in States /\ m.pinned = {}
    BY <1>1, x64_Begin
  <1>5. PICK o : o = IF InReg(m, a1) THEN Operand(m, m.R[addr_reg1(m, a1)]) ELSE InHome(WithHome(m, a1), a1, 1)
    OBVIOUS
  <1>6. o \in Stored(m, A)
    <2>1. InReg(m, a1) => addr_reg1(m, a1) \in Regs BY <1>4, RegOf
    <2> QED BY <1>3, <1>4, <1>5, <2>1, InRegStored, InHomeStored
  <1>7. o \in Still(m, A) BY <1>3, <1>4, <1>6, StoredStill
  <1>8. o \in Gen BY <1>3, <1>4, <1>7, StillIs DEF States
  <1>9. m1 = RightOpd(o, a1, 1) BY <1>1, <1>5 DEF x64_Compared
  <1>10. m1 \in Emitted(o) BY <1>8, <1>9, EmittedSelf, RightEmits
  <1>11. m1 \in Still(m, A) BY <1>3, <1>4, <1>7, <1>10, StillThenEmitted
  <1>12. m1 \in Reached(m, A, {}) BY <1>3, <1>4, <1>11, ReachedSelf, ReachedStill
  <1> QED BY <1>1, <1>3, <1>4, <1>12, x64_Read

LEMMA x64_BoundsStill ==
  ASSUME NEW n \in States, NEW r \in Regs, n.pinned = {r}, NEW k, Roomy(X64Pool)
  PROVE  x64_Bounds(n, k) \in Still(n, {})
  <1>1. PICK m1 : m1 = IF k = 0 THEN n ELSE x64_get_reg0(n) OBVIOUS
  <1>2. CASE k = 0 BY <1>1, <1>2, StillSelf DEF x64_Bounds
  <1>3. CASE k # 0
    <2>1. ~ (X64Pool \subseteq n.pinned) BY DEF Roomy
    <2>2. m1 \in Fewer(n) /\ m1.got \in Regs \ {r} BY <1>1, <1>3, <2>1, x64_Get0
    <2>3. m1 \in Still(n, {}) BY <2>2, FewerStill
    <2>4. PICK g : g = m1.got OBVIOUS
    <2>5. g \in Regs /\ g # r /\ {g} \in SUBSET Int BY <2>2, <2>4, RegsAre
    <2>6. PICK m2 : m2 = Clobber(m1, {g}) OBVIOUS
    <2>7. m2 \in Still(n, {}) BY <2>3, <2>5, <2>6, ClobberStill
    <2>8. PICK p : p = pin_reg(m2, g) OBVIOUS
    <2>9. m2 \in Reached(n, {}, {r}) BY <2>7, ReachedSelf, ReachedStill
    <2>22. PICK pins : pins = {r} \cup {g} OBVIOUS
    <2>10. p \in Reached(n, {}, pins) /\ p.res = m2.res BY <2>5, <2>8, <2>9, <2>22, ReachedPin
    <2>11. p \in States /\ p.pinned = pins BY <2>10, ReachedState
    <2>12. ~ (X64Pool \subseteq p.pinned)
      <3>1. ~ (X64Pool \subseteq {r, g}) BY <2>5 DEF Roomy
      <3> QED BY <2>11, <2>22, <3>1
    <2>13. PICK q : q = x64_get_reg0(p) OBVIOUS
    <2>14. q \in Fewer(p) BY <2>11, <2>12, <2>13, x64_Get0
    <2>15. q \in Reached(n, {}, pins) /\ q.res = p.res BY <2>10, <2>14, ReachedFewer
    <2>16. PICK u : u = unpin_reg(q, g) OBVIOUS
    <2>17. u \in Reached(n, {}, pins \ {g}) /\ u.res = q.res BY <2>15, <2>16, ReachedUnpin
    <2>18. pins \ {g} = {r} BY <2>5, <2>22
    <2>19. m2.res = n.res BY <2>7, StillIs
    <2>20. u \in Still(n, {}) BY <2>10, <2>15, <2>17, <2>18, <2>19 DEF Reached, Still
    <2>21. x64_Bounds(n, k) = IF k = 1 THEN m2 ELSE u
      BY <1>1, <1>3, <2>4, <2>6, <2>8, <2>13, <2>16 DEF x64_Bounds
    <2> QED BY <2>7, <2>20, <2>21
  <1> QED BY <1>2, <1>3

LEMMA x64_SwitchRight ==
  ASSUME x64_Runs, NEW a1 \in Vars, NEW k, x64_switch(a1, k) PROVE IInv'
  <1>1. PICK m, i, p, m1, b, q, m2 :
          /\ m \in Marks(NoVar, {a1}, {})
          /\ Enabled("x64", "switch")
          /\ i = x64_InPlace(m, NoVar, a1) /\ p = pin_reg(i, i.res.r1)
          /\ m1 = x64_update_args(p, NoVar, a1, Const) /\ b = x64_Bounds(m1, k) /\ q = RightRes(b, a1)
          /\ m2 = unpin_reg(q, q.res.r1) /\ Commit(Clobber(m2, {m2.res.r1}))
    BY DEF x64_switch, PinRes, UnpinRes
  <1>2. PICK A : A = {a1} OBVIOUS
  <1>3. A \in SUBSET Vars /\ A \subseteq {a1} /\ a1 \in A \cup {Const} /\ {a1} \subseteq {a1, Const} BY <1>2
  <1>4. /\ target = "x64" /\ "x64" \in Targets /\ Going(m, NoVar, {a1}, {}) /\ m \in States /\ m.pinned = {}
        /\ ~ (X64Pool \subseteq m.pinned)
    BY <1>1, x64_Begin
  <1>5. i \in Reached(m, A, {}) /\ i.res.r1 \in Regs BY <1>1, <1>3, <1>4, x64_InPlaceRight
  <1>6. PICK r : r = i.res.r1 OBVIOUS
  <1>7. p \in Reached(m, A, {r}) /\ p.res = i.res
    <2>0. p = pin_reg(i, r) /\ r \in Regs BY <1>1, <1>5, <1>6
    <2>1. p \in Reached(m, A, {} \cup {r}) /\ p.res = i.res BY <1>3, <1>4, <1>5, <2>0, ReachedPin
    <2>2. {} \cup {r} = {r} OBVIOUS
    <2> QED BY <2>1, <2>2
  <1>8. Going(p, NoVar, {a1, Const}, {r}) BY <1>3, <1>4, <1>7, GoingReached
  <1>9. Going(m1, NoVar, {}, {r}) /\ m1.res = p.res
    <2>1. PICK pins : pins = {r} OBVIOUS
    <2>2. target = "x64" /\ Going(p, NoVar, {a1, Const}, pins) BY <1>4, <1>8, <2>1
    <2>3. a1 \in Vars \cup {Const} /\ Const \in Vars \cup {Const} OBVIOUS
    <2>4. m1 = x64_update_args(p, NoVar, a1, Const) BY <1>1
    <2>5. Going(m1, NoVar, {}, pins) /\ m1.res = p.res BY <2>2, <2>3, <2>4, x64_ArgsGoing
    <2> QED BY <2>1, <2>5
  <1>10. m1 \in States /\ m1.pinned = {r} BY <1>9, GoingIs
  <1>11. b \in Still(m1, {}) BY <1>1, <1>5, <1>6, <1>10, x64_BoundsStill DEF x64_Runs
  <1>12. q \in Still(m1, {}) BY <1>1, <1>10, <1>11, RightInStill DEF RightRes
  <1>13. q.res.r1 = r BY <1>6, <1>7, <1>9, <1>10, <1>12, StillIs
  <1>14. q \in Reached(m1, {}, {r}) BY <1>10, <1>12, ReachedSelf, ReachedStill
  <1>15. m2 \in Reached(m1, {}, {r} \ {r}) /\ m2.res = q.res BY <1>1, <1>10, <1>13, <1>14, ReachedUnpin
  <1>16. m2 \in Gen BY <1>10, <1>15, ReachedIs
  <1>17. PICK c : c = Clobber(m2, {r}) OBVIOUS
  <1>18. {r} \in SUBSET Int BY <1>5, <1>6, RegsAre
  <1>19. c \in Emitted(m2) BY <1>16, <1>17, <1>18, EmittedSelf, ClobberEmits
  <1>20. c \in Reached(m1, {}, {r} \ {r}) BY <1>10, <1>15, <1>19, ReachedEmitted
  <1>21. {r} \ {r} = {} OBVIOUS
  <1>22. Going(c, NoVar, {}, {}) BY <1>9, <1>20, <1>21, GoingReached
  <1> QED BY <1>1, <1>4, <1>13, <1>15, <1>17, <1>22, x64_Ends

-----------------------------------------------------------------------------
(* x64_cgen.c: every step                                                  *)

LEMMA x64_Step == ASSUME x64_Runs, x64_Next PROVE IInv'
  <1>1. /\ WordTemps \subseteq Vars /\ Scalars \subseteq Vars /\ Pointers \subseteq Vars
        /\ Temps \subseteq Vars /\ Structs \subseteq Vars
        /\ \A p \in Ops2 : p[1] \in Vars \cup {Const} /\ p[2] \in Vars \cup {Const}
    BY CGenRegsAssumption DEF WordTemps, Scalars, Pointers, Ops2
  <1>2. CASE \E t \in WordTemps, p \in Ops2 : \E long \in Kinds(p[2]) : x64_alu(t, p[1], p[2], long)
    BY <1>1, <1>2, x64_AluRight
  <1>3. CASE \E t \in WordTemps, p \in Ops2 : x64_shift(t, p[1], p[2]) BY <1>1, <1>3, x64_ShiftRight
  <1>4. CASE \E t \in WordTemps, p \in Ops2 : \E res \in {RAX, RDX} : x64_div_rem(res, t, p[1], p[2])
    BY <1>1, <1>4, x64_DivRemRight
  <1>5. CASE \E p \in Ops2 : \E long \in Kinds(p[2]) : x64_relop_jump(p[1], p[2], long)
    BY <1>1, <1>5, x64_RelopJumpRight
  <1>6. CASE \E t \in WordTemps, a \in Scalars : x64_unary(t, a) BY <1>1, <1>6, x64_UnaryRight
  <1>7. CASE \E t \in WordTemps : x64_addr_of(t) BY <1>1, <1>7, x64_AddrOfRight
  <1>8. CASE \/ \E t \in Scalars, a \in Scalars \cup {Const} : x64_asn(t, a)
             \/ \E t \in Structs, a \in Structs : x64_asn(t, a)
    BY <1>1, <1>8, x64_AsnRight
  <1>9. CASE \E t \in Temps, a \in Pointers : x64_ind(t, a) BY <1>1, <1>9, x64_IndRight
  <1>10. CASE \E a \in Pointers, b \in Vars \cup {Const} : \E qword \in Kinds(b) : x64_ind_asn(a, b, qword)
    BY <1>1, <1>10, x64_IndAsnRight
  <1>11. CASE \E t \in Temps \cup {NoVar}, n \in 0 .. MaxPushed, big \in BigArgs : x64_call(t, n, big)
    BY <1>1, <1>11, x64_CallRight
  <1>12. CASE \E t \in Temps \cup {NoVar}, n \in 0 .. MaxPushed, big \in BigArgs :
                \E a \in Pointers : x64_indcall(t, a, n, big)
    BY <1>1, <1>12, x64_IndCallRight
  <1>13. CASE \E a \in Vars \cup {Const} : \E long \in Kinds(a) : x64_arg(a, long) BY <1>13, x64_ArgRight
  <1>14. CASE \E a \in Vars, small, even \in BOOLEAN : x64_ret(a, small, even) BY <1>14, x64_RetRight
  <1>15. CASE \E a \in Scalars : x64_cbr(a) \/ \E k \in 0 .. 2 : x64_switch(a, k)
    BY <1>1, <1>15, x64_CbrRight, x64_SwitchRight
  <1>16. CASE x64_next_block \/ x64_function_definition
    <2>1. IInv /\ (x64_next_block => LastOfBlock(cg)) /\ target = "x64"
      BY <1>16 DEF x64_Runs, x64_next_block, x64_function_definition, Enabled
    <2>2. CalleeSave[target] \subseteq Regs BY <2>1, X64Assumption DEF CalleeSave
    <2>3. CASE x64_next_block BY <2>1, <2>2, <2>3, NextBlock DEF x64_next_block
    <2>4. CASE x64_function_definition BY <2>1, <2>2, <2>4, FunctionEnds DEF x64_function_definition
    <2> QED BY <1>16, <2>3, <2>4
  <1> QED BY <1>2, <1>3, <1>4, <1>5, <1>6, <1>7, <1>8, <1>9, <1>10, <1>11, <1>12, <1>13, <1>14, <1>15, <1>16
          DEF x64_Next

-----------------------------------------------------------------------------
(* x86_cgen.c: stores and spills                                           *)

LEMMA x86_Regs == EAX \in Regs /\ ECX \in Regs /\ EDX \in Regs /\ ESI \in Regs /\ EDI \in Regs
  BY X86Assumption DEF EAX, ECX, EDX, ESI, EDI

LEMMA ModifiedEmits == ASSUME NEW m, NEW n \in Emitted(m), NEW r PROVE Modified(n, r) \in Emitted(m)
  <1>1. n \in Gen BY DEF Emitted
  <1>2. PICK S : S = n.modified \cup ({r} \cap X86CalleeSave) OBVIOUS
  <1>3. S \in SUBSET Regs BY <1>1, <1>2, X86Assumption DEF Gen, X86CalleeSave, EBX, ESI, EDI
  <1>4. Modified(n, r) = [n EXCEPT !.modified = S] BY <1>2 DEF Modified
  <1> QED BY <1>1, <1>3, <1>4 DEF Emitted, Gen

LEMMA SaveEmits == ASSUME NEW m, NEW n \in Emitted(m), NEW r PROVE Save(n, r) \in Emitted(m)
  BY ModifiedEmits DEF Save

LEMMA x86_StoreStored ==
  ASSUME NEW m \in States, NEW A \in SUBSET Vars, NEW r \in Regs, NEW a \in Vars, a \in Busy(m) \cup A
  PROVE  x86_store(m, r, a) \in Stored(m, A)
  <1>1. CASE a \in Structs \cap Ids
    <2>0. m \in Gen /\ m \in Emitted(m) /\ ESI \in Regs /\ EDI \in Regs BY EmittedSelf, x86_Regs DEF States
    <2>1. PICK q : q = PutSource(m, r) OBVIOUS
    <2>2. q \in Emitted(m)
      <3>1. m.R[r] \in Contents BY <2>0, Contained
      <3>2. Save(m, ESI) \in Emitted(m) BY <2>0, SaveEmits
      <3> QED BY <2>0, <2>1, <3>1, <3>2, SetRegEmits DEF PutSource
    <2>3. PICK k : k = PutTarget(q, a) OBVIOUS
    <2>4. k \in Emitted(m)
      <3>1. {<<a, 0>>} \in Contents BY <1>1, TokensAre DEF Locs
      <3>2. Save(q, EDI) \in Emitted(m) BY <2>2, SaveEmits
      <3> QED BY <2>0, <2>2, <2>3, <3>1, <3>2, SetRegEmits DEF PutTarget, x86_load_addr
    <2>5. Copy(k, m, r = ESI, addr_reg1(m, a) = EDI) \in Emitted(m) BY <2>0, <2>4, CopyEmits
    <2> QED BY <1>1, <2>1, <2>3, <2>5, EmittedStored DEF x86_store
  <1>2. CASE a \notin Structs \cap Ids BY <1>2, Store1Stored DEF x86_store
  <1> QED BY <1>1, <1>2


LEMMA x86_StoreVarStored ==
  ASSUME NEW m \in States, NEW a \in Vars, InReg(m, a) PROVE Store(m, a) \in Stored(m, {})
  <1>1. addr_reg1(m, a) \in Regs /\ a \in Busy(m) BY RegOf
  <1>2. CASE addr_reg2(m, a) # None
    <2>1. m.addr[a].r1 \in Regs /\ m.addr[a].r2 \in Regs BY <1>2, RegOf
    <2>2. Store2(m, m.addr[a], a) \in Stored(m, {}) BY <1>1, <2>1, Store2Stored
    <2> QED BY <1>2, <2>2 DEF Store, x86_store2
  <1>3. CASE addr_reg2(m, a) = None
    <2>1. x86_store(m, addr_reg1(m, a), a) \in Stored(m, {}) BY <1>1, x86_StoreStored
    <2> QED BY <1>3, <2>1 DEF Store
  <1> QED BY <1>2, <1>3

LEMMA x86_SpillFewer ==
  ASSUME NEW m \in States, NEW r \in Regs
  PROVE  spill_reg(m, r) \in Fewer(m) /\ reg_isempty(spill_reg(m, r), r)
  <1>1. ~reg_isempty(m, r) => Store(m, m.reg[r]) \in Stored(m, {})
    BY OwnerIs, x86_StoreVarStored DEF reg_isempty
  <1> QED BY <1>1, SpillFewer DEF spill_reg, SpillReg

\* What SpillThese leaves after each register: f is the recursive function it defines.
x86_Loop(f, m, S) ==
  /\ f[-1] = m
  /\ \A r \in 0 .. LastReg :
       f[r] = IF r \in Regs /\ f[r - 1].reg[r] \in S THEN spill_reg(f[r - 1], r) ELSE f[r - 1]

LEMMA x86_Spilling ==
  ASSUME NEW m \in States, NEW S \in SUBSET Vars
  PROVE  \E f : SpillThese(m, S, spill_reg) = f[LastReg] /\ x86_Loop(f, m, S)
  <1> DEFINE F(h) == [r \in -1 .. LastReg |->
                       IF r = -1 THEN m
                       ELSE LET n == h[r - 1]
                            IN  IF r \in Regs /\ n.reg[r] \in S THEN spill_reg(n, r) ELSE n]
             f == CHOOSE h : h = F(h)
  <1>1. CASE \A r \in Regs : m.reg[r] \notin S
    <2>1. SpillThese(m, S, spill_reg) = m BY <1>1 DEF SpillThese
    <2>2. PICK idle : idle = [r \in -1 .. LastReg |-> m] OBVIOUS
    <2>3. idle[LastReg] = m /\ idle[-1] = m BY <2>2, LastRegIs
    <2>4. \A r \in 0 .. LastReg : idle[r] = m /\ idle[r - 1] = m BY <2>2, LastRegIs
    <2>5. x86_Loop(idle, m, S) BY <1>1, <2>3, <2>4 DEF x86_Loop
    <2> QED BY <2>1, <2>3, <2>5
  <1>2. CASE ~ \A r \in Regs : m.reg[r] \notin S
    <2>1. SpillThese(m, S, spill_reg) = f[LastReg] BY <1>2 DEF SpillThese
    <2>2. PICK g : g = [r \in 0 .. LastReg |-> [n \in States |->
                          IF r \in Regs /\ n.reg[r] \in S THEN spill_reg(n, r) ELSE n]]
      OBVIOUS
    <2>3. g \in [0 .. LastReg -> [States -> States]]
      <3>1. \A n \in States, r \in Regs : spill_reg(n, r) \in States BY x86_SpillFewer, FewerIs
      <3> QED BY <2>2, <3>1
    <2>4. PICK h \in [-1 .. LastReg -> States] : h[-1] = m /\ \A r \in 0 .. LastReg : h[r] = g[r][h[r - 1]]
      <3>1. PICK N \in Nat : N = LastReg BY LastRegIs
      <3>2. g \in [0 .. N -> [States -> States]] BY <2>3, <3>1
      <3>3. PICK h : Iterated(h, g, m, N) BY <3>1, <3>2, Iterate
      <3> QED BY <3>1, <3>3 DEF Iterated
    <2>5. h = F(h)
      <3>1. ASSUME NEW r \in -1 .. LastReg PROVE h[r] = F(h)[r]
        <4>1. CASE r = -1 BY <2>4, <4>1
        <4>2. CASE r # -1
          <5>1. r \in 0 .. LastReg /\ r - 1 \in -1 .. LastReg /\ h[r - 1] \in States BY <4>2, <2>4, LastRegIs
          <5> QED BY <4>2, <5>1, <2>2, <2>4
        <4> QED BY <4>1, <4>2
      <3> QED BY <3>1, <2>4
    <2>6. f = F(f) BY <2>5
    <2> HIDE DEF f
    <2>7. f[-1] = m BY <2>6, LastRegIs
    <2>8. \A r \in 0 .. LastReg : f[r] = IF r \in Regs /\ f[r - 1].reg[r] \in S THEN spill_reg(f[r - 1], r) ELSE f[r - 1]
      BY <2>6, LastRegIs
    <2>9. x86_Loop(f, m, S) BY <2>7, <2>8 DEF x86_Loop
    <2> QED BY <2>1, <2>9
  <1> QED BY <1>1, <1>2

LEMMA x86_SpillTheseFewer ==
  ASSUME NEW m \in States, NEW S \in SUBSET Vars
  PROVE  /\ SpillThese(m, S, spill_reg) \in Fewer(m)
         /\ \A r \in Regs : SpillThese(m, S, spill_reg).reg[r] \notin S
  <1>1. PICK f : SpillThese(m, S, spill_reg) = f[LastReg] /\ x86_Loop(f, m, S) BY x86_Spilling
  <1>2. ASSUME NEW r \in 0 .. LastReg, f[r - 1] \in States
        PROVE  f[r] \in Fewer(f[r - 1]) /\ (r \in Regs => f[r].reg[r] \notin S)
    <2>1. f[r] = IF r \in Regs /\ f[r - 1].reg[r] \in S THEN spill_reg(f[r - 1], r) ELSE f[r - 1]
      BY <1>1 DEF x86_Loop
    <2>2. NoVar \notin S BY CGenRegsAssumption
    <2> QED BY <1>2, <2>1, <2>2, x86_SpillFewer, FewerSelf DEF reg_isempty
  <1>3. \A r \in 0 .. LastReg : f[r] \in Fewer(m) /\ \A s \in Regs : s <= r => f[r].reg[s] \notin S
    BY <1>1, <1>2, LoopFewer, LastRegIs DEF x86_Loop
  <1> QED BY <1>1, <1>3, LastRegIs

-----------------------------------------------------------------------------
(* x86_cgen.c: registers and operands                                      *)

LEMMA x86_TakeFewer ==
  ASSUME NEW m \in States, NEW r \in Regs
  PROVE  /\ Take(m, r) \in Fewer(m) /\ Take(m, r).got = r /\ Take(m, r).reg[r] = NoVar
  <1>1. PICK k : k = Modified(m, r) OBVIOUS
  <1>2. {r} \cap X86CalleeSave \in SUBSET Regs OBVIOUS
  <1>3. k \in Picked(m) /\ k.pinned = m.pinned /\ k.res = m.res BY <1>1, <1>2, ModifiedPicks DEF Modified
  <1>4. k \in Fewer(m) /\ k \in States BY <1>3, PickedFewer
  <1>5. PICK q : q = spill_reg(k, r) OBVIOUS
  <1>6. q \in Fewer(k) /\ q.reg[r] = NoVar /\ q \in States BY <1>4, <1>5, x86_SpillFewer, FewerIs DEF reg_isempty
  <1>7. PICK n : n = [q EXCEPT !.got = r] OBVIOUS
  <1>8. n \in Picked(q) /\ n.pinned = q.pinned /\ n.res = q.res /\ n.got = r BY <1>6, <1>7, GotPicks
  <1>9. n \in Fewer(q) /\ n.reg = q.reg BY <1>6, <1>8, PickedFewer
  <1>10. n \in Fewer(m) BY <1>4, <1>6, <1>9, FewerTrans
  <1> QED BY <1>1, <1>5, <1>6, <1>7, <1>8, <1>9, <1>10 DEF Take

LEMMA x86_Get0 ==
  ASSUME NEW m \in States, ~ (X86Pool \subseteq m.pinned)
  PROVE  /\ get_reg0(m) \in Fewer(m) /\ get_reg0(m).got \in Regs \ m.pinned
         /\ get_reg0(m).reg[get_reg0(m).got] = NoVar
  <1>1. X86Pool \in SUBSET Regs /\ Regs \subseteq Nat BY X86Assumption, RegsAre
  <1>2. PICK S : S = IF EmptyRegs(m, X86Pool) \subseteq m.pinned
                       THEN X86Pool \ m.pinned ELSE EmptyRegs(m, X86Pool) \ m.pinned
    OBVIOUS
  <1>3. S # {} /\ S \in SUBSET Nat /\ S \subseteq Regs \ m.pinned BY <1>1, <1>2 DEF EmptyRegs
  <1>4. Min(S) \in Regs \ m.pinned BY <1>3, MinIs
  <1>5. get_reg0(m) = Take(m, Min(S)) BY <1>2 DEF get_reg0
  <1> QED BY <1>4, <1>5, x86_TakeFewer

LEMMA x86_GetReg ==
  ASSUME NEW m \in States, NEW a \in Vars \cup {Const}, NEW live \in BOOLEAN, ~ (X86Pool \subseteq m.pinned)
  PROVE  /\ get_reg(m, a, live) \in After(m, {}) /\ get_reg(m, a, live).pinned = m.pinned
         /\ Ready(get_reg(m, a, live), a, live, Regs)
         /\ get_reg(m, a, live).res.r1 \in Regs
  <1>1. \A r \in Regs : m.reg[r] # NoVar => r \in Regs OBVIOUS
  <1>2. PICK g : g = get_reg0(m) OBVIOUS
  <1>3. g \in Fewer(m) /\ g.got \in Regs \cap Regs /\ g.reg[g.got] = NoVar BY <1>2, x86_Get0
  <1>4. PICK n : n = get_reg(m, a, live) OBVIOUS
  <1>5. n = IF InReg(m, a) /\ ~live THEN [m EXCEPT !.res.r1 = addr_reg1(m, a)] ELSE Got1(g)
    BY <1>2, <1>4 DEF get_reg, GetReg
  <1>6. n \in After(m, {}) /\ n.pinned = m.pinned /\ Ready(n, a, live, Regs) /\ n.res.r1 \in Regs
    <2>1. CASE InReg(m, a) /\ ~live BY <2>1, <1>1, <1>5, OwnRegRight
    <2>2. CASE ~(InReg(m, a) /\ ~live) BY <2>2, <1>3, <1>5, NewRegRight
    <2> QED BY <2>1, <2>2
  <1> QED BY <1>4, <1>6

LEMMA x86_ArgUpdated ==
  ASSUME NEW m \in States, NEW a \in Vars \cup {Const}, NEW live \in BOOLEAN, NEW next \in BOOLEAN
  PROVE  update_arg_descriptors(m, a, live, next) \in Updated(m, a, live, next)
  <1>1. PICK k : k = Kept(m, a, live, Store) OBVIOUS
  <1>2. PICK n : n = update_arg_descriptors(m, a, live, next) OBVIOUS
  <1>3. n = IF a = Const \/ next THEN m ELSE Release(k, a, m.addr[a])
    BY <1>1, <1>2 DEF update_arg_descriptors, UpdateArg
  <1>4. a \in Vars => k \in Stored(m, {}) /\ (~live => a \notin Owners(k))
    <2>1. CASE live /\ InReg(m, a) BY <1>1, <2>1, x86_StoreVarStored DEF Kept
    <2>2. CASE ~live /\ a \in Temps BY <1>1, <2>2, FreeTempStored DEF Kept
    <2>3. CASE ~(live /\ InReg(m, a)) /\ ~(~live /\ a \in Temps)
      BY <1>1, <2>3, StoredSelf DEF Kept, Owners
    <2> QED BY <2>1, <2>2, <2>3
  <1> QED BY <1>2, <1>3, <1>4, UpdatedRight

LEMMA x86_ArgsRight ==
  ASSUME NEW m, NEW tar, NEW a1 \in Vars \cup {Const}, NEW a2 \in Vars \cup {Const}, NEW P,
         Marked(m, tar, {a1, a2}, P)
  PROVE  update_args(m, tar, a1, a2) \in Settled(m, tar, a1, P)
  <1>1. m \in States BY MarkedIs
  <1>2. PICK n : n = update_arg_descriptors(m, a1, Live1(m, tar, a1), Used1(m, tar, a1)) OBVIOUS
  <1>3. n \in Updated(m, a1, Live1(m, tar, a1), Used1(m, tar, a1)) BY <1>1, <1>2, LiveBoolean, x86_ArgUpdated
  <1>4. n \in States BY <1>1, <1>3, FewerIs DEF Updated
  <1>5. PICK q : q = update_arg_descriptors(n, a2, Live2(m, tar, a1, a2), Used2(m, tar, a1, a2)) OBVIOUS
  <1>6. q \in Updated(n, a2, Live2(m, tar, a1, a2), Used2(m, tar, a1, a2))
    BY <1>4, <1>5, LiveBoolean, x86_ArgUpdated
  <1>7. q = update_args(m, tar, a1, a2) BY <1>2, <1>5 DEF update_args, UpdateArgs
  <1> QED BY <1>3, <1>6, <1>7, ArgsSettled

LEMMA x86_TarRight ==
  ASSUME NEW m, NEW tar \in Vars \ Wide, NEW P, Marked(m, tar, {}, P), m.res.r1 \in Regs \cap P,
         m.reg[m.res.r1] = NoVar
  PROVE  update_tar(m, tar) \in Done(m, P)
  <1>1. PICK r : r = m.res.r1 OBVIOUS
  <1>2. PICK k : k = x86_store(Bind(m, r, tar), r, tar) OBVIOUS
  <1>3. PICK b : b = Bind(m, r, tar) OBVIOUS
  <1>4. b \in States => k \in Stored(b, {tar}) BY <1>1, <1>2, <1>3, x86_StoreStored
  <1>5. update_tar(m, tar)
          = IF Used(m, tar) THEN Bind(m, r, tar) ELSE Unbind(IF Live(m, tar) THEN k ELSE Bind(m, r, tar), r, tar)
    BY <1>1, <1>2 DEF update_tar, update_tar_descriptors, UpdateTar
  <1> QED BY <1>1, <1>3, <1>4, <1>5, TarDone

LEMMA x86_Tar2Right ==
  ASSUME NEW m, NEW tar \in Wide, NEW P, Marked(m, tar, {}, P), m.res.r1 \in Regs \cap P, m.res.r2 \in Regs \cap P,
         m.res.r1 # m.res.r2, m.reg[m.res.r1] = NoVar, m.reg[m.res.r2] = NoVar
  PROVE  update_tar2(m, tar) \in Done(m, P)
  <1>1. PICK d : d = m.res OBVIOUS
  <1>2. d \in Pairs BY <1>1, MarkedIs DEF States, Gen
  <1>3. PICK b : b = Bind2(m, d, tar) OBVIOUS
  <1>4. PICK k : k = Store2(b, d, tar) OBVIOUS
  <1>5. tar \in Vars /\ {tar} \in SUBSET Vars /\ d.r1 \in Regs /\ d.r2 \in Regs BY <1>1, CGenRegsAssumption
  <1>6. b \in States => k \in Stored(b, {tar}) BY <1>4, <1>5, Store2Stored
  <1>7. update_tar2(m, tar)
          = IF Used(m, tar) THEN Bind2(m, d, tar) ELSE Release(IF Live(m, tar) THEN k ELSE Bind2(m, d, tar), tar, d)
    BY <1>1, <1>3, <1>4 DEF update_tar2, update_tar_descriptors2, UpdateTar2, x86_store2
  <1> QED BY <1>1, <1>2, <1>3, <1>6, <1>7, Tar2Done

\* Where get_reg() finds a register.
LEMMA x86_GetRegPlace ==
  ASSUME NEW m \in States, NEW a \in Vars \cup {Const}, NEW live \in BOOLEAN, ~ (X86Pool \subseteq m.pinned),
         NEW k, k = get_reg(m, a, live)
  PROVE  IF InReg(m, a) /\ ~live THEN k.res.r1 = addr_reg1(m, a)
                                 ELSE k.reg[k.res.r1] = NoVar /\ k.res.r1 \notin m.pinned
  <1>1. CASE InReg(m, a) /\ ~live
    <2>1. PICK r \in Regs : r = addr_reg1(m, a) BY <1>1, RegOf
    <2>2. [m EXCEPT !.res.r1 = r].res.r1 = r BY Res1Picks
    <2>3. k = [m EXCEPT !.res.r1 = r] BY <1>1, <2>1 DEF get_reg, GetReg
    <2> QED BY <1>1, <2>1, <2>2, <2>3
  <1>2. CASE ~(InReg(m, a) /\ ~live)
    <2>1. PICK g : g = get_reg0(m) OBVIOUS
    <2>2. g \in Fewer(m) /\ g.got \in Regs \cap Regs /\ g.got \notin m.pinned /\ g.reg[g.got] = NoVar
      BY <2>1, x86_Get0
    <2>3. Got1(g).res.r1 = g.got /\ Got1(g).reg = g.reg BY <2>2, NewRegRight
    <2>4. k = Got1(g) BY <1>2, <2>1 DEF get_reg, GetReg
    <2> QED BY <1>2, <2>2, <2>3, <2>4
  <1> QED BY <1>1, <1>2

LEMMA x86_GetReg2 ==
  ASSUME NEW m \in States, NEW a \in Vars \cup {Const}, NEW live \in BOOLEAN, Roomy(X86Pool),
         NEW r \in Regs, m.pinned \subseteq {r}, NEW n, n = get_reg2(m, a, live)
  PROVE  /\ n \in After(m, {}) /\ n.pinned = m.pinned \ {n.res.r1} /\ Ready2(n, a, live, Regs)
         /\ a \in Wide /\ InReg(n, a) => PairExpected(n.addr[a], n.res, a)
         /\ a = Const => n.res.r1 \notin m.pinned
  <1>1. ~ (X86Pool \subseteq m.pinned)
    <2>1. ~ (X86Pool \subseteq {r}) BY DEF Roomy
    <2> QED BY <2>1
  <1>2. PICK k : k = get_reg(m, a, live) OBVIOUS
  <1>3. k \in After(m, {}) /\ k.pinned = m.pinned /\ Ready(k, a, live, Regs) /\ k.res.r1 \in Regs
    BY <1>1, <1>2, x86_GetReg
  <1>4. IF InReg(m, a) /\ ~live THEN k.res.r1 = addr_reg1(m, a)
                                ELSE k.reg[k.res.r1] = NoVar /\ k.res.r1 \notin m.pinned
    BY <1>1, <1>2, x86_GetRegPlace
  <1>5. k \in States BY <1>3, AfterIs
  <1>6. PICK p : p = PinRes(k) OBVIOUS
  <1>7. PICK s : s = k.res.r1 OBVIOUS
  <1>8. p \in States /\ p.pinned \subseteq {r, s}
    <2>1. p = pin_reg(k, s) BY <1>6, <1>7 DEF PinRes
    <2>2. pin_reg(k, s) \in Picked(k) /\ pin_reg(k, s).pinned = k.pinned \cup {s} BY <1>3, <1>5, <1>7, PinPicks
    <2>3. p \in States BY <1>5, <2>1, <2>2, PickedAfter
    <2> QED BY <1>3, <2>1, <2>2, <2>3
  <1>9. ~ (X86Pool \subseteq p.pinned)
    <2>1. ~ (X86Pool \subseteq {r, s}) BY <1>3, <1>7 DEF Roomy
    <2> QED BY <1>8, <2>1
  <1>10. PICK g : g = get_reg0(p) OBVIOUS
  <1>11. g \in Fewer(p) /\ g.got \in (Regs \cap Regs) \ p.pinned /\ g.reg[g.got] = NoVar
    BY <1>8, <1>9, <1>10, x86_Get0
  <1>13. PICK h : h = SecondOf(p, a, live, g) OBVIOUS
  <1>14. n = UnpinRes(h) BY <1>2, <1>6, <1>10, <1>13 DEF get_reg2, GetReg2, HighReg, get_reg, SecondOf, OwnSecond
  <1>18. FirstOf(m, k, a, live) BY <1>4 DEF FirstOf
  <1>16. /\ n \in After(m, {}) /\ n.pinned = m.pinned \ {n.res.r1} /\ n.res.r1 = k.res.r1
         /\ Ready2(n, a, live, Regs)
         /\ a \in Wide /\ InReg(n, a) => PairExpected(n.addr[a], n.res, a)
    <2>1. PICK P : P = Regs OBVIOUS
    <2>2. /\ \A t \in Regs : m.reg[t] # NoVar => t \in P
          /\ g \in Fewer(p) /\ g.got \in (Regs \cap P) \ p.pinned /\ g.reg[g.got] = NoVar
      BY <1>11, <2>1
    <2>3. k \in After(m, {}) /\ k.pinned = m.pinned /\ Ready(k, a, live, P) BY <1>3, <1>4, <2>1
    <2> QED BY <1>6, <1>13, <1>14, <1>18, <2>1, <2>2, <2>3, PairReady
  <1>17. a = Const => ~InReg(m, a) BY DEF InReg
  <1> QED BY <1>4, <1>16, <1>17

\* The first operand is in the pair n.res.
LEMMA x86_Loaded2Right ==
  ASSUME NEW n \in States, NEW A \in SUBSET Vars, NEW tar, NEW a1 \in A \cup {Const}, a1 \in Wide \cup {Const},
         n.pinned = {}, Roomy(X86Pool)
  PROVE  /\ Loaded2(n, tar, a1) \in Reached(n, A, {})
         /\ Ready2(Loaded2(n, tar, a1), a1, Live1(n, tar, a1), Regs)
  <1>1. PICK live : live = Live1(n, tar, a1) OBVIOUS
  <1>2. PICK k : k = get_reg2(n, a1, live) OBVIOUS
  <1>3. live \in BOOLEAN BY <1>1, LiveBoolean
  <1>4. /\ k \in After(n, {}) /\ k.pinned = n.pinned \ {k.res.r1} /\ Ready2(k, a1, live, Regs)
        /\ a1 \in Wide /\ InReg(k, a1) => PairExpected(k.addr[a1], k.res, a1)
    <2>1. n.pinned \subseteq {EAX} OBVIOUS
    <2> QED BY <1>2, <1>3, <2>1, x86_GetReg2, x86_Regs
  <1>5. k \in States /\ k.pinned = {} /\ k.res.r1 \in Regs /\ k.res.r2 \in Regs
    BY <1>4, AfterIs DEF Ready2, Ready, Free
  <1>6. k \in After(n, A) BY <1>4, AfterMore
  <1>7. PICK q : q = RightIn2(Load2(k, k.res, a1), k.res, a1) OBVIOUS
  <1>8. q \in Stored(k, A)
    <2>1. InReg(k, a1) => a1 \in Wide BY DEF InReg
    <2> QED BY <1>4, <1>5, <1>7, <2>1, LoadedPair
  <1>9. q \in After(k, A) /\ q.res = k.res /\ q.pinned = k.pinned BY <1>8, StoredIs
  <1>10. Ready2(q, a1, live, Regs) BY <1>4, <1>5, <1>9, FreeKept
  <1>11. q \in Reached(n, A, {}) BY <1>5, <1>6, <1>9, AfterTrans DEF Reached
  <1>12. q = Loaded2(n, tar, a1) BY <1>1, <1>2, <1>7 DEF Loaded2, LoadRes2, LoadRight2, x86_load2
  <1> QED BY <1>1, <1>10, <1>11, <1>12

\* The low word is in the first register of a pair.
LEMMA x86_LoadedLowRight ==
  ASSUME NEW n \in States, NEW A \in SUBSET Vars, NEW tar, NEW a1 \in A \cup {Const}, n.pinned = {}, Roomy(X86Pool)
  PROVE  /\ LoadedLow(n, tar, a1) \in Reached(n, A, {})
         /\ Ready2(LoadedLow(n, tar, a1), a1, Live1(n, tar, a1), Regs)
  <1>1. PICK live : live = Live1(n, tar, a1) OBVIOUS
  <1>2. PICK k : k = get_reg2(n, a1, live) OBVIOUS
  <1>3. live \in BOOLEAN BY <1>1, LiveBoolean
  <1>4. k \in After(n, {}) /\ k.pinned = n.pinned \ {k.res.r1} /\ Ready2(k, a1, live, Regs)
    <2>1. n.pinned \subseteq {EAX} OBVIOUS
    <2> QED BY <1>2, <1>3, <2>1, x86_GetReg2, x86_Regs
  <1>5. k \in States /\ k.pinned = {} /\ k.res.r1 \in Regs /\ k.res.r2 \in Regs
    BY <1>4, AfterIs DEF Ready2, Ready, Free
  <1>6. k \in After(n, A) BY <1>4, AfterMore
  <1>7. PICK q : q = Load(k, k.res.r1, a1) OBVIOUS
  <1>8. q \in Stored(k, A) BY <1>5, <1>7, LoadStored
  <1>9. q \in After(k, A) /\ q.res = k.res /\ q.pinned = k.pinned BY <1>8, StoredIs
  <1>10. Ready2(q, a1, live, Regs) BY <1>4, <1>5, <1>9, FreeKept
  <1>11. q \in Reached(n, A, {}) BY <1>5, <1>6, <1>9, AfterTrans DEF Reached
  <1>12. q = LoadedLow(n, tar, a1) BY <1>1, <1>2, <1>7 DEF LoadedLow, LoadRes, x86_load
  <1> QED BY <1>1, <1>10, <1>11, <1>12

LEMMA x86_OperandStill ==
  ASSUME NEW m \in States, NEW A \in SUBSET Vars, NEW a \in A \cup {Const}, ~ (X86Pool \subseteq m.pinned)
  PROVE  x86_get_operand(m, a) \in Still(m, A)
  <1>1. CASE a = Const BY <1>1, ConstStored, StoredStill DEF x86_get_operand
  <1>2. CASE a # Const /\ InReg(m, a)
    <2>1. addr_reg1(m, a) \in Regs BY <1>2, RegOf
    <2> QED BY <1>2, <2>1, InRegStored, StoredStill DEF x86_get_operand
  <1>3. CASE a # Const /\ ~InReg(m, a) /\ a \in Bytes
    <2>1. get_reg0(m) \in Fewer(m) /\ get_reg0(m).got \in Regs BY x86_Get0
    <2>2. InGot(Load(get_reg0(m), get_reg0(m).got, a)) \in Still(m, A) BY <2>1, InGotStill
    <2> QED BY <1>3, <2>2 DEF x86_get_operand, Promoted, x86_load
  <1>4. CASE a # Const /\ ~InReg(m, a) /\ a \notin Bytes
    <2>1. a \in A BY <1>4
    <2> QED BY <1>4, <2>1, InHomeStored, StoredStill DEF x86_get_operand
  <1> QED BY <1>1, <1>2, <1>3, <1>4

LEMMA x86_OperandRightStill ==
  ASSUME NEW m \in States, NEW A \in SUBSET Vars, NEW n \in Still(m, A), NEW a \in A \cup {Const},
         ~ (X86Pool \subseteq m.pinned)
  PROVE  OperandRight(n, a) \in Still(m, A)
  <1>1. n \in States /\ n.pinned = m.pinned BY StillIs
  <1>2. PICK o : o = x86_get_operand(n, a) OBVIOUS
  <1>3. o \in Still(n, A) BY <1>1, <1>2, x86_OperandStill
  <1>4. o \in Gen BY <1>1, <1>3, StillIs DEF States
  <1>5. RightOpd(o, a, 1) \in Emitted(o) BY <1>4, EmittedSelf, RightEmits
  <1>6. o \in Still(m, A) BY <1>3, StillTrans
  <1>7. RightOpd(o, a, 1) \in Still(m, A) BY <1>5, <1>6, StillThenEmitted
  <1> QED BY <1>2, <1>7 DEF OperandRight

LEMMA x86_OperandRight2Still ==
  ASSUME NEW m \in States, NEW A \in SUBSET Vars, NEW n \in Still(m, A), NEW a \in A \cup {Const},
         a \in Wide \cup {Const}, NEW w \in {1, 2}
  PROVE  OperandRight2(n, a, w) \in Still(m, A)
  <1>1. n \in States BY StillIs
  <1>2. PICK o : o = x86_get_operand2(n, a, w) OBVIOUS
  <1>3. o \in Stored(n, A)
    <2>1. CASE a = Const BY <1>1, <1>2, <2>1, ConstStored DEF x86_get_operand2
    <2>2. CASE a # Const /\ ~InReg(n, a)
      <3>1. a \in A BY <2>2
      <3> QED BY <1>1, <1>2, <2>2, <3>1, InHomeStored DEF x86_get_operand2
    <2>3. CASE a # Const /\ InReg(n, a)
      <3>1. addr_reg1(n, a) \in Regs /\ addr_reg2(n, a) \in Regs /\ addr_reg2(n, a) # None BY <1>1, <2>3, RegOf
      <3>2. PICK r \in Regs : r = IF w = 1 THEN addr_reg1(n, a) ELSE addr_reg2(n, a) BY <3>1
      <3>3. o = Operand(n, n.R[r]) BY <1>2, <2>3, <3>1, <3>2 DEF x86_get_operand2
      <3> QED BY <1>1, <3>3, InRegStored
    <2> QED BY <2>1, <2>2, <2>3
  <1>4. o \in Gen /\ o \in Still(n, A) BY <1>1, <1>3, StoredIs, StoredStill
  <1>5. RightOpd(o, a, w) \in Emitted(o) BY <1>4, EmittedSelf, RightEmits
  <1>6. o \in Still(m, A) BY <1>4, StillTrans
  <1>7. RightOpd(o, a, w) \in Still(m, A) BY <1>5, <1>6, StillThenEmitted
  <1> QED BY <1>2, <1>7 DEF OperandRight2

LEMMA x86_PushPairStill ==
  ASSUME NEW m \in States, NEW A \in SUBSET Vars, NEW n \in Still(m, A), NEW a \in A \cup {Const},
         a \in Wide \cup {Const}
  PROVE  PushPair(n, a) \in Still(m, A)
  BY x86_OperandRight2Still DEF PushPair

LEMMA x86_LoadedRight ==
  ASSUME NEW n \in States, NEW A \in SUBSET Vars, NEW tar, NEW a1 \in A \cup {Const}, ~ (X86Pool \subseteq n.pinned)
  PROVE  /\ Loaded(n, tar, a1) \in Reached(n, A, n.pinned)
         /\ Loaded(n, tar, a1).res.r1 \in Regs
         /\ Free(Loaded(n, tar, a1), Loaded(n, tar, a1).res.r1, a1, Live1(n, tar, a1))
  <1>1. PICK live : live = Live1(n, tar, a1) OBVIOUS
  <1>2. PICK k : k = get_reg(n, a1, live) OBVIOUS
  <1>3. live \in BOOLEAN BY <1>1, LiveBoolean
  <1>4. k \in After(n, {}) /\ k.pinned = n.pinned /\ Ready(k, a1, live, Regs) /\ k.res.r1 \in Regs
    BY <1>2, <1>3, x86_GetReg
  <1>5. k \in States BY <1>4, AfterIs
  <1>6. k \in After(n, A) BY <1>4, AfterMore
  <1>7. PICK q : q = Load(k, k.res.r1, a1) OBVIOUS
  <1>8. q \in Stored(k, A) BY <1>4, <1>5, <1>7, LoadStored
  <1>9. q \in After(k, A) /\ q.res = k.res /\ q.pinned = k.pinned BY <1>8, StoredIs
  <1>10. Free(q, q.res.r1, a1, live) BY <1>4, <1>5, <1>9, FreeKept DEF Ready
  <1>11. q \in Reached(n, A, n.pinned) BY <1>4, <1>6, <1>9, AfterTrans DEF Reached
  <1>12. q = Loaded(n, tar, a1) BY <1>1, <1>2, <1>7 DEF Loaded, LoadRes, x86_load
  <1> QED BY <1>1, <1>4, <1>9, <1>10, <1>11, <1>12

LEMMA x86_InPlaceRight ==
  ASSUME NEW n \in States, NEW A \in SUBSET Vars, NEW tar, NEW a1 \in A \cup {Const}, ~ (X86Pool \subseteq n.pinned)
  PROVE  /\ InPlaceReg(n, tar, a1) \in Reached(n, A, n.pinned)
         /\ InPlaceReg(n, tar, a1).res.r1 \in Regs
  <1>1. CASE InReg(n, a1)
    <2>1. addr_reg1(n, a1) \in Regs BY <1>1, RegOf
    <2>2. n \in Reached(n, A, n.pinned) BY ReachedSelf
    <2> QED BY <1>1, <2>1, <2>2, ReachedInto DEF InPlaceReg
  <1>2. CASE ~InReg(n, a1)
    <2>1. InPlaceReg(n, tar, a1) = Loaded(n, tar, a1) BY <1>2 DEF InPlaceReg, Loaded
    <2> QED BY <2>1, x86_LoadedRight
  <1> QED BY <1>1, <1>2

LEMMA x86_OnOperandsStill ==
  ASSUME NEW n \in States, NEW A \in SUBSET Vars, n.pinned = {}, n.res.r1 \in Regs, NEW a1,
         NEW a2 \in A \cup {Const}, Roomy(X86Pool)
  PROVE  OnOperands(n, a1, a2) \in Still(n, A)
  <1>1. PICK r : r = n.res.r1 OBVIOUS
  <1>2. ~ (X86Pool \subseteq {r}) BY <1>1 DEF Roomy
  <1>3. n \in Reached(n, A, {}) BY ReachedSelf
  <1>4. PICK p : p = PinRes(n) OBVIOUS
  <1>5. p \in Reached(n, A, {r}) /\ p.res = n.res
    <2>1. pin_reg(n, r) \in Reached(n, A, {} \cup {r}) /\ pin_reg(n, r).res = n.res BY <1>1, <1>3, ReachedPin
    <2>2. {} \cup {r} = {r} OBVIOUS
    <2> QED BY <1>1, <1>4, <2>1, <2>2 DEF PinRes
  <1>6. p \in States /\ p.pinned = {r} BY <1>5, ReachedState
  <1>7. PICK k : k = OperandRight(p, a2) OBVIOUS
  <1>8. k \in Still(p, A)
    <2>1. p \in Still(p, A) BY <1>6, StillSelf
    <2> QED BY <1>2, <1>6, <1>7, <2>1, x86_OperandRightStill
  <1>9. k \in Reached(n, A, {r}) /\ k.res = p.res BY <1>5, <1>8, ReachedStill
  <1>16. k \in Gen BY <1>6, <1>8, StillIs DEF States
  <1>10. PICK q : q = RightRes(k, a1) OBVIOUS
  <1>11. q \in Emitted(k) BY <1>10, <1>16, EmittedSelf, RightEmits
  <1>12. q \in Reached(n, A, {r}) /\ q.res = k.res BY <1>9, <1>11, ReachedEmitted
  <1>13. unpin_reg(q, r) \in Reached(n, A, {r} \ {r}) /\ unpin_reg(q, r).res = q.res BY <1>12, ReachedUnpin
  <1>14. {r} \ {r} = {} OBVIOUS
  <1>15. OnOperands(n, a1, a2) = unpin_reg(q, r)
    BY <1>1, <1>4, <1>5, <1>7, <1>9, <1>10, <1>12 DEF OnOperands, UnpinRes
  <1> QED BY <1>5, <1>9, <1>12, <1>13, <1>14, <1>15 DEF Reached, Still

-----------------------------------------------------------------------------
(* x86_cgen.c: the ends of the handlers                                    *)

LEMMA x86_Saves == target = "x86" => Usable[target] = Regs /\ CalleeSave[target] \subseteq Regs
  BY X86Assumption DEF Usable, CalleeSave

\* The target is set.
LEMMA x86_Sets ==
  ASSUME target = "x86", "x86" \in Targets, NEW tar \in Vars \ Wide, NEW n, Going(n, tar, {}, {}),
         n.res.r1 \in Regs, n.reg[n.res.r1] = NoVar, Commit(update_tar(n, tar))
  PROVE  IInv'
  <1>1. Usable[target] = Regs /\ CalleeSave[target] \subseteq Regs BY x86_Saves
  <1>2. PICK q : q = update_tar(n, tar) OBVIOUS
  <1>3. q \in Done(n, Regs) BY <1>1, <1>2, GoingIs, x86_TarRight
  <1>4. Going(q, NoVar, {}, {}) BY <1>1, <1>3, GoingDone
  <1> QED BY <1>1, <1>2, <1>4, Finish

LEMMA x86_Sets2 ==
  ASSUME target = "x86", "x86" \in Targets, NEW tar \in Wide, NEW n, Going(n, tar, {}, {}),
         n.res.r1 \in Regs, n.res.r2 \in Regs, n.res.r1 # n.res.r2, n.reg[n.res.r1] = NoVar, n.reg[n.res.r2] = NoVar,
         Commit(update_tar2(n, tar))
  PROVE  IInv'
  <1>1. Usable[target] = Regs /\ CalleeSave[target] \subseteq Regs BY x86_Saves
  <1>2. PICK q : q = update_tar2(n, tar) OBVIOUS
  <1>3. q \in Done(n, Regs) BY <1>1, <1>2, GoingIs, x86_Tar2Right
  <1>4. Going(q, NoVar, {}, {}) BY <1>1, <1>3, GoingDone
  <1> QED BY <1>1, <1>2, <1>4, Finish

\* Nothing is set, or it has been.
LEMMA x86_Ends ==
  ASSUME target = "x86", "x86" \in Targets, NEW n, Going(n, NoVar, {}, {}), Commit(n) PROVE IInv'
  <1>1. CalleeSave[target] \subseteq Regs BY x86_Saves
  <1> QED BY <1>1, Finish

LEMMA x86_ArgsGoing ==
  ASSUME target = "x86", NEW n, NEW tar, NEW a1 \in Vars \cup {Const}, NEW a2 \in Vars \cup {Const}, NEW pins,
         Going(n, tar, {a1, a2}, pins)
  PROVE  /\ Going(update_args(n, tar, a1, a2), tar, {}, pins)
         /\ update_args(n, tar, a1, a2).res = n.res
         /\ update_args(n, tar, a1, a2) \in Settled(n, tar, a1, Regs)
  <1>1. Usable[target] = Regs BY DEF Usable
  <1>2. n \in States /\ Marked(n, tar, {a1, a2}, Regs) BY <1>1, GoingIs
  <1>3. PICK q : q = update_args(n, tar, a1, a2) OBVIOUS
  <1>4. q \in Settled(n, tar, a1, Regs) BY <1>2, <1>3, x86_ArgsRight
  <1>5. q.res = n.res BY <1>2, <1>4, FewerIs DEF Settled
  <1> QED BY <1>1, <1>3, <1>4, <1>5, GoingSettled

LEMMA x86_ArgsFree ==
  ASSUME target = "x86", NEW n, NEW tar, NEW a1 \in Vars \cup {Const}, NEW a2 \in Vars \cup {Const}, NEW pins,
         Going(n, tar, {a1, a2}, pins), NEW r \in Regs, n.reg[r] = NoVar \/ Free(n, r, a1, Live1(n, tar, a1))
  PROVE  update_args(n, tar, a1, a2).reg[r] = NoVar
  <1>1. Free(n, r, a1, Live1(n, tar, a1)) BY DEF Free
  <1>2. update_args(n, tar, a1, a2) \in Settled(n, tar, a1, Regs) BY x86_ArgsGoing
  <1> QED BY <1>1, <1>2 DEF Settled

\* The result is in n.res; the registers of a1 may be taken for it.
LEMMA x86_Defines ==
  ASSUME target = "x86", "x86" \in Targets, NEW tar \in Vars \ Wide,
         NEW a1 \in Vars \cup {Const}, NEW a2 \in Vars \cup {Const}, NEW n, Going(n, tar, {a1, a2}, {}),
         Free(n, n.res.r1, a1, Live1(n, tar, a1)), Commit(UPDATE_ADDRESSES(n, tar, a1, a2))
  PROVE  IInv'
  <1>1. Going(update_args(n, tar, a1, a2), tar, {}, {}) /\ update_args(n, tar, a1, a2).res = n.res
    BY x86_ArgsGoing
  <1>2. n.res.r1 \in Regs BY DEF Free
  <1>3. update_args(n, tar, a1, a2).reg[n.res.r1] = NoVar BY <1>2, x86_ArgsFree
  <1> QED BY <1>1, <1>2, <1>3, x86_Sets DEF UPDATE_ADDRESSES

LEMMA x86_Defines2 ==
  ASSUME target = "x86", "x86" \in Targets, NEW tar \in Wide,
         NEW a1 \in Vars \cup {Const}, NEW a2 \in Vars \cup {Const}, NEW n, Going(n, tar, {a1, a2}, {}),
         Ready2(n, a1, Live1(n, tar, a1), Regs), Commit(UPDATE_ADDRESSES2(n, tar, a1, a2))
  PROVE  IInv'
  <1>1. Going(update_args(n, tar, a1, a2), tar, {}, {}) /\ update_args(n, tar, a1, a2).res = n.res
    BY x86_ArgsGoing
  <1>2. /\ n.res.r1 \in Regs /\ n.res.r2 \in Regs /\ n.res.r1 # n.res.r2
        /\ Free(n, n.res.r1, a1, Live1(n, tar, a1)) /\ Free(n, n.res.r2, a1, Live1(n, tar, a1))
    BY DEF Ready2, Ready, Free
  <1>3. update_args(n, tar, a1, a2).reg[n.res.r1] = NoVar
    <2>1. PICK r : r = n.res.r1 OBVIOUS
    <2>2. r \in Regs /\ Free(n, r, a1, Live1(n, tar, a1)) BY <1>2, <2>1
    <2>3. update_args(n, tar, a1, a2).reg[r] = NoVar BY <2>2, x86_ArgsFree
    <2> QED BY <2>1, <2>3
  <1>4. update_args(n, tar, a1, a2).reg[n.res.r2] = NoVar
    <2>1. PICK r : r = n.res.r2 OBVIOUS
    <2>2. r \in Regs /\ Free(n, r, a1, Live1(n, tar, a1)) BY <1>2, <2>1
    <2>3. update_args(n, tar, a1, a2).reg[r] = NoVar BY <2>2, x86_ArgsFree
    <2> QED BY <2>1, <2>3
  <1> QED BY <1>1, <1>2, <1>3, <1>4, x86_Sets2 DEF UPDATE_ADDRESSES2

LEMMA x86_Uses ==
  ASSUME target = "x86", "x86" \in Targets, NEW a1 \in Vars \cup {Const}, NEW a2 \in Vars \cup {Const}, NEW n,
         Going(n, NoVar, {a1, a2}, {}), Commit(update_args(n, NoVar, a1, a2))
  PROVE  IInv'
  BY x86_ArgsGoing, x86_Ends

-----------------------------------------------------------------------------
(* x86_cgen.c: the handlers                                                *)

\* What the lemmas on the handlers assume.
x86_Runs == IInv /\ Roomy(X86Pool)

LEMMA x86_Begin ==
  ASSUME x86_Runs, NEW h, Enabled("x86", h), NEW tar, NEW args, NEW implicit, implicit \subseteq Crossing,
         NEW m \in Marks(tar, args, implicit)
  PROVE  /\ target = "x86" /\ "x86" \in Targets /\ Going(m, tar, args, {}) /\ m.args = arg_words
         /\ m \in States /\ m.pinned = {} /\ ~ (X86Pool \subseteq {}) /\ ~ (X86Pool \subseteq m.pinned)
  <1>1. target = "x86" /\ "x86" \in Targets BY DEF Enabled, x86_Runs, IInv
  <1>2. Going(m, tar, args, {}) /\ m.args = arg_words BY Begin DEF x86_Runs
  <1> QED BY <1>1, <1>2, GoingIs, X86Assumption

\* The operands are in m, the instruction has been emitted in n.
LEMMA x86_Result ==
  ASSUME target = "x86", "x86" \in Targets, NEW tar \in Vars \ Wide, NEW a1 \in Vars \cup {Const},
         NEW a2 \in Vars \cup {Const}, NEW args, args \subseteq {a1, a2}, NEW m, Going(m, tar, args, {}),
         NEW A \in SUBSET Vars, A \subseteq args, NEW n \in Reached(m, A, {}),
         Free(n, n.res.r1, a1, Live1(m, tar, a1)), Commit(UPDATE_ADDRESSES(n, tar, a1, a2))
  PROVE  IInv'
  <1>1. m \in States BY GoingIs
  <1>2. Going(n, tar, {a1, a2}, {}) BY GoingReached
  <1>4. n.fut = m.fut BY <1>1, ReachedState
  <1>3. Live1(n, tar, a1) = Live1(m, tar, a1) BY <1>4, LiveSame
  <1> QED BY <1>2, <1>3, x86_Defines

LEMMA x86_Result2 ==
  ASSUME target = "x86", "x86" \in Targets, NEW tar \in Wide, NEW a1 \in Vars \cup {Const},
         NEW a2 \in Vars \cup {Const}, NEW args, args \subseteq {a1, a2}, NEW m, Going(m, tar, args, {}),
         NEW A \in SUBSET Vars, A \subseteq args, NEW n \in Reached(m, A, {}),
         Ready2(n, a1, Live1(m, tar, a1), Regs), Commit(UPDATE_ADDRESSES2(n, tar, a1, a2))
  PROVE  IInv'
  <1>1. m \in States BY GoingIs
  <1>2. Going(n, tar, {a1, a2}, {}) BY GoingReached
  <1>4. n.fut = m.fut BY <1>1, ReachedState
  <1>3. Live1(n, tar, a1) = Live1(m, tar, a1) BY <1>4, LiveSame
  <1> QED BY <1>2, <1>3, x86_Defines2

LEMMA x86_Read ==
  ASSUME target = "x86", "x86" \in Targets, NEW a1 \in Vars \cup {Const},
         NEW a2 \in Vars \cup {Const}, NEW args, args \subseteq {a1, a2}, NEW m, Going(m, NoVar, args, {}),
         NEW A \in SUBSET Vars, A \subseteq args, NEW n \in Reached(m, A, {}),
         Commit(update_args(n, NoVar, a1, a2))
  PROVE  IInv'
  <1>1. Going(n, NoVar, {a1, a2}, {}) BY GoingReached
  <1> QED BY <1>1, x86_Uses

\* The result goes to the register of the first operand, which has been loaded in k.
LEMMA x86_Computed ==
  ASSUME target = "x86", "x86" \in Targets, NEW tar \in Vars \ Wide, NEW a1 \in Vars \cup {Const},
         NEW a2 \in Vars \cup {Const}, NEW args, args \subseteq {a1, a2}, NEW m, Going(m, tar, args, {}),
         NEW A \in SUBSET Vars, A \subseteq args, NEW k \in Reached(m, A, {}),
         k.res.r1 \in Regs, Free(k, k.res.r1, a1, Live1(m, tar, a1)),
         NEW q \in Still(k, A), NEW n \in Emitted(q), Commit(UPDATE_ADDRESSES(n, tar, a1, a2))
  PROVE  IInv'
  <1>1. m \in States /\ k \in States BY GoingIs, ReachedIs
  <1>2. q \in Reached(m, A, {}) /\ q.res = k.res BY <1>1, ReachedStill
  <1>3. n \in Reached(m, A, {}) /\ n.res = q.res /\ n.reg = q.reg BY <1>1, <1>2, ReachedEmitted
  <1>4. Free(q, k.res.r1, a1, Live1(m, tar, a1))
    <2>1. q \in After(k, A) BY <1>1, StillIs
    <2>2. PICK r, live : r = k.res.r1 /\ live = Live1(m, tar, a1) OBVIOUS
    <2>3. Free(k, r, a1, live) BY <2>2
    <2>4. Free(q, r, a1, live) BY <1>1, <2>1, <2>3, FreeKept
    <2> QED BY <2>2, <2>4
  <1>5. Free(n, n.res.r1, a1, Live1(m, tar, a1)) BY <1>2, <1>3, <1>4 DEF Free
  <1> QED BY <1>3, <1>5, x86_Result

LEMMA x86_Computed2 ==
  ASSUME target = "x86", "x86" \in Targets, NEW tar \in Wide, NEW a1 \in Vars \cup {Const},
         NEW a2 \in Vars \cup {Const}, NEW args, args \subseteq {a1, a2}, NEW m, Going(m, tar, args, {}),
         NEW A \in SUBSET Vars, A \subseteq args, NEW k \in Reached(m, A, {}),
         Ready2(k, a1, Live1(m, tar, a1), Regs),
         NEW q \in Still(k, A), NEW n \in Emitted(q), Commit(UPDATE_ADDRESSES2(n, tar, a1, a2))
  PROVE  IInv'
  <1>1. m \in States /\ k \in States BY GoingIs, ReachedIs
  <1>2. q \in Reached(m, A, {}) /\ q.res = k.res BY <1>1, ReachedStill
  <1>3. n \in Reached(m, A, {}) /\ n.res = q.res /\ n.reg = q.reg BY <1>1, <1>2, ReachedEmitted
  <1>4. Ready2(q, a1, Live1(m, tar, a1), Regs) BY <1>1, <1>2, FreeKept, StillIs
  <1>5. Ready2(n, a1, Live1(m, tar, a1), Regs) BY <1>2, <1>3, <1>4 DEF Ready2, Ready, Free
  <1> QED BY <1>3, <1>5, x86_Result2

LEMMA x86_AluRight ==
  ASSUME x86_Runs, NEW tar \in WordTemps, NEW a1 \in Vars \cup {Const}, NEW a2 \in Vars \cup {Const},
         x86_alu(tar, a1, a2) \/ x86_setcc(tar, a1, a2)
  PROVE  IInv'
  <1>1. PICK h, m :
          /\ m \in Marks(tar, {a1, a2}, {}) /\ Enabled("x86", h)
          /\ Commit(UPDATE_ADDRESSES(Computes(OnOperands(Loaded(m, tar, a1), a1, a2), tar), tar, a1, a2))
    BY DEF x86_alu, x86_setcc
  <1>2. PICK A : A = Named(a1, a2) OBVIOUS
  <1>3. A \in SUBSET Vars /\ A \subseteq {a1, a2} /\ a1 \in A \cup {Const} /\ a2 \in A \cup {Const} /\ tar \in Vars \ Wide
    BY <1>2, NamedIs, CGenRegsAssumption DEF WordTemps
  <1>4. /\ target = "x86" /\ "x86" \in Targets /\ Going(m, tar, {a1, a2}, {}) /\ m \in States /\ m.pinned = {}
        /\ ~ (X86Pool \subseteq m.pinned)
    BY <1>1, x86_Begin
  <1>5. PICK k : k = Loaded(m, tar, a1) OBVIOUS
  <1>6. k \in Reached(m, A, {}) /\ k.res.r1 \in Regs /\ Free(k, k.res.r1, a1, Live1(m, tar, a1))
    BY <1>3, <1>4, <1>5, x86_LoadedRight
  <1>7. k \in States /\ k.pinned = {} BY <1>3, <1>4, <1>6, ReachedState
  <1>8. PICK q : q = OnOperands(k, a1, a2) OBVIOUS
  <1>9. q \in Still(k, A) BY <1>3, <1>6, <1>7, <1>8, x86_OnOperandsStill DEF x86_Runs
  <1>10. q \in Gen /\ q.res = k.res BY <1>3, <1>7, <1>9, StillIs DEF States
  <1>11. Computes(q, tar) \in Emitted(q) BY <1>3, <1>6, <1>10, EmittedSelf, ComputesEmits
  <1> QED BY <1>1, <1>3, <1>4, <1>5, <1>6, <1>8, <1>9, <1>11, x86_Computed

LEMMA x86_UnaryRight ==
  ASSUME x86_Runs, NEW tar \in Vars \ Wide, NEW a1 \in Vars, x86_unary(tar, a1) PROVE IInv'
  <1>1. PICK m \in Marks(tar, {a1}, {}) :
          /\ Enabled("x86", "unary")
          /\ Commit(UPDATE_ADDRESSES(Computes(RightRes(Loaded(m, tar, a1), a1), tar), tar, a1, Const))
    BY DEF x86_unary, UPDATE_ADDRESSES_UNARY
  <1>2. PICK A : A = {a1} OBVIOUS
  <1>3. A \in SUBSET Vars /\ A \subseteq {a1} /\ a1 \in A \cup {Const} /\ {a1} \subseteq {a1, Const} BY <1>2
  <1>4. /\ target = "x86" /\ "x86" \in Targets /\ Going(m, tar, {a1}, {}) /\ m \in States /\ m.pinned = {}
        /\ ~ (X86Pool \subseteq m.pinned)
    BY <1>1, x86_Begin
  <1>5. PICK k : k = Loaded(m, tar, a1) OBVIOUS
  <1>6. k \in Reached(m, A, {}) /\ k.res.r1 \in Regs /\ Free(k, k.res.r1, a1, Live1(m, tar, a1))
    BY <1>3, <1>4, <1>5, x86_LoadedRight
  <1>7. k \in States /\ k \in Gen BY <1>3, <1>4, <1>6, ReachedIs
  <1>8. RightRes(k, a1) \in Emitted(k) BY <1>7, EmittedSelf, RightEmits
  <1>9. RightRes(k, a1).res = k.res BY <1>8 DEF Emitted
  <1>10. Computes(RightRes(k, a1), tar) \in Emitted(k) BY <1>6, <1>8, <1>9, ComputesEmits
  <1>11. k \in Still(k, A) BY <1>3, <1>7, StillSelf
  <1> QED BY <1>1, <1>3, <1>4, <1>5, <1>6, <1>10, <1>11, x86_Computed

LEMMA x86_AddrOfRight ==
  ASSUME x86_Runs, NEW tar \in Vars \ Wide, x86_addr_of(tar) PROVE IInv'
  <1>1. PICK m \in Marks(tar, {}, {}) :
          Enabled("x86", "addr_of") /\ Commit(update_tar(Computes(Got1(get_reg0(m)), tar), tar))
    BY DEF x86_addr_of
  <1>2. /\ target = "x86" /\ "x86" \in Targets /\ Going(m, tar, {}, {}) /\ m \in States /\ m.pinned = {}
        /\ ~ (X86Pool \subseteq m.pinned)
    BY <1>1, x86_Begin
  <1>3. PICK g : g = get_reg0(m) OBVIOUS
  <1>4. g \in Fewer(m) /\ g.got \in Regs \cap Regs /\ g.reg[g.got] = NoVar BY <1>2, <1>3, x86_Get0
  <1>5. PICK k : k = Got1(g) OBVIOUS
  <1>6. k \in After(m, {}) /\ k.pinned = {} /\ k.res.r1 = g.got /\ k.reg = g.reg
    BY <1>2, <1>4, <1>5, NewRegRight
  <1>7. k \in Reached(m, {}, {}) /\ k \in States /\ k \in Gen BY <1>2, <1>6, AfterIs DEF Reached, States
  <1>8. PICK n : n = Computes(k, tar) OBVIOUS
  <1>9. n \in Emitted(k) BY <1>4, <1>6, <1>7, <1>8, EmittedSelf, ComputesEmits
  <1>10. n \in Reached(m, {}, {}) /\ n.res = k.res /\ n.reg = k.reg BY <1>2, <1>7, <1>9, ReachedEmitted
  <1>11. Going(n, tar, {}, {}) BY <1>2, <1>10, GoingReached
  <1> QED BY <1>1, <1>2, <1>3, <1>4, <1>5, <1>6, <1>8, <1>10, <1>11, x86_Sets

LEMMA x86_LoadGotStill ==
  ASSUME NEW n \in States, NEW A \in SUBSET Vars, NEW a \in A \cup {Const}, ~ (X86Pool \subseteq n.pinned)
  PROVE  LoadGot(get_reg0(n), a) \in Still(n, A)
  <1>1. PICK g : g = get_reg0(n) OBVIOUS
  <1>2. g \in Fewer(n) /\ g.got \in Regs BY <1>1, x86_Get0
  <1>3. g \in States BY <1>2, FewerIs
  <1>4. PICK l : l = Load(g, g.got, a) OBVIOUS
  <1>5. l \in Stored(g, A) BY <1>2, <1>3, <1>4, LoadStored
  <1>6. g \in Still(n, A) BY <1>2, FewerStill
  <1>7. l \in Still(n, A) BY <1>3, <1>5, <1>6, StillThenStored
  <1>8. RightIn(l, g.got, a, 1) \in Still(n, A) BY <1>7, RightInStill
  <1> QED BY <1>1, <1>4, <1>8 DEF LoadGot, LoadRight, x86_load

LEMMA x86_DivisorStill ==
  ASSUME NEW n \in States, NEW A \in SUBSET Vars, NEW a2 \in A \cup {Const}, ~ (X86Pool \subseteq n.pinned)
  PROVE  Divisor(n, a2) \in Still(n, A)
  <1>1. n \in Still(n, A) BY StillSelf
  <1> QED BY <1>1, x86_LoadGotStill, x86_OperandRightStill DEF Divisor

LEMMA x86_DivRemRight ==
  ASSUME x86_Runs, NEW res \in {EAX, EDX}, NEW tar \in WordTemps, NEW a1 \in Vars \cup {Const},
         NEW a2 \in Vars \cup {Const}, x86_div_rem(res, tar, a1, a2)
  PROVE  IInv'
  <1>1. PICK m, m0, m1, l, m2, s, m3, d, r, m4, u, m5 :
          /\ m \in Marks(tar, {a1, a2}, {})
          /\ Enabled("x86", "div_rem")
          /\ m0 = get_reg(m, a1, Live1(m, tar, a1)) /\ m1 = DividendReg(m0)
          /\ l = x86_load(m1, EAX, a1) /\ m2 = pin_reg(l, EAX)
          /\ s = spill_reg(m2, EDX) /\ m3 = Clobber(pin_reg(s, EDX), {EDX})
          /\ d = Divisor(m3, a2) /\ r = RightIn(d, EAX, a1, 1)
          /\ m4 = Clobber(r, {EAX, EDX})
          /\ u = unpin_reg(unpin_reg(m4, EAX), EDX)
          /\ m5 = Into(u, res, None)
          /\ Commit(UPDATE_ADDRESSES(Computes(m5, tar), tar, a1, a2))
    BY DEF x86_div_rem
  <1>2. PICK A : A = Named(a1, a2) OBVIOUS
  <1>3. A \in SUBSET Vars /\ A \subseteq {a1, a2} /\ a1 \in A \cup {Const} /\ a2 \in A \cup {Const} /\ tar \in Vars \ Wide
    BY <1>2, NamedIs, CGenRegsAssumption DEF WordTemps
  <1>4. /\ target = "x86" /\ "x86" \in Targets /\ Going(m, tar, {a1, a2}, {}) /\ m \in States /\ m.pinned = {}
        /\ ~ (X86Pool \subseteq m.pinned)
    BY <1>1, x86_Begin
  <1>5. PICK live \in BOOLEAN : live = Live1(m, tar, a1) BY LiveBoolean
  <1>6. m0 \in Reached(m, A, {}) /\ Free(m0, m0.res.r1, a1, live)
    <2>1. m0 \in After(m, {}) /\ m0.pinned = m.pinned /\ Ready(m0, a1, live, Regs)
      BY <1>1, <1>4, <1>5, x86_GetReg
    <2>2. m0 \in After(m, A) BY <1>3, <2>1, AfterMore
    <2> QED BY <1>4, <2>1, <2>2 DEF Reached, Ready
  <1>7. m0 \in States BY <1>3, <1>4, <1>6, ReachedState
  <1>8. m1 \in Fewer(m0) /\ Free(m1, EAX, a1, live)
    <2>1. CASE m0.res.r1 # EAX
      <3>1. m1 = spill_reg(m0, EAX) BY <1>1, <2>1 DEF DividendReg
      <3>2. m1 \in Fewer(m0) /\ reg_isempty(m1, EAX) BY <1>7, <3>1, x86_SpillFewer, x86_Regs
      <3> QED BY <3>2, x86_Regs DEF Free, reg_isempty
    <2>2. CASE m0.res.r1 = EAX
      <3>1. m1 = m0 BY <1>1, <2>2 DEF DividendReg
      <3> QED BY <1>6, <1>7, <2>2, <3>1, FewerSelf
    <2> QED BY <2>1, <2>2
  <1>9. m1 \in Reached(m, A, {}) /\ m1 \in States
    BY <1>3, <1>4, <1>6, <1>8, ReachedFewer, ReachedIs
  <1>10. l \in Stored(m1, A) BY <1>1, <1>3, <1>9, LoadStored, x86_Regs DEF x86_load
  <1>11. l \in Reached(m1, A, {})
    <2>1. m1.pinned = {} BY <1>3, <1>4, <1>9, ReachedState
    <2>2. m1 \in Reached(m1, A, {}) BY <1>3, <1>9, <2>1, ReachedSelf
    <2> QED BY <1>3, <1>9, <1>10, <2>2, ReachedStored
  <1>12. m2 \in Reached(m1, A, {EAX})
    <2>1. m2 \in Reached(m1, A, {} \cup {EAX}) BY <1>1, <1>3, <1>9, <1>11, ReachedPin, x86_Regs
    <2>2. {} \cup {EAX} = {EAX} OBVIOUS
    <2> QED BY <2>1, <2>2
  <1>13. m2 \in States /\ m2.pinned = {EAX} BY <1>3, <1>9, <1>12, ReachedState
  <1>14. s \in Fewer(m2) /\ s.reg[EDX] = NoVar BY <1>1, <1>13, x86_SpillFewer, x86_Regs DEF reg_isempty
  <1>15. s \in States /\ s.pinned = {EAX} BY <1>13, <1>14, FewerIs
  <1>16. m3 \in Reached(s, A, {EAX, EDX})
    <2>1. PICK p : p = pin_reg(s, EDX) OBVIOUS
    <2>2. s \in Reached(s, A, {EAX}) BY <1>3, <1>15, ReachedSelf
    <2>3. p \in Reached(s, A, {EAX} \cup {EDX}) BY <1>3, <1>15, <2>1, <2>2, ReachedPin, x86_Regs
    <2>4. {EAX} \cup {EDX} = {EAX, EDX} OBVIOUS
    <2>5. p \in Reached(s, A, {EAX, EDX}) /\ p \in Gen BY <1>3, <1>15, <2>3, <2>4, ReachedIs
    <2>6. {EDX} \in SUBSET Int BY DEF EDX
    <2>7. m3 \in Emitted(p) BY <1>1, <2>1, <2>5, <2>6, EmittedSelf, ClobberEmits
    <2> QED BY <1>3, <1>15, <2>5, <2>7, ReachedEmitted
  <1>17. m3 \in States /\ m3.pinned = {EAX, EDX} BY <1>3, <1>15, <1>16, ReachedState
  <1>18. d \in Still(m3, A)
    <2>1. ~ (X86Pool \subseteq m3.pinned) BY <1>17, x86_Regs DEF x86_Runs, Roomy
    <2> QED BY <1>1, <1>3, <1>17, <2>1, x86_DivisorStill
  <1>19. d \in Reached(s, A, {EAX, EDX}) /\ d \in Gen
    <2>1. PICK pins : pins = {EAX, EDX} OBVIOUS
    <2>2. s \in States /\ A \in SUBSET Vars /\ m3 \in Reached(s, A, pins) BY <1>3, <1>15, <1>16, <2>1
    <2>3. d \in Reached(s, A, pins) BY <1>18, <2>2, ReachedStill
    <2>4. d \in Gen BY <2>2, <2>3, ReachedIs
    <2> QED BY <2>1, <2>3, <2>4
  <1>20. m4 \in Reached(s, A, {EAX, EDX})
    <2>1. {EAX, EDX} \in SUBSET Int BY DEF EAX, EDX
    <2>2. r \in Emitted(d) BY <1>1, <1>19, EmittedSelf, RightEmits
    <2>3. m4 \in Emitted(d) BY <1>1, <2>1, <2>2, ClobberEmits
    <2> QED BY <1>3, <1>15, <1>19, <2>3, ReachedEmitted
  <1>21. u \in Reached(s, A, {})
    <2>1. PICK w : w = unpin_reg(m4, EAX) OBVIOUS
    <2>2. w \in Reached(s, A, {EAX, EDX} \ {EAX}) BY <1>3, <1>15, <1>20, <2>1, ReachedUnpin
    <2>3. u \in Reached(s, A, ({EAX, EDX} \ {EAX}) \ {EDX}) BY <1>1, <1>3, <1>15, <2>1, <2>2, ReachedUnpin
    <2>4. ({EAX, EDX} \ {EAX}) \ {EDX} = {} OBVIOUS
    <2> QED BY <2>3, <2>4
  <1>22. res \in Regs BY x86_Regs
  <1>23. m5 \in Reached(s, A, {}) /\ m5.res.r1 = res BY <1>1, <1>3, <1>15, <1>21, <1>22, ReachedInto
  <1>24. m5 \in States BY <1>3, <1>15, <1>23, ReachedState
  <1>25. s \in Reached(m1, A, {EAX}) BY <1>3, <1>9, <1>12, <1>14, ReachedFewer
  <1>26. m5 \in Reached(m1, A, {}) BY <1>3, <1>9, <1>23, <1>25, ReachedTrans
  <1>27. m5 \in Reached(m, A, {}) BY <1>3, <1>4, <1>9, <1>26, ReachedTrans
  <1>28. Free(m5, res, a1, live)
    <2>1. CASE res = EAX
      <3>1. m5 \in After(m1, A) BY <1>3, <1>9, <1>26, ReachedIs
      <3> QED BY <1>3, <1>8, <1>9, <2>1, <3>1, FreeKept
    <2>2. CASE res = EDX
      <3>1. m5 \in After(s, A) BY <1>3, <1>15, <1>23, ReachedIs
      <3>2. Free(s, EDX, a1, live) BY <1>14, x86_Regs DEF Free
      <3> QED BY <1>3, <1>15, <2>2, <3>1, <3>2, FreeKept
    <2> QED BY <2>1, <2>2
  <1>29. Computes(m5, tar) \in Emitted(m5)
    BY <1>3, <1>22, <1>23, <1>24, EmittedSelf, ComputesEmits DEF States
  <1>30. m5 \in Still(m5, A) BY <1>3, <1>24, StillSelf
  <1> QED BY <1>1, <1>3, <1>4, <1>5, <1>22, <1>23, <1>27, <1>28, <1>29, <1>30, x86_Computed

LEMMA x86_ShiftRight ==
  ASSUME x86_Runs, NEW tar \in WordTemps, NEW a1 \in Vars \cup {Const}, NEW a2 \in Vars \cup {Const},
         x86_shift(tar, a1, a2)
  PROVE  IInv'
  <1>1. PICK m, c, p, m1, r, m2 :
          /\ m \in Marks(tar, {a1, a2}, {})
          /\ Enabled("x86", "shift")
          /\ c = Count(m, a2) /\ p = pin_reg(c, ECX)
          /\ m1 = Loaded(p, tar, a1) /\ r = RightIn(m1, ECX, a2, 1)
          /\ m2 = IF a2 = Const THEN Loaded(m, tar, a1) ELSE unpin_reg(r, ECX)
          /\ Commit(UPDATE_ADDRESSES(Computes(RightRes(m2, a1), tar), tar, a1, a2))
    BY DEF x86_shift
  <1>2. PICK A : A = Named(a1, a2) OBVIOUS
  <1>3. A \in SUBSET Vars /\ A \subseteq {a1, a2} /\ a1 \in A \cup {Const} /\ a2 \in A \cup {Const} /\ tar \in Vars \ Wide
    BY <1>2, NamedIs, CGenRegsAssumption DEF WordTemps
  <1>4. /\ target = "x86" /\ "x86" \in Targets /\ Going(m, tar, {a1, a2}, {}) /\ m \in States /\ m.pinned = {}
        /\ ~ (X86Pool \subseteq m.pinned)
    BY <1>1, x86_Begin
  <1>5. m2 \in Reached(m, A, {}) /\ m2.res.r1 \in Regs /\ Free(m2, m2.res.r1, a1, Live1(m, tar, a1))
    <2>1. CASE a2 = Const BY <1>1, <1>3, <1>4, <2>1, x86_LoadedRight
    <2>2. CASE a2 # Const
      <3>1. c \in Still(m, A)
        <4>1. CASE InReg(m, a2) /\ addr_reg1(m, a2) = ECX
          BY <1>1, <1>3, <1>4, <4>1, StillSelf DEF Count
        <4>2. CASE ~(InReg(m, a2) /\ addr_reg1(m, a2) = ECX)
          <5>1. PICK s : s = spill_reg(m, ECX) OBVIOUS
          <5>2. s \in Still(m, A) /\ s \in States BY <1>3, <1>4, <5>1, x86_SpillFewer, x86_Regs, FewerStill, FewerIs
          <5>3. c = Load(s, ECX, a2) BY <1>1, <4>2, <5>1 DEF Count, x86_load
          <5>4. c \in Stored(s, A) BY <1>3, <5>2, <5>3, LoadStored, x86_Regs
          <5> QED BY <1>3, <1>4, <5>2, <5>4, StillThenStored
        <4> QED BY <4>1, <4>2
      <3>2. c \in Reached(m, A, {}) BY <1>3, <1>4, <3>1, StillIs DEF Reached
      <3>3. p \in Reached(m, A, {ECX})
        <4>1. p \in Reached(m, A, {} \cup {ECX}) BY <1>1, <1>3, <1>4, <3>2, ReachedPin, x86_Regs
        <4>2. {} \cup {ECX} = {ECX} OBVIOUS
        <4> QED BY <4>1, <4>2
      <3>4. p \in States /\ p.pinned = {ECX} /\ p.fut = m.fut BY <1>3, <1>4, <3>3, ReachedState
      <3>5. ~ (X86Pool \subseteq p.pinned) BY <3>4, x86_Regs DEF x86_Runs, Roomy
      <3>6. m1 \in Reached(p, A, {ECX}) /\ m1.res.r1 \in Regs /\ Free(m1, m1.res.r1, a1, Live1(p, tar, a1))
        BY <1>1, <1>3, <3>4, <3>5, x86_LoadedRight
      <3>7. m1 \in Reached(m, A, {ECX}) /\ m1 \in Gen BY <1>3, <1>4, <3>3, <3>6, ReachedTrans, ReachedIs
      <3>8. r \in Emitted(m1) BY <1>1, <3>7, EmittedSelf, RightEmits
      <3>9. r \in Reached(m, A, {ECX}) /\ r.res = m1.res /\ r.reg = m1.reg BY <1>3, <1>4, <3>7, <3>8, ReachedEmitted
      <3>13. m2 = unpin_reg(r, ECX) BY <1>1, <2>2
      <3>10. m2 \in Reached(m, A, {ECX} \ {ECX}) /\ m2.res = r.res /\ m2.reg = r.reg
        BY <1>3, <1>4, <3>9, <3>13, ReachedUnpin
      <3>11. {ECX} \ {ECX} = {} OBVIOUS
      <3>12. Live1(p, tar, a1) = Live1(m, tar, a1) BY <3>4, LiveSame
      <3> QED BY <3>6, <3>9, <3>10, <3>11, <3>12 DEF Free
    <2> QED BY <2>1, <2>2
  <1>6. m2 \in States /\ m2 \in Gen BY <1>3, <1>4, <1>5, ReachedIs
  <1>7. RightRes(m2, a1) \in Emitted(m2) BY <1>6, EmittedSelf, RightEmits
  <1>8. RightRes(m2, a1).res = m2.res BY <1>7 DEF Emitted
  <1>9. Computes(RightRes(m2, a1), tar) \in Emitted(m2) BY <1>3, <1>5, <1>7, <1>8, ComputesEmits
  <1>10. m2 \in Still(m2, A) BY <1>3, <1>6, StillSelf
  <1> QED BY <1>1, <1>3, <1>4, <1>5, <1>9, <1>10, x86_Computed

LEMMA x86_RelopJumpRight ==
  ASSUME x86_Runs, NEW a1 \in Vars \cup {Const}, NEW a2 \in Vars \cup {Const},
         x86_relop_jump(a1, a2)
  PROVE  IInv'
  <1>1. PICK m \in Marks(NoVar, {a1, a2}, {}) :
          /\ Enabled("x86", "relop_jump")
          /\ Commit(update_args(OnOperands(InPlaceReg(m, NoVar, a1), a1, a2), NoVar, a1, a2))
    BY DEF x86_relop_jump
  <1>2. PICK A : A = Named(a1, a2) OBVIOUS
  <1>3. A \in SUBSET Vars /\ A \subseteq {a1, a2} /\ a1 \in A \cup {Const} /\ a2 \in A \cup {Const}
    BY <1>2, NamedIs
  <1>4. /\ target = "x86" /\ "x86" \in Targets /\ Going(m, NoVar, {a1, a2}, {}) /\ m \in States /\ m.pinned = {}
        /\ ~ (X86Pool \subseteq m.pinned)
    BY <1>1, x86_Begin
  <1>5. PICK k : k = InPlaceReg(m, NoVar, a1) OBVIOUS
  <1>6. k \in Reached(m, A, {}) /\ k.res.r1 \in Regs BY <1>3, <1>4, <1>5, x86_InPlaceRight
  <1>7. k \in States /\ k.pinned = {} BY <1>3, <1>4, <1>6, ReachedState
  <1>8. PICK q : q = OnOperands(k, a1, a2) OBVIOUS
  <1>9. q \in Still(k, A) BY <1>3, <1>6, <1>7, <1>8, x86_OnOperandsStill DEF x86_Runs
  <1>10. q \in Reached(m, A, {}) BY <1>3, <1>4, <1>6, <1>9, ReachedStill
  <1> QED BY <1>1, <1>3, <1>4, <1>5, <1>8, <1>10, x86_Read

\* The operand is in the pair of k, the instruction has been emitted in n.
LEMMA x86_PairComputed ==
  ASSUME x86_Runs, NEW h, Enabled("x86", h), NEW tar \in Wide, NEW a1 \in Vars \cup {Const},
         NEW m, m \in Marks(tar, {a1}, {}),
         NEW k, k = LoadedLow(m, tar, a1) \/ (k = Loaded2(m, tar, a1) /\ a1 \in Wide \cup {Const}),
         NEW n, k \in Gen /\ k.res.r1 \in Regs /\ k.res.r2 \in Regs => n \in Emitted(k),
         Commit(UPDATE_ADDRESSES_UNARY2(n, tar, a1))
  PROVE  IInv'
  <1>1. PICK A : A = {a1} \cap Vars OBVIOUS
  <1>2. A \in SUBSET Vars /\ A \subseteq {a1} /\ a1 \in A \cup {Const} /\ {a1} \subseteq {a1, Const} BY <1>1
  <1>3. target = "x86" /\ "x86" \in Targets /\ Going(m, tar, {a1}, {}) /\ m \in States /\ m.pinned = {}
    BY x86_Begin
  <1>4. k \in Reached(m, A, {}) /\ Ready2(k, a1, Live1(m, tar, a1), Regs)
    BY <1>2, <1>3, x86_Loaded2Right, x86_LoadedLowRight DEF x86_Runs
  <1>5. k \in States /\ k \in Gen BY <1>2, <1>3, <1>4, ReachedIs
  <1>6. k.res.r1 \in Regs /\ k.res.r2 \in Regs BY <1>4 DEF Ready2, Ready, Free
  <1>7. k \in Still(k, A) BY <1>2, <1>5, StillSelf
  <1>8. n \in Emitted(k) BY <1>5, <1>6
  <1>9. Commit(UPDATE_ADDRESSES2(n, tar, a1, Const)) BY DEF UPDATE_ADDRESSES_UNARY2
  <1> QED BY <1>2, <1>3, <1>4, <1>7, <1>8, <1>9, x86_Computed2

LEMMA x86_Unary2Right == ASSUME x86_Runs, NEW tar \in Wide, NEW a1 \in Wide, x86_unary2(tar, a1) PROVE IInv'
  <1>1. PICK m, k :
          /\ m \in Marks(tar, {a1}, {}) /\ Enabled("x86", "unary2") /\ k = Loaded2(m, tar, a1)
          /\ Commit(UPDATE_ADDRESSES_UNARY2(Computes2(k, tar), tar, a1))
    BY DEF x86_unary2
  <1>2. tar \in Vars /\ a1 \in Vars BY CGenRegsAssumption
  <1>3. k \in Gen /\ k.res.r1 \in Regs /\ k.res.r2 \in Regs => Computes2(k, tar) \in Emitted(k)
    BY <1>2, EmittedSelf, Computes2Emits
  <1> QED BY <1>1, <1>2, <1>3, x86_PairComputed

LEMMA x86_LlxRight == ASSUME x86_Runs, NEW tar \in Wide, NEW a1 \in Vars, x86_llx(tar, a1) PROVE IInv'
  <1>1. PICK m, k :
          /\ m \in Marks(tar, {a1}, {}) /\ Enabled("x86", "llx") /\ k = LoadedLow(m, tar, a1)
          /\ Commit(UPDATE_ADDRESSES_UNARY2(Computes2(RightRes(k, a1), tar), tar, a1))
    BY DEF x86_llx
  <1>2. tar \in Vars BY CGenRegsAssumption
  <1>3. ASSUME k \in Gen, k.res.r1 \in Regs, k.res.r2 \in Regs
        PROVE  Computes2(RightRes(k, a1), tar) \in Emitted(k)
    <2>1. RightRes(k, a1) \in Emitted(k) BY <1>3, EmittedSelf, RightEmits
    <2>2. RightRes(k, a1).res = k.res BY <2>1 DEF Emitted
    <2> QED BY <1>2, <1>3, <2>1, <2>2, Computes2Emits
  <1> QED BY <1>1, <1>3, x86_PairComputed

LEMMA x86_Alu2Right ==
  ASSUME x86_Runs, NEW tar \in Wide, NEW a1 \in Wide \cup {Const}, NEW a2 \in Wide \cup {Const}, x86_alu2(tar, a1, a2)
  PROVE  IInv'
  <1>1. PICK m, k, o, c, q :
          /\ m \in Marks(tar, {a1, a2}, {}) /\ Enabled("x86", "alu2")
          /\ k = Loaded2(m, tar, a1) /\ o = OperandRight2(k, a2, 1) /\ c = Clobber(o, {k.res.r1})
          /\ q = OperandRight2(c, a2, 2) /\ Commit(UPDATE_ADDRESSES2(Computes2(q, tar), tar, a1, a2))
    BY DEF x86_alu2, LowWords
  <1>2. PICK A : A = Named(a1, a2) OBVIOUS
  <1>3. /\ A \in SUBSET Vars /\ A \subseteq {a1, a2} /\ a1 \in A \cup {Const} /\ a2 \in A \cup {Const}
        /\ tar \in Vars /\ a1 \in Vars \cup {Const} /\ a2 \in Vars \cup {Const}
    BY <1>2, NamedIs, CGenRegsAssumption
  <1>4. /\ target = "x86" /\ "x86" \in Targets /\ Going(m, tar, {a1, a2}, {}) /\ m \in States /\ m.pinned = {}
    BY <1>1, x86_Begin
  <1>5. k \in Reached(m, A, {}) /\ Ready2(k, a1, Live1(m, tar, a1), Regs)
    BY <1>1, <1>3, <1>4, x86_Loaded2Right DEF x86_Runs
  <1>6. k \in States BY <1>3, <1>4, <1>5, ReachedIs
  <1>7. k.res.r1 \in Regs /\ k.res.r2 \in Regs BY <1>5 DEF Ready2, Ready, Free
  <1>8. o \in Still(k, A)
    <2>1. k \in Still(k, A) BY <1>3, <1>6, StillSelf
    <2> QED BY <1>1, <1>3, <1>6, <2>1, x86_OperandRight2Still
  <1>9. c \in Still(k, A)
    <2>1. {k.res.r1} \in SUBSET Int BY <1>7, RegsAre
    <2> QED BY <1>1, <1>3, <1>6, <1>8, <2>1, ClobberStill
  <1>10. q \in Still(k, A) BY <1>1, <1>3, <1>6, <1>9, x86_OperandRight2Still
  <1>11. q \in Gen /\ q.res = k.res BY <1>3, <1>6, <1>10, StillIs DEF States
  <1>12. Computes2(q, tar) \in Emitted(q) BY <1>3, <1>7, <1>11, EmittedSelf, Computes2Emits
  <1> QED BY <1>1, <1>3, <1>4, <1>5, <1>10, <1>12, x86_Computed2

LEMMA x86_AsnRight ==
  ASSUME x86_Runs, NEW tar \in Vars, NEW a1 \in Vars \cup {Const}, tar \in Wide => a1 \in Wide \cup {Const},
         x86_asn(tar, a1)
  PROVE  IInv'
  <1>1. PICK m, p, k :
          /\ m \in Marks(tar, {a1}, {}) /\ Enabled("x86", "asn")
          /\ p = Loaded2(m, tar, a1) /\ k = Loaded(m, tar, a1)
          /\ IF tar \in Wide
               THEN Commit(UPDATE_ADDRESSES_UNARY2(Copies(p, tar, a1), tar, a1))
               ELSE Commit(UPDATE_ADDRESSES_UNARY(Copies(RightRes(k, a1), tar, a1), tar, a1))
    BY DEF x86_asn
  <1>2. CASE tar \in Wide
    <2>1. p \in Gen => Copies(p, tar, a1) \in Emitted(p) BY EmittedSelf, CopiesEmits
    <2> QED BY <1>1, <1>2, <2>1, x86_PairComputed
  <1>3. CASE tar \notin Wide
    <2>1. PICK A : A = {a1} \cap Vars OBVIOUS
    <2>2. A \in SUBSET Vars /\ A \subseteq {a1} /\ a1 \in A \cup {Const} /\ {a1} \subseteq {a1, Const} BY <2>1
    <2>3. /\ target = "x86" /\ "x86" \in Targets /\ Going(m, tar, {a1}, {}) /\ m \in States /\ m.pinned = {}
          /\ ~ (X86Pool \subseteq m.pinned)
      BY <1>1, x86_Begin
    <2>4. k \in Reached(m, A, {}) /\ k.res.r1 \in Regs /\ Free(k, k.res.r1, a1, Live1(m, tar, a1))
      BY <1>1, <2>2, <2>3, x86_LoadedRight
    <2>5. k \in States /\ k \in Gen BY <2>2, <2>3, <2>4, ReachedIs
    <2>6. RightRes(k, a1) \in Emitted(k) BY <2>5, EmittedSelf, RightEmits
    <2>7. Copies(RightRes(k, a1), tar, a1) \in Emitted(k) BY <2>6, CopiesEmits
    <2>8. k \in Still(k, A) BY <2>2, <2>5, StillSelf
    <2>9. Commit(UPDATE_ADDRESSES(Copies(RightRes(k, a1), tar, a1), tar, a1, Const))
      BY <1>1, <1>3 DEF UPDATE_ADDRESSES_UNARY
    <2> QED BY <1>3, <2>2, <2>3, <2>4, <2>7, <2>8, <2>9, x86_Computed
  <1> QED BY <1>2, <1>3

LEMMA x86_AliasedFewer ==
  ASSUME NEW m \in States PROVE spill_aliased_objects(m) \in Fewer(m)
  <1>1. Aliased \in SUBSET Vars BY CGenRegsAssumption DEF Aliased, Ids
  <1> QED BY <1>1, x86_SpillTheseFewer DEF spill_aliased_objects

LEMMA x86_SaveStored ==
  ASSUME NEW m \in States, NEW A \in SUBSET Vars, NEW r PROVE Save(m, r) \in Stored(m, A)
  <1>1. m \in Emitted(m) BY EmittedSelf DEF States
  <1>2. Save(m, r) \in Emitted(m) BY <1>1, SaveEmits
  <1> QED BY <1>2, EmittedStored

LEMMA x86_ToStored ==
  ASSUME NEW m \in States, NEW A \in SUBSET Vars, NEW a \in A
  PROVE  ToSource(m, a) \in Stored(m, A) /\ ToTarget(m, a) \in Stored(m, A)
  <1>1. ASSUME NEW r \in Regs PROVE x86_load(Save(m, r), r, a) \in Stored(m, A)
    <2>1. PICK q : q = Save(m, r) OBVIOUS
    <2>2. q \in Stored(m, A) /\ q \in States BY <2>1, x86_SaveStored, StoredIs
    <2>3. Load(q, r, a) \in Stored(q, A) BY <2>2, LoadStored
    <2> QED BY <2>1, <2>2, <2>3, StoredTrans DEF x86_load
  <1> QED BY <1>1, StoredSelf, x86_Regs DEF ToSource, ToTarget

LEMMA x86_StoredStructStill ==
  ASSUME NEW n \in States, NEW A \in SUBSET Vars, NEW a1 \in A, NEW a2 \in A
  PROVE  StoredStruct(n, a1, a2) \in Still(n, A)
  <1>1. PICK k : k = ToSource(n, a2) OBVIOUS
  <1>2. k \in Stored(n, A) /\ k \in States BY <1>1, x86_ToStored, StoredIs
  <1>3. PICK l : l = ToTarget(k, a1) OBVIOUS
  <1>4. l \in Stored(k, A) /\ l \in Gen BY <1>2, <1>3, x86_ToStored, StoredIs
  <1>5. PICK q : q = RightIn(RightIn(l, ESI, a2, 1), EDI, a1, 1) OBVIOUS
  <1>6. q \in Emitted(l) BY <1>4, <1>5, EmittedSelf, RightEmits
  <1>7. n \in Gen BY DEF States
  <1>8. StoredStruct(n, a1, a2) \in Emitted(l) BY <1>1, <1>3, <1>5, <1>6, <1>7, CopyEmits DEF StoredStruct
  <1>9. l \in Stored(n, A) BY <1>2, <1>4, StoredTrans
  <1>10. StoredStruct(n, a1, a2) \in Stored(n, A) BY <1>8, <1>9, StoredThen
  <1> QED BY <1>10, StoredStill

LEMMA x86_LoadRightStill ==
  ASSUME NEW m \in States, NEW A \in SUBSET Vars, NEW r \in Regs, NEW a \in A \cup {Const}
  PROVE  LoadRight(m, r, a) \in Still(m, A)
  <1>1. PICK l : l = x86_load(m, r, a) OBVIOUS
  <1>2. l \in Stored(m, A) BY <1>1, LoadStored DEF x86_load
  <1>3. l \in Still(m, A) BY <1>2, StoredStill
  <1> QED BY <1>1, <1>3, RightInStill DEF LoadRight

LEMMA x86_IndRight ==
  ASSUME x86_Runs, NEW tar \in Vars, NEW a1 \in Vars, x86_ind(tar, a1) PROVE IInv'
  <1>1. PICK m, s, k, p :
          /\ m \in Marks(tar, {a1}, AddrTaken)
          /\ Enabled("x86", "ind")
          /\ s = spill_aliased_objects(m) /\ k = Loaded(s, tar, a1) /\ p = LoadedLow(s, tar, a1)
          /\ \/ /\ tar \in Wide
                /\ Commit(UPDATE_ADDRESSES2(Computes2(ReadsMemory(RightRes(p, a1), Pointed), tar), tar, a1, Const))
             \/ /\ tar \in Structs
                /\ Commit(UPDATE_ADDRESSES(ComputesAt(ReadsMemory(RightRes(k, a1), Pointed), tar, Far), tar, a1, Const))
             \/ /\ tar \notin Wide \cup Structs
                /\ Commit(UPDATE_ADDRESSES(Computes(ReadsMemory(RightRes(k, a1), Pointed), tar), tar, a1, Const))
    BY DEF x86_ind, UPDATE_ADDRESSES_UNARY, UPDATE_ADDRESSES_UNARY2
  <1>2. PICK A : A = {a1} OBVIOUS
  <1>3. /\ A \in SUBSET Vars /\ A \subseteq {a1} /\ a1 \in A \cup {Const} /\ {a1} \subseteq {a1, Const}
        /\ AddrTaken \subseteq Crossing /\ Far \in Locs
    BY <1>2, CGenAssumption DEF Locs
  <1>4. /\ target = "x86" /\ "x86" \in Targets /\ Going(m, tar, {a1}, {}) /\ m \in States /\ m.pinned = {}
    BY <1>1, <1>3, x86_Begin
  <1>5. s \in Fewer(m) BY <1>1, <1>4, x86_AliasedFewer
  <1>6. m \in Reached(m, A, {}) BY <1>3, <1>4, ReachedSelf
  <1>7. s \in Reached(m, A, {}) BY <1>3, <1>4, <1>5, <1>6, ReachedFewer
  <1>8. s \in States /\ s.pinned = {} /\ s.fut = m.fut BY <1>3, <1>4, <1>7, ReachedState
  <1>9. ~ (X86Pool \subseteq s.pinned) BY <1>8, X86Assumption
  <1>10. Live1(s, tar, a1) = Live1(m, tar, a1) BY <1>8, LiveSame
  <1>11. ASSUME NEW l \in States PROVE ReadsMemory(RightRes(l, a1), Pointed) \in Emitted(l)
    <2>1. RightRes(l, a1) \in Emitted(l) BY EmittedSelf, RightEmits DEF States
    <2> QED BY <2>1, ReadsMemoryEmits
  <1>12. CASE tar \in Wide
    <2>1. p \in Reached(s, A, {}) /\ Ready2(p, a1, Live1(m, tar, a1), Regs)
      BY <1>1, <1>3, <1>8, <1>10, x86_LoadedLowRight DEF x86_Runs
    <2>2. p \in Reached(m, A, {}) /\ p \in States BY <1>3, <1>4, <1>7, <2>1, ReachedTrans, ReachedIs
    <2>3. PICK q : q = ReadsMemory(RightRes(p, a1), Pointed) OBVIOUS
    <2>4. q \in Emitted(p) BY <1>11, <2>2, <2>3
    <2>5. q.res.r1 \in Regs /\ q.res.r2 \in Regs BY <2>1, <2>4 DEF Emitted, Ready2, Ready, Free
    <2>6. Computes2(q, tar) \in Emitted(p) BY <2>4, <2>5, Computes2Emits
    <2>7. p \in Still(p, A) BY <1>3, <2>2, StillSelf
    <2>8. Commit(UPDATE_ADDRESSES2(Computes2(q, tar), tar, a1, Const))
      BY <1>1, <1>12, <2>3, CGenRegsAssumption
    <2> QED BY <1>3, <1>4, <1>12, <2>1, <2>2, <2>6, <2>7, <2>8, x86_Computed2
  <1>13. CASE tar \notin Wide
    <2>1. k \in Reached(s, A, {}) /\ k.res.r1 \in Regs /\ Free(k, k.res.r1, a1, Live1(m, tar, a1))
      BY <1>1, <1>3, <1>8, <1>9, <1>10, x86_LoadedRight
    <2>2. k \in Reached(m, A, {}) /\ k \in States BY <1>3, <1>4, <1>7, <2>1, ReachedTrans, ReachedIs
    <2>3. PICK q : q = ReadsMemory(RightRes(k, a1), Pointed) OBVIOUS
    <2>4. q \in Emitted(k) BY <1>11, <2>2, <2>3
    <2>5. q.res.r1 \in Regs BY <2>1, <2>4 DEF Emitted
    <2>6. PICK n : n = IF tar \in Structs THEN ComputesAt(q, tar, Far) ELSE Computes(q, tar) OBVIOUS
    <2>7. n \in Emitted(k) BY <1>3, <2>4, <2>5, <2>6, ComputesEmits, ComputesAtEmits
    <2>8. k \in Still(k, A) BY <1>3, <2>2, StillSelf
    <2>9. Commit(UPDATE_ADDRESSES(n, tar, a1, Const)) BY <1>1, <1>13, <2>3, <2>6
    <2> QED BY <1>3, <1>4, <1>13, <2>1, <2>2, <2>7, <2>8, <2>9, x86_Computed
  <1> QED BY <1>12, <1>13

LEMMA x86_StoredWordStill ==
  ASSUME NEW n \in States, NEW A \in SUBSET Vars, NEW a2 \in A \cup {Const}, ~ (X86Pool \subseteq n.pinned)
  PROVE  StoredWord(n, a2) \in Still(n, A)
  <1>1. n \in Still(n, A) BY StillSelf
  <1> QED BY <1>1, RightInStill, x86_LoadGotStill DEF StoredWord

\* The pointer keeps its register pinned while the pair is loaded.
LEMMA x86_StoredPairStill ==
  ASSUME NEW n \in States, NEW A \in SUBSET Vars, NEW a2 \in A \cup {Const}, a2 \in Wide \cup {Const},
         NEW r \in Regs, n.pinned \subseteq {r}, Roomy(X86Pool)
  PROVE  StoredPair(n, a2) \in Still(n, A)
  <1>1. n \in Still(n, A) BY StillSelf
  <1>2. CASE a2 = Const BY <1>1, <1>2 DEF StoredPair
  <1>3. CASE a2 # Const /\ InReg(n, a2) BY <1>1, <1>3, x86_PushPairStill DEF StoredPair
  <1>4. CASE a2 # Const /\ ~InReg(n, a2)
    <2>1. PICK g : g = get_reg2(n, Const, TRUE) OBVIOUS
    <2>2. /\ g \in After(n, {}) /\ g.pinned = n.pinned \ {g.res.r1} /\ Ready2(g, Const, TRUE, Regs)
          /\ g.res.r1 \notin n.pinned
      BY <2>1, x86_GetReg2
    <2>3. g \in States /\ g.pinned = n.pinned /\ g.res.r1 \in Regs /\ g.res.r2 \in Regs
      BY <2>2, AfterIs DEF Ready2, Ready, Free
    <2>4. ~InReg(g, a2)
      <3>1. g.addr[a2] \in {n.addr[a2], NoReg} BY <1>4, <2>2, AfterIs
      <3> QED BY <1>4, <3>1 DEF InReg, addr_reg1, NoReg
    <2>5. PICK q : q = LoadRes2(g, a2) OBVIOUS
    <2>6. q \in Stored(g, A) BY <2>3, <2>4, <2>5, LoadedPair DEF LoadRes2, LoadRight2, x86_load2
    <2>7. q \in After(g, A) /\ q.pinned = g.pinned /\ q \in States BY <2>3, <2>6, StoredIs
    <2>8. g \in After(n, A) BY <2>2, AfterMore
    <2>9. q \in After(n, A) BY <2>7, <2>8, AfterTrans
    <2>10. PICK w : w = [q EXCEPT !.res = n.res] OBVIOUS
    <2>11. n.res \in Pairs BY DEF States, Gen
    <2>12. w \in Picked(q) /\ w.pinned = q.pinned /\ w.res = n.res
      BY <2>7, <2>10, <2>11 DEF Picked, States, Gen
    <2>13. w \in After(q, A) BY <2>7, <2>12, PickedAfter
    <2>14. w \in After(n, A) BY <2>9, <2>13, AfterTrans
    <2>15. StoredPair(n, a2) = w BY <1>4, <2>1, <2>5, <2>10 DEF StoredPair, LoadPair
    <2> QED BY <2>3, <2>7, <2>12, <2>14, <2>15 DEF Still
  <1> QED BY <1>2, <1>3, <1>4

LEMMA x86_PointerRight ==
  ASSUME NEW s \in States, s.pinned = {}, NEW A \in SUBSET Vars, NEW a1 \in A, NEW k, k = Pointer(s, a1)
  PROVE  k \in Reached(s, A, k.pinned) /\ k.res.r1 \in Regs /\ k.pinned \subseteq {k.res.r1}
  <1>1. CASE InReg(s, a1)
    <2>1. addr_reg1(s, a1) \in Regs BY <1>1, RegOf
    <2>2. s \in Reached(s, A, {}) BY ReachedSelf
    <2>3. k = Into(s, addr_reg1(s, a1), None) BY <1>1 DEF Pointer
    <2>4. k \in Reached(s, A, {}) /\ k.res.r1 = addr_reg1(s, a1) BY <2>1, <2>2, <2>3, ReachedInto
    <2>5. k.pinned = {} BY <2>4, ReachedState
    <2> QED BY <2>1, <2>4, <2>5
  <1>2. CASE ~InReg(s, a1)
    <2>1. PICK l : l = Loaded(s, NoVar, a1) OBVIOUS
    <2>2. l \in Reached(s, A, {}) /\ l.res.r1 \in Regs
      <3>1. ~ (X86Pool \subseteq s.pinned) BY X86Assumption
      <3> QED BY <2>1, <3>1, x86_LoadedRight
    <2>3. PICK r : r = l.res.r1 OBVIOUS
    <2>4. r \in Regs /\ k = pin_reg(l, r) BY <1>2, <2>1, <2>2, <2>3 DEF Pointer, PinRes
    <2>5. k \in Reached(s, A, {} \cup {r}) /\ k.res = l.res BY <2>2, <2>4, ReachedPin
    <2>6. {} \cup {r} = {r} OBVIOUS
    <2>7. k \in Reached(s, A, {r}) /\ k.pinned = {r} BY <2>5, <2>6, ReachedState
    <2> QED BY <2>3, <2>4, <2>5, <2>7
  <1> QED BY <1>1, <1>2

LEMMA x86_IndAsnRight ==
  ASSUME x86_Runs, NEW a1 \in Vars, NEW a2 \in Vars \cup {Const}, x86_ind_asn(a1, a2) PROVE IInv'
  <1>1. PICK m, s, k, d, q, m2 :
          /\ m \in Marks(NoVar, {a1, a2}, {})
          /\ Enabled("x86", "ind_asn")
          /\ s = spill_aliased_objects(m) /\ k = Pointer(s, a1)
          /\ d = IF a2 \in Wide THEN StoredPair(k, a2) ELSE StoredWord(k, a2)
          /\ q = RightIn(d, d.res.r1, a1, 1)
          /\ m2 = IF a2 \in Structs THEN StoredStruct(s, a1, a2) ELSE unpin_reg(q, q.res.r1)
          /\ Commit(update_args(WritesMemory(m2, Pointed), NoVar, a1, a2))
    <2>1. PICK m \in Marks(NoVar, {a1, a2}, {}) :
            /\ Enabled("x86", "ind_asn")
            /\ \/ /\ a2 \in Structs
                  /\ Commit(update_args(WritesMemory(StoredStruct(spill_aliased_objects(m), a1, a2), Pointed),
                                        NoVar, a1, a2))
               \/ /\ a2 \in Wide
                  /\ Commit(update_args(WritesMemory(PointerRight(StoredPair(Pointer(spill_aliased_objects(m), a1), a2),
                                                                  a1), Pointed), NoVar, a1, a2))
               \/ /\ a2 \notin Structs \cup Wide
                  /\ Commit(update_args(WritesMemory(PointerRight(StoredWord(Pointer(spill_aliased_objects(m), a1), a2),
                                                                  a1), Pointed), NoVar, a1, a2))
      BY DEF x86_ind_asn
    <2>2. PICK s : s = spill_aliased_objects(m) OBVIOUS
    <2>3. PICK k : k = Pointer(s, a1) OBVIOUS
    <2>4. PICK d : d = IF a2 \in Wide THEN StoredPair(k, a2) ELSE StoredWord(k, a2) OBVIOUS
    <2>5. PICK q : q = RightIn(d, d.res.r1, a1, 1) OBVIOUS
    <2>6. PICK m2 : m2 = IF a2 \in Structs THEN StoredStruct(s, a1, a2) ELSE unpin_reg(q, q.res.r1) OBVIOUS
    <2>7. a2 \in Structs => a2 \notin Wide BY CGenRegsAssumption
    <2>8. Commit(update_args(WritesMemory(m2, Pointed), NoVar, a1, a2))
      BY <2>1, <2>2, <2>3, <2>4, <2>5, <2>6, <2>7 DEF PointerRight, UnpinRes
    <2> QED BY <2>1, <2>2, <2>3, <2>4, <2>5, <2>6, <2>8
  <1>2. PICK A : A = Named(a1, a2) OBVIOUS
  <1>3. /\ A \in SUBSET Vars /\ A \subseteq {a1, a2} /\ a1 \in A \cup {Const} /\ a2 \in A \cup {Const}
        /\ a1 \in A /\ (a2 \in Structs => a2 \in A) /\ Pointed \in SUBSET Vars
    BY <1>2, NamedIs, CGenRegsAssumption DEF Named, Ids
  <1>4. /\ target = "x86" /\ "x86" \in Targets /\ Going(m, NoVar, {a1, a2}, {}) /\ m \in States /\ m.pinned = {}
    BY <1>1, x86_Begin
  <1>5. s \in Fewer(m) BY <1>1, <1>4, x86_AliasedFewer
  <1>6. m \in Reached(m, A, {}) BY <1>3, <1>4, ReachedSelf
  <1>7. s \in Reached(m, A, {}) BY <1>3, <1>4, <1>5, <1>6, ReachedFewer
  <1>8. s \in States /\ s.pinned = {} BY <1>3, <1>4, <1>7, ReachedState
  <1>9. m2 \in Reached(m, A, {})
    <2>1. CASE a2 \in Structs
      <3>1. m2 \in Still(s, A) BY <1>1, <1>3, <1>8, <2>1, x86_StoredStructStill
      <3> QED BY <1>3, <1>4, <1>7, <3>1, ReachedStill
    <2>2. CASE a2 \notin Structs
      <3>1. PICK p : p = k.pinned OBVIOUS
      <3>2. k \in Reached(s, A, p) /\ k.res.r1 \in Regs /\ p \subseteq {k.res.r1}
        BY <1>1, <1>3, <1>8, <3>1, x86_PointerRight
      <3>3. p \ {k.res.r1} = {} BY <3>2
      <3>4. k \in States /\ k.pinned = p BY <1>3, <1>8, <3>2, ReachedState
      <3>5. ~ (X86Pool \subseteq k.pinned)
        <4>1. ~ (X86Pool \subseteq {k.res.r1}) BY <3>2 DEF x86_Runs, Roomy
        <4> QED BY <3>2, <3>4, <4>1
      <3>6. d \in Still(k, A)
        <4>1. CASE a2 \in Wide
          <5>1. StoredPair(k, a2) \in Still(k, A)
            BY <1>3, <3>2, <3>4, <4>1, x86_StoredPairStill DEF x86_Runs
          <5> QED BY <1>1, <4>1, <5>1
        <4>2. CASE a2 \notin Wide BY <1>1, <1>3, <3>4, <3>5, <4>2, x86_StoredWordStill
        <4> QED BY <4>1, <4>2
      <3>7. d \in Reached(s, A, p) /\ d.res = k.res BY <1>3, <1>8, <3>2, <3>6, ReachedStill
      <3>8. d \in Gen BY <1>3, <1>8, <3>7, ReachedIs
      <3>9. q \in Emitted(d) BY <1>1, <3>8, EmittedSelf, RightEmits
      <3>10. q \in Reached(s, A, p) /\ q.res = d.res BY <1>3, <1>8, <3>7, <3>9, ReachedEmitted
      <3>11. m2 \in Reached(s, A, p \ {k.res.r1}) BY <1>1, <1>3, <1>8, <2>2, <3>7, <3>10, ReachedUnpin
      <3> QED BY <1>3, <1>4, <1>7, <3>3, <3>11, ReachedTrans
    <2> QED BY <2>1, <2>2
  <1>10. m2 \in States /\ m2 \in Gen BY <1>3, <1>4, <1>9, ReachedIs
  <1>11. WritesMemory(m2, Pointed) \in Emitted(m2) BY <1>3, <1>10, EmittedSelf, WritesMemoryEmits
  <1>12. WritesMemory(m2, Pointed) \in Reached(m, A, {}) BY <1>3, <1>4, <1>9, <1>11, ReachedEmitted
  <1> QED BY <1>1, <1>3, <1>4, <1>12, x86_Read

-----------------------------------------------------------------------------
(* x86_cgen.c: calls                                                       *)

\* The registers x86_pre_call() empties.
LEMMA x86_SpillAllRight ==
  ASSUME NEW m \in States PROVE spill_all(m) \in Fewer(m) /\ \A r \in Regs : spill_all(m).reg[r] = NoVar
  <1>1. PICK s : s = spill_all(m) OBVIOUS
  <1>2. s \in Fewer(m) /\ \A r \in Regs : s.reg[r] \notin Vars
    BY <1>1, x86_SpillTheseFewer DEF spill_all
  <1>3. s \in States BY <1>2, FewerIs
  <1>4. \A r \in Regs : s.reg[r] = NoVar BY <1>2, <1>3, OwnerIs
  <1> QED BY <1>1, <1>2, <1>4

LEMMA x86_CalledRight ==
  ASSUME NEW m \in States, NEW A \in SUBSET Vars, NEW k \in Reached(m, A, {})
  PROVE  Called(k, CallerSave) \in Reached(m, A, {}) /\ Called(k, CallerSave).reg = k.reg
  <1>1. CallerSave \in SUBSET Int BY DEF CallerSave, EAX, ECX, EDX
  <1>2. k \in Gen BY ReachedIs
  <1>3. Called(k, CallerSave) \in Emitted(k) BY <1>1, <1>2, EmittedSelf, CalledEmits
  <1> QED BY <1>3, ReachedEmitted

LEMMA x86_PostCallRight ==
  ASSUME NEW n, NEW tar, NEW args, Going(n, tar, args, {}), n.args = arg_words, NEW k \in 0 .. MaxPushed, k <= arg_words
  PROVE  Going(Pops(n, k), tar, args, {}) /\ Pops(n, k).reg = n.reg
  <1>1. n.args \in 0 .. MaxArgs + 4 /\ n \in Gen BY GoingIs DEF Going, States
  <1>2. PICK j : j = n.args - k OBVIOUS
  <1>3. j \in 0 .. MaxArgs + 4 BY <1>1, <1>2, CGenAssumption
  <1>4. Pops(n, k) = [n EXCEPT !.args = j] BY <1>1, <1>2 DEF Pops, Gen
  <1>5. Going([n EXCEPT !.args = j], tar, args, {}) BY <1>3, GoingArgs
  <1>6. [n EXCEPT !.args = j].reg = n.reg BY <1>1 DEF Gen
  <1> QED BY <1>4, <1>5, <1>6


\* The call has been made, and all registers are empty.
LEMMA x86_ReturnedRight ==
  ASSUME target = "x86", "x86" \in Targets, NEW tar \in Vars \cup {NoVar}, NEW n, Going(n, tar, {}, {}),
         \A r \in Regs : n.reg[r] = NoVar, Commit(Returned(n, tar))
  PROVE  IInv'
  <1>0. n \in States /\ n.pinned = {} /\ n \in Reached(n, {}, {})
    <2>1. n \in States /\ n.pinned = {} BY GoingIs
    <2> QED BY <2>1, ReachedSelf
  <1>1. CASE tar \notin Vars
    <2>1. tar = NoVar /\ tar \notin Structs /\ tar \notin Wide BY <1>1, CGenRegsAssumption
    <2>2. Returned(n, tar) = n BY <1>1, <2>1 DEF Returned
    <2> QED BY <2>1, <2>2, x86_Ends
  <1>2. CASE tar \in Wide
    <2>1. PICK k : k = Into(n, EAX, EDX) OBVIOUS
    <2>2. k \in Reached(n, {}, {}) /\ k.res.r1 = EAX /\ k.res.r2 = EDX /\ k.reg = n.reg
      BY <1>0, <2>1, ReachedInto, x86_Regs
    <2>3. k \in Gen /\ tar \in Vars BY <1>0, <1>2, <2>2, ReachedIs, CGenRegsAssumption
    <2>4. PICK q : q = Computes2(k, tar) OBVIOUS
    <2>5. q \in Emitted(k) BY <2>2, <2>3, <2>4, EmittedSelf, Computes2Emits, x86_Regs
    <2>6. q \in Reached(n, {}, {}) /\ q.res = k.res /\ q.reg = k.reg BY <1>0, <2>2, <2>5, ReachedEmitted
    <2>7. Going(q, tar, {}, {}) BY <2>6, GoingReached
    <2>8. EAX \in Regs /\ EDX \in Regs /\ EAX # EDX BY x86_Regs DEF EAX, EDX
    <2>9. Returned(n, tar) = update_tar2(q, tar) BY <1>2, <2>1, <2>4 DEF Returned
    <2> QED BY <1>2, <2>2, <2>6, <2>7, <2>8, <2>9, x86_Sets2
  <1>3. CASE tar \in Vars \ Wide
    <2>3. PICK k : k = Into(n, EAX, None) OBVIOUS
    <2>4. k \in Reached(n, {}, {}) /\ k.res.r1 = EAX /\ k.reg = n.reg
      BY <1>0, <2>3, ReachedInto, x86_Regs
    <2>5. k \in States /\ k \in Gen BY <1>0, <2>4, ReachedIs
    <2>6. k \in Emitted(k) BY <2>5, EmittedSelf
    <2>7. PICK l : l = [k EXCEPT !.M[Area][1] = {}] OBVIOUS
    <2>8. l \in Emitted(k) BY <2>6, <2>7, AreaEmits
    <2>9. l.res.r1 = EAX BY <2>4, <2>8 DEF Emitted
    <2>10. PICK q : q = IF tar \in Structs THEN ComputesAt(l, tar, Area) ELSE Computes(k, tar) OBVIOUS
    <2>11. q \in Emitted(k)
      <3>1. Area \in Locs BY DEF Locs
      <3> QED BY <1>3, <2>4, <2>6, <2>8, <2>9, <2>10, <3>1, ComputesEmits, ComputesAtEmits, x86_Regs
    <2>12. q \in Reached(n, {}, {}) /\ q.res = k.res /\ q.reg = k.reg BY <1>0, <2>4, <2>11, ReachedEmitted
    <2>13. Going(q, tar, {}, {}) BY <2>12, GoingReached
    <2>14. Returned(n, tar) = update_tar(q, tar) BY <1>3, <2>3, <2>7, <2>10 DEF Returned
    <2>15. q.res.r1 \in Regs /\ q.reg[q.res.r1] = NoVar BY <2>4, <2>12, x86_Regs
    <2> QED BY <1>3, <2>13, <2>14, <2>15, x86_Sets
  <1> QED BY <1>1, <1>2, <1>3

LEMMA x86_CallRight ==
  ASSUME x86_Runs, NEW tar \in Vars \cup {NoVar}, NEW nargs \in 0 .. MaxPushed, x86_call(tar, nargs)
  PROVE  IInv'
  <1>1. PICK m, c, m1, p :
          /\ m \in Marks(tar, {}, AddrTaken \cup Statics)
          /\ Enabled("x86", "call") /\ nargs <= arg_words
          /\ c = spill_all(m) /\ m1 = Called(c, CallerSave) /\ p = Pops(m1, nargs)
          /\ Commit(Returned(p, tar))
    BY DEF x86_call
  <1>2. AddrTaken \cup Statics \subseteq Crossing BY CGenAssumption
  <1>3. /\ target = "x86" /\ "x86" \in Targets /\ Going(m, tar, {}, {}) /\ m.args = arg_words /\ m \in States
        /\ m.pinned = {}
    BY <1>1, <1>2, x86_Begin
  <1>4. c \in Reached(m, {}, {}) /\ \A r \in Regs : c.reg[r] = NoVar
    BY <1>1, <1>3, x86_SpillAllRight, ReachedSelf, ReachedFewer
  <1>5. m1 \in Reached(m, {}, {}) /\ m1.reg = c.reg BY <1>1, <1>3, <1>4, x86_CalledRight
  <1>6. Going(m1, tar, {}, {}) BY <1>3, <1>5, GoingReached
  <1>7. m1.args = arg_words
    <2>1. m1.args = m.args BY <1>3, <1>5, ReachedState
    <2> QED BY <1>3, <2>1
  <1>8. Going(p, tar, {}, {}) /\ p.reg = m1.reg BY <1>1, <1>6, <1>7, x86_PostCallRight
  <1> QED BY <1>1, <1>3, <1>4, <1>5, <1>8, x86_ReturnedRight

LEMMA x86_IndCallRight ==
  ASSUME x86_Runs, NEW tar \in Vars \cup {NoVar}, NEW a1 \in Vars, NEW nargs \in 0 .. MaxPushed,
         x86_indcall(tar, a1, nargs)
  PROVE  IInv'
  <1>1. PICK m, c, m1, d, m2, u :
          /\ m \in Marks(tar, {a1}, AddrTaken \cup Statics)
          /\ Enabled("x86", "indcall") /\ nargs <= arg_words
          /\ c = spill_all(m) /\ m1 = OperandRight(c, a1)
          /\ d = Called(m1, CallerSave) /\ m2 = Pops(d, nargs)
          /\ u = update_args(m2, tar, a1, Const) /\ Commit(Returned(u, tar))
    BY DEF x86_indcall
  <1>2. PICK A : A = {a1} OBVIOUS
  <1>3. /\ AddrTaken \cup Statics \subseteq Crossing /\ A \in SUBSET Vars /\ A \subseteq {a1}
        /\ a1 \in A \cup {Const} /\ {a1} \subseteq {a1, Const}
    BY <1>2, CGenAssumption
  <1>4. /\ target = "x86" /\ "x86" \in Targets /\ Going(m, tar, {a1}, {}) /\ m.args = arg_words /\ m \in States
        /\ m.pinned = {} /\ ~ (X86Pool \subseteq {})
    BY <1>1, <1>3, x86_Begin
  <1>5. c \in Fewer(m) /\ \A r \in Regs : c.reg[r] = NoVar BY <1>1, <1>4, x86_SpillAllRight
  <1>6. c \in States /\ c.pinned = {} BY <1>4, <1>5, FewerIs
  <1>7. c \in Reached(m, A, {}) BY <1>3, <1>4, <1>5, ReachedSelf, ReachedFewer
  <1>8. m1 \in Still(c, A)
    <2>1. c \in Still(c, A) BY <1>3, <1>6, StillSelf
    <2> QED BY <1>1, <1>3, <1>4, <1>6, <2>1, x86_OperandRightStill
  <1>11. m1 \in Reached(m, A, {}) BY <1>3, <1>4, <1>7, <1>8, ReachedStill
  <1>12. \A r \in Regs : m1.reg[r] = NoVar
    <2>1. m1 \in After(c, A) BY <1>3, <1>6, <1>8, StillIs
    <2>2. \A r \in Regs : m1.reg[r] \in {c.reg[r], NoVar} BY <1>3, <1>6, <2>1, AfterIs
    <2> QED BY <1>5, <2>2
  <1>13. d \in Reached(m, A, {}) /\ d.reg = m1.reg BY <1>1, <1>3, <1>4, <1>11, x86_CalledRight
  <1>14. Going(d, tar, {a1, Const}, {}) BY <1>3, <1>4, <1>13, GoingReached
  <1>15. d.args = arg_words
    <2>1. d.args = m.args BY <1>3, <1>4, <1>13, ReachedState
    <2> QED BY <1>4, <2>1
  <1>16. Going(m2, tar, {a1, Const}, {}) /\ m2.reg = d.reg BY <1>1, <1>14, <1>15, x86_PostCallRight
  <1>17. Going(u, tar, {}, {}) BY <1>1, <1>4, <1>16, x86_ArgsGoing
  <1>18. \A r \in Regs : u.reg[r] = NoVar
    <2>1. \A r \in Regs : m2.reg[r] = NoVar BY <1>12, <1>13, <1>16
    <2>2. Const \in Vars \cup {Const} /\ a1 \in Vars \cup {Const} OBVIOUS
    <2>3. ASSUME NEW r \in Regs PROVE update_args(m2, tar, a1, Const).reg[r] = NoVar
      <3>1. target = "x86" /\ Going(m2, tar, {a1, Const}, {}) BY <1>4, <1>16
      <3>2. m2.reg[r] = NoVar BY <2>1
      <3> QED BY <2>2, <3>1, <3>2, x86_ArgsFree
    <2> QED BY <1>1, <2>3
  <1> QED BY <1>1, <1>4, <1>17, <1>18, x86_ReturnedRight

LEMMA x86_LibcallRight ==
  ASSUME x86_Runs, NEW tar \in Vars, NEW a1 \in Wide \cup {Const}, NEW a2 \in Vars \cup {Const},
         x86_do_libcall(tar, a1, a2)
  PROVE  IInv'
  <1>1. PICK m, p, m1, s, m2, k, q :
          /\ m \in Marks(tar, {a1, a2}, {}) /\ Enabled("x86", "do_libcall")
          /\ p = IF a2 \in Wide THEN PushPair(m, a2) ELSE OperandRight(m, a2)
          /\ m1 = PushPair(p, a1) /\ s = spill_all(m1) /\ m2 = Clobber(s, CallerSave)
          /\ k = IF tar \in Wide THEN Into(m2, EAX, EDX) ELSE Into(m2, EAX, None)
          /\ q = IF tar \in Wide THEN Computes2(k, tar) ELSE Computes(k, tar)
          /\ IF tar \in Wide THEN Commit(UPDATE_ADDRESSES2(q, tar, a1, a2))
                             ELSE Commit(UPDATE_ADDRESSES(q, tar, a1, a2))
    BY DEF x86_do_libcall
  <1>2. PICK A : A = Named(a1, a2) OBVIOUS
  <1>3. /\ A \in SUBSET Vars /\ A \subseteq {a1, a2} /\ a1 \in A \cup {Const} /\ a2 \in A \cup {Const}
        /\ a1 \in Vars \cup {Const}
    BY <1>2, NamedIs, CGenRegsAssumption
  <1>4. /\ target = "x86" /\ "x86" \in Targets /\ Going(m, tar, {a1, a2}, {}) /\ m \in States /\ m.pinned = {}
        /\ ~ (X86Pool \subseteq m.pinned)
    BY <1>1, x86_Begin
  <1>5. p \in Still(m, A)
    <2>1. m \in Still(m, A) BY <1>3, <1>4, StillSelf
    <2> QED BY <1>1, <1>3, <1>4, <2>1, x86_PushPairStill, x86_OperandRightStill
  <1>6. m1 \in Still(m, A) BY <1>1, <1>3, <1>4, <1>5, x86_PushPairStill
  <1>7. m1 \in States BY <1>3, <1>4, <1>6, StillIs
  <1>8. s \in Fewer(m1) /\ \A r \in Regs : s.reg[r] = NoVar BY <1>1, <1>7, x86_SpillAllRight
  <1>9. s \in Still(m, A) BY <1>3, <1>4, <1>6, <1>8, StillThenFewer
  <1>10. m2 \in Emitted(s)
    <2>1. CallerSave \in SUBSET Int BY DEF CallerSave, EAX, ECX, EDX
    <2>2. s \in Gen BY <1>3, <1>4, <1>9, StillIs DEF States
    <2> QED BY <1>1, <2>1, <2>2, EmittedSelf, ClobberEmits
  <1>11. m2 \in Still(m, A) BY <1>3, <1>4, <1>9, <1>10, StillThenEmitted
  <1>12. m2 \in Reached(m, A, {}) BY <1>3, <1>4, <1>11, ReachedSelf, ReachedStill
  <1>13. \A r \in Regs : m2.reg[r] = NoVar BY <1>8, <1>10 DEF Emitted
  <1>14. EAX \in Regs /\ EDX \in Regs /\ EAX # EDX BY x86_Regs DEF EAX, EDX
  <1>15. k \in Reached(m, A, {}) /\ k.res.r1 = EAX /\ (tar \in Wide => k.res.r2 = EDX) /\ k.reg = m2.reg
    BY <1>1, <1>3, <1>4, <1>12, <1>14, ReachedInto
  <1>16. k \in States /\ k \in Gen BY <1>3, <1>4, <1>15, ReachedIs
  <1>17. q \in Emitted(k) BY <1>1, <1>14, <1>15, <1>16, EmittedSelf, ComputesEmits, Computes2Emits
  <1>18. k \in Still(k, A) BY <1>3, <1>16, StillSelf
  <1>19. \A r \in Regs : Free(k, r, a1, Live1(m, tar, a1)) BY <1>13, <1>15 DEF Free
  <1>20. CASE tar \in Wide
    <2>1. Ready2(k, a1, Live1(m, tar, a1), Regs) BY <1>14, <1>15, <1>19, <1>20 DEF Ready2, Ready
    <2> QED BY <1>1, <1>3, <1>4, <1>15, <1>17, <1>18, <1>20, <2>1, x86_Computed2
  <1>21. CASE tar \notin Wide
    <2>1. k.res.r1 \in Regs /\ Free(k, k.res.r1, a1, Live1(m, tar, a1)) BY <1>14, <1>15, <1>19
    <2> QED BY <1>1, <1>3, <1>4, <1>15, <1>17, <1>18, <1>21, <2>1, x86_Computed
  <1> QED BY <1>20, <1>21

LEMMA x86_PushStructStill ==
  ASSUME NEW m \in States, NEW A \in SUBSET Vars, NEW a \in A PROVE PushStruct(m, a) \in Still(m, A)
  <1>1. PICK k : k = ToSource(m, a) OBVIOUS
  <1>2. k \in Stored(m, A) /\ k \in Gen /\ m \in Gen BY <1>1, x86_ToStored, StoredIs DEF States
  <1>3. PICK l : l = RightIn(k, ESI, a, 1) OBVIOUS
  <1>4. PICK s : s = Save(l, EDI) OBVIOUS
  <1>5. PICK q : q = Clobber(s, {EDI}) OBVIOUS
  <1>6. {EDI} \in SUBSET Int BY DEF EDI
  <1>7. l \in Emitted(k) BY <1>2, <1>3, EmittedSelf, RightEmits
  <1>8. s \in Emitted(k) BY <1>4, <1>7, SaveEmits
  <1>9. q \in Emitted(k) BY <1>5, <1>6, <1>8, ClobberEmits
  <1>10. PICK c : c = Copy(q, m, addr_reg1(m, a) = ESI, FALSE) OBVIOUS
  <1>11. c \in Emitted(k) BY <1>2, <1>9, <1>10, CopyEmits
  <1>12. c \in Stored(m, A) BY <1>2, <1>11, StoredThen
  <1>13. PushStruct(m, a) = c BY <1>1, <1>3, <1>4, <1>5, <1>10 DEF PushStruct
  <1> QED BY <1>12, <1>13, StoredStill

LEMMA x86_ArgRight == ASSUME x86_Runs, NEW a1 \in Vars, x86_arg(a1) PROVE IInv'
  <1>1. PICK m, m1, u :
          /\ m \in Marks(NoVar, {a1}, {})
          /\ Enabled("x86", "arg") /\ arg_words < MaxPushed
          /\ m1 = IF a1 \in Structs THEN PushStruct(m, a1)
                  ELSE IF a1 \in Wide THEN PushPair(m, a1) ELSE OperandRight(m, a1)
          /\ u = update_args(m1, NoVar, a1, Const)
          /\ Commit([u EXCEPT !.args = @ + 1])
    BY DEF x86_arg, Pushed
  <1>2. PICK A : A = {a1} OBVIOUS
  <1>3. A \in SUBSET Vars /\ A \subseteq {a1} /\ a1 \in A /\ {a1} \subseteq {a1, Const} BY <1>2
  <1>4. /\ target = "x86" /\ "x86" \in Targets /\ Going(m, NoVar, {a1}, {}) /\ m.args = arg_words /\ m \in States
        /\ m.pinned = {} /\ ~ (X86Pool \subseteq m.pinned)
    BY <1>1, x86_Begin
  <1>5. m1 \in Still(m, A)
    <2>1. m \in Still(m, A) BY <1>3, <1>4, StillSelf
    <2>2. PushStruct(m, a1) \in Still(m, A) BY <1>3, <1>4, x86_PushStructStill
    <2>3. a1 \in Wide => PushPair(m, a1) \in Still(m, A) BY <1>3, <1>4, <2>1, x86_PushPairStill
    <2>4. OperandRight(m, a1) \in Still(m, A) BY <1>3, <1>4, <2>1, x86_OperandRightStill
    <2> QED BY <1>1, <2>2, <2>3, <2>4
  <1>6. m1 \in Reached(m, A, {}) BY <1>3, <1>4, <1>5, ReachedSelf, ReachedStill
  <1>7. Going(m1, NoVar, {a1, Const}, {}) BY <1>3, <1>4, <1>6, GoingReached
  <1>8. Going(u, NoVar, {}, {}) BY <1>1, <1>4, <1>7, x86_ArgsGoing
  <1>9. u.args = arg_words
    <2>1. m1.args = arg_words
      <3>1. m1.args = m.args BY <1>3, <1>4, <1>6, ReachedState
      <3> QED BY <1>4, <3>1
    <2>2. u \in Settled(m1, NoVar, a1, Regs) BY <1>1, <1>4, <1>7, x86_ArgsGoing
    <2>3. m1 \in States BY <1>7, GoingIs
    <2>4. u \in After(m1, {}) BY <2>2, <2>3, FewerIs DEF Settled
    <2> QED BY <2>1, <2>3, <2>4, AfterIs
  <1>10. PICK j : j = u.args + 1 OBVIOUS
  <1>11. j \in 0 .. MaxArgs + 4
    <2>1. u.args \in 0 .. MaxArgs + 4 BY <1>8 DEF Going
    <2>2. u.args < MaxPushed BY <1>1, <1>9
    <2>3. MaxPushed \in 0 .. MaxArgs /\ MaxArgs \in Nat BY CGenAssumption
    <2> QED BY <1>10, <2>1, <2>2, <2>3
  <1>12. Going([u EXCEPT !.args = j], NoVar, {}, {}) BY <1>8, <1>11, GoingArgs
  <1>13. [u EXCEPT !.args = j] = [u EXCEPT !.args = @ + 1] BY <1>10
  <1> QED BY <1>1, <1>4, <1>12, <1>13, x86_Ends

-----------------------------------------------------------------------------
(* x86_cgen.c: returns, jumps and switches                                 *)

LEMMA x86_SpillStill ==
  ASSUME NEW m \in States, NEW A \in SUBSET Vars, NEW n \in Still(m, A), NEW r \in Regs
  PROVE  spill_reg(n, r) \in Still(m, A)
  <1>1. n \in States BY StillIs
  <1>2. spill_reg(n, r) \in Fewer(n) BY <1>1, x86_SpillFewer
  <1> QED BY <1>2, StillThenFewer

LEMMA ModifiedStill ==
  ASSUME NEW m \in States, NEW A \in SUBSET Vars, NEW n \in Still(m, A), NEW r PROVE Modified(n, r) \in Still(m, A)
  <1>1. n \in Gen BY StillIs DEF States
  <1>2. Modified(n, r) \in Emitted(n) BY <1>1, EmittedSelf, ModifiedEmits
  <1> QED BY <1>2, StillThenEmitted

LEMMA x86_ReturnStructStill ==
  ASSUME NEW m \in States, NEW A \in SUBSET Vars, NEW a \in A PROVE ReturnStruct(m, a) \in Still(m, A)
  <1>1. {EDI} \in SUBSET Int BY DEF EDI
  <1>2. PICK l : l = LoadRight(m, ESI, a) OBVIOUS
  <1>3. PICK m1 : m1 = Modified(l, ESI) OBVIOUS
  <1>4. PICK s : s = spill_reg(m1, EDI) OBVIOUS
  <1>5. PICK d : d = Modified(s, EDI) OBVIOUS
  <1>6. PICK m2 : m2 = Clobber(d, {EDI}) OBVIOUS
  <1>7. PICK c : c = spill_reg(m2, ECX) OBVIOUS
  <1>8. l \in Still(m, A) BY <1>2, x86_LoadRightStill, x86_Regs
  <1>9. m1 \in Still(m, A) BY <1>3, <1>8, ModifiedStill
  <1>10. s \in Still(m, A) BY <1>4, <1>9, x86_SpillStill, x86_Regs
  <1>11. d \in Still(m, A) BY <1>5, <1>10, ModifiedStill
  <1>12. m2 \in Still(m, A) BY <1>1, <1>6, <1>11, ClobberStill
  <1>13. c \in Still(m, A) BY <1>7, <1>12, x86_SpillStill, x86_Regs
  <1>14. c \in Gen BY <1>13, StillIs DEF States
  <1>15. rep_movsb(c) \in Emitted(c) BY <1>14, EmittedSelf, rep_movsbEmits
  <1>16. rep_movsb(c) \in Still(m, A) BY <1>13, <1>15, StillThenEmitted
  <1> QED BY <1>2, <1>3, <1>4, <1>5, <1>6, <1>7, <1>16 DEF ReturnStruct

\* A pair is returned in EAX and EDX, unless load2() finds it where it does not expect it.
LEMMA x86_RetPairRight ==
  ASSUME x86_Runs, Enabled("x86", "ret2"), NEW a1 \in Wide, NEW m, m \in Marks(NoVar, {a1}, {}),
         NEW m1, m1 = LoadRight2(m, [r1 |-> EAX, r2 |-> EDX], a1), Commit(update_args(m1, NoVar, a1, Const))
  PROVE  IInv'
  <1>1. PICK A : A = {a1} OBVIOUS
  <1>2. /\ A \in SUBSET Vars /\ A \subseteq {a1} /\ a1 \in A /\ {a1} \subseteq {a1, Const} /\ a1 \in Vars
        /\ a1 # Const
    BY <1>1, CGenRegsAssumption
  <1>3. target = "x86" /\ "x86" \in Targets /\ Going(m, NoVar, {a1}, {}) /\ m \in States /\ m.pinned = {}
    BY x86_Begin
  <1>4. PICK d : d = [r1 |-> EAX, r2 |-> EDX] OBVIOUS
  <1>5. d.r1 \in Regs /\ d.r2 \in Regs BY <1>4, x86_Regs
  <1>6. CASE InReg(m, a1) => PairExpected(m.addr[a1], d, a1)
    <2>1. m1 \in Stored(m, A) BY <1>2, <1>3, <1>4, <1>5, <1>6, LoadedPair DEF LoadRight2, x86_load2
    <2>2. m1 \in Reached(m, A, {}) BY <1>2, <1>3, <2>1, ReachedSelf, ReachedStored
    <2> QED BY <1>2, <1>3, <2>2, x86_Read
  <1>7. CASE InReg(m, a1) /\ ~PairExpected(m.addr[a1], d, a1)
    <2>1. Misplaced BY <1>3 DEF Misplaced, Enabled
    <2>2. PICK f : f = Fault(m, "assert", FALSE) OBVIOUS
    <2>3. Going(f, NoVar, {a1}, {}) BY <1>3, <2>1, <2>2, GoingFaulty
    <2>4. f \in States /\ f \in Gen /\ f.pinned = {} BY <2>3, GoingIs DEF States
    <2>5. m1 = RightIn2(f, d, a1) BY <1>2, <1>4, <1>7, <2>2 DEF LoadRight2, x86_load2, Load2
    <2>6. m1 \in Emitted(f) BY <2>4, <2>5, EmittedSelf, RightEmits
    <2>7. m1 \in Reached(f, A, {}) BY <1>2, <2>4, <2>6, ReachedSelf, ReachedEmitted
    <2> QED BY <1>2, <1>3, <2>3, <2>7, x86_Read
  <1> QED BY <1>6, <1>7

LEMMA x86_RetRight == ASSUME x86_Runs, NEW a1 \in Vars, x86_ret(a1) PROVE IInv'
  <1>1. PICK m, m1 :
          /\ m \in Marks(NoVar, {a1}, {})
          /\ Enabled("x86", IF a1 \in Wide THEN "ret2" ELSE "ret")
          /\ m1 = IF a1 \in Wide THEN LoadRight2(m, [r1 |-> EAX, r2 |-> EDX], a1)
                  ELSE IF a1 \in Structs THEN ReturnStruct(m, a1) ELSE LoadRight(m, EAX, a1)
          /\ Commit(update_args(m1, NoVar, a1, Const))
    BY DEF x86_ret
  <1>2. CASE a1 \in Wide BY <1>1, <1>2, x86_RetPairRight
  <1>3. CASE a1 \notin Wide
    <2>1. PICK A : A = {a1} OBVIOUS
    <2>2. A \in SUBSET Vars /\ A \subseteq {a1} /\ a1 \in A /\ {a1} \subseteq {a1, Const} BY <2>1
    <2>3. target = "x86" /\ "x86" \in Targets /\ Going(m, NoVar, {a1}, {}) /\ m \in States /\ m.pinned = {}
      BY <1>1, x86_Begin
    <2>4. ReturnStruct(m, a1) \in Still(m, A) /\ LoadRight(m, EAX, a1) \in Still(m, A)
      BY <2>2, <2>3, x86_ReturnStructStill, x86_LoadRightStill, x86_Regs
    <2>5. m1 \in Still(m, A) BY <1>1, <1>3, <2>4
    <2>6. m1 \in Reached(m, A, {}) BY <2>2, <2>3, <2>5, ReachedSelf, ReachedStill
    <2> QED BY <1>1, <2>2, <2>3, <2>6, x86_Read
  <1> QED BY <1>2, <1>3

LEMMA x86_CbrRight == ASSUME x86_Runs, NEW a1 \in Vars, x86_cbr(a1) PROVE IInv'
  <1>1. PICK m, k, m1 :
          /\ m \in Marks(NoVar, {a1}, {})
          /\ Enabled("x86", "cbr") /\ k = Loaded2(m, NoVar, a1)
          /\ m1 = IF a1 \in Wide THEN Clobber(k, {k.res.r1}) ELSE Compared(m, a1)
          /\ Commit(update_args(m1, NoVar, a1, Const))
    BY DEF x86_cbr, OrWords
  <1>2. PICK A : A = {a1} OBVIOUS
  <1>3. A \in SUBSET Vars /\ A \subseteq {a1} /\ a1 \in A /\ {a1} \subseteq {a1, Const} BY <1>2
  <1>4. /\ target = "x86" /\ "x86" \in Targets /\ Going(m, NoVar, {a1}, {}) /\ m \in States /\ m.pinned = {}
    BY <1>1, x86_Begin
  <1>5. CASE a1 \in Wide
    <2>1. k \in Reached(m, A, {}) /\ Ready2(k, a1, Live1(m, NoVar, a1), Regs)
      BY <1>1, <1>3, <1>4, <1>5, x86_Loaded2Right DEF x86_Runs
    <2>2. k \in Gen BY <1>3, <1>4, <2>1, ReachedIs
    <2>3. k.res.r1 \in Regs BY <2>1 DEF Ready2, Ready, Free
    <2>4. {k.res.r1} \in SUBSET Int BY <2>3, RegsAre
    <2>5. m1 \in Emitted(k) BY <1>1, <1>5, <2>2, <2>4, EmittedSelf, ClobberEmits
    <2>6. m1 \in Reached(m, A, {}) BY <1>3, <1>4, <2>1, <2>5, ReachedEmitted
    <2> QED BY <1>1, <1>3, <1>4, <2>6, x86_Read
  <1>6. CASE a1 \notin Wide
    <2>1. PICK o : o = IF InReg(m, a1) THEN Operand(m, m.R[addr_reg1(m, a1)]) ELSE InHome(WithHome(m, a1), a1, 1)
      OBVIOUS
    <2>2. o \in Stored(m, A)
      <3>1. InReg(m, a1) => addr_reg1(m, a1) \in Regs BY <1>4, RegOf
      <3> QED BY <1>3, <1>4, <2>1, <3>1, InRegStored, InHomeStored
    <2>3. o \in Gen BY <1>3, <1>4, <2>2, StoredIs DEF States
    <2>4. m1 = RightOpd(o, a1, 1) BY <1>1, <1>6, <2>1 DEF Compared
    <2>5. m1 \in Emitted(o) BY <2>3, <2>4, EmittedSelf, RightEmits
    <2>6. m1 \in Stored(m, A) BY <1>3, <1>4, <2>2, <2>5, StoredThen
    <2>7. m1 \in Reached(m, A, {}) BY <1>3, <1>4, <2>6, ReachedSelf, ReachedStored
    <2> QED BY <1>1, <1>3, <1>4, <2>7, x86_Read
  <1> QED BY <1>5, <1>6

\* The value is compared after its variable has given up its registers.
LEMMA x86_SwitchedRight ==
  ASSUME target = "x86", "x86" \in Targets, NEW a1 \in Vars, NEW k, Going(k, NoVar, {a1, Const}, {}),
         NEW u, u = update_args(k, NoVar, a1, Const), NEW n, u \in Gen /\ u.res = k.res => n \in Emitted(u), Commit(n)
  PROVE  IInv'
  <1>1. Going(u, NoVar, {}, {}) /\ u.res = k.res BY x86_ArgsGoing
  <1>2. u \in States /\ u \in Gen /\ u.pinned = {} BY <1>1, GoingIs DEF States
  <1>3. n \in Emitted(u) BY <1>1, <1>2
  <1>4. n \in Reached(u, {}, {}) BY <1>2, <1>3, ReachedSelf, ReachedEmitted
  <1>5. Going(n, NoVar, {}, {}) BY <1>1, <1>4, GoingReached
  <1> QED BY <1>5, x86_Ends

LEMMA x86_SwitchRight == ASSUME x86_Runs, NEW a1 \in Vars, x86_switch(a1) PROVE IInv'
  <1>1. PICK m, k, p, u, n :
          /\ m \in Marks(NoVar, {a1}, {})
          /\ Enabled("x86", "switch")
          /\ k = InPlaceReg(m, NoVar, a1) /\ p = InPlaceReg2(m, NoVar, a1)
          /\ u = update_args(IF a1 \in Wide THEN p ELSE k, NoVar, a1, Const)
          /\ n = IF a1 \in Wide THEN RightIn2(u, u.res, a1)
                                ELSE Clobber(RightIn(u, u.res.r1, a1, 1), {u.res.r1})
          /\ Commit(n)
    BY DEF x86_switch, CompareRes, CompareRes2
  <1>2. PICK A : A = {a1} OBVIOUS
  <1>3. A \in SUBSET Vars /\ A \subseteq {a1} /\ a1 \in A /\ {a1} \subseteq {a1, Const} BY <1>2
  <1>4. /\ target = "x86" /\ "x86" \in Targets /\ Going(m, NoVar, {a1}, {}) /\ m \in States /\ m.pinned = {}
        /\ ~ (X86Pool \subseteq m.pinned)
    BY <1>1, x86_Begin
  <1>5. CASE a1 \in Wide
    <2>1. p \in Reached(m, A, {})
      <3>1. CASE InReg(m, a1)
        <4>1. p = [m EXCEPT !.res = m.addr[a1]] BY <1>1, <3>1 DEF InPlaceReg2
        <4>2. m \in Gen /\ m.addr[a1] \in Pairs BY <1>4 DEF States, Gen
        <4>3. p \in Picked(m) /\ p.pinned = m.pinned BY <4>1, <4>2 DEF Picked, Gen
        <4>4. p \in After(m, A) BY <1>3, <1>4, <4>3, PickedAfter
        <4> QED BY <1>4, <4>3, <4>4 DEF Reached
      <3>2. CASE ~InReg(m, a1)
        <4>1. p = Loaded2(m, NoVar, a1) BY <1>1, <3>2 DEF InPlaceReg2, Loaded2
        <4> QED BY <1>3, <1>4, <1>5, <4>1, x86_Loaded2Right DEF x86_Runs
      <3> QED BY <3>1, <3>2
    <2>2. Going(p, NoVar, {a1, Const}, {}) BY <1>3, <1>4, <2>1, GoingReached
    <2>3. u \in Gen => n \in Emitted(u) BY <1>1, <1>5, EmittedSelf, RightEmits
    <2> QED BY <1>1, <1>4, <1>5, <2>2, <2>3, x86_SwitchedRight
  <1>6. CASE a1 \notin Wide
    <2>1. k \in Reached(m, A, {}) /\ k.res.r1 \in Regs BY <1>1, <1>3, <1>4, x86_InPlaceRight
    <2>2. Going(k, NoVar, {a1, Const}, {}) BY <1>3, <1>4, <2>1, GoingReached
    <2>3. ASSUME u \in Gen, u.res = k.res PROVE n \in Emitted(u)
      <3>1. {u.res.r1} \in SUBSET Int BY <2>1, <2>3, RegsAre
      <3>2. RightIn(u, u.res.r1, a1, 1) \in Emitted(u) BY <2>3, EmittedSelf, RightEmits
      <3> QED BY <1>1, <1>6, <3>1, <3>2, ClobberEmits
    <2> QED BY <1>1, <1>4, <1>6, <2>2, <2>3, x86_SwitchedRight
  <1> QED BY <1>5, <1>6

-----------------------------------------------------------------------------
(* x86_cgen.c: every step                                                  *)

LEMMA x86_Step == ASSUME x86_Runs, x86_Next PROVE IInv'
  <1>1. /\ Const \notin Vars /\ Wide \subseteq Vars /\ Temps \subseteq Vars /\ Structs \subseteq Vars
        /\ Structs \cap Wide = {} /\ WordTemps \subseteq Vars \ Wide /\ WideTemps \subseteq Wide
        /\ Scalars \subseteq Vars
        /\ \A p \in Ops2 : p[1] \in Vars \cup {Const} /\ p[2] \in Vars \cup {Const}
        /\ \A p \in WideOps : p[1] \in Wide \cup {Const} /\ p[2] \in Wide \cup {Const}
    BY CGenRegsAssumption DEF WordTemps, WideTemps, Scalars, Ops2, WideOps
  <1>2. CASE \E t \in WordTemps, p \in Ops2 : x86_alu(t, p[1], p[2]) \/ x86_setcc(t, p[1], p[2])
    BY <1>1, <1>2, x86_AluRight
  <1>3. CASE \E t \in WordTemps, p \in Ops2 : x86_shift(t, p[1], p[2]) BY <1>1, <1>3, x86_ShiftRight
  <1>4. CASE \E t \in WordTemps, p \in Ops2 : \E res \in {EAX, EDX} : x86_div_rem(res, t, p[1], p[2])
    BY <1>1, <1>4, x86_DivRemRight
  <1>5. CASE \E t \in WideTemps, p \in WideOps : x86_alu2(t, p[1], p[2]) BY <1>1, <1>5, x86_Alu2Right
  <1>6. CASE \/ \E t \in WordTemps \cup WideTemps, p \in WideOps : x86_do_libcall(t, p[1], p[2])
             \/ \E t \in WideTemps, a \in Wide, c \in (Scalars \ Wide) \cup {Const} : x86_do_libcall(t, a, c)
    BY <1>1, <1>6, x86_LibcallRight
  <1>7. CASE \E p \in Ops2 : x86_relop_jump(p[1], p[2]) BY <1>1, <1>7, x86_RelopJumpRight
  <1>8. CASE \E t \in WordTemps, a \in Scalars : x86_unary(t, a) BY <1>1, <1>8, x86_UnaryRight
  <1>9. CASE \E t \in WideTemps : \/ \E a \in Wide : x86_unary2(t, a)
                                  \/ \E a \in Scalars \ Wide : x86_llx(t, a)
    BY <1>1, <1>9, x86_Unary2Right, x86_LlxRight
  <1>10. CASE \E t \in WordTemps : x86_addr_of(t) BY <1>1, <1>10, x86_AddrOfRight
  <1>11. CASE \/ \E t \in Wide, a \in Wide \cup {Const} : x86_asn(t, a)
              \/ \E t \in Scalars \ Wide, a \in Scalars \cup {Const} : x86_asn(t, a)
              \/ \E t \in Structs, a \in Structs : x86_asn(t, a)
    BY <1>1, <1>11, x86_AsnRight
  <1>12. CASE \E t \in Temps, a \in Scalars \ (Wide \cup Bytes) : x86_ind(t, a) BY <1>1, <1>12, x86_IndRight
  <1>13. CASE \E a \in Scalars \ (Wide \cup Bytes), b \in Vars \cup {Const} : x86_ind_asn(a, b)
    BY <1>1, <1>13, x86_IndAsnRight
  <1>14. CASE \E t \in Temps \cup {NoVar}, n \in 0 .. MaxPushed : x86_call(t, n) BY <1>1, <1>14, x86_CallRight
  <1>15. CASE \E t \in Temps \cup {NoVar}, n \in 0 .. MaxPushed :
                \E a \in Scalars \ (Wide \cup Bytes) : x86_indcall(t, a, n)
    BY <1>1, <1>15, x86_IndCallRight
  <1>16. CASE \E a \in Vars : x86_arg(a) \/ x86_ret(a) BY <1>16, x86_ArgRight, x86_RetRight
  <1>17. CASE \E a \in Scalars : x86_cbr(a) \/ x86_switch(a) BY <1>1, <1>17, x86_CbrRight, x86_SwitchRight
  <1>18. CASE x86_next_block \/ x86_function_definition
    <2>1. IInv /\ (x86_next_block => LastOfBlock(cg)) /\ target = "x86"
      BY <1>18 DEF x86_Runs, x86_next_block, x86_function_definition, Enabled
    <2>2. CalleeSave[target] \subseteq Regs BY <2>1, x86_Saves
    <2>3. CASE x86_next_block BY <2>1, <2>2, <2>3, NextBlock DEF x86_next_block
    <2>4. CASE x86_function_definition BY <2>1, <2>2, <2>4, FunctionEnds DEF x86_function_definition
    <2> QED BY <1>18, <2>3, <2>4
  <1> QED BY <1>2, <1>3, <1>4, <1>5, <1>6, <1>7, <1>8, <1>9, <1>10, <1>11, <1>12, <1>13, <1>14, <1>15, <1>16, <1>17,
             <1>18 DEF x86_Next

-----------------------------------------------------------------------------
(* Registers that the code may change                                      *)

\* Neither generator passes arguments in registers that its tables know of.
Intel == target \in {"x86", "x64"}

LEMMA IntelIs ==
  ASSUME Intel
  PROVE  /\ ArgRegs[target] = {}
         /\ \A m, r : r \notin {1, 4, 5} \cup (10 .. 13) => Ours(m, r)
         /\ \A m : target = "x64" => Ours(m, 4) /\ Ours(m, 5)
  <1>1. ArgRegs[target] = {} BY DEF Intel, ArgRegs
  <1>2. /\ Watched[target] \subseteq {1, 4, 5} \cup (10 .. 13)
        /\ target = "x64" => Watched[target] = {1} \cup (10 .. 13)
    BY DEF Intel, Watched, CalleeSave
  <1> QED BY <1>1, <1>2 DEF Ours, Noted

LEMMA ModifiedOurs ==
  ASSUME Intel, NEW m, NEW X, NEW o, Tidy(m, X, o), NEW r
  PROVE  /\ target = "x64" => Tidy(x64_Modified(m, r), X, o) /\ Ours(x64_Modified(m, r), r)
         /\ target = "x86" => Tidy(Modified(m, r), X, o) /\ Ours(Modified(m, r), r)
  <1>1. ArgRegs[target] = {} BY IntelIs
  <1>2. target = "x64" => Watched[target] = CalleeSave["x64"] BY DEF Watched
  <1>3. target = "x86" => Watched[target] = X86CalleeSave BY DEF Watched, CalleeSave, X86CalleeSave, EBX, ESI, EDI
  <1>4. \A S : Tidy([m EXCEPT !.modified = @ \cup S], X, o) BY ModifiedTidy
  <1>5. "modified" \in DOMAIN m BY DEF Tidy, Form
  <1> QED BY <1>1, <1>2, <1>3, <1>4, <1>5 DEF Ours, Noted, Modified, x64_Modified

LEMMA MovsTidy ==
  ASSUME Intel, NEW m, NEW X, NEW o, Tidy(m, X, o), Ours(m, ESI), Ours(m, EDI) PROVE Tidy(rep_movsb(m), X, o)
  <1>1. \A Y : Tidy([m EXCEPT !.M = Y], X, o) BY MemoryTidy
  <1>2. \A Y, r : Ours(m, r) => Ours([m EXCEPT !.M = Y], r) BY DEF Ours, Noted
  <1>3. \A n : Ours(n, ECX) BY IntelIs DEF ECX
  <1> QED BY <1>1, <1>2, <1>3, ClobberTidy DEF rep_movsb

LEMMA CopyTidy ==
  ASSUME Intel, NEW o, Tidy(o, {}, o), NEW m, Tidy(m, {}, o), Ours(m, ESI), Ours(m, EDI), NEW src, NEW dst
  PROVE  Tidy(Copy(m, o, src, dst), {}, o)
  <1>1. \A n, S : Tidy(n, {}, o) => Tidy(Restore(n, o, S), {}, o)
    BY IntelIs DEF Tidy, Restore, Form, Intact, Ours, Noted
  <1> QED BY <1>1, MovsTidy DEF Copy

-----------------------------------------------------------------------------
(* x64_cgen.c                                                              *)

LEMMA x64_StoreTidy ==
  ASSUME target = "x64", NEW m, NEW o, Tidy(m, {}, o), NEW r, NEW a PROVE Tidy(x64_store(m, r, a), {}, o)
  <1>1. Intel BY DEF Intel
  <1>2. \A n : Ours(n, ESI) /\ Ours(n, EDI) /\ Ours(n, RSI) /\ Ours(n, RDI) BY <1>1, IntelIs DEF ESI, EDI, RSI, RDI
  <1>3. Tidy(m, {}, m) BY TidySelf
  <1>4. Tidy(x64_PutSource(m, r), {}, m) BY <1>2, <1>3, SetRegTidy DEF x64_PutSource
  <1>5. Tidy(x64_PutTarget(x64_PutSource(m, r), a), {}, m) BY <1>2, <1>4, SetRegTidy DEF x64_PutTarget, x64_load_addr
  <1>6. \A src, dst : Tidy(Copy(x64_PutTarget(x64_PutSource(m, r), a), m, src, dst), {}, m) BY <1>1, <1>2, <1>3, <1>5, CopyTidy
  <1> QED BY <1>6, TidyTrans, StoreTidy DEF x64_store

LEMMA x64_SpillTidy ==
  ASSUME target = "x64", NEW m, NEW o, Tidy(m, {}, o), NEW r PROVE Tidy(x64_spill_reg(m, r), {}, o)
  BY x64_StoreTidy, ReleaseTidy DEF x64_spill_reg, SpillReg, x64_StoreVar

LEMMA x64_SpillTheseTidy ==
  ASSUME target = "x64", NEW m \in States, NEW o, Tidy(m, {}, o), NEW S \in SUBSET Vars
  PROVE  Tidy(SpillThese(m, S, x64_spill_reg), {}, o)
  <1>1. PICK f : SpillThese(m, S, x64_spill_reg) = f[LastReg] /\ x64_Loop(f, m, S) BY x64_Spilling
  <1>2. \A r \in 0 .. LastReg : Tidy(f[r - 1], {}, o) => Tidy(f[r], {}, o) BY <1>1, x64_SpillTidy DEF x64_Loop
  <1>3. PICK N \in Nat : N = LastReg BY LastRegIs
  <1>4. Tidy(f[N], {}, o) BY <1>1, <1>2, <1>3, LoopTidy DEF x64_Loop
  <1> QED BY <1>1, <1>3, <1>4

LEMMA x64_Get0Tidy == ASSUME target = "x64", NEW m, NEW o, Tidy(m, {}, o) PROVE Tidy(x64_get_reg0(m), {}, o)
  <1>1. Intel /\ Ours(m, RAX) BY IntelIs DEF Intel, RAX
  <1>2. \A r : Tidy(x64_Take(m, r), {}, o)
    <2> TAKE r
    <2>1. Tidy(x64_Modified(m, r), {}, o) /\ Ours(x64_Modified(m, r), r) BY <1>1, ModifiedOurs
    <2>2. PICK n : n = x64_Modified(m, r) OBVIOUS
    <2>3. Tidy(n, {}, n) BY <2>1, <2>2, TidySelf
    <2>4. Tidy(x64_spill_reg(n, r), {}, n) BY <2>3, x64_SpillTidy
    <2>5. Ours(x64_spill_reg(n, r), r) BY <2>1, <2>2, <2>4 DEF Tidy, Ours, Noted
    <2>6. Tidy(x64_spill_reg(n, r), {}, o) BY <2>1, <2>2, <2>4, TidyTrans
    <2> QED BY <2>2, <2>5, <2>6, ResTidy DEF x64_Take
  <1>3. Tidy([m EXCEPT !.got = RAX], {}, o) BY <1>1, ResTidy
  <1> QED BY <1>2, <1>3, FaultTidy DEF x64_get_reg0

LEMMA x64_GetRegTidy ==
  ASSUME target = "x64", NEW m, NEW o, Tidy(m, {}, o), NEW a \in Vars \cup {Const}, NEW live
  PROVE  Tidy(x64_get_reg(m, a, live), {}, o)
  BY x64_Get0Tidy, OwnTidy, ResTidy, GotTidy DEF x64_get_reg, GetReg, InReg

LEMMA x64_LoadedTidy ==
  ASSUME target = "x64", NEW m, NEW o, Tidy(m, {}, o), NEW tar, NEW a \in Vars \cup {Const}
  PROVE  Tidy(x64_Loaded(m, tar, a), {}, o) /\ Tidy(x64_InPlace(m, tar, a), {}, o)
  <1>1. Tidy(x64_Loaded(m, tar, a), {}, o) BY x64_GetRegTidy, OwnTidy, LoadTidy DEF x64_Loaded, x64_LoadRes, x64_load
  <1> QED BY <1>1, OwnTidy, ResTidy DEF x64_InPlace, InReg

LEMMA x64_LoadTidy ==
  ASSUME target = "x64", NEW m, NEW o, Tidy(m, {}, o), NEW a \in Vars \cup {Const}
  PROVE  /\ Tidy(InGot(x64_LoadGot(x64_get_reg0(m), a)), {}, o)
         /\ \A r : Ours(m, r) => Tidy(x64_load(m, r, a), {}, o) /\ Tidy(x64_LoadRight(m, r, a), {}, o)
  BY x64_Get0Tidy, OwnTidy, LoadTidy, OperandTidy, RightTidy DEF x64_LoadGot, x64_load, x64_LoadRight

LEMMA x64_OperandTidy ==
  ASSUME target = "x64", NEW m, NEW o, Tidy(m, {}, o), NEW a \in Vars \cup {Const}, NEW long
  PROVE  Tidy(x64_get_operand(m, a, long), {}, o)
  BY x64_LoadTidy, OperandTidy DEF x64_get_operand

LEMMA x64_OnOperandsTidy ==
  ASSUME target = "x64", NEW m, NEW o, Tidy(m, {}, o), NEW a1, NEW a2 \in Vars \cup {Const}, NEW long
  PROVE  Tidy(x64_OnOperands(m, a1, a2, long), {}, o)
  BY x64_OperandTidy, PinTidy, RightTidy DEF x64_OnOperands

LEMMA x64_ArgsTidy ==
  ASSUME target = "x64", NEW m, NEW o, Tidy(m, {}, o), NEW tar, NEW a1, NEW a2
  PROVE  Tidy(x64_update_args(m, tar, a1, a2), {}, o)
  <1>1. \A n, a, live, next : Tidy(n, {}, o) => Tidy(x64_update_arg_descriptors(n, a, live, next), {}, o)
    BY x64_StoreTidy, ReleaseTidy, FreeTempTidy DEF x64_update_arg_descriptors, UpdateArg, Kept, x64_StoreVar
  <1> QED BY <1>1 DEF x64_update_args, UpdateArgs

LEMMA x64_TarTidy ==
  ASSUME target = "x64", NEW m, NEW o, Tidy(m, {}, o), NEW tar PROVE Tidy(x64_update_tar(m, tar), {}, o)
  BY x64_StoreTidy, BindTidy, UnbindTidy, OwnTidy DEF x64_update_tar, x64_update_tar_descriptors, UpdateTar

\* The end of most handlers.
LEMMA x64_CommitTidy ==
  ASSUME target = "x64", NEW m, NEW o, Tidy(m, {}, o), NEW tar, NEW a1, NEW a2
  PROVE  /\ Commit(x64_update_args(m, tar, a1, a2)) => SInv'
         /\ Commit(x64_UPDATE_ADDRESSES(m, tar, a1, a2)) => SInv'
         /\ Commit(x64_update_tar(m, tar)) => SInv'
  <1>1. PICK n : n = x64_update_args(m, tar, a1, a2) OBVIOUS
  <1>2. PICK q : q = x64_update_tar(m, tar) OBVIOUS
  <1>3. PICK k : k = x64_update_tar(n, tar) OBVIOUS
  <1>4. Tidy(n, {}, o) /\ Tidy(q, {}, o) /\ Tidy(k, {}, o) BY <1>1, <1>2, <1>3, x64_ArgsTidy, x64_TarTidy
  <1> QED BY <1>1, <1>2, <1>3, <1>4, FinishTidy DEF x64_UPDATE_ADDRESSES

-----------------------------------------------------------------------------
(* x64_cgen.c: the handlers                                                *)

x64_Kept == IInv /\ SInv /\ "big_args" \notin Handlers

LEMMA x64_BeginTidy ==
  ASSUME x64_Kept, NEW h, Enabled("x64", h), NEW tar, NEW args, NEW implicit, implicit \subseteq Crossing,
         NEW m \in Marks(tar, args, implicit)
  PROVE  target = "x64" /\ Tidy(m, {}, m) /\ m \in States
  <1>1. Going(m, tar, args, {}) BY Begin DEF x64_Kept
  <1> QED BY <1>1, GoingIs, BeginTidy DEF x64_Kept, Enabled

LEMMA x64_AluTidy ==
  ASSUME x64_Kept, NEW tar \in Vars, NEW a1 \in Vars \cup {Const}, NEW a2 \in Vars \cup {Const}, NEW long,
         x64_alu(tar, a1, a2, long)
  PROVE  SInv'
  <1>1. PICK m \in Marks(tar, {a1, a2}, {}) :
          /\ Enabled("x64", "alu")
          /\ Commit(x64_UPDATE_ADDRESSES(Computes(x64_OnOperands(x64_Loaded(m, tar, a1), a1, a2, long), tar),
                                         tar, a1, a2))
    BY DEF x64_alu
  <1>2. target = "x64" /\ Tidy(m, {}, m) BY <1>1, x64_BeginTidy
  <1>3. Tidy(x64_OnOperands(x64_Loaded(m, tar, a1), a1, a2, long), {}, m) BY <1>2, x64_LoadedTidy, x64_OnOperandsTidy
  <1> QED BY <1>1, <1>2, <1>3, ComputesTidy, x64_CommitTidy

LEMMA x64_UnaryTidy ==
  ASSUME x64_Kept, NEW tar \in Vars, NEW a1 \in Vars \cup {Const}, x64_unary(tar, a1) PROVE SInv'
  <1>1. PICK m \in Marks(tar, {a1}, {}) :
          /\ Enabled("x64", "unary")
          /\ Commit(x64_UPDATE_ADDRESSES(Computes(RightRes(x64_Loaded(m, tar, a1), a1), tar), tar, a1, Const))
    BY DEF x64_unary
  <1>2. target = "x64" /\ Tidy(m, {}, m) BY <1>1, x64_BeginTidy
  <1>3. Tidy(RightRes(x64_Loaded(m, tar, a1), a1), {}, m) BY <1>2, x64_LoadedTidy, RightTidy
  <1> QED BY <1>1, <1>2, <1>3, ComputesTidy, x64_CommitTidy

LEMMA x64_AsnTidy ==
  ASSUME x64_Kept, NEW tar \in Vars, NEW a1 \in Vars \cup {Const}, x64_asn(tar, a1) PROVE SInv'
  <1>1. PICK m \in Marks(tar, {a1}, {}) :
          /\ Enabled("x64", "asn")
          /\ Commit(x64_UPDATE_ADDRESSES(Copies(RightRes(x64_Loaded(m, tar, a1), a1), tar, a1), tar, a1, Const))
    BY DEF x64_asn
  <1>2. target = "x64" /\ Tidy(m, {}, m) BY <1>1, x64_BeginTidy
  <1>3. Tidy(RightRes(x64_Loaded(m, tar, a1), a1), {}, m) BY <1>2, x64_LoadedTidy, RightTidy
  <1> QED BY <1>1, <1>2, <1>3, CopiesTidy, x64_CommitTidy

LEMMA x64_AddrOfTidy == ASSUME x64_Kept, NEW tar \in Vars, x64_addr_of(tar) PROVE SInv'
  <1>1. PICK m \in Marks(tar, {}, {}) :
          Enabled("x64", "addr_of") /\ Commit(x64_update_tar(Computes(Got1(x64_get_reg0(m)), tar), tar))
    BY DEF x64_addr_of
  <1>2. target = "x64" /\ Tidy(m, {}, m) BY <1>1, x64_BeginTidy
  <1>3. Tidy(Got1(x64_get_reg0(m)), {}, m) BY <1>2, x64_Get0Tidy, GotTidy
  <1> QED BY <1>1, <1>2, <1>3, ComputesTidy, x64_CommitTidy

LEMMA x64_FreeRegs ==
  ASSUME target = "x64"
  PROVE  /\ \A m : Ours(m, RAX) /\ Ours(m, RCX) /\ Ours(m, RDX) /\ Ours(m, RSI) /\ Ours(m, RDI)
         /\ \A m : \A r \in X64CallerSave : Ours(m, r)
  <1>1. Intel BY DEF Intel
  <1> QED BY <1>1, IntelIs DEF RAX, RCX, RDX, RSI, RDI, X64CallerSave

LEMMA x64_DivRemTidy ==
  ASSUME x64_Kept, NEW res \in {RAX, RDX}, NEW tar \in Vars, NEW a1 \in Vars \cup {Const}, NEW a2 \in Vars \cup {Const},
         x64_div_rem(res, tar, a1, a2)
  PROVE  SInv'
  <1> DEFINE M1(m) == x64_Dividend(x64_get_reg(m, a1, Live1(m, tar, a1)))
             M2(m) == pin_reg(x64_load(M1(m), RAX, a1), RAX)
             M3(m) == Clobber(pin_reg(x64_spill_reg(M2(m), RDX), RDX), {RDX})
             M4(m) == Clobber(RightIn(x64_Divisor(M3(m), a2), RAX, a1, 1), {RAX, RDX})
             M5(m) == Into(unpin_reg(unpin_reg(M4(m), RAX), RDX), res, None)
  <1>1. PICK m \in Marks(tar, {a1, a2}, {}) :
          Enabled("x64", "div_rem") /\ Commit(x64_UPDATE_ADDRESSES(Computes(M5(m), tar), tar, a1, a2))
    BY DEF x64_div_rem
  <1>2. target = "x64" /\ Tidy(m, {}, m) BY <1>1, x64_BeginTidy
  <1>3. Tidy(M1(m), {}, m) BY <1>2, x64_GetRegTidy, x64_SpillTidy DEF x64_Dividend
  <1>4. Tidy(M2(m), {}, m) BY <1>2, <1>3, x64_FreeRegs, x64_LoadTidy, PinTidy
  <1> HIDE DEF M2
  <1>5. Tidy(M3(m), {}, m) BY <1>2, <1>4, x64_FreeRegs, x64_SpillTidy, PinTidy, ClobberTidy
  <1> HIDE DEF M3
  <1>6. Tidy(x64_Divisor(M3(m), a2), {}, m) BY <1>2, <1>5, x64_LoadTidy, x64_OperandTidy, RightTidy DEF x64_Divisor
  <1>7. Tidy(M4(m), {}, m) BY <1>2, <1>6, x64_FreeRegs, RightTidy, ClobberTidy
  <1> HIDE DEF M4
  <1>8. Tidy(M5(m), {}, m) BY <1>2, <1>7, x64_FreeRegs, PinTidy, ResTidy
  <1> QED BY <1>1, <1>2, <1>8, ComputesTidy, x64_CommitTidy

LEMMA x64_ShiftTidy ==
  ASSUME x64_Kept, NEW tar \in Vars, NEW a1 \in Vars \cup {Const}, NEW a2 \in Vars \cup {Const}, x64_shift(tar, a1, a2)
  PROVE  SInv'
  <1> DEFINE M1(m) == x64_Loaded(pin_reg(x64_Count(m, a2), RCX), tar, a1)
             M2(m) == IF a2 = Const THEN x64_Loaded(m, tar, a1) ELSE unpin_reg(RightIn(M1(m), RCX, a2, 1), RCX)
  <1>1. PICK m \in Marks(tar, {a1, a2}, {}) :
          /\ Enabled("x64", "shift")
          /\ Commit(x64_UPDATE_ADDRESSES(Computes(RightRes(M2(m), a1), tar), tar, a1, a2))
    BY DEF x64_shift
  <1>2. target = "x64" /\ Tidy(m, {}, m) BY <1>1, x64_BeginTidy
  <1>3. Tidy(x64_Count(m, a2), {}, m) BY <1>2, x64_FreeRegs, x64_SpillTidy, x64_LoadTidy DEF x64_Count
  <1>4. Tidy(M1(m), {}, m) BY <1>2, <1>3, PinTidy, x64_LoadedTidy
  <1> HIDE DEF M1
  <1>5. Tidy(M2(m), {}, m) BY <1>2, <1>4, PinTidy, RightTidy, x64_LoadedTidy
  <1> HIDE DEF M2
  <1> QED BY <1>1, <1>2, <1>5, RightTidy, ComputesTidy, x64_CommitTidy

LEMMA x64_RelopJumpTidy ==
  ASSUME x64_Kept, NEW a1 \in Vars \cup {Const}, NEW a2 \in Vars \cup {Const}, NEW long, x64_relop_jump(a1, a2, long)
  PROVE  SInv'
  <1>1. PICK m \in Marks(NoVar, {a1, a2}, {}) :
          /\ Enabled("x64", "relop_jump")
          /\ Commit(x64_update_args(x64_OnOperands(x64_InPlace(m, NoVar, a1), a1, a2, long), NoVar, a1, a2))
    BY DEF x64_relop_jump
  <1>2. target = "x64" /\ Tidy(m, {}, m) BY <1>1, x64_BeginTidy
  <1>3. Tidy(x64_OnOperands(x64_InPlace(m, NoVar, a1), a1, a2, long), {}, m) BY <1>2, x64_LoadedTidy, x64_OnOperandsTidy
  <1> QED BY <1>1, <1>2, <1>3, x64_CommitTidy

LEMMA x64_AliasedTidy ==
  ASSUME target = "x64", NEW m \in States, NEW o, Tidy(m, {}, o)
  PROVE  Tidy(x64_spill_aliased_objects(m), {}, o) /\ Tidy(x64_spill_all(m), {}, o)
  <1>1. Aliased \subseteq Vars BY CGenRegsAssumption DEF Aliased, Ids
  <1> QED BY <1>1, x64_SpillTheseTidy DEF x64_spill_aliased_objects, x64_spill_all

LEMMA x64_IndTidy == ASSUME x64_Kept, NEW tar \in Vars, NEW a1 \in Vars \cup {Const}, x64_ind(tar, a1) PROVE SInv'
  <1> DEFINE M2(m) == ReadsMemory(RightRes(x64_Loaded(x64_spill_aliased_objects(m), tar, a1), a1), Pointed)
  <1>1. PICK m \in Marks(tar, {a1}, AddrTaken) :
          /\ Enabled("x64", "ind")
          /\ Commit(x64_UPDATE_ADDRESSES(IF tar \in Structs THEN ComputesAt(M2(m), tar, Far)
                                                            ELSE Computes(M2(m), tar), tar, a1, Const))
    BY DEF x64_ind
  <1>2. target = "x64" /\ Tidy(m, {}, m) /\ m \in States BY <1>1, x64_BeginTidy, CGenAssumption
  <1>3. Tidy(M2(m), {}, m) BY <1>2, x64_AliasedTidy, x64_LoadedTidy, RightTidy, ReadsMemoryTidy
  <1> HIDE DEF M2
  <1> QED BY <1>1, <1>2, <1>3, ComputesTidy, ComputesAtTidy, x64_CommitTidy

LEMMA x64_IndAsnTidy ==
  ASSUME x64_Kept, NEW a1 \in Vars, NEW a2 \in Vars \cup {Const}, NEW qword, x64_ind_asn(a1, a2, qword) PROVE SInv'
  <1> DEFINE M1(m) == x64_spill_aliased_objects(m)
             M2(m) == IF a2 \in Structs THEN x64_StoredStruct(M1(m), a1, a2)
                      ELSE x64_PointerRight(x64_StoredWord(x64_Pointer(M1(m), a1), a2, qword), a1)
  <1>1. PICK m \in Marks(NoVar, {a1, a2}, {}) :
          Enabled("x64", "ind_asn") /\ Commit(x64_update_args(WritesMemory(M2(m), Pointed), NoVar, a1, a2))
    BY DEF x64_ind_asn
  <1>2. target = "x64" /\ Tidy(m, {}, m) /\ m \in States BY <1>1, x64_BeginTidy, CGenAssumption
  <1>3. PICK n : n = M1(m) OBVIOUS
  <1>4. Tidy(n, {}, m) /\ Tidy(n, {}, n) BY <1>2, <1>3, x64_AliasedTidy, TidySelf
  <1>5. Tidy(x64_StoredStruct(n, a1, a2), {}, n)
    <2>1. Intel BY <1>2 DEF Intel
    <2>2. \A q : Ours(q, ESI) /\ Ours(q, EDI) BY <2>1, <1>2, IntelIs DEF ESI, EDI
    <2>3. Tidy(x64_ToTarget(x64_ToSource(n, a2), a1), {}, n)
      BY <1>2, <1>4, x64_FreeRegs, x64_LoadTidy DEF x64_ToTarget, x64_ToSource
    <2> QED BY <1>4, <2>1, <2>2, <2>3, RightTidy, CopyTidy DEF x64_StoredStruct
  <1>6. Tidy(x64_Pointer(n, a1), {}, n) BY <1>2, <1>4, OwnTidy, ResTidy, PinTidy, x64_LoadedTidy DEF x64_Pointer, InReg
  <1>7. Tidy(x64_PointerRight(x64_StoredWord(x64_Pointer(n, a1), a2, qword), a1), {}, n)
    BY <1>2, <1>6, RightTidy, x64_LoadTidy, PinTidy DEF x64_StoredWord, x64_PointerRight
  <1>8. Tidy(M2(m), {}, n) BY <1>3, <1>5, <1>7
  <1>9. Pointed \in SUBSET Vars BY CGenRegsAssumption DEF Ids
  <1> HIDE DEF M2
  <1> QED BY <1>1, <1>2, <1>8, <1>9, WritesMemoryTidy, x64_CommitTidy

LEMMA x64_PreCallTidy ==
  ASSUME x64_Kept, target = "x64", NEW m \in States, NEW o, Tidy(m, {}, o), NEW big \in BigArgs
  PROVE  Tidy(x64_pre_call(m, big), {}, o)
  <1>1. ~big BY DEF BigArgs, x64_Kept
  <1> QED BY <1>1, x64_AliasedTidy, ClobberTidy DEF x64_pre_call

LEMMA x64_PostCallTidy ==
  ASSUME target = "x64", NEW m, NEW o, Tidy(m, {}, o), NEW nargs, NEW n, n = x64_post_call(m, nargs)
  PROVE  Tidy(n, {}, n)
  <1>1. ArgRegs[target] = {} BY IntelIs DEF Intel
  <1>2. PICK k : k = m.args - nargs OBVIOUS
  <1>3. n = [m EXCEPT !.args = k] BY <1>2 DEF x64_post_call
  <1> QED BY <1>1, <1>3, PushedTidy

LEMMA x64_ReturnedTidy ==
  ASSUME target = "x64", NEW m, NEW o, Tidy(m, {}, o), NEW tar, Commit(x64_Returned(m, tar)) PROVE SInv'
  <1>1. Tidy(Into(m, RAX, None), {}, o) BY x64_FreeRegs, ResTidy
  <1>2. Tidy([Into(m, RAX, None) EXCEPT !.M[Area][1] = {}], {}, o) BY <1>1 DEF Tidy, Form, Intact, Ours, Noted
  <1>3. CASE tar \in Structs
    <2>1. tar \in Vars BY <1>3, CGenRegsAssumption
    <2> QED BY <1>2, <1>3, <2>1, ComputesAtTidy, x64_CommitTidy DEF x64_Returned
  <1>4. CASE tar \in Vars \ Structs BY <1>1, <1>4, ComputesTidy, x64_CommitTidy DEF x64_Returned
  <1>5. CASE tar \notin Vars \cup Structs
    <2>1. Commit(m) BY <1>5 DEF x64_Returned
    <2> QED BY <2>1, FinishTidy
  <1> QED BY <1>3, <1>4, <1>5

LEMMA x64_CallTidy ==
  ASSUME x64_Kept, NEW tar, NEW nargs, NEW big \in BigArgs, x64_call(tar, nargs, big) PROVE SInv'
  <1>1. PICK m \in Marks(tar, {}, AddrTaken \cup Statics) :
          /\ Enabled("x64", "call")
          /\ Commit(x64_Returned(x64_post_call(Called(x64_pre_call(m, big), X64CallerSave), nargs), tar))
    BY DEF x64_call
  <1>2. target = "x64" /\ Tidy(m, {}, m) /\ m \in States BY <1>1, x64_BeginTidy, CGenAssumption
  <1>3. Tidy(Called(x64_pre_call(m, big), X64CallerSave), {}, m) BY <1>2, x64_PreCallTidy, x64_FreeRegs, CalledTidy
  <1>4. PICK n : n = x64_post_call(Called(x64_pre_call(m, big), X64CallerSave), nargs) OBVIOUS
  <1>5. Tidy(n, {}, n) BY <1>2, <1>3, <1>4, x64_PostCallTidy
  <1> QED BY <1>1, <1>2, <1>4, <1>5, x64_ReturnedTidy

LEMMA x64_IndCallTidy ==
  ASSUME x64_Kept, NEW tar, NEW a1 \in Vars, NEW nargs, NEW big \in BigArgs, x64_indcall(tar, a1, nargs, big) PROVE SInv'
  <1> DEFINE M1(m) == RightOpd(x64_get_operand(x64_pre_call(m, big), a1, FALSE), a1, 1)
             M2(m) == x64_post_call(Called(M1(m), X64CallerSave), nargs)
  <1>1. PICK m \in Marks(tar, {a1}, AddrTaken \cup Statics) :
          Enabled("x64", "indcall") /\ Commit(x64_Returned(x64_update_args(M2(m), tar, a1, Const), tar))
    BY DEF x64_indcall
  <1>2. target = "x64" /\ Tidy(m, {}, m) /\ m \in States BY <1>1, x64_BeginTidy, CGenAssumption
  <1>3. Tidy(M1(m), {}, m) BY <1>2, x64_PreCallTidy, x64_OperandTidy, RightTidy
  <1> HIDE DEF M1
  <1>4. Tidy(Called(M1(m), X64CallerSave), {}, m) BY <1>2, <1>3, x64_FreeRegs, CalledTidy
  <1>5. PICK n : n = M2(m) OBVIOUS
  <1>6. Tidy(n, {}, n) BY <1>2, <1>4, <1>5, x64_PostCallTidy
  <1> HIDE DEF M2
  <1>7. Tidy(x64_update_args(n, tar, a1, Const), {}, n) BY <1>2, <1>6, x64_ArgsTidy
  <1> QED BY <1>1, <1>2, <1>5, <1>7, x64_ReturnedTidy

LEMMA x64_ArgTidy == ASSUME x64_Kept, NEW a1 \in Vars \cup {Const}, NEW long, x64_arg(a1, long) PROVE SInv'
  <1> DEFINE M1(m) == IF a1 \in Structs THEN x64_PushStruct(m, a1) ELSE RightOpd(x64_get_operand(m, a1, long), a1, 1)
  <1>1. PICK m \in Marks(NoVar, {a1}, {}) :
          Enabled("x64", "arg") /\ Commit([x64_update_args(M1(m), NoVar, a1, Const) EXCEPT !.args = @ + 1])
    BY DEF x64_arg
  <1>2. target = "x64" /\ Tidy(m, {}, m) BY <1>1, x64_BeginTidy
  <1>3. Intel BY <1>2 DEF Intel
  <1>4. \A q : Ours(q, ESI) /\ Ours(q, EDI) BY <1>2, <1>3, IntelIs DEF ESI, EDI
  <1>5. Tidy(x64_PushStruct(m, a1), {}, m)
    <2>1. Tidy(x64_ToSource(m, a1), {}, m) BY <1>2, x64_FreeRegs, x64_LoadTidy DEF x64_ToSource
    <2>2. Tidy(Clobber(RightIn(x64_ToSource(m, a1), RSI, a1, 1), {RDI}), {}, m)
      BY <1>2, <2>1, x64_FreeRegs, RightTidy, ClobberTidy
    <2> QED BY <1>2, <1>3, <1>4, <2>2, CopyTidy DEF x64_PushStruct
  <1>6. Tidy(M1(m), {}, m) BY <1>2, <1>5, x64_OperandTidy, RightTidy
  <1> HIDE DEF M1
  <1>7. PICK n : n = x64_update_args(M1(m), NoVar, a1, Const) OBVIOUS
  <1>8. Tidy(n, {}, m) BY <1>2, <1>6, <1>7, x64_ArgsTidy
  <1>9. PICK k : k = [n EXCEPT !.args = @ + 1] OBVIOUS
  <1>10. ArgRegs[target] = {} BY <1>3, IntelIs
  <1>11. Tidy(k, {}, k) BY <1>8, <1>9, <1>10, PushedTidy
  <1> QED BY <1>1, <1>7, <1>9, <1>11, FinishTidy

LEMMA x64_RetTidy == ASSUME x64_Kept, NEW a1 \in Vars, NEW small, NEW even, x64_ret(a1, small, even) PROVE SInv'
  <1> DEFINE M1(m) == IF a1 \notin Structs THEN x64_LoadRight(m, RAX, a1)
                      ELSE IF small THEN x64_TakeApart(x64_LoadRight(m, RAX, a1), even)
                      ELSE x64_CopyOut(x64_LoadRight(m, RSI, a1))
  <1>1. PICK m \in Marks(NoVar, {a1}, {}) :
          Enabled("x64", "ret") /\ Commit(x64_update_args(M1(m), NoVar, a1, Const))
    BY DEF x64_ret
  <1>2. target = "x64" /\ Tidy(m, {}, m) BY <1>1, x64_BeginTidy
  <1>3. Intel BY <1>2 DEF Intel
  <1>4. \A q : Ours(q, ESI) /\ Ours(q, EDI) BY <1>2, <1>3, IntelIs DEF ESI, EDI
  <1>5. \A n : Tidy(n, {}, m) => Tidy(x64_TakeApart(n, even), {}, m)
    BY <1>2, x64_FreeRegs, x64_SpillTidy, ClobberTidy DEF x64_TakeApart
  <1>6. \A n : Tidy(n, {}, m) => Tidy(x64_CopyOut(n), {}, m)
    BY <1>2, <1>3, <1>4, x64_FreeRegs, x64_SpillTidy, ClobberTidy, MovsTidy DEF x64_CopyOut
  <1>7. Tidy(M1(m), {}, m) BY <1>2, <1>5, <1>6, x64_FreeRegs, x64_LoadTidy
  <1> HIDE DEF M1
  <1> QED BY <1>1, <1>2, <1>7, x64_CommitTidy

LEMMA x64_CbrTidy == ASSUME x64_Kept, NEW a1 \in Vars, x64_cbr(a1) PROVE SInv'
  <1>1. PICK m \in Marks(NoVar, {a1}, {}) :
          Enabled("x64", "cbr") /\ Commit(x64_update_args(x64_Compared(m, a1), NoVar, a1, Const))
    BY DEF x64_cbr
  <1>2. target = "x64" /\ Tidy(m, {}, m) BY <1>1, x64_BeginTidy
  <1>3. Tidy(x64_Compared(m, a1), {}, m) BY <1>2, OperandTidy, RightTidy DEF x64_Compared
  <1> QED BY <1>1, <1>2, <1>3, x64_CommitTidy

LEMMA x64_SwitchTidy == ASSUME x64_Kept, NEW a1 \in Vars, NEW k, x64_switch(a1, k) PROVE SInv'
  <1> DEFINE M1(m) == x64_update_args(PinRes(x64_InPlace(m, NoVar, a1)), NoVar, a1, Const)
             M2(m) == UnpinRes(RightRes(x64_Bounds(M1(m), k), a1))
  <1>1. PICK m \in Marks(NoVar, {a1}, {}) : Enabled("x64", "switch") /\ Commit(Clobber(M2(m), {M2(m).res.r1}))
    BY DEF x64_switch
  <1>2. target = "x64" /\ Tidy(m, {}, m) BY <1>1, x64_BeginTidy
  <1>3. Tidy(M1(m), {}, m) BY <1>2, x64_LoadedTidy, PinTidy, x64_ArgsTidy
  <1> HIDE DEF M1
  <1>4. \A n : Tidy(n, {}, m) => Tidy(x64_Bounds(n, k), {}, m)
    <2> SUFFICES ASSUME NEW n, Tidy(n, {}, m) PROVE Tidy(x64_Bounds(n, k), {}, m) OBVIOUS
    <2>1. PICK q : q = IF k = 0 THEN n ELSE x64_get_reg0(n) OBVIOUS
    <2>2. Tidy(q, {}, m) /\ Tidy(Clobber(q, {q.got}), {}, m) BY <1>2, <2>1, x64_Get0Tidy, OwnTidy, ClobberTidy
    <2>3. PICK h : h = Clobber(q, {q.got}) OBVIOUS
    <2>4. Tidy(unpin_reg(x64_get_reg0(pin_reg(h, q.got)), q.got), {}, m) BY <1>2, <2>2, <2>3, PinTidy, x64_Get0Tidy
    <2> QED BY <2>1, <2>2, <2>3, <2>4 DEF x64_Bounds
  <1>5. Tidy(M2(m), {}, m) BY <1>3, <1>4, RightTidy, PinTidy
  <1> HIDE DEF M2
  <1>6. Tidy(Clobber(M2(m), {M2(m).res.r1}), {}, m) BY <1>5, OwnTidy, ClobberTidy
  <1> QED BY <1>1, <1>6, FinishTidy

LEMMA x64_StepTidy == ASSUME x64_Kept, x64_Next PROVE SInv'
  <1>1. /\ WordTemps \subseteq Vars /\ Scalars \subseteq Vars /\ Pointers \subseteq Vars
        /\ Temps \subseteq Vars /\ Structs \subseteq Vars
        /\ \A p \in Ops2 : p[1] \in Vars \cup {Const} /\ p[2] \in Vars \cup {Const}
    BY CGenRegsAssumption DEF WordTemps, Scalars, Pointers, Ops2
  <1>2. CASE \E t \in WordTemps, p \in Ops2 : \E long \in Kinds(p[2]) : x64_alu(t, p[1], p[2], long)
    BY <1>1, <1>2, x64_AluTidy
  <1>3. CASE \E t \in WordTemps, p \in Ops2 : x64_shift(t, p[1], p[2]) BY <1>1, <1>3, x64_ShiftTidy
  <1>4. CASE \E t \in WordTemps, p \in Ops2 : \E res \in {RAX, RDX} : x64_div_rem(res, t, p[1], p[2])
    BY <1>1, <1>4, x64_DivRemTidy
  <1>5. CASE \E p \in Ops2 : \E long \in Kinds(p[2]) : x64_relop_jump(p[1], p[2], long)
    BY <1>1, <1>5, x64_RelopJumpTidy
  <1>6. CASE \E t \in WordTemps, a \in Scalars : x64_unary(t, a) BY <1>1, <1>6, x64_UnaryTidy
  <1>7. CASE \E t \in WordTemps : x64_addr_of(t) BY <1>1, <1>7, x64_AddrOfTidy
  <1>8. CASE \/ \E t \in Scalars, a \in Scalars \cup {Const} : x64_asn(t, a)
             \/ \E t \in Structs, a \in Structs : x64_asn(t, a)
    BY <1>1, <1>8, x64_AsnTidy
  <1>9. CASE \E t \in Temps, a \in Pointers : x64_ind(t, a) BY <1>1, <1>9, x64_IndTidy
  <1>10. CASE \E a \in Pointers, b \in Vars \cup {Const} : \E qword \in Kinds(b) : x64_ind_asn(a, b, qword)
    BY <1>1, <1>10, x64_IndAsnTidy
  <1>11. CASE \E t \in Temps \cup {NoVar}, n \in 0 .. MaxPushed, big \in BigArgs :
                x64_call(t, n, big) \/ \E a \in Pointers : x64_indcall(t, a, n, big)
    BY <1>1, <1>11, x64_CallTidy, x64_IndCallTidy
  <1>12. CASE \E a \in Vars \cup {Const} : \E long \in Kinds(a) : x64_arg(a, long) BY <1>12, x64_ArgTidy
  <1>13. CASE \E a \in Vars, small, even \in BOOLEAN : x64_ret(a, small, even) BY <1>13, x64_RetTidy
  <1>14. CASE \E a \in Scalars : x64_cbr(a) \/ \E k \in 0 .. 2 : x64_switch(a, k)
    BY <1>1, <1>14, x64_CbrTidy, x64_SwitchTidy
  <1>15. CASE x64_next_block BY <1>15, EntryTidy DEF x64_next_block, x64_Kept, SInv
  <1>16. CASE x64_function_definition BY <1>16, NewFunctionTidy DEF x64_function_definition, x64_Kept
  <1> QED BY <1>2, <1>3, <1>4, <1>5, <1>6, <1>7, <1>8, <1>9, <1>10, <1>11, <1>12, <1>13, <1>14, <1>15, <1>16 DEF x64_Next

-----------------------------------------------------------------------------
(* x86_cgen.c                                                              *)

LEMMA x86_OursGrows == ASSUME NEW m, NEW n, NEW X, NEW Y, NEW o, Tidy(m, Y, o), Tidy(n, X, m), NEW r, Ours(m, r) PROVE Ours(n, r)
  BY DEF Tidy, Ours, Noted

\* A register that need not be kept by the callee.
LEMMA x86_FreeRegs ==
  ASSUME target = "x86"
  PROVE  \A m : Ours(m, EAX) /\ Ours(m, ECX) /\ Ours(m, EDX) /\ \A r \in CallerSave : Ours(m, r)
  <1>1. Intel BY DEF Intel
  <1> QED BY <1>1, IntelIs DEF EAX, ECX, EDX, CallerSave

\* A register that is pushed before it is changed holds a variable.
LEMMA x86_SaveTidy ==
  ASSUME target = "x86", NEW m, NEW o, Tidy(m, {}, o), NEW r \in Regs
  PROVE  Tidy(Save(m, r), {}, o) /\ Ours(Save(m, r), r) /\ \A s : Ours(m, s) => Ours(Save(m, r), s)
  <1>1. Intel BY DEF Intel
  <1>2. Tidy(Modified(m, r), {}, o) /\ Ours(Modified(m, r), r) BY <1>1, ModifiedOurs
  <1>3. \A s : Ours(m, s) => Ours(Modified(m, r), s) BY <1>2 DEF Modified, Ours, Noted, Tidy, Form
  <1>4. ~reg_isempty(m, r) => Ours(m, r) BY OwnTidy DEF reg_isempty
  <1> QED BY <1>2, <1>3, <1>4 DEF Save

LEMMA x86_StoreTidy ==
  ASSUME target = "x86", NEW m, NEW o, Tidy(m, {}, o), NEW r, Ours(m, r), NEW a PROVE Tidy(x86_store(m, r, a), {}, o)
  <1>1. Intel /\ ESI \in Regs /\ EDI \in Regs BY x86_Regs DEF Intel
  <1>2. Tidy(m, {}, m) BY TidySelf
  <1>3. PICK p : p = PutSource(m, r) OBVIOUS
  <1>4. Tidy(p, {}, m) /\ Ours(p, ESI)
    <2>1. CASE r = ESI BY <1>2, <1>3, <2>1 DEF PutSource
    <2>2. CASE r # ESI
      <3>1. Tidy(Save(m, ESI), {}, m) /\ Ours(Save(m, ESI), ESI) BY <1>1, <1>2, x86_SaveTidy
      <3>2. \A Y : Tidy(SetReg(Save(m, ESI), ESI, Y), {}, m) /\ Ours(SetReg(Save(m, ESI), ESI, Y), ESI)
        BY <3>1, SetRegTidy, SetRegOurs
      <3> QED BY <1>3, <2>2, <3>2 DEF PutSource
    <2> QED BY <2>1, <2>2
  <1>5. CASE a \in Structs \cap Ids
    <2>1. a \in Vars BY <1>5 DEF Ids
    <2>2. PICK q : q = PutTarget(p, a) OBVIOUS
    <2>3. Tidy(q, {}, m) /\ Ours(q, ESI) /\ Ours(q, EDI)
      <3>1. CASE addr_reg1(p, a) = EDI BY <1>4, <2>1, <2>2, <3>1, OwnTidy DEF PutTarget
      <3>2. CASE addr_reg1(p, a) # EDI
        <4>1. Tidy(Save(p, EDI), {}, m) /\ Ours(Save(p, EDI), EDI) /\ Ours(Save(p, EDI), ESI) BY <1>1, <1>4, x86_SaveTidy
        <4>2. \A Y : /\ Tidy(SetReg(Save(p, EDI), EDI, Y), {}, m)
                     /\ Ours(SetReg(Save(p, EDI), EDI, Y), EDI) /\ Ours(SetReg(Save(p, EDI), EDI, Y), ESI)
          BY <4>1, SetRegTidy, SetRegOurs
        <4> QED BY <2>2, <3>2, <4>2 DEF PutTarget, x86_load_addr
      <3> QED BY <3>1, <3>2
    <2>4. \A src, dst : Tidy(Copy(q, m, src, dst), {}, m) BY <1>1, <1>2, <2>3, CopyTidy
    <2> QED BY <1>3, <1>5, <2>2, <2>4, TidyTrans DEF x86_store
  <1>6. CASE a \notin Structs \cap Ids BY <1>6, StoreTidy DEF x86_store
  <1> QED BY <1>5, <1>6

LEMMA x86_StoreVarTidy ==
  ASSUME target = "x86", NEW m, NEW o, Tidy(m, {}, o), NEW a PROVE Tidy(Store(m, a), {}, o)
  <1>1. CASE a \in Structs \cap Ids
    <2>1. Ours(m, addr_reg1(m, a)) BY <1>1, OwnTidy DEF Ids
    <2> QED BY <2>1, x86_StoreTidy, StoreTidy DEF Store, x86_store2
  <1>2. CASE a \notin Structs \cap Ids BY <1>2, StoreTidy DEF Store, x86_store, x86_store2
  <1> QED BY <1>1, <1>2

LEMMA x86_SpillTidy ==
  ASSUME target = "x86", NEW m, NEW o, Tidy(m, {}, o), NEW r PROVE Tidy(spill_reg(m, r), {}, o)
  BY x86_StoreVarTidy, ReleaseTidy DEF spill_reg, SpillReg

LEMMA x86_SpillTheseTidy ==
  ASSUME target = "x86", NEW m \in States, NEW o, Tidy(m, {}, o), NEW S \in SUBSET Vars
  PROVE  Tidy(SpillThese(m, S, spill_reg), {}, o)
  <1>1. PICK f : SpillThese(m, S, spill_reg) = f[LastReg] /\ x86_Loop(f, m, S) BY x86_Spilling
  <1>2. \A r \in 0 .. LastReg : Tidy(f[r - 1], {}, o) => Tidy(f[r], {}, o) BY <1>1, x86_SpillTidy DEF x86_Loop
  <1>3. PICK N \in Nat : N = LastReg BY LastRegIs
  <1>4. Tidy(f[N], {}, o) BY <1>1, <1>2, <1>3, LoopTidy DEF x86_Loop
  <1> QED BY <1>1, <1>3, <1>4

LEMMA x86_AliasedTidy ==
  ASSUME target = "x86", NEW m \in States, NEW o, Tidy(m, {}, o)
  PROVE  Tidy(spill_aliased_objects(m), {}, o) /\ Tidy(spill_all(m), {}, o)
  <1>1. Aliased \subseteq Vars BY CGenRegsAssumption DEF Aliased, Ids
  <1> QED BY <1>1, x86_SpillTheseTidy DEF spill_aliased_objects, spill_all

LEMMA x86_Get0Tidy == ASSUME target = "x86", NEW m, NEW o, Tidy(m, {}, o) PROVE Tidy(get_reg0(m), {}, o)
  <1>1. Intel /\ Ours(m, EAX) BY x86_FreeRegs DEF Intel
  <1>2. \A r : Tidy(Take(m, r), {}, o)
    <2> TAKE r
    <2>1. Tidy(Modified(m, r), {}, o) /\ Ours(Modified(m, r), r) BY <1>1, ModifiedOurs
    <2>2. PICK n : n = Modified(m, r) OBVIOUS
    <2>3. Tidy(n, {}, n) BY <2>1, <2>2, TidySelf
    <2>4. Tidy(spill_reg(n, r), {}, n) BY <2>3, x86_SpillTidy
    <2>5. Ours(spill_reg(n, r), r) BY <2>1, <2>2, <2>4 DEF Tidy, Ours, Noted
    <2>6. Tidy(spill_reg(n, r), {}, o) BY <2>1, <2>2, <2>4, TidyTrans
    <2> QED BY <2>2, <2>5, <2>6, ResTidy DEF Take
  <1>3. Tidy([m EXCEPT !.got = EAX], {}, o) BY <1>1, ResTidy
  <1> QED BY <1>2, <1>3, FaultTidy DEF get_reg0

LEMMA x86_GetRegTidy ==
  ASSUME target = "x86", NEW m, NEW o, Tidy(m, {}, o), NEW a \in Vars \cup {Const}, NEW live
  PROVE  Tidy(get_reg(m, a, live), {}, o) /\ Tidy(get_reg2(m, a, live), {}, o)
  <1>1. \A n : Tidy(n, {}, o) => Tidy(get_reg(n, a, live), {}, o)
    BY x86_Get0Tidy, OwnTidy, ResTidy, GotTidy DEF get_reg, GetReg, InReg
  <1>2. PICK n : n = PinRes(GetReg(m, a, live, get_reg0)) OBVIOUS
  <1>3. Tidy(n, {}, o) BY <1>1, <1>2, PinTidy DEF get_reg
  <1>4. Tidy(HighReg(n, a, live, get_reg0), {}, o)
    <2>1. \A v \in Vars : Ours(n, addr_reg2(n, v)) BY <1>3, OwnTidy
    <2>2. \A r : Ours(n, r) => Tidy([n EXCEPT !.res.r2 = r], {}, o) BY <1>3, ResTidy
    <2>3. Tidy(Got2(get_reg0(n)), {}, o) BY <1>3, x86_Get0Tidy, GotTidy
    <2> QED BY <2>1, <2>2, <2>3 DEF HighReg
  <1>5. Tidy(UnpinRes(HighReg(n, a, live, get_reg0)), {}, o) BY <1>4, PinTidy
  <1> QED BY <1>1, <1>2, <1>5 DEF get_reg2, GetReg2

LEMMA x86_LoadTidy ==
  ASSUME target = "x86", NEW m, NEW o, Tidy(m, {}, o), NEW r, Ours(m, r), NEW a
  PROVE  Tidy(x86_load(m, r, a), {}, o) /\ Tidy(LoadRight(m, r, a), {}, o)
  BY LoadTidy, RightTidy DEF x86_load, LoadRight

LEMMA x86_Load2Tidy ==
  ASSUME target = "x86", NEW m, NEW o, Tidy(m, {}, o), NEW r, Ours(m, r.r1), Ours(m, r.r2), NEW a
  PROVE  Tidy(x86_load2(m, r, a), {}, o) /\ Tidy(LoadRight2(m, r, a), {}, o)
  BY Load2Tidy, RightTidy DEF x86_load2, LoadRight2

LEMMA x86_LoadResTidy ==
  ASSUME target = "x86", NEW m, NEW o, Tidy(m, {}, o), NEW a PROVE Tidy(LoadRes(m, a), {}, o) /\ Tidy(LoadRes2(m, a), {}, o)
  BY OwnTidy, x86_LoadTidy, x86_Load2Tidy DEF LoadRes, LoadRes2

LEMMA x86_LoadedTidy ==
  ASSUME target = "x86", NEW m, NEW o, Tidy(m, {}, o), NEW tar, NEW a \in Vars \cup {Const}
  PROVE  /\ Tidy(Loaded(m, tar, a), {}, o) /\ Tidy(Loaded2(m, tar, a), {}, o) /\ Tidy(LoadedLow(m, tar, a), {}, o)
         /\ Tidy(InPlaceReg(m, tar, a), {}, o) /\ Tidy(InPlaceReg2(m, tar, a), {}, o)
  <1>1. Tidy(Loaded(m, tar, a), {}, o) /\ Tidy(LoadedLow(m, tar, a), {}, o) BY x86_GetRegTidy, x86_LoadResTidy DEF Loaded, LoadedLow
  <1>2. Tidy(Loaded2(m, tar, a), {}, o) BY x86_GetRegTidy, x86_LoadResTidy DEF Loaded2
  <1>3. InReg(m, a) => a \in Vars BY DEF InReg
  <1>4. Tidy(InPlaceReg(m, tar, a), {}, o) BY <1>1, <1>3, OwnTidy, ResTidy DEF InPlaceReg, Loaded
  <1>5. InReg(m, a) => Tidy([m EXCEPT !.res = m.addr[a]], {}, o) BY <1>3, OwnTidy, ResTidy
  <1> QED BY <1>1, <1>2, <1>4, <1>5 DEF InPlaceReg2, Loaded2

LEMMA x86_LoadGotTidy ==
  ASSUME target = "x86", NEW m, NEW o, Tidy(m, {}, o), NEW a
  PROVE  Tidy(LoadGot(get_reg0(m), a), {}, o) /\ Tidy(Promoted(get_reg0(m), a), {}, o)
  BY x86_Get0Tidy, OwnTidy, x86_LoadTidy DEF LoadGot, Promoted

LEMMA x86_OperandTidy ==
  ASSUME target = "x86", NEW m, NEW o, Tidy(m, {}, o), NEW a
  PROVE  /\ Tidy(x86_get_operand(m, a), {}, o) /\ Tidy(OperandRight(m, a), {}, o)
         /\ \A w : Tidy(OperandRight2(m, a, w), {}, o)
  <1>1. Tidy(x86_get_operand(m, a), {}, o) BY x86_LoadGotTidy, OperandTidy DEF x86_get_operand
  <1>2. \A w : Tidy(x86_get_operand2(m, a, w), {}, o) BY OperandTidy, FaultTidy DEF x86_get_operand2
  <1> QED BY <1>1, <1>2, RightTidy DEF OperandRight, OperandRight2

LEMMA x86_PushPairTidy ==
  ASSUME target = "x86", NEW m, NEW o, Tidy(m, {}, o), NEW a PROVE Tidy(PushPair(m, a), {}, o)
  BY x86_OperandTidy DEF PushPair

LEMMA x86_OnOperandsTidy ==
  ASSUME target = "x86", NEW m, NEW o, Tidy(m, {}, o), NEW a1, NEW a2 PROVE Tidy(OnOperands(m, a1, a2), {}, o)
  BY x86_OperandTidy, PinTidy, RightTidy DEF OnOperands

LEMMA x86_ArgsTidy ==
  ASSUME target = "x86", NEW m, NEW o, Tidy(m, {}, o), NEW tar, NEW a1, NEW a2 PROVE Tidy(update_args(m, tar, a1, a2), {}, o)
  <1>1. \A n, a, live, next : Tidy(n, {}, o) => Tidy(update_arg_descriptors(n, a, live, next), {}, o)
    BY x86_StoreVarTidy, ReleaseTidy, FreeTempTidy DEF update_arg_descriptors, UpdateArg, Kept
  <1> QED BY <1>1 DEF update_args, UpdateArgs

LEMMA x86_TarTidy ==
  ASSUME target = "x86", NEW m, NEW o, Tidy(m, {}, o), NEW tar PROVE Tidy(update_tar(m, tar), {}, o)
  <1>1. Ours(m, m.res.r1) BY OwnTidy
  <1>2. PICK n : n = Bind(m, m.res.r1, tar) OBVIOUS
  <1>3. Tidy(n, {}, o) /\ Ours(n, m.res.r1)
    <2>1. Tidy(m, {}, m) BY TidySelf
    <2>2. Tidy(n, {}, m) BY <1>1, <1>2, <2>1, BindTidy
    <2> QED BY <1>1, <2>1, <2>2, TidyTrans, x86_OursGrows
  <1>4. Tidy(x86_store(n, m.res.r1, tar), {}, o) BY <1>3, x86_StoreTidy
  <1> QED BY <1>2, <1>3, <1>4, UnbindTidy DEF update_tar, update_tar_descriptors, UpdateTar

LEMMA x86_Tar2Tidy ==
  ASSUME target = "x86", NEW m, NEW o, Tidy(m, {}, o), NEW tar PROVE Tidy(update_tar2(m, tar), {}, o)
  <1>1. Ours(m, m.res.r1) /\ Ours(m, m.res.r2) /\ DOMAIN m.res = {"r1", "r2"} BY OwnTidy
  <1>2. Tidy(Bind2(m, m.res, tar), {}, o) BY <1>1, Bind2Tidy
  <1> QED BY <1>2, StoreTidy, ReleaseTidy DEF update_tar2, update_tar_descriptors2, UpdateTar2, x86_store2

\* The end of most handlers.
LEMMA x86_CommitTidy ==
  ASSUME target = "x86", NEW m, NEW o, Tidy(m, {}, o), NEW tar, NEW a1, NEW a2
  PROVE  /\ Commit(update_args(m, tar, a1, a2)) => SInv'
         /\ Commit(UPDATE_ADDRESSES(m, tar, a1, a2)) => SInv'
         /\ Commit(UPDATE_ADDRESSES2(m, tar, a1, a2)) => SInv'
         /\ Commit(update_tar(m, tar)) => SInv'
         /\ Commit(update_tar2(m, tar)) => SInv'
  <1>1. PICK n, q, k, q2, k2 :
          /\ n = update_args(m, tar, a1, a2) /\ q = update_tar(m, tar) /\ k = update_tar(n, tar)
          /\ q2 = update_tar2(m, tar) /\ k2 = update_tar2(n, tar)
    OBVIOUS
  <1>2. Tidy(n, {}, o) BY <1>1, x86_ArgsTidy
  <1>3. Tidy(q, {}, o) /\ Tidy(k, {}, o) BY <1>1, <1>2, x86_TarTidy
  <1>4. Tidy(q2, {}, o) /\ Tidy(k2, {}, o) BY <1>1, <1>2, x86_Tar2Tidy
  <1> QED BY <1>1, <1>2, <1>3, <1>4, FinishTidy DEF UPDATE_ADDRESSES, UPDATE_ADDRESSES2

-----------------------------------------------------------------------------
(* x86_cgen.c: the handlers                                                *)

x86_Kept == IInv /\ SInv /\ Roomy(X86Pool)

LEMMA x86_BeginTidy ==
  ASSUME x86_Kept, NEW h, Enabled("x86", h), NEW tar, NEW args, NEW implicit, implicit \subseteq Crossing,
         NEW m \in Marks(tar, args, implicit)
  PROVE  target = "x86" /\ Tidy(m, {}, m) /\ m \in States
  <1>1. Going(m, tar, args, {}) BY Begin DEF x86_Kept
  <1> QED BY <1>1, GoingIs, BeginTidy DEF x86_Kept, Enabled

LEMMA x86_AluTidy ==
  ASSUME x86_Kept, NEW tar \in Vars, NEW a1 \in Vars \cup {Const}, NEW a2 \in Vars \cup {Const},
         x86_alu(tar, a1, a2) \/ x86_setcc(tar, a1, a2)
  PROVE  SInv'
  <1>1. PICK h, m :
          /\ m \in Marks(tar, {a1, a2}, {}) /\ Enabled("x86", h)
          /\ Commit(UPDATE_ADDRESSES(Computes(OnOperands(Loaded(m, tar, a1), a1, a2), tar), tar, a1, a2))
    BY DEF x86_alu, x86_setcc
  <1>2. target = "x86" /\ Tidy(m, {}, m) BY <1>1, x86_BeginTidy
  <1>3. Tidy(OnOperands(Loaded(m, tar, a1), a1, a2), {}, m) BY <1>2, x86_LoadedTidy, x86_OnOperandsTidy
  <1> QED BY <1>1, <1>2, <1>3, ComputesTidy, x86_CommitTidy

LEMMA x86_Alu2Tidy ==
  ASSUME x86_Kept, NEW tar \in Vars, NEW a1 \in Vars \cup {Const}, NEW a2 \in Vars \cup {Const}, x86_alu2(tar, a1, a2)
  PROVE  SInv'
  <1>1. PICK m, n :
          /\ m \in Marks(tar, {a1, a2}, {}) /\ Enabled("x86", "alu2") /\ n = LowWords(Loaded2(m, tar, a1), a2)
          /\ Commit(UPDATE_ADDRESSES2(Computes2(OperandRight2(n, a2, 2), tar), tar, a1, a2))
    BY DEF x86_alu2
  <1>2. target = "x86" /\ Tidy(m, {}, m) BY <1>1, x86_BeginTidy
  <1>3. PICK q : q = Loaded2(m, tar, a1) OBVIOUS
  <1>4. Tidy(q, {}, m) BY <1>2, <1>3, x86_LoadedTidy
  <1>5. Tidy(OperandRight2(q, a2, 1), {}, q) BY <1>2, <1>4, TidySelf, x86_OperandTidy
  <1>6. Ours(OperandRight2(q, a2, 1), q.res.r1) BY <1>4, <1>5, OwnTidy, x86_OursGrows
  <1>7. Tidy(n, {}, q) BY <1>1, <1>3, <1>5, <1>6, ClobberTidy DEF LowWords
  <1>8. Tidy(OperandRight2(n, a2, 2), {}, q) BY <1>2, <1>7, x86_OperandTidy
  <1> QED BY <1>1, <1>2, <1>8, ComputesTidy, x86_CommitTidy

LEMMA x86_DivRemTidy ==
  ASSUME x86_Kept, NEW res \in {EAX, EDX}, NEW tar \in Vars, NEW a1 \in Vars \cup {Const}, NEW a2 \in Vars \cup {Const},
         x86_div_rem(res, tar, a1, a2)
  PROVE  SInv'
  <1> DEFINE M1(m) == DividendReg(get_reg(m, a1, Live1(m, tar, a1)))
             M2(m) == pin_reg(x86_load(M1(m), EAX, a1), EAX)
             M3(m) == Clobber(pin_reg(spill_reg(M2(m), EDX), EDX), {EDX})
             M4(m) == Clobber(RightIn(Divisor(M3(m), a2), EAX, a1, 1), {EAX, EDX})
             M5(m) == Into(unpin_reg(unpin_reg(M4(m), EAX), EDX), res, None)
  <1>1. PICK m \in Marks(tar, {a1, a2}, {}) :
          Enabled("x86", "div_rem") /\ Commit(UPDATE_ADDRESSES(Computes(M5(m), tar), tar, a1, a2))
    BY DEF x86_div_rem
  <1>2. target = "x86" /\ Tidy(m, {}, m) BY <1>1, x86_BeginTidy
  <1>3. Tidy(M1(m), {}, m) BY <1>2, x86_GetRegTidy, x86_SpillTidy DEF DividendReg
  <1>4. Tidy(M2(m), {}, m) BY <1>2, <1>3, x86_FreeRegs, x86_LoadTidy, PinTidy
  <1> HIDE DEF M2
  <1>5. Tidy(M3(m), {}, m) BY <1>2, <1>4, x86_FreeRegs, x86_SpillTidy, PinTidy, ClobberTidy
  <1> HIDE DEF M3
  <1>6. Tidy(Divisor(M3(m), a2), {}, m) BY <1>2, <1>5, x86_LoadGotTidy, x86_OperandTidy DEF Divisor
  <1>7. Tidy(M4(m), {}, m) BY <1>2, <1>6, x86_FreeRegs, RightTidy, ClobberTidy
  <1> HIDE DEF M4
  <1>8. Tidy(M5(m), {}, m) BY <1>2, <1>7, x86_FreeRegs, PinTidy, ResTidy
  <1> QED BY <1>1, <1>2, <1>8, ComputesTidy, x86_CommitTidy

LEMMA x86_ShiftTidy ==
  ASSUME x86_Kept, NEW tar \in Vars, NEW a1 \in Vars \cup {Const}, NEW a2 \in Vars \cup {Const}, x86_shift(tar, a1, a2)
  PROVE  SInv'
  <1> DEFINE M1(m) == Loaded(pin_reg(Count(m, a2), ECX), tar, a1)
             M2(m) == IF a2 = Const THEN Loaded(m, tar, a1) ELSE unpin_reg(RightIn(M1(m), ECX, a2, 1), ECX)
  <1>1. PICK m \in Marks(tar, {a1, a2}, {}) :
          Enabled("x86", "shift") /\ Commit(UPDATE_ADDRESSES(Computes(RightRes(M2(m), a1), tar), tar, a1, a2))
    BY DEF x86_shift
  <1>2. target = "x86" /\ Tidy(m, {}, m) BY <1>1, x86_BeginTidy
  <1>3. Tidy(Count(m, a2), {}, m) BY <1>2, x86_FreeRegs, x86_SpillTidy, x86_LoadTidy DEF Count
  <1>4. Tidy(M1(m), {}, m) BY <1>2, <1>3, PinTidy, x86_LoadedTidy
  <1> HIDE DEF M1
  <1>5. Tidy(M2(m), {}, m) BY <1>2, <1>4, PinTidy, RightTidy, x86_LoadedTidy
  <1> HIDE DEF M2
  <1> QED BY <1>1, <1>2, <1>5, RightTidy, ComputesTidy, x86_CommitTidy

LEMMA x86_RelopJumpTidy ==
  ASSUME x86_Kept, NEW a1 \in Vars \cup {Const}, NEW a2 \in Vars \cup {Const}, x86_relop_jump(a1, a2) PROVE SInv'
  <1>1. PICK m \in Marks(NoVar, {a1, a2}, {}) :
          /\ Enabled("x86", "relop_jump")
          /\ Commit(update_args(OnOperands(InPlaceReg(m, NoVar, a1), a1, a2), NoVar, a1, a2))
    BY DEF x86_relop_jump
  <1>2. target = "x86" /\ Tidy(m, {}, m) BY <1>1, x86_BeginTidy
  <1>3. Tidy(OnOperands(InPlaceReg(m, NoVar, a1), a1, a2), {}, m) BY <1>2, x86_LoadedTidy, x86_OnOperandsTidy
  <1> QED BY <1>1, <1>2, <1>3, x86_CommitTidy

\* The handlers with one operand.
LEMMA x86_UnaryTidy ==
  ASSUME x86_Kept, NEW tar \in Vars, NEW a1 \in Vars \cup {Const},
         x86_unary(tar, a1) \/ x86_unary2(tar, a1) \/ x86_llx(tar, a1) \/ x86_asn(tar, a1)
  PROVE  SInv'
  <1>1. PICK h, m :
          /\ m \in Marks(tar, {a1}, {}) /\ Enabled("x86", h)
          /\ \/ Commit(UPDATE_ADDRESSES_UNARY(Computes(RightRes(Loaded(m, tar, a1), a1), tar), tar, a1))
             \/ Commit(UPDATE_ADDRESSES_UNARY2(Computes2(Loaded2(m, tar, a1), tar), tar, a1))
             \/ Commit(UPDATE_ADDRESSES_UNARY2(Computes2(RightRes(LoadedLow(m, tar, a1), a1), tar), tar, a1))
             \/ Commit(UPDATE_ADDRESSES_UNARY2(Copies(Loaded2(m, tar, a1), tar, a1), tar, a1))
             \/ Commit(UPDATE_ADDRESSES_UNARY(Copies(RightRes(Loaded(m, tar, a1), a1), tar, a1), tar, a1))
    BY DEF x86_unary, x86_unary2, x86_llx, x86_asn
  <1>2. target = "x86" /\ Tidy(m, {}, m) BY <1>1, x86_BeginTidy
  <1>3. PICK p, q, s : p = RightRes(Loaded(m, tar, a1), a1) /\ q = Loaded2(m, tar, a1) /\ s = RightRes(LoadedLow(m, tar, a1), a1)
    OBVIOUS
  <1>4. Tidy(p, {}, m) /\ Tidy(q, {}, m) /\ Tidy(s, {}, m) BY <1>2, <1>3, x86_LoadedTidy, RightTidy
  <1>5. /\ Tidy(Computes(p, tar), {}, m) /\ Tidy(Computes2(q, tar), {}, m) /\ Tidy(Computes2(s, tar), {}, m)
        /\ Tidy(Copies(p, tar, a1), {}, m) /\ Tidy(Copies(q, tar, a1), {}, m)
    BY <1>4, ComputesTidy, CopiesTidy
  <1> QED BY <1>1, <1>2, <1>3, <1>5, x86_CommitTidy DEF UPDATE_ADDRESSES_UNARY, UPDATE_ADDRESSES_UNARY2

LEMMA x86_AddrOfTidy == ASSUME x86_Kept, NEW tar \in Vars, x86_addr_of(tar) PROVE SInv'
  <1>1. PICK m \in Marks(tar, {}, {}) :
          Enabled("x86", "addr_of") /\ Commit(update_tar(Computes(Got1(get_reg0(m)), tar), tar))
    BY DEF x86_addr_of
  <1>2. target = "x86" /\ Tidy(m, {}, m) BY <1>1, x86_BeginTidy
  <1>3. Tidy(Got1(get_reg0(m)), {}, m) BY <1>2, x86_Get0Tidy, GotTidy
  <1> QED BY <1>1, <1>2, <1>3, ComputesTidy, x86_CommitTidy

LEMMA x86_IndTidy == ASSUME x86_Kept, NEW tar \in Vars, NEW a1 \in Vars \cup {Const}, x86_ind(tar, a1) PROVE SInv'
  <1>1. PICK m, low, pair :
          /\ m \in Marks(tar, {a1}, AddrTaken) /\ Enabled("x86", "ind")
          /\ low = ReadsMemory(RightRes(Loaded(spill_aliased_objects(m), tar, a1), a1), Pointed)
          /\ pair = ReadsMemory(RightRes(LoadedLow(spill_aliased_objects(m), tar, a1), a1), Pointed)
          /\ \/ Commit(UPDATE_ADDRESSES_UNARY2(Computes2(pair, tar), tar, a1))
             \/ Commit(UPDATE_ADDRESSES_UNARY(ComputesAt(low, tar, Far), tar, a1))
             \/ Commit(UPDATE_ADDRESSES_UNARY(Computes(low, tar), tar, a1))
    BY DEF x86_ind
  <1>2. target = "x86" /\ Tidy(m, {}, m) /\ m \in States BY <1>1, x86_BeginTidy, CGenAssumption
  <1>3. Tidy(spill_aliased_objects(m), {}, m) BY <1>2, x86_AliasedTidy
  <1>4. Tidy(low, {}, m) /\ Tidy(pair, {}, m) BY <1>1, <1>2, <1>3, x86_LoadedTidy, RightTidy, ReadsMemoryTidy
  <1>5. Tidy(Computes2(pair, tar), {}, m) /\ Tidy(ComputesAt(low, tar, Far), {}, m) /\ Tidy(Computes(low, tar), {}, m)
    BY <1>4, ComputesTidy, ComputesAtTidy
  <1> QED BY <1>1, <1>2, <1>5, x86_CommitTidy DEF UPDATE_ADDRESSES_UNARY, UPDATE_ADDRESSES_UNARY2

\* The addresses of a structure and of its new place.
LEMMA x86_ToTidy ==
  ASSUME target = "x86", NEW m, NEW o, Tidy(m, {}, o), NEW a \in Vars
  PROVE  /\ Tidy(ToSource(m, a), {}, o) /\ Ours(ToSource(m, a), ESI)
         /\ Tidy(ToTarget(m, a), {}, o) /\ Ours(ToTarget(m, a), EDI)
  <1>1. ESI \in Regs /\ EDI \in Regs BY x86_Regs
  <1>2. \A r \in Regs : Tidy(x86_load(Save(m, r), r, a), {}, o) /\ Ours(x86_load(Save(m, r), r, a), r)
    <2> TAKE r \in Regs
    <2>1. PICK n : n = Save(m, r) OBVIOUS
    <2>2. Tidy(n, {}, o) /\ Tidy(n, {}, n) /\ Ours(n, r) BY <2>1, x86_SaveTidy, TidySelf
    <2>3. Tidy(x86_load(n, r, a), {}, n) BY <2>2, x86_LoadTidy
    <2> QED BY <2>1, <2>2, <2>3, TidyTrans, x86_OursGrows
  <1>3. Ours(m, addr_reg1(m, a)) BY OwnTidy
  <1> QED BY <1>1, <1>2, <1>3 DEF ToSource, ToTarget

LEMMA x86_StoredStructTidy ==
  ASSUME target = "x86", NEW n, NEW o, Tidy(n, {}, o), NEW a1 \in Vars, NEW a2 \in Vars PROVE Tidy(StoredStruct(n, a1, a2), {}, o)
  <1>1. PICK p, q, s : /\ p = ToSource(n, a2) /\ q = ToTarget(p, a1)
                       /\ s = RightIn(RightIn(q, ESI, a2, 1), EDI, a1, 1)
    OBVIOUS
  <1>2. Tidy(n, {}, n) BY TidySelf
  <1>3. Tidy(p, {}, n) /\ Tidy(p, {}, p) /\ Ours(p, ESI) BY <1>1, <1>2, x86_ToTidy, TidySelf
  <1>4. Tidy(q, {}, p) /\ Ours(q, EDI) BY <1>1, <1>3, x86_ToTidy
  <1>5. Tidy(q, {}, n) /\ Tidy(q, {}, q) /\ Ours(q, ESI) BY <1>3, <1>4, TidyTrans, TidySelf, x86_OursGrows
  <1>6. Tidy(s, {}, n) /\ Tidy(s, {}, q) BY <1>1, <1>5, RightTidy
  <1>7. Ours(s, ESI) /\ Ours(s, EDI) BY <1>4, <1>5, <1>6, x86_OursGrows
  <1>8. Intel BY DEF Intel
  <1>9. \A src, dst : Tidy(Copy(s, n, src, dst), {}, n) BY <1>2, <1>6, <1>7, <1>8, CopyTidy
  <1> QED BY <1>1, <1>9, TidyTrans DEF StoredStruct

LEMMA x86_StoredTidy ==
  ASSUME target = "x86", NEW n, NEW o, Tidy(n, {}, o), NEW a1 \in Vars, NEW a2 \in Vars \cup {Const}
  PROVE  /\ Tidy(PointerRight(StoredWord(Pointer(n, a1), a2), a1), {}, o)
         /\ Tidy(PointerRight(StoredPair(Pointer(n, a1), a2), a1), {}, o)
  <1>1. PICK p : p = Pointer(n, a1) OBVIOUS
  <1>2. Tidy(p, {}, o) BY <1>1, OwnTidy, ResTidy, PinTidy, x86_LoadedTidy DEF Pointer
  <1>3. Tidy(StoredWord(p, a2), {}, o) BY <1>2, RightTidy, x86_LoadGotTidy DEF StoredWord
  <1>4. Tidy(StoredPair(p, a2), {}, o)
    <2>1. Tidy(PushPair(p, a2), {}, o) BY <1>2, x86_PushPairTidy
    <2>2. Tidy(LoadPair(get_reg2(p, Const, TRUE), p.res, a2), {}, o)
      <3>1. PICK q : q = LoadRes2(get_reg2(p, Const, TRUE), a2) OBVIOUS
      <3>2. Tidy(p, {}, p) /\ DOMAIN p.res = {"r1", "r2"} /\ Ours(p, p.res.r1) /\ Ours(p, p.res.r2) BY <1>2, TidySelf, OwnTidy
      <3>3. Tidy(q, {}, p) BY <3>1, <3>2, x86_GetRegTidy, x86_LoadResTidy
      <3>4. Ours(q, p.res.r1) /\ Ours(q, p.res.r2) BY <3>2, <3>3, x86_OursGrows
      <3>5. Tidy([q EXCEPT !.res = p.res], {}, p) BY <3>2, <3>3, <3>4, ResTidy
      <3> QED BY <1>2, <3>1, <3>5, TidyTrans DEF LoadPair
    <2> QED BY <1>2, <2>1, <2>2 DEF StoredPair
  <1> QED BY <1>1, <1>3, <1>4, RightTidy, PinTidy DEF PointerRight

LEMMA x86_IndAsnTidy ==
  ASSUME x86_Kept, NEW a1 \in Vars, NEW a2 \in Vars \cup {Const}, x86_ind_asn(a1, a2) PROVE SInv'
  <1>1. PICK m, n, q :
          /\ m \in Marks(NoVar, {a1, a2}, {}) /\ Enabled("x86", "ind_asn") /\ n = spill_aliased_objects(m)
          /\ \/ a2 \in Structs /\ q = StoredStruct(n, a1, a2)
             \/ q = PointerRight(StoredPair(Pointer(n, a1), a2), a1)
             \/ q = PointerRight(StoredWord(Pointer(n, a1), a2), a1)
          /\ Commit(update_args(WritesMemory(q, Pointed), NoVar, a1, a2))
    BY DEF x86_ind_asn
  <1>2. target = "x86" /\ Tidy(m, {}, m) /\ m \in States BY <1>1, x86_BeginTidy, CGenAssumption
  <1>3. Tidy(n, {}, m) BY <1>1, <1>2, x86_AliasedTidy
  <1>4. Structs \subseteq Vars /\ Pointed \in SUBSET Vars BY CGenRegsAssumption DEF Ids
  <1>5. Tidy(q, {}, m) BY <1>1, <1>2, <1>3, <1>4, x86_StoredStructTidy, x86_StoredTidy
  <1> QED BY <1>1, <1>2, <1>4, <1>5, WritesMemoryTidy, x86_CommitTidy

LEMMA x86_PushesTidy ==
  ASSUME target = "x86", NEW m, NEW o, Tidy(m, {}, o), NEW k, NEW n, n = [m EXCEPT !.args = k] PROVE Tidy(n, {}, n)
  <1>1. ArgRegs[target] = {} BY IntelIs DEF Intel
  <1> QED BY <1>1, PushedTidy

LEMMA x86_ReturnedTidy ==
  ASSUME target = "x86", NEW m, NEW o, Tidy(m, {}, o), NEW tar, Commit(Returned(m, tar)) PROVE SInv'
  <1>1. Tidy(Into(m, EAX, None), {}, o) /\ Tidy(Into(m, EAX, EDX), {}, o) BY x86_FreeRegs, ResTidy
  <1>2. Tidy([Into(m, EAX, None) EXCEPT !.M[Area][1] = {}], {}, o) BY <1>1 DEF Tidy, Form, Intact, Ours, Noted
  <1>3. Structs \subseteq Vars /\ Wide \subseteq Vars BY CGenRegsAssumption
  <1>4. CASE tar \in Wide BY <1>1, <1>3, <1>4, ComputesTidy, x86_CommitTidy DEF Returned
  <1>5. CASE tar \in Structs \ Wide BY <1>2, <1>3, <1>5, ComputesAtTidy, x86_CommitTidy DEF Returned
  <1>6. CASE tar \in Vars \ (Structs \cup Wide) BY <1>1, <1>6, ComputesTidy, x86_CommitTidy DEF Returned
  <1>7. CASE tar \notin Vars
    <2>1. Commit(m) BY <1>3, <1>7 DEF Returned
    <2> QED BY <2>1, FinishTidy
  <1> QED BY <1>4, <1>5, <1>6, <1>7

LEMMA x86_CallTidy == ASSUME x86_Kept, NEW tar, NEW nargs, x86_call(tar, nargs) PROVE SInv'
  <1>1. PICK m, n, k :
          /\ m \in Marks(tar, {}, AddrTaken \cup Statics) /\ Enabled("x86", "call")
          /\ n = Called(spill_all(m), CallerSave) /\ k = n.args - nargs
          /\ Commit(Returned([n EXCEPT !.args = k], tar))
    BY DEF x86_call, Pops
  <1>2. target = "x86" /\ Tidy(m, {}, m) /\ m \in States BY <1>1, x86_BeginTidy, CGenAssumption
  <1>3. Tidy(n, {}, m) BY <1>1, <1>2, x86_AliasedTidy, x86_FreeRegs, CalledTidy
  <1>4. PICK q : q = [n EXCEPT !.args = k] OBVIOUS
  <1>5. Tidy(q, {}, q) BY <1>2, <1>3, <1>4, x86_PushesTidy
  <1> QED BY <1>1, <1>2, <1>4, <1>5, x86_ReturnedTidy

LEMMA x86_IndCallTidy == ASSUME x86_Kept, NEW tar, NEW a1, NEW nargs, x86_indcall(tar, a1, nargs) PROVE SInv'
  <1>1. PICK m, n, k, q, s :
          /\ m \in Marks(tar, {a1}, AddrTaken \cup Statics) /\ Enabled("x86", "indcall")
          /\ n = Called(OperandRight(spill_all(m), a1), CallerSave) /\ k = n.args - nargs
          /\ q = [n EXCEPT !.args = k] /\ s = update_args(q, tar, a1, Const) /\ Commit(Returned(s, tar))
    BY DEF x86_indcall, Pops
  <1>2. target = "x86" /\ Tidy(m, {}, m) /\ m \in States BY <1>1, x86_BeginTidy, CGenAssumption
  <1>3. Tidy(OperandRight(spill_all(m), a1), {}, m) BY <1>2, x86_AliasedTidy, x86_OperandTidy
  <1>4. Tidy(n, {}, m) BY <1>1, <1>2, <1>3, x86_FreeRegs, CalledTidy
  <1>5. Tidy(q, {}, q) BY <1>1, <1>2, <1>4, x86_PushesTidy
  <1>6. Tidy(s, {}, q) BY <1>1, <1>2, <1>5, x86_ArgsTidy
  <1> QED BY <1>1, <1>2, <1>6, x86_ReturnedTidy

LEMMA x86_LibcallTidy ==
  ASSUME x86_Kept, NEW tar \in Vars, NEW a1 \in Wide \cup {Const}, NEW a2 \in Vars \cup {Const}, x86_do_libcall(tar, a1, a2)
  PROVE  SInv'
  <1>1. PICK m, p, m1, m2 :
          /\ m \in Marks(tar, {a1, a2}, {}) /\ Enabled("x86", "do_libcall")
          /\ p = IF a2 \in Wide THEN PushPair(m, a2) ELSE OperandRight(m, a2)
          /\ m1 = PushPair(p, a1) /\ m2 = Clobber(spill_all(m1), CallerSave)
          /\ \/ Commit(UPDATE_ADDRESSES2(Computes2(Into(m2, EAX, EDX), tar), tar, a1, a2))
             \/ Commit(UPDATE_ADDRESSES(Computes(Into(m2, EAX, None), tar), tar, a1, a2))
    BY DEF x86_do_libcall
  <1>2. target = "x86" /\ Tidy(m, {}, m) /\ m \in States BY <1>1, x86_BeginTidy
  <1>3. ~ (X86Pool \subseteq m.pinned) BY <1>1, x86_Begin DEF x86_Kept, x86_Runs
  <1>4. PICK A : A = Named(a1, a2) OBVIOUS
  <1>5. /\ A \in SUBSET Vars /\ A \subseteq {a1, a2} /\ a1 \in A \cup {Const} /\ a2 \in A \cup {Const}
    BY <1>4, NamedIs, CGenRegsAssumption
  <1>6. m1 \in States
    <2>1. m \in Still(m, A) BY <1>2, <1>5, StillSelf
    <2>2. p \in Still(m, A) BY <1>1, <1>2, <1>3, <1>5, <2>1, x86_PushPairStill, x86_OperandRightStill
    <2>3. m1 \in Still(m, A) BY <1>1, <1>2, <1>5, <2>2, x86_PushPairStill
    <2> QED BY <1>2, <1>5, <2>3, StillIs
  <1>7. Tidy(p, {}, m) BY <1>1, <1>2, x86_OperandTidy, x86_PushPairTidy
  <1>8. Tidy(m1, {}, m) BY <1>1, <1>2, <1>7, x86_PushPairTidy
  <1>9. Tidy(m2, {}, m) BY <1>1, <1>2, <1>6, <1>8, x86_AliasedTidy, x86_FreeRegs, ClobberTidy
  <1>10. Tidy(Into(m2, EAX, EDX), {}, m) /\ Tidy(Into(m2, EAX, None), {}, m) BY <1>2, <1>9, x86_FreeRegs, ResTidy
  <1> QED BY <1>1, <1>2, <1>10, ComputesTidy, x86_CommitTidy

LEMMA x86_ArgTidy == ASSUME x86_Kept, NEW a1 \in Vars, x86_arg(a1) PROVE SInv'
  <1>1. PICK m, m1, n, k :
          /\ m \in Marks(NoVar, {a1}, {}) /\ Enabled("x86", "arg")
          /\ \/ m1 = PushStruct(m, a1) \/ m1 = PushPair(m, a1) \/ m1 = OperandRight(m, a1)
          /\ n = update_args(m1, NoVar, a1, Const) /\ k = n.args + 1 /\ Commit([n EXCEPT !.args = k])
    <2>1. PICK m \in Marks(NoVar, {a1}, {}) :
            /\ Enabled("x86", "arg")
            /\ Commit(Pushed(update_args(IF a1 \in Structs THEN PushStruct(m, a1)
                                         ELSE IF a1 \in Wide THEN PushPair(m, a1) ELSE OperandRight(m, a1),
                                         NoVar, a1, Const)))
      BY DEF x86_arg
    <2> QED BY <2>1 DEF Pushed
  <1>2. target = "x86" /\ Tidy(m, {}, m) BY <1>1, x86_BeginTidy
  <1>3. Tidy(PushStruct(m, a1), {}, m)
    <2>1. PICK p, q, s : /\ p = RightIn(ToSource(m, a1), ESI, a1, 1) /\ q = Save(p, EDI) /\ s = Clobber(q, {EDI})
      OBVIOUS
    <2>2. Tidy(ToSource(m, a1), {}, m) /\ Ours(ToSource(m, a1), ESI) BY <1>2, x86_ToTidy
    <2>3. Tidy(ToSource(m, a1), {}, ToSource(m, a1)) BY <2>2, TidySelf
    <2>4. Tidy(p, {}, m) /\ Tidy(p, {}, ToSource(m, a1)) BY <2>1, <2>2, <2>3, RightTidy
    <2>5. Ours(p, ESI) BY <2>2, <2>4, x86_OursGrows
    <2>6. Tidy(q, {}, m) /\ Ours(q, EDI) /\ Ours(q, ESI) BY <1>2, <2>1, <2>4, <2>5, x86_SaveTidy, x86_Regs
    <2>7. Tidy(q, {}, q) /\ Tidy(s, {}, m) /\ Tidy(s, {}, q) BY <2>1, <2>6, TidySelf, ClobberTidy
    <2>8. Ours(s, EDI) /\ Ours(s, ESI) BY <2>6, <2>7, x86_OursGrows
    <2>9. Intel BY <1>2 DEF Intel
    <2>10. \A src : Tidy(Copy(s, m, src, FALSE), {}, m) BY <1>2, <2>7, <2>8, <2>9, CopyTidy
    <2> QED BY <2>1, <2>10 DEF PushStruct
  <1>4. Tidy(m1, {}, m) BY <1>1, <1>2, <1>3, x86_OperandTidy, x86_PushPairTidy
  <1>5. Tidy(n, {}, m) BY <1>1, <1>2, <1>4, x86_ArgsTidy
  <1>6. PICK q : q = [n EXCEPT !.args = k] OBVIOUS
  <1>7. Tidy(q, {}, q) BY <1>2, <1>5, <1>6, x86_PushesTidy
  <1> QED BY <1>1, <1>6, <1>7, FinishTidy

LEMMA x86_RetTidy == ASSUME x86_Kept, NEW a1 \in Vars, x86_ret(a1) PROVE SInv'
  <1>1. PICK m, m1 :
          /\ m \in Marks(NoVar, {a1}, {}) /\ Enabled("x86", IF a1 \in Wide THEN "ret2" ELSE "ret")
          /\ \/ m1 = LoadRight2(m, [r1 |-> EAX, r2 |-> EDX], a1) \/ m1 = ReturnStruct(m, a1) \/ m1 = LoadRight(m, EAX, a1)
          /\ Commit(update_args(m1, NoVar, a1, Const))
    BY DEF x86_ret
  <1>2. target = "x86" /\ Tidy(m, {}, m) BY <1>1, x86_BeginTidy
  <1>3. Intel /\ ArgRegs[target] = {} BY <1>2, IntelIs DEF Intel
  <1>4. Tidy(ReturnStruct(m, a1), {}, m)
    <2>1. PICK n, p, q, s : /\ n = LoadRight(m, ESI, a1) /\ p = Modified(n, ESI) /\ q = Modified(spill_reg(p, EDI), EDI)
                            /\ s = spill_reg(Clobber(q, {EDI}), ECX)
      OBVIOUS
    <2>2. Tidy(n, {ESI}, m)
      <3>1. Tidy(m, {ESI}, m) BY <1>2, TidySelf
      <3> QED BY <2>1, <3>1, LoadTidy, RightTidy DEF LoadRight, x86_load
    <2>3. Tidy(p, {ESI}, m) /\ Ours(p, ESI) BY <1>2, <1>3, <2>1, <2>2, ModifiedOurs
    <2>4. Tidy(p, {}, m)
      <3>1. m.passed = {} BY <1>2, <1>3 DEF Tidy, Intact
      <3> QED BY <2>3, <3>1 DEF Tidy, Ours
    <2>5. Tidy(p, {}, p) BY <2>4, TidySelf
    <2>6. Tidy(spill_reg(p, EDI), {}, p) BY <1>2, <2>5, x86_SpillTidy
    <2>7. Tidy(q, {}, p) /\ Ours(q, EDI) BY <1>2, <1>3, <2>1, <2>6, ModifiedOurs
    <2>8. Ours(q, ESI) /\ Tidy(q, {}, q) BY <2>3, <2>5, <2>7, x86_OursGrows, TidySelf
    <2>9. Tidy(s, {}, q) BY <1>2, <2>1, <2>7, <2>8, ClobberTidy, x86_SpillTidy
    <2>10. Ours(s, ESI) /\ Ours(s, EDI) BY <2>7, <2>8, <2>9, x86_OursGrows
    <2>11. Tidy(s, {}, m) BY <2>4, <2>7, <2>9, TidyTrans
    <2>12. Tidy(rep_movsb(s), {}, m) BY <1>3, <2>10, <2>11, MovsTidy
    <2> QED BY <2>1, <2>12 DEF ReturnStruct
  <1>5. Tidy(LoadRight2(m, [r1 |-> EAX, r2 |-> EDX], a1), {}, m) BY <1>2, x86_FreeRegs, x86_Load2Tidy
  <1>6. Tidy(LoadRight(m, EAX, a1), {}, m) BY <1>2, x86_FreeRegs, x86_LoadTidy
  <1> QED BY <1>1, <1>2, <1>4, <1>5, <1>6, x86_CommitTidy

LEMMA x86_CbrTidy == ASSUME x86_Kept, NEW a1 \in Vars, x86_cbr(a1) PROVE SInv'
  <1>1. PICK m, m1 :
          /\ m \in Marks(NoVar, {a1}, {}) /\ Enabled("x86", "cbr")
          /\ m1 = OrWords(Loaded2(m, NoVar, a1)) \/ m1 = Compared(m, a1)
          /\ Commit(update_args(m1, NoVar, a1, Const))
    BY DEF x86_cbr
  <1>2. target = "x86" /\ Tidy(m, {}, m) BY <1>1, x86_BeginTidy
  <1>3. Tidy(Compared(m, a1), {}, m) BY <1>2, OperandTidy, RightTidy DEF Compared
  <1>4. Tidy(OrWords(Loaded2(m, NoVar, a1)), {}, m) BY <1>2, x86_LoadedTidy, OwnTidy, ClobberTidy DEF OrWords
  <1> QED BY <1>1, <1>2, <1>3, <1>4, x86_CommitTidy

LEMMA x86_SwitchTidy == ASSUME x86_Kept, NEW a1 \in Vars, x86_switch(a1) PROVE SInv'
  <1>1. PICK m, p, q :
          /\ m \in Marks(NoVar, {a1}, {}) /\ Enabled("x86", "switch")
          /\ p = update_args(InPlaceReg2(m, NoVar, a1), NoVar, a1, Const)
          /\ q = update_args(InPlaceReg(m, NoVar, a1), NoVar, a1, Const)
          /\ Commit(CompareRes2(p, a1)) \/ Commit(CompareRes(q, a1))
    BY DEF x86_switch
  <1>2. target = "x86" /\ Tidy(m, {}, m) BY <1>1, x86_BeginTidy
  <1>3. Tidy(p, {}, m) /\ Tidy(q, {}, m) BY <1>1, <1>2, x86_LoadedTidy, x86_ArgsTidy
  <1>4. Tidy(CompareRes2(p, a1), {}, m) BY <1>3, RightTidy DEF CompareRes2
  <1>5. Tidy(CompareRes(q, a1), {}, m)
    <2>1. PICK s : s = RightIn(q, q.res.r1, a1, 1) OBVIOUS
    <2>2. Tidy(q, {}, q) /\ Ours(q, q.res.r1) BY <1>3, TidySelf, OwnTidy
    <2>3. Tidy(s, {}, q) /\ Tidy(s, {}, m) BY <1>3, <2>1, <2>2, RightTidy
    <2>4. Ours(s, q.res.r1) BY <2>2, <2>3, x86_OursGrows
    <2> QED BY <2>1, <2>3, <2>4, ClobberTidy DEF CompareRes
  <1> QED BY <1>1, <1>4, <1>5, FinishTidy

LEMMA x86_StepTidy == ASSUME x86_Kept, x86_Next PROVE SInv'
  <1>1. /\ WordTemps \subseteq Vars /\ WideTemps \subseteq Vars /\ Scalars \subseteq Vars /\ Wide \subseteq Vars
        /\ Temps \subseteq Vars /\ Structs \subseteq Vars
        /\ \A p \in Ops2 : p[1] \in Vars \cup {Const} /\ p[2] \in Vars \cup {Const}
        /\ \A p \in WideOps : p[1] \in Wide \cup {Const} /\ p[2] \in Wide \cup {Const}
    BY CGenRegsAssumption DEF WordTemps, WideTemps, Scalars, Ops2, WideOps
  <1>2. CASE \E t \in WordTemps, p \in Ops2 :
                \/ x86_alu(t, p[1], p[2]) \/ x86_shift(t, p[1], p[2]) \/ x86_setcc(t, p[1], p[2])
                \/ \E res \in {EAX, EDX} : x86_div_rem(res, t, p[1], p[2])
    BY <1>1, <1>2, x86_AluTidy, x86_ShiftTidy, x86_DivRemTidy
  <1>3. CASE \E t \in WideTemps, p \in WideOps : x86_alu2(t, p[1], p[2]) BY <1>1, <1>3, x86_Alu2Tidy
  <1>4. CASE \/ \E t \in WordTemps \cup WideTemps, p \in WideOps : x86_do_libcall(t, p[1], p[2])
             \/ \E t \in WideTemps, a \in Wide, c \in (Scalars \ Wide) \cup {Const} : x86_do_libcall(t, a, c)
    BY <1>1, <1>4, x86_LibcallTidy
  <1>5. CASE \E p \in Ops2 : x86_relop_jump(p[1], p[2]) BY <1>1, <1>5, x86_RelopJumpTidy
  <1>6. CASE \/ \E t \in WordTemps, a \in Scalars : x86_unary(t, a)
             \/ \E t \in WideTemps : \/ \E a \in Wide : x86_unary2(t, a)
                                     \/ \E a \in Scalars \ Wide : x86_llx(t, a)
             \/ \E t \in Wide, a \in Wide \cup {Const} : x86_asn(t, a)
             \/ \E t \in Scalars \ Wide, a \in Scalars \cup {Const} : x86_asn(t, a)
             \/ \E t \in Structs, a \in Structs : x86_asn(t, a)
    BY <1>1, <1>6, x86_UnaryTidy
  <1>7. CASE \E t \in WordTemps : x86_addr_of(t) BY <1>1, <1>7, x86_AddrOfTidy
  <1>8. CASE \E t \in Temps, a \in Scalars \ (Wide \cup Bytes) : x86_ind(t, a) BY <1>1, <1>8, x86_IndTidy
  <1>9. CASE \E a \in Scalars \ (Wide \cup Bytes), b \in Vars \cup {Const} : x86_ind_asn(a, b)
    BY <1>1, <1>9, x86_IndAsnTidy
  <1>10. CASE \E t \in Temps \cup {NoVar}, n \in 0 .. MaxPushed :
                \/ x86_call(t, n)
                \/ \E a \in Scalars \ (Wide \cup Bytes) : x86_indcall(t, a, n)
    BY <1>10, x86_CallTidy, x86_IndCallTidy
  <1>11. CASE \E a \in Vars : x86_arg(a) \/ x86_ret(a) BY <1>11, x86_ArgTidy, x86_RetTidy
  <1>12. CASE \E a \in Scalars : x86_cbr(a) \/ x86_switch(a) BY <1>1, <1>12, x86_CbrTidy, x86_SwitchTidy
  <1>13. CASE x86_next_block BY <1>13, EntryTidy DEF x86_next_block, x86_Kept, SInv
  <1>14. CASE x86_function_definition BY <1>14, NewFunctionTidy DEF x86_function_definition, x86_Kept
  <1> QED BY <1>2, <1>3, <1>4, <1>5, <1>6, <1>7, <1>8, <1>9, <1>10, <1>11, <1>12, <1>13, <1>14 DEF x86_Next
=============================================================================
