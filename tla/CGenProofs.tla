----------------------------- MODULE CGenProofs -----------------------------
(***************************************************************************)
(* Lemmas on what the code generators have in common: what the operators   *)
(* of CGenRegs and CGen do to the descriptors, the slots and the pins.     *)
(*                                                                         *)
(* A handler is a chain of helpers from one state of the code generator to *)
(* the next.  The lemmas describe a helper by two relations: the code it   *)
(* emits leaves the descriptors alone (Emitted), or variables leave their  *)
(* registers, and slots are taken by variables that were in registers or   *)
(* are named by the instruction (After).  Both are closed under chaining.  *)
(***************************************************************************)
EXTENDS CGen, FiniteSetTheorems, WellFoundedInduction, TLAPS

Pairs    == [r1 : Regs \cup {None}, r2 : Regs \cup {None}]
Contents == SUBSET Tokens
Memory   == [Locs -> [{1, 2} -> Contents]]
Faults   == {"operand", "argument", "assert", "modified"}
Gen ==
  [reg : [Regs -> Vars \cup {NoVar}], addr : [Vars -> Pairs], pinned : SUBSET Regs,
   modified : SUBSET Regs, temps : Seq(Temps \cup {NoVar}), args : Int, passed : SUBSET (0 .. 3),
   fut : [Vars -> {"next", "live", "dead"}], R : [Regs -> Contents], M : Memory,
   written : SUBSET Int, faults : SUBSET Faults, got : Int, res : Pairs, opd : Contents \cup Pairs]

\* The register and the address descriptors say the same, and a variable has one
\* register or, if it needs them, two.
Agree(m) ==
  /\ \A r \in Regs, v \in Vars : m.reg[r] = v <=> r \in {m.addr[v].r1, m.addr[v].r2}
  /\ \A v \in Vars : /\ m.addr[v].r1 = None => m.addr[v].r2 = None
                     /\ m.addr[v].r2 # None => v \in Wide /\ m.addr[v].r1 # m.addr[v].r2
                     /\ v \in Wide /\ m.addr[v].r1 # None => m.addr[v].r2 # None

\* No temporary has two slots, and there is a slot at most for each.
OneSlot(temps) ==
  /\ \A j, k \in DOMAIN temps : temps[j] = temps[k] /\ temps[j] # NoVar => j = k
  /\ Len(temps) <= Cardinality(Temps)

States == {m \in Gen : Agree(m) /\ OneSlot(m.temps)}

Owners(m) == {v \in Temps : HasSlot(m, v)}
Busy(m) == {v \in Vars : InReg(m, v)}

\* Code has been emitted, and no descriptor, slot or pin is changed.
Emitted(m) ==
  {n \in Gen : /\ n.reg = m.reg /\ n.addr = m.addr /\ n.temps = m.temps /\ n.fut = m.fut
               /\ n.args = m.args /\ n.pinned = m.pinned /\ n.res = m.res /\ n.got = m.got
               /\ "assert" \in n.faults => "assert" \in m.faults}

\* The generator has picked registers, or pinned them; no code is emitted.
Picked(m) ==
  {n \in Gen : /\ n.reg = m.reg /\ n.addr = m.addr /\ n.temps = m.temps /\ n.fut = m.fut
               /\ n.args = m.args /\ n.R = m.R /\ n.M = m.M /\ n.faults = m.faults}

\* Variables have left their registers; those of A and those that were in registers
\* may have got slots.
After(m, A) ==
  {n \in States : /\ n.fut = m.fut /\ n.args = m.args
                  /\ \A v \in Vars : n.addr[v] \in {m.addr[v], NoReg}
                  /\ Owners(n) \subseteq Owners(m) \cup Busy(m) \cup A
                  /\ "assert" \in n.faults => "assert" \in m.faults}

\* The same with every variable still where it was.
Stored(m, A) ==
  {n \in After(m, A) : /\ n.reg = m.reg /\ n.addr = m.addr /\ n.pinned = m.pinned
                       /\ n.res = m.res /\ n.got = m.got}

\* Variables have been spilled, or released.
Fewer(m) == {n \in After(m, {}) : n.pinned = m.pinned /\ n.res = m.res}

\* In the code of an instruction that defines tar and reads args: the variables it does
\* not name are in registers only if they have a next use, and those that cannot cross
\* the end of a block have slots only if they live.  P are the registers that variables use.
Marked(m, tar, args, P) ==
  /\ m \in States
  /\ \A v \in Vars \ args : /\ v \in Busy(m) => m.fut[v] = "next" /\ v # tar
                            /\ v \in Owners(m) \ Crossing => m.fut[v] # "dead" /\ v # tar
  /\ \A r \in Regs : m.reg[r] # NoVar => r \in P

\* Register r is empty, or will be when the first operand, which dies here, is gone.
Free(m, r, a, live) == r \in Regs /\ (m.reg[r] = NoVar \/ (m.reg[r] = a /\ ~live))
Ready(m, a, live, P) == Free(m, m.res.r1, a, live) /\ m.res.r1 \in P
Ready2(m, a, live, P) ==
  Ready(m, a, live, P) /\ Free(m, m.res.r2, a, live) /\ m.res.r2 \in P /\ m.res.r1 # m.res.r2

\* The descriptors of operand a are up to date; those of both operands are.
Updated(m, a, live, next) ==
  {n \in Fewer(m) : a \in Vars /\ ~next => a \notin Busy(n) /\ (~live => a \notin Owners(n))}
Settled(m, tar, a, P) ==
  {n \in Fewer(m) : /\ Marked(n, tar, {}, P)
                    /\ \A r \in Regs : Free(m, r, a, Live1(m, tar, a)) => n.reg[r] = NoVar}

\* The target is bound to its registers; its descriptors are up to date.
Bound(m, tar, P) ==
  {n \in States : /\ n.fut = m.fut /\ n.args = m.args /\ n.pinned = m.pinned /\ n.temps = m.temps
                  /\ n.faults = m.faults /\ \A v \in Vars \ {tar} : n.addr[v] = m.addr[v]
                  /\ \A r \in Regs : n.reg[r] # NoVar => r \in P}
Done(m, P) ==
  {n \in States : /\ Marked(n, NoVar, {}, P) /\ n.pinned = m.pinned /\ n.fut = m.fut /\ n.args = m.args
                  /\ "assert" \in n.faults => "assert" \in m.faults}

-----------------------------------------------------------------------------
(* The emitted code                                                        *)

LEMMA EmittedSelf == ASSUME NEW m \in Gen PROVE m \in Emitted(m)
  BY DEF Emitted

LEMMA EmittedTrans == ASSUME NEW m, NEW n \in Emitted(m), NEW q \in Emitted(n) PROVE q \in Emitted(m)
  BY DEF Emitted

LEMMA EmittedState == ASSUME NEW m \in States, NEW n \in Emitted(m) PROVE n \in States
  BY DEF Emitted, States, Agree, OneSlot

LEMMA EmittedAfter == ASSUME NEW m \in States, NEW n \in Emitted(m), NEW A PROVE n \in After(m, A)
  <1>1. n \in States BY EmittedState
  <1>2. n \in Gen BY DEF Emitted
  <1>3. /\ n.addr = m.addr /\ n.temps = m.temps /\ n.fut = m.fut /\ n.args = m.args
        /\ "assert" \in n.faults => "assert" \in m.faults
    BY DEF Emitted
  <1>4. Owners(n) = Owners(m) BY <1>3 DEF Owners, HasSlot
  <1> QED BY <1>1, <1>3, <1>4 DEF After

LEMMA SetRegEmits ==
  ASSUME NEW m, NEW n \in Emitted(m), NEW r \in Regs, NEW X \in Contents PROVE SetReg(n, r, X) \in Emitted(m)
  <1>1. Regs \subseteq Int BY CGenRegsAssumption
  <1> QED BY <1>1 DEF Emitted, Gen, SetReg

LEMMA ClobberEmits ==
  ASSUME NEW m, NEW n \in Emitted(m), NEW S \in SUBSET Int PROVE Clobber(n, S) \in Emitted(m)
  BY DEF Emitted, Gen, Clobber, Contents

LEMMA MoveEmits ==
  ASSUME NEW m, NEW n \in Emitted(m), NEW r \in Regs, NEW from \in Regs PROVE Move(n, r, from) \in Emitted(m)
  BY SetRegEmits DEF Emitted, Gen, Move

LEMMA FaultEmits ==
  ASSUME NEW m, NEW n \in Emitted(m), NEW kind \in Faults, NEW ok, kind # "assert" \/ ok
  PROVE  Fault(n, kind, ok) \in Emitted(m)
  BY DEF Emitted, Gen, Fault, Faults

LEMMA ReadsEmits ==
  ASSUME NEW m, NEW n \in Emitted(m), NEW X, NEW a, NEW w PROVE Reads(n, X, a, w) \in Emitted(m)
  <1>1. "operand" \in Faults /\ "operand" # "assert" BY DEF Faults
  <1> QED BY <1>1, FaultEmits DEF Reads

LEMMA RightEmits ==
  ASSUME NEW m, NEW n \in Emitted(m), NEW a, NEW w, NEW r
  PROVE  /\ RightIn(n, r, a, w) \in Emitted(m) /\ RightIn2(n, r, a) \in Emitted(m)
         /\ RightOpd(n, a, w) \in Emitted(m) /\ RightRes(n, a) \in Emitted(m)
  BY ReadsEmits DEF RightIn, RightIn2, RightOpd, RightRes

LEMMA OperandEmits ==
  ASSUME NEW m, NEW n \in Emitted(m), NEW X \in Contents \cup Pairs PROVE Operand(n, X) \in Emitted(m)
  BY DEF Emitted, Gen, Operand

-----------------------------------------------------------------------------
(* Contents and slots                                                      *)

LEMMA TokensAre ==
  /\ \A v \in Vars \cup {Const}, w \in {1, 2} : {<<v, w>>} \in Contents
  /\ \A L \in Locs : {<<L, 0>>} \in Contents
  /\ \A k \in 0 .. 3 : {<<Arg, k>>} \in Contents
  /\ {} \in Contents
  <1>1. \A v \in Vars \cup {Const}, w \in {1, 2} : <<v, w>> \in Tokens BY DEF Tokens
  <1>2. \A L \in Locs : <<L, 0>> \in Tokens BY DEF Tokens
  <1>3. \A k \in 0 .. 3 : <<Arg, k>> \in Tokens BY DEF Tokens
  <1> QED BY <1>1, <1>2, <1>3 DEF Contents

LEMMA Contained ==
  ASSUME NEW m \in Gen
  PROVE  /\ \A r \in Regs : m.R[r] \in Contents
         /\ \A L \in Locs, w \in {1, 2} : m.M[L][w] \in Contents
  BY DEF Gen, Memory

LEMMA RegsAre == Regs \subseteq Int /\ None \notin Regs /\ Regs \subseteq Nat
  BY CGenRegsAssumption DEF None

LEMMA LeastNat == ASSUME NEW T \in SUBSET Nat, T # {} PROVE \E x \in T : \A y \in T : x <= y
  <1>1. PICK x \in T : \A y \in T : ~ (<<y, x>> \in OpToRel(<, Nat)) BY NatLessThanWellFounded, WFMin
  <1>2. \A y \in T : y \in Nat /\ x \in Nat /\ ~ (y < x) BY <1>1 DEF OpToRel
  <1>3. \A y \in T : x <= y BY <1>2
  <1> QED BY <1>3

LEMMA MinIs == ASSUME NEW S \in SUBSET Nat, S # {} PROVE Min(S) \in S
  <1>1. \E x \in S : \A y \in S : x =< y BY LeastNat
  <1> QED BY <1>1 DEF Min

LEMMA MaxIs ==
  ASSUME NEW N \in Nat, NEW S \in SUBSET (0 .. N), S # {}
  PROVE  Max(S) \in S /\ \A x \in S : x <= Max(S)
  <1> DEFINE T == {k \in Nat : N - k \in S}
  <1>1. T # {}
    <2>1. PICK x \in S : TRUE OBVIOUS
    <2>2. N - x \in Nat /\ N - (N - x) = x BY <2>1
    <2> QED BY <2>1, <2>2
  <1>2. PICK k \in T : \A j \in T : k <= j BY <1>1, LeastNat
  <1>3. N - k \in S /\ k \in Nat BY <1>2
  <1>4. ASSUME NEW y \in S PROVE N - k >= y
    <2>1. N - y \in Nat /\ N - (N - y) = y /\ y \in Nat BY <1>4
    <2>2. N - y \in T BY <2>1, <1>4
    <2> QED BY <2>1, <2>2, <1>2, <1>3
  <1> QED BY <1>3, <1>4 DEF Max

LEMMA TempsFinite == IsFiniteSet(Temps) /\ Cardinality(Temps) \in Nat
  BY CGenRegsAssumption, FS_Subset, FS_CardinalityType

LEMMA SlotIs ==
  ASSUME NEW m \in States, NEW a, HasSlot(m, a)
  PROVE  SlotOf(m, a) \in DOMAIN m.temps /\ SlotOf(m, a) \in Locs /\ m.temps[SlotOf(m, a)] = a
  <1>1. m.temps \in Seq(Temps \cup {NoVar}) /\ Len(m.temps) <= Cardinality(Temps)
    BY DEF States, Gen, OneSlot
  <1>2. SlotOf(m, a) \in DOMAIN m.temps /\ m.temps[SlotOf(m, a)] = a BY DEF SlotOf, HasSlot
  <1>3. Cardinality(Temps) \in Nat BY TempsFinite
  <1> QED BY <1>1, <1>2, <1>3 DEF Locs, Slots

-----------------------------------------------------------------------------
(* Chains of helpers                                                       *)

LEMMA AfterIs ==
  ASSUME NEW m \in States, NEW n, NEW A \in SUBSET Vars, n \in After(m, A)
  PROVE  /\ n \in States /\ n.fut = m.fut /\ n.args = m.args
         /\ \A v \in Vars : n.addr[v] \in {m.addr[v], NoReg}
         /\ \A r \in Regs : n.reg[r] \in {m.reg[r], NoVar}
         /\ Busy(n) \subseteq Busy(m) /\ Owners(n) \subseteq Owners(m) \cup Busy(m) \cup A
         /\ "assert" \in n.faults => "assert" \in m.faults
  <1>1. /\ n \in States /\ n.fut = m.fut /\ n.args = m.args
        /\ \A v \in Vars : n.addr[v] \in {m.addr[v], NoReg}
        /\ Owners(n) \subseteq Owners(m) \cup Busy(m) \cup A
        /\ "assert" \in n.faults => "assert" \in m.faults
    BY DEF After
  <1>2. Agree(m) /\ Agree(n) /\ n.reg \in [Regs -> Vars \cup {NoVar}] BY <1>1 DEF States, Gen
  <1>3. NoReg.r1 = None /\ NoReg.r2 = None BY DEF NoReg
  <1>4. Busy(n) \subseteq Busy(m) BY <1>1, <1>3 DEF Busy, InReg, addr_reg1
  <1>5. ASSUME NEW r \in Regs, n.reg[r] # NoVar PROVE n.reg[r] = m.reg[r]
    <2>1. PICK v \in Vars : v = n.reg[r] BY <1>2, <1>5
    <2>2. r \in {n.addr[v].r1, n.addr[v].r2} BY <1>2, <2>1 DEF Agree
    <2>3. n.addr[v] = m.addr[v] BY <1>1, <1>3, <2>2, RegsAre
    <2> QED BY <1>2, <2>1, <2>2, <2>3 DEF Agree
  <1> QED BY <1>1, <1>4, <1>5

LEMMA AfterSelf == ASSUME NEW m \in States, NEW A \in SUBSET Vars PROVE m \in After(m, A)
  BY DEF After

LEMMA AfterTrans ==
  ASSUME NEW m \in States, NEW A \in SUBSET Vars, NEW n \in After(m, A), NEW q \in After(n, A)
  PROVE  q \in After(m, A)
  <1>1. n \in States BY DEF After
  <1>2. /\ Busy(n) \subseteq Busy(m) /\ Owners(n) \subseteq Owners(m) \cup Busy(m) \cup A
        /\ Owners(q) \subseteq Owners(n) \cup Busy(n) \cup A
    BY <1>1, AfterIs
  <1>3. Owners(q) \subseteq Owners(m) \cup Busy(m) \cup A BY <1>2
  <1> QED BY <1>3 DEF After

LEMMA AfterMore ==
  ASSUME NEW m, NEW A \in SUBSET Vars, NEW B \in SUBSET A, NEW n \in After(m, B) PROVE n \in After(m, A)
  BY DEF After

LEMMA StoredIs ==
  ASSUME NEW m, NEW A, NEW n \in Stored(m, A)
  PROVE  /\ n \in After(m, A) /\ n \in States /\ n \in Gen /\ n.reg = m.reg /\ n.addr = m.addr
         /\ n.pinned = m.pinned /\ n.res = m.res /\ n.got = m.got
  BY DEF Stored, After, States

LEMMA StoredSelf == ASSUME NEW m \in States, NEW A \in SUBSET Vars PROVE m \in Stored(m, A)
  BY AfterSelf DEF Stored

LEMMA StoredTrans ==
  ASSUME NEW m \in States, NEW A \in SUBSET Vars, NEW n \in Stored(m, A), NEW q \in Stored(n, A)
  PROVE  q \in Stored(m, A)
  BY AfterTrans DEF Stored

LEMMA StoredMore ==
  ASSUME NEW m, NEW A \in SUBSET Vars, NEW B \in SUBSET A, NEW n \in Stored(m, B) PROVE n \in Stored(m, A)
  BY AfterMore DEF Stored

LEMMA EmittedStored ==
  ASSUME NEW m \in States, NEW A \in SUBSET Vars, NEW n \in Emitted(m) PROVE n \in Stored(m, A)
  BY EmittedAfter DEF Stored, Emitted

LEMMA StoredThen ==
  ASSUME NEW m \in States, NEW A \in SUBSET Vars, NEW n \in Stored(m, A), NEW q \in Emitted(n)
  PROVE  q \in Stored(m, A)
  BY StoredIs, EmittedStored, StoredTrans

LEMMA WithHomeStored ==
  ASSUME NEW m \in States, NEW A \in SUBSET Vars, NEW a \in Vars, a \in Busy(m) \cup A
  PROVE  /\ WithHome(m, a) \in Stored(m, A)
         /\ Home(WithHome(m, a), a) \in Locs
         /\ a \in Temps => HasSlot(WithHome(m, a), a)
  <1>1. CASE a \notin Temps
    BY <1>1, StoredSelf DEF WithHome, Home, Locs, Ids
  <1>2. CASE a \in Temps
    <2>1. PICK n : n = get_temp_offs(m, a) OBVIOUS
    <2>2. m \in Gen /\ OneSlot(m.temps) /\ m.temps \in Seq(Temps \cup {NoVar}) /\ Agree(m)
      BY DEF States, Gen
    <2>3. CASE HasSlot(m, a)
      BY <1>2, <2>3, StoredSelf, SlotIs DEF WithHome, Home, get_temp_offs
    <2>4. NoVar \notin Temps /\ a # NoVar BY <1>2, CGenRegsAssumption
    <2>5. CASE ~HasSlot(m, a) /\ HasSlot(m, NoVar)
      <3>1. PICK k : k = Max({j \in DOMAIN m.temps : m.temps[j] = NoVar}) OBVIOUS
      <3>2. k \in DOMAIN m.temps /\ m.temps[k] = NoVar
        <4>1. PICK S : S = {j \in DOMAIN m.temps : m.temps[j] = NoVar} OBVIOUS
        <4>2. S \in SUBSET (0 .. Len(m.temps)) /\ Len(m.temps) \in Nat BY <2>2, <4>1
        <4>3. S # {} BY <2>5, <4>1 DEF HasSlot
        <4>4. Max(S) \in S BY <4>2, <4>3, MaxIs
        <4> QED BY <4>1, <4>4, <3>1
      <3>3. n = [m EXCEPT !.temps = [m.temps EXCEPT ![k] = a]] BY <2>1, <2>5, <3>1 DEF get_temp_offs
      <3>4. PICK ts : ts = [m.temps EXCEPT ![k] = a] OBVIOUS
      <3>5. /\ ts \in Seq(Temps \cup {NoVar}) /\ Len(ts) = Len(m.temps) /\ DOMAIN ts = DOMAIN m.temps
            /\ \A j \in DOMAIN ts : ts[j] = IF j = k THEN a ELSE m.temps[j]
        BY <1>2, <3>2, <3>4, <2>2
      <3>6. OneSlot(ts) BY <3>5, <2>2, <2>5 DEF OneSlot, HasSlot
      <3>7. n = [m EXCEPT !.temps = ts] BY <3>3, <3>4
      <3>8. HasSlot(n, a) /\ Owners(n) \subseteq Owners(m) \cup {a}
        BY <3>2, <3>5, <3>7, <2>2 DEF HasSlot, Owners, Gen
      <3>9. n \in States BY <3>5, <3>6, <3>7, <2>2 DEF States, Gen, Agree
      <3>10. n \in Stored(m, A) BY <3>7, <3>8, <3>9, <2>2 DEF Stored, After, Gen
      <3> QED BY <3>8, <3>9, <3>10, <2>1, <1>2, SlotIs DEF WithHome, Home
    <2>6. CASE ~HasSlot(m, a) /\ ~HasSlot(m, NoVar)
      <3>1. PICK ts : ts = Append(m.temps, a) OBVIOUS
      <3>2. /\ ts \in Seq(Temps \cup {NoVar}) /\ Len(ts) = Len(m.temps) + 1 /\ DOMAIN ts = 1 .. Len(m.temps) + 1
            /\ DOMAIN m.temps = 1 .. Len(m.temps) /\ Len(m.temps) \in Nat
            /\ \A j \in DOMAIN ts : ts[j] = IF j = Len(m.temps) + 1 THEN a ELSE m.temps[j]
        BY <3>1, <1>2, <2>2
      <3>3. \A j \in DOMAIN m.temps : m.temps[j] \in Temps \ {a} BY <2>2, <2>6 DEF HasSlot
      <3>4. Len(m.temps) + 1 <= Cardinality(Temps)
        <4>1. IsFiniteSet(Temps \ {a}) /\ Cardinality(Temps \ {a}) = Cardinality(Temps) - 1
          BY <1>2, FS_RemoveElement, TempsFinite
        <4>2. IsFiniteSet(DOMAIN m.temps) /\ Cardinality(DOMAIN m.temps) = Len(m.temps)
          BY <3>2, FS_Interval
        <4>3. m.temps \in [DOMAIN m.temps -> Temps \ {a}] BY <3>3, <2>2
        <4>4. \A j, k \in DOMAIN m.temps : m.temps[j] = m.temps[k] => j = k
          BY <2>2, <3>3, <2>4 DEF OneSlot
        <4>5. ~ (Cardinality(Temps \ {a}) < Cardinality(DOMAIN m.temps))
          BY <4>1, <4>2, <4>3, <4>4, FS_PigeonHole
        <4> QED BY <4>1, <4>2, <4>5, <3>2, TempsFinite
      <3>5. OneSlot(ts) BY <3>2, <3>3, <3>4, <2>2 DEF OneSlot
      <3>6. n = [m EXCEPT !.temps = ts] BY <2>1, <2>6, <3>1 DEF get_temp_offs
      <3>7. HasSlot(n, a) /\ Owners(n) \subseteq Owners(m) \cup {a}
        <4>1. n.temps = ts BY <3>6, <2>2 DEF Gen
        <4>2. HasSlot(n, a) BY <4>1, <3>2 DEF HasSlot
        <4> QED BY <4>1, <4>2, <3>2 DEF HasSlot, Owners
      <3>8. n \in States BY <3>2, <3>5, <3>6, <2>2 DEF States, Gen, Agree
      <3>9. n \in Stored(m, A) BY <3>6, <3>7, <3>8, <2>2 DEF Stored, After, Gen
      <3> QED BY <3>7, <3>8, <3>9, <2>1, <1>2, SlotIs DEF WithHome, Home
    <2> QED BY <2>3, <2>5, <2>6
  <1> QED BY <1>1, <1>2

-----------------------------------------------------------------------------
(* Pins and results                                                        *)

LEMMA PickedAfter ==
  ASSUME NEW m \in States, NEW A \in SUBSET Vars, NEW n \in Picked(m)
  PROVE  n \in After(m, A) /\ n \in States /\ n.reg = m.reg /\ n.addr = m.addr
  <1>1. /\ n \in Gen /\ n.reg = m.reg /\ n.addr = m.addr /\ n.temps = m.temps /\ n.fut = m.fut
        /\ n.args = m.args /\ n.faults = m.faults
    BY DEF Picked
  <1>2. n \in States BY <1>1 DEF States, Agree
  <1>3. Owners(n) = Owners(m) BY <1>1 DEF Owners, HasSlot
  <1> QED BY <1>1, <1>2, <1>3 DEF After

LEMMA PinPicks ==
  ASSUME NEW m \in States, NEW r \in Regs
  PROVE  /\ pin_reg(m, r) \in Picked(m) /\ pin_reg(m, r).pinned = m.pinned \cup {r}
         /\ pin_reg(m, r).res = m.res /\ pin_reg(m, r).got = m.got /\ pin_reg(m, r).opd = m.opd
  BY DEF pin_reg, Picked, States, Gen

LEMMA UnpinPicks ==
  ASSUME NEW m \in States, NEW r
  PROVE  /\ unpin_reg(m, r) \in Picked(m) /\ unpin_reg(m, r).pinned = m.pinned \ {r}
         /\ unpin_reg(m, r).res = m.res /\ unpin_reg(m, r).got = m.got /\ unpin_reg(m, r).opd = m.opd
  BY DEF unpin_reg, Picked, States, Gen

LEMMA Got1Picks ==
  ASSUME NEW m \in States, m.got \in Regs
  PROVE  Got1(m) \in Picked(m) /\ Got1(m).pinned = m.pinned /\ Got1(m).res.r1 = m.got
  <1>1. PICK d : d = [m.res EXCEPT !.r1 = m.got] OBVIOUS
  <1>2. d \in Pairs /\ d.r1 = m.got BY <1>1 DEF States, Gen, Pairs
  <1>3. Got1(m) = [m EXCEPT !.res = d] BY <1>1 DEF Got1
  <1> QED BY <1>2, <1>3 DEF Picked, States, Gen

LEMMA Got2Picks ==
  ASSUME NEW m \in States, m.got \in Regs
  PROVE  /\ Got2(m) \in Picked(m) /\ Got2(m).pinned = m.pinned
         /\ Got2(m).res.r1 = m.res.r1 /\ Got2(m).res.r2 = m.got
  <1>1. PICK d : d = [m.res EXCEPT !.r2 = m.got] OBVIOUS
  <1>2. d \in Pairs /\ d.r1 = m.res.r1 /\ d.r2 = m.got BY <1>1 DEF States, Gen, Pairs
  <1>3. Got2(m) = [m EXCEPT !.res = d] BY <1>1 DEF Got2
  <1> QED BY <1>2, <1>3 DEF Picked, States, Gen

LEMMA ResPicks ==
  ASSUME NEW m \in States, NEW d \in Pairs
  PROVE  /\ [m EXCEPT !.res = d] \in Picked(m) /\ [m EXCEPT !.res = d].pinned = m.pinned
         /\ [m EXCEPT !.res = d].res = d /\ [m EXCEPT !.res = d].got = m.got
  BY DEF Picked, States, Gen

LEMMA Res1Picks ==
  ASSUME NEW m \in States, NEW r \in Regs
  PROVE  /\ [m EXCEPT !.res.r1 = r] \in Picked(m) /\ [m EXCEPT !.res.r1 = r].pinned = m.pinned
         /\ [m EXCEPT !.res.r1 = r].res.r1 = r
  <1>1. PICK d : d = [m.res EXCEPT !.r1 = r] OBVIOUS
  <1>2. d \in Pairs /\ d.r1 = r BY <1>1 DEF States, Gen, Pairs
  <1>3. [m EXCEPT !.res.r1 = r] = [m EXCEPT !.res = d] BY <1>1
  <1> QED BY <1>2, <1>3 DEF Picked, States, Gen

LEMMA Res2Picks ==
  ASSUME NEW m \in States, NEW r \in Regs
  PROVE  /\ [m EXCEPT !.res.r2 = r] \in Picked(m) /\ [m EXCEPT !.res.r2 = r].pinned = m.pinned
         /\ [m EXCEPT !.res.r2 = r].res.r1 = m.res.r1 /\ [m EXCEPT !.res.r2 = r].res.r2 = r
  <1>1. PICK d : d = [m.res EXCEPT !.r2 = r] OBVIOUS
  <1>2. d \in Pairs /\ d.r1 = m.res.r1 /\ d.r2 = r BY <1>1 DEF States, Gen, Pairs
  <1>3. [m EXCEPT !.res.r2 = r] = [m EXCEPT !.res = d] BY <1>1
  <1> QED BY <1>2, <1>3 DEF Picked, States, Gen

LEMMA IntoPicks ==
  ASSUME NEW m \in States, NEW r1 \in Regs, NEW r2 \in Regs \cup {None}
  PROVE  /\ Into(m, r1, r2) \in Picked(m) /\ Into(m, r1, r2).pinned = m.pinned
         /\ Into(m, r1, r2).res.r1 = r1 /\ Into(m, r1, r2).res.r2 = r2
  <1>1. PICK d : d = Pair(r1, r2) OBVIOUS
  <1>2. d \in Pairs /\ d.r1 = r1 /\ d.r2 = r2 BY <1>1 DEF Pair, Pairs
  <1>3. Into(m, r1, r2) = [m EXCEPT !.res = d] BY <1>1 DEF Into
  <1> QED BY <1>2, <1>3, ResPicks

LEMMA GotPicks ==
  ASSUME NEW m \in States, NEW r \in Regs
  PROVE  /\ [m EXCEPT !.got = r] \in Picked(m) /\ [m EXCEPT !.got = r].pinned = m.pinned
         /\ [m EXCEPT !.got = r].res = m.res /\ [m EXCEPT !.got = r].got = r
  BY RegsAre DEF Picked, States, Gen

LEMMA ModifiedPicks ==
  ASSUME NEW m \in States, NEW S \in SUBSET Regs
  PROVE  /\ [m EXCEPT !.modified = @ \cup S] \in Picked(m) /\ [m EXCEPT !.modified = @ \cup S].pinned = m.pinned
         /\ [m EXCEPT !.modified = @ \cup S].res = m.res /\ [m EXCEPT !.modified = @ \cup S].got = m.got
  BY DEF Picked, States, Gen

-----------------------------------------------------------------------------
(* Loads and stores                                                        *)

LEMMA RegOf ==
  ASSUME NEW m \in States, NEW a, a \in Vars \cup {Const}, InReg(m, a)
  PROVE  /\ a \in Vars /\ a \in Busy(m) /\ addr_reg1(m, a) \in Regs /\ m.reg[addr_reg1(m, a)] = a
         /\ m.addr[a] \in Pairs /\ addr_reg2(m, a) \in Regs \cup {None}
         /\ m.addr[a].r1 = addr_reg1(m, a) /\ m.addr[a].r2 = addr_reg2(m, a)
         /\ a \in Wide <=> addr_reg2(m, a) # None
         /\ addr_reg1(m, a) # addr_reg2(m, a)
         /\ addr_reg2(m, a) # None => m.reg[addr_reg2(m, a)] = a
  <1>1. a \in Vars BY DEF InReg
  <1>2. Agree(m) /\ m.addr[a] \in Pairs BY <1>1 DEF States, Gen
  <1>3. m.addr[a].r1 = addr_reg1(m, a) /\ m.addr[a].r2 = addr_reg2(m, a) BY DEF addr_reg1, addr_reg2
  <1>4. addr_reg1(m, a) # None /\ a \in Busy(m) BY <1>1 DEF InReg, Busy
  <1>5. addr_reg1(m, a) \in Regs /\ addr_reg2(m, a) \in Regs \cup {None} BY <1>2, <1>3, <1>4 DEF Pairs
  <1>6. /\ \A r \in Regs : m.reg[r] = a <=> r \in {addr_reg1(m, a), addr_reg2(m, a)}
        /\ addr_reg2(m, a) # None => a \in Wide /\ addr_reg1(m, a) # addr_reg2(m, a)
        /\ a \in Wide => addr_reg2(m, a) # None
    BY <1>1, <1>2, <1>3, <1>4 DEF Agree
  <1>7. /\ m.reg[addr_reg1(m, a)] = a
        /\ addr_reg2(m, a) # None => m.reg[addr_reg2(m, a)] = a
    BY <1>5, <1>6
  <1>8. addr_reg1(m, a) # addr_reg2(m, a) BY <1>5, <1>6, RegsAre
  <1>9. a \in Wide <=> addr_reg2(m, a) # None BY <1>6
  <1> QED BY <1>1, <1>2, <1>3, <1>4, <1>5, <1>7, <1>8, <1>9

LEMMA FromHomeEmits ==
  ASSUME NEW m \in States, NEW r \in Regs, NEW a, NEW w \in {1, 2}, Home(m, a) \in Locs
  PROVE  FromHome(m, r, a, w) \in Emitted(m)
  <1>1. m \in Gen BY DEF States
  <1> QED BY <1>1, Contained, SetRegEmits, EmittedSelf DEF FromHome

LEMMA ToHomeEmits ==
  ASSUME NEW m, NEW n \in Emitted(m), NEW r \in Regs, NEW a, NEW w PROVE ToHome(n, r, a, w) \in Emitted(m)
  <1>1. n \in Gen /\ n.M \in Memory /\ n.R[r] \in Contents BY DEF Emitted, Gen
  <1>2. PICK L : L = Home(n, a) OBVIOUS
  <1>3. PICK N : N = [n.M EXCEPT ![L] = [n.M[L] EXCEPT ![w] = n.R[r]]] OBVIOUS
  <1>4. N \in Memory BY <1>1, <1>3 DEF Memory
  <1>5. ToHome(n, r, a, w) = [n EXCEPT !.M = N] BY <1>2, <1>3 DEF ToHome
  <1> QED BY <1>4, <1>5 DEF Emitted, Gen

LEMMA LoadStored ==
  ASSUME NEW m \in States, NEW A \in SUBSET Vars, NEW r \in Regs, NEW a, a \in A \cup {Const}
  PROVE  Load(m, r, a) \in Stored(m, A)
  <1>0. m \in Gen /\ m \in Emitted(m) BY EmittedSelf DEF States
  <1>1. CASE a = Const
    BY <1>0, <1>1, SetRegEmits, TokensAre, EmittedStored DEF Load
  <1>2. CASE a # Const /\ InReg(m, a)
    BY <1>0, <1>2, RegOf, MoveEmits, EmittedStored DEF Load
  <1>3. CASE a # Const /\ ~InReg(m, a) /\ a \in Structs \cap Ids
    BY <1>0, <1>3, SetRegEmits, TokensAre, EmittedStored DEF Load, Locs
  <1>4. CASE a # Const /\ ~InReg(m, a) /\ ~(a \in Structs \cap Ids)
    <2>1. PICK n : n = WithHome(m, a) OBVIOUS
    <2>2. n \in Stored(m, A) /\ Home(n, a) \in Locs BY <1>4, <2>1, WithHomeStored
    <2>3. n \in States BY <2>2, StoredIs
    <2>4. FromHome(n, r, a, 1) \in Emitted(n) BY <2>2, <2>3, FromHomeEmits
    <2> QED BY <1>4, <2>1, <2>2, <2>4, StoredThen DEF Load
  <1> QED BY <1>1, <1>2, <1>3, <1>4

LEMMA HomeEmitted ==
  ASSUME NEW m, NEW n \in Emitted(m), NEW a PROVE Home(n, a) = Home(m, a)
  <1>1. n.temps = m.temps BY DEF Emitted
  <1> QED BY <1>1 DEF Home, SlotOf

LEMMA Load2Stored ==
  ASSUME NEW m \in States, NEW A \in SUBSET Vars, NEW r, r.r1 \in Regs, r.r2 \in Regs,
         NEW a, a \in A \cup {Const}, a \in Wide \cup {Const},
         InReg(m, a) => PairExpected(m.addr[a], r, a)
  PROVE  Load2(m, r, a) \in Stored(m, A)
  <1>0. m \in Gen /\ m \in Emitted(m) BY EmittedSelf DEF States
  <1>1. CASE a = Const
    <2>1. SetReg(m, r.r1, {<<Const, 1>>}) \in Emitted(m) BY <1>0, SetRegEmits, TokensAre
    <2>2. SetReg(SetReg(m, r.r1, {<<Const, 1>>}), r.r2, {<<Const, 2>>}) \in Emitted(m)
      BY <2>1, SetRegEmits, TokensAre
    <2> QED BY <1>1, <2>2, EmittedStored DEF Load2
  <1>2. CASE a # Const /\ InReg(m, a)
    <2>1. addr_reg1(m, a) \in Regs /\ addr_reg2(m, a) \in Regs BY <1>2, RegOf
    <2>2. Move(m, r.r1, addr_reg1(m, a)) \in Emitted(m) BY <1>0, <2>1, MoveEmits
    <2>3. Move(Move(m, r.r1, addr_reg1(m, a)), r.r2, addr_reg2(m, a)) \in Emitted(m)
      BY <2>1, <2>2, MoveEmits
    <2> QED BY <1>2, <2>3, EmittedStored DEF Load2
  <1>3. CASE a # Const /\ ~InReg(m, a)
    <2>1. PICK n : n = WithHome(m, a) OBVIOUS
    <2>2. n \in Stored(m, A) /\ Home(n, a) \in Locs BY <1>3, <2>1, WithHomeStored
    <2>3. n \in States BY <2>2, StoredIs
    <2>4. PICK q : q = FromHome(n, r.r1, a, 1) OBVIOUS
    <2>5. q \in Emitted(n) BY <2>2, <2>3, <2>4, FromHomeEmits
    <2>6. q \in States /\ Home(q, a) = Home(n, a) BY <2>3, <2>5, EmittedState, HomeEmitted
    <2>7. FromHome(q, r.r2, a, 2) \in Emitted(q) BY <2>2, <2>6, FromHomeEmits
    <2>8. FromHome(q, r.r2, a, 2) \in Emitted(n) BY <2>5, <2>7, EmittedTrans
    <2> QED BY <1>3, <2>1, <2>2, <2>4, <2>8, StoredThen DEF Load2
  <1> QED BY <1>1, <1>2, <1>3

LEMMA Store1Stored ==
  ASSUME NEW m \in States, NEW A \in SUBSET Vars, NEW r \in Regs, NEW a \in Vars, a \in Busy(m) \cup A
  PROVE  ToHome(WithHome(m, a), r, a, 1) \in Stored(m, A)
  <1>1. WithHome(m, a) \in Stored(m, A) BY WithHomeStored
  <1>2. WithHome(m, a) \in Emitted(WithHome(m, a)) BY <1>1, StoredIs, EmittedSelf
  <1> QED BY <1>1, <1>2, ToHomeEmits, StoredThen

LEMMA Store2Stored ==
  ASSUME NEW m \in States, NEW A \in SUBSET Vars, NEW r, r.r1 \in Regs, r.r2 \in Regs,
         NEW a \in Vars, a \in Busy(m) \cup A
  PROVE  Store2(m, r, a) \in Stored(m, A)
  <1>1. WithHome(m, a) \in Stored(m, A) BY WithHomeStored
  <1>2. WithHome(m, a) \in Emitted(WithHome(m, a)) BY <1>1, StoredIs, EmittedSelf
  <1>3. ToHome(WithHome(m, a), r.r1, a, 1) \in Emitted(WithHome(m, a)) BY <1>2, ToHomeEmits
  <1>4. ToHome(ToHome(WithHome(m, a), r.r1, a, 1), r.r2, a, 2) \in Emitted(WithHome(m, a))
    BY <1>3, ToHomeEmits
  <1> QED BY <1>1, <1>4, StoredThen DEF Store2

-----------------------------------------------------------------------------
(* Spills                                                                  *)

LEMMA FewerIs ==
  ASSUME NEW m \in States, NEW n \in Fewer(m)
  PROVE  /\ n \in States /\ n \in After(m, {}) /\ n.pinned = m.pinned /\ n.res = m.res
         /\ \A r \in Regs : n.reg[r] \in {m.reg[r], NoVar}
  BY AfterIs DEF Fewer

LEMMA FewerTrans ==
  ASSUME NEW m \in States, NEW n \in Fewer(m), NEW q \in Fewer(n) PROVE q \in Fewer(m)
  BY AfterTrans DEF Fewer

LEMMA FewerSelf == ASSUME NEW m \in States PROVE m \in Fewer(m)
  BY AfterSelf DEF Fewer

LEMMA StoredFewer == ASSUME NEW m \in States, NEW n \in Stored(m, {}) PROVE n \in Fewer(m)
  BY StoredIs DEF Fewer

LEMMA ReleaseFewer ==
  ASSUME NEW m \in States, NEW a \in Vars, NEW d, d = m.addr[a]
  PROVE  /\ Release(m, a, d) \in Fewer(m) /\ Release(m, a, d).addr[a] = NoReg
         /\ Release(m, a, d).temps = m.temps /\ Release(m, a, d).got = m.got
         /\ \A r \in Regs : Release(m, a, d).reg[r] = IF m.reg[r] = a THEN NoVar ELSE m.reg[r]
  <1>1. PICK n : n = Release(m, a, d) OBVIOUS
  <1>2. PICK g : g = [r \in Regs |-> IF r \in {d.r1, d.r2} THEN NoVar ELSE m.reg[r]] OBVIOUS
  <1>3. PICK h : h = [m.addr EXCEPT ![a] = NoReg] OBVIOUS
  <1>4. m \in Gen /\ Agree(m) /\ OneSlot(m.temps) BY DEF States
  <1>5. n = [m EXCEPT !.reg = g, !.addr = h] BY <1>1, <1>2, <1>3 DEF Release
  <1>6. /\ NoReg \in Pairs /\ NoReg.r1 = None /\ NoReg.r2 = None BY DEF NoReg, Pairs
  <1>7. g \in [Regs -> Vars \cup {NoVar}] /\ h \in [Vars -> Pairs]
    BY <1>2, <1>3, <1>4, <1>6 DEF Gen
  <1>8. /\ n \in Gen /\ n.reg = g /\ n.addr = h /\ n.temps = m.temps /\ n.fut = m.fut
        /\ n.args = m.args /\ n.pinned = m.pinned /\ n.res = m.res /\ n.got = m.got
        /\ n.faults = m.faults
    BY <1>5, <1>7, <1>4 DEF Gen
  <1>9. \A r \in Regs : g[r] = IF m.reg[r] = a THEN NoVar ELSE m.reg[r]
    BY <1>2, <1>4 DEF Agree
  <1>10. \A v \in Vars : h[v] = IF v = a THEN NoReg ELSE m.addr[v] BY <1>3, <1>4 DEF Gen
  <1>11. NoVar \notin Vars BY CGenRegsAssumption
  <1>12. Agree(n)
    <2>1. \A r \in Regs, v \in Vars : n.reg[r] = v <=> r \in {n.addr[v].r1, n.addr[v].r2}
      BY <1>4, <1>6, <1>8, <1>9, <1>10, <1>11, RegsAre DEF Agree
    <2> QED BY <2>1, <1>4, <1>6, <1>8, <1>10 DEF Agree
  <1>13. n \in States BY <1>4, <1>8, <1>12 DEF States
  <1>14. Owners(n) = Owners(m) BY <1>8 DEF Owners, HasSlot
  <1>15. n \in After(m, {}) BY <1>8, <1>10, <1>13, <1>14 DEF After
  <1> QED BY <1>1, <1>8, <1>9, <1>10, <1>15 DEF Fewer

LEMMA SpillFewer ==
  ASSUME NEW m \in States, NEW r \in Regs, NEW k, ~reg_isempty(m, r) => k \in Stored(m, {}),
         NEW n, n = IF reg_isempty(m, r) THEN m ELSE Release(k, m.reg[r], m.addr[m.reg[r]])
  PROVE  n \in Fewer(m) /\ reg_isempty(n, r)
  <1>1. CASE reg_isempty(m, r) BY <1>1, FewerSelf
  <1>2. CASE ~reg_isempty(m, r)
    <2>1. m.reg[r] \in Vars BY <1>2 DEF reg_isempty, States, Gen
    <2>2. k \in States /\ k.addr = m.addr /\ k.reg = m.reg BY <1>2, StoredIs
    <2>3. n \in Fewer(k) /\ n.reg[r] = NoVar BY <1>2, <2>1, <2>2, ReleaseFewer
    <2> QED BY <1>2, <2>3, StoredFewer, FewerTrans DEF reg_isempty
  <1> QED BY <1>1, <1>2

\* f[r] is m after the steps g[0] to g[r].
Iterated(f, g, m, N) == f \in [-1 .. N -> States] /\ f[-1] = m /\ \A r \in 0 .. N : f[r] = g[r][f[r - 1]]

\* The recursive function of SpillThese exists.
LEMMA Iterate ==
  ASSUME NEW N \in Nat, NEW m \in States, NEW g \in [0 .. N -> [States -> States]]
  PROVE  \E f : Iterated(f, g, m, N)
  <1> DEFINE P(k) == \E f \in [-1 .. k -> States] : f[-1] = m /\ \A r \in 0 .. k : f[r] = g[r][f[r - 1]]
             Bad == {k \in Nat : k <= N /\ ~P(k)}
  <1>1. P(0)
    <2>1. PICK f : f = [r \in -1 .. 0 |-> IF r = -1 THEN m ELSE g[0][m]] OBVIOUS
    <2>2. g[0][m] \in States OBVIOUS
    <2>3. f \in [-1 .. 0 -> States] BY <2>1, <2>2
    <2>4. f[-1] = m /\ f[0] = g[0][m] BY <2>1
    <2>5. \A r \in 0 .. 0 : r = 0 /\ r - 1 = -1 OBVIOUS
    <2> QED BY <2>3, <2>4, <2>5
  <1>2. ASSUME NEW k \in Nat, k + 1 <= N, P(k) PROVE P(k + 1)
    <2>1. PICK f \in [-1 .. k -> States] : f[-1] = m /\ \A r \in 0 .. k : f[r] = g[r][f[r - 1]] BY <1>2
    <2>2. PICK h : h = [r \in -1 .. k + 1 |-> IF r = k + 1 THEN g[k + 1][f[k]] ELSE f[r]] OBVIOUS
    <2>3. g[k + 1][f[k]] \in States BY <1>2
    <2>4. h \in [-1 .. k + 1 -> States] BY <2>2, <2>3, <1>2
    <2>5. h[-1] = m BY <2>1, <2>2
    <2>6. ASSUME NEW r \in 0 .. k + 1 PROVE h[r] = g[r][h[r - 1]]
      <3>1. h[r - 1] = f[r - 1] /\ r - 1 \in -1 .. k BY <2>2
      <3>2. CASE r = k + 1
        <4>1. r - 1 = k BY <3>2
        <4> QED BY <3>1, <3>2, <4>1, <2>2
      <3>3. CASE r # k + 1
        <4>1. r \in 0 .. k BY <3>3
        <4>2. h[r] = f[r] BY <2>2, <3>3
        <4> QED BY <3>1, <4>1, <4>2, <2>1
      <3> QED BY <3>2, <3>3
    <2> QED BY <2>4, <2>5, <2>6
  <1> HIDE DEF P
  <1>3. Bad = {}
    <2> SUFFICES ASSUME Bad # {} PROVE FALSE OBVIOUS
    <2>1. PICK k \in Bad : \A j \in Bad : k <= j BY LeastNat
    <2>2. k # 0 BY <1>1, <2>1
    <2>3. k - 1 \in Nat /\ k - 1 \notin Bad /\ k - 1 <= N /\ (k - 1) + 1 = k BY <2>1, <2>2
    <2>4. P(k - 1) BY <2>3
    <2> QED BY <1>2, <2>1, <2>3, <2>4
  <1>4. P(N) BY <1>3
  <1> QED BY <1>4 DEF P, Iterated

\* What the loop of SpillThese leaves, when step f[r] empties register r.
LEMMA LoopFewer ==
  ASSUME NEW m \in States, NEW N \in Nat, NEW S \in SUBSET Vars, NEW f, f[-1] = m,
         \A r \in 0 .. N : f[r - 1] \in States =>
            f[r] \in Fewer(f[r - 1]) /\ (r \in Regs => f[r].reg[r] \notin S)
  PROVE  \A r \in 0 .. N : f[r] \in Fewer(m) /\ \A s \in Regs : s <= r => f[r].reg[s] \notin S
  <1> DEFINE Q(r) == f[r] \in Fewer(m) /\ \A s \in Regs : s <= r => f[r].reg[s] \notin S
             Bad == {r \in Nat : r <= N /\ ~Q(r)}
  <1>1. ASSUME NEW r \in 0 .. N, f[r - 1] \in Fewer(m), \A s \in Regs : s <= r - 1 => f[r - 1].reg[s] \notin S
        PROVE  Q(r)
    <2>1. f[r - 1] \in States BY <1>1, FewerIs
    <2>2. f[r] \in Fewer(f[r - 1]) /\ (r \in Regs => f[r].reg[r] \notin S) BY <2>1
    <2>3. f[r] \in Fewer(m) BY <1>1, <2>2, FewerTrans
    <2>4. \A s \in Regs : f[r].reg[s] \in {f[r - 1].reg[s], NoVar} BY <2>1, <2>2, FewerIs
    <2>5. NoVar \notin S BY CGenRegsAssumption
    <2>6. ASSUME NEW s \in Regs, s <= r PROVE f[r].reg[s] \notin S
      <3>1. CASE s = r BY <3>1, <2>2, <2>6
      <3>2. CASE s # r
        <4>1. s <= r - 1 BY <3>2, <2>6, RegsAre
        <4> QED BY <4>1, <1>1, <2>4, <2>5, <2>6
      <3> QED BY <3>1, <3>2
    <2> QED BY <2>3, <2>6
  <1>2. Q(0)
    <2>1. 0 \in 0 .. N /\ 0 - 1 = -1 OBVIOUS
    <2>2. f[0 - 1] \in Fewer(m) BY <2>1, FewerSelf
    <2>3. \A s \in Regs : ~ (s <= 0 - 1) BY RegsAre
    <2> QED BY <1>1, <2>1, <2>2, <2>3
  <1>3. ASSUME NEW r \in Nat, r + 1 <= N, Q(r) PROVE Q(r + 1)
    <2>1. r + 1 \in 0 .. N /\ (r + 1) - 1 = r BY <1>3
    <2> QED BY <1>1, <1>3, <2>1
  <1> HIDE DEF Q
  <1>4. Bad = {}
    <2> SUFFICES ASSUME Bad # {} PROVE FALSE OBVIOUS
    <2>1. PICK k \in Bad : \A j \in Bad : k <= j BY LeastNat
    <2>2. k # 0 BY <1>2, <2>1
    <2>3. k - 1 \in Nat /\ k - 1 \notin Bad /\ k - 1 <= N /\ (k - 1) + 1 = k BY <2>1, <2>2
    <2>4. Q(k - 1) BY <2>3
    <2> QED BY <1>3, <2>1, <2>3, <2>4
  <1>5. \A r \in 0 .. N : Q(r) BY <1>4
  <1> QED BY <1>5 DEF Q

LEMMA LastRegIs == LastReg \in Nat /\ \A r \in Regs : r <= LastReg
  <1>1. PICK last \in Regs : \A r \in Regs : r <= last BY CGenRegsAssumption
  <1>2. last \in Nat /\ Regs \in SUBSET (0 .. last) /\ Regs # {} BY <1>1, RegsAre
  <1>3. Max(Regs) \in Regs /\ \A r \in Regs : r <= Max(Regs) BY <1>2, MaxIs
  <1> QED BY <1>3, RegsAre DEF LastReg

-----------------------------------------------------------------------------
(* The code of the instruction itself                                      *)

LEMMA ForgetEmits ==
  ASSUME NEW m, NEW n \in Emitted(m), NEW S PROVE Forget(n, S) \in Emitted(m)
  <1>1. n \in Gen BY DEF Emitted
  <1>2. PICK R1 : R1 = [r \in Regs |-> Other(n.R[r], S)] OBVIOUS
  <1>3. PICK M1 : M1 = [L \in Locs |-> [w \in {1, 2} |-> Other(n.M[L][w], S)]] OBVIOUS
  <1>4. \A X \in Contents : Other(X, S) \in Contents BY DEF Other, Contents
  <1>5. R1 \in [Regs -> Contents] BY <1>1, <1>2, <1>4, Contained
  <1>6. M1 \in Memory BY <1>1, <1>3, <1>4, Contained DEF Memory
  <1>7. Forget(n, S) = [n EXCEPT !.R = R1, !.M = M1] BY <1>2, <1>3 DEF Forget
  <1> QED BY <1>5, <1>6, <1>7 DEF Emitted, Gen

LEMMA CopiesEmits ==
  ASSUME NEW m, NEW n \in Emitted(m), NEW tar \in Vars, NEW src \in Vars \cup {Const}
  PROVE  Copies(n, tar, src) \in Emitted(m)
  <1>1. n \in Gen BY DEF Emitted
  <1>2. PICK R1 : R1 = [r \in Regs |-> CopyIn(n.R[r], tar, src)] OBVIOUS
  <1>3. PICK M1 : M1 = [L \in Locs |-> [w \in {1, 2} |-> CopyIn(n.M[L][w], tar, src)]] OBVIOUS
  <1>4. ASSUME NEW X \in Contents PROVE CopyIn(X, tar, src) \in Contents
    <2>1. ASSUME NEW t \in X, t[2] # 0, t[1] = src PROVE <<tar, t[2]>> \in Tokens
      <3>1. t \in Tokens /\ src # Arg BY <2>1, CGenRegsAssumption DEF Contents
      <3>2. CASE t \in (Vars \cup {Const}) \X {1, 2} BY <3>2 DEF Tokens
      <3>3. CASE t \in Locs \X {0} BY <3>3, <2>1
      <3>4. CASE t \in {Arg} \X (0 .. 3) BY <3>1, <3>4, <2>1
      <3> QED BY <3>1, <3>2, <3>3, <3>4 DEF Tokens
    <2> QED BY <2>1 DEF CopyIn, Other, Contents
  <1>5. R1 \in [Regs -> Contents] BY <1>1, <1>2, <1>4, Contained
  <1>6. M1 \in Memory BY <1>1, <1>3, <1>4, Contained DEF Memory
  <1>7. tar # src => Copies(n, tar, src) = [n EXCEPT !.R = R1, !.M = M1] BY <1>2, <1>3 DEF Copies
  <1> QED BY <1>5, <1>6, <1>7 DEF Emitted, Gen, Copies

LEMMA ComputesEmits ==
  ASSUME NEW m, NEW n \in Emitted(m), n.res.r1 \in Regs, NEW tar \in Vars
  PROVE  Computes(n, tar) \in Emitted(m)
  <1>1. Forget(n, {tar}) \in Emitted(m) BY ForgetEmits
  <1> QED BY <1>1, SetRegEmits, TokensAre DEF Computes

LEMMA Computes2Emits ==
  ASSUME NEW m, NEW n \in Emitted(m), n.res.r1 \in Regs, n.res.r2 \in Regs, NEW tar \in Vars
  PROVE  Computes2(n, tar) \in Emitted(m)
  <1>1. Computes(n, tar) \in Emitted(m) BY ComputesEmits
  <1> QED BY <1>1, SetRegEmits, TokensAre DEF Computes2

\* Memory changes.
LEMMA MemoryEmits ==
  ASSUME NEW m, NEW n \in Emitted(m), NEW M1 \in Memory PROVE [n EXCEPT !.M = M1] \in Emitted(m)
  BY DEF Emitted, Gen

LEMMA ComputesAtEmits ==
  ASSUME NEW m, NEW n \in Emitted(m), n.res.r1 \in Regs, NEW tar \in Vars, NEW L \in Locs
  PROVE  ComputesAt(n, tar, L) \in Emitted(m)
  <1>1. PICK q : q = SetReg(Forget(n, {tar}), n.res.r1, {<<L, 0>>}) OBVIOUS
  <1>2. q \in Emitted(m) BY <1>1, ForgetEmits, SetRegEmits, TokensAre
  <1>3. q.M \in Memory /\ q \in Gen BY <1>2 DEF Emitted, Gen
  <1>4. q.M[L][1] \cup {<<tar, 1>>} \in Contents BY <1>3, Contained, TokensAre DEF Contents
  <1>5. PICK N : N = [q.M EXCEPT ![L] = [q.M[L] EXCEPT ![1] = q.M[L][1] \cup {<<tar, 1>>}]] OBVIOUS
  <1>6. N \in Memory BY <1>3, <1>4, <1>5 DEF Memory
  <1>7. ComputesAt(n, tar, L) = [q EXCEPT !.M = N] BY <1>1, <1>5 DEF ComputesAt
  <1> QED BY <1>2, <1>6, <1>7, MemoryEmits

\* The frame's area for the result of a call is given up.
LEMMA AreaEmits ==
  ASSUME NEW m, NEW n \in Emitted(m) PROVE [n EXCEPT !.M[Area][1] = {}] \in Emitted(m)
  <1>1. n.M \in Memory BY DEF Emitted, Gen
  <1>2. PICK N : N = [n.M EXCEPT ![Area] = [n.M[Area] EXCEPT ![1] = {}]] OBVIOUS
  <1>3. N \in Memory BY <1>1, <1>2, TokensAre DEF Memory
  <1>4. [n EXCEPT !.M[Area][1] = {}] = [n EXCEPT !.M = N] BY <1>2
  <1> QED BY <1>3, <1>4, MemoryEmits

LEMMA ReadsMemoryEmits ==
  ASSUME NEW m, NEW n \in Emitted(m), NEW S PROVE ReadsMemory(n, S) \in Emitted(m)
  <1>1. "operand" \in Faults /\ "operand" # "assert" BY DEF Faults
  <1> QED BY <1>1, FaultEmits DEF ReadsMemory

LEMMA WritesMemoryEmits ==
  ASSUME NEW m, NEW n \in Emitted(m), NEW S \in SUBSET Vars PROVE WritesMemory(n, S) \in Emitted(m)
  <1>1. PICK q : q = Forget(n, S) OBVIOUS
  <1>2. q \in Emitted(m) /\ q \in Gen BY <1>1, ForgetEmits DEF Emitted
  <1>3. PICK N : N = [L \in Locs |-> [w \in {1, 2} |->
                        IF L = Far THEN {} ELSE IF L \in S THEN {<<L, w>>} ELSE q.M[L][w]]] OBVIOUS
  <1>4. N \in Memory BY <1>2, <1>3, Contained, TokensAre DEF Memory
  <1>5. WritesMemory(n, S) = [q EXCEPT !.M = N] BY <1>1, <1>3 DEF WritesMemory
  <1> QED BY <1>2, <1>4, <1>5, MemoryEmits

LEMMA CalledEmits ==
  ASSUME NEW m, NEW n \in Emitted(m), NEW S \in SUBSET Int PROVE Called(n, S) \in Emitted(m)
  <1>1. Pointed \cup Statics \subseteq Vars BY CGenRegsAssumption, CGenAssumption DEF Ids
  <1>2. ReadsMemory(n, Pointed \cup Statics) \in Emitted(m) BY ReadsMemoryEmits
  <1>3. WritesMemory(ReadsMemory(n, Pointed \cup Statics), Pointed \cup Statics) \in Emitted(m)
    BY <1>1, <1>2, WritesMemoryEmits
  <1> QED BY <1>3, ClobberEmits DEF Called

LEMMA CopiedMemory ==
  ASSUME NEW M1 \in Memory, NEW src \in SUBSET Locs, NEW dst PROVE Copied(M1, src, dst) \in Memory
  <1>1. UNION {M1[K][1] : K \in src} \in Contents BY DEF Memory, Contents
  <1>2. ASSUME NEW L \in Locs
        PROVE  [M1[L] EXCEPT ![1] = IF L \in dst \ src THEN UNION {M1[K][1] : K \in src}
                                    ELSE IF L = Far /\ dst \cap Pointed # {} THEN {} ELSE M1[L][1]]
                 \in [{1, 2} -> Contents]
    BY <1>1, TokensAre DEF Memory
  <1> QED BY <1>2 DEF Copied, Memory

LEMMA PassesEmits ==
  ASSUME NEW m, NEW n \in Emitted(m), NEW r \in Regs, NEW k \in 0 .. 3 PROVE Passes(n, r, k) \in Emitted(m)
  <1>1. SetReg(n, r, {<<Arg, k>>}) \in Emitted(m) BY SetRegEmits, TokensAre
  <1> QED BY <1>1 DEF Passes, Emitted, Gen

LEMMA PassesWordsEmits ==
  ASSUME NEW m, NEW n \in Emitted(m), NEW first \in Int, NEW ks \in SUBSET (0 .. 3)
  PROVE  PassesWords(n, first, ks) \in Emitted(m)
  <1>1. n \in Gen BY DEF Emitted
  <1>2. PICK R1 : R1 = [r \in Regs |-> IF r - first \in ks THEN {<<Arg, r - first>>} ELSE n.R[r]] OBVIOUS
  <1>3. R1 \in [Regs -> Contents] BY <1>1, <1>2, TokensAre, Contained
  <1>4. {first + k : k \in ks} \in SUBSET Int OBVIOUS
  <1>5. PICK W : W = n.written \cup {first + k : k \in ks} OBVIOUS
  <1>6. W \in SUBSET Int BY <1>1, <1>4, <1>5 DEF Gen
  <1>7. PICK P : P = n.passed \cup ks OBVIOUS
  <1>8. P \in SUBSET (0 .. 3) BY <1>1, <1>7 DEF Gen
  <1>9. PICK q : q = [n EXCEPT !.R = R1, !.written = W, !.passed = P] OBVIOUS
  <1>10. PassesWords(n, first, ks) = q BY <1>2, <1>5, <1>7, <1>9 DEF PassesWords
  <1>11. q \in Gen BY <1>1, <1>3, <1>6, <1>8, <1>9 DEF Gen
  <1>12. /\ q.reg = n.reg /\ q.addr = n.addr /\ q.temps = n.temps /\ q.fut = n.fut /\ q.args = n.args
         /\ q.pinned = n.pinned /\ q.res = n.res /\ q.got = n.got /\ q.faults = n.faults
    BY <1>1, <1>9 DEF Gen
  <1> QED BY <1>10, <1>11, <1>12 DEF Emitted

LEMMA FindsArgumentsEmits ==
  ASSUME NEW m, NEW n \in Emitted(m), NEW first PROVE FindsArguments(n, first) \in Emitted(m)
  <1>1. [n EXCEPT !.passed = {}] \in Emitted(m) BY DEF Emitted, Gen
  <1>2. "argument" \in Faults /\ "argument" # "assert" BY DEF Faults
  <1> QED BY <1>1, <1>2, FaultEmits DEF FindsArguments

-----------------------------------------------------------------------------
(* The operands' and the target's descriptors                              *)

LEMMA FreeTempStored ==
  ASSUME NEW m \in States, NEW a \in Temps
  PROVE  free_temp(m, a) \in Stored(m, {}) /\ a \notin Owners(free_temp(m, a))
  <1>1. PICK n : n = free_temp(m, a) OBVIOUS
  <1>2. CASE ~HasSlot(m, a) BY <1>2, StoredSelf DEF free_temp, Owners
  <1>3. CASE HasSlot(m, a)
    <2>1. PICK k : k = SlotOf(m, a) OBVIOUS
    <2>2. k \in DOMAIN m.temps /\ m.temps[k] = a BY <1>3, <2>1, SlotIs
    <2>3. m \in Gen /\ m.temps \in Seq(Temps \cup {NoVar}) /\ OneSlot(m.temps) /\ Agree(m) BY DEF States, Gen
    <2>4. PICK ts : ts = [m.temps EXCEPT ![k] = NoVar] OBVIOUS
    <2>5. /\ ts \in Seq(Temps \cup {NoVar}) /\ Len(ts) = Len(m.temps) /\ DOMAIN ts = DOMAIN m.temps
          /\ \A j \in DOMAIN ts : ts[j] = IF j = k THEN NoVar ELSE m.temps[j]
      BY <2>2, <2>3, <2>4
    <2>6. OneSlot(ts) BY <2>3, <2>5 DEF OneSlot
    <2>7. NoVar \notin Temps BY CGenRegsAssumption
    <2>8. n = [m EXCEPT !.temps = ts] BY <1>1, <1>3, <2>1, <2>4 DEF free_temp
    <2>9. n.temps = ts BY <2>3, <2>8 DEF Gen
    <2>10. Owners(n) \subseteq Owners(m) /\ a \notin Owners(n)
      BY <2>2, <2>3, <2>5, <2>7, <2>9 DEF Owners, HasSlot, OneSlot
    <2>11. n \in States BY <2>3, <2>5, <2>6, <2>8 DEF States, Gen, Agree
    <2> QED BY <1>1, <2>3, <2>8, <2>10, <2>11 DEF Stored, After, Gen
  <1> QED BY <1>2, <1>3

LEMMA UpdatedRight ==
  ASSUME NEW m \in States, NEW a \in Vars \cup {Const}, NEW live, NEW next \in BOOLEAN, NEW k,
         a \in Vars /\ ~next => k \in Stored(m, {}) /\ (~live => a \notin Owners(k)),
         NEW n, n = IF a = Const \/ next THEN m ELSE Release(k, a, m.addr[a])
  PROVE  n \in Updated(m, a, live, next)
  <1>1. CASE a = Const \/ next
    <2>1. Const \notin Vars BY CGenRegsAssumption
    <2> QED BY <1>1, <2>1, FewerSelf DEF Updated
  <1>2. CASE ~(a = Const \/ next)
    <2>1. a \in Vars /\ k \in Stored(m, {}) /\ (~live => a \notin Owners(k)) BY <1>2
    <2>2. k \in States /\ k.addr = m.addr BY <2>1, StoredIs
    <2>3. n \in Fewer(k) /\ n.addr[a] = NoReg /\ n.temps = k.temps BY <1>2, <2>1, <2>2, ReleaseFewer
    <2>4. n \in Fewer(m) BY <2>1, <2>3, StoredFewer, FewerTrans
    <2>5. a \notin Busy(n) BY <2>3 DEF Busy, InReg, addr_reg1, NoReg
    <2>6. Owners(n) = Owners(k) BY <2>3 DEF Owners, HasSlot
    <2> QED BY <2>1, <2>4, <2>5, <2>6 DEF Updated
  <1> QED BY <1>1, <1>2

LEMMA MarkedIs == ASSUME NEW m, NEW tar, NEW args, NEW P, Marked(m, tar, args, P) PROVE m \in States
  BY DEF Marked

LEMMA MarkedKept ==
  ASSUME NEW m, NEW tar, NEW args, NEW P, Marked(m, tar, args, P), NEW A \in SUBSET Vars, A \subseteq args,
         NEW n \in After(m, A)
  PROVE  Marked(n, tar, args, P)
  <1>1. m \in States BY DEF Marked
  <1>2. /\ n \in States /\ n.fut = m.fut
        /\ \A r \in Regs : n.reg[r] \in {m.reg[r], NoVar}
        /\ Busy(n) \subseteq Busy(m) /\ Owners(n) \subseteq Owners(m) \cup Busy(m) \cup A
    BY <1>1, AfterIs
  <1>3. \A v \in Owners(n) : v \in Vars BY CGenRegsAssumption DEF Owners
  <1> QED BY <1>2, <1>3 DEF Marked

LEMMA MarkedMore ==
  ASSUME NEW m, NEW tar, NEW args, NEW P, Marked(m, tar, args, P), NEW more, args \subseteq more
  PROVE  Marked(m, tar, more, P)
  BY DEF Marked

\* The marks of one operand are dealt with.
LEMMA UpdatedMarked ==
  ASSUME NEW m, NEW tar, NEW S, NEW P, NEW a, Marked(m, tar, S \cup {a}, P), NEW live, NEW next \in BOOLEAN,
         a \in Vars /\ next => (m.fut[a] = "next" /\ a # tar) \/ a \in S,
         a \in Vars /\ live => (m.fut[a] # "dead" /\ a # tar) \/ a \in S,
         NEW n \in Updated(m, a, live, next)
  PROVE  Marked(n, tar, S, P)
  <1>1. m \in States /\ n \in Fewer(m) BY DEF Marked, Updated
  <1>2. n \in After(m, {}) /\ n \in States BY <1>1, FewerIs
  <1>3. /\ n.fut = m.fut /\ Busy(n) \subseteq Busy(m)
    BY <1>1, <1>2, AfterIs
  <1>4. Marked(n, tar, S \cup {a}, P) BY <1>2, MarkedKept
  <1>5. ASSUME NEW v \in Vars \ S
        PROVE  /\ v \in Busy(n) => n.fut[v] = "next" /\ v # tar
               /\ v \in Owners(n) \ Crossing => n.fut[v] # "dead" /\ v # tar
    <2>1. CASE v # a BY <1>4, <2>1 DEF Marked
    <2>2. CASE v = a
      <3>1. CASE next BY <1>3, <2>2, <3>1
      <3>2. CASE ~next
        <4>1. v \notin Busy(n) /\ (~live => v \notin Owners(n)) BY <2>2, <3>2 DEF Updated
        <4> QED BY <1>3, <2>2, <4>1
      <3> QED BY <3>1, <3>2
    <2> QED BY <2>1, <2>2
  <1> QED BY <1>4, <1>5 DEF Marked

LEMMA ArgsSettled ==
  ASSUME NEW m, NEW tar, NEW P, NEW a1 \in Vars \cup {Const}, NEW a2 \in Vars \cup {Const},
         Marked(m, tar, {a1, a2}, P),
         NEW n \in Updated(m, a1, Live1(m, tar, a1), Used1(m, tar, a1)),
         NEW q \in Updated(n, a2, Live2(m, tar, a1, a2), Used2(m, tar, a1, a2))
  PROVE  q \in Settled(m, tar, a1, P)
  <1>1. m \in States /\ n \in Fewer(m) BY DEF Marked, Updated
  <1>2. n \in States /\ n \in After(m, {}) /\ n.fut = m.fut BY <1>1, FewerIs, AfterIs
  <1>3. q \in Fewer(n) BY DEF Updated
  <1>4. q \in Fewer(m) BY <1>1, <1>3, FewerTrans
  <1>5. Marked(m, tar, {a2} \cup {a1}, P)
    <2>1. {a2} \cup {a1} = {a1, a2} OBVIOUS
    <2> QED BY <2>1
  <1>6. Marked(n, tar, {a2}, P)
    <2>1. Used1(m, tar, a1) \in BOOLEAN BY DEF Used1, Used
    <2>2. a1 \in Vars /\ Used1(m, tar, a1) => m.fut[a1] = "next" /\ a1 # tar BY DEF Used1, Used
    <2>3. a1 \in Vars /\ Live1(m, tar, a1) => m.fut[a1] # "dead" /\ a1 # tar BY DEF Live1, Live
    <2> QED BY <1>5, <2>1, <2>2, <2>3, UpdatedMarked
  <1>7. Marked(q, tar, {}, P)
    <2>1. CASE a2 = a1
      <3>1. Marked(n, tar, {}, P)
        <4>1. Used1(m, tar, a1) \in BOOLEAN BY DEF Used1, Used
        <4>2. a1 \in Vars /\ Used1(m, tar, a1) => m.fut[a1] = "next" /\ a1 # tar BY DEF Used1, Used
        <4>3. a1 \in Vars /\ Live1(m, tar, a1) => m.fut[a1] # "dead" /\ a1 # tar BY DEF Live1, Live
        <4>4. Marked(m, tar, {} \cup {a1}, P)
          <5>1. {} \cup {a1} = {a1, a2} BY <2>1
          <5> QED BY <5>1
        <4> QED BY <4>1, <4>2, <4>3, <4>4, UpdatedMarked
      <3> QED BY <3>1, <1>2, <1>3, FewerIs, MarkedKept
    <2>2. CASE a2 # a1
      <3>1. Used2(m, tar, a1, a2) \in BOOLEAN BY DEF Used2, Used
      <3>2. a2 \in Vars /\ Used2(m, tar, a1, a2) => n.fut[a2] = "next" /\ a2 # tar
        BY <1>2, <2>2 DEF Used2, Used
      <3>3. a2 \in Vars /\ Live2(m, tar, a1, a2) => n.fut[a2] # "dead" /\ a2 # tar
        BY <1>2, <2>2 DEF Live2, Live
      <3>4. Marked(n, tar, {} \cup {a2}, P)
        <4>1. {} \cup {a2} = {a2} OBVIOUS
        <4> QED BY <1>6, <4>1
      <3> QED BY <3>1, <3>2, <3>3, <3>4, UpdatedMarked
    <2> QED BY <2>1, <2>2
  <1>8. ASSUME NEW r \in Regs, Free(m, r, a1, Live1(m, tar, a1)) PROVE q.reg[r] = NoVar
    <2>1. q.reg[r] \in {n.reg[r], NoVar} /\ n.reg[r] \in {m.reg[r], NoVar} BY <1>1, <1>2, <1>3, FewerIs
    <2>2. CASE m.reg[r] = NoVar BY <2>1, <2>2
    <2>3. CASE m.reg[r] # NoVar
      <3>1. m.reg[r] = a1 /\ ~Live1(m, tar, a1) /\ m.reg[r] \in Vars
        BY <1>1, <1>8, <2>3 DEF Free, States, Gen
      <3>2. ~Used1(m, tar, a1) BY <3>1 DEF Used1, Live1, Used, Live
      <3>3. a1 \notin Busy(n) BY <3>1, <3>2 DEF Updated
      <3>4. n.reg[r] # a1
        <4>1. n.addr[a1].r1 = None BY <3>1, <3>3, CGenRegsAssumption DEF Busy, InReg, addr_reg1
        <4>2. Agree(n) BY <1>2 DEF States
        <4>3. n.addr[a1].r2 = None BY <3>1, <4>1, <4>2 DEF Agree
        <4> QED BY <3>1, <4>1, <4>2, <4>3, RegsAre DEF Agree
      <3> QED BY <2>1, <3>1, <3>4
    <2> QED BY <2>2, <2>3
  <1> QED BY <1>4, <1>7, <1>8 DEF Settled

LEMMA BindBound ==
  ASSUME NEW m, NEW tar \in Vars \ Wide, NEW P, Marked(m, tar, {}, P), NEW r \in Regs \cap P, m.reg[r] = NoVar
  PROVE  /\ Bind(m, r, tar) \in Bound(m, tar, P) /\ Bind(m, r, tar).addr[tar].r1 = r
         /\ Bind(m, r, tar).addr[tar].r2 = None
  <1>1. m \in States /\ m \in Gen /\ Agree(m) /\ OneSlot(m.temps) BY DEF Marked, States
  <1>2. tar \notin Busy(m) BY DEF Marked
  <1>3. m.addr[tar] \in Pairs /\ m.addr[tar].r1 = None BY <1>1, <1>2, CGenRegsAssumption DEF Gen, Busy, InReg, addr_reg1
  <1>4. m.addr[tar].r2 = None BY <1>1, <1>3 DEF Agree
  <1>5. PICK d : d = [m.addr[tar] EXCEPT !.r1 = r] OBVIOUS
  <1>6. d \in Pairs /\ d.r1 = r /\ d.r2 = None BY <1>3, <1>4, <1>5 DEF Pairs
  <1>7. PICK g : g = [m.reg EXCEPT ![r] = tar] OBVIOUS
  <1>8. PICK h : h = [m.addr EXCEPT ![tar] = d] OBVIOUS
  <1>9. /\ g \in [Regs -> Vars \cup {NoVar}] /\ h \in [Vars -> Pairs]
        /\ \A s \in Regs : g[s] = IF s = r THEN tar ELSE m.reg[s]
        /\ \A v \in Vars : h[v] = IF v = tar THEN d ELSE m.addr[v]
    BY <1>1, <1>6, <1>7, <1>8 DEF Gen
  <1>10. PICK n : n = Bind(m, r, tar) OBVIOUS
  <1>11. n = [m EXCEPT !.addr = h, !.reg = g] BY <1>5, <1>7, <1>8, <1>10 DEF Bind
  <1>12. /\ n \in Gen /\ n.reg = g /\ n.addr = h /\ n.temps = m.temps /\ n.fut = m.fut /\ n.args = m.args
         /\ n.pinned = m.pinned /\ n.faults = m.faults
    BY <1>1, <1>9, <1>11 DEF Gen
  <1>13. Agree(n)
    <2>1. ASSUME NEW s \in Regs, NEW v \in Vars PROVE g[s] = v <=> s \in {h[v].r1, h[v].r2}
      <3>1. CASE v = tar
        <4>1. m.reg[s] # tar BY <1>1, <1>3, <1>4, RegsAre DEF Agree
        <4> QED BY <3>1, <4>1, <1>6, <1>9, RegsAre
      <3>2. CASE v # tar
        <4>1. r \notin {m.addr[v].r1, m.addr[v].r2} BY <1>1, CGenRegsAssumption DEF Agree
        <4> QED BY <3>2, <4>1, <1>1, <1>9 DEF Agree
      <3> QED BY <3>1, <3>2
    <2> QED BY <2>1, <1>1, <1>6, <1>9, <1>12, RegsAre DEF Agree
  <1>14. n \in States BY <1>1, <1>12, <1>13 DEF States
  <1> QED BY <1>6, <1>9, <1>10, <1>12, <1>14 DEF Bound, Marked

LEMMA Bind2Bound ==
  ASSUME NEW m, NEW tar \in Wide, NEW P, Marked(m, tar, {}, P), NEW d \in Pairs,
         d.r1 \in Regs \cap P, d.r2 \in Regs \cap P, d.r1 # d.r2, m.reg[d.r1] = NoVar, m.reg[d.r2] = NoVar
  PROVE  Bind2(m, d, tar) \in Bound(m, tar, P) /\ Bind2(m, d, tar).addr[tar] = d
  <1>1. m \in States /\ m \in Gen /\ Agree(m) /\ OneSlot(m.temps) BY DEF Marked, States
  <1>0. tar \in Vars BY CGenRegsAssumption
  <1>2. tar \notin Busy(m) BY <1>0 DEF Marked
  <1>3. m.addr[tar] \in Pairs /\ m.addr[tar].r1 = None
    BY <1>0, <1>1, <1>2, CGenRegsAssumption DEF Gen, Busy, InReg, addr_reg1
  <1>4. m.addr[tar].r2 = None BY <1>0, <1>1, <1>3 DEF Agree
  <1>7. PICK g : g = [[m.reg EXCEPT ![d.r1] = tar] EXCEPT ![d.r2] = tar] OBVIOUS
  <1>8. PICK h : h = [m.addr EXCEPT ![tar] = d] OBVIOUS
  <1>9. /\ g \in [Regs -> Vars \cup {NoVar}] /\ h \in [Vars -> Pairs]
        /\ \A s \in Regs : g[s] = IF s \in {d.r1, d.r2} THEN tar ELSE m.reg[s]
        /\ \A v \in Vars : h[v] = IF v = tar THEN d ELSE m.addr[v]
    BY <1>0, <1>1, <1>7, <1>8 DEF Gen
  <1>10. PICK n : n = Bind2(m, d, tar) OBVIOUS
  <1>11. n = [m EXCEPT !.addr = h, !.reg = g] BY <1>7, <1>8, <1>10 DEF Bind2
  <1>12. /\ n \in Gen /\ n.reg = g /\ n.addr = h /\ n.temps = m.temps /\ n.fut = m.fut /\ n.args = m.args
         /\ n.pinned = m.pinned /\ n.faults = m.faults
    BY <1>1, <1>9, <1>11 DEF Gen
  <1>13. Agree(n)
    <2>1. ASSUME NEW s \in Regs, NEW v \in Vars PROVE g[s] = v <=> s \in {h[v].r1, h[v].r2}
      <3>1. CASE v = tar
        <4>1. m.reg[s] # tar BY <1>0, <1>1, <1>3, <1>4, RegsAre DEF Agree
        <4> QED BY <3>1, <4>1, <1>9
      <3>2. CASE v # tar
        <4>1. d.r1 \notin {m.addr[v].r1, m.addr[v].r2} /\ d.r2 \notin {m.addr[v].r1, m.addr[v].r2}
          BY <1>1, CGenRegsAssumption DEF Agree
        <4> QED BY <3>2, <4>1, <1>1, <1>9 DEF Agree
      <3> QED BY <3>1, <3>2
    <2> QED BY <2>1, <1>0, <1>1, <1>9, <1>12, RegsAre DEF Agree
  <1>14. n \in States BY <1>1, <1>12, <1>13 DEF States
  <1> QED BY <1>0, <1>9, <1>10, <1>12, <1>14 DEF Bound, Marked

\* The target keeps its registers for a later use in the block.
LEMMA TarKept ==
  ASSUME NEW m, NEW tar \in Vars, NEW P, Marked(m, tar, {}, P), m.fut[tar] = "next", NEW n \in Bound(m, tar, P)
  PROVE  n \in Done(m, P)
  <1>1. /\ n \in States /\ n.fut = m.fut /\ n.args = m.args /\ n.pinned = m.pinned /\ n.faults = m.faults
        /\ \A v \in Vars \ {tar} : n.addr[v] = m.addr[v]
        /\ \A r \in Regs : n.reg[r] # NoVar => r \in P
    BY DEF Bound
  <1>2. Owners(n) = Owners(m) BY DEF Bound, Owners, HasSlot
  <1>3. ASSUME NEW v \in Vars
        PROVE  /\ v \in Busy(n) => n.fut[v] = "next" /\ v # NoVar
               /\ v \in Owners(n) \ Crossing => n.fut[v] # "dead" /\ v # NoVar
    <2>1. v # NoVar BY CGenRegsAssumption
    <2>2. CASE v = tar BY <2>1, <2>2, <1>1
    <2>3. CASE v # tar
      <3>1. v \in Busy(n) <=> v \in Busy(m) BY <1>1, <2>3 DEF Busy, InReg, addr_reg1
      <3> QED BY <3>1, <2>1, <1>1, <1>2 DEF Marked
    <2> QED BY <2>2, <2>3
  <1> QED BY <1>1, <1>3 DEF Done, Marked

\* The target is stored, if it lives, and leaves its registers.
LEMMA TarGone ==
  ASSUME NEW m, NEW tar \in Vars, NEW P, Marked(m, tar, {}, P), NEW b \in Bound(m, tar, P),
         NEW k \in Stored(b, {tar}), k = b \/ m.fut[tar] # "dead",
         NEW n, n = Release(k, tar, k.addr[tar])
  PROVE  n \in Done(m, P)
  <1>1. /\ b \in States /\ b.fut = m.fut /\ b.args = m.args /\ b.pinned = m.pinned /\ b.faults = m.faults
        /\ \A v \in Vars \ {tar} : b.addr[v] = m.addr[v]
        /\ \A r \in Regs : b.reg[r] # NoVar => r \in P
    BY DEF Bound
  <1>2. Owners(b) = Owners(m) BY DEF Bound, Owners, HasSlot
  <1>3. /\ k \in States /\ k \in After(b, {tar}) /\ k.reg = b.reg /\ k.addr = b.addr /\ k.pinned = b.pinned
    BY StoredIs
  <1>4. /\ k.fut = b.fut /\ k.args = b.args /\ Owners(k) \subseteq Owners(b) \cup Busy(b) \cup {tar}
        /\ "assert" \in k.faults => "assert" \in b.faults
    BY <1>1, <1>3, AfterIs
  <1>5. /\ n \in Fewer(k) /\ n.addr[tar] = NoReg /\ n.temps = k.temps
        /\ \A r \in Regs : n.reg[r] = IF k.reg[r] = tar THEN NoVar ELSE k.reg[r]
    BY <1>3, ReleaseFewer
  <1>6. n \in States /\ n \in After(k, {}) /\ n.pinned = k.pinned BY <1>3, <1>5, FewerIs
  <1>7. /\ n.fut = k.fut /\ n.args = k.args /\ Busy(n) \subseteq Busy(k)
        /\ "assert" \in n.faults => "assert" \in k.faults
    BY <1>3, <1>6, AfterIs
  <1>8. Owners(n) = Owners(k) BY <1>5 DEF Owners, HasSlot
  <1>9. tar \notin Busy(n) BY <1>5 DEF Busy, InReg, addr_reg1, NoReg
  <1>10. ASSUME NEW v \in Vars
         PROVE  /\ v \in Busy(n) => n.fut[v] = "next" /\ v # NoVar
                /\ v \in Owners(n) \ Crossing => n.fut[v] # "dead" /\ v # NoVar
    <2>1. v # NoVar BY CGenRegsAssumption
    <2>2. CASE v = tar
      <3>1. m.fut[tar] # "dead" \/ Owners(n) = Owners(m) BY <1>2, <1>8
      <3> QED BY <3>1, <2>1, <2>2, <1>1, <1>4, <1>7, <1>9 DEF Marked
    <2>3. CASE v # tar
      <3>1. v \in Busy(b) <=> v \in Busy(m) BY <1>1, <2>3 DEF Busy, InReg, addr_reg1
      <3>2. Busy(k) = Busy(b) BY <1>3 DEF Busy, InReg, addr_reg1
      <3>3. n.fut = m.fut BY <1>1, <1>4, <1>7
      <3>4. v \in Busy(n) => v \in Busy(m) BY <3>1, <3>2, <1>7
      <3>5. v \in Owners(n) => v \in Owners(m) \cup Busy(m) BY <3>1, <2>3, <1>2, <1>4, <1>8
      <3> QED BY <3>3, <3>4, <3>5, <2>1 DEF Marked
    <2> QED BY <2>2, <2>3
  <1>11. \A r \in Regs : n.reg[r] # NoVar => r \in P BY <1>1, <1>3, <1>5
  <1>12. /\ n.fut = m.fut /\ n.args = m.args /\ n.pinned = m.pinned
         /\ "assert" \in n.faults => "assert" \in m.faults
    BY <1>1, <1>3, <1>4, <1>6, <1>7
  <1> QED BY <1>6, <1>10, <1>11, <1>12 DEF Done, Marked

\* A target of one register: addr_reg2 is empty, so that unbinding releases it.
LEMMA UnbindReleases ==
  ASSUME NEW k \in States, NEW tar \in Vars, NEW r \in Regs, k.addr[tar].r1 = r, k.addr[tar].r2 = None
  PROVE  Unbind(k, r, tar) = Release(k, tar, k.addr[tar])
  <1>1. k \in Gen BY DEF States
  <1>2. k.addr[tar] \in Pairs /\ k.addr \in [Vars -> Pairs] /\ k.reg \in [Regs -> Vars \cup {NoVar}] BY <1>1 DEF Gen
  <1>3. [k.addr[tar] EXCEPT !.r1 = None] = NoReg BY <1>2 DEF Pairs, NoReg
  <1>4. [k.reg EXCEPT ![r] = NoVar] = [s \in Regs |-> IF s \in {k.addr[tar].r1, k.addr[tar].r2} THEN NoVar ELSE k.reg[s]]
    BY <1>2, RegsAre
  <1>5. PICK g : g = [k.reg EXCEPT ![r] = NoVar] OBVIOUS
  <1>6. PICK h : h = [k.addr EXCEPT ![tar] = NoReg] OBVIOUS
  <1>7. Unbind(k, r, tar) = [k EXCEPT !.addr = h, !.reg = g] BY <1>3, <1>5, <1>6 DEF Unbind
  <1>8. Release(k, tar, k.addr[tar]) = [k EXCEPT !.reg = g, !.addr = h] BY <1>4, <1>5, <1>6 DEF Release
  <1> QED BY <1>1, <1>7, <1>8 DEF Gen

\* update_tar_descriptors(), k being the state after the store.
LEMMA TarDone ==
  ASSUME NEW m, NEW tar \in Vars \ Wide, NEW P, Marked(m, tar, {}, P), NEW r \in Regs, r \in P, m.reg[r] = NoVar,
         NEW k, Bind(m, r, tar) \in States /\ Live(m, tar) => k \in Stored(Bind(m, r, tar), {tar}),
         NEW n, n = IF Used(m, tar) THEN Bind(m, r, tar)
                    ELSE Unbind(IF Live(m, tar) THEN k ELSE Bind(m, r, tar), r, tar)
  PROVE  n \in Done(m, P)
  <1>1. PICK b : b = Bind(m, r, tar) OBVIOUS
  <1>2. b \in Bound(m, tar, P) /\ b.addr[tar].r1 = r /\ b.addr[tar].r2 = None BY <1>1, BindBound
  <1>3. b \in States BY <1>2 DEF Bound
  <1>4. CASE Used(m, tar) BY <1>1, <1>2, <1>4, TarKept DEF Used
  <1>5. CASE ~Used(m, tar)
    <2>1. PICK q : q = IF Live(m, tar) THEN k ELSE b OBVIOUS
    <2>2. q \in Stored(b, {tar}) BY <1>1, <1>3, <2>1, StoredSelf
    <2>3. q = b \/ m.fut[tar] # "dead" BY <2>1 DEF Live
    <2>4. q \in States /\ q.addr = b.addr BY <2>2, StoredIs
    <2>5. n = Release(q, tar, q.addr[tar]) BY <1>1, <1>2, <1>5, <2>1, <2>4, UnbindReleases
    <2> QED BY <1>2, <2>2, <2>3, <2>5, TarGone
  <1> QED BY <1>4, <1>5

LEMMA Tar2Done ==
  ASSUME NEW m, NEW tar \in Wide, NEW P, Marked(m, tar, {}, P), NEW d \in Pairs,
         d.r1 \in Regs \cap P, d.r2 \in Regs \cap P, d.r1 # d.r2, m.reg[d.r1] = NoVar, m.reg[d.r2] = NoVar,
         NEW k, Bind2(m, d, tar) \in States /\ Live(m, tar) => k \in Stored(Bind2(m, d, tar), {tar}),
         NEW n, n = IF Used(m, tar) THEN Bind2(m, d, tar)
                    ELSE Release(IF Live(m, tar) THEN k ELSE Bind2(m, d, tar), tar, d)
  PROVE  n \in Done(m, P)
  <1>0. tar \in Vars BY CGenRegsAssumption
  <1>1. PICK b : b = Bind2(m, d, tar) OBVIOUS
  <1>2. b \in Bound(m, tar, P) /\ b.addr[tar] = d BY <1>1, Bind2Bound
  <1>3. b \in States BY <1>2 DEF Bound
  <1>4. CASE Used(m, tar) BY <1>0, <1>1, <1>2, <1>4, TarKept DEF Used
  <1>5. CASE ~Used(m, tar)
    <2>1. PICK q : q = IF Live(m, tar) THEN k ELSE b OBVIOUS
    <2>2. q \in Stored(b, {tar}) BY <1>0, <1>1, <1>3, <2>1, StoredSelf
    <2>3. q = b \/ m.fut[tar] # "dead" BY <1>0, <2>1 DEF Live
    <2>4. q \in States /\ q.addr = b.addr BY <2>2, StoredIs
    <2>5. n = Release(q, tar, q.addr[tar]) BY <1>1, <1>2, <1>5, <2>1, <2>4
    <2> QED BY <1>0, <1>2, <2>2, <2>3, <2>5, TarGone
  <1> QED BY <1>4, <1>5

-----------------------------------------------------------------------------
(* The code for one instruction                                            *)

\* The registers that hold variables: on ARM and MIPS those of the arguments do not, and
\* values are moved from them at once.
Usable == [x86 |-> Regs, x64 |-> Regs, arm |-> (4 .. 10) \cup {14}, mips |-> {2, 3, 24} \cup (8 .. 15)]

\* x86_ret() and mips_ret() may find a 64-bit variable in the registers of the value, but
\* in the other order: load2() does not expect that.
Misplaced == target \in {"x86", "mips"} /\ "ret2" \in Handlers /\ Wide # {}

\* The state of the code generator in the middle of an instruction that defines tar and
\* reads args: pins are the registers pinned so far.
Going(n, tar, args, pins) ==
  /\ Marked(n, tar, args, Usable[target])
  /\ n.pinned = pins /\ n.args \in 0 .. MaxArgs + 4
  /\ \A v \in Vars : n.fut[v] \in Futures(v)
  /\ "assert" \in n.faults => Misplaced

\* The inductive invariant: between instructions no operand is exempt, and nothing is
\* pinned.
IInv == target \in Targets /\ Going(cg, NoVar, {}, {}) /\ written \subseteq Regs

\* get_reg0() has three registers to choose from at least: no handler pins more than two.
Roomy(pool) == \A r1, r2 \in Regs : ~ (pool \subseteq {r1, r2})

LEMMA GoingIs ==
  ASSUME NEW n, NEW tar, NEW args, NEW pins, Going(n, tar, args, pins)
  PROVE  n \in States /\ n.pinned = pins /\ Marked(n, tar, args, Usable[target])
  BY MarkedIs DEF Going

LEMMA GoingOn ==
  ASSUME NEW n, NEW tar, NEW args, NEW pins, Going(n, tar, args, pins),
         NEW A \in SUBSET Vars, A \subseteq args, NEW q \in After(n, A), NEW more, args \subseteq more
  PROVE  Going(q, tar, more, q.pinned)
  <1>1. n \in States /\ Marked(n, tar, args, Usable[target]) BY GoingIs
  <1>2. q.fut = n.fut /\ q.args = n.args /\ ("assert" \in q.faults => "assert" \in n.faults)
    BY <1>1, AfterIs
  <1>3. Marked(q, tar, args, Usable[target]) BY <1>1, MarkedKept
  <1>4. Marked(q, tar, more, Usable[target]) BY <1>3, MarkedMore
  <1> QED BY <1>2, <1>4 DEF Going

LEMMA GoingDone ==
  ASSUME NEW n, NEW tar, NEW args, NEW pins, Going(n, tar, args, pins), NEW q \in Done(n, Usable[target])
  PROVE  Going(q, NoVar, {}, pins)
  BY DEF Going, Done

LEMMA GoingSettled ==
  ASSUME NEW n, NEW tar, NEW args, NEW pins, Going(n, tar, args, pins), NEW a,
         NEW q \in Settled(n, tar, a, Usable[target])
  PROVE  Going(q, tar, {}, pins)
  <1>1. n \in States /\ q \in Fewer(n) /\ Marked(q, tar, {}, Usable[target]) BY GoingIs DEF Settled
  <1>2. q \in After(n, {}) /\ q.pinned = n.pinned BY <1>1, FewerIs
  <1>3. q.fut = n.fut /\ q.args = n.args /\ ("assert" \in q.faults => "assert" \in n.faults)
    BY <1>1, <1>2, AfterIs
  <1> QED BY <1>1, <1>2, <1>3 DEF Going

LEMMA GoingArgs ==
  ASSUME NEW n, NEW tar, NEW args, NEW pins, Going(n, tar, args, pins), NEW k \in 0 .. MaxArgs + 4
  PROVE  Going([n EXCEPT !.args = k], tar, args, pins)
  <1>1. n \in States /\ n \in Gen /\ Agree(n) /\ OneSlot(n.temps) BY GoingIs DEF States
  <1>2. k \in Int BY CGenAssumption
  <1>3. PICK q : q = [n EXCEPT !.args = k] OBVIOUS
  <1>4. /\ q \in Gen /\ q.reg = n.reg /\ q.addr = n.addr /\ q.pinned = n.pinned /\ q.temps = n.temps
        /\ q.fut = n.fut /\ q.args = k /\ q.faults = n.faults
    BY <1>1, <1>2, <1>3 DEF Gen
  <1>5. q \in States BY <1>1, <1>4 DEF States, Agree
  <1>6. Owners(q) = Owners(n) /\ Busy(q) = Busy(n)
    BY <1>4 DEF Owners, Busy, HasSlot, InReg, addr_reg1
  <1> QED BY <1>3, <1>4, <1>5, <1>6 DEF Going, Marked

\* An assertion has failed where it may.
LEMMA GoingFaulty ==
  ASSUME NEW n, NEW tar, NEW args, NEW pins, Going(n, tar, args, pins), Misplaced
  PROVE  Going(Fault(n, "assert", FALSE), tar, args, pins)
  <1>1. n \in States /\ n \in Gen /\ Agree(n) /\ OneSlot(n.temps) BY GoingIs DEF States
  <1>2. PICK F : F = n.faults \cup {"assert"} OBVIOUS
  <1>3. F \in SUBSET Faults BY <1>1, <1>2 DEF Gen, Faults
  <1>4. PICK q : q = [n EXCEPT !.faults = F] OBVIOUS
  <1>5. /\ q \in Gen /\ q.reg = n.reg /\ q.addr = n.addr /\ q.pinned = n.pinned /\ q.temps = n.temps
        /\ q.fut = n.fut /\ q.args = n.args
    BY <1>1, <1>3, <1>4 DEF Gen
  <1>6. q \in States BY <1>1, <1>5 DEF States, Agree
  <1>7. Owners(q) = Owners(n) /\ Busy(q) = Busy(n)
    BY <1>5 DEF Owners, Busy, HasSlot, InReg, addr_reg1
  <1>8. q = Fault(n, "assert", FALSE) BY <1>2, <1>4 DEF Fault
  <1> QED BY <1>5, <1>6, <1>7, <1>8 DEF Going, Marked

\* Outside of an instruction cg is one of the generator's states.
LEMMA Begin ==
  ASSUME IInv, NEW t, NEW h, Enabled(t, h), NEW tar, NEW args, NEW implicit, implicit \subseteq Crossing,
         NEW m \in Marks(tar, args, implicit)
  PROVE  Going(m, tar, args, {}) /\ m.args = arg_words /\ "assert" \notin m.faults
  <1>1. Going(cg, NoVar, {}, {}) BY DEF IInv
  <1>2. /\ \A a \in args \ {Const} : fut[a] = "next"
        /\ tar \in Vars \ args => fut[tar] = IF tar \in implicit THEN "live" ELSE "dead"
    BY DEF Marks
  <1>3. PICK f : /\ m = [cg EXCEPT !.fut = f] /\ f \in [Vars -> {"next", "live", "dead"}]
                 /\ \A v \in Vars : f[v] \in IF v \in args \cup {tar} THEN Futures(v)
                                             ELSE IF v \in implicit /\ fut[v] = "live" THEN {"live", "dead"}
                                             ELSE {fut[v]}
    <2> DEFINE after(v) == IF v \in (args \cup {tar}) \cap Vars THEN Futures(v)
                           ELSE IF v \in implicit /\ fut[v] = "live" THEN {"live", "dead"} ELSE {fut[v]}
               free == {v \in Vars : after(v) # {fut[v]}}
    <2>1. PICK g \in [free -> {"next", "live", "dead"}] :
            /\ \A v \in free : g[v] \in after(v)
            /\ m = [cg EXCEPT !.fut = [v \in Vars |-> IF v \in free THEN g[v] ELSE fut[v]]]
      BY DEF Marks
    <2>2. PICK f : f = [v \in Vars |-> IF v \in free THEN g[v] ELSE fut[v]] OBVIOUS
    <2>3. \A v \in Vars : f[v] \in after(v) BY <2>1, <2>2
    <2>4. \A v \in Vars : fut[v] \in {"next", "live", "dead"} BY <1>1 DEF Going, Futures, cg
    <2>5. f \in [Vars -> {"next", "live", "dead"}] BY <2>1, <2>2, <2>4
    <2> QED BY <2>1, <2>2, <2>3, <2>5
  <1>4. cg \in States /\ cg \in Gen /\ Agree(cg) /\ OneSlot(cg.temps) BY <1>1, GoingIs DEF States
  <1>5. /\ m \in Gen /\ m.reg = cg.reg /\ m.addr = cg.addr /\ m.pinned = cg.pinned /\ m.temps = cg.temps
        /\ m.fut = f /\ m.args = cg.args /\ m.faults = cg.faults
    BY <1>3, <1>4 DEF Gen
  <1>6. m \in States BY <1>4, <1>5 DEF States, Agree
  <1>7. Owners(m) = Owners(cg) /\ Busy(m) = Busy(cg)
    BY <1>5 DEF Owners, Busy, HasSlot, InReg, addr_reg1
  <1>8. cg.fut = fut /\ cg.faults = faults /\ cg.args = arg_words BY DEF cg
  <1>9. ASSUME NEW v \in Vars \ args
        PROVE  /\ v \in Busy(m) => m.fut[v] = "next" /\ v # tar
               /\ v \in Owners(m) \ Crossing => m.fut[v] # "dead" /\ v # tar
    <2>1. /\ v \in Busy(m) => fut[v] = "next"
          /\ v \in Owners(m) \ Crossing => fut[v] # "dead"
      BY <1>1, <1>7, <1>8 DEF Going, Marked
    <2>2. v \in Busy(m) \cup (Owners(m) \ Crossing) => v # tar BY <1>2, <2>1
    <2> QED BY <1>3, <1>5, <2>1, <2>2
  <1>10. \A v \in Vars : f[v] \in Futures(v) BY <1>1, <1>3, <1>8 DEF Going, Futures
  <1>11. \A r \in Regs : m.reg[r] # NoVar => r \in Usable[target] BY <1>1, <1>5 DEF Going, Marked
  <1>12. "assert" \notin faults BY DEF Enabled
  <1> QED BY <1>1, <1>5, <1>6, <1>8, <1>9, <1>10, <1>11, <1>12 DEF Going, Marked

LEMMA Finish ==
  ASSUME target \in Targets, CalleeSave[target] \subseteq Regs, NEW n, Going(n, NoVar, {}, {}), Commit(n)
  PROVE  IInv'
  <1>1. n \in States /\ n \in Gen /\ Agree(n) /\ OneSlot(n.temps) BY GoingIs DEF States
  <1>2. /\ reg_descr_tab' = n.reg /\ addr_descr_tab' = n.addr
        /\ pinned' = n.pinned /\ modified' = n.modified /\ temp_list' = n.temps
        /\ arg_words' = n.args /\ passed' = n.passed /\ target' = target
        /\ fut' = n.fut /\ written' = n.written \cap CalleeSave[target] /\ faults' = n.faults
    BY DEF Commit
  <1>3. R' \in [Regs -> Contents]
    <2>1. /\ n.R \in [Regs -> Contents]
          /\ R' = [r \in Regs |->
               IF n.reg[r] = NoVar THEN n.R[r] \cap ({Arg} \X n.passed)
               ELSE n.R[r] \cap (({n.reg[r]} \X {1, 2}) \cup Addresses(n.reg[r]))]
      BY <1>1 DEF Commit, Gen
    <2>2. \A X \in Contents : \A Y : X \cap Y \in Contents BY DEF Contents
    <2> QED BY <2>1, <2>2
  <1>4. M' \in Memory
    <2> DEFINE keeps(t, L) == \/ t[1] \in Vars /\ Vouched(n, L, t[1])
                              \/ t[2] = 0 /\ L \in DOMAIN n.temps /\ n.temps[L] \in Structs
    <2>1. M' = [L \in Locs |-> [w \in {1, 2} |-> {t \in n.M[L][w] : keeps(t, L)}]] BY DEF Commit
    <2>2. \A L \in Locs, w \in {1, 2} : n.M[L][w] \in Contents BY <1>1, Contained
    <2> HIDE DEF keeps
    <2>3. \A L \in Locs, w \in {1, 2} : {t \in n.M[L][w] : keeps(t, L)} \in Contents BY <2>2 DEF Contents
    <2> QED BY <2>1, <2>3 DEF Memory
  <1>5. PICK q : q = cg' OBVIOUS
  <1>6. /\ q.reg = n.reg /\ q.addr = n.addr /\ q.pinned = n.pinned /\ q.temps = n.temps
        /\ q.fut = n.fut /\ q.args = n.args /\ q.faults = n.faults
    BY <1>2, <1>5 DEF cg
  <1>7. written' \subseteq Regs BY <1>2
  <1>8. q \in Gen
    <2>1. /\ NoReg \in Pairs /\ None \in Int /\ {} \in Contents \cup Pairs BY TokensAre DEF NoReg, Pairs, None
    <2>2. written' \in SUBSET Int BY <1>7, RegsAre
    <2> QED BY <1>1, <1>2, <1>3, <1>4, <1>5, <2>1, <2>2 DEF cg, Gen
  <1>9. q \in States BY <1>1, <1>6, <1>8 DEF States, Agree
  <1>10. Owners(q) = Owners(n) /\ Busy(q) = Busy(n)
    BY <1>6 DEF Owners, Busy, HasSlot, InReg, addr_reg1
  <1>11. Usable[target'] = Usable[target] BY <1>2
  <1>12. Misplaced => Misplaced' BY <1>2 DEF Misplaced
  <1>13. Marked(q, NoVar, {}, Usable[target']) BY <1>6, <1>9, <1>10, <1>11 DEF Going, Marked
  <1>14. /\ q.pinned = {} /\ q.args \in 0 .. MaxArgs + 4
         /\ \A v \in Vars : q.fut[v] \in Futures(v)
         /\ "assert" \in q.faults => Misplaced'
    BY <1>6, <1>12 DEF Going
  <1> QED BY <1>2, <1>5, <1>7, <1>13, <1>14 DEF IInv, Going

\* At the end of a block no variable is in a register.
LEMMA BlockEnds ==
  ASSUME IInv, LastOfBlock(cg)
  PROVE  /\ \A r \in Regs : cg.reg[r] = NoVar
         /\ \A v \in Vars : v \notin Busy(cg) /\ v \notin Owners(cg) \ Crossing
  <1>1. Marked(cg, NoVar, {}, Usable[target]) /\ \A v \in Vars : cg.fut[v] \in Futures(v) BY DEF IInv, Going
  <1>2. cg \in States BY <1>1, MarkedIs
  <1>3. ASSUME NEW v \in Vars PROVE v \notin Busy(cg) /\ v \notin Owners(cg) \ Crossing
    BY <1>1 DEF Marked, LastOfBlock, Futures
  <1>4. ASSUME NEW r \in Regs PROVE cg.reg[r] = NoVar
    <2>1. cg.reg[r] \in Vars \cup {NoVar} /\ Agree(cg) BY <1>2 DEF States, Gen
    <2>2. CASE cg.reg[r] \in Vars
      <3>1. PICK v \in Vars : v = cg.reg[r] BY <2>2
      <3>2. cg.addr[v].r1 = None BY <1>3, <3>1, CGenRegsAssumption DEF Busy, InReg, addr_reg1
      <3>3. cg.addr[v].r2 = None BY <2>1, <3>2 DEF Agree
      <3> QED BY <2>1, <3>1, <3>2, <3>3, RegsAre DEF Agree
    <2> QED BY <2>1, <2>2
  <1> QED BY <1>3, <1>4

LEMMA EntryKeeps ==
  ASSUME target \in Targets, CalleeSave[target] \subseteq Regs, NEW n \in States, NEW dom,
         \A v \in Vars : v \notin Busy(n) /\ v \notin Owners(n) \ Crossing, \A r \in Regs : n.reg[r] = NoVar,
         n.pinned = {}, n.args \in 0 .. MaxArgs + 4, "assert" \in n.faults => Misplaced, Entry(n, dom)
  PROVE  IInv'
  <1>1. PICK f \in [Vars -> {"next", "live", "dead"}] :
          /\ \A v \in Vars : f[v] \in Futures(v)
          /\ Commit([n EXCEPT !.fut = f,
                              !.M = [L \in Locs |-> [w \in {1, 2} |->
                                       n.M[L][w] \cup (IF L \in Ids THEN {<<L, w>>} ELSE {})]]])
    BY DEF Entry
  <1>2. PICK N : N = [L \in Locs |-> [w \in {1, 2} |-> n.M[L][w] \cup (IF L \in Ids THEN {<<L, w>>} ELSE {})]]
    OBVIOUS
  <1>3. n \in Gen /\ Agree(n) /\ OneSlot(n.temps) BY DEF States
  <1>4. N \in Memory
    <2>1. ASSUME NEW L \in Locs, NEW w \in {1, 2}
          PROVE  n.M[L][w] \cup (IF L \in Ids THEN {<<L, w>>} ELSE {}) \in Contents
      <3>1. n.M[L][w] \in Contents BY <1>3, Contained
      <3>2. L \in Ids => {<<L, w>>} \in Contents BY TokensAre DEF Ids
      <3> QED BY <3>1, <3>2 DEF Contents
    <2> QED BY <1>2, <2>1 DEF Memory
  <1>5. PICK q : q = [n EXCEPT !.fut = f, !.M = N] OBVIOUS
  <1>6. /\ q \in Gen /\ q.reg = n.reg /\ q.addr = n.addr /\ q.pinned = n.pinned /\ q.temps = n.temps
        /\ q.fut = f /\ q.args = n.args /\ q.faults = n.faults
    BY <1>3, <1>4, <1>5 DEF Gen
  <1>7. q \in States BY <1>3, <1>6 DEF States, Agree
  <1>8. Owners(q) = Owners(n) /\ Busy(q) = Busy(n)
    BY <1>6 DEF Owners, Busy, HasSlot, InReg, addr_reg1
  <1>9. Marked(q, NoVar, {}, Usable[target]) BY <1>6, <1>7, <1>8 DEF Marked
  <1>10. Going(q, NoVar, {}, {}) BY <1>1, <1>6, <1>9 DEF Going
  <1>11. Commit(q) BY <1>1, <1>2, <1>5
  <1> QED BY <1>10, <1>11, Finish

LEMMA NextBlock ==
  ASSUME IInv, CalleeSave[target] \subseteq Regs, LastOfBlock(cg), NEW dom, Entry(cg, dom) PROVE IInv'
  <1>1. cg \in States /\ cg.pinned = {} /\ cg.args \in 0 .. MaxArgs + 4 /\ ("assert" \in cg.faults => Misplaced)
    BY GoingIs DEF IInv, Going
  <1> QED BY <1>1, BlockEnds, EntryKeeps DEF IInv

LEMMA FunctionEnds ==
  ASSUME IInv, CalleeSave[target] \subseteq Regs, NewFunction PROVE IInv'
  <1>1. /\ cg \in States /\ cg \in Gen /\ cg.args \in 0 .. MaxArgs + 4 /\ ("assert" \in cg.faults => Misplaced)
    BY GoingIs DEF IInv, Going, States
  <1>2. PICK g : g = [r \in Regs |-> NoVar] OBVIOUS
  <1>3. PICK h : h = [v \in Vars |-> NoReg] OBVIOUS
  <1>4. PICK n : n = [cg EXCEPT !.reg = g, !.addr = h,
                                !.pinned = {}, !.modified = {}, !.temps = <<>>, !.written = {}]
    OBVIOUS
  <1>5. Entry(n, {}) BY <1>2, <1>3, <1>4 DEF NewFunction
  <1>6. NoReg \in Pairs /\ NoReg.r1 = None /\ NoReg.r2 = None BY DEF NoReg, Pairs
  <1>7. g \in [Regs -> Vars \cup {NoVar}] /\ h \in [Vars -> Pairs] BY <1>2, <1>3, <1>6
  <1>8. <<>> \in Seq(Temps \cup {NoVar}) /\ Len(<<>>) = 0 /\ DOMAIN <<>> = {} OBVIOUS
  <1>9. /\ n \in Gen /\ n.reg = g /\ n.addr = h /\ n.pinned = {} /\ n.temps = <<>> /\ n.args = cg.args
        /\ n.faults = cg.faults
    BY <1>1, <1>4, <1>7, <1>8 DEF Gen
  <1>10. Agree(n) BY <1>2, <1>3, <1>6, <1>9, RegsAre, CGenRegsAssumption DEF Agree
  <1>11. OneSlot(n.temps) BY <1>8, <1>9, TempsFinite DEF OneSlot
  <1>12. n \in States BY <1>9, <1>10, <1>11 DEF States
  <1>13. \A v \in Vars : v \notin Busy(n) /\ v \notin Owners(n)
    BY <1>3, <1>6, <1>8, <1>9 DEF Busy, InReg, addr_reg1, Owners, HasSlot
  <1>14. \A r \in Regs : n.reg[r] = NoVar BY <1>2, <1>9
  <1> QED BY <1>1, <1>5, <1>9, <1>12, <1>13, <1>14, EntryKeeps DEF IInv

LEMMA Starts == ASSUME Init PROVE IInv
  <1>1. NoReg \in Pairs /\ NoReg.r1 = None /\ NoReg.r2 = None /\ None \in Int BY DEF NoReg, Pairs, None
  <1>2. <<>> \in Seq(Temps \cup {NoVar}) /\ Len(<<>>) = 0 /\ DOMAIN <<>> = {} OBVIOUS
  <1>3. /\ cg.reg = [r \in Regs |-> NoVar] /\ cg.addr = [v \in Vars |-> NoReg] /\ cg.pinned = {}
        /\ cg.temps = <<>> /\ cg.args = 0 /\ cg.fut = [v \in Vars |-> "dead"] /\ cg.faults = {}
    BY DEF Init, cg
  <1>4. R \in [Regs -> Contents] /\ M \in Memory BY TokensAre DEF Init, Memory
  <1>5. cg \in Gen BY <1>1, <1>2, <1>4, TokensAre DEF Init, cg, Gen
  <1>6. Agree(cg) BY <1>1, <1>3, RegsAre, CGenRegsAssumption DEF Agree
  <1>7. OneSlot(cg.temps) BY <1>2, <1>3, TempsFinite DEF OneSlot
  <1>8. cg \in States BY <1>5, <1>6, <1>7 DEF States
  <1>9. \A v \in Vars : v \notin Busy(cg) /\ v \notin Owners(cg)
    BY <1>1, <1>2, <1>3 DEF Busy, InReg, addr_reg1, Owners, HasSlot
  <1>10. Marked(cg, NoVar, {}, Usable[target]) BY <1>3, <1>8, <1>9 DEF Marked
  <1>11. 0 \in 0 .. MaxArgs + 4 /\ \A v \in Vars : "dead" \in Futures(v) BY CGenAssumption DEF Futures
  <1> QED BY <1>3, <1>10, <1>11 DEF Init, IInv, Going

-----------------------------------------------------------------------------
(* Registers for the result                                                *)

LEMMA FreeKept ==
  ASSUME NEW m \in States, NEW A \in SUBSET Vars, NEW n \in After(m, A), NEW a, NEW live, NEW P
  PROVE  /\ \A r : Free(m, r, a, live) => Free(n, r, a, live)
         /\ n.res.r1 = m.res.r1 /\ Ready(m, a, live, P) => Ready(n, a, live, P)
         /\ n.res = m.res /\ Ready2(m, a, live, P) => Ready2(n, a, live, P)
  <1>1. \A r \in Regs : n.reg[r] \in {m.reg[r], NoVar} BY AfterIs
  <1>2. \A r : Free(m, r, a, live) => Free(n, r, a, live) BY <1>1 DEF Free
  <1> QED BY <1>2 DEF Ready, Ready2

\* The first operand's own register, or the one get_reg0() has left in g.
LEMMA OwnRegRight ==
  ASSUME NEW m \in States, NEW a \in Vars \cup {Const}, InReg(m, a), NEW live, ~live, NEW P,
         \A r \in Regs : m.reg[r] # NoVar => r \in P
  PROVE  \A n : n = [m EXCEPT !.res.r1 = addr_reg1(m, a)] =>
                n \in After(m, {}) /\ n.pinned = m.pinned /\ Ready(n, a, live, P) /\ n.res.r1 \in Regs
  <1> SUFFICES ASSUME NEW n, n = [m EXCEPT !.res.r1 = addr_reg1(m, a)]
               PROVE  n \in After(m, {}) /\ n.pinned = m.pinned /\ Ready(n, a, live, P) /\ n.res.r1 \in Regs
    OBVIOUS
  <1>1. addr_reg1(m, a) \in Regs /\ m.reg[addr_reg1(m, a)] = a /\ a \in Vars BY RegOf
  <1>2. n \in Picked(m) /\ n.pinned = m.pinned /\ n.res.r1 = addr_reg1(m, a) BY <1>1, Res1Picks
  <1>3. n \in After(m, {}) /\ n.reg = m.reg BY <1>2, PickedAfter
  <1>4. addr_reg1(m, a) \in P BY <1>1, CGenRegsAssumption
  <1> QED BY <1>1, <1>2, <1>3, <1>4 DEF Ready, Free

LEMMA NewRegRight ==
  ASSUME NEW m \in States, NEW g \in Fewer(m), NEW P, g.got \in Regs \cap P, g.reg[g.got] = NoVar
  PROVE  /\ Got1(g) \in After(m, {}) /\ Got1(g).pinned = m.pinned /\ Got1(g).res.r1 = g.got
         /\ Got1(g).reg = g.reg
         /\ \A a, live : Ready(Got1(g), a, live, P)
  <1>1. g \in States /\ g \in After(m, {}) /\ g.pinned = m.pinned BY FewerIs
  <1>2. Got1(g) \in Picked(g) /\ Got1(g).pinned = g.pinned /\ Got1(g).res.r1 = g.got BY <1>1, Got1Picks
  <1>3. Got1(g) \in After(g, {}) /\ Got1(g).reg = g.reg BY <1>1, <1>2, PickedAfter
  <1>4. Got1(g) \in After(m, {}) BY <1>1, <1>3, AfterTrans
  <1> QED BY <1>1, <1>2, <1>3, <1>4 DEF Ready, Free

LEMMA LiveBoolean ==
  ASSUME NEW n, NEW tar, NEW a, NEW b
  PROVE  /\ Live1(n, tar, a) \in BOOLEAN /\ Used1(n, tar, a) \in BOOLEAN
         /\ Live2(n, tar, a, b) \in BOOLEAN /\ Used2(n, tar, a, b) \in BOOLEAN
         /\ Live(n, a) \in BOOLEAN /\ Used(n, a) \in BOOLEAN
  BY DEF Live1, Used1, Live2, Used2, Live, Used

LEMMA LiveSame ==
  ASSUME NEW n, NEW m, n.fut = m.fut, NEW tar, NEW a
  PROVE  Live1(n, tar, a) = Live1(m, tar, a)
  BY DEF Live1, Live

LEMMA OwnerIs ==
  ASSUME NEW m \in States, NEW r \in Regs, m.reg[r] # NoVar
  PROVE  m.reg[r] \in Vars /\ InReg(m, m.reg[r])
  <1>1. PICK v : v = m.reg[r] OBVIOUS
  <1>2. v \in Vars /\ Agree(m) BY <1>1 DEF States, Gen
  <1>3. r \in {m.addr[v].r1, m.addr[v].r2} BY <1>1, <1>2 DEF Agree
  <1>4. m.addr[v].r1 = None => m.addr[v].r2 = None BY <1>2 DEF Agree
  <1>5. m.addr[v].r1 # None BY <1>3, <1>4, RegsAre
  <1>6. v # Const BY <1>2, CGenRegsAssumption
  <1> QED BY <1>1, <1>2, <1>5, <1>6 DEF InReg, addr_reg1

LEMMA PickedFewer ==
  ASSUME NEW m \in States, NEW n \in Picked(m), n.pinned = m.pinned, n.res = m.res
  PROVE  n \in Fewer(m) /\ n \in States /\ n.reg = m.reg
  BY PickedAfter DEF Fewer

\* get_reg2() keeps the second register of operand a, or takes the one that get_reg0() found
\* in g; the first is the operand's own in k, or empty.
OwnSecond(p, a, live) == a # Const /\ ~live /\ addr_reg2(p, a) # None
SecondOf(p, a, live, g) == IF OwnSecond(p, a, live) THEN [p EXCEPT !.res.r2 = addr_reg2(p, a)] ELSE Got2(g)
FirstOf(m, k, a, live) == IF InReg(m, a) /\ ~live THEN k.res.r1 = addr_reg1(m, a) ELSE k.reg[k.res.r1] = NoVar

\* get_reg2(), k being the state after get_reg() and g after get_reg0().
LEMMA PairReady ==
  ASSUME NEW m \in States, NEW a \in Vars \cup {Const}, NEW live \in BOOLEAN, NEW P,
         \A r \in Regs : m.reg[r] # NoVar => r \in P,
         NEW k \in After(m, {}), k.pinned = m.pinned, Ready(k, a, live, P),
         FirstOf(m, k, a, live),
         NEW p, p = PinRes(k), NEW g \in Fewer(p), g.got \in (Regs \cap P) \ p.pinned, g.reg[g.got] = NoVar,
         NEW h, h = SecondOf(p, a, live, g), NEW n, n = UnpinRes(h)
  PROVE  /\ n \in After(m, {}) /\ n.pinned = m.pinned \ {n.res.r1} /\ n.res.r1 = k.res.r1
         /\ Ready2(n, a, live, P)
         /\ a \in Wide /\ InReg(n, a) => PairExpected(n.addr[a], n.res, a)
  <1>20. PICK own \in BOOLEAN : own <=> OwnSecond(p, a, live) OBVIOUS
  <1>21. own <=> a # Const /\ ~live /\ addr_reg2(p, a) # None BY <1>20 DEF OwnSecond
  <1>1. k \in States /\ k.res.r1 \in Regs /\ k.res.r1 \in P /\ \A v \in Vars : k.addr[v] \in {m.addr[v], NoReg}
    BY AfterIs DEF Ready, Free
  <1>2. p \in Picked(k) /\ p.pinned = m.pinned \cup {k.res.r1} /\ p.res = k.res
    BY <1>1, PinPicks DEF PinRes
  <1>3. p \in States /\ p \in After(k, {}) /\ p.reg = k.reg /\ p.addr = k.addr BY <1>1, <1>2, PickedAfter
  <1>4. ASSUME own
        PROVE  /\ InReg(m, a) /\ InReg(p, a) /\ a \in Vars /\ p.addr[a] = m.addr[a]
               /\ k.res.r1 = addr_reg1(p, a) /\ addr_reg2(p, a) \in Regs
               /\ addr_reg2(p, a) # k.res.r1 /\ p.reg[addr_reg2(p, a)] = a /\ ~live /\ addr_reg2(p, a) \in P
    <2>1. a \in Vars /\ p.addr[a].r2 # None /\ ~live BY <1>4, <1>21 DEF addr_reg2
    <2>2. p.addr[a].r1 # None BY <1>3, <2>1 DEF States, Agree
    <2>3. InReg(p, a) BY <2>1, <2>2, CGenRegsAssumption DEF InReg, addr_reg1
    <2>4. p.addr[a] = m.addr[a] BY <1>1, <1>3, <2>1, <2>2 DEF NoReg, Pair
    <2>5. InReg(m, a) BY <2>3, <2>4 DEF InReg, addr_reg1
    <2>6. k.res.r1 = addr_reg1(p, a) BY <2>1, <2>4, <2>5 DEF addr_reg1, FirstOf
    <2>7. addr_reg2(p, a) \in Regs /\ addr_reg1(p, a) # addr_reg2(p, a) /\ p.reg[addr_reg2(p, a)] = a
      BY <1>3, <2>1, <2>3, RegOf DEF addr_reg2
    <2>8. addr_reg2(m, a) = addr_reg2(p, a) BY <2>4 DEF addr_reg2
    <2>9. m.reg[addr_reg2(m, a)] = a BY <2>5, <2>7, <2>8, RegOf, RegsAre
    <2>10. addr_reg2(m, a) \in P BY <2>1, <2>7, <2>8, <2>9, CGenRegsAssumption
    <2> QED BY <2>1, <2>3, <2>4, <2>5, <2>6, <2>7, <2>8, <2>10
  <1>5. /\ h \in After(p, {}) /\ h \in States /\ h.pinned = p.pinned /\ h.res.r1 = k.res.r1
        /\ Free(h, h.res.r2, a, live) /\ h.res.r2 \in P /\ h.res.r2 # k.res.r1
        /\ own => h.res.r2 = addr_reg2(p, a)
        /\ ~own => h.reg[h.res.r2] = NoVar
    <2>1. CASE own
      <3>1. PICK r : r = addr_reg2(p, a) OBVIOUS
      <3>2. r \in Regs /\ h = [p EXCEPT !.res.r2 = r] BY <1>4, <1>20, <2>1, <3>1 DEF SecondOf
      <3>5. /\ [p EXCEPT !.res.r2 = r] \in Picked(p) /\ [p EXCEPT !.res.r2 = r].pinned = p.pinned
            /\ [p EXCEPT !.res.r2 = r].res.r1 = p.res.r1 /\ [p EXCEPT !.res.r2 = r].res.r2 = r
        BY <1>3, <3>2, Res2Picks
      <3>3. h \in Picked(p) /\ h.pinned = p.pinned /\ h.res.r1 = p.res.r1 /\ h.res.r2 = r BY <3>2, <3>5
      <3>4. h \in After(p, {}) /\ h \in States /\ h.reg = p.reg BY <1>3, <3>3, PickedAfter
      <3> QED BY <1>2, <1>4, <2>1, <3>1, <3>3, <3>4 DEF Free
    <2>2. CASE ~own
      <3>1. g \in States /\ g \in After(p, {}) /\ g.pinned = p.pinned /\ g.res = p.res BY <1>3, FewerIs
      <3>2. g.got \in Regs /\ g.got \in P /\ g.got \notin p.pinned /\ g.reg[g.got] = NoVar OBVIOUS
      <3>6. h = Got2(g) BY <1>20, <2>2 DEF SecondOf
      <3>3. h \in Picked(g) /\ h.pinned = g.pinned /\ h.res.r1 = g.res.r1 /\ h.res.r2 = g.got
        BY <3>1, <3>2, <3>6, Got2Picks
      <3>4. h \in After(g, {}) /\ h \in States /\ h.reg = g.reg BY <3>1, <3>3, PickedAfter
      <3>5. h \in After(p, {}) BY <1>3, <3>1, <3>4, AfterTrans
      <3> QED BY <1>2, <2>2, <3>1, <3>2, <3>3, <3>4, <3>5 DEF Free
    <2> QED BY <2>1, <2>2
  <1>6. PICK r : r = h.res.r1 OBVIOUS
  <1>13. n = unpin_reg(h, r) BY <1>6 DEF UnpinRes
  <1>14. /\ unpin_reg(h, r) \in Picked(h) /\ unpin_reg(h, r).pinned = h.pinned \ {r}
         /\ unpin_reg(h, r).res = h.res
    BY <1>5, UnpinPicks
  <1>7. n \in Picked(h) /\ n.pinned = h.pinned \ {r} /\ n.res = h.res BY <1>13, <1>14
  <1>15. h \in States /\ n \in Picked(h) BY <1>5, <1>7
  <1>8. n \in After(h, {}) /\ n \in States /\ n.reg = h.reg /\ n.addr = h.addr
    <2>1. PICK E : E = {} OBVIOUS
    <2>2. E \in SUBSET Vars BY <2>1
    <2>3. n \in After(h, E) /\ n \in States /\ n.reg = h.reg /\ n.addr = h.addr BY <1>15, <2>2, PickedAfter
    <2> QED BY <2>1, <2>3
  <1>9. n \in After(p, {}) /\ n \in After(k, {}) /\ n \in After(m, {})
    <2>1. n \in After(p, {}) BY <1>3, <1>5, <1>8, AfterTrans
    <2>2. n \in After(k, {}) BY <1>1, <1>3, <2>1, AfterTrans
    <2> QED BY <2>1, <2>2, AfterTrans
  <1>10. Free(n, n.res.r1, a, live)
    <2>1. Free(k, k.res.r1, a, live) BY DEF Ready
    <2>2. k \in States /\ {} \in SUBSET Vars /\ n \in After(k, {}) BY <1>1, <1>9
    <2>3. \A s : Free(k, s, a, live) => Free(n, s, a, live) BY <2>2, FreeKept
    <2>4. n.res.r1 = k.res.r1 BY <1>5, <1>7
    <2> QED BY <2>1, <2>3, <2>4
  <1>11. Ready2(n, a, live, P)
    <2>1. Free(n, n.res.r2, a, live) BY <1>5, <1>7, <1>8 DEF Free
    <2> QED BY <1>1, <1>5, <1>7, <1>10, <2>1 DEF Ready2, Ready
  <1>12. ASSUME a \in Wide, InReg(n, a) PROVE PairExpected(n.addr[a], n.res, a)
    <2>1. a \in Vars /\ n.addr[a] = m.addr[a] /\ n.addr[a] = p.addr[a] /\ InReg(m, a) /\ InReg(p, a)
      <3>1. a \in Vars /\ a # Const /\ n.addr[a].r1 # None BY <1>12, CGenRegsAssumption DEF InReg, addr_reg1
      <3>2. n.addr[a] \in {m.addr[a], NoReg} /\ n.addr[a] \in {p.addr[a], NoReg} BY <1>3, <1>9, <3>1, AfterIs
      <3>3. n.addr[a] = m.addr[a] /\ n.addr[a] = p.addr[a] BY <3>1, <3>2 DEF NoReg, Pair
      <3> QED BY <3>1, <3>3 DEF InReg, addr_reg1
    <2>2. n.addr[a].r2 # None /\ n.reg[n.addr[a].r1] = a /\ n.reg[n.addr[a].r2] = a /\ a # NoVar
      BY <1>8, <1>12, RegOf, CGenRegsAssumption
    <2>3. CASE own
      <3>1. n.addr[a].r1 = n.res.r1 /\ n.addr[a].r2 = n.res.r2
        <4>1. k.res.r1 = addr_reg1(p, a) BY <1>4, <2>3
        <4>2. h.res.r1 = k.res.r1 /\ h.res.r2 = addr_reg2(p, a) BY <1>5, <2>3
        <4>3. n.res.r1 = addr_reg1(p, a) /\ n.res.r2 = addr_reg2(p, a) BY <1>7, <4>1, <4>2
        <4>. QED  BY <2>1, <4>3 DEF addr_reg1, addr_reg2
      <3> QED BY <2>2, <3>1 DEF PairExpected
    <2>4. CASE ~own
      <3>1. addr_reg2(p, a) # None BY <1>3, <1>12, <2>1, RegOf
      <3>2. a # Const BY <2>1, CGenRegsAssumption
      <3>3. live BY <1>21, <2>4, <3>1, <3>2
      <3>4. n.reg[n.res.r1] = NoVar /\ n.reg[n.res.r2] = NoVar BY <1>11, <3>3 DEF Ready2, Ready, Free
      <3>5. n.addr[a].r1 # n.res.r1 /\ n.addr[a].r2 # n.res.r2 BY <2>2, <3>4
      <3> QED BY <2>2, <3>5 DEF PairExpected
    <2> QED BY <2>3, <2>4
  <1> QED BY <1>2, <1>5, <1>6, <1>7, <1>9, <1>11, <1>12

LEMMA LoadedPair ==
  ASSUME NEW k \in States, NEW A \in SUBSET Vars, NEW r, r.r1 \in Regs, r.r2 \in Regs, NEW a,
         a \in A \cup {Const}, a \in Wide \cup {Const}, InReg(k, a) => PairExpected(k.addr[a], r, a)
  PROVE  RightIn2(Load2(k, r, a), r, a) \in Stored(k, A)
  <1>1. PICK l : l = Load2(k, r, a) OBVIOUS
  <1>2. l \in Stored(k, A) /\ l \in Gen BY <1>1, Load2Stored, StoredIs
  <1>3. RightIn2(l, r, a) \in Emitted(l) BY <1>2, EmittedSelf, RightEmits
  <1>4. RightIn2(l, r, a) \in Stored(k, A) BY <1>2, <1>3, StoredThen
  <1> QED BY <1>1, <1>4

-----------------------------------------------------------------------------
(* Longer chains: operands are fetched, others spilled                     *)

Still(m, A) == {n \in After(m, A) : n.pinned = m.pinned /\ n.res = m.res}

LEMMA StillIs ==
  ASSUME NEW m \in States, NEW A \in SUBSET Vars, NEW n \in Still(m, A)
  PROVE  /\ n \in States /\ n \in After(m, A) /\ n.pinned = m.pinned /\ n.res = m.res /\ n.fut = m.fut
         /\ n.args = m.args
  BY AfterIs DEF Still

LEMMA StillSelf == ASSUME NEW m \in States, NEW A \in SUBSET Vars PROVE m \in Still(m, A)
  BY AfterSelf DEF Still

LEMMA StillTrans ==
  ASSUME NEW m \in States, NEW A \in SUBSET Vars, NEW n \in Still(m, A), NEW q \in Still(n, A)
  PROVE  q \in Still(m, A)
  BY AfterTrans DEF Still

LEMMA EmittedStill ==
  ASSUME NEW m \in States, NEW A \in SUBSET Vars, NEW n \in Emitted(m) PROVE n \in Still(m, A) /\ n.got = m.got
  BY EmittedAfter DEF Still, Emitted

LEMMA StoredStill ==
  ASSUME NEW m \in States, NEW A \in SUBSET Vars, NEW n \in Stored(m, A) PROVE n \in Still(m, A) /\ n.got = m.got
  BY StoredIs DEF Still

LEMMA FewerStill ==
  ASSUME NEW m \in States, NEW A \in SUBSET Vars, NEW n \in Fewer(m) PROVE n \in Still(m, A)
  <1>1. {} \in SUBSET A OBVIOUS
  <1> QED BY <1>1, AfterMore DEF Still, Fewer

LEMMA StillThenEmitted ==
  ASSUME NEW m \in States, NEW A \in SUBSET Vars, NEW n \in Still(m, A), NEW q \in Emitted(n)
  PROVE  q \in Still(m, A)
  BY StillIs, EmittedStill, StillTrans

LEMMA StillThenStored ==
  ASSUME NEW m \in States, NEW A \in SUBSET Vars, NEW n \in Still(m, A), NEW q \in Stored(n, A)
  PROVE  q \in Still(m, A)
  BY StillIs, StoredStill, StillTrans

LEMMA StillThenFewer ==
  ASSUME NEW m \in States, NEW A \in SUBSET Vars, NEW n \in Still(m, A), NEW q \in Fewer(n)
  PROVE  q \in Still(m, A)
  BY StillIs, FewerStill, StillTrans

\* The operand is what a register, or the memory of its variable, holds.
LEMMA InHomeStored ==
  ASSUME NEW m \in States, NEW A \in SUBSET Vars, NEW a \in A, NEW w \in {1, 2}
  PROVE  InHome(WithHome(m, a), a, w) \in Stored(m, A)
  <1>1. PICK n : n = WithHome(m, a) OBVIOUS
  <1>2. n \in Stored(m, A) /\ Home(n, a) \in Locs BY <1>1, WithHomeStored
  <1>3. n \in States /\ n \in Gen BY <1>2, StoredIs
  <1>4. n \in Emitted(n) /\ n.M[Home(n, a)][w] \in Contents BY <1>2, <1>3, EmittedSelf, Contained
  <1>5. InHome(n, a, w) \in Emitted(n) BY <1>4, OperandEmits DEF InHome
  <1> QED BY <1>1, <1>2, <1>5, StoredThen

LEMMA InRegStored ==
  ASSUME NEW m \in States, NEW A \in SUBSET Vars, NEW r \in Regs PROVE Operand(m, m.R[r]) \in Stored(m, A)
  <1>1. m \in Emitted(m) /\ m.R[r] \in Contents BY EmittedSelf, Contained DEF States
  <1> QED BY <1>1, OperandEmits, EmittedStored

LEMMA ConstStored ==
  ASSUME NEW m \in States, NEW A \in SUBSET Vars, NEW w \in {1, 2}
  PROVE  Operand(m, {<<Const, w>>}) \in Stored(m, A)
  <1>1. m \in Emitted(m) /\ {<<Const, w>>} \in Contents BY EmittedSelf, TokensAre DEF States
  <1> QED BY <1>1, OperandEmits, EmittedStored

\* The operand is loaded to the register that get_reg0() has left in g.
LEMMA InGotStill ==
  ASSUME NEW m \in States, NEW A \in SUBSET Vars, NEW g \in Fewer(m), g.got \in Regs, NEW a \in A \cup {Const}
  PROVE  InGot(Load(g, g.got, a)) \in Still(m, A)
  <1>1. g \in States /\ g \in Still(m, A) BY FewerIs, FewerStill
  <1>2. PICK n : n = Load(g, g.got, a) OBVIOUS
  <1>3. n \in Stored(g, A) /\ n.got = g.got /\ n \in States BY <1>1, <1>2, LoadStored, StoredIs
  <1>4. InGot(n) \in Stored(n, A) BY <1>3, InRegStored DEF InGot
  <1>5. InGot(n) \in Stored(g, A) BY <1>1, <1>3, <1>4, StoredTrans
  <1> QED BY <1>1, <1>2, <1>5, StillThenStored

\* The states reached from m with the registers of pins pinned.
Reached(m, A, pins) == {n \in After(m, A) : n.pinned = pins}

LEMMA ReachedIs ==
  ASSUME NEW m \in States, NEW A \in SUBSET Vars, NEW pins, NEW n \in Reached(m, A, pins)
  PROVE  /\ n \in States /\ n \in Gen /\ n \in After(m, A) /\ n.pinned = pins /\ n.fut = m.fut /\ n.args = m.args
         /\ \A r \in Regs : n.reg[r] \in {m.reg[r], NoVar}
  BY AfterIs DEF Reached, States

LEMMA ReachedState ==
  ASSUME NEW m \in States, NEW A \in SUBSET Vars, NEW pins, NEW n \in Reached(m, A, pins)
  PROVE  n \in States /\ n.pinned = pins /\ n.fut = m.fut /\ n.args = m.args
  BY ReachedIs

LEMMA ReachedSelf ==
  ASSUME NEW m \in States, NEW A \in SUBSET Vars, NEW pins, m.pinned = pins PROVE m \in Reached(m, A, pins)
  BY AfterSelf DEF Reached

LEMMA ReachedTrans ==
  ASSUME NEW m \in States, NEW A \in SUBSET Vars, NEW pins, NEW n \in Reached(m, A, pins),
         NEW more, NEW q \in Reached(n, A, more)
  PROVE  q \in Reached(m, A, more)
  BY AfterTrans DEF Reached

LEMMA ReachedStill ==
  ASSUME NEW m \in States, NEW A \in SUBSET Vars, NEW pins, NEW n \in Reached(m, A, pins), NEW q \in Still(n, A)
  PROVE  q \in Reached(m, A, pins) /\ q.res = n.res
  BY AfterTrans DEF Reached, Still

LEMMA ReachedEmitted ==
  ASSUME NEW m \in States, NEW A \in SUBSET Vars, NEW pins, NEW n \in Reached(m, A, pins), NEW q \in Emitted(n)
  PROVE  q \in Reached(m, A, pins) /\ q.res = n.res /\ q.reg = n.reg
  <1>1. n \in States BY ReachedIs
  <1> QED BY <1>1, EmittedStill, ReachedStill DEF Emitted

LEMMA ReachedStored ==
  ASSUME NEW m \in States, NEW A \in SUBSET Vars, NEW pins, NEW n \in Reached(m, A, pins), NEW q \in Stored(n, A)
  PROVE  q \in Reached(m, A, pins) /\ q.res = n.res /\ q.reg = n.reg
  <1>1. n \in States BY ReachedIs
  <1> QED BY <1>1, StoredStill, ReachedStill, StoredIs

LEMMA ReachedFewer ==
  ASSUME NEW m \in States, NEW A \in SUBSET Vars, NEW pins, NEW n \in Reached(m, A, pins), NEW q \in Fewer(n)
  PROVE  q \in Reached(m, A, pins) /\ q.res = n.res
  <1>1. n \in States BY ReachedIs
  <1> QED BY <1>1, FewerStill, ReachedStill

LEMMA ReachedPin ==
  ASSUME NEW m \in States, NEW A \in SUBSET Vars, NEW pins, NEW n \in Reached(m, A, pins), NEW r \in Regs
  PROVE  /\ pin_reg(n, r) \in Reached(m, A, pins \cup {r}) /\ pin_reg(n, r).res = n.res
         /\ pin_reg(n, r).reg = n.reg /\ pin_reg(n, r).got = n.got
  <1>1. n \in States /\ n.pinned = pins BY ReachedIs
  <1>2. pin_reg(n, r) \in Picked(n) /\ pin_reg(n, r).pinned = pins \cup {r} /\ pin_reg(n, r).res = n.res
        /\ pin_reg(n, r).got = n.got
    BY <1>1, PinPicks
  <1>3. pin_reg(n, r) \in After(n, A) /\ pin_reg(n, r).reg = n.reg BY <1>1, <1>2, PickedAfter
  <1> QED BY <1>2, <1>3, AfterTrans DEF Reached

LEMMA ReachedUnpin ==
  ASSUME NEW m \in States, NEW A \in SUBSET Vars, NEW pins, NEW n \in Reached(m, A, pins), NEW r
  PROVE  /\ unpin_reg(n, r) \in Reached(m, A, pins \ {r}) /\ unpin_reg(n, r).res = n.res
         /\ unpin_reg(n, r).reg = n.reg /\ unpin_reg(n, r).got = n.got
  <1>1. n \in States /\ n.pinned = pins BY ReachedIs
  <1>2. unpin_reg(n, r) \in Picked(n) /\ unpin_reg(n, r).pinned = pins \ {r} /\ unpin_reg(n, r).res = n.res
        /\ unpin_reg(n, r).got = n.got
    BY <1>1, UnpinPicks
  <1>3. unpin_reg(n, r) \in After(n, A) /\ unpin_reg(n, r).reg = n.reg BY <1>1, <1>2, PickedAfter
  <1> QED BY <1>2, <1>3, AfterTrans DEF Reached

LEMMA ReachedInto ==
  ASSUME NEW m \in States, NEW A \in SUBSET Vars, NEW pins, NEW n \in Reached(m, A, pins),
         NEW r1 \in Regs, NEW r2 \in Regs \cup {None}
  PROVE  /\ Into(n, r1, r2) \in Reached(m, A, pins) /\ Into(n, r1, r2).res.r1 = r1 /\ Into(n, r1, r2).res.r2 = r2
         /\ Into(n, r1, r2).reg = n.reg
  <1>1. n \in States /\ n.pinned = pins BY ReachedIs
  <1>2. Into(n, r1, r2) \in Picked(n) /\ Into(n, r1, r2).pinned = pins
        /\ Into(n, r1, r2).res.r1 = r1 /\ Into(n, r1, r2).res.r2 = r2
    BY <1>1, IntoPicks
  <1>3. Into(n, r1, r2) \in After(n, A) /\ Into(n, r1, r2).reg = n.reg BY <1>1, <1>2, PickedAfter
  <1> QED BY <1>2, <1>3, AfterTrans DEF Reached

LEMMA GoingReached ==
  ASSUME NEW m, NEW tar, NEW args, NEW pins, Going(m, tar, args, pins),
         NEW A \in SUBSET Vars, A \subseteq args, NEW to, NEW n \in Reached(m, A, to), NEW more, args \subseteq more
  PROVE  Going(n, tar, more, to)
  <1>1. m \in States BY GoingIs
  <1>2. n \in After(m, A) /\ n.pinned = to BY <1>1, ReachedIs
  <1> QED BY <1>2, GoingOn

\* The variables among the operands.
Named(a1, a2) == {a1, a2} \cap Vars

LEMMA NamedIs ==
  ASSUME NEW a1, NEW a2
  PROVE  /\ Named(a1, a2) \in SUBSET Vars /\ Named(a1, a2) \subseteq {a1, a2}
         /\ a1 \in Vars \cup {Const} => a1 \in Named(a1, a2) \cup {Const}
         /\ a2 \in Vars \cup {Const} => a2 \in Named(a1, a2) \cup {Const}
  BY DEF Named

LEMMA ClobberStill ==
  ASSUME NEW m \in States, NEW A \in SUBSET Vars, NEW n \in Still(m, A), NEW S \in SUBSET Int
  PROVE  Clobber(n, S) \in Still(m, A)
  <1>1. n \in Gen BY StillIs DEF States
  <1>2. Clobber(n, S) \in Emitted(n) BY <1>1, EmittedSelf, ClobberEmits
  <1> QED BY <1>2, StillThenEmitted

LEMMA RightInStill ==
  ASSUME NEW m \in States, NEW A \in SUBSET Vars, NEW n \in Still(m, A), NEW r, NEW a, NEW w
  PROVE  RightIn(n, r, a, w) \in Still(m, A)
  <1>1. n \in Gen BY StillIs DEF States
  <1>2. RightIn(n, r, a, w) \in Emitted(n) BY <1>1, EmittedSelf, RightEmits
  <1> QED BY <1>2, StillThenEmitted

-----------------------------------------------------------------------------
(* Registers that the code may change                                      *)

\* The registers that carry the first words of the arguments, from FirstArgReg on, and the
\* callee-save registers that are not changed unless modified[] says so.
ArgRegs == [x86 |-> {}, x64 |-> {}, arm |-> 0 .. 3, mips |-> 4 .. 7]
FirstArgReg == [x86 |-> 0, x64 |-> 0, arm |-> 0, mips |-> 4]
Watched == [x86 |-> CalleeSave["x86"], x64 |-> CalleeSave["x64"], arm |-> {}, mips |-> {}]

\* The code of an instruction may change register r.
Noted(m, r) == r \in Watched[target] => r \in m.modified
Ours(m, r) == r \notin ArgRegs[target] /\ Noted(m, r)

\* The fields of the generator's state.
Form(m) ==
  /\ DOMAIN m = {"reg", "addr", "pinned", "modified", "temps", "args", "passed", "fut", "R", "M",
                 "written", "faults", "got", "res", "opd"}
  /\ DOMAIN m.reg = Regs /\ DOMAIN m.addr = Vars /\ DOMAIN m.R = Regs /\ DOMAIN m.res = {"r1", "r2"}
  /\ \A v \in Vars : DOMAIN m.addr[v] = {"r1", "r2"}

\* Word k of the arguments is in its register.
Intact(m, k) ==
  /\ k < m.args /\ FirstArgReg[target] + k \in ArgRegs[target] \cap Regs
  /\ <<Arg, k>> \in m.R[FirstArgReg[target] + k]

\* The registers of X apart, the code emitted so far keeps the arguments, and it changes
\* and gives to variables only registers that it may change; since state o no argument has
\* been passed.
Tidy(m, X, o) ==
  /\ Form(m) /\ "argument" \notin m.faults /\ None \notin ArgRegs[target] \cup Watched[target]
  /\ m.args = o.args /\ m.passed = o.passed /\ o.modified \subseteq m.modified
  /\ \A k \in m.passed : FirstArgReg[target] + k \in X \/ Intact(m, k)
  /\ \A r \in m.written : r \in X \/ Noted(m, r)
  /\ \A r \in Regs : m.reg[r] # NoVar => Ours(m, r)
  /\ \A v \in Vars : Ours(m, m.addr[v].r1) /\ Ours(m, m.addr[v].r2)
  /\ Ours(m, m.got) /\ Ours(m, m.res.r1) /\ Ours(m, m.res.r2)

LEMMA SetRegTidy ==
  ASSUME NEW m, NEW X, NEW o, Tidy(m, X, o), NEW r, r \in X \/ Ours(m, r), NEW Y
  PROVE  Tidy(SetReg(m, r, Y), X, o)
  BY DEF Tidy, SetReg, Form, Intact, Ours, Noted

LEMMA ClobberTidy ==
  ASSUME NEW m, NEW X, NEW o, Tidy(m, X, o), NEW S, \A r \in S : r \in X \/ Ours(m, r)
  PROVE  Tidy(Clobber(m, S), X, o)
  BY DEF Tidy, Clobber, Form, Intact, Ours, Noted

LEMMA FaultTidy ==
  ASSUME NEW m, NEW X, NEW o, Tidy(m, X, o), NEW kind, kind # "argument", NEW ok
  PROVE  Tidy(Fault(m, kind, ok), X, o)
  BY DEF Tidy, Fault, Form, Intact, Ours, Noted

LEMMA ReleaseTidy ==
  ASSUME NEW m, NEW X, NEW o, Tidy(m, X, o), NEW a, NEW d PROVE Tidy(Release(m, a, d), X, o)
  BY DEF Tidy, Release, Form, Intact, Ours, Noted, NoReg

LEMMA BindTidy ==
  ASSUME NEW m, NEW X, NEW o, Tidy(m, X, o), NEW tar, NEW r, Ours(m, r) PROVE Tidy(Bind(m, r, tar), X, o)
  BY DEF Tidy, Bind, Form, Intact, Ours, Noted

LEMMA Bind2Tidy ==
  ASSUME NEW m, NEW X, NEW o, Tidy(m, X, o), NEW tar, NEW d, DOMAIN d = {"r1", "r2"}, Ours(m, d.r1), Ours(m, d.r2)
  PROVE  Tidy(Bind2(m, d, tar), X, o)
  BY DEF Tidy, Bind2, Form, Intact, Ours, Noted

LEMMA UnbindTidy ==
  ASSUME NEW m, NEW X, NEW o, Tidy(m, X, o), NEW tar, NEW r PROVE Tidy(Unbind(m, r, tar), X, o)
  BY DEF Tidy, Unbind, Form, Intact, Ours, Noted

LEMMA GotTidy ==
  ASSUME NEW m, NEW X, NEW o, Tidy(m, X, o)
  PROVE  Tidy(Got1(m), X, o) /\ Tidy(Got2(m), X, o)
  BY DEF Tidy, Got1, Got2, Form, Intact, Ours, Noted

LEMMA ResTidy ==
  ASSUME NEW m, NEW X, NEW o, Tidy(m, X, o)
  PROVE  /\ \A r : Ours(m, r) => Tidy([m EXCEPT !.res.r1 = r], X, o) /\ Tidy([m EXCEPT !.res.r2 = r], X, o)
         /\ \A r : Ours(m, r) => Tidy([m EXCEPT !.got = r], X, o)
         /\ \A d : DOMAIN d = {"r1", "r2"} /\ Ours(m, d.r1) /\ Ours(m, d.r2) => Tidy([m EXCEPT !.res = d], X, o)
         /\ \A r, s : Ours(m, r) /\ Ours(m, s) => Tidy(Into(m, r, s), X, o)
         /\ \A r : Ours(m, r) => Tidy(Into(m, r, None), X, o)
  BY DEF Tidy, Into, Pair, Form, Intact, Ours, Noted

LEMMA PinTidy ==
  ASSUME NEW m, NEW X, NEW o, Tidy(m, X, o), NEW r
  PROVE  Tidy(pin_reg(m, r), X, o) /\ Tidy(unpin_reg(m, r), X, o) /\ Tidy(PinRes(m), X, o) /\ Tidy(UnpinRes(m), X, o)
  BY DEF Tidy, pin_reg, unpin_reg, PinRes, UnpinRes, Form, Intact, Ours, Noted

LEMMA ModifiedTidy ==
  ASSUME NEW m, NEW X, NEW o, Tidy(m, X, o), NEW S PROVE Tidy([m EXCEPT !.modified = @ \cup S], X, o)
  BY DEF Tidy, Form, Intact, Ours, Noted

LEMMA MemoryTidy ==
  ASSUME NEW m, NEW X, NEW o, Tidy(m, X, o), NEW Y
  PROVE  Tidy([m EXCEPT !.M = Y], X, o) /\ Tidy([m EXCEPT !.opd = Y], X, o) /\ Tidy([m EXCEPT !.temps = Y], X, o)
  BY DEF Tidy, Form, Intact, Ours, Noted

LEMMA OwnTidy ==
  ASSUME NEW m, NEW X, NEW o, Tidy(m, X, o)
  PROVE  /\ Ours(m, None) /\ Ours(m, m.res.r1) /\ Ours(m, m.res.r2) /\ Ours(m, m.got)
         /\ DOMAIN m.res = {"r1", "r2"}
         /\ \A v \in Vars : /\ Ours(m, addr_reg1(m, v)) /\ Ours(m, addr_reg2(m, v)) /\ DOMAIN m.addr[v] = {"r1", "r2"}
                            /\ Ours(m, m.addr[v].r1) /\ Ours(m, m.addr[v].r2)
         /\ \A r \in Regs : m.reg[r] # NoVar => Ours(m, r)
  BY DEF Tidy, Ours, Noted, addr_reg1, addr_reg2, Form

LEMMA TidySelf == ASSUME NEW m, NEW X, NEW o, Tidy(m, X, o), NEW Y, X \subseteq Y PROVE Tidy(m, X, m) /\ Tidy(m, Y, o)
  BY DEF Tidy

LEMMA TidyTrans == ASSUME NEW m, NEW X, NEW o, Tidy(m, X, o), NEW n, NEW Y, Tidy(n, Y, m) PROVE Tidy(n, Y, o)
  BY DEF Tidy

-----------------------------------------------------------------------------
(* What the code generators have in common keeps them                      *)

LEMMA MoveTidy ==
  ASSUME NEW m, NEW X, NEW o, Tidy(m, X, o), NEW r, r \in X \/ Ours(m, r), NEW from PROVE Tidy(Move(m, r, from), X, o)
  BY SetRegTidy DEF Move

LEMMA RightTidy ==
  ASSUME NEW m, NEW X, NEW o, Tidy(m, X, o), NEW r, NEW a, NEW w
  PROVE  /\ Tidy(RightIn(m, r, a, w), X, o) /\ Tidy(RightIn2(m, r, a), X, o)
         /\ Tidy(RightOpd(m, a, w), X, o) /\ Tidy(RightRes(m, a), X, o)
  BY FaultTidy DEF RightIn, RightIn2, RightOpd, RightRes, Reads

LEMMA WithHomeTidy == ASSUME NEW m, NEW X, NEW o, Tidy(m, X, o), NEW a PROVE Tidy(WithHome(m, a), X, o)
  <1>1. \A i : Tidy([m EXCEPT !.temps[i] = a], X, o) BY DEF Tidy, Form, Intact, Ours, Noted
  <1>2. Tidy([m EXCEPT !.temps = Append(@, a)], X, o) BY MemoryTidy
  <1> QED BY <1>1, <1>2 DEF WithHome, get_temp_offs

LEMMA FreeTempTidy == ASSUME NEW m, NEW X, NEW o, Tidy(m, X, o), NEW a PROVE Tidy(free_temp(m, a), X, o)
  BY DEF free_temp, Tidy, Form, Intact, Ours, Noted

LEMMA WithHomeOurs == ASSUME NEW m, NEW a, NEW r PROVE Ours(WithHome(m, a), r) <=> Ours(m, r)
  BY DEF WithHome, get_temp_offs, Ours, Noted

LEMMA SetRegOurs ==
  ASSUME NEW m, NEW X, NEW o, Tidy(m, X, o), NEW r, NEW Y, NEW s PROVE Ours(SetReg(m, r, Y), s) <=> Ours(m, s)
  BY DEF SetReg, Ours, Noted, Tidy, Form

LEMMA FromHomeTidy ==
  ASSUME NEW m, NEW X, NEW o, Tidy(m, X, o), NEW r, r \in X \/ Ours(m, r), NEW a, NEW w PROVE Tidy(FromHome(m, r, a, w), X, o)
  BY SetRegTidy DEF FromHome

LEMMA ToHomeTidy ==
  ASSUME NEW m, NEW X, NEW o, Tidy(m, X, o), NEW r, NEW a, NEW w PROVE Tidy(ToHome(m, r, a, w), X, o)
  BY DEF Tidy, ToHome, Form, Intact, Ours, Noted

LEMMA LoadTidy ==
  ASSUME NEW m, NEW X, NEW o, Tidy(m, X, o), NEW r, r \in X \/ Ours(m, r), NEW a PROVE Tidy(Load(m, r, a), X, o)
  BY SetRegTidy, MoveTidy, FromHomeTidy, WithHomeTidy, WithHomeOurs DEF Load

LEMMA Load2Tidy ==
  ASSUME NEW m, NEW X, NEW o, Tidy(m, X, o), NEW r, r.r1 \in X \/ Ours(m, r.r1), r.r2 \in X \/ Ours(m, r.r2), NEW a
  PROVE  Tidy(Load2(m, r, a), X, o)
  <1>1. \A n, Y : Tidy(n, X, o) => (Ours(SetReg(n, r.r1, Y), r.r2) <=> Ours(n, r.r2)) BY SetRegOurs
  <1>2. CASE a = Const BY <1>1, <1>2, SetRegTidy DEF Load2
  <1>3. CASE a # Const /\ InReg(m, a) BY <1>1, <1>3, SetRegTidy, FaultTidy, MoveTidy DEF Load2, Move
  <1>4. CASE a # Const /\ ~InReg(m, a)
    <2>1. Tidy(WithHome(m, a), X, o) BY WithHomeTidy
    <2>2. Tidy(FromHome(WithHome(m, a), r.r1, a, 1), X, o) BY <2>1, FromHomeTidy, WithHomeOurs
    <2>3. Ours(m, r.r2) => Ours(FromHome(WithHome(m, a), r.r1, a, 1), r.r2) BY <1>1, <2>1, WithHomeOurs DEF FromHome
    <2> QED BY <1>4, <2>2, <2>3, FromHomeTidy DEF Load2
  <1> QED BY <1>2, <1>3, <1>4

LEMMA StoreTidy ==
  ASSUME NEW m, NEW X, NEW o, Tidy(m, X, o), NEW r, NEW a
  PROVE  Tidy(ToHome(WithHome(m, a), r, a, 1), X, o) /\ Tidy(Store2(m, r, a), X, o)
  BY WithHomeTidy, ToHomeTidy DEF Store2

LEMMA OperandTidy ==
  ASSUME NEW m, NEW X, NEW o, Tidy(m, X, o), NEW Y, NEW a, NEW w
  PROVE  Tidy(Operand(m, Y), X, o) /\ Tidy(InGot(m), X, o) /\ Tidy(InHome(WithHome(m, a), a, w), X, o)
  BY MemoryTidy, WithHomeTidy DEF Operand, InGot, InHome

LEMMA ForgetTidy == ASSUME NEW m, NEW X, NEW o, Tidy(m, X, o), NEW tar \in Vars PROVE Tidy(Forget(m, {tar}), X, o)
  <1>1. Arg # tar BY CGenRegsAssumption
  <1> QED BY <1>1 DEF Tidy, Forget, Other, Form, Intact, Ours, Noted

LEMMA ForgetAllTidy == ASSUME NEW m, NEW X, NEW o, Tidy(m, X, o), NEW S \in SUBSET Vars PROVE Tidy(Forget(m, S), X, o)
  <1>1. Arg \notin S BY CGenRegsAssumption
  <1> QED BY <1>1 DEF Tidy, Forget, Other, Form, Intact, Ours, Noted

LEMMA CopiesTidy ==
  ASSUME NEW m, NEW X, NEW o, Tidy(m, X, o), NEW tar \in Vars, NEW src PROVE Tidy(Copies(m, tar, src), X, o)
  <1>1. Arg # tar BY CGenRegsAssumption
  <1> QED BY <1>1 DEF Tidy, Copies, CopyIn, Other, Form, Intact, Ours, Noted

LEMMA ForgetOurs == ASSUME NEW m, NEW S, NEW r PROVE (Ours(Forget(m, S), r) <=> Ours(m, r)) /\ Forget(m, S).res = m.res
  BY DEF Forget, Ours, Noted

LEMMA ComputesTidy ==
  ASSUME NEW m, NEW X, NEW o, Tidy(m, X, o), NEW tar \in Vars
  PROVE  Tidy(Computes(m, tar), X, o) /\ Tidy(Computes2(m, tar), X, o)
  <1>1. Tidy(Computes(m, tar), X, o) BY ForgetTidy, ForgetOurs, SetRegTidy, OwnTidy DEF Computes
  <1>2. Computes(m, tar).res = m.res /\ Ours(Computes(m, tar), m.res.r2) BY <1>1, OwnTidy DEF Computes, SetReg, Forget, Tidy, Form
  <1> QED BY <1>1, <1>2, SetRegTidy DEF Computes2

LEMMA ComputesAtTidy ==
  ASSUME NEW m, NEW X, NEW o, Tidy(m, X, o), NEW tar \in Vars, NEW L PROVE Tidy(ComputesAt(m, tar, L), X, o)
  <1>1. Tidy(SetReg(Forget(m, {tar}), m.res.r1, {<<L, 0>>}), X, o) BY ForgetTidy, ForgetOurs, SetRegTidy, OwnTidy
  <1> QED BY <1>1 DEF ComputesAt, Tidy, Form, Intact, Ours, Noted

LEMMA ReadsMemoryTidy == ASSUME NEW m, NEW X, NEW o, Tidy(m, X, o), NEW S PROVE Tidy(ReadsMemory(m, S), X, o)
  BY FaultTidy DEF ReadsMemory

LEMMA WritesMemoryTidy ==
  ASSUME NEW m, NEW X, NEW o, Tidy(m, X, o), NEW S \in SUBSET Vars PROVE Tidy(WritesMemory(m, S), X, o)
  <1>1. Tidy(Forget(m, S), X, o) BY ForgetAllTidy
  <1> QED BY <1>1 DEF WritesMemory, Tidy, Form, Intact, Ours, Noted

LEMMA WritesMemoryOurs == ASSUME NEW m, NEW S, NEW r PROVE Ours(WritesMemory(ReadsMemory(m, S), S), r) <=> Ours(m, r)
  BY DEF WritesMemory, ReadsMemory, Forget, Fault, Ours, Noted

LEMMA CalledTidy ==
  ASSUME NEW m, NEW X, NEW o, Tidy(m, X, o), NEW S, \A r \in S : r \in X \/ Ours(m, r) PROVE Tidy(Called(m, S), X, o)
  <1>1. Pointed \cup Statics \subseteq Vars BY CGenRegsAssumption, CGenAssumption DEF Ids
  <1>2. Tidy(WritesMemory(ReadsMemory(m, Pointed \cup Statics), Pointed \cup Statics), X, o)
    BY <1>1, ReadsMemoryTidy, WritesMemoryTidy
  <1> QED BY <1>2, WritesMemoryOurs, ClobberTidy DEF Called

\* The words of an argument are in their registers, and the next one is number a.
LEMMA PassedTidy ==
  ASSUME NEW m, NEW X, NEW o, Tidy(m, X, o), NEW ks, NEW a, Watched[target] = {},
         \A k \in m.passed \cup ks : k < a /\ FirstArgReg[target] + k \in ArgRegs[target] \cap Regs,
         \A k \in m.passed \cup ks : k \in ks \/ FirstArgReg[target] + k \notin X,
         \A k \in ks : <<Arg, k>> \in m.R[FirstArgReg[target] + k],
         NEW n, n = [m EXCEPT !.passed = @ \cup ks, !.args = a]
  PROVE  Tidy(n, {}, n)
  BY DEF Tidy, Form, Intact, Ours, Noted

\* The callee finds its arguments.
LEMMA FoundTidy ==
  ASSUME NEW m, NEW o, Tidy(m, {}, o), NEW n, n = FindsArguments(m, FirstArgReg[target])
  PROVE  Tidy(n, {}, n) /\ n.passed = {}
  BY DEF Tidy, FindsArguments, Fault, Form, Intact, Ours, Noted

\* What a call leaves in the registers of arguments that are in use is replaced by what
\* they held before it.
LEMMA RestoredTidy ==
  ASSUME NEW o, Tidy(o, {}, o), NEW m, NEW X, Tidy(m, X, o), Watched[target] = {}, NEW S,
         \A k \in o.passed : FirstArgReg[target] + k \in S,
         NEW n, n = [m EXCEPT !.R = [r \in Regs |-> IF r \in S THEN o.R[r] ELSE @[r]]]
  PROVE  Tidy(n, {}, o)
  BY DEF Tidy, Form, Intact, Ours, Noted

\* Where no argument is passed in registers their number may change.
LEMMA PushedTidy ==
  ASSUME NEW m, NEW o, Tidy(m, {}, o), ArgRegs[target] = {} \/ m.passed = {}, NEW k, NEW n, n = [m EXCEPT !.args = k]
  PROVE  Tidy(n, {}, n)
  BY DEF Tidy, Form, Intact, Ours, Noted

\* A loop whose steps keep the registers tidy.
LEMMA LoopTidy ==
  ASSUME NEW X, NEW o, NEW N \in Nat, NEW f, Tidy(f[-1], X, o),
         \A r \in 0 .. N : Tidy(f[r - 1], X, o) => Tidy(f[r], X, o)
  PROVE  Tidy(f[N], X, o)
  <1> DEFINE Bad == {r \in Nat : r <= N /\ ~Tidy(f[r], X, o)}
  <1>1. Bad = {}
    <2> SUFFICES ASSUME Bad # {} PROVE FALSE OBVIOUS
    <2>1. PICK k \in Bad : \A j \in Bad : k <= j BY LeastNat
    <2>2. k \in 0 .. N /\ ~Tidy(f[k], X, o) BY <2>1
    <2>3. ~Tidy(f[k - 1], X, o) BY <2>2
    <2>4. k # 0
      <3>1. k = 0 => k - 1 = -1 OBVIOUS
      <3> QED BY <2>3, <3>1
    <2>5. k - 1 \in Bad /\ k - 1 < k BY <2>2, <2>3, <2>4
    <2> QED BY <2>1, <2>2, <2>5
  <1> QED BY <1>1

-----------------------------------------------------------------------------
(* Between instructions                                                    *)

\* The registers are tidy, and what the callee keeps is recorded.
SInv == written \subseteq CalleeSave[target] /\ Tidy(cg, {}, cg)

LEMMA BeginTidy ==
  ASSUME SInv, NEW tar, NEW args, NEW implicit, NEW m \in Marks(tar, args, implicit) PROVE Tidy(m, {}, m)
  <1>1. PICK f : m = [cg EXCEPT !.fut = f] BY DEF Marks
  <1> QED BY <1>1 DEF SInv, Tidy, Form, Intact, Ours, Noted

LEMMA FinishTidy == ASSUME NEW n, NEW o, Tidy(n, {}, o), Commit(n) PROVE SInv'
  <1>1. /\ target' = target /\ written' \subseteq CalleeSave[target] /\ written' \subseteq n.written
        /\ reg_descr_tab' = n.reg /\ addr_descr_tab' = n.addr /\ modified' = n.modified
        /\ arg_words' = n.args /\ passed' = n.passed /\ faults' = n.faults
        /\ R' = [r \in Regs |->
               IF n.reg[r] = NoVar THEN n.R[r] \cap ({Arg} \X n.passed)
               ELSE n.R[r] \cap (({n.reg[r]} \X {1, 2}) \cup Addresses(n.reg[r]))]
    BY DEF Commit
  <1>2. cg'.written = written' /\ cg'.reg = n.reg /\ cg'.addr = n.addr /\ cg'.modified = n.modified
    BY <1>1 DEF cg
  <1>3. cg'.args = n.args /\ cg'.passed = n.passed /\ cg'.faults = n.faults /\ cg'.R = R'
        /\ cg'.got = None /\ cg'.res = NoReg
    BY <1>1 DEF cg
  <1>4. DOMAIN cg' = {"reg", "addr", "pinned", "modified", "temps", "args", "passed", "fut", "R", "M",
                 "written", "faults", "got", "res", "opd"}
    BY DEF cg
  <1>5. \A k \in n.passed : Intact(cg, k)'
    <2> TAKE k \in n.passed
    <2>1. Intact(n, k) BY DEF Tidy
    <2>2. n.reg[FirstArgReg[target] + k] = NoVar BY <2>1 DEF Intact, Tidy, Ours
    <2>3. <<Arg, k>> \in R'[FirstArgReg[target] + k] BY <1>1, <2>1, <2>2 DEF Intact
    <2> QED BY <1>1, <1>3, <2>1, <2>3 DEF Intact
  <1>6. \A r : Ours(n, r) => Ours(cg, r)' BY <1>1, <1>2 DEF Ours, Noted
  <1>7. \A r \in written' : Noted(cg, r)' BY <1>1, <1>2 DEF Tidy, Noted
  <1>8. Form(cg)' BY <1>1, <1>2, <1>3, <1>4 DEF Form, Tidy, NoReg
  <1>9. Ours(n, None) BY OwnTidy
  <1> QED BY <1>1, <1>2, <1>3, <1>5, <1>6, <1>7, <1>8, <1>9 DEF SInv, Tidy, NoReg

LEMMA EntryTidy == ASSUME NEW n, NEW o, Tidy(n, {}, o), NEW dom, Entry(n, dom) PROVE SInv'
  <1>1. PICK f : Commit([n EXCEPT !.fut = f,
                          !.M = [L \in Locs |-> [w \in {1, 2} |->
                                 n.M[L][w] \cup (IF L \in Ids THEN {<<L, w>>} ELSE {})]]]) BY DEF Entry
  <1>2. \A Y : Tidy([n EXCEPT !.fut = f, !.M = Y], {}, o) BY DEF Tidy, Form, Intact, Ours, Noted
  <1> QED BY <1>1, <1>2, FinishTidy

LEMMA NewFunctionTidy == ASSUME SInv, NewFunction PROVE SInv'
  <1>1. PICK n : n = [cg EXCEPT !.reg = [r \in Regs |-> NoVar], !.addr = [v \in Vars |-> NoReg],
                   !.pinned = {}, !.modified = {}, !.temps = <<>>, !.written = {}] OBVIOUS
  <1>2. Entry(n, {}) BY <1>1 DEF NewFunction
  <1>3. PICK m : m = cg /\ Tidy(m, {}, m) /\ m.got = None /\ m.res = NoReg BY DEF SInv, cg
  <1>4. Tidy(n, {}, n) BY <1>1, <1>3 DEF Tidy, Form, Intact, Ours, Noted, NoReg
  <1> QED BY <1>2, <1>4, EntryTidy

LEMMA StartsTidy == ASSUME Init PROVE SInv
  <1>1. target \in {"x86", "x64", "arm", "mips"} BY CGenAssumption DEF Init
  <1>2. None \notin ArgRegs[target] \cup Watched[target] BY <1>1 DEF ArgRegs, Watched, CalleeSave, None
  <1>3. Form(cg) BY DEF Init, cg, Form, NoReg
  <1>4. /\ cg.reg = [r \in Regs |-> NoVar] /\ cg.addr = [v \in Vars |-> NoReg] /\ cg.passed = {} /\ cg.written = {}
        /\ cg.faults = {} /\ cg.got = None /\ cg.res = NoReg
    BY DEF Init, cg
  <1> QED BY <1>2, <1>3, <1>4 DEF SInv, Init, Tidy, Ours, Noted, NoReg

-----------------------------------------------------------------------------
(* The values                                                              *)

\* All variables are words, and pointers reach those whose address has been taken.
Plain == Wide = {} /\ Structs = {} /\ Pointed \subseteq AddrTaken

\* The value of v is where the descriptors and the slots say.
InMemory(m, v) == (v \in Temps => HasSlot(m, v)) /\ <<v, 1>> \in m.M[Home(m, v)][1]
Present(m, v) == IF InReg(m, v) THEN <<v, 1>> \in m.R[addr_reg1(m, v)] ELSE InMemory(m, v)

\* Every operand so far was right, and the values of the variables in S are in place.
Sound(S) == {m \in States : "operand" \notin m.faults /\ \A v \in S : Present(m, v)}

\* Register r holds the operand a.
Has(m, r, a) == <<a, 1>> \in m.R[r]

LEMMA SoundIs ==
  ASSUME NEW S, NEW m \in Sound(S)
  PROVE  m \in States /\ m \in Gen /\ "operand" \notin m.faults /\ \A v \in S : Present(m, v)
  BY DEF Sound, States

LEMMA SoundLess == ASSUME NEW S, NEW m \in Sound(S), NEW T, T \subseteq S PROVE m \in Sound(T)
  BY DEF Sound

LEMMA VarsAre == NoVar \notin Vars /\ Const \notin Vars /\ Far \notin Vars /\ Temps \subseteq Vars /\ Ids \subseteq Vars
                 /\ Far \in Locs /\ Area \in Locs
  BY CGenRegsAssumption DEF Ids, Locs

LEMMA HomesApart ==
  ASSUME NEW m \in States, NEW a \in Vars, NEW v \in Vars, a # v, a \in Temps => HasSlot(m, a), v \in Temps => HasSlot(m, v)
  PROVE  Home(m, a) # Home(m, v)
  <1>1. a \in Temps => Home(m, a) \in DOMAIN m.temps /\ m.temps[Home(m, a)] = a BY SlotIs DEF Home
  <1>2. v \in Temps => Home(m, v) \in DOMAIN m.temps /\ m.temps[Home(m, v)] = v BY SlotIs DEF Home
  <1>3. a \notin Temps => Home(m, a) = a BY DEF Home
  <1>4. v \notin Temps => Home(m, v) = v BY DEF Home
  <1>5. DOMAIN m.temps \subseteq Slots
    <2>1. m.temps \in Seq(Temps \cup {NoVar}) /\ Len(m.temps) <= Cardinality(Temps) BY DEF States, Gen, OneSlot
    <2> QED BY <2>1, TempsFinite DEF Slots
  <1> QED BY <1>1, <1>2, <1>3, <1>4, <1>5, PlacesAssumption

LEMMA HomeIs ==
  ASSUME NEW m \in States, NEW v \in Vars, v \in Temps => HasSlot(m, v)
  PROVE  Home(m, v) \in Locs /\ Home(m, v) # Far /\ (Home(m, v) \in Vars => Home(m, v) = v /\ v \in Ids)
  <1>1. CASE v \in Temps
    <2>1. Home(m, v) \in DOMAIN m.temps /\ Home(m, v) \in Locs BY <1>1, SlotIs DEF Home
    <2>2. DOMAIN m.temps \subseteq Slots
      <3>1. m.temps \in Seq(Temps \cup {NoVar}) /\ Len(m.temps) <= Cardinality(Temps) BY DEF States, Gen, OneSlot
      <3> QED BY <3>1, TempsFinite DEF Slots
    <2> QED BY <2>1, <2>2, PlacesAssumption
  <1>2. CASE v \notin Temps BY <1>2, VarsAre DEF Home, Ids, Locs
  <1> QED BY <1>1, <1>2

\* A slot stays the variable's as long as the list names it there.
LEMMA SlotStays ==
  ASSUME NEW m \in States, NEW v \in Temps, NEW k \in DOMAIN m.temps, m.temps[k] = v
  PROVE  HasSlot(m, v) /\ SlotOf(m, v) = k /\ Home(m, v) = k
  <1>1. HasSlot(m, v) BY DEF HasSlot
  <1>2. SlotOf(m, v) \in DOMAIN m.temps /\ m.temps[SlotOf(m, v)] = v BY <1>1, SlotIs
  <1>3. OneSlot(m.temps) /\ v # NoVar BY VarsAre DEF States
  <1> QED BY <1>1, <1>2, <1>3 DEF OneSlot, Home

\* Nothing that Present looks at has changed.
LEMMA PresentSame ==
  ASSUME NEW m, NEW n, n.addr = m.addr, n.temps = m.temps, n.R = m.R, n.M = m.M, NEW v, Present(m, v)
  PROVE  Present(n, v)
  BY DEF Present, InReg, addr_reg1, InMemory, HasSlot, Home, SlotOf

LEMMA SoundPicked ==
  ASSUME NEW S, NEW m \in Sound(S), NEW n \in Picked(m) PROVE n \in Sound(S) /\ n.R = m.R /\ n.reg = m.reg /\ n.addr = m.addr
  <1>1. /\ n.addr = m.addr /\ n.temps = m.temps /\ n.R = m.R /\ n.M = m.M /\ n.faults = m.faults /\ n.reg = m.reg
    BY DEF Picked
  <1>2. m \in States /\ n \in States BY PickedAfter, SoundIs
  <1>3. \A v \in S : Present(n, v) BY <1>1, PresentSame, SoundIs
  <1> QED BY <1>1, <1>2, <1>3 DEF Sound

\* The operand a instruction reads is right, and reading it changes nothing.
LEMMA ReadsRight ==
  ASSUME Plain, NEW m, NEW a
  PROVE  /\ \A r : Has(m, r, a) => RightIn(m, r, a, 1) = m
         /\ Has(m, m.res.r1, a) => RightRes(m, a) = m
         /\ <<a, 1>> \in m.opd => RightOpd(m, a, 1) = m
  <1>1. a \notin Structs BY DEF Plain
  <1> QED BY <1>1 DEF RightIn, RightRes, RightOpd, Reads, Holds, Fault, Has

LEMMA SoundSetReg ==
  ASSUME NEW S, NEW m \in Sound(S), NEW r \in Regs, NEW X \in Contents, NEW T, T \subseteq S \cap Vars, m.reg[r] \notin T
  PROVE  /\ SetReg(m, r, X) \in Sound(T) /\ SetReg(m, r, X).R[r] = X
         /\ \A q \in Regs \ {r} : SetReg(m, r, X).R[q] = m.R[q]
  <1>1. PICK n : n = SetReg(m, r, X) OBVIOUS
  <1>2. m \in States /\ m \in Gen BY SoundIs
  <1>3. n \in Emitted(m) BY <1>1, <1>2, SetRegEmits, EmittedSelf
  <1>4. n \in States BY <1>2, <1>3, EmittedState
  <1>5. /\ n.addr = m.addr /\ n.temps = m.temps /\ n.M = m.M /\ n.faults = m.faults
        /\ n.R[r] = X /\ \A q \in Regs \ {r} : n.R[q] = m.R[q]
    BY <1>1, <1>2 DEF SetReg, Gen
  <1>6. ASSUME NEW v \in T PROVE Present(n, v)
    <2>1. Present(m, v) /\ v \in Vars \cup {Const} BY <1>6, SoundIs
    <2>2. CASE InReg(m, v)
      <3>1. addr_reg1(m, v) \in Regs /\ m.reg[addr_reg1(m, v)] = v BY <1>2, <2>1, <2>2, RegOf
      <3>2. addr_reg1(m, v) # r BY <3>1
      <3> QED BY <1>5, <2>1, <2>2, <3>1, <3>2 DEF Present, InReg, addr_reg1
    <2>3. CASE ~InReg(m, v)
      BY <1>5, <2>1, <2>3 DEF Present, InReg, addr_reg1, InMemory, HasSlot, Home, SlotOf
    <2> QED BY <2>2, <2>3
  <1> QED BY <1>1, <1>4, <1>5, <1>6, SoundIs DEF Sound

LEMMA SoundClobber ==
  ASSUME NEW S, NEW m \in Sound(S), NEW X \in SUBSET Int, NEW T, T \subseteq S \cap Vars, \A r \in Regs : r \in X => m.reg[r] \notin T
  PROVE  Clobber(m, X) \in Sound(T) /\ \A q \in Regs \ X : Clobber(m, X).R[q] = m.R[q]
  <1>1. PICK n : n = Clobber(m, X) OBVIOUS
  <1>2. m \in States /\ m \in Gen BY SoundIs
  <1>3. n \in Emitted(m) BY <1>1, <1>2, ClobberEmits, EmittedSelf
  <1>4. n \in States BY <1>2, <1>3, EmittedState
  <1>5. /\ n.addr = m.addr /\ n.temps = m.temps /\ n.M = m.M /\ n.faults = m.faults
        /\ \A q \in Regs \ X : n.R[q] = m.R[q]
    BY <1>1, <1>2 DEF Clobber, Gen
  <1>6. ASSUME NEW v \in T PROVE Present(n, v)
    <2>1. Present(m, v) /\ v \in Vars \cup {Const} BY <1>6, SoundIs
    <2>2. CASE InReg(m, v)
      <3>1. addr_reg1(m, v) \in Regs /\ m.reg[addr_reg1(m, v)] = v BY <1>2, <2>1, <2>2, RegOf
      <3>2. addr_reg1(m, v) \notin X BY <3>1
      <3> QED BY <1>5, <2>1, <2>2, <3>1, <3>2 DEF Present, InReg, addr_reg1
    <2>3. CASE ~InReg(m, v)
      BY <1>5, <2>1, <2>3 DEF Present, InReg, addr_reg1, InMemory, HasSlot, Home, SlotOf
    <2> QED BY <2>2, <2>3
  <1> QED BY <1>1, <1>4, <1>5, <1>6, SoundIs DEF Sound

-----------------------------------------------------------------------------
(* Values: stores and spills                                               *)

\* A variable that has a slot already is not given another.
LEMMA HomeThere == ASSUME NEW m, NEW a, a \in Temps => HasSlot(m, a) PROVE WithHome(m, a) = m
  BY DEF WithHome, get_temp_offs

\* Slots are given to variables without moving those of others.
LEMMA WithHomeSound ==
  ASSUME NEW S \in SUBSET Vars, NEW m \in Sound(S), NEW a \in Vars, NEW n, n = WithHome(m, a)
  PROVE  /\ n \in Sound(S) /\ n.R = m.R /\ n.reg = m.reg /\ n.addr = m.addr /\ n.M = m.M
         /\ a \in Temps => HasSlot(n, a)
  <1>1. m \in States /\ m \in Gen BY SoundIs
  <1>2. n \in Stored(m, {a}) /\ (a \in Temps => HasSlot(n, a)) BY <1>1, WithHomeStored
  <1>3. n \in States BY <1>2, StoredIs
  <1>4. n.R = m.R /\ n.reg = m.reg /\ n.addr = m.addr /\ n.M = m.M /\ n.faults = m.faults
    BY <1>1 DEF WithHome, get_temp_offs, Gen
  <1>5. ASSUME NEW v \in Temps, HasSlot(m, v) PROVE SlotOf(m, v) \in DOMAIN n.temps /\ n.temps[SlotOf(m, v)] = v
    <2>1. SlotOf(m, v) \in DOMAIN m.temps /\ m.temps[SlotOf(m, v)] = v BY <1>1, <1>5, SlotIs
    <2>2. m.temps \in Seq(Temps \cup {NoVar}) /\ v # NoVar BY <1>1, VarsAre DEF Gen
    <2>3. CASE a \notin Temps \/ HasSlot(m, a) BY <2>1, <2>3 DEF WithHome, get_temp_offs
    <2>4. CASE a \in Temps /\ ~HasSlot(m, a) /\ HasSlot(m, NoVar)
      <3>1. PICK k : k = Max({j \in DOMAIN m.temps : m.temps[j] = NoVar}) OBVIOUS
      <3>2. m.temps[k] = NoVar
        <4>1. PICK Z : Z = {j \in DOMAIN m.temps : m.temps[j] = NoVar} OBVIOUS
        <4>2. Z \in SUBSET (0 .. Len(m.temps)) /\ Len(m.temps) \in Nat BY <2>2, <4>1
        <4>3. Z # {} BY <2>4, <4>1 DEF HasSlot
        <4>4. Max(Z) \in Z BY <4>2, <4>3, MaxIs
        <4> QED BY <4>1, <4>4, <3>1
      <3>3. n = [m EXCEPT !.temps = [m.temps EXCEPT ![k] = a]] BY <2>4, <3>1 DEF WithHome, get_temp_offs
      <3>4. n.temps = [m.temps EXCEPT ![k] = a] BY <1>1, <3>3 DEF Gen
      <3> QED BY <2>1, <2>2, <3>2, <3>4
    <2>5. CASE a \in Temps /\ ~HasSlot(m, a) /\ ~HasSlot(m, NoVar)
      <3>1. n.temps = Append(m.temps, a) BY <1>1, <2>5 DEF WithHome, get_temp_offs, Gen
      <3> QED BY <2>1, <2>2, <3>1
    <2> QED BY <2>3, <2>4, <2>5
  <1>6. ASSUME NEW v \in S PROVE Present(n, v)
    <2>1. Present(m, v) BY SoundIs
    <2>2. InReg(n, v) <=> InReg(m, v) BY <1>4 DEF InReg, addr_reg1
    <2>3. CASE InReg(m, v) BY <1>4, <2>1, <2>2, <2>3 DEF Present, addr_reg1
    <2>4. CASE ~InReg(m, v) /\ v \in Temps
      <3>1. HasSlot(m, v) /\ <<v, 1>> \in m.M[SlotOf(m, v)][1] BY <2>1, <2>4 DEF Present, InMemory, Home
      <3>2. HasSlot(n, v) /\ Home(n, v) = SlotOf(m, v) BY <1>3, <1>5, <2>4, <3>1, SlotStays
      <3> QED BY <1>4, <2>2, <2>4, <3>1, <3>2 DEF Present, InMemory
    <2>5. CASE ~InReg(m, v) /\ v \notin Temps BY <1>4, <2>1, <2>2, <2>5 DEF Present, InMemory, Home
    <2> QED BY <2>3, <2>4, <2>5
  <1> QED BY <1>2, <1>3, <1>4, <1>6, SoundIs DEF Sound

\* Word 1 of a's memory is written.
LEMMA ToHomeSound ==
  ASSUME NEW S \in SUBSET Vars, NEW m \in Sound(S), NEW a \in Vars, a \in Temps => HasSlot(m, a), NEW r \in Regs,
         a \in S => InReg(m, a) \/ Has(m, r, a), NEW n, n = ToHome(m, r, a, 1)
  PROVE  /\ n \in Sound(S) /\ n.R = m.R /\ n.reg = m.reg /\ n.addr = m.addr /\ n.temps = m.temps
         /\ Has(m, r, a) => InMemory(n, a)
  <1>1. m \in States /\ m \in Gen BY SoundIs
  <1>2. n \in Emitted(m) BY <1>1, EmittedSelf, ToHomeEmits
  <1>3. n \in States BY <1>1, <1>2, EmittedState
  <1>4. n.R = m.R /\ n.reg = m.reg /\ n.addr = m.addr /\ n.temps = m.temps /\ n.faults = m.faults
    BY <1>1 DEF ToHome, Gen
  <1>5. Home(m, a) \in Locs BY <1>1, HomeIs
  <1>6. /\ n.M[Home(m, a)][1] = m.R[r]
        /\ \A L \in Locs : L # Home(m, a) => n.M[L] = m.M[L]
    BY <1>1, <1>5 DEF ToHome, Gen, Memory
  <1>7. \A v : Home(n, v) = Home(m, v) /\ (HasSlot(n, v) <=> HasSlot(m, v)) /\ (InReg(n, v) <=> InReg(m, v))
    <2>1. \A v : Home(n, v) = Home(m, v) BY <1>2, HomeEmitted
    <2>2. \A v : HasSlot(n, v) <=> HasSlot(m, v) BY <1>4 DEF HasSlot
    <2>3. \A v : InReg(n, v) <=> InReg(m, v) BY <1>4 DEF InReg, addr_reg1
    <2> QED BY <2>1, <2>2, <2>3
  <1>8. Has(m, r, a) => InMemory(n, a) BY <1>6, <1>7 DEF InMemory, Has
  <1>9. ASSUME NEW v \in S PROVE Present(n, v)
    <2>1. Present(m, v) BY SoundIs
    <2>2. CASE InReg(m, v) BY <1>4, <1>7, <2>1, <2>2 DEF Present, addr_reg1
    <2>3. CASE ~InReg(m, v) /\ v = a BY <1>7, <1>8, <2>3 DEF Present
    <2>4. CASE ~InReg(m, v) /\ v # a
      <3>1. InMemory(m, v) BY <2>1, <2>4 DEF Present
      <3>2. Home(m, v) \in Locs /\ Home(m, v) # Home(m, a) BY <1>1, <2>4, <3>1, HomesApart, HomeIs DEF InMemory
      <3> QED BY <1>6, <1>7, <2>4, <3>1, <3>2 DEF Present, InMemory
    <2> QED BY <2>2, <2>3, <2>4
  <1> QED BY <1>3, <1>4, <1>8, <1>9, SoundIs DEF Sound

\* Variable a is stored from its register.
Saved(m, a) == ToHome(WithHome(m, a), addr_reg1(m, a), a, 1)

LEMMA SavedSound ==
  ASSUME NEW S \in SUBSET Vars, NEW m \in Sound(S), NEW a \in Vars, InReg(m, a), NEW n, n = Saved(m, a)
  PROVE  /\ n \in Sound(S) /\ n.R = m.R /\ n.reg = m.reg /\ n.addr = m.addr
         /\ a \in S => InMemory(n, a)
  <1>1. m \in States BY SoundIs
  <1>2. addr_reg1(m, a) \in Regs BY <1>1, RegOf
  <1>3. PICK h : h = WithHome(m, a) OBVIOUS
  <1>4. /\ h \in Sound(S) /\ h.R = m.R /\ h.reg = m.reg /\ h.addr = m.addr
        /\ a \in Temps => HasSlot(h, a)
    BY <1>3, WithHomeSound
  <1>5. InReg(h, a) BY <1>4 DEF InReg, addr_reg1
  <1>6. n = ToHome(h, addr_reg1(m, a), a, 1) BY <1>3 DEF Saved
  <1>7. /\ n \in Sound(S) /\ n.R = h.R /\ n.reg = h.reg /\ n.addr = h.addr
        /\ Has(h, addr_reg1(m, a), a) => InMemory(n, a)
    BY <1>2, <1>4, <1>5, <1>6, ToHomeSound
  <1>8. a \in S => Has(h, addr_reg1(m, a), a) BY <1>4, SoundIs DEF Present, Has
  <1> QED BY <1>4, <1>7, <1>8

LEMMA ReleaseSound ==
  ASSUME NEW S \in SUBSET Vars, NEW m \in Sound(S), NEW a \in Vars, a \in S => InMemory(m, a),
         NEW n, n = Release(m, a, m.addr[a])
  PROVE  n \in Sound(S) /\ n.R = m.R
  <1>1. m \in States /\ m \in Gen BY SoundIs
  <1>2. n \in States BY <1>1, ReleaseFewer, FewerIs
  <1>3. /\ n.R = m.R /\ n.M = m.M /\ n.temps = m.temps /\ n.faults = m.faults
        /\ \A v \in Vars \ {a} : n.addr[v] = m.addr[v]
        /\ n.addr[a] = NoReg
    BY <1>1 DEF Release, Gen
  <1>4. ASSUME NEW v \in S PROVE Present(n, v)
    <2>1. Present(m, v) BY SoundIs
    <2>2. CASE v = a
      <3>1. ~InReg(n, v) BY <1>3, <2>2 DEF InReg, addr_reg1, NoReg
      <3> QED BY <1>3, <2>2, <3>1 DEF Present, InMemory, HasSlot, Home, SlotOf
    <2>3. CASE v # a
      <3>1. n.addr[v] = m.addr[v] BY <1>3, <2>3
      <3> QED BY <1>3, <2>1, <3>1 DEF Present, InReg, addr_reg1, InMemory, HasSlot, Home, SlotOf
    <2> QED BY <2>2, <2>3
  <1> QED BY <1>2, <1>3, <1>4, SoundIs DEF Sound

\* Register r is spilled.
Spilt(m, r) == IF reg_isempty(m, r) THEN m ELSE Release(Saved(m, m.reg[r]), m.reg[r], m.addr[m.reg[r]])

LEMMA SpiltSound ==
  ASSUME NEW S \in SUBSET Vars, NEW m \in Sound(S), NEW r \in Regs PROVE Spilt(m, r) \in Sound(S) /\ Spilt(m, r).R = m.R
  <1>1. CASE reg_isempty(m, r) BY <1>1 DEF Spilt
  <1>2. CASE ~reg_isempty(m, r)
    <2>1. PICK a : a = m.reg[r] OBVIOUS
    <2>2. a \in Vars /\ InReg(m, a) BY <1>2, <2>1, OwnerIs, SoundIs DEF reg_isempty
    <2>3. PICK k : k = Saved(m, a) OBVIOUS
    <2>4. k \in Sound(S) /\ k.R = m.R /\ k.addr = m.addr /\ (a \in S => InMemory(k, a)) BY <2>2, <2>3, SavedSound
    <2>5. Spilt(m, r) = Release(k, a, k.addr[a]) BY <1>2, <2>1, <2>3, <2>4 DEF Spilt
    <2> QED BY <2>2, <2>4, <2>5, ReleaseSound
  <1> QED BY <1>1, <1>2

LEMMA LoopSound ==
  ASSUME NEW S, NEW N \in Nat, NEW f, f[-1] \in Sound(S),
         \A r \in 0 .. N : f[r - 1] \in Sound(S) => f[r] \in Sound(S) /\ f[r].R = f[r - 1].R
  PROVE  f[N] \in Sound(S) /\ f[N].R = f[-1].R
  <1> DEFINE Fine(r) == f[r] \in Sound(S) /\ f[r].R = f[-1].R
             Bad == {r \in Nat : r <= N /\ ~Fine(r)}
  <1>1. Bad = {}
    <2> SUFFICES ASSUME Bad # {} PROVE FALSE OBVIOUS
    <2>1. PICK k \in Bad : \A j \in Bad : k <= j BY LeastNat
    <2>2. k \in 0 .. N /\ ~Fine(k) BY <2>1
    <2>3. ~Fine(k - 1) BY <2>2
    <2>4. k # 0
      <3>1. k = 0 => k - 1 = -1 OBVIOUS
      <3> QED BY <2>3, <3>1
    <2>5. k - 1 \in Bad /\ k - 1 < k BY <2>2, <2>3, <2>4
    <2> QED BY <2>1, <2>2, <2>5
  <1> QED BY <1>1

-----------------------------------------------------------------------------
(* Values: loads                                                           *)

LEMMA SoundHas ==
  ASSUME NEW S \in SUBSET Vars, NEW m \in Sound(S), NEW a \in S
  PROVE  /\ InReg(m, a) => addr_reg1(m, a) \in Regs /\ m.reg[addr_reg1(m, a)] = a /\ Has(m, addr_reg1(m, a), a)
         /\ ~InReg(m, a) => WithHome(m, a) = m /\ <<a, 1>> \in m.M[Home(m, a)][1] /\ Home(m, a) \in Locs
  <1>1. m \in States /\ Present(m, a) /\ a \in Vars BY SoundIs
  <1>2. CASE InReg(m, a) BY <1>1, <1>2, RegOf DEF Present, Has
  <1>3. CASE ~InReg(m, a)
    <2>1. InMemory(m, a) BY <1>1, <1>3 DEF Present
    <2> QED BY <1>1, <1>3, <2>1, HomeThere, HomeIs DEF InMemory
  <1> QED BY <1>2, <1>3

\* The operand a is loaded into register r, which holds no variable of S, or a itself.
LEMMA LoadSound ==
  ASSUME Plain, NEW S \in SUBSET Vars, NEW m \in Sound(S), NEW a \in S \cup {Const}, NEW r \in Regs,
         m.reg[r] \notin S \/ (m.reg[r] = a /\ a # Const), NEW n, n = Load(m, r, a)
  PROVE  /\ n \in Sound(S) /\ Has(n, r, a) /\ n.reg = m.reg /\ n.addr = m.addr /\ n.res = m.res /\ n.got = m.got
         /\ \A q \in Regs \ {r} : n.R[q] = m.R[q]
  <1>1. m \in States /\ m \in Gen BY SoundIs
  <1>2. CASE a = Const
    <2>1. PICK X : X = {<<Const, 1>>} OBVIOUS
    <2>2. n = SetReg(m, r, X) BY <1>2, <2>1 DEF Load
    <2>3. m.reg[r] \notin S BY <1>2
    <2>4. X \in Contents BY <2>1, TokensAre
    <2>5. S \subseteq S \cap Vars OBVIOUS
    <2>6. /\ n \in Sound(S) /\ n.R[r] = X /\ \A q \in Regs \ {r} : n.R[q] = m.R[q]
      BY <2>2, <2>3, <2>4, <2>5, SoundSetReg
    <2> QED BY <1>1, <1>2, <2>1, <2>2, <2>6 DEF Has, SetReg, Gen
  <1>3. CASE a # Const /\ InReg(m, a)
    <2>1. a \in S /\ addr_reg1(m, a) \in Regs /\ Has(m, addr_reg1(m, a), a) BY <1>3, SoundHas
    <2>2. CASE r = addr_reg1(m, a)
      <3>1. n = m BY <1>3, <2>2 DEF Load, Move
      <3> QED BY <2>1, <2>2, <3>1
    <2>3. CASE r # addr_reg1(m, a)
      <3>1. n = SetReg(m, r, m.R[addr_reg1(m, a)]) BY <1>3, <2>3 DEF Load, Move
      <3>2. m.reg[r] # a
        <4>1. Agree(m) /\ a \in Vars /\ m.addr[a].r1 = addr_reg1(m, a) BY <1>1, <2>1 DEF States, addr_reg1
        <4>2. m.addr[a].r2 = None BY <4>1 DEF Agree, Plain
        <4> QED BY <2>3, <4>1, <4>2, RegsAre DEF Agree
      <3>3. m.reg[r] \notin S /\ m.R[addr_reg1(m, a)] \in Contents BY <1>1, <2>1, <3>2, Contained
      <3>4. /\ n \in Sound(S) /\ n.R[r] = m.R[addr_reg1(m, a)] /\ \A q \in Regs \ {r} : n.R[q] = m.R[q]
        BY <3>1, <3>3, SoundSetReg
      <3> QED BY <1>1, <2>1, <3>1, <3>4 DEF Has, SetReg, Gen
    <2> QED BY <2>2, <2>3
  <1>4. CASE a # Const /\ ~InReg(m, a)
    <2>1. a \in S /\ WithHome(m, a) = m /\ <<a, 1>> \in m.M[Home(m, a)][1] /\ Home(m, a) \in Locs
      BY <1>4, SoundHas
    <2>2. n = SetReg(m, r, m.M[Home(m, a)][1]) BY <1>4, <2>1 DEF Load, FromHome, Plain
    <2>3. m.reg[r] \notin S
      <3>1. m.reg[r] # a
        <4>1. ASSUME m.reg[r] = a PROVE FALSE
          <5>1. m.reg[r] \in Vars /\ m.reg[r] # NoVar BY <2>1, <4>1, VarsAre
          <5>2. InReg(m, a) BY <1>1, <4>1, <5>1, OwnerIs
          <5> QED BY <1>4, <5>2
        <4> QED BY <4>1
      <3> QED BY <3>1
    <2>4. m.M[Home(m, a)][1] \in Contents BY <1>1, <2>1, Contained
    <2>5. /\ n \in Sound(S) /\ n.R[r] = m.M[Home(m, a)][1] /\ \A q \in Regs \ {r} : n.R[q] = m.R[q]
      BY <2>2, <2>3, <2>4, SoundSetReg
    <2> QED BY <1>1, <2>1, <2>2, <2>5 DEF Has, SetReg, Gen
  <1> QED BY <1>2, <1>3, <1>4

LEMMA OperandSound ==
  ASSUME NEW S, NEW m \in Sound(S), NEW X \in Contents, NEW n, n = Operand(m, X)
  PROVE  n \in Sound(S) /\ n.R = m.R /\ n.reg = m.reg /\ n.addr = m.addr /\ n.res = m.res /\ n.got = m.got /\ n.opd = X
  <1>1. m \in States /\ m \in Gen BY SoundIs
  <1>2. n \in Emitted(m) BY <1>1, EmittedSelf, OperandEmits
  <1>3. n \in States BY <1>1, <1>2, EmittedState
  <1>4. /\ n.R = m.R /\ n.M = m.M /\ n.reg = m.reg /\ n.addr = m.addr /\ n.temps = m.temps /\ n.faults = m.faults
        /\ n.res = m.res /\ n.got = m.got /\ n.opd = X
    BY <1>1 DEF Operand, Gen
  <1>5. \A v \in S : Present(n, v) BY <1>4, PresentSame, SoundIs
  <1> QED BY <1>3, <1>4, <1>5, SoundIs DEF Sound

\* The operand is what a register, or the variable's memory, holds.
LEMMA InHomeSound ==
  ASSUME NEW S \in SUBSET Vars, NEW m \in Sound(S), NEW a \in S, ~InReg(m, a), NEW n, n = InHome(WithHome(m, a), a, 1)
  PROVE  n \in Sound(S) /\ n.R = m.R /\ n.reg = m.reg /\ n.addr = m.addr /\ n.res = m.res /\ n.got = m.got /\ <<a, 1>> \in n.opd
  <1>1. WithHome(m, a) = m /\ <<a, 1>> \in m.M[Home(m, a)][1] /\ Home(m, a) \in Locs BY SoundHas
  <1>2. m.M[Home(m, a)][1] \in Contents BY <1>1, Contained, SoundIs
  <1>3. n = Operand(m, m.M[Home(m, a)][1]) BY <1>1 DEF InHome
  <1> QED BY <1>1, <1>2, <1>3, OperandSound

LEMMA InRegSound ==
  ASSUME NEW S \in SUBSET Vars, NEW m \in Sound(S), NEW a, NEW r \in Regs, Has(m, r, a), NEW n, n = Operand(m, m.R[r])
  PROVE  n \in Sound(S) /\ n.R = m.R /\ n.reg = m.reg /\ n.addr = m.addr /\ n.res = m.res /\ n.got = m.got /\ <<a, 1>> \in n.opd
  <1>1. m.R[r] \in Contents BY Contained, SoundIs
  <1> QED BY <1>1, OperandSound DEF Has

LEMMA ConstSound ==
  ASSUME NEW S \in SUBSET Vars, NEW m \in Sound(S), NEW n, n = Operand(m, {<<Const, 1>>})
  PROVE  n \in Sound(S) /\ n.R = m.R /\ n.reg = m.reg /\ n.addr = m.addr /\ n.res = m.res /\ n.got = m.got
         /\ <<Const, 1>> \in n.opd
  <1>1. {<<Const, 1>>} \in Contents BY TokensAre
  <1> QED BY <1>1, OperandSound

-----------------------------------------------------------------------------
(* Values: the operands are gone                                           *)

LEMMA FreeTempSound ==
  ASSUME NEW S \in SUBSET Vars, NEW m \in Sound(S), NEW a \in Temps, a \notin S, NEW n, n = free_temp(m, a)
  PROVE  n \in Sound(S) /\ n.R = m.R /\ n.addr = m.addr
  <1>1. m \in States /\ m \in Gen BY SoundIs
  <1>2. n \in States BY <1>1, FreeTempStored, StoredIs
  <1>3. n.R = m.R /\ n.M = m.M /\ n.addr = m.addr /\ n.faults = m.faults BY <1>1 DEF free_temp, Gen
  <1>4. ASSUME NEW v \in S PROVE Present(n, v)
    <2>1. Present(m, v) /\ v # a BY SoundIs
    <2>2. InReg(n, v) <=> InReg(m, v) BY <1>3 DEF InReg, addr_reg1
    <2>3. CASE InReg(m, v) BY <1>3, <2>1, <2>2, <2>3 DEF Present, addr_reg1
    <2>4. CASE ~InReg(m, v) /\ v \in Temps
      <3>1. HasSlot(m, v) /\ <<v, 1>> \in m.M[SlotOf(m, v)][1] BY <2>1, <2>4 DEF Present, InMemory, Home
      <3>2. SlotOf(m, v) \in DOMAIN m.temps /\ m.temps[SlotOf(m, v)] = v BY <1>1, <3>1, SlotIs
      <3>3. HasSlot(m, a) => m.temps[SlotOf(m, a)] = a BY <1>1, SlotIs
      <3>4. n.temps = IF HasSlot(m, a) THEN [m.temps EXCEPT ![SlotOf(m, a)] = NoVar] ELSE m.temps
        BY <1>1 DEF free_temp, Gen
      <3>5. SlotOf(m, v) \in DOMAIN n.temps /\ n.temps[SlotOf(m, v)] = v BY <2>1, <3>2, <3>3, <3>4
      <3>6. HasSlot(n, v) /\ Home(n, v) = SlotOf(m, v) BY <1>2, <2>4, <3>5, SlotStays
      <3> QED BY <1>3, <2>2, <2>4, <3>1, <3>6 DEF Present, InMemory
    <2>5. CASE ~InReg(m, v) /\ v \notin Temps BY <1>3, <2>1, <2>2, <2>5 DEF Present, InMemory, Home
    <2> QED BY <2>3, <2>4, <2>5
  <1> QED BY <1>2, <1>3, <1>4, SoundIs DEF Sound

\* update_arg_descriptors(): T is what must be kept of S; the operand is not in it if it dies.
UpdatedArg(m, a, live, next) ==
  IF a = Const \/ next THEN m
  ELSE Release(IF live /\ InReg(m, a) THEN Saved(m, a)
               ELSE IF ~live /\ a \in Temps THEN free_temp(m, a) ELSE m, a, m.addr[a])

LEMMA UpdatedArgSound ==
  ASSUME NEW S \in SUBSET Vars, NEW m \in Sound(S), NEW a \in Vars \cup {Const}, NEW live, NEW next,
         a \in S => live \/ next, NEW n, n = UpdatedArg(m, a, live, next)
  PROVE  n \in Sound(S) /\ n.R = m.R
  <1>1. CASE a = Const \/ next BY <1>1 DEF UpdatedArg
  <1>2. CASE ~(a = Const \/ next) /\ live /\ InReg(m, a)
    <2>1. PICK k : k = Saved(m, a) OBVIOUS
    <2>2. a \in Vars BY <1>2
    <2>3. k \in Sound(S) /\ k.R = m.R /\ k.addr = m.addr /\ (a \in S => InMemory(k, a)) BY <1>2, <2>1, <2>2, SavedSound
    <2>4. n = Release(k, a, k.addr[a]) BY <1>2, <2>1, <2>3 DEF UpdatedArg
    <2> QED BY <2>2, <2>3, <2>4, ReleaseSound
  <1>3. CASE ~(a = Const \/ next) /\ ~live /\ a \in Temps
    <2>1. PICK k : k = free_temp(m, a) OBVIOUS
    <2>2. a \in Vars /\ a \notin S BY <1>3
    <2>3. k \in Sound(S) /\ k.R = m.R /\ k.addr = m.addr BY <1>3, <2>1, <2>2, FreeTempSound
    <2>4. n = Release(k, a, k.addr[a]) BY <1>3, <2>1, <2>3 DEF UpdatedArg
    <2> QED BY <2>2, <2>3, <2>4, ReleaseSound
  <1>4. CASE ~(a = Const \/ next) /\ ~(live /\ InReg(m, a)) /\ ~(~live /\ a \in Temps)
    <2>1. a \in Vars /\ n = Release(m, a, m.addr[a]) BY <1>4 DEF UpdatedArg
    <2>2. a \in S => InMemory(m, a) BY <1>4, SoundIs DEF Present
    <2> QED BY <2>1, <2>2, ReleaseSound
  <1> QED BY <1>1, <1>2, <1>3, <1>4

-----------------------------------------------------------------------------
(* Values: the result                                                      *)

LEMMA OtherKeeps ==
  ASSUME NEW X, NEW S, NEW v, NEW w, v \notin S PROVE <<v, w>> \in Other(X, S) <=> <<v, w>> \in X
  BY DEF Other

\* Other values are left where they are.
LEMMA ForgetSound ==
  ASSUME NEW S \in SUBSET Vars, NEW m \in Sound(S), NEW X, NEW T, T \subseteq S \ X, NEW n, n = Forget(m, X)
  PROVE  /\ n \in Sound(T) /\ n.reg = m.reg /\ n.addr = m.addr /\ n.res = m.res /\ n.got = m.got
         /\ \A r \in Regs : \A a : Has(m, r, a) /\ a \notin X => Has(n, r, a)
  <1>1. m \in States /\ m \in Gen BY SoundIs
  <1>2. n \in Emitted(m) BY <1>1, EmittedSelf, ForgetEmits
  <1>3. n \in States BY <1>1, <1>2, EmittedState
  <1>4. /\ n.reg = m.reg /\ n.addr = m.addr /\ n.temps = m.temps /\ n.res = m.res /\ n.got = m.got
        /\ n.faults = m.faults
        /\ \A r \in Regs : n.R[r] = Other(m.R[r], X)
        /\ \A L \in Locs : n.M[L][1] = Other(m.M[L][1], X)
    BY <1>1 DEF Forget, Gen
  <1>5. \A r \in Regs : \A a : Has(m, r, a) /\ a \notin X => Has(n, r, a) BY <1>4, OtherKeeps DEF Has
  <1>6. \A v : Home(n, v) = Home(m, v) /\ (HasSlot(n, v) <=> HasSlot(m, v)) /\ (InReg(n, v) <=> InReg(m, v))
               /\ addr_reg1(n, v) = addr_reg1(m, v)
    <2>1. \A v : Home(n, v) = Home(m, v) BY <1>2, HomeEmitted
    <2> QED BY <1>4, <2>1 DEF HasSlot, InReg, addr_reg1
  <1>7. ASSUME NEW v \in T PROVE Present(n, v)
    <2>1. Present(m, v) /\ v \in Vars /\ v \notin X BY SoundIs
    <2>2. CASE InReg(m, v)
      <3>1. addr_reg1(m, v) \in Regs BY <1>1, <2>1, <2>2, RegOf
      <3> QED BY <1>5, <1>6, <2>1, <2>2, <3>1 DEF Present, Has
    <2>3. CASE ~InReg(m, v)
      <3>1. InMemory(m, v) BY <2>1, <2>3 DEF Present
      <3>2. Home(m, v) \in Locs BY <1>1, <2>1, <3>1, HomeIs DEF InMemory
      <3>3. <<v, 1>> \in n.M[Home(m, v)][1] BY <1>4, <2>1, <3>1, <3>2, OtherKeeps DEF InMemory
      <3> QED BY <1>6, <2>3, <3>1, <3>3 DEF Present, InMemory
    <2> QED BY <2>2, <2>3
  <1> QED BY <1>3, <1>4, <1>5, <1>7, SoundIs DEF Sound

\* The result is in its register, which held nothing that lives on.
LEMMA ComputesSound ==
  ASSUME NEW S \in SUBSET Vars, NEW m \in Sound(S), NEW tar \in Vars, NEW T, T \subseteq S \ {tar},
         m.res.r1 \in Regs, m.reg[m.res.r1] \notin T, NEW n, n = Computes(m, tar)
  PROVE  n \in Sound(T) /\ n.res = m.res /\ n.reg = m.reg /\ Has(n, m.res.r1, tar)
  <1>1. PICK k : k = Forget(m, {tar}) OBVIOUS
  <1>2. k \in Sound(T) /\ k.reg = m.reg /\ k.res = m.res BY <1>1, ForgetSound
  <1>3. PICK X : X = {<<tar, 1>>} OBVIOUS
  <1>4. X \in Contents BY <1>3, TokensAre
  <1>5. n = SetReg(k, m.res.r1, X) BY <1>1, <1>2, <1>3 DEF Computes
  <1>6. T \subseteq T \cap Vars /\ k.reg[m.res.r1] \notin T BY <1>2
  <1>7. n \in Sound(T) /\ n.R[m.res.r1] = X BY <1>2, <1>4, <1>5, <1>6, SoundSetReg
  <1>8. n.res = k.res /\ n.reg = k.reg BY <1>2, <1>5, SoundIs DEF SetReg, Gen
  <1> QED BY <1>2, <1>3, <1>7, <1>8 DEF Has

\* A copy: every place of the source is one of the target, too.
LEMMA CopiesSound ==
  ASSUME NEW S \in SUBSET Vars, NEW m \in Sound(S), NEW tar \in Vars, NEW a \in Vars \cup {Const},
         NEW T, T \subseteq S \ {tar}, m.res.r1 \in Regs, Has(m, m.res.r1, a), NEW n, n = Copies(m, tar, a)
  PROVE  n \in Sound(T) /\ n.res = m.res /\ n.reg = m.reg /\ Has(n, m.res.r1, tar)
  <1>1. CASE tar = a
    <2>1. n = m BY <1>1 DEF Copies
    <2> QED BY <1>1, <2>1, SoundLess
  <1>2. CASE tar # a
    <2>1. m \in States /\ m \in Gen BY SoundIs
    <2>2. n \in Emitted(m) BY <2>1, EmittedSelf, CopiesEmits
    <2>3. n \in States BY <2>1, <2>2, EmittedState
    <2>4. /\ n.reg = m.reg /\ n.addr = m.addr /\ n.temps = m.temps /\ n.res = m.res
          /\ n.faults = m.faults
          /\ \A r \in Regs : n.R[r] = CopyIn(m.R[r], tar, a)
          /\ \A L \in Locs : n.M[L][1] = CopyIn(m.M[L][1], tar, a)
      BY <1>2, <2>1 DEF Copies, Gen
    <2>5. \A X, v : <<v, 1>> \in X /\ v # tar => <<v, 1>> \in CopyIn(X, tar, a) BY OtherKeeps DEF CopyIn
    <2>6. \A X : <<a, 1>> \in X => <<tar, 1>> \in CopyIn(X, tar, a)
      <3>1. ASSUME NEW X, <<a, 1>> \in X PROVE <<tar, 1>> \in {<<tar, t[2]>> : t \in {t \in X : t[1] = a /\ t[2] # 0}}
        <4>1. <<a, 1>> \in {t \in X : t[1] = a /\ t[2] # 0} BY <3>1
        <4>2. <<tar, <<a, 1>>[2]>> = <<tar, 1>> OBVIOUS
        <4> QED BY <4>1, <4>2
      <3> QED BY <3>1 DEF CopyIn
    <2>7. Has(n, m.res.r1, tar) BY <2>4, <2>6 DEF Has
    <2>8. \A v : Home(n, v) = Home(m, v) /\ (HasSlot(n, v) <=> HasSlot(m, v)) /\ (InReg(n, v) <=> InReg(m, v))
                 /\ addr_reg1(n, v) = addr_reg1(m, v)
      <3>1. \A v : Home(n, v) = Home(m, v) BY <2>2, HomeEmitted
      <3> QED BY <2>4, <3>1 DEF HasSlot, InReg, addr_reg1
    <2>9. ASSUME NEW v \in T PROVE Present(n, v)
      <3>1. Present(m, v) /\ v \in Vars /\ v # tar BY SoundIs
      <3>2. CASE InReg(m, v)
        <4>1. addr_reg1(m, v) \in Regs BY <2>1, <3>1, <3>2, RegOf
        <4> QED BY <2>4, <2>5, <2>8, <3>1, <3>2, <4>1 DEF Present
      <3>3. CASE ~InReg(m, v)
        <4>1. InMemory(m, v) BY <3>1, <3>3 DEF Present
        <4>2. Home(m, v) \in Locs BY <2>1, <3>1, <4>1, HomeIs DEF InMemory
        <4>3. <<v, 1>> \in n.M[Home(m, v)][1] BY <2>4, <2>5, <3>1, <4>1, <4>2 DEF InMemory
        <4> QED BY <2>8, <3>3, <4>1, <4>3 DEF Present, InMemory
      <3> QED BY <3>2, <3>3
    <2> QED BY <2>3, <2>4, <2>7, <2>9, SoundIs DEF Sound
  <1> QED BY <1>1, <1>2

\* The target is bound to the register of the result.
LEMMA BindSound ==
  ASSUME NEW T \in SUBSET Vars, NEW m \in Sound(T), NEW tar \in Vars \ Wide, tar \notin T, NEW P, Marked(m, tar, {}, P),
         NEW r \in Regs \cap P, m.reg[r] = NoVar, Has(m, r, tar), NEW n, n = Bind(m, r, tar)
  PROVE  n \in Sound(T \cup {tar}) /\ n.addr[tar].r1 = r /\ n.addr[tar].r2 = None
  <1>1. m \in States /\ m \in Gen BY SoundIs
  <1>2. n \in Bound(m, tar, P) /\ n.addr[tar].r1 = r /\ n.addr[tar].r2 = None BY BindBound
  <1>3. n \in States /\ \A v \in Vars \ {tar} : n.addr[v] = m.addr[v] BY <1>2 DEF Bound
  <1>4. n.R = m.R /\ n.M = m.M /\ n.temps = m.temps /\ n.faults = m.faults BY <1>1 DEF Bind, Gen
  <1>5. ASSUME NEW v \in T PROVE Present(n, v)
    <2>1. Present(m, v) /\ n.addr[v] = m.addr[v] BY <1>3, SoundIs
    <2> QED BY <1>4, <2>1 DEF Present, InReg, addr_reg1, InMemory, HasSlot, Home, SlotOf
  <1>6. Present(n, tar)
    <2>1. InReg(n, tar) /\ addr_reg1(n, tar) = r BY <1>2, RegsAre, VarsAre DEF InReg, addr_reg1
    <2> QED BY <1>4, <2>1 DEF Present, Has
  <1> QED BY <1>2, <1>3, <1>4, <1>5, <1>6, SoundIs DEF Sound

\* update_tar_descriptors(): the target, if it lives on, is in its register or in memory.
LEMMA TarSound ==
  ASSUME NEW T \in SUBSET Vars, NEW m \in Sound(T), NEW tar \in Vars \ Wide, tar \notin T, NEW P, Marked(m, tar, {}, P),
         NEW r \in Regs \cap P, m.reg[r] = NoVar, Has(m, r, tar), NEW U, U \subseteq T \cup {tar}, tar \in U => Live(m, tar),
         NEW b, b = Bind(m, r, tar),
         NEW n, n = IF Used(m, tar) THEN b
                    ELSE Unbind(IF Live(m, tar) THEN ToHome(WithHome(b, tar), r, tar, 1) ELSE b, r, tar)
  PROVE  n \in Sound(U)
  <1>1. b \in Sound(T \cup {tar}) /\ b.addr[tar].r1 = r /\ b.addr[tar].r2 = None BY BindSound
  <1>2. CASE Used(m, tar) BY <1>1, <1>2, SoundLess
  <1>3. CASE ~Used(m, tar) /\ Live(m, tar)
    <2>1. PICK k : k = Saved(b, tar) OBVIOUS
    <2>2. InReg(b, tar) /\ addr_reg1(b, tar) = r BY <1>1, RegsAre, VarsAre DEF InReg, addr_reg1
    <2>3. k \in Sound(T \cup {tar}) /\ k.addr = b.addr /\ InMemory(k, tar) BY <1>1, <2>1, <2>2, SavedSound
    <2>4. n = Unbind(k, r, tar) BY <1>3, <2>1, <2>2 DEF Saved
    <2>5. n = Release(k, tar, k.addr[tar]) BY <1>1, <2>3, <2>4, UnbindReleases, SoundIs
    <2>6. n \in Sound(T \cup {tar}) BY <2>3, <2>5, ReleaseSound
    <2> QED BY <2>6, SoundLess
  <1>4. CASE ~Used(m, tar) /\ ~Live(m, tar)
    <2>1. b \in Sound(T) BY <1>1, SoundLess
    <2>2. n = Release(b, tar, b.addr[tar]) BY <1>1, <1>4, UnbindReleases, SoundIs
    <2>3. n \in Sound(T) BY <2>1, <2>2, ReleaseSound
    <2> QED BY <1>4, <2>3, SoundLess
  <1> QED BY <1>2, <1>3, <1>4

-----------------------------------------------------------------------------
(* Values: memory                                                          *)

LEMMA MemoryRead ==
  ASSUME Plain, NEW m \in Sound({v \in Vars : fut[v] # "dead"}), NEW X \in SUBSET Ids, \A v \in X : ~InReg(m, v)
  PROVE  ReadsMemory(m, X) = m
  <1>1. ASSUME NEW v \in X, fut[v] # "dead" PROVE ~InReg(m, v) /\ \A w \in Words(v) : <<v, w>> \in m.M[v][w]
    <2>1. v \in Vars /\ v \notin Temps BY DEF Ids
    <2>2. Present(m, v) BY <1>1, <2>1, SoundIs
    <2>3. <<v, 1>> \in m.M[v][1] BY <2>1, <2>2 DEF Present, InMemory, Home
    <2>4. Words(v) = {1} BY DEF Words, Plain
    <2> QED BY <2>3, <2>4
  <1> QED BY <1>1 DEF ReadsMemory, Fault

LEMMA WritesMemorySound ==
  ASSUME NEW S \in SUBSET Vars, NEW m \in Sound(S), NEW X \in SUBSET Ids, \A v \in X : ~InReg(m, v),
         NEW n, n = WritesMemory(m, X)
  PROVE  n \in Sound(S) /\ n.reg = m.reg /\ n.addr = m.addr /\ n.res = m.res
  <1>1. m \in States /\ m \in Gen BY SoundIs
  <1>2. X \in SUBSET Vars BY VarsAre
  <1>3. n \in Emitted(m) BY <1>1, <1>2, EmittedSelf, WritesMemoryEmits
  <1>4. n \in States BY <1>1, <1>3, EmittedState
  <1>5. /\ n.reg = m.reg /\ n.addr = m.addr /\ n.temps = m.temps /\ n.res = m.res
        /\ n.faults = m.faults
        /\ \A r \in Regs : n.R[r] = Other(m.R[r], X)
        /\ \A L \in Locs : n.M[L][1] = IF L = Far THEN {} ELSE IF L \in X THEN {<<L, 1>>} ELSE Other(m.M[L][1], X)
    BY <1>1 DEF WritesMemory, Forget, Gen
  <1>6. \A v : Home(n, v) = Home(m, v) /\ (HasSlot(n, v) <=> HasSlot(m, v)) /\ (InReg(n, v) <=> InReg(m, v))
               /\ addr_reg1(n, v) = addr_reg1(m, v)
    <2>1. \A v : Home(n, v) = Home(m, v) BY <1>3, HomeEmitted
    <2> QED BY <1>5, <2>1 DEF HasSlot, InReg, addr_reg1
  <1>7. ASSUME NEW v \in S PROVE Present(n, v)
    <2>1. Present(m, v) /\ v \in Vars BY SoundIs
    <2>2. CASE InReg(m, v)
      <3>1. addr_reg1(m, v) \in Regs /\ v \notin X BY <1>1, <2>1, <2>2, RegOf
      <3> QED BY <1>5, <1>6, <2>1, <2>2, <3>1, OtherKeeps DEF Present
    <2>3. CASE ~InReg(m, v)
      <3>1. InMemory(m, v) BY <2>1, <2>3 DEF Present
      <3>2. Home(m, v) \in Locs /\ Home(m, v) # Far /\ (Home(m, v) \in Vars => Home(m, v) = v)
        BY <1>1, <2>1, <3>1, HomeIs DEF InMemory
      <3>3. <<v, 1>> \in n.M[Home(m, v)][1]
        <4>1. CASE v \in X
          <5>1. Home(m, v) = v BY <4>1 DEF Home, Ids
          <5>2. n.M[v][1] = {<<v, 1>>} BY <1>5, <3>2, <4>1, <5>1
          <5> QED BY <5>1, <5>2
        <4>2. CASE v \notin X
          <5>1. Home(m, v) \notin X BY <1>2, <3>2, <4>2
          <5>2. n.M[Home(m, v)][1] = Other(m.M[Home(m, v)][1], X) BY <1>5, <3>2, <5>1
          <5>3. <<v, 1>> \in m.M[Home(m, v)][1] BY <3>1 DEF InMemory
          <5> QED BY <4>2, <5>2, <5>3, OtherKeeps
        <4> QED BY <4>1, <4>2
      <3> QED BY <1>6, <2>3, <3>1, <3>3 DEF Present, InMemory
    <2> QED BY <2>2, <2>3
  <1> QED BY <1>4, <1>5, <1>7, SoundIs DEF Sound

LEMMA CalledSound ==
  ASSUME Plain, NEW S, S = {v \in Vars : fut[v] # "dead"}, NEW m \in Sound(S), \A r \in Regs : m.reg[r] = NoVar,
         NEW X \in SUBSET Int, NEW n, n = Called(m, X)
  PROVE  n \in Sound(S) /\ n.reg = m.reg
  <1>1. m \in States BY SoundIs
  <1>2. Pointed \cup Statics \in SUBSET Ids BY CGenRegsAssumption, CGenAssumption
  <1>3. ASSUME NEW v \in Pointed \cup Statics PROVE ~InReg(m, v)
    <2>1. v \in Vars BY <1>2, VarsAre
    <2> QED BY <1>1, <2>1, RegOf, VarsAre
  <1>4. PICK Y : Y = Pointed \cup Statics OBVIOUS
  <1>5. ReadsMemory(m, Y) = m BY <1>2, <1>3, <1>4, MemoryRead
  <1>6. PICK k : k = WritesMemory(m, Y) OBVIOUS
  <1>7. k \in Sound(S) /\ k.reg = m.reg BY <1>2, <1>3, <1>4, <1>6, WritesMemorySound
  <1>8. n = Clobber(k, X) BY <1>4, <1>5, <1>6 DEF Called
  <1>9. S \subseteq S \cap Vars /\ \A r \in Regs : k.reg[r] \notin S BY <1>7, VarsAre
  <1>10. n \in Sound(S) BY <1>7, <1>8, <1>9, SoundClobber
  <1>11. n.reg = k.reg BY <1>7, <1>8, SoundIs DEF Clobber, Gen
  <1> QED BY <1>7, <1>10, <1>11

-----------------------------------------------------------------------------
(* Values: from one instruction to the next                                *)

\* The variables whose values may be read again.
Alive(m) == {v \in Vars : m.fut[v] # "dead"}

\* The second half of the inductive invariant: no operand was wrong, and all values that
\* may be read again are where the descriptors and the slots say.
VInv == cg \in Sound(Alive(cg))

LEMMA AliveIs == Alive(cg) = {v \in Vars : fut[v] # "dead"} /\ \A m : Alive(m) \in SUBSET Vars
  BY DEF Alive, cg

LEMMA BeginSound ==
  ASSUME VInv, NEW tar, NEW args, NEW implicit, NEW m \in Marks(tar, args, implicit), m \in States
  PROVE  /\ m \in Sound(Alive(cg)) /\ Alive(m) \ {tar} \subseteq Alive(cg)
         /\ \A a \in args \cap Vars : a \in Alive(cg) /\ fut[a] = "next"
         /\ \A v \in implicit \cap Vars : v \in Alive(cg)
         /\ m.reg = cg.reg /\ m.addr = cg.addr
  <1>1. /\ \A a \in args \ {Const} : fut[a] = "next"
        /\ \A v \in implicit : fut[v] # "dead"
    BY DEF Marks
  <1>2. PICK f : /\ m = [cg EXCEPT !.fut = f]
                 /\ \A v \in Vars : v \notin args \cup {tar} /\ f[v] # "dead" => fut[v] # "dead"
    <2> DEFINE after(v) == IF v \in (args \cup {tar}) \cap Vars THEN Futures(v)
                           ELSE IF v \in implicit /\ fut[v] = "live" THEN {"live", "dead"} ELSE {fut[v]}
               free == {v \in Vars : after(v) # {fut[v]}}
    <2>1. PICK g \in [free -> {"next", "live", "dead"}] :
            /\ \A v \in free : g[v] \in after(v)
            /\ m = [cg EXCEPT !.fut = [v \in Vars |-> IF v \in free THEN g[v] ELSE fut[v]]]
      BY DEF Marks
    <2>2. PICK f : f = [v \in Vars |-> IF v \in free THEN g[v] ELSE fut[v]] OBVIOUS
    <2>3. \A v \in Vars : f[v] \in after(v) BY <2>1, <2>2
    <2>4. m = [cg EXCEPT !.fut = f] BY <2>1, <2>2
    <2>5. ASSUME NEW v \in Vars, v \notin args \cup {tar}, f[v] # "dead" PROVE fut[v] # "dead"
      <3>1. f[v] \in IF v \in implicit /\ fut[v] = "live" THEN {"live", "dead"} ELSE {fut[v]}
        BY <2>3, <2>5
      <3> QED BY <2>5, <3>1
    <2> HIDE DEF after, free
    <2> QED BY <2>4, <2>5
  <1>3. cg \in Gen BY SoundIs DEF VInv
  <1>4. /\ m.reg = cg.reg /\ m.addr = cg.addr /\ m.temps = cg.temps /\ m.R = cg.R /\ m.M = cg.M
        /\ m.fut = f /\ m.faults = cg.faults
    BY <1>2, <1>3 DEF Gen
  <1>5. \A v \in Alive(cg) : Present(m, v) BY <1>4, PresentSame, SoundIs DEF VInv
  <1>6. m \in Sound(Alive(cg)) BY <1>4, <1>5, SoundIs DEF VInv, Sound
  <1>7. \A a \in args \cap Vars : a \in Alive(cg) /\ fut[a] = "next" BY <1>1, VarsAre, AliveIs
  <1>8. \A v \in implicit \cap Vars : v \in Alive(cg) BY <1>1, AliveIs
  <1>9. Alive(m) \ {tar} \subseteq Alive(cg)
    <2>1. ASSUME NEW v \in Alive(m) \ {tar} PROVE v \in Alive(cg)
      <3>1. v \in Vars /\ f[v] # "dead" BY <1>4 DEF Alive
      <3> QED BY <1>2, <1>7, <3>1, AliveIs
    <2> QED BY <2>1
  <1> QED BY <1>4, <1>6, <1>7, <1>8, <1>9

\* What a state keeps of the contents is enough.
LEMMA FinishSound ==
  ASSUME IInv', NEW n, n \in Sound(Alive(n)), Commit(n) PROVE VInv'
  <1>1. n \in States /\ n \in Gen BY SoundIs
  <1>2. /\ reg_descr_tab' = n.reg /\ addr_descr_tab' = n.addr /\ temp_list' = n.temps
        /\ fut' = n.fut /\ faults' = n.faults
        /\ R' = [r \in Regs |->
               IF n.reg[r] = NoVar THEN n.R[r] \cap ({Arg} \X n.passed)
               ELSE n.R[r] \cap (({n.reg[r]} \X {1, 2}) \cup Addresses(n.reg[r]))]
        /\ M' = [L \in Locs |-> [w \in {1, 2} |->
               {t \in n.M[L][w] :
                  \/ t[1] \in Vars /\ Vouched(n, L, t[1])
                  \/ t[2] = 0 /\ L \in DOMAIN n.temps /\ n.temps[L] \in Structs}]]
    BY DEF Commit
  <1>3. PICK q : q = cg' OBVIOUS
  <1>4. q \in States
    <2>1. Going(cg, NoVar, {}, {})' BY DEF IInv
    <2>2. Going(q, NoVar, {}, {})' BY <1>3, <2>1
    <2>3. (Marked(q, NoVar, {}, Usable[target]))' BY <2>2 DEF Going
    <2> QED BY <2>3 DEF Marked
  <1>5. /\ q.reg = n.reg /\ q.addr = n.addr /\ q.temps = n.temps /\ q.fut = n.fut /\ q.faults = n.faults
        /\ q.R = R' /\ q.M = M'
    BY <1>2, <1>3 DEF cg
  <1>6. \A v : Home(q, v) = Home(n, v) /\ (HasSlot(q, v) <=> HasSlot(n, v)) /\ (InReg(q, v) <=> InReg(n, v))
               /\ addr_reg1(q, v) = addr_reg1(n, v)
    BY <1>5 DEF Home, SlotOf, HasSlot, InReg, addr_reg1
  <1>7. Alive(q) = Alive(n) BY <1>5 DEF Alive
  <1>8. ASSUME NEW v \in Alive(n) PROVE Present(q, v)
    <2>1. Present(n, v) /\ v \in Vars /\ n.fut[v] # "dead" BY SoundIs DEF Alive
    <2>2. CASE InReg(n, v)
      <3>1. addr_reg1(n, v) \in Regs /\ n.reg[addr_reg1(n, v)] = v BY <1>1, <2>1, <2>2, RegOf
      <3>2. <<v, 1>> \in n.R[addr_reg1(n, v)] BY <2>1, <2>2 DEF Present
      <3>3. v # NoVar BY <2>1, VarsAre
      <3>4. <<v, 1>> \in q.R[addr_reg1(n, v)] BY <1>2, <1>5, <3>1, <3>2, <3>3
      <3> QED BY <1>6, <2>2, <3>4 DEF Present
    <2>3. CASE ~InReg(n, v)
      <3>1. InMemory(n, v) BY <2>1, <2>3 DEF Present
      <3>2. Home(n, v) \in Locs BY <1>1, <2>1, <3>1, HomeIs DEF InMemory
      <3>3. Vouched(n, Home(n, v), v)
        <4>1. CASE v \in Temps
          <5>1. SlotOf(n, v) \in DOMAIN n.temps /\ n.temps[SlotOf(n, v)] = v
            BY <1>1, <3>1, <4>1, SlotIs DEF InMemory
          <5> QED BY <2>1, <2>3, <4>1, <5>1 DEF Vouched, Home
        <4>2. CASE v \notin Temps BY <2>1, <2>3, <4>2 DEF Vouched, Home
        <4> QED BY <4>1, <4>2
      <3>4. PICK L \in Locs : L = Home(n, v) BY <3>2
      <3>5. q.M[L][1] = {t \in n.M[L][1] :
                  \/ t[1] \in Vars /\ Vouched(n, L, t[1])
                  \/ t[2] = 0 /\ L \in DOMAIN n.temps /\ n.temps[L] \in Structs}
        BY <1>2, <1>5
      <3>6. <<v, 1>> \in n.M[L][1] /\ <<v, 1>>[1] \in Vars /\ Vouched(n, L, <<v, 1>>[1])
        BY <2>1, <3>1, <3>3, <3>4 DEF InMemory
      <3>7. <<v, 1>> \in q.M[Home(n, v)][1] BY <3>4, <3>5, <3>6
      <3> QED BY <1>6, <2>3, <3>1, <3>7 DEF Present, InMemory
    <2> QED BY <2>2, <2>3
  <1>9. q \in Sound(Alive(q)) BY <1>4, <1>5, <1>7, <1>8, SoundIs DEF Sound
  <1>10. (cg \in Sound(Alive(cg)))'
    <2>1. \A m : Sound(Alive(m))' = Sound(Alive(m))
      BY DEF Sound, Alive, States, Present, InReg
    <2> QED BY <1>3, <1>9, <2>1
  <1> QED BY <1>10 DEF VInv

\* The descriptors of both operands are updated: T is what lives on but for the target.
LEMMA ArgsSound ==
  ASSUME NEW tar, NEW n, NEW T \in SUBSET Vars, T \subseteq Alive(n) \ {tar}, n \in Sound(T),
         NEW a1 \in Vars \cup {Const}, NEW a2 \in Vars \cup {Const},
         NEW k, k = UpdatedArg(n, a1, Live1(n, tar, a1), Used1(n, tar, a1)),
         NEW q, q = UpdatedArg(k, a2, Live2(n, tar, a1, a2), Used2(n, tar, a1, a2))
  PROVE  q \in Sound(T) /\ q.R = n.R
  <1>1. a1 \in T => Live1(n, tar, a1) BY DEF Alive, Live1, Live
  <1>2. a2 \in T => Live2(n, tar, a1, a2) BY DEF Alive, Live2, Live
  <1>3. k \in Sound(T) /\ k.R = n.R BY <1>1, UpdatedArgSound
  <1>4. q \in Sound(T) /\ q.R = k.R BY <1>2, <1>3, UpdatedArgSound
  <1> QED BY <1>3, <1>4

\* At the start of a block the objects are in memory, and the temporaries where they were.
LEMMA EntrySound ==
  ASSUME IInv', NEW n \in States, "operand" \notin n.faults, \A v \in Vars : ~InReg(n, v), NEW dom,
         \A v \in Temps \cap dom : InMemory(n, v), Entry(n, dom)
  PROVE  VInv'
  <1>1. PICK f \in [Vars -> {"next", "live", "dead"}] :
          /\ \A v \in Temps \ dom : f[v] = "dead"
          /\ Commit([n EXCEPT !.fut = f,
                              !.M = [L \in Locs |-> [w \in {1, 2} |->
                                       n.M[L][w] \cup (IF L \in Ids THEN {<<L, w>>} ELSE {})]]])
    BY DEF Entry
  <1>2. PICK N : N = [L \in Locs |-> [w \in {1, 2} |-> n.M[L][w] \cup (IF L \in Ids THEN {<<L, w>>} ELSE {})]]
    OBVIOUS
  <1>3. n \in Gen /\ Agree(n) /\ OneSlot(n.temps) BY DEF States
  <1>4. N \in Memory
    <2>1. ASSUME NEW L \in Locs, NEW w \in {1, 2}
          PROVE  n.M[L][w] \cup (IF L \in Ids THEN {<<L, w>>} ELSE {}) \in Contents
      <3>1. n.M[L][w] \in Contents BY <1>3, Contained
      <3>2. L \in Ids => {<<L, w>>} \in Contents BY TokensAre DEF Ids
      <3> QED BY <3>1, <3>2 DEF Contents
    <2> QED BY <1>2, <2>1 DEF Memory
  <1>5. PICK q : q = [n EXCEPT !.fut = f, !.M = N] OBVIOUS
  <1>6. /\ q \in Gen /\ q.reg = n.reg /\ q.addr = n.addr /\ q.temps = n.temps /\ q.fut = f
        /\ q.faults = n.faults /\ q.M = N
    BY <1>3, <1>4, <1>5 DEF Gen
  <1>7. q \in States BY <1>3, <1>6 DEF States, Agree
  <1>8. \A v : Home(q, v) = Home(n, v) /\ (HasSlot(q, v) <=> HasSlot(n, v)) /\ (InReg(q, v) <=> InReg(n, v))
    BY <1>6 DEF Home, SlotOf, HasSlot, InReg, addr_reg1
  <1>9. ASSUME NEW v \in Alive(q) PROVE Present(q, v)
    <2>1. v \in Vars /\ f[v] # "dead" /\ ~InReg(q, v) BY <1>6, <1>8 DEF Alive
    <2>2. CASE v \in Temps
      <3>1. InMemory(n, v) BY <1>1, <2>1, <2>2
      <3>2. Home(n, v) \in Locs BY <2>1, <3>1, HomeIs DEF InMemory
      <3>3. n.M[Home(n, v)][1] \subseteq N[Home(n, v)][1] BY <1>2, <3>2
      <3> QED BY <1>6, <1>8, <2>1, <3>1, <3>3 DEF Present, InMemory
    <2>3. CASE v \notin Temps
      <3>1. v \in Ids /\ v \in Locs /\ Home(q, v) = v BY <2>1, <2>3 DEF Ids, Locs, Home
      <3>2. <<v, 1>> \in N[v][1] BY <1>2, <3>1
      <3> QED BY <1>6, <2>1, <2>3, <3>1, <3>2 DEF Present, InMemory
    <2> QED BY <2>2, <2>3
  <1>10. q \in Sound(Alive(q)) BY <1>6, <1>7, <1>9 DEF Sound
  <1>11. Commit(q) BY <1>1, <1>2, <1>5
  <1> QED BY <1>10, <1>11, FinishSound

LEMMA NextBlockSound ==
  ASSUME IInv, IInv', VInv, LastOfBlock(cg), Entry(cg, {v \in Temps : fut[v] = "live"}) PROVE VInv'
  <1>1. cg \in States /\ "operand" \notin cg.faults /\ \A v \in Alive(cg) : Present(cg, v) BY SoundIs DEF VInv
  <1>2. \A v \in Vars : ~InReg(cg, v) BY BlockEnds DEF Busy
  <1>3. PICK dom : dom = {v \in Temps : fut[v] = "live"} OBVIOUS
  <1>4. ASSUME NEW v \in Temps \cap dom PROVE InMemory(cg, v)
    <2>1. v \in Alive(cg) /\ v \in Vars BY <1>3, VarsAre, AliveIs
    <2> QED BY <1>1, <1>2, <2>1 DEF Present
  <1> QED BY <1>1, <1>2, <1>3, <1>4, EntrySound

LEMMA NewFunctionSound == ASSUME IInv', VInv, NewFunction PROVE VInv'
  <1>1. cg \in States /\ cg \in Gen /\ "operand" \notin cg.faults BY SoundIs DEF VInv
  <1>2. PICK g : g = [r \in Regs |-> NoVar] OBVIOUS
  <1>3. PICK h : h = [v \in Vars |-> NoReg] OBVIOUS
  <1>4. PICK n : n = [cg EXCEPT !.reg = g, !.addr = h,
                                !.pinned = {}, !.modified = {}, !.temps = <<>>, !.written = {}]
    OBVIOUS
  <1>5. Entry(n, {}) BY <1>2, <1>3, <1>4 DEF NewFunction
  <1>6. NoReg \in Pairs /\ NoReg.r1 = None /\ NoReg.r2 = None BY DEF NoReg, Pairs
  <1>7. g \in [Regs -> Vars \cup {NoVar}] /\ h \in [Vars -> Pairs] BY <1>2, <1>3, <1>6
  <1>8. <<>> \in Seq(Temps \cup {NoVar}) /\ Len(<<>>) = 0 /\ DOMAIN <<>> = {} OBVIOUS
  <1>9. n \in Gen /\ n.reg = g /\ n.addr = h /\ n.temps = <<>> /\ n.faults = cg.faults
    BY <1>1, <1>4, <1>7, <1>8 DEF Gen
  <1>10. Agree(n) BY <1>2, <1>3, <1>6, <1>9, RegsAre, CGenRegsAssumption DEF Agree
  <1>11. OneSlot(n.temps) BY <1>8, <1>9, TempsFinite DEF OneSlot
  <1>12. n \in States BY <1>9, <1>10, <1>11 DEF States
  <1>13. \A v \in Vars : ~InReg(n, v) BY <1>3, <1>6, <1>9 DEF InReg, addr_reg1
  <1>14. PICK dom : dom = {} OBVIOUS
  <1>15. \A v \in Temps \cap dom : InMemory(n, v) BY <1>14
  <1>16. Entry(n, dom) BY <1>5, <1>14
  <1> QED BY <1>1, <1>9, <1>12, <1>13, <1>15, <1>16, EntrySound

LEMMA StartsSound == ASSUME Init PROVE VInv
  <1>1. cg \in States BY Starts, GoingIs DEF IInv
  <1>2. Alive(cg) = {} BY AliveIs DEF Init
  <1>3. cg.faults = {} BY DEF Init, cg
  <1> QED BY <1>1, <1>2, <1>3 DEF VInv, Sound

LEMMA RestsSound == ASSUME VInv, UNCHANGED vars PROVE VInv'
  <1>1. PICK q : q = cg OBVIOUS
  <1>2. cg' = q BY <1>1 DEF vars, cg
  <1>3. q \in Sound(Alive(q)) BY <1>1 DEF VInv
  <1>4. (cg \in Sound(Alive(cg)))'
    <2>1. \A m : Sound(Alive(m))' = Sound(Alive(m))
      BY DEF Sound, Alive, States, Present, InReg
    <2> QED BY <1>2, <1>3, <2>1
  <1> QED BY <1>4 DEF VInv

LEMMA SoundShows == ASSUME VInv, Plain PROVE OperandsRight /\ NothingLost
  <1>1. cg \in States /\ "operand" \notin cg.faults /\ \A v \in Alive(cg) : Present(cg, v) BY SoundIs DEF VInv
  <1>2. /\ cg.faults = faults /\ cg.addr = addr_descr_tab /\ cg.temps = temp_list /\ cg.R = R /\ cg.M = M
    BY DEF cg
  <1>3. ASSUME NEW v \in Vars, fut[v] # "dead" PROVE InPlace(v)
    <2>1. Present(cg, v) BY <1>1, <1>3, AliveIs
    <2>2. Words(v) = {1} /\ v \notin Structs BY DEF Words, Plain
    <2>3. CASE InReg(cg, v)
      <3>1. <<v, 1>> \in R[addr_descr_tab[v].r1] BY <1>2, <2>1, <2>3 DEF Present, addr_reg1
      <3> QED BY <2>2, <2>3, <3>1 DEF InPlace, Holds
    <2>4. CASE ~InReg(cg, v) /\ v \in Temps
      <3>1. HasSlot(cg, v) /\ <<v, 1>> \in cg.M[SlotOf(cg, v)][1] BY <2>1, <2>4 DEF Present, InMemory, Home
      <3>2. SlotOf(cg, v) \in DOMAIN cg.temps /\ cg.temps[SlotOf(cg, v)] = v BY <1>1, <3>1, SlotIs
      <3>3. PICK k : k = SlotOf(cg, v) OBVIOUS
      <3>4. k \in DOMAIN temp_list /\ temp_list[k] = v /\ Holds(cg, M[k][1], v, 1)
        BY <1>2, <2>2, <3>1, <3>2, <3>3 DEF Holds
      <3> QED BY <2>2, <2>4, <3>4 DEF InPlace
    <2>5. CASE ~InReg(cg, v) /\ v \notin Temps
      <3>1. <<v, 1>> \in M[v][1] BY <1>2, <2>1, <2>5 DEF Present, InMemory, Home
      <3> QED BY <2>2, <2>5, <3>1 DEF InPlace
    <2> QED BY <2>3, <2>4, <2>5
  <1> QED BY <1>1, <1>2, <1>3 DEF OperandsRight, NothingLost
=============================================================================
