------------------------------ MODULE CGenRegs ------------------------------
(***************************************************************************)
(* What the code generators of LuxCC (x86, x64, ARM, MIPS) have in common: *)
(* register and address descriptors, temporary slots, and the machine that *)
(* the emitted code runs on.                                               *)
(*                                                                         *)
(* A helper is an operator from the code generator's state m to its state  *)
(* after the call.  What a get_*() function returns is left in m:          *)
(*   m.got      the register of get_reg0()                                 *)
(*   m.res      the register (r1) or pair of get_reg() and get_reg2()      *)
(*   m.opd      what the operand of get_operand() holds                    *)
(* and m records what the instructions emitted so far do to the machine:   *)
(*   m.R[r]     what register r holds                                      *)
(*   m.M[L][w]  what word w of memory location L holds                     *)
(* A content is a set of tokens: <<v, w>> says that word w of the CURRENT  *)
(* value of variable v is there (a copy makes two variables share a place),*)
(* <<L, 0>> that the address of location L is there, <<Arg, k>> that the   *)
(* k-th argument word of the call being prepared is there.  Whatever is in *)
(* no token is unknown.                                                    *)
(***************************************************************************)
EXTENDS Integers, Sequences, FiniteSets, FiniteSetsExt, TLC

CONSTANTS
  Regs,       \* the registers of the machine that an instance uses
  Vars,       \* the variables and temporaries of the function
  Temps,      \* the temporaries among them (TempKind)
  Bytes,      \* variables narrower than the operations on them (char, short)
  Wide,       \* 64-bit variables
  Structs,    \* structures and unions
  Pointed,    \* variables that pointers may point at
  NoVar,      \* no variable: an empty register, a free temporary slot
  Const,      \* a constant operand
  Arg,        \* the arguments of the call being prepared
  Far,        \* memory that is reached through pointers only
  Area        \* the frame's area for the result of a structure-valued call

None == -1
Ids   == Vars \ Temps
Slots == 1 .. Cardinality(Temps)
Locs  == Ids \cup Slots \cup {Far, Area}
Tokens == ((Vars \cup {Const}) \X {1, 2}) \cup (Locs \X {0}) \cup ({Arg} \X (0 .. 3))

ASSUME CGenRegsAssumption ==
  /\ Regs \subseteq Nat /\ \E last \in Regs : \A r \in Regs : r <= last
  /\ IsFiniteSet(Vars)
  /\ Temps \subseteq Vars /\ Bytes \subseteq Ids
  /\ Wide \subseteq Vars /\ Structs \subseteq Vars /\ Pointed \subseteq Ids
  /\ Bytes \cap Wide = {} /\ Structs \cap (Bytes \cup Wide) = {}
  /\ {NoVar, Const, Arg, Far, Area} \cap Vars = {} /\ Const \notin {NoVar, Arg}

\* Temporary slots, the variables' own memory and the other places are apart.
ASSUME PlacesAssumption == Slots \cap (Vars \cup {Far, Area}) = {}

-----------------------------------------------------------------------------
addr_reg1(m, a) == m.addr[a].r1
addr_reg2(m, a) == m.addr[a].r2
reg_isempty(m, r) == m.reg[r] = NoVar
InReg(m, a) == a # Const /\ addr_reg1(m, a) # None
NoReg == [r1 |-> None, r2 |-> None]
Pair(p, q) == [r1 |-> p, r2 |-> q]

pin_reg(m, r) == [m EXCEPT !.pinned = @ \cup {r}]
\* Mutant: a register once pinned stays pinned.
unpin_reg_mut(m, r) == m

unpin_reg(m, r) == [m EXCEPT !.pinned = @ \ {r}]

\* The effect of emitted code on the registers.
SetReg(m, r, X) == [m EXCEPT !.R[r] = X, !.written = @ \cup {r}]
Clobber(m, S) == [m EXCEPT !.R = [r \in Regs |-> IF r \in S THEN {} ELSE @[r]],
                           !.written = @ \cup S]
Move(m, r, from) == IF r = from THEN m ELSE SetReg(m, r, m.R[from])

Fault(m, kind, ok) == IF ok THEN m ELSE [m EXCEPT !.faults = @ \cup {kind}]

\* Content X is word w of the value of a.  The value of a structure is
\* represented by the address of a place that holds it.
Holds(m, X, a, w) ==
  IF a \in Structs
    THEN \E L \in Locs : <<L, 0>> \in X /\ <<a, 1>> \in m.M[L][1]
    ELSE <<a, w>> \in X

\* The instruction just emitted reads X where it should read word w of a.
Reads(m, X, a, w) == Fault(m, "operand", Holds(m, X, a, w))

-----------------------------------------------------------------------------
\* Temporary slots of the frame: m.temps[k] is the owner of slot k.
HasSlot(m, a) == \E k \in DOMAIN m.temps : m.temps[k] = a
SlotOf(m, a) == CHOOSE k \in DOMAIN m.temps : m.temps[k] = a

\* Mutant: the slots in use are not searched.
get_temp_offs_mut(m, a) ==
  IF HasSlot(m, NoVar) THEN [m EXCEPT !.temps[Max({k \in DOMAIN m.temps : m.temps[k] = NoVar})] = a]
  ELSE [m EXCEPT !.temps = Append(@, a)]

\* get_temp_offs(): the list is searched from the newest slot to the oldest.
get_temp_offs(m, a) ==
  IF HasSlot(m, a) THEN m
  ELSE IF HasSlot(m, NoVar)
    THEN [m EXCEPT !.temps[Max({k \in DOMAIN m.temps : m.temps[k] = NoVar})] = a]
  ELSE [m EXCEPT !.temps = Append(@, a)]

\* Mutant: the slot of a dead temporary is never given back.
free_temp_mut(m, a) == m

free_temp(m, a) == IF HasSlot(m, a) THEN [m EXCEPT !.temps[SlotOf(m, a)] = NoVar] ELSE m

\* The memory an IdKind or TempKind variable is loaded from and stored to.
WithHome(m, a) == IF a \in Temps THEN get_temp_offs(m, a) ELSE m
Home(m, a) == IF a \in Temps THEN SlotOf(m, a) ELSE a
FromHome(m, r, a, w) == SetReg(m, r, m.M[Home(m, a)][w])
ToHome(m, r, a, w) == [m EXCEPT !.M[Home(m, a)][w] = m.R[r]]

\* The locations register r points at, and a copy of what src holds to dst.  A
\* pointer may have reached the target, too.
PointedBy(m, r) == {L \in Locs : <<L, 0>> \in m.R[r]}
Copied(M, src, dst) ==
  [L \in Locs |-> [M[L] EXCEPT ![1] =
     IF L \in dst \ src THEN UNION {M[K][1] : K \in src}
     ELSE IF L = Far /\ dst \cap Pointed # {} THEN {} ELSE @]]

-----------------------------------------------------------------------------
\* The variable a leaves its registers d.
Release(m, a, d) ==
  [m EXCEPT !.reg = [r \in Regs |-> IF r \in {d.r1, d.r2} THEN NoVar ELSE @[r]],
            !.addr[a] = NoReg]

\* Register r is spilled, Store being the target's way to store a variable.
SpillReg(m, r, Store(_, _)) ==
  IF reg_isempty(m, r) THEN m
  ELSE Release(Store(m, m.reg[r]), m.reg[r], m.addr[m.reg[r]])

\* The registers that hold a variable of S are spilled in order; a pair is spilled
\* with its first register.
LastReg == Max(Regs)
SpillThese(m, S, Spill(_, _)) ==
  IF \A r \in Regs : m.reg[r] \notin S THEN m
  ELSE LET f[r \in -1 .. LastReg] ==
             IF r = -1 THEN m
             ELSE LET n == f[r - 1]
                  IN  IF r \in Regs /\ n.reg[r] \in S THEN Spill(n, r) ELSE n
       IN  f[LastReg]

EmptyRegs(m, pool) == {r \in pool : reg_isempty(m, r)}

Got1(m) == [m EXCEPT !.res.r1 = m.got]
Got2(m) == [m EXCEPT !.res.r2 = m.got]
Into(m, r1, r2) == [m EXCEPT !.res = Pair(r1, r2)]
PinRes(m) == pin_reg(m, m.res.r1)
UnpinRes(m) == unpin_reg(m, m.res.r1)

\* get_reg(): the register of the first operand, if its value dies here.
GetReg(m, arg1, arg1_liveness, Get0(_)) ==
  IF InReg(m, arg1) /\ ~arg1_liveness THEN [m EXCEPT !.res.r1 = addr_reg1(m, arg1)]
                                      ELSE Got1(Get0(m))

HighReg(m, arg1, arg1_liveness, Get0(_)) ==
  IF arg1 # Const /\ ~arg1_liveness /\ addr_reg2(m, arg1) # None
    THEN [m EXCEPT !.res.r2 = addr_reg2(m, arg1)]
    ELSE Got2(Get0(m))

GetReg2(m, arg1, arg1_liveness, Get0(_)) ==
  UnpinRes(HighReg(PinRes(GetReg(m, arg1, arg1_liveness, Get0)), arg1, arg1_liveness, Get0))

\* load(): the address of a structure stands for its value.
Load(m, r, a) ==
  IF a = Const THEN SetReg(m, r, {<<Const, 1>>})
  ELSE IF InReg(m, a) THEN Move(m, r, addr_reg1(m, a))
  ELSE IF a \in Structs \cap Ids THEN SetReg(m, r, {<<a, 0>>})
  ELSE FromHome(WithHome(m, a), r, a, 1)

\* What load2() asserts of the registers of a variable it copies.
PairExpected(d, r, a) ==
  IF a \in Temps THEN d.r2 # None
  ELSE IF d.r1 # r.r1 THEN d.r2 # r.r2 ELSE d.r2 = r.r2

\* load2(): the two moves are emitted one after the other, the low word first.
Load2(m, r, a) ==
  IF a = Const THEN SetReg(SetReg(m, r.r1, {<<Const, 1>>}), r.r2, {<<Const, 2>>})
  ELSE IF InReg(m, a)
    THEN IF PairExpected(m.addr[a], r, a)
           THEN Move(Move(m, r.r1, addr_reg1(m, a)), r.r2, addr_reg2(m, a))
           ELSE Fault(m, "assert", FALSE)
  ELSE FromHome(FromHome(WithHome(m, a), r.r1, a, 1), r.r2, a, 2)

Store2(m, r, a) == ToHome(ToHome(WithHome(m, a), r.r1, a, 1), r.r2, a, 2)

\* The operand is what a content, the register of get_reg0() or memory holds.
Operand(m, X) == [m EXCEPT !.opd = X]
InGot(m) == Operand(m, m.R[m.got])
InHome(m, a, w) == Operand(m, m.M[Home(m, a)][w])

-----------------------------------------------------------------------------
Kept(m, arg, liveness, Store(_, _)) ==
  IF liveness /\ InReg(m, arg) THEN Store(m, arg)
  ELSE IF ~liveness /\ arg \in Temps THEN free_temp(m, arg)
  ELSE m

UpdateArg(m, arg, liveness, next_use, Store(_, _)) ==
  IF arg = Const \/ next_use THEN m
  ELSE Release(Kept(m, arg, liveness, Store), arg, m.addr[arg])

Bind2(m, r, tar) == [m EXCEPT !.addr[tar] = r, !.reg[r.r1] = tar, !.reg[r.r2] = tar]
Bind(m, r, tar) == [m EXCEPT !.addr[tar].r1 = r, !.reg[r] = tar]

UpdateTar2(m, r, tar, liveness, next_use, Store(_, _, _)) ==
  IF next_use THEN Bind2(m, r, tar)
  ELSE Release(IF liveness THEN Store(Bind2(m, r, tar), r, tar) ELSE Bind2(m, r, tar), tar, r)

\* addr_reg2(tar) is left as it is.
Unbind(m, r, tar) == [m EXCEPT !.addr[tar].r1 = None, !.reg[r] = NoVar]

\* The target is bound before it is stored: the store of a structure looks at it.
UpdateTar(m, r, tar, liveness, next_use, Store(_, _, _)) ==
  IF next_use THEN Bind(m, r, tar)
  ELSE Unbind(IF liveness THEN Store(Bind(m, r, tar), r, tar) ELSE Bind(m, r, tar), r, tar)
=============================================================================
