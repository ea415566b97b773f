--------------------------- MODULE NextUseProofs ---------------------------
(***************************************************************************)
(* The marks of the backward scan are exact, for every block, every set of *)
(* variables live on exit and every set of aliased variables.              *)
(***************************************************************************)
EXTENDS NextUse, TLAPS

\* Looking forward from k is looking at k and then forward from k + 1.
LEMMA UndefinedStep ==
  ASSUME NEW k \in Nat, NEW j \in Nat, j > k, NEW v
  PROVE  Undefined(v, k, j) <=> v \notin Defs(code[k]) /\ Undefined(v, k + 1, j)
<1>1. \A m \in Int : m \in k .. j - 1 <=> m = k \/ m \in k + 1 .. j - 1
  OBVIOUS
<1>. QED  BY <1>1 DEF Undefined

\* The value of v before instruction k is needed if k reads it, or if k leaves
\* it alone and it is needed after k.
LEMMA LiveStep ==
  ASSUME Len(code) \in Nat, NEW k \in 1 .. Len(code), NEW v
  PROVE  LiveFrom(v, k) <=> \/ v \in Uses(code[k]) \cup MayRead(code[k])
                            \/ v \notin Defs(code[k]) /\ LiveFrom(v, k + 1)
<1>1. k \in Nat /\ Len(code) + 1 > k /\ Len(code) + 1 \in Nat
  OBVIOUS
<1>2. Undefined(v, k, k)
  BY <1>1 DEF Undefined
<1>3. Undefined(v, k, Len(code) + 1) <=> v \notin Defs(code[k]) /\ Undefined(v, k + 1, Len(code) + 1)
  BY <1>1, UndefinedStep
<1>4. \A j \in k + 1 .. Len(code) :
        Undefined(v, k, j) <=> v \notin Defs(code[k]) /\ Undefined(v, k + 1, j)
  BY <1>1, UndefinedStep
<1>5. \A j : j \in k .. Len(code) <=> j = k \/ j \in k + 1 .. Len(code)
  BY <1>1
<1>. QED  BY <1>2, <1>3, <1>4, <1>5 DEF LiveFrom

\* The same for a use by name inside the block.
LEMMA UsedStep ==
  ASSUME Len(code) \in Nat, NEW k \in 1 .. Len(code), NEW v
  PROVE  UsedFrom(v, k) <=> \/ v \in Uses(code[k])
                            \/ v \notin Defs(code[k]) /\ UsedFrom(v, k + 1)
<1>1. k \in Nat
  OBVIOUS
<1>2. Undefined(v, k, k)
  BY <1>1 DEF Undefined
<1>4. \A j \in k + 1 .. Len(code) :
        Undefined(v, k, j) <=> v \notin Defs(code[k]) /\ Undefined(v, k + 1, j)
  BY <1>1, UndefinedStep
<1>5. \A j : j \in k .. Len(code) <=> j = k \/ j \in k + 1 .. Len(code)
  BY <1>1
<1>. QED  BY <1>2, <1>4, <1>5 DEF UsedFrom

\* What annotate() marks, operand by operand.
LEMMA Annotated ==
  ASSUME NEW q \in Quad, Uses(q) \subseteq Vars
  PROVE  /\ \A v \in Defs(q) :
              /\ "TAR_LIVE" \in annotate(q) <=> v \in operand_liveness
              /\ "TAR_NEXT" \in annotate(q) <=> v \in operand_next_use
         /\ \A v \in Operand1(q) :
              /\ "AR1_LIVE" \in annotate(q) <=> v \in operand_liveness \ Defs(q)
              /\ "AR1_NEXT" \in annotate(q) <=> v \in operand_next_use \ Defs(q)
         /\ \A v \in Operand2(q) \ Operand1(q) :
              /\ "AR2_LIVE" \in annotate(q) <=> v \in operand_liveness \ Defs(q)
              /\ "AR2_NEXT" \in annotate(q) <=> v \in operand_next_use \ Defs(q)
  BY DEF annotate, Mark, Defs, Operand1, Operand2

\* Every step of the scan keeps its sets and the marks made so far exact.
LEMMA ScanStep == TypeOK /\ ScanInv /\ FlagsRight /\ [Next]_vars => (TypeOK /\ ScanInv /\ FlagsRight)'
<1>. USE QuadsAssumption, NextUseAssumption
<1>. SUFFICES ASSUME TypeOK, ScanInv, FlagsRight, [Next]_vars
              PROVE  (TypeOK /\ ScanInv /\ FlagsRight)'
  OBVIOUS
<1>1. CASE UNCHANGED vars
  BY <1>1 DEF vars, TypeOK, ScanInv, FlagsRight, LiveFrom, UsedFrom, Undefined, Right, Gone
<1>2. CASE scan
  <2>. DEFINE q == code[i]
  <2>1. /\ code \in Seq(Quad) /\ Len(code) \in Nat /\ i \in 1 .. Len(code) /\ q \in Quad
        /\ i \in Nat /\ i - 1 \in Nat /\ (i - 1) + 1 = i
    BY <1>2 DEF scan, TypeOK
  <2>2. /\ flags' = [flags EXCEPT ![i] = annotate(q)]
        /\ operand_liveness' = (operand_liveness \ Defs(q)) \cup Uses(q) \cup MayRead(q)
        /\ operand_next_use' = (operand_next_use \ Defs(q)) \cup Uses(q)
        /\ i' = i - 1 /\ code' = code /\ LiveOut' = LiveOut
    BY <1>2 DEF scan
  <2>3. Uses(q) \subseteq Vars /\ MayRead(q) \subseteq Vars
    BY <2>1 DEF Uses, MayRead, Quad, Operand
  <2>4. annotate(q) \subseteq Marks
    BY DEF annotate, Mark, Marks
  <2>. HIDE DEF q
  <2>5. TypeOK'
    BY <2>1, <2>2, <2>3, <2>4 DEF TypeOK
  <2>7. ScanInv'
    <3>1. \A v \in Vars : v \in operand_liveness' <=> LiveFrom(v, i)
      BY <2>1, <2>2, LiveStep DEF ScanInv, q
    <3>2. \A v \in Vars : v \in operand_next_use' <=> UsedFrom(v, i)
      BY <2>1, <2>2, UsedStep DEF ScanInv, q
    <3>3. operand_liveness' \subseteq Vars /\ operand_next_use' \subseteq Vars
      BY <2>5 DEF TypeOK
    <3>4. i' + 1 = i
      BY <2>1, <2>2
    <3>5. operand_liveness' = {v \in Vars : LiveFrom(v, i)}
      BY <3>1, <3>3
    <3>6. operand_next_use' = {v \in Vars : UsedFrom(v, i)}
      BY <3>2, <3>3
    <3>. QED  BY <2>2, <3>4, <3>5, <3>6 DEF ScanInv, LiveFrom, UsedFrom, Undefined
  <2>8. FlagsRight'
    <3>. SUFFICES ASSUME NEW k \in i .. Len(code)
                  PROVE /\ \A v \in Defs(code[k]) : Right(k, v, "TAR_LIVE", "TAR_NEXT")'
                        /\ \A v \in Operand1(code[k]) :
                             IF v \in Defs(code[k]) THEN Gone(k, "AR1_LIVE", "AR1_NEXT")'
                                                    ELSE Right(k, v, "AR1_LIVE", "AR1_NEXT")'
                        /\ \A v \in Operand2(code[k]) \ Operand1(code[k]) :
                             IF v \in Defs(code[k]) THEN Gone(k, "AR2_LIVE", "AR2_NEXT")'
                                                    ELSE Right(k, v, "AR2_LIVE", "AR2_NEXT")'
      <4>1. (i' + 1 .. Len(code)) = i .. Len(code)
        BY <2>1, <2>2
      <4>. QED  BY <2>2, <4>1 DEF FlagsRight
    <3>1. CASE k \in i + 1 .. Len(code)
      <4>1. flags'[k] = flags[k]
        BY <2>1, <2>2, <3>1 DEF TypeOK
      <4>2. \A v, L, M : /\ Right(k, v, L, M)' <=> Right(k, v, L, M)
                         /\ Gone(k, L, M)' <=> Gone(k, L, M)
        BY <2>2, <4>1 DEF Right, Gone, LiveFrom, UsedFrom, Undefined
      <4>. QED  BY <3>1, <4>2 DEF FlagsRight
    <3>2. CASE k = i
      <4>1. flags'[k] = annotate(q)
        BY <2>1, <2>2, <3>2 DEF TypeOK
      <4>2. Defs(q) \subseteq Vars /\ Operand1(q) \subseteq Vars /\ Operand2(q) \subseteq Vars
        BY <2>1 DEF Defs, Operand1, Operand2, Quad, Operand
      <4>3. \A v \in Vars : /\ v \in operand_liveness <=> LiveFrom(v, k + 1)
                            /\ v \in operand_next_use <=> UsedFrom(v, k + 1)
        BY <3>2 DEF ScanInv
      <4>4. \A v \in Vars : \A L, M :
              (/\ L \in annotate(q) <=> v \in operand_liveness
               /\ M \in annotate(q) <=> v \in operand_next_use) => Right(k, v, L, M)'
        BY <2>2, <4>1, <4>3 DEF Right, LiveFrom, UsedFrom, Undefined
      <4>5. \A L, M : L \notin annotate(q) /\ M \notin annotate(q) => Gone(k, L, M)'
        BY <2>2, <4>1 DEF Gone
      <4>6. code[k] = q
        BY <3>2 DEF q
      <4>. QED  BY <2>1, <2>3, <3>2, <4>2, <4>4, <4>5, <4>6, Annotated
    <3>. QED  BY <2>1, <3>1, <3>2
  <2>. QED  BY <2>5, <2>7, <2>8
<1>. QED  BY <1>1, <1>2 DEF Next

LEMMA ScanAlways == Spec => [](TypeOK /\ ScanInv /\ FlagsRight)
<1>1. Init => TypeOK /\ ScanInv /\ FlagsRight
  <2>. SUFFICES ASSUME Init PROVE TypeOK /\ ScanInv /\ FlagsRight
    OBVIOUS
  <2>1. code \in Seq(Quad) /\ Len(code) \in Nat /\ i = Len(code)
    BY NextUseAssumption DEF Init
  <2>2. TypeOK
    BY <2>1 DEF Init, TypeOK
  <2>3. ScanInv
    BY <2>1 DEF Init, ScanInv, LiveFrom, UsedFrom, Undefined
  <2>4. FlagsRight
    BY <2>1 DEF FlagsRight
  <2>. QED  BY <2>2, <2>3, <2>4
<1>. QED  BY <1>1, ScanStep, PTL DEF Spec

\* The scan stays within the block and its sets are sets of variables.
THEOREM Typed == Spec => []TypeOK
BY ScanAlways, PTL

\* For every block: the liveness and next-use marks the register allocators read
\* are what really happens to the operand's value after the instruction.
THEOREM MarksExact == Spec => []FlagsRight
BY ScanAlways, PTL
=============================================================================
