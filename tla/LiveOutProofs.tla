--------------------------- MODULE LiveOutProofs ---------------------------
(***************************************************************************)
(* dflow_LiveOut() computes the least solution of the liveness equations,  *)
(* for every flow graph, every code and every order of visit.              *)
(***************************************************************************)
EXTENDS LiveOut, FiniteSetTheorems, WellFoundedInduction, TLAPS

\* A block needs no less when its successors need more.
LEMMA NeededMonotone ==
  ASSUME succ \in [Blocks -> SUBSET Blocks],
         NEW L, NEW X, \A s \in Blocks : L[s] \subseteq X[s],
         NEW b \in Blocks
  PROVE  Needed(L, b) \subseteq Needed(X, b)
  BY DEF Needed, LiveIn

\* The code and the graph are never changed, nor what follows from them alone.
LEMMA CodeKept ==
  ASSUME code' = code
  PROVE  /\ Modified' = Modified
         /\ \A v, b, n : Exposed(v, b, n)' <=> Exposed(v, b, n)
<1>1. Modified' = Modified
  BY DEF Modified
<1>2. \A q : MayRead(q)' = MayRead(q)
  BY <1>1 DEF MayRead
<1>. QED  BY <1>1, <1>2 DEF Exposed

\* An instruction names and defines variables only.
LEMMA QuadSets ==
  ASSUME NEW q \in Quad
  PROVE  Uses(q) \subseteq Vars /\ Defs(q) \subseteq Vars
BY QuadsAssumption DEF Quad, Operand, Uses, Defs

\* While the gathering goes on, what a call is thought to read is among what it
\* may read, and differs from it in static objects only.
LEMMA ReadsRight ==
  ASSUME modified_static_objects \subseteq Modified, NEW q \in Quad
  PROVE  /\ Reads(q) \subseteq MayRead(q)
         /\ Reads(q) \subseteq Vars
         /\ \A v : v \in MayRead(q) /\ v \notin Statics => v \in Reads(q)
<1>1. Modified \subseteq Statics
  BY DEF Modified
<1>. QED  BY <1>1, QuadSets, QuadsAssumption DEF Reads, MayRead

\* One more instruction is scanned.
LEMMA ExposedNext ==
  ASSUME NEW v, NEW b, NEW n \in Nat \ {0}
  PROVE  Exposed(v, b, n) <=>
           \/ Exposed(v, b, n - 1)
           \/ v \in MayRead(code[b][n]) /\ \A m \in 1 .. n - 1 : v \notin Defs(code[b][m])
<1>1. 1 .. n = (1 .. n - 1) \cup {n}
  OBVIOUS
<1>. QED  BY <1>1 DEF Exposed

\* live_init_block() scans one instruction of block i.
LEMMA QuadStep == TypeOK /\ GatherInv /\ live_init_quad => TypeOK' /\ GatherInv'
<1>. USE LiveOutAssumption
<1>. SUFFICES ASSUME TypeOK, GatherInv, live_init_quad PROVE TypeOK' /\ GatherInv'
  OBVIOUS
<1>. DEFINE q == code[i][j]
<1>1. /\ phase = "gather" /\ i <= N /\ j <= Len(code[i]) /\ j' = j + 1
      /\ modified_static_objects' =
           modified_static_objects \cup (IF q.op = "asn" THEN {q.tar} \cap Statics ELSE {})
      /\ UEVar' = [UEVar EXCEPT ![i] = @ \cup (Reads(q) \ VarKill[i])]
      /\ VarKill' = [VarKill EXCEPT ![i] = @ \cup Defs(q)]
      /\ UNCHANGED <<code, succ, PO, phase, i, LiveOut, changed>>
  BY DEF live_init_quad, graph
<1>2. i \in Blocks /\ j \in 1 .. Len(code[i]) /\ j \in Nat \ {0} /\ code[i] \in Seq(Quad)
  BY <1>1 DEF TypeOK, Blocks
<1>3. q \in Quad
  BY <1>2
<1>. HIDE DEF q
<1>4. modified_static_objects \subseteq Modified
  BY DEF GatherInv
<1>5. /\ Reads(q) \subseteq MayRead(q) /\ Reads(q) \subseteq Vars /\ Defs(q) \subseteq Vars
      /\ \A v : v \in MayRead(q) /\ v \notin Statics => v \in Reads(q)
  BY <1>3, <1>4, ReadsRight, QuadSets
<1>6. TypeOK'
  <2>1. UEVar \in [Blocks -> SUBSET Vars] /\ VarKill \in [Blocks -> SUBSET Vars]
    BY DEF TypeOK, SetsOfBlocks
  <2>2. UEVar' \in [Blocks -> SUBSET Vars] /\ VarKill' \in [Blocks -> SUBSET Vars]
    BY <1>1, <1>2, <1>5, <2>1
  <2>3. modified_static_objects' \subseteq Statics /\ j' \in Nat \ {0}
    BY <1>1, <1>2 DEF TypeOK
  <2>. QED  BY <1>1, <2>2, <2>3 DEF TypeOK, SetsOfBlocks
<1>7. modified_static_objects' \subseteq Modified'
  <2>1. q.op = "asn" => {q.tar} \cap Statics \subseteq Modified
    BY <1>2 DEF q, Modified
  <2>. QED  BY <1>1, <1>4, <2>1, CodeKept
<1>8. \A b \in Blocks : b # i => /\ UEVar'[b] = UEVar[b] /\ VarKill'[b] = VarKill[b]
                                 /\ Scanned(b)' = Scanned(b)
  BY <1>1, <1>2 DEF Scanned, TypeOK, SetsOfBlocks, Blocks
<1>9. /\ \A b \in Blocks : b = i => Scanned(b) = j - 1 /\ Scanned(b)' = j
      /\ UEVar'[i] = UEVar[i] \cup (Reads(q) \ VarKill[i])
      /\ VarKill'[i] = VarKill[i] \cup Defs(q)
  BY <1>1, <1>2 DEF Scanned, TypeOK, SetsOfBlocks, Blocks
<1>10. ASSUME NEW b \in Blocks, NEW v \in Vars
       PROVE  /\ v \in VarKill'[b] <=> \E k \in 1 .. Scanned(b)' : v \in Defs(code[b][k])
              /\ v \in UEVar'[b] => (b = N /\ v \in Modified) \/ Exposed(v, b, Scanned(b)')
              /\ v \notin Statics /\ Exposed(v, b, Scanned(b)') => v \in UEVar'[b]
  <2>1. /\ v \in VarKill[b] <=> \E k \in 1 .. Scanned(b) : v \in Defs(code[b][k])
        /\ v \in UEVar[b] => (b = N /\ v \in Modified) \/ Exposed(v, b, Scanned(b))
        /\ v \notin Statics /\ Exposed(v, b, Scanned(b)) => v \in UEVar[b]
    BY DEF GatherInv
  <2>2. CASE b # i
    BY <1>8, <2>1, <2>2
  <2>3. CASE b = i
    <3>1. v \in VarKill'[i] <=> \E k \in 1 .. j : v \in Defs(code[i][k])
      <4>1. 1 .. j = (1 .. j - 1) \cup {j}
        BY <1>2
      <4>. QED  BY <1>9, <2>1, <2>3, <4>1 DEF q
    <3>2. Exposed(v, i, j) <=> Exposed(v, i, j - 1) \/ (v \in MayRead(q) /\ v \notin VarKill[i])
      BY <1>2, <1>9, <2>1, <2>3, ExposedNext DEF q
    <3>3. v \in UEVar'[i] <=> v \in UEVar[i] \/ (v \in Reads(q) /\ v \notin VarKill[i])
      BY <1>9
    <3>4. v \in UEVar'[i] => (i = N /\ v \in Modified) \/ Exposed(v, i, j)
      BY <1>5, <1>9, <2>1, <2>3, <3>2, <3>3
    <3>5. v \notin Statics /\ Exposed(v, i, j) => v \in UEVar'[i]
      BY <1>5, <1>9, <2>1, <2>3, <3>2, <3>3
    <3>. QED  BY <1>9, <2>3, <3>1, <3>4, <3>5
  <2>. QED  BY <2>2, <2>3
<1>11. GatherInv'
  BY <1>1, <1>2, <1>7, <1>10, CodeKept DEF GatherInv
<1>. QED  BY <1>6, <1>11

\* live_init_block() goes on to the next block.
LEMMA BlockStep == TypeOK /\ GatherInv /\ live_init_block => TypeOK' /\ GatherInv'
<1>. USE LiveOutAssumption
<1>. SUFFICES ASSUME TypeOK, GatherInv, live_init_block PROVE TypeOK' /\ GatherInv'
  OBVIOUS
<1>1. /\ phase = "gather" /\ i <= N /\ j > Len(code[i]) /\ i' = i + 1 /\ j' = 1
      /\ UEVar' = IF i + 1 = N THEN [UEVar EXCEPT ![N] = modified_static_objects] ELSE UEVar
      /\ UNCHANGED <<code, succ, PO, phase, modified_static_objects, VarKill, LiveOut, changed>>
  BY DEF live_init_block, graph
<1>2. i \in Blocks /\ code \in [Blocks -> Seq(Quad)]
  BY <1>1 DEF TypeOK, Blocks
<1>3. j = Len(code[i]) + 1
  BY <1>1, <1>2 DEF GatherInv, TypeOK
<1>4. TypeOK'
  <2>1. UEVar \in [Blocks -> SUBSET Vars] /\ modified_static_objects \in SUBSET Vars
    BY QuadsAssumption DEF TypeOK, SetsOfBlocks
  <2>2. UEVar' \in [Blocks -> SUBSET Vars]
    BY <1>1, <2>1
  <2>3. i' \in 1 .. N + 1 /\ j' \in Nat \ {0}
    BY <1>1, <1>2 DEF Blocks
  <2>. QED  BY <1>1, <2>2, <2>3 DEF TypeOK, SetsOfBlocks
<1>5. \A b \in Blocks : Scanned(b)' = Scanned(b)
  <2>. SUFFICES ASSUME NEW b \in Blocks PROVE Scanned(b)' = Scanned(b)
    OBVIOUS
  <2>1. b \in Nat /\ i \in Nat /\ N \in Nat
    BY <1>2 DEF Blocks
  <2>2. i + 1 <= N => Len(code[i + 1]) \in Nat
    BY <1>2, <2>1 DEF Blocks
  <2>3. Scanned(b) = IF b < i + 1 THEN Len(code[b]) ELSE 0
    BY <1>1, <1>2, <1>3, <2>1 DEF Scanned
  <2>4. Scanned(b)' = IF b < i + 1 THEN Len(code[b]) ELSE 0
    BY <1>1, <2>1 DEF Scanned
  <2>. QED  BY <2>3, <2>4
<1>6. modified_static_objects' \subseteq Modified'
  BY <1>1, CodeKept DEF GatherInv
<1>7. ASSUME NEW b \in Blocks, NEW v \in Vars
      PROVE  /\ v \in VarKill'[b] <=> \E k \in 1 .. Scanned(b)' : v \in Defs(code[b][k])
             /\ v \in UEVar'[b] => (b = N /\ v \in Modified) \/ Exposed(v, b, Scanned(b)')
             /\ v \notin Statics /\ Exposed(v, b, Scanned(b)') => v \in UEVar'[b]
  <2>1. /\ v \in VarKill[b] <=> \E k \in 1 .. Scanned(b) : v \in Defs(code[b][k])
        /\ v \in UEVar[b] => (b = N /\ v \in Modified) \/ Exposed(v, b, Scanned(b))
        /\ v \notin Statics /\ Exposed(v, b, Scanned(b)) => v \in UEVar[b]
    BY DEF GatherInv
  <2>2. CASE b = N /\ i + 1 = N
    <3>1. UEVar'[b] = modified_static_objects
      BY <1>1, <2>2 DEF TypeOK, SetsOfBlocks
    <3>2. Scanned(b) = 0 /\ ~ Exposed(v, b, 0)
      BY <1>1, <1>2, <2>2 DEF Scanned, Exposed, Blocks
    <3>. QED  BY <1>1, <1>5, <2>1, <2>2, <3>1, <3>2 DEF GatherInv
  <2>3. CASE ~(b = N /\ i + 1 = N)
    <3>1. UEVar'[b] = UEVar[b]
      BY <1>1, <2>3 DEF TypeOK, SetsOfBlocks
    <3>. QED  BY <1>1, <1>5, <2>1, <3>1
  <2>. QED  BY <2>2, <2>3
<1>8. phase' = "gather" /\ i' <= N => j' <= Len(code'[i']) + 1
  <2>1. i' <= N => Len(code[i']) \in Nat
    BY <1>1, <1>2 DEF Blocks
  <2>. QED  BY <1>1, <2>1
<1>9. GatherInv'
  BY <1>1, <1>6, <1>7, <1>8, CodeKept DEF GatherInv
<1>. QED  BY <1>4, <1>9

\* Once the sets are gathered they stay as they are.
LEMMA GatheredKept ==
  ASSUME GatherInv, phase' # "gather", UNCHANGED <<code, UEVar, VarKill, modified_static_objects>>,
         \A b \in Blocks : phase # "gather" \/ b < i
  PROVE  GatherInv'
<1>1. \A b \in Blocks : Scanned(b)' = Scanned(b)
  BY DEF Scanned
<1>. QED  BY <1>1, CodeKept DEF GatherInv

\* Every step of the analysis preserves the invariant.
LEMMA SolverStep == SolverInv /\ [Next]_vars => SolverInv'
<1>. USE LiveOutAssumption
<1>. SUFFICES ASSUME SolverInv, [Next]_vars PROVE SolverInv'
  OBVIOUS
<1>t. TypeOK /\ GatherInv /\ PassInv /\ Solved /\ Least /\ NoMore
  BY DEF SolverInv
<1>n. N \in Nat /\ i \in Nat
  BY <1>t DEF TypeOK
<1>1. CASE live_init_quad \/ live_init_block
  <2>1. phase = "gather" /\ phase' = "gather" /\ LiveOut' = LiveOut
    BY <1>1 DEF live_init_quad, live_init_block
  <2>2. TypeOK' /\ GatherInv'
    BY <1>1, <1>t, QuadStep, BlockStep
  <2>. QED  BY <1>t, <2>1, <2>2 DEF SolverInv, PassInv, Solved, Least, NoMore
<1>2. CASE start_solver
  <2>1. /\ phase = "gather" /\ i = N + 1 /\ phase' = "solve" /\ LiveOut' = LiveOut
        /\ i' = 1 /\ changed' = FALSE
        /\ UNCHANGED <<code, succ, PO, j, modified_static_objects, UEVar, VarKill>>
    BY <1>2 DEF start_solver, graph
  <2>2. TypeOK'
    <3>1. 1 \in 1 .. N + 1
      BY <1>n
    <3>. QED  BY <1>t, <2>1, <3>1, Zenon DEF TypeOK
  <2>3. GatherInv'
    BY <1>t, <1>n, <2>1, GatheredKept DEF Blocks
  <2>4. PassInv' /\ Solved'
    BY <2>1 DEF PassInv, Solved
  <2>5. Least'
    BY <1>t, <2>1 DEF PassInv, Least
  <2>6. NoMore'
    BY <1>t, <2>1 DEF PassInv, NoMore
  <2>. QED  BY <2>2, <2>3, <2>4, <2>5, <2>6 DEF SolverInv
<1>3. CASE solve_block
  <2>. DEFINE b == PO[i]
  <2>1. /\ phase = "solve" /\ phase' = "solve" /\ i <= N /\ i' = i + 1
        /\ LiveOut' = [LiveOut EXCEPT ![b] = Needed(LiveOut, b)]
        /\ changed' = (changed \/ LiveOut[b] # Needed(LiveOut, b))
        /\ UNCHANGED <<code, succ, PO, j, modified_static_objects, UEVar, VarKill>>
    BY <1>3 DEF solve_block, graph
  <2>2. i \in Blocks /\ b \in Blocks
    <3>1. i \in Blocks
      BY <1>t, <1>n, <2>1 DEF TypeOK, Blocks
    <3>2. PO \in [Blocks -> Blocks]
      BY <1>t DEF TypeOK
    <3>. QED  BY <3>1, <3>2
  <2>. HIDE DEF b
  <2>3. Needed(LiveOut, b) \in SUBSET Vars
    BY DEF Needed
  <2>4. TypeOK' /\ GatherInv'
    <3>1. TypeOK'
      <4>1. LiveOut \in SetsOfBlocks /\ LiveOut' \in SetsOfBlocks
        BY <1>t, <2>1, <2>2, <2>3 DEF TypeOK, SetsOfBlocks
      <4>2. i' \in 1 .. N + 1 /\ changed' \in BOOLEAN
        BY <1>n, <1>t, <2>1 DEF TypeOK
      <4>. QED  BY <1>t, <2>1, <4>1, <4>2 DEF TypeOK
    <3>. QED  BY <1>t, <2>1, <3>1, GatheredKept
  <2>5. PassInv'
    <3>. SUFFICES ASSUME ~changed', NEW k \in 1 .. i
                  PROVE  LiveOut'[PO[k]] = Needed(LiveOut, PO[k])'
      <4>1. (1 .. i' - 1) = 1 .. i
        BY <1>n, <2>1
      <4>2. PO' = PO
        BY <2>1
      <4>. QED  BY <2>1, <4>1, <4>2 DEF PassInv
    <3>1. ~changed /\ LiveOut[b] = Needed(LiveOut, b)
      BY <2>1
    <3>2. LiveOut' = LiveOut
      BY <1>t, <2>1, <3>1 DEF TypeOK, SetsOfBlocks
    <3>3. Needed(LiveOut, PO[k])' = Needed(LiveOut, PO[k])
      BY <2>1, <3>2 DEF Needed, LiveIn
    <3>4. CASE k = i
      BY <3>1, <3>2, <3>3, <3>4 DEF b
    <3>5. CASE k \in 1 .. i - 1
      BY <1>t, <2>1, <3>1, <3>2, <3>3, <3>5 DEF PassInv
    <3>. QED  BY <1>n, <3>4, <3>5
  <2>6. Least'
    <3>. SUFFICES ASSUME NEW X \in SetsOfBlocks, Closed(X)', NEW c \in Blocks
                  PROVE  LiveOut'[c] \subseteq X[c]
      BY DEF Least
    <3>1. Closed(X)
      BY <2>1 DEF Closed, Needed, LiveIn
    <3>2. \A d \in Blocks : LiveOut[d] \subseteq X[d]
      BY <1>t, <2>1, <3>1 DEF Least
    <3>3. Needed(LiveOut, b) \subseteq X[b]
      BY <1>t, <2>2, <3>1, <3>2, NeededMonotone DEF Closed, TypeOK
    <3>. QED  BY <1>t, <2>1, <2>2, <3>2, <3>3 DEF TypeOK, SetsOfBlocks
  <2>7. Solved'
    BY <2>1 DEF Solved
  <2>8. NoMore'
    <3>1. \A c \in Blocks : LiveOut'[c] = IF c = b THEN Needed(LiveOut, b) ELSE LiveOut[c]
      BY <1>t, <2>1, <2>2 DEF TypeOK, SetsOfBlocks
    <3>2. \A c \in Blocks : LiveOut[c] \subseteq LiveOut'[c] /\ LiveOut[c] \subseteq Needed(LiveOut, c)
      BY <1>t, <2>1, <3>1 DEF NoMore
    <3>3. \A c \in Blocks : Needed(LiveOut, c) \subseteq Needed(LiveOut', c)
      BY <1>t, <3>2, NeededMonotone DEF TypeOK
    <3>4. \A c \in Blocks : Needed(LiveOut', c) = Needed(LiveOut, c)'
      BY <2>1 DEF Needed, LiveIn
    <3>. QED  BY <3>1, <3>2, <3>3, <3>4 DEF NoMore
  <2>. QED  BY <2>4, <2>5, <2>6, <2>7, <2>8 DEF SolverInv
<1>4. CASE end_pass
  <2>1. /\ phase = "solve" /\ i = N + 1
        /\ UNCHANGED <<code, succ, PO, j, modified_static_objects, UEVar, VarKill, LiveOut>>
    BY <1>4 DEF end_pass, graph
  <2>2. Least'
    BY <1>t, <2>1, <1>4 DEF end_pass, Least, Closed, Needed, LiveIn
  <2>5. NoMore'
    BY <1>t, <2>1 DEF NoMore, Needed, LiveIn
  <2>3. CASE changed /\ i' = 1 /\ changed' = FALSE /\ UNCHANGED phase
    <3>1. TypeOK' /\ GatherInv'
      <4>1. 1 \in 1 .. N + 1
        BY <1>n
      <4>2. TypeOK'
        BY <1>t, <2>1, <2>3, <4>1 DEF TypeOK
      <4>. QED  BY <1>t, <2>1, <2>3, <4>2, GatheredKept
    <3>2. PassInv' /\ Solved'
      BY <2>1, <2>3 DEF PassInv, Solved
    <3>. QED  BY <2>2, <2>5, <3>1, <3>2 DEF SolverInv
  <2>4. CASE ~changed /\ phase' = "done" /\ UNCHANGED <<i, changed>>
    <3>1. TypeOK' /\ GatherInv'
      <4>1. TypeOK'
        BY <1>t, <2>1, <2>4 DEF TypeOK
      <4>. QED  BY <1>t, <2>1, <2>4, <4>1, GatheredKept
    <3>2. \A b \in Blocks : LiveOut[b] = Needed(LiveOut, b)
      <4>. TAKE b \in Blocks
      <4>1. PICK k \in Blocks : PO[k] = b
        BY <1>t DEF TypeOK
      <4>. QED  BY <1>n, <1>t, <2>1, <2>4, <4>1 DEF PassInv, Blocks
    <3>3. Solved'
      BY <2>1, <3>2 DEF Solved, Needed, LiveIn
    <3>. QED  BY <2>2, <2>4, <2>5, <3>1, <3>3 DEF SolverInv, PassInv
  <2>. QED  BY <1>4, <2>3, <2>4 DEF end_pass
<1>5. CASE UNCHANGED vars
  <2>1. TypeOK'
    BY <1>5, <1>t DEF vars, TypeOK
  <2>2. GatherInv'
    <3>1. \A b \in Blocks : Scanned(b)' = Scanned(b)
      BY <1>5 DEF vars, Scanned
    <3>. QED  BY <1>5, <1>t, <3>1, CodeKept DEF vars, GatherInv
  <2>. QED  BY <1>5, <1>t, <2>1, <2>2
       DEF vars, SolverInv, PassInv, Solved, Least, NoMore, Closed, Needed, LiveIn
<1>. QED  BY <1>1, <1>2, <1>3, <1>4, <1>5 DEF Next

-----------------------------------------------------------------------------
\* A set of numbers that is not empty has a least element.
LEMMA LeastNumber ==
  ASSUME NEW S \in SUBSET Nat, S # {}
  PROVE  \E n \in S : \A m \in S : n <= m
<1>. DEFINE R == {p \in Nat \X Nat : p[1] < p[2]}
<1>1. IsWellFoundedOn(R, Nat)
  BY NatLessThanWellFounded, Zenon DEF OpToRel
<1>2. PICK n \in S : \A m \in S : <<m, n>> \notin R
  BY <1>1, WFMin, Zenon
<1>3. \A m \in S : ~(m < n)
  BY <1>2, Zenon
<1>. HIDE DEF R
<1>. QED  BY <1>3

\* The blocks p of some path of length n, as ReadLater() has them.
Leads(n, v, b) == \E p \in [0 .. n -> Blocks] : ReadingPath(p, n, v, b)

\* A path of more than N steps passes some block twice: what lies between can be
\* left out.
LEMMA ShorterPath ==
  ASSUME NEW v, NEW b, NEW n \in Nat, n > N, Leads(n, v, b)
  PROVE  \E m \in 1 .. n - 1 : Leads(m, v, b)
<1>. USE LiveOutAssumption
<1>1. PICK p \in [0 .. n -> Blocks] : ReadingPath(p, n, v, b)
  BY DEF Leads
<1>2. PICK x \in 1 .. n, y \in 1 .. n : x < y /\ p[x] = p[y]
  <2>. DEFINE f == [k \in 1 .. n |-> p[k]]
  <2>1. f \in [1 .. n -> Blocks]
    OBVIOUS
  <2>2. /\ IsFiniteSet(1 .. n) /\ Cardinality(1 .. n) = n
        /\ IsFiniteSet(Blocks) /\ Cardinality(Blocks) = N
    BY FS_Interval DEF Blocks
  <2>. HIDE DEF f
  <2>3. PICK x \in 1 .. n, y \in 1 .. n : x # y /\ f[x] = f[y]
    BY <2>1, <2>2, FS_PigeonHole
  <2>. QED  BY <2>3 DEF f
<1>. DEFINE m == n - (y - x)
            r == [k \in 0 .. m |-> IF k <= x THEN p[k] ELSE p[k + (y - x)]]
<1>3. m \in 1 .. n - 1 /\ x <= m /\ x \in Nat /\ y \in Nat
  BY <1>2
<1>. HIDE DEF m
<1>4. \A k \in 0 .. m : k <= x => k \in 0 .. n /\ r[k] = p[k]
  BY <1>3
<1>5. \A k \in 0 .. m : k >= x => k + (y - x) \in 0 .. n /\ r[k] = p[k + (y - x)]
  BY <1>2, <1>3 DEF m
<1>6. r \in [0 .. m -> Blocks]
  <2>1. \A k \in 0 .. m : (k <= x => k \in 0 .. n) /\ (~(k <= x) => k + (y - x) \in 0 .. n)
    BY <1>2, <1>3 DEF m
  <2>. QED  BY <2>1
<1>. HIDE DEF r
<1>7. ReadingPath(r, m, v, b)
  <2>1. /\ p[0] = b /\ ReadFirst(v, p[n])
        /\ \A k \in 1 .. n : p[k] \in succ[p[k - 1]]
        /\ \A k \in 1 .. n - 1 : ~Killed(v, p[k])
    BY <1>1 DEF ReadingPath
  <2>2. r[0] = b
    BY <1>3, <1>4, <2>1
  <2>3. ReadFirst(v, r[m])
    <3>1. m + (y - x) = n
      BY <1>3 DEF m
    <3>. QED  BY <1>3, <1>5, <2>1, <3>1
  <2>4. ASSUME NEW k \in 1 .. m PROVE r[k] \in succ[r[k - 1]]
    <3>1. CASE k <= x
      BY <1>3, <1>4, <2>1, <3>1
    <3>2. CASE k > x
      <4>1. /\ k \in 0 .. m /\ k - 1 \in 0 .. m /\ k >= x /\ k - 1 >= x
            /\ k + (y - x) \in 1 .. n /\ (k + (y - x)) - 1 = (k - 1) + (y - x)
        BY <1>2, <1>3, <3>2 DEF m
      <4>2. r[k] = p[k + (y - x)] /\ r[k - 1] = p[(k - 1) + (y - x)]
        BY <1>5, <4>1
      <4>. QED  BY <2>1, <4>1, <4>2
    <3>. QED  BY <1>3, <3>1, <3>2
  <2>5. ASSUME NEW k \in 1 .. m - 1 PROVE ~Killed(v, r[k])
    <3>1. CASE k <= x
      <4>1. k \in 1 .. n - 1
        BY <1>2, <1>3, <3>1 DEF m
      <4>2. k \in 0 .. m /\ r[k] = p[k]
        BY <1>3, <1>4, <3>1
      <4>. QED  BY <2>1, <4>1, <4>2
    <3>2. CASE k > x
      <4>1. k \in 0 .. m /\ k >= x /\ k + (y - x) \in 1 .. n - 1
        BY <1>2, <1>3, <3>2 DEF m
      <4>2. r[k] = p[k + (y - x)]
        BY <1>5, <4>1
      <4>. QED  BY <2>1, <4>1, <4>2
    <3>. QED  BY <1>3, <3>1, <3>2
  <2>. QED  BY <2>2, <2>3, <2>4, <2>5 DEF ReadingPath
<1>. QED  BY <1>3, <1>6, <1>7 DEF Leads

\* So a path of any length is as good as one of at most N steps.
LEMMA ShortPath ==
  ASSUME NEW v, NEW b, NEW n \in Nat \ {0}, Leads(n, v, b)
  PROVE  ReadLater(v, b)
<1>. DEFINE S == {m \in Nat \ {0} : Leads(m, v, b)}
<1>1. n \in S /\ S \in SUBSET Nat
  OBVIOUS
<1>. HIDE DEF S
<1>2. PICK m \in S : \A k \in S : m <= k
  BY <1>1, LeastNumber
<1>3. m \in Nat \ {0} /\ Leads(m, v, b)
  BY <1>2 DEF S
<1>4. ~(m > N)
  <2>. SUFFICES ASSUME m > N PROVE FALSE
    OBVIOUS
  <2>1. PICK k \in 1 .. m - 1 : Leads(k, v, b)
    BY <1>3, ShorterPath
  <2>2. k \in S
    BY <1>3, <2>1 DEF S
  <2>. QED  BY <1>2, <1>3, <2>1, <2>2
<1>5. m \in 1 .. N
  BY <1>3, <1>4, LiveOutAssumption
<1>. QED  BY <1>3, <1>5 DEF ReadLater, Leads

\* A path from a successor that does not define v is one from the block itself.
LEMMA LongerPath ==
  ASSUME succ \in [Blocks -> SUBSET Blocks], NEW b \in Blocks, NEW s \in succ[b],
         NEW v, ~Killed(v, s), NEW n \in Nat \ {0}, Leads(n, v, s)
  PROVE  Leads(n + 1, v, b)
<1>1. PICK p \in [0 .. n -> Blocks] : ReadingPath(p, n, v, s)
  BY DEF Leads
<1>. DEFINE r == [k \in 0 .. n + 1 |-> IF k = 0 THEN b ELSE p[k - 1]]
<1>2. r \in [0 .. n + 1 -> Blocks]
  OBVIOUS
<1>3. r[0] = b /\ \A k \in 1 .. n + 1 : r[k] = p[k - 1]
  OBVIOUS
<1>. HIDE DEF r
<1>4. /\ p[0] = s /\ ReadFirst(v, p[n])
      /\ \A k \in 1 .. n : p[k] \in succ[p[k - 1]]
      /\ \A k \in 1 .. n - 1 : ~Killed(v, p[k])
  BY <1>1 DEF ReadingPath
<1>5. ASSUME NEW k \in 1 .. n + 1 PROVE r[k] \in succ[r[k - 1]]
  <2>1. CASE k = 1
    BY <1>3, <1>4, <2>1
  <2>2. CASE k > 1
    <3>1. k - 1 \in 1 .. n /\ r[k] = p[k - 1] /\ r[k - 1] = p[(k - 1) - 1]
      BY <1>3, <2>2
    <3>. QED  BY <1>4, <3>1
  <2>. QED  BY <2>1, <2>2
<1>6. ASSUME NEW k \in 1 .. (n + 1) - 1 PROVE ~Killed(v, r[k])
  <2>1. CASE k = 1
    BY <1>3, <1>4, <2>1
  <2>2. CASE k > 1
    <3>1. k - 1 \in 1 .. n - 1 /\ r[k] = p[k - 1]
      BY <1>3, <2>2
    <3>. QED  BY <1>4, <3>1
  <2>. QED  BY <2>1, <2>2
<1>7. ReadFirst(v, r[n + 1])
  BY <1>3, <1>4
<1>8. ReadingPath(r, n + 1, v, b)
  BY <1>3, <1>5, <1>6, <1>7 DEF ReadingPath
<1>. QED  BY <1>2, <1>8 DEF Leads

\* The variables that some path reads satisfy the equations.
LEMMA PathsClosed ==
  ASSUME TypeOK, GatherInv, phase = "done"
  PROVE  Closed([b \in Blocks |-> {v \in Vars : ReadLater(v, b)}])
<1>. DEFINE X == [b \in Blocks |-> {v \in Vars : ReadLater(v, b)}]
<1>1. SUFFICES ASSUME NEW b \in Blocks, NEW v \in Needed(X, b) PROVE ReadLater(v, b)
  BY DEF Closed, Needed
<1>2. PICK s \in succ[b] : v \in LiveIn(X, s)
  BY DEF Needed
<1>3. succ \in [Blocks -> SUBSET Blocks] /\ s \in Blocks /\ v \in Vars
  BY DEF TypeOK, Needed
<1>4. Scanned(s) = Len(code[s])
  BY DEF Scanned
<1>5. CASE v \in UEVar[s]
  <2>1. ReadFirst(v, s)
    BY <1>3, <1>4, <1>5 DEF GatherInv, ReadFirst
  <2>. DEFINE p == [k \in 0 .. 1 |-> IF k = 0 THEN b ELSE s]
  <2>2. p \in [0 .. 1 -> Blocks] /\ p[0] = b /\ p[1] = s
    BY <1>3
  <2>. HIDE DEF p
  <2>3. ReadingPath(p, 1, v, b)
    BY <2>1, <2>2 DEF ReadingPath
  <2>4. Leads(1, v, b)
    BY <2>2, <2>3 DEF Leads
  <2>. QED  BY <2>4, ShortPath
<1>6. CASE v \in X[s] /\ v \notin VarKill[s]
  <2>1. ~Killed(v, s)
    BY <1>3, <1>4, <1>6 DEF GatherInv, Killed, TypeOK, Blocks
  <2>2. PICK n \in 1 .. N : Leads(n, v, s)
    BY <1>3, <1>6 DEF ReadLater, Leads
  <2>3. n \in Nat \ {0} /\ n + 1 \in Nat \ {0}
    BY LiveOutAssumption
  <2>4. Leads(n + 1, v, b)
    BY <1>3, <2>1, <2>2, <2>3, LongerPath
  <2>. QED  BY <2>3, <2>4, ShortPath
<1>. QED  BY <1>2, <1>5, <1>6 DEF LiveIn
\* A solution of the equations has every variable that some path reads, if it is
\* of automatic duration.
LEMMA SolutionsHaveThem ==
  ASSUME TypeOK, GatherInv, phase = "done", NEW X \in SetsOfBlocks, Closed(X),
         NEW v \in Vars \ Statics, NEW n \in Nat \ {0},
         NEW c \in Blocks, Leads(n, v, c)
  PROVE  v \in X[c]
<1>. DEFINE S == {k \in Nat \ {0} : \E b \in Blocks : Leads(k, v, b) /\ v \notin X[b]}
<1>. SUFFICES ASSUME S # {} PROVE FALSE
  OBVIOUS
<1>1. S \in SUBSET Nat
  OBVIOUS
<1>. HIDE DEF S
<1>2. PICK m \in S : \A k \in S : m <= k
  BY <1>1, LeastNumber
<1>3. PICK b \in Blocks : Leads(m, v, b) /\ v \notin X[b]
  BY <1>2 DEF S
<1>4. m \in Nat \ {0}
  BY <1>2 DEF S
<1>5. PICK p \in [0 .. m -> Blocks] : ReadingPath(p, m, v, b)
  BY <1>3 DEF Leads
<1>6. /\ p[0] = b /\ ReadFirst(v, p[m])
      /\ \A k \in 1 .. m : p[k] \in succ[p[k - 1]]
      /\ \A k \in 1 .. m - 1 : ~Killed(v, p[k])
  BY <1>5 DEF ReadingPath
<1>. DEFINE s == p[1]
<1>7. s \in Blocks /\ s \in succ[b]
  <2>1. 1 \in 0 .. m /\ 1 \in 1 .. m /\ 1 - 1 = 0
    BY <1>4
  <2>. QED  BY <1>5, <1>6, <2>1
<1>8. v \in LiveIn(X, s) => v \in X[b]
  BY <1>7 DEF Closed, Needed
<1>. HIDE DEF s
<1>9. Scanned(s) = Len(code[s])
  BY DEF Scanned
<1>10. CASE m = 1
  <2>1. ReadFirst(v, s)
    BY <1>6, <1>10 DEF s
  <2>2. v \notin Modified
    BY DEF Modified
  <2>3. v \in UEVar[s]
    BY <1>7, <1>9, <2>1, <2>2 DEF ReadFirst, GatherInv
  <2>. QED  BY <1>3, <1>8, <2>3 DEF LiveIn
<1>11. CASE m # 1
  <2>1. m - 1 \in Nat \ {0} /\ 1 \in 1 .. m - 1
    BY <1>4, <1>11
  <2>2. v \notin VarKill[s]
    <3>1. ~Killed(v, s)
      BY <1>6, <2>1 DEF s
    <3>. QED  BY <1>7, <1>9, <3>1 DEF GatherInv, Killed, TypeOK, Blocks
  <2>3. Leads(m - 1, v, s)
    <3>. DEFINE r == [k \in 0 .. m - 1 |-> p[k + 1]]
    <3>1. \A k \in 0 .. m - 1 : k + 1 \in 0 .. m /\ r[k] = p[k + 1]
      BY <1>4, <2>1
    <3>2. r \in [0 .. m - 1 -> Blocks]
      BY <3>1
    <3>. HIDE DEF r
    <3>3. r[0] = s /\ ReadFirst(v, r[m - 1])
      <4>1. 0 \in 0 .. m - 1 /\ m - 1 \in 0 .. m - 1 /\ (m - 1) + 1 = m /\ 0 + 1 = 1
        BY <1>4, <2>1
      <4>2. r[0] = p[1] /\ r[m - 1] = p[m]
        BY <3>1, <4>1
      <4>. QED  BY <1>6, <4>2 DEF s
    <3>4. ASSUME NEW k \in 1 .. m - 1 PROVE r[k] \in succ[r[k - 1]]
      <4>1. /\ k \in 0 .. m - 1 /\ k - 1 \in 0 .. m - 1 /\ (k - 1) + 1 = k
            /\ k + 1 \in 1 .. m /\ (k + 1) - 1 = k
        BY <1>4, <2>1
      <4>2. r[k] = p[k + 1] /\ r[k - 1] = p[k]
        BY <3>1, <4>1
      <4>. QED  BY <1>6, <4>1, <4>2
    <3>5. ASSUME NEW k \in 1 .. (m - 1) - 1 PROVE ~Killed(v, r[k])
      <4>1. k \in 0 .. m - 1 /\ k + 1 \in 1 .. m - 1
        BY <1>4, <2>1
      <4>. QED  BY <1>6, <3>1, <4>1
    <3>6. ReadingPath(r, m - 1, v, s)
      BY <3>3, <3>4, <3>5 DEF ReadingPath
    <3>. QED  BY <3>2, <3>6 DEF Leads
  <2>4. v \in X[s]
    <3>1. v \notin X[s] => m - 1 \in S
      BY <1>7, <2>1, <2>3 DEF S
    <3>. QED  BY <1>2, <1>4, <3>1
  <2>. QED  BY <1>3, <1>8, <2>2, <2>4 DEF LiveIn
<1>. QED  BY <1>10, <1>11

\* The least solution is what the paths say.
LEMMA Exact == SolverInv => ExactForLocals
<1>. SUFFICES ASSUME SolverInv, phase = "done" PROVE ExactForLocals
  BY DEF ExactForLocals
<1>1. TypeOK /\ GatherInv /\ Solved /\ Least
  BY DEF SolverInv
<1>2. ASSUME NEW v \in Vars, NEW b \in Blocks, v \in LiveOut[b] PROVE ReadLater(v, b)
  <2>. DEFINE X == [c \in Blocks |-> {w \in Vars : ReadLater(w, c)}]
  <2>1. X \in SetsOfBlocks
    BY DEF SetsOfBlocks
  <2>2. Closed(X)
    BY <1>1, PathsClosed
  <2>. HIDE DEF X
  <2>3. LiveOut[b] \subseteq X[b]
    BY <1>1, <2>1, <2>2 DEF Least
  <2>. QED  BY <1>2, <2>3 DEF X
<1>3. ASSUME NEW v \in Vars \ Statics, NEW b \in Blocks, ReadLater(v, b)
      PROVE  v \in LiveOut[b]
  <2>1. PICK n \in 1 .. N : Leads(n, v, b)
    BY <1>3 DEF ReadLater, Leads
  <2>2. n \in Nat \ {0}
    BY LiveOutAssumption
  <2>3. LiveOut \in SetsOfBlocks /\ Closed(LiveOut)
    BY <1>1 DEF TypeOK, Solved, Closed
  <2>. QED  BY <1>1, <2>1, <2>2, <2>3, SolutionsHaveThem
<1>. QED  BY <1>2, <1>3 DEF ExactForLocals

-----------------------------------------------------------------------------
LEMMA SolverStart == Init => SolverInv
<1>. SUFFICES ASSUME Init PROVE SolverInv
  OBVIOUS
<1>1. LiveOut = [b \in Blocks |-> {}] /\ LiveOut \in SetsOfBlocks
  BY DEF Init, SetsOfBlocks
<1>2. TypeOK
  BY <1>1, LiveOutAssumption DEF Init, TypeOK
<1>3. GatherInv
  <2>1. \A b \in Blocks : Scanned(b) = 0 /\ UEVar[b] = {} /\ VarKill[b] = {}
    BY LiveOutAssumption DEF Init, Scanned, Blocks
  <2>2. 1 <= Len(code[1]) + 1
    BY LiveOutAssumption DEF Init, Blocks
  <2>. QED  BY <2>1, <2>2 DEF Init, GatherInv, Exposed
<1>. QED  BY <1>1, <1>2, <1>3 DEF Init, SolverInv, PassInv, Solved, Least, NoMore

LEMMA SolverAlways == Spec => []SolverInv
BY SolverStart, SolverStep, PTL DEF Spec

\* The sets of dflow_LiveOut() are sets of variables and its loops stay within
\* the blocks of the function.
THEOREM Typed == Spec => []TypeOK
<1>1. SolverInv => TypeOK
  BY DEF SolverInv
<1>. QED  BY <1>1, SolverAlways, PTL

\* For every function: when dflow_LiveOut() stops its sets satisfy the liveness
\* equations, and at no time do they hold a variable that some solution of the
\* equations leaves out.
THEOREM LeastSolution == Spec => [](Solved /\ Least)
<1>1. SolverInv => Solved /\ Least
  BY DEF SolverInv
<1>. QED  BY <1>1, SolverAlways, PTL

\* For every function: what dflow_LiveOut() says of an automatic variable is what
\* the paths of the flow graph say, and no variable is kept that no path reads.
THEOREM ExactOnPaths == Spec => []ExactForLocals
BY SolverAlways, Exact, PTL

\* For every function: the solver's sets never lose a variable.
THEOREM NeverShrinks == Spec => OnlyGrows
<1>1. SolverInv /\ [Next]_vars => [\A b \in Blocks : LiveOut[b] \subseteq LiveOut'[b]]_vars
  <2>. SUFFICES ASSUME SolverInv, Next PROVE \A b \in Blocks : LiveOut[b] \subseteq LiveOut'[b]
    OBVIOUS
  <2>1. CASE solve_block
    BY <2>1 DEF solve_block, SolverInv, NoMore, TypeOK, SetsOfBlocks
  <2>2. CASE LiveOut' = LiveOut
    BY <2>2
  <2>. QED  BY <2>1, <2>2
       DEF Next, live_init_quad, live_init_block, start_solver, end_pass
<1>. QED  BY <1>1, SolverAlways, PTL DEF Spec, OnlyGrows

=============================================================================
