------------------------------ MODULE LiveOut ------------------------------
(***************************************************************************)
(* dflow_LiveOut() of dflow.c: which variables are live on exit from each  *)
(* basic block of a function.  The code generators store a variable to     *)
(* memory at the end of a block only if it is live there, so a variable    *)
(* that is missing from LiveOut is a store that is never made.             *)
(*                                                                         *)
(* The function's blocks are 1 .. N, the last one its exit.  Their code,   *)
(* their edges and the order in which the solver visits them are fixed in  *)
(* the initial state and never change: the analysis is checked on every    *)
(* flow graph that can be built from the given pieces.  Nothing jumps to   *)
(* the entry block and the exit block holds a label only, as               *)
(* ic_function_definition() builds them.                                   *)
(***************************************************************************)
EXTENDS Quads

CONSTANTS
  N,          \* number of basic blocks, cg_node(fn).bb_f
  Codes,      \* the instruction sequences a block can have
  Orders      \* the numberings number_CFG() can produce

Blocks == 1 .. N

ASSUME LiveOutAssumption ==
  /\ N \in Nat \ {0}
  /\ Codes \subseteq Seq(Quad)
  /\ \A o \in Orders : o \in [Blocks -> Blocks] /\ \A b \in Blocks : \E i \in Blocks : o[i] = b

VARIABLES
  code,       \* instructions of each block
  succ,       \* cfg_node(b).out
  PO,         \* the order of visit
  phase,      \* "gather", "solve" or "done"
  i,          \* the loop's index
  j,          \* while gathering: the instruction of block i to be scanned next
  modified_static_objects,
  UEVar, VarKill, LiveOut,
  changed

vars == <<code, succ, PO, phase, i, j, modified_static_objects, UEVar, VarKill, LiveOut, changed>>
graph == <<code, succ, PO>>

SetsOfBlocks == [Blocks -> SUBSET Vars]

TypeOK ==
  /\ code \in [Blocks -> Codes]
  /\ succ \in [Blocks -> SUBSET Blocks]
  /\ PO \in Orders
  /\ phase \in {"gather", "solve", "done"}
  /\ i \in 1 .. N + 1 /\ j \in Nat \ {0}
  /\ modified_static_objects \subseteq Statics
  /\ UEVar \in SetsOfBlocks /\ VarKill \in SetsOfBlocks /\ LiveOut \in SetsOfBlocks
  /\ changed \in BOOLEAN

-----------------------------------------------------------------------------
\* What the successors of b need, when L is live on exit from them.
LiveIn(L, s) == UEVar[s] \cup (L[s] \ VarKill[s])

\* Mutant: the operands of bset_diff() are swapped.
Needed_mut(L, b) ==
  {v \in Vars : \E s \in succ[b] : v \in UEVar[s] \cup (VarKill[s] \ L[s])}

\* The equation of block b: the union over its successors.
Needed(L, b) == {v \in Vars : \E s \in succ[b] : v \in LiveIn(L, s)}

-----------------------------------------------------------------------------
Init ==
  /\ code \in [Blocks -> Codes] /\ code[N] = <<>>
  /\ succ \in [Blocks -> SUBSET (Blocks \ {1})]
  /\ succ[N] = {} /\ \A b \in Blocks \ {N} : succ[b] # {}
  /\ PO \in Orders
  /\ phase = "gather" /\ i = 1 /\ j = 1 /\ changed = TRUE
  /\ modified_static_objects = {}
  /\ UEVar = [b \in Blocks |-> {}] /\ VarKill = UEVar /\ LiveOut = UEVar

\* The variables an instruction may read.  A call reads the address-taken
\* variables and the static objects that the instructions seen SO FAR modify.
Reads(q) ==
  Uses(q) \cup (IF q.op = "ind" \/ IsCall(q) THEN AddrTaken ELSE {})
          \cup (IF IsCall(q) THEN modified_static_objects ELSE {})

\* Mutant: an operand counts as upward exposed even when the block has already
\* defined it.
live_init_quad_mut ==
  /\ phase = "gather" /\ i <= N /\ j <= Len(code[i])
  /\ LET q == code[i][j]
     IN  /\ modified_static_objects' =
              modified_static_objects \cup (IF q.op = "asn" THEN {q.tar} \cap Statics ELSE {})
         /\ UEVar' = [UEVar EXCEPT ![i] = @ \cup Uses(q) \cup (Reads(q) \ VarKill[i])]
         /\ VarKill' = [VarKill EXCEPT ![i] = @ \cup Defs(q)]
  /\ j' = j + 1
  /\ UNCHANGED <<graph, phase, i, LiveOut, changed>>

\* Mutant: every assigned variable counts as a modified static object.
live_init_quad_mut2 ==
  /\ phase = "gather" /\ i <= N /\ j <= Len(code[i])
  /\ LET q == code[i][j]
     IN  /\ modified_static_objects' =
              modified_static_objects \cup (IF q.op = "asn" THEN {q.tar} ELSE {})
         /\ UEVar' = [UEVar EXCEPT ![i] = @ \cup (Reads(q) \ VarKill[i])]
         /\ VarKill' = [VarKill EXCEPT ![i] = @ \cup Defs(q)]
  /\ j' = j + 1
  /\ UNCHANGED <<graph, phase, i, LiveOut, changed>>

\* An iteration of live_init_block(i): one instruction.
live_init_quad ==
  /\ phase = "gather" /\ i <= N /\ j <= Len(code[i])
  /\ LET q == code[i][j]
     IN  /\ modified_static_objects' =
              modified_static_objects \cup (IF q.op = "asn" THEN {q.tar} \cap Statics ELSE {})
         /\ UEVar' = [UEVar EXCEPT ![i] = @ \cup (Reads(q) \ VarKill[i])]
         /\ VarKill' = [VarKill EXCEPT ![i] = @ \cup Defs(q)]
  /\ j' = j + 1
  /\ UNCHANGED <<graph, phase, i, LiveOut, changed>>

\* live_init_block(i) returns and the next call begins: the exit block starts
\* with every static object modified by the blocks before it.
live_init_block ==
  /\ phase = "gather" /\ i <= N /\ j > Len(code[i])
  /\ UEVar' = IF i + 1 = N THEN [UEVar EXCEPT ![N] = modified_static_objects] ELSE UEVar
  /\ i' = i + 1 /\ j' = 1
  /\ UNCHANGED <<graph, phase, modified_static_objects, VarKill, LiveOut, changed>>

\* The first iteration of `while (changed)' begins.
start_solver ==
  /\ phase = "gather" /\ i = N + 1
  /\ phase' = "solve" /\ i' = 1 /\ changed' = FALSE
  /\ UNCHANGED <<graph, j, modified_static_objects, UEVar, VarKill, LiveOut>>

\* Mutant: the new set is not compared with the old one before it is stored.
solve_block_mut ==
  /\ phase = "solve" /\ i <= N
  /\ LiveOut' = [LiveOut EXCEPT ![PO[i]] = Needed(LiveOut, PO[i])]
  /\ changed' = TRUE
  /\ i' = i + 1
  /\ UNCHANGED <<graph, phase, j, modified_static_objects, UEVar, VarKill>>

\* The equation of one block.
solve_block ==
  /\ phase = "solve" /\ i <= N
  /\ LiveOut' = [LiveOut EXCEPT ![PO[i]] = Needed(LiveOut, PO[i])]
  /\ changed' = (changed \/ LiveOut[PO[i]] # Needed(LiveOut, PO[i]))
  /\ i' = i + 1
  /\ UNCHANGED <<graph, phase, j, modified_static_objects, UEVar, VarKill>>

\* Mutant: one pass over the blocks is thought to be enough.
end_pass_mut ==
  /\ phase = "solve" /\ i = N + 1
  /\ phase' = "done" /\ UNCHANGED <<i, changed>>
  /\ UNCHANGED <<graph, j, modified_static_objects, UEVar, VarKill, LiveOut>>

\* The end of an iteration of `while (changed)'.
end_pass ==
  /\ phase = "solve" /\ i = N + 1
  /\ \/ changed /\ i' = 1 /\ changed' = FALSE /\ UNCHANGED phase
     \/ ~changed /\ phase' = "done" /\ UNCHANGED <<i, changed>>
  /\ UNCHANGED <<graph, j, modified_static_objects, UEVar, VarKill, LiveOut>>

Next == live_init_quad \/ live_init_block \/ start_solver \/ solve_block \/ end_pass

Spec == Init /\ [][Next]_vars

\* The analysis is a sequential loop: it takes its next step.
FairSpec == Spec /\ WF_vars(Next)

-----------------------------------------------------------------------------
\* The reference: what liveness means, from the paths of the flow graph.

\* The static objects the function assigns, anywhere.
Modified == {v \in Statics : \E b \in Blocks : \E k \in DOMAIN code[b] :
                                code[b][k].op = "asn" /\ code[b][k].tar = v}

\* What an instruction may read: an indirect reference any address-taken
\* variable, a call those and any static object.
MayRead(q) ==
  Uses(q) \cup (IF q.op = "ind" \/ IsCall(q) THEN AddrTaken ELSE {})
          \cup (IF IsCall(q) THEN Modified ELSE {})

\* One of the first n instructions of b may read the value v has before b.
Exposed(v, b, n) ==
  \E k \in 1 .. n : /\ v \in MayRead(code[b][k])
                    /\ \A m \in 1 .. k - 1 : v \notin Defs(code[b][m])

\* v may be read in block b before b defines it; the caller reads the static
\* objects when the function returns.
ReadFirst(v, b) == (b = N /\ v \in Modified) \/ Exposed(v, b, Len(code[b]))
Killed(v, b) == \E k \in DOMAIN code[b] : v \in Defs(code[b][k])

\* Control can get from the entry block to b.
Reachable(b) ==
  \E n \in 0 .. N - 1 : \E p \in [0 .. n -> Blocks] :
    p[0] = 1 /\ p[n] = b /\ \A k \in 1 .. n : p[k] \in succ[p[k - 1]]

\* The n blocks p[1] .. p[n] follow b; the last one reads v and none before it
\* defines v.
ReadingPath(p, n, v, b) ==
  /\ p[0] = b
  /\ \A k \in 1 .. n : p[k] \in succ[p[k - 1]]
  /\ \A k \in 1 .. n - 1 : ~Killed(v, p[k])
  /\ ReadFirst(v, p[n])

\* Some path that leaves b reads v before it defines it.
ReadLater(v, b) ==
  \E n \in 1 .. N : \E p \in [0 .. n -> Blocks] : ReadingPath(p, n, v, b)

-----------------------------------------------------------------------------
\* When dflow_LiveOut() stops, every block's LiveOut set satisfies its
\* equation, although the sets of the blocks visited before the last change
\* were computed from older sets of their successors (`while (changed)').
Solved == phase = "done" => \A b \in Blocks : LiveOut[b] = Needed(LiveOut, b)

\* X satisfies the equations as inequalities.
Closed(X) == \A b \in Blocks : Needed(X, b) \subseteq X[b]

\* At any moment of the iteration a variable is in LiveOut only if every
\* solution of the equations has it: the result is the least solution, so no
\* variable is kept in memory for nothing.
Least ==
  phase # "gather" =>
    \A X \in SetsOfBlocks : Closed(X) => \A b \in Blocks : LiveOut[b] \subseteq X[b]

\* A variable is in LiveOut of a block only if some path from there reads it
\* before it is defined, with the aliasing assumptions of live_init_block() for
\* indirect references and calls; for a variable of automatic duration, whenever
\* there is such a path.
ExactForLocals ==
  phase = "done" =>
    \A v \in Vars, b \in Blocks :
      /\ v \in LiveOut[b] => ReadLater(v, b)
      /\ v \notin Statics /\ ReadLater(v, b) => v \in LiveOut[b]

\* ic.h says of CFGNode.LiveOut: "variables live on exit from the block".  A
\* static object that a reachable block assigns and that a callee, or the caller, may read
\* later has to be there, or the code generators never store it.
SoundForStatics ==
  phase = "done" =>
    \A v \in Statics, b \in Blocks :
      Reachable(b) /\ Killed(v, b) /\ ReadLater(v, b) => v \in LiveOut[b]

\* The number of instructions of b that live_init_block() has seen.
Scanned(b) ==
  IF phase # "gather" \/ b < i THEN Len(code[b]) ELSE IF b = i THEN j - 1 ELSE 0

\* The sets gathered so far are right for the instructions seen so far, and say
\* nothing false of the static objects.
GatherInv ==
  /\ phase = "gather" /\ i <= N => j <= Len(code[i]) + 1
  /\ modified_static_objects \subseteq Modified
  /\ \A b \in Blocks : \A v \in Vars :
       /\ v \in VarKill[b] <=> \E k \in 1 .. Scanned(b) : v \in Defs(code[b][k])
       /\ v \in UEVar[b] => (b = N /\ v \in Modified) \/ Exposed(v, b, Scanned(b))
       /\ v \notin Statics /\ Exposed(v, b, Scanned(b)) => v \in UEVar[b]

\* What makes Solved inductive: as long as a pass has changed nothing, the
\* blocks it has visited satisfy their equations.
PassInv ==
  /\ phase = "gather" => \A b \in Blocks : LiveOut[b] = {}
  /\ phase = "solve" /\ ~changed =>
       \A k \in 1 .. i - 1 : LiveOut[PO[k]] = Needed(LiveOut, PO[k])

\* A set never holds more than its equation asks for now.
NoMore == phase # "gather" => \A b \in Blocks : LiveOut[b] \subseteq Needed(LiveOut, b)

SolverInv == TypeOK /\ GatherInv /\ PassInv /\ Solved /\ Least /\ NoMore

\* A visit never takes a variable out of a set, though it stores the set it has
\* computed without looking at the old one: so `changed' says that the sets have
\* grown, and they cannot grow for ever.
OnlyGrows == [][\A b \in Blocks : LiveOut[b] \subseteq LiveOut'[b]]_vars

\* The solver stops: the sets only grow, until a pass changes none of them.
Termination == <>(phase = "done")
=============================================================================
