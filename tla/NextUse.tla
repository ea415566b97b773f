------------------------------ MODULE NextUse ------------------------------
(***************************************************************************)
(* compute_function_liveness_and_next_use() of dflow.c: every instruction  *)
(* of a block is annotated with, for each operand, whether it is live and  *)
(* whether it is used again in the block.  The register allocators of the  *)
(* code generators believe these flags: a variable keeps its register while*)
(* it has a next use, is stored when it loses it and is live, and is       *)
(* forgotten otherwise.                                                    *)
(*                                                                         *)
(* The block's code and its LiveOut set are fixed in the initial state.    *)
(***************************************************************************)
EXTENDS Quads

CONSTANTS
  Codes,      \* the instruction sequences the block can have
  Modified    \* cg_node(fn).modified_static_objects

ASSUME NextUseAssumption == Codes \subseteq Seq(Quad) /\ Modified \subseteq Vars

VARIABLES
  code,              \* the block's instructions
  LiveOut,           \* variables live on exit from the block
  i,                 \* the instruction the backward scan is at
  operand_liveness,  \* variables live before instruction i + 1
  operand_next_use,  \* variables used in instructions i + 1 .. before a definition
  flags              \* liveness_and_next_use[]: the set of marks of each instruction

vars == <<code, LiveOut, i, operand_liveness, operand_next_use, flags>>

Marks == {"TAR_LIVE", "AR1_LIVE", "AR2_LIVE", "TAR_NEXT", "AR1_NEXT", "AR2_NEXT"}

TypeOK ==
  /\ code \in Codes
  /\ LiveOut \subseteq Vars
  /\ i \in 0 .. Len(code)
  /\ operand_liveness \subseteq Vars /\ operand_next_use \subseteq Vars
  /\ flags \in [1 .. Len(code) -> SUBSET Marks]

-----------------------------------------------------------------------------
\* init_operand_table()
Init ==
  /\ code \in Codes
  /\ LiveOut \in SUBSET Vars
  /\ i = Len(code)
  /\ operand_liveness = LiveOut
  /\ operand_next_use = {}
  /\ flags = [k \in 1 .. Len(code) |-> {}]

\* The marks of an operand v in the sets at hand.
Mark(v, live, next, L, N) ==
  (IF v \in live THEN {L} ELSE {}) \cup (IF v \in next THEN {N} ELSE {})

Operand1(q) == IF q.op \in ReadsArg1 THEN {q.arg1} \ {NoVar} ELSE {}
Operand2(q) == IF q.op \in ReadsArg2 THEN {q.arg2} \ {NoVar} ELSE {}

\* Variables an instruction may read without naming them.
MayRead(q) ==
  IF q.op = "ind" THEN AddrTaken
  ELSE IF IsCall(q) THEN AddrTaken \cup Modified
  ELSE {}

\* Mutant: the marks of the first operand are taken before the target is
\* removed from the sets.
annotate_mut(q) ==
  LET live == operand_liveness \ Defs(q)
      next == operand_next_use \ Defs(q)
  IN  (UNION {Mark(v, operand_liveness, operand_next_use, "TAR_LIVE", "TAR_NEXT") : v \in Defs(q)})
      \cup (UNION {Mark(v, operand_liveness, operand_next_use, "AR1_LIVE", "AR1_NEXT") : v \in Operand1(q)})
      \cup (UNION {Mark(v, live \cup Operand1(q), next \cup Operand1(q), "AR2_LIVE", "AR2_NEXT")
                   : v \in Operand2(q)})

\* update_tar(), update_arg1() and update_arg2(), in this order: the second
\* operand is looked up after the first one has been inserted.
annotate(q) ==
  LET live == operand_liveness \ Defs(q)
      next == operand_next_use \ Defs(q)
  IN  (UNION {Mark(v, operand_liveness, operand_next_use, "TAR_LIVE", "TAR_NEXT") : v \in Defs(q)})
      \cup (UNION {Mark(v, live, next, "AR1_LIVE", "AR1_NEXT") : v \in Operand1(q)})
      \cup (UNION {Mark(v, live \cup Operand1(q), next \cup Operand1(q), "AR2_LIVE", "AR2_NEXT")
                   : v \in Operand2(q)})

\* One instruction of the backward scan.
scan ==
  /\ i >= 1
  /\ LET q == code[i]
     IN  /\ flags' = [flags EXCEPT ![i] = annotate(q)]
         /\ operand_liveness' = (operand_liveness \ Defs(q)) \cup Uses(q) \cup MayRead(q)
         /\ operand_next_use' = (operand_next_use \ Defs(q)) \cup Uses(q)
  /\ i' = i - 1
  /\ UNCHANGED <<code, LiveOut>>

Next == scan

Spec == Init /\ [][Next]_vars

-----------------------------------------------------------------------------
\* The reference: looking forward from instruction k.

Undefined(v, k, j) == \A m \in k .. j - 1 : v \notin Defs(code[m])

\* v is named as an operand by instruction k or a later one, before a definition.
UsedFrom(v, k) ==
  \E j \in k .. Len(code) : v \in Uses(code[j]) /\ Undefined(v, k, j)

\* The value v has before instruction k may still be read, in the block or after it.
LiveFrom(v, k) ==
  \/ \E j \in k .. Len(code) : v \in Uses(code[j]) \cup MayRead(code[j]) /\ Undefined(v, k, j)
  \/ v \in LiveOut /\ Undefined(v, k, Len(code) + 1)

\* The sets of the backward scan are what looking forward finds.
ScanInv ==
  /\ operand_liveness = {v \in Vars : LiveFrom(v, i + 1)}
  /\ operand_next_use = {v \in Vars : UsedFrom(v, i + 1)}

\* What the register allocators rely on, for an operand v of instruction k that
\* the instruction does not overwrite: the marks say what happens to its value
\* after the instruction.
Right(k, v, L, N) ==
  /\ L \in flags[k] <=> LiveFrom(v, k + 1)
  /\ N \in flags[k] <=> UsedFrom(v, k + 1)

\* An operand that the instruction overwrites has no value left to save.
Gone(k, L, N) == L \notin flags[k] /\ N \notin flags[k]

\* The marks of every instruction scanned so far are exact, for each combination
\* of equal operands: the target; the first operand (update_arg1() sees the
\* target removed); the second operand, unless it is also the first one, whose
\* marks are the ones that count.
FlagsRight ==
  \A k \in i + 1 .. Len(code) :
    /\ \A v \in Defs(code[k]) : Right(k, v, "TAR_LIVE", "TAR_NEXT")
    /\ \A v \in Operand1(code[k]) :
         IF v \in Defs(code[k]) THEN Gone(k, "AR1_LIVE", "AR1_NEXT")
                                ELSE Right(k, v, "AR1_LIVE", "AR1_NEXT")
    /\ \A v \in Operand2(code[k]) \ Operand1(code[k]) :
         IF v \in Defs(code[k]) THEN Gone(k, "AR2_LIVE", "AR2_NEXT")
                                ELSE Right(k, v, "AR2_LIVE", "AR2_NEXT")

=============================================================================
