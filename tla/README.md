# A verification of LuxCC

LuxCC is a C compiler with its own preprocessor, assemblers, linkers, virtual
machines, C library and compilation driver. This directory holds TLA+ modules that
model its parts, the TLC configurations that check them on small instances, and
proofs that TLAPS checks for every instance. `PROJECT.json` lists the runs, the
theorems, the mutants that each property rejects, the hazards of the code, and
for every definition the lines it was translated from.

Paths below are relative to the repository's `src/` directory, e.g. `dflow.c`,
`x86_cgen/x86_cgen.c`, `luxdvr/luxdvr.c`.

## 1. Inventory

One C file is compiled by one process (`luxcc`) that runs its passes one after
the other; `luxdvr` runs `luxcc`, an assembler and a linker as child processes
that talk to each other through files. There are no threads. What is hard is
therefore not concurrency but long sequences of legal operations on small pieces
of shared state (register descriptors, work-lists, block lists, a stack of
dwords), programs that have to agree on a format or a calling sequence without
sharing code, and the outcomes of child processes.

| Component | Source | State | Operations | What makes it correct |
|---|---|---|---|---|
| Memory arenas | `util/arena.c` | block list, `last`, nominal size | new, alloc, reset, destroy, set size | pieces in bounds and disjoint, over resets and failures |
| Preprocessor | `pre.c`, `loc.c` | token list, macro table, conditional stack, include stack | directives, expansion | each token in exactly one live branch; expansion stops; no macro expands inside itself |
| Lexer, parser | `lexer.c`, `parser.c` | current and look-ahead token | grammar functions | the tree has the grammar's shape |
| Declarations | `decl.c` | identifier and tag scopes, external table, frame offsets | push, pop, install, lookup | a name denotes its innermost declaration; locals do not overlap |
| Expressions | `expr.c` | types and constant values of nodes | analysis, conversion, evaluation | C99's types; arithmetic at the target's width; static data at its place |
| Statements | `stmt.c` | stacks of loops, switches, labels | enter, leave, check | `break`, `case`, `goto` bind to the right statement, limits respected |
| Intermediate code | `ic.c`, `opt.c` | instruction array, flow graph, address table | emit, number, simplify | jumps reach their labels; folding keeps the value |
| Data-flow analyses | `dflow.c` | `UEVar`, `VarKill`, `LiveOut`, marks | gather, solve, scan | least solution; exact marks |
| x86 generator | `x86_cgen/` | register and address descriptors, pins, slots, argument stack | one handler per instruction | the code emitted reads and keeps the right values |
| x64, ARM, MIPS generators | `x64_cgen/`, `arm_cgen/`, `mips_cgen/` | same, plus argument registers | same | same |
| LuxVM generators | `vm32_cgen/`, `vm64_cgen/` | locations, local offset, jump targets, switch labels, string pool | one function per statement, one case per operator | the program's meaning; the stack as high after a statement as before |
| LuxVM interpreter | `luxvm/vm32.c`, `luxvm/vm64.c` | `ip`, `sp`, `bp`, memory | load, one case per instruction, library calls | what the generators expect of each instruction |
| LuxVM assembler, linker | `luxvm/as.c`, `luxvm/ld.c` | segments, symbols, relocations | define, reference, merge, fix | each reference gets its symbol's final address |
| x86, ARM, MIPS assemblers | `luxx86/`, `luxarm/`, `luxmips/` | sections, symbols, fix-ups | parse, encode, relocate | jump sizes consistent with distances |
| Linker | `luxld/` | symbol table, sections, archives | load, resolve, lay out, relocate | one definition per symbol, archive members pulled when needed |
| Compilation driver | `luxdvr/luxdvr.c` | option flags, file list, temporary files | parse, run tools, clean up | failures contained and reported; the right files linked; temporaries removed |
| C library | `lib/` | FILE buffers, heap free list, atexit list | stdio, malloc, ... | no byte lost or duplicated; blocks disjoint |
| Bit sets, strings | `util/` | bit arrays, growing buffer | set operations, printf | iteration visits each member once; growth keeps content |

How they interact: the preprocessor produces a token list that the lexer walks;
the parser calls `decl.c`, `expr.c` and `stmt.c`. For the LuxVM targets a
generator then walks the trees and prints stack code; for the others each function
goes to the intermediate-code generator, `dflow.c` annotates the flow graph, and a
generator prints assembly. All of them allocate from arenas. `luxdvr` passes the
result on: assembly in one temporary file shared by all inputs, one temporary
object per input, then the linker.

Hard behaviours, listed with their lines under `hazards`: registers running out
while an instruction still needs its operands; values that are stale in a
register or in memory around indirect references and calls; arguments that wait
in registers while others are computed; analyses that read sets which are still
being computed; failed requests that leave an allocator half-moved; five programs
that have to agree on every size and offset of a stack frame; references that
wait for a file not yet read; one of many child processes failing.

## 2. What is modelled

### Arena (`Arena`, `ArenaProofs`)

`nblk`, `limit`, `avail`, `last`, `nas` are the fields of `Arena` and its `Block`s, as
offsets. There is one action for each way through a function: `arena_alloc`
(request fits), `allocate_reuse` (a block left from before a reset is found),
`allocate_grow` (a new block) and `allocate_fail` (`malloc()` returns NULL, but
`avail` of the blocks passed has already changed), besides `arena_new`, `arena_reset`,
`arena_destroy` and `arena_set_nom_siz`. `live` and `nallocs` are ghosts: what callers were
given since the last reset.

### Data flow (`Quads`, `LiveOut`, `NextUse`, with `MC...` and `...Proofs`)

`Quads` groups the operators of `ic.h` by the cases of the `switch` statements in
`dflow.c`. `LiveOut` is `dflow_LiveOut()`: `live_init_quad` for each instruction of each
block (`live_init_block` goes on to the next one), then passes over the blocks in the order `PO` until one changes
nothing. `NextUse` is the backward scan that marks every instruction. Both choose their
program (flow graph, code, live-out sets) in the initial state, so a run covers all
programs built from the given pieces. The references they are compared
with (`ReadLater`, `LiveFrom`, `UsedFrom`) are stated over paths and forward positions
and share nothing with the algorithms but the meaning of one instruction.

### Native code generators (`CGenRegs`, `CGen`, `X86Regs`, `X86CGen`, `X64CGen`, `ArmCGen`, `MipsCGen`, `CGens`, `MCCGen`)

The four generators were written from one another and share their tables; `CGenRegs`
and `CGen` hold what is common, each target's module its helpers (`get_reg0`,
`spill_reg`, `x86_load`, `arm_restore_arg_regs`, ...) as operators from the
generator's state to its next state, and one action per instruction handler or group of
handlers with the same body. `CGens` is the compiler: `target` is chosen in the
initial state. Besides the generator's tables the state holds what the
code emitted so far does to the machine: `R` and `M` say which variable's current
value is in each register and memory word. A handler that makes the code read a
place which does not hold its operand adds `"operand"` to `faults`; an argument register
that has lost its argument adds `"argument"`, a failing `assert()` `"assert"`.

The program is not given: each step picks an instruction, its operands, and what
becomes of each value (`fut`: used again in the block, live, or dead). `Handlers` names the
handlers that an instance uses; where the code of one is wrong in one case (section 6), that case has a
name of its own (`self_add2`, `ret2`, `big_args`, `ind_asn_const`, `ind_asn_edi`), which the runs
leave out, while the model and the theorems have it. The futures
are exactly what the marks of `dflow.c` say, which the `NextUse` theorem
establishes; the generators rely on nothing else of the front end.

### Front end on expressions (`CTypes`, `CLayout`, `ExprTypes`, `ConstExpr`, `StaticExpr`, `StaticInits`, `CRules`, `Expressions`, `MCExpressions`)

`CTypes` and `CLayout` are the types, ranks, sizes and structure descriptors; `ExprTypes`
the `analyze_` functions of `expr.c`, which type or reject a tree; `ConstExpr` is
`eval_const_expr()`, which folds a tree in place; `StaticExpr` and `StaticInits` are
`do_static_expr()` and `do_static_init()`, of which each of the six generators has its own
copy. `Expressions` is the parser at work: a stack of analysed trees that grows by
operands and operators, and the definitions of initialised static objects. `CRules` is
the reference: C99's conversions, constraints, constant expressions and
initialisation, written without the functions of `expr.c`.

### LuxVM, from trees to output (`VMCode`, `VM32CGen`, `VM64CGen`, `VMAs`, `VMLd`, `VMachine`, `VM32`, `VM64`, `LuxVM`, `MCLuxVM`; `CSem`, `CProgram`)

`LuxVM` composes five programs of the repository on a list of small C programs:

| Module | Source | Actions and operators |
|---|---|---|
| `CSem` (first section) | `parser.c` | the trees that the analysis of `ExprTypes` has typed |
| `VMCode` | both generators | lines, labels, locations, jumps, switch tables, string pool |
| `VM32CGen`, `VM64CGen` | `vm32_cgen.c`, `vm64_cgen.c` | one operator per function and per case of `expression()`, giving the lines it emits |
| `VMAs` | `as.c`, `operations.c` | segments, symbols, relocations, directives, errors |
| `VMLd` | `ld.c` | one file after the other, then the fixes that waited |
| `LuxVM` | `luxcc.c`, `luxdvr.c`, `load_code()`, `crt0_32.s`, `crt0_64.s` | `Compile`, `Assemble`, `Arrange` (any order of the files), `Link`, `vm32_load_code`, `vm64_load_code` |
| `VMachine`, `VM32`, `VM64` | `vm32.c`, `vm64.c` | one action per instruction or group of instructions of `exec()`, and the library calls |

The generators are not abstracted to what they should do: each case emits the
instructions the source emits, conversions, pops and `addsp` included, and the machine
executes them on bytes. The one thing left out between the programs is text: lines are
records, and a symbol is a tuple that names its origin.

Two references, written without the compiler's functions:

- `CSem` evaluates a program on objects and values as C99 does (sequence of effects, scopes,
  `goto` into blocks, `switch`, initialisation, conversions).
- `CProgram` is the abstract specification: a complete program starts, writes the
  characters of its meaning one by one, and ends; an incomplete or ambiguous one is
  refused; it is fair. `LuxVM` refines it with `status` computed from the phase and
  `written` from the output (`C == INSTANCE CProgram WITH ...`, property `Implements`).

### Compilation driver (`Driver`, `MCDriver`, `DriverProofs`)

`main()` of `luxdvr.c`, word by word, check by check and child process by child
process. A child succeeds, fails or is killed by a signal; a file holds the number of the
input whose code it is, or junk. The required files of each target and C library are
the lists `Before` and `After`. Words of options that are only handed on are "pass"
and "flag".

## 3. Runs

| Run | Question | Bounds and why they are enough |
|---|---|---|
| `arena` | pieces in bounds and disjoint | 3 blocks: the current one, one to skip or reuse, one to grow into; requests of 1 and 6 bytes against blocks of 4 bytes and more, so that a request fits, fills or exceeds a block and a kept block may be too small |
| `liveout` | equations solved, exact for locals, loop terminates | 3 blocks: entry, one with a loop to itself, exit; every edge set and every order; blocks with up to two instructions of each kind the analysis tells apart |
| `liveout_statics` | are static objects in `LiveOut` (violation) | 4 blocks, the order that `number_CFG()` gives to blocks created in sequence |
| `nextuse` | marks exact | blocks of up to three instructions: a definition, a use and one between them |
| `cgen_words` | one-word instructions of x86 and x64 | 4 registers, 4 variables: EAX to EDX are the ones with fixed roles (division, shifts); fewer registers means that spilling happens sooner, and the helpers never depend on their number. ESI and EDI are in `cgen_structs`. The two temporaries are symmetric: the code picks registers and slots by number, never by variable |
| `cgen_risc` | the same for ARM and MIPS, with arguments in registers | 3 registers, r14 among them (ARM's is the one not in order), 3 variables: a new target finds all registers taken; with four variables `*p = d` evicts `p` (section 6). Up to two argument words wait in registers |
| `cgen_pairs` | 64-bit instructions of x86, ARM and MIPS (x64 has none) | 5 registers: two pairs and a pointer fill the file; up to one argument word before an argument, so that a pair skips r1 or $5 and the fourth word is passed in a register, but no pair goes to the stack |
| `cgen_structs` | structure copies, arguments and results, all four targets | on x86 and x64 variables live in ECX, ESI and EDI, the registers that `rep movsb` uses, so that each of the three has to be saved around a copy; ARM and MIPS copy with memcpy and use by name only registers that no variable gets (r0-r3, r12; $4-$7, $25), so two registers to allocate are enough there (r14 of ARM is left out, see below); structures of one and of four words, aligned to one and to two |
| `front` | types, constants and static data | trees of up to two operators, the second one on a tree or an operand: a conversion that the first operator gets wrong shows in the second; bytes of two bits, so that `char` to `long long` have 2 to 16 bits and every boundary is near; 33 objects on six targets |
| `front_padding` | trailing padding (violation) | the same objects |
| `luxvm` | the whole LuxVM tool chain | 83 programs on two machines: eleven of up to a hundred tree nodes for statements, `switch`, calls, `long long`, structures, initialisers, several files, pointers, output, `exit`, link errors, and 72 that apply every operator to each pair of six types with operands of both signs; bytes of three bits, so that a dword has 12 and a qword 24; a stack of 300 bytes, which no program fills |
| `driver` | temporaries, failures, outputs, link order | command lines of up to 4 words (two inputs with two options, so that every pair of modes, and every target with every library, occurs) and every outcome of every child |

Other bounds: `MaxBlocks`, `MaxLive`, `MaxBump` (arena), `MaxArgs` and `MaxPushed` (arguments
waiting), `N` and `Codes` (flow graphs), `MaxOperators`, `SmallConstant` and `ExprArchs` (trees).
Deadlock is checked for the arena and for LuxVM (whose `Ended` repeats the last state) and left unchecked where the program modelled does
stop: the analyses and the driver when they return, a code generator at a failed
assertion, the parser at a full stack.

What the properties mean:

- `NoOverlap`, `InBounds`: however resets, failures and stale blocks are mixed.
- `Solved`, `ExactForLocals`, `OnlyGrows`: at the end the sets satisfy the equations, hold only what some
  path of the flow graph reads, and all of it for locals; a visit never takes a variable out of a set.
- `Termination`: under weak fairness of the whole next-state relation. The analysis
  is a sequential loop that nothing else can stop, so that is all it needs.
- `FlagsRight`: including instructions like `x = x op x`, where target and operands coincide.
- `OperandsRight`, `ArgumentsRight`, `NothingLost`: the emitted code computes with the right values,
  arguments in registers survive until the call, and a value that may still be read is where the
  descriptors say. `DescriptorsAgree`, `RegistersForNextUse`, `SlotsReclaimed` and `CalleeSaved` are the
  contracts between the handlers.
- `TypesRight`, `ConstantsRight`, `StaticDataRight`: against `CRules`; the differences of section 6 are
  named in the properties (`StructToVoid`, `FunctionAssigned`) or excluded by the side condition that
  folding stays exact.
- `ResultRight`: the value of `main()` and every scalar of every external object at the end.
- `StackRight`: at every instruction the stack is a chain of intact frames, each with the arguments its
  caller counted, and a function returns with its result alone above its locals.
- `LinkedRight` (of `LuxVM`): in every order of the files each operand holds the address of the
  definition it refers to, and linking fails exactly when a name is used without definition or defined twice.
- `Implements`: the refinement of `CProgram`, output and termination included.
- `TempsRemoved`, `FailuresReported`, `FailuresIsolated`, `SuccessMeansOutput`, `LinkedRight` (of `Driver`):
  what the driver promises on return from `main()`, over all combinations of failures.

Fairness of `LuxVM`: the processes of a build run one after the other and `exec()` is a loop that
nothing else can stop, so weak fairness of the whole next-state relation is justified. `Fairness` spells it
out: always eventually a step, unless the program or the build has ended (TLC is too slow at finding out which
steps are enabled). This is weak fairness only if a step is enabled until the end; the run checks that, too,
since any other state would be a deadlock. That
programs end is then a fact about the code they were compiled to.

What the runs leave out because the code violates it (section 6), by the property concerned:

| Property | Run | Left out |
|---|---|---|
| `OperandsRight`, `NothingLost` | `cgen_words` | `x64_ind_asn()` of a constant qword (`ind_asn_const`); ESI and EDI, which `setcc` may get though they have no low byte |
| `OperandsRight` | `cgen_words`, `cgen_risc` | so many variables that `*p = d` evicts `p`: with these bounds the registers never run out between pointer and value |
| `OperandsRight` | `cgen_pairs` | `mips_add()` of a 64-bit `x + x` (`self_add2`) |
| `OperandsRight`, `AssertionsHold` | `cgen_pairs` | `x86_ret()` and `mips_ret()` of a 64-bit value (`ret2`); `arm_ret()` is right and in the run |
| `AssertionsHold` | `cgen_pairs` | `assert(modified[i])` of `arm_cgen.c:276`, which is a fault of its own (`"modified"`) that ends the path |
| `ScalarsKept` | `cgen_structs` | `*p = s` on x86 and x64 with `p` in EDI, if `p` is used again (`ind_asn_edi`); ARM's r14, which the call of memcpy changes. It stands in place of `NothingLost`, which is false of structures |
| `CalleeSaved` | `cgen_words`, `cgen_structs` | ARM; `x64_pre_call()` with a structure of more than 16 bytes (`big_args`) |
| `LinkedRight` | `driver` | the object of an assembly file: only its place in the order is stated |
| `SuccessMeansOutput` | `driver` | the exit status that `luxdvr.c:551` leaves undefined |
| `ConstantsRight` | `front` | operations that are not exact in the type of the expression; `&&`, `\|\|` and `?:` that evaluate an operand which is not a constant (an address: `1 && (a+1)`), for which the reference has no value |
| `ResultRight` | `luxvm` | a narrow minuend of a wide subtrahend, relations of `unsigned` with `long` |

## 4. Proofs

| Module | Theorem | Says | For |
|---|---|---|---|
| `ArenaProofs` | `Typed`, `PiecesFit`, `PiecesDisjoint` | `TypeOK`, `InBounds` and `NoOverlap` hold always | every header size, rounding, request size and number of blocks |
| `LiveOutProofs` | `Typed`, `LeastSolution` | `TypeOK`, `Solved` and `Least` hold always | every flow graph, code, set of variables and visiting order |
| | `ExactOnPaths` | `ExactForLocals` holds always | the same |
| | `NeverShrinks` | `OnlyGrows`, an action property | the same |
| `NextUseProofs` | `Typed`, `MarksExact` | `TypeOK` and `FlagsRight` hold always | blocks of every length, every `LiveOut` |
| `CGensProofs` | `Typed`, `TablesAgree`, `RegistersNeeded`, `SlotsFreed`, `NoAssertionFails` | `TypeOK`, `DescriptorsAgree`, `RegistersForNextUse`, `SlotsReclaimed` and `AssertionsHold` hold always | the four native generators with every set of variables, memory objects and instructions, and every register file that leaves `get_reg0()` a choice: three registers or more on x86 and x64, four on ARM, five on MIPS |
| | `RegistersTidy`, `SavedByCallee`, `ArgumentsFound` | `IInv /\ SInv`, `CalleeSaved` and `ArgumentsRight` hold always | the same, without structures of more than 16 bytes on the stack of an x64 call |
| | `ValuesPlaced`, `OperandsFound`, `NothingDropped` | `IInv`, and on x64 `VInv`, `OperandsRight` and `NothingLost` hold always | x64 with every set of one-word variables, memory objects and instructions, and every register file of three registers or more; if words are stored through pointers, with fewer variables than registers |
| `DriverProofs` | `Typed`, `NoTempsLeft`, `NoFailureForgotten`, `NoFailureSpreads`, `SuccessMeansDone`, `LinkedInOrder` | all invariants of the run `driver` hold always, `LinkedRight` with its exception: of an assembly file the linker gets, at the right place, a temporary that does not hold its object (`luxdvr.c:938`) | command lines of every length, every outcome of every child process |

The assumptions are the `ASSUME`s of the modules: the constants are natural numbers or sets
of the right kind, and a visiting order reaches every block.

*Arena.* `NoOverlap` is not inductive: it needs `Frontier`, which says that nothing has been
given out past `last`, that what was given out of `last` lies below its `avail`, and that
no `avail` lies in a header. Then a new piece, at `avail` of `last` or at the start of a later
block, is disjoint from all earlier ones. `Frontier` says nothing of the blocks
before `last`, whose `avail` a failed request may have moved past their limit.

*LiveOut.* `PassInv` says that while a pass has changed nothing, the blocks it
has visited satisfy their equations; since the order reaches every block, a pass
that changes nothing ends with all equations satisfied. `Least` (below every solution at all times) is
preserved because the right-hand sides are monotone (`NeededMonotone`), and so is `NoMore` (no set
holds more than its equation asks for), from which `OnlyGrows` follows. `GatherInv` says what the gathered sets are
after each instruction: it is what a loop invariant is to `live_init_block()`, so that no induction over a block's code is
needed. `ExactForLocals` then follows in two directions. The variables that paths read are a solution of the equations
(`PathsClosed`), so the least solution has no others; a path that gets longer than the number of blocks passes
some block twice and can be cut (`ShorterPath`, by the pigeonhole principle), which is why `ReadLater` may stop at paths of `N` steps.
And every solution has the variables that paths read (`SolutionsHaveThem`), by the shortest
path to a counterexample: induction over the naturals is had from the least element of a set (`LeastNumber`).

*NextUse.* `ScanInv` relates the two sets of the backward scan to the forward
definitions; three lemmas say how `Undefined`, `LiveFrom` and `UsedFrom` change
when the position moves back by one instruction.

*Code generators.* The properties of `CGens` are not inductive one by one: the register that a handler takes is
free only because the tables agree, and the tables agree after it only because of what was free. `IInv` (in `CGenProofs`)
joins them: the state is one in `States` (tables of the right type that agree, one slot for a temporary), every owner of a
register is used again in the block, every owner of a slot is alive, nothing is pinned between instructions and no assertion
has failed. It holds in all four targets' instances (TLC has checked it on the instances of the four runs).
The proof follows the code. `CGenProofs` has one lemma for each helper of `CGenRegs`, which says what the helper may
have changed, as a relation between the state before and after it: `Emitted` (instructions were emitted, the tables are the
same), `Stored`, `Fewer` (owners lost a register), `After` (an operand's registers were given up), `Reached` and `Still`
(a register was obtained, with everything that is pinned left in place). A handler is a chain of helpers; its lemma (in `CGenIntelProofs` for x86 and x64)
chains their relations, and ends with the marks of the operands, which decide who may still own a register. The handlers of ARM and MIPS are in `CGenRiscProofs`, with the same relations; what is
new there is that arguments travel in registers no variable is ever bound to (`Only`), so that passing a word disturbs no table.
`Roomy` (three registers, whichever two are taken away another is left) is what `get_reg0()` needs:
the handlers of x86 and x64 pin two at most, those of ARM three (`Roomy3`). MIPS needs `Roomy4`, since `mips_sub()` pins the
register of the borrow besides the pair of the result before `get_operand2()` takes a pair of its own; the compiler's own pool has eleven (ARM's has eight). The 64-bit handlers of x86 carry a
pair through every step: `PairReady` says that the registers `get_reg2()` chooses are pinned, distinct and where `load2()` asserts them to be,
`LoadedPair` that the load then keeps the tables, and `GoingFaulty` follows the rest of `x86_ret()` once its assertion has failed. `SlotsFreed` assumes that temporaries live in one block,
`NoAssertionFails` that `x86_ret()` and its MIPS counterpart return no 64-bit value (section 6); `AssertionsHold` is not about
`assert(modified[i])` (`arm_cgen.c:276`), which does fail.

`CalleeSaved` and `ArgumentsRight` need a second invariant, `SInv`, because `modified[]` and the registers of arguments are
protected by nothing in `IInv`: a handler changes a register that a variable already holds without looking at `modified[]`, so
`CalleeSaved` needs that every register a variable is *bound* to was marked when it was taken; and a word passed in `r0` or `$4` stays only because
no descriptor ever leads a later handler to that register. `Tidy(m, X, o)` says this of the generator's state `m` in the middle of a handler that began at `o`:
every register written or bound is `Ours` (not a register of arguments, and in `modified[]` if the callee has to keep it), every
word passed is `Intact`, `modified[]` has only grown. `X` names the registers a handler writes by their names, such as `EDI` before `rep movsb` or
`r0` while a word is being passed; they are discharged when the handler marks them or counts the word. `SInv` is
`Tidy` with no such register. Each helper of `CGenRegs` has a lemma that it keeps `Tidy`, and each handler chains them. A library call in the middle of an argument list (division on ARM,
64-bit operators on ARM and MIPS) takes the registers of arguments, so all of them are in `X` until `arm_restore_arg_regs()` has put the saved words back;
a structure's words are a loop, treated by the least word that fails.
One precondition comes from the code: `x64_pre_call()` takes R12 and R13 for a structure of more than 16 bytes without
marking them (section 6), so `SavedByCallee` is false of it. ARM is outside `CalleeSaved`, as in the runs.

`OperandsRight` and `NothingLost` are about the values, of which the descriptors only say where they should be. The invariant for x64 is `VInv`
(`CGenProofs`): the state is in `Sound(Alive(cg))`, where `Alive` are the variables that may be read again, and `Sound(S)` says that no operand
so far was wrong and that each variable of `S` is `Present`: in the register that its address descriptor names, or, if it names none, in its home, which is
its own memory or the slot that `temp_list` gives it. Three things make this more than the tables: a home is a variable's own (`HomesApart`, from
`OneSlot` and `PlacesAssumption`, which says that slots, variables and the places outside the frame are different things), a register that is overwritten was given up or
belongs to an operand that dies (`Free`, from `IInv`), and a store through a pointer or a call changes only variables that were
spilled before it. The helpers' lemmas say that a helper maps `Sound(S)` to `Sound(S)` or to
`Sound(S \ {tar})`, and which registers keep their contents; a handler's lemma (the second half of `CGensProofs`) chains them as the code does, once to find that each `RightIn`,
`RightRes` and `RightOpd` reads the value it should, and once to bind the target to the register that holds it. Between blocks the marks come
from outside: a temporary that lives on has its value in its slot, since at the end of a block no variable is in a register (`LastHeld`).
`OperandsFound` and `NothingDropped` follow at once. Their hypotheses are `Plain`, no 64-bit pairs (x64 has none), no structures, and pointers that
reach only objects whose address was taken; and `Ample`: with fewer variables than registers (or as many, unless a 64-bit constant is stored) `get_reg0()` finds an empty register while
`x64_ind_asn()` holds the pointer in one that it has not pinned. Without it the theorem is false (section 6). The run `cgen_words` satisfies both.

*Driver.* `DriverInv` is twelve conjuncts. `Listed`, `Ordered` and `Counted` say what `parse_option` and
`check_options` leave behind; `Progress` what has been translated when the
loop over the inputs is at a given one; `HandedOn`, `ObjectsRight`, `LinkedAll` and `Reported` which file holds whose code,
what the linker was given and that a failure is remembered. `DriverStep` has a lemma for each action.

Only model-checked: `Termination` and `Implements` (liveness is outside the prover's reach), what the code emitted
for x86, ARM and MIPS computes (`OperandsRight`, `NothingLost`: as for x64, they need an invariant on the contents of every register and slot, and for pairs the order of loads and stores besides), structures
(`ScalarsKept`),
all properties of the front end and the virtual machines. The trees, the layout of types, the linker and
the evaluator are recursive over data, which the prover cannot do induction on.

## 5. Not modelled

- Contents of arena storage (and with it the `zero` flag).
- Floating point (the compiler has none), the text of the assembly, messages, warnings, type qualifiers,
  incomplete types.
- `Quads` has no operator for OpEOF and the like, which the analyses skip.
- In the native generators each variable has one or two words; sizes within a word
  matter only for byte registers. String literals and the layout of the text are left out, and so are
  ARM's literal pools.
- LuxVM: `asm` statements and the variable-argument macros; library calls other than
  `getvars`, `exit` and `fputc`, which hand their arguments to the host's C library; addresses are numbers
  with the text at 8, where the source has those of `malloc()`, and memory that `malloc()` leaves
  undefined is zero, which no program of the run reads. Initialisers that the
  generator refuses. What C leaves undefined is not asked of the machine.
- The driver's paths are numbers: two inputs whose object would have the same name (`a.c` and `a.s`
  under `-c`) are different outputs in the model. Signals sent to the driver itself are not modelled.

The components with status `not_modelled` in `PROJECT.json` are those of the plan below, or
consist of input and output only.

## 6. Disagreements found

With a run (`expect: violation`) and a finding that quotes the line:

- `liveout_statics`: a call scanned before the assignment of a static object (in a loop, for
  instance) does not count as reading it, so the object may be missing from `LiveOut` and never stored.
- `front_padding`: nothing is reserved behind the last member of an initialised structure, though `sizeof`
  counts the padding (`expr.c:1392`); the next object starts there and a structure assignment overwrites it.

Met while modelling, without a run. *Native generators*:

- ARM moves the results of calls, divisions and library calls to r4 (and r5) without setting `modified[]`; spilling
  one stops the compiler at `assert(modified[i])` (`arm_cgen.c:276`), and r4 is not saved by the prologue. r14 is
  allocated although `bl __lux_arm_memcpy` changes it.
- MIPS: `x + x` with a 64-bit `x` that dies loses the carry (`mips_add()`).
- `x86_ret()` of a 64-bit variable that shares one register with EAX:EDX fails an assertion
  (`x86_cgen.c:459`); for a temporary the words are overwritten: `return a % b` of two ints as `long long`. MIPS does the same.
- `*p = s` with structures leaves EDI past the end of the copy and, when `p` was in EDI already, neither saves it nor
  gives it up (`x86_cgen.c:1973`, `x64_cgen.c:1644`): `*p = s; p->x = 1` with `p` in EDI stores behind the structure.
  The same happens to the address of a structure in ESI.
- x86 relational operators may be given ESI or EDI, which have no low byte (`x86_cgen.c:1477`).
- `*p = d` may evict `p` before it is used (`x86_cgen.c:1929`, `x64_cgen.c:1675` and the other two);
  `x64_cgen.c:1702` compares `val>=INT_MIN && val<=INT_MIN`.
- `x64_pre_call()` uses R12 and R13 for structures on the stack without marking them.
- A structure assignment only binds an address; `t = *p; p->x = 5; g(t)` copies after the store
  (`x86_cgen.c:1840`).
- An external variable whose address only another file takes is not treated as aliased
  (`x86_cgen.c:246`).

*Front end*:

- `eval_const_expr()` never truncates and tests the type of the result where it needs that of the operands:
  `-1 < 0u` is 1 in a constant. A cast to a pointer truncates to 32 bits on every target. `?:` overwrites its
  operator, so that a conditional with an address stops at `assert(0)` in two generators.
- `(void)s` with a structure is refused, against the comment at 6.5.4#2; `*f = x` with a function is accepted;
  `sizeof(a+1)` of an array is that of the array; `case` values are truncated to `int`.
- A union initialised through a first member that is not the largest gets only that member's bytes. The native
  targets end a string initialiser that fills its array with `'\0'` over the last character.
- A tentative definition is not completed when it is the only external declaration (`decl.c:1843`), and
  a name is judged external by its spelling alone (`expr.c:2488`).

*LuxVM*:

- `a - b` of integers tests the rank of `a` instead of the type of the result: a narrow minuend of a wide subtrahend
  is computed with a mixed stack. Relations are unsigned as soon as one promoted operand is (`-1LL < 1u`).
- Compound assignments evaluate the left operand twice, and so do `++` and `--` of a `long long` on vm32.
- A cast of a `long long` to `void` leaves a dword on the stack. A `vm64` function that returns `char` or `short` does not
  convert its result to that type. An array passed beyond the declared parameters counts for four bytes where eight are pushed.
- Static locals of the same name in two blocks of a function (or `f_g` and `h` with `f` and `g_h`) have one mangled name: the
  assembler reports a redefinition.
- The break and continue stacks (128), the string pool, `id[64]` of `as.c` and `infiles[64]` of `ld.c` are filled without a check.

*Driver*:

- The object of an assembly file is written under a wrong name in a link (`luxdvr.c:938` passes `obj_tmps` for `obj_tmp`), although
  the manual (`doc/index.html`, 3.9) lets assembly files be linked.
- `luxdvr.c:551` jumps past `exst = 0`: with `-o` and several inputs the exit status is
  whatever the variable held. The model lets it be either.
- `exec_cmd()` calls `exit(1)` when a child is killed, leaving the temporary files.
- `-m vm32` as two words compares `"-m"` with the machine names (`luxdvr.c:461`), so the driver keeps
  its default target while the compiler gets `-m vm32`.
- For the LuxVM targets and a static glibc link the `-X` linker options are dropped.
- `obj_tmps[64]`, `required_files[64]`, `arg_stack[64]` and `calls_to_fix[64]` are filled without a check.

## 7. Plan

Done: arenas, data flow, the four native generators, expressions and static initialisers, the LuxVM tool
chain with its abstract specification, the driver.

1. *Proofs*: `NothingLost` and `OperandsRight` for x86, ARM and MIPS, with `VInv` and the words of a pair; `LinkedRight`
   of `VMLd` for one more object, with the folds written as functions.
2. *Intermediate code* (`ICode`): construction and numbering of the flow graph, jump and label
   generation for statements, and `ic_simplify()`; executed against `CSem`; the flow graph as an abstract
   specification that `LiveOut`'s initial states refine. Theorem: numbering is a permutation, which is
   what `LiveOutAssumption` asks of `Orders`.
3. *Linking* (`Symbols`, `Archive`): resolution over objects, archives and shared objects in `luxld`; the abstract
   specification of resolution that `VMLd` and it implement.
4. *Preprocessor* (`Cond`, `Macros`): the conditional stack and macro expansion with hidden names.
   Property: every line in exactly one live branch, expansion stops.
5. *Run-time library* (`Stdio`, `Malloc`): FILE streams against an abstract byte stream;
   the heap's free list. *Scopes* (`Decl`, `Stmt`), *bit sets* (`Bset`).

Violation runs whose finding has been recorded give way to runs of new components
as the project grows; their description stays in section 6.
