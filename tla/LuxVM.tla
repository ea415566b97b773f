-------------------------------- MODULE LuxVM --------------------------------
(***************************************************************************)
(* A program on a virtual machine: its units are compiled (VM32CGen,       *)
(* VM64CGen), assembled (VMAs), linked after the startup code (VMLd),      *)
(* loaded and run (VM32, VM64).                                            *)
(***************************************************************************)
EXTENDS VM32CGen, VM64CGen, VMLd, VM32, VM64, CSem

CONSTANT StackSize   \* bytes of the stack; the -s option of the machine

ASSUME LuxVMAssumption == StackSize \in Nat

vars == <<target_arch, phase, build, machine>>

vm64 == target_arch = "vm64"
Pointer == IF vm64 THEN 8 ELSE 4

-----------------------------------------------------------------------------
(* The startup code, crt0_32.s and crt0_64.s, with the library calls that  *)
(* the programs use.                                                       *)
Reserve(name, n) == <<Lab(Global(name)), Dir("res", n)>>
ReserveGlobal(name, n) == <<Lab(Global(name)), DirS("global", Global(name), 0), Dir("res", n)>>
Routine(name, n) == <<Lab(Global(name)), DirS("global", Global(name), 0), OpN("libcall", n), Op("ret")>>
crt0_bss(n) ==
  <<Dir("bss", 0), Dir("align", n), Lab(Global("_vars"))>>
  \o ReserveGlobal("stdin", n) \o ReserveGlobal("stdout", n) \o ReserveGlobal("stderr", n)
  \o Reserve("_argc", n) \o Reserve("_argv", n) \o ReserveGlobal("errno", n)
crt0_library ==
  <<Lab(Global("_getvars")), OpN("libcall", 0), Op("ret")>> \o Routine("exit", 3) \o Routine("fputc", 5)
crt0_32 ==
  crt0_bss(4)
  \o <<Dir("text", 0), OpS("ldidw", Global("_vars")), OpS("ldidw", Global("_getvars")), OpN("call", 4), Op("pop"),
       DirS("extern", Global("main"), 0),
       OpS("ldidw", Global("_argv")), Op("lddw"), OpS("ldidw", Global("_argc")), Op("lddw"),
       OpS("ldidw", Global("main")), OpN("call", 8), Op("halt")>>
  \o crt0_library
crt0_64 ==
  crt0_bss(8)
  \o <<Dir("text", 0), OpS("ldiqw", Global("_vars")), OpS("ldiqw", Global("_getvars")), OpN("call", 8),
       Op("pop"), Op("pop"), DirS("extern", Global("main"), 0),
       OpS("ldiqw", Global("_argv")), Op("ldqw"), OpS("ldiqw", Global("_argc")), Op("lddw"),
       OpS("ldiqw", Global("main")), OpN("call", 12), Op("pop"), Op("halt")>>
  \o crt0_library

-----------------------------------------------------------------------------
(* The build.  The object files of the units follow that of the startup    *)
(* code in any order.                                                      *)
NoBuild == [prog |-> 1, lines |-> <<>>, objs |-> <<>>, todo |-> <<>>, image |-> NothingLinked]

Init ==
  /\ target_arch \in {"vm32", "vm64"}
  /\ phase = "compile"
  /\ \E n \in DOMAIN Programs : build = [NoBuild EXCEPT !.prog = n]
  /\ text = <<>> /\ mem = <<>> /\ ip = 0 /\ sp = 0 /\ bp = 0 /\ out = <<>>

Compiled(units) == [u \in DOMAIN units |-> IF vm64 THEN vm64_cgen(units[u]) ELSE vm32_cgen(units[u])]
Compile ==
  /\ phase = "compile"
  /\ \E units \in {TypedProgram(build.prog)} : build' = [build EXCEPT !.lines = Compiled(units)]
  /\ phase' = "assemble"
  /\ UNCHANGED <<target_arch, machine>>

\* The next file; the driver links nothing when the assembler has failed.
Files == <<IF vm64 THEN crt0_64 ELSE crt0_32>> \o build.lines
Assemble ==
  /\ phase = "assemble"
  /\ Len(build.objs) < Len(Files)
  /\ \E a \in {assemble(Files[Len(build.objs) + 1], vm64)} :
       /\ build' = [build EXCEPT !.objs = Append(@, a)]
       /\ phase' = IF a.err = "none" THEN phase ELSE "failed"
  /\ UNCHANGED <<target_arch, machine>>

Orders(n) == {s \in [1..n -> 1..n] : s[1] = 1 /\ \A i, j \in 1..n : s[i] = s[j] => i = j}
Arrange ==
  /\ phase = "assemble"
  /\ Len(build.objs) = Len(Files)
  /\ \E s \in Orders(Len(Files)) : build' = [build EXCEPT !.todo = s, !.lines = <<>>]
  /\ phase' = "link"
  /\ UNCHANGED <<target_arch, machine>>

\* Input[i]: the i-th object in the order of the link.
Input == [i \in DOMAIN build.todo |-> build.objs[build.todo[i]]]
RECURSIVE Linked(_, _, _)
Linked(m, i, unit) ==
  IF i > Len(Input) \/ m.err # "none" THEN m ELSE Linked(link_object(m, Input[i], unit), i + 1, unit)
Link ==
  /\ phase = "link"
  /\ \E m \in {fix(Linked(NothingLinked, 1, Pointer), 1, Pointer)} :
       /\ build' = [build EXCEPT !.image = m]
       /\ phase' = IF m.err = "none" THEN "load" ELSE "failed"
  /\ UNCHANGED <<target_arch, machine>>

-----------------------------------------------------------------------------
(* load_code() of vm32.c and of vm64.c: the segments in memory, the        *)
(* relocations.                                                            *)
DataBase(m) == TextBase + round_up(Len(m.text), 8)
BssBase(m) == DataBase(m) + round_up(Len(m.data), 8)
StackBase(m) == BssBase(m) + round_up(m.bss, 8)
SegmentBase(m, seg) == CASE seg = "text" -> TextBase [] seg = "data" -> DataBase(m) [] seg = "bss" -> BssBase(m)

RECURSIVE Rebased(_, _, _, _)
LoadBase(m, seg) == SegmentBase(m, seg)
Rebased(k, m, i, size) ==
  IF i > Len(m.relocs) THEN k
  ELSE Rebased(AddAt(k, m.relocs[i].seg, m.relocs[i].off, LoadBase(m, m.relocs[i].base), size), m, i + 1, size)

\* Where the global symbols are once loaded (kept for the properties).
Located(m) ==
  [x \in {y \in DOMAIN m.syms : m.syms[y].kind = "global"} |->
     [m.syms[x] EXCEPT !.off = @ + SegmentBase(m, m.syms[x].seg)]]

\* The stack holds what malloc() returned: here zeros.
Loaded(m, size) == Rebased(m, m, 1, size)
MemoryOf(k, m) ==
  [a \in DataBase(m)..(StackBase(m) + StackSize - 1) |->
     IF a - DataBase(m) + 1 \in DOMAIN k.data THEN k.data[a - DataBase(m) + 1].v ELSE 0]
load_code(arch, size) ==
  /\ phase = "load" /\ target_arch = arch
  /\ \E k \in {Loaded(build.image, size)} : text' = k.text /\ mem' = MemoryOf(k, build.image)
  /\ ip' = TextBase /\ sp' = StackBase(build.image) /\ bp' = StackBase(build.image)
  /\ build' = [NoBuild EXCEPT !.prog = build.prog,
                              !.image = [NothingLinked EXCEPT !.syms = Located(build.image),
                                                               !.bss = StackBase(build.image)]]
  /\ phase' = "running"
  /\ UNCHANGED <<target_arch, out>>
vm32_load_code == load_code("vm32", 4)
vm64_load_code == load_code("vm64", 8)

\* Nothing happens after the end.  With this step a state without another one is a deadlock.
Ended == phase \in {"halted", "failed"} /\ UNCHANGED vars

Next ==
  \/ Compile \/ Assemble \/ Arrange \/ Link \/ vm32_load_code \/ vm64_load_code
  \/ vm32_exec \/ vm64_exec
  \/ Ended
\* WF_vars(Next), spelt out: <<Next>>_vars is enabled until the end, as it is where no state
\* deadlocks.
Fairness == []<>(phase \in {"halted", "failed"}) \/ []<><<Next>>_vars
Spec == Init /\ [][Next]_vars /\ Fairness
-----------------------------------------------------------------------------
(***************************************************************************)
(* Properties                                                              *)
(***************************************************************************)
TypeOK ==
  /\ target_arch \in {"vm32", "vm64"}
  /\ phase \in {"compile", "assemble", "link", "load", "running", "halted", "failed"}
  /\ phase \in {"running", "halted"} =>
       /\ Instr.n > 0
       /\ \A a \in DOMAIN mem : mem[a] \in 0..(2^ByteBits - 1)
       /\ sp \in build.image.bss..(build.image.bss + StackSize - 8)
       /\ bp \in build.image.bss..sp

\* The integer and pointer objects in an object of type t at a.
RECURSIVE Leaves(_, _, _)
Leaves(t, a, n) ==
  CASE get_type_category(t) = "[]" ->
         UNION {Leaves(Derived(t), a, n + (i - 1) * get_sizeof(Derived(t))) : i \in 1..Head(t.d).n}
    [] get_type_category(t) = "struct" ->
         UNION {Leaves(Descriptor(t.tag).members[i].type, a, n + Descriptor(t.tag).members[i].offset) :
                  i \in DOMAIN Descriptor(t.tag).members}
    [] get_type_category(t) = "union" -> {}
    [] OTHER -> {[p |-> Address(a, n), t |-> t]}

\* The word that a value is in memory, when its address is known.
Known(v) == v.b = NoObj \/ (v.b[1] = "g" /\ Global(v.b[2]) \in DOMAIN build.image.syms)
Representation(v, size) ==
  (v.n + (IF v.b = NoObj THEN 0 ELSE build.image.syms[Global(v.b[2])].off)) % 2^(ByteBits * size)

External(units) ==
  UNION {{[d |-> units[u][i], a |-> <<"g", units[u][i].n>>] :
            i \in {j \in DOMAIN units[u] : units[u][j].k = "object" /\ units[u][j].sto # "static"}} : u \in DOMAIN units}

\* A program that runs to its end leaves in its external objects and returns what C99
\* says of the source (both code generators, as.c, ld.c, load_code() and exec()).
ResultRight ==
  phase = "halted" =>
    \E units \in {TypedProgram(build.prog)} : \E m \in {Meaning(units)} :
      /\ m.st = "go" => D(0) = m.val.n % 2^DWord
      /\ \A x \in External(units) : \A l \in Leaves(x.d.t, x.a, 0) :
           \E v \in {Get(m, l.p.b, l.p.n)} :
             Known(v) => Representation(v, get_sizeof(l.t))
                         = WordOf(build.image.syms[Global(l.p.b[2])].off + l.p.n, get_sizeof(l.t))

\* The record of a call at b: above the arguments the return address, the caller's bp and
\* the size of the arguments.
ReturnAddress(b) == WordOf(b - 2 * Pointer, Pointer)
CallerBP(b) == WordOf(b - Pointer, Pointer)
ArgumentsAt(b) == b - 2 * Pointer - Word4(b)
RECURSIVE FramesRight(_)
\* Each frame down to the bottom of the stack is that of a call: the machine returns after
\* a call of as many bytes of arguments, and these are above the caller's frame.
FramesRight(b) ==
  b = build.image.bss
  \/ /\ CellAt(ReturnAddress(b) - 5).o = "call"
     /\ CellAt(ReturnAddress(b) - 5).v = Word4(b)
     /\ build.image.bss <= CallerBP(b) /\ CallerBP(b) <= ArgumentsAt(b)
     /\ FramesRight(CallerBP(b))

RECURSIVE Preceding(_), LocalBytes(_)
Preceding(p) == IF CellAt(p - 1).n = 0 /\ p > TextBase THEN Preceding(p - 1) ELSE CellAt(p - 1)
\* What the function of the instruction at p reserved for its locals.
LocalBytes(p) ==
  IF p < TextBase THEN 0
  ELSE IF CellAt(p).o = "addsp" /\ Signed(CellAt(p).v, DWord) >= 0 THEN CellAt(p).v ELSE LocalBytes(p - 1)
\* The size of the value that ret moves: a word of the machine, on vm32 after a long long
\* that its address follows, on vm64 a dword for the result of no expression.
ReturnedBytes ==
  IF vm64 THEN IF Preceding(ip).o = "ldidw" THEN 4 ELSE 8
  ELSE IF Preceding(ip).o = "pushsp" THEN 12 ELSE 4

\* The stack of a program is a chain of the frames of its calls, no store breaks it, and
\* a function returns with its value alone above its locals: every statement, loop, switch
\* and jump left the stack as high as it was (expression_statement(), the pops and addsp
\* of the code generators; call and ret of exec()).
StackRight ==
  phase = "running" =>
    /\ FramesRight(bp)
    /\ (Instr.o = "ret" /\ bp # build.image.bss) => sp - bp = LocalBytes(ip) + ReturnedBytes

-----------------------------------------------------------------------------
(* What a linked program is, from the objects in their order.              *)
SegmentSize(a, seg) == CASE seg = "text" -> Len(a.text) [] seg = "data" -> Len(a.data) [] seg = "bss" -> a.bss
RECURSIVE BaseOf(_, _)
BaseOf(i, seg) == IF i = 1 THEN 0 ELSE BaseOf(i - 1, seg) + round_up(SegmentSize(Input[i - 1], seg), Pointer)
OperandAt(x, seg, off) == IF seg = "text" THEN x.text[off].v ELSE DataValue(x.data, off, Pointer)

Defines(a, name) == name \in DOMAIN a.syms /\ a.syms[name].kind = "global"
DefiningObject(i, name) ==
  IF Input[i].syms[name].kind # "extern" THEN i ELSE CHOOSE j \in DOMAIN Input : Defines(Input[j], name)
Ambiguous ==
  \E i, j \in DOMAIN Input : i # j /\ \E name \in DOMAIN Input[i].syms : Defines(Input[i], name) /\ Defines(Input[j], name)
Missing ==
  \E i \in DOMAIN Input : \E k \in DOMAIN Input[i].relocs :
    /\ Input[i].syms[Input[i].relocs[k].sym].kind = "extern"
    /\ ~\E j \in DOMAIN Input : Defines(Input[j], Input[i].relocs[k].sym)

\* The reference r of the i-th object reaches the definition of its symbol.
Reaches(m, i, r) ==
  LET j == DefiningObject(i, r.sym)
      s == Input[j].syms[r.sym]
      off == BaseOf(i, r.seg) + r.off
  IN  /\ OperandAt(m, r.seg, off)
         = (OperandAt(Input[i], r.seg, r.off) + BaseOf(j, s.seg) + s.off) % 2^(ByteBits * Pointer)
      /\ \E k \in DOMAIN m.relocs : m.relocs[k] = Reloc(r.seg, off, s.seg, NoSymbol)
                                    \/ m.relocs[k] = Reloc(r.seg, off, s.seg, r.sym)

\* The linker refuses a program exactly when two of its files define a name or none does
\* that is used, whatever the order of the files; otherwise each reference gets the address
\* of the definition it is to, its own file's before another's (define_symbol(),
\* lookup_symbol() and main() of ld.c; the driver passes the files in the order given).
LinkedRight ==
  (phase = "load" \/ (phase = "failed" /\ build.todo # <<>>)) =>
    /\ (build.image.err # "none") = (Ambiguous \/ Missing)
    /\ build.image.err = "none" =>
         \A i \in DOMAIN Input : \A k \in DOMAIN Input[i].relocs : Reaches(build.image, i, Input[i].relocs[k])

-----------------------------------------------------------------------------
\* The build and the machine implement CProgram: the characters are written in the
\* order of the source and none is missing at the end, a complete program ends, and only
\* an incomplete one is refused.
Status ==
  CASE phase = "running" -> "running" [] phase = "halted" -> "done" [] phase = "failed" -> "refused"
    [] OTHER -> "building"
C == INSTANCE CProgram WITH prog <- build.prog, status <- Status, written <- out
Implements == C!Spec
=============================================================================
