-------------------------------- MODULE VM64 ---------------------------------
(***************************************************************************)
(* The 64-bit virtual machine: exec() and do_libcall() of vm64.c.  An      *)
(* address takes a qword of the stack.  swap is not emitted for it.        *)
(***************************************************************************)
EXTENDS VMachine

\* Memory reads: the address on the stack becomes the value.
vm64_Load ==
  /\ Executes("vm64", DOMAIN LoadSize)
  /\ Continue(Put(mem, Slot(-1), 4, Extended(WordOf(Q(-1), LoadSize[Instr.o]), LoadSize[Instr.o],
                                             Instr.o \in SignExtending, DWord)), -4)
vm64_LdQW == Executes("vm64", {"ldqw"}) /\ Continue(Put(mem, Slot(-1), 8, Word8(Q(-1))), 0)
vm64_LdN ==
  /\ Executes("vm64", {"ldn"})
  /\ Continue(Copied(mem, Slot(-1), Q(-1), Operand4), round_up(Operand4, 4) - 8)

\* Memory writes: the address goes, the value stays.
vm64_Store ==
  /\ Executes("vm64", DOMAIN StoreSize)
  /\ Continue(Put(mem, Q(-1), StoreSize[Instr.o], D(-2)), -8)
vm64_StQW == Executes("vm64", {"stqw"}) /\ Continue(Put(mem, Q(-1), 8, Q(-3)), -8)
vm64_MemCpy == Executes("vm64", {"memcpy"}) /\ Continue(Copied(mem, Q(-3), Q(-1), Operand4), -8)
vm64_Fill == Executes("vm64", {"fill"}) /\ Continue(Filled(mem, Q(-2), D(0) % 2^ByteBits, Operand4), -4)

vm64_LdBP == Executes("vm64", {"ldbp"}) /\ Continue(Put(mem, Slot(1), 8, (bp + Operand4) % 2^QWord), 8)
vm64_LdIDW == Executes("vm64", {"ldidw"}) /\ Continue(Put(mem, Slot(1), 4, Instr.v), 4)
vm64_LdIQW == Executes("vm64", {"ldiqw"}) /\ Continue(Put(mem, Slot(1), 8, Instr.v), 8)

vm64_Arithmetic ==
  \/ /\ Executes("vm64", DOMAIN ArithmeticDW)
     /\ BinaryDW(Compute(ArithmeticDW[Instr.o], D(-1), D(0), DWord))
  \/ /\ Executes("vm64", DOMAIN ArithmeticQW)
     /\ BinaryQW(Compute(ArithmeticQW[Instr.o], Q(-3), Q(-1), QWord))
vm64_Neg ==
  \/ Executes("vm64", {"negdw"}) /\ Continue(Put(mem, sp, 4, (-D(0)) % 2^DWord), 0)
  \/ Executes("vm64", {"negqw"}) /\ Continue(Put(mem, Slot(-1), 8, (-Q(-1)) % 2^QWord), 0)
vm64_Not ==
  \/ Executes("vm64", {"notdw"}) /\ Continue(Put(mem, sp, 4, Truth0Of(D(0) = 0)), 0)
  \/ Executes("vm64", {"notqw"}) /\ Continue(Put(mem, Slot(-1), 4, Truth0Of(Q(-1) = 0)), -4)

vm64_Comparison ==
  \/ /\ Executes("vm64", DOMAIN ComparisonDW)
     /\ BinaryDW(Truth0Of(Compare(ComparisonDW[Instr.o], D(-1), D(0), DWord)))
  \/ /\ Executes("vm64", DOMAIN ComparisonQW)
     /\ RelationQW(Truth0Of(Compare(ComparisonQW[Instr.o], Q(-3), Q(-1), QWord)))

vm64_Bitwise ==
  \/ Executes("vm64", DOMAIN BitwiseDW) /\ BinaryDW(Combine(BitwiseDW[Instr.o], D(-1), D(0)))
  \/ Executes("vm64", DOMAIN BitwiseQW) /\ BinaryQW(Combine(BitwiseQW[Instr.o], Q(-3), Q(-1)))
vm64_Cmpl ==
  \/ Executes("vm64", {"cmpldw"}) /\ Continue(Put(mem, sp, 4, 2^DWord - 1 - D(0)), 0)
  \/ Executes("vm64", {"cmplqw"}) /\ Continue(Put(mem, Slot(-1), 8, 2^QWord - 1 - Q(-1)), 0)
vm64_Shift ==
  \/ Executes("vm64", DOMAIN ShiftDW) /\ BinaryDW(Shift(ShiftDW[Instr.o], D(-1), D(0), DWord))
  \/ Executes("vm64", DOMAIN ShiftQW) /\ CountedQW(Shift(ShiftQW[Instr.o], Q(-2), D(0), QWord))

vm64_Conversion ==
  \/ /\ Executes("vm64", DOMAIN Narrowings)
     /\ Continue(Put(mem, sp, 4, Extended(D(0), Narrowings[Instr.o], Instr.o \in SignExtending, DWord)), 0)
  \/ /\ Executes("vm64", {"dw2qw", "udw2qw"})
     /\ Continue(Put(mem, sp, 8, Extended(D(0), 4, Instr.o \in SignExtending, QWord)), 4)

\* Above the arguments: the return address, the old bp, the size of the arguments.
vm64_Call ==
  /\ Executes("vm64", {"call"})
  /\ mem' = Put(Put(Put(mem, Slot(-1), 8, ip + Instr.n), Slot(1), 8, bp), Slot(3), 4, Instr.v)
  /\ sp' = sp + 12 /\ bp' = sp + 12 /\ ip' = Q(-1)
  /\ UNCHANGED <<phase, build, target_arch, text, out>>
\* The value takes the place of the arguments.
vm64_Result == bp - 16 - Word4(bp)
vm64_Ret ==
  /\ Executes("vm64", {"ret"})
  /\ mem' = Put(mem, vm64_Result, 8, Q(-1))
  /\ sp' = vm64_Result + 4 /\ ip' = Word8(bp - 16) /\ bp' = Word8(bp - 8)
  /\ UNCHANGED <<phase, build, target_arch, text, out>>

vm64_Jmp == Executes("vm64", {"jmp"}) /\ Branch(Instr.v, 0)
vm64_JmpF == Executes("vm64", {"jmpf"}) /\ Branch(IF D(0) = 0 THEN Instr.v ELSE ip + Instr.n, -4)
vm64_JmpT == Executes("vm64", {"jmpt"}) /\ Branch(IF D(0) # 0 THEN Instr.v ELSE ip + Instr.n, -4)
vm64_Switch ==
  \/ Executes("vm64", {"switch"}) /\ Branch(SwitchTarget(Signed(D(-2), DWord), Q(-1), 4, 8), -12)
  \/ Executes("vm64", {"switch2"}) /\ Branch(SwitchTarget(Signed(Q(-3), QWord), Q(-1), 8, 8), -16)

\* The calls of the library that the programs use; a result is left on the stack.
vm64_LibCall(n) == Executes("vm64", {"libcall"}) /\ Instr.v = n
vm64_getvars == vm64_LibCall(0) /\ Continue(Put(WithVars(Word8(bp - 24), 8), Slot(1), 4, 0), 8)
vm64_exit ==
  /\ vm64_LibCall(3)
  /\ phase' = "halted"
  /\ UNCHANGED <<build, target_arch, machine>>
vm64_fputc ==
  /\ vm64_LibCall(5)
  /\ mem' = Put(mem, Slot(1), 4, Word4(bp - 20) % 2^ByteBits)
  /\ out' = Append(out, Word4(bp - 20) % 2^ByteBits)
  /\ sp' = sp + 8 /\ ip' = ip + Instr.n
  /\ UNCHANGED <<phase, build, target_arch, text, bp>>

vm64_AddSP == Executes("vm64", {"addsp"}) /\ Continue(mem, Operand4)
vm64_Dup == Executes("vm64", {"dup"}) /\ Continue(Put(mem, Slot(1), 4, D(0)), 4)
vm64_Dup2 == Executes("vm64", {"dup2"}) /\ Continue(Put(mem, Slot(1), 8, Q(-1)), 8)
vm64_Pop == Executes("vm64", {"pop"}) /\ Continue(mem, -4)
vm64_Swap2 ==
  Executes("vm64", {"swap2"}) /\ Continue(Put(Put(mem, Slot(-1), 8, Q(-3)), Slot(-3), 8, Q(-1)), 0)
vm64_Halt ==
  /\ Executes("vm64", {"halt"})
  /\ phase' = "halted"
  /\ UNCHANGED <<build, target_arch, machine>>

vm64_exec ==
  \/ vm64_Load \/ vm64_LdQW \/ vm64_LdN \/ vm64_Store \/ vm64_StQW \/ vm64_MemCpy \/ vm64_Fill
  \/ vm64_LdBP \/ vm64_LdIDW \/ vm64_LdIQW
  \/ vm64_Arithmetic \/ vm64_Neg \/ vm64_Not \/ vm64_Comparison
  \/ vm64_Bitwise \/ vm64_Cmpl \/ vm64_Shift \/ vm64_Conversion
  \/ vm64_Call \/ vm64_Ret \/ vm64_Jmp \/ vm64_JmpF \/ vm64_JmpT \/ vm64_Switch
  \/ vm64_getvars \/ vm64_exit \/ vm64_fputc
  \/ vm64_AddSP \/ vm64_Dup \/ vm64_Dup2 \/ vm64_Pop \/ vm64_Swap2 \/ vm64_Halt
=============================================================================
