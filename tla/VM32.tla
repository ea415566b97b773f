-------------------------------- MODULE VM32 ---------------------------------
(***************************************************************************)
(* The 32-bit virtual machine: exec() and do_libcall() of vm32.c.  An      *)
(* address takes one dword of the stack.                                   *)
(***************************************************************************)
EXTENDS VMachine

\* Memory reads: the address on the stack becomes the value.
vm32_Load ==
  /\ Executes("vm32", DOMAIN LoadSize)
  /\ Continue(Put(mem, sp, 4, Extended(WordOf(D(0), LoadSize[Instr.o]), LoadSize[Instr.o],
                                       Instr.o \in SignExtending, DWord)), 0)
vm32_LdQW == Executes("vm32", {"ldqw"}) /\ Continue(Put(mem, sp, 8, Word8(D(0))), 4)
vm32_LdN ==
  /\ Executes("vm32", {"ldn"})
  /\ Continue(Copied(mem, sp, D(0), Operand4), round_up(Operand4, 4) - 4)

\* Memory writes: the address goes, the value stays.
vm32_Store ==
  /\ Executes("vm32", DOMAIN StoreSize)
  /\ Continue(Put(mem, D(0), StoreSize[Instr.o], D(-1)), -4)
vm32_StQW == Executes("vm32", {"stqw"}) /\ Continue(Put(mem, D(0), 8, Q(-2)), -4)
vm32_MemCpy == Executes("vm32", {"memcpy"}) /\ Continue(Copied(mem, D(-1), D(0), Operand4), -4)
vm32_Fill == Executes("vm32", {"fill"}) /\ Continue(Filled(mem, D(-1), D(0) % 2^ByteBits, Operand4), -4)

vm32_LdBP == Executes("vm32", {"ldbp"}) /\ Continue(Put(mem, Slot(1), 4, (bp + Operand4) % 2^DWord), 4)
vm32_LdIDW == Executes("vm32", {"ldidw"}) /\ Continue(Put(mem, Slot(1), 4, Instr.v), 4)
vm32_LdIQW == Executes("vm32", {"ldiqw"}) /\ Continue(Put(mem, Slot(1), 8, Instr.v), 8)

vm32_Arithmetic ==
  \/ /\ Executes("vm32", DOMAIN ArithmeticDW)
     /\ BinaryDW(Compute(ArithmeticDW[Instr.o], D(-1), D(0), DWord))
  \/ /\ Executes("vm32", DOMAIN ArithmeticQW)
     /\ BinaryQW(Compute(ArithmeticQW[Instr.o], Q(-3), Q(-1), QWord))
vm32_Neg ==
  \/ Executes("vm32", {"negdw"}) /\ Continue(Put(mem, sp, 4, (-D(0)) % 2^DWord), 0)
  \/ Executes("vm32", {"negqw"}) /\ Continue(Put(mem, Slot(-1), 8, (-Q(-1)) % 2^QWord), 0)
vm32_Not ==
  \/ Executes("vm32", {"notdw"}) /\ Continue(Put(mem, sp, 4, Truth0Of(D(0) = 0)), 0)
  \/ Executes("vm32", {"notqw"}) /\ Continue(Put(mem, Slot(-1), 4, Truth0Of(Q(-1) = 0)), -4)

vm32_Comparison ==
  \/ /\ Executes("vm32", DOMAIN ComparisonDW)
     /\ BinaryDW(Truth0Of(Compare(ComparisonDW[Instr.o], D(-1), D(0), DWord)))
  \/ /\ Executes("vm32", DOMAIN ComparisonQW)
     /\ RelationQW(Truth0Of(Compare(ComparisonQW[Instr.o], Q(-3), Q(-1), QWord)))

vm32_Bitwise ==
  \/ Executes("vm32", DOMAIN BitwiseDW) /\ BinaryDW(Combine(BitwiseDW[Instr.o], D(-1), D(0)))
  \/ Executes("vm32", DOMAIN BitwiseQW) /\ BinaryQW(Combine(BitwiseQW[Instr.o], Q(-3), Q(-1)))
vm32_Cmpl ==
  \/ Executes("vm32", {"cmpldw"}) /\ Continue(Put(mem, sp, 4, 2^DWord - 1 - D(0)), 0)
  \/ Executes("vm32", {"cmplqw"}) /\ Continue(Put(mem, Slot(-1), 8, 2^QWord - 1 - Q(-1)), 0)
vm32_Shift ==
  \/ Executes("vm32", DOMAIN ShiftDW) /\ BinaryDW(Shift(ShiftDW[Instr.o], D(-1), D(0), DWord))
  \/ Executes("vm32", DOMAIN ShiftQW) /\ CountedQW(Shift(ShiftQW[Instr.o], Q(-2), D(0), QWord))

vm32_Conversion ==
  \/ /\ Executes("vm32", DOMAIN Narrowings)
     /\ Continue(Put(mem, sp, 4, Extended(D(0), Narrowings[Instr.o], Instr.o \in SignExtending, DWord)), 0)
  \/ /\ Executes("vm32", {"dw2qw", "udw2qw"})
     /\ Continue(Put(mem, sp, 8, Extended(D(0), 4, Instr.o \in SignExtending, QWord)), 4)

\* Above the arguments: the return address, the old bp, the size of the arguments.
vm32_Call ==
  /\ Executes("vm32", {"call"})
  /\ mem' = Put(Put(Put(mem, sp, 4, ip + Instr.n), Slot(1), 4, bp), Slot(2), 4, Instr.v)
  /\ sp' = sp + 8 /\ bp' = sp + 8 /\ ip' = D(0)
  /\ UNCHANGED <<phase, build, target_arch, text, out>>
\* The value takes the place of the arguments.
vm32_Result == bp - 8 - Word4(bp)
vm32_Ret ==
  /\ Executes("vm32", {"ret"})
  /\ mem' = Put(mem, vm32_Result, 4, D(0))
  /\ sp' = vm32_Result /\ ip' = Word4(bp - 8) /\ bp' = Word4(bp - 4)
  /\ UNCHANGED <<phase, build, target_arch, text, out>>

vm32_Jmp == Executes("vm32", {"jmp"}) /\ Branch(Instr.v, 0)
vm32_JmpF == Executes("vm32", {"jmpf"}) /\ Branch(IF D(0) = 0 THEN Instr.v ELSE ip + Instr.n, -4)
vm32_JmpT == Executes("vm32", {"jmpt"}) /\ Branch(IF D(0) # 0 THEN Instr.v ELSE ip + Instr.n, -4)
vm32_Switch ==
  \/ Executes("vm32", {"switch"}) /\ Branch(SwitchTarget(Signed(D(-1), DWord), D(0), 4, 4), -8)
  \/ Executes("vm32", {"switch2"}) /\ Branch(SwitchTarget(Signed(Q(-2), QWord), D(0), 8, 4), -12)

\* The calls of the library that the programs use; a result is left on the stack.
vm32_LibCall(n) == Executes("vm32", {"libcall"}) /\ Instr.v = n
vm32_Argument(i) == Word4(bp - 8 - 4 * i)
vm32_getvars == vm32_LibCall(0) /\ Continue(Put(WithVars(vm32_Argument(1), 4), Slot(1), 4, 0), 4)
vm32_exit ==
  /\ vm32_LibCall(3)
  /\ phase' = "halted"
  /\ UNCHANGED <<build, target_arch, machine>>
vm32_fputc ==
  /\ vm32_LibCall(5)
  /\ mem' = Put(mem, Slot(1), 4, vm32_Argument(1) % 2^ByteBits)
  /\ out' = Append(out, vm32_Argument(1) % 2^ByteBits)
  /\ sp' = sp + 4 /\ ip' = ip + Instr.n
  /\ UNCHANGED <<phase, build, target_arch, text, bp>>

vm32_AddSP == Executes("vm32", {"addsp"}) /\ Continue(mem, Operand4)
vm32_Dup == Executes("vm32", {"dup"}) /\ Continue(Put(mem, Slot(1), 4, D(0)), 4)
vm32_Pop == Executes("vm32", {"pop"}) /\ Continue(mem, -4)
vm32_Swap == Executes("vm32", {"swap"}) /\ Continue(Put(Put(mem, sp, 4, D(-1)), Slot(-1), 4, D(0)), 0)
vm32_PushSP == Executes("vm32", {"pushsp"}) /\ Continue(Put(mem, Slot(1), 4, sp), 4)
vm32_Halt ==
  /\ Executes("vm32", {"halt"})
  /\ phase' = "halted"
  /\ UNCHANGED <<build, target_arch, machine>>

vm32_exec ==
  \/ vm32_Load \/ vm32_LdQW \/ vm32_LdN \/ vm32_Store \/ vm32_StQW \/ vm32_MemCpy \/ vm32_Fill
  \/ vm32_LdBP \/ vm32_LdIDW \/ vm32_LdIQW
  \/ vm32_Arithmetic \/ vm32_Neg \/ vm32_Not \/ vm32_Comparison
  \/ vm32_Bitwise \/ vm32_Cmpl \/ vm32_Shift \/ vm32_Conversion
  \/ vm32_Call \/ vm32_Ret \/ vm32_Jmp \/ vm32_JmpF \/ vm32_JmpT \/ vm32_Switch
  \/ vm32_getvars \/ vm32_exit \/ vm32_fputc
  \/ vm32_AddSP \/ vm32_Dup \/ vm32_Pop \/ vm32_Swap \/ vm32_PushSP \/ vm32_Halt
=============================================================================
