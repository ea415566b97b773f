------------------------------- MODULE CGens --------------------------------
(* The code generators of LuxCC: the driver of one compilation chooses one *)
(* of them, which then sees the intermediate code of the whole file.       *)
EXTENDS X86CGen, X64CGen, ArmCGen, MipsCGen

Next == x86_Next \/ x64_Next \/ arm_Next \/ mips_Next
Spec == Init /\ [][Next]_vars
=============================================================================
