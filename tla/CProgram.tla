------------------------------ MODULE CProgram -------------------------------
(***************************************************************************)
(* What a build and a run of a C program promise, without a compiler, an   *)
(* assembler, a linker or a machine: a complete program starts, writes     *)
(* what C99 says, character by character, and ends; another one is         *)
(* refused.                                                                *)
(***************************************************************************)
EXTENDS CSem

VARIABLES prog, status, written

\* The external definitions of a unit, and the names it uses from elsewhere.
Provided(unit) ==
  {unit[i].n : i \in {j \in DOMAIN unit : unit[j].k \in {"object", "function"} /\ unit[j].sto # "static"}}
Library == {"exit", "fputc", "stdin", "stdout", "stderr", "errno"}

RECURSIVE Mentioned(_), MentionedIn(_)
Mentioned(e) == IF e.op = "id" THEN {e.x} ELSE UNION {Mentioned(e.c[i]) : i \in DOMAIN e.c}
MentionedIn(s) ==
  UNION ({Mentioned(s.e[i]) : i \in DOMAIN s.e} \cup {MentionedIn(s.b[i]) : i \in DOMAIN s.b}
         \cup {Mentioned(s.l[i].init) : i \in DOMAIN s.l})
Needed(unit) ==
  {unit[i].n : i \in {j \in DOMAIN unit : unit[j].k = "referenced" /\ unit[j].sto # "static"}}
  \cap UNION {Mentioned(unit[i].init) \cup MentionedIn(unit[i].body) : i \in DOMAIN unit}

\* Every name that is used has a definition, and only one.
Complete(units) ==
  /\ \A u \in DOMAIN units : Needed(units[u]) \subseteq Library \cup UNION {Provided(units[w]) : w \in DOMAIN units}
  /\ \A u, w \in DOMAIN units : u # w => Provided(units[u]) \cap Provided(units[w]) = {}

Init == prog \in DOMAIN Programs /\ status = "building" /\ written = <<>>

Start ==
  /\ status = "building" /\ status' = "running"
  /\ Complete(TypedProgram(prog))
  /\ UNCHANGED <<prog, written>>
Refuse ==
  /\ status = "building" /\ status' = "refused"
  /\ ~Complete(TypedProgram(prog))
  /\ UNCHANGED <<prog, written>>
Write ==
  /\ status = "running"
  /\ written' \in {Append(written, ch) : ch \in 0..(2^ByteBits - 1)}
  /\ \E out \in {Meaning(TypedProgram(prog)).out} : Len(written') <= Len(out) /\ written' = SubSeq(out, 1, Len(written'))
  /\ UNCHANGED <<prog, status>>
End ==
  /\ status = "running" /\ status' = "done"
  /\ written = Meaning(TypedProgram(prog)).out
  /\ UNCHANGED <<prog, written>>

Next == Start \/ Refuse \/ Write \/ End
vars == <<prog, status, written>>
Spec == Init /\ [][Next]_vars /\ <>(status \in {"done", "refused"})
=============================================================================
