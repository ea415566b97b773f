------------------------------ MODULE MCDriver ------------------------------
(* Command lines of up to MaxArgs words.                                   *)
EXTENDS Driver

CONSTANT MaxArgs

W(o, v) == [o |-> o, v |-> v]
FileWords == {W("file", "c"), W("file", "asm"), W("file", "other")}
ModeWords == {W("c", ""), W("S", ""), W("analyze", ""), W("o", "path"), W("o", "")}
\* The other options: a line has two of them and up to two files.
OtherWords ==
  {W("E", ""), W("h", ""), W("static", ""), W("use-musl", ""), W("use-glibc", ""), W("m", ""),
   W("alt-asm-tmp", "path"), W("pass", ""), W("flag", ""), W("unknown", "")}
  \cup {W("m", m) : m \in Machines}

SeqsOf(S, n) == UNION {[1 .. k -> S] : k \in 1 .. n}
Lines == {<<>>} \cup SeqsOf(FileWords \cup ModeWords, MaxArgs)
           \cup {<<a, b>> \o s : a, b \in OtherWords, s \in SeqsOf(FileWords, 2)}
=============================================================================
