----------------------------- MODULE MCNextUse -----------------------------
(* Every block of up to MaxLen instructions over three variables.          *)
EXTENDS NextUse

CONSTANTS a, b, g, none, MaxLen

MCVars == {a, b, g}
MCStatics == {g}
MCAddrTaken == {b}
MCModified == {g}

q(op, tar, arg1, arg2) == [op |-> op, tar |-> tar, arg1 |-> arg1, arg2 |-> arg2]
MCQuads ==
  {q("bin", a, y, z) : y \in {a, b}, z \in {a, b, none}}
  \cup {q("asn", g, a, none), q("use", none, g, none), q("un", a, g, none),
        q("addrof", a, b, none), q("ind", a, a, none), q("ind", b, a, none),
        q("indasn", none, a, a), q("indasn", none, a, b),
        q("call", none, none, none), q("call", g, none, none),
        q("indcall", b, b, none), q("other", none, none, none)}
MCCodes == UNION {[1 .. n -> MCQuads] : n \in 0 .. MaxLen}
=============================================================================
