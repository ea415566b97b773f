----------------------------- MODULE MCLiveOut -----------------------------
(* Every flow graph of N blocks made of these pieces, in every numbering.  *)
EXTENDS LiveOut

CONSTANTS a, p, g, none

q(op, tar, arg1, arg2) == [op |-> op, tar |-> tar, arg1 |-> arg1, arg2 |-> arg2]

MCVars == {a, p, g}
MCStatics == {g}
MCAddrTaken == {a}

Nothing   == << >>
DefUse    == << q("bin", a, a, p) >>
IndRead   == << q("asn", a, none, none), q("ind", p, p, none) >>
Kill      == << q("addrof", p, a, none), q("use", none, p, none) >>
CallThen  == << q("call", none, none, none), q("asn", g, p, none) >>
SetGlobal == << q("asn", g, none, none) >>
ICall     == << q("indasn", none, p, a), q("indcall", a, p, none) >>

AllCodes    == {Nothing, DefUse, IndRead, Kill, CallThen, ICall}
StaticCodes == {Nothing, CallThen, SetGlobal}

AllOrders == {o \in [Blocks -> Blocks] : \A b \in Blocks : \E k \in Blocks : o[k] = b}
PostOrder == {[b \in Blocks |-> N + 1 - b]}
=============================================================================
