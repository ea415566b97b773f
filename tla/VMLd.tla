-------------------------------- MODULE VMLd ---------------------------------
(***************************************************************************)
(* The linker of the virtual machines (ld.c): main() takes one object file *)
(* after the other and then fixes what waits for a later definition.       *)
(*                                                                         *)
(* The state of main() is [text, data, bss, syms, relocs, err]: as in an   *)
(* object; syms holds the global and extern symbols.  A relocation is      *)
(* [seg, off, base, sym]: the place, the segment whose address is added    *)
(* there at run time, and the symbol of a fix that waits, or NoSymbol.     *)
(* The two tables of the source are one here, told apart by seg.           *)
(***************************************************************************)
EXTENDS VMAs

NothingLinked ==
  [text |-> <<>>, data |-> <<>>, bss |-> 0, syms |-> <<>>, relocs |-> <<>>, err |-> "none"]

SEG_SIZ(m, seg) ==
  CASE seg = "data" -> Len(m.data) [] seg = "text" -> Len(m.text) [] OTHER -> m.bss

\* What define_symbol() makes of a symbol of an object file, given the one it has.
Defined(old, new) == IF old.kind = "extern" /\ new.kind = "global" THEN new ELSE old
Duplicate(old, new) == old.kind = "global" /\ new.kind = "global"

\* The symbols of an object, at their places in the whole; the local ones are
\* in a table of their own, flushed after the object.
Moved(m, s) == [s EXCEPT !.off = SEG_SIZ(m, s.seg) + @]
Shared(a) == {name \in DOMAIN a.syms : a.syms[name].kind # "local"}
define_symbols(m, a) ==
  [m EXCEPT
     !.syms = [name \in DOMAIN @ \cup Shared(a) |->
                 IF name \notin Shared(a) THEN @[name]
                 ELSE IF name \notin DOMAIN @ THEN Moved(m, a.syms[name])
                 ELSE Defined(@[name], Moved(m, a.syms[name]))],
     !.err = IF \E name \in Shared(a) \cap DOMAIN m.syms : Duplicate(m.syms[name], a.syms[name])
             THEN "multiple definition" ELSE @]

\* lookup_symbol(): local symbols have precedence.  before: the state before the object.
Resolved(m, before, a, name) ==
  IF a.syms[name].kind = "local" THEN Moved(before, a.syms[name]) ELSE m.syms[name]

\* *(segment+offset) += n.  In .text the operand belongs to the cell before it.
DataValue(data, off, size) ==
  LET v[i \in 0..size] == IF i = 0 THEN 0 ELSE v[i - 1] + data[off + i].v * 2^(ByteBits * (i - 1)) IN v[size]
AddAt(m, seg, off, n, size) ==
  IF seg = "text" THEN [m EXCEPT !.text[off].v = (@ + n) % 2^(ByteBits * size)]
  ELSE [m EXCEPT !.data = SubSeq(@, 1, off)
                          \o LittleEndian((DataValue(@, off, size) + n) % 2^(ByteBits * size), size)
                          \o SubSeq(@, off + size + 1, Len(@))]

\* A relocation of an object: the fix is made, or waits for the file that defines s.
Reloc(seg, off, base, sym) == [seg |-> seg, off |-> off, base |-> base, sym |-> sym]
Relocate(m, place, sym, s, size) ==
  IF s.kind = "extern"
  THEN [m EXCEPT !.relocs = Append(@, Reloc(place.seg, place.off, "none", sym))]
  ELSE [AddAt(m, place.seg, place.off, s.off, size) EXCEPT
          !.relocs = Append(@, Reloc(place.seg, place.off, s.seg, NoSymbol))]

RECURSIVE relocation_entries(_, _, _, _, _), fix(_, _, _)
relocation_entries(m, before, a, i, size) ==
  IF i > Len(a.relocs) THEN m
  ELSE relocation_entries(Relocate(m, Moved(before, a.relocs[i]), a.relocs[i].sym,
                                   Resolved(m, before, a, a.relocs[i].sym), size),
                          before, a, i + 1, size)

\* Mutant: the next object follows without the padding of the segments.
Padded_mut(cells, unit) == cells
\* The padding, which the source leaves as it was allocated, is zero here.
Padded(cells, unit) == cells \o [i \in 1..(round_up(Len(cells), unit) - Len(cells)) |-> Cell(0)]

\* The data and the text are read before the relocations; the sizes, from which all
\* offsets count, grow after them.
Appended(m, a, unit) ==
  [m EXCEPT !.text = @ \o Padded(a.text, unit), !.data = @ \o Padded(a.data, unit),
            !.bss = @ + round_up(a.bss, unit)]
link_object(m, a, unit) ==
  relocation_entries(Appended(define_symbols(m, a), a, unit), m, a, 1, unit)

\* The fixes that wait, once every object has been seen.
Fixed(m, i, r, size) ==
  IF r.sym = NoSymbol THEN m
  ELSE IF m.syms[r.sym].kind = "extern" THEN [m EXCEPT !.err = "undefined reference"]
  ELSE [AddAt(m, r.seg, r.off, m.syms[r.sym].off, size) EXCEPT !.relocs[i].base = m.syms[r.sym].seg]
fix(m, i, size) ==
  IF i > Len(m.relocs) \/ m.err # "none" THEN m ELSE fix(Fixed(m, i, m.relocs[i], size), i + 1, size)
=============================================================================
