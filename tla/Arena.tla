------------------------------- MODULE Arena -------------------------------
(***************************************************************************)
(* The growable memory arena of util/arena.c, used by the lexer, the       *)
(* parser, the symbol tables, the intermediate code and the assemblers.    *)
(*                                                                         *)
(* An arena is a list of blocks.  A block is a header of HDR bytes         *)
(* followed by storage; `avail' and `limit' are kept here as offsets from  *)
(* the start of the block.  `last' is the block allocations come from.     *)
(* arena_reset() goes back to the first block and keeps the others, whose  *)
(* stale `avail' is only rewound when the allocator moves to them.         *)
(*                                                                         *)
(* What the storage holds is not modelled, so the `zero' flag (malloc or   *)
(* calloc) is not either.                                                  *)
(***************************************************************************)
EXTENDS Integers

CONSTANTS
  HDR,         \* sizeof(Block)
  MULTIPLE,    \* block sizes are rounded up to a multiple of this
  DEFAULT_NAS, \* nominal arena size given to a new arena
  NewSizes,    \* sizes passed to arena_new()
  NomSizes,    \* sizes passed to arena_set_nom_siz()
  Requests,    \* sizes passed to arena_alloc()
  MaxBlocks,   \* bound: number of blocks of the arena
  MaxLive,     \* bound: number of allocations between two resets
  MaxBump      \* bound: how far past its limit failed requests push `avail'

ASSUME ArenaAssumption ==
  /\ HDR \in Nat /\ MULTIPLE \in Nat \ {0} /\ DEFAULT_NAS \in Nat
  /\ NewSizes \subseteq Nat /\ NomSizes \subseteq Nat /\ Requests \subseteq Nat
  /\ MaxBlocks \in Nat \ {0} /\ MaxLive \in Nat /\ MaxBump \in Nat

VARIABLES
  nblk,    \* number of blocks in the list; 0: there is no arena
  limit,   \* Block.limit of each block
  avail,   \* Block.avail of each block
  last,    \* index of the block pointed to by Arena.last
  nas,     \* nominal arena size
  live,    \* ghost: the allocations made since the last reset
  nallocs  \* ghost: their number

vars == <<nblk, limit, avail, last, nas, live, nallocs>>

Slots == 1 .. MaxBlocks

\* A piece of storage handed to a caller.
Piece == [id : Nat, blk : Slots, off : Nat, len : Nat]

TypeOK ==
  /\ nblk \in 0 .. MaxBlocks
  /\ limit \in [Slots -> Nat]
  /\ avail \in [Slots -> Nat]
  /\ last \in 0 .. nblk
  /\ nas \in Nat
  /\ live \subseteq Piece
  /\ nallocs \in Nat

-----------------------------------------------------------------------------
round_up(num, mul) ==
  IF mul = 0 \/ num % mul = 0 THEN num ELSE num + mul - (num % mul)

Exists == nblk # 0

\* arena_alloc() bumps `avail' of the current block before it finds out that
\* the request does not fit, and leaves it so; allocate() then moves on as far
\* as block b, rewinding each block as it is visited.
Rewound(b, n) ==
  [i \in Slots |-> IF i = last THEN avail[i] + n
                   ELSE IF i \in last + 1 .. b THEN HDR ELSE avail[i]]

Handed(b, off, n) ==
  /\ live' = live \cup {[id |-> nallocs, blk |-> b, off |-> off, len |-> n]}
  /\ nallocs' = nallocs + 1

-----------------------------------------------------------------------------
Init ==
  /\ nblk = 0 /\ last = 0 /\ nas = DEFAULT_NAS
  /\ limit = [i \in Slots |-> 0] /\ avail = [i \in Slots |-> 0]
  /\ live = {} /\ nallocs = 0

arena_new(size) ==
  /\ ~Exists
  /\ nblk' = 1 /\ last' = 1
  /\ limit' = [limit EXCEPT ![1] = round_up(HDR + size, MULTIPLE)]
  /\ avail' = [avail EXCEPT ![1] = HDR]
  /\ nas' = DEFAULT_NAS
  /\ live' = {} /\ nallocs' = 0

\* Mutant: only the start of the piece is compared with the limit.
Fits_mut(n) == avail[last] <= limit[last]

Fits(n) == avail[last] + n <= limit[last]

\* The request fits in the current block.
arena_alloc(n) ==
  /\ Exists /\ nallocs < MaxLive
  /\ Fits(n)
  /\ avail' = [avail EXCEPT ![last] = @ + n]
  /\ Handed(last, avail[last], n)
  /\ UNCHANGED <<nblk, limit, last, nas>>

\* The later blocks a request of n bytes fits in once they are rewound.
Roomy(n) == {j \in last + 1 .. nblk : HDR + n <= limit[j]}
FirstRoomy(j, n) == j \in Roomy(n) /\ \A i \in Roomy(n) : j <= i

\* Mutant: Arena.last is not moved to the block that was found.
allocate_reuse_mut(n) ==
  /\ Exists /\ nallocs < MaxLive
  /\ ~Fits(n)
  /\ \E j \in Slots :
       /\ FirstRoomy(j, n)
       /\ avail' = [Rewound(j, n) EXCEPT ![j] = @ + n]
       /\ Handed(j, Rewound(j, n)[j], n)
  /\ UNCHANGED <<nblk, limit, last, nas>>

\* allocate(), a block left over from before a reset is large enough.
allocate_reuse(n) ==
  /\ Exists /\ nallocs < MaxLive
  /\ ~Fits(n)
  /\ \E j \in Slots :
       /\ FirstRoomy(j, n)
       /\ avail' = [Rewound(j, n) EXCEPT ![j] = @ + n]
       /\ last' = j
       /\ Handed(j, Rewound(j, n)[j], n)
  /\ UNCHANGED <<nblk, limit, nas>>

\* allocate(), the end of the list is reached and malloc() gives a new block.
allocate_grow(n) ==
  /\ Exists /\ nallocs < MaxLive /\ nblk < MaxBlocks
  /\ ~Fits(n) /\ Roomy(n) = {}
  /\ nblk' = nblk + 1 /\ last' = nblk + 1
  /\ limit' = [limit EXCEPT ![nblk + 1] = round_up(n, MULTIPLE) + nas + HDR]
  /\ avail' = [Rewound(nblk, n) EXCEPT ![nblk + 1] = HDR + n]
  /\ Handed(nblk + 1, HDR, n)
  /\ UNCHANGED nas

\* Mutant: Arena.last is moved to the block malloc() did not give.
allocate_fail_mut(n) ==
  /\ Exists
  /\ avail[last] + n <= limit[last] + MaxBump
  /\ ~Fits(n) /\ Roomy(n) = {}
  /\ avail' = Rewound(nblk, n)
  /\ last' = nblk + 1
  /\ UNCHANGED <<nblk, limit, nas, live, nallocs>>

\* allocate(), malloc() fails: the caller gets NULL, the arena has moved to its
\* last block.
allocate_fail(n) ==
  /\ Exists
  /\ avail[last] + n <= limit[last] + MaxBump
  /\ ~Fits(n) /\ Roomy(n) = {}
  /\ avail' = Rewound(nblk, n)
  /\ last' = nblk
  /\ UNCHANGED <<nblk, limit, nas, live, nallocs>>

arena_reset ==
  /\ Exists
  /\ last' = 1
  /\ avail' = [avail EXCEPT ![1] = HDR]
  /\ live' = {} /\ nallocs' = 0
  /\ UNCHANGED <<nblk, limit, nas>>

arena_destroy ==
  /\ Exists
  /\ nblk' = 0 /\ last' = 0
  /\ limit' = [i \in Slots |-> 0] /\ avail' = [i \in Slots |-> 0]
  /\ live' = {} /\ nallocs' = 0
  /\ UNCHANGED nas

arena_set_nom_siz(size) ==
  /\ Exists
  /\ nas' = size
  /\ UNCHANGED <<nblk, limit, avail, last, live, nallocs>>

Next ==
  \/ \E s \in NewSizes : arena_new(s)
  \/ \E n \in Requests : arena_alloc(n)
  \/ \E n \in Requests : allocate_reuse(n)
  \/ \E n \in Requests : allocate_grow(n)
  \/ \E n \in Requests : allocate_fail(n)
  \/ arena_reset
  \/ arena_destroy
  \/ \E s \in NomSizes : arena_set_nom_siz(s)

Spec == Init /\ [][Next]_vars

-----------------------------------------------------------------------------
\* Storage handed out since the last reset lies inside one block, past its
\* header: a rewound, reused or freshly sized block always has the room the
\* request asked for (the `limit' tests of arena_alloc() and allocate()).
InBounds ==
  \A a \in live :
    /\ a.blk <= nblk
    /\ HDR <= a.off
    /\ a.off + a.len <= limit[a.blk]

\* No two pieces handed out since the last reset overlap, however resets,
\* failed requests and stale blocks are interleaved with the requests.
NoOverlap ==
  \A a, b \in live :
    a.id # b.id => \/ a.blk # b.blk
                   \/ a.off + a.len <= b.off
                   \/ b.off + b.len <= a.off

\* What makes the two inductive: nothing is handed out past `last', the bytes
\* handed out from `last' lie below its `avail', ids are not reused.
Frontier ==
  /\ Exists => last >= 1
  /\ \A i \in 1 .. nblk : HDR <= avail[i]
  /\ \A a \in live :
       /\ a.id < nallocs
       /\ a.blk <= last
       /\ a.blk = last => a.off + a.len <= avail[last]

ArenaInv == TypeOK /\ InBounds /\ NoOverlap /\ Frontier
=============================================================================
