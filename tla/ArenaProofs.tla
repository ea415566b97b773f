---------------------------- MODULE ArenaProofs ----------------------------
(***************************************************************************)
(* The arena never hands out storage twice, and never storage it does not  *)
(* own, whatever the block header, the sizes and the bounds.               *)
(***************************************************************************)
EXTENDS Arena, TLAPS

\* round_up() never rounds down.
LEMMA RoundUp ==
  ASSUME NEW num \in Nat, NEW mul \in Nat \ {0}
  PROVE  round_up(num, mul) \in Nat /\ round_up(num, mul) >= num
<1>1. num % mul \in 0 .. mul - 1
  OBVIOUS
<1>. QED  BY <1>1 DEF round_up

\* The invariants are preserved by every operation of the arena.
LEMMA ArenaStep == ArenaInv /\ [Next]_vars => ArenaInv'
<1>. USE ArenaAssumption
<1>. SUFFICES ASSUME ArenaInv, [Next]_vars PROVE ArenaInv'
  OBVIOUS
<1>. USE DEF ArenaInv, Slots
<1>0. Exists => last \in 1 .. nblk /\ last \in Slots
  BY DEF TypeOK, Frontier
<1>t. nblk \in Nat /\ last \in Nat /\ nallocs \in Nat
  BY DEF TypeOK
<1>l. \A a \in live : /\ a.id \in Nat /\ a.blk \in Nat /\ a.off \in Nat /\ a.len \in Nat
                      /\ a.id < nallocs /\ a.blk <= last
                      /\ a.blk = last => a.off + a.len <= avail[last]
  BY DEF TypeOK, Piece, Frontier
<1>1. ASSUME NEW s \in NewSizes, arena_new(s) PROVE ArenaInv'
  <2>1. round_up(HDR + s, MULTIPLE) \in Nat
    BY RoundUp
  <2>. QED  BY <1>1, <2>1 DEF arena_new, TypeOK, InBounds, NoOverlap, Frontier, Exists
<1>2. ASSUME NEW n \in Requests, arena_alloc(n) PROVE ArenaInv'
  <2>1. n \in Nat /\ last \in 1 .. nblk /\ last \in Slots
    BY <1>0, <1>2 DEF arena_alloc
  <2>. DEFINE new == [id |-> nallocs, blk |-> last, off |-> avail[last], len |-> n]
  <2>2. /\ avail[last] \in Nat /\ limit[last] \in Nat /\ HDR <= avail[last]
        /\ avail[last] + n <= limit[last]
    BY <1>2, <2>1 DEF arena_alloc, Fits, TypeOK, Frontier
  <2>3. /\ avail' = [avail EXCEPT ![last] = avail[last] + n]
        /\ live' = live \cup {new} /\ nallocs' = nallocs + 1
        /\ UNCHANGED <<nblk, limit, last, nas>>
    BY <1>2 DEF arena_alloc, Handed
  <2>4. avail'[last] = avail[last] + n /\ \A i \in 1 .. nblk : HDR <= avail'[i]
    BY <2>1, <2>2, <2>3 DEF TypeOK, Frontier
  <2>5. TypeOK'
    BY <2>1, <2>2, <2>3 DEF TypeOK, Piece
  <2>6. InBounds'
    BY <1>t, <2>1, <2>2, <2>3 DEF InBounds
  <2>7. NoOverlap'
    BY <1>l, <1>t, <2>1, <2>2, <2>3 DEF NoOverlap
  <2>8. Frontier'
    <3>. SUFFICES ASSUME NEW a \in live'
                  PROVE  a.id < nallocs' /\ a.blk <= last /\ (a.blk = last => a.off + a.len <= avail'[last])
      BY <1>t, <2>1, <2>3, <2>4 DEF Frontier
    <3>1. CASE a \in live
      BY <1>l, <1>t, <2>1, <2>2, <2>3, <2>4, <3>1
    <3>2. CASE a = new
      BY <1>t, <2>1, <2>2, <2>3, <2>4, <3>2
    <3>. QED  BY <2>3, <3>1, <3>2
  <2>. QED  BY <2>5, <2>6, <2>7, <2>8
<1>3. ASSUME NEW n \in Requests, allocate_reuse(n) PROVE ArenaInv'
  <2>1. n \in Nat /\ last \in 1 .. nblk /\ last \in Slots
    BY <1>0, <1>3 DEF allocate_reuse
  <2>2. PICK j \in Slots :
           /\ FirstRoomy(j, n)
           /\ avail' = [Rewound(j, n) EXCEPT ![j] = @ + n]
           /\ last' = j
           /\ Handed(j, Rewound(j, n)[j], n)
    BY <1>3 DEF allocate_reuse
  <2>. DEFINE rw == Rewound(j, n)
  <2>3. /\ j \in last + 1 .. nblk /\ HDR + n <= limit[j]
        /\ rw \in [Slots -> Nat] /\ rw[j] = HDR
        /\ \A i \in 1 .. nblk : HDR <= rw[i]
    BY <2>1, <2>2 DEF FirstRoomy, Roomy, Rewound, TypeOK, Frontier
  <2>4. UNCHANGED <<nblk, limit, nas>> /\ avail' = [rw EXCEPT ![j] = HDR + n]
    BY <1>3, <2>2, <2>3 DEF allocate_reuse
  <2>5. Handed(j, HDR, n) /\ last' = j
    BY <2>2, <2>3
  <2>. HIDE DEF rw
  <2>6. /\ avail' \in [Slots -> Nat] /\ avail'[j] = HDR + n
        /\ \A i \in 1 .. nblk : HDR <= avail'[i]
    BY <2>1, <2>3, <2>4
  <2>7. [id |-> nallocs, blk |-> j, off |-> HDR, len |-> n] \in Piece
    BY <2>1 DEF TypeOK, Piece
  <2>8. TypeOK'
    BY <2>1, <2>3, <2>4, <2>5, <2>6, <2>7 DEF TypeOK, Handed
  <2>9. InBounds'
    <3>. SUFFICES ASSUME NEW a \in live'
                  PROVE  a.blk <= nblk /\ HDR <= a.off /\ a.off + a.len <= limit[a.blk]
      BY <2>4 DEF InBounds
    <3>1. CASE a \in live
      BY <3>1 DEF InBounds
    <3>2. CASE a = [id |-> nallocs, blk |-> j, off |-> HDR, len |-> n]
      BY <1>t, <2>1, <2>3, <3>2
    <3>. QED  BY <2>5, <3>1, <3>2 DEF Handed
  <2>10. NoOverlap'
    BY <1>l, <2>1, <2>3, <2>5 DEF NoOverlap, Handed
  <2>11. Frontier'
    <3>. SUFFICES ASSUME NEW a \in live'
                  PROVE  a.id < nallocs' /\ a.blk <= j /\ (a.blk = j => a.off + a.len <= avail'[j])
      BY <2>1, <2>4, <2>5, <2>6 DEF Frontier
    <3>1. j \in Nat /\ last < j
      BY <1>t, <2>3
    <3>2. CASE a \in live
      BY <1>l, <1>t, <2>5, <3>1, <3>2 DEF Handed
    <3>3. CASE a = [id |-> nallocs, blk |-> j, off |-> HDR, len |-> n]
      BY <1>t, <2>1, <2>5, <2>6, <3>1, <3>3 DEF Handed
    <3>. QED  BY <2>5, <3>2, <3>3 DEF Handed
  <2>. QED  BY <2>8, <2>9, <2>10, <2>11
<1>4. ASSUME NEW n \in Requests, allocate_grow(n) PROVE ArenaInv'
  <2>1. /\ n \in Nat /\ last \in 1 .. nblk /\ last \in Slots
        /\ nblk + 1 \in Slots
    BY <1>0, <1>4 DEF allocate_grow, TypeOK
  <2>. DEFINE rw == Rewound(nblk, n)
              m  == round_up(n, MULTIPLE) + nas + HDR
              k  == nblk + 1
  <2>2. rw \in [Slots -> Nat] /\ \A i \in 1 .. nblk : HDR <= rw[i]
    BY <2>1 DEF Rewound, TypeOK, Frontier
  <2>3. m \in Nat /\ HDR + n <= m
    <3>1. round_up(n, MULTIPLE) \in Nat /\ round_up(n, MULTIPLE) >= n
      BY <2>1, RoundUp
    <3>2. nas \in Nat
      BY DEF TypeOK
    <3>. QED  BY <2>1, <3>1, <3>2
  <2>4. /\ nblk' = k /\ last' = k /\ nas' = nas
        /\ limit' = [limit EXCEPT ![k] = m]
        /\ avail' = [rw EXCEPT ![k] = HDR + n]
        /\ Handed(k, HDR, n)
    BY <1>4 DEF allocate_grow
  <2>. HIDE DEF rw, m
  <2>9. avail'[k] = HDR + n /\ \A i \in 1 .. k : HDR <= avail'[i]
    BY <2>1, <2>2, <2>4 DEF TypeOK
  <2>5. TypeOK'
    BY <2>1, <2>2, <2>3, <2>4 DEF TypeOK, Handed, Piece
  <2>10. limit'[k] = m /\ \A i \in 1 .. nblk : limit'[i] = limit[i]
    BY <1>t, <2>1, <2>4 DEF TypeOK
  <2>6. InBounds'
    <3>. SUFFICES ASSUME NEW a \in live'
                  PROVE  a.blk <= k /\ HDR <= a.off /\ a.off + a.len <= limit'[a.blk]
      BY <2>4 DEF InBounds
    <3>1. CASE a \in live
      <4>1. a.blk \in 1 .. nblk /\ HDR <= a.off /\ a.off + a.len <= limit[a.blk]
        BY <1>t, <3>1 DEF InBounds, TypeOK, Piece
      <4>. QED  BY <1>t, <2>10, <4>1
    <3>2. CASE a = [id |-> nallocs, blk |-> k, off |-> HDR, len |-> n]
      BY <1>t, <2>1, <2>3, <2>10, <3>2
    <3>. QED  BY <2>4, <3>1, <3>2 DEF Handed
  <2>7. NoOverlap'
    BY <1>l, <1>t, <2>1, <2>4 DEF NoOverlap, Handed
  <2>8. Frontier'
    <3>. SUFFICES ASSUME NEW a \in live'
                  PROVE  a.id < nallocs' /\ a.blk <= k /\ (a.blk = k => a.off + a.len <= avail'[k])
      BY <1>t, <2>1, <2>4, <2>9 DEF Frontier
    <3>2. CASE a \in live
      BY <1>l, <1>t, <2>1, <2>4, <3>2 DEF Handed
    <3>3. CASE a = [id |-> nallocs, blk |-> k, off |-> HDR, len |-> n]
      BY <1>t, <2>1, <2>4, <2>9, <3>3 DEF Handed
    <3>. QED  BY <2>4, <3>2, <3>3 DEF Handed
  <2>. QED  BY <2>5, <2>6, <2>7, <2>8
<1>5. ASSUME NEW n \in Requests, allocate_fail(n) PROVE ArenaInv'
  <2>1. n \in Nat /\ last \in 1 .. nblk /\ last \in Slots
    BY <1>0, <1>5 DEF allocate_fail
  <2>. DEFINE rw == Rewound(nblk, n)
  <2>2. /\ rw \in [Slots -> Nat] /\ \A i \in 1 .. nblk : HDR <= rw[i]
        /\ rw[last] = avail[last] + n
    BY <2>1 DEF Rewound, TypeOK, Frontier
  <2>3. /\ avail' = rw /\ last' = nblk
        /\ UNCHANGED <<nblk, limit, nas, live, nallocs>>
    BY <1>5 DEF allocate_fail
  <2>. HIDE DEF rw
  <2>4. TypeOK' /\ InBounds' /\ NoOverlap'
    BY <2>1, <2>2, <2>3 DEF TypeOK, InBounds, NoOverlap
  <2>5. Frontier'
    <3>. SUFFICES ASSUME NEW a \in live
                  PROVE  /\ a.id < nallocs /\ a.blk <= nblk
                         /\ a.blk = nblk => a.off + a.len <= rw[nblk]
      <4>1. nblk >= 1
        BY <1>t, <2>1
      <4>. QED  BY <2>2, <2>3, <4>1 DEF Frontier
    <3>1. avail[last] \in Nat
      BY <2>1 DEF TypeOK
    <3>2. a.blk = nblk => last = nblk
      BY <1>l, <1>t, <2>1
    <3>. QED  BY <1>l, <1>t, <2>1, <2>2, <3>1, <3>2
  <2>. QED  BY <2>4, <2>5
<1>6. CASE arena_reset
  BY <1>0, <1>6 DEF arena_reset, TypeOK, InBounds, NoOverlap, Frontier, Exists
<1>7. CASE arena_destroy
  BY <1>7 DEF arena_destroy, TypeOK, InBounds, NoOverlap, Frontier, Exists
<1>8. ASSUME NEW s \in NomSizes, arena_set_nom_siz(s) PROVE ArenaInv'
  BY <1>8 DEF arena_set_nom_siz, TypeOK, InBounds, NoOverlap, Frontier, Exists
<1>9. CASE UNCHANGED vars
  BY <1>9 DEF vars, TypeOK, InBounds, NoOverlap, Frontier, Exists
<1>. QED
  BY <1>1, <1>2, <1>3, <1>4, <1>5, <1>6, <1>7, <1>8, <1>9 DEF Next

LEMMA ArenaAlways == Spec => []ArenaInv
<1>1. Init => ArenaInv
  BY ArenaAssumption DEF Init, ArenaInv, TypeOK, InBounds, NoOverlap, Frontier, Exists, Slots
<1>. QED  BY <1>1, ArenaStep, PTL DEF Spec

\* `last' is a block of the list, and sizes and offsets never become negative.
THEOREM Typed == Spec => []TypeOK
<1>1. ArenaInv => TypeOK
  BY DEF ArenaInv
<1>. QED  BY <1>1, ArenaAlways, PTL

\* For every header size, rounding, nominal size and request size: the storage
\* handed out since the last reset lies inside its block (arena_alloc(),
\* allocate(), arena_reset()).
THEOREM PiecesFit == Spec => []InBounds
<1>1. ArenaInv => InBounds
  BY DEF ArenaInv
<1>. QED  BY <1>1, ArenaAlways, PTL

\* And no two pieces of it overlap.
THEOREM PiecesDisjoint == Spec => []NoOverlap
<1>1. ArenaInv => NoOverlap
  BY DEF ArenaInv
<1>. QED  BY <1>1, ArenaAlways, PTL
=============================================================================
