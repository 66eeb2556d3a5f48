------------------------------ MODULE RingBuffer ------------------------------
(***************************************************************************)
(* A queue of items of any size in a fixed piece of memory                 *)
(* (CRingBufferBase): the memory is cut into blocks, free or in use; items *)
(* are allocated behind `produce' and taken away at `consume'.  The        *)
(* connections keep their unacknowledged chunks in one, and web sockets    *)
(* what they have received, where the oldest item makes room for a new one. *)
(* Sizes are in units of the header of a block, which they include.        *)
(***************************************************************************)
EXTENDS Integers, Sequences

CONSTANTS
    RingSize,       \* m_Size
    MaxItem         \* bound: the largest item, which may exceed RingSize

ASSUME RingAssumption == RingSize \in Nat \ {0} /\ MaxItem \in Nat \ {0}

VARIABLES
    ring,       \* the blocks by address, and the places of m_pProduce and m_pConsume
    recycle,    \* FLAG_RECYCLE, which does not change
    items       \* auxiliary: how many items were allocated and not popped

ringVars == <<ring, recycle, items>>

\* An item is the number of items in front of it, and itself: the oldest one is 1.
NoItem == 0

RingInit ==
    /\ ring = [blocks |-> << [size |-> RingSize, item |-> NoItem] >>,
               produce |-> 1, consume |-> 1]
    /\ recycle \in BOOLEAN
    /\ items = 0

Free(r, i) == r.blocks[i].item = NoItem

-----------------------------------------------------------------------------
(* The blocks.                                                             *)

NextBlock(r, i) == IF i < Len(r.blocks) THEN i + 1 ELSE 1

\* Where block j is once i is part of the block before it
Shifted(i, j) == IF j >= i THEN j - 1 ELSE j

MayMerge(r, i) == i > 1 /\ Free(r, i) /\ Free(r, i - 1)

\* The ring after MergeBack(i)
MergeBack(r, i) ==
    IF ~MayMerge(r, i) THEN r
    ELSE [blocks |-> [k \in 1 .. Len(r.blocks) - 1 |->
                        IF k = i - 1
                        THEN [r.blocks[k] EXCEPT !.size = @ + r.blocks[i].size]
                        ELSE IF k < i THEN r.blocks[k] ELSE r.blocks[k + 1]],
          produce |-> Shifted(i, r.produce),
          consume |-> Shifted(i, r.consume)]

\* m_pConsume merged with what is before it, and moved on
Advance(r) == LET m == MergeBack(r, r.consume)
              IN  [m EXCEPT !.consume = NextBlock(m, m.consume)]

\* Mutant: the place m_pConsume comes to is not merged.
PoppedUnmerged(r) ==
    LET freed == [r EXCEPT !.blocks = [k \in DOMAIN r.blocks |->
                     IF Free(r, k) THEN r.blocks[k] ELSE [r.blocks[k] EXCEPT !.item = @ - 1]]]
        n == Len(r.blocks)
        steps[k \in 1 .. n + 1] ==
            LET p == IF k = 1 THEN freed ELSE steps[k - 1]
            IN  IF k = 1 \/ (Free(p, p.consume) /\ p.consume # p.produce)
                THEN Advance(p) ELSE p
    IN  steps[n + 1]

\* PopFirst of a ring whose first item is there
Popped(r) ==
    LET freed == [r EXCEPT !.blocks = [k \in DOMAIN r.blocks |->
                     IF Free(r, k) THEN r.blocks[k] ELSE [r.blocks[k] EXCEPT !.item = @ - 1]]]
        n == Len(r.blocks)
        steps[k \in 1 .. n + 1] ==
            LET p == IF k = 1 THEN freed ELSE steps[k - 1]
            IN  IF k = 1 \/ (Free(p, p.consume) /\ p.consume # p.produce)
                THEN Advance(p) ELSE p
        end == steps[n + 1]
    IN  MergeBack(end, end.consume)

\* Mutant: m_pFirst is taken without a look at m_Free.
FoundFirst(r, size) ==
    IF ~Free(r, r.produce) THEN 0
    ELSE IF r.blocks[r.produce].size >= size THEN r.produce
    ELSE IF r.blocks[1].size >= size THEN 1
    ELSE 0

\* The block that Allocate finds, or 0
Found(r, size) ==
    IF ~Free(r, r.produce) THEN 0
    ELSE IF r.blocks[r.produce].size >= size THEN r.produce
    ELSE IF Free(r, 1) /\ r.blocks[1].size >= size THEN 1
    ELSE 0

\* The rest of a block that is large enough becomes a block.
Taken(r, i, size, item) ==
    LET block == r.blocks[i]
        split == block.size > size + 1
        used == << [size |-> IF split THEN size ELSE block.size, item |-> item] >>
        rest == IF split THEN << [size |-> block.size - size, item |-> NoItem] >> ELSE <<>>
        new == [r EXCEPT !.blocks = SubSeq(r.blocks, 1, i - 1) \o used \o rest
                                    \o SubSeq(r.blocks, i + 1, Len(r.blocks)),
                         !.consume = IF split /\ r.consume > i THEN r.consume + 1
                                     ELSE r.consume]
    IN  [new EXCEPT !.produce = NextBlock(new, i)]

\* The ring after as many pops as Allocate needs in a ring that recycles, and how
\* many these are
Room(r, size) ==
    LET n == Len(r.blocks)
        pops[k \in 0 .. n] ==
            IF k = 0 THEN r
            ELSE LET p == pops[k - 1]
                 IN  IF Found(p, size) # 0 \/ Free(p, p.consume) THEN p ELSE Popped(p)
        enough == {k \in 0 .. n : Found(pops[k], size) # 0}
    IN  IF enough = {} THEN [ring |-> pops[n], pops |-> items]
        ELSE LET k == CHOOSE k \in enough : \A l \in enough : k <= l
             IN  [ring |-> pops[k], pops |-> k]

-----------------------------------------------------------------------------
(* The operations.                                                         *)

Allocate(size) ==
    LET room == IF recycle THEN Room(ring, size) ELSE [ring |-> ring, pops |-> 0]
        at == Found(room.ring, size)
        kept == items - room.pops
    IN  /\ size <= RingSize
        /\ ring' = IF at = 0 THEN room.ring ELSE Taken(room.ring, at, size, kept + 1)
        /\ items' = IF at = 0 THEN kept ELSE kept + 1
        /\ UNCHANGED recycle

PopFirst ==
    /\ ~Free(ring, ring.consume)
    /\ ring' = Popped(ring)
    /\ items' = items - 1
    /\ UNCHANGED recycle

RingNext == PopFirst \/ \E size \in 1 .. MaxItem : Allocate(size)

RingSpec == RingInit /\ [][RingNext]_ringVars

-----------------------------------------------------------------------------
(* Properties                                                              *)

\* First, and then Next until it returns null
Walk ==
    LET n == Len(ring.blocks)
        place[k \in 0 .. n] == IF k = 0 THEN ring.consume
                               ELSE NextBlock(ring, place[k - 1])
        end == {k \in 1 .. n : place[k] = ring.produce}
        passed == IF end = {} THEN n
                  ELSE CHOOSE k \in end : \A l \in end : k <= l
        inUse[k \in 0 .. passed] ==
            IF k = 0 THEN <<>>
            ELSE IF Free(ring, place[k - 1]) THEN inUse[k - 1]
                 ELSE Append(inUse[k - 1], ring.blocks[place[k - 1]].item)
    IN  IF Free(ring, ring.consume) THEN <<>> ELSE inUse[passed]

\* However items were allocated, popped, recycled and wrapped around, First and
\* Next find those that are in the queue, oldest first, and no other.
RingIsQueue == Walk = [i \in 1 .. items |-> i]

\* Memory that is free again is joined and none is lost: an empty queue takes any
\* item that fits.
RingRejoins == items = 0 => ring.blocks = << [size |-> RingSize, item |-> NoItem] >>
=============================================================================
