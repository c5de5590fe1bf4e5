----------------------------- MODULE AudioBuffer -----------------------------
(***************************************************************************)
(* lwmovie::CAudioBuffer (src/lwmovie/lwmovie_audiobuffer.cpp, .hpp): the  *)
(* ring between an audio codec and the player.  The unread samples lie in  *)
(* at most two contiguous chunks of the sample memory: "top", read first,  *)
(* and "bottom", where new packets are appended.  Unlike a usual ring, a   *)
(* reservation is always contiguous, so the chunks are moved about.        *)
(*                                                                         *)
(* Sizes stay far below 2^32, so the 32-bit differences are exact; the one *)
(* difference that can be negative, in `GapBetween`, is only compared with *)
(* zero, where the wrapped value agrees with the exact one.                *)
(***************************************************************************)
EXTENDS Integers, Sequences, Saturating

CONSTANTS Capacity, Packets, ReserveSizes, ReadSizes, SkipSizes

ASSUME CapacityAssumption == Capacity \in Nat \ {0}
ASSUME SizesAssumption ==
    /\ ReserveSizes \subseteq Nat
    /\ ReadSizes \subseteq Nat
    /\ SkipSizes \subseteq Nat

VARIABLES
    ring,    \* chunk bounds and commit count, the scalar members of the class
    mem,     \* the sample memory m_samples
    output   \* the samples copied out by the last operation

bufferVars == <<ring, mem, output>>

Cells   == 0 .. Capacity - 1
Nothing == <<>>                     \* a cell that was never written

Ring == [topOffset : Nat, topSize : Nat, bottomOffset : Nat,
         bottomSize : Nat, committed : Nat]

\* The ring with top at [to, to+ts), bottom at [bo, bo+bs), c committed.
RingOf(to, ts, bo, bs, c) ==
    [topOffset |-> to, topSize |-> ts, bottomOffset |-> bo,
     bottomSize |-> bs, committed |-> c]

Held(r) == r.topSize + r.bottomSize

-----------------------------------------------------------------------------
(* The chunk arithmetic.                                                   *)

\* The oldest n samples taken off, with c samples left committed.
Advance(r, n, c) ==
    IF r.topSize >= n
    THEN RingOf(r.topOffset + n, r.topSize - n, r.bottomOffset, r.bottomSize, c)
    ELSE LET rest == n - r.topSize IN
         IF r.bottomSize >= rest
         THEN RingOf(r.topOffset, 0, r.bottomOffset + rest, r.bottomSize - rest, c)
         ELSE RingOf(r.topOffset, 0, 0, 0, c)

SkipSamples(r, n) == Advance(r, n, Monus(r.committed, n))

WithCommitted(r, c) ==
    RingOf(r.topOffset, r.topSize, r.bottomOffset, r.bottomSize, c)

\* How many samples a reservation of n deletes.
NumDropped(r, n) == Monus(n, Capacity - r.topSize - r.bottomSize)

\* Mutant: nothing is deleted.
DropNothing(r, n) == r

\* The commit count is lowered by the caller and once more by SkipSamples.
DropOldest(r, n) ==
    LET d == NumDropped(r, n) IN
    SkipSamples(WithCommitted(r, Monus(r.committed, d)), d)

Rebase(r) ==
    IF r.bottomSize = 0
    THEN RingOf(r.topOffset, r.topSize, 0, 0, r.committed)
    ELSE r

\* The ring as a reservation of n finds it once there is room.
MadeRoom(r, n) == Rebase(DropOldest(r, n))

GapBetween(r) == r.topOffset - r.bottomOffset - r.bottomSize

-----------------------------------------------------------------------------
(* Sample memory.                                                          *)

Write(m, at, p, n) ==
    [c \in Cells |-> IF c \in at .. at + n - 1 THEN <<p, c - at + 1>> ELSE m[c]]

Memmove(m, to, from, n) ==
    [c \in Cells |-> IF c \in to .. to + n - 1 THEN m[c - to + from] ELSE m[c]]

Chunk(m, at, n) == [i \in 1..n |-> m[at + i - 1]]

\* The samples held, in the order in which they would be read.
Contents == Chunk(mem, ring.topOffset, ring.topSize)
              \o Chunk(mem, ring.bottomOffset, ring.bottomSize)

-----------------------------------------------------------------------------
BufferInit ==
    /\ ring = RingOf(0, 0, 0, 0, 0)
    /\ mem = [c \in Cells |-> Nothing]
    /\ output = <<>>

(* ReserveNewContiguous, followed by the codec writing the n samples of    *)
(* packet p into the block.  r is the ring with room made.                 *)

\* One chunk, and room after it.
AppendAfter(r, p, n) ==
    /\ r.topSize = 0
    /\ Capacity - r.bottomOffset - r.bottomSize >= n
    /\ ring' = RingOf(r.topOffset, r.topSize, r.bottomOffset, r.bottomSize + n,
                      r.committed)
    /\ mem' = Write(mem, r.bottomOffset + r.bottomSize, p, n)

\* Mutant: the room before the chunk is not checked.
WrapBelowUnchecked(r, p, n) ==
    /\ r.topSize = 0
    /\ Capacity - r.bottomOffset - r.bottomSize < n
    /\ ring' = RingOf(r.bottomOffset, r.bottomSize, 0, n, r.committed)
    /\ mem' = Write(mem, 0, p, n)

\* One chunk, and room before it: bottom becomes top.
WrapBelow(r, p, n) ==
    /\ r.topSize = 0
    /\ Capacity - r.bottomOffset - r.bottomSize < n
    /\ r.bottomOffset >= n
    /\ ring' = RingOf(r.bottomOffset, r.bottomSize, 0, n, r.committed)
    /\ mem' = Write(mem, 0, p, n)

\* Mutant: the offset is reset and the samples are not moved.
SlideDownUnmoved(r, p, n) ==
    /\ r.topSize = 0
    /\ Capacity - r.bottomOffset - r.bottomSize < n
    /\ r.bottomOffset < n
    /\ ring' = RingOf(r.topOffset, 0, 0, r.bottomSize + n, r.committed)
    /\ mem' = Write(mem, r.bottomSize, p, n)

\* One chunk with too little room on either side: move it to zero.
SlideDown(r, p, n) ==
    /\ r.topSize = 0
    /\ Capacity - r.bottomOffset - r.bottomSize < n
    /\ r.bottomOffset < n
    /\ ring' = RingOf(r.topOffset, 0, 0, r.bottomSize + n, r.committed)
    /\ mem' = Write(Memmove(mem, 0, r.bottomOffset, r.bottomSize),
                    r.bottomSize, p, n)

\* Two chunks and some space between them.
AppendInGap(r, p, n) ==
    /\ r.topSize > 0
    /\ GapBetween(r) # 0
    /\ ring' = RingOf(r.topOffset, r.topSize, r.bottomOffset, r.bottomSize + n,
                      r.committed)
    /\ mem' = Write(mem, r.bottomOffset + r.bottomSize, p, n)

\* Two chunks that touch: move them to the two ends.
SpreadApart(r, p, n) ==
    /\ r.topSize > 0
    /\ GapBetween(r) = 0
    /\ LET top == Capacity - r.topSize IN
       /\ ring' = RingOf(top, r.topSize, 0, r.bottomSize + n, r.committed)
       /\ mem' = Write(Memmove(Memmove(mem, 0, r.bottomOffset, r.bottomSize),
                               top, r.topOffset, r.topSize),
                       r.bottomSize, p, n)

ReserveNewContiguous(p, n) ==
    /\ n <= Capacity
    /\ LET r == MadeRoom(ring, n) IN
       \/ AppendAfter(r, p, n)
       \/ WrapBelow(r, p, n)
       \/ SlideDown(r, p, n)
       \/ AppendInGap(r, p, n)
       \/ SpreadApart(r, p, n)
    /\ output' = <<>>

CommitSamples ==
    /\ ring' = WithCommitted(ring, Held(ring))
    /\ output' = <<>>
    /\ UNCHANGED mem

\* The samples come out of top, then out of bottom.
ReadCommittedSamples(k) ==
    LET n       == IF k > ring.committed THEN ring.committed ELSE k
        fromTop == IF ring.topSize >= n THEN n ELSE ring.topSize
    IN
    /\ output' = Chunk(mem, ring.topOffset, fromTop)
                   \o Chunk(mem, ring.bottomOffset, n - fromTop)
    /\ ring' = Advance(ring, n, ring.committed - n)
    /\ UNCHANGED mem

Skip(k) ==
    /\ ring' = SkipSamples(ring, k)
    /\ output' = <<>>
    /\ UNCHANGED mem

ClearCommittedSamples == Skip(ring.committed)

ClearAll ==
    /\ ring' = RingOf(ring.topOffset, 0, ring.bottomOffset, 0, 0)
    /\ output' = <<>>
    /\ UNCHANGED mem

BufferNext ==
    \/ \E p \in Packets, n \in ReserveSizes : ReserveNewContiguous(p, n)
    \/ CommitSamples
    \/ \E k \in ReadSizes : ReadCommittedSamples(k)
    \/ \E k \in SkipSizes : Skip(k)
    \/ ClearCommittedSamples
    \/ ClearAll

BufferSpec == BufferInit /\ [][BufferNext]_bufferVars

-----------------------------------------------------------------------------
(* Properties.                                                             *)

\* The scalar members are natural numbers and the sample memory keeps its size.
BufferTypeOK ==
    /\ ring \in Ring
    /\ DOMAIN mem = Cells

Bounded(r) ==
    /\ r.topOffset + r.topSize <= Capacity
    /\ r.bottomOffset + r.bottomSize <= Capacity
    /\ Held(r) <= Capacity
    /\ r.committed <= Held(r)
    /\ r.topSize > 0 => r.bottomOffset = 0

\* Every offset the class passes to memcpy, memmove or a codec stays inside
\* the allocation, and no unsigned difference in ReserveNewContiguous wraps:
\* the chunks fit, together they are no larger than the buffer, and no more
\* is committed than is held.  While top is in use bottom starts at zero.
RingInv == Bounded(ring)

Apart(r) == r.topSize > 0 => r.bottomOffset + r.bottomSize <= r.topOffset

\* The two chunks do not share a cell: no packet was written over samples that
\* are still to be read.  "Reserves a contiguous block of samples at the end of
\* the ring.  Never fails if the buffer is large enough, may delete samples."
\* (lwmovie_audiobuffer.hpp:45): deleted samples are dropped from the ring,
\* the retained ones stay what they were.
ChunksDisjoint == Apart(ring)

\* A reservation about to be put into a gap smaller than the packet.
NarrowGap(n) ==
    LET r == MadeRoom(ring, n) IN
    /\ r.topSize > 0
    /\ GapBetween(r) # 0
    /\ GapBetween(r) < n

NarrowGapReserve ==
    \E p \in Packets, n \in ReserveSizes :
        NarrowGap(n) /\ ReserveNewContiguous(p, n)

\* Appending to a gap that is there but too small is the only way in which the
\* chunks come to overlap; every other call keeps them apart.
OnlyNarrowGapOverlaps ==
    [][ChunksDisjoint /\ ~NarrowGapReserve => ChunksDisjoint']_bufferVars

Fifo == INSTANCE AudioFifo WITH queue <- Contents, committed <- ring.committed

\* Every call but that one acts on the samples held as the queue promises:
\* samples come out oldest first, and only the oldest ones are ever deleted.
StepIsFifo == [][NarrowGapReserve \/ [Fifo!Next]_(Fifo!fifoVars)]_bufferVars
=============================================================================
