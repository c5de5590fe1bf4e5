---------------------------- MODULE AudioProofs ----------------------------
(***************************************************************************)
(* The audio ring, for every capacity and every choice of packet, read and *)
(* skip sizes: it stays inside its allocation, and only a reservation put  *)
(* into too narrow a gap can make the two chunks overlap or its calls      *)
(* anything but calls on a queue.                                          *)
(*                                                                         *)
(* Audio synchronization, for any number of streams, frame size and movie: *)
(* playback stays where the player is, and plays what belongs there.       *)
(***************************************************************************)
EXTENDS AudioBuffer, AudioSync, SequenceTheorems, WellFoundedInduction,
        NaturalsInduction, TLAPS

\* Taking samples off the front leaves a ring with exactly that many fewer.
LEMMA AdvanceFacts ==
    ASSUME NEW r \in Ring, NEW n \in Nat, NEW c \in Nat, Bounded(r),
           c <= Monus(Held(r), n)
    PROVE  LET a == Advance(r, n, c) IN
           /\ a \in Ring
           /\ Bounded(a)
           /\ Held(a) = Monus(Held(r), n)
           /\ Apart(r) => Apart(a)
<1> USE CapacityAssumption
    DEF Advance, RingOf, Ring, Bounded, Held, Monus, Apart
<1>1. CASE r.topSize >= n
  BY <1>1
<1>2. CASE r.topSize < n /\ r.bottomSize >= n - r.topSize
  BY <1>2
<1>3. CASE r.topSize < n /\ r.bottomSize < n - r.topSize
  BY <1>3
<1>4. QED
  BY <1>1, <1>2, <1>3

\* Skipping keeps the ring bounded: the commit count is lowered with it.
LEMMA SkipFacts ==
    ASSUME NEW r \in Ring, NEW n \in Nat, Bounded(r)
    PROVE  LET s == SkipSamples(r, n) IN
           /\ s \in Ring
           /\ Bounded(s)
           /\ Held(s) = Monus(Held(r), n)
           /\ Apart(r) => Apart(s)
<1>1. /\ Monus(r.committed, n) \in Nat
      /\ Monus(r.committed, n) <= Monus(Held(r), n)
  BY DEF Monus, Ring, Bounded, Held
<1>2. QED
  BY <1>1, AdvanceFacts DEF SkipSamples

\* Making room for n samples keeps the ring bounded and leaves room for them.
LEMMA MadeRoomFacts ==
    ASSUME NEW r \in Ring, NEW n \in Nat, Bounded(r), n <= Capacity
    PROVE  LET m == MadeRoom(r, n) IN
           /\ m \in Ring
           /\ Bounded(m)
           /\ Held(m) + n <= Capacity
           /\ m.bottomSize = 0 => m.bottomOffset = 0
           /\ Apart(r) => Apart(m)
<1> DEFINE d == NumDropped(r, n)
           l == WithCommitted(r, Monus(r.committed, d))
           s == DropOldest(r, n)
           m == MadeRoom(r, n)
<1>1. /\ d \in Nat
      /\ Held(r) - d + n <= Capacity
      /\ d <= Held(r)
  BY CapacityAssumption DEF NumDropped, Monus, Held, Ring, Bounded
<1>2. /\ l \in Ring /\ Bounded(l)
      /\ Held(l) = Held(r)
      /\ Apart(r) => Apart(l)
  BY <1>1, CapacityAssumption
  DEF WithCommitted, RingOf, Ring, Bounded, Held, Monus, Apart
<1>3. s = SkipSamples(l, d)
  BY DEF DropOldest
<1>4. /\ s \in Ring /\ Bounded(s)
      /\ Held(s) = Monus(Held(l), d)
      /\ Apart(l) => Apart(s)
  BY <1>1, <1>2, <1>3, SkipFacts
<1>5. Held(s) + n <= Capacity
  BY <1>1, <1>2, <1>4, CapacityAssumption DEF Monus, Held, Ring
<1>6. m = Rebase(s)
  BY DEF MadeRoom
<1> HIDE DEF d, l, s, m
<1>7. /\ m \in Ring /\ Bounded(m)
      /\ Held(m) = Held(s)
      /\ m.bottomSize = 0 => m.bottomOffset = 0
      /\ Apart(s) => Apart(m)
  BY <1>4, <1>6, CapacityAssumption DEF Rebase, RingOf, Ring, Bounded, Held, Apart
<1>8. QED
  BY <1>2, <1>4, <1>5, <1>7 DEF m

\* Writing a packet does not change the size of the sample memory.
LEMMA WriteKeepsSize ==
    ASSUME NEW m, NEW at, NEW p, NEW n
    PROVE  DOMAIN Write(m, at, p, n) = Cells
BY DEF Write

\* Every placement of a packet of n samples in a ring with room for it keeps
\* the ring bounded, and keeps the chunks apart unless the gap is too narrow.
LEMMA PlacementFacts ==
    ASSUME NEW r \in Ring, NEW n \in Nat, NEW p, Bounded(r),
           Held(r) + n <= Capacity,
           \/ AppendAfter(r, p, n)
           \/ WrapBelow(r, p, n)
           \/ SlideDown(r, p, n)
           \/ AppendInGap(r, p, n)
           \/ SpreadApart(r, p, n)
    PROVE  /\ ring' \in Ring
           /\ DOMAIN mem' = Cells
           /\ Bounded(ring')
           /\ Apart(r) /\ ~(r.topSize > 0 /\ GapBetween(r) # 0 /\ GapBetween(r) < n)
                => Apart(ring')
<1> USE CapacityAssumption DEF RingOf, Ring, Bounded, Held, Apart
<1>1. CASE AppendAfter(r, p, n)
  BY <1>1, WriteKeepsSize DEF AppendAfter
<1>2. CASE WrapBelow(r, p, n)
  BY <1>2, WriteKeepsSize DEF WrapBelow
<1>3. CASE SlideDown(r, p, n)
  BY <1>3, WriteKeepsSize DEF SlideDown
<1>4. CASE AppendInGap(r, p, n)
  BY <1>4, WriteKeepsSize DEF AppendInGap, GapBetween
<1>5. CASE SpreadApart(r, p, n)
  <2>1. ring' = RingOf(Capacity - r.topSize, r.topSize, 0, r.bottomSize + n,
                       r.committed)
    BY <1>5 DEF SpreadApart
  <2>2. DOMAIN mem' = Cells
    BY <1>5, WriteKeepsSize DEF SpreadApart
  <2>3. QED
    BY <2>1, <2>2
<1>6. QED
  BY <1>1, <1>2, <1>3, <1>4, <1>5

\* One step: the ring stays well typed and bounded, and the chunks stay apart
\* unless the step is a reservation in a narrow gap.
LEMMA StepFacts ==
    ASSUME BufferTypeOK, RingInv, [BufferNext]_bufferVars
    PROVE  /\ BufferTypeOK'
           /\ RingInv'
           /\ ChunksDisjoint /\ ~NarrowGapReserve => ChunksDisjoint'
<1> USE SizesAssumption DEF BufferTypeOK, RingInv, ChunksDisjoint
<1>1. ASSUME NEW p \in Packets, NEW n \in ReserveSizes,
             ReserveNewContiguous(p, n)
      PROVE  /\ BufferTypeOK' /\ RingInv'
             /\ ChunksDisjoint /\ ~NarrowGapReserve => ChunksDisjoint'
  <2> DEFINE r == MadeRoom(ring, n)
  <2>1. n \in Nat /\ n <= Capacity
    BY <1>1 DEF ReserveNewContiguous
  <2>2. /\ r \in Ring /\ Bounded(r)
        /\ Held(r) + n <= Capacity
        /\ Apart(ring) => Apart(r)
    BY <2>1, MadeRoomFacts
  <2>3. \/ AppendAfter(r, p, n)
        \/ WrapBelow(r, p, n)
        \/ SlideDown(r, p, n)
        \/ AppendInGap(r, p, n)
        \/ SpreadApart(r, p, n)
    BY <1>1 DEF ReserveNewContiguous
  <2>4. ~NarrowGapReserve
          => ~(r.topSize > 0 /\ GapBetween(r) # 0 /\ GapBetween(r) < n)
    BY <1>1 DEF NarrowGapReserve, NarrowGap
  <2> HIDE DEF r
  <2>5. QED
    BY <2>1, <2>2, <2>3, <2>4, PlacementFacts
<1>2. CASE CommitSamples
  BY <1>2 DEF CommitSamples, WithCommitted, RingOf, Ring, Bounded, Held, Apart
<1>3. ASSUME NEW k \in ReadSizes, ReadCommittedSamples(k)
      PROVE  BufferTypeOK' /\ RingInv' /\ (ChunksDisjoint => ChunksDisjoint')
  <2> DEFINE n == IF k > ring.committed THEN ring.committed ELSE k
  <2>1. /\ n \in Nat /\ ring.committed - n \in Nat
        /\ ring.committed - n <= Monus(Held(ring), n)
    BY <1>3 DEF Ring, Bounded, Held, Monus
  <2>2. ring' = Advance(ring, n, ring.committed - n) /\ mem' = mem
    BY <1>3 DEF ReadCommittedSamples
  <2> HIDE DEF n
  <2>3. QED
    BY <2>1, <2>2, AdvanceFacts
<1>4. ASSUME NEW k \in Nat, Skip(k)
      PROVE  BufferTypeOK' /\ RingInv' /\ (ChunksDisjoint => ChunksDisjoint')
  BY <1>4, SkipFacts DEF Skip
<1>5. CASE ClearAll
  BY <1>5, CapacityAssumption DEF ClearAll, RingOf, Ring, Bounded, Held, Apart
<1>6. CASE UNCHANGED bufferVars
  BY <1>6 DEF bufferVars
<1>7. ring.committed \in Nat
  BY DEF Ring
<1>8. QED
  BY <1>1, <1>2, <1>3, <1>4, <1>5, <1>6, <1>7
  DEF BufferNext, ClearCommittedSamples

-----------------------------------------------------------------------------
\* The scalar members stay natural numbers and the sample memory its size, so
\* no unsigned subtraction in the class ever wraps below zero unnoticed.
THEOREM TypeCorrect == BufferSpec => []BufferTypeOK
<1>1. BufferInit => BufferTypeOK /\ RingInv
  BY CapacityAssumption DEF BufferInit, BufferTypeOK, RingInv, RingOf, Ring, Bounded, Held
<1>2. BufferTypeOK /\ RingInv /\ [BufferNext]_bufferVars => BufferTypeOK' /\ RingInv'
  BY StepFacts
<1>3. QED
  BY <1>1, <1>2, PTL DEF BufferSpec

\* Whatever the sizes of packets and reads, and even after chunks have come to
\* overlap, no offset leaves the allocation.
THEOREM MemorySafe == BufferSpec => []RingInv
<1>1. BufferInit => BufferTypeOK /\ RingInv
  BY CapacityAssumption DEF BufferInit, BufferTypeOK, RingInv, RingOf, Ring, Bounded, Held
<1>2. BufferTypeOK /\ RingInv /\ [BufferNext]_bufferVars => BufferTypeOK' /\ RingInv'
  BY StepFacts
<1>3. QED
  BY <1>1, <1>2, PTL DEF BufferSpec

\* The narrow-gap reservation is the only culprit: apart from it, a ring whose
\* chunks are disjoint keeps them disjoint.
THEOREM NarrowGapIsTheOnlyCulprit == BufferSpec => OnlyNarrowGapOverlaps
<1>1. BufferSpec => [](BufferTypeOK /\ RingInv)
  BY TypeCorrect, MemorySafe, PTL
<1>2. BufferTypeOK /\ RingInv /\ [BufferNext]_bufferVars
        => [ChunksDisjoint /\ ~NarrowGapReserve => ChunksDisjoint']_bufferVars
  BY StepFacts
<1>3. QED
  BY <1>1, <1>2, PTL DEF BufferSpec, OnlyNarrowGapOverlaps

-----------------------------------------------------------------------------
(***************************************************************************)
(* The ring as a queue.                                                    *)
(***************************************************************************)

Samples == {Nothing} \cup (Packets \X Nat)

SampleMemory == [Cells -> Samples]

MemInv == mem \in SampleMemory

\* The i-th sample held, and all of them.
SampleAt(r, m, i) == IF i <= r.topSize THEN m[r.topOffset + i - 1]
                     ELSE m[r.bottomOffset + (i - r.topSize) - 1]

ContentsOf(r, m) == Chunk(m, r.topOffset, r.topSize)
                      \o Chunk(m, r.bottomOffset, r.bottomSize)

LEMMA ChunkFacts ==
    ASSUME NEW m \in SampleMemory, NEW at \in Nat, NEW n \in Nat,
           at + n <= Capacity
    PROVE  /\ Chunk(m, at, n) \in Seq(Samples)
           /\ Len(Chunk(m, at, n)) = n
           /\ \A i \in 1 .. n : Chunk(m, at, n)[i] = m[at + i - 1]
<1>1. \A i \in 1 .. n : at + i - 1 \in Cells
  BY CapacityAssumption DEF Cells
<1>2. Chunk(m, at, n) \in [1 .. n -> Samples]
  BY <1>1 DEF Chunk, SampleMemory
<1>3. \A i \in 1 .. n : Chunk(m, at, n)[i] = m[at + i - 1]
  BY DEF Chunk
<1> DEFINE u == Chunk(m, at, n)
<1> HIDE DEF u
<1>4. u \in [1 .. n -> Samples]
  BY <1>2 DEF u
<1>5. u \in Seq(Samples)
  BY <1>4
<1>6. Len(u) = n
  BY <1>4, <1>5, LenProperties
<1>7. QED
  BY <1>3, <1>5, <1>6 DEF u

LEMMA ContentsFacts ==
    ASSUME NEW r \in Ring, Bounded(r), NEW m \in SampleMemory
    PROVE  /\ ContentsOf(r, m) \in Seq(Samples)
           /\ Len(ContentsOf(r, m)) = Held(r)
           /\ Held(r) \in Nat
           /\ \A i \in 1 .. Held(r) : ContentsOf(r, m)[i] = SampleAt(r, m, i)
<1> DEFINE t == Chunk(m, r.topOffset, r.topSize)
           b == Chunk(m, r.bottomOffset, r.bottomSize)
<1>1. /\ r.topSize \in Nat /\ r.bottomSize \in Nat /\ r.topOffset \in Nat
      /\ r.bottomOffset \in Nat
      /\ Held(r) = r.topSize + r.bottomSize
      /\ r.topOffset + r.topSize <= Capacity
      /\ r.bottomOffset + r.bottomSize <= Capacity
  BY DEF Ring, Held, Bounded
<1>2. /\ t \in Seq(Samples) /\ Len(t) = r.topSize
      /\ \A i \in 1 .. r.topSize : t[i] = m[r.topOffset + i - 1]
  BY <1>1, ChunkFacts
<1>3. /\ b \in Seq(Samples) /\ Len(b) = r.bottomSize
      /\ \A i \in 1 .. r.bottomSize : b[i] = m[r.bottomOffset + i - 1]
  BY <1>1, ChunkFacts
<1>4. ContentsOf(r, m) = t \o b
  BY DEF ContentsOf
<1> HIDE DEF t, b
<1>5. /\ t \o b \in Seq(Samples) /\ Len(t \o b) = Held(r)
      /\ \A i \in 1 .. Held(r) :
            (t \o b)[i] = IF i <= r.topSize THEN t[i] ELSE b[i - r.topSize]
  <2>1. /\ t \o b \in Seq(Samples) /\ Len(t \o b) = Len(t) + Len(b)
        /\ \A i \in 1 .. Len(t) + Len(b) :
              (t \o b)[i] = IF i <= Len(t) THEN t[i] ELSE b[i - Len(t)]
    <3>1. t \in Seq(Samples) /\ b \in Seq(Samples)
      BY <1>2, <1>3
    <3>2. QED
      BY <3>1, ConcatProperties, Zenon
  <2>2. Len(t) = r.topSize /\ Len(b) = r.bottomSize /\ Len(t) + Len(b) = Held(r)
    BY <1>1, <1>2, <1>3
  <2>3. QED
    BY <2>1, <2>2, Zenon
<1>6. ASSUME NEW i \in 1 .. Held(r)
      PROVE  (t \o b)[i] = SampleAt(r, m, i)
  <2>1. CASE i <= r.topSize
    BY <1>1, <1>2, <1>5, <2>1 DEF SampleAt
  <2>2. CASE ~(i <= r.topSize)
    <3>1. i - r.topSize \in 1 .. r.bottomSize
      BY <1>1, <2>2
    <3>2. QED
      BY <1>3, <1>5, <2>2, <3>1 DEF SampleAt
  <2>3. QED
    BY <2>1, <2>2
<1>7. QED
  BY <1>1, <1>4, <1>5, <1>6

\* What is left of a sequence when its first n are taken off.
LEMMA RestFacts ==
    ASSUME NEW q \in Seq(Samples), NEW n \in Nat
    PROVE  /\ SubSeq(q, n + 1, Len(q)) \in Seq(Samples)
           /\ Len(SubSeq(q, n + 1, Len(q))) = Monus(Len(q), n)
           /\ \A i \in 1 .. Monus(Len(q), n) :
                 SubSeq(q, n + 1, Len(q))[i] = q[i + n]
<1>1. Len(q) \in Nat
  BY LenProperties
<1>2. \A i \in n + 1 .. Len(q) : q[i] \in Samples
  BY <1>1, ElementOfSeq
<1>3. /\ SubSeq(q, n + 1, Len(q)) \in Seq(Samples)
      /\ Len(SubSeq(q, n + 1, Len(q)))
           = IF n + 1 <= Len(q) THEN Len(q) - (n + 1) + 1 ELSE 0
      /\ \A i \in 1 .. Len(q) - (n + 1) + 1 :
            SubSeq(q, n + 1, Len(q))[i] = q[n + 1 + i - 1]
  BY <1>1, <1>2, SubSeqProperties
<1>4. Monus(Len(q), n) = IF n + 1 <= Len(q) THEN Len(q) - (n + 1) + 1 ELSE 0
  BY <1>1 DEF Monus
<1>5. \A i \in 1 .. Monus(Len(q), n) : /\ i \in 1 .. Len(q) - (n + 1) + 1
                                       /\ n + 1 + i - 1 = i + n
  BY <1>1 DEF Monus
<1>6. QED
  BY <1>3, <1>4, <1>5

\* Advance takes the n oldest samples off.
LEMMA AdvanceContents ==
    ASSUME NEW r \in Ring, Bounded(r), NEW m \in SampleMemory, NEW n \in Nat,
           NEW c \in Nat, c <= Monus(Held(r), n)
    PROVE  ContentsOf(Advance(r, n, c), m)
             = SubSeq(ContentsOf(r, m), n + 1, Len(ContentsOf(r, m)))
<1> DEFINE a == Advance(r, n, c)
           q == ContentsOf(r, m)
<1>1. a \in Ring /\ Bounded(a) /\ Held(a) = Monus(Held(r), n)
  BY AdvanceFacts
<1>2. /\ q \in Seq(Samples) /\ Len(q) = Held(r) /\ Held(r) \in Nat
      /\ \A i \in 1 .. Held(r) : q[i] = SampleAt(r, m, i)
  BY ContentsFacts
<1>3. /\ ContentsOf(a, m) \in Seq(Samples) /\ Len(ContentsOf(a, m)) = Held(a)
      /\ \A i \in 1 .. Held(a) : ContentsOf(a, m)[i] = SampleAt(a, m, i)
  BY <1>1, ContentsFacts
<1>4. ASSUME NEW i \in 1 .. Held(a)
      PROVE  SampleAt(a, m, i) = SampleAt(r, m, i + n) /\ i + n \in 1 .. Held(r)
  <2>1. /\ r.topSize \in Nat /\ r.bottomSize \in Nat /\ r.topOffset \in Nat
        /\ r.bottomOffset \in Nat /\ Held(r) = r.topSize + r.bottomSize
    BY DEF Ring, Held
  <2>2. i \in Nat /\ i >= 1 /\ i + n <= Held(r) /\ n < Held(r)
    BY <1>1, <1>2 DEF Monus
  <2>3. CASE r.topSize >= n
    <3>1. /\ a.topOffset = r.topOffset + n /\ a.topSize = r.topSize - n
          /\ a.bottomOffset = r.bottomOffset
      BY <2>3 DEF Advance, RingOf
    <3>2. QED
      BY <2>1, <2>2, <2>3, <3>1 DEF SampleAt
  <2>4. CASE ~(r.topSize >= n)
    <3>1. r.bottomSize >= n - r.topSize
      BY <2>1, <2>2, <2>4
    <3>2. /\ a.topSize = 0
          /\ a.bottomOffset = r.bottomOffset + (n - r.topSize)
      BY <2>4, <3>1 DEF Advance, RingOf
    <3>3. QED
      BY <2>1, <2>2, <2>4, <3>2 DEF SampleAt
  <2>5. QED
    BY <1>2, <2>2, <2>3, <2>4
<1> HIDE DEF a, q
<1>5. \A i \in 1 .. Held(a) : /\ ContentsOf(a, m)[i] = q[i + n]
                              /\ i + n \in 1 .. Held(r)
  BY <1>2, <1>3, <1>4
<1>6. ContentsOf(a, m) = SubSeq(q, n + 1, Len(q))
  <2> DEFINE u == ContentsOf(a, m)
             v == SubSeq(q, n + 1, Len(q))
  <2>1. v \in Seq(Samples) /\ Len(v) = Monus(Len(q), n)
        /\ \A i \in 1 .. Monus(Len(q), n) : v[i] = q[i + n]
    BY <1>2, RestFacts
  <2>2. u \in Seq(Samples) /\ Len(u) = Len(v)
    BY <1>1, <1>2, <1>3, <2>1
  <2>3. \A i \in 1 .. Len(u) : u[i] = v[i]
    BY <1>1, <1>2, <1>3, <1>5, <2>1
  <2> HIDE DEF u, v
  <2>4. u = v
    BY <2>1, <2>2, <2>3, SeqEqual
  <2>5. QED
    BY <2>4 DEF u, v
<1>7. QED
  BY <1>6 DEF a, q

\* Two rings that hold the same number of samples, and the same ones.
LEMMA SameContents ==
    ASSUME NEW r \in Ring, Bounded(r), NEW m \in SampleMemory,
           NEW s \in Ring, Bounded(s), Held(s) = Held(r),
           \A i \in 1 .. Held(r) : SampleAt(s, m, i) = SampleAt(r, m, i)
    PROVE  ContentsOf(s, m) = ContentsOf(r, m)
<1> DEFINE u == ContentsOf(s, m)
           v == ContentsOf(r, m)
<1>1. /\ u \in Seq(Samples) /\ Len(u) = Held(r)
      /\ \A i \in 1 .. Held(r) : u[i] = SampleAt(s, m, i)
  BY ContentsFacts
<1>2. /\ v \in Seq(Samples) /\ Len(v) = Held(r)
      /\ \A i \in 1 .. Held(r) : v[i] = SampleAt(r, m, i)
  BY ContentsFacts
<1> HIDE DEF u, v
<1>3. u = v
  BY <1>1, <1>2, SeqEqual
<1>4. QED
  BY <1>3 DEF u, v

\* Making room for a packet deletes exactly the samples there is no room for.
LEMMA MadeRoomContents ==
    ASSUME NEW r \in Ring, NEW n \in Nat, Bounded(r), n <= Capacity,
           NEW m \in SampleMemory
    PROVE  LET d == NumDropped(r, n)
               s == MadeRoom(r, n)
           IN  /\ d \in Nat /\ d = Monus(Held(r) + n, Capacity)
               /\ ContentsOf(s, m)
                    = SubSeq(ContentsOf(r, m), d + 1, Len(ContentsOf(r, m)))
               /\ s.committed \in Nat
               /\ s.committed <= Monus(r.committed, d)
<1> DEFINE d == NumDropped(r, n)
           l == WithCommitted(r, Monus(r.committed, d))
           s == DropOldest(r, n)
<1>1. /\ d \in Nat /\ d = Monus(Held(r) + n, Capacity)
      /\ d <= Held(r) /\ Held(r) \in Nat /\ r.committed \in Nat
      /\ r.committed <= Held(r)
  BY CapacityAssumption DEF NumDropped, Monus, Held, Ring, Bounded
<1> HIDE DEF d
<1>2. Monus(r.committed, d) \in Nat /\ Monus(r.committed, d) <= r.committed
  BY <1>1 DEF Monus
<1>3. /\ l \in Ring /\ Bounded(l) /\ Held(l) = Held(r)
      /\ l.committed = Monus(r.committed, d)
      /\ ContentsOf(l, m) = ContentsOf(r, m)
  <2>1. /\ l.topOffset = r.topOffset /\ l.topSize = r.topSize
        /\ l.bottomOffset = r.bottomOffset /\ l.bottomSize = r.bottomSize
        /\ l.committed = Monus(r.committed, d)
    BY DEF WithCommitted, RingOf
  <2>2. ContentsOf(l, m) = ContentsOf(r, m)
    BY <2>1 DEF ContentsOf
  <2>3. l \in Ring
    BY <1>2 DEF WithCommitted, RingOf, Ring
  <2>4. Held(l) = Held(r)
    BY <2>1 DEF Held
  <2>5. Bounded(l)
    BY <1>1, <1>2, <2>1, <2>4 DEF Bounded
  <2>6. QED
    BY <2>1, <2>2, <2>3, <2>4, <2>5
<1>4. s = Advance(l, d, Monus(l.committed, d))
  BY <1>3 DEF DropOldest, SkipSamples, d
<1> HIDE DEF l
<1>5. /\ Monus(l.committed, d) \in Nat
      /\ Monus(l.committed, d) <= Monus(Held(l), d)
      /\ Monus(l.committed, d) <= Monus(r.committed, d)
  BY <1>1, <1>2, <1>3 DEF Monus
<1>6. /\ s \in Ring /\ Bounded(s)
      /\ ContentsOf(s, m) = SubSeq(ContentsOf(r, m), d + 1, Len(ContentsOf(r, m)))
      /\ s.committed = Monus(l.committed, d)
  <2>1. Advance(l, d, Monus(l.committed, d)).committed = Monus(l.committed, d)
    BY DEF Advance, RingOf
  <2>2. QED
    BY <1>1, <1>3, <1>4, <1>5, <2>1, AdvanceFacts, AdvanceContents
<1> HIDE DEF s
<1>7. /\ Rebase(s) \in Ring /\ Bounded(Rebase(s)) /\ Held(Rebase(s)) = Held(s)
      /\ Rebase(s).committed = s.committed
      /\ Rebase(s).topSize = s.topSize /\ Rebase(s).topOffset = s.topOffset
      /\ (Rebase(s).bottomOffset = s.bottomOffset \/ s.bottomSize = 0)
  <2>1. CASE s.bottomSize = 0
    <3>1. Rebase(s) = RingOf(s.topOffset, s.topSize, 0, 0, s.committed)
      BY <2>1 DEF Rebase
    <3>2. QED
      BY <1>6, <2>1, <3>1, CapacityAssumption DEF RingOf, Ring, Bounded, Held
  <2>2. CASE s.bottomSize # 0
    BY <1>6, <2>2 DEF Rebase
  <2>3. QED
    BY <2>1, <2>2
<1>8. ContentsOf(Rebase(s), m) = ContentsOf(s, m)
  <2>1. \A i \in 1 .. Held(s) : SampleAt(Rebase(s), m, i) = SampleAt(s, m, i)
    <3>1. CASE s.bottomSize = 0
      <4>1. \A i \in 1 .. Held(s) : i <= s.topSize
        BY <1>6, <3>1 DEF Held, Ring
      <4>2. QED
        BY <1>7, <4>1 DEF SampleAt
    <3>2. CASE s.bottomSize # 0
      BY <1>7, <3>2 DEF SampleAt
    <3>3. QED
      BY <3>1, <3>2
  <2>2. QED
    BY <1>6, <1>7, <2>1, SameContents
<1>9. MadeRoom(r, n) = Rebase(s)
  BY DEF MadeRoom, s
<1>10. QED
  BY <1>1, <1>5, <1>6, <1>7, <1>8, <1>9 DEF d

\* The j-th sample of packet p.
PacketSample(p, j) == <<p, j>>

\* u is m with the n samples of packet p written at `at`.
HasWritten(u, m, at, p, n) ==
    /\ u \in SampleMemory
    /\ \A c \in Cells : u[c] = IF at <= c /\ c < at + n
                               THEN PacketSample(p, c - at + 1) ELSE m[c]

\* u is m with n samples copied from `from` to `to`.
HasMoved(u, m, to, from, n) ==
    /\ u \in SampleMemory
    /\ \A c \in Cells : u[c] = IF to <= c /\ c < to + n
                               THEN m[c - to + from] ELSE m[c]

\* The n samples of packet p lie in u from `at` on.
HasPacket(u, at, p, n) == \A j \in 1 .. n : u[at + j - 1] = PacketSample(p, j)

LEMMA WriteFacts ==
    ASSUME NEW m \in SampleMemory, NEW at \in Nat, NEW p \in Packets,
           NEW n \in Nat
    PROVE  HasWritten(Write(m, at, p, n), m, at, p, n)
<1>1. \A c \in Cells : /\ c \in at .. at + n - 1 <=> at <= c /\ c < at + n
                       /\ c \in at .. at + n - 1 => c - at + 1 \in Nat
  BY CapacityAssumption DEF Cells
<1>2. \A c \in Cells : Write(m, at, p, n)[c]
                 = IF at <= c /\ c < at + n THEN <<p, c - at + 1>> ELSE m[c]
  BY <1>1 DEF Write
<1>3. \A c \in Cells :
         (IF c \in at .. at + n - 1 THEN <<p, c - at + 1>> ELSE m[c]) \in Samples
  BY <1>1 DEF SampleMemory, Samples
<1>4. QED
  BY <1>2, <1>3 DEF Write, SampleMemory, HasWritten, PacketSample

LEMMA MemmoveFacts ==
    ASSUME NEW m \in SampleMemory, NEW to \in Nat, NEW from \in Nat,
           NEW n \in Nat, from + n <= Capacity
    PROVE  HasMoved(Memmove(m, to, from, n), m, to, from, n)
<1>1. \A c \in Cells : /\ c \in to .. to + n - 1 <=> to <= c /\ c < to + n
                       /\ c \in to .. to + n - 1 => c - to + from \in Cells
  BY CapacityAssumption DEF Cells
<1>2. \A c \in Cells : Memmove(m, to, from, n)[c]
                 = IF to <= c /\ c < to + n THEN m[c - to + from] ELSE m[c]
  BY <1>1 DEF Memmove
<1>3. \A c \in Cells :
         (IF c \in to .. to + n - 1 THEN m[c - to + from] ELSE m[c]) \in Samples
  BY <1>1 DEF SampleMemory
<1>4. QED
  BY <1>2, <1>3 DEF Memmove, SampleMemory, HasMoved

LEMMA WrittenAt ==
    ASSUME NEW u, NEW m, NEW at \in Nat, NEW p, NEW n \in Nat,
           HasWritten(u, m, at, p, n), at + n <= Capacity
    PROVE  HasPacket(u, at, p, n)
<1> SUFFICES ASSUME NEW j \in 1 .. n
             PROVE  u[at + j - 1] = PacketSample(p, j)
  BY DEF HasPacket
<1>1. /\ at + j - 1 \in Cells /\ at <= at + j - 1 /\ at + j - 1 < at + n
      /\ (at + j - 1) - at + 1 = j
  BY CapacityAssumption DEF Cells
<1>2. u[at + j - 1] = PacketSample(p, (at + j - 1) - at + 1)
  BY <1>1 DEF HasWritten
<1>3. QED
  BY <1>1, <1>2

LEMMA UnwrittenAt ==
    ASSUME NEW u, NEW m, NEW at \in Nat, NEW p, NEW n \in Nat,
           HasWritten(u, m, at, p, n), NEW c \in Cells, c < at \/ c >= at + n
    PROVE  u[c] = m[c]
<1>1. ~(at <= c /\ c < at + n)
  BY CapacityAssumption DEF Cells
<1>2. QED
  BY <1>1 DEF HasWritten

LEMMA MovedAt ==
    ASSUME NEW u, NEW m, NEW to \in Nat, NEW from \in Nat, NEW n \in Nat,
           HasMoved(u, m, to, from, n), to + n <= Capacity
    PROVE  \A i \in 1 .. n : u[to + i - 1] = m[from + i - 1]
<1> SUFFICES ASSUME NEW i \in 1 .. n
             PROVE  u[to + i - 1] = m[from + i - 1]
  OBVIOUS
<1>1. /\ to + i - 1 \in Cells /\ to <= to + i - 1 /\ to + i - 1 < to + n
      /\ (to + i - 1) - to + from = from + i - 1
  BY CapacityAssumption DEF Cells
<1>2. u[to + i - 1] = m[(to + i - 1) - to + from]
  BY <1>1 DEF HasMoved
<1>3. QED
  BY <1>1, <1>2

LEMMA UnmovedAt ==
    ASSUME NEW u, NEW m, NEW to \in Nat, NEW from \in Nat, NEW n \in Nat,
           HasMoved(u, m, to, from, n), NEW c \in Cells, c < to \/ c >= to + n
    PROVE  u[c] = m[c]
<1>1. ~(to <= c /\ c < to + n)
  BY CapacityAssumption DEF Cells
<1>2. QED
  BY <1>1 DEF HasMoved

\* A step that leaves the samples of r where reading finds them, and puts the
\* packet behind them.
Appends(r, p, n) ==
    /\ mem' \in SampleMemory
    /\ ring'.committed = r.committed
    /\ Held(ring') = Held(r) + n
    /\ \A i \in 1 .. Held(r) : SampleAt(ring', mem', i) = SampleAt(r, mem, i)
    /\ \A j \in 1 .. n : SampleAt(ring', mem', Held(r) + j) = PacketSample(p, j)

LEMMA PlacementAppends ==
    ASSUME MemInv, NEW r \in Ring, NEW n \in Nat, NEW p \in Packets, Bounded(r),
           Held(r) + n <= Capacity,
           \/ AppendAfter(r, p, n)
           \/ WrapBelow(r, p, n)
           \/ SlideDown(r, p, n)
           \/ AppendInGap(r, p, n) /\ ~(GapBetween(r) < n)
           \/ SpreadApart(r, p, n)
    PROVE  Appends(r, p, n)
<1> DEFINE to == r.topOffset
           ts == r.topSize
           bo == r.bottomOffset
           bs == r.bottomSize
<1>1. /\ to \in Nat /\ ts \in Nat /\ bo \in Nat /\ bs \in Nat
      /\ Held(r) = ts + bs /\ ts + bs + n <= Capacity
      /\ to + ts <= Capacity /\ bo + bs <= Capacity
      /\ ts > 0 => bo = 0
  BY DEF Ring, Bounded, Held
<1>2. Capacity \in Nat /\ mem \in SampleMemory
  BY CapacityAssumption DEF MemInv
<1>3. \A c : c \in Cells <=> c \in Int /\ 0 <= c /\ c < Capacity
  BY <1>2 DEF Cells
<1>4. \A i \in 1 .. Held(r) : SampleAt(r, mem, i)
         = IF i <= ts THEN mem[to + i - 1] ELSE mem[bo + (i - ts) - 1]
  BY DEF SampleAt
<1> HIDE DEF to, ts, bo, bs
<1>5. CASE AppendAfter(r, p, n)
  <2>1. /\ ts = 0 /\ Capacity - bo - bs >= n
        /\ ring'.topSize = 0 /\ ring'.bottomOffset = bo
        /\ ring'.bottomSize = bs + n /\ ring'.committed = r.committed
        /\ mem' = Write(mem, bo + bs, p, n)
    BY <1>5 DEF AppendAfter, RingOf, to, ts, bo, bs
  <2>2. bo + bs \in Nat /\ bo + bs + n <= Capacity
    BY <1>1, <1>2, <2>1
  <2>3. HasWritten(mem', mem, bo + bs, p, n)
    BY <1>2, <2>1, <2>2, WriteFacts
  <2>4. \A i \in 1 .. Held(r) + n : SampleAt(ring', mem', i) = mem'[bo + i - 1]
    BY <1>1, <2>1 DEF SampleAt
  <2>5. ASSUME NEW i \in 1 .. Held(r)
        PROVE  SampleAt(ring', mem', i) = SampleAt(r, mem, i)
    <3>1. /\ i \in 1 .. Held(r) + n /\ ~(i <= ts) /\ bo + (i - ts) - 1 = bo + i - 1
          /\ bo + i - 1 \in Cells /\ bo + i - 1 < bo + bs
      BY <1>1, <1>2, <1>3, <2>1
    <3>2. mem'[bo + i - 1] = mem[bo + i - 1]
      BY <2>2, <2>3, <3>1, UnwrittenAt
    <3>3. QED
      BY <1>4, <2>4, <3>1, <3>2
  <2>6. ASSUME NEW j \in 1 .. n
        PROVE  SampleAt(ring', mem', Held(r) + j) = PacketSample(p, j)
    <3>1. /\ Held(r) + j \in 1 .. Held(r) + n
          /\ bo + (Held(r) + j) - 1 = (bo + bs) + j - 1
      BY <1>1, <2>1
    <3>2. mem'[(bo + bs) + j - 1] = PacketSample(p, j)
      <4>1. HasPacket(mem', (bo + bs), p, n)
        BY <2>2, <2>3, WrittenAt
      <4>2. QED
        BY <4>1 DEF HasPacket
    <3>3. QED
      BY <2>4, <3>1, <3>2
  <2>7. QED
    BY <1>1, <2>1, <2>3, <2>5, <2>6 DEF Appends, Held, HasWritten
<1>6. CASE WrapBelow(r, p, n)
  <2>1. /\ ts = 0 /\ bo >= n
        /\ ring'.topSize = bs /\ ring'.topOffset = bo
        /\ ring'.bottomSize = n /\ ring'.bottomOffset = 0
        /\ ring'.committed = r.committed
        /\ mem' = Write(mem, 0, p, n)
    BY <1>6 DEF WrapBelow, RingOf, to, ts, bo, bs
  <2>2. 0 \in Nat /\ 0 + n <= Capacity
    BY <1>1, <1>2, <2>1
  <2>3. HasWritten(mem', mem, 0, p, n)
    BY <1>2, <2>1, <2>2, WriteFacts
  <2>4. \A i \in 1 .. Held(r) + n : SampleAt(ring', mem', i)
           = IF i <= bs THEN mem'[bo + i - 1] ELSE mem'[0 + (i - bs) - 1]
    BY <1>1, <2>1 DEF SampleAt
  <2>5. ASSUME NEW i \in 1 .. Held(r)
        PROVE  SampleAt(ring', mem', i) = SampleAt(r, mem, i)
    <3>1. /\ i \in 1 .. Held(r) + n /\ i <= bs
          /\ ~(i <= ts) /\ bo + (i - ts) - 1 = bo + i - 1
          /\ bo + i - 1 \in Cells /\ bo + i - 1 >= 0 + n
      BY <1>1, <1>2, <1>3, <2>1
    <3>2. mem'[bo + i - 1] = mem[bo + i - 1]
      BY <2>2, <2>3, <3>1, UnwrittenAt
    <3>3. QED
      BY <1>4, <2>4, <3>1, <3>2
  <2>6. ASSUME NEW j \in 1 .. n
        PROVE  SampleAt(ring', mem', Held(r) + j) = PacketSample(p, j)
    <3>1. /\ Held(r) + j \in 1 .. Held(r) + n /\ ~(Held(r) + j <= bs)
          /\ 0 + ((Held(r) + j) - bs) - 1 = 0 + j - 1
      BY <1>1, <2>1
    <3>2. mem'[0 + j - 1] = PacketSample(p, j)
      <4>1. HasPacket(mem', 0, p, n)
        BY <2>2, <2>3, WrittenAt
      <4>2. QED
        BY <4>1 DEF HasPacket
    <3>3. QED
      BY <2>4, <3>1, <3>2
  <2>7. QED
    BY <1>1, <2>1, <2>3, <2>5, <2>6 DEF Appends, Held, HasWritten
<1>7. CASE SlideDown(r, p, n)
  <2> DEFINE mm == Memmove(mem, 0, bo, bs)
  <2>1. /\ ts = 0
        /\ ring'.topSize = 0 /\ ring'.bottomOffset = 0
        /\ ring'.bottomSize = bs + n /\ ring'.committed = r.committed
        /\ mem' = Write(mm, bs, p, n)
    BY <1>7 DEF SlideDown, RingOf, to, ts, bo, bs
  <2>2. HasMoved(mm, mem, 0, bo, bs) /\ mm \in SampleMemory
    BY <1>1, <1>2, MemmoveFacts DEF HasMoved
  <2> HIDE DEF mm
  <2>3. bs + n <= Capacity /\ 0 + bs <= Capacity
    BY <1>1, <1>2, <2>1
  <2>4. HasWritten(mem', mm, bs, p, n)
    BY <1>1, <2>1, <2>2, WriteFacts
  <2>5. \A i \in 1 .. Held(r) + n : SampleAt(ring', mem', i) = mem'[0 + i - 1]
    BY <1>1, <2>1 DEF SampleAt
  <2>6. ASSUME NEW i \in 1 .. Held(r)
        PROVE  SampleAt(ring', mem', i) = SampleAt(r, mem, i)
    <3>1. /\ i \in 1 .. Held(r) + n /\ i \in 1 .. bs
          /\ ~(i <= ts) /\ bo + (i - ts) - 1 = bo + i - 1
          /\ 0 + i - 1 \in Cells /\ 0 + i - 1 < bs
      BY <1>1, <1>2, <1>3, <2>1
    <3>2. mem'[0 + i - 1] = mm[0 + i - 1]
      BY <1>1, <2>4, <3>1, UnwrittenAt
    <3>3. mm[0 + i - 1] = mem[bo + i - 1]
      BY <1>1, <2>2, <2>3, <3>1, MovedAt
    <3>4. QED
      BY <1>4, <2>5, <3>1, <3>2, <3>3
  <2>7. ASSUME NEW j \in 1 .. n
        PROVE  SampleAt(ring', mem', Held(r) + j) = PacketSample(p, j)
    <3>1. /\ Held(r) + j \in 1 .. Held(r) + n
          /\ 0 + (Held(r) + j) - 1 = bs + j - 1
      BY <1>1, <2>1
    <3>2. mem'[bs + j - 1] = PacketSample(p, j)
      <4>1. HasPacket(mem', bs, p, n)
        BY <1>1, <2>3, <2>4, WrittenAt
      <4>2. QED
        BY <4>1 DEF HasPacket
    <3>3. QED
      BY <2>5, <3>1, <3>2
  <2>8. QED
    BY <1>1, <2>1, <2>4, <2>6, <2>7 DEF Appends, Held, HasWritten
<1>8. CASE AppendInGap(r, p, n) /\ ~(GapBetween(r) < n)
  <2>1. /\ ts > 0 /\ to - bo - bs >= n
        /\ ring'.topSize = ts /\ ring'.topOffset = to
        /\ ring'.bottomOffset = bo
        /\ ring'.bottomSize = bs + n /\ ring'.committed = r.committed
        /\ mem' = Write(mem, bo + bs, p, n)
    BY <1>1, <1>8 DEF AppendInGap, GapBetween, RingOf, to, ts, bo, bs
  <2>2. /\ bo + bs \in Nat /\ bo + bs + n <= to /\ bo + bs + n <= Capacity
    BY <1>1, <1>2, <2>1
  <2>3. HasWritten(mem', mem, bo + bs, p, n)
    BY <1>2, <2>1, <2>2, WriteFacts
  <2>4. \A i \in 1 .. Held(r) + n : SampleAt(ring', mem', i)
           = IF i <= ts THEN mem'[to + i - 1] ELSE mem'[bo + (i - ts) - 1]
    BY <1>1, <2>1 DEF SampleAt
  <2>5. ASSUME NEW i \in 1 .. Held(r)
        PROVE  SampleAt(ring', mem', i) = SampleAt(r, mem, i)
    <3>1. i \in 1 .. Held(r) + n
      BY <1>1
    <3>2. CASE i <= ts
      <4>1. to + i - 1 \in Cells /\ to + i - 1 >= bo + bs + n
        BY <1>1, <1>2, <1>3, <2>2, <3>2
      <4>2. mem'[to + i - 1] = mem[to + i - 1]
        BY <2>2, <2>3, <4>1, UnwrittenAt
      <4>3. QED
        BY <1>4, <2>4, <3>1, <3>2, <4>2
    <3>3. CASE ~(i <= ts)
      <4>1. bo + (i - ts) - 1 \in Cells /\ bo + (i - ts) - 1 < bo + bs
        BY <1>1, <1>2, <1>3, <2>1, <3>3
      <4>2. mem'[bo + (i - ts) - 1] = mem[bo + (i - ts) - 1]
        BY <2>2, <2>3, <4>1, UnwrittenAt
      <4>3. QED
        BY <1>4, <2>4, <3>1, <3>3, <4>2
    <3>4. QED
      BY <3>2, <3>3
  <2>6. ASSUME NEW j \in 1 .. n
        PROVE  SampleAt(ring', mem', Held(r) + j) = PacketSample(p, j)
    <3>1. /\ Held(r) + j \in 1 .. Held(r) + n /\ ~(Held(r) + j <= ts)
          /\ bo + ((Held(r) + j) - ts) - 1 = (bo + bs) + j - 1
      BY <1>1
    <3>2. mem'[(bo + bs) + j - 1] = PacketSample(p, j)
      <4>1. HasPacket(mem', (bo + bs), p, n)
        BY <2>2, <2>3, WrittenAt
      <4>2. QED
        BY <4>1 DEF HasPacket
    <3>3. QED
      BY <2>4, <3>1, <3>2
  <2>7. QED
    BY <1>1, <2>1, <2>3, <2>5, <2>6 DEF Appends, Held, HasWritten
<1>9. CASE SpreadApart(r, p, n)
  <2> DEFINE top == Capacity - ts
             low == Memmove(mem, 0, bo, bs)
             mm  == Memmove(low, top, to, ts)
  <2>1. /\ ts > 0 /\ to - bo - bs = 0
        /\ ring'.topSize = ts /\ ring'.topOffset = top
        /\ ring'.bottomOffset = 0
        /\ ring'.bottomSize = bs + n /\ ring'.committed = r.committed
        /\ mem' = Write(mm, bs, p, n)
    BY <1>9 DEF SpreadApart, GapBetween, RingOf, to, ts, bo, bs
  <2>2. HasMoved(low, mem, 0, bo, bs) /\ low \in SampleMemory
    BY <1>1, <1>2, MemmoveFacts DEF HasMoved
  <2> HIDE DEF low
  <2>3. /\ top \in Nat /\ top + ts = Capacity /\ bs + n <= top
        /\ bo = 0 /\ to = bs /\ bs + n <= Capacity /\ 0 + bs <= Capacity
    BY <1>1, <1>2, <2>1
  <2> HIDE DEF top
  <2>4. HasMoved(mm, low, top, to, ts) /\ mm \in SampleMemory
    <3>1. HasMoved(mm, low, top, to, ts)
      BY <1>1, <2>2, <2>3, MemmoveFacts
    <3>2. QED
      BY <3>1 DEF HasMoved
  <2> HIDE DEF mm
  <2>5. HasWritten(mem', mm, bs, p, n)
    BY <1>1, <2>1, <2>4, WriteFacts
  <2>6. \A i \in 1 .. Held(r) + n : SampleAt(ring', mem', i)
           = IF i <= ts THEN mem'[top + i - 1] ELSE mem'[0 + (i - ts) - 1]
    BY <1>1, <2>1 DEF SampleAt
  <2>7. ASSUME NEW i \in 1 .. Held(r)
        PROVE  SampleAt(ring', mem', i) = SampleAt(r, mem, i)
    <3>1. i \in 1 .. Held(r) + n
      BY <1>1
    <3>2. CASE i <= ts
      <4>1. /\ i \in 1 .. ts
            /\ top + i - 1 \in Cells /\ top + i - 1 >= bs + n
            /\ to + i - 1 \in Cells /\ to + i - 1 >= 0 + bs
            /\ top + ts <= Capacity
        BY <1>1, <1>2, <1>3, <2>1, <2>3, <3>2
      <4>2. mem'[top + i - 1] = mm[top + i - 1]
        BY <1>1, <2>5, <4>1, UnwrittenAt
      <4>3. mm[top + i - 1] = low[to + i - 1]
        BY <1>1, <2>3, <2>4, <4>1, MovedAt
      <4>4. low[to + i - 1] = mem[to + i - 1]
        BY <1>1, <2>2, <4>1, UnmovedAt
      <4>5. QED
        BY <1>4, <2>6, <3>1, <3>2, <4>2, <4>3, <4>4
    <3>3. CASE ~(i <= ts)
      <4>1. /\ i - ts \in 1 .. bs
            /\ 0 + (i - ts) - 1 \in Cells /\ 0 + (i - ts) - 1 < bs
            /\ 0 + (i - ts) - 1 < top
        BY <1>1, <1>2, <1>3, <2>1, <2>3, <3>3
      <4>2. mem'[0 + (i - ts) - 1] = mm[0 + (i - ts) - 1]
        BY <1>1, <2>5, <4>1, UnwrittenAt
      <4>3. mm[0 + (i - ts) - 1] = low[0 + (i - ts) - 1]
        BY <1>1, <2>3, <2>4, <4>1, UnmovedAt
      <4>4. low[0 + (i - ts) - 1] = mem[bo + (i - ts) - 1]
        <5>1. \A k \in 1 .. bs : low[0 + k - 1] = mem[bo + k - 1]
          BY <1>1, <2>2, <2>3, MovedAt
        <5>2. QED
          BY <4>1, <5>1
      <4>5. QED
        BY <1>4, <2>6, <3>1, <3>3, <4>2, <4>3, <4>4
    <3>4. QED
      BY <3>2, <3>3
  <2>8. ASSUME NEW j \in 1 .. n
        PROVE  SampleAt(ring', mem', Held(r) + j) = PacketSample(p, j)
    <3>1. /\ Held(r) + j \in 1 .. Held(r) + n /\ ~(Held(r) + j <= ts)
          /\ 0 + ((Held(r) + j) - ts) - 1 = bs + j - 1
      BY <1>1
    <3>2. mem'[bs + j - 1] = PacketSample(p, j)
      <4>1. HasPacket(mem', bs, p, n)
        BY <1>1, <2>3, <2>5, WrittenAt
      <4>2. QED
        BY <4>1 DEF HasPacket
    <3>3. QED
      BY <2>6, <3>1, <3>2
  <2>9. QED
    BY <1>1, <2>1, <2>5, <2>7, <2>8 DEF Appends, Held, HasWritten
<1>10. QED
  BY <1>5, <1>6, <1>7, <1>8, <1>9

\* Whatever is placed, and wherever, the memory holds samples.
LEMMA PlacementMemory ==
    ASSUME MemInv, NEW r \in Ring, NEW n \in Nat, NEW p \in Packets, Bounded(r),
           Held(r) + n <= Capacity,
           \/ AppendAfter(r, p, n)
           \/ WrapBelow(r, p, n)
           \/ SlideDown(r, p, n)
           \/ AppendInGap(r, p, n)
           \/ SpreadApart(r, p, n)
    PROVE  MemInv'
<1>1. /\ r.topOffset \in Nat /\ r.topSize \in Nat /\ r.bottomOffset \in Nat
      /\ r.bottomSize \in Nat /\ r.bottomOffset + r.bottomSize \in Nat
      /\ r.topOffset + r.topSize <= Capacity
      /\ r.bottomOffset + r.bottomSize <= Capacity
      /\ Capacity - r.topSize \in Nat
      /\ 0 \in Nat
  BY CapacityAssumption DEF Ring, Bounded
<1>2. ASSUME NEW m \in SampleMemory, NEW at \in Nat
      PROVE  Write(m, at, p, n) \in SampleMemory
  BY WriteFacts DEF HasWritten
<1>3. ASSUME NEW m \in SampleMemory, NEW to \in Nat, NEW from \in Nat,
             NEW k \in Nat, from + k <= Capacity
      PROVE  Memmove(m, to, from, k) \in SampleMemory
  BY <1>3, MemmoveFacts DEF HasMoved
<1>4. CASE AppendAfter(r, p, n)
  BY <1>1, <1>2, <1>4 DEF AppendAfter, MemInv
<1>5. CASE WrapBelow(r, p, n)
  BY <1>1, <1>2, <1>5 DEF WrapBelow, MemInv
<1>6. CASE SlideDown(r, p, n)
  <2>1. Memmove(mem, 0, r.bottomOffset, r.bottomSize) \in SampleMemory
    BY <1>1, <1>3 DEF MemInv
  <2>2. QED
    BY <1>1, <1>2, <1>6, <2>1 DEF SlideDown, MemInv
<1>7. CASE AppendInGap(r, p, n)
  BY <1>1, <1>2, <1>7 DEF AppendInGap, MemInv
<1>8. CASE SpreadApart(r, p, n)
  <2> DEFINE low == Memmove(mem, 0, r.bottomOffset, r.bottomSize)
             top == Capacity - r.topSize
             mm  == Memmove(low, top, r.topOffset, r.topSize)
  <2>1. low \in SampleMemory
    BY <1>1, <1>3 DEF MemInv
  <2> HIDE DEF low
  <2>2. mm \in SampleMemory
    BY <1>1, <1>3, <2>1
  <2>3. mem' = Write(mm, r.bottomSize, p, n)
    BY <1>8 DEF SpreadApart, low
  <2> HIDE DEF mm
  <2>4. QED
    BY <1>1, <1>2, <2>2, <2>3 DEF MemInv
<1>9. QED
  BY <1>4, <1>5, <1>6, <1>7, <1>8

LEMMA PacketSamplesFacts ==
    ASSUME NEW p \in Packets, NEW n \in Nat
    PROVE  /\ Fifo!PacketSamples(p, n) \in Seq(Samples)
           /\ Len(Fifo!PacketSamples(p, n)) = n
           /\ \A j \in 1 .. n : Fifo!PacketSamples(p, n)[j] = PacketSample(p, j)
<1> DEFINE u == Fifo!PacketSamples(p, n)
<1>1. u \in [1 .. n -> Samples] /\ \A j \in 1 .. n : u[j] = <<p, j>>
  BY DEF Fifo!PacketSamples, Samples
<1> HIDE DEF u
<1>2. u \in Seq(Samples)
  BY <1>1
<1>3. Len(u) = n
  BY <1>1, <1>2, LenProperties
<1>4. QED
  BY <1>1, <1>2, <1>3 DEF u, PacketSample

\* A step that appends a packet to r appends it to the samples held.
LEMMA AppendsContents ==
    ASSUME MemInv, NEW r \in Ring, NEW n \in Nat, NEW p \in Packets, Bounded(r),
           ring' \in Ring, Bounded(ring'), Appends(r, p, n)
    PROVE  Contents' = ContentsOf(r, mem) \o Fifo!PacketSamples(p, n)
<1> DEFINE q == ContentsOf(r, mem)
           t == Fifo!PacketSamples(p, n)
           u == ContentsOf(ring', mem')
<1>1. /\ q \in Seq(Samples) /\ Len(q) = Held(r) /\ Held(r) \in Nat
      /\ \A i \in 1 .. Held(r) : q[i] = SampleAt(r, mem, i)
  BY ContentsFacts DEF MemInv
<1>2. /\ u \in Seq(Samples) /\ Len(u) = Held(r) + n
      /\ \A i \in 1 .. Held(r) + n : u[i] = SampleAt(ring', mem', i)
  <2>1. mem' \in SampleMemory /\ Held(ring') = Held(r) + n
    BY DEF Appends
  <2>2. /\ u \in Seq(Samples) /\ Len(u) = Held(ring')
        /\ \A i \in 1 .. Held(ring') : u[i] = SampleAt(ring', mem', i)
    BY <2>1, ContentsFacts
  <2>3. QED
    BY <2>1, <2>2
<1>3. /\ t \in Seq(Samples) /\ Len(t) = n
      /\ \A j \in 1 .. n : t[j] = PacketSample(p, j)
  BY PacketSamplesFacts
<1>4. Contents' = u
  BY DEF Contents, ContentsOf
<1> HIDE DEF q, t, u
<1>5. /\ q \o t \in Seq(Samples) /\ Len(q \o t) = Held(r) + n
      /\ \A i \in 1 .. Held(r) + n :
            (q \o t)[i] = IF i <= Held(r) THEN q[i] ELSE t[i - Held(r)]
  <2>1. /\ q \o t \in Seq(Samples) /\ Len(q \o t) = Len(q) + Len(t)
        /\ \A i \in 1 .. Len(q) + Len(t) :
              (q \o t)[i] = IF i <= Len(q) THEN q[i] ELSE t[i - Len(q)]
    BY <1>1, <1>3, ConcatProperties
  <2>2. QED
    BY <1>1, <1>3, <2>1
<1>6. ASSUME NEW i \in 1 .. Held(r) + n
      PROVE  u[i] = (q \o t)[i]
  <2>1. CASE i <= Held(r)
    <3>1. i \in 1 .. Held(r)
      BY <1>1, <2>1
    <3>2. SampleAt(ring', mem', i) = SampleAt(r, mem, i)
      BY <3>1 DEF Appends
    <3>3. QED
      BY <1>1, <1>2, <1>5, <2>1, <3>1, <3>2
  <2>2. CASE ~(i <= Held(r))
    <3>1. i - Held(r) \in 1 .. n /\ Held(r) + (i - Held(r)) = i
      BY <1>1, <2>2
    <3>2. SampleAt(ring', mem', Held(r) + (i - Held(r)))
            = PacketSample(p, i - Held(r))
      BY <3>1 DEF Appends
    <3>3. QED
      BY <1>2, <1>3, <1>5, <2>2, <3>1, <3>2
  <2>3. QED
    BY <2>1, <2>2
<1>7. u = q \o t
  BY <1>2, <1>5, <1>6, SeqEqual
<1>8. QED
  BY <1>4, <1>7 DEF q, t

\* Which step of the queue each call is.
LEMMA ReserveIsFifo ==
    ASSUME BufferTypeOK, RingInv, MemInv,
           NEW p \in Packets, NEW n \in ReserveSizes,
           ReserveNewContiguous(p, n), ~NarrowGapReserve
    PROVE  Fifo!Reserve(p, n)
<1> DEFINE r == MadeRoom(ring, n)
           d == NumDropped(ring, n)
           q == ContentsOf(ring, mem)
<1>1. n \in Nat /\ n <= Capacity /\ ring \in Ring /\ Bounded(ring)
      /\ mem \in SampleMemory
  BY SizesAssumption DEF ReserveNewContiguous, BufferTypeOK, RingInv, MemInv
<1>2. /\ r \in Ring /\ Bounded(r) /\ Held(r) + n <= Capacity
  BY <1>1, MadeRoomFacts
<1>3. /\ d \in Nat /\ d = Monus(Held(ring) + n, Capacity)
      /\ ContentsOf(r, mem) = SubSeq(q, d + 1, Len(q))
      /\ r.committed \in Nat /\ r.committed <= Monus(ring.committed, d)
  BY <1>1, MadeRoomContents
<1>4. Contents = q /\ Len(q) = Held(ring)
  <2>1. Contents = q
    BY DEF Contents, ContentsOf
  <2>2. Len(q) = Held(ring)
    BY <1>1, ContentsFacts
  <2>3. QED
    BY <2>1, <2>2
<1>5. \/ AppendAfter(r, p, n)
      \/ WrapBelow(r, p, n)
      \/ SlideDown(r, p, n)
      \/ AppendInGap(r, p, n)
      \/ SpreadApart(r, p, n)
  BY DEF ReserveNewContiguous
<1>6. ~(r.topSize > 0 /\ GapBetween(r) # 0 /\ GapBetween(r) < n)
  BY DEF NarrowGapReserve, NarrowGap
<1>7. output' = <<>>
  BY DEF ReserveNewContiguous
<1> HIDE DEF r, d, q
<1>8. ring' \in Ring /\ Bounded(ring')
  BY <1>1, <1>2, <1>5, PlacementFacts
<1>9. Appends(r, p, n)
  <2>1. AppendInGap(r, p, n) => ~(GapBetween(r) < n)
    BY <1>6 DEF AppendInGap
  <2>2. QED
    BY <1>1, <1>2, <1>5, <2>1, PlacementAppends
<1>10. Contents' = ContentsOf(r, mem) \o Fifo!PacketSamples(p, n)
  BY <1>1, <1>2, <1>8, <1>9, AppendsContents
<1>11. ring'.committed = r.committed
  BY <1>9 DEF Appends
<1>12. Monus(Len(Contents) + n, Capacity) = d
  BY <1>3, <1>4
<1>13. ContentsOf(r, mem) = Fifo!AllButOldest(d)
  BY <1>3, <1>4 DEF Fifo!AllButOldest
<1>14. ring'.committed \in 0 .. Monus(ring.committed, d)
  <2>1. Monus(ring.committed, d) \in Nat
    BY <1>1, <1>3 DEF Monus, Ring
  <2>2. QED
    BY <1>3, <1>11, <2>1
<1>15. QED
  BY <1>1, <1>7, <1>10, <1>12, <1>13, <1>14 DEF Fifo!Reserve, Fifo!Monus, Monus

LEMMA CommitIsFifo ==
    ASSUME BufferTypeOK, RingInv, MemInv, CommitSamples
    PROVE  Fifo!Commit
<1>1. /\ ring' = WithCommitted(ring, Held(ring)) /\ mem' = mem /\ output' = <<>>
  BY DEF CommitSamples
<1>2. Contents' = Contents /\ ring'.committed = Held(ring)
  BY <1>1 DEF Contents, WithCommitted, RingOf
<1>3. Len(Contents) = Held(ring)
  <2>1. Contents = ContentsOf(ring, mem)
    BY DEF Contents, ContentsOf
  <2>2. QED
    BY <2>1, ContentsFacts DEF BufferTypeOK, RingInv, MemInv
<1>4. QED
  BY <1>1, <1>2, <1>3 DEF Fifo!Commit

LEMMA SkipIsFifo ==
    ASSUME BufferTypeOK, RingInv, MemInv, NEW k \in Nat, Skip(k)
    PROVE  Fifo!Skip(k)
<1> DEFINE q == ContentsOf(ring, mem)
           n == IF k > Len(q) THEN Len(q) ELSE k
           c == Monus(ring.committed, k)
<1>1. /\ ring \in Ring /\ Bounded(ring) /\ mem \in SampleMemory
      /\ q \in Seq(Samples) /\ Len(q) = Held(ring) /\ Held(ring) \in Nat
      /\ ring.committed \in Nat /\ ring.committed <= Held(ring)
  BY ContentsFacts DEF BufferTypeOK, RingInv, MemInv, Ring, Bounded
<1>2. /\ ring' = Advance(ring, k, c) /\ mem' = mem /\ output' = <<>>
  BY DEF Skip, SkipSamples
<1>3. c \in Nat /\ c <= Monus(Held(ring), k)
  BY <1>1 DEF Monus
<1>4. Contents = q /\ Contents' = ContentsOf(Advance(ring, k, c), mem)
  BY <1>2 DEF Contents, ContentsOf
<1>5. ring'.committed = c
  BY <1>2 DEF Advance, RingOf
<1> HIDE DEF c
<1>6. ContentsOf(Advance(ring, k, c), mem) = SubSeq(q, k + 1, Len(q))
  BY <1>1, <1>3, AdvanceContents
<1> HIDE DEF q
<1>7. SubSeq(q, k + 1, Len(q)) = SubSeq(q, n + 1, Len(q))
  <2>1. CASE k > Len(q)
    <3>1. n = Len(q) /\ Monus(Len(q), k) = 0 /\ Monus(Len(q), Len(q)) = 0
      BY <1>1, <2>1 DEF Monus
    <3> DEFINE u == SubSeq(q, k + 1, Len(q))
               v == SubSeq(q, Len(q) + 1, Len(q))
    <3>2. u \in Seq(Samples) /\ Len(u) = 0
      BY <1>1, <3>1, RestFacts
    <3>3. v \in Seq(Samples) /\ Len(v) = 0
      BY <1>1, <3>1, RestFacts
    <3>4. u = v
      <4> HIDE DEF u, v
      <4>1. \A i \in 1 .. Len(u) : u[i] = v[i]
        BY <3>2
      <4>2. QED
        BY <3>2, <3>3, <4>1, SeqEqual
    <3>5. QED
      BY <3>1, <3>4
  <2>2. CASE ~(k > Len(q))
    BY <2>2
  <2>3. QED
    BY <2>1, <2>2
<1>8. QED
  BY <1>2, <1>4, <1>5, <1>6, <1>7
  DEF Fifo!Skip, Fifo!AllButOldest, Fifo!Monus, Monus, c

LEMMA ClearAllIsFifo ==
    ASSUME BufferTypeOK, MemInv, ClearAll
    PROVE  Fifo!ClearAll
<1>1. /\ ring' = RingOf(ring.topOffset, 0, ring.bottomOffset, 0, 0)
      /\ output' = <<>>
  BY DEF ClearAll
<1>2. /\ ring'.topSize = 0 /\ ring'.bottomSize = 0 /\ ring'.committed = 0
  BY <1>1 DEF RingOf
<1>3. Contents' = Chunk(mem', ring'.topOffset, 0)
                    \o Chunk(mem', ring'.bottomOffset, 0)
  BY <1>2 DEF Contents
<1>4. ASSUME NEW m, NEW at
      PROVE  Chunk(m, at, 0) = <<>>
  <2>1. Chunk(m, at, 0) = [i \in 1 .. 0 |-> m[at + i - 1]]
    BY DEF Chunk
  <2>2. 1 .. 0 = {}
    OBVIOUS
  <2>3. QED
    BY <2>1, <2>2
<1>5. Contents' = <<>> \o <<>>
  BY <1>3, <1>4
<1>6. Contents' = <<>>
  BY <1>5
<1>7. QED
  BY <1>1, <1>2, <1>6 DEF Fifo!ClearAll

\* What a read copies out, top first, is the oldest samples.
LEMMA OldestSamples ==
    ASSUME NEW r \in Ring, Bounded(r), NEW m \in SampleMemory, NEW n \in Nat,
           n <= Held(r),
           NEW k \in Nat, k = IF r.topSize >= n THEN n ELSE r.topSize
    PROVE  Chunk(m, r.topOffset, k) \o Chunk(m, r.bottomOffset, n - k)
             = SubSeq(ContentsOf(r, m), 1, n)
<1> DEFINE t == Chunk(m, r.topOffset, k)
           b == Chunk(m, r.bottomOffset, n - k)
           q == ContentsOf(r, m)
           s == SubSeq(q, 1, n)
<1>1. /\ r.topSize \in Nat /\ r.bottomSize \in Nat /\ r.topOffset \in Nat
      /\ r.bottomOffset \in Nat
      /\ Held(r) = r.topSize + r.bottomSize
      /\ r.topOffset + r.topSize <= Capacity
      /\ r.bottomOffset + r.bottomSize <= Capacity
      /\ Capacity \in Nat
  BY CapacityAssumption DEF Ring, Held, Bounded
<1>2. /\ k <= r.topSize /\ k <= n /\ n - k \in Nat /\ n - k <= r.bottomSize
      /\ (n - k > 0 => k = r.topSize)
  BY <1>1
<1>3. /\ t \in Seq(Samples) /\ Len(t) = k
      /\ \A i \in 1 .. k : t[i] = m[r.topOffset + i - 1]
  <2>1. r.topOffset + k <= Capacity
    BY <1>1, <1>2
  <2>2. QED
    BY <1>1, <2>1, ChunkFacts
<1>4. /\ b \in Seq(Samples) /\ Len(b) = n - k
      /\ \A i \in 1 .. n - k : b[i] = m[r.bottomOffset + i - 1]
  <2> DEFINE d == n - k
  <2>1. d \in Nat /\ r.bottomOffset + d <= Capacity
    BY <1>1, <1>2
  <2> HIDE DEF d
  <2>2. /\ Chunk(m, r.bottomOffset, d) \in Seq(Samples)
        /\ Len(Chunk(m, r.bottomOffset, d)) = d
        /\ \A i \in 1 .. d :
              Chunk(m, r.bottomOffset, d)[i] = m[r.bottomOffset + i - 1]
    BY <1>1, <2>1, ChunkFacts
  <2>3. QED
    BY <2>2 DEF d
<1>5. /\ q \in Seq(Samples) /\ Len(q) = Held(r)
      /\ \A i \in 1 .. Held(r) : q[i] = SampleAt(r, m, i)
  BY ContentsFacts
<1> HIDE DEF t, b, q
<1>6. /\ t \o b \in Seq(Samples) /\ Len(t \o b) = n
      /\ \A i \in 1 .. n : (t \o b)[i] = IF i <= k THEN t[i] ELSE b[i - k]
  <2>1. /\ t \o b \in Seq(Samples) /\ Len(t \o b) = Len(t) + Len(b)
        /\ \A i \in 1 .. Len(t) + Len(b) :
              (t \o b)[i] = IF i <= Len(t) THEN t[i] ELSE b[i - Len(t)]
    BY <1>3, <1>4, ConcatProperties
  <2>2. k + (n - k) = n
    BY <1>2
  <2>3. QED
    BY <1>3, <1>4, <2>1, <2>2
<1>7. /\ s \in Seq(Samples) /\ Len(s) = n
      /\ \A i \in 1 .. n : s[i] = q[i]
  <2>1. \A i \in 1 .. n : q[i] \in Samples
    BY <1>1, <1>5, ElementOfSeq
  <2>2. /\ s \in Seq(Samples) /\ Len(s) = IF 1 <= n THEN n - 1 + 1 ELSE 0
        /\ \A i \in 1 .. n - 1 + 1 : s[i] = q[1 + i - 1]
    BY <1>5, <2>1, SubSeqProperties
  <2>3. /\ (IF 1 <= n THEN n - 1 + 1 ELSE 0) = n /\ n - 1 + 1 = n
        /\ \A i \in 1 .. n : 1 + i - 1 = i
    OBVIOUS
  <2> HIDE DEF s
  <2>4. QED
    BY <2>2, <2>3
<1> HIDE DEF s
<1>8. ASSUME NEW i \in 1 .. n
      PROVE  (t \o b)[i] = s[i]
  <2>1. i \in 1 .. Held(r)
    BY <1>1
  <2>2. s[i] = SampleAt(r, m, i)
    BY <1>5, <1>7, <2>1
  <2>3. CASE i <= k
    <3>1. i \in 1 .. k /\ i <= r.topSize
      BY <1>1, <1>2, <2>3
    <3>2. QED
      BY <1>3, <1>6, <2>2, <2>3, <3>1 DEF SampleAt
  <2>4. CASE ~(i <= k)
    <3>1. i - k \in 1 .. n - k /\ k = r.topSize /\ ~(i <= r.topSize)
      BY <1>1, <1>2, <2>4
    <3>2. (t \o b)[i] = m[r.bottomOffset + (i - k) - 1]
      BY <1>4, <1>6, <2>4, <3>1
    <3>3. QED
      BY <2>2, <3>1, <3>2 DEF SampleAt
  <2>5. QED
    BY <2>3, <2>4
<1>9. t \o b = s
  BY <1>6, <1>7, <1>8, SeqEqual
<1>10. QED
  BY <1>9 DEF t, b, q, s

LEMMA ReadIsFifo ==
    ASSUME BufferTypeOK, RingInv, MemInv, NEW k \in ReadSizes,
           ReadCommittedSamples(k)
    PROVE  Fifo!Read(k)
<1> DEFINE n == IF k > ring.committed THEN ring.committed ELSE k
           f == IF ring.topSize >= n THEN n ELSE ring.topSize
           q == ContentsOf(ring, mem)
<1>1. /\ ring \in Ring /\ Bounded(ring) /\ mem \in SampleMemory /\ k \in Nat
      /\ Held(ring) \in Nat
      /\ ring.committed \in Nat /\ ring.committed <= Held(ring)
      /\ ring.topSize \in Nat
  BY SizesAssumption, ContentsFacts
  DEF BufferTypeOK, RingInv, MemInv, Ring, Bounded
<1>2. /\ output' = Chunk(mem, ring.topOffset, f)
                     \o Chunk(mem, ring.bottomOffset, n - f)
      /\ ring' = Advance(ring, n, ring.committed - n)
      /\ mem' = mem
  BY DEF ReadCommittedSamples
<1>3. /\ n \in Nat /\ n <= Held(ring)
      /\ ring.committed - n \in Nat
      /\ ring.committed - n <= Monus(Held(ring), n)
  BY <1>1 DEF Monus
<1>4. f \in Nat
  BY <1>1, <1>3
<1>5. Contents = q /\ Contents' = ContentsOf(ring', mem)
  BY <1>2 DEF Contents, ContentsOf
<1>6. ring'.committed = ring.committed - n
  BY <1>2 DEF Advance, RingOf
<1>7. n = IF k > ring.committed THEN ring.committed ELSE k
  OBVIOUS
<1>8. f = IF ring.topSize >= n THEN n ELSE ring.topSize
  OBVIOUS
<1> HIDE DEF n, f
<1>9. ContentsOf(ring', mem) = SubSeq(q, n + 1, Len(q))
  BY <1>1, <1>2, <1>3, AdvanceContents
<1>10. output' = SubSeq(q, 1, n)
  BY <1>1, <1>2, <1>3, <1>4, <1>8, OldestSamples
<1> HIDE DEF q
<1>11. QED
  BY <1>5, <1>6, <1>7, <1>9, <1>10 DEF Fifo!Read, Fifo!Oldest, Fifo!AllButOldest

LEMMA StepActsOnAQueue ==
    ASSUME BufferTypeOK, RingInv, MemInv, [BufferNext]_bufferVars
    PROVE  /\ MemInv'
           /\ [NarrowGapReserve \/ [Fifo!Next]_(Fifo!fifoVars)]_bufferVars
<1>1. ASSUME NEW p \in Packets, NEW n \in ReserveSizes,
             ReserveNewContiguous(p, n)
      PROVE  MemInv' /\ (NarrowGapReserve \/ Fifo!Next)
  <2> DEFINE r == MadeRoom(ring, n)
  <2>1. n \in Nat /\ n <= Capacity /\ ring \in Ring /\ Bounded(ring)
    BY <1>1, SizesAssumption DEF ReserveNewContiguous, BufferTypeOK, RingInv
  <2>2. r \in Ring /\ Bounded(r) /\ Held(r) + n <= Capacity
    BY <2>1, MadeRoomFacts
  <2>3. \/ AppendAfter(r, p, n)
        \/ WrapBelow(r, p, n)
        \/ SlideDown(r, p, n)
        \/ AppendInGap(r, p, n)
        \/ SpreadApart(r, p, n)
    BY <1>1 DEF ReserveNewContiguous
  <2> HIDE DEF r
  <2>4. MemInv'
    BY <2>1, <2>2, <2>3, PlacementMemory
  <2>5. NarrowGapReserve \/ Fifo!Reserve(p, n)
    BY <1>1, ReserveIsFifo
  <2>6. QED
    BY <2>4, <2>5 DEF Fifo!Next
<1>2. CASE CommitSamples
  <2>1. MemInv' /\ Fifo!Commit
    BY <1>2, CommitIsFifo DEF CommitSamples, MemInv
  <2>2. QED
    BY <2>1 DEF Fifo!Next
<1>3. ASSUME NEW k \in ReadSizes, ReadCommittedSamples(k)
      PROVE  MemInv' /\ Fifo!Next
  <2>1. MemInv'
    BY <1>3 DEF ReadCommittedSamples, MemInv
  <2>2. Fifo!Read(k)
    BY <1>3, ReadIsFifo
  <2>3. QED
    BY <2>1, <2>2 DEF Fifo!Next
<1>4. ASSUME NEW k \in SkipSizes \cup {ring.committed}, Skip(k)
      PROVE  MemInv' /\ Fifo!Next
  <2>1. MemInv'
    BY <1>4 DEF Skip, MemInv
  <2>2. k \in Nat
    BY SizesAssumption DEF BufferTypeOK, Ring
  <2>3. Fifo!Skip(k)
    BY <1>4, <2>2, SkipIsFifo
  <2>4. QED
    BY <2>1, <2>3 DEF Fifo!Next
<1>5. CASE ClearAll
  <2>1. MemInv' /\ Fifo!ClearAll
    BY <1>5, ClearAllIsFifo DEF ClearAll, MemInv
  <2>2. QED
    BY <2>1 DEF Fifo!Next
<1>6. CASE UNCHANGED bufferVars
  BY <1>6 DEF bufferVars, MemInv
<1>7. QED
  BY <1>1, <1>2, <1>3, <1>4, <1>5, <1>6 DEF BufferNext, ClearCommittedSamples

\* Away from the narrow gap the ring is a queue: a reservation puts its packet
\* behind the samples held and deletes only the oldest, a read hands out the
\* oldest committed ones, and no move inside the memory changes any of them.
THEOREM CallsActOnAQueue == BufferSpec => StepIsFifo
<1>1. BufferInit => MemInv
  BY DEF BufferInit, MemInv, SampleMemory, Samples
<1>2. BufferTypeOK /\ RingInv /\ MemInv /\ [BufferNext]_bufferVars => MemInv'
  BY StepActsOnAQueue
<1>3. BufferSpec => [](BufferTypeOK /\ RingInv)
  BY TypeCorrect, MemorySafe, PTL
<1>4. BufferSpec => []MemInv
  BY <1>1, <1>2, <1>3, PTL DEF BufferSpec
<1>5. BufferTypeOK /\ RingInv /\ MemInv /\ [BufferNext]_bufferVars
        => [NarrowGapReserve \/ [Fifo!Next]_(Fifo!fifoVars)]_bufferVars
  BY StepActsOnAQueue
<1>6. QED
  BY <1>3, <1>4, <1>5, PTL DEF BufferSpec, StepIsFifo

-----------------------------------------------------------------------------
(***************************************************************************)
(* Audio synchronization.                                                  *)
(***************************************************************************)

\* Whole frames only are written, so a stream's length is a multiple of theirs.
WholeFrames(n) == \E q \in Nat : n = q * FrameSamples

\* Where the file has to end, in samples of a stream.
Target == TargetEndPeriod + Delay

\* A stream that has y samples gets frames in this turn.
Starts(y) == y + FrameSamples <= Target

\* A stream that had y samples has x after its turn.
Served(y, x) ==
    /\ WholeFrames(x)
    /\ IF Starts(y) THEN Target <= x /\ x < Target + FrameSamples ELSE x = y

\* The round of the muxer that began with y samples in every stream.
RoundFrom(y) ==
    /\ WholeFrames(y)
    /\ turn \in Streams =>
         /\ \A s \in Streams : s < turn => Served(y, sent[s])
         /\ \A s \in Streams : s > turn => sent[s] = y
         /\ ~copying => sent[turn] = y
         /\ copying => /\ Starts(y)
                       /\ WholeFrames(sent[turn])
                       /\ y < sent[turn]
                       /\ sent[turn] < Target + FrameSamples
    /\ turn \notin Streams => ~copying /\ \A s \in Streams : sent[s] = y

\* Streams are served in rounds, each like the others.
Rounds == \E y \in Nat : RoundFrom(y)

BuffersOK ==
    /\ enabled \subseteq Streams
    /\ held \in [Streams -> Seq(Int)]
    /\ committed \in [Streams -> Nat]
    /\ sent \in [Streams -> Nat]
    /\ due \in [Streams -> Nat]
    /\ synchronized \in BOOLEAN
    /\ audioPeriod \in Nat
    /\ videoPeriod \in Nat /\ videoPeriod <= MaxPeriods
    /\ turn # 1 => videoPeriod < MaxPeriods
    /\ turn \in 1 .. VideoTurn
    /\ copying \in BOOLEAN
    /\ spent \in [{"bad", "lost", "toggles"} -> Nat]
    /\ \A s \in Streams : /\ Len(held[s]) <= ReadAhead
                          /\ Len(held[s]) <= sent[s]
                          /\ committed[s] <= Len(held[s])
                          /\ s \notin enabled => held[s] = <<>>

Level == \A s, t \in Streams : sent[s] = sent[t]

\* Nothing was written since the last synchronization point.
AtPoint == Level /\ ~copying /\ turn # SyncTurn

PointInv ==
    AtPoint =>
      /\ \A s \in Streams : committed[s] = Len(held[s])
      /\ \/ audioPeriod = sent[1]
         \/ \A s \in Streams : held[s] = <<>>

CommitInv == \A s \in Streams : committed[s] <= audioPeriod

ClockInv == synchronized => \A s \in enabled : audioPeriod - committed[s] = due[s]

RecentInv ==
    spent.lost = 0 => \A s \in Streams : \A i \in 1 .. Len(held[s]) :
        held[s][i] = sent[s] - Delay - Len(held[s]) + i - 1

AccountInv ==
    synchronized /\ spent.lost = 0 => \A s \in enabled :
        Len(held[s]) - committed[s] = sent[s] - audioPeriod

PlaybackInv ==
    /\ BuffersOK
    /\ Rounds
    /\ PointInv
    /\ CommitInv
    /\ ClockInv
    /\ RecentInv
    /\ AccountInv

-----------------------------------------------------------------------------
(* Sequences and multiples.                                                *)

\* What is left when the oldest n are taken off.
LEMMA DropFacts ==
    ASSUME NEW h \in Seq(Int), NEW n \in Nat
    PROVE  /\ Drop(h, n) \in Seq(Int)
           /\ Len(Drop(h, n)) = Monus(Len(h), n)
           /\ \A i \in 1 .. Len(Drop(h, n)) : Drop(h, n)[i] = h[i + n]
<1>1. Len(h) \in Nat
  BY LenProperties
<1>2. CASE n < Len(h)
  BY <1>1, <1>2, SubSeqProperties DEF Drop, Monus
<1>3. CASE ~(n < Len(h))
  <2>1. Drop(h, n) = <<>>
    BY <1>1, <1>3, SubSeqProperties, EmptySeq DEF Drop
  <2>2. QED
    BY <1>1, <1>3, <2>1, EmptySeq DEF Monus
<1>4. QED
  BY <1>2, <1>3

\* A frame behind the samples held.
LEMMA AppendFacts ==
    ASSUME NEW h \in Seq(Int), NEW g \in Seq(Int)
    PROVE  /\ h \o g \in Seq(Int)
           /\ Len(h \o g) = Len(h) + Len(g)
           /\ \A i \in 1 .. Len(h) : (h \o g)[i] = h[i]
           /\ \A i \in 1 .. Len(g) : (h \o g)[Len(h) + i] = g[i]
BY ConcatProperties, LenProperties

\* Two lengths in whole frames that reach the same target are equal.
LEMMA SameFrames ==
    ASSUME NEW a \in Nat, NEW b \in Nat, NEW t \in Int,
           WholeFrames(a), WholeFrames(b),
           t <= a, a < t + FrameSamples, t <= b, b < t + FrameSamples
    PROVE  a = b
<1>1. PICK p \in Nat : a = p * FrameSamples
  BY DEF WholeFrames
<1>2. PICK q \in Nat : b = q * FrameSamples
  BY DEF WholeFrames
<1>3. FrameSamples \in Nat \ {0}
  BY AudioSyncAssumption
<1>4. ASSUME NEW m \in Nat, NEW n \in Nat, m < n
      PROVE  m * FrameSamples + FrameSamples <= n * FrameSamples
  <2>1. PICK d \in Nat : n = m + 1 + d
    <3>1. n - m - 1 \in Nat /\ n = m + 1 + (n - m - 1)
      BY <1>4
    <3>2. QED
      BY <3>1
  <2>2. n * FrameSamples = m * FrameSamples + FrameSamples + d * FrameSamples
    BY <1>3, <2>1
  <2>3. d * FrameSamples \in Nat /\ m * FrameSamples \in Nat
    BY <1>3
  <2>4. QED
    BY <1>3, <2>2, <2>3
<1>5. ~(p < q) /\ ~(q < p)
  <2>1. p * FrameSamples \in Nat /\ q * FrameSamples \in Nat
    BY <1>1, <1>2
  <2>2. ~(p < q)
    BY <1>1, <1>2, <1>3, <1>4, <2>1
  <2>3. ~(q < p)
    BY <1>1, <1>2, <1>3, <1>4, <2>1
  <2>4. QED
    BY <2>2, <2>3
<1>6. QED
  BY <1>1, <1>2, <1>5

LEMMA OneFrameMore ==
    ASSUME NEW a \in Nat, WholeFrames(a)
    PROVE  WholeFrames(a + FrameSamples)
<1>1. PICK q \in Nat : a = q * FrameSamples
  BY DEF WholeFrames
<1>2. a + FrameSamples = (q + 1) * FrameSamples /\ q + 1 \in Nat
  BY <1>1, AudioSyncAssumption
<1>3. QED
  BY <1>2 DEF WholeFrames

-----------------------------------------------------------------------------
(* The rounds of the muxer.                                                *)

LEMMA TargetType ==
    ASSUME BuffersOK
    PROVE  /\ TargetEndPeriod \in Nat /\ TargetEndPeriod > 0
           /\ Target \in Nat /\ Delay \in Nat
           /\ FrameSamples \in Nat /\ FrameSamples > 0
           /\ NumStreams \in Nat /\ NumStreams > 0
<1>1. /\ videoPeriod \in Nat /\ SamplesPerPeriod \in Nat \ {0}
      /\ Delay \in Nat /\ FrameSamples \in Nat \ {0}
      /\ NumStreams \in Nat \ {0}
  BY AudioSyncAssumption DEF BuffersOK
<1>2. /\ (videoPeriod + 2) * SamplesPerPeriod \in Nat
      /\ (videoPeriod + 2) * SamplesPerPeriod > 0
  BY <1>1
<1>3. QED
  BY <1>1, <1>2 DEF Target, TargetEndPeriod

\* When a stream gets a frame, in samples it has.
LEMMA WhenAFrame ==
    ASSUME BuffersOK, NEW s \in Streams
    PROVE  FrameIsNext(s) <=> /\ turn = s
                              /\ sent[s] < Target
                              /\ copying \/ Starts(sent[s])
                              /\ videoPeriod < MaxPeriods
<1>1. sent[s] \in Nat
  BY DEF BuffersOK
<1>2. QED
  BY <1>1, TargetType DEF FrameIsNext, EndPeriod, Monus, Target, Starts

LEMMA FrameKeepsRounds ==
    ASSUME BuffersOK, Rounds, NEW s \in Streams, WriteFrame(s),
           videoPeriod' = videoPeriod
    PROVE  Rounds'
<1>1. PICK y \in Nat : RoundFrom(y)
  BY DEF Rounds
<1>2. /\ turn = s /\ turn' = s /\ copying'
      /\ sent[s] \in Nat
      /\ sent' = [sent EXCEPT ![s] = sent[s] + FrameSamples]
      /\ \A t \in Streams : sent'[t] = IF t = s THEN sent[s] + FrameSamples
                                       ELSE sent[t]
      /\ sent[s] < Target /\ (copying \/ Starts(sent[s]))
  BY WhenAFrame DEF WriteFrame, FrameIsNext, BuffersOK
<1>3. Target' = Target
  BY DEF Target, TargetEndPeriod
<1>4. Starts(y) /\ WholeFrames(sent[s]) /\ y <= sent[s]
  BY <1>1, <1>2 DEF RoundFrom
<1>5. WholeFrames(sent'[s])
  BY <1>2, <1>4, OneFrameMore
<1>6. y < sent'[s] /\ sent'[s] < Target + FrameSamples
  BY <1>2, <1>4, TargetType
<1>7. RoundFrom(y)'
  <2>1. \A t \in Streams : t < s => Served(y, sent[t])'
    BY <1>1, <1>2, <1>3 DEF RoundFrom, Served, Starts, WholeFrames, Streams
  <2>2. \A t \in Streams : t > s => sent'[t] = y
    BY <1>1, <1>2 DEF RoundFrom, Streams
  <2>3. QED
    BY <1>1, <1>2, <1>3, <1>4, <1>5, <1>6, <2>1, <2>2
    DEF RoundFrom, Starts, WholeFrames
<1>8. QED
  BY <1>7 DEF Rounds

LEMMA EndTurnKeepsRounds ==
    ASSUME BuffersOK, Rounds, EndTurn
    PROVE  Rounds'
<1>1. PICK y \in Nat : RoundFrom(y)
  BY DEF Rounds
<1>2. /\ turn \in Streams /\ ~copying' /\ sent' = sent
      /\ ~FrameIsNext(turn) /\ videoPeriod < MaxPeriods
      /\ turn' = IF turn = NumStreams /\ ~copying THEN VideoTurn ELSE turn + 1
      /\ copying \in BOOLEAN /\ sent[turn] \in Nat /\ turn \in Nat
      /\ \A s \in Streams : sent[s] \in Nat
  <2>1. turn \in Streams /\ sent \in [Streams -> Nat] /\ copying \in BOOLEAN
    BY DEF EndTurn, BuffersOK
  <2>2. turn \in Nat
    BY <2>1 DEF Streams
  <2>3. QED
    BY <2>1, <2>2 DEF EndTurn
<1>3. Target' = Target
  BY DEF EndTurn, Target, TargetEndPeriod
<1>4. Served(y, sent[turn])
  <2>1. CASE copying
    BY <1>1, <1>2, <2>1, WhenAFrame, TargetType DEF RoundFrom, Served
  <2>2. CASE ~copying
    BY <1>1, <1>2, <2>2, WhenAFrame, TargetType DEF RoundFrom, Served, Starts
  <2>3. QED
    BY <2>1, <2>2
<1>5. \A s \in Streams : s <= turn => Served(y, sent[s])
  BY <1>1, <1>2, <1>4 DEF RoundFrom, Streams
<1>6. CASE turn # NumStreams
  <2>1. turn' \in Streams /\ turn' = turn + 1
    BY <1>2, <1>6, TargetType DEF Streams
  <2>2. \A s \in Streams : s < turn' => Served(y, sent[s])'
    BY <1>2, <1>3, <1>5, <2>1 DEF Served, Starts, WholeFrames, Streams
  <2>3. \A s \in Streams : s >= turn' => sent'[s] = y
    BY <1>1, <1>2, <2>1 DEF RoundFrom, Streams
  <2>4. RoundFrom(y)'
    BY <1>1, <1>2, <2>1, <2>2, <2>3 DEF RoundFrom, Streams, WholeFrames
  <2>5. QED
    BY <2>4 DEF Rounds
<1>7. CASE turn = NumStreams
  <2>1. turn' \notin Streams
    BY <1>2, <1>7, TargetType DEF Streams, VideoTurn
  <2>2. \A s \in Streams : Served(y, sent[s])
    BY <1>2, <1>5, <1>7 DEF Streams
  <2>3. \A s \in Streams : sent[s] = sent[turn]
    <3>1. SUFFICES ASSUME NEW s \in Streams PROVE sent[s] = sent[turn]
      OBVIOUS
    <3>2. CASE Starts(y)
      BY <1>2, <2>2, <3>2, SameFrames, TargetType DEF Served
    <3>3. CASE ~Starts(y)
      BY <1>2, <2>2, <3>3 DEF Served
    <3>4. QED
      BY <3>2, <3>3
  <2>4. PICK z \in Nat : z = sent[turn]
    BY <1>2
  <2>5. WholeFrames(z)
    BY <1>1, <1>4, <2>4 DEF Served, RoundFrom
  <2>6. RoundFrom(z)'
    BY <1>2, <2>1, <2>3, <2>4, <2>5 DEF RoundFrom, WholeFrames
  <2>7. QED
    BY <2>6 DEF Rounds
<1>8. QED
  BY <1>6, <1>7

\* After the synchronization point and after the video frame, the streams are
\* still level.
LEMMA PointKeepsRounds ==
    ASSUME BuffersOK, Rounds, sent' = sent, copying' = copying,
           \/ turn = SyncTurn /\ turn' = VideoTurn
           \/ turn = VideoTurn /\ turn' = 1
    PROVE  Rounds' /\ ~copying /\ Level
<1>1. PICK y \in Nat : RoundFrom(y)
  BY DEF Rounds
<1>2. turn \notin Streams /\ (turn' \in Streams => turn' = 1)
  BY TargetType DEF Streams, SyncTurn, VideoTurn
<1>3. ~copying /\ \A s \in Streams : sent[s] = y
  BY <1>1, <1>2 DEF RoundFrom
<1>4. RoundFrom(y)'
  BY <1>1, <1>2, <1>3 DEF RoundFrom, Streams, WholeFrames
<1>5. QED
  BY <1>3, <1>4 DEF Rounds, Level

LEMMA SameRounds ==
    ASSUME Rounds, UNCHANGED fileVars, videoPeriod' = videoPeriod
    PROVE  Rounds'
BY DEF Rounds, RoundFrom, fileVars, Served, Starts, Target, TargetEndPeriod,
       WholeFrames

-----------------------------------------------------------------------------
(* What the steps do to the buffers.                                       *)

Emptied == /\ held' = [s \in Streams |-> <<>>]
           /\ committed' = [s \in Streams |-> 0]
           /\ ~synchronized' /\ synchronized' \in BOOLEAN

LEMMA DesyncEmpties ==
    ASSUME BuffersOK, DesyncAudio
    PROVE  Emptied
<1>1. \A s \in Streams : s \notin enabled => held[s] = <<>> /\ committed[s] = 0
  <2>1. Len(<<>>) = 0
    BY EmptySeq
  <2>2. QED
    BY <2>1 DEF BuffersOK
<1>2. QED
  BY <1>1 DEF DesyncAudio, Emptied

LEMMA NewSamplesFacts ==
    ASSUME BuffersOK, NEW s \in Streams
    PROVE  /\ NewSamples(s) \in Seq(Int)
           /\ Len(NewSamples(s)) = FrameSamples
           /\ \A i \in 1 .. FrameSamples :
                 NewSamples(s)[i] = sent[s] - Delay + i - 1
<1>1. sent[s] \in Nat /\ Delay \in Nat /\ FrameSamples \in Nat
  BY TargetType DEF BuffersOK
<1>2. NewSamples(s) \in [1 .. FrameSamples -> Int]
  BY <1>1 DEF NewSamples
<1>3. QED
  BY <1>1, <1>2, LenProperties DEF NewSamples

\* The buffer of an enabled stream after a frame.
LEMMA StoredFacts ==
    ASSUME BuffersOK, NEW s \in Streams, FrameSamples <= ReadAhead
    PROVE  LET h == Drop(held[s], Overrun(s)) \o NewSamples(s)
               c == Monus(Monus(committed[s], Overrun(s)), Overrun(s))
           IN  /\ Overrun(s) \in Nat /\ Overrun(s) <= Len(held[s])
               /\ h \in Seq(Int) /\ c \in Nat
               /\ Len(h) = Len(held[s]) - Overrun(s) + FrameSamples
               /\ Len(h) <= ReadAhead
               /\ c <= Len(held[s]) - Overrun(s) /\ c <= committed[s]
               /\ Overrun(s) = 0 => c = committed[s]
               /\ \A i \in 1 .. Len(h) :
                     h[i] = IF i <= Len(held[s]) - Overrun(s)
                            THEN held[s][i + Overrun(s)]
                            ELSE sent[s] - Delay
                                   + (i - (Len(held[s]) - Overrun(s))) - 1
<1> DEFINE d == Drop(held[s], Overrun(s))
           h == d \o NewSamples(s)
<1>1. /\ held[s] \in Seq(Int) /\ Len(held[s]) \in Nat /\ committed[s] \in Nat
      /\ committed[s] <= Len(held[s]) /\ Len(held[s]) <= ReadAhead
      /\ ReadAhead \in Nat /\ FrameSamples \in Nat /\ FrameSamples > 0
      /\ sent[s] \in Nat /\ Delay \in Nat
  BY AudioSyncAssumption, TargetType, LenProperties DEF BuffersOK
<1>2. /\ Overrun(s) \in Nat /\ Overrun(s) <= Len(held[s])
      /\ Len(held[s]) - Overrun(s) + FrameSamples <= ReadAhead
  BY <1>1 DEF Overrun, Monus
<1>3. /\ d \in Seq(Int) /\ Len(d) = Len(held[s]) - Overrun(s)
      /\ \A i \in 1 .. Len(d) : d[i] = held[s][i + Overrun(s)]
  BY <1>1, <1>2, DropFacts DEF Monus
<1>4. /\ h \in Seq(Int) /\ Len(h) = Len(d) + FrameSamples
      /\ \A i \in 1 .. Len(d) : h[i] = d[i]
      /\ \A i \in 1 .. FrameSamples : h[Len(d) + i] = sent[s] - Delay + i - 1
  <2> HIDE DEF d
  <2>1. NewSamples(s) \in Seq(Int) /\ Len(NewSamples(s)) = FrameSamples
    BY NewSamplesFacts
  <2>2. /\ h \in Seq(Int) /\ Len(h) = Len(d) + FrameSamples
        /\ \A i \in 1 .. Len(d) : h[i] = d[i]
        /\ \A i \in 1 .. FrameSamples : h[Len(d) + i] = NewSamples(s)[i]
    BY <1>3, <2>1, AppendFacts
  <2>3. QED
    BY <2>2, NewSamplesFacts
<1>5. ASSUME NEW i \in 1 .. Len(h)
      PROVE  h[i] = IF i <= Len(held[s]) - Overrun(s)
                    THEN held[s][i + Overrun(s)]
                    ELSE sent[s] - Delay + (i - (Len(held[s]) - Overrun(s))) - 1
  <2> HIDE DEF h, d
  <2>1. i \in Nat /\ i >= 1 /\ Len(d) \in Nat
    BY <1>1, <1>2, <1>3, <1>4
  <2>2. CASE i <= Len(d)
    BY <1>3, <1>4, <2>1, <2>2
  <2>3. CASE i > Len(d)
    <3>1. PICK j \in 1 .. FrameSamples : i = Len(d) + j
      <4>1. i - Len(d) \in 1 .. FrameSamples /\ i = Len(d) + (i - Len(d))
        BY <1>1, <1>4, <2>1, <2>3
      <4>2. QED
        BY <4>1
    <3>2. h[i] = sent[s] - Delay + j - 1
      BY <1>4, <3>1
    <3>3. j = i - (Len(held[s]) - Overrun(s))
      BY <1>1, <1>2, <1>3, <2>1, <3>1
    <3>4. QED
      BY <1>1, <1>2, <1>3, <2>1, <2>3, <3>2, <3>3
  <2>4. QED
    BY <2>1, <2>2, <2>3
<1>6. LET c == Monus(Monus(committed[s], Overrun(s)), Overrun(s)) IN
      /\ c \in Nat /\ c <= Len(held[s]) - Overrun(s) /\ c <= committed[s]
      /\ Overrun(s) = 0 => c = committed[s]
  BY <1>1, <1>2 DEF Monus
<1>7. QED
  BY <1>1, <1>2, <1>3, <1>4, <1>5, <1>6

\* The first enabled stream exists.
LEMMA FirstFacts ==
    ASSUME BuffersOK, enabled # {}
    PROVE  First(enabled) \in enabled /\ NumCommitted \in Nat
<1>1. enabled \in SUBSET Nat /\ enabled \subseteq Streams
  BY DEF BuffersOK, Streams
<1>2. \E x \in enabled : \A y \in enabled : <<y, x>> \notin OpToRel(<, Nat)
  BY <1>1, NatLessThanWellFounded, WFMin
<1>3. \E x \in enabled : \A y \in enabled : x <= y
  <2>1. PICK x \in enabled : \A y \in enabled : ~(y < x)
    BY <1>1, <1>2 DEF OpToRel
  <2>2. QED
    BY <1>1, <2>1
<1>4. First(enabled) \in enabled
  BY <1>3 DEF First
<1>5. QED
  BY <1>1, <1>4 DEF NumCommitted, BuffersOK

\* SkipSamples on some of the buffers.
LEMMA SkipAllFacts ==
    ASSUME BuffersOK, NEW S, NEW n \in Nat, SkipAll(S, n), NEW s \in Streams
    PROVE  /\ held' \in [Streams -> Seq(Int)]
           /\ committed' \in [Streams -> Nat]
           /\ \E k \in Nat : k <= n /\ held'[s] = Drop(held[s], k)
           /\ s \in S => /\ Len(held'[s]) = Monus(Len(held[s]), n)
                         /\ committed'[s] = Monus(committed[s], n)
           /\ s \notin S => /\ held'[s] = held[s]
                            /\ committed'[s] = committed[s]
           /\ Len(held'[s]) <= Len(held[s])
           /\ committed'[s] <= Len(held'[s])
           /\ committed'[s] <= committed[s]
<1>1. \A t \in Streams : /\ held[t] \in Seq(Int) /\ committed[t] \in Nat
                         /\ Len(held[t]) \in Nat /\ committed[t] <= Len(held[t])
                         /\ Drop(held[t], n) \in Seq(Int)
                         /\ Len(Drop(held[t], n)) = Monus(Len(held[t]), n)
                         /\ Monus(committed[t], n) \in Nat
  BY DropFacts, LenProperties DEF BuffersOK, Monus
<1>2. /\ held' = [t \in Streams |-> IF t \in S THEN Drop(held[t], n) ELSE held[t]]
      /\ committed' = [t \in Streams |-> IF t \in S THEN Monus(committed[t], n)
                                                    ELSE committed[t]]
  BY DEF SkipAll
<1>3. held' \in [Streams -> Seq(Int)] /\ committed' \in [Streams -> Nat]
  BY <1>1, <1>2
<1>4. Drop(held[s], 0) = held[s]
  BY <1>1, SubSeqFull DEF Drop
<1>5. CASE s \in S
  BY <1>1, <1>2, <1>3, <1>5 DEF Monus
<1>6. CASE s \notin S
  <2>1. held'[s] = held[s] /\ committed'[s] = committed[s]
    BY <1>2, <1>6
  <2>2. \E k \in Nat : k <= n /\ held'[s] = Drop(held[s], k)
    BY <1>4, <2>1
  <2>3. Len(held[s]) \in Nat /\ committed[s] \in Nat /\ committed[s] <= Len(held[s])
    BY <1>1
  <2>4. Len(held'[s]) <= Len(held[s]) /\ committed'[s] <= committed[s]
    BY <2>1, <2>3
  <2>5. committed'[s] <= Len(held'[s])
    BY <2>1, <2>3
  <2>6. QED
    BY <1>3, <1>6, <2>1, <2>2, <2>4, <2>5
<1>7. QED
  BY <1>3, <1>5, <1>6

-----------------------------------------------------------------------------
(* Types.                                                                  *)

LEMMA EmptiedBuffersOK ==
    ASSUME BuffersOK, Emptied, enabled' \subseteq Streams,
           sent' \in [Streams -> Nat], due' = due, audioPeriod' = audioPeriod,
           videoPeriod' = videoPeriod, turn' \in 1 .. VideoTurn,
           turn' # 1 => videoPeriod < MaxPeriods, copying' \in BOOLEAN,
           spent' \in [{"bad", "lost", "toggles"} -> Nat]
    PROVE  BuffersOK'
<1>1. Len(<<>>) = 0 /\ <<>> \in Seq(Int) /\ ReadAhead \in Nat
  BY EmptySeq, AudioSyncAssumption
<1>2. \A s \in Streams : /\ Len(held'[s]) = 0 /\ held'[s] = <<>>
                         /\ committed'[s] = 0 /\ sent'[s] \in Nat
  BY <1>1 DEF Emptied
<1>3. held' \in [Streams -> Seq(Int)] /\ committed' \in [Streams -> Nat]
  BY <1>1 DEF Emptied
<1>4. QED
  BY <1>1, <1>2, <1>3 DEF BuffersOK, Emptied

LEMMA SpendType ==
    ASSUME BuffersOK, NEW k \in {"bad", "lost", "toggles"}, NEW n, Spend(k, n)
    PROVE  spent' \in [{"bad", "lost", "toggles"} -> Nat]
BY DEF BuffersOK, Spend

LEMMA WriteFrameType ==
    ASSUME BuffersOK, NEW s \in Streams, WriteFrame(s)
    PROVE  /\ sent' \in [Streams -> Nat]
           /\ \A t \in Streams : sent'[t] = IF t = s THEN sent[s] + FrameSamples
                                            ELSE sent[t]
           /\ turn' = turn /\ turn = s /\ copying'
           /\ copying' \in BOOLEAN /\ videoPeriod < MaxPeriods
<1>1. FrameSamples \in Nat
  BY AudioSyncAssumption
<1>2. QED
  BY <1>1 DEF BuffersOK, WriteFrame, FrameIsNext

LEMMA AudioFrameType ==
    ASSUME BuffersOK, NEW s \in Streams, AudioFrame(s)
    PROVE  BuffersOK'
<1>1. /\ sent' \in [Streams -> Nat]
      /\ \A t \in Streams : sent'[t] = IF t = s THEN sent[s] + FrameSamples
                                       ELSE sent[t]
      /\ turn' = turn /\ copying' \in BOOLEAN /\ videoPeriod < MaxPeriods
      /\ turn \in 1 .. VideoTurn
      /\ spent' \in [{"bad", "lost", "toggles"} -> Nat]
      /\ enabled' = enabled /\ enabled \subseteq Streams
  BY WriteFrameType DEF AudioFrame, BuffersOK
<1>2. CASE s \in enabled /\ Overrun(s) > 0 /\ synchronized
  BY <1>1, <1>2, DesyncEmpties, EmptiedBuffersOK DEF AudioFrame
<1>3. CASE s \in enabled /\ ~(Overrun(s) > 0 /\ synchronized)
  <2> DEFINE h == Drop(held[s], Overrun(s)) \o NewSamples(s)
             c == Monus(Monus(committed[s], Overrun(s)), Overrun(s))
  <2>1. /\ held' = [held EXCEPT ![s] = h]
        /\ committed' = [committed EXCEPT ![s] = c]
        /\ synchronized' = synchronized
    BY <1>3 DEF AudioFrame
  <2>2. /\ Overrun(s) \in Nat /\ h \in Seq(Int) /\ c \in Nat
        /\ Len(h) = Len(held[s]) - Overrun(s) + FrameSamples
        /\ Len(h) <= ReadAhead /\ c <= Len(held[s]) - Overrun(s)
    BY StoredFacts DEF AudioFrame
  <2>3. /\ Len(held[s]) \in Nat /\ FrameSamples \in Nat /\ sent[s] \in Nat
        /\ Len(held[s]) <= sent[s]
    BY AudioSyncAssumption, LenProperties DEF BuffersOK
  <2> HIDE DEF h, c
  <2>4. Len(h) <= sent'[s] /\ c <= Len(h)
    BY <1>1, <2>2, <2>3
  <2>5. held' \in [Streams -> Seq(Int)] /\ committed' \in [Streams -> Nat]
    BY <2>1, <2>2 DEF BuffersOK
  <2>6. \A t \in Streams : /\ Len(held'[t]) <= ReadAhead
                           /\ Len(held'[t]) <= sent'[t]
                           /\ committed'[t] <= Len(held'[t])
                           /\ t \notin enabled => held'[t] = <<>>
    BY <1>1, <1>3, <2>1, <2>2, <2>4 DEF BuffersOK
  <2>7. QED
    BY <1>1, <2>1, <2>5, <2>6 DEF BuffersOK, AudioFrame
<1>4. CASE s \notin enabled
  <2>1. \A t \in Streams : Len(held[t]) <= sent'[t]
    <3>1. \A t \in Streams : /\ Len(held[t]) \in Nat /\ sent[t] \in Nat
                             /\ FrameSamples \in Nat /\ Len(held[t]) <= sent[t]
      BY AudioSyncAssumption, LenProperties DEF BuffersOK
    <3>2. QED
      BY <1>1, <3>1
  <2>2. QED
    BY <1>1, <1>4, <2>1 DEF BuffersOK, AudioFrame
<1>5. QED
  BY <1>2, <1>3, <1>4

LEMMA LostAudioFrameType ==
    ASSUME BuffersOK, NEW s \in Streams, LostAudioFrame(s)
    PROVE  BuffersOK'
<1>1. /\ sent' \in [Streams -> Nat]
      /\ \A t \in Streams : sent'[t] = IF t = s THEN sent[s] + FrameSamples
                                       ELSE sent[t]
      /\ turn' = turn /\ copying' \in BOOLEAN
      /\ spent' \in [{"bad", "lost", "toggles"} -> Nat]
  BY WriteFrameType, SpendType DEF LostAudioFrame
<1>2. \A t \in Streams : Len(held[t]) <= sent'[t]
  <2>1. \A t \in Streams : /\ Len(held[t]) \in Nat /\ sent[t] \in Nat
                           /\ FrameSamples \in Nat /\ Len(held[t]) <= sent[t]
    BY AudioSyncAssumption, LenProperties DEF BuffersOK
  <2>2. QED
    BY <1>1, <2>1
<1>3. QED
  BY <1>1, <1>2 DEF BuffersOK, LostAudioFrame, buffers

\* The samples a synchronization point leaves in the buffers.
PointHeld == IF NeedSoftDesync
             THEN [s \in Streams |-> IF s \in enabled
                                     THEN Drop(held[s], committed[s])
                                     ELSE held[s]]
             ELSE held

LEMMA PointFacts ==
    ASSUME BuffersOK, AudioSynchronization, NEW s \in Streams
    PROVE  /\ held' = PointHeld
           /\ held' \in [Streams -> Seq(Int)]
           /\ committed' \in [Streams -> Nat]
           /\ committed'[s] = Len(held'[s])
           /\ Len(held'[s]) <= Len(held[s])
           /\ \E k \in Nat : held'[s] = Drop(held[s], k)
           /\ s \notin enabled => held'[s] = <<>>
           /\ synchronized' = (synchronized /\ ~NeedSoftDesync)
           /\ ~NeedSoftDesync => held' = held
           /\ audioPeriod' = EndPeriod(NumStreams) /\ audioPeriod' \in Nat
<1>1. \A t \in Streams : /\ held[t] \in Seq(Int) /\ committed[t] \in Nat
                         /\ Len(held[t]) \in Nat
                         /\ Drop(held[t], committed[t]) \in Seq(Int)
                         /\ Len(Drop(held[t], committed[t])) <= Len(held[t])
                         /\ Drop(held[t], 0) = held[t]
                         /\ t \notin enabled => held[t] = <<>> /\ committed[t] = 0
                         /\ Len(<<>>) = 0
  <2>1. SUFFICES ASSUME NEW t \in Streams
                 PROVE  /\ held[t] \in Seq(Int) /\ committed[t] \in Nat
                        /\ Len(held[t]) \in Nat
                        /\ Drop(held[t], committed[t]) \in Seq(Int)
                        /\ Len(Drop(held[t], committed[t])) <= Len(held[t])
                        /\ Drop(held[t], 0) = held[t]
                        /\ t \notin enabled => held[t] = <<>> /\ committed[t] = 0
                        /\ Len(<<>>) = 0
    OBVIOUS
  <2>2. /\ held[t] \in Seq(Int) /\ committed[t] \in Nat /\ Len(<<>>) = 0
        /\ committed[t] <= Len(held[t])
        /\ t \notin enabled => held[t] = <<>>
    BY EmptySeq DEF BuffersOK
  <2>3. Len(held[t]) \in Nat
    BY <2>2, LenProperties
  <2>4. Drop(held[t], 0) = held[t]
    BY <2>2, SubSeqFull DEF Drop
  <2>5. /\ Drop(held[t], committed[t]) \in Seq(Int)
        /\ Len(Drop(held[t], committed[t])) = Monus(Len(held[t]), committed[t])
    BY <2>2, DropFacts
  <2>6. Monus(Len(held[t]), committed[t]) <= Len(held[t])
    BY <2>2, <2>3 DEF Monus
  <2>7. t \notin enabled => committed[t] = 0
    BY <2>2
  <2>8. QED
    BY <2>2, <2>3, <2>4, <2>5, <2>6, <2>7
<1>2. held' = PointHeld /\ held' \in [Streams -> Seq(Int)]
  BY <1>1 DEF AudioSynchronization, CommitAll, PointHeld, BuffersOK
<1>3. committed' = [t \in Streams |-> IF t \in enabled THEN Len(held'[t])
                                      ELSE committed[t]]
  BY DEF AudioSynchronization, CommitAll
<1>4. /\ Len(held'[s]) <= Len(held[s])
      /\ \E k \in Nat : held'[s] = Drop(held[s], k)
      /\ s \notin enabled => held'[s] = <<>>
  <2>1. CASE NeedSoftDesync /\ s \in enabled
    BY <1>1, <1>2, <2>1 DEF PointHeld
  <2>2. CASE ~(NeedSoftDesync /\ s \in enabled)
    <3>1. held'[s] = held[s]
      BY <1>2, <2>2 DEF PointHeld
    <3>2. QED
      BY <1>1, <3>1
  <2>3. QED
    BY <2>1, <2>2
<1>5. \A t \in Streams : Len(held'[t]) \in Nat
  BY <1>2, LenProperties
<1>6. committed' \in [Streams -> Nat]
  BY <1>1, <1>3, <1>5
<1>7. committed'[s] = Len(held'[s])
  BY <1>1, <1>3, <1>4
<1>8. /\ synchronized' = (synchronized /\ ~NeedSoftDesync)
      /\ ~NeedSoftDesync => held' = held
  BY DEF AudioSynchronization, NeedSoftDesync, CommitAll, BuffersOK
<1>9. audioPeriod' = EndPeriod(NumStreams) /\ audioPeriod' \in Nat
  <2>0. NumStreams \in Streams
    BY TargetType DEF Streams
  <2>1. sent[NumStreams] \in Nat /\ Delay \in Nat
    BY <2>0, TargetType DEF BuffersOK
  <2>2. QED
    BY <2>1 DEF AudioSynchronization, SyncPeriod, EndPeriod, Monus
<1>10. QED
  BY <1>2, <1>4, <1>6, <1>7, <1>8, <1>9

LEMMA PointType ==
    ASSUME BuffersOK, AudioSynchronization
    PROVE  BuffersOK'
<1>1. /\ turn = SyncTurn /\ turn' = VideoTurn
      /\ UNCHANGED <<enabled, videoPeriod, sent, copying, due, spent>>
  BY DEF AudioSynchronization
<1>2. VideoTurn \in 1 .. VideoTurn /\ SyncTurn # 1 /\ 1 \in Streams
  BY TargetType DEF VideoTurn, SyncTurn, Streams
<1>3. /\ held' \in [Streams -> Seq(Int)] /\ committed' \in [Streams -> Nat]
      /\ synchronized' \in BOOLEAN /\ audioPeriod' \in Nat
  BY <1>2, PointFacts
<1>4. ASSUME NEW s \in Streams
      PROVE  /\ Len(held'[s]) <= ReadAhead /\ Len(held'[s]) <= sent[s]
             /\ committed'[s] <= Len(held'[s])
             /\ s \notin enabled => held'[s] = <<>>
  <2>1. /\ Len(held[s]) \in Nat /\ sent[s] \in Nat /\ ReadAhead \in Nat
        /\ Len(held[s]) <= ReadAhead /\ Len(held[s]) <= sent[s]
    BY AudioSyncAssumption, LenProperties DEF BuffersOK
  <2>2. Len(held'[s]) \in Nat
    BY <1>3, LenProperties
  <2>3. QED
    BY <2>1, <2>2, PointFacts
<1>5. QED
  BY <1>1, <1>2, <1>3, <1>4 DEF BuffersOK

LEMMA ReadFacts ==
    ASSUME BuffersOK, NEW s \in Streams, NEW k \in Nat, ReadAudioSamples(s, k)
    PROVE  \E n \in Nat :
              /\ n <= committed[s]
              /\ held' = [held EXCEPT ![s] = Drop(held[s], n)]
              /\ committed' = [committed EXCEPT ![s] = committed[s] - n]
              /\ due' = [due EXCEPT ![s] = due[s] + n]
              /\ Drop(held[s], n) \in Seq(Int)
              /\ Len(Drop(held[s], n)) = Len(held[s]) - n
<1> DEFINE n == IF k > committed[s] THEN committed[s] ELSE k
<1>1. /\ committed[s] \in Nat /\ committed[s] <= Len(held[s])
      /\ Len(held[s]) \in Nat /\ held[s] \in Seq(Int)
  BY LenProperties DEF BuffersOK
<1>2. n \in Nat /\ n <= committed[s]
  BY <1>1
<1>3. /\ Drop(held[s], n) \in Seq(Int)
      /\ Len(Drop(held[s], n)) = Len(held[s]) - n
  <2> HIDE DEF n
  <2>1. /\ Drop(held[s], n) \in Seq(Int)
        /\ Len(Drop(held[s], n)) = Monus(Len(held[s]), n)
    BY <1>1, <1>2, DropFacts
  <2>2. Len(held[s]) >= n
    BY <1>1, <1>2
  <2>3. QED
    BY <2>1, <2>2 DEF Monus
<1>4. /\ held' = [held EXCEPT ![s] = Drop(held[s], n)]
      /\ committed' = [committed EXCEPT ![s] = committed[s] - n]
      /\ due' = [due EXCEPT ![s] = due[s] + n]
  BY DEF ReadAudioSamples
<1>5. QED
  BY <1>2, <1>3, <1>4

LEMMA ReadType ==
    ASSUME BuffersOK, NEW s \in Streams, NEW k \in Nat, ReadAudioSamples(s, k)
    PROVE  BuffersOK'
<1>1. PICK n \in Nat :
         /\ n <= committed[s]
         /\ held' = [held EXCEPT ![s] = Drop(held[s], n)]
         /\ committed' = [committed EXCEPT ![s] = committed[s] - n]
         /\ due' = [due EXCEPT ![s] = due[s] + n]
         /\ Drop(held[s], n) \in Seq(Int)
         /\ Len(Drop(held[s], n)) = Len(held[s]) - n
  BY ReadFacts
<1>2. /\ committed[s] \in Nat /\ Len(held[s]) \in Nat /\ sent[s] \in Nat
      /\ Len(held[s]) <= sent[s] /\ Len(held[s]) <= ReadAhead
      /\ committed[s] <= Len(held[s]) /\ ReadAhead \in Nat /\ due[s] \in Nat
  BY AudioSyncAssumption, LenProperties DEF BuffersOK
<1>3. /\ held' \in [Streams -> Seq(Int)]
      /\ committed' \in [Streams -> Nat]
      /\ due' \in [Streams -> Nat]
  <2>1. committed[s] - n \in Nat /\ due[s] + n \in Nat
    BY <1>1, <1>2
  <2>2. QED
    BY <1>1, <2>1 DEF BuffersOK
<1>4. /\ s \in enabled
      /\ UNCHANGED <<enabled, synchronized, audioPeriod, videoPeriod, sent, turn,
                     copying, spent>>
  BY DEF ReadAudioSamples, fileVars
<1>5. ASSUME NEW t \in Streams
      PROVE  /\ Len(held'[t]) <= ReadAhead /\ Len(held'[t]) <= sent[t]
             /\ committed'[t] <= Len(held'[t])
             /\ t \notin enabled => held'[t] = <<>>
  <2>1. CASE t = s
    BY <1>1, <1>2, <1>4, <2>1 DEF BuffersOK
  <2>2. CASE t # s
    BY <1>1, <1>4, <2>2 DEF BuffersOK
  <2>3. QED
    BY <2>1, <2>2
<1>6. QED
  BY <1>3, <1>4, <1>5 DEF BuffersOK

LEMMA ToggleType ==
    ASSUME BuffersOK, NEW s \in Streams, SetAudioStreamEnabled(s)
    PROVE  BuffersOK'
<1>1. /\ spent' \in [{"bad", "lost", "toggles"} -> Nat]
      /\ UNCHANGED <<audioPeriod, videoPeriod, sent, turn, copying, due>>
  BY SpendType DEF SetAudioStreamEnabled, fileVars
<1>2. CASE s \in enabled
  <2>1. /\ enabled' = enabled \ {s} /\ synchronized' = synchronized
        /\ held' = [held EXCEPT ![s] = <<>>]
        /\ committed' = [committed EXCEPT ![s] = 0]
    BY <1>2 DEF SetAudioStreamEnabled
  <2>2. Len(<<>>) = 0 /\ <<>> \in Seq(Int) /\ ReadAhead \in Nat
    BY EmptySeq, AudioSyncAssumption
  <2>3. held' \in [Streams -> Seq(Int)] /\ committed' \in [Streams -> Nat]
    BY <2>1, <2>2 DEF BuffersOK
  <2>4. ASSUME NEW t \in Streams
        PROVE  /\ Len(held'[t]) <= ReadAhead /\ Len(held'[t]) <= sent[t]
               /\ committed'[t] <= Len(held'[t])
               /\ t \notin enabled' => held'[t] = <<>>
    BY <2>1, <2>2 DEF BuffersOK
  <2>5. QED
    BY <1>1, <2>1, <2>3, <2>4 DEF BuffersOK
<1>3. CASE s \notin enabled
  <2>1. Emptied /\ enabled' \subseteq Streams
    BY <1>3, DesyncEmpties DEF SetAudioStreamEnabled, BuffersOK
  <2>2. QED
    BY <1>1, <2>1, EmptiedBuffersOK DEF BuffersOK
<1>4. QED
  BY <1>2, <1>3

\* The trims of an attempt to synchronize.
LEMMA TrimFacts ==
    ASSUME BuffersOK, SynchronizeAudioPlayback
    PROVE  /\ Truncated \in Nat /\ AudioTime \in Nat /\ NumCommitted \in Nat
           /\ StartPoint \in Nat
           /\ Synchronizable => TotalTrim \in Nat
<1>1. /\ NumCommitted \in Nat /\ audioPeriod \in Nat
      /\ videoPeriod - 1 \in Nat /\ SamplesPerPeriod \in Nat
  BY FirstFacts, AudioSyncAssumption
  DEF SynchronizeAudioPlayback, AtVideoSync, BuffersOK
<1>2. AudioTime \in Nat
  BY <1>1 DEF AudioTime
<1>3. Truncated \in Nat /\ StartPoint \in Nat
  BY <1>1 DEF Truncated, StartPoint, Monus
<1>4. QED
  BY <1>1, <1>2, <1>3 DEF Synchronizable, TotalTrim

LEMMA SynchronizeType ==
    ASSUME BuffersOK, SynchronizeAudioPlayback
    PROVE  BuffersOK'
<1>1. PICK S \in SUBSET Streams, n \in Nat : SkipAll(S, n)
  <2>1. enabled \subseteq Streams /\ Agreeing \subseteq Streams
    BY DEF BuffersOK, Agreeing
  <2>2. QED
    BY <2>1, TrimFacts DEF SynchronizeAudioPlayback
<1>2. /\ UNCHANGED <<enabled, audioPeriod, videoPeriod, sent, turn, copying, spent>>
      /\ synchronized' \in BOOLEAN
      /\ due' \in [Streams -> Nat]
  BY TrimFacts DEF SynchronizeAudioPlayback, fileVars, BuffersOK
<1>3. held' \in [Streams -> Seq(Int)] /\ committed' \in [Streams -> Nat]
  <2>1. 1 \in Streams
    BY TargetType DEF Streams
  <2>2. QED
    BY <1>1, <2>1, SkipAllFacts
<1>4. ASSUME NEW s \in Streams
      PROVE  /\ Len(held'[s]) <= ReadAhead /\ Len(held'[s]) <= sent[s]
             /\ committed'[s] <= Len(held'[s])
             /\ s \notin enabled => held'[s] = <<>>
  <2>1. /\ Len(held[s]) \in Nat /\ sent[s] \in Nat /\ ReadAhead \in Nat
        /\ Len(held[s]) <= ReadAhead /\ Len(held[s]) <= sent[s]
        /\ s \notin enabled => held[s] = <<>>
    BY AudioSyncAssumption, LenProperties DEF BuffersOK
  <2>2. /\ Len(held'[s]) <= Len(held[s]) /\ Len(held'[s]) \in Nat
        /\ committed'[s] <= Len(held'[s])
    BY <1>1, <1>3, SkipAllFacts, LenProperties
  <2>3. s \notin enabled => held'[s] = <<>>
    BY <1>3, <2>1, <2>2, EmptySeq
  <2>4. QED
    BY <2>1, <2>2, <2>3
<1>5. QED
  BY <1>2, <1>3, <1>4 DEF BuffersOK

\* Every step keeps the types, whatever the delay.
LEMMA TypesKept ==
    ASSUME BuffersOK, [Next]_vars
    PROVE  BuffersOK'
<1>1. CASE EndTurn
  <2>1. /\ turn \in Streams /\ videoPeriod < MaxPeriods
        /\ turn' = IF turn = NumStreams /\ ~copying THEN VideoTurn ELSE turn + 1
    BY <1>1 DEF EndTurn
  <2>2. turn' \in 1 .. VideoTurn
    BY <2>1, TargetType DEF VideoTurn, Streams
  <2>3. QED
    BY <1>1, <2>1, <2>2 DEF EndTurn, BuffersOK
<1>2. ASSUME NEW s \in Streams, BadAudioFrame(s)
      PROVE  BuffersOK'
  BY <1>2, DesyncEmpties, WriteFrameType, SpendType, EmptiedBuffersOK
  DEF BadAudioFrame, BuffersOK
<1>3. CASE BadAudioSynchronization
  <2>1. /\ turn' = VideoTurn /\ turn # 1
    BY <1>3, TargetType DEF BadAudioSynchronization, SyncTurn
  <2>2. turn' \in 1 .. VideoTurn
    BY <2>1, TargetType DEF VideoTurn
  <2>3. QED
    BY <1>3, <2>1, <2>2, DesyncEmpties, SpendType, EmptiedBuffersOK
    DEF BadAudioSynchronization, BuffersOK
<1>4. CASE VideoSynchronization
  <2>1. turn # 1 /\ turn' = 1 /\ 1 \in 1 .. VideoTurn
    BY <1>4, TargetType DEF VideoSynchronization, VideoTurn
  <2>2. /\ videoPeriod' = videoPeriod + 1 /\ videoPeriod < MaxPeriods
        /\ MaxPeriods \in Nat /\ videoPeriod \in Nat
    BY <1>4, <2>1, AudioSyncAssumption DEF VideoSynchronization, BuffersOK
  <2>3. QED
    BY <1>4, <2>1, <2>2 DEF VideoSynchronization, BuffersOK, buffers
<1>5. CASE NotifyAudioPlaybackUnderrun
  BY <1>5, DesyncEmpties, EmptiedBuffersOK
  DEF NotifyAudioPlaybackUnderrun, BuffersOK, fileVars
<1>6. CASE UNCHANGED vars
  BY <1>6 DEF vars, BuffersOK
<1>7. QED
  BY <1>1, <1>2, <1>3, <1>4, <1>5, <1>6, AudioFrameType, LostAudioFrameType,
     PointType, ToggleType, ReadType, SynchronizeType, AudioSyncAssumption
  DEF Next, Digest, Player

LEMMA RoundsKept ==
    ASSUME BuffersOK, Rounds, [Next]_vars
    PROVE  Rounds'
<1>1. ASSUME NEW s \in Streams,
             AudioFrame(s) \/ BadAudioFrame(s) \/ LostAudioFrame(s)
      PROVE  Rounds'
  BY <1>1, FrameKeepsRounds DEF AudioFrame, BadAudioFrame, LostAudioFrame
<1>2. CASE AudioSynchronization \/ BadAudioSynchronization \/ VideoSynchronization
  BY <1>2, PointKeepsRounds
  DEF AudioSynchronization, BadAudioSynchronization, VideoSynchronization
<1>3. CASE Player
  BY <1>3, SameRounds
  DEF Player, SetAudioStreamEnabled, NotifyAudioPlaybackUnderrun,
      ReadAudioSamples, SynchronizeAudioPlayback
<1>4. CASE UNCHANGED vars
  BY <1>4, SameRounds DEF vars, fileVars
<1>5. QED
  BY <1>1, <1>2, <1>3, <1>4, EndTurnKeepsRounds DEF Next, Digest

-----------------------------------------------------------------------------
(* The clock, and the samples' places, without an algorithmic delay.       *)

\* When all is empty, nothing can be wrong with it.
LEMMA EmptiedKeeps ==
    ASSUME BuffersOK, Emptied, audioPeriod' = audioPeriod
    PROVE  /\ PointInv' /\ CommitInv' /\ ClockInv' /\ RecentInv' /\ AccountInv'
<1>1. /\ Len(<<>>) = 0 /\ audioPeriod \in Nat
  BY EmptySeq DEF BuffersOK
<1>2. \A s \in Streams : /\ held'[s] = <<>> /\ Len(held'[s]) = 0
                         /\ committed'[s] = 0
  BY <1>1 DEF Emptied
<1>3. ~synchronized'
  BY DEF Emptied
<1>4. PointInv' /\ CommitInv'
  BY <1>1, <1>2 DEF PointInv, CommitInv
<1>5. RecentInv'
  BY <1>2 DEF RecentInv
<1>6. QED
  BY <1>3, <1>4, <1>5 DEF ClockInv, AccountInv

\* Taking the oldest samples off leaves the others where they belong.
LEMMA RecentAfterDrop ==
    ASSUME BuffersOK, RecentInv, sent' = sent, spent'.lost = spent.lost,
           \A s \in Streams : \E n \in Nat : held'[s] = Drop(held[s], n)
    PROVE  RecentInv'
<1>1. SUFFICES ASSUME spent.lost = 0, NEW s \in Streams,
                      NEW i \in 1 .. Len(held'[s])
               PROVE  held'[s][i] = sent[s] - Delay - Len(held'[s]) + i - 1
  BY DEF RecentInv
<1>2. PICK n \in Nat : held'[s] = Drop(held[s], n)
  OBVIOUS
<1>3. /\ held[s] \in Seq(Int) /\ Len(held[s]) \in Nat
      /\ sent[s] \in Nat /\ Delay \in Nat
  BY TargetType, LenProperties DEF BuffersOK
<1>4. /\ Len(held'[s]) = Monus(Len(held[s]), n)
      /\ held'[s][i] = held[s][i + n]
  <2>1. /\ Len(Drop(held[s], n)) = Monus(Len(held[s]), n)
        /\ \A j \in 1 .. Len(Drop(held[s], n)) :
              Drop(held[s], n)[j] = held[s][j + n]
    BY <1>3, DropFacts
  <2>2. QED
    BY <1>2, <2>1
<1>5. /\ i \in Nat /\ i >= 1 /\ i + n \in 1 .. Len(held[s])
      /\ Len(held'[s]) = Len(held[s]) - n
  BY <1>3, <1>4 DEF Monus
<1>6. held[s][i + n] = sent[s] - Delay - Len(held[s]) + (i + n) - 1
  BY <1>1, <1>5 DEF RecentInv
<1>7. sent[s] - Delay - Len(held[s]) + (i + n) - 1
        = sent[s] - Delay - Len(held'[s]) + i - 1
  <2>1. ASSUME NEW a \in Int, NEW l \in Int, NEW m \in Int, m = l - n
        PROVE  a - Delay - l + (i + n) - 1 = a - Delay - m + i - 1
    BY <1>3, <2>1
  <2>2. Len(held'[s]) \in Int
    BY <1>3, <1>5
  <2>3. QED
    BY <1>3, <1>5, <2>1, <2>2
<1>8. QED
  BY <1>4, <1>6, <1>7

\* A step that touches no buffer, and does not come to a point.
LEMMA BuffersAlone ==
    ASSUME UNCHANGED <<held, committed, synchronized, audioPeriod, enabled,
                       sent, due, spent>>
    PROVE  /\ CommitInv => CommitInv'
           /\ ClockInv => ClockInv'
           /\ RecentInv => RecentInv'
           /\ AccountInv => AccountInv'
           /\ (AtPoint' => AtPoint) /\ PointInv => PointInv'
BY DEF CommitInv, ClockInv, RecentInv, AccountInv, PointInv

LEMMA FrameKeeps ==
    ASSUME PlaybackInv, NEW s \in Streams, AudioFrame(s)
    PROVE  PointInv' /\ CommitInv' /\ ClockInv' /\ RecentInv' /\ AccountInv'
<1>1. BuffersOK
  BY DEF PlaybackInv
<1>2. /\ sent' \in [Streams -> Nat]
      /\ \A t \in Streams : sent'[t] = IF t = s THEN sent[s] + FrameSamples
                                       ELSE sent[t]
      /\ copying'
      /\ UNCHANGED <<enabled, audioPeriod, videoPeriod, due, spent>>
      /\ \A t \in Streams : sent[t] \in Nat
      /\ FrameSamples \in Nat /\ Delay \in Nat /\ audioPeriod \in Nat
  BY <1>1, WriteFrameType, TargetType DEF AudioFrame, BuffersOK
<1>3. PointInv'
  BY <1>2 DEF PointInv, AtPoint
<1>4. CASE s \in enabled /\ Overrun(s) > 0 /\ synchronized
  BY <1>1, <1>2, <1>4, DesyncEmpties, EmptiedKeeps DEF AudioFrame
<1>5. CASE s \notin enabled
  <2>1. UNCHANGED <<held, committed, synchronized>>
    BY <1>5 DEF AudioFrame
  <2>2. \A t \in Streams : t # s => sent'[t] = sent[t]
    BY <1>2
  <2>3. held[s] = <<>> /\ Len(<<>>) = 0
    BY <1>1, <1>5, EmptySeq DEF BuffersOK
  <2>4. \A t \in enabled : t # s /\ t \in Streams
    BY <1>1, <1>5 DEF BuffersOK
  <2>5. RecentInv'
    <3>1. SUFFICES ASSUME spent.lost = 0, NEW t \in Streams, NEW i \in 1 .. Len(held[t])
                   PROVE  held[t][i] = sent'[t] - Delay - Len(held[t]) + i - 1
      BY <1>2, <2>1 DEF RecentInv
    <3>2. t # s
      BY <2>3
    <3>3. QED
      BY <2>2, <3>1, <3>2 DEF PlaybackInv, RecentInv
  <2>6. CommitInv' /\ ClockInv'
    BY <1>2, <2>1 DEF PlaybackInv, CommitInv, ClockInv
  <2>7. AccountInv'
    BY <1>2, <2>1, <2>2, <2>4 DEF PlaybackInv, AccountInv
  <2>8. QED
    BY <1>3, <2>5, <2>6, <2>7
<1>6. CASE s \in enabled /\ ~(Overrun(s) > 0 /\ synchronized)
  <2> DEFINE h == Drop(held[s], Overrun(s)) \o NewSamples(s)
             c == Monus(Monus(committed[s], Overrun(s)), Overrun(s))
             o == Overrun(s)
             l == Len(held[s])
  <2>1. /\ held' = [held EXCEPT ![s] = h]
        /\ committed' = [committed EXCEPT ![s] = c]
        /\ synchronized' = synchronized
    BY <1>6 DEF AudioFrame
  <2>2. /\ o \in Nat /\ h \in Seq(Int) /\ c \in Nat
        /\ Len(h) = l - o + FrameSamples
        /\ o <= l /\ c <= committed[s]
        /\ o = 0 => c = committed[s]
        /\ \A i \in 1 .. Len(h) :
              h[i] = IF i <= l - o THEN held[s][i + o]
                     ELSE sent[s] - Delay + (i - (l - o)) - 1
    BY <1>1, StoredFacts DEF AudioFrame
  <2>3. l \in Nat /\ committed[s] \in Nat
    BY <1>1, LenProperties DEF BuffersOK
  <2>4. \A t \in Streams : /\ held'[t] = IF t = s THEN h ELSE held[t]
                           /\ committed'[t] = IF t = s THEN c ELSE committed[t]
    BY <1>1, <2>1 DEF BuffersOK
  <2>5. synchronized => o = 0
    BY <1>6, <2>2
  <2> HIDE DEF h, c, o, l
  <2>6. \A t \in Streams : /\ committed'[t] <= committed[t]
                           /\ committed[t] \in Nat /\ committed'[t] \in Nat
    <3>1. \A t \in Streams : committed[t] \in Nat
      BY <1>1 DEF BuffersOK
    <3>2. QED
      BY <2>2, <2>4, <3>1
  <2>7. CommitInv'
    BY <1>2, <2>6 DEF PlaybackInv, CommitInv
  <2>8. ClockInv'
    <3>1. synchronized => committed'[s] = committed[s]
      BY <2>2, <2>4, <2>5
    <3>2. synchronized => \A t \in Streams : committed'[t] = committed[t]
      BY <2>4, <3>1
    <3>3. \A t \in enabled : t \in Streams
      BY <1>1 DEF BuffersOK
    <3>4. QED
      BY <1>2, <2>1, <3>2, <3>3 DEF PlaybackInv, ClockInv
  <2>9. RecentInv'
    <3>1. SUFFICES ASSUME spent.lost = 0, NEW t \in Streams,
                          NEW i \in 1 .. Len(held'[t])
                   PROVE  held'[t][i] = sent'[t] - Delay - Len(held'[t]) + i - 1
      BY <1>2 DEF RecentInv
    <3>2. CASE t # s
      BY <1>2, <2>4, <3>1, <3>2 DEF PlaybackInv, RecentInv
    <3>3. CASE t = s
      <4>1. held'[t] = h /\ sent'[t] = sent[s] + FrameSamples
        BY <1>2, <2>4, <3>3
      <4> /\ sent[s] \in Nat /\ Delay \in Nat /\ FrameSamples \in Nat
          /\ Len(held'[t]) = l - o + FrameSamples
        BY <1>2, <2>2, <4>1
      <4>2. i \in Nat /\ i >= 1 /\ i <= Len(h) /\ i \in 1 .. Len(h)
        BY <2>2, <2>3, <1>2, <4>1
      <4>3. CASE i <= l - o
        <5>1. i + o \in 1 .. Len(held[s]) /\ Len(held[s]) = l
          BY <2>2, <2>3, <4>2, <4>3 DEF l
        <5>2. held[s][i + o] = sent[s] - Delay - l + (i + o) - 1
          BY <3>1, <5>1 DEF PlaybackInv, RecentInv
        <5>3. h[i] = held[s][i + o]
          BY <2>2, <4>2, <4>3
        <5>4. h[i] = sent[s] + FrameSamples - Delay - (l - o + FrameSamples) + i - 1
          BY <2>2, <2>3, <4>2, <5>2, <5>3
        <5>5. QED
          BY <4>1, <5>4
      <4>4. CASE ~(i <= l - o)
        <5>1. h[i] = sent[s] - Delay + (i - (l - o)) - 1
          BY <2>2, <4>2, <4>4
        <5>2. h[i] = sent[s] + FrameSamples - Delay - (l - o + FrameSamples) + i - 1
          BY <2>2, <2>3, <4>2, <5>1
        <5>3. QED
          BY <4>1, <5>2
      <4>5. QED
        BY <4>3, <4>4
    <3>4. QED
      BY <3>2, <3>3
  <2>10. AccountInv'
    <3>1. SUFFICES ASSUME synchronized, spent.lost = 0, NEW t \in enabled
                   PROVE  Len(held'[t]) - committed'[t] = sent'[t] - audioPeriod
      BY <1>2, <2>1 DEF AccountInv
    <3>2. t \in Streams /\ Len(held[t]) - committed[t] = sent[t] - audioPeriod
      BY <1>1, <3>1 DEF PlaybackInv, AccountInv, BuffersOK
    <3>3. CASE t # s
      BY <1>2, <2>4, <3>2, <3>3
    <3>4. CASE t = s
      <4>1. Len(h) = l + FrameSamples /\ c = committed[s] /\ l = Len(held[s])
        BY <1>2, <2>2, <2>3, <2>5, <3>1 DEF l
      <4>2. /\ held'[s] = h /\ committed'[s] = c
            /\ sent'[s] = sent[s] + FrameSamples /\ sent[s] \in Nat
            /\ FrameSamples \in Nat /\ audioPeriod \in Nat
        BY <1>2, <2>4
      <4>3. l - committed[s] = sent[s] - audioPeriod
        BY <3>2, <3>4, <4>1
      <4>4. Len(h) - c = sent[s] + FrameSamples - audioPeriod
        <5>1. l + FrameSamples - committed[s] = sent[s] + FrameSamples - audioPeriod
          BY <2>3, <4>2, <4>3
        <5>2. QED
          BY <2>3, <4>1, <4>2, <5>1
      <4>5. QED
        BY <3>4, <4>2, <4>4
    <3>5. QED
      BY <3>3, <3>4
  <2>11. QED
    BY <1>3, <2>7, <2>8, <2>9, <2>10
<1>7. QED
  BY <1>4, <1>5, <1>6

LEMMA LostFrameKeeps ==
    ASSUME PlaybackInv, NEW s \in Streams, LostAudioFrame(s)
    PROVE  PointInv' /\ CommitInv' /\ ClockInv' /\ RecentInv' /\ AccountInv'
<1>1. /\ UNCHANGED <<enabled, held, committed, synchronized, audioPeriod, due>>
      /\ copying'
  BY DEF LostAudioFrame, WriteFrame, buffers
<1>2. spent'.lost # 0
  BY DEF LostAudioFrame, Spend, PlaybackInv, BuffersOK
<1>3. QED
  BY <1>1, <1>2
  DEF PlaybackInv, PointInv, AtPoint, CommitInv, ClockInv, RecentInv, AccountInv

LEMMA EndTurnKeeps ==
    ASSUME PlaybackInv, EndTurn
    PROVE  PointInv' /\ CommitInv' /\ ClockInv' /\ RecentInv' /\ AccountInv'
<1>1. /\ UNCHANGED <<held, committed, synchronized, audioPeriod, enabled, sent,
                     due, spent>>
      /\ turn \in Streams
      /\ turn' = IF turn = NumStreams /\ ~copying THEN VideoTurn ELSE turn + 1
  BY DEF EndTurn
<1>2. AtPoint' => AtPoint
  <2>1. SUFFICES ASSUME AtPoint'
                 PROVE  AtPoint
    OBVIOUS
  <2>2. Level /\ turn # SyncTurn
    BY <1>1, <2>1, TargetType DEF AtPoint, Level, PlaybackInv, Streams, SyncTurn
  <2>3. ~copying
    <3>1. SUFFICES ASSUME copying
                   PROVE  FALSE
      OBVIOUS
    <3>2. turn # NumStreams
      BY <1>1, <2>1, <3>1 DEF AtPoint, SyncTurn
    <3>3. NumStreams \in Streams /\ NumStreams > turn
      BY <1>1, <3>2, TargetType DEF PlaybackInv, Streams
    <3>4. PICK y \in Nat : RoundFrom(y)
      BY DEF PlaybackInv, Rounds
    <3>5. y < sent[turn] /\ sent[NumStreams] = y /\ sent[turn] \in Nat
      BY <1>1, <3>1, <3>3, <3>4 DEF RoundFrom, PlaybackInv, BuffersOK
    <3>6. QED
      BY <1>1, <2>2, <3>3, <3>5 DEF Level
  <2>4. QED
    BY <2>2, <2>3 DEF AtPoint
<1>3. QED
  BY <1>1, <1>2, BuffersAlone DEF PlaybackInv

LEMMA VideoKeeps ==
    ASSUME PlaybackInv, VideoSynchronization
    PROVE  PointInv' /\ CommitInv' /\ ClockInv' /\ RecentInv' /\ AccountInv'
<1>1. /\ UNCHANGED <<held, committed, synchronized, audioPeriod, enabled, sent,
                     due, spent>>
      /\ turn = VideoTurn
  BY DEF VideoSynchronization, buffers
<1>2. ~copying /\ Level
  BY PointKeepsRounds DEF PlaybackInv, VideoSynchronization
<1>3. AtPoint
  BY <1>1, <1>2, TargetType DEF AtPoint, PlaybackInv, SyncTurn, VideoTurn
<1>4. QED
  BY <1>1, <1>3, BuffersAlone DEF PlaybackInv

\* At a synchronization point, the file counts what arrived since the last one.
LEMMA PointKeeps ==
    ASSUME PlaybackInv, Delay = 0, AudioSynchronization
    PROVE  PointInv' /\ CommitInv' /\ ClockInv' /\ RecentInv' /\ AccountInv'
<1>1. BuffersOK
  BY DEF PlaybackInv
<1>2. /\ UNCHANGED <<enabled, videoPeriod, sent, copying, due, spent>>
      /\ turn' = VideoTurn
  BY DEF AudioSynchronization
<1>3. Level
  BY PointKeepsRounds DEF PlaybackInv, AudioSynchronization
<1>4. 1 \in Streams /\ NumStreams \in Streams
  BY <1>1, TargetType DEF Streams
<1>5. \A s \in Streams : audioPeriod' = sent[s]
  <2>1. sent[NumStreams] \in Nat
    BY <1>1, <1>4 DEF BuffersOK
  <2>2. EndPeriod(NumStreams) = sent[NumStreams]
    BY <2>1 DEF EndPeriod, Monus
  <2>3. audioPeriod' = EndPeriod(NumStreams)
    BY <1>1, <1>4, PointFacts
  <2>4. QED
    BY <1>3, <1>4, <2>2, <2>3 DEF Level
<1>6. \A s \in Streams : /\ committed'[s] = Len(held'[s])
                         /\ Len(held'[s]) <= Len(held[s])
                         /\ \E k \in Nat : held'[s] = Drop(held[s], k)
                         /\ held' \in [Streams -> Seq(Int)]
  BY <1>1, PointFacts
<1>7. PointInv'
  BY <1>2, <1>4, <1>5, <1>6 DEF PointInv
<1>8. CommitInv'
  <2>1. SUFFICES ASSUME NEW s \in Streams
                 PROVE  committed'[s] <= audioPeriod'
    BY DEF CommitInv
  <2>2. /\ Len(held[s]) \in Nat /\ Len(held[s]) <= sent[s] /\ sent[s] \in Nat
        /\ Len(held'[s]) \in Nat
    BY <1>1, <1>6, LenProperties DEF BuffersOK
  <2>3. QED
    BY <1>5, <1>6, <2>2
<1>9. ClockInv'
  <2>1. SUFFICES ASSUME synchronized', NEW s \in enabled
                 PROVE  audioPeriod' - committed'[s] = due[s]
    BY <1>2 DEF ClockInv
  <2>2. s \in Streams
    BY <1>1 DEF BuffersOK
  <2>3. synchronized /\ ~NeedSoftDesync /\ held' = held
    BY <1>1, <2>1, <2>2, PointFacts
  <2>4. audioPeriod' - audioPeriod = Len(held[s]) - committed[s]
    BY <1>1, <1>2, <2>3, PointFacts
    DEF NeedSoftDesync, SyncPeriod, NumUncommitted, AudioSynchronization
  <2>5. audioPeriod - committed[s] = due[s]
    BY <2>3 DEF PlaybackInv, ClockInv
  <2>6. /\ audioPeriod \in Nat /\ committed[s] \in Nat /\ Len(held[s]) \in Nat
        /\ audioPeriod' \in Nat
    BY <1>1, <1>4, <2>2, PointFacts, LenProperties DEF BuffersOK
  <2>7. committed'[s] = Len(held[s])
    BY <1>6, <2>2, <2>3
  <2>8. QED
    BY <2>4, <2>5, <2>6, <2>7
<1>10. RecentInv'
  BY <1>1, <1>2, <1>6, RecentAfterDrop DEF PlaybackInv
<1>11. AccountInv'
  <2>1. SUFFICES ASSUME NEW s \in enabled
                 PROVE  Len(held'[s]) - committed'[s] = sent[s] - audioPeriod'
    BY <1>2 DEF AccountInv
  <2>2. s \in Streams /\ sent[s] \in Nat /\ Len(held'[s]) \in Nat
    BY <1>1, <1>6, LenProperties DEF BuffersOK
  <2>3. QED
    BY <1>5, <1>6, <2>2
<1>12. QED
  BY <1>7, <1>8, <1>9, <1>10, <1>11

LEMMA ReadKeeps ==
    ASSUME PlaybackInv, NEW s \in Streams, NEW k \in Nat, ReadAudioSamples(s, k)
    PROVE  PointInv' /\ CommitInv' /\ ClockInv' /\ RecentInv' /\ AccountInv'
<1>1. BuffersOK
  BY DEF PlaybackInv
<1>2. PICK n \in Nat :
         /\ n <= committed[s]
         /\ held' = [held EXCEPT ![s] = Drop(held[s], n)]
         /\ committed' = [committed EXCEPT ![s] = committed[s] - n]
         /\ due' = [due EXCEPT ![s] = due[s] + n]
         /\ Drop(held[s], n) \in Seq(Int)
         /\ Len(Drop(held[s], n)) = Len(held[s]) - n
  BY <1>1, ReadFacts
<1>3. UNCHANGED <<enabled, synchronized, audioPeriod, videoPeriod, sent, turn,
                  copying, spent>>
  BY DEF ReadAudioSamples, fileVars
<1>4. \A t \in Streams : /\ held[t] \in Seq(Int) /\ committed[t] \in Nat
                         /\ Len(held[t]) \in Nat /\ sent[t] \in Nat
                         /\ due[t] \in Nat
                         /\ committed[t] <= Len(held[t])
  BY <1>1, LenProperties DEF BuffersOK
<1>5. \A t \in Streams :
         /\ held'[t] = IF t = s THEN Drop(held[s], n) ELSE held[t]
         /\ committed'[t] = IF t = s THEN committed[s] - n ELSE committed[t]
         /\ due'[t] = IF t = s THEN due[s] + n ELSE due[t]
  BY <1>1, <1>2 DEF BuffersOK
<1>6. audioPeriod \in Nat /\ enabled \subseteq Streams
  BY <1>1 DEF BuffersOK
<1>7. PointInv'
  <2>1. SUFFICES ASSUME AtPoint
                 PROVE  /\ \A t \in Streams : committed'[t] = Len(held'[t])
                        /\ \/ audioPeriod = sent[1]
                           \/ \A t \in Streams : held'[t] = <<>>
    BY <1>3 DEF PointInv, AtPoint, Level
  <2>2. /\ \A t \in Streams : committed[t] = Len(held[t])
        /\ \/ audioPeriod = sent[1]
           \/ \A t \in Streams : held[t] = <<>>
    BY <2>1 DEF PlaybackInv, PointInv
  <2>3. \A t \in Streams : committed'[t] = Len(held'[t])
    BY <1>2, <1>4, <1>5, <2>2
  <2>4. (\A t \in Streams : held[t] = <<>>) => \A t \in Streams : held'[t] = <<>>
    <3>1. ASSUME held[s] = <<>>
          PROVE  Drop(held[s], n) = <<>>
      BY <1>2, <1>4, <3>1, EmptySeq
    <3>2. QED
      BY <1>5, <3>1
  <2>5. QED
    BY <2>2, <2>3, <2>4
<1>8. CommitInv'
  <2>1. SUFFICES ASSUME NEW t \in Streams
                 PROVE  committed'[t] <= audioPeriod
    BY <1>3 DEF CommitInv
  <2>2. committed[t] <= audioPeriod
    BY DEF PlaybackInv, CommitInv
  <2>3. committed'[t] <= committed[t] /\ committed'[t] \in Int
    BY <1>2, <1>4, <1>5
  <2>4. QED
    BY <1>4, <1>6, <2>2, <2>3
<1>9. ClockInv'
  <2>1. SUFFICES ASSUME synchronized, NEW t \in enabled
                 PROVE  audioPeriod - committed'[t] = due'[t]
    BY <1>3 DEF ClockInv
  <2>2. t \in Streams /\ audioPeriod - committed[t] = due[t]
    BY <1>6, <2>1 DEF PlaybackInv, ClockInv
  <2>3. QED
    BY <1>2, <1>4, <1>5, <1>6, <2>2
<1>10. RecentInv'
  <2>1. \A t \in Streams : Drop(held[t], 0) = held[t]
    BY <1>4, SubSeqFull DEF Drop
  <2>2. \A t \in Streams : \E m \in Nat : held'[t] = Drop(held[t], m)
    BY <1>5, <2>1
  <2>3. QED
    BY <1>1, <1>3, <2>2, RecentAfterDrop DEF PlaybackInv
<1>11. AccountInv'
  <2>1. SUFFICES ASSUME synchronized, spent.lost = 0, NEW t \in enabled
                 PROVE  Len(held'[t]) - committed'[t] = sent[t] - audioPeriod
    BY <1>3 DEF AccountInv
  <2>2. t \in Streams /\ Len(held[t]) - committed[t] = sent[t] - audioPeriod
    BY <1>6, <2>1 DEF PlaybackInv, AccountInv
  <2>3. Len(held'[t]) - committed'[t] = Len(held[t]) - committed[t]
    BY <1>2, <1>4, <1>5, <2>2
  <2>4. QED
    BY <2>2, <2>3
<1>12. QED
  BY <1>7, <1>8, <1>9, <1>10, <1>11

LEMMA ToggleKeeps ==
    ASSUME PlaybackInv, NEW s \in Streams, SetAudioStreamEnabled(s)
    PROVE  PointInv' /\ CommitInv' /\ ClockInv' /\ RecentInv' /\ AccountInv'
<1>1. BuffersOK /\ audioPeriod \in Nat
  BY DEF PlaybackInv, BuffersOK
<1>2. /\ UNCHANGED <<audioPeriod, videoPeriod, sent, turn, copying, due>>
      /\ spent'.lost = spent.lost
  BY DEF SetAudioStreamEnabled, fileVars, Spend, PlaybackInv, BuffersOK
<1>3. CASE s \notin enabled
  BY <1>1, <1>2, <1>3, DesyncEmpties, EmptiedKeeps DEF SetAudioStreamEnabled
<1>4. CASE s \in enabled
  <2>1. /\ enabled' = enabled \ {s} /\ synchronized' = synchronized
        /\ Len(<<>>) = 0
        /\ \A t \in Streams :
              /\ held'[t] = IF t = s THEN <<>> ELSE held[t]
              /\ committed'[t] = IF t = s THEN 0 ELSE committed[t]
    BY <1>1, <1>4, EmptySeq DEF SetAudioStreamEnabled, BuffersOK
  <2>2. PointInv'
    BY <1>2, <2>1 DEF PlaybackInv, PointInv, AtPoint, Level
  <2>3. CommitInv'
    BY <1>1, <1>2, <2>1 DEF PlaybackInv, CommitInv
  <2>4. ClockInv'
    BY <1>1, <1>2, <2>1 DEF PlaybackInv, ClockInv, BuffersOK
  <2>5. RecentInv'
    BY <1>2, <2>1 DEF PlaybackInv, RecentInv
  <2>6. AccountInv'
    BY <1>1, <1>2, <2>1 DEF PlaybackInv, AccountInv, BuffersOK
  <2>7. QED
    BY <2>2, <2>3, <2>4, <2>5, <2>6
<1>5. QED
  BY <1>3, <1>4

\* Playback starts where the clock is: nothing is committed that the last point
\* does not account for, and without delay nothing is truncated.
LEMMA SynchronizeKeeps ==
    ASSUME PlaybackInv, SynchronizeAudioPlayback
    PROVE  PointInv' /\ CommitInv' /\ ClockInv' /\ RecentInv' /\ AccountInv'
<1>1. BuffersOK /\ audioPeriod \in Nat /\ enabled \subseteq Streams
  BY DEF PlaybackInv, BuffersOK
<1>2. UNCHANGED <<enabled, audioPeriod, videoPeriod, sent, turn, copying, spent>>
  BY DEF SynchronizeAudioPlayback, fileVars
<1>3. /\ enabled # {} /\ ~synchronized /\ turn = 1 /\ ~copying
      /\ First(enabled) \in enabled
      /\ Truncated \in Nat /\ AudioTime \in Nat /\ NumCommitted \in Nat
      /\ StartPoint \in Nat /\ (Synchronizable => TotalTrim \in Nat)
  BY <1>1, FirstFacts, TrimFacts DEF SynchronizeAudioPlayback, AtVideoSync
<1>4. PICK S \in SUBSET Streams, n \in Nat : SkipAll(S, n)
  <2>1. Agreeing \subseteq Streams
    BY <1>1 DEF Agreeing
  <2>2. QED
    BY <1>1, <1>3, <2>1 DEF SynchronizeAudioPlayback
<1>5. \A s \in Streams :
         /\ \E k \in Nat : k <= n /\ held'[s] = Drop(held[s], k)
         /\ s \in S => /\ Len(held'[s]) = Monus(Len(held[s]), n)
                       /\ committed'[s] = Monus(committed[s], n)
         /\ s \notin S => held'[s] = held[s] /\ committed'[s] = committed[s]
         /\ committed'[s] <= committed[s] /\ committed'[s] \in Nat
         /\ held'[s] \in Seq(Int)
         /\ Len(held'[s]) <= Len(held[s])
  BY <1>1, <1>4, SkipAllFacts
<1>6. \A s \in Streams : /\ held[s] \in Seq(Int) /\ committed[s] \in Nat
                         /\ Len(held[s]) \in Nat /\ sent[s] \in Nat
                         /\ committed[s] <= audioPeriod
  BY <1>1, LenProperties DEF BuffersOK, PlaybackInv, CommitInv
<1>7. PointInv'
  <2>1. SUFFICES ASSUME AtPoint
                 PROVE  /\ \A t \in Streams : committed'[t] = Len(held'[t])
                        /\ \/ audioPeriod = sent[1]
                           \/ \A t \in Streams : held'[t] = <<>>
    BY <1>2 DEF PointInv, AtPoint, Level
  <2>2. /\ \A t \in Streams : committed[t] = Len(held[t])
        /\ \/ audioPeriod = sent[1]
           \/ \A t \in Streams : held[t] = <<>>
    BY <2>1 DEF PlaybackInv, PointInv
  <2>3. \A t \in Streams : committed'[t] = Len(held'[t])
    BY <1>5, <2>2
  <2>4. ASSUME NEW t \in Streams, held[t] = <<>>
        PROVE  held'[t] = <<>>
    <3>1. Len(held'[t]) <= 0 /\ Len(held'[t]) \in Nat
      BY <1>5, <2>4, EmptySeq, LenProperties
    <3>2. QED
      BY <1>5, <3>1, EmptySeq
  <2>5. QED
    BY <2>2, <2>3, <2>4
<1>8. CommitInv'
  BY <1>1, <1>2, <1>5, <1>6 DEF CommitInv
<1>9. RecentInv'
  BY <1>1, <1>2, <1>5, RecentAfterDrop DEF PlaybackInv
<1>10. CASE ~Synchronizable
  <2>1. ~synchronized'
    BY <1>3, <1>10 DEF SynchronizeAudioPlayback
  <2>2. QED
    BY <1>7, <1>8, <1>9, <2>1 DEF ClockInv, AccountInv
<1>11. CASE Synchronizable
  <2>1. /\ SkipAll(enabled, TotalTrim) /\ synchronized'
        /\ due' = [s \in Streams |-> AudioTime]
        /\ Agreeing = enabled /\ StartPoint <= AudioTime
        /\ audioPeriod > AudioTime
    BY <1>11 DEF SynchronizeAudioPlayback, Synchronizable
  <2>2. \A s \in enabled : s \in Streams /\ committed[s] = NumCommitted
    <3>1. \A s \in enabled : s <= s /\ s \in Streams
      BY <1>1 DEF Streams
    <3>2. QED
      BY <2>1, <3>1 DEF Agreeing
  <2>3. NumCommitted <= audioPeriod
    BY <1>3, <1>6, <2>2
  <2>4. /\ Truncated = 0 /\ StartPoint = audioPeriod - NumCommitted
        /\ TotalTrim = AudioTime - audioPeriod + NumCommitted
        /\ TotalTrim \in Nat /\ TotalTrim <= NumCommitted
    BY <1>1, <1>3, <1>11, <2>1, <2>3
    DEF Truncated, StartPoint, TotalTrim, Monus
  <2>5. \A s \in enabled : committed'[s] = audioPeriod - AudioTime
    <3>1. \A s \in enabled : committed'[s] = Monus(committed[s], TotalTrim)
      BY <1>1, <2>1, <2>2, <2>4, SkipAllFacts
    <3>2. Monus(NumCommitted, TotalTrim) = audioPeriod - AudioTime
      BY <1>1, <1>3, <2>4 DEF Monus
    <3>3. QED
      BY <2>2, <3>1, <3>2
  <2>6. ClockInv'
    <3>1. \A s \in enabled : audioPeriod - committed'[s] = due'[s]
      BY <1>1, <1>3, <2>1, <2>2, <2>5
    <3>2. QED
      BY <1>2, <3>1 DEF ClockInv
  <2>7. Level
    <3>1. PICK y \in Nat : RoundFrom(y)
      BY DEF PlaybackInv, Rounds
    <3>2. \A s \in Streams : sent[s] = y
      BY <1>3, <3>1 DEF RoundFrom, Streams
    <3>3. QED
      BY <3>2 DEF Level
  <2>8. AtPoint
    BY <1>1, <1>3, <2>7, TargetType DEF AtPoint, SyncTurn
  <2>9. AccountInv'
    <3>1. SUFFICES ASSUME NEW s \in enabled
                   PROVE  Len(held'[s]) - committed'[s] = sent[s] - audioPeriod
      BY <1>2 DEF AccountInv
    <3>2. NumCommitted > 0
      BY <1>1, <1>3, <2>1, <2>3, <2>4
    <3>3. s \in Streams /\ committed[s] = Len(held[s]) /\ held[s] # <<>>
      BY <2>2, <2>8, <3>2, EmptySeq DEF PlaybackInv, PointInv
    <3>4. audioPeriod = sent[s]
      <4>1. 1 \in Streams
        BY <1>1, TargetType DEF Streams
      <4>2. QED
        BY <2>7, <2>8, <3>3, <4>1 DEF PlaybackInv, PointInv, Level
    <3>5. committed'[s] = Len(held'[s])
      BY <1>2, <1>7, <2>8, <3>3 DEF PointInv, AtPoint, Level
    <3>6. QED
      BY <1>1, <1>5, <3>3, <3>4, <3>5
  <2>10. QED
    BY <1>7, <1>8, <1>9, <2>6, <2>9
<1>12. QED
  BY <1>10, <1>11

LEMMA PlaybackKept ==
    ASSUME PlaybackInv, Delay = 0, [Next]_vars
    PROVE  PlaybackInv'
<1>1. BuffersOK' /\ Rounds' /\ BuffersOK
  BY TypesKept, RoundsKept DEF PlaybackInv
<1> DEFINE Kept == PointInv' /\ CommitInv' /\ ClockInv' /\ RecentInv' /\ AccountInv'
<1>2. ASSUME NEW s \in Streams, BadAudioFrame(s)
      PROVE  Kept
  BY <1>1, <1>2, DesyncEmpties, EmptiedKeeps DEF BadAudioFrame
<1>3. ASSUME BadAudioSynchronization \/ NotifyAudioPlaybackUnderrun
      PROVE  Kept
  <2>1. DesyncAudio /\ audioPeriod' = audioPeriod
    BY <1>3 DEF BadAudioSynchronization, NotifyAudioPlaybackUnderrun
  <2>2. QED
    BY <1>1, <2>1, DesyncEmpties, EmptiedKeeps
<1>4. ASSUME UNCHANGED vars
      PROVE  Kept
  <2>1. /\ UNCHANGED <<held, committed, synchronized, audioPeriod, enabled, sent,
                       due, spent>>
        /\ UNCHANGED <<turn, copying>>
    BY <1>4 DEF vars
  <2>2. AtPoint' => AtPoint
    BY <2>1 DEF AtPoint, Level
  <2>3. QED
    BY <2>1, <2>2, BuffersAlone DEF PlaybackInv
<1>5. Kept
  BY <1>2, <1>3, <1>4, FrameKeeps, LostFrameKeeps, EndTurnKeeps, VideoKeeps,
     PointKeeps, ReadKeeps, ToggleKeeps, SynchronizeKeeps, AudioSyncAssumption
  DEF Next, Digest, Player
<1>6. QED
  BY <1>1, <1>5 DEF PlaybackInv

LEMMA PlaybackStarts ==
    Init => PlaybackInv
<1> SUFFICES ASSUME Init PROVE PlaybackInv
  OBVIOUS
<1>1. /\ NumStreams \in Nat \ {0} /\ ReadAhead \in Nat /\ MaxPeriods \in Nat
      /\ Len(<<>>) = 0 /\ <<>> \in Seq(Int)
  BY AudioSyncAssumption, EmptySeq
<1>2. \A s \in Streams : /\ held[s] = <<>> /\ Len(held[s]) = 0
                         /\ committed[s] = 0 /\ sent[s] = 0
  BY <1>1 DEF Init
<1>3. audioPeriod \in Nat
  BY AudioSyncAssumption DEF Init
<1>4. BuffersOK
  <2>1. /\ held \in [Streams -> Seq(Int)] /\ committed \in [Streams -> Nat]
        /\ sent \in [Streams -> Nat] /\ due \in [Streams -> Nat]
    BY <1>1 DEF Init
  <2>2. spent \in [{"bad", "lost", "toggles"} -> Nat]
    BY DEF Init
  <2>3. turn \in 1 .. VideoTurn /\ turn = 1
    BY <1>1 DEF Init, VideoTurn
  <2>4. /\ enabled = {} /\ synchronized \in BOOLEAN /\ copying \in BOOLEAN
        /\ videoPeriod = 0
    BY DEF Init
  <2>5. \A s \in Streams : /\ Len(held[s]) <= ReadAhead
                           /\ Len(held[s]) <= sent[s]
                           /\ committed[s] <= Len(held[s])
                           /\ s \notin enabled => held[s] = <<>>
    BY <1>1, <1>2
  <2>6. QED
    BY <1>1, <1>3, <2>1, <2>2, <2>3, <2>4, <2>5 DEF BuffersOK
<1>5. RoundFrom(0)
  <2>1. WholeFrames(0)
    <3>1. 0 = 0 * FrameSamples
      BY AudioSyncAssumption
    <3>2. QED
      BY <3>1 DEF WholeFrames
  <2>2. QED
    BY <1>1, <1>2, <2>1 DEF Init, RoundFrom, Streams
<1>6. PointInv /\ CommitInv /\ ClockInv /\ RecentInv /\ AccountInv
  BY <1>2, <1>3
  DEF Init, PointInv, CommitInv, ClockInv, RecentInv, AccountInv
<1>7. QED
  BY <1>4, <1>5, <1>6 DEF PlaybackInv, Rounds

-----------------------------------------------------------------------------
\* Whatever the delay, no buffer ever holds more than it has room for, and none
\* has more committed than it holds.
THEOREM BuffersNeverOverflow == Spec => []TypeOK
<1>1. Init => BuffersOK
  BY PlaybackStarts DEF PlaybackInv
<1>2. BuffersOK /\ [Next]_vars => BuffersOK'
  BY TypesKept
<1>3. BuffersOK => TypeOK
  BY LenProperties DEF BuffersOK, TypeOK
<1>4. QED
  BY <1>1, <1>2, <1>3, PTL DEF Spec

\* The muxer serves the streams in rounds: at every synchronization point and
\* video frame all of them have been written equally far, which is why one
\* period can stand for all streams.
StreamsLevel == turn \notin Streams => Level

THEOREM RoundsStayLevel == Spec => []StreamsLevel
<1>1. Init => BuffersOK /\ Rounds
  BY PlaybackStarts DEF PlaybackInv
<1>2. BuffersOK /\ Rounds /\ [Next]_vars => BuffersOK' /\ Rounds'
  BY TypesKept, RoundsKept
<1>3. Rounds => StreamsLevel
  BY DEF Rounds, RoundFrom, StreamsLevel, Level
<1>4. QED
  BY <1>1, <1>2, <1>3, PTL DEF Spec

LEMMA PlaybackInvariant ==
    ASSUME Delay = 0
    PROVE  Spec => []PlaybackInv
<1>1. Init => PlaybackInv
  BY PlaybackStarts
<1>2. PlaybackInv /\ [Next]_vars => PlaybackInv'
  BY PlaybackKept
<1>3. QED
  BY <1>1, <1>2, PTL DEF Spec

\* For codecs without a start delay: while audio is synchronized, the last
\* period minus what is committed is the player's position in every enabled
\* stream, through losses, damage, underruns and streams being toggled.
THEOREM PlaybackKeepsTime ==
    ASSUME Delay = 0
    PROVE  Spec => []PlaybackClock
<1>1. BuffersOK => TypeOK
  BY LenProperties DEF BuffersOK, TypeOK
<1>2. PlaybackInv => PlaybackClock
  BY <1>1 DEF PlaybackInv, PlaybackClock, ClockInv
<1>3. QED
  BY <1>2, PlaybackInvariant, PTL

\* For codecs without a start delay, and as long as no frame was lost unnoticed:
\* every committed sample is the one that belongs at its place.
THEOREM PlaybackStaysAligned ==
    ASSUME Delay = 0
    PROVE  Spec => []PlaybackAligned
<1>1. PlaybackInv => PlaybackAligned
  <2>1. SUFFICES ASSUME PlaybackInv, synchronized, spent.lost = 0,
                        NEW s \in enabled, NEW i \in 1 .. committed[s]
                 PROVE  held[s][i] = due[s] + i - 1
    BY DEF PlaybackAligned
  <2>2. /\ s \in Streams /\ committed[s] \in Nat /\ sent[s] \in Nat
        /\ Len(held[s]) \in Nat /\ committed[s] <= Len(held[s])
        /\ audioPeriod \in Nat /\ due[s] \in Nat
    BY <2>1, LenProperties DEF PlaybackInv, BuffersOK
  <2>3. i \in 1 .. Len(held[s]) /\ i \in Nat
    BY <2>2
  <2>4. held[s][i] = sent[s] - Delay - Len(held[s]) + i - 1
    BY <2>1, <2>2, <2>3 DEF PlaybackInv, RecentInv
  <2>5. Len(held[s]) - committed[s] = sent[s] - audioPeriod
    BY <2>1 DEF PlaybackInv, AccountInv
  <2>6. audioPeriod - committed[s] = due[s]
    BY <2>1 DEF PlaybackInv, ClockInv
  <2>7. sent[s] - Len(held[s]) = due[s]
    BY <2>2, <2>5, <2>6
  <2>8. sent[s] - Delay - Len(held[s]) + i - 1 = due[s] + i - 1
    BY <2>2, <2>3, <2>7
  <2>9. QED
    BY <2>4, <2>8
<1>2. QED
  BY <1>1, PlaybackInvariant, PTL
=============================================================================
