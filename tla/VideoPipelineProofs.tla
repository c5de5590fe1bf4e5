------------------------- MODULE VideoPipelineProofs -------------------------
(***************************************************************************)
(* Proofs about threaded decoding, for frames of any size and any number   *)
(* of slices that begin at rows, whether they are damaged, break off or    *)
(* run on, and whether pictures are refused between them.                  *)
(*                                                                         *)
(* The pools are known from their own modules: what is shown here is that  *)
(* the main thread and the deslicers use them as those modules assume, so  *)
(* that their invariants hold here.  What is left is what the joins are    *)
(* for: where the main thread is tells whether a slice may be under way,   *)
(* and a committed row is a parsed one.                                    *)
(***************************************************************************)
EXTENDS VideoPipeline, TLAPS

\* The pools with what is proved about them; the memory of jobs is not used.
RP == INSTANCE RowJobsProofs
        WITH MaxCommits <- NumSlices * (MaxRefused + 1),
             stage <- rowStage, at <- rowAt
SP == INSTANCE SliceJobsProofs
        WITH MaxJobs <- NumSlices, stage <- jobStage, at <- jobAt,
             Sizes <- {}, InitialCapacity <- 0, MaxDemand <- 0,
             memCapacity <- 0, memRemaining <- 0, nextCapacity <- 0,
             block <- <<>>, learned <- 0

\* Every slice begins at a row.
SlicesAligned == \A s \in 1 .. NumSlices - 1 : SliceEnd[s] % MBWidth = 0

-----------------------------------------------------------------------------
(* The pools.                                                              *)

LEMMA SomeSlices == NumSlices \in Nat \ {0}
<1> QED BY PipelineAssumption DEF NumSlices

LEMMA RefusedBound == MaxRefused \in Nat
<1> QED BY PipelineAssumption

LEMMA Times ==
    ASSUME NEW a \in Nat \ {0}, NEW b \in Nat
    PROVE  a * (b + 1) \in Nat \ {0}
<1> QED BY Z3

LEMMA RowAssumptions == RP!RowsAssumption /\ RP!CommitsAssumption
<1>1. NumSlices * (MaxRefused + 1) \in Nat \ {0}
    BY RefusedBound, SomeSlices, Times
<1> QED BY <1>1, PipelineAssumption DEF RP!RowsAssumption, RP!CommitsAssumption

LEMMA SliceAssumptions == SP!JobsAssumption /\ SP!MemoryAssumption
<1> QED BY SomeSlices DEF SP!JobsAssumption, SP!MemoryAssumption

LEMMA RowInit == R!Init => RP!IInv
<1>1. R!Init => RP!Init
    BY DEF R!Init, RP!Init, R!Rows, RP!Rows
<1> QED BY <1>1, RP!InitIInv, RowAssumptions

LEMMA RowStep == RP!IInv /\ [R!Next]_rowVars => RP!IInv'
<1>1. [R!Next]_rowVars => [RP!Next]_RP!vars
    BY DEF R!Next, RP!Next, rowVars, RP!vars, R!Rows, RP!Rows,
       R!CommitRow, RP!CommitRow, R!NotifyAvailable, RP!NotifyAvailable,
       R!Participate, RP!Participate, R!Begin, RP!Begin, R!GoOn, RP!GoOn,
       R!SkipUncommitted, RP!SkipUncommitted, R!FindCommitted, RP!FindCommitted,
       R!Claim, RP!Claim, R!Beaten, RP!Beaten, R!ReconstructRow, RP!ReconstructRow,
       R!DigestFinished, RP!DigestFinished, R!ReconFinished, RP!ReconFinished,
       R!StartNewFrame, RP!StartNewFrame, R!OpenFrame, RP!OpenFrame,
       R!StartDroppedFrame, RP!StartDroppedFrame,
       R!CloseForDropped, RP!CloseForDropped, R!RefusePicture, RP!RefusePicture,
       R!PresentFrame, RP!PresentFrame, R!WaitForFinish, RP!WaitForFinish
<1> QED BY <1>1, RP!NextIInv, RowAssumptions

LEMMA SliceInit == S!Init => SP!IInv
<1>1. S!Init => SP!Init
    BY DEF S!Init, SP!Init, S!Jobs, SP!Jobs
<1> QED BY <1>1, SP!InitIInv, SliceAssumptions

LEMMA SliceStep == SP!IInv /\ [S!Next]_sliceVars => SP!IInv'
<1>1. [S!Next]_sliceVars => [SP!Next]_SP!vars
    BY DEF S!Next, SP!Next, sliceVars, SP!vars, S!Jobs, SP!Jobs,
       S!PushJob, SP!PushJob, S!NotifyAvailable, SP!NotifyAvailable,
       S!BeginDirectly, SP!BeginDirectly, S!EndDirectly, SP!EndDirectly,
       S!Participate, SP!Participate, S!Begin, SP!Begin, S!Claim, SP!Claim,
       S!Beaten, SP!Beaten, S!EndDigest, SP!EndDigest, S!Joined, SP!Joined,
       S!WaitForDigestFinish, SP!WaitForDigestFinish
<1> QED BY <1>1, SP!NextIInv, SliceAssumptions

\* What the invariants of the pools say here.
LEMMA RowFacts ==
    ASSUME RP!IInv
    PROVE  /\ R!TypeOK
           /\ \A p \in R!Rows : rowStage[p] = "working" =>
                rowAt[p] \in R!Rows /\ commits[rowAt[p]] # 0
           /\ \A p, q \in R!Rows, r \in R!Rows : R!Has(p, r) /\ R!Has(q, r) => p = q
           /\ \A r \in R!Rows : commits[r] = 0 => rowStage[r] = "none"
           /\ R!ReconFinished /\ R!DigestFinished =>
                \A r \in R!Rows : commits[r] # 0 => \E p \in R!Rows : R!Has(p, r)
<1>1. R!TypeOK
    BY RP!TypesBounded, RowAssumptions
    DEF RP!TypeOK, R!TypeOK, RP!Rows, R!Rows, RP!Phases, R!Phases, RP!Stages, R!Stages
<1>2. \A p \in R!Rows : rowStage[p] = "working" => commits[rowAt[p]] # 0
    BY <1>1 DEF RP!IInv, RP!RowsExclusive, RP!Has, RP!Committed, RP!Rows, R!Rows, R!TypeOK
<1>3. R!ReconFinished /\ R!DigestFinished =>
        \A r \in R!Rows : commits[r] # 0 => \E p \in R!Rows : R!Has(p, r)
    BY RP!JoinedMeansReconstructed, RowAssumptions
    DEF RP!JoinMeansReconstructed, RP!ReconFinished, RP!DigestFinished, RP!Committed,
        RP!Has, R!ReconFinished, R!DigestFinished, R!Has, RP!Rows, R!Rows
<1>4. \A p, q \in R!Rows, r \in R!Rows : R!Has(p, r) /\ R!Has(q, r) => p = q
    BY DEF RP!IInv, RP!RowsExclusive, RP!Has, R!Has, RP!Rows, R!Rows
<1>5. \A r \in R!Rows : commits[r] = 0 => rowStage[r] = "none"
    BY DEF RP!IInv, RP!ParticipationPerCommit, RP!Rows, R!Rows
<1> QED BY <1>1, <1>2, <1>3, <1>4, <1>5 DEF R!TypeOK

LEMMA SliceFacts ==
    ASSUME SP!IInv
    PROVE  /\ S!TypeOK
           /\ \A p \in S!Jobs : jobStage[p] = "digesting" => jobAt[p] \in 1 .. top
           /\ dispatcher = "pushed" => top \in S!Jobs /\ jobStage[top] = "none"
<1>1. S!TypeOK
    BY SP!TypesBounded, SliceAssumptions
    DEF SP!TypeOK, S!TypeOK, SP!Jobs, S!Jobs, SP!Stages, S!Stages
<1>2. \A p \in S!Jobs : jobStage[p] = "digesting" => jobAt[p] \in 1 .. top
    BY DEF SP!IInv, SP!OnTheStack, SP!Started, SP!Jobs, S!Jobs
<1>3. dispatcher = "pushed" => top \in S!Jobs /\ jobStage[top] = "none"
    BY <1>1, SomeSlices DEF SP!IInv, SP!AskedPerJob, S!TypeOK, S!Jobs
<1> QED BY <1>1, <1>2, <1>3

-----------------------------------------------------------------------------
(* Macroblocks and rows.                                                   *)

LEMMA Division ==
    ASSUME NEW a \in Nat, NEW w \in Nat \ {0}
    PROVE  /\ a \div w \in Nat /\ a % w \in Nat
           /\ w * (a \div w) <= a /\ a < w * (a \div w) + w
           /\ a % w = a - w * (a \div w)
<1> QED BY Z3

LEMMA Exact ==
    ASSUME NEW a \in Nat, NEW w \in Nat \ {0}
    PROVE  a % w = 0 <=> w * (a \div w) = a
<1> DEFINE p == w * (a \div w)
<1>1. a % w = a - p /\ p \in Int
    <2>1. a \div w \in Nat /\ a % w = a - p
        BY Division
    <2> QED BY <2>1, Z3
<1> HIDE DEF p
<1> QED BY <1>1 DEF p

\* Quotients are told apart by the multiples between them.
LEMMA Multiples ==
    ASSUME NEW i \in Nat, NEW k \in Nat, NEW w \in Nat \ {0}
    PROVE  /\ w * i \in Nat
           /\ i < k => w * i + w <= w * k
<1>1. w * (i + 1) = w * i + w
    BY Z3
<1>2. ASSUME i < k PROVE w * (i + 1) <= w * k
    BY <1>2, Z3
<1> QED BY <1>1, <1>2, Z3

LEMMA Quotient ==
    ASSUME NEW a \in Nat, NEW k \in Nat, NEW w \in Nat \ {0},
           w * k <= a, a < w * k + w
    PROVE  a \div w = k
<1> DEFINE q == a \div w
<1>1. q \in Nat /\ w * q <= a /\ a < w * q + w
    BY Division
<1> HIDE DEF q
<1>2. w * q \in Nat /\ w * k \in Nat
    BY <1>1, Multiples
<1>3. ~(q < k)
    BY <1>1, <1>2, Multiples
<1>4. ~(k < q)
    BY <1>1, <1>2, Multiples
<1> QED BY <1>1, <1>3, <1>4 DEF q

LEMMA RowOfMacroBlock ==
    ASSUME NEW mb \in 0 .. NumMB - 1
    PROVE  RowOf(mb) \in R!Rows
<1> DEFINE q == mb \div MBWidth
<1>1. MBWidth \in Nat \ {0} /\ NumRows \in Nat \ {0}
    BY PipelineAssumption
<1>2. mb \in Nat /\ mb < MBWidth * NumRows
    BY <1>1 DEF NumMB
<1>3. q \in Nat /\ MBWidth * q <= mb
    BY <1>1, <1>2, Division
<1> HIDE DEF q
<1>4. q < NumRows
    <2> SUFFICES ASSUME ~(q < NumRows) PROVE FALSE
        OBVIOUS
    <2>1. q = NumRows \/ NumRows < q
        BY <1>1, <1>3
    <2>2. CASE q = NumRows
        BY <1>1, <1>2, <1>3, <2>2
    <2>3. CASE NumRows < q
        <3>1. MBWidth * NumRows + MBWidth <= MBWidth * q
            BY <1>1, <1>3, <2>3, Multiples
        <3>2. MBWidth * NumRows \in Nat /\ MBWidth * q \in Nat
            BY <1>1, <1>3, Multiples
        <3> QED BY <1>1, <1>2, <1>3, <3>1, <3>2
    <2> QED BY <2>1, <2>2, <2>3
<1> QED BY <1>1, <1>3, <1>4 DEF R!Rows, RowOf, q

\* The last macroblock of a row.
LEMMA RowHasLast ==
    ASSUME NEW r \in R!Rows
    PROVE  \E mb \in 0 .. NumMB - 1 : RowOf(mb) = r /\ LastOfRow(mb)
<1> DEFINE last == MBWidth * r + MBWidth - 1
<1>1. MBWidth \in Nat \ {0} /\ NumRows \in Nat \ {0} /\ r \in Nat /\ r < NumRows
    BY PipelineAssumption DEF R!Rows
<1>2. MBWidth * r \in Nat /\ MBWidth * r + MBWidth <= MBWidth * NumRows
    BY <1>1, Multiples
<1>3. MBWidth * NumRows = NumMB /\ NumMB \in Nat
    BY <1>1, <1>2 DEF NumMB
<1>4. last \in 0 .. NumMB - 1 /\ last \in Nat
    BY <1>1, <1>2, <1>3
<1>5. RowOf(last) = r
    BY <1>1, <1>2, <1>4, Quotient DEF RowOf
<1>6. LastOfRow(last)
    <2>1. last + 1 = MBWidth * (r + 1) /\ MBWidth * (r + 1) \in Nat
        BY <1>1, <1>2, Z3
    <2>2. (MBWidth * (r + 1)) \div MBWidth = r + 1
        BY <1>1, <2>1, Quotient
    <2>3. (MBWidth * (r + 1)) % MBWidth = 0
        BY <1>1, <2>1, <2>2, Exact
    <2> QED BY <2>1, <2>3 DEF LastOfRow
<1> QED BY <1>4, <1>5, <1>6

\* The macroblocks of a row whose last one a slice has reached are those from the
\* slice's beginning on, if it begins at a row.
LEMMA RowBeforeLast ==
    ASSUME NEW mb \in Nat, NEW x \in Nat, NEW from \in Nat,
           LastOfRow(mb), RowOf(x) = RowOf(mb), from <= mb, from % MBWidth = 0
    PROVE  from <= x /\ x <= mb
<1> DEFINE q == mb \div MBWidth
           f == from \div MBWidth
           n == (mb + 1) \div MBWidth
<1>1. MBWidth \in Nat \ {0}
    BY PipelineAssumption
<1>2. q \in Nat /\ MBWidth * q <= mb /\ mb < MBWidth * q + MBWidth /\ MBWidth * q \in Nat
    BY <1>1, Division, Multiples
<1>3. n \in Nat /\ MBWidth * n = mb + 1
    BY <1>1, Division, Exact DEF LastOfRow
<1>4. f \in Nat /\ MBWidth * f = from
    BY <1>1, Division, Exact
<1>5. x \div MBWidth = q /\ MBWidth * q <= x /\ x < MBWidth * q + MBWidth
    BY <1>1, Division DEF RowOf
<1> HIDE DEF q, f, n
<1>6. x <= mb
    <2>1. q < n
        <3> SUFFICES ASSUME n <= q PROVE FALSE
            BY <1>2, <1>3
        <3>1. MBWidth * n <= MBWidth * q
            BY <1>1, <1>2, <1>3, Multiples
        <3> QED BY <1>2, <1>3, <3>1
    <2>2. MBWidth * q + MBWidth <= MBWidth * n
        BY <1>1, <1>2, <1>3, <2>1, Multiples
    <2> QED BY <1>1, <1>2, <1>3, <1>5, <2>2
<1>7. from <= x
    <2>1. f <= q
        <3> SUFFICES ASSUME q < f PROVE FALSE
            BY <1>2, <1>4
        <3>1. MBWidth * q + MBWidth <= MBWidth * f
            BY <1>1, <1>2, <1>4, Multiples
        <3> QED BY <1>1, <1>2, <1>4, <3>1
    <2>2. MBWidth * f <= MBWidth * q
        BY <1>1, <1>2, <1>4, <2>1, Multiples
    <2> QED BY <1>2, <1>4, <1>5, <2>2
<1> QED BY <1>6, <1>7

\* A macroblock less what it is in its row begins that row.
LEMMA RowBegins ==
    ASSUME NEW a \in Nat
    PROVE  /\ a - (a % MBWidth) \in Nat /\ a - (a % MBWidth) <= a
           /\ (a - (a % MBWidth)) % MBWidth = 0
           /\ a % MBWidth = 0 => a - (a % MBWidth) = a
<1> DEFINE q == a \div MBWidth
           b == MBWidth * q
<1>1. MBWidth \in Nat \ {0}
    BY PipelineAssumption
<1>2. q \in Nat /\ b \in Nat /\ b <= a /\ a % MBWidth = a - b
    BY <1>1, Division, Multiples
<1>3. a - (a % MBWidth) = b
    <2> HIDE DEF b
    <2> QED BY <1>2
<1>4. b % MBWidth = 0
    <2>1. b \div MBWidth = q
        <3> HIDE DEF q
        <3>1. MBWidth * q <= b /\ b < MBWidth * q + MBWidth
            BY <1>1, <1>2
        <3> QED BY <1>1, <1>2, <3>1, Quotient
    <2>2. MBWidth * (b \div MBWidth) = b
        BY <2>1
    <2> QED BY <1>1, <1>2, <2>2, Exact
<1> HIDE DEF b, q
<1> QED BY <1>2, <1>3, <1>4

LEMMA SliceBounds ==
    ASSUME NEW s \in Slices
    PROVE  /\ SliceFirst(s) \in Nat /\ SliceStart(s) \in Nat /\ SliceEnd[s] \in Nat
           /\ SliceStart(s) <= SliceFirst(s) /\ SliceFirst(s) < SliceEnd[s]
           /\ SliceStart(s) < SliceEnd[s] /\ SliceEnd[s] <= NumMB
           /\ NumMB \in Nat
           /\ SliceStart(s) % MBWidth = 0
           /\ SlicesAligned => SliceStart(s) = SliceFirst(s)
<1>1. /\ s \in 1 .. NumSlices /\ MBWidth \in Nat \ {0} /\ NumRows \in Nat \ {0}
      /\ \A t \in 1 .. NumSlices : SliceEnd[t] \in 1 .. NumMB
      /\ \A t, u \in 1 .. NumSlices : t < u => SliceEnd[t] < SliceEnd[u]
    <2>1. \A t \in 1 .. Len(SliceEnd) : SliceEnd[t] \in 1 .. NumMB
        <3> DEFINE M == 1 .. NumMB
        <3>1. SliceEnd \in Seq(M)
            BY PipelineAssumption
        <3> HIDE DEF M
        <3>2. \A t \in 1 .. Len(SliceEnd) : SliceEnd[t] \in M
            BY <3>1
        <3> QED BY <3>2 DEF M
    <2> QED BY <2>1, PipelineAssumption DEF Slices, NumSlices
<1>2. NumMB \in Nat
    BY <1>1, Multiples DEF NumMB
<1>3. /\ SliceFirst(s) \in Nat /\ SliceFirst(s) < SliceEnd[s]
      /\ SlicesAligned => SliceFirst(s) % MBWidth = 0
    <2>1. CASE s = 1
        <3>1. 0 % MBWidth = 0
            BY <1>1
        <3> QED BY <1>1, <1>2, <2>1, <3>1 DEF SliceFirst
    <2>2. CASE s # 1
        <3>1. s - 1 \in 1 .. NumSlices - 1 /\ s - 1 \in 1 .. NumSlices /\ s - 1 < s
            BY <1>1, <2>2, SomeSlices
        <3>2. SliceEnd[s - 1] < SliceEnd[s]
            BY <1>1, <3>1
        <3> QED BY <1>1, <1>2, <2>2, <3>1, <3>2 DEF SliceFirst, SlicesAligned
    <2> QED BY <2>1, <2>2
<1>4. SliceEnd[s] \in Nat /\ SliceEnd[s] <= NumMB
    BY <1>1, <1>2
<1>5. /\ SliceStart(s) \in Nat /\ SliceStart(s) <= SliceFirst(s)
      /\ SliceStart(s) % MBWidth = 0
      /\ SliceFirst(s) % MBWidth = 0 => SliceStart(s) = SliceFirst(s)
    BY <1>3, RowBegins DEF SliceStart
<1> QED BY <1>2, <1>3, <1>4, <1>5

\* Slices do not overlap.
LEMMA SlicesApart ==
    ASSUME NEW s \in Slices, NEW t \in Slices, NEW mb \in Nat,
           SliceFirst(s) <= mb, mb < SliceEnd[s], SliceFirst(t) <= mb, mb < SliceEnd[t]
    PROVE  s = t
<1>1. \A a, b \in Slices : a < b => SliceEnd[a] <= SliceFirst(b)
    <2> SUFFICES ASSUME NEW a \in Slices, NEW b \in Slices, a < b
                 PROVE  SliceEnd[a] <= SliceFirst(b)
        OBVIOUS
    <2>1. b # 1 /\ b - 1 \in Slices /\ (a = b - 1 \/ a < b - 1)
        BY SomeSlices DEF Slices
    <2>2. SliceFirst(b) = SliceEnd[b - 1]
        BY <2>1 DEF SliceFirst
    <2>3. SliceEnd[a] \in Nat /\ SliceEnd[b - 1] \in Nat
        BY <2>1, SliceBounds
    <2>4. a < b - 1 => SliceEnd[a] < SliceEnd[b - 1]
        BY <2>1, PipelineAssumption DEF Slices, NumSlices
    <2> QED BY <2>1, <2>2, <2>3, <2>4
<1>2. s \in Nat /\ t \in Nat
    BY SomeSlices DEF Slices
<1>3. \A a \in Slices : SliceFirst(a) \in Nat /\ SliceEnd[a] \in Nat
    BY SliceBounds
<1>4. ~(s < t) /\ ~(t < s)
    BY <1>1, <1>3
<1> QED BY <1>2, <1>4

-----------------------------------------------------------------------------
(* The invariant.                                                          *)

JoinedPlaces == {"picture: join recon", "sync: emit", "sync: join recon"}

\* No slice is under way.
Quiet == dispatcher = "free" /\ \A p \in S!Jobs : jobStage[p] = "none"

OwnTypes ==
    /\ main \in MainPlaces
    /\ refused \in 0 .. MaxRefused
    /\ sent \in 0 .. NumSlices
    /\ stack \in Seq(Slices) /\ Len(stack) = top
    /\ nextMB \in [Slices -> Nat]
    /\ \A s \in Slices : SliceStart(s) <= nextMB[s] /\ nextMB[s] <= NumMB
    /\ marking \in [Slices -> R!Rows \cup {NoRow}]
    /\ damaged \subseteq Slices /\ overrun \subseteq Slices /\ direct \subseteq Slices

MainAndPhase ==
    /\ main # "feed" => dispatcher = "free"
    /\ main \in {"picture: join digest", "picture: join recon"} =>
            phase # "presented"
    /\ main \in {"sync: join digest", "sync: emit"} =>
            phase \in {"idle", "slicing", "dropped"}
    /\ main = "sync: join recon" => phase \in {"presented", "dropped", "idle"}
    /\ main = "feed" => phase # "presented"

JoinedIsQuiet == phase # "slicing" \/ main \in JoinedPlaces => Quiet

\* A deslicer that has counted a row is still there to notify of it.
MarkingDigests == \A s \in Slices : marking[s] # NoRow => Digesting(s)
CountedIsMarked ==
    \A r \in R!Rows : rowStage[r] = "counted" => \E s \in Slices : marking[s] = r

RestingFrame ==
    /\ phase # "slicing" => ~open
    /\ phase \in {"none", "idle", "dropped"} =>
            \A p \in R!Rows : rowStage[p] \in {"none", "done"}

ParsedIsCommitted ==
    phase \in {"slicing", "presented"} =>
        \A s \in Slices : \A mb \in SliceStart(s) .. nextMB[s] - 1 :
            LastOfRow(mb) => commits[RowOf(mb)] # 0

IdleIsDone ==
    phase = "idle" =>
        \A r \in R!Rows : RowData(r) \subseteq Parsed => \E p \in R!Rows : R!Has(p, r)

Own ==
    /\ OwnTypes
    /\ MainAndPhase
    /\ JoinedIsQuiet
    /\ MarkingDigests
    /\ CountedIsMarked
    /\ RestingFrame
    /\ ParsedIsCommitted
    /\ IdleIsDone

PInv == RP!IInv /\ SP!IInv /\ Own

LEMMA InitPInv == Init => PInv
<1> SUFFICES ASSUME Init PROVE PInv
    OBVIOUS
<1>1. RP!IInv /\ SP!IInv
    BY RowInit, SliceInit DEF Init
<1>2. /\ phase = "none" /\ open = FALSE /\ \A r \in R!Rows : rowStage[r] = "none"
      /\ dispatcher = "free" /\ top = 0 /\ \A p \in S!Jobs : jobStage[p] = "none"
    BY DEF Init, R!Init, S!Init
<1>3. OwnTypes
    <2>1. \A s \in Slices : nextMB[s] = SliceStart(s)
        BY DEF Init
    <2>2. /\ nextMB \in [Slices -> Nat]
          /\ \A s \in Slices : SliceStart(s) <= nextMB[s] /\ nextMB[s] <= NumMB
        BY <2>1, SliceBounds DEF Init
    <2> QED BY <1>2, <2>2, SomeSlices, PipelineAssumption DEF Init, OwnTypes, MainPlaces, Slices
<1>4. MainAndPhase /\ JoinedIsQuiet
    BY <1>2 DEF Init, MainAndPhase, JoinedIsQuiet, Quiet
<1>5. MarkingDigests /\ CountedIsMarked
    BY <1>2 DEF Init, MarkingDigests, CountedIsMarked
<1>6. RestingFrame /\ ParsedIsCommitted
    BY <1>2 DEF RestingFrame, ParsedIsCommitted
<1>7. IdleIsDone
    BY <1>2 DEF IdleIsDone
<1> QED BY <1>1, <1>3, <1>4, <1>5, <1>6, <1>7 DEF PInv, Own

\* When no slice is under way, no deslicer is about to notify.
LEMMA QuietFinished ==
    ASSUME PInv, Quiet
    PROVE  R!DigestFinished
<1>1. \A s \in Slices : ~Digesting(s)
    BY DEF Quiet, Digesting
<1>2. \A s \in Slices : marking[s] = NoRow
    BY <1>1 DEF PInv, Own, MarkingDigests
<1>3. \A r \in R!Rows : r # NoRow
    BY DEF R!Rows, NoRow
<1> QED BY <1>2, <1>3 DEF PInv, Own, CountedIsMarked, R!DigestFinished

-----------------------------------------------------------------------------
(* The pipeline uses the pools as their modules assume.                    *)

LEMMA ParsedRow ==
    ASSUME PInv, NEW s \in Slices, Parsing(s)
    PROVE  /\ nextMB[s] \in 0 .. NumMB - 1 /\ nextMB[s] \in Nat
           /\ RowOf(nextMB[s]) \in R!Rows
<1>1. nextMB[s] \in 0 .. NumMB - 1 /\ nextMB[s] \in Nat
    BY SliceBounds DEF PInv, Own, OwnTypes, Parsing, Limit
<1> QED BY <1>1, RowOfMacroBlock

LEMMA UsesRowJobs == PInv /\ [Next]_vars => [R!Next]_rowVars
<1> SUFFICES ASSUME PInv, [Next]_vars PROVE [R!Next]_rowVars
    OBVIOUS
<1>1. CASE MainThread
    <2>1. CASE JoinReconAndStart
        <3>1. R!DigestFinished /\ phase # "presented"
            BY <2>1, QuietFinished
            DEF PInv, Own, MainAndPhase, JoinedIsQuiet, JoinedPlaces, JoinReconAndStart
        <3>2. R!StartNewFrame \/ R!StartDroppedFrame
            BY <2>1, <3>1 DEF JoinReconAndStart, R!StartNewFrame, R!StartDroppedFrame
        <3> QED BY <3>2 DEF R!Next
    <2>2. CASE EmitFrame
        <3>1. R!DigestFinished
            BY <2>2, QuietFinished DEF PInv, Own, JoinedIsQuiet, JoinedPlaces, EmitFrame
        <3> QED BY <2>2, <3>1 DEF EmitFrame, R!Next
    <2>3. CASE FinishSync
        BY <2>3 DEF FinishSync, R!Next
    <2>4. CASE RefusePicture
        BY <2>4 DEF RefusePicture, R!Next
    <2>5. CASE ~(JoinReconAndStart \/ RefusePicture \/ EmitFrame \/ FinishSync)
        BY <1>1, <2>5 DEF MainThread, DispatchJob, DispatchNotify, DigestDirectly,
           PictureStart, VideoSync, BeginPacket, WaitForDigestFinish
    <2> QED BY <2>1, <2>2, <2>3, <2>4, <2>5
<1>2. CASE \E s \in Slices : Deslice(s)
    <2> SUFFICES ASSUME NEW s \in Slices, Deslice(s) PROVE [R!Next]_rowVars
        BY <1>2
    <2>1. CASE ParseMacroBlock(s)
        BY <2>1, ParsedRow DEF ParseMacroBlock, R!Next
    <2>2. CASE AbandonSlice(s) \/ RunOn(s)
        BY <2>2 DEF AbandonSlice, RunOn
    <2>3. CASE NotifyRow(s)
        <3>1. marking[s] \in R!Rows
            BY <2>3 DEF PInv, Own, OwnTypes, NotifyRow
        <3> QED BY <2>3, <3>1 DEF NotifyRow, R!Next
    <2> QED BY <2>1, <2>2, <2>3 DEF Deslice
<1>3. CASE EndDirectly \/ (\E p \in S!Jobs : DigestParticipate(p)) \/ UNCHANGED vars
    BY <1>3 DEF EndDirectly, DigestParticipate, vars
<1>4. CASE \E p \in R!Rows : ReconParticipate(p)
    BY <1>4 DEF ReconParticipate, R!Next
<1> QED BY <1>1, <1>2, <1>3, <1>4 DEF Next

LEMMA UsesSliceJobs == [Next]_vars => [S!Next]_sliceVars
<1> SUFFICES ASSUME [Next]_vars PROVE [S!Next]_sliceVars
    OBVIOUS
<1>1. CASE MainThread
    BY <1>1 DEF MainThread, DispatchJob, DispatchNotify, DigestDirectly,
       PictureStart, VideoSync, BeginPacket, WaitForDigestFinish, JoinReconAndStart,
       RefusePicture, EmitFrame, FinishSync, S!Next
<1>2. CASE \E s \in Slices : Deslice(s)
    BY <1>2 DEF Deslice, ParseMacroBlock, AbandonSlice, RunOn, NotifyRow
<1>3. CASE EndDirectly \/ (\E p \in S!Jobs : DigestParticipate(p)) \/ UNCHANGED vars
    BY <1>3 DEF EndDirectly, DigestParticipate, vars, S!Next, S!Participate, sliceVars
<1>4. CASE \E p \in R!Rows : ReconParticipate(p)
    BY <1>4 DEF ReconParticipate
<1> QED BY <1>1, <1>2, <1>3, <1>4 DEF Next

-----------------------------------------------------------------------------
(* The steps.                                                              *)

\* What depends on the frame only is kept by steps that do not touch it.
LEMMA FrameKept ==
    ASSUME PInv, UNCHANGED <<parseVars, rowVars>>
    PROVE  CountedIsMarked' /\ RestingFrame' /\ ParsedIsCommitted' /\ IdleIsDone'
<1> USE DEF parseVars, rowVars, PInv, Own
<1>1. CountedIsMarked'
    BY DEF CountedIsMarked
<1>2. RestingFrame'
    BY DEF RestingFrame
<1>3. ParsedIsCommitted'
    BY DEF ParsedIsCommitted
<1>4. IdleIsDone'
    BY DEF IdleIsDone, RowData, Parsed, R!Has
<1> QED BY <1>1, <1>2, <1>3, <1>4

LEMMA DispatchStep ==
    ASSUME PInv, DispatchJob \/ DispatchNotify \/ DigestDirectly
    PROVE  Own'
<1>1. UNCHANGED <<main, refused, parseVars, rowVars>>
    BY DEF DispatchJob, DispatchNotify, DigestDirectly
<1>2. phase = "slicing" /\ main = "feed"
    <2>1. CASE DispatchNotify
        BY <2>1 DEF DispatchNotify, S!NotifyAvailable, PInv, Own, OwnTypes, MainAndPhase,
           JoinedIsQuiet, Quiet
    <2>2. CASE DispatchJob \/ DigestDirectly
        BY <2>2 DEF DispatchJob, DigestDirectly, FeedSlice
    <2> QED BY <2>1, <2>2
<1>3. OwnTypes'
    <2>1. CASE DispatchNotify
        BY <1>1, <2>1 DEF DispatchNotify, S!NotifyAvailable, PInv, Own, OwnTypes, parseVars
    <2>2. CASE DispatchJob \/ DigestDirectly
        <3>1. sent' = sent + 1 /\ sent + 1 \in Slices /\ sent' \in 0 .. NumSlices
            BY <2>2, SomeSlices DEF DispatchJob, DigestDirectly, FeedSlice, PInv, Own, OwnTypes,
               Slices
        <3>2. CASE DispatchJob
            <4>1. stack' = Append(stack, sent + 1) /\ top' = top + 1 /\ direct' = direct
                BY <3>2 DEF DispatchJob, S!PushJob
            <4>2. stack' \in Seq(Slices) /\ Len(stack') = top'
                BY <3>1, <4>1 DEF PInv, Own, OwnTypes
            <4> QED BY <1>1, <3>1, <4>1, <4>2 DEF PInv, Own, OwnTypes, parseVars
        <3>3. CASE DigestDirectly
            BY <1>1, <3>1, <3>3 DEF DigestDirectly, S!BeginDirectly, PInv, Own, OwnTypes, parseVars
        <3> QED BY <2>2, <3>2, <3>3
    <2> QED BY <2>1, <2>2
<1>4. MainAndPhase' /\ JoinedIsQuiet'
    BY <1>1, <1>2 DEF MainAndPhase, JoinedIsQuiet, JoinedPlaces, rowVars
<1>5. MarkingDigests'
    <2> SUFFICES ASSUME NEW s \in Slices, marking'[s] # NoRow PROVE Digesting(s)'
        BY DEF MarkingDigests
    <2>1. Digesting(s)
        BY <1>1 DEF PInv, Own, MarkingDigests, parseVars
    <2>2. CASE DispatchNotify
        <3>1. PICK p \in S!Jobs : jobStage[p] = "digesting" /\ stack[jobAt[p]] = s
            BY <2>1, <2>2 DEF Digesting, DispatchNotify, S!NotifyAvailable
        <3>2. top \in S!Jobs /\ jobStage[top] = "none" /\ jobStage \in [S!Jobs -> S!Stages]
            BY <2>2, SliceFacts DEF PInv, DispatchNotify, S!NotifyAvailable, S!TypeOK
        <3>3. jobStage'[p] = "digesting" /\ stack'[jobAt'[p]] = s
            BY <2>2, <3>1, <3>2 DEF DispatchNotify, S!NotifyAvailable
        <3> QED BY <3>3 DEF Digesting
    <2>3. CASE DispatchJob \/ DigestDirectly
        <3>1. dispatcher = "free"
            BY <2>3 DEF DispatchJob, DigestDirectly, FeedSlice
        <3>2. PICK p \in S!Jobs : jobStage[p] = "digesting" /\ stack[jobAt[p]] = s
            BY <2>1, <3>1 DEF Digesting
        <3>3. jobAt[p] \in 1 .. top
            BY <3>2, SliceFacts DEF PInv
        <3>4. jobStage' = jobStage /\ jobAt' = jobAt
            BY <2>3 DEF DispatchJob, S!PushJob, DigestDirectly, S!BeginDirectly
        <3>5. stack'[jobAt[p]] = stack[jobAt[p]]
            <4>1. CASE DispatchJob
                <5>1. stack' = Append(stack, sent + 1)
                    BY <4>1 DEF DispatchJob
                <5>2. stack \in Seq(Slices) /\ jobAt[p] \in 1 .. Len(stack)
                    BY <3>3 DEF PInv, Own, OwnTypes
                <5> QED BY <5>1, <5>2
            <4>2. CASE DigestDirectly
                BY <4>2 DEF DigestDirectly
            <4> QED BY <2>3, <4>1, <4>2
        <3> QED BY <3>2, <3>4, <3>5 DEF Digesting
    <2> QED BY <2>2, <2>3
<1> QED BY <1>1, <1>3, <1>4, <1>5, FrameKept DEF Own

LEMMA DigestStep ==
    ASSUME PInv, EndDirectly \/ \E p \in S!Jobs : DigestParticipate(p)
    PROVE  Own'
<1>1. UNCHANGED <<main, refused, sent, stack, direct, parseVars, rowVars>>
    BY DEF EndDirectly, DigestParticipate
<1>2. phase = "slicing" /\ main \notin JoinedPlaces
    <2>1. ~Quiet
        BY DEF Quiet, EndDirectly, S!EndDirectly, DigestParticipate, S!Begin, S!Claim,
           S!Beaten, S!EndDigest
    <2> QED BY <2>1 DEF PInv, Own, JoinedIsQuiet
<1>3. top' = top /\ (dispatcher' = dispatcher \/ dispatcher' = "free")
    BY DEF EndDirectly, S!EndDirectly, DigestParticipate, S!Begin, S!Claim, S!Beaten,
       S!EndDigest
<1>4. OwnTypes'
    BY <1>1, <1>3 DEF PInv, Own, OwnTypes, parseVars
<1>5. MainAndPhase' /\ JoinedIsQuiet'
    BY <1>1, <1>2, <1>3 DEF PInv, Own, MainAndPhase, JoinedIsQuiet, rowVars
<1>6. MarkingDigests'
    <2> SUFFICES ASSUME NEW s \in Slices, marking[s] # NoRow PROVE Digesting(s)'
        BY <1>1 DEF MarkingDigests, parseVars
    <2>1. Digesting(s)
        BY DEF PInv, Own, MarkingDigests
    <2>2. CASE EndDirectly
        <3>1. sent # s
            BY <2>2 DEF EndDirectly, SliceEnded
        <3> QED BY <1>1, <2>1, <2>2, <3>1 DEF Digesting, EndDirectly, S!EndDirectly
    <2>3. ASSUME NEW p \in S!Jobs, DigestParticipate(p) PROVE Digesting(s)'
        <3>1. dispatcher' = dispatcher
            BY <2>3 DEF DigestParticipate, S!Begin, S!Claim, S!Beaten, S!EndDigest
        <3>2. CASE dispatcher = "digesting" /\ sent = s
            BY <1>1, <3>1, <3>2 DEF Digesting
        <3>3. ASSUME NEW q \in S!Jobs, jobStage[q] = "digesting", stack[jobAt[q]] = s
              PROVE  Digesting(s)'
            <4>1. ~(q = p /\ S!EndDigest(p) /\ SliceEnded(stack[jobAt[p]]))
                BY <3>3 DEF SliceEnded
            <4>2. jobStage \in [S!Jobs -> S!Stages] /\ jobAt \in [S!Jobs -> 0 .. NumSlices]
                BY SliceFacts DEF PInv, S!TypeOK
            <4>3. jobStage'[q] = "digesting" /\ jobAt'[q] = jobAt[q]
                BY <2>3, <3>3, <4>1, <4>2
                DEF DigestParticipate, S!Begin, S!Claim, S!Beaten, S!EndDigest
            <4> QED BY <1>1, <3>3, <4>3 DEF Digesting
        <3> QED BY <2>1, <3>2, <3>3 DEF Digesting
    <2> QED BY <2>2, <2>3
<1> QED BY <1>1, <1>4, <1>5, <1>6, FrameKept DEF Own

LEMMA BeginPacketStep ==
    ASSUME PInv, PictureStart \/ VideoSync
    PROVE  Own'
<1>1. /\ UNCHANGED <<refused, sent, stack, direct, parseVars, sliceVars, rowVars>>
      /\ main = "feed" /\ dispatcher = "free"
      /\ \/ main' = "picture: join digest" /\ phase # "presented"
         \/ main' = "sync: join digest" /\ phase \in {"idle", "slicing", "dropped"}
    BY DEF PictureStart, VideoSync, BeginPacket
<1>2. OwnTypes'
    BY <1>1 DEF PInv, Own, OwnTypes, MainPlaces, parseVars, sliceVars
<1>3. MainAndPhase' /\ JoinedIsQuiet'
    BY <1>1 DEF PInv, Own, MainAndPhase, JoinedIsQuiet, JoinedPlaces, Quiet, rowVars, sliceVars
<1>4. MarkingDigests'
    BY <1>1 DEF PInv, Own, MarkingDigests, Digesting, parseVars, sliceVars
<1> QED BY <1>1, <1>2, <1>3, <1>4, FrameKept DEF Own

LEMMA NoJobs == <<>> \in Seq(Slices) /\ Len(<<>>) = 0
<1> QED BY DEF Slices

LEMMA JoinDigestStep ==
    ASSUME PInv, NEW from, NEW to, WaitForDigestFinish(from, to),
           \/ from = "picture: join digest" /\ to = "picture: join recon"
           \/ from = "sync: join digest" /\ to = "sync: emit"
    PROVE  Own'
<1>1. /\ UNCHANGED <<refused, sent, direct, parseVars, rowVars>>
      /\ main = from /\ main' = to /\ stack' = <<>> /\ top' = 0
      /\ dispatcher = "free" /\ dispatcher' = "free"
      /\ jobStage' = [j \in S!Jobs |-> "none"]
      /\ S!Joined
    BY DEF WaitForDigestFinish, S!WaitForDigestFinish
<1>2. OwnTypes'
    <2>1. stack' \in Seq(Slices) /\ Len(stack') = top'
        BY <1>1, NoJobs, Zenon
    <2>2. main' \in MainPlaces
        BY <1>1 DEF MainPlaces
    <2> QED BY <1>1, <2>1, <2>2 DEF PInv, Own, OwnTypes, parseVars
<1>3. MainAndPhase'
    BY <1>1 DEF PInv, Own, MainAndPhase, rowVars
<1>4. JoinedIsQuiet'
    BY <1>1 DEF JoinedIsQuiet, Quiet
<1>5. MarkingDigests'
    <2>1. \A s \in Slices : ~Digesting(s)
        BY <1>1 DEF Digesting, S!Joined
    <2> QED BY <1>1, <2>1 DEF PInv, Own, MarkingDigests, parseVars
<1> QED BY <1>1, <1>2, <1>3, <1>4, <1>5, FrameKept DEF Own

\* What both ends of a picture's parsing do: its slices are still to come.
LEMMA NewSlicesStep ==
    ASSUME PInv, main \in JoinedPlaces, main' = "feed",
           refused' \in Nat, refused' <= MaxRefused, NewSlices, UNCHANGED <<stack, sliceVars>>
    PROVE  Quiet /\ OwnTypes' /\ JoinedIsQuiet' /\ MarkingDigests' /\ ParsedIsCommitted'
<1>1. /\ sent' = 0 /\ marking' = [s \in Slices |-> NoRow]
      /\ nextMB' = [s \in Slices |-> SliceStart(s)]
      /\ damaged' = {} /\ overrun' = {} /\ direct' = {}
    BY DEF NewSlices
<1>2. Quiet
    BY DEF PInv, Own, JoinedIsQuiet
<1>3. OwnTypes'
    <2>1. /\ nextMB' \in [Slices -> Nat]
          /\ \A s \in Slices : SliceStart(s) <= nextMB'[s] /\ nextMB'[s] <= NumMB
        <3>1. \A s \in Slices : /\ SliceStart(s) \in Nat /\ SliceEnd[s] \in Nat
                                /\ SliceStart(s) < SliceEnd[s] /\ SliceEnd[s] <= NumMB
                                /\ NumMB \in Nat
            BY SliceBounds
        <3>2. \A s \in Slices : nextMB'[s] = SliceStart(s)
            BY <1>1
        <3>3. nextMB' \in [Slices -> Nat]
            BY <1>1, <3>1
        <3> QED BY <3>1, <3>2, <3>3
    <2>2. main' \in MainPlaces /\ sent' \in 0 .. NumSlices
        <3>1. main' = "feed" /\ sent' = 0
            BY <1>1
        <3> QED BY <3>1, SomeSlices DEF MainPlaces
    <2>3. /\ marking' \in [Slices -> R!Rows \cup {NoRow}]
          /\ damaged' \subseteq Slices /\ overrun' \subseteq Slices /\ direct' \subseteq Slices
        BY <1>1
    <2>4. stack' \in Seq(Slices) /\ Len(stack') = top'
        BY DEF PInv, Own, OwnTypes, sliceVars
    <2>5. refused' \in 0 .. MaxRefused
        BY RefusedBound
    <2> QED BY <2>1, <2>2, <2>3, <2>4, <2>5 DEF OwnTypes
<1>4. JoinedIsQuiet'
    BY <1>2 DEF JoinedIsQuiet, Quiet, sliceVars
<1>5. MarkingDigests'
    BY <1>1 DEF MarkingDigests
<1>6. ParsedIsCommitted'
    <2>1. \A s \in Slices : nextMB'[s] = SliceStart(s) /\ SliceStart(s) \in Nat
        BY <1>1, SliceBounds
    <2>2. \A s \in Slices : SliceStart(s) .. nextMB'[s] - 1 = {}
        BY <2>1
    <2> QED BY <2>2 DEF ParsedIsCommitted
<1> QED BY <1>2, <1>3, <1>4, <1>5, <1>6

LEMMA StartStep ==
    ASSUME PInv, JoinReconAndStart
    PROVE  Own'
<1>1. /\ main' = "feed" /\ refused' = 0
      /\ NewSlices /\ UNCHANGED <<stack, sliceVars>> /\ R!ReconFinished
    BY DEF JoinReconAndStart
<1>2. refused' \in Nat /\ refused' <= MaxRefused
    BY <1>1, RefusedBound
<1>3. Quiet /\ OwnTypes' /\ JoinedIsQuiet' /\ MarkingDigests' /\ ParsedIsCommitted'
    <2>1. main \in JoinedPlaces
        BY DEF JoinReconAndStart, JoinedPlaces
    <2> QED BY <1>1, <1>2, <2>1, NewSlicesStep
<1>4. R!DigestFinished
    BY <1>3, QuietFinished
<1>5. \/ phase' = "slicing" /\ \A r \in R!Rows : rowStage'[r] = "none"
      \/ /\ phase' = "dropped" /\ open' = FALSE
         /\ UNCHANGED <<rowStage, rowAt, commits>>
    BY DEF JoinReconAndStart, R!OpenFrame, R!CloseForDropped
<1>6. MainAndPhase'
    BY <1>1, <1>5 DEF MainAndPhase
<1>7. CountedIsMarked'
    BY <1>4, <1>5 DEF CountedIsMarked, R!DigestFinished
<1>8. RestingFrame'
    BY <1>1, <1>4, <1>5 DEF RestingFrame, R!DigestFinished, R!ReconFinished
<1>9. IdleIsDone'
    BY <1>5 DEF IdleIsDone
<1> QED BY <1>3, <1>6, <1>7, <1>8, <1>9 DEF Own

LEMMA RefuseStep ==
    ASSUME PInv, RefusePicture
    PROVE  Own'
<1>1. /\ main' = "feed" /\ refused < MaxRefused /\ refused' = refused + 1
      /\ NewSlices /\ UNCHANGED <<stack, sliceVars>>
      /\ R!DigestFinished /\ UNCHANGED <<open, commits, users, rowStage, rowAt>>
      /\ phase \in {"idle", "slicing", "dropped"}
      /\ phase' = IF phase = "idle" THEN "slicing" ELSE phase
    BY DEF RefusePicture, R!RefusePicture
<1>2. refused' \in Nat /\ refused' <= MaxRefused
    <2>1. refused \in 0 .. MaxRefused
        BY DEF PInv, Own, OwnTypes
    <2> QED BY <1>1, <2>1, RefusedBound
<1>3. Quiet /\ OwnTypes' /\ JoinedIsQuiet' /\ MarkingDigests' /\ ParsedIsCommitted'
    <2>1. main \in JoinedPlaces
        BY DEF RefusePicture, JoinedPlaces
    <2> QED BY <1>1, <1>2, <2>1, NewSlicesStep
<1>4. MainAndPhase'
    BY <1>1 DEF MainAndPhase
<1>5. CountedIsMarked'
    BY <1>1 DEF CountedIsMarked, R!DigestFinished
<1>6. RestingFrame'
    <2>1. RestingFrame
        BY DEF PInv, Own
    <2>2. phase' = "slicing" \/ (phase = "dropped" /\ phase' = "dropped")
        BY <1>1
    <2>3. open' = open /\ rowStage' = rowStage
        BY <1>1
    <2> QED BY <2>1, <2>2, <2>3 DEF RestingFrame
<1>7. IdleIsDone'
    BY <1>1 DEF IdleIsDone
<1> QED BY <1>3, <1>4, <1>5, <1>6, <1>7 DEF Own

LEMMA EmitStep ==
    ASSUME PInv, EmitFrame
    PROVE  Own'
<1>1. /\ main = "sync: emit" /\ main' = "sync: join recon"
      /\ UNCHANGED <<refused, sent, stack, parseVars, direct, sliceVars>>
      /\ UNCHANGED <<commits, users, rowStage, rowAt>>
      /\ \/ phase = "slicing" /\ phase' = "presented" /\ open' = FALSE
         \/ phase \in {"idle", "dropped"} /\ phase' = phase /\ open' = open
    BY DEF EmitFrame, R!PresentFrame, rowVars, PInv, Own, MainAndPhase
<1>2. OwnTypes'
    BY <1>1 DEF PInv, Own, OwnTypes, MainPlaces, parseVars, sliceVars
<1>3. MainAndPhase' /\ JoinedIsQuiet'
    BY <1>1 DEF PInv, Own, MainAndPhase, JoinedIsQuiet, JoinedPlaces, Quiet, sliceVars
<1>4. MarkingDigests'
    BY <1>1 DEF PInv, Own, MarkingDigests, Digesting, parseVars, sliceVars
<1>5. CountedIsMarked'
    BY <1>1 DEF PInv, Own, CountedIsMarked, parseVars
<1>6. RestingFrame'
    <2>1. RestingFrame /\ rowStage' = rowStage /\ nextMB' = nextMB
        BY <1>1 DEF PInv, Own, parseVars
    <2>2. CASE phase' = "presented" /\ open' = FALSE
        BY <2>2 DEF RestingFrame
    <2>3. CASE phase \in {"idle", "dropped"} /\ phase' = phase /\ open' = open
        BY <2>1, <2>3 DEF RestingFrame
    <2> QED BY <1>1, <2>2, <2>3
<1>7. ParsedIsCommitted'
    BY <1>1 DEF PInv, Own, ParsedIsCommitted, parseVars
<1>8. IdleIsDone'
    BY <1>1 DEF PInv, Own, IdleIsDone, RowData, Parsed, R!Has, parseVars
<1> QED BY <1>2, <1>3, <1>4, <1>5, <1>6, <1>7, <1>8 DEF Own

LEMMA FinishStep ==
    ASSUME PInv, FinishSync
    PROVE  Own'
<1>1. /\ main = "sync: join recon" /\ main' = "feed"
      /\ phase \in {"presented", "dropped", "idle"}
      /\ phase' = IF phase = "presented" THEN "idle" ELSE phase
      /\ R!ReconFinished
      /\ UNCHANGED <<refused, sent, stack, parseVars, direct, sliceVars>>
      /\ UNCHANGED <<open, commits, users, rowStage, rowAt>>
    BY DEF FinishSync, R!WaitForFinish
<1>2. Quiet /\ R!DigestFinished
    BY <1>1, QuietFinished DEF PInv, Own, JoinedIsQuiet, JoinedPlaces
<1>3. OwnTypes'
    BY <1>1 DEF PInv, Own, OwnTypes, MainPlaces, parseVars, sliceVars
<1>4. MainAndPhase' /\ JoinedIsQuiet'
    BY <1>1, <1>2 DEF MainAndPhase, JoinedIsQuiet, Quiet, sliceVars
<1>5. MarkingDigests'
    BY <1>1 DEF PInv, Own, MarkingDigests, Digesting, parseVars, sliceVars
<1>6. CountedIsMarked'
    BY <1>1 DEF PInv, Own, CountedIsMarked, parseVars
<1>7. RestingFrame'
    <2>1. open' = open /\ rowStage' = rowStage /\ phase' # "slicing" /\ phase # "slicing"
        BY <1>1
    <2>2. \A p \in R!Rows : rowStage[p] \in {"none", "done"}
        BY <1>2, <1>1 DEF R!DigestFinished, R!ReconFinished
    <2> QED BY <2>1, <2>2 DEF PInv, Own, RestingFrame
<1>8. ParsedIsCommitted'
    BY <1>1 DEF ParsedIsCommitted
<1>9. IdleIsDone'
    <2> SUFFICES ASSUME NEW r \in R!Rows, RowData(r) \subseteq Parsed, phase' = "idle",
                        phase # "idle"
                 PROVE  \E p \in R!Rows : R!Has(p, r)
        BY <1>1 DEF PInv, Own, IdleIsDone, RowData, Parsed, R!Has, parseVars
    <2>1. phase = "presented"
        BY <1>1
    <2>2. PICK mb \in 0 .. NumMB - 1 : RowOf(mb) = r /\ LastOfRow(mb)
        BY RowHasLast
    <2>3. PICK s \in Slices : SliceStart(s) <= mb /\ mb < nextMB[s]
        BY <2>2 DEF RowData, Parsed
    <2>4. mb \in SliceStart(s) .. nextMB[s] - 1
        BY <2>3, SliceBounds DEF PInv, Own, OwnTypes
    <2>5. commits[r] # 0
        BY <2>1, <2>2, <2>4 DEF PInv, Own, ParsedIsCommitted
    <2> QED BY <1>1, <1>2, <2>5, RowFacts DEF PInv
<1> QED BY <1>3, <1>4, <1>5, <1>6, <1>7, <1>8, <1>9 DEF Own

\* While a slice is digested the frame is under way.
LEMMA DigestingSlices ==
    ASSUME PInv, NEW s \in Slices, Digesting(s)
    PROVE  phase = "slicing" /\ main \notin JoinedPlaces
<1>1. ~Quiet
    BY DEF Digesting, Quiet
<1> QED BY <1>1 DEF PInv, Own, JoinedIsQuiet

LEMMA ParseStep ==
    ASSUME PInv, NEW s \in Slices, ParseMacroBlock(s)
    PROVE  Own'
<1> DEFINE mb == nextMB[s]
           row == RowOf(mb)
<1>1. /\ Digesting(s) /\ marking[s] = NoRow
      /\ nextMB' = [nextMB EXCEPT ![s] = mb + 1]
      /\ UNCHANGED <<main, refused, sent, stack, damaged, overrun, direct, sliceVars>>
    BY DEF ParseMacroBlock, Parsing
<1>2. phase = "slicing" /\ main \notin JoinedPlaces
    BY <1>1, DigestingSlices
<1>3. row \in R!Rows /\ mb \in Nat /\ mb \in 0 .. NumMB - 1 /\ row # NoRow
    BY ParsedRow DEF ParseMacroBlock, R!Rows, NoRow
<1>4. /\ nextMB \in [Slices -> Nat] /\ marking \in [Slices -> R!Rows \cup {NoRow}]
      /\ commits \in [R!Rows -> Nat] /\ rowStage \in [R!Rows -> R!Stages]
    BY RowFacts DEF PInv, Own, OwnTypes, R!TypeOK
<1>5. \/ LastOfRow(mb) /\ commits' = [commits EXCEPT ![row] = @ + 1]
      \/ ~LastOfRow(mb) /\ commits' = commits
    BY DEF ParseMacroBlock, R!CommitRow, rowVars
<1>6. \/ /\ commits[row] = 0 /\ LastOfRow(mb)
         /\ rowStage' = [rowStage EXCEPT ![row] = "counted"]
         /\ marking' = [marking EXCEPT ![s] = row]
      \/ rowStage' = rowStage /\ marking' = marking
    <2>1. CASE LastOfRow(mb) /\ commits[row] = 0
        BY <2>1 DEF ParseMacroBlock, R!CommitRow
    <2>2. CASE LastOfRow(mb) /\ commits[row] # 0
        <3>1. commits[row] + 1 # 1
            BY <1>3, <1>4, <2>2
        <3>2. marking' = [marking EXCEPT ![s] = NoRow] /\ rowStage' = rowStage
            BY <2>2, <3>1 DEF ParseMacroBlock, R!CommitRow
        <3> QED BY <1>1, <1>4, <3>2
    <2>3. CASE ~LastOfRow(mb)
        BY <2>3 DEF ParseMacroBlock, rowVars
    <2> QED BY <2>1, <2>2, <2>3
<1>7. phase' = phase /\ open' = open
    BY DEF ParseMacroBlock, R!CommitRow, rowVars
<1> HIDE DEF row, mb
<1>8. OwnTypes'
    <2>1. \A t \in Slices : SliceStart(t) <= nextMB'[t] /\ nextMB'[t] <= NumMB
        BY <1>1, <1>3, <1>4, SliceBounds DEF PInv, Own, OwnTypes, mb
    <2>2. nextMB' \in [Slices -> Nat]
        BY <1>1, <1>3, <1>4
    <2>3. marking' \in [Slices -> R!Rows \cup {NoRow}]
        BY <1>3, <1>4, <1>6
    <2> QED BY <1>1, <2>1, <2>2, <2>3 DEF PInv, Own, OwnTypes, sliceVars
<1>9. MainAndPhase' /\ JoinedIsQuiet'
    BY <1>1, <1>2, <1>7 DEF PInv, Own, MainAndPhase, JoinedIsQuiet, sliceVars
<1>10. MarkingDigests'
    <2> SUFFICES ASSUME NEW t \in Slices, marking'[t] # NoRow PROVE Digesting(t)
        BY <1>1 DEF MarkingDigests, Digesting, sliceVars
    <2> QED BY <1>1, <1>4, <1>6 DEF PInv, Own, MarkingDigests
<1>11. CountedIsMarked'
    <2> SUFFICES ASSUME NEW r \in R!Rows, rowStage'[r] = "counted"
                 PROVE  \E t \in Slices : marking'[t] = r
        BY DEF CountedIsMarked
    <2>1. CASE r = row /\ marking'[s] = row
        BY <2>1
    <2>2. CASE ~(r = row /\ marking'[s] = row)
        <3>1. rowStage[r] = "counted"
            BY <1>4, <1>6, <2>2
        <3>2. PICK t \in Slices : marking[t] = r
            BY <3>1 DEF PInv, Own, CountedIsMarked
        <3>3. t # s
            BY <1>1, <3>2 DEF R!Rows, NoRow
        <3> QED BY <1>4, <1>6, <3>2, <3>3
    <2> QED BY <2>1, <2>2
<1>12. RestingFrame' /\ IdleIsDone'
    BY <1>2, <1>7 DEF RestingFrame, IdleIsDone
<1>13. ParsedIsCommitted'
    <2> SUFFICES ASSUME NEW t \in Slices, NEW x \in SliceStart(t) .. nextMB'[t] - 1,
                        LastOfRow(x)
                 PROVE  commits'[RowOf(x)] # 0
        BY DEF ParsedIsCommitted
    <2>1. CASE t = s /\ x = mb
        BY <1>3, <1>4, <1>5, <2>1 DEF row
    <2>2. CASE ~(t = s /\ x = mb)
        <3>1. x \in SliceStart(t) .. nextMB[t] - 1
            BY <1>1, <1>3, <1>4, <2>2, SliceBounds DEF mb
        <3>2. commits[RowOf(x)] # 0
            BY <1>2, <3>1 DEF PInv, Own, ParsedIsCommitted
        <3>3. RowOf(x) \in R!Rows
            <4>1. /\ nextMB[t] \in Nat /\ nextMB[t] <= NumMB
                  /\ SliceStart(t) \in Nat /\ NumMB \in Nat
                BY SliceBounds DEF PInv, Own, OwnTypes
            <4>2. x \in 0 .. NumMB - 1
                BY <3>1, <4>1
            <4> QED BY <4>2, RowOfMacroBlock
        <3> QED BY <1>3, <1>4, <1>5, <3>2, <3>3
    <2> QED BY <2>1, <2>2
<1> QED BY <1>8, <1>9, <1>10, <1>11, <1>12, <1>13 DEF Own

LEMMA DamageStep ==
    ASSUME PInv, NEW s \in Slices, AbandonSlice(s) \/ RunOn(s)
    PROVE  Own'
<1>1. /\ UNCHANGED <<main, refused, sent, stack, nextMB, marking, direct, sliceVars, rowVars>>
      /\ damaged' \in {damaged, damaged \cup {s}}
      /\ overrun' \in {overrun, overrun \cup {s}}
    BY DEF AbandonSlice, RunOn
<1>2. OwnTypes'
    BY <1>1 DEF PInv, Own, OwnTypes, sliceVars
<1>3. MainAndPhase' /\ JoinedIsQuiet'
    BY <1>1 DEF PInv, Own, MainAndPhase, JoinedIsQuiet, Quiet, sliceVars, rowVars
<1>4. MarkingDigests' /\ CountedIsMarked'
    BY <1>1 DEF PInv, Own, MarkingDigests, CountedIsMarked, Digesting, sliceVars, rowVars
<1>5. RestingFrame' /\ ParsedIsCommitted'
    BY <1>1 DEF PInv, Own, RestingFrame, ParsedIsCommitted, rowVars
<1>6. IdleIsDone'
    BY <1>1 DEF PInv, Own, IdleIsDone, RowData, Parsed, R!Has, rowVars
<1> QED BY <1>2, <1>3, <1>4, <1>5, <1>6 DEF Own

LEMMA NotifyRowStep ==
    ASSUME PInv, NEW s \in Slices, NotifyRow(s)
    PROVE  Own'
<1> DEFINE row == marking[s]
<1>1. /\ row # NoRow /\ rowStage[row] = "counted"
      /\ rowStage' = [rowStage EXCEPT ![row] = "queued"]
      /\ marking' = [marking EXCEPT ![s] = NoRow]
      /\ UNCHANGED <<main, refused, sent, stack, nextMB, damaged, overrun, direct, sliceVars>>
      /\ UNCHANGED <<phase, open, commits, users, rowAt>>
    BY DEF NotifyRow, R!NotifyAvailable
<1>2. phase = "slicing"
    BY <1>1, DigestingSlices DEF PInv, Own, MarkingDigests
<1>3. marking \in [Slices -> R!Rows \cup {NoRow}] /\ rowStage \in [R!Rows -> R!Stages]
    BY RowFacts DEF PInv, Own, OwnTypes, R!TypeOK
<1>4. OwnTypes'
    BY <1>1, <1>3 DEF PInv, Own, OwnTypes, sliceVars
<1>5. MainAndPhase' /\ JoinedIsQuiet'
    BY <1>1 DEF PInv, Own, MainAndPhase, JoinedIsQuiet, Quiet, sliceVars
<1>6. MarkingDigests'
    BY <1>1, <1>3 DEF PInv, Own, MarkingDigests, Digesting, sliceVars
<1>7. CountedIsMarked'
    <2> SUFFICES ASSUME NEW r \in R!Rows, rowStage'[r] = "counted"
                 PROVE  \E t \in Slices : marking'[t] = r
        BY DEF CountedIsMarked
    <2>1. r # row /\ rowStage[r] = "counted"
        BY <1>1, <1>3
    <2>2. PICK t \in Slices : marking[t] = r
        BY <2>1 DEF PInv, Own, CountedIsMarked
    <2> QED BY <1>1, <1>3, <2>1, <2>2
<1>8. RestingFrame' /\ IdleIsDone'
    BY <1>1, <1>2 DEF RestingFrame, IdleIsDone
<1>9. ParsedIsCommitted'
    BY <1>1 DEF PInv, Own, ParsedIsCommitted
<1> QED BY <1>4, <1>5, <1>6, <1>7, <1>8, <1>9 DEF Own

LEMMA ReconStep ==
    ASSUME PInv, NEW p \in R!Rows, ReconParticipate(p)
    PROVE  Own'
<1>1. /\ UNCHANGED <<main, refused, sent, stack, parseVars, direct, sliceVars>>
      /\ UNCHANGED <<phase, open, commits>>
      /\ rowStage[p] \in {"queued", "looking", "claiming", "working"}
      /\ \E x \in R!Stages \ {"counted"} : rowStage' = [rowStage EXCEPT ![p] = x]
    BY DEF ReconParticipate, R!Participate, R!Begin, R!SkipUncommitted, R!FindCommitted,
       R!Claim, R!Beaten, R!ReconstructRow, R!GoOn, R!Stages
<1>2. phase \notin {"none", "idle", "dropped"}
    BY <1>1 DEF PInv, Own, RestingFrame
<1>3. OwnTypes'
    BY <1>1 DEF PInv, Own, OwnTypes, parseVars, sliceVars
<1>4. MainAndPhase' /\ JoinedIsQuiet'
    BY <1>1 DEF PInv, Own, MainAndPhase, JoinedIsQuiet, Quiet, sliceVars
<1>5. MarkingDigests'
    BY <1>1 DEF PInv, Own, MarkingDigests, Digesting, parseVars, sliceVars
<1>6. CountedIsMarked'
    <2>1. rowStage \in [R!Rows -> R!Stages]
        BY RowFacts DEF PInv, R!TypeOK
    <2>2. \A r \in R!Rows : rowStage'[r] = "counted" => rowStage[r] = "counted"
        BY <1>1, <2>1
    <2> QED BY <1>1, <2>2 DEF PInv, Own, CountedIsMarked, parseVars
<1>7. RestingFrame' /\ IdleIsDone'
    BY <1>1, <1>2 DEF PInv, Own, RestingFrame, IdleIsDone
<1>8. ParsedIsCommitted'
    BY <1>1 DEF PInv, Own, ParsedIsCommitted, parseVars
<1> QED BY <1>3, <1>4, <1>5, <1>6, <1>7, <1>8 DEF Own

LEMMA NextPInv == PInv /\ [Next]_vars => PInv'
<1> SUFFICES ASSUME PInv, [Next]_vars PROVE PInv'
    OBVIOUS
<1>1. RP!IInv' /\ SP!IInv'
    BY RowStep, UsesRowJobs, SliceStep, UsesSliceJobs DEF PInv
<1>2. Own'
    <2>1. CASE MainThread
        <3>1. \A from, to : WaitForDigestFinish(from, to)
                /\ (\/ from = "picture: join digest" /\ to = "picture: join recon"
                    \/ from = "sync: join digest" /\ to = "sync: emit") => Own'
            BY JoinDigestStep
        <3> QED BY <2>1, <3>1, DispatchStep, BeginPacketStep, StartStep, RefuseStep,
                  EmitStep, FinishStep
                DEF MainThread
    <2>2. CASE \E s \in Slices : Deslice(s)
        BY <2>2, ParseStep, DamageStep, NotifyRowStep DEF Deslice
    <2>3. CASE EndDirectly \/ \E p \in S!Jobs : DigestParticipate(p)
        BY <2>3, DigestStep
    <2>4. CASE \E p \in R!Rows : ReconParticipate(p)
        BY <2>4, ReconStep
    <2>5. CASE UNCHANGED vars
        <3>1. OwnTypes' /\ MainAndPhase' /\ JoinedIsQuiet' /\ MarkingDigests'
            BY <2>5 DEF vars, PInv, Own, OwnTypes, MainAndPhase, JoinedIsQuiet, Quiet,
               MarkingDigests, Digesting, parseVars, sliceVars, rowVars
        <3> QED BY <2>5, <3>1, FrameKept DEF vars, Own
    <2> QED BY <2>1, <2>2, <2>3, <2>4, <2>5 DEF Next
<1> QED BY <1>1, <1>2 DEF PInv

-----------------------------------------------------------------------------
(* Whole rows.                                                             *)

Finished(r) == \E p \in R!Rows : R!Has(p, r) /\ rowStage[p] = "done"

\* A row that is committed is whole, or was committed and reconstructed before a
\* picture was refused, whose slices may be going over it again.
CommittedIsComplete ==
    phase \in {"slicing", "presented"} =>
        \A r \in R!Rows : commits[r] # 0 => Complete(r) \/ Finished(r)

LEMMA CompleteKept ==
    ASSUME PInv, NEW r \in R!Rows, Complete(r), overrun \subseteq overrun',
           nextMB' \in [Slices -> Nat], \A t \in Slices : nextMB[t] <= nextMB'[t]
    PROVE  Complete(r)'
<1>1. nextMB \in [Slices -> Nat]
    BY DEF PInv, Own, OwnTypes
<1>2. Parsed \subseteq Parsed'
    <2> SUFFICES ASSUME NEW x \in 0 .. NumMB - 1, NEW t \in Slices,
                        SliceStart(t) <= x, x < nextMB[t]
                 PROVE  x < nextMB'[t]
        BY DEF Parsed
    <2> QED BY <1>1, SliceBounds
<1>3. ASSUME NEW x \in RowData(r), ParsedByItsSlice(x) PROVE ParsedByItsSlice(x)'
    <2> SUFFICES ASSUME NEW t \in Slices, x < nextMB[t] PROVE x < nextMB'[t]
        BY <1>3 DEF ParsedByItsSlice
    <2> QED BY <1>1, SliceBounds DEF RowData
<1>4. RowData(r) = RowData(r)'
    BY DEF RowData
<1> QED BY <1>2, <1>3, <1>4 DEF Complete

LEMMA FinishedKept ==
    ASSUME NEW r \in R!Rows, Finished(r),
           \A p \in R!Rows : rowStage[p] = "done" =>
                rowStage'[p] = "done" /\ rowAt'[p] = rowAt[p]
    PROVE  Finished(r)'
<1> QED BY DEF Finished, R!Has

\* A slice that reaches the end of a row has been over all of it.
LEMMA ParseCompletes ==
    ASSUME SlicesAligned, PInv, NEW s \in Slices, ParseMacroBlock(s),
           LastOfRow(nextMB[s]), NEW row \in R!Rows, row = RowOf(nextMB[s])
    PROVE  Complete(row)'
<1> DEFINE mb == nextMB[s]
<1>1. /\ nextMB' = [nextMB EXCEPT ![s] = mb + 1] /\ overrun' = overrun
      /\ nextMB \in [Slices -> Nat] /\ mb \in Nat /\ SliceStart(s) <= mb
      /\ SliceStart(s) \in Nat /\ SliceStart(s) % MBWidth = 0
      /\ SliceStart(s) = SliceFirst(s)
    BY SliceBounds DEF ParseMacroBlock, PInv, Own, OwnTypes
<1>2. ASSUME NEW x \in RowData(row)
      PROVE  x \in Nat /\ SliceStart(s) <= x /\ x <= mb /\ x < nextMB'[s]
    <2>1. x \in Nat /\ RowOf(x) = row
        BY <1>2, SliceBounds DEF RowData
    <2>2. SliceStart(s) <= x /\ x <= mb
        BY <1>1, <2>1, RowBeforeLast
    <2> QED BY <1>1, <2>1, <2>2
<1>3. RowData(row) \subseteq Parsed'
    BY <1>2 DEF RowData, Parsed
<1>4. ASSUME overrun = {}, NEW x \in RowData(row), NEW t \in Slices,
             SliceFirst(t) <= x, x < SliceEnd[t]
      PROVE  x < nextMB'[t]
    <2>1. mb < SliceEnd[s]
        BY <1>4 DEF ParseMacroBlock, Parsing, Limit
    <2>2. SliceEnd[s] \in Nat
        BY SliceBounds
    <2>3. x \in Nat /\ SliceFirst(s) <= x /\ x < SliceEnd[s]
        BY <1>1, <1>2, <2>1, <2>2
    <2>4. t = s
        BY <1>4, <2>3, SlicesApart
    <2> QED BY <1>2, <2>4
<1>5. overrun' = {} => \A x \in RowData(row) : ParsedByItsSlice(x)'
    BY <1>1, <1>4 DEF ParsedByItsSlice
<1> QED BY <1>3, <1>5 DEF Complete, RowData

LEMMA InitCommitted == Init => CommittedIsComplete
<1> QED BY DEF Init, R!Init, CommittedIsComplete

LEMMA StepCommitted ==
    ASSUME SlicesAligned, PInv, CommittedIsComplete, [Next]_vars
    PROVE  CommittedIsComplete'
<1> USE DEF CommittedIsComplete
<1>1. CASE JoinReconAndStart
    BY <1>1 DEF JoinReconAndStart, R!OpenFrame, R!CloseForDropped
<1>2. CASE RefusePicture
    <2>1. /\ R!DigestFinished /\ R!ReconFinished
          /\ UNCHANGED <<commits, rowStage, rowAt>>
        BY <1>2 DEF RefusePicture, R!RefusePicture
    <2>2. ASSUME NEW r \in R!Rows, commits[r] # 0 PROVE Finished(r)
        <3>1. PICK p \in R!Rows : R!Has(p, r)
            BY <2>1, <2>2, RowFacts DEF PInv
        <3>2. rowStage[p] = "done"
            BY <2>1, <3>1 DEF R!Has, R!ReconFinished
        <3> QED BY <3>1, <3>2 DEF Finished
    <2> QED BY <2>1, <2>2, FinishedKept
<1>3. CASE EmitFrame \/ FinishSync
    <2>1. /\ UNCHANGED <<parseVars, commits, rowStage, rowAt>>
          /\ phase' \in {"slicing", "presented"} => phase = "slicing"
        BY <1>3 DEF EmitFrame, R!PresentFrame, FinishSync, R!WaitForFinish, rowVars,
           PInv, Own, MainAndPhase
    <2>2. /\ nextMB' \in [Slices -> Nat] /\ overrun \subseteq overrun'
          /\ \A t \in Slices : nextMB[t] <= nextMB'[t]
        BY <2>1 DEF PInv, Own, OwnTypes, parseVars
    <2> QED BY <2>1, <2>2, CompleteKept, FinishedKept
<1>4. ASSUME NEW s \in Slices, ParseMacroBlock(s) PROVE CommittedIsComplete'
    <2> DEFINE mb == nextMB[s]
    <2>1. /\ nextMB' = [nextMB EXCEPT ![s] = mb + 1] /\ phase = "slicing"
          /\ nextMB \in [Slices -> Nat] /\ mb \in Nat /\ overrun' = overrun
        BY <1>4, DigestingSlices DEF ParseMacroBlock, Parsing, PInv, Own, OwnTypes
    <2>2. /\ nextMB' \in [Slices -> Nat] /\ overrun \subseteq overrun'
          /\ \A t \in Slices : nextMB[t] <= nextMB'[t]
        BY <2>1
    <2>3. /\ commits \in [R!Rows -> Nat] /\ rowStage \in [R!Rows -> R!Stages]
        BY RowFacts DEF PInv, R!TypeOK
    <2>4. ASSUME NEW r \in R!Rows, commits'[r] # 0 PROVE Complete(r)' \/ Finished(r)'
        <3>1. CASE commits[r] # 0
            <4>1. \A p \in R!Rows : rowStage[p] = "done" =>
                        rowStage'[p] = "done" /\ rowAt'[p] = rowAt[p]
                <5> SUFFICES ASSUME NEW p \in R!Rows, rowStage[p] = "done"
                             PROVE  rowStage'[p] = "done" /\ rowAt' = rowAt
                    OBVIOUS
                <5>1. commits[p] # 0
                    BY RowFacts DEF PInv
                <5>2. LastOfRow(mb) => RowOf(mb) \in R!Rows
                    BY <1>4, ParsedRow DEF ParseMacroBlock
                <5>3. p = RowOf(mb) => commits[RowOf(mb)] + 1 # 1
                    BY <2>3, <5>1
                <5> QED BY <1>4, <2>3, <5>2, <5>3 DEF ParseMacroBlock, R!CommitRow, rowVars
            <4> QED BY <2>1, <2>2, <3>1, <4>1, CompleteKept, FinishedKept
        <3>2. CASE commits[r] = 0
            <4>1. LastOfRow(mb) /\ r = RowOf(mb)
                BY <1>4, <2>3, <2>4, <3>2 DEF ParseMacroBlock, R!CommitRow, rowVars
            <4> QED BY <1>4, <4>1, ParseCompletes
        <3> QED BY <3>1, <3>2
    <2> QED BY <2>4
<1>5. ASSUME NEW s \in Slices, AbandonSlice(s) \/ RunOn(s) \/ NotifyRow(s)
      PROVE  CommittedIsComplete'
    <2>1. /\ nextMB' = nextMB /\ overrun \subseteq overrun'
          /\ UNCHANGED <<phase, commits, rowAt>>
        BY <1>5 DEF AbandonSlice, RunOn, NotifyRow, R!NotifyAvailable, rowVars
    <2>2. /\ nextMB' \in [Slices -> Nat]
          /\ \A t \in Slices : nextMB[t] <= nextMB'[t]
        BY <2>1 DEF PInv, Own, OwnTypes
    <2>3. rowStage \in [R!Rows -> R!Stages]
        BY RowFacts DEF PInv, R!TypeOK
    <2>4. \A p \in R!Rows : rowStage[p] = "done" => rowStage'[p] = "done"
        BY <1>5, <2>3 DEF AbandonSlice, RunOn, NotifyRow, R!NotifyAvailable, rowVars
    <2> QED BY <2>1, <2>2, <2>4, CompleteKept, FinishedKept
<1>6. ASSUME NEW q \in R!Rows, ReconParticipate(q) PROVE CommittedIsComplete'
    <2>1. /\ UNCHANGED <<parseVars, phase, commits>> /\ rowStage[q] # "done"
          /\ \A p \in R!Rows \ {q} : rowStage'[p] = rowStage[p] /\ rowAt'[p] = rowAt[p]
        <3>1. /\ UNCHANGED <<parseVars, phase, commits>> /\ rowStage[q] # "done"
              /\ \E x \in R!Stages : rowStage' = [rowStage EXCEPT ![q] = x]
              /\ rowAt' = rowAt \/ (\E y \in Int : rowAt' = [rowAt EXCEPT ![q] = y])
            <4>1. rowAt[q] + 1 \in Int
                BY RowFacts DEF PInv, R!TypeOK, R!Rows
            <4> QED BY <1>6, <4>1 DEF ReconParticipate, R!Participate, R!Begin,
                   R!SkipUncommitted, R!FindCommitted, R!Claim, R!Beaten, R!ReconstructRow,
                   R!GoOn, R!Stages
        <3>2. rowStage \in [R!Rows -> R!Stages] /\ rowAt \in [R!Rows -> R!Rows]
            BY RowFacts DEF PInv, R!TypeOK
        <3> QED BY <3>1, <3>2
    <2>2. \A p \in R!Rows : rowStage[p] = "done" =>
                rowStage'[p] = "done" /\ rowAt'[p] = rowAt[p]
        BY <2>1
    <2>3. /\ nextMB' \in [Slices -> Nat] /\ overrun \subseteq overrun'
          /\ \A t \in Slices : nextMB[t] <= nextMB'[t]
        BY <2>1 DEF PInv, Own, OwnTypes, parseVars
    <2> QED BY <2>1, <2>2, <2>3, CompleteKept, FinishedKept
<1>7. CASE UNCHANGED <<parseVars, rowVars>>
    <2>1. /\ nextMB' \in [Slices -> Nat] /\ overrun \subseteq overrun'
          /\ \A t \in Slices : nextMB[t] <= nextMB'[t]
          /\ UNCHANGED <<phase, commits, rowStage, rowAt>>
        BY <1>7 DEF PInv, Own, OwnTypes, parseVars, rowVars
    <2> QED BY <2>1, CompleteKept, FinishedKept
<1>8. [Next]_vars =>
        \/ JoinReconAndStart \/ RefusePicture \/ EmitFrame \/ FinishSync
        \/ \E s \in Slices :
             ParseMacroBlock(s) \/ AbandonSlice(s) \/ RunOn(s) \/ NotifyRow(s)
        \/ \E p \in R!Rows : ReconParticipate(p)
        \/ UNCHANGED <<parseVars, rowVars>>
    BY DEF Next, MainThread, Deslice, DispatchJob, DispatchNotify, DigestDirectly,
       PictureStart, VideoSync, BeginPacket, WaitForDigestFinish, EndDirectly,
       DigestParticipate, vars
<1> QED BY <1>1, <1>2, <1>3, <1>4, <1>5, <1>6, <1>7, <1>8

-----------------------------------------------------------------------------
(* The theorems.                                                           *)

LEMMA Invariant == Spec => []PInv
<1> QED BY InitPInv, NextPInv, PTL DEF Spec

\* RowDataComplete of VideoPipeline: the reconstructor never works on a row some
\* of whose macroblocks are still to be parsed (MarkRowFinished is called when a
\* row's last macroblock has been digested), if slices begin at rows; and as long
\* as none runs on, each of them by the slice it belongs to.
THEOREM RowsAreComplete ==
    ASSUME SlicesAligned
    PROVE  Spec => []RowDataComplete
<1>1. PInv /\ CommittedIsComplete => RowDataComplete
    <2> SUFFICES ASSUME PInv, CommittedIsComplete, NEW p \in R!Rows, rowStage[p] = "working"
                 PROVE  Complete(rowAt[p])
        BY DEF RowDataComplete
    <2>1. rowAt[p] \in R!Rows /\ commits[rowAt[p]] # 0
        BY RowFacts DEF PInv
    <2>2. phase \in {"slicing", "presented"}
        BY RowFacts DEF PInv, Own, RestingFrame, R!TypeOK, R!Phases
    <2>3. ~Finished(rowAt[p])
        <3> SUFFICES ASSUME NEW q \in R!Rows, R!Has(q, rowAt[p]), rowStage[q] = "done"
                     PROVE  FALSE
            BY DEF Finished
        <3>1. R!Has(p, rowAt[p])
            BY DEF R!Has
        <3>2. p = q
            BY <2>1, <3>1, RowFacts DEF PInv
        <3> QED BY <3>2
    <2> QED BY <2>1, <2>2, <2>3 DEF CommittedIsComplete
<1>2. Spec => []CommittedIsComplete
    <2>1. PInv /\ CommittedIsComplete /\ [Next]_vars => CommittedIsComplete'
        BY StepCommitted
    <2> QED BY <2>1, InitCommitted, Invariant, PTL DEF Spec
<1> QED BY <1>1, <1>2, Invariant, PTL

\* FrameReady of VideoPipeline: the state is well formed; and when a video
\* synchronization is returned to the player, both pools are at rest, no work
\* frame is left locked, and every row that was parsed has been reconstructed
\* (the joins of DigestPacket before EmitFrame and after it).
THEOREM FramesAreReady == Spec => []FrameReady
<1>1. PInv => FrameReady
    <2> SUFFICES ASSUME PInv PROVE FrameReady
        OBVIOUS
    <2>1. TypeOK
        <3>1. nextMB \in [Slices -> 0 .. NumMB]
            BY SliceBounds DEF PInv, Own, OwnTypes
        <3> QED BY <3>1, RowFacts, SliceFacts DEF PInv, Own, OwnTypes, TypeOK
    <2>2. ASSUME phase \in {"idle", "dropped"}
          PROVE  ~open /\ \A p \in S!Jobs : jobStage[p] = "none"
        BY <2>2 DEF PInv, Own, RestingFrame, JoinedIsQuiet, Quiet
    <2> QED BY <2>1, <2>2 DEF PInv, Own, RestingFrame, IdleIsDone, FrameReady
<1> QED BY <1>1, Invariant, PTL

\* The main thread and the deslicers keep to what the row jobs and the slice jobs
\* assume of them: the safety part of ImplementsRowJobs and ImplementsSliceJobs.
\* Counts are reset only when nobody uses them, jobs are destroyed only when no
\* thread is at one.
THEOREM UsesThePools ==
    Spec => /\ R!Init /\ [][R!Next]_rowVars
            /\ S!Init /\ [][S!Next]_sliceVars
<1>1. Init => R!Init /\ S!Init
    BY DEF Init
<1> QED BY <1>1, UsesRowJobs, UsesSliceJobs, Invariant, PTL DEF Spec

=============================================================================
