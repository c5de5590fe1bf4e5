---------------------------- MODULE RowJobsProofs ----------------------------
(***************************************************************************)
(* Proofs about the row jobs, for every number of rows.                    *)
(*                                                                         *)
(* The argument is one of counting: among the rows from i on, at least as  *)
(* many are committed as participations have come that far.  A thread that *)
(* goes past row i leaves either an uncommitted row behind, which does not *)
(* count, or a row and the other thread that holds it, which cancel.  So   *)
(* the bound passes from i to i + 1, and no thread reaches the end.        *)
(***************************************************************************)
EXTENDS RowJobs, FiniteSetTheorems, TLAPS

\* A participation exists for each committed row, and for no other.
ParticipationPerCommit == \A r \in Rows : stage[r] = "none" <=> commits[r] = 0

\* A row's user count tells whether a thread has the row.
CountedIffHeld == \A r \in Rows : users[r] > 0 <=> \E p \in Rows : Has(p, r)

ClaimsCommitted == \A p \in Rows : stage[p] = "claiming" => commits[at[p]] # 0

\* The threads that have incremented row r's user count have it or are past it.
Passed(r) == {p \in Rows : (Started(p) /\ at[p] > r) \/ Has(p, r)}

UsersCounted == \A r \in Rows : users[r] <= Cardinality(Passed(r))

Types ==
    /\ phase \in Phases
    /\ open \in BOOLEAN
    /\ commits \in [Rows -> 0..MaxCommits]
    /\ users \in [Rows -> Nat]
    /\ stage \in [Rows -> Stages]
    /\ at \in [Rows -> Rows]

IInv ==
    /\ Types
    /\ ParticipationPerCommit
    /\ CountedIffHeld
    /\ ClaimsCommitted
    /\ UsersCounted
    /\ RowsExclusive
    /\ EnoughRowsAhead

-----------------------------------------------------------------------------
(* Cardinalities of sets of rows.                                          *)

LEMMA RowsFinite == IsFiniteSet(Rows) /\ Cardinality(Rows) = NumRows
<1>1. 0 \in Int /\ NumRows - 1 \in Int /\ NumRows > 0
    BY RowsAssumption
<1> QED BY <1>1, FS_Interval, RowsAssumption DEF Rows

LEMMA CardLe ==
    ASSUME NEW T \in SUBSET Rows, NEW S \in SUBSET T
    PROVE  /\ Cardinality(S) \in Nat
           /\ Cardinality(T) \in Nat
           /\ Cardinality(S) <= Cardinality(T)
           /\ Cardinality(T) <= NumRows
<1>1. IsFiniteSet(T) /\ Cardinality(T) <= NumRows
    BY RowsFinite, FS_Subset
<1>2. IsFiniteSet(S) /\ Cardinality(S) <= Cardinality(T)
    BY <1>1, FS_Subset
<1> QED BY <1>1, <1>2, FS_CardinalityType

LEMMA CardAdd ==
    ASSUME NEW S \in SUBSET Rows, NEW x \in Rows, x \notin S
    PROVE  /\ Cardinality(S \cup {x}) = Cardinality(S) + 1
           /\ Cardinality(S) \in Nat
<1>1. IsFiniteSet(S)
    BY RowsFinite, FS_Subset
<1> QED BY <1>1, FS_AddElement, FS_CardinalityType

LEMMA CardLess ==
    ASSUME NEW T \in SUBSET Rows, NEW S \in SUBSET T, NEW x \in T, x \notin S
    PROVE  Cardinality(S) + 1 <= Cardinality(T)
<1>1. Cardinality(S \cup {x}) = Cardinality(S) + 1
    BY CardAdd
<1>2. Cardinality(S \cup {x}) <= Cardinality(T)
    BY CardLe, S \cup {x} \in SUBSET T
<1> QED BY <1>1, <1>2

LEMMA CardLess2 ==
    ASSUME NEW T \in SUBSET Rows, NEW S \in SUBSET T,
           NEW x \in T, NEW y \in T, x \notin S, y \notin S, x # y
    PROVE  Cardinality(S) + 2 <= Cardinality(T)
<1>1. Cardinality(S \cup {x}) = Cardinality(S) + 1 /\ Cardinality(S) \in Nat
    BY CardAdd
<1>2. Cardinality(S \cup {x}) + 1 <= Cardinality(T)
    BY CardLess, S \cup {x} \in SUBSET T, y \notin S \cup {x}
<1> QED BY <1>1, <1>2, CardLe

-----------------------------------------------------------------------------
(* The heart of the argument: a thread that goes on from row i has at least *)
(* one committed row after i that the others after i do not use up.         *)

LEMMA GoesOn ==
    ASSUME IInv, NEW p \in Rows, SkipUncommitted(p) \/ Beaten(p)
    PROVE  /\ at[p] + 1 \in Rows
           /\ Cardinality(ReachedFrom(at[p] + 1)) + 1
                <= Cardinality(CommittedFrom(at[p] + 1))
<1> DEFINE i == at[p]
           R == ReachedFrom(i)      R1 == ReachedFrom(i + 1)
           C == CommittedFrom(i)    C1 == CommittedFrom(i + 1)
<1>1. i \in Rows /\ i \in Int /\ Started(p) /\ Searching(p)
    BY DEF IInv, Types, SkipUncommitted, Beaten, Started, Searching, Rows
<1>2. R \in SUBSET Rows /\ R1 \in SUBSET R /\ C \in SUBSET Rows /\ C1 \in SUBSET C
    <2>1. \A r \in Rows : r >= i + 1 => r >= i
        BY <1>1 DEF Rows
    <2>2. \A r \in Rows : at[r] >= i + 1 => at[r] >= i
        BY <2>1 DEF IInv, Types
    <2> QED BY <2>1, <2>2 DEF ReachedFrom, CommittedFrom, Committed
<1>3. p \in R /\ p \notin R1
    BY <1>1 DEF ReachedFrom, Rows
<1>4. Cardinality(R) <= Cardinality(C)
    BY <1>1 DEF IInv, EnoughRowsAhead
<1>5. /\ Cardinality(R) \in Nat /\ Cardinality(R1) \in Nat
      /\ Cardinality(C) \in Nat /\ Cardinality(C1) \in Nat
    BY <1>2, CardLe
<1>6. Cardinality(R1) + 1 <= Cardinality(C1)
    <2>1. CASE SkipUncommitted(p)
        <3>1. C1 = C
            BY <1>1, <2>1 DEF SkipUncommitted, CommittedFrom, Committed, Rows
        <3> QED BY <3>1, <1>2, <1>3, <1>4, <1>5, CardLess
    <2>2. CASE Beaten(p)
        <3>1. users[i] > 0 /\ stage[p] = "claiming"
            BY <1>1, <2>2 DEF Beaten, IInv, Types
        <3>2. PICK q \in Rows : Has(q, i)
            BY <1>1, <3>1 DEF IInv, CountedIffHeld
        <3>3. q # p
            BY <3>1, <3>2 DEF Has
        <3>4. q \in R /\ q \notin R1
            BY <1>1, <3>2 DEF Has, ReachedFrom, Started, Rows
        <3>5. Cardinality(R1) + 2 <= Cardinality(R)
            BY <1>2, <1>3, <3>3, <3>4, CardLess2
        <3>6. i \in C /\ i \notin C1 /\ C = C1 \cup {i}
            BY <1>1, <3>1 DEF IInv, ClaimsCommitted, CommittedFrom, Committed, Rows
        <3>7. Cardinality(C) = Cardinality(C1) + 1
            BY <1>1, <1>2, <3>6, CardAdd
        <3> QED BY <3>5, <3>7, <1>4, <1>5
    <2> QED BY <2>1, <2>2
<1>7. i + 1 \in Rows
    <2>1. SUFFICES ASSUME i + 1 \notin Rows PROVE FALSE
        OBVIOUS
    <2>2. C1 = {}
        BY <2>1, <1>1, RowsAssumption DEF CommittedFrom, Committed, Rows
    <2>3. Cardinality(C1) = 0
        BY <2>2, FS_EmptySet
    <2> QED BY <2>3, <1>5, <1>6
<1> QED BY <1>6, <1>7

-----------------------------------------------------------------------------
(* Steps that move no thread to another row, and none into or out of the    *)
(* set of those that have a row.                                            *)

LEMMA NobodyMoves ==
    ASSUME IInv, Types', users' = users,
           Committed \subseteq Committed',
           \A p \in Rows : Started(p)' <=> Started(p),
           \A p \in Rows : Started(p) => at'[p] = at[p],
           \A p, r \in Rows : Has(p, r)' <=> Has(p, r)
    PROVE  (CountedIffHeld /\ UsersCounted /\ RowsExclusive /\ EnoughRowsAhead)'
<1>1. CountedIffHeld'
    BY DEF IInv, CountedIffHeld
<1>2. RowsExclusive'
    BY DEF IInv, RowsExclusive
<1>3. UsersCounted'
    <2>1. \A r \in Rows : Passed(r)' = Passed(r)
        BY DEF Passed
    <2> QED BY <2>1 DEF IInv, UsersCounted
<1>4. EnoughRowsAhead'
    <2> SUFFICES ASSUME NEW i \in Rows
                 PROVE  Cardinality(ReachedFrom(i)') <= Cardinality(CommittedFrom(i)')
        BY DEF EnoughRowsAhead
    <2>1. ReachedFrom(i)' = ReachedFrom(i)
        BY DEF ReachedFrom
    <2>2. CommittedFrom(i)' \in SUBSET Rows /\ CommittedFrom(i) \in SUBSET CommittedFrom(i)'
        BY DEF CommittedFrom, Committed
    <2>3. ReachedFrom(i) \in SUBSET Rows
        BY DEF ReachedFrom
    <2>4. Cardinality(ReachedFrom(i)) <= Cardinality(CommittedFrom(i))
        BY DEF IInv, EnoughRowsAhead
    <2> QED BY <2>1, <2>2, <2>3, <2>4, CardLe
<1> QED BY <1>1, <1>2, <1>3, <1>4

-----------------------------------------------------------------------------
LEMMA InitIInv == Init => IInv
<1> SUFFICES ASSUME Init PROVE IInv
    OBVIOUS
<1>1. Types
    <2>1. 0 \in Rows /\ 0 \in 0..MaxCommits
        BY RowsAssumption, CommitsAssumption DEF Rows
    <2> QED BY <2>1 DEF Init, Types, Phases, Stages
<1>2. ParticipationPerCommit /\ CountedIffHeld /\ ClaimsCommitted /\ RowsExclusive
    BY DEF Init, ParticipationPerCommit, CountedIffHeld, ClaimsCommitted,
           RowsExclusive, Has
<1>3. UsersCounted
    BY CardLe DEF Init, UsersCounted, Passed
<1>4. EnoughRowsAhead
    <2>1. \A i \in Rows : ReachedFrom(i) = {} /\ CommittedFrom(i) \in SUBSET Rows
        BY DEF Init, ReachedFrom, Started, CommittedFrom, Committed
    <2> QED BY <2>1, CardLe, FS_EmptySet DEF EnoughRowsAhead
<1> QED BY <1>1, <1>2, <1>3, <1>4 DEF IInv

LEMMA CommitRowStep ==
    ASSUME IInv, NEW r \in Rows, CommitRow(r)
    PROVE  IInv'
<1> USE DEF IInv, CommitRow
<1>1. Types'
    BY CommitsAssumption DEF Types, Stages
<1>2. stage[r] = "none" <=> commits[r] + 1 = 1
    BY DEF ParticipationPerCommit, Types
<1>3. ParticipationPerCommit'
    BY <1>2 DEF ParticipationPerCommit, Types, Stages
<1>4. ClaimsCommitted'
    BY <1>2 DEF ClaimsCommitted, Types
<1>5. Committed \subseteq Committed'
    BY DEF Committed, Types
<1>6. \A p \in Rows : stage'[p] = stage[p] \/ (stage[p] = "none" /\ stage'[p] = "counted")
    BY <1>2 DEF Types
<1>7. /\ \A p \in Rows : Started(p)' <=> Started(p)
      /\ \A p, q \in Rows : Has(p, q)' <=> Has(p, q)
    BY <1>6 DEF Started, Has
<1> QED BY <1>1, <1>3, <1>4, <1>5, <1>7, NobodyMoves

LEMMA NotifyAvailableStep ==
    ASSUME IInv, NEW r \in Rows, NotifyAvailable(r)
    PROVE  IInv'
<1> USE DEF IInv, NotifyAvailable
<1>1. Types'
    BY DEF Types, Stages
<1>2. ParticipationPerCommit' /\ ClaimsCommitted'
    BY DEF ParticipationPerCommit, ClaimsCommitted, Types
<1>3. /\ Committed \subseteq Committed'
      /\ \A p \in Rows : Started(p)' <=> Started(p)
      /\ \A p, q \in Rows : Has(p, q)' <=> Has(p, q)
    BY DEF Committed, Started, Has, Types
<1> QED BY <1>1, <1>2, <1>3, NobodyMoves

LEMMA FindCommittedStep ==
    ASSUME IInv, NEW p \in Rows, FindCommitted(p)
    PROVE  IInv'
<1> USE DEF IInv, FindCommitted
<1>1. Types'
    BY DEF Types, Stages
<1>2. ParticipationPerCommit' /\ ClaimsCommitted'
    BY DEF ParticipationPerCommit, ClaimsCommitted, Types
<1>3. /\ Committed \subseteq Committed'
      /\ \A q \in Rows : Started(q)' <=> Started(q)
      /\ \A q, r \in Rows : Has(q, r)' <=> Has(q, r)
    BY DEF Committed, Started, Has, Types
<1> QED BY <1>1, <1>2, <1>3, NobodyMoves

LEMMA ReconstructRowStep ==
    ASSUME IInv, NEW p \in Rows, ReconstructRow(p)
    PROVE  IInv'
<1> USE DEF IInv, ReconstructRow
<1>1. Types'
    BY DEF Types, Stages
<1>2. ParticipationPerCommit' /\ ClaimsCommitted'
    BY DEF ParticipationPerCommit, ClaimsCommitted, Types
<1>3. /\ Committed \subseteq Committed'
      /\ \A q \in Rows : Started(q)' <=> Started(q)
      /\ \A q, r \in Rows : Has(q, r)' <=> Has(q, r)
    BY DEF Committed, Started, Has, Types
<1> QED BY <1>1, <1>2, <1>3, NobodyMoves

LEMMA MainThreadStep ==
    ASSUME IInv,
           \/ StartDroppedFrame \/ RefusePicture \/ PresentFrame \/ WaitForFinish
           \/ UNCHANGED vars
    PROVE  IInv'
<1>1. UNCHANGED <<commits, users, stage, at>>
    BY DEF StartDroppedFrame, CloseForDropped, RefusePicture, PresentFrame, WaitForFinish, vars
<1>2. Types'
    BY <1>1 DEF IInv, Types, StartDroppedFrame, CloseForDropped, RefusePicture, PresentFrame,
       WaitForFinish, vars, Phases
<1>3. ParticipationPerCommit' /\ ClaimsCommitted'
    BY <1>1 DEF IInv, ParticipationPerCommit, ClaimsCommitted
<1>4. /\ Committed \subseteq Committed'
      /\ \A q \in Rows : Started(q)' <=> Started(q)
      /\ \A q, r \in Rows : Has(q, r)' <=> Has(q, r)
    BY <1>1 DEF Committed, Started, Has
<1> QED BY <1>1, <1>2, <1>3, <1>4, NobodyMoves DEF IInv

LEMMA StartNewFrameStep ==
    ASSUME IInv, StartNewFrame
    PROVE  IInv'
<1>1. Types'
    BY RowsAssumption, CommitsAssumption
    DEF StartNewFrame, OpenFrame, Types, Rows, Phases, Stages
<1>2. (ParticipationPerCommit /\ CountedIffHeld /\ ClaimsCommitted /\ RowsExclusive)'
    BY DEF StartNewFrame, OpenFrame, ParticipationPerCommit, CountedIffHeld,
           ClaimsCommitted, RowsExclusive, Has
<1>3. UsersCounted'
    <2>1. \A r \in Rows : Passed(r)' \in SUBSET Rows /\ users'[r] = 0
        BY DEF StartNewFrame, OpenFrame, Passed
    <2> QED BY <2>1, CardLe DEF UsersCounted
<1>4. EnoughRowsAhead'
    <2>1. \A i \in Rows : ReachedFrom(i)' = {} /\ CommittedFrom(i)' \in SUBSET Rows
        BY DEF StartNewFrame, OpenFrame, ReachedFrom, Started, CommittedFrom, Committed
    <2> QED BY <2>1, CardLe, FS_EmptySet DEF EnoughRowsAhead
<1> QED BY <1>1, <1>2, <1>3, <1>4 DEF IInv

LEMMA BeginStep ==
    ASSUME IInv, NEW p \in Rows, Begin(p)
    PROVE  IInv'
<1> USE DEF IInv, Begin
<1>0. 0 \in Rows
    BY RowsAssumption DEF Rows
<1>1. Types'
    BY <1>0 DEF Types, Stages
<1>2. ParticipationPerCommit' /\ ClaimsCommitted'
    BY DEF ParticipationPerCommit, ClaimsCommitted, Types
<1>3. \A q, r \in Rows : Has(q, r)' <=> Has(q, r)
    BY DEF Has, Types
<1>4. CountedIffHeld' /\ RowsExclusive'
    BY <1>3 DEF CountedIffHeld, RowsExclusive, Committed
<1>5. UsersCounted'
    <2>1. \A q \in Rows : q # p => (Started(q)' <=> Started(q)) /\ at'[q] = at[q]
        BY DEF Started, Types
    <2>2. \A r \in Rows : ~(at'[p] > r) /\ ~Started(p)
        BY DEF Started, Types, Rows
    <2>3. \A r \in Rows : Passed(r)' = Passed(r)
        BY <1>3, <2>1, <2>2 DEF Passed
    <2> QED BY <2>3 DEF UsersCounted
<1>6. EnoughRowsAhead'
    <2> SUFFICES ASSUME NEW i \in Rows
                 PROVE  Cardinality(ReachedFrom(i)') <= Cardinality(CommittedFrom(i)')
        BY DEF EnoughRowsAhead
    <2>1. CommittedFrom(i)' = CommittedFrom(i) /\ CommittedFrom(i) \in SUBSET Rows
        BY DEF CommittedFrom, Committed
    <2>2. CASE i = 0
        <3>1. \A q \in Rows : Started(q)' => commits[q] # 0
            BY DEF Started, Types, ParticipationPerCommit
        <3>2. ReachedFrom(i)' \in SUBSET CommittedFrom(i)
            BY <2>2, <3>1 DEF ReachedFrom, CommittedFrom, Committed, Rows
        <3> QED BY <2>1, <3>2, CardLe
    <2>3. CASE i > 0
        <3>1. \A q \in Rows : q # p => (Started(q)' <=> Started(q)) /\ at'[q] = at[q]
            BY DEF Started, Types
        <3>2. ~(at'[p] >= i) /\ ~Started(p)
            BY <2>3 DEF Started, Types, Rows
        <3>3. ReachedFrom(i)' = ReachedFrom(i)
            BY <3>1, <3>2 DEF ReachedFrom
        <3> QED BY <2>1, <3>3 DEF EnoughRowsAhead
    <2> QED BY <2>2, <2>3 DEF Rows
<1> QED BY <1>1, <1>2, <1>4, <1>5, <1>6

\* A step to the next row disturbs the count of that row only.
LEMMA NextRowKeepsEnough ==
    ASSUME IInv, NEW p \in Rows, SkipUncommitted(p) \/ Beaten(p)
    PROVE  /\ at' = [at EXCEPT ![p] = @ + 1]
           /\ stage' = [stage EXCEPT ![p] = "looking"]
           /\ Started(p)
           /\ at[p] + 1 \in Rows
           /\ EnoughRowsAhead'
<1>1. at[p] + 1 \in Rows /\ at[p] \in Rows /\ Started(p)
    BY GoesOn DEF IInv, Types, SkipUncommitted, Beaten, Started
<1>2. /\ at' = [at EXCEPT ![p] = @ + 1]
      /\ stage' = [stage EXCEPT ![p] = "looking"]
    BY <1>1, RowsAssumption DEF SkipUncommitted, Beaten, GoOn, Rows
<1>3. \A q \in Rows : q # p => (Started(q)' <=> Started(q)) /\ at'[q] = at[q]
    BY <1>2 DEF IInv, Types, Started
<1>4. Started(p)' /\ at'[p] = at[p] + 1
    BY <1>2 DEF IInv, Types, Started
<1>5. EnoughRowsAhead'
    <2> SUFFICES ASSUME NEW i \in Rows
                 PROVE  Cardinality(ReachedFrom(i)') <= Cardinality(CommittedFrom(i)')
        BY DEF EnoughRowsAhead
    <2>1. CommittedFrom(i)' = CommittedFrom(i)
        BY DEF CommittedFrom, Committed, SkipUncommitted, Beaten
    <2>2. ReachedFrom(i) \in SUBSET Rows
        BY DEF ReachedFrom
    <2>3. CASE i = at[p] + 1
        <3>1. ReachedFrom(i)' = ReachedFrom(i) \cup {p} /\ p \notin ReachedFrom(i)
            BY <1>1, <1>3, <1>4, <2>3 DEF ReachedFrom, Rows
        <3>2. Cardinality(ReachedFrom(i)') = Cardinality(ReachedFrom(i)) + 1
            BY <2>2, <3>1, CardAdd
        <3> QED BY <2>1, <2>3, <3>2, GoesOn
    <2>4. CASE i # at[p] + 1
        <3>1. at'[p] >= i <=> at[p] >= i
            BY <1>1, <1>4, <2>4 DEF Rows
        <3>2. ReachedFrom(i)' = ReachedFrom(i)
            BY <1>1, <1>3, <1>4, <3>1 DEF ReachedFrom
        <3> QED BY <2>1, <3>2 DEF IInv, EnoughRowsAhead
    <2> QED BY <2>3, <2>4
<1> QED BY <1>1, <1>2, <1>5

LEMMA NextRowStep ==
    ASSUME IInv, NEW p \in Rows, SkipUncommitted(p) \/ Beaten(p)
    PROVE  IInv'
<1>1. /\ at' = [at EXCEPT ![p] = @ + 1]
      /\ stage' = [stage EXCEPT ![p] = "looking"]
      /\ Started(p) /\ stage[p] \in {"looking", "claiming"}
      /\ at[p] + 1 \in Rows /\ at[p] \in Rows
      /\ EnoughRowsAhead'
      /\ UNCHANGED <<phase, open, commits>>
    BY NextRowKeepsEnough DEF SkipUncommitted, Beaten, IInv, Types
<1>2. users' = users \/ (users[at[p]] > 0 /\ users' = [users EXCEPT ![at[p]] = @ + 1])
    BY <1>1 DEF SkipUncommitted, Beaten, IInv, Types
<1>3. Types'
    BY <1>1, <1>2 DEF IInv, Types, Stages
<1>4. ParticipationPerCommit' /\ ClaimsCommitted'
    BY <1>1 DEF IInv, ParticipationPerCommit, ClaimsCommitted, Types
<1>5. \A q, r \in Rows : Has(q, r)' <=> Has(q, r)
    BY <1>1 DEF Has, IInv, Types
<1>6. CountedIffHeld'
    <2>1. \A r \in Rows : users'[r] > 0 <=> users[r] > 0
        BY <1>1, <1>2 DEF IInv, Types
    <2> QED BY <1>5, <2>1 DEF IInv, CountedIffHeld
<1>7. RowsExclusive'
    BY <1>1, <1>5 DEF IInv, RowsExclusive, Committed
<1>8. UsersCounted'
    <2> SUFFICES ASSUME NEW r \in Rows
                 PROVE  users'[r] <= Cardinality(Passed(r)')
        BY DEF UsersCounted
    <2>1. \A q \in Rows : q # p => (Started(q)' <=> Started(q)) /\ at'[q] = at[q]
        BY <1>1 DEF IInv, Types, Started
    <2>2. Started(p)' /\ at'[p] = at[p] + 1
        BY <1>1 DEF IInv, Types, Started
    <2>3. Passed(r) \in SUBSET Passed(r)' /\ Passed(r)' \in SUBSET Rows
        BY <1>1, <1>5, <2>1, <2>2 DEF Passed, Rows
    <2>4. users[r] \in Nat /\ users[r] <= Cardinality(Passed(r))
        BY DEF IInv, Types, UsersCounted
    <2>5. CASE users'[r] = users[r]
        BY <2>3, <2>4, <2>5, CardLe
    <2>6. CASE r = at[p]
        <3>1. p \in Passed(r)' /\ p \notin Passed(r)
            BY <1>1, <2>2, <2>6 DEF Passed, Has, Rows
        <3>2. Cardinality(Passed(r)) + 1 <= Cardinality(Passed(r)')
            BY <2>3, <3>1, CardLess
        <3>3. users'[r] <= users[r] + 1
            BY <1>1, <1>2, <2>4, <2>6 DEF IInv, Types
        <3> QED BY <2>3, <2>4, <3>2, <3>3, <1>3, CardLe DEF Types
    <2> QED BY <1>2, <2>5, <2>6 DEF IInv, Types
<1> QED BY <1>1, <1>3, <1>4, <1>6, <1>7, <1>8 DEF IInv

LEMMA ClaimStep ==
    ASSUME IInv, NEW p \in Rows, Claim(p)
    PROVE  IInv'
<1> USE DEF IInv, Claim
<1> DEFINE i == at[p]
<1>1. i \in Rows /\ users[i] = 0 /\ i \in Committed
    BY DEF Types, ClaimsCommitted, Committed
<1>2. Types'
    BY <1>1 DEF Types, Stages
<1>3. ParticipationPerCommit' /\ ClaimsCommitted'
    BY DEF ParticipationPerCommit, ClaimsCommitted, Types
<1>4. \A q, r \in Rows : Has(q, r)' <=> Has(q, r) \/ (q = p /\ r = i)
    BY DEF Has, Types
<1>5. \A q \in Rows : ~Has(q, i)
    BY <1>1 DEF CountedIffHeld, Types
<1>6. CountedIffHeld'
    BY <1>1, <1>4 DEF CountedIffHeld, Types
<1>7. RowsExclusive'
    BY <1>1, <1>4, <1>5 DEF RowsExclusive, Committed, Has
<1>8. \A q \in Rows : (Started(q)' <=> Started(q)) /\ at'[q] = at[q]
    BY DEF Started, Types
<1>9. EnoughRowsAhead'
    <2>1. \A r \in Rows : ReachedFrom(r)' = ReachedFrom(r) /\ CommittedFrom(r)' = CommittedFrom(r)
        BY <1>8 DEF ReachedFrom, CommittedFrom, Committed
    <2> QED BY <2>1 DEF EnoughRowsAhead
<1>10. UsersCounted'
    <2> SUFFICES ASSUME NEW r \in Rows
                 PROVE  users'[r] <= Cardinality(Passed(r)')
        BY DEF UsersCounted
    <2>1. users[r] \in Nat /\ users[r] <= Cardinality(Passed(r))
        BY DEF Types, UsersCounted
    <2>2. CASE r = i
        <3>1. p \in Passed(r)' /\ Passed(r)' \in SUBSET Rows /\ {} \in SUBSET Passed(r)'
            BY <1>4, <2>2 DEF Passed
        <3>2. Cardinality({}) + 1 <= Cardinality(Passed(r)')
            BY <3>1, CardLess
        <3>3. users'[r] = 1
            BY <1>1, <2>2 DEF Types
        <3> QED BY <3>2, <3>3, FS_EmptySet
    <2>3. CASE r # i
        <3>1. Passed(r)' = Passed(r) /\ users'[r] = users[r]
            BY <1>4, <1>8, <2>3 DEF Passed, Types
        <3> QED BY <2>1, <3>1
    <2> QED BY <2>2, <2>3
<1> QED BY <1>2, <1>3, <1>6, <1>7, <1>9, <1>10

LEMMA NextIInv == IInv /\ [Next]_vars => IInv'
<1> SUFFICES ASSUME IInv, [Next]_vars PROVE IInv'
    OBVIOUS
<1>1. CASE \E r \in Rows : CommitRow(r) \/ NotifyAvailable(r)
    BY <1>1, CommitRowStep, NotifyAvailableStep
<1>2. CASE \E p \in Rows : Participate(p)
    BY <1>2, BeginStep, NextRowStep, FindCommittedStep, ClaimStep,
       ReconstructRowStep DEF Participate
<1>3. CASE StartNewFrame
    BY <1>3, StartNewFrameStep
<1>4. CASE StartDroppedFrame \/ RefusePicture \/ PresentFrame \/ WaitForFinish \/ UNCHANGED vars
    BY <1>4, MainThreadStep
<1> QED BY <1>1, <1>2, <1>3, <1>4 DEF Next

\* The strengthened invariant holds in every reachable state.
THEOREM Inductive == Spec => []IInv
<1> QED BY InitIInv, NextIInv, PTL DEF Spec

-----------------------------------------------------------------------------
(* What follows from it.                                                   *)

\* The state is well formed, and a row's user count never exceeds the number of
\* rows: it cannot wrap to 1 again and let a second thread in.
LEMMA TypesBounded == IInv => TypeOK
<1> SUFFICES ASSUME IInv PROVE TypeOK
    OBVIOUS
<1>1. \A r \in Rows : users[r] \in 0..NumRows
    <2> SUFFICES ASSUME NEW r \in Rows PROVE users[r] \in 0..NumRows
        OBVIOUS
    <2>1. Passed(r) \in SUBSET Rows
        BY DEF Passed
    <2>2. users[r] \in Nat /\ users[r] <= Cardinality(Passed(r))
        BY DEF IInv, Types, UsersCounted
    <2> QED BY <2>1, <2>2, CardLe, RowsAssumption
<1>2. users \in [Rows -> 0..NumRows]
    BY <1>1 DEF IInv, Types
<1> QED BY <1>2 DEF IInv, Types, TypeOK

\* Types; in particular the user counts cannot wrap.
THEOREM TypeCorrect == Spec => []TypeOK
<1> QED BY TypesBounded, Inductive, PTL

\* Ahead of every row there are at least as many committed rows as participations
\* that have come that far, so none of them can run off the end.
THEOREM EnoughAhead == Spec => []EnoughRowsAhead
<1>1. IInv => EnoughRowsAhead
    BY DEF IInv
<1> QED BY <1>1, Inductive, PTL

\* No row is reconstructed by two threads, or without having been committed.
THEOREM Exclusive == Spec => []RowsExclusive
<1>1. IInv => RowsExclusive
    BY DEF IInv
<1> QED BY <1>1, Inductive, PTL

\* If every row of T that is committed is held by someone who got as far, then
\* the holders are as many as the rows.
LEMMA HoldersFill ==
    ASSUME IInv, NEW T \in SUBSET Committed, NEW S \in SUBSET Rows,
           \A r \in T : \E q \in S : Has(q, r)
    PROVE  Cardinality(T) <= Cardinality(S)
<1> DEFINE f == [r \in T |-> CHOOSE q \in S : Has(q, r)]
<1>1. \A r \in T : f[r] \in S /\ Has(f[r], r)
    OBVIOUS
<1>2. \A r, s \in T : f[r] = f[s] => r = s
    BY <1>1 DEF Has
<1>3. f \in Injection(T, S)
    BY <1>1, <1>2 DEF Injection, IsInjective
<1>4. IsFiniteSet(S)
    BY RowsFinite, FS_Subset
<1> QED BY <1>3, <1>4, FS_Injection

\* A searching thread always has a free committed row ahead of it: it never runs
\* out of the loop to reconstruct row 0 by default.
THEOREM SearchAlwaysSucceeds == Spec => []SearchSucceeds
<1>1. IInv => SearchSucceeds
    <2> SUFFICES ASSUME IInv, NEW p \in Rows, Searching(p),
                        \A r \in Committed : r >= at[p] => \E q \in Rows : Has(q, r)
                 PROVE  FALSE
        BY DEF SearchSucceeds
    <2> DEFINE T == CommittedFrom(at[p])
               S == ReachedFrom(at[p]) \ {p}
    <2>1. at[p] \in Rows /\ p \in ReachedFrom(at[p])
        BY DEF IInv, Types, Searching, ReachedFrom, Started, Rows
    <2>2. \A r \in T : \E q \in S : Has(q, r)
        <3> SUFFICES ASSUME NEW r \in T PROVE \E q \in S : Has(q, r)
            OBVIOUS
        <3>1. PICK q \in Rows : Has(q, r)
            BY DEF CommittedFrom
        <3>2. q # p
            BY <3>1 DEF Has, Searching
        <3>3. q \in ReachedFrom(at[p])
            BY <3>1 DEF Has, ReachedFrom, Started, CommittedFrom
        <3> QED BY <3>1, <3>2, <3>3
    <2>3. T \in SUBSET Committed /\ S \in SUBSET Rows /\ ReachedFrom(at[p]) \in SUBSET Rows
        BY DEF CommittedFrom, ReachedFrom
    <2>4. Cardinality(T) <= Cardinality(S)
        BY <2>2, <2>3, HoldersFill
    <2>5. Cardinality(S) + 1 <= Cardinality(ReachedFrom(at[p]))
        BY <2>1, <2>3, CardLess
    <2>6. Cardinality(ReachedFrom(at[p])) <= Cardinality(T)
        BY <2>1 DEF IInv, EnoughRowsAhead
    <2>7. /\ Cardinality(S) \in Nat
          /\ Cardinality(T) \in Nat
          /\ Cardinality(ReachedFrom(at[p])) \in Nat
        BY <2>3, CardLe DEF Committed
    <2> QED BY <2>4, <2>5, <2>6, <2>7
<1> QED BY <1>1, Inductive, PTL

\* As many participations as rows are done, each with a row of its own: they
\* have all the rows.
LEMMA JoinedMeansReconstructed == IInv => JoinMeansReconstructed
<1> SUFFICES ASSUME IInv, ReconFinished, DigestFinished
             PROVE  \A r \in Committed : \E p \in Rows : Has(p, r)
    BY DEF JoinMeansReconstructed
<1> DEFINE g == [p \in Committed |-> at[p]]
<1>1. \A p \in Committed : stage[p] = "done" /\ at[p] \in Committed
    <2> SUFFICES ASSUME NEW p \in Committed
                 PROVE  stage[p] = "done" /\ at[p] \in Committed
        OBVIOUS
    <2>1. p \in Rows /\ stage[p] # "none"
        BY DEF IInv, ParticipationPerCommit, Committed
    <2>2. stage[p] = "done"
        BY <2>1 DEF ReconFinished, DigestFinished
    <2>3. Has(p, at[p]) /\ at[p] \in Rows
        BY <2>1, <2>2 DEF Has, IInv, Types
    <2> QED BY <2>1, <2>2, <2>3 DEF IInv, RowsExclusive
<1>2. \A p, q \in Committed : g[p] = g[q] => p = q
    BY <1>1 DEF IInv, RowsExclusive, Has, Committed
<1>3. g \in Injection(Committed, Committed)
    BY <1>1, <1>2 DEF Injection, IsInjective
<1>4. IsFiniteSet(Committed)
    BY RowsFinite, FS_Subset, Committed \in SUBSET Rows DEF Committed
<1>5. g \in Surjection(Committed, Committed)
    BY <1>3, <1>4, FS_Injection
<1>6. \A r \in Committed : \E p \in Committed : at[p] = r
    BY <1>5 DEF Surjection
<1> QED BY <1>1, <1>6 DEF Has, Committed

\* After the joins every committed row of the frame has been reconstructed.
THEOREM JoinIsEnough == Spec => []JoinMeansReconstructed
<1> QED BY JoinedMeansReconstructed, Inductive, PTL

-----------------------------------------------------------------------------
(* Row jobs are a work pool: the steps of the refinement.                  *)

\* A thread that has a row has one of the frame, and the row it is at.
LEMMA HasAt ==
    ASSUME IInv, NEW p \in Rows
    PROVE  /\ at[p] \in Rows
           /\ stage[p] \in {"working", "done"} => Has(p, at[p])
           /\ \A r \in Rows : Has(p, r) => r = at[p] /\ r \in Committed
BY DEF IInv, Types, Has, RowsExclusive

\* Steps that commit no new row and by which no thread comes to have a row or
\* is done with one are not seen in the pool.
LEMMA PoolUnmoved ==
    ASSUME Committed' = Committed,
           \A p, r \in Rows : Has(p, r)' <=> Has(p, r),
           \A p \in Rows : stage'[p] = "done" <=> stage[p] = "done"
    PROVE  UNCHANGED Pool!poolVars
BY DEF Pool!poolVars

LEMMA PoolOfCommitRow ==
    ASSUME IInv, NEW r \in Rows, CommitRow(r)
    PROVE  Pool!Offer(r) \/ UNCHANGED Pool!poolVars
<1>1. commits'[r] = commits[r] + 1 /\ commits[r] \in Nat
    BY DEF IInv, Types, CommitRow
<1>2. Committed' = Committed \cup {r}
    BY <1>1 DEF IInv, Types, CommitRow, Committed
<1>3. \A p \in Rows : stage'[p] = stage[p] \/ (stage[p] = "none" /\ stage'[p] = "counted")
    BY DEF IInv, Types, CommitRow, ParticipationPerCommit
<1>4. /\ \A p, q \in Rows : Has(p, q)' <=> Has(p, q)
      /\ \A p \in Rows : stage'[p] = "done" <=> stage[p] = "done"
    BY <1>3 DEF CommitRow, Has
<1>5. CASE r \in Committed
    BY <1>2, <1>4, <1>5, PoolUnmoved
<1>6. CASE r \notin Committed
    BY <1>2, <1>4, <1>6 DEF Pool!Offer
<1> QED BY <1>5, <1>6

LEMMA PoolOfClaim ==
    ASSUME IInv, NEW p \in Rows, Claim(p)
    PROVE  Pool!Take(at[p])
<1> DEFINE i == at[p]
<1>1. i \in Rows /\ users[i] = 0 /\ i \in Committed
    BY DEF IInv, Types, Claim, ClaimsCommitted, Committed
<1>2. Committed' = Committed
    BY DEF Claim, Committed
<1>3. \A q, r \in Rows : Has(q, r)' <=> Has(q, r) \/ (q = p /\ r = i)
    BY DEF IInv, Types, Claim, Has
<1>4. \A q \in Rows : ~Has(q, i)
    BY <1>1 DEF IInv, Types, CountedIffHeld
<1>5. \A q \in Rows : stage'[q] = "done" <=> stage[q] = "done"
    BY DEF IInv, Types, Claim
<1>6. stage[p] # "done"
    BY DEF Claim
<1> QED BY <1>1, <1>2, <1>3, <1>4, <1>5, <1>6 DEF Pool!Take

LEMMA PoolOfReconstructRow ==
    ASSUME IInv, NEW p \in Rows, ReconstructRow(p)
    PROVE  \E t \in Rows : Pool!Finish(t)
<1> DEFINE i == at[p]
<1>1. i \in Rows /\ Has(p, i) /\ stage[p] = "working"
    BY HasAt DEF ReconstructRow
<1>2. \A q \in Rows : Has(q, i) => q = p
    BY <1>1 DEF IInv, RowsExclusive
<1>3. /\ Committed' = Committed
      /\ \A q, r \in Rows : Has(q, r)' <=> Has(q, r)
    BY DEF IInv, Types, ReconstructRow, Committed, Has
<1>4. \A q \in Rows : stage'[q] = "done" <=> stage[q] = "done" \/ q = p
    BY DEF IInv, Types, ReconstructRow
<1>5. \A r \in Rows : Has(p, r) => r = i
    BY DEF Has
<1> QED BY <1>1, <1>2, <1>3, <1>4, <1>5 DEF Pool!Finish

\* A picture is begun when the joins have returned: what the pool was offered
\* has been finished.
LEMMA PoolOfStartNewFrame ==
    ASSUME IInv, StartNewFrame
    PROVE  Pool!Recycle
<1>1. \A r \in Committed : \E p \in Rows : Has(p, r)
    BY JoinedMeansReconstructed DEF JoinMeansReconstructed, StartNewFrame
<1>2. \A p, r \in Rows : Has(p, r) => stage[p] = "done" /\ r \in Committed
    BY HasAt DEF StartNewFrame, ReconFinished, Has
<1>3. Committed = {r \in Rows : \E p \in Rows : Has(p, r) /\ stage[p] = "done"}
    BY <1>1, <1>2 DEF Committed
<1>4. /\ Committed' = {}
      /\ \A p, r \in Rows : ~Has(p, r)'
    BY DEF StartNewFrame, OpenFrame, Committed, Has
<1> QED BY <1>3, <1>4 DEF Pool!Recycle

LEMMA PoolStep ==
    ASSUME IInv, [Next]_vars
    PROVE  [Pool!Next]_(Pool!poolVars)
<1>1. ASSUME NEW r \in Rows, CommitRow(r) PROVE Pool!Next \/ UNCHANGED Pool!poolVars
    BY <1>1, PoolOfCommitRow DEF Pool!Next
<1>2. ASSUME NEW r \in Rows, NotifyAvailable(r) \/ Begin(r) \/ FindCommitted(r)
      PROVE  UNCHANGED Pool!poolVars
    <2>1. /\ Committed' = Committed
          /\ \A q, s \in Rows : Has(q, s)' <=> Has(q, s)
          /\ \A q \in Rows : stage'[q] = "done" <=> stage[q] = "done"
        BY <1>2 DEF NotifyAvailable, Begin, FindCommitted, Committed, Has, IInv, Types
    <2> QED BY <2>1, PoolUnmoved
<1>3. ASSUME NEW p \in Rows, SkipUncommitted(p) \/ Beaten(p)
      PROVE  UNCHANGED Pool!poolVars
    <2>1. /\ at' = [at EXCEPT ![p] = @ + 1]
          /\ stage' = [stage EXCEPT ![p] = "looking"]
          /\ stage[p] \in {"looking", "claiming"}
          /\ commits' = commits
        BY <1>3, NextRowKeepsEnough DEF SkipUncommitted, Beaten
    <2>2. /\ Committed' = Committed
          /\ \A q, s \in Rows : Has(q, s)' <=> Has(q, s)
          /\ \A q \in Rows : stage'[q] = "done" <=> stage[q] = "done"
        BY <2>1 DEF Committed, Has, IInv, Types
    <2> QED BY <2>2, PoolUnmoved
<1>4. ASSUME NEW p \in Rows, Claim(p) PROVE Pool!Next
    BY <1>4, PoolOfClaim, HasAt DEF Pool!Next
<1>5. ASSUME NEW p \in Rows, ReconstructRow(p) PROVE Pool!Next
    <2>1. \E t \in Rows : Pool!Finish(t)
        BY <1>5, PoolOfReconstructRow
    <2>2. \A t \in Rows : Pool!Finish(t) => Pool!Next
        BY Zenon DEF Pool!Next
    <2> QED BY <2>1, <2>2
<1>6. CASE StartNewFrame
    BY <1>6, PoolOfStartNewFrame DEF Pool!Next
<1>7. CASE StartDroppedFrame \/ RefusePicture \/ PresentFrame \/ WaitForFinish \/ UNCHANGED vars
    <2>1. UNCHANGED <<commits, users, stage, at>>
        BY <1>7 DEF StartDroppedFrame, CloseForDropped, RefusePicture, PresentFrame, WaitForFinish, vars
    <2>2. /\ Committed' = Committed
          /\ \A q, s \in Rows : Has(q, s)' <=> Has(q, s)
          /\ \A q \in Rows : stage'[q] = "done" <=> stage[q] = "done"
        BY <2>1 DEF Committed, Has
    <2> QED BY <2>2, PoolUnmoved
<1> QED BY <1>1, <1>2, <1>3, <1>4, <1>5, <1>6, <1>7 DEF Next, Participate

\* Row jobs keep what the work pool promises for committed rows, whichever thread
\* finds which row: each is taken once, finished once, and the frame is only
\* begun anew when what was offered is finished.  (That they are taken and
\* finished in the end is the fairness half of ImplementsPool.)
THEOREM RowsAreAPool == Spec => Pool!Init /\ [][Pool!Next]_(Pool!poolVars)
<1>1. Init => Pool!Init
    BY DEF Init, Pool!Init, Committed, Has
<1> QED BY <1>1, PoolStep, Inductive, PTL DEF Spec
=============================================================================
