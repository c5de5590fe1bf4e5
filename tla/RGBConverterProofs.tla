------------------------- MODULE RGBConverterProofs -------------------------
(***************************************************************************)
(* Proofs about how the RGB converter shares out its blocks, for every     *)
(* height and every number of slices.                                      *)
(*                                                                         *)
(* The blocks below the counter are those that have been taken, each by    *)
(* one participation.  There are as many participations as blocks, so when *)
(* the last of them is done the counter has reached the end.               *)
(***************************************************************************)
EXTENDS RGBConverter, FiniteSetTheorems, TLAPS

N == conv.numBlocks

Types ==
    /\ N \in Nat
    /\ main \in {"idle", "notifying", "in turn"}
    /\ notified \in 0..N
    /\ counter \in Nat
    /\ stage \in [Participations -> {"none", "queued", "taken", "done"}]
    /\ block \in [Participations -> Int]

NotifiedInOrder == \A p \in Participations : stage[p] # "none" <=> p <= notified

HasBlock(p) == stage[p] \in {"taken", "done"}

BelowCounter == \A p \in Participations : HasBlock(p) => block[p] \in 0 .. counter - 1

EachBlockOnce ==
    \A p, q \in Participations : HasBlock(p) /\ HasBlock(q) /\ block[p] = block[q] => p = q

TakenBelowCounter ==
    \A b \in 0 .. counter - 1 : \E p \in Participations : HasBlock(p) /\ block[p] = b

JoinedUnlessNotifying == main # "notifying" => Joined /\ notified \in {0, N}

IInv ==
    /\ Types
    /\ NotifiedInOrder
    /\ BelowCounter
    /\ EachBlockOnce
    /\ TakenBelowCounter
    /\ JoinedUnlessNotifying

-----------------------------------------------------------------------------
LEMMA CardUpTo ==
    ASSUME NEW m \in Int, NEW n \in Int, m <= n + 1
    PROVE  IsFiniteSet(m..n) /\ Cardinality(m..n) = n - m + 1
<1> QED BY FS_Interval

LEMMA Numbers ==
    ASSUME IInv
    PROVE  N \in Nat /\ notified \in Nat /\ notified <= N /\ counter \in Nat
<1>1. N \in Nat /\ notified \in 0..N /\ counter \in Nat
    BY Zenon DEF IInv, Types
<1> QED BY <1>1

LEMMA Functions ==
    ASSUME IInv
    PROVE  /\ stage \in [Participations -> {"none", "queued", "taken", "done"}]
           /\ block \in [Participations -> Int]
<1> QED BY Zenon DEF IInv, Types

\* A participation that has no block yet finds one left.
LEMMA BlockLeft ==
    ASSUME IInv, NEW p \in Participations, ~HasBlock(p), p <= notified
    PROVE  counter < notified
<1>1. p \in 1..notified /\ notified \in Nat /\ counter \in Nat /\ notified <= N
    BY Numbers DEF Participations, N
<1> DEFINE B == 0 .. counter - 1
           S == (1..notified) \ {p}
           f == [b \in B |-> CHOOSE q \in Participations : HasBlock(q) /\ block[q] = b]
<1>2. \A b \in B : f[b] \in Participations /\ HasBlock(f[b]) /\ block[f[b]] = b
    BY DEF IInv, TakenBelowCounter
<1>3. \A b \in B : f[b] \in S
    <2> SUFFICES ASSUME NEW b \in B PROVE f[b] \in S
        OBVIOUS
    <2> HIDE DEF f
    <2>1. f[b] \in Participations /\ HasBlock(f[b])
        BY <1>2
    <2>2. f[b] <= notified
        BY <2>1 DEF IInv, NotifiedInOrder, HasBlock
    <2>3. f[b] \in Int /\ f[b] >= 1
        BY <2>1, Numbers DEF Participations, N
    <2> QED BY <2>1, <2>2, <2>3, <1>1
<1>4. \A b, c \in B : f[b] = f[c] => b = c
    BY <1>2
<1>5. f \in Injection(B, S)
    BY <1>3, <1>4 DEF Injection, IsInjective
<1>6. IsFiniteSet(1..notified) /\ Cardinality(1..notified) = notified
    BY <1>1, CardUpTo
<1>7. IsFiniteSet(S) /\ Cardinality(S) = notified - 1
    BY <1>1, <1>6, FS_RemoveElement
<1>8. Cardinality(B) <= Cardinality(S)
    BY <1>5, <1>7, FS_Injection
<1>9. Cardinality(B) = counter
    BY <1>1, CardUpTo
<1> QED BY <1>1, <1>7, <1>8, <1>9

\* The counter never exceeds the participations.
LEMMA CounterBounded == IInv => counter <= notified
<1> SUFFICES ASSUME IInv PROVE counter <= notified
    OBVIOUS
<1> DEFINE B == 0 .. counter - 1
           S == 1..notified
           f == [b \in B |-> CHOOSE q \in Participations : HasBlock(q) /\ block[q] = b]
<1>1. notified \in Nat /\ counter \in Nat
    BY Numbers
<1>2. \A b \in B : f[b] \in Participations /\ HasBlock(f[b]) /\ block[f[b]] = b
    BY DEF IInv, TakenBelowCounter
<1>3. \A b \in B : f[b] \in S
    <2> SUFFICES ASSUME NEW b \in B PROVE f[b] \in S
        OBVIOUS
    <2> HIDE DEF f
    <2>1. f[b] \in Participations /\ HasBlock(f[b])
        BY <1>2
    <2>2. f[b] <= notified
        BY <2>1 DEF IInv, NotifiedInOrder, HasBlock
    <2>3. f[b] \in Int /\ f[b] >= 1
        BY <2>1, Numbers DEF Participations, N
    <2> QED BY <2>1, <2>2, <2>3, <1>1
<1>4. \A b, c \in B : f[b] = f[c] => b = c
    BY <1>2
<1>5. f \in Injection(B, S)
    BY <1>3, <1>4 DEF Injection, IsInjective
<1>6. IsFiniteSet(S) /\ Cardinality(S) = notified
    BY <1>1, CardUpTo
<1>7. Cardinality(B) <= Cardinality(S)
    BY <1>5, <1>6, FS_Injection
<1>8. Cardinality(B) = counter
    BY <1>1, CardUpTo
<1> QED BY <1>6, <1>7, <1>8

\* When all participations are done, as many blocks have been taken.
LEMMA AllTaken ==
    ASSUME IInv, notified = N, Joined
    PROVE  counter = N
<1>1. N \in Nat /\ counter \in Nat /\ counter <= N
    BY CounterBounded DEF IInv, Types
<1>2. \A p \in Participations : HasBlock(p) /\ block[p] \in 0 .. counter - 1
    BY <1>1 DEF IInv, NotifiedInOrder, BelowCounter, Joined, HasBlock,
       Participations, N
<1>3. block \in Injection(Participations, 0 .. counter - 1)
    BY <1>2 DEF IInv, Types, EachBlockOnce, Injection, IsInjective
<1>4. /\ IsFiniteSet(0 .. counter - 1) /\ Cardinality(0 .. counter - 1) = counter
      /\ Cardinality(Participations) = N
    <2>1. 0 \in Int /\ counter - 1 \in Int /\ 0 <= counter - 1 + 1 /\ 1 \in Int /\ 1 <= N + 1
        BY <1>1
    <2>2. IsFiniteSet(0 .. counter - 1) /\ Cardinality(0 .. counter - 1) = counter - 1 - 0 + 1
        BY <2>1, CardUpTo
    <2>3. Cardinality(1 .. N) = N - 1 + 1
        BY <1>1, <2>1, CardUpTo
    <2> QED BY <1>1, <2>2, <2>3 DEF Participations, N
<1>5. Cardinality(Participations) <= Cardinality(0 .. counter - 1)
    BY <1>3, <1>4, FS_Injection
<1> QED BY <1>1, <1>4, <1>5

-----------------------------------------------------------------------------
LEMMA CreatedBlocks ==
    ASSUME NEW h \in Heights, NEW n \in 1 .. MaxSlices, NEW f \in BOOLEAN
    PROVE  Created(h, n, f).numBlocks \in Nat \ {0}
<1> DEFINE r == WorkBlockRowCount(h, n)
<1>1. h \in Nat /\ h > 0 /\ n \in Nat /\ n > 0
    BY RGBAssumption
<1> DEFINE c == CeilDiv(h, n)
<1>2. c \in Nat /\ c > 0
    BY <1>1, Z3 DEF CeilDiv
<1>3. r \in Nat /\ r > 0
    BY <1>2 DEF WorkBlockRowCount, EvenUp
<1>4. CeilDiv(h, r) \in Nat /\ CeilDiv(h, r) > 0
    BY <1>1, <1>3, Z3 DEF CeilDiv
<1> QED BY <1>4 DEF Created

LEMMA InitIInv == Init => IInv
<1> SUFFICES ASSUME Init PROVE IInv
    OBVIOUS
<1>1. N \in Nat
    BY CreatedBlocks DEF Init, N
<1> QED BY <1>1 DEF Init, IInv, Types, NotifiedInOrder, BelowCounter, EachBlockOnce,
           TakenBelowCounter, JoinedUnlessNotifying, HasBlock, Participations, Joined, N

LEMMA BeginStep ==
    ASSUME IInv, NEW hq \in BOOLEAN, BeginConvert(hq)
    PROVE  IInv'
<1>1. /\ conv' = conv /\ counter' = 0 /\ notified' = 0 /\ main' = "notifying"
      /\ stage' = [p \in Participations |-> "none"]
      /\ block' = [p \in Participations |-> -1]
    BY DEF BeginConvert
<1>2. N' = N /\ Participations' = Participations /\ N \in Nat
    BY <1>1, Numbers DEF N, Participations
<1>3. Types'
    <2>1. stage' \in [Participations -> {"none", "queued", "taken", "done"}]
        BY <1>1
    <2>2. block' \in [Participations -> Int]
        BY <1>1
    <2>3. N' \in Nat /\ counter' \in Nat /\ notified' \in 0..N'
        BY <1>1, <1>2
    <2> QED BY <1>1, <1>2, <2>1, <2>2, <2>3 DEF Types
<1>4. NotifiedInOrder'
    <2>1. \A p \in Participations : stage'[p] = "none" /\ ~(p <= notified')
        BY <1>1, <1>2 DEF Participations, N
    <2> QED BY <1>2, <2>1 DEF NotifiedInOrder
<1>5. (BelowCounter /\ EachBlockOnce)'
    BY <1>1, <1>2 DEF BelowCounter, EachBlockOnce, HasBlock
<1>6. TakenBelowCounter' /\ JoinedUnlessNotifying'
    BY <1>1 DEF TakenBelowCounter, JoinedUnlessNotifying
<1> QED BY <1>3, <1>4, <1>5, <1>6 DEF IInv

LEMMA NotifyStep ==
    ASSUME IInv, NotifyAvailable
    PROVE  IInv'
<1>1. /\ conv' = conv /\ counter' = counter /\ block' = block /\ main' = main
      /\ main = "notifying" /\ notified < N /\ notified' = notified + 1
      /\ stage' = [stage EXCEPT ![notified + 1] = "queued"]
    BY DEF NotifyAvailable, N
<1>2. notified + 1 \in Participations /\ stage[notified + 1] = "none"
    BY <1>1 DEF IInv, Types, NotifiedInOrder, Participations, N
<1>3. N' = N /\ Participations' = Participations
    BY <1>1 DEF N, Participations
<1>4. Types'
    BY <1>1, <1>2, <1>3 DEF IInv, Types
<1>5. \A p \in Participations : HasBlock(p)' <=> HasBlock(p)
    BY <1>1, <1>2 DEF HasBlock, IInv, Types
<1>6. NotifiedInOrder'
    BY <1>1, <1>2, <1>3 DEF IInv, NotifiedInOrder, Types, Participations, N
<1> QED BY <1>1, <1>3, <1>4, <1>5, <1>6
        DEF IInv, BelowCounter, EachBlockOnce, TakenBelowCounter, JoinedUnlessNotifying

LEMMA JoinStep ==
    ASSUME IInv, Join
    PROVE  IInv'
<1>1. UNCHANGED <<conv, counter, notified, stage, block>> /\ main' = "idle"
      /\ notified = N /\ Joined
    BY DEF Join, poolState, N
<1> QED BY <1>1 DEF IInv, Types, NotifiedInOrder, BelowCounter, EachBlockOnce,
           TakenBelowCounter, JoinedUnlessNotifying, HasBlock, Participations, N, Joined

LEMMA MainStep ==
    ASSUME IInv,
           \/ \E hq \in BOOLEAN : BeginConvertDirectly(hq)
           \/ ProcessInTurn \/ NextFrame \/ UNCHANGED vars
    PROVE  IInv'
<1>1. UNCHANGED <<conv, counter, notified, stage, block>>
    BY DEF BeginConvertDirectly, ProcessInTurn, NextFrame, vars, poolState
<1>2. \/ main' \in {"idle", "in turn"} /\ main # "notifying"
      \/ main' = main
    BY DEF BeginConvertDirectly, ProcessInTurn, NextFrame, vars
<1> QED BY <1>1, <1>2 DEF IInv, Types, NotifiedInOrder, BelowCounter, EachBlockOnce,
           TakenBelowCounter, JoinedUnlessNotifying, HasBlock, Participations, N, Joined

LEMMA TakeBlockStep ==
    ASSUME IInv, NEW p \in Participations, TakeBlock(p)
    PROVE  IInv'
<1>1. /\ stage[p] = "queued" /\ counter' = counter + 1
      /\ block' = [block EXCEPT ![p] = counter]
      /\ stage' = [stage EXCEPT ![p] = "taken"]
      /\ UNCHANGED <<conv, notified, main>>
    BY DEF TakeBlock, others
<1>2. ~HasBlock(p) /\ HasBlock(p)' /\ block'[p] = counter /\ counter \in Nat
    BY <1>1 DEF HasBlock, IInv, Types
<1>3. \A q \in Participations :
        q # p => (HasBlock(q)' <=> HasBlock(q)) /\ block'[q] = block[q]
    BY <1>1 DEF HasBlock, IInv, Types
<1>4. Participations' = Participations /\ N' = N
    BY <1>1 DEF Participations, N
<1>5. Types'
    <2>1. stage' \in [Participations -> {"none", "queued", "taken", "done"}]
        BY <1>1, Functions
    <2>2. block' \in [Participations -> Int]
        BY <1>1, <1>2, Functions
    <2>3. counter' \in Nat
        BY <1>1, <1>2
    <2> QED BY <1>1, <1>4, <2>1, <2>2, <2>3 DEF IInv, Types
<1>6. NotifiedInOrder'
    BY <1>1, <1>4 DEF IInv, NotifiedInOrder, Types
<1>7. BelowCounter'
    BY <1>1, <1>2, <1>3, <1>4 DEF IInv, BelowCounter
<1>8. EachBlockOnce'
    <2>1. \A q \in Participations : HasBlock(q) => block[q] # counter
        BY <1>2 DEF IInv, BelowCounter
    <2> QED BY <1>2, <1>3, <1>4, <2>1 DEF IInv, EachBlockOnce
<1>9. TakenBelowCounter'
    <2> SUFFICES ASSUME NEW b \in 0 .. counter' - 1
                 PROVE  \E q \in Participations : HasBlock(q)' /\ block'[q] = b
        BY <1>4 DEF TakenBelowCounter
    <2>1. CASE b = counter
        BY <1>2, <2>1
    <2>2. CASE b # counter
        <3>1. b \in 0 .. counter - 1
            BY <1>1, <1>2, <2>2
        <3>2. PICK q \in Participations : HasBlock(q) /\ block[q] = b
            BY <3>1 DEF IInv, TakenBelowCounter
        <3> QED BY <1>2, <1>3, <3>2
    <2> QED BY <2>1, <2>2
<1>10. JoinedUnlessNotifying'
    BY <1>1 DEF IInv, JoinedUnlessNotifying, Joined
<1> QED BY <1>5, <1>6, <1>7, <1>8, <1>9, <1>10 DEF IInv

LEMMA ProcessBlockStep ==
    ASSUME IInv, NEW p \in Participations, ProcessBlock(p)
    PROVE  IInv'
<1>1. /\ stage[p] = "taken" /\ stage' = [stage EXCEPT ![p] = "done"]
      /\ UNCHANGED <<conv, counter, notified, block, main>>
    BY DEF ProcessBlock, others
<1>2. Participations' = Participations /\ N' = N
    BY <1>1 DEF Participations, N
<1>3. \A q \in Participations : HasBlock(q)' <=> HasBlock(q)
    BY <1>1 DEF HasBlock, IInv, Types
<1>4. Types' /\ NotifiedInOrder' /\ JoinedUnlessNotifying'
    BY <1>1, <1>2 DEF IInv, Types, NotifiedInOrder, JoinedUnlessNotifying, Joined
<1> QED BY <1>1, <1>2, <1>3, <1>4
        DEF IInv, BelowCounter, EachBlockOnce, TakenBelowCounter

LEMMA NextIInv == IInv /\ [Next]_vars => IInv'
<1> SUFFICES ASSUME IInv, [Next]_vars PROVE IInv'
    OBVIOUS
<1>1. CASE \E hq \in BOOLEAN : BeginConvert(hq)
    BY <1>1, BeginStep
<1>2. CASE NotifyAvailable
    BY <1>2, NotifyStep
<1>3. CASE Join
    BY <1>3, JoinStep
<1>4. CASE \/ \E hq \in BOOLEAN : BeginConvertDirectly(hq)
           \/ ProcessInTurn \/ NextFrame \/ UNCHANGED vars
    BY <1>4, MainStep
<1>5. CASE \E p \in Participations : Participate(p)
    BY <1>5, TakeBlockStep, ProcessBlockStep DEF Participate
<1> QED BY <1>1, <1>2, <1>3, <1>4, <1>5 DEF Next

\* The strengthened invariant holds in every reachable state.
THEOREM Inductive == Spec => []IInv
<1> QED BY InitIInv, NextIInv, PTL DEF Spec

-----------------------------------------------------------------------------
(* What follows from it.                                                   *)

\* No block is converted by two threads, whatever the order in which they come.
THEOREM BlocksAreExclusive == Spec => []BlocksExclusive
<1>1. IInv => BlocksExclusive
    BY DEF IInv, EachBlockOnce, BlocksExclusive, Took, HasBlock
<1> QED BY <1>1, Inductive, PTL

\* A participation without a block has none of an earlier conversion.
InRange ==
    /\ N > 0
    /\ turn \in 0 .. N - 1
    /\ \A p \in Participations : ~HasBlock(p) => block[p] = -1

LEMMA InitInRange == Init => InRange
<1> SUFFICES ASSUME Init PROVE InRange
    OBVIOUS
<1>1. N \in Nat \ {0}
    BY CreatedBlocks DEF Init, N
<1> QED BY <1>1 DEF Init, InRange, HasBlock

LEMMA NextInRange == IInv /\ InRange /\ [Next]_vars => InRange'
<1> SUFFICES ASSUME IInv, InRange, [Next]_vars PROVE InRange'
    OBVIOUS
<1>1. conv' = conv /\ N' = N /\ Participations' = Participations /\ N \in Nat
    BY Numbers DEF Next, BeginConvert, BeginConvertDirectly, NotifyAvailable, Join,
       ProcessInTurn, NextFrame, Participate, TakeBlock, ProcessBlock, others,
       vars, N, Participations
<1>2. turn' \in 0 .. N - 1
    <2>1. CASE ProcessInTurn
        BY <2>1 DEF ProcessInTurn, InRange, Blocks, N
    <2>2. CASE \E hq \in BOOLEAN : BeginConvertDirectly(hq)
        <3>1. N \in Nat /\ N > 0 /\ turn' = 0
            BY <2>2, Numbers DEF BeginConvertDirectly, InRange
        <3> QED BY <3>1
    <2>3. CASE turn' = turn
        BY <2>3 DEF InRange
    <2> QED BY <2>1, <2>2, <2>3 DEF Next, BeginConvert, NotifyAvailable, Join,
           NextFrame, Participate, TakeBlock, ProcessBlock, others, vars
<1>3. \A p \in Participations : ~HasBlock(p)' => block'[p] = -1
    <2>1. CASE \E hq \in BOOLEAN : BeginConvert(hq)
        BY <2>1 DEF BeginConvert
    <2>2. CASE NotifyAvailable
        <3>1. block' = block /\ \A p \in Participations :
                HasBlock(p)' \/ ~HasBlock(p) \/ p = notified + 1
            BY <2>2, Functions DEF NotifyAvailable, HasBlock
        <3>2. \A p \in Participations : p = notified + 1 => ~HasBlock(p)
            BY Numbers DEF IInv, NotifiedInOrder, HasBlock
        <3> QED BY <3>1, <3>2 DEF InRange
    <2>3. CASE UNCHANGED <<stage, block>>
        BY <2>3 DEF InRange, HasBlock
    <2>4. ASSUME NEW q \in Participations, TakeBlock(q) \/ ProcessBlock(q)
          PROVE  \A p \in Participations : ~HasBlock(p)' => block'[p] = -1
        <3>1. HasBlock(q)'
            BY <2>4, Functions DEF TakeBlock, ProcessBlock, HasBlock
        <3>2. \A p \in Participations :
                p # q => (HasBlock(p)' <=> HasBlock(p)) /\ block'[p] = block[p]
            BY <2>4, Functions DEF TakeBlock, ProcessBlock, HasBlock
        <3> QED BY <3>1, <3>2 DEF InRange
    <2> QED BY <2>1, <2>2, <2>3, <2>4 DEF Next, BeginConvertDirectly, Join,
           ProcessInTurn, NextFrame, Participate, poolState, vars
<1> QED BY <1>1, <1>2, <1>3 DEF InRange

\* No participation is given a block that does not exist, although the counter is
\* incremented without being compared with anything.
THEOREM TypeCorrect == Spec => []TypeOK
<1>1. IInv /\ InRange => TypeOK
    <2> SUFFICES ASSUME IInv, InRange PROVE TypeOK
        OBVIOUS
    <2>1. counter <= notified
        BY CounterBounded
    <2>2. \A p \in Participations : block[p] \in Blocks \cup {-1}
        <3> SUFFICES ASSUME NEW p \in Participations, HasBlock(p)
                     PROVE  block[p] \in 0 .. N - 1
            BY DEF InRange, Blocks, N
        <3>1. block[p] \in 0 .. counter - 1
            BY DEF IInv, BelowCounter
        <3> QED BY <2>1, <3>1, Numbers
    <2>3. block \in [Participations -> Blocks \cup {-1}]
        BY <2>2, Functions
    <2>4. turn \in Blocks
        BY DEF InRange, Blocks, N
    <2>5. notified \in 0 .. conv.numBlocks /\ counter \in 0 .. notified
        BY <2>1, Numbers DEF N
    <2>6. main \in {"idle", "notifying", "in turn"}
        BY Zenon DEF IInv, Types
    <2> QED BY <2>3, <2>4, <2>5, <2>6, Functions DEF TypeOK
<1> QED BY <1>1, InitIInv, NextIInv, InitInRange, NextInRange, PTL DEF Spec

\* Convert returns only when every block has been converted.
THEOREM JoinIsEnough == Spec => []JoinMeansConverted
<1>1. IInv => JoinMeansConverted
    <2> SUFFICES ASSUME IInv, main = "idle"
                 PROVE  /\ Joined
                        /\ notified # 0 =>
                            \A b \in Blocks : \E p \in Participations : Took(p, b)
        BY DEF JoinMeansConverted
    <2>1. Joined /\ notified \in {0, N}
        BY DEF IInv, JoinedUnlessNotifying
    <2>2. ASSUME notified # 0, NEW b \in Blocks
          PROVE  \E p \in Participations : Took(p, b)
        <3>1. counter = N
            BY <2>1, <2>2, AllTaken
        <3>2. b \in 0 .. counter - 1
            BY <3>1 DEF Blocks, N
        <3> QED BY <3>2 DEF IInv, TakenBelowCounter, HasBlock, Took
    <2> QED BY <2>1, <2>2
<1> QED BY <1>1, Inductive, PTL

-----------------------------------------------------------------------------
(* A picture of one block.  It is as high as its block when the height is  *)
(* even, so that its last row is not mixed with chroma from outside.       *)

LEMMA CeilDivFacts ==
    ASSUME NEW a \in Nat \ {0}, NEW b \in Nat \ {0}
    PROVE  /\ CeilDiv(a, b) \in Nat \ {0}
           /\ CeilDiv(a, b) <= a
           /\ CeilDiv(a, b) = 1 => a <= b
<1> DEFINE q == (a + b - 1) \div b
<1>1. q \in Nat /\ b * q <= a + b - 1 /\ a + b - 1 < b * (q + 1)
    BY Z3
<1> HIDE DEF q
<1>2. q > 0
    BY <1>1
<1>3. q = 1 => a <= b
    BY <1>1
<1>4. q <= a
    BY <1>1, Z3
<1> QED BY <1>1, <1>2, <1>3, <1>4 DEF CeilDiv, q

OneBlockFits ==
    N = 1 /\ conv.height % 2 = 0 => conv.rowCount = conv.height

LEMMA CreatedFits ==
    ASSUME NEW h \in Heights, NEW n \in 1 .. MaxSlices, NEW f \in BOOLEAN,
           conv = Created(h, n, f)
    PROVE  /\ conv.height \in Nat \ {0} /\ conv.rowCount \in Nat /\ conv.is444 \in BOOLEAN
           /\ OneBlockFits
<1> DEFINE c == CeilDiv(h, n)
           r == EvenUp(c)
<1>1. h \in Nat \ {0} /\ n \in Nat \ {0}
    BY RGBAssumption
<1>2. c \in Nat \ {0} /\ c <= h
    BY <1>1, CeilDivFacts
<1> HIDE DEF c
<1>3. r \in Nat \ {0} /\ (h % 2 = 0 => r <= h)
    BY <1>1, <1>2, Z3 DEF EvenUp
<1> HIDE DEF r
<1>4. conv = [height |-> h, rowCount |-> r, numBlocks |-> CeilDiv(h, r), is444 |-> f]
    BY DEF Created, WorkBlockRowCount, r, c
<1>5. N = 1 => h <= r
    BY <1>1, <1>3, <1>4, CeilDivFacts DEF N
<1> QED BY <1>1, <1>3, <1>4, <1>5 DEF OneBlockFits

RowsExpected == \A r \in DOMAIN out : out[r] = Expected(r)

OneBlock ==
    N = 1 =>
        /\ main = "idle" => Untouched \/ RowsExpected
        /\ main = "notifying" /\ stage[1] = "done" => RowsExpected

WholeInv ==
    /\ conv.height \in Nat \ {0} /\ conv.rowCount \in Nat /\ conv.is444 \in BOOLEAN
    /\ OneBlockFits
    /\ pitch \in [Blocks -> Int]
    /\ N = 1 => origin[0] = 0
    /\ highQuality \in BOOLEAN
    /\ DOMAIN out = 0 .. conv.height - 1
    /\ OneBlock

\* One block is the whole picture.
LEMMA ProcessedWhole ==
    ASSUME WholeInv, N = 1
    PROVE  /\ DOMAIN Process(0) = DOMAIN out
           /\ \A r \in DOMAIN out : Process(0)[r] = Expected(r)
<1> SUFFICES ASSUME NEW r \in DOMAIN out PROVE Process(0)[r] = Expected(r)
    BY DEF Process
<1>1. /\ r \in Nat /\ r < conv.height /\ conv.height \in Nat /\ conv.rowCount \in Nat
      /\ conv.is444 \in BOOLEAN /\ highQuality \in BOOLEAN /\ origin[0] = 0
    BY DEF WholeInv
<1>2. OutHeight(0) = conv.height /\ ~TopOpen(0)
    BY <1>1 DEF OutHeight, TopOpen, N
<1>3. r = conv.height - 1 /\ r % 2 = 1 => ~BottomOpen(0)
    BY <1>1, <1>2, Z3 DEF WholeInv, OneBlockFits, BottomOpen, N
<1> DEFINE own == r \div 2
           bottom == r = conv.height - 1 /\ r % 2 = 1
           mixed == highQuality /\ ~conv.is444 /\ r # 0 /\ ~bottom
<1>4. own \in Nat /\ r % 2 \in {0, 1}
    BY <1>1
<1>5. Chroma(0, r) = IF conv.is444 THEN <<r, r>>
                     ELSE IF mixed THEN IF r % 2 = 1 THEN <<own, own + 1>> ELSE <<own, own - 1>>
                     ELSE <<own, own>>
    BY <1>1, <1>2, <1>3 DEF Chroma
<1>6. Process(0)[r] = [frame |-> frame, y |-> origin[0] + r,
                       near |-> origin[0] + Chroma(0, r)[1],
                       far |-> origin[0] + Chroma(0, r)[2]]
    BY <1>1, <1>2 DEF Process
<1> QED BY <1>1, <1>4, <1>5, <1>6 DEF Expected

LEMMA WholeInit == Init => WholeInv
<1> SUFFICES ASSUME Init PROVE WholeInv
    OBVIOUS
<1>1. /\ conv.height \in Nat \ {0} /\ conv.rowCount \in Nat /\ conv.is444 \in BOOLEAN
      /\ OneBlockFits
    BY CreatedFits DEF Init
<1>2. pitch \in [Blocks -> Int] /\ (N = 1 => origin[0] = 0)
    <2>1. pitch \in [Blocks -> GarbagePitches] /\ origin = [b \in Blocks |-> 0]
        BY DEF Init
    <2>2. N = 1 => 0 \in Blocks
        BY DEF Blocks, N
    <2>3. GarbagePitches \subseteq Int
        BY RGBAssumption
    <2> QED BY <2>1, <2>2, <2>3
<1>3. OneBlock /\ DOMAIN out = 0 .. conv.height - 1 /\ highQuality \in BOOLEAN
    BY DEF Init, OneBlock, Untouched
<1> QED BY <1>1, <1>2, <1>3 DEF WholeInv

\* With one block, the participation that is done has converted it.
LEMMA OneBlockTaken ==
    ASSUME IInv, N = 1
    PROVE  /\ Participations = {1}
           /\ HasBlock(1) => block[1] = 0
           /\ notified = N /\ Joined => stage[1] = "done"
<1>1. Participations = {1} /\ notified <= 1 /\ counter <= 1 /\ notified \in Nat /\ counter \in Nat
    BY Numbers, CounterBounded DEF Participations, N
<1> QED BY <1>1 DEF IInv, NotifiedInOrder, BelowCounter, Joined

LEMMA WholeStep == IInv /\ InRange /\ WholeInv /\ [Next]_vars => WholeInv'
<1> SUFFICES ASSUME IInv, InRange, WholeInv, [Next]_vars PROVE WholeInv'
    OBVIOUS
<1>1. conv' = conv /\ N' = N /\ Blocks' = Blocks
    BY DEF Next, BeginConvert, BeginConvertDirectly, NotifyAvailable, Join,
       ProcessInTurn, NextFrame, Participate, TakeBlock, ProcessBlock, others,
       vars, N, Blocks
<1>2. OneBlockFits' /\ conv'.height = conv.height /\ conv'.rowCount = conv.rowCount
    BY <1>1 DEF OneBlockFits, WholeInv
<1>3. ASSUME NEW hq \in BOOLEAN, BeginConvert(hq) \/ BeginConvertDirectly(hq)
      PROVE  WholeInv'
    <2> DEFINE o == [b \in Blocks |-> pitch[b] * (b * conv.rowCount)]
    <2>0. PrepareBlocks
        BY <1>3 DEF BeginConvert, BeginConvertDirectly
    <2>1. pitch' \in [Blocks' -> Int]
        <3>1. pitch' = [b \in Blocks |-> 1]
            BY <2>0 DEF PrepareBlocks
        <3> QED BY <1>1, <3>1
    <2>2. N = 1 => origin'[0] = 0
        <3> SUFFICES ASSUME N = 1 PROVE origin'[0] = 0
            OBVIOUS
        <3>1. 0 \in Blocks /\ pitch[0] \in Int /\ conv.rowCount \in Nat
            BY DEF Blocks, N, WholeInv
        <3>2. origin' = o
            BY <2>0 DEF PrepareBlocks
        <3>3. o[0] = pitch[0] * (0 * conv.rowCount)
            BY <3>1
        <3>4. 0 * conv.rowCount = 0 /\ pitch[0] * 0 = 0
            BY <3>1
        <3> QED BY <3>2, <3>3, <3>4
    <2>3. out' = out /\ highQuality' \in BOOLEAN
        BY <1>3 DEF BeginConvert, BeginConvertDirectly
    <2>4. N = 1 => main' # "idle" /\ (main' = "notifying" => stage'[1] # "done")
        <3>1. N = 1 => 1 \in Participations
            BY DEF Participations, N
        <3> QED BY <1>3, <3>1 DEF BeginConvert, BeginConvertDirectly
    <2> QED BY <1>1, <1>2, <2>1, <2>2, <2>3, <2>4 DEF WholeInv, OneBlock
<1>4. ASSUME UNCHANGED <<pitch, origin, highQuality>>, DOMAIN out' = DOMAIN out, OneBlock'
      PROVE  WholeInv'
    BY <1>1, <1>2, <1>4 DEF WholeInv
<1>5. ASSUME UNCHANGED <<highQuality, frame, out>>
      PROVE  (RowsExpected <=> RowsExpected') /\ (Untouched <=> Untouched')
    BY <1>1, <1>5 DEF RowsExpected, Untouched, Expected
<1>6. CASE NotifyAvailable
    <2>1. N = 1 => stage'[1] # "done"
        BY <1>6, OneBlockTaken, Functions DEF NotifyAvailable, IInv, NotifiedInOrder, N, Types
    <2> QED BY <1>1, <1>4, <1>6, <2>1 DEF NotifyAvailable, OneBlock
<1>7. CASE Join
    <2>1. N = 1 => RowsExpected
        BY <1>7, OneBlockTaken DEF Join, WholeInv, OneBlock, N
    <2> QED BY <1>1, <1>4, <1>5, <1>7, <2>1 DEF Join, OneBlock
<1>8. CASE ProcessInTurn
    <2>1. N = 1 => turn = 0
        BY DEF InRange
    <2>2. N = 1 => RowsExpected'
        BY <1>1, <1>8, <2>1, ProcessedWhole DEF ProcessInTurn, RowsExpected, Expected
    <2>3. DOMAIN out' = DOMAIN out
        BY <1>8 DEF ProcessInTurn, Process
    <2> QED BY <1>1, <1>4, <1>8, <2>2, <2>3 DEF ProcessInTurn, OneBlock
<1>9. CASE NextFrame
    <2>1. Untouched' /\ DOMAIN out' = DOMAIN out /\ main' = "idle"
        BY <1>9 DEF NextFrame, Untouched
    <2> QED BY <1>4, <1>9, <2>1 DEF NextFrame, OneBlock
<1>10. ASSUME NEW p \in Participations, TakeBlock(p)
       PROVE  WholeInv'
    <2>1. N = 1 => stage'[1] # "done"
        BY <1>10, OneBlockTaken, Functions DEF TakeBlock
    <2>2. N = 1 => main # "idle"
        BY <1>10 DEF TakeBlock, IInv, JoinedUnlessNotifying, Joined
    <2> QED BY <1>1, <1>4, <1>10, <2>1, <2>2 DEF TakeBlock, others, OneBlock
<1>11. ASSUME NEW p \in Participations, ProcessBlock(p)
       PROVE  WholeInv'
    <2>1. N = 1 => p = 1 /\ block[p] = 0
        BY <1>11, OneBlockTaken DEF ProcessBlock, HasBlock
    <2>2. N = 1 => RowsExpected'
        BY <1>1, <1>11, <2>1, ProcessedWhole DEF ProcessBlock, others, RowsExpected, Expected
    <2>3. DOMAIN out' = DOMAIN out
        BY <1>11 DEF ProcessBlock, Process
    <2> QED BY <1>1, <1>4, <1>11, <2>2, <2>3 DEF ProcessBlock, others, OneBlock
<1>12. CASE UNCHANGED vars
    BY <1>4, <1>5, <1>12 DEF vars, poolState, WholeInv, OneBlock, N
<1> QED BY <1>3, <1>6, <1>7, <1>8, <1>9, <1>10, <1>11, <1>12 DEF Next, Participate

\* A picture that is converted in one block is converted whole, each row from its
\* own rows of the current frame: for every height, even and odd, both chroma
\* formats and qualities, by a thread of the pool or in place.
\* (lwmRGBConverterBlock::Process, lwmVideoRGBConverter_Convert)
THEOREM WholeFramesAreConverted == Spec => []WholeFrameConverted
<1>1. WholeInv => WholeFrameConverted
    BY DEF WholeInv, OneBlock, RowsExpected, WholeFrameConverted, RowsConverted, N
<1> QED BY <1>1, InitIInv, NextIInv, InitInRange, NextInRange, WholeInit, WholeStep, PTL DEF Spec
=============================================================================
