--------------------------- MODULE SliceJobsProofs ---------------------------
(***************************************************************************)
(* Proofs about the deslicer job stack, for every number of jobs, and at   *)
(* the end about the memory of the jobs, for all sizes and demands.        *)
(*                                                                         *)
(* A participation starts from the head it finds, which is at or above its *)
(* own job, and goes down past jobs others have.  Among the d oldest jobs  *)
(* there are never more than d participations: the one that comes down     *)
(* from job d leaves behind the one that has it.  So there is always a job *)
(* left for whoever looks.                                                 *)
(***************************************************************************)
EXTENDS DeslicerMemory, FiniteSetTheorems, TLAPS

Types ==
    /\ dispatcher \in {"free", "pushed", "digesting"}
    /\ top \in 0..MaxJobs
    /\ access \in [Jobs -> Nat]
    /\ stage \in [Jobs -> Stages]
    /\ at \in [Jobs -> 0..MaxJobs]

\* One participation is asked for with each job, after the job is on the stack.
AskedPerJob ==
    /\ \A p \in Jobs : stage[p] # "none" => p <= top
    /\ \A p \in Jobs : p < top => stage[p] # "none"
    /\ dispatcher = "pushed" => top > 0 /\ stage[top] = "none"
    /\ dispatcher # "pushed" => \A p \in Jobs : p <= top => stage[p] # "none"

OnTheStack == \A p \in Jobs : Started(p) => at[p] \in 1..top

\* A job's access flag tells whether a thread has the job.
CountedIffHeld == \A j \in Jobs : access[j] > 0 <=> \E p \in Jobs : Has(p, j)

\* The threads that have incremented job j's flag have it or are below it.
Passed(j) == {p \in Jobs : (Started(p) /\ at[p] < j) \/ Has(p, j)}

AccessCounted == \A j \in Jobs : access[j] <= Cardinality(Passed(j))

IInv ==
    /\ Types
    /\ AskedPerJob
    /\ OnTheStack
    /\ CountedIffHeld
    /\ AccessCounted
    /\ JobsExclusive
    /\ NeverStrays
    /\ EnoughJobsBelow

-----------------------------------------------------------------------------
(* Cardinalities of sets of jobs.                                          *)

LEMMA JobsFinite == IsFiniteSet(Jobs) /\ Cardinality(Jobs) = MaxJobs
<1>1. 1 \in Int /\ MaxJobs \in Int /\ MaxJobs > 0
    BY JobsAssumption
<1> QED BY <1>1, FS_Interval DEF Jobs

LEMMA CardLe ==
    ASSUME NEW T \in SUBSET Jobs, NEW S \in SUBSET T
    PROVE  /\ Cardinality(S) \in Nat
           /\ Cardinality(T) \in Nat
           /\ Cardinality(S) <= Cardinality(T)
           /\ Cardinality(T) <= MaxJobs
<1>1. IsFiniteSet(T) /\ Cardinality(T) <= MaxJobs
    BY JobsFinite, FS_Subset
<1>2. IsFiniteSet(S) /\ Cardinality(S) <= Cardinality(T)
    BY <1>1, FS_Subset
<1> QED BY <1>1, <1>2, FS_CardinalityType

LEMMA CardAdd ==
    ASSUME NEW S \in SUBSET Jobs, NEW x \in Jobs, x \notin S
    PROVE  /\ Cardinality(S \cup {x}) = Cardinality(S) + 1
           /\ Cardinality(S) \in Nat
<1>1. IsFiniteSet(S)
    BY JobsFinite, FS_Subset
<1> QED BY <1>1, FS_AddElement, FS_CardinalityType

LEMMA CardLess ==
    ASSUME NEW T \in SUBSET Jobs, NEW S \in SUBSET T, NEW x \in T, x \notin S
    PROVE  Cardinality(S) + 1 <= Cardinality(T)
<1>1. Cardinality(S \cup {x}) = Cardinality(S) + 1
    BY CardAdd
<1>2. Cardinality(S \cup {x}) <= Cardinality(T)
    BY CardLe, S \cup {x} \in SUBSET T
<1> QED BY <1>1, <1>2

LEMMA CardLess2 ==
    ASSUME NEW T \in SUBSET Jobs, NEW S \in SUBSET T,
           NEW x \in T, NEW y \in T, x \notin S, y \notin S, x # y
    PROVE  Cardinality(S) + 2 <= Cardinality(T)
<1>1. Cardinality(S \cup {x}) = Cardinality(S) + 1 /\ Cardinality(S) \in Nat
    BY CardAdd
<1>2. Cardinality(S \cup {x}) + 1 <= Cardinality(T)
    BY CardLess, S \cup {x} \in SUBSET T, y \notin S \cup {x}
<1> QED BY <1>1, <1>2, CardLe

LEMMA CardUpTo ==
    ASSUME NEW n \in 0..MaxJobs, NEW S \in SUBSET Jobs, \A p \in S : p <= n
    PROVE  Cardinality(S) <= n
<1>1. 1 \in Int /\ n \in Int /\ n >= 0
    BY JobsAssumption
<1>2. IsFiniteSet(1..n) /\ Cardinality(1..n) = n
    BY <1>1, FS_Interval
<1>3. S \in SUBSET (1..n)
    BY JobsAssumption DEF Jobs
<1> QED BY <1>2, <1>3, FS_Subset

-----------------------------------------------------------------------------
(* The heart of the argument: when a thread goes on from job d there are    *)
(* fewer than d - 1 threads below it.                                       *)

LEMMA GoesDown ==
    ASSUME IInv, NEW p \in Jobs, Beaten(p)
    PROVE  /\ at[p] - 1 \in Jobs
           /\ Cardinality(ReachedDownTo(at[p] - 1)) + 1 <= at[p] - 1
<1> DEFINE d == at[p]
           R == ReachedDownTo(d)
           R1 == ReachedDownTo(d - 1)
<1>1. d \in Jobs /\ d \in Int /\ Started(p) /\ stage[p] = "looking"
    BY JobsAssumption DEF IInv, Types, OnTheStack, Beaten, Started, Jobs
<1>2. access[d] > 0
    BY <1>1 DEF Beaten, IInv, Types
<1>3. PICK q \in Jobs : Has(q, d)
    BY <1>1, <1>2 DEF IInv, CountedIffHeld
<1>4. q # p
    BY <1>1, <1>3 DEF Has
<1>5. R \in SUBSET Jobs /\ R1 \in SUBSET R
    <2>1. \A r \in Jobs : at[r] <= d - 1 => at[r] <= d
        BY <1>1 DEF IInv, Types
    <2> QED BY <2>1 DEF ReachedDownTo
<1>6. p \in R /\ p \notin R1 /\ q \in R /\ q \notin R1
    BY <1>1, <1>3 DEF ReachedDownTo, Has, Started, Jobs
<1>7. Cardinality(R1) + 2 <= Cardinality(R)
    BY <1>4, <1>5, <1>6, CardLess2
<1>8. Cardinality(R) <= d
    BY <1>1 DEF IInv, EnoughJobsBelow
<1>9. Cardinality(R1) \in Nat /\ Cardinality(R) \in Nat
    BY <1>5, CardLe
<1>10. Cardinality(R1) + 1 <= d - 1
    BY <1>1, <1>7, <1>8, <1>9
<1> QED BY <1>1, <1>9, <1>10, JobsAssumption DEF Jobs

-----------------------------------------------------------------------------
(* Steps that move no thread to another job, and none into or out of the    *)
(* set of those that have a job.                                            *)

LEMMA NobodyMoves ==
    ASSUME IInv, access' = access,
           \A p \in Jobs : Started(p)' <=> Started(p),
           \A p \in Jobs : Started(p) => at'[p] = at[p],
           \A p, j \in Jobs : Has(p, j)' <=> Has(p, j)
    PROVE  (CountedIffHeld /\ AccessCounted /\ JobsExclusive /\ EnoughJobsBelow)'
<1>1. CountedIffHeld'
    BY DEF IInv, CountedIffHeld
<1>2. JobsExclusive'
    BY DEF IInv, JobsExclusive
<1>3. \A j \in Jobs : Passed(j)' = Passed(j)
    BY DEF Passed
<1>4. AccessCounted'
    BY <1>3 DEF IInv, AccessCounted
<1>5. \A d \in Jobs : ReachedDownTo(d)' = ReachedDownTo(d)
    BY DEF ReachedDownTo
<1>6. EnoughJobsBelow'
    BY <1>5 DEF IInv, EnoughJobsBelow
<1> QED BY <1>1, <1>2, <1>4, <1>6

LEMMA InitIInv == Init => IInv
<1> SUFFICES ASSUME Init PROVE IInv
    OBVIOUS
<1>1. Types
    BY JobsAssumption DEF Init, Types, Stages
<1>2. AskedPerJob /\ OnTheStack /\ CountedIffHeld /\ JobsExclusive /\ NeverStrays
    BY JobsAssumption DEF Init, AskedPerJob, OnTheStack, CountedIffHeld,
       JobsExclusive, NeverStrays, Has, Started, Jobs
<1>3. AccessCounted
    <2>1. \A j \in Jobs : Passed(j) \in SUBSET Jobs /\ access[j] = 0
        BY DEF Init, Passed
    <2> QED BY <2>1, CardLe DEF AccessCounted
<1>4. EnoughJobsBelow
    <2>1. \A d \in Jobs : ReachedDownTo(d) = {} /\ d >= 0
        BY JobsAssumption DEF Init, ReachedDownTo, Started, Jobs
    <2> QED BY <2>1, FS_EmptySet DEF EnoughJobsBelow
<1> QED BY <1>1, <1>2, <1>3, <1>4 DEF IInv

LEMMA PushJobStep ==
    ASSUME IInv, PushJob
    PROVE  IInv'
<1> USE DEF IInv, PushJob
<1>1. top + 1 \in Jobs /\ top \in Nat
    BY JobsAssumption DEF Types, Jobs
<1>2. access[top + 1] = 0
    <2>1. \A p \in Jobs : ~Has(p, top + 1)
        BY <1>1 DEF Has, OnTheStack, Started
    <2> QED BY <1>1, <2>1 DEF CountedIffHeld, Types
<1>3. access' = access
    BY <1>1, <1>2 DEF Types
<1>4. Types'
    BY <1>1, <1>3 DEF Types, Jobs
<1>5. AskedPerJob' /\ OnTheStack' /\ NeverStrays'
    BY <1>1 DEF AskedPerJob, OnTheStack, NeverStrays, Started, Types, Jobs
<1>6. /\ \A p \in Jobs : Started(p)' <=> Started(p)
      /\ \A p, j \in Jobs : Has(p, j)' <=> Has(p, j)
    BY DEF Started, Has
<1> QED BY <1>3, <1>4, <1>5, <1>6, NobodyMoves

LEMMA NotifyAvailableStep ==
    ASSUME IInv, NotifyAvailable
    PROVE  IInv'
<1> USE DEF IInv, NotifyAvailable
<1>1. top \in Jobs /\ stage[top] = "none"
    BY JobsAssumption DEF Types, AskedPerJob, Jobs
<1>2. Types'
    BY DEF Types, Stages
<1>3. /\ \A p \in Jobs : Started(p)' <=> Started(p)
      /\ \A p, j \in Jobs : Has(p, j)' <=> Has(p, j)
    BY <1>1 DEF Started, Has, Types
<1>4. AskedPerJob' /\ OnTheStack' /\ NeverStrays'
    BY <1>1, <1>3 DEF AskedPerJob, OnTheStack, NeverStrays, Types, Jobs
<1> QED BY <1>2, <1>3, <1>4, NobodyMoves

LEMMA DirectStep ==
    ASSUME IInv, BeginDirectly \/ EndDirectly \/ UNCHANGED vars
    PROVE  IInv'
<1>1. UNCHANGED <<top, access, stage, at>>
    BY DEF BeginDirectly, EndDirectly, vars
<1>2. Types'
    BY <1>1 DEF IInv, Types, BeginDirectly, EndDirectly, vars
<1>3. AskedPerJob' /\ OnTheStack' /\ NeverStrays'
    BY <1>1 DEF IInv, AskedPerJob, OnTheStack, NeverStrays, Started,
       BeginDirectly, EndDirectly, vars
<1>4. /\ \A p \in Jobs : Started(p)' <=> Started(p)
      /\ \A p, j \in Jobs : Has(p, j)' <=> Has(p, j)
    BY <1>1 DEF Started, Has
<1> QED BY <1>1, <1>2, <1>3, <1>4, NobodyMoves DEF IInv

LEMMA EndDigestStep ==
    ASSUME IInv, NEW p \in Jobs, EndDigest(p)
    PROVE  IInv'
<1> USE DEF IInv, EndDigest
<1>1. Types'
    BY DEF Types, Stages
<1>2. /\ \A q \in Jobs : Started(q)' <=> Started(q)
      /\ \A q, j \in Jobs : Has(q, j)' <=> Has(q, j)
    BY DEF Started, Has, Types
<1>3. AskedPerJob' /\ OnTheStack' /\ NeverStrays'
    BY <1>2 DEF AskedPerJob, OnTheStack, NeverStrays, Types
<1> QED BY <1>1, <1>2, <1>3, NobodyMoves

LEMMA BeginStep ==
    ASSUME IInv, NEW p \in Jobs, Begin(p)
    PROVE  IInv'
<1> USE DEF IInv, Begin
<1>1. p <= top /\ top \in Jobs /\ top # 0
    BY JobsAssumption DEF AskedPerJob, Types, Jobs
<1>2. /\ stage' = [stage EXCEPT ![p] = "looking"]
      /\ at' = [at EXCEPT ![p] = top]
      /\ UNCHANGED <<dispatcher, top, access>>
    BY <1>1
<1>3. Types'
    BY <1>2 DEF Types, Stages
<1>4. \A q \in Jobs : q # p => (Started(q)' <=> Started(q)) /\ at'[q] = at[q]
    BY <1>2 DEF Started, Types
<1>5. ~Started(p) /\ Started(p)' /\ at'[p] = top
    BY <1>2 DEF Started, Types
<1>6. \A q, j \in Jobs : Has(q, j)' <=> Has(q, j)
    BY <1>2 DEF Has, Types
<1>7. AskedPerJob' /\ NeverStrays'
    BY <1>1, <1>2 DEF AskedPerJob, NeverStrays, Types
<1>8. OnTheStack'
    BY <1>1, <1>2, <1>4, <1>5 DEF OnTheStack, Jobs
<1>9. CountedIffHeld' /\ JobsExclusive'
    BY <1>2, <1>6 DEF CountedIffHeld, JobsExclusive
<1>10. AccessCounted'
    <2> SUFFICES ASSUME NEW j \in Jobs
                 PROVE  access'[j] <= Cardinality(Passed(j)')
        BY DEF AccessCounted
    <2>1. Passed(j) \in SUBSET Passed(j)' /\ Passed(j)' \in SUBSET Jobs
        BY <1>4, <1>5, <1>6 DEF Passed
    <2>2. access[j] \in Nat /\ access[j] <= Cardinality(Passed(j))
        BY DEF Types, AccessCounted
    <2> QED BY <1>2, <2>1, <2>2, CardLe
<1>11. EnoughJobsBelow'
    <2> SUFFICES ASSUME NEW d \in Jobs
                 PROVE  Cardinality(ReachedDownTo(d)') <= d
        BY DEF EnoughJobsBelow
    <2>1. CASE d >= top
        <3>1. \A q \in ReachedDownTo(d)' : q <= top
            BY <1>2, <1>7 DEF ReachedDownTo, Started, AskedPerJob
        <3>2. Cardinality(ReachedDownTo(d)') <= top
            BY <3>1, <1>1, CardUpTo, ReachedDownTo(d)' \in SUBSET Jobs
            DEF ReachedDownTo, Types
        <3>3. Cardinality(ReachedDownTo(d)') \in Nat
            BY CardLe, ReachedDownTo(d)' \in SUBSET Jobs DEF ReachedDownTo
        <3> QED BY <1>1, <2>1, <3>2, <3>3, JobsAssumption DEF Jobs
    <2>2. CASE ~(d >= top)
        <3>1. ~(at'[p] <= d)
            BY <1>1, <1>5, <2>2 DEF Jobs
        <3>2. ReachedDownTo(d)' = ReachedDownTo(d)
            BY <1>4, <1>5, <3>1 DEF ReachedDownTo
        <3> QED BY <3>2 DEF EnoughJobsBelow
    <2> QED BY <2>1, <2>2
<1> QED BY <1>3, <1>7, <1>8, <1>9, <1>10, <1>11

LEMMA ClaimStep ==
    ASSUME IInv, NEW p \in Jobs, Claim(p)
    PROVE  IInv'
<1> USE DEF IInv, Claim
<1> DEFINE i == at[p]
<1>1. i \in Jobs /\ access[i] = 0 /\ Started(p)
    BY JobsAssumption DEF Types, OnTheStack, Started, Jobs
<1>2. Types'
    BY <1>1 DEF Types, Stages
<1>3. \A q, j \in Jobs : Has(q, j)' <=> Has(q, j) \/ (q = p /\ j = i)
    BY DEF Has, Types
<1>4. \A q \in Jobs : ~Has(q, i)
    BY <1>1 DEF CountedIffHeld, Types
<1>5. CountedIffHeld'
    BY <1>1, <1>3 DEF CountedIffHeld, Types
<1>6. JobsExclusive'
    BY <1>1, <1>3, <1>4 DEF JobsExclusive, Has
<1>7. \A q \in Jobs : (Started(q)' <=> Started(q)) /\ at'[q] = at[q]
    BY DEF Started, Types
<1>8. AskedPerJob' /\ OnTheStack' /\ NeverStrays'
    BY <1>1, <1>7 DEF AskedPerJob, OnTheStack, NeverStrays, Types
<1>9. EnoughJobsBelow'
    <2>1. \A d \in Jobs : ReachedDownTo(d)' = ReachedDownTo(d)
        BY <1>7 DEF ReachedDownTo
    <2> QED BY <2>1 DEF EnoughJobsBelow
<1>10. AccessCounted'
    <2> SUFFICES ASSUME NEW j \in Jobs
                 PROVE  access'[j] <= Cardinality(Passed(j)')
        BY DEF AccessCounted
    <2>1. access[j] \in Nat /\ access[j] <= Cardinality(Passed(j))
        BY DEF Types, AccessCounted
    <2>2. CASE j = i
        <3>1. p \in Passed(j)' /\ Passed(j)' \in SUBSET Jobs /\ {} \in SUBSET Passed(j)'
            BY <1>3, <2>2 DEF Passed
        <3>2. Cardinality({}) + 1 <= Cardinality(Passed(j)')
            BY <3>1, CardLess
        <3>3. access'[j] = 1
            BY <1>1, <2>2 DEF Types
        <3> QED BY <3>2, <3>3, FS_EmptySet
    <2>3. CASE j # i
        <3>1. Passed(j)' = Passed(j) /\ access'[j] = access[j]
            BY <1>3, <1>7, <2>3 DEF Passed, Types
        <3> QED BY <2>1, <3>1
    <2> QED BY <2>2, <2>3
<1> QED BY <1>2, <1>5, <1>6, <1>8, <1>9, <1>10

LEMMA BeatenStep ==
    ASSUME IInv, NEW p \in Jobs, Beaten(p)
    PROVE  IInv'
<1> DEFINE i == at[p]
<1>1. /\ i \in Jobs /\ i - 1 \in Jobs
      /\ Cardinality(ReachedDownTo(i - 1)) + 1 <= i - 1
      /\ stage[p] = "looking" /\ Started(p)
      /\ access[i] > 0
    <2>1. i - 1 \in Jobs /\ Cardinality(ReachedDownTo(i - 1)) + 1 <= i - 1
        BY GoesDown
    <2>2. stage[p] = "looking" /\ Started(p)
        BY DEF Beaten, Started
    <2>3. i \in Jobs
        BY <2>2, JobsAssumption DEF IInv, Types, OnTheStack, Jobs
    <2>4. access[i] > 0
        BY <2>3 DEF IInv, Types, Beaten
    <2> QED BY <2>1, <2>2, <2>3, <2>4
<1>2. /\ at' = [at EXCEPT ![p] = i - 1]
      /\ stage' = [stage EXCEPT ![p] = "looking"]
      /\ access' = [access EXCEPT ![i] = access[i] + 1]
      /\ UNCHANGED <<dispatcher, top>>
    <2>1. i # 1
        BY <1>1 DEF Jobs
    <2> QED BY <2>1 DEF Beaten
<1>3. Types'
    BY <1>1, <1>2 DEF IInv, Types, Stages, Jobs
<1>4. \A q \in Jobs : q # p => (Started(q)' <=> Started(q)) /\ at'[q] = at[q]
    BY <1>2 DEF IInv, Types, Started
<1>5. Started(p)' /\ at'[p] = i - 1
    BY <1>2 DEF IInv, Types, Started
<1>6. \A q, j \in Jobs : Has(q, j)' <=> Has(q, j)
    BY <1>1, <1>2 DEF Has, IInv, Types
<1>7. AskedPerJob' /\ NeverStrays'
    BY <1>1, <1>2 DEF IInv, AskedPerJob, NeverStrays, Types
<1>8. OnTheStack'
    BY <1>1, <1>2, <1>4, <1>5 DEF IInv, OnTheStack, Jobs, Types
<1>9. CountedIffHeld' /\ JobsExclusive'
    <2>1. \A j \in Jobs : access'[j] > 0 <=> access[j] > 0
        BY <1>1, <1>2 DEF IInv, Types
    <2> QED BY <1>6, <2>1 DEF IInv, CountedIffHeld, JobsExclusive
<1>10. AccessCounted'
    <2> SUFFICES ASSUME NEW j \in Jobs
                 PROVE  access'[j] <= Cardinality(Passed(j)')
        BY DEF AccessCounted
    <2>1. Passed(j) \in SUBSET Passed(j)' /\ Passed(j)' \in SUBSET Jobs
        BY <1>1, <1>4, <1>5, <1>6 DEF Passed, Jobs
    <2>2. access[j] \in Nat /\ access[j] <= Cardinality(Passed(j))
        BY DEF IInv, Types, AccessCounted
    <2>3. Cardinality(Passed(j)) \in Nat /\ Cardinality(Passed(j)') \in Nat
        BY <2>1, CardLe
    <2>4. CASE j = i
        <3>1. p \in Passed(j)' /\ p \notin Passed(j)
            BY <1>1, <1>5, <2>4 DEF Passed, Has, Jobs
        <3>2. Cardinality(Passed(j)) + 1 <= Cardinality(Passed(j)')
            BY <2>1, <3>1, CardLess
        <3>3. access'[j] = access[j] + 1
            BY <1>2, <2>4 DEF IInv, Types
        <3> QED BY <2>2, <2>3, <3>2, <3>3
    <2>5. CASE j # i
        <3>1. access'[j] = access[j]
            BY <1>2, <2>5 DEF IInv, Types
        <3> QED BY <2>1, <2>2, <2>3, <3>1, CardLe
    <2> QED BY <2>4, <2>5
<1>11. EnoughJobsBelow'
    <2> SUFFICES ASSUME NEW d \in Jobs
                 PROVE  Cardinality(ReachedDownTo(d)') <= d
        BY DEF EnoughJobsBelow
    <2>1. CASE d = i - 1
        <3>1. ReachedDownTo(d)' = ReachedDownTo(d) \cup {p} /\ p \notin ReachedDownTo(d)
            BY <1>1, <1>4, <1>5, <2>1 DEF ReachedDownTo, Jobs
        <3>2. Cardinality(ReachedDownTo(d)') = Cardinality(ReachedDownTo(d)) + 1
            BY <3>1, CardAdd, ReachedDownTo(d) \in SUBSET Jobs DEF ReachedDownTo
        <3> QED BY <1>1, <2>1, <3>2
    <2>2. CASE d # i - 1
        <3>1. at'[p] <= d <=> at[p] <= d
            BY <1>1, <1>5, <2>2 DEF Jobs
        <3>2. ReachedDownTo(d)' = ReachedDownTo(d)
            BY <1>1, <1>4, <1>5, <3>1 DEF ReachedDownTo
        <3> QED BY <3>2 DEF IInv, EnoughJobsBelow
    <2> QED BY <2>1, <2>2
<1> QED BY <1>3, <1>7, <1>8, <1>9, <1>10, <1>11 DEF IInv

LEMMA WaitForDigestFinishStep ==
    ASSUME IInv, WaitForDigestFinish
    PROVE  IInv'
<1> USE DEF WaitForDigestFinish
<1>1. Types'
    BY JobsAssumption DEF IInv, Types, Stages
<1>2. (AskedPerJob /\ OnTheStack /\ CountedIffHeld /\ JobsExclusive /\ NeverStrays)'
    BY JobsAssumption DEF AskedPerJob, OnTheStack, CountedIffHeld,
       JobsExclusive, NeverStrays, Has, Started, Jobs
<1>3. AccessCounted'
    <2>1. \A j \in Jobs : Passed(j)' \in SUBSET Jobs /\ access'[j] = 0
        BY DEF Passed
    <2> QED BY <2>1, CardLe DEF AccessCounted
<1>4. EnoughJobsBelow'
    <2>1. \A d \in Jobs : ReachedDownTo(d)' = {} /\ d >= 0
        BY JobsAssumption DEF ReachedDownTo, Started, Jobs
    <2> QED BY <2>1, FS_EmptySet DEF EnoughJobsBelow
<1> QED BY <1>1, <1>2, <1>3, <1>4 DEF IInv

LEMMA NextIInv == IInv /\ [Next]_vars => IInv'
<1> SUFFICES ASSUME IInv, [Next]_vars PROVE IInv'
    OBVIOUS
<1>1. CASE PushJob
    BY <1>1, PushJobStep
<1>2. CASE NotifyAvailable
    BY <1>2, NotifyAvailableStep
<1>3. CASE BeginDirectly \/ EndDirectly \/ UNCHANGED vars
    BY <1>3, DirectStep
<1>4. CASE \E p \in Jobs : Participate(p)
    BY <1>4, BeginStep, ClaimStep, BeatenStep, EndDigestStep DEF Participate
<1>5. CASE WaitForDigestFinish
    BY <1>5, WaitForDigestFinishStep
<1> QED BY <1>1, <1>2, <1>3, <1>4, <1>5 DEF Next

\* The strengthened invariant holds in every reachable state.
THEOREM Inductive == Spec => []IInv
<1> QED BY InitIInv, NextIInv, PTL DEF Spec

-----------------------------------------------------------------------------
(* What follows from it.                                                   *)

\* The state is well formed, and a job's access flag never exceeds the number of
\* jobs: it cannot wrap to 1 again and let a second thread in.
LEMMA TypesBounded == IInv => TypeOK
<1> SUFFICES ASSUME IInv PROVE TypeOK
    OBVIOUS
<1>1. \A j \in Jobs : access[j] \in 0..MaxJobs
    <2> SUFFICES ASSUME NEW j \in Jobs PROVE access[j] \in 0..MaxJobs
        OBVIOUS
    <2>1. Passed(j) \in SUBSET Jobs
        BY DEF Passed
    <2>2. access[j] \in Nat /\ access[j] <= Cardinality(Passed(j))
        BY DEF IInv, Types, AccessCounted
    <2> QED BY <2>1, <2>2, CardLe, JobsAssumption
<1> QED BY <1>1 DEF IInv, Types, TypeOK

\* Every job on the stack is had by someone when the pool is idle: as many
\* participations as jobs are done, each with a job of its own.
LEMMA JoinedMeansDigested == IInv => JoinMeansDigested
<1> SUFFICES ASSUME IInv, Joined, dispatcher = "free"
             PROVE  \A j \in 1..top : \E p \in Jobs : Has(p, j)
    BY DEF JoinMeansDigested
<1> DEFINE J == 1..top
           g == [p \in J |-> at[p]]
<1>1. J \in SUBSET Jobs
    BY JobsAssumption DEF IInv, Types, Jobs
<1>2. \A p \in J : stage[p] = "done" /\ at[p] \in J
    <2> SUFFICES ASSUME NEW p \in J PROVE stage[p] = "done" /\ at[p] \in J
        OBVIOUS
    <2>1. p \in Jobs /\ p <= top
        BY <1>1
    <2>2. stage[p] # "none" /\ stage[p] # "strayed"
        BY <2>1 DEF IInv, AskedPerJob, NeverStrays
    <2>3. stage[p] = "done"
        BY <2>1, <2>2 DEF Joined
    <2> QED BY <2>1, <2>3 DEF IInv, OnTheStack, Started
<1>3. \A p, q \in J : g[p] = g[q] => p = q
    BY <1>1, <1>2 DEF IInv, JobsExclusive, Has
<1>4. g \in Injection(J, J)
    BY <1>2, <1>3 DEF Injection, IsInjective
<1>5. IsFiniteSet(J)
    BY JobsFinite, FS_Subset, <1>1
<1>6. g \in Surjection(J, J)
    BY <1>4, <1>5, FS_Injection
<1>7. \A j \in J : \E p \in J : at[p] = j
    BY <1>6 DEF Surjection
<1> QED BY <1>1, <1>2, <1>7 DEF Has

\* Types; in particular the access flags cannot wrap.
THEOREM TypeCorrect == Spec => []TypeOK
<1> QED BY TypesBounded, Inductive, PTL

\* No slice is digested by two threads, and no participation walks off the stack,
\* however many slices a picture has.
THEOREM EveryThreadFindsAJob == Spec => [](JobsExclusive /\ NeverStrays /\ EnoughJobsBelow)
<1>1. IInv => JobsExclusive /\ NeverStrays /\ EnoughJobsBelow
    BY DEF IInv
<1> QED BY <1>1, Inductive, PTL

\* The join of the digest notifier waits for all the slices.
THEOREM JoinIsEnough == Spec => []JoinMeansDigested
<1> QED BY JoinedMeansDigested, Inductive, PTL

-----------------------------------------------------------------------------
(* The jobs on the stack are a work pool: the steps of the refinement.     *)

\* Steps that push no job and by which no thread comes to have a job or is done
\* with one are not seen in the pool.
LEMMA PoolUnmoved ==
    ASSUME top' = top,
           \A p, j \in Jobs : Has(p, j)' <=> Has(p, j),
           \A p \in Jobs : stage'[p] = "done" <=> stage[p] = "done"
    PROVE  UNCHANGED Pool!poolVars
BY DEF Pool!poolVars

LEMMA PoolOfPushJob ==
    ASSUME IInv, PushJob
    PROVE  /\ top + 1 \in Jobs
           /\ Pool!Offer(top + 1)
<1>1. top \in Nat /\ top + 1 \in Jobs /\ top' = top + 1
    BY JobsAssumption DEF IInv, Types, PushJob, Jobs
<1>2. top + 1 \notin 1..top /\ 1..(top + 1) = (1..top) \cup {top + 1}
    BY <1>1
<1>3. /\ \A p, j \in Jobs : Has(p, j)' <=> Has(p, j)
      /\ \A p \in Jobs : stage'[p] = stage[p]
    BY DEF PushJob, Has
<1> QED BY <1>1, <1>2, <1>3 DEF Pool!Offer

LEMMA PoolOfClaim ==
    ASSUME IInv, NEW p \in Jobs, Claim(p)
    PROVE  at[p] \in Jobs /\ Pool!Take(at[p])
<1> DEFINE i == at[p]
<1>1. i \in Jobs /\ i \in 1..top /\ access[i] = 0
    BY JobsAssumption DEF IInv, Types, Claim, OnTheStack, Started, Jobs
<1>2. \A q, j \in Jobs : Has(q, j)' <=> Has(q, j) \/ (q = p /\ j = i)
    BY DEF IInv, Types, Claim, Has
<1>3. \A q \in Jobs : ~Has(q, i)
    BY <1>1 DEF IInv, Types, CountedIffHeld
<1>4. /\ \A q \in Jobs : stage'[q] = "done" <=> stage[q] = "done"
      /\ stage[p] # "done"
      /\ top' = top
    BY DEF IInv, Types, Claim
<1> QED BY <1>1, <1>2, <1>3, <1>4 DEF Pool!Take

LEMMA PoolOfEndDigest ==
    ASSUME IInv, NEW p \in Jobs, EndDigest(p)
    PROVE  \E t \in Jobs : Pool!Finish(t)
<1> DEFINE i == at[p]
<1>1. i \in Jobs /\ Has(p, i) /\ stage[p] = "digesting"
    BY JobsAssumption DEF IInv, Types, EndDigest, OnTheStack, Started, Has, Jobs
<1>2. \A q \in Jobs : Has(q, i) => q = p
    BY <1>1 DEF IInv, JobsExclusive
<1>3. /\ top' = top
      /\ \A q, j \in Jobs : Has(q, j)' <=> Has(q, j)
      /\ \A q \in Jobs : stage'[q] = "done" <=> stage[q] = "done" \/ q = p
    BY DEF IInv, Types, EndDigest, Has
<1>4. \A j \in Jobs : Has(p, j) => j = i
    BY DEF Has
<1> QED BY <1>1, <1>2, <1>3, <1>4 DEF Pool!Finish

\* Jobs are destroyed when the join has returned: all of them are digested.
LEMMA PoolOfWaitForDigestFinish ==
    ASSUME IInv, WaitForDigestFinish
    PROVE  Pool!Recycle
<1>1. /\ \A j \in 1..top : j \in Jobs
      /\ \A j \in 1..top : \E p \in Jobs : Has(p, j)
    <2>1. \A j \in 1..top : \E p \in Jobs : Has(p, j)
        BY JoinedMeansDigested DEF JoinMeansDigested, WaitForDigestFinish
    <2>2. top \in 0..MaxJobs
        BY DEF IInv, Types
    <2> QED BY <2>1, <2>2, JobsAssumption DEF Jobs
<1>2. \A p, j \in Jobs : Has(p, j) => stage[p] = "done" /\ j \in 1..top
    BY DEF WaitForDigestFinish, Joined, Has, IInv, OnTheStack, Started
<1>3. 1..top = {j \in Jobs : \E p \in Jobs : Has(p, j) /\ stage[p] = "done"}
    BY <1>1, <1>2
<1>4. /\ top' = 0 /\ 1..0 = {}
      /\ \A p, j \in Jobs : ~Has(p, j)'
    BY DEF WaitForDigestFinish, Has
<1> QED BY <1>3, <1>4 DEF Pool!Recycle

LEMMA PoolStep ==
    ASSUME IInv, [Next]_vars
    PROVE  [Pool!Next]_(Pool!poolVars)
<1>1. CASE PushJob
    BY <1>1, PoolOfPushJob DEF Pool!Next
<1>2. CASE NotifyAvailable \/ BeginDirectly \/ EndDirectly \/ UNCHANGED vars
    <2>1. /\ top' = top
          /\ \A q, j \in Jobs : Has(q, j)' <=> Has(q, j)
          /\ \A q \in Jobs : stage'[q] = "done" <=> stage[q] = "done"
        BY <1>2 DEF NotifyAvailable, BeginDirectly, EndDirectly, vars, Has,
                    IInv, Types, AskedPerJob
    <2> QED BY <2>1, PoolUnmoved
<1>3. ASSUME NEW p \in Jobs, Begin(p) \/ Beaten(p)
      PROVE  UNCHANGED Pool!poolVars
    <2>1. /\ top' = top
          /\ \A q, j \in Jobs : Has(q, j)' <=> Has(q, j)
          /\ \A q \in Jobs : stage'[q] = "done" <=> stage[q] = "done"
        BY <1>3 DEF Begin, Beaten, Has, IInv, Types
    <2> QED BY <2>1, PoolUnmoved
<1>4. ASSUME NEW p \in Jobs, Claim(p) PROVE Pool!Next
    BY <1>4, PoolOfClaim DEF Pool!Next
<1>5. ASSUME NEW p \in Jobs, EndDigest(p) PROVE Pool!Next
    <2>1. \E t \in Jobs : Pool!Finish(t)
        BY <1>5, PoolOfEndDigest
    <2>2. \A t \in Jobs : Pool!Finish(t) => Pool!Next
        BY Zenon DEF Pool!Next
    <2> QED BY <2>1, <2>2
<1>6. CASE WaitForDigestFinish
    BY <1>6, PoolOfWaitForDigestFinish DEF Pool!Next
<1> QED BY <1>1, <1>2, <1>3, <1>4, <1>5, <1>6 DEF Next, Participate

\* The job stack keeps what the work pool promises, whichever thread finds which
\* job: each is taken once and finished once, and jobs are only destroyed when
\* all are finished.  (That they are in the end is the fairness half of
\* ImplementsPool.)
THEOREM JobsAreAPool == Spec => Pool!Init /\ [][Pool!Next]_(Pool!poolVars)
<1>1. Init => Pool!Init
    BY DEF Init, Pool!Init, Has
<1> QED BY <1>1, PoolStep, Inductive, PTL DEF Spec

-----------------------------------------------------------------------------
(* The memory of the jobs.                                                 *)
(*                                                                         *)
(* What has been handed out is the block's beginning, and is no more than  *)
(* what was asked for.  So a slice the block refuses makes the demand      *)
(* larger than the block, and the block is as large as any demand the last *)
(* resets have seen.                                                       *)

MemTypes ==
    /\ memCapacity \in Nat
    /\ memCapacity <= Larger(InitialCapacity, MaxDemand)
    /\ memRemaining \in 0 .. memCapacity
    /\ nextCapacity \in 0 .. MaxDemand
    /\ learned \in 0 .. MaxDemand
    /\ block \in [Jobs -> [pooled : BOOLEAN, from : Nat, size : Nat]]

Used == memCapacity - memRemaining

MemInv ==
    /\ top \in 0..MaxJobs
    /\ MemTypes
    /\ Used <= nextCapacity
    /\ learned <= memCapacity
    /\ \A j \in Jobs : Pooled(j) => EndOf(j) <= Used
    /\ \A j, k \in Jobs : Pooled(j) /\ Pooled(k) /\ k < j => EndOf(k) <= block[j].from
    /\ \A j \in Jobs : j <= top /\ ~block[j].pooled => nextCapacity > memCapacity

-----------------------------------------------------------------------------
LEMMA MemInitInv == MemInit => MemInv
<1> SUFFICES ASSUME MemInit PROVE MemInv
    OBVIOUS
<1>1. top = 0 /\ 0 \in 0..MaxJobs /\ \A j \in Jobs : ~(j <= top)
    BY JobsAssumption DEF MemInit, Init, Jobs
<1>2. MemTypes
    BY MemoryAssumption DEF MemInit, MemTypes, Larger, Nowhere
<1> QED BY <1>1, <1>2 DEF MemInit, MemInv, MemTypes, Used, Pooled

\* What the steps that change no job's place on the stack preserve.
LEMMA OtherStep ==
    ASSUME MemInv, UNCHANGED <<top, memVars>>
    PROVE  MemInv'
<1> QED BY DEF MemInv, MemTypes, memVars, Used, Pooled, EndOf, Larger

LEMMA PooledStep ==
    ASSUME MemInv, NEW size \in Sizes, DispatchPooled(size)
    PROVE  MemInv'
<1> DEFINE n == top + 1
<1>1. /\ n \in Jobs /\ top' = n /\ top \in Nat /\ size \in Nat
      /\ memRemaining >= size /\ memRemaining' = memRemaining - size
      /\ nextCapacity' = nextCapacity + size /\ nextCapacity' <= MaxDemand
      /\ UNCHANGED <<memCapacity, learned>>
      /\ block' = [block EXCEPT ![n] =
                    [pooled |-> TRUE, from |-> Used, size |-> size]]
    BY JobsAssumption, MemoryAssumption
    DEF MemInv, DispatchPooled, PushJob, Asked, HandedOut, Used, Jobs
<1>2. /\ memCapacity \in Nat /\ memRemaining \in Nat /\ memRemaining <= memCapacity
      /\ nextCapacity \in Nat /\ MaxDemand \in Nat /\ Used \in Nat
    BY MemoryAssumption DEF MemInv, MemTypes, Used
<1>3. Used' = Used + size
    BY <1>1, <1>2 DEF Used
<1>4. block'[n] = [pooled |-> TRUE, from |-> Used, size |-> size]
    BY <1>1 DEF MemInv, MemTypes
<1>5. \A j \in Jobs : j # n => block'[j] = block[j]
    BY <1>1 DEF MemInv, MemTypes
<1>6. \A j \in Jobs : j # n => (Pooled(j)' <=> Pooled(j)) /\ EndOf(j)' = EndOf(j)
    BY <1>1, <1>5 DEF Pooled, EndOf, Jobs
<1>7. \A j \in Jobs : j = n => EndOf(j)' = Used' /\ block'[j].from = Used
    <2> SUFFICES ASSUME NEW j \in Jobs, j = n
                 PROVE  EndOf(j)' = Used' /\ block'[j].from = Used
        OBVIOUS
    <2>1. block'[j].from = Used /\ block'[j].size = size
        BY <1>4
    <2> QED BY <1>3, <2>1 DEF EndOf
<1>8. MemTypes'
    BY <1>1, <1>2 DEF MemInv, MemTypes, Larger
<1>9. \A j \in Jobs : Pooled(j)' => EndOf(j)' <= Used'
    <2> SUFFICES ASSUME NEW j \in Jobs, Pooled(j)' PROVE EndOf(j)' <= Used'
        OBVIOUS
    <2>1. CASE j = n
        <3>1. EndOf(j)' = Used' /\ Used' \in Int
            BY <1>1, <1>2, <1>3, <1>7, <2>1
        <3> QED BY <3>1
    <2>2. CASE j # n
        <3>1. EndOf(j) <= Used /\ EndOf(j) \in Nat
            BY <1>6, <2>2 DEF MemInv, MemTypes, EndOf
        <3> QED BY <1>1, <1>2, <1>3, <1>6, <2>2, <3>1
    <2> QED BY <2>1, <2>2
<1>10. \A j, k \in Jobs : Pooled(j)' /\ Pooled(k)' /\ k < j => EndOf(k)' <= block'[j].from
    <2> SUFFICES ASSUME NEW j \in Jobs, NEW k \in Jobs, Pooled(j)', Pooled(k)', k < j
                 PROVE  EndOf(k)' <= block'[j].from
        OBVIOUS
    <2>1. k # n
        BY <1>1 DEF Pooled, Jobs
    <2>2. Pooled(k) /\ EndOf(k)' = EndOf(k) /\ EndOf(k) <= Used
        BY <1>6, <2>1 DEF MemInv
    <2>3. CASE j = n
        BY <1>7, <2>2, <2>3
    <2>4. CASE j # n
        BY <1>5, <1>6, <2>2, <2>4 DEF MemInv
    <2> QED BY <2>3, <2>4
<1>11. \A j \in Jobs : j <= top' /\ ~block'[j].pooled => nextCapacity' > memCapacity'
    <2> SUFFICES ASSUME NEW j \in Jobs, j <= top', ~block'[j].pooled
                 PROVE  nextCapacity' > memCapacity'
        OBVIOUS
    <2>1. j # n
        BY <1>4
    <2>2. j <= top /\ ~block[j].pooled
        BY <1>1, <1>5, <2>1 DEF Jobs
    <2>3. nextCapacity > memCapacity
        BY <2>2 DEF MemInv
    <2> QED BY <1>1, <1>2, <2>3
<1>12. top' \in 0..MaxJobs /\ Used' <= nextCapacity' /\ learned' <= memCapacity'
    BY <1>1, <1>2, <1>3, JobsAssumption DEF MemInv, Jobs
<1> QED BY <1>8, <1>9, <1>10, <1>11, <1>12 DEF MemInv

LEMMA HeapStep ==
    ASSUME MemInv, NEW size \in Sizes, DispatchOnHeap(size)
    PROVE  MemInv'
<1> DEFINE n == top + 1
<1>1. /\ n \in Jobs /\ top' = n /\ top \in Nat /\ size \in Nat
      /\ memRemaining < size
      /\ nextCapacity' = nextCapacity + size /\ nextCapacity' <= MaxDemand
      /\ UNCHANGED <<memCapacity, memRemaining, learned>>
      /\ block' = [block EXCEPT ![n] = [pooled |-> FALSE, from |-> 0, size |-> size]]
    <2>1. /\ top < MaxJobs /\ top' = n /\ memRemaining < size
          /\ nextCapacity' = nextCapacity + size /\ nextCapacity + size <= MaxDemand
          /\ UNCHANGED <<memCapacity, memRemaining, learned>>
          /\ block' = [block EXCEPT ![n] = [pooled |-> FALSE, from |-> 0, size |-> size]]
        BY DEF DispatchOnHeap, PushJob, Asked, Refused
    <2>2. n \in Jobs /\ top \in Nat /\ size \in Nat
        BY <2>1, JobsAssumption, MemoryAssumption DEF MemInv, Jobs
    <2> QED BY <2>1, <2>2
<1>2. /\ memCapacity \in Nat /\ memRemaining \in Nat /\ memRemaining <= memCapacity
      /\ nextCapacity \in Nat /\ MaxDemand \in Nat /\ Used \in Nat
    BY MemoryAssumption DEF MemInv, MemTypes, Used
<1>3. Used' = Used
    BY <1>1 DEF Used
<1>4. ~block'[n].pooled
    BY <1>1 DEF MemInv, MemTypes
<1>5. \A j \in Jobs : j # n => block'[j] = block[j]
    BY <1>1 DEF MemInv, MemTypes
<1>6. \A j \in Jobs : Pooled(j)' => j # n /\ Pooled(j) /\ EndOf(j)' = EndOf(j)
    BY <1>1, <1>4, <1>5 DEF Pooled, EndOf, Jobs
<1>7. nextCapacity' > memCapacity'
    BY <1>1, <1>2 DEF MemInv, Used
<1>8. MemTypes'
    BY <1>1, <1>2 DEF MemInv, MemTypes, Larger
<1>9. top' \in 0..MaxJobs /\ Used' <= nextCapacity' /\ learned' <= memCapacity'
    BY <1>1, <1>2, <1>3, JobsAssumption DEF MemInv, Jobs
<1>10. \A j \in Jobs : Pooled(j)' => EndOf(j)' <= Used'
    BY <1>3, <1>6 DEF MemInv
<1>11. \A j, k \in Jobs : Pooled(j)' /\ Pooled(k)' /\ k < j => EndOf(k)' <= block'[j].from
    BY <1>5, <1>6 DEF MemInv
<1> QED BY <1>7, <1>8, <1>9, <1>10, <1>11 DEF MemInv

LEMMA DirectlyStep ==
    ASSUME MemInv, NEW size \in Sizes, DispatchDirectly(size)
    PROVE  MemInv'
<1>1. /\ UNCHANGED <<top, memCapacity, memRemaining, learned, block>>
      /\ nextCapacity' = nextCapacity + size /\ nextCapacity' <= MaxDemand
      /\ size \in Nat
    BY MemoryAssumption DEF DispatchDirectly, BeginDirectly, Asked, Refused
<1>2. MemTypes'
    BY <1>1 DEF MemInv, MemTypes, Larger
<1>3. \A j \in Jobs : (Pooled(j)' <=> Pooled(j)) /\ EndOf(j)' = EndOf(j)
    BY <1>1 DEF Pooled, EndOf
<1>4. nextCapacity' >= nextCapacity /\ Used' = Used
    BY <1>1 DEF MemInv, MemTypes, Used
<1> QED BY <1>1, <1>2, <1>3, <1>4 DEF MemInv, MemTypes, Used

LEMMA NothingLeft == \A n \in Nat : n - n <= 0
<1> QED OBVIOUS

LEMMA JoinAndResetStep ==
    ASSUME MemInv, JoinAndReset
    PROVE  MemInv'
<1>1. top' = 0 /\ memRemaining' = memCapacity' /\ nextCapacity' = 0
    BY DEF JoinAndReset, WaitForDigestFinish, Reset
<1>2. \A j \in Jobs : ~(j <= top')
    BY <1>1 DEF Jobs
<1>3. block' = [j \in Jobs |-> Nowhere]
    BY DEF JoinAndReset
<1>4. /\ memCapacity' \in Nat /\ learned' \in 0 .. MaxDemand
      /\ memCapacity' <= Larger(InitialCapacity, MaxDemand)
      /\ learned' <= memCapacity'
    <2>1. CASE Enlarge
        BY <2>1, MemoryAssumption DEF MemInv, MemTypes, Enlarge, Outgrown, Larger
    <2>2. CASE FailToEnlarge
        BY <2>2, MemoryAssumption DEF FailToEnlarge, Larger
    <2>3. CASE KeepBlock
        BY <2>3, MemoryAssumption DEF MemInv, MemTypes, KeepBlock, Outgrown, Larger
    <2> QED BY <2>1, <2>2, <2>3 DEF JoinAndReset, Reset
<1>5. MemTypes'
    BY <1>1, <1>3, <1>4, MemoryAssumption DEF MemTypes, Nowhere, Larger
<1>6. Used' <= nextCapacity'
    <2>1. memCapacity' \in Nat
        BY <1>4
    <2>2. memCapacity' - memCapacity' <= 0
        BY <2>1, NothingLeft
    <2> QED BY <1>1, <2>2 DEF Used
<1>7. top' \in 0..MaxJobs
    BY <1>1, JobsAssumption
<1> QED BY <1>2, <1>4, <1>5, <1>6, <1>7 DEF MemInv, Pooled

LEMMA MemNextInv == MemInv /\ [MemNext]_allVars => MemInv'
<1> SUFFICES ASSUME MemInv, [MemNext]_allVars PROVE MemInv'
    OBVIOUS
<1>1. CASE \E size \in Sizes :
            DispatchPooled(size) \/ DispatchOnHeap(size) \/ DispatchDirectly(size)
    BY <1>1, PooledStep, HeapStep, DirectlyStep
<1>2. CASE LoseSlice \/ UNCHANGED allVars
    BY <1>2, OtherStep DEF LoseSlice, allVars, vars
<1>3. CASE RunPool
    <2>1. UNCHANGED <<top, memVars>>
        BY <1>3 DEF RunPool, NotifyAvailable, EndDirectly, Participate, Begin,
           Claim, Beaten, EndDigest
    <2> QED BY <2>1, OtherStep
<1>4. CASE JoinAndReset
    BY <1>4, JoinAndResetStep
<1> QED BY <1>1, <1>2, <1>3, <1>4 DEF MemNext, DispatchDeslicerJob

THEOREM MemInductive == MemSpec => []MemInv
<1> QED BY MemInitInv, MemNextInv, PTL DEF MemSpec

-----------------------------------------------------------------------------
(* What follows from it.                                                   *)

\* The pool's counters stay within the block and the demand within its bound.
THEOREM MemTypeCorrect == MemSpec => []MemTypeOK
<1>1. MemInv => MemTypeOK
    BY DEF MemInv, MemTypes, MemTypeOK, Larger
<1> QED BY <1>1, MemInductive, PTL

\* No slice's bytes are overwritten by a later slice, whatever the sizes.
THEOREM BlocksStayApart == MemSpec => []BlocksDisjoint
<1>1. MemInv => BlocksDisjoint
    <2> SUFFICES ASSUME MemInv, NEW j \in Jobs, Pooled(j)
                 PROVE  /\ EndOf(j) <= memCapacity
                        /\ \A k \in Jobs : Pooled(k) /\ k < j => EndOf(k) <= block[j].from
        BY DEF BlocksDisjoint
    <2>1. EndOf(j) <= Used /\ Used <= memCapacity /\ Used \in Nat /\ EndOf(j) \in Nat
        BY DEF MemInv, MemTypes, Used, EndOf
    <2> QED BY <2>1 DEF MemInv, MemTypes
<1> QED BY <1>1, MemInductive, PTL

\* The heap is used only for a demand not met before.
THEOREM LearnsTheDemand == MemSpec => []PoolLearns
<1>1. MemInv => PoolLearns
    BY JobsAssumption DEF MemInv, MemTypes, PoolLearns, Jobs
<1> QED BY <1>1, MemInductive, PTL

\* With its memory the job stack is still the job stack: every behaviour of this
\* module is one of SliceJobs, fairness included.
THEOREM ImplementsJobStack == MemSpec => Spec
<1>1. MemInit => Init
    BY DEF MemInit
<1>2. [MemNext]_allVars => [Next]_vars
    BY DEF MemNext, allVars, Next, DispatchDeslicerJob, DispatchPooled,
       DispatchOnHeap, DispatchDirectly, LoseSlice, RunPool, JoinAndReset
<1> QED BY <1>1, <1>2, PTL DEF MemSpec, Spec

\* So no slice in the block is digested by two threads, and all are digested when
\* the block is taken back.
THEOREM JobsKeepTheirPromise ==
    MemSpec => [](JobsExclusive /\ NeverStrays /\ JoinMeansDigested)
<1>1. IInv => JobsExclusive /\ NeverStrays
    BY DEF IInv
<1> QED BY <1>1, ImplementsJobStack, Inductive, JoinedMeansDigested, PTL
=============================================================================
