--------------------------- MODULE DeslicerMemory ---------------------------
(***************************************************************************)
(* The memory of the deslicer jobs: lwmovie::m1v::CVidStream's             *)
(* SDeslicerMemoryPool (src/lwmovie/mpeg_vidstream.cpp).  A slice packet   *)
(* is copied into a job; the job's memory comes from one block that is     *)
(* handed out from its beginning and taken back whole when the pool has    *)
(* been joined.  What the block cannot hold goes to the heap, and the next *)
(* reset makes the block as large as what was asked for.                   *)
(*                                                                         *)
(* This refines the job stack of SliceJobs with the memory of its jobs:    *)
(* pushing a job and digesting in place are the two outcomes of one        *)
(* DispatchDeslicerJob.  Sizes are in units of 16 bytes, to which the code *)
(* rounds them.                                                            *)
(***************************************************************************)
EXTENDS SliceJobs

CONSTANTS
    Sizes,              \* sizes of a job with its slice
    InitialCapacity,    \* what the constructor asks for
    MaxDemand           \* bound: what is asked for between two resets

ASSUME MemoryAssumption ==
    /\ Sizes \subseteq Nat \ {0}
    /\ InitialCapacity \in Nat
    /\ MaxDemand \in Nat

VARIABLES
    memCapacity,    \* size of the block; 0 when there is none
    memRemaining,   \* how much of the block has not been handed out
    nextCapacity,   \* how much has been asked for since the last reset
    block,          \* per job, where its memory is
    learned         \* history: the most asked for between two resets that
                    \* follow the last failure to enlarge the block

memVars == <<memCapacity, memRemaining, nextCapacity, block, learned>>
allVars == <<vars, memVars>>

Nowhere == [pooled |-> FALSE, from |-> 0, size |-> 0]

\* The constructor's Reset, which may fail to get the block.
MemInit ==
    /\ Init
    /\ memCapacity \in {0, InitialCapacity}
    /\ memRemaining = memCapacity
    /\ nextCapacity = 0
    /\ block = [j \in Jobs |-> Nowhere]
    /\ learned = 0

-----------------------------------------------------------------------------
(* SDeslicerMemoryPool::Alloc.                                             *)

Asked(size) ==
    /\ nextCapacity + size <= MaxDemand
    /\ nextCapacity' = nextCapacity + size

\* Mutant: what is left of the block is not reduced.
HandedOutWhole(size) ==
    /\ memRemaining >= size
    /\ UNCHANGED memRemaining
    /\ block' = [block EXCEPT ![top + 1] =
                    [pooled |-> TRUE, from |-> memCapacity - memRemaining, size |-> size]]

HandedOut(size) ==
    /\ memRemaining >= size
    /\ memRemaining' = memRemaining - size
    /\ block' = [block EXCEPT ![top + 1] =
                    [pooled |-> TRUE, from |-> memCapacity - memRemaining, size |-> size]]

Refused(size) ==
    /\ memRemaining < size
    /\ UNCHANGED memRemaining

-----------------------------------------------------------------------------
(* DispatchDeslicerJob: a job in the block, a job on the heap, or no job.  *)

DispatchPooled(size) ==
    /\ PushJob
    /\ Asked(size)
    /\ HandedOut(size)
    /\ UNCHANGED <<memCapacity, learned>>

DispatchOnHeap(size) ==
    /\ PushJob
    /\ Asked(size)
    /\ Refused(size)
    /\ block' = [block EXCEPT ![top + 1] =
                    [pooled |-> FALSE, from |-> 0, size |-> size]]
    /\ UNCHANGED <<memCapacity, learned>>

\* The heap has no memory either.
DispatchDirectly(size) ==
    /\ BeginDirectly
    /\ Asked(size)
    /\ Refused(size)
    /\ UNCHANGED <<memCapacity, block, learned>>

\* CreateBlockCursor returned NULL: the slice is lost, and nothing asked for.
LoseSlice ==
    /\ dispatcher = "free"
    /\ UNCHANGED allVars

DispatchDeslicerJob ==
    \/ \E size \in Sizes :
        DispatchPooled(size) \/ DispatchOnHeap(size) \/ DispatchDirectly(size)
    \/ LoseSlice

-----------------------------------------------------------------------------
(* SDeslicerMemoryPool::Reset.                                             *)

\* Mutant: the block follows the demand down as well.
OutgrownOrNot == nextCapacity # memCapacity

Outgrown == nextCapacity > memCapacity

Larger(a, b) == IF a > b THEN a ELSE b

Enlarge ==
    /\ Outgrown
    /\ memCapacity' = nextCapacity
    /\ learned' = Larger(learned, nextCapacity)

FailToEnlarge ==
    /\ Outgrown
    /\ memCapacity' = 0
    /\ learned' = 0

KeepBlock ==
    /\ ~Outgrown
    /\ memCapacity' = memCapacity
    /\ learned' = Larger(learned, nextCapacity)

Reset ==
    /\ Enlarge \/ FailToEnlarge \/ KeepBlock
    /\ memRemaining' = memCapacity'
    /\ nextCapacity' = 0

\* The join, the destruction of the jobs, and the reset.
JoinAndReset ==
    /\ WaitForDigestFinish
    /\ Reset
    /\ block' = [j \in Jobs |-> Nowhere]

\* The steps of the job stack that touch no memory.
RunPool ==
    /\ NotifyAvailable \/ EndDirectly \/ \E p \in Jobs : Participate(p)
    /\ UNCHANGED memVars

MemNext ==
    \/ DispatchDeslicerJob
    \/ RunPool
    \/ JoinAndReset

MemSpec == MemInit /\ [][MemNext]_allVars /\ Fairness

-----------------------------------------------------------------------------
(* Properties.                                                             *)

\* Types of the pool's state.
MemTypeOK ==
    /\ memCapacity \in 0 .. Larger(InitialCapacity, MaxDemand)
    /\ memRemaining \in 0 .. memCapacity
    /\ nextCapacity \in 0 .. MaxDemand
    /\ learned \in 0 .. MaxDemand
    /\ block \in [Jobs -> [pooled : BOOLEAN, from : Nat, size : Nat]]

Pooled(j) == j <= top /\ block[j].pooled

EndOf(j) == block[j].from + block[j].size

\* The jobs on the stack that live in the block occupy separate parts of it, and
\* lie within it: no slice's bytes are overwritten by a later slice while a
\* thread may still be digesting it.
BlocksDisjoint ==
    \A j \in Jobs : Pooled(j) =>
        /\ EndOf(j) <= memCapacity
        /\ \A k \in Jobs : Pooled(k) /\ k < j => EndOf(k) <= block[j].from

\* The pool learns: a slice goes to the heap only when more has been asked for
\* than ever between two joins since the block could last not be enlarged.  A
\* stream whose pictures do not grow stops allocating.
PoolLearns ==
    (\E j \in 1..top : ~block[j].pooled) => nextCapacity > learned
=============================================================================
