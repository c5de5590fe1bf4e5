------------------------------ MODULE SliceJobs ------------------------------
(***************************************************************************)
(* The deslicer job stack of lwmovie::m1v::CVidStream                      *)
(* (src/lwmovie/mpeg_vidstream.cpp).  The main thread turns every slice    *)
(* packet into a job, pushes it on a linked stack and asks the digest      *)
(* notifier for one participation.  A participation takes the stack's head *)
(* as it finds it and walks down to the first job no other thread has.     *)
(* WaitForDigestFinish joins the pool and destroys the jobs.               *)
(*                                                                         *)
(* Jobs are named by their position in the stack, the oldest being 1, and  *)
(* a participation by the job whose push asked for it.  Only the main      *)
(* thread pushes, so its compare-and-swap never fails.                     *)
(***************************************************************************)
EXTENDS Integers, FiniteSets

CONSTANT MaxJobs    \* bound: jobs between two joins

ASSUME JobsAssumption == MaxJobs \in Nat \ {0}

Jobs == 1 .. MaxJobs

VARIABLES
    dispatcher, \* what the main thread is doing in DispatchDeslicerJob
    top,        \* m_deslicerJobStack: the newest job, 0 when empty
    access,     \* per job, m_accessFlag
    stage,      \* per participation, how far it is
    at          \* per participation, the job it looks at or digests; 0: none left

vars == <<dispatcher, top, access, stage, at>>

Stages == {"none", "queued", "looking", "digesting", "strayed", "done"}

Init ==
    /\ dispatcher = "free"
    /\ top = 0
    /\ access = [j \in Jobs |-> 0]
    /\ stage = [j \in Jobs |-> "none"]
    /\ at = [j \in Jobs |-> 0]

-----------------------------------------------------------------------------
(* DispatchDeslicerJob, in the main thread.                                *)

PushJob ==
    /\ dispatcher = "free"
    /\ top < MaxJobs
    /\ top' = top + 1
    /\ access' = [access EXCEPT ![top + 1] = 0]
    /\ dispatcher' = "pushed"
    /\ UNCHANGED <<stage, at>>

\* Mutant: the pool is notified only when the stack was empty.
NotifyFirstOnly ==
    /\ dispatcher = "pushed"
    /\ dispatcher' = "free"
    /\ stage' = IF top = 1 THEN [stage EXCEPT ![top] = "queued"] ELSE stage
    /\ UNCHANGED <<top, access, at>>

NotifyAvailable ==
    /\ dispatcher = "pushed"
    /\ dispatcher' = "free"
    /\ stage' = [stage EXCEPT ![top] = "queued"]
    /\ UNCHANGED <<top, access, at>>

\* Without memory for a job the main thread digests the slice itself.
BeginDirectly ==
    /\ dispatcher = "free"
    /\ dispatcher' = "digesting"
    /\ UNCHANGED <<top, access, stage, at>>

EndDirectly ==
    /\ dispatcher = "digesting"
    /\ dispatcher' = "free"
    /\ UNCHANGED <<top, access, stage, at>>

-----------------------------------------------------------------------------
(* CVidStream::Participate, in a thread of the pool.                       *)

\* Mutant: the stack is read from the node under the newest one.
BeginBelowTop(p) ==
    /\ stage[p] = "queued"
    /\ at' = [at EXCEPT ![p] = top - 1]
    /\ stage' = [stage EXCEPT ![p] = IF top = 1 THEN "strayed" ELSE "looking"]
    /\ UNCHANGED <<dispatcher, top, access>>

Begin(p) ==
    /\ stage[p] = "queued"
    /\ at' = [at EXCEPT ![p] = top]
    /\ stage' = [stage EXCEPT ![p] = IF top = 0 THEN "strayed" ELSE "looking"]
    /\ UNCHANGED <<dispatcher, top, access>>

\* Mutant: reads the access flag instead of incrementing it.
ClaimByReading(p) ==
    /\ stage[p] = "looking"
    /\ access[at[p]] + 1 = 1
    /\ stage' = [stage EXCEPT ![p] = "digesting"]
    /\ UNCHANGED <<dispatcher, top, access, at>>

Claim(p) ==
    /\ stage[p] = "looking"
    /\ access[at[p]] + 1 = 1
    /\ access' = [access EXCEPT ![at[p]] = @ + 1]
    /\ stage' = [stage EXCEPT ![p] = "digesting"]
    /\ UNCHANGED <<dispatcher, top, at>>

\* On to m_next.  If there is none, "the job must have come from the
\* reconstructor", and this thread calls the reconstructor's Participate.
Beaten(p) ==
    /\ stage[p] = "looking"
    /\ access[at[p]] + 1 # 1
    /\ access' = [access EXCEPT ![at[p]] = @ + 1]
    /\ at' = [at EXCEPT ![p] = @ - 1]
    /\ stage' = [stage EXCEPT ![p] = IF at[p] = 1 THEN "strayed" ELSE "looking"]
    /\ UNCHANGED <<dispatcher, top>>

EndDigest(p) ==
    /\ stage[p] = "digesting"
    /\ stage' = [stage EXCEPT ![p] = "done"]
    /\ UNCHANGED <<dispatcher, top, access, at>>

Participate(p) ==
    \/ Begin(p)
    \/ Claim(p)
    \/ Beaten(p)
    \/ EndDigest(p)

-----------------------------------------------------------------------------
\* Mutant: the join cancels the participations that have not begun.
JoinedOrCancelled ==
    \A j \in Jobs : stage[j] \in {"none", "queued", "strayed", "done"}

\* The digest notifier's join has returned.
Joined == \A j \in Jobs : stage[j] \in {"none", "strayed", "done"}

\* WaitForDigestFinish: the join, then DestroyDeslicerJobs.
WaitForDigestFinish ==
    /\ dispatcher = "free"
    /\ Joined
    /\ top' = 0
    /\ access' = [j \in Jobs |-> 0]
    /\ stage' = [j \in Jobs |-> "none"]
    /\ at' = [j \in Jobs |-> 0]
    /\ UNCHANGED dispatcher

Next ==
    \/ PushJob
    \/ NotifyAvailable
    \/ BeginDirectly
    \/ EndDirectly
    \/ \E p \in Jobs : Participate(p)
    \/ WaitForDigestFinish

Fairness ==
    /\ WF_vars(NotifyAvailable)
    /\ WF_vars(EndDirectly)
    /\ \A p \in Jobs : WF_vars(Participate(p))

Spec == Init /\ [][Next]_vars /\ Fairness

-----------------------------------------------------------------------------
(* Properties.                                                             *)

\* Types; a job's access flag never exceeds the number of participations, so it
\* cannot wrap to 1 again.
TypeOK ==
    /\ dispatcher \in {"free", "pushed", "digesting"}
    /\ top \in 0..MaxJobs
    /\ access \in [Jobs -> 0..MaxJobs]
    /\ stage \in [Jobs -> Stages]
    /\ at \in [Jobs -> 0..MaxJobs]

Has(p, j) == stage[p] \in {"digesting", "done"} /\ at[p] = j

\* No slice is digested by two threads.
JobsExclusive == \A p, q, j \in Jobs : Has(p, j) /\ Has(q, j) => p = q

\* No digest participation walks off the stack: whoever asked for it, it finds a
\* job that is its own, although others start later and from a newer head.
NeverStrays == \A p \in Jobs : stage[p] # "strayed"

\* The participations that have come down to job d, or begun there, are at most
\* d: the reason why none walks off.
Started(p) == stage[p] \in {"looking", "digesting", "strayed", "done"}
ReachedDownTo(d) == {p \in Jobs : Started(p) /\ at[p] <= d}

EnoughJobsBelow == \A d \in Jobs : Cardinality(ReachedDownTo(d)) <= d

\* When the join returns every job on the stack has been digested; only then are
\* the jobs, which hold the slices' bytes, destroyed.
JoinMeansDigested ==
    Joined /\ dispatcher = "free" => \A j \in 1..top : \E p \in Jobs : Has(p, j)

\* The jobs on the stack are a work pool: each is digested once and, with a fair
\* pool, in the end.
Pool == INSTANCE WorkPool WITH
    Tasks <- Jobs,
    offered <- 1..top,
    taken <- {j \in Jobs : \E p \in Jobs : Has(p, j)},
    finished <- {j \in Jobs : \E p \in Jobs : Has(p, j) /\ stage[p] = "done"}

ImplementsPool == Pool!Spec
=============================================================================
