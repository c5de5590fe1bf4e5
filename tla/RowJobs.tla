------------------------------- MODULE RowJobs -------------------------------
(***************************************************************************)
(* Row jobs of the threaded software reconstructor,                        *)
(* lwmovie::m1v::CSoftwareReconstructor with m_useRowJobs                  *)
(* (src/lwmovie/lwmovie_recon_m1vsw.cpp), driven by the main thread        *)
(* (CVidStream::DigestDataPacket and EmitFrame, and the video              *)
(* synchronization case of DigestPacket) and by the deslicers.             *)
(*                                                                         *)
(* A deslicer that completes a row commits it and asks the pool for one    *)
(* participation.  A participation is not told which row to work on: it    *)
(* looks for a committed row that no other thread has.  A participation is *)
(* named here by the row whose first commit asked for it.  The pool runs   *)
(* each participation once and its join waits for all of them              *)
(* (lwplay/threadpool_win32.cpp); the built-in notifier, which runs it in  *)
(* the committing thread, is one of the interleavings.                     *)
(*                                                                         *)
(* The main thread feeds pictures, their slices and video synchronizations *)
(* as the muxer writes them: a synchronization may be missing, may come    *)
(* twice (the last B picture and then the reference it was kept behind),   *)
(* and a picture may be refused.  The first picture is not: before one has *)
(* been accepted m_rowCommitCounts is not initialized.                     *)
(***************************************************************************)
EXTENDS Integers, FiniteSets

CONSTANTS
    NumRows,      \* m_mbHeight
    MaxCommits    \* bound: how often a damaged video commits the same row

ASSUME RowsAssumption == NumRows \in Nat \ {0}
ASSUME CommitsAssumption == MaxCommits \in Nat \ {0}

Rows == 0 .. NumRows - 1

VARIABLES
    phase,    \* what the main thread does with the current picture
    open,     \* the work frames of the current picture are locked
    commits,  \* m_rowCommitCounts
    users,    \* m_workRowUsers
    stage,    \* per participation, how far it is
    at        \* per participation, the row it looks at or works on

vars == <<phase, open, commits, users, stage, at>>

\* "none": no picture yet.  "slicing": slices of the current picture are handed
\* to deslicers.  "dropped": they are not.  "idle": the picture was shown.
Phases == {"none", "idle", "slicing", "dropped", "presented"}

\* "counted": the row is committed, the notifier not yet called.  "claiming":
\* the row was seen committed, its user count not yet incremented.
Stages == {"none", "counted", "queued", "looking", "claiming", "working", "done"}

Init ==
    /\ phase = "none"
    /\ open = FALSE
    /\ commits = [r \in Rows |-> 0]
    /\ users = [r \in Rows |-> 0]
    /\ stage = [r \in Rows |-> "none"]
    /\ at = [r \in Rows |-> 0]

-----------------------------------------------------------------------------
(* Deslicer threads.                                                       *)

\* Mutant: compares the count it had before the increment.
CommitRowComparingOld(r) ==
    /\ phase = "slicing"
    /\ commits[r] < MaxCommits
    /\ commits' = [commits EXCEPT ![r] = @ + 1]
    /\ stage' = IF commits[r] = 1
                THEN [stage EXCEPT ![r] = "counted"]
                ELSE stage
    /\ UNCHANGED <<phase, open, users, at>>

\* MarkRowFinished: the atomic increment, then the notification if the
\* incremented count is 1.
CommitRow(r) ==
    /\ phase = "slicing"
    /\ commits[r] < MaxCommits
    /\ commits' = [commits EXCEPT ![r] = @ + 1]
    /\ stage' = IF commits[r] + 1 = 1
                THEN [stage EXCEPT ![r] = "counted"]
                ELSE stage
    /\ UNCHANGED <<phase, open, users, at>>

NotifyAvailable(r) ==
    /\ stage[r] = "counted"
    /\ stage' = [stage EXCEPT ![r] = "queued"]
    /\ UNCHANGED <<phase, open, commits, users, at>>

-----------------------------------------------------------------------------
(* Participate, in a thread of the pool.                                   *)

Begin(p) ==
    /\ stage[p] = "queued"
    /\ stage' = [stage EXCEPT ![p] = "looking"]
    /\ at' = [at EXCEPT ![p] = 0]
    /\ UNCHANGED <<phase, open, commits, users>>

\* The loop goes on to the next row; past the last one the variable `row` has
\* its initial value, and row 0 is reconstructed.
GoOn(p) ==
    IF at[p] + 1 < NumRows
    THEN /\ at' = [at EXCEPT ![p] = @ + 1]
         /\ stage' = [stage EXCEPT ![p] = "looking"]
    ELSE /\ at' = [at EXCEPT ![p] = 0]
         /\ stage' = [stage EXCEPT ![p] = "working"]

\* Mutant: may take a row committed once for one not committed.
SkipCommittedOnce(p) ==
    /\ stage[p] = "looking"
    /\ commits[at[p]] <= 1
    /\ GoOn(p)
    /\ UNCHANGED <<phase, open, commits, users>>

SkipUncommitted(p) ==
    /\ stage[p] = "looking"
    /\ commits[at[p]] = 0
    /\ GoOn(p)
    /\ UNCHANGED <<phase, open, commits, users>>

FindCommitted(p) ==
    /\ stage[p] = "looking"
    /\ commits[at[p]] # 0
    /\ stage' = [stage EXCEPT ![p] = "claiming"]
    /\ UNCHANGED <<phase, open, commits, users, at>>

\* Mutant: reads the user count instead of incrementing it.
ClaimByReading(p) ==
    /\ stage[p] = "claiming"
    /\ users[at[p]] + 1 = 1
    /\ stage' = [stage EXCEPT ![p] = "working"]
    /\ UNCHANGED <<phase, open, commits, users, at>>

Claim(p) ==
    /\ stage[p] = "claiming"
    /\ users[at[p]] + 1 = 1
    /\ users' = [users EXCEPT ![at[p]] = @ + 1]
    /\ stage' = [stage EXCEPT ![p] = "working"]
    /\ UNCHANGED <<phase, open, commits, at>>

Beaten(p) ==
    /\ stage[p] = "claiming"
    /\ users[at[p]] + 1 # 1
    /\ users' = [users EXCEPT ![at[p]] = @ + 1]
    /\ GoOn(p)
    /\ UNCHANGED <<phase, open, commits>>

ReconstructRow(p) ==
    /\ stage[p] = "working"
    /\ stage' = [stage EXCEPT ![p] = "done"]
    /\ UNCHANGED <<phase, open, commits, users, at>>

Participate(p) ==
    \/ Begin(p)
    \/ SkipUncommitted(p)
    \/ FindCommitted(p)
    \/ Claim(p)
    \/ Beaten(p)
    \/ ReconstructRow(p)

-----------------------------------------------------------------------------
(* The main thread.                                                        *)

\* No deslicer is inside MarkRowFinished.
DigestFinished == \A r \in Rows : stage[r] # "counted"

\* Mutant: the join cancels the participations that have not begun.
ReconFinishedOrCancelled ==
    \A r \in Rows : stage[r] \in {"none", "counted", "queued", "done"}

\* WaitForFinish: the recon notifier's join.
ReconFinished ==
    \A r \in Rows : stage[r] \in {"none", "counted", "done"}

\* CSoftwareReconstructor::StartNewFrame on a picture that is not dropped.
OpenFrame ==
    /\ phase' = "slicing"
    /\ open' = TRUE
    /\ commits' = [r \in Rows |-> 0]
    /\ users' = [r \in Rows |-> 0]
    /\ stage' = [r \in Rows |-> "none"]
    /\ at' = [r \in Rows |-> 0]

\* ... and on one that is: frames are closed, the counts stay, and the slices
\* that follow are not dispatched.
CloseForDropped ==
    /\ phase' = "dropped"
    /\ open' = FALSE
    /\ UNCHANGED <<commits, users, stage, at>>

\* A picture start code: both joins, then StartNewFrame.
StartNewFrame ==
    /\ phase # "presented"
    /\ DigestFinished
    /\ ReconFinished
    /\ OpenFrame

StartDroppedFrame ==
    /\ phase # "presented"
    /\ DigestFinished
    /\ ReconFinished
    /\ CloseForDropped

\* ... or, if ParsePicture refuses it, no StartNewFrame: the slices that follow go
\* to the previous picture, even if it was shown and its work frames unlocked,
\* and its counts stay.
RefusePicture ==
    /\ phase \in {"idle", "slicing", "dropped"}
    /\ DigestFinished
    /\ ReconFinished
    /\ phase' = IF phase = "idle" THEN "slicing" ELSE phase
    /\ UNCHANGED <<open, commits, users, stage, at>>

\* A video synchronization: WaitForDigestFinish, then EmitFrame, where
\* PresentFrame unlocks the work frames.  On a picture that was shown already it
\* finds them unlocked.
PresentFrame ==
    /\ phase = "slicing"
    /\ DigestFinished
    /\ phase' = "presented"
    /\ open' = FALSE
    /\ UNCHANGED <<commits, users, stage, at>>

\* The rest of the video synchronization; a dropped frame is not presented.
WaitForFinish ==
    /\ phase \in {"presented", "dropped", "idle"}
    /\ ReconFinished
    /\ phase' = IF phase = "presented" THEN "idle" ELSE phase
    /\ UNCHANGED <<open, commits, users, stage, at>>

-----------------------------------------------------------------------------
Next ==
    \/ \E r \in Rows : CommitRow(r) \/ NotifyAvailable(r)
    \/ \E p \in Rows : Participate(p)
    \/ StartNewFrame
    \/ StartDroppedFrame
    \/ RefusePicture
    \/ PresentFrame
    \/ WaitForFinish

\* A deslicer that has incremented goes on to notify, and the pool runs every
\* participation it was asked for to its end.
Fairness ==
    \A r \in Rows : WF_vars(NotifyAvailable(r)) /\ WF_vars(Participate(r))

Spec == Init /\ [][Next]_vars /\ Fairness

-----------------------------------------------------------------------------
(* Properties.                                                             *)

\* Types; no more threads count themselves users of a row than participate.
TypeOK ==
    /\ phase \in Phases
    /\ open \in BOOLEAN
    /\ commits \in [Rows -> 0..MaxCommits]
    /\ users \in [Rows -> 0..NumRows]
    /\ stage \in [Rows -> Stages]
    /\ at \in [Rows -> Rows]

Has(p, r) == stage[p] \in {"working", "done"} /\ at[p] = r

Searching(p) == stage[p] \in {"looking", "claiming"}

Committed == {r \in Rows : commits[r] # 0}

\* Two threads never reconstruct the same row of a frame, and none reconstructs
\* a row that was not committed - in particular, not row 0 for want of another
\* row ("Check commit count, should be zero", MarkRowFinished, and "If this is
\* the first thread to work on this row, we're done", Participate).
RowsExclusive ==
    /\ \A p, q \in Rows, r \in Rows : Has(p, r) /\ Has(q, r) => p = q
    /\ \A p \in Rows, r \in Rows : Has(p, r) => r \in Committed

\* A thread in the search loop always has a row left to find at or after the
\* one it looks at, although others take rows ahead of it, and although rows it
\* has passed may be committed behind its back.
SearchSucceeds ==
    \A p \in Rows : Searching(p) =>
        \E r \in Committed : r >= at[p] /\ \A q \in Rows : ~Has(q, r)

\* When the pool has run dry and the main thread goes on, each committed row of
\* the frame has been reconstructed: one participation per committed row is
\* enough, whichever rows they find.
JoinMeansReconstructed ==
    ReconFinished /\ DigestFinished =>
        \A r \in Committed : \E p \in Rows : Has(p, r)

\* The participations that have come as far as row i are no more than the
\* committed rows from i on: the reason why the search succeeds.
Started(p) == stage[p] \in {"looking", "claiming", "working", "done"}
ReachedFrom(i)   == {p \in Rows : Started(p) /\ at[p] >= i}
CommittedFrom(i) == {r \in Committed : r >= i}

EnoughRowsAhead ==
    \A i \in Rows : Cardinality(ReachedFrom(i)) <= Cardinality(CommittedFrom(i))

\* Row jobs are a work pool for committed rows: each is reconstructed once and,
\* with a fair pool, in the end.
Pool == INSTANCE WorkPool WITH
    Tasks <- Rows,
    offered <- Committed,
    taken <- {r \in Rows : \E p \in Rows : Has(p, r)},
    finished <- {r \in Rows : \E p \in Rows : Has(p, r) /\ stage[p] = "done"}

ImplementsPool == Pool!Spec
=============================================================================
