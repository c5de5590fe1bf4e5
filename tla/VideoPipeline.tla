---------------------------- MODULE VideoPipeline ----------------------------
(***************************************************************************)
(* Threaded decoding of M1V/M2V video: the main thread feeds packets       *)
(* (lwmMovieState::DigestPacket, CVidStream::DigestDataPacket), the digest *)
(* pool runs slice jobs (SliceJobs), whose deslicers commit rows, and the  *)
(* recon pool runs row jobs (RowJobs).  The main thread's two joins are    *)
(* steps of their own here, in the order of the code.                      *)
(*                                                                         *)
(* A frame's slices are consecutive runs of macroblocks; slice s ends      *)
(* before macroblock SliceEnd[s].  A deslicer begins at the row its slice  *)
(* begins in, though, and nothing but the end of the frame holds it: a     *)
(* damaged slice may break off anywhere or run on over the next ones.      *)
(***************************************************************************)
EXTENDS Integers, FiniteSets, Sequences

CONSTANTS
    NumRows,      \* macroblock rows of a frame
    MBWidth,      \* m_mb_width
    SliceEnd,     \* per slice, the macroblock after its last one
    MaxDamage,    \* bound: slices of one frame that break off or run on
    MaxDirect,    \* bound: slices of one frame for which there is no memory
    MaxRefused    \* bound: pictures refused between two that are accepted

NumSlices == Len(SliceEnd)
Slices    == 1 .. NumSlices
NumMB     == NumRows * MBWidth

ASSUME PipelineAssumption ==
    /\ NumRows \in Nat \ {0}
    /\ MBWidth \in Nat \ {0}
    /\ SliceEnd \in Seq(1..NumMB) /\ Len(SliceEnd) > 0
    /\ SliceEnd[Len(SliceEnd)] = NumMB
    /\ \A s, t \in 1 .. Len(SliceEnd) : s < t => SliceEnd[s] < SliceEnd[t]
    /\ MaxDamage \in Nat /\ MaxDirect \in Nat /\ MaxRefused \in Nat

\* A slice's first macroblock, and the first that its deslicer handles: those of
\* the row before it are taken for skipped ones.
SliceFirst(s) == IF s = 1 THEN 0 ELSE SliceEnd[s - 1]
SliceStart(s) == SliceFirst(s) - (SliceFirst(s) % MBWidth)

VARIABLES
    main,       \* where the main thread is in DigestPacket
    refused,    \* pictures refused since the last one that was accepted
    sent,       \* slices of the current picture fed so far
    stack,      \* the slice of each job on the stack
    nextMB,     \* per slice, the next macroblock to be parsed
    marking,    \* per slice, the row its deslicer is about to notify of, or -1
    damaged,    \* slices that were abandoned
    overrun,    \* slices that ran on past their end
    direct,     \* slices digested by the main thread
    dispatcher, top, access, jobStage, jobAt,      \* SliceJobs
    phase, open, commits, users, rowStage, rowAt   \* RowJobs

sliceVars  == <<dispatcher, top, access, jobStage, jobAt>>
rowVars    == <<phase, open, commits, users, rowStage, rowAt>>
parseVars  == <<nextMB, marking, damaged, overrun>>
vars == <<main, refused, sent, stack, parseVars, direct, sliceVars, rowVars>>

S == INSTANCE SliceJobs WITH MaxJobs <- NumSlices, stage <- jobStage, at <- jobAt
R == INSTANCE RowJobs WITH MaxCommits <- NumSlices * (MaxRefused + 1),
                           stage <- rowStage, at <- rowAt

NoRow == -1

Init ==
    /\ main = "feed"
    /\ refused = 0
    /\ sent = 0
    /\ stack = <<>>
    /\ nextMB = [s \in Slices |-> SliceStart(s)]
    /\ marking = [s \in Slices |-> NoRow]
    /\ damaged = {} /\ overrun = {} /\ direct = {}
    /\ S!Init
    /\ R!Init

-----------------------------------------------------------------------------
(* The main thread between two packets.                                    *)

FeedSlice ==
    /\ main = "feed"
    /\ phase = "slicing"
    /\ dispatcher = "free"
    /\ sent < NumSlices
    /\ sent' = sent + 1

\* A slice packet for which the job's memory could be allocated.
DispatchJob ==
    /\ FeedSlice
    /\ S!PushJob
    /\ stack' = Append(stack, sent + 1)
    /\ UNCHANGED <<main, refused, parseVars, direct, rowVars>>

DispatchNotify ==
    /\ S!NotifyAvailable
    /\ UNCHANGED <<main, refused, sent, stack, parseVars, direct, rowVars>>

\* A slice packet for which it could not.
DigestDirectly ==
    /\ FeedSlice
    /\ Cardinality(direct) < MaxDirect
    /\ S!BeginDirectly
    /\ direct' = direct \cup {sent + 1}
    /\ UNCHANGED <<main, refused, stack, parseVars, rowVars>>

\* The main thread reads the next packet only when no dispatch is under way.
BeginPacket(kind) ==
    /\ main = "feed"
    /\ dispatcher = "free"
    /\ main' = kind
    /\ UNCHANGED <<refused, sent, stack, parseVars, direct, sliceVars, rowVars>>

\* Mutant: the reconstructor is joined, but not the digest.
PictureStartUnjoined ==
    /\ phase # "presented"
    /\ BeginPacket("picture: join recon")

\* A picture start code.
PictureStart ==
    /\ phase # "presented"
    /\ BeginPacket("picture: join digest")

\* A video synchronization, also the second of two.
VideoSync ==
    /\ phase \in {"idle", "slicing", "dropped"}
    /\ BeginPacket("sync: join digest")

\* Mutant: the jobs are destroyed without joining the pool.
DestroyJobsUnjoined(from, to) ==
    /\ main = from
    /\ main' = to
    /\ dispatcher = "free"
    /\ top' = 0
    /\ access' = [j \in S!Jobs |-> 0]
    /\ jobStage' = [j \in S!Jobs |-> "none"]
    /\ jobAt' = [j \in S!Jobs |-> 0]
    /\ stack' = <<>>
    /\ UNCHANGED <<refused, sent, parseVars, direct, dispatcher, rowVars>>

WaitForDigestFinish(from, to) ==
    /\ main = from
    /\ main' = to
    /\ S!WaitForDigestFinish
    /\ stack' = <<>>
    /\ UNCHANGED <<refused, sent, parseVars, direct, rowVars>>

\* The slices of the next picture are to come.
NewSlices ==
    /\ sent' = 0
    /\ nextMB' = [s \in Slices |-> SliceStart(s)]
    /\ marking' = [s \in Slices |-> NoRow]
    /\ damaged' = {} /\ overrun' = {} /\ direct' = {}

\* WaitForFinish and, the picture parsed, StartNewFrame.
JoinReconAndStart ==
    /\ main = "picture: join recon"
    /\ R!ReconFinished
    /\ main' = "feed"
    /\ R!OpenFrame \/ R!CloseForDropped
    /\ refused' = 0
    /\ NewSlices
    /\ UNCHANGED <<stack, sliceVars>>

\* WaitForFinish, and ParsePicture refuses the picture: its slices are dispatched
\* all the same.
RefusePicture ==
    /\ main = "picture: join recon"
    /\ R!RefusePicture
    /\ main' = "feed"
    /\ refused < MaxRefused
    /\ refused' = refused + 1
    /\ NewSlices
    /\ UNCHANGED <<stack, sliceVars>>

\* EmitFrame: a dropped frame is not presented, one shown before stays as it is.
EmitFrame ==
    /\ main = "sync: emit"
    /\ main' = "sync: join recon"
    /\ IF phase = "slicing" THEN R!PresentFrame ELSE UNCHANGED rowVars
    /\ UNCHANGED <<refused, sent, stack, parseVars, direct, sliceVars>>

\* Mutant: the frame is handed over without joining the reconstructor.
FinishSyncUnjoined ==
    /\ main = "sync: join recon"
    /\ main' = "feed"
    /\ phase' = IF phase = "presented" THEN "idle" ELSE phase
    /\ UNCHANGED <<refused, sent, stack, parseVars, direct, sliceVars, open, commits,
                   users, rowStage, rowAt>>

\* The reconstructor's join, and the result is returned to the player.
FinishSync ==
    /\ main = "sync: join recon"
    /\ main' = "feed"
    /\ R!WaitForFinish
    /\ UNCHANGED <<refused, sent, stack, parseVars, direct, sliceVars>>

MainThread ==
    \/ DispatchJob
    \/ DispatchNotify
    \/ DigestDirectly
    \/ PictureStart
    \/ VideoSync
    \/ WaitForDigestFinish("picture: join digest", "picture: join recon")
    \/ WaitForDigestFinish("sync: join digest", "sync: emit")
    \/ JoinReconAndStart
    \/ RefusePicture
    \/ EmitFrame
    \/ FinishSync

-----------------------------------------------------------------------------
(* Deslicing, in a thread of the digest pool or in the main thread.        *)

Digesting(s) ==
    \/ dispatcher = "digesting" /\ sent = s
    \/ \E p \in S!Jobs : jobStage[p] = "digesting" /\ stack[jobAt[p]] = s

\* What a deslicer is held by: the data that it has been given or, if that is
\* damaged, max_mb_addr.
Limit(s) == IF s \in overrun THEN NumMB ELSE SliceEnd[s]

Parsing(s) ==
    /\ Digesting(s)
    /\ marking[s] = NoRow
    /\ s \notin damaged
    /\ nextMB[s] < Limit(s)

LastOfRow(mb) == (mb + 1) % MBWidth = 0
RowOf(mb)     == mb \div MBWidth

\* Mutant: a row is marked when its last macroblock but one is reached.
ParseMacroBlockEarly(s) ==
    LET mb == nextMB[s] IN
    /\ Parsing(s)
    /\ nextMB' = [nextMB EXCEPT ![s] = mb + 1]
    /\ IF (mb + 2) % MBWidth = 0
       THEN /\ R!CommitRow(RowOf(mb))
            /\ marking' = [marking EXCEPT ![s] = IF commits[RowOf(mb)] = 0
                                                 THEN RowOf(mb) ELSE NoRow]
       ELSE UNCHANGED <<rowVars, marking>>
    /\ UNCHANGED <<main, refused, sent, stack, damaged, overrun, direct, sliceVars>>

\* One macroblock, a skipped one included; the row's last one commits it.
ParseMacroBlock(s) ==
    LET mb == nextMB[s] IN
    /\ Parsing(s)
    /\ nextMB' = [nextMB EXCEPT ![s] = mb + 1]
    /\ IF LastOfRow(mb)
       THEN /\ R!CommitRow(RowOf(mb))
            /\ marking' = [marking EXCEPT ![s] = IF commits[RowOf(mb)] = 0
                                                 THEN RowOf(mb) ELSE NoRow]
       ELSE UNCHANGED <<rowVars, marking>>
    /\ UNCHANGED <<main, refused, sent, stack, damaged, overrun, direct, sliceVars>>

MayBeDamaged(s) ==
    \/ s \in overrun
    \/ Cardinality(damaged \cup overrun) < MaxDamage

\* A bad macroblock ends the slice.
AbandonSlice(s) ==
    /\ Parsing(s)
    /\ MayBeDamaged(s)
    /\ damaged' = damaged \cup {s}
    /\ UNCHANGED <<main, refused, sent, stack, nextMB, marking, overrun, direct,
                   sliceVars, rowVars>>

\* A slice whose addresses are damaged goes on beyond its last macroblock.
RunOn(s) ==
    /\ Digesting(s)
    /\ marking[s] = NoRow
    /\ s \notin damaged
    /\ nextMB[s] = SliceEnd[s]
    /\ SliceEnd[s] < NumMB
    /\ s \notin overrun
    /\ MayBeDamaged(s)
    /\ overrun' = overrun \cup {s}
    /\ UNCHANGED <<main, refused, sent, stack, nextMB, marking, damaged, direct,
                   sliceVars, rowVars>>

NotifyRow(s) ==
    /\ marking[s] # NoRow
    /\ R!NotifyAvailable(marking[s])
    /\ marking' = [marking EXCEPT ![s] = NoRow]
    /\ UNCHANGED <<main, refused, sent, stack, nextMB, damaged, overrun, direct,
                   sliceVars>>

\* Mutant: an error does not end the slice's loop.
SliceEndedOnlyAtEnd(s) ==
    /\ marking[s] = NoRow
    /\ nextMB[s] = Limit(s)

SliceEnded(s) ==
    /\ marking[s] = NoRow
    /\ s \in damaged \/ nextMB[s] = Limit(s)

EndDirectly ==
    /\ S!EndDirectly
    /\ SliceEnded(sent)
    /\ UNCHANGED <<main, refused, sent, stack, parseVars, direct, rowVars>>

\* A thread of the digest pool.
DigestParticipate(p) ==
    /\ \/ S!Begin(p)
       \/ S!Claim(p)
       \/ S!Beaten(p)
       \/ S!EndDigest(p) /\ SliceEnded(stack[jobAt[p]])
    /\ UNCHANGED <<main, refused, sent, stack, parseVars, direct, rowVars>>

ReconParticipate(p) ==
    /\ R!Participate(p)
    /\ UNCHANGED <<main, refused, sent, stack, parseVars, direct, sliceVars>>

-----------------------------------------------------------------------------
Deslice(s) == ParseMacroBlock(s) \/ AbandonSlice(s) \/ RunOn(s) \/ NotifyRow(s)

Next ==
    \/ MainThread
    \/ \E s \in Slices : Deslice(s)
    \/ EndDirectly
    \/ \E p \in S!Jobs : DigestParticipate(p)
    \/ \E p \in R!Rows : ReconParticipate(p)

\* Threads that have work go on with it; the main thread gets through a packet
\* once it has begun it.
Fairness ==
    /\ WF_vars(DispatchNotify)
    /\ WF_vars(EndDirectly)
    /\ WF_vars(main # "feed" /\ MainThread)
    /\ \A s \in Slices : WF_vars(Deslice(s))
    /\ \A p \in S!Jobs : WF_vars(DigestParticipate(p))
    /\ \A p \in R!Rows : WF_vars(ReconParticipate(p))

Spec == Init /\ [][Next]_vars /\ Fairness

-----------------------------------------------------------------------------
(* Properties.                                                             *)

MainPlaces == {"feed", "picture: join digest", "picture: join recon",
               "sync: join digest", "sync: emit", "sync: join recon"}

\* Types of the variables that are not a component's, and the components' own.
TypeOK ==
    /\ main \in MainPlaces
    /\ refused \in 0..MaxRefused
    /\ sent \in 0..NumSlices
    /\ stack \in Seq(Slices) /\ Len(stack) = top
    /\ nextMB \in [Slices -> 0..NumMB]
    /\ marking \in [Slices -> R!Rows \cup {NoRow}]
    /\ damaged \subseteq Slices /\ overrun \subseteq Slices /\ direct \subseteq Slices
    /\ S!TypeOK /\ R!TypeOK

\* Some deslicer has been over it.
Parsed == {mb \in 0 .. NumMB - 1 : \E s \in Slices :
              SliceStart(s) <= mb /\ mb < nextMB[s]}

RowData(r) == {mb \in 0 .. NumMB - 1 : RowOf(mb) = r}

\* The deslicer of the slice that a macroblock belongs to has been over it.
ParsedByItsSlice(mb) ==
    \A s \in Slices : SliceFirst(s) <= mb /\ mb < SliceEnd[s] => mb < nextMB[s]

Complete(r) ==
    /\ RowData(r) \subseteq Parsed
    /\ overrun = {} => \A mb \in RowData(r) : ParsedByItsSlice(mb)

\* A row is reconstructed only after all of its macroblocks have been parsed, each
\* by the slice it belongs to unless another one ran on over it: "MarkRowFinished
\* is called by deslicer threads when it all data for a row is available" (GPU
\* Decoding Porting Guide).
RowDataComplete ==
    \A p \in R!Rows : rowStage[p] = "working" => Complete(rowAt[p])

\* When a video synchronization is returned to the player, every row that the
\* slices went over to its end has been reconstructed, no thread of either pool is
\* still on the frame, and none of its work frames is left locked.  So it is, too,
\* after a picture that is dropped.  The state is well formed.
FrameReady ==
    /\ TypeOK
    /\ phase \in {"idle", "dropped"} =>
        /\ ~open
        /\ \A p \in R!Rows : rowStage[p] \in {"none", "done"}
        /\ \A p \in S!Jobs : jobStage[p] = "none"
    /\ phase = "idle" =>
        /\ \A r \in R!Rows : RowData(r) \subseteq Parsed =>
               \E p \in R!Rows : R!Has(p, r)

\* The main thread's joins, in the order in which it makes them, are what the
\* row jobs rely on: counts are reset only when nobody uses them, and no row is
\* committed after the frame was presented.  The pools stay fair as well.
ImplementsRowJobs == R!Spec

ImplementsSliceJobs == S!Spec

\* Every packet is got through: the two joins never wait for each other.
PacketsFinish == main # "feed" ~> main = "feed"
=============================================================================
