---------------------------- MODULE RGBConverter ----------------------------
(***************************************************************************)
(* lwmVideoRGBConverter (src/lwmovie/lwmovie_exportpixels.cpp): converts   *)
(* the current work frame to RGB, cut into blocks of rows that threads of  *)
(* a work notifier take by incrementing one counter.                       *)
(*                                                                         *)
(* A row of output is what it was converted from: the frame, the luma row, *)
(* and the chroma row that weighs most (near) and least (far) in it, which *)
(* are the same when nothing is interpolated.  Pitches are in units of the *)
(* provider's pitch, so that addresses are row numbers.                    *)
(***************************************************************************)
EXTENDS Integers, FiniteSets

CONSTANTS
    Heights,        \* output heights
    MaxSlices,      \* bound: numSlices the application asks for
    GarbagePitches  \* bound: what the pitch of a new block may happen to be

ASSUME RGBAssumption ==
    /\ Heights \subseteq Nat \ {0}
    /\ MaxSlices \in Nat \ {0}
    /\ GarbagePitches \subseteq Int

VARIABLES
    conv,       \* the converter: height, workBlockRowCount, numBlocks, is444
    pitch,      \* per block, m_yPitch (and m_uPitch, m_vPitch)
    origin,     \* per block, the rows m_yPlane and m_uPlane/m_vPlane point to
    highQuality,
    counter,    \* currentRowIndex
    notified,   \* participations asked for in this conversion
    stage,      \* per participation, how far it is
    block,      \* per participation, the block it took; -1: none yet
    main,       \* what lwmVideoRGBConverter_Convert is doing
    turn,       \* the block it processes itself, without a work notifier
    frame,      \* which frame is current, modulo 2
    out         \* outPixels, row by row

poolState == <<counter, notified, stage, block>>
vars == <<conv, pitch, origin, highQuality, poolState, main, turn, frame, out>>

-----------------------------------------------------------------------------
(* lwmVideoRGBConverter_CreateSliced.                                      *)

EvenUp(n) == n + (n % 2)
CeilDiv(a, b) == (a + b - 1) \div b

WorkBlockRowCount(height, numSlices) == EvenUp(CeilDiv(height, numSlices))

Created(height, numSlices, is444) ==
    LET rowCount == WorkBlockRowCount(height, numSlices)
    IN [height |-> height, rowCount |-> rowCount,
        numBlocks |-> CeilDiv(height, rowCount), is444 |-> is444]

Blocks == 0 .. conv.numBlocks - 1
Participations == 1 .. conv.numBlocks

TopOpen(b) == b # 0

OutHeight(b) ==
    IF b = conv.numBlocks - 1 THEN conv.height - b * conv.rowCount
    ELSE conv.rowCount

BottomOpen(b) == b # conv.numBlocks - 1 \/ OutHeight(b) # conv.rowCount

NoRow == [frame |-> 2, y |-> -1, near |-> -1, far |-> -1]

Init ==
    /\ conv \in {Created(h, n, f) : h \in Heights, n \in 1 .. MaxSlices, f \in BOOLEAN}
    /\ pitch \in [Blocks -> GarbagePitches]
    /\ origin = [b \in Blocks |-> 0]
    /\ highQuality = FALSE
    /\ counter = 0
    /\ notified = 0
    /\ stage = [p \in Participations |-> "none"]
    /\ block = [p \in Participations |-> -1]
    /\ main = "idle"
    /\ turn = 0
    /\ frame = 0
    /\ out = [r \in 0 .. conv.height - 1 |-> NoRow]

-----------------------------------------------------------------------------
(* lwmRGBConverterBlock::Process.                                          *)

\* Mutant: an even row is mixed with the chroma row after it.
ChromaDownwards(b, r) ==
    IF conv.is444 THEN <<r, r>>
    ELSE IF highQuality /\ 0 < r /\ r < OutHeight(b) - 1
         THEN <<r \div 2, r \div 2 + 1>>
         ELSE <<r \div 2, r \div 2>>

\* The near and far chroma rows, relative to the block's first, of its row r.
\* The rows between the first and the last go in pairs (1 and 2, 3 and 4, ...),
\* each pair between two chroma rows.
Chroma(b, r) ==
    LET own == <<r \div 2, r \div 2>>
        below == r \div 2 + 1
        top == r = 0
        bottom == r = OutHeight(b) - 1 /\ r % 2 = 1
    IN CASE conv.is444 -> <<r, r>>
         [] ~conv.is444 /\ ~highQuality -> own
         [] ~conv.is444 /\ highQuality /\ top ->
                IF TopOpen(b) THEN <<-1, 0>> ELSE own
         [] ~conv.is444 /\ highQuality /\ bottom ->
                IF BottomOpen(b) THEN <<below, r \div 2>> ELSE own
         [] ~conv.is444 /\ highQuality /\ ~top /\ ~bottom ->
                IF r % 2 = 1 THEN <<r \div 2, below>> ELSE <<r \div 2, r \div 2 - 1>>

\* Every block's m_outInterleaved is outPixels.
Process(b) ==
    [r \in DOMAIN out |->
        IF r < OutHeight(b)
        THEN [frame |-> frame, y |-> origin[b] + r,
              near |-> origin[b] + Chroma(b, r)[1],
              far |-> origin[b] + Chroma(b, r)[2]]
        ELSE out[r]]

-----------------------------------------------------------------------------
(* lwmVideoRGBConverter_Convert.  The frame provider's lock keeps the frame *)
(* from changing until it returns.                                         *)

\* The planes are set from the pitch of the last conversion, and then the pitch.
PrepareBlocks ==
    /\ origin' = [b \in Blocks |-> pitch[b] * (b * conv.rowCount)]
    /\ pitch' = [b \in Blocks |-> 1]

\* With a work notifier.
BeginConvert(hq) ==
    /\ main = "idle"
    /\ PrepareBlocks
    /\ highQuality' = hq
    /\ counter' = 0
    /\ notified' = 0
    /\ stage' = [p \in Participations |-> "none"]
    /\ block' = [p \in Participations |-> -1]
    /\ main' = "notifying"
    /\ UNCHANGED <<conv, turn, frame, out>>

NotifyAvailable ==
    /\ main = "notifying"
    /\ notified < conv.numBlocks
    /\ notified' = notified + 1
    /\ stage' = [stage EXCEPT ![notified + 1] = "queued"]
    /\ UNCHANGED <<conv, pitch, origin, highQuality, counter, block, main, turn, frame, out>>

Joined == \A p \in Participations : stage[p] \in {"none", "done"}

\* Mutant: the join does not wait for a participation that is under way.
JoinWithoutWaiting ==
    /\ main = "notifying"
    /\ notified = conv.numBlocks
    /\ \A p \in Participations : stage[p] # "queued"
    /\ main' = "idle"
    /\ UNCHANGED <<conv, pitch, origin, highQuality, poolState, turn, frame, out>>

Join ==
    /\ main = "notifying"
    /\ notified = conv.numBlocks
    /\ Joined
    /\ main' = "idle"
    /\ UNCHANGED <<conv, pitch, origin, highQuality, poolState, turn, frame, out>>

\* Without a work notifier the blocks are processed in turn.
BeginConvertDirectly(hq) ==
    /\ main = "idle"
    /\ PrepareBlocks
    /\ highQuality' = hq
    /\ main' = "in turn"
    /\ turn' = 0
    /\ UNCHANGED <<conv, poolState, frame, out>>

ProcessInTurn ==
    /\ main = "in turn"
    /\ out' = Process(turn)
    /\ IF turn + 1 \in Blocks THEN turn' = turn + 1 /\ UNCHANGED main
       ELSE main' = "idle" /\ UNCHANGED turn
    /\ UNCHANGED <<conv, pitch, origin, highQuality, poolState, frame>>

\* The player decodes the next frame between conversions.
NextFrame ==
    /\ main = "idle"
    /\ frame' = 1 - frame
    /\ out' = [r \in DOMAIN out |-> NoRow]
    /\ UNCHANGED <<conv, pitch, origin, highQuality, poolState, main, turn>>

-----------------------------------------------------------------------------
(* lwmVideoRGBConverter_ConvertParticipate, in a thread of the pool.       *)

others == <<conv, pitch, origin, highQuality, notified, main, turn, frame>>

\* Mutant: the counter is read, and written back later.
TakeBlockUnlocked(p) ==
    \/ /\ stage[p] = "queued"
       /\ block' = [block EXCEPT ![p] = counter]
       /\ stage' = [stage EXCEPT ![p] = "reading"]
       /\ UNCHANGED <<counter, out, others>>
    \/ /\ stage[p] = "reading"
       /\ counter' = block[p] + 1
       /\ stage' = [stage EXCEPT ![p] = "taken"]
       /\ UNCHANGED <<block, out, others>>

\* Mutant: the last block is taken for one past the end.
TakeBlockButLast(p) ==
    /\ stage[p] = "queued"
    /\ counter < conv.numBlocks - 1
    /\ counter' = counter + 1
    /\ block' = [block EXCEPT ![p] = counter]
    /\ stage' = [stage EXCEPT ![p] = "taken"]
    /\ UNCHANGED <<out, others>>

TakeBlock(p) ==
    /\ stage[p] = "queued"
    /\ counter' = counter + 1
    /\ block' = [block EXCEPT ![p] = counter]
    /\ stage' = [stage EXCEPT ![p] = "taken"]
    /\ UNCHANGED <<out, others>>

ProcessBlock(p) ==
    /\ stage[p] = "taken"
    /\ out' = Process(block[p])
    /\ stage' = [stage EXCEPT ![p] = "done"]
    /\ UNCHANGED <<counter, block, others>>

Participate(p) == TakeBlock(p) \/ ProcessBlock(p)

Next ==
    \/ \E hq \in BOOLEAN : BeginConvert(hq) \/ BeginConvertDirectly(hq)
    \/ NotifyAvailable
    \/ Join
    \/ ProcessInTurn
    \/ NextFrame
    \/ \E p \in Participations : Participate(p)

\* Threads that have work go on, and Convert does not stop halfway.
Fairness ==
    /\ WF_vars(NotifyAvailable)
    /\ WF_vars(Join)
    /\ WF_vars(ProcessInTurn)
    /\ \A p \in 1 .. MaxSlices : WF_vars(p \in Participations /\ Participate(p))

Spec == Init /\ [][Next]_vars /\ Fairness

-----------------------------------------------------------------------------
(* Properties.                                                             *)

\* Types; the counter, which is an index into the blocks, never exceeds them, and
\* no participation is given a block that does not exist.
TypeOK ==
    /\ main \in {"idle", "notifying", "in turn"}
    /\ turn \in Blocks
    /\ notified \in 0 .. conv.numBlocks
    /\ counter \in 0 .. notified
    /\ stage \in [Participations -> {"none", "queued", "taken", "done"}]
    /\ block \in [Participations -> Blocks \cup {-1}]

Took(p, b) == stage[p] \in {"taken", "done"} /\ block[p] = b

\* No block is converted by two threads, whatever the order in which they come.
BlocksExclusive ==
    \A p, q \in Participations : \A b \in Blocks : Took(p, b) /\ Took(q, b) => p = q

\* When Convert returns to the player no thread is still writing to its pixels,
\* and every block has been converted.
JoinMeansConverted ==
    main = "idle" =>
        /\ Joined
        /\ notified # 0 => \A b \in Blocks : \E p \in Participations : Took(p, b)

\* What a row of the whole frame is converted from: its own luma row; its own
\* chroma row, interpolated with the nearest other one when there is one and the
\* player asks for high quality.
Expected(r) ==
    LET own == IF conv.is444 THEN r ELSE r \div 2
        other == IF r % 2 = 0 THEN own - 1 ELSE own + 1
        mixed == highQuality /\ ~conv.is444 /\ r # 0 /\ ~(r = conv.height - 1 /\ r % 2 = 1)
    IN [frame |-> frame, y |-> r, near |-> own, far |-> IF mixed THEN other ELSE own]

Untouched == \A r \in DOMAIN out : out[r] = NoRow

RowsConverted ==
    main = "idle" => Untouched \/ \A r \in DOMAIN out : out[r] = Expected(r)

\* With one block every row of the picture is converted, from its own rows of
\* the current frame.
WholeFrameConverted == conv.numBlocks = 1 => RowsConverted

\* Convert returns.
ConversionFinishes == main # "idle" ~> main = "idle"
=============================================================================
