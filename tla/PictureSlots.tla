----------------------------- MODULE PictureSlots -----------------------------
(***************************************************************************)
(* Which work frame a picture of an M1V/M2V video is decoded into, which   *)
(* frames it is predicted from and which frame is shown when.              *)
(*                                                                         *)
(*   - lwmux (ConvertMPEGVideo) writes the pictures in coded order and     *)
(*     puts a video synchronization where a frame is due for display;      *)
(*   - CVidStream (ParsePicture, EmitFrame) keeps the slots m_future,      *)
(*     m_past, m_current and m_outputSlot and may drop pictures;           *)
(*   - the reconstructor (StartNewFrame, PresentFrame) uses the work       *)
(*     frames of these slots.                                              *)
(*                                                                         *)
(* As in the code, the "future" frame is the earlier of the two reference  *)
(* frames, from which forward prediction is made, and "past" the later.    *)
(* A picture is named by its position in coded order; its slices follow    *)
(* its header and are part of the step.                                    *)
(***************************************************************************)
EXTENDS Integers, Sequences

CONSTANTS
    MaxPictures,   \* bound: pictures of a movie
    Levels,        \* drop aggressiveness levels the player sets
    MaxChanges     \* bound: how often it sets one

\* lwmEDropAggressiveness
None == 0
DropB == 1
DropBP == 2
DropBPI == 3
DropAll == 4

ASSUME SlotsAssumption ==
    /\ MaxPictures \in Nat \ {0}
    /\ Levels \subseteq None .. DropAll
    /\ MaxChanges \in Nat

VARIABLES
    movie,          \* picture types in coded order
    digested,       \* pictures digested so far
    emitted,        \* video synchronizations since the last picture
    period,         \* video synchronizations so far
    stopped,        \* the application took a digest error for the end
    future, past, current, outputSlot,
    aggressiveness, \* m_dropAggressiveness
    changes,        \* how often the player has set it
    frames,         \* per work frame, the picture it holds
    locked,         \* slots whose work frames are locked
    shown,          \* m_outputTarget, as a slot
    decoded,        \* history: pictures that were not dropped
    spoilt          \* history: slices of a refused picture went to another's frame

slots == <<future, past, current, outputSlot>>
vars  == <<movie, digested, emitted, period, stopped, slots, aggressiveness,
           changes, frames, locked, shown, decoded, spoilt>>

RefFrames  == {"IP1", "IP2"}
WorkFrames == RefFrames \cup {"B"}
Dropped    == {"Dropped_IP", "Dropped_B"}
Slots      == {"Unassigned"} \cup WorkFrames \cup Dropped

\* Coded orders: the first picture is an I picture.
Movies == {m \in UNION {[1..n -> {"I", "P", "B"}] : n \in 1..MaxPictures} :
              m[1] = "I"}

IsRef(i) == movie[i] # "B"

\* Mutant: the header is not revised when B pictures are found.
ProvidedUnrevised == RefFrames

\* Frames the provider was asked for (numReadWriteWorkFrames is 2, and
\* numWriteOnlyWorkFrames is 1 if the converter saw a B picture).
Provided == IF \E i \in DOMAIN movie : ~IsRef(i) THEN WorkFrames ELSE RefFrames

Init ==
    /\ movie \in Movies
    /\ digested = 0
    /\ emitted = 0
    /\ period = 0
    /\ stopped = FALSE
    /\ future = "Unassigned"
    /\ past = "Unassigned"
    /\ current = "Unassigned"
    /\ outputSlot = "Unassigned"
    /\ aggressiveness = None
    /\ changes = 0
    /\ frames = [f \in WorkFrames |-> [pic |-> 0, intact |-> FALSE]]
    /\ locked = {}
    /\ shown = "Unassigned"
    /\ decoded = {}
    /\ spoilt = FALSE

-----------------------------------------------------------------------------
(* The converter.                                                          *)

\* How many synchronizations follow the i-th picture: a reference picture is
\* due when the next one comes, after the B pictures between them.
SyncsAfter(i) ==
    LET lastOfRun == i = Len(movie) \/ IsRef(i + 1) IN
    IF i = 0 THEN 0
    ELSE IF IsRef(i) THEN IF lastOfRun THEN 1 ELSE 0
    ELSE IF lastOfRun THEN 2 ELSE 1

PictureIsNext ==
    /\ ~stopped
    /\ digested < Len(movie)
    /\ emitted = SyncsAfter(digested)

SyncIsNext ==
    /\ ~stopped
    /\ emitted < SyncsAfter(digested)

-----------------------------------------------------------------------------
(* A picture header: ParsePicture and, if it succeeds, StartNewFrame.      *)

OtherFrame(slot) == IF slot = "IP1" THEN "IP2" ELSE "IP1"

SlotFor(level, slot) ==
    IF aggressiveness >= level THEN "Dropped_IP" ELSE OtherFrame(slot)

\* Nothing to predict from: PARSE_SKIP_PICTURE.
Refused(type) ==
    \/ type = "B" /\ (future = "Unassigned" \/ past = "Unassigned")
    \/ type = "P" /\ future = "Unassigned"

PlaceB ==
    LET slot == IF aggressiveness < DropB THEN "B" ELSE "Dropped_B" IN
    /\ current' = slot
    /\ outputSlot' = slot
    /\ UNCHANGED <<future, past>>

\* Mutant: the earlier reference stays the earlier one.
PlaceIKeepingFuture ==
    LET slot == SlotFor(DropBPI, future) IN
    /\ future' = IF future = "Unassigned" THEN slot ELSE future
    /\ past' = IF future = "Unassigned" THEN past ELSE slot
    /\ current' = slot
    /\ outputSlot' = slot

PlaceI ==
    LET first  == future = "Unassigned"
        second == ~first /\ past = "Unassigned"
        before == IF first \/ second THEN future ELSE past
        slot   == SlotFor(DropBPI, before)
    IN
    /\ future' = IF first THEN slot ELSE before
    /\ past' = IF first THEN past ELSE slot
    /\ current' = slot
    /\ outputSlot' = slot

\* Mutant: the earlier frame is still predicted from.
PlacePKeepingFuture ==
    LET slot == SlotFor(DropBP, future) IN
    /\ past' = slot
    /\ current' = slot
    /\ outputSlot' = slot
    /\ UNCHANGED future

PlaceP ==
    LET before == IF past = "Unassigned" THEN future ELSE past
        slot   == IF before = "Dropped_IP" THEN "Dropped_IP"
                                           ELSE SlotFor(DropBP, before)
    IN
    IF future = "Dropped_IP"
    THEN /\ future' = "Dropped_IP"
         /\ past' = "Dropped_IP"
         /\ current' = "Dropped_IP"
         /\ UNCHANGED outputSlot
    ELSE /\ future' = before
         /\ past' = slot
         /\ current' = slot
         /\ outputSlot' = slot

Place(type) ==
    \/ type = "I" /\ PlaceI
    \/ type = "P" /\ PlaceP
    \/ type = "B" /\ PlaceB

\* The latest reference picture before picture i, 0 for none.
RefsBefore(i) == {j \in 1 .. i - 1 : IsRef(j)}
LatestOf(refs) ==
    IF refs = {} THEN 0 ELSE CHOOSE j \in refs : \A k \in refs : k <= j
RefBefore(i) == LatestOf(RefsBefore(i))

Holds(slot, i) == slot \in WorkFrames /\ frames[slot] = [pic |-> i, intact |-> TRUE]

\* The picture's frame will be right if it is predicted from the right pictures,
\* none of them in the frame that is being written.
PredictedRight(i) ==
    CASE movie[i] = "I" -> TRUE
      [] movie[i] = "P" -> /\ Holds(future', RefBefore(i))
                           /\ current' # future'
      [] movie[i] = "B" -> /\ Holds(past', RefBefore(i))
                           /\ Holds(future', RefBefore(RefBefore(i)))
                           /\ current' \notin {past', future'}

\* A dropped picture's slices are ignored.
StartNewFrame(i) ==
    IF current' \in Dropped
    THEN /\ locked' = {}
         /\ UNCHANGED <<frames, decoded>>
    ELSE /\ locked' = {current', future', past'} \ {"Unassigned"}
         /\ frames' = [frames EXCEPT ![current'] =
                          [pic |-> i, intact |-> PredictedRight(i)]]
         /\ decoded' = decoded \cup {i}

DigestPicture ==
    LET i == digested + 1 IN
    /\ PictureIsNext
    /\ ~Refused(movie[i])
    /\ Place(movie[i])
    /\ StartNewFrame(i)
    /\ digested' = i
    /\ emitted' = 0
    /\ UNCHANGED <<movie, period, stopped, aggressiveness, changes, shown, spoilt>>

\* No new frame is started for a refused picture: its slices go where those of the
\* picture before it went, as predicted from the references of that one.
RefusedSlices ==
    /\ spoilt' = (spoilt \/ current \notin Dropped)
    /\ IF current \in WorkFrames
       THEN \E intact \in {FALSE, frames[current].intact} :
               frames' = [frames EXCEPT ![current] = [@ EXCEPT !.intact = intact]]
       ELSE UNCHANGED frames

\* The result is lwmDIGEST_Error.  An application may stop there, as lwmCake does;
\* for the movie state, whose demultiplexer expects the next packet, decoding can
\* go on.
SkipPicture ==
    LET i == digested + 1 IN
    /\ PictureIsNext
    /\ Refused(movie[i])
    /\ \/ /\ stopped' = TRUE
          /\ UNCHANGED <<digested, emitted, frames, spoilt>>
       \/ /\ digested' = i
          /\ emitted' = 0
          /\ RefusedSlices
          /\ UNCHANGED stopped
    /\ UNCHANGED <<movie, period, slots, aggressiveness, changes, locked, shown,
                   decoded>>

-----------------------------------------------------------------------------
\* Mutant: the slot to be shown is not advanced.
EmitFrameStuck ==
    /\ IF current \notin Dropped
       THEN shown' = outputSlot /\ locked' = {}
       ELSE UNCHANGED <<shown, locked>>
    /\ UNCHANGED outputSlot

\* EmitFrame: the reference picture coded before a B picture is due next.
EmitFrame ==
    /\ IF current \notin Dropped
       THEN shown' = outputSlot /\ locked' = {}
       ELSE UNCHANGED <<shown, locked>>
    /\ outputSlot' = IF outputSlot \in {"B", "Dropped_B"} THEN past ELSE outputSlot

VideoSynchronization ==
    /\ SyncIsNext
    /\ EmitFrame
    /\ emitted' = emitted + 1
    /\ period' = period + 1
    /\ UNCHANGED <<movie, digested, stopped, future, past, current,
                   aggressiveness, changes, frames, decoded, spoilt>>

SetDropAggressiveness(level) ==
    /\ changes < MaxChanges
    /\ changes' = changes + 1
    /\ aggressiveness' = level
    /\ UNCHANGED <<movie, digested, emitted, period, stopped, slots, frames,
                   locked, shown, decoded, spoilt>>

Next ==
    \/ DigestPicture
    \/ SkipPicture
    \/ VideoSynchronization
    \/ \E level \in Levels : SetDropAggressiveness(level)

Spec == Init /\ [][Next]_vars

-----------------------------------------------------------------------------
(* Properties.                                                             *)

\* Types; only reference slots hold references.
TypeOK ==
    /\ movie \in Movies
    /\ digested \in 0 .. Len(movie) /\ emitted \in 0..2 /\ period \in Nat
    /\ stopped \in BOOLEAN /\ spoilt \in BOOLEAN
    /\ {future, past} \subseteq {"Unassigned", "Dropped_IP"} \cup RefFrames
    /\ {current, outputSlot, shown} \subseteq Slots
    /\ aggressiveness \in None .. DropAll /\ changes \in 0..MaxChanges
    /\ frames \in [WorkFrames -> [pic : 0..MaxPictures, intact : BOOLEAN]]
    /\ locked \subseteq Slots
    /\ decoded \subseteq 1..digested

\* Where picture i comes in display order: a B picture overtakes the reference
\* picture coded before it, which in turn waits for the next reference.
DisplayPosition(i) ==
    IF IsRef(i)
    THEN LET later == {j \in i + 1 .. Len(movie) : IsRef(j)} IN
         IF later = {} THEN Len(movie)
         ELSE (CHOOSE j \in later : \A k \in later : j <= k) - 1
    ELSE i - 1

JustSynchronized == ~stopped /\ emitted > 0

\* The picture in display order that belongs to the last synchronization.
Due == CHOOSE i \in DOMAIN movie : DisplayPosition(i) = period

\* At the k-th synchronization the frame shown holds the k-th picture in display
\* order, predicted from the right references: the synchronizations the
\* converter places and the slots the decoder turns over agree, for every
\* arrangement of picture types, as long as the player drops nothing and the
\* slices of no refused picture have gone to the frame of another.
ShownInOrder == changes = 0 /\ ~spoilt /\ JustSynchronized => Holds(shown, Due)

\* Whatever the player drops and when: an I or P picture that is decoded is
\* decoded from the intact reference picture that precedes it, as long as the
\* slices of no refused picture have gone to the frame of another.
ReferencesIntact ==
    ~spoilt => \A f \in RefFrames : frames[f].pic # 0 => frames[f].intact

\* A P picture is dropped only while the player asks for it or if one of the two
\* reference pictures before it was.
TwoReferencesRecover ==
    [][LET i == digested + 1 IN
       DigestPicture /\ movie[i] = "P" /\ aggressiveness < DropBP =>
           \/ i \in decoded'
           \/ ~({RefBefore(i), RefBefore(RefBefore(i))} \ {0} \subseteq decoded)
      ]_vars

\* As long as nothing is dropped, the work frames that are locked or shown are
\* among those that the file's header asked for.
FramesExist ==
    changes = 0 => locked \cup ({shown} \ {"Unassigned"}) \subseteq Provided

\* "Dropping a B-frame will never cause any other frames to be dropped"
\* (Decoding.txt:110): an I or P picture is shown when it is due.
OnlyBDropped ==
    ~spoilt /\ JustSynchronized /\ IsRef(Due) => Holds(shown, Due)

\* "P-frames will cause all subsequent P and B frames to be dropped until an I
\* frame is reached" (Decoding.txt:111): a P picture right after an I picture
\* that was decoded is not dropped, unless the player asks for it.
RecoversAtI ==
    [][LET i == digested + 1 IN
       DigestPicture /\ movie[i] = "P" /\ movie[i - 1] = "I" /\ i - 1 \in decoded
         /\ aggressiveness = None => i \in decoded'
      ]_vars
=============================================================================
