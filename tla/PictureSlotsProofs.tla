-------------------------- MODULE PictureSlotsProofs --------------------------
(***************************************************************************)
(* For movies of any length, any arrangement of picture types and any use  *)
(* of frame dropping: no I or P picture is decoded from a wrong reference. *)
(* And of movies of which nothing is dropped: pictures are shown in        *)
(* display order, in frames that were created.  Contents and order are     *)
(* those of movies in which no slices of a refused picture have gone to    *)
(* another's frame (~spoilt).                                              *)
(*                                                                         *)
(* ReferencesIntact is not inductive: it does not say which picture a slot *)
(* refers to. The strengthening says that the later of the references, if  *)
(* it was not dropped, is the latest reference picture, which is what the  *)
(* next P picture is predicted from.  For the display order, ShownInv says *)
(* which picture each slot holds, and the lemmas before it which picture   *)
(* is due where a run of B pictures ends and where it goes on.             *)
(***************************************************************************)
EXTENDS PictureSlots, WellFoundedInduction, TLAPS

\* The slot of the latest reference picture.
LaterRef == IF past = "Unassigned" THEN future ELSE past

IndInv ==
    /\ TypeOK
    /\ ReferencesIntact
    /\ LaterRef \in RefFrames /\ ~spoilt => Holds(LaterRef, RefBefore(digested + 1))
    /\ future = "Unassigned" => past = "Unassigned"
    /\ digested > 0 => future # "Unassigned"

-----------------------------------------------------------------------------
(* The latest reference picture before a picture.                          *)

\* After a reference picture, it is the latest.
LEMMA RefBeforeNext ==
    ASSUME NEW i \in Nat \ {0}, IsRef(i)
    PROVE  RefBefore(i + 1) = i
<1>1. i \in RefsBefore(i + 1)
  BY DEF RefsBefore
<1>2. \A k \in RefsBefore(i + 1) : k \in Nat /\ k <= i
  BY DEF RefsBefore
<1>3. \A j \in RefsBefore(i + 1) : (\A k \in RefsBefore(i + 1) : k <= j) => j = i
  BY <1>1, <1>2
<1>4. (CHOOSE j \in RefsBefore(i + 1) : \A k \in RefsBefore(i + 1) : k <= j) = i
  BY <1>1, <1>2, <1>3
<1>. QED
  BY <1>1, <1>4 DEF RefBefore, LatestOf

\* A B picture does not change it.
LEMMA RefBeforeSame ==
    ASSUME NEW i \in Nat \ {0}, ~IsRef(i)
    PROVE  RefBefore(i + 1) = RefBefore(i)
<1>1. \A j : j \in 1 .. (i + 1) - 1 <=> j \in 1 .. i - 1 \/ j = i
  OBVIOUS
<1>2. RefsBefore(i + 1) = RefsBefore(i)
  BY <1>1, Zenon DEF RefsBefore
<1>. QED
  BY <1>2 DEF RefBefore

-----------------------------------------------------------------------------
LEMMA MoviesTyped ==
    ASSUME movie \in Movies
    PROVE  /\ Len(movie) \in 0 .. MaxPictures
           /\ \A i \in 1 .. Len(movie) : movie[i] \in {"I", "P", "B"}
<1>1. PICK n \in 1 .. MaxPictures : movie \in [1 .. n -> {"I", "P", "B"}]
  BY DEF Movies
<1>2. movie \in Seq({"I", "P", "B"}) /\ Len(movie) = n
  BY <1>1, SlotsAssumption
<1>. QED
  BY <1>1, <1>2, SlotsAssumption

LEMMA InitInv == Init => IndInv
<1>. SUFFICES ASSUME Init PROVE IndInv
  OBVIOUS
<1>1. TypeOK
  <2>1. frames \in [WorkFrames -> [pic : 0..MaxPictures, intact : BOOLEAN]]
    BY SlotsAssumption DEF Init
  <2>2. Len(movie) \in Nat
    BY MoviesTyped, SlotsAssumption DEF Init
  <2>3. stopped \in BOOLEAN /\ spoilt \in BOOLEAN
    BY Zenon DEF Init
  <2>. QED
    BY <2>1, <2>2, <2>3, SlotsAssumption
    DEF Init, TypeOK, None, DropAll, Slots
<1>2. ReferencesIntact
  BY DEF Init, ReferencesIntact, RefFrames, WorkFrames
<1>3. LaterRef \notin RefFrames
  BY DEF Init, LaterRef, RefFrames
<1>. QED
  BY <1>1, <1>2, <1>3 DEF IndInv, Init

\* What placing a picture does to the slots.
LEMMA PlaceSlots ==
    ASSUME TypeOK, NEW type \in {"I", "P", "B"}, ~Refused(type), Place(type)
    PROVE  /\ {future', past'} \subseteq {"Unassigned", "Dropped_IP"} \cup RefFrames
           /\ {current', outputSlot'} \subseteq Slots
           /\ current' \in Dropped \cup WorkFrames
           /\ future' # "Unassigned"
<1>1. CASE type = "I"
  BY <1>1 DEF TypeOK, Place, PlaceI, SlotFor, OtherFrame, RefFrames, WorkFrames, Dropped, Slots
<1>2. CASE type = "P"
  BY <1>2 DEF TypeOK, Refused, Place, PlaceP, SlotFor, OtherFrame, RefFrames, WorkFrames, Dropped, Slots
<1>3. CASE type = "B"
  BY <1>3 DEF TypeOK, Refused, Place, PlaceB, RefFrames, WorkFrames, Dropped, Slots
<1>. QED
  BY <1>1, <1>2, <1>3
-----------------------------------------------------------------------------
\* What becomes of the picture's frame.
LEMMA FrameOfPicture ==
    ASSUME TypeOK, NEW i \in 1 .. Len(movie), current' \in Dropped \cup WorkFrames,
           StartNewFrame(i), {future', past'} \subseteq Slots
    PROVE  /\ frames' \in [WorkFrames -> [pic : 0..MaxPictures, intact : BOOLEAN]]
           /\ \A f \in WorkFrames : f # current' => frames'[f] = frames[f]
           /\ current' \in WorkFrames /\ PredictedRight(i)
                => frames'[current'] = [pic |-> i, intact |-> TRUE]
           /\ locked' \subseteq Slots
           /\ decoded' \subseteq decoded \cup {i}
<1>. DEFINE new == [pic |-> i, intact |-> PredictedRight(i)]
<1>1. CASE current' \in Dropped
  <2>1. UNCHANGED <<frames, decoded>> /\ locked' = {}
    BY <1>1 DEF StartNewFrame
  <2>2. current' \notin WorkFrames
    BY <1>1 DEF Dropped, WorkFrames, RefFrames
  <2>. QED
    BY <2>1, <2>2 DEF TypeOK
<1>2. CASE current' \notin Dropped
  <2>1. /\ frames' = [frames EXCEPT ![current'] = new]
        /\ locked' = {current', future', past'} \ {"Unassigned"}
        /\ decoded' = decoded \cup {i}
    BY <1>2, Zenon DEF StartNewFrame
  <2>2. current' \in WorkFrames
    BY <1>2
  <2>3. i \in 0 .. MaxPictures
    BY MoviesTyped, SlotsAssumption DEF TypeOK
  <2>4. PredictedRight(i) \in BOOLEAN
    BY MoviesTyped, Zenon DEF PredictedRight, Holds, TypeOK
  <2>5. new \in [pic : 0..MaxPictures, intact : BOOLEAN]
    BY <2>3, <2>4, Zenon
  <2>6. PredictedRight(i) => new = [pic |-> i, intact |-> TRUE]
    BY <2>4, Zenon
  <2>7. frames \in [WorkFrames -> [pic : 0..MaxPictures, intact : BOOLEAN]]
    BY DEF TypeOK
  <2>. HIDE DEF new
  <2>8. current' \in Slots
    BY <2>2 DEF Slots
  <2>. QED
    BY <2>1, <2>2, <2>5, <2>6, <2>7, <2>8
<1>. QED
  BY <1>1, <1>2
-----------------------------------------------------------------------------
(* An I or P picture that is not dropped is predicted from the latest      *)
(* reference picture and becomes the latest itself.                        *)
LEMMA ReferencePlaced ==
    ASSUME IndInv, NEW i \in 1 .. Len(movie), i = digested + 1, IsRef(i),
           ~Refused(movie[i]), Place(movie[i])
    PROVE  /\ (IF past' = "Unassigned" THEN future' ELSE past') = current'
           /\ current' \in RefFrames /\ ~spoilt => PredictedRight(i)
<1>1. CASE movie[i] = "I"
  <2>1. PredictedRight(i)
    BY <1>1, Zenon DEF PredictedRight
  <2>2. PlaceI
    BY <1>1 DEF Place
  <2>. QED
    BY <2>1, <2>2 DEF PlaceI, SlotFor, OtherFrame, IndInv
<1>2. CASE movie[i] = "P"
  <2>1. PlaceP /\ future # "Unassigned"
    BY <1>2 DEF Place, Refused
  <2>2. past' = current' /\ past' # "Unassigned"
    BY <2>1 DEF PlaceP, SlotFor, OtherFrame
  <2>3. ASSUME current' \in RefFrames
        PROVE  /\ future' = LaterRef
               /\ current' # future'
               /\ LaterRef \in RefFrames
    BY <2>1, <2>3 DEF PlaceP, SlotFor, OtherFrame, LaterRef, RefFrames, IndInv, TypeOK
  <2>4. ASSUME current' \in RefFrames, ~spoilt
        PROVE  Holds(future', RefBefore(i)) /\ current' # future'
    BY <2>3, <2>4 DEF IndInv
  <2>5. ASSUME current' \in RefFrames, ~spoilt
        PROVE  PredictedRight(i)
    BY <1>2, <2>4, <2>5, Zenon DEF PredictedRight
  <2>. QED
    BY <2>2, <2>5
<1>. QED
  BY <1>1, <1>2, MoviesTyped DEF IndInv, TypeOK, IsRef

\* Which picture is the latest reference depends on the movie alone.
LEMMA RefBeforeFixed ==
    ASSUME UNCHANGED movie
    PROVE  \A j : RefBefore(j)' = RefBefore(j)
BY DEF RefBefore, RefsBefore, IsRef

LEMMA DigestPictureInv == IndInv /\ DigestPicture => IndInv'
<1>. SUFFICES ASSUME IndInv, DigestPicture PROVE IndInv'
  OBVIOUS
<1>. DEFINE i == digested + 1
<1>1. /\ i \in 1 .. Len(movie) /\ digested' = i
      /\ i \in Nat \ {0}
      /\ Len(movie) \in Nat
      /\ ~Refused(movie[i]) /\ Place(movie[i]) /\ StartNewFrame(i)
      /\ UNCHANGED <<movie, period, stopped, aggressiveness, changes, shown, spoilt>>
      /\ emitted' = 0
      /\ movie[i] \in {"I", "P", "B"}
  BY MoviesTyped, SlotsAssumption DEF DigestPicture, PictureIsNext, IndInv, TypeOK
<1>. HIDE DEF i
<1>2. /\ {future', past'} \subseteq {"Unassigned", "Dropped_IP"} \cup RefFrames
      /\ {current', outputSlot'} \subseteq Slots
      /\ current' \in Dropped \cup WorkFrames
      /\ future' # "Unassigned"
  BY <1>1, PlaceSlots DEF IndInv
<1>3. /\ frames' \in [WorkFrames -> [pic : 0..MaxPictures, intact : BOOLEAN]]
      /\ \A f \in WorkFrames : f # current' => frames'[f] = frames[f]
      /\ current' \in WorkFrames /\ PredictedRight(i)
           => frames'[current'] = [pic |-> i, intact |-> TRUE]
      /\ locked' \subseteq Slots
      /\ decoded' \subseteq decoded \cup {i}
  <2>1. {future', past'} \subseteq Slots
    BY <1>2 DEF Slots, WorkFrames, Dropped
  <2>. QED
    BY <1>1, <1>2, <2>1, FrameOfPicture DEF IndInv
<1>4. TypeOK'
  <2>1. decoded' \subseteq 1 .. digested'
    BY <1>1, <1>3 DEF IndInv, TypeOK, i
  <2>2. Movies' = Movies
    BY DEF Movies
  <2>. QED
    BY <1>1, <1>2, <1>3, <2>1, <2>2 DEF IndInv, TypeOK
<1>5. CASE IsRef(i)
  <2>1. /\ LaterRef' = current'
        /\ current' \in RefFrames /\ ~spoilt => PredictedRight(i)
    BY <1>1, <1>5, ReferencePlaced DEF LaterRef, i
  <2>2. current' \in RefFrames /\ ~spoilt => frames'[current'] = [pic |-> i, intact |-> TRUE]
    BY <1>3, <2>1 DEF WorkFrames
  <2>3. ReferencesIntact'
    BY <1>1, <1>3, <2>2 DEF ReferencesIntact, IndInv, WorkFrames
  <2>4. RefBefore(digested + 1)' = i
    BY <1>1, <1>5, RefBeforeNext, RefBeforeFixed
  <2>5. LaterRef' \in RefFrames /\ ~spoilt' => Holds(LaterRef, RefBefore(digested + 1))'
    BY <1>1, <2>1, <2>2, <2>4 DEF Holds, WorkFrames
  <2>. QED
    BY <1>2, <1>4, <2>3, <2>5 DEF IndInv
<1>6. CASE ~IsRef(i)
  <2>1. UNCHANGED <<future, past>> /\ current' \notin RefFrames
    BY <1>1, <1>6 DEF Place, PlaceB, IsRef, RefFrames
  <2>2. \A f \in RefFrames : frames'[f] = frames[f]
    BY <1>3, <2>1 DEF WorkFrames
  <2>3. ReferencesIntact'
    BY <1>1, <2>2 DEF ReferencesIntact, IndInv
  <2>4. RefBefore(digested + 1)' = RefBefore(i)
    BY <1>1, <1>6, RefBeforeSame, RefBeforeFixed
  <2>5. LaterRef' = LaterRef
    BY <2>1 DEF LaterRef
  <2>6. LaterRef' \in RefFrames /\ ~spoilt' => Holds(LaterRef, RefBefore(digested + 1))'
    BY <1>1, <2>2, <2>4, <2>5 DEF Holds, IndInv, i
  <2>. QED
    BY <1>2, <1>4, <2>3, <2>6 DEF IndInv
<1>. QED
  BY <1>5, <1>6
-----------------------------------------------------------------------------
(* The other steps leave the references and the frames alone.              *)
LEMMA FramesKept ==
    ASSUME IndInv, TypeOK', UNCHANGED <<movie, digested, future, past, frames, spoilt>>
    PROVE  IndInv'
<1>1. RefBefore(digested + 1)' = RefBefore(digested + 1)
  BY RefBeforeFixed
<1>2. LaterRef' = LaterRef
  BY DEF LaterRef
<1>3. Holds(LaterRef, RefBefore(digested + 1))' <=> Holds(LaterRef, RefBefore(digested + 1))
  BY <1>1, <1>2 DEF Holds
<1>. QED
  BY <1>2, <1>3 DEF IndInv, ReferencesIntact

\* A movie begins with an I picture: what is refused is a B picture.
LEMMA RefusedIsB ==
    ASSUME IndInv, PictureIsNext, Refused(movie[digested + 1])
    PROVE  /\ digested + 1 \in 1 .. Len(movie) /\ digested + 1 \in Nat \ {0}
           /\ digested > 0
           /\ movie[digested + 1] = "B"
<1>1. /\ digested \in 0 .. Len(movie) /\ Len(movie) \in Nat
      /\ digested < Len(movie) /\ movie[1] = "I"
  BY MoviesTyped, SlotsAssumption DEF PictureIsNext, IndInv, TypeOK, Movies
<1>2. digested # 0
  BY <1>1 DEF Refused
<1>3. future # "Unassigned"
  BY <1>1, <1>2 DEF IndInv
<1>. QED
  BY <1>1, <1>2, <1>3 DEF Refused

\* Its slices change no frame unless they spoil the movie.
LEMMA RefusedSlicesKeep ==
    ASSUME IndInv, RefusedSlices
    PROVE  /\ frames' \in [WorkFrames -> [pic : 0..MaxPictures, intact : BOOLEAN]]
           /\ spoilt' \in BOOLEAN
           /\ ~spoilt' => ~spoilt /\ current \in Dropped /\ UNCHANGED frames
<1>1. frames \in [WorkFrames -> [pic : 0..MaxPictures, intact : BOOLEAN]]
  BY DEF IndInv, TypeOK
<1>2. spoilt' = (spoilt \/ current \notin Dropped)
  BY Zenon DEF RefusedSlices
<1>3. spoilt' \in BOOLEAN /\ (~spoilt' => ~spoilt /\ current \in Dropped)
  BY <1>2, Zenon
<1>4. CASE current \in WorkFrames
  <2>1. PICK intact \in {FALSE, frames[current].intact} :
           frames' = [frames EXCEPT ![current] = [@ EXCEPT !.intact = intact]]
    BY <1>4, Zenon DEF RefusedSlices
  <2>2. frames[current] \in [pic : 0..MaxPictures, intact : BOOLEAN]
    BY <1>1, <1>4
  <2>3. intact \in BOOLEAN
    BY <2>1, <2>2
  <2>4. [frames[current] EXCEPT !.intact = intact] \in [pic : 0..MaxPictures, intact : BOOLEAN]
    BY <2>2, <2>3, Zenon
  <2>5. frames' \in [WorkFrames -> [pic : 0..MaxPictures, intact : BOOLEAN]]
    BY <1>1, <1>4, <2>1, <2>4, Zenon
  <2>6. current \notin Dropped
    BY <1>4 DEF WorkFrames, RefFrames, Dropped
  <2>. QED
    BY <1>3, <2>5, <2>6
<1>5. CASE current \notin WorkFrames
  BY <1>1, <1>3, <1>5 DEF RefusedSlices
<1>. QED
  BY <1>4, <1>5

\* A refused picture that is passed over.
PassOver ==
    /\ PictureIsNext
    /\ Refused(movie[digested + 1])
    /\ digested' = digested + 1
    /\ emitted' = 0
    /\ RefusedSlices
    /\ UNCHANGED <<movie, period, stopped, slots, aggressiveness, changes, locked, shown,
                   decoded>>

LEMMA SkipCases ==
    ASSUME SkipPicture, ~PassOver
    PROVE  /\ UNCHANGED <<movie, digested, emitted, period, slots, aggressiveness, changes,
                          frames, locked, shown, decoded, spoilt>>
           /\ stopped' = TRUE
BY DEF SkipPicture, PassOver

LEMMA PassOverInv == IndInv /\ PassOver => IndInv'
<1>. SUFFICES ASSUME IndInv, PassOver PROVE IndInv'
  OBVIOUS
<1>. DEFINE i == digested + 1
<1>1. i \in 1 .. Len(movie) /\ i \in Nat \ {0} /\ digested > 0 /\ movie[i] = "B"
  BY RefusedIsB DEF PassOver
<1>2. /\ frames' \in [WorkFrames -> [pic : 0..MaxPictures, intact : BOOLEAN]]
      /\ spoilt' \in BOOLEAN
      /\ ~spoilt' => ~spoilt /\ UNCHANGED frames
  BY RefusedSlicesKeep DEF PassOver
<1>3. TypeOK'
  <2>1. decoded' \subseteq 1 .. digested'
    BY <1>1 DEF PassOver, IndInv, TypeOK
  <2>2. Movies' = Movies
    BY DEF Movies
  <2>. QED
    BY <1>1, <1>2, <2>1, <2>2 DEF PassOver, slots, IndInv, TypeOK
<1>4. ReferencesIntact'
  BY <1>2 DEF ReferencesIntact, IndInv
<1>5. RefBefore(digested + 1)' = RefBefore(i)
  <2>1. ~IsRef(i)
    BY <1>1 DEF IsRef
  <2>. QED
    BY <1>1, <2>1, RefBeforeSame, RefBeforeFixed DEF PassOver
<1>6. UNCHANGED <<future, past>> /\ LaterRef' = LaterRef
  BY DEF PassOver, slots, LaterRef
<1>7. LaterRef' \in RefFrames /\ ~spoilt' => Holds(LaterRef, RefBefore(digested + 1))'
  BY <1>2, <1>5, <1>6 DEF Holds, IndInv
<1>. QED
  BY <1>1, <1>3, <1>4, <1>6, <1>7 DEF IndInv

LEMMA SkipPictureInv == IndInv /\ SkipPicture => IndInv'
<1>. SUFFICES ASSUME IndInv, SkipPicture, ~PassOver PROVE IndInv'
  BY PassOverInv
<1>1. UNCHANGED <<movie, digested, emitted, period, slots, aggressiveness, changes, frames,
                  locked, shown, decoded, spoilt>> /\ stopped' = TRUE
  BY SkipCases
<1>2. TypeOK'
  BY <1>1 DEF IndInv, TypeOK, slots, Movies
<1>. QED
  BY <1>1, <1>2, FramesKept DEF slots

LEMMA VideoSynchronizationInv == IndInv /\ VideoSynchronization => IndInv'
<1>. SUFFICES ASSUME IndInv, VideoSynchronization PROVE IndInv'
  OBVIOUS
<1>1. emitted' \in 0..2 /\ period' \in Nat
  BY DEF VideoSynchronization, SyncIsNext, SyncsAfter, IndInv, TypeOK
<1>2. shown' \in Slots /\ outputSlot' \in Slots /\ locked' \subseteq Slots
  BY DEF VideoSynchronization, EmitFrame, IndInv, TypeOK, Slots, WorkFrames, RefFrames, Dropped
<1>3. TypeOK'
  BY <1>1, <1>2 DEF VideoSynchronization, IndInv, TypeOK, Movies
<1>. QED
  BY <1>3, FramesKept DEF VideoSynchronization

LEMMA SetDropAggressivenessInv ==
    ASSUME IndInv, NEW level \in Levels, SetDropAggressiveness(level)
    PROVE  IndInv'
<1>1. TypeOK'
  BY SlotsAssumption DEF SetDropAggressiveness, IndInv, TypeOK, slots, Movies
<1>. QED
  BY <1>1, FramesKept DEF SetDropAggressiveness, slots

LEMMA StepInv == IndInv /\ [Next]_vars => IndInv'
<1>. SUFFICES ASSUME IndInv, [Next]_vars PROVE IndInv'
  OBVIOUS
<1>1. CASE DigestPicture
  BY <1>1, DigestPictureInv
<1>2. CASE SkipPicture
  BY <1>2, SkipPictureInv
<1>3. CASE VideoSynchronization
  BY <1>3, VideoSynchronizationInv
<1>4. ASSUME NEW level \in Levels, SetDropAggressiveness(level) PROVE IndInv'
  BY <1>4, SetDropAggressivenessInv
<1>5. CASE UNCHANGED vars
  <2>1. TypeOK'
    BY <1>5 DEF vars, slots, IndInv, TypeOK, Movies
  <2>. QED
    BY <1>5, <2>1, FramesKept DEF vars, slots
<1>. QED
  BY <1>1, <1>2, <1>3, <1>4, <1>5 DEF Next

\* The slots and frames keep their types: only reference slots hold references.
\* (CVidStream::ParsePicture, EmitFrame)
THEOREM TypeCorrect == Spec => []TypeOK
<1>1. Spec => []IndInv
  BY InitInv, StepInv, PTL DEF Spec
<1>2. IndInv => TypeOK
  BY DEF IndInv
<1>. QED
  BY <1>1, <1>2, PTL

\* Whatever the player drops and when, a decoded I or P picture was decoded from
\* the intact reference picture that precedes it, in a frame of its own, unless
\* slices of a refused picture went to the frame of another.
\* (CVidStream::ParsePicture, CSoftwareReconstructor::StartNewFrame)
THEOREM ReferencesStayIntact == Spec => []ReferencesIntact
<1>1. Spec => []IndInv
  BY InitInv, StepInv, PTL DEF Spec
<1>2. IndInv => ReferencesIntact
  BY DEF IndInv
<1>. QED
  BY <1>1, <1>2, PTL
-----------------------------------------------------------------------------
(* When a P picture is dropped. A slot of a dropped picture means that one *)
(* of the two latest reference pictures was not decoded.                   *)
DroppedInv ==
    LET latest == RefBefore(digested + 1) IN
    /\ LaterRef = "Dropped_IP" => latest \in 1 .. digested /\ latest \notin decoded
    /\ future = "Dropped_IP" =>
          \E j \in {latest, RefBefore(latest)} : j \in 1 .. digested /\ j \notin decoded

LEMMA DroppedInit == Init => DroppedInv
BY DEF Init, DroppedInv, LaterRef

LEMMA DroppedDigest == IndInv /\ DroppedInv /\ DigestPicture => DroppedInv'
<1>. SUFFICES ASSUME IndInv, DroppedInv, DigestPicture PROVE DroppedInv'
  OBVIOUS
<1>. DEFINE i == digested + 1
<1>1. /\ i \in 1 .. Len(movie) /\ digested' = i
      /\ i \in Nat \ {0} /\ digested \in Nat
      /\ ~Refused(movie[i]) /\ Place(movie[i]) /\ StartNewFrame(i)
      /\ UNCHANGED movie
      /\ movie[i] \in {"I", "P", "B"}
  BY MoviesTyped, SlotsAssumption DEF DigestPicture, PictureIsNext, IndInv, TypeOK
<1>2. decoded' \subseteq decoded \cup {i} /\ i \notin decoded
  BY <1>1 DEF StartNewFrame, IndInv, TypeOK
<1>3. current' = "Dropped_IP" => i \notin decoded'
  BY <1>1, <1>2 DEF StartNewFrame, Dropped
<1>4. CASE IsRef(i)
  <2>1. /\ RefBefore(digested + 1)' = i
        /\ RefBefore(RefBefore(digested + 1))' = RefBefore(i)
    <3>1. RefBefore(digested + 1)' = i
      BY <1>1, <1>4, RefBeforeNext, RefBeforeFixed
    <3>. QED
      BY <1>1, <3>1, RefBeforeFixed
  <2>2. LaterRef' = current'
    BY <1>1, <1>4, ReferencePlaced DEF LaterRef
  <2>3. future' = "Dropped_IP" =>
           current' = "Dropped_IP" \/ LaterRef = "Dropped_IP"
    <3>1. CASE movie[i] = "I"
      BY <1>1, <3>1 DEF Place, PlaceI, LaterRef, IndInv
    <3>2. CASE movie[i] = "P"
      BY <1>1, <3>2 DEF Place, PlaceP, LaterRef
    <3>. QED
      BY <1>1, <1>4, <3>1, <3>2 DEF IsRef
  <2>4. LaterRef = "Dropped_IP" => RefBefore(i) \in 1 .. digested /\ RefBefore(i) \notin decoded
    BY DEF DroppedInv
  <2>5. ASSUME future' = "Dropped_IP"
        PROVE  \E j \in {i, RefBefore(i)} : j \in 1 .. i /\ j \notin decoded'
    BY <1>1, <1>2, <1>3, <2>3, <2>4, <2>5
  <2>. QED
    BY <1>1, <1>3, <2>1, <2>2, <2>5 DEF DroppedInv
<1>5. CASE ~IsRef(i)
  <2>1. UNCHANGED <<future, past, LaterRef>>
    BY <1>1, <1>5 DEF Place, PlaceB, IsRef, LaterRef
  <2>2. RefBefore(digested + 1)' = RefBefore(i)
    BY <1>1, <1>5, RefBeforeSame, RefBeforeFixed
  <2>3. RefBefore(RefBefore(digested + 1))' = RefBefore(RefBefore(i))
    BY <1>1, <2>2, RefBeforeFixed
  <2>. QED
    BY <1>1, <1>2, <2>1, <2>2, <2>3 DEF DroppedInv
<1>. QED
  BY <1>4, <1>5

LEMMA DroppedPassOver == IndInv /\ DroppedInv /\ PassOver => DroppedInv'
<1>. SUFFICES ASSUME IndInv, DroppedInv, PassOver PROVE DroppedInv'
  OBVIOUS
<1>. DEFINE i == digested + 1
<1>1. i \in Nat \ {0} /\ digested \in Nat /\ digested' = i /\ ~IsRef(i)
  BY RefusedIsB, MoviesTyped, SlotsAssumption DEF PassOver, IsRef, IndInv, TypeOK
<1>2. UNCHANGED <<movie, future, past, decoded>> /\ LaterRef' = LaterRef
  BY DEF PassOver, slots, LaterRef
<1>3. RefBefore(digested + 1)' = RefBefore(i)
  BY <1>1, <1>2, RefBeforeSame, RefBeforeFixed
<1>4. RefBefore(RefBefore(digested + 1))' = RefBefore(RefBefore(i))
  BY <1>2, <1>3, RefBeforeFixed
<1>. QED
  BY <1>1, <1>2, <1>3, <1>4 DEF DroppedInv

LEMMA DroppedStep == IndInv /\ DroppedInv /\ [Next]_vars => DroppedInv'
<1>. SUFFICES ASSUME IndInv, DroppedInv, [Next]_vars PROVE DroppedInv'
  OBVIOUS
<1>1. ASSUME UNCHANGED <<movie, digested, future, past, decoded>> PROVE DroppedInv'
  <2>1. RefBefore(digested + 1)' = RefBefore(digested + 1)
    BY <1>1, RefBeforeFixed
  <2>2. RefBefore(RefBefore(digested + 1))' = RefBefore(RefBefore(digested + 1))
    BY <1>1, <2>1, RefBeforeFixed
  <2>. QED
    BY <1>1, <2>1, <2>2 DEF DroppedInv, LaterRef
<1>2. CASE SkipPicture
  BY <1>1, <1>2, SkipCases, DroppedPassOver DEF slots
<1>. QED
  BY <1>1, <1>2, DroppedDigest
  DEF Next, VideoSynchronization, SetDropAggressiveness, vars, slots

\* A P picture is dropped only while the player asks for it or if one of the two
\* reference pictures before it was not decoded: how decoding resumes after
\* dropping. (CVidStream::ParsePicture)
THEOREM TwoReferencesSuffice == Spec => TwoReferencesRecover
<1>. DEFINE Recover == LET i == digested + 1 IN
       DigestPicture /\ movie[i] = "P" /\ aggressiveness < DropBP =>
           \/ i \in decoded'
           \/ ~({RefBefore(i), RefBefore(RefBefore(i))} \ {0} \subseteq decoded)
<1>1. ASSUME IndInv, DroppedInv, [Next]_vars PROVE [Recover]_vars
  <2>. DEFINE i == digested + 1
  <2>. SUFFICES ASSUME DigestPicture, movie[i] = "P", aggressiveness < DropBP, i \notin decoded'
                PROVE  ~({RefBefore(i), RefBefore(RefBefore(i))} \ {0} \subseteq decoded)
    OBVIOUS
  <2>1. current' \in Dropped /\ PlaceP
    BY DEF DigestPicture, StartNewFrame, Place
  <2>2. future = "Dropped_IP" \/ LaterRef = "Dropped_IP"
    BY <2>1, <1>1 DEF PlaceP, SlotFor, OtherFrame, LaterRef, IndInv, TypeOK, Dropped,
                     DropBP, None, DropAll
  <2>. QED
    BY <2>2, <1>1 DEF DroppedInv
<1>2. Spec => [](IndInv /\ DroppedInv)
  BY InitInv, StepInv, DroppedInit, DroppedStep, PTL DEF Spec
<1>3. Spec => [][Recover]_vars
  BY <1>1, <1>2, PTL DEF Spec
<1>. QED
  BY <1>3 DEF TwoReferencesRecover

-----------------------------------------------------------------------------
(* As long as nothing is dropped: which frames are used.                   *)

HasB == \E k \in DOMAIN movie : ~IsRef(k)

UsedInv ==
    changes = 0 =>
        /\ aggressiveness = None
        /\ {future, past, current, outputSlot, shown} \cap Dropped = {}
        /\ locked \subseteq WorkFrames
        /\ "B" \in locked \cup {current, outputSlot, shown} => HasB

LEMMA UsedInit == Init => UsedInv
BY DEF Init, UsedInv, Dropped, WorkFrames, RefFrames

LEMMA UsedDigest == IndInv /\ UsedInv /\ DigestPicture => UsedInv'
<1>. SUFFICES ASSUME IndInv, UsedInv, DigestPicture, changes = 0 PROVE UsedInv'
  BY DEF UsedInv, DigestPicture
<1>. DEFINE i == digested + 1
<1>1. /\ i \in DOMAIN movie
      /\ Place(movie[i]) /\ StartNewFrame(i) /\ ~Refused(movie[i])
      /\ UNCHANGED <<movie, aggressiveness, changes, shown>>
      /\ movie[i] \in {"I", "P", "B"}
  BY MoviesTyped, SlotsAssumption DEF DigestPicture, PictureIsNext, IndInv, TypeOK
<1>. HIDE DEF i
<1>2. HasB' <=> HasB
  BY <1>1 DEF HasB, IsRef
<1>3. aggressiveness = None /\ {future, past, current, outputSlot, shown} \cap Dropped = {}
  BY DEF UsedInv
<1>4. /\ {future', past', current', outputSlot'} \cap Dropped = {}
      /\ "B" \in {future', past', current', outputSlot'} => HasB
  <2>1. CASE movie[i] = "I"
    BY <1>1, <1>3, <2>1 DEF Place, PlaceI, SlotFor, OtherFrame, Dropped, None, DropBPI, IndInv,
      TypeOK, RefFrames
  <2>2. CASE movie[i] = "P"
    <3>1. PlaceP /\ future # "Dropped_IP" /\ past # "Dropped_IP"
      BY <1>1, <1>3, <2>2 DEF Place, Dropped
    <3>2. \A slot : SlotFor(DropBP, slot) \in RefFrames
      BY <1>3 DEF SlotFor, OtherFrame, None, DropBP, RefFrames
    <3>3. /\ future' = LaterRef
          /\ past' \in RefFrames /\ current' = past' /\ outputSlot' = past'
      BY <3>1, <3>2 DEF PlaceP, LaterRef
    <3>. QED
      BY <1>3, <3>1, <3>3 DEF LaterRef, RefFrames, Dropped, IndInv, TypeOK
  <2>3. CASE movie[i] = "B"
    BY <1>1, <1>3, <2>3 DEF Place, PlaceB, Dropped, None, DropB, HasB, IsRef, IndInv,
      TypeOK, RefFrames
  <2>. QED
    BY <1>1, <2>1, <2>2, <2>3
<1>5. locked' \subseteq {current', future', past'} \ {"Unassigned"}
  BY <1>1, <1>4 DEF StartNewFrame
<1>6. locked' \subseteq WorkFrames
  <2>1. {future', past', current'} \subseteq {"Unassigned"} \cup WorkFrames \cup Dropped
    BY <1>1, PlaceSlots DEF IndInv, WorkFrames, Dropped
  <2>. QED
    BY <1>4, <1>5, <2>1
<1>. QED
  BY <1>1, <1>6, <1>2, <1>3, <1>4, <1>5 DEF UsedInv

LEMMA UsedSynchronization == IndInv /\ UsedInv /\ VideoSynchronization => UsedInv'
<1>. SUFFICES ASSUME IndInv, UsedInv, VideoSynchronization, changes = 0 PROVE UsedInv'
  BY DEF UsedInv, VideoSynchronization
<1>1. HasB' <=> HasB
  BY DEF VideoSynchronization, HasB, IsRef
<1>. QED
  BY <1>1 DEF UsedInv, VideoSynchronization, EmitFrame, IndInv, TypeOK, RefFrames

LEMMA UsedStep == IndInv /\ UsedInv /\ [Next]_vars => UsedInv'
<1>. SUFFICES ASSUME IndInv, UsedInv, [Next]_vars PROVE UsedInv'
  OBVIOUS
<1>1. ASSUME NEW level \in Levels, SetDropAggressiveness(level) PROVE UsedInv'
  BY <1>1 DEF SetDropAggressiveness, UsedInv, IndInv, TypeOK
<1>2. CASE SkipPicture \/ UNCHANGED vars
  BY <1>2 DEF SkipPicture, vars, slots, UsedInv, HasB, IsRef
<1>. QED
  BY <1>1, <1>2, UsedDigest, UsedSynchronization DEF Next

\* As long as nothing is dropped, the decoder locks and shows only work frames
\* that the file's header asked for. (ConvertMPEGVideo,
\* CSoftwareReconstructor::StartNewFrame)
THEOREM FramesAreThere == Spec => []FramesExist
<1>1. Spec => [](IndInv /\ UsedInv)
  BY InitInv, StepInv, UsedInit, UsedStep, PTL DEF Spec
<1>2. IndInv /\ UsedInv => FramesExist
  <2>1. IndInv => shown \in {"Unassigned"} \cup WorkFrames \cup Dropped
    BY DEF IndInv, TypeOK, Slots
  <2>. QED
    BY <2>1 DEF UsedInv, FramesExist, Provided, HasB, WorkFrames
<1>. QED
  BY <1>1, <1>2, PTL

-----------------------------------------------------------------------------
(* The display order.  A synchronization at which a run of B pictures ends *)
(* shows the latest reference picture, any other the next B picture.       *)

RunEnds(p) == p = Len(movie) \/ IsRef(p + 1)

NoRefAfter(i, p) == \A j \in i + 1 .. p : ~IsRef(j)

ShownAt(p) == CHOOSE i \in DOMAIN movie : DisplayPosition(i) = p

LEMMA LeastOf ==
    ASSUME NEW S \in SUBSET Nat, S # {}
    PROVE  \E x \in S : \A y \in S : x <= y
<1>1. \E x \in S : \A y \in S : <<y, x>> \notin OpToRel(<, Nat)
  BY NatLessThanWellFounded, WFMin
<1>2. \E x \in S : \A y \in S : ~(y < x)
  BY <1>1 DEF OpToRel
<1>. QED
  BY <1>2

\* Where a picture comes.
LEMMA Positions ==
    ASSUME movie \in Movies, NEW i \in DOMAIN movie
    PROVE  LET p == DisplayPosition(i) IN
           /\ p \in 0 .. Len(movie)
           /\ IsRef(i) => RunEnds(p) /\ i <= p /\ NoRefAfter(i, p)
           /\ ~IsRef(i) => p = i - 1 /\ ~RunEnds(p)
<1>. DEFINE later == {j \in i + 1 .. Len(movie) : IsRef(j)}
<1>1. Len(movie) \in Nat /\ i \in 1 .. Len(movie)
  BY MoviesTyped, SlotsAssumption DEF Movies
<1>2. CASE ~IsRef(i)
  BY <1>1, <1>2 DEF DisplayPosition, RunEnds
<1>3. CASE IsRef(i) /\ later = {}
  <2>1. DisplayPosition(i) = Len(movie)
    BY <1>3 DEF DisplayPosition
  <2>2. NoRefAfter(i, Len(movie))
    BY <1>3 DEF NoRefAfter
  <2>. QED
    BY <1>1, <1>3, <2>1, <2>2 DEF RunEnds
<1>4. CASE IsRef(i) /\ later # {}
  <2>1. PICK n \in later : \A k \in later : n <= k
    <3>1. later \in SUBSET Nat
      BY <1>1
    <3>. QED
      BY <1>4, <3>1, LeastOf
  <2>2. \A j \in later : (\A k \in later : j <= k) => j = n
    BY <1>1, <2>1
  <2>3. (CHOOSE j \in later : \A k \in later : j <= k) = n
    BY <2>1, <2>2
  <2>4. DisplayPosition(i) = n - 1
    BY <1>4, <2>3 DEF DisplayPosition
  <2>5. NoRefAfter(i, n - 1)
    BY <1>1, <2>1 DEF NoRefAfter
  <2>. QED
    BY <1>1, <1>4, <2>1, <2>4, <2>5 DEF RunEnds
<1>. QED
  BY <1>2, <1>3, <1>4

LEMMA Between ==
    ASSUME NEW n \in Nat, NEW p \in 1 .. n, NEW q \in 1 .. n, NEW k \in Nat, k <= q, q < p
    PROVE  q + 1 \in k + 1 .. p /\ q # n
OBVIOUS

\* Where a run ends, the latest reference picture is due.
LEMMA ReferenceDue ==
    ASSUME movie \in Movies, NEW p \in 1 .. Len(movie), RunEnds(p),
           NEW i \in 1 .. p, IsRef(i), NoRefAfter(i, p)
    PROVE  ShownAt(p) = i
<1>1. Len(movie) \in Nat /\ DOMAIN movie = 1 .. Len(movie)
  BY MoviesTyped, SlotsAssumption DEF Movies
<1>2. ASSUME NEW k \in Nat, NEW q \in 1 .. Len(movie), RunEnds(q),
             k <= q, NoRefAfter(k, q), k <= p, NoRefAfter(k, p)
      PROVE  q = p
  <2>1. q < p => q + 1 \in k + 1 .. p /\ q # Len(movie)
    BY <1>1, <1>2, Between
  <2>2. p < q => p + 1 \in k + 1 .. q /\ p # Len(movie)
    BY <1>1, <1>2, Between
  <2>3. ~(q < p) /\ ~(p < q)
    BY <1>2, <2>1, <2>2 DEF NoRefAfter, RunEnds
  <2>. QED
    BY <1>1, <2>3
<1>3. i \in DOMAIN movie
  BY <1>1
<1>4. DisplayPosition(i) = p
  BY <1>1, <1>2, <1>3, Positions
<1>5. ASSUME NEW k \in DOMAIN movie, DisplayPosition(k) = p
      PROVE  k = i
  BY <1>1, <1>5, Positions DEF NoRefAfter
<1>. QED
  BY <1>3, <1>4, <1>5 DEF ShownAt

LEMMA Further ==
    ASSUME NEW n \in Nat, NEW p \in 1 .. n, p # n
    PROVE  p + 1 \in 1 .. n
OBVIOUS

\* Elsewhere, the next B picture.
LEMMA BDue ==
    ASSUME movie \in Movies, NEW p \in 1 .. Len(movie), ~RunEnds(p)
    PROVE  ShownAt(p) = p + 1
<1>1. Len(movie) \in Nat /\ DOMAIN movie = 1 .. Len(movie)
  BY MoviesTyped, SlotsAssumption DEF Movies
<1>2. p + 1 \in DOMAIN movie /\ ~IsRef(p + 1)
  <2>1. p # Len(movie) /\ ~IsRef(p + 1)
    BY DEF RunEnds
  <2>2. p + 1 \in 1 .. Len(movie)
    BY <1>1, <2>1, Further
  <2>. QED
    BY <1>1, <2>1, <2>2
<1>3. DisplayPosition(p + 1) = p
  BY <1>1, <1>2, Positions
<1>4. ASSUME NEW k \in DOMAIN movie, DisplayPosition(k) = p
      PROVE  k = p + 1
  BY <1>1, <1>4, Positions
<1>. QED
  BY <1>2, <1>3, <1>4 DEF ShownAt

-----------------------------------------------------------------------------
(* Which synchronization it is, and what the slots hold when nothing has   *)
(* been dropped.                                                           *)

Synchronizations ==
    /\ emitted <= SyncsAfter(digested)
    /\ period + SyncsAfter(digested)
         = emitted + IF RunEnds(digested) THEN digested ELSE digested - 1

LatestIsReference ==
    LET latest == RefBefore(digested + 1) IN
    digested > 0 => latest \in 1 .. digested /\ IsRef(latest) /\ NoRefAfter(latest, digested)

\* The earlier reference, and the slot to be shown next.
SlotsHold ==
    changes = 0 /\ ~spoilt /\ digested > 0 =>
        /\ future # "Unassigned"
        /\ past # "Unassigned" =>
              future # past /\ Holds(future, RefBefore(RefBefore(digested + 1)))
        /\ IsRef(digested) => outputSlot = LaterRef
        /\ ~IsRef(digested) =>
              /\ past # "Unassigned"
              /\ Holds("B", digested)
              /\ outputSlot = IF emitted = 0 THEN "B" ELSE past

ShownInv ==
    /\ IndInv
    /\ UsedInv
    /\ Synchronizations
    /\ LatestIsReference
    /\ SlotsHold
    /\ ShownInOrder

LEMMA FirstIsI ==
    ASSUME movie \in Movies
    PROVE  Len(movie) \in Nat \ {0} /\ DOMAIN movie = 1 .. Len(movie) /\ movie[1] = "I"
BY SlotsAssumption DEF Movies

LEMMA ShownInit == Init => ShownInv
<1>. SUFFICES ASSUME Init PROVE ShownInv
  OBVIOUS
<1>1. Synchronizations
  <2>1. SyncsAfter(0) = 0
    BY DEF SyncsAfter
  <2>2. RunEnds(0)
    BY FirstIsI DEF Init, RunEnds, IsRef
  <2>. QED
    BY <2>1, <2>2 DEF Init, Synchronizations
<1>2. LatestIsReference /\ SlotsHold /\ ShownInOrder
  BY DEF Init, LatestIsReference, SlotsHold, ShownInOrder, JustSynchronized
<1>. QED
  BY <1>1, <1>2, InitInv, UsedInit DEF ShownInv

\* A picture header, refused or not: the synchronizations before it are those of
\* the pictures before it.
Advance ==
    /\ PictureIsNext
    /\ digested' = digested + 1
    /\ emitted' = 0
    /\ UNCHANGED <<movie, period>>

LEMMA SynchronizationsDigest ==
    ASSUME ShownInv, Advance
    PROVE  Synchronizations'
<1>. DEFINE i == digested + 1
<1>1. /\ i \in 1 .. Len(movie) /\ digested' = i /\ UNCHANGED <<movie, period>>
      /\ emitted' = 0 /\ emitted = SyncsAfter(digested)
      /\ digested \in Nat /\ period \in Nat /\ Len(movie) \in Nat
  BY FirstIsI, MoviesTyped, SlotsAssumption
  DEF Advance, PictureIsNext, ShownInv, IndInv, TypeOK
<1>2. period = IF RunEnds(digested) THEN digested ELSE digested - 1
  <2>1. SyncsAfter(digested) \in Nat
    BY <1>1, Zenon DEF ShownInv, IndInv, TypeOK, SyncsAfter
  <2>. QED
    BY <1>1, <2>1 DEF ShownInv, Synchronizations
<1>3. RunEnds(digested) <=> IsRef(i)
  BY <1>1 DEF RunEnds
<1>4. SyncsAfter(i) = IF IsRef(i) THEN IF RunEnds(i) THEN 1 ELSE 0
                      ELSE IF RunEnds(i) THEN 2 ELSE 1
  BY <1>1 DEF SyncsAfter, RunEnds
<1>5. \A k : SyncsAfter(k)' = SyncsAfter(k) /\ RunEnds(k)' = RunEnds(k)
  BY <1>1 DEF SyncsAfter, RunEnds, IsRef
<1>6. /\ 0 <= SyncsAfter(i)
      /\ period + SyncsAfter(i) = 0 + IF RunEnds(i) THEN i ELSE i - 1
  <2>1. CASE IsRef(i)
    BY <1>1, <1>2, <1>3, <1>4, <2>1
  <2>2. CASE ~IsRef(i)
    BY <1>1, <1>2, <1>3, <1>4, <2>2
  <2>. QED
    BY <2>1, <2>2
<1>. QED
  BY <1>1, <1>5, <1>6 DEF Synchronizations

LEMMA LatestDigest ==
    ASSUME ShownInv, Advance
    PROVE  LatestIsReference'
<1>. DEFINE i == digested + 1
<1>1. /\ i \in 1 .. Len(movie) /\ digested' = i /\ UNCHANGED movie
      /\ digested \in Nat /\ Len(movie) \in Nat /\ movie[1] = "I" /\ i \in Nat \ {0}
  BY FirstIsI, MoviesTyped, SlotsAssumption
  DEF Advance, PictureIsNext, ShownInv, IndInv, TypeOK
<1>2. \A j, k : NoRefAfter(j, k)' = NoRefAfter(j, k) /\ IsRef(j)' = IsRef(j)
  BY <1>1 DEF NoRefAfter, IsRef
<1>3. CASE IsRef(i)
  <2>1. RefBefore(digested + 1)' = i
    BY <1>1, <1>3, RefBeforeNext, RefBeforeFixed
  <2>2. NoRefAfter(i, i)
    BY <1>1 DEF NoRefAfter
  <2>. QED
    BY <1>1, <1>2, <1>3, <2>1, <2>2 DEF LatestIsReference
<1>4. CASE ~IsRef(i)
  <2>1. RefBefore(digested + 1)' = RefBefore(i)
    BY <1>1, <1>4, RefBeforeSame, RefBeforeFixed
  <2>2. digested > 0
    BY <1>1, <1>4 DEF IsRef
  <2>3. RefBefore(i) \in 1 .. digested /\ IsRef(RefBefore(i)) /\ NoRefAfter(RefBefore(i), digested)
    BY <2>2 DEF ShownInv, LatestIsReference
  <2>4. NoRefAfter(RefBefore(i), i)
    BY <1>1, <1>4, <2>3 DEF NoRefAfter
  <2>. QED
    BY <1>1, <1>2, <2>1, <2>3, <2>4 DEF LatestIsReference
<1>. QED
  BY <1>3, <1>4

LEMMA SlotsDigest ==
    ASSUME ShownInv, DigestPicture
    PROVE  SlotsHold'
<1>. SUFFICES ASSUME changes' = 0, ~spoilt' PROVE SlotsHold'
  BY DEF SlotsHold
<1>. DEFINE i == digested + 1
<1>1. /\ i \in 1 .. Len(movie) /\ digested' = i /\ UNCHANGED <<movie, changes, spoilt>>
      /\ digested \in Nat /\ Len(movie) \in Nat /\ movie[1] = "I" /\ i \in Nat \ {0}
      /\ ~Refused(movie[i]) /\ Place(movie[i]) /\ StartNewFrame(i) /\ emitted' = 0
      /\ movie[i] \in {"I", "P", "B"} /\ IndInv /\ TypeOK
  BY FirstIsI, MoviesTyped, SlotsAssumption
  DEF DigestPicture, PictureIsNext, ShownInv, IndInv, TypeOK
<1>2. /\ aggressiveness = None /\ changes = 0
      /\ {future, past, current, outputSlot, shown} \cap Dropped = {}
  BY <1>1 DEF ShownInv, UsedInv
<1>3. /\ {future', past'} \subseteq {"Unassigned", "Dropped_IP"} \cup RefFrames
      /\ current' \in Dropped \cup WorkFrames
      /\ \A f \in WorkFrames : f # current' => frames'[f] = frames[f]
      /\ current' \in WorkFrames /\ PredictedRight(i)
           => frames'[current'] = [pic |-> i, intact |-> TRUE]
  <2>1. /\ {future', past'} \subseteq {"Unassigned", "Dropped_IP"} \cup RefFrames
        /\ current' \in Dropped \cup WorkFrames
    BY <1>1, PlaceSlots
  <2>2. {future', past'} \subseteq Slots
    BY <2>1 DEF Slots, WorkFrames, Dropped
  <2>. QED
    BY <1>1, <2>1, <2>2, FrameOfPicture
<1>4. LaterRef # "Unassigned" => LaterRef \in RefFrames /\ Holds(LaterRef, RefBefore(i))
  BY <1>1, <1>2 DEF IndInv, TypeOK, LaterRef, Dropped
<1>5. CASE IsRef(i)
  <2>1. /\ current' \in RefFrames /\ outputSlot' = current'
        /\ future' # "Unassigned"
        /\ past' # "Unassigned" => /\ past' = current' /\ future' = LaterRef
                                   /\ LaterRef # "Unassigned" /\ current' # LaterRef
    <3>1. \A level \in {DropBP, DropBPI} : \A slot :
             SlotFor(level, slot) \in RefFrames /\ SlotFor(level, slot) # slot
      BY <1>2 DEF SlotFor, OtherFrame, None, DropBP, DropBPI, RefFrames
    <3>2. CASE movie[i] = "I"
      BY <1>1, <1>2, <3>1, <3>2 DEF Place, PlaceI, LaterRef, RefFrames, IndInv
    <3>3. CASE movie[i] = "P"
      <4>1. PlaceP /\ future # "Dropped_IP" /\ past # "Dropped_IP" /\ future # "Unassigned"
        BY <1>1, <1>2, <3>3 DEF Place, Dropped, Refused
      <4>2. SlotFor(DropBP, LaterRef) \in RefFrames /\ SlotFor(DropBP, LaterRef) # LaterRef
        BY <3>1
      <4>3. /\ future' = LaterRef /\ LaterRef # "Unassigned"
            /\ past' = SlotFor(DropBP, LaterRef) /\ current' = past' /\ outputSlot' = past'
        BY <4>1 DEF PlaceP, LaterRef
      <4>. QED
        BY <4>2, <4>3
    <3>. QED
      BY <1>1, <1>5, <3>2, <3>3 DEF IsRef
  <2>2. RefBefore(RefBefore(digested + 1))' = RefBefore(i)
    <3>1. RefBefore(digested + 1)' = i
      BY <1>1, <1>5, RefBeforeNext, RefBeforeFixed
    <3>. QED
      BY <1>1, <3>1, RefBeforeFixed
  <2>3. past' # "Unassigned" => Holds(future, RefBefore(RefBefore(digested + 1)))'
    BY <1>3, <1>4, <2>1, <2>2 DEF Holds
  <2>4. LaterRef' = current'
    BY <1>1, <1>5, ReferencePlaced DEF LaterRef
  <2>5. IsRef(digested)'
    BY <1>1, <1>5 DEF IsRef
  <2>. QED
    BY <2>1, <2>3, <2>4, <2>5 DEF SlotsHold
<1>6. CASE ~IsRef(i)
  <2>1. /\ current' = "B" /\ outputSlot' = "B" /\ UNCHANGED <<future, past>>
        /\ future # "Unassigned" /\ past # "Unassigned" /\ movie[i] = "B"
    BY <1>1, <1>2, <1>6 DEF Place, PlaceB, IsRef, Refused, None, DropB
  <2>2. digested > 0
    BY <1>1, <1>6 DEF IsRef
  <2>3. future # past /\ Holds(future, RefBefore(RefBefore(i)))
    BY <1>1, <1>2, <2>1, <2>2 DEF ShownInv, SlotsHold
  <2>4. {future, past} \subseteq RefFrames /\ Holds(past, RefBefore(i))
    BY <1>2, <1>4, <2>1, <1>1 DEF LaterRef, TypeOK, Dropped
  <2>5. "B" \notin RefFrames /\ "B" \in WorkFrames /\ RefFrames \subseteq WorkFrames
    BY DEF RefFrames, WorkFrames
  <2>6. PredictedRight(i)
    <3>1. Holds(past', RefBefore(i)) /\ Holds(future', RefBefore(RefBefore(i)))
      BY <2>1, <2>3, <2>4
    <3>2. current' \notin {past', future'}
      BY <2>1, <2>4, <2>5
    <3>. QED
      BY <2>1, <3>1, <3>2, Zenon DEF PredictedRight
  <2>7. Holds("B", digested)'
    BY <1>1, <1>3, <2>1, <2>5, <2>6 DEF Holds
  <2>8. RefBefore(RefBefore(digested + 1))' = RefBefore(RefBefore(i))
    <3>1. RefBefore(digested + 1)' = RefBefore(i)
      BY <1>1, <1>6, RefBeforeSame, RefBeforeFixed
    <3>. QED
      BY <1>1, <3>1, RefBeforeFixed
  <2>9. Holds(future, RefBefore(RefBefore(digested + 1)))'
    BY <1>3, <2>1, <2>3, <2>4, <2>5, <2>8 DEF Holds
  <2>10. ~IsRef(digested)'
    BY <1>1, <1>6 DEF IsRef
  <2>. QED
    BY <1>1, <2>1, <2>3, <2>7, <2>9, <2>10 DEF SlotsHold
<1>. QED
  BY <1>5, <1>6

-----------------------------------------------------------------------------
LEMMA UnchangedMovie ==
    ASSUME UNCHANGED movie
    PROVE  /\ \A k : SyncsAfter(k)' = SyncsAfter(k) /\ RunEnds(k)' = RunEnds(k)
           /\ \A k : ShownAt(k)' = ShownAt(k) /\ IsRef(k)' = IsRef(k)
           /\ \A j, k : NoRefAfter(j, k)' = NoRefAfter(j, k)
BY DEF SyncsAfter, RunEnds, ShownAt, DisplayPosition, NoRefAfter, IsRef

\* A synchronization shows the picture that is due, and advances.
LEMMA ShownSynchronization ==
    ASSUME ShownInv, VideoSynchronization
    PROVE  Synchronizations' /\ LatestIsReference' /\ SlotsHold' /\ ShownInOrder'
<1>. DEFINE i == digested
<1>1. /\ i \in 0 .. Len(movie) /\ Len(movie) \in Nat /\ movie[1] = "I" /\ movie \in Movies
      /\ emitted \in Nat /\ period \in Nat
      /\ UNCHANGED <<movie, digested, future, past, current, changes, frames, spoilt>>
      /\ emitted' = emitted + 1 /\ period' = period + 1 /\ emitted < SyncsAfter(i)
  BY FirstIsI DEF VideoSynchronization, SyncIsNext, ShownInv, IndInv, TypeOK
<1>2. i \in 1 .. Len(movie)
  BY <1>1 DEF SyncsAfter
<1>3. SyncsAfter(i) = IF IsRef(i) THEN IF RunEnds(i) THEN 1 ELSE 0
                      ELSE IF RunEnds(i) THEN 2 ELSE 1
  BY <1>2 DEF SyncsAfter, RunEnds
<1>4. period + SyncsAfter(i) = emitted + IF RunEnds(i) THEN i ELSE i - 1
  BY DEF ShownInv, Synchronizations
<1>5. Synchronizations'
  <2>1. emitted' <= SyncsAfter(i) /\ SyncsAfter(i) \in Nat
    BY <1>1, <1>3
  <2>2. period' + SyncsAfter(i) = emitted' + IF RunEnds(i) THEN i ELSE i - 1
    <3>1. CASE RunEnds(i)
      BY <1>1, <1>4, <2>1, <3>1
    <3>2. CASE ~RunEnds(i)
      BY <1>1, <1>4, <2>1, <3>2
    <3>. QED
      BY <3>1, <3>2
  <2>. QED
    BY <1>1, <2>1, <2>2, UnchangedMovie DEF Synchronizations
<1>6. RefBefore(digested + 1)' = RefBefore(i + 1)
  BY <1>1, RefBeforeFixed
<1>7. LatestIsReference'
  BY <1>1, <1>6, UnchangedMovie DEF ShownInv, LatestIsReference
<1>8. LET latest == RefBefore(i + 1) IN
      latest \in 1 .. i /\ IsRef(latest) /\ NoRefAfter(latest, i)
  BY <1>2 DEF ShownInv, LatestIsReference
<1>. SUFFICES ASSUME changes = 0, ~spoilt PROVE SlotsHold' /\ ShownInOrder'
  BY <1>1, <1>5, <1>7 DEF SlotsHold, ShownInOrder
<1>9. /\ future # "Unassigned"
      /\ past # "Unassigned" => future # past /\ Holds(future, RefBefore(RefBefore(i + 1)))
      /\ IsRef(i) => outputSlot = LaterRef
      /\ ~IsRef(i) => /\ past # "Unassigned"
                      /\ Holds("B", i)
                      /\ outputSlot = IF emitted = 0 THEN "B" ELSE past
  BY <1>2 DEF ShownInv, SlotsHold
<1>10. /\ {future, past, current, outputSlot, shown} \cap Dropped = {}
       /\ {future, past} \subseteq {"Unassigned", "Dropped_IP"} \cup RefFrames
       /\ LaterRef \in RefFrames => Holds(LaterRef, RefBefore(i + 1))
  BY DEF ShownInv, UsedInv, IndInv, TypeOK
<1>11. LaterRef \in RefFrames /\ Holds(LaterRef, RefBefore(i + 1))
  BY <1>9, <1>10 DEF LaterRef, Dropped
<1>12. shown' = outputSlot /\ outputSlot' = IF outputSlot = "B" THEN past ELSE outputSlot
  BY <1>10 DEF VideoSynchronization, EmitFrame, Dropped
<1>13. \A f, k : Holds(f, k)' = Holds(f, k)
  BY <1>1 DEF Holds
<1>14. SlotsHold'
  <2>1. RefBefore(RefBefore(digested + 1))' = RefBefore(RefBefore(i + 1))
    BY <1>1, <1>6, RefBeforeFixed
  <2>2. past # "Unassigned" => Holds(future, RefBefore(RefBefore(digested + 1)))'
    BY <1>1, <1>9, <2>1 DEF Holds
  <2>3. Holds("B", digested)' = Holds("B", i)
    BY <1>1 DEF Holds
  <2>4. IsRef(i) => outputSlot' = LaterRef /\ LaterRef' = LaterRef
    BY <1>1, <1>9, <1>11, <1>12 DEF LaterRef, RefFrames
  <2>5. ~IsRef(i) => outputSlot' = past
    BY <1>9, <1>10, <1>12
  <2>6. emitted' # 0
    BY <1>1
  <2>7. IsRef(digested)' = IsRef(i)
    BY <1>1 DEF IsRef
  <2>. QED
    BY <1>1, <1>9, <2>2, <2>3, <2>4, <2>5, <2>6, <2>7 DEF SlotsHold
<1>15. Holds(outputSlot, ShownAt(period'))
  <2>1. CASE IsRef(i)
    <3>1. RunEnds(i) /\ period' = i
      BY <1>1, <1>3, <1>4, <2>1
    <3>2. ShownAt(i) = RefBefore(i + 1)
      BY <1>1, <1>2, <1>8, <3>1, ReferenceDue
    <3>. QED
      BY <1>9, <1>11, <2>1, <3>1, <3>2
  <2>2. CASE ~IsRef(i) /\ emitted = 0
    <3>1. i # 1
      BY <1>1, <2>2 DEF IsRef
    <3>2. period' = i - 1
      BY <1>1, <1>3, <1>4, <2>2
    <3>3. i - 1 \in 1 .. Len(movie) /\ (i - 1) + 1 = i /\ i - 1 # Len(movie)
      BY <1>1, <1>2, <3>1
    <3>4. ~RunEnds(i - 1)
      BY <2>2, <3>3 DEF RunEnds
    <3>5. ShownAt(i - 1) = i
      BY <1>1, <3>3, <3>4, BDue
    <3>. QED
      BY <1>9, <2>2, <3>2, <3>5
  <2>3. CASE ~IsRef(i) /\ emitted # 0
    <3>1. RunEnds(i) /\ period' = i
      BY <1>1, <1>3, <1>4, <2>3
    <3>2. ShownAt(i) = RefBefore(i + 1)
      BY <1>1, <1>2, <1>8, <3>1, ReferenceDue
    <3>3. outputSlot = past /\ past = LaterRef
      BY <1>9, <2>3 DEF LaterRef
    <3>. QED
      BY <1>11, <3>1, <3>2, <3>3
  <2>. QED
    BY <2>1, <2>2, <2>3
<1>16. Due' = ShownAt(period')
  BY <1>1 DEF Due, ShownAt, DisplayPosition, IsRef
<1>17. Holds(shown, Due)'
  BY <1>1, <1>12, <1>15, <1>16 DEF Holds
<1>. QED
  BY <1>14, <1>17 DEF ShownInOrder

LEMMA ShownStep == ShownInv /\ [Next]_vars => ShownInv'
<1>. SUFFICES ASSUME ShownInv, [Next]_vars PROVE ShownInv'
  OBVIOUS
<1>1. IndInv' /\ UsedInv'
  BY StepInv, UsedStep DEF ShownInv
<1>2. CASE DigestPicture
  <2>1. ShownInOrder'
    BY <1>2 DEF DigestPicture, ShownInOrder, JustSynchronized
  <2>. QED
    BY <1>1, <1>2, <2>1, SynchronizationsDigest, LatestDigest, SlotsDigest
    DEF ShownInv, DigestPicture, Advance
<1>3. CASE VideoSynchronization
  BY <1>1, <1>3, ShownSynchronization DEF ShownInv
<1>4. ASSUME UNCHANGED <<movie, digested, emitted, period>>
      PROVE  Synchronizations' /\ LatestIsReference'
  <2>1. RefBefore(digested + 1)' = RefBefore(digested + 1)
    BY <1>4, RefBeforeFixed
  <2>. QED
    BY <1>4, <2>1, UnchangedMovie DEF ShownInv, Synchronizations, LatestIsReference
<1>5. ASSUME UNCHANGED <<movie, digested, emitted, period, slots, changes, frames, shown, spoilt>>
      PROVE  SlotsHold' /\ (Holds(shown, Due)' = Holds(shown, Due))
  <2>1. RefBefore(RefBefore(digested + 1))' = RefBefore(RefBefore(digested + 1))
    <3>1. RefBefore(digested + 1)' = RefBefore(digested + 1)
      BY <1>5, RefBeforeFixed
    <3>. QED
      BY <1>5, <3>1, RefBeforeFixed
  <2>2. Holds(future, RefBefore(RefBefore(digested + 1)))'
          = Holds(future, RefBefore(RefBefore(digested + 1)))
    BY <1>5, <2>1 DEF Holds, slots
  <2>3. Holds("B", digested)' = Holds("B", digested) /\ IsRef(digested)' = IsRef(digested)
    BY <1>5 DEF Holds, IsRef
  <2>4. LaterRef' = LaterRef
    BY <1>5 DEF LaterRef, slots
  <2>5. Due' = Due
    BY <1>5 DEF Due, DisplayPosition, IsRef
  <2>6. Holds(shown, Due)' = Holds(shown, Due)
    BY <1>5, <2>5 DEF Holds
  <2>. QED
    BY <1>5, <2>2, <2>3, <2>4, <2>6 DEF ShownInv, SlotsHold, slots
<1>6. CASE SkipPicture
  <2>1. CASE PassOver
    <3>1. Synchronizations' /\ LatestIsReference'
      BY <2>1, SynchronizationsDigest, LatestDigest DEF PassOver, Advance
    <3>2. changes' = 0 => spoilt'
      BY <2>1, RefusedSlicesKeep, RefusedIsB DEF PassOver, ShownInv, UsedInv
    <3>. QED
      BY <1>1, <3>1, <3>2 DEF ShownInv, SlotsHold, ShownInOrder
  <2>2. CASE ~PassOver
    BY <1>1, <1>4, <1>5, <1>6, <2>2, SkipCases DEF ShownInv, ShownInOrder, JustSynchronized
  <2>. QED
    BY <2>1, <2>2
<1>7. ASSUME NEW level \in Levels, SetDropAggressiveness(level) PROVE ShownInv'
  <2>1. changes' # 0
    BY <1>7 DEF SetDropAggressiveness, ShownInv, IndInv, TypeOK
  <2>. QED
    BY <1>1, <1>4, <1>7, <2>1 DEF SetDropAggressiveness, ShownInv, SlotsHold, ShownInOrder
<1>8. CASE UNCHANGED vars
  BY <1>1, <1>4, <1>5, <1>8 DEF vars, slots, ShownInv, ShownInOrder, JustSynchronized
<1>. QED
  BY <1>2, <1>3, <1>6, <1>7, <1>8 DEF Next

\* As long as the player drops nothing and no refused picture's slices have gone to
\* the frame of another, the k-th synchronization of the movie shows
\* the k-th picture in display order, decoded from the right references: for
\* movies of any length and any arrangement of picture types, the
\* synchronizations that the converter places and the slots that the decoder
\* turns over agree. (ConvertMPEGVideo, CVidStream::EmitFrame)
THEOREM InDisplayOrder == Spec => []ShownInOrder
<1>1. Spec => []ShownInv
  BY ShownInit, ShownStep, PTL DEF Spec
<1>2. ShownInv => ShownInOrder
  BY DEF ShownInv
<1>. QED
  BY <1>1, <1>2, PTL
=============================================================================
