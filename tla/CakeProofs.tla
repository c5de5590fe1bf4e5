------------------------------ MODULE CakeProofs ------------------------------
(***************************************************************************)
(* Proofs about lwmCake for every movie, size of the buffer, frame rate    *)
(* and number of streams.                                                  *)
(*                                                                         *)
(* The bytes: FillBuffer is right only because it reads when nothing is    *)
(* left in the buffer.  As long as the reader returns all it is asked for, *)
(* the buffer is empty, full to its end, or the file has ended.            *)
(*                                                                         *)
(* The time: a frame that waits, waits for the time its number says, and   *)
(* nothing is decoded meanwhile.                                           *)
(*                                                                         *)
(* The audio: the list of sources is sorted, so the streams of a device    *)
(* come one after another, and while audio is synchronized they hold the   *)
(* same samples until the first of them has taken all.                     *)
(***************************************************************************)
EXTENDS Cake, WellFoundedInduction, FiniteSetTheorems, TLAPS

FileTypes ==
    /\ movie \in Movies
    /\ filePos \in Nat /\ start \in Nat /\ used \in Nat /\ fed \in Nat
    /\ eof \in BOOLEAN
    /\ start + used <= BufferSize
    /\ filePos = fed + used
    /\ filePos <= Length

\* The buffer holds what comes after the bytes the demultiplexer has digested.
HoldsTheNext == \A i \in 0 .. used - 1 : buffer[start + i] = fed + i + 1

ReadInFull == used = 0 \/ eof \/ start + used = BufferSize

EndKnown == eof => filePos = Length

EatenInOrder == \E n \in Nat : eaten = [i \in 1 .. n |-> fed - n + i]

Buffered ==
    /\ FileTypes
    /\ DOMAIN buffer = 0 .. BufferSize - 1
    /\ HoldsTheNext
    /\ ReadInFull
    /\ EndKnown
    /\ EatenInOrder

\* Nothing to feed means that nothing is left in the file.
FedAtTheEnd == at = "feeding" /\ used = 0 => fed = Length

FinishedIdly == answer = "Finished" => at = "idle" /\ fed = Length

BInv == Buffered /\ FedAtTheEnd /\ FinishedIdly

Clocks ==
    /\ now \in Nat
    /\ resolution \in Nat
    /\ clock \in [first : BOOLEAN, start : Nat, timestamp : Nat]
    /\ waiting \in [on : BOOLEAN, dropped : BOOLEAN, until : Nat]

WaitsForItsTime == waiting.on => waiting.until = clock.start + clock.timestamp * FramePeriod

WaitsIdly ==
    /\ waiting.on => phase = "decoding" /\ at \in {"idle", "waiting"}
    /\ at = "waiting" => waiting.on

TInv == Clocks /\ WaitsForItsTime /\ WaitsIdly

Control ==
    /\ phase \in {"info", "decoding", "failed"}
    /\ at \in {"idle", "waiting", "filling", "feeding", "sources", "crashed"}
    /\ source \in 0 .. NumStreams
    /\ shown \in Nat
    /\ decoded \in Nat
    /\ next \in [Streams -> 0 .. decoded]

-----------------------------------------------------------------------------
(* Units.                                                                  *)

LEMMA Ends ==
    ASSUME NEW m \in Movies
    PROVE  /\ Len(m) \in DOMAIN m
           /\ DOMAIN m \subseteq Nat
           /\ \A i \in DOMAIN m : m[i].end \in Nat /\ m[i].end <= m[Len(m)].end
<1>1. m \in Seq([kind : STRING, end : Nat]) /\ m # <<>>
    BY CakeAssumption
<1>2. \A i, k \in DOMAIN m : i < k => m[i].end < m[k].end
    BY CakeAssumption
<1>3. Len(m) \in DOMAIN m /\ DOMAIN m = 1 .. Len(m) /\ Len(m) \in Nat
    BY <1>1
<1>4. \A i \in DOMAIN m : m[i].end \in Nat
    <2> DEFINE U == [kind : STRING, end : Nat]
    <2>1. \A u \in U : u.end \in Nat
        OBVIOUS
    <2>2. m \in Seq(U)
        BY <1>1
    <2> HIDE DEF U
    <2>3. \A i \in DOMAIN m : m[i] \in U
        BY <2>2
    <2> QED BY <2>1, <2>3
<1>5. ASSUME NEW i \in DOMAIN m
      PROVE  m[i].end <= m[Len(m)].end
    <2>1. i = Len(m) \/ i < Len(m)
        BY <1>3
    <2>2. m[i].end \in Nat /\ m[Len(m)].end \in Nat
        BY <1>3, <1>4
    <2> QED BY <1>2, <1>3, <2>1, <2>2
<1> QED BY <1>3, <1>4, <1>5

LEMMA LeastOf ==
    ASSUME NEW S \in SUBSET Nat, S # {}
    PROVE  \E x \in S : \A y \in S : ~(y < x)
<1>1. \E x \in S : \A y \in S : <<y, x>> \notin OpToRel(<, Nat)
    BY NatLessThanWellFounded, WFMin
<1> QED BY <1>1 DEF OpToRel

LEMMA UnitEnds ==
    ASSUME movie \in Movies, fed \in Nat, fed < Length
    PROVE  /\ Unit \in DOMAIN movie /\ movie[Unit].end > fed
           /\ \A k \in 1 .. Unit - 1 : movie[k].end <= fed
<1> DEFINE S == {i \in DOMAIN movie : movie[i].end > fed}
<1>1. S \subseteq Nat /\ S # {}
    <2>1. Len(movie) \in DOMAIN movie /\ DOMAIN movie \subseteq Nat
        BY Ends
    <2>2. movie[Len(movie)].end > fed
        BY Ends, <2>1 DEF Length
    <2> QED BY <2>1, <2>2
<1>2. PICK x \in S : \A y \in S : ~(y < x)
    BY <1>1, LeastOf
<1>3. ASSUME NEW k \in 1 .. x - 1
      PROVE  movie[k].end <= fed
    <2>1. x \in Nat /\ x \in DOMAIN movie /\ movie \in Seq([kind : STRING, end : Nat])
        BY <1>1, CakeAssumption
    <2>2. k \in DOMAIN movie /\ k < x /\ k \in Nat
        BY <2>1
    <2>3. k \notin S
        BY <1>2, <2>2
    <2>4. movie[k].end \in Nat
        BY <2>2, Ends
    <2> QED BY <2>2, <2>3, <2>4
<1>4. \E i \in DOMAIN movie : movie[i].end > fed /\ \A k \in 1 .. i - 1 : movie[k].end <= fed
    BY <1>2, <1>3
<1> QED BY <1>4 DEF Unit

LEMMA MissingBytes ==
    ASSUME Buffered
    PROVE  /\ Length \in Nat /\ fed <= Length
           /\ Missing \in Nat /\ fed + Missing <= Length
           /\ fed < Length => Missing > 0
           /\ Digestible \in Nat /\ Digestible <= used /\ Digestible <= Missing
           /\ Digestible = used \/ Digestible = Missing
<1>1. movie \in Movies /\ fed \in Nat /\ used \in Nat
    BY DEF Buffered, FileTypes
<1>2. Length \in Nat
    BY <1>1, Ends DEF Length
<1>3. fed <= Length
    BY <1>1, <1>2 DEF Buffered, FileTypes
<1>4. Missing \in Nat /\ fed + Missing <= Length /\ (fed < Length => Missing > 0)
    <2>1. CASE fed = Length
        BY <1>1, <1>2, <2>1 DEF Missing
    <2>2. CASE fed < Length
        <3>1. Unit \in DOMAIN movie /\ movie[Unit].end > fed
            BY <1>1, <2>2, UnitEnds
        <3>2. movie[Unit].end \in Nat /\ movie[Unit].end <= Length
            BY <1>1, <3>1, Ends DEF Length
        <3>3. Missing = movie[Unit].end - fed
            BY <1>1, <1>2, <2>2 DEF Missing
        <3> QED BY <1>1, <1>2, <3>1, <3>2, <3>3
    <2> QED BY <1>1, <1>2, <1>3, <2>1, <2>2
<1> QED BY <1>1, <1>2, <1>3, <1>4 DEF Digestible, Least

-----------------------------------------------------------------------------
(* The buffer.                                                             *)

LEMMA FilledInFull ==
    ASSUME ~ShortReads, Buffered, Fill
    PROVE  Buffered' /\ (used' = 0 => fed' = Length')
<1>1. UNCHANGED <<movie, fed, eaten>> /\ Length' = Length
    BY DEF Fill, fixed, feeding, Length
<1>2. /\ filePos \in Nat /\ start \in Nat /\ used \in Nat /\ fed \in Nat
      /\ start + used <= BufferSize /\ filePos = fed + used /\ filePos <= Length
      /\ Length \in Nat /\ BufferSize \in Nat /\ BufferSize > 0
    BY MissingBytes, CakeAssumption DEF Buffered, FileTypes
<1>3. CASE UNCHANGED file /\ (used = 0 => eof)
    BY <1>1, <1>2, <1>3
       DEF file, Buffered, FileTypes, HoldsTheNext, ReadInFull, EndKnown, EatenInOrder
<1>4. CASE ~eof /\ FillBuffer
    <2> DEFINE from == IF used = 0 THEN 0 ELSE start
               space == BufferSize - (from + used)
    <2>1. CASE used # 0
        <3>1. space = 0 /\ from = start
            BY <1>2, <1>4, <2>1 DEF Buffered, ReadInFull
        <3>2. UNCHANGED <<filePos, buffer, start, used, eof>>
            BY <1>4, <3>1 DEF FillBuffer
        <3> QED BY <1>1, <1>2, <2>1, <3>2
                DEF Buffered, FileTypes, HoldsTheNext, ReadInFull, EndKnown, EatenInOrder
    <2>2. CASE used = 0
        <3>1. from = 0 /\ space = BufferSize /\ space # 0
            BY <1>2, <2>2
        <3>2. PICK r \in ReadResults(space) :
                /\ buffer' = [i \in DOMAIN buffer |->
                        IF i \in from .. from + r[1] - 1 THEN filePos + i - from + 1 ELSE buffer[i]]
                /\ filePos' = filePos + r[1]
                /\ start' = from
                /\ used' = used + r[1]
                /\ eof' = r[2]
            BY <1>4, <3>1, Zenon DEF FillBuffer
        <3> DEFINE k == r[1]
                   left == Length - filePos
        <3>3. /\ k = Least(BufferSize, left) /\ r[2] \in BOOLEAN
              /\ r[2] => k = left
              /\ k < BufferSize => r[2]
            <4>1. r \in ReadResults(BufferSize)
                BY <3>1, <3>2
            <4> QED BY <4>1 DEF ReadResults
        <3> HIDE DEF k, left
        <3>4. /\ k \in Nat /\ k <= BufferSize /\ filePos + k <= Length
              /\ k = BufferSize \/ k = left
            BY <1>2, <3>3 DEF Least, left
        <3>5. /\ filePos' = filePos + k /\ start' = 0 /\ used' = k /\ eof' = r[2]
              /\ DOMAIN buffer' = DOMAIN buffer
              /\ \A i \in DOMAIN buffer : i \in 0 .. k - 1 => buffer'[i] = filePos + i + 1
            BY <1>2, <2>2, <3>1, <3>2, <3>4 DEF k
        <3>6. FileTypes'
            BY <1>1, <1>2, <2>2, <3>3, <3>4, <3>5 DEF Buffered, FileTypes
        <3>7. HoldsTheNext'
            <4>1. ASSUME NEW i \in 0 .. k - 1
                  PROVE  buffer'[0 + i] = fed + i + 1
                <5>1. i \in DOMAIN buffer /\ 0 + i = i
                    BY <1>2, <3>4 DEF Buffered
                <5> QED BY <1>2, <2>2, <3>5, <5>1
            <4> QED BY <1>1, <3>5, <4>1 DEF HoldsTheNext
        <3>8. ReadInFull'
            BY <1>2, <3>3, <3>4, <3>5 DEF ReadInFull
        <3>9. EndKnown'
            BY <1>1, <1>2, <3>3, <3>4, <3>5 DEF EndKnown, left
        <3>10. used' = 0 => fed' = Length'
            BY <1>1, <1>2, <2>2, <3>3, <3>4, <3>5 DEF left
        <3> QED BY <1>1, <3>5, <3>6, <3>7, <3>8, <3>9, <3>10 DEF Buffered, EatenInOrder
    <2> QED BY <2>1, <2>2
<1>5. CASE eof /\ UNCHANGED file
    BY <1>3, <1>5
<1>6. CASE used = BufferSize /\ UNCHANGED file
    BY <1>2, <1>3, <1>6
<1> QED BY <1>4, <1>5, <1>6 DEF Fill, FillBuffer

LEMMA FedInOrder ==
    ASSUME Buffered, FeedData, UNCHANGED movie
    PROVE  Buffered'
<1>1. /\ fed' = fed + Digestible
      /\ eaten' = [i \in 1 .. Digestible |-> buffer[start + i - 1]]
      /\ start' = start + Digestible
      /\ used' = used - Digestible
      /\ UNCHANGED <<filePos, buffer, eof>> /\ Length' = Length
    BY DEF FeedData, Length
<1>2. /\ Digestible \in Nat /\ Digestible <= used /\ start \in Nat /\ used \in Nat /\ fed \in Nat
      /\ start + used <= BufferSize /\ BufferSize \in Nat
    BY MissingBytes, CakeAssumption DEF Buffered, FileTypes
<1> DEFINE n == Digestible
<1> HIDE DEF n
<1>3. FileTypes'
    <2>1. fed + n \in Nat /\ start + n \in Nat /\ used - n \in Nat
        BY <1>2 DEF n
    <2>2. (start + n) + (used - n) <= BufferSize /\ fed + used = (fed + n) + (used - n)
        BY <1>2 DEF n
    <2> QED BY <1>1, <1>2, <2>1, <2>2 DEF n, Buffered, FileTypes
<1>4. HoldsTheNext'
    <2>1. ASSUME NEW i \in 0 .. (used - n) - 1
          PROVE  buffer[start + n + i] = fed + n + i + 1
        <3>1. n + i \in 0 .. used - 1 /\ start + (n + i) = start + n + i
              /\ fed + (n + i) + 1 = fed + n + i + 1
            BY <1>2 DEF n
        <3> QED BY <3>1 DEF Buffered, HoldsTheNext
    <2> QED BY <1>1, <2>1 DEF n, HoldsTheNext
<1>5. ReadInFull'
    BY <1>1, <1>2 DEF Buffered, ReadInFull
<1>6. EatenInOrder'
    <2>1. ASSUME NEW i \in 1 .. n
          PROVE  buffer[start + i - 1] = (fed + n) - n + i
        <3>1. i - 1 \in 0 .. used - 1 /\ start + (i - 1) = start + i - 1
              /\ fed + (i - 1) + 1 = (fed + n) - n + i
            BY <1>2 DEF n
        <3> QED BY <3>1 DEF Buffered, HoldsTheNext
    <2>2. eaten' = [i \in 1 .. n |-> fed' - n + i]
        BY <1>1, <2>1 DEF n
    <2> QED BY <1>2, <2>2 DEF n, EatenInOrder
<1> QED BY <1>1, <1>3, <1>4, <1>5, <1>6 DEF Buffered, EndKnown

\* The steps that do not touch the buffer.
Others == \/ Call \/ DisplayWaiting \/ HandleSource \/ AskDisabledStream \/ LastSource
          \/ \E s \in Streams, d \in Devices \cup {0} : SetStreamAudioDevice(s, d)
          \/ \E d \in Devices : Underrun(d)
          \/ Tick
          \/ UNCHANGED vars

LEMMA Steps == [Next]_vars => Fill \/ ReadMovieInfo \/ Decode \/ Others
<1> QED BY DEF Next, Step, Others

LEMMA OthersKeepTheBuffer ==
    ASSUME Others
    PROVE  /\ UNCHANGED <<movie, filePos, buffer, start, used, eof, fed, eaten>>
           /\ at' # "feeding" \/ at' = at
           /\ answer' # "Finished" \/ (answer' = answer /\ (at' = at \/ at # "idle"))
<1>1. CASE Call
    BY <1>1 DEF Call, fixed, file, feeding
<1>2. CASE DisplayWaiting
    BY <1>2 DEF DisplayWaiting, HandleVideoSync, fixed, file, feeding
<1>3. CASE HandleSource
    BY <1>3 DEF HandleSource, fixed, file, feeding
<1>4. CASE AskDisabledStream \/ LastSource
    BY <1>4 DEF AskDisabledStream, LastSource, fixed, file, feeding
<1>5. CASE \E s \in Streams, d \in Devices \cup {0} : SetStreamAudioDevice(s, d)
    BY <1>5 DEF SetStreamAudioDevice, fixed, file, feeding
<1>6. CASE \E d \in Devices : Underrun(d)
    BY <1>6 DEF Underrun, fixed, file, feeding
<1>7. CASE Tick \/ UNCHANGED vars
    BY <1>7 DEF Tick, vars, fixed, file, feeding
<1> QED BY <1>1, <1>2, <1>3, <1>4, <1>5, <1>6, <1>7 DEF Others

LEMMA InitBytes == Init => BInv
<1> SUFFICES ASSUME Init PROVE BInv
    OBVIOUS
<1>1. Length \in Nat
    BY Ends DEF Init, Length
<1>2. FileTypes
    <2>1. BufferSize \in Nat
        BY CakeAssumption
    <2>2. /\ movie \in Movies /\ filePos = 0 /\ start = 0 /\ used = 0 /\ fed = 0 /\ eof = FALSE
        BY DEF Init
    <2>3. /\ filePos \in Nat /\ start \in Nat /\ used \in Nat /\ fed \in Nat
          /\ start + used <= BufferSize /\ filePos = fed + used /\ filePos <= Length
        BY <1>1, <2>1, <2>2
    <2> QED BY <2>2, <2>3 DEF FileTypes
<1>3. EatenInOrder
    <2>1. eaten = [i \in 1 .. 0 |-> fed - 0 + i]
        BY DEF Init
    <2> QED BY <2>1 DEF EatenInOrder
<1> QED BY <1>2, <1>3
        DEF Init, BInv, Buffered, HoldsTheNext, ReadInFull, EndKnown, FedAtTheEnd, FinishedIdly

LEMMA BytesStep ==
    ASSUME ~ShortReads, BInv, [Next]_vars
    PROVE  BInv'
<1>1. CASE Fill
    <2>1. Buffered' /\ (used' = 0 => fed' = Length')
        BY <1>1, FilledInFull DEF BInv
    <2>2. at = "filling" /\ answer' = answer
        BY <1>1 DEF Fill
    <2> QED BY <2>1, <2>2 DEF BInv, FedAtTheEnd, FinishedIdly
<1>2. CASE ReadMovieInfo
    <2>1. /\ at = "feeding" /\ FeedData /\ movie' = movie /\ at' \in {"idle", "filling"}
          /\ answer' # "Finished" \/ answer' = answer
        BY <1>2 DEF ReadMovieInfo, fixed
    <2>2. Buffered'
        BY <2>1, FedInOrder DEF BInv
    <2> QED BY <2>1, <2>2 DEF BInv, FedAtTheEnd, FinishedIdly
<1>3. CASE Decode
    <2>1. /\ at = "feeding" /\ FeedData /\ movie' = movie /\ at' # "feeding"
          /\ \/ answer' # "Finished" \/ answer' = answer
             \/ at' = "idle" /\ Digestible = 0 /\ used = 0
        BY <1>3 DEF Decode, fixed, DecodeNothing, DecodeWorked, DecodeError, DecodeFrame,
                    FirstFrame, EarlyFrame, LateFrame, HandleVideoSync
    <2>2. Buffered'
        BY <2>1, FedInOrder DEF BInv
    <2>3. CASE answer' # "Finished" \/ answer' = answer
        BY <2>1, <2>2, <2>3 DEF BInv, FedAtTheEnd, FinishedIdly
    <2>4. CASE at' = "idle" /\ Digestible = 0 /\ used = 0
        <3>1. fed = Length /\ fed' = fed + 0 /\ Length' = Length /\ fed \in Nat
            BY <2>1, <2>4 DEF BInv, FedAtTheEnd, FeedData, Length, Buffered, FileTypes
        <3> QED BY <2>1, <2>2, <2>4, <3>1 DEF BInv, FedAtTheEnd, FinishedIdly
    <2> QED BY <2>1, <2>3, <2>4
<1>4. CASE Others
    <2>1. Length' = Length
        BY <1>4, OthersKeepTheBuffer DEF Length
    <2> QED BY <1>4, <2>1, OthersKeepTheBuffer
            DEF BInv, Buffered, FileTypes, HoldsTheNext, ReadInFull, EndKnown, EatenInOrder,
                FedAtTheEnd, FinishedIdly
<1> QED BY <1>1, <1>2, <1>3, <1>4, Steps

-----------------------------------------------------------------------------
(* The time.                                                               *)

LEMMA Products == \A a, b \in Nat : a * b \in Nat
<1> QED OBVIOUS

LEMMA FrameTimes ==
    ASSUME Clocks
    PROVE  /\ FrameTime \in Nat
           /\ FrameTime = clock.start + (clock.timestamp + 1) * FramePeriod
<1>1. clock.start \in Nat /\ clock.timestamp + 1 \in Nat /\ FramePeriod \in Nat
    BY CakeAssumption DEF Clocks
<1>2. (clock.timestamp + 1) * FramePeriod \in Nat
    BY <1>1, Products
<1> QED BY <1>1, <1>2 DEF FrameTime

LEMMA InitTimes == Init => TInv
<1> QED BY CakeAssumption DEF Init, TInv, Clocks, WaitsForItsTime, WaitsIdly

LEMMA DisplayTimes ==
    ASSUME TInv, DisplayWaiting
    PROVE  TInv'
<1>1. /\ at = "waiting" /\ at' \in {"idle", "sources"} /\ phase' = phase
      /\ UNCHANGED <<now, resolution, clock>>
      /\ \/ waiting' = waiting /\ at' = "idle"
         \/ waiting' = [waiting EXCEPT !.on = FALSE]
    BY DEF DisplayWaiting, HandleVideoSync, fixed
<1>2. Clocks'
    BY <1>1 DEF TInv, Clocks
<1>3. (waiting' = waiting /\ at' = "idle") \/ ~waiting'.on
    BY <1>1 DEF TInv, Clocks
<1> QED BY <1>1, <1>2, <1>3 DEF TInv, WaitsForItsTime, WaitsIdly

LEMMA FrameStep ==
    ASSUME TInv, DecodeFrame, phase = "decoding", at = "feeding", UNCHANGED <<now, resolution>>
    PROVE  TInv'
<1>1. phase' = phase /\ ~waiting.on /\ clock \in [first : BOOLEAN, start : Nat, timestamp : Nat]
      /\ now \in Nat
    BY DEF DecodeFrame, TInv, WaitsIdly, Clocks
<1>2. CASE \E dropped \in BOOLEAN : FirstFrame(dropped)
    <2>1. /\ clock' = [first |-> FALSE, start |-> now, timestamp |-> clock.timestamp + 1]
          /\ waiting' = waiting /\ at' = "sources"
        BY <1>2 DEF FirstFrame, HandleVideoSync
    <2>2. Clocks'
        BY <1>1, <2>1 DEF TInv, Clocks
    <2> QED BY <1>1, <2>1, <2>2 DEF TInv, WaitsForItsTime, WaitsIdly
<1>3. CASE \E dropped \in BOOLEAN : EarlyFrame(dropped)
    <2>1. PICK dropped \in BOOLEAN : EarlyFrame(dropped)
        BY <1>3
    <2>2. /\ clock' = [clock EXCEPT !.timestamp = @ + 1]
          /\ waiting' = [on |-> TRUE, dropped |-> dropped, until |-> FrameTime]
          /\ at' = "idle"
        BY <2>1 DEF EarlyFrame
    <2>3. FrameTime \in Nat /\ FrameTime = clock.start + (clock.timestamp + 1) * FramePeriod
        BY FrameTimes DEF TInv
    <2>4. Clocks'
        BY <1>1, <2>2, <2>3 DEF TInv, Clocks
    <2>5. clock'.start = clock.start /\ clock'.timestamp = clock.timestamp + 1
          /\ waiting'.until = FrameTime
        BY <1>1, <2>2
    <2>6. WaitsForItsTime'
        BY <2>3, <2>5 DEF WaitsForItsTime
    <2> QED BY <1>1, <2>2, <2>4, <2>6 DEF TInv, WaitsIdly
<1>4. CASE \E dropped \in BOOLEAN : LateFrame(dropped)
    <2>1. /\ now >= FrameTime /\ FrameTime \in Nat
          /\ clock' = [clock EXCEPT !.timestamp = @ + 1,
                                    !.start = IF now - FrameTime > MaxSlip
                                              THEN @ + (now - FrameTime) ELSE @]
          /\ waiting' = waiting /\ at' = "sources"
        BY <1>4, FrameTimes DEF LateFrame, HandleVideoSync, TInv
    <2>2. now - FrameTime \in Nat
        BY <1>1, <2>1
    <2>3. PICK s \in Nat : clock' = [clock EXCEPT !.timestamp = @ + 1, !.start = s]
        <3>1. CASE now - FrameTime > MaxSlip
            <4>1. clock.start + (now - FrameTime) \in Nat
                BY <1>1, <2>2
            <4> QED BY <2>1, <3>1, <4>1
        <3>2. CASE ~(now - FrameTime > MaxSlip)
            BY <1>1, <2>1, <3>2
        <3> QED BY <3>1, <3>2
    <2>4. clock' \in [first : BOOLEAN, start : Nat, timestamp : Nat]
        <3>1. clock.timestamp + 1 \in Nat
            BY <1>1
        <3>2. [clock EXCEPT !.timestamp = clock.timestamp + 1]
                \in [first : BOOLEAN, start : Nat, timestamp : Nat]
            BY <1>1, <3>1
        <3>3. clock' = [[clock EXCEPT !.timestamp = clock.timestamp + 1] EXCEPT !.start = s]
            BY <2>3
        <3> QED BY <3>2, <3>3
    <2>5. Clocks'
        BY <1>1, <2>1, <2>4 DEF TInv, Clocks
    <2> QED BY <1>1, <2>1, <2>5 DEF TInv, WaitsForItsTime, WaitsIdly
<1> QED BY <1>2, <1>3, <1>4 DEF DecodeFrame

LEMMA TimesStep ==
    ASSUME TInv, [Next]_vars
    PROVE  TInv'
<1>1. CASE DisplayWaiting
    BY <1>1, DisplayTimes
<1>2. CASE Decode
    <2>1. phase = "decoding" /\ at = "feeding" /\ UNCHANGED <<now, resolution>> /\ ~waiting.on
        BY <1>2 DEF Decode, fixed, TInv, WaitsIdly
    <2>2. CASE DecodeFrame
        BY <2>1, <2>2, FrameStep
    <2>3. CASE DecodeNothing \/ DecodeWorked \/ DecodeError
        <3>1. UNCHANGED <<clock, waiting>> /\ at' \in {"idle", "filling"}
            BY <2>3 DEF DecodeNothing, DecodeWorked, DecodeError, timing
        <3> QED BY <2>1, <3>1 DEF TInv, Clocks, WaitsForItsTime, WaitsIdly
    <2> QED BY <1>2, <2>2, <2>3 DEF Decode
<1>3. CASE Tick
    <2>1. now' = now + 1 /\ UNCHANGED <<resolution, clock, waiting, at, phase>>
        BY <1>3 DEF Tick, fixed, timing
    <2> QED BY <2>1 DEF TInv, Clocks, WaitsForItsTime, WaitsIdly
<1>4. CASE Call
    <2>1. /\ at = "idle" /\ UNCHANGED <<now, resolution, clock, waiting, phase>>
          /\ at' = (IF phase = "decoding" /\ waiting.on THEN "waiting" ELSE "filling")
        BY <1>4 DEF Call, fixed, timing
    <2> QED BY <2>1 DEF TInv, Clocks, WaitsForItsTime, WaitsIdly
<1>5. CASE ReadMovieInfo
    <2>1. /\ at = "feeding" /\ UNCHANGED <<now, resolution, clock, waiting>>
          /\ at' \in {"idle", "filling"} /\ phase = "info"
        BY <1>5 DEF ReadMovieInfo, fixed, timing
    <2> QED BY <2>1 DEF TInv, Clocks, WaitsForItsTime, WaitsIdly
<1>6. CASE Fill \/ HandleSource \/ AskDisabledStream \/ LastSource
    <2>1. /\ at \in {"filling", "sources"} /\ UNCHANGED <<now, resolution, clock, waiting, phase>>
          /\ at' # "waiting"
        BY <1>6 DEF Fill, HandleSource, AskDisabledStream, LastSource, fixed, timing
    <2> QED BY <2>1 DEF TInv, Clocks, WaitsForItsTime, WaitsIdly
<1>7. CASE \/ \E s \in Streams, d \in Devices \cup {0} : SetStreamAudioDevice(s, d)
           \/ \E d \in Devices : Underrun(d)
           \/ UNCHANGED vars
    <2>1. UNCHANGED <<now, resolution, clock, waiting, phase, at>>
        BY <1>7 DEF SetStreamAudioDevice, Underrun, vars, fixed, timing
    <2> QED BY <2>1 DEF TInv, Clocks, WaitsForItsTime, WaitsIdly
<1> QED BY <1>1, <1>2, <1>3, <1>4, <1>5, <1>6, <1>7, Steps DEF Others

\* The steps that show a frame, and when.
LEMMA ShownInTime ==
    ASSUME TInv, [Next]_vars, shown' > shown, shown \in Nat, ~clock.first
    PROVE  now + resolution >= clock.start + clock'.timestamp * FramePeriod
<1>1. /\ now \in Nat /\ resolution \in Nat /\ clock.start \in Nat /\ clock.timestamp \in Nat
      /\ waiting.until \in Nat
    BY DEF TInv, Clocks
<1>2. CASE DisplayWaiting
    <2>1. clock' = clock /\ at = "waiting"
        BY <1>2 DEF DisplayWaiting
    <2>2. ~(now < waiting.until /\ waiting.until - now > resolution)
        BY <1>2 DEF DisplayWaiting
    <2>3. waiting.until = clock.start + clock.timestamp * FramePeriod
        BY <2>1 DEF TInv, WaitsForItsTime, WaitsIdly
    <2>4. now + resolution >= waiting.until
        BY <1>1, <2>2
    <2> QED BY <2>1, <2>3, <2>4
<1>3. CASE Decode
    <2>0. ~UNCHANGED shown
        OBVIOUS
    <2>1. \E dropped \in BOOLEAN : LateFrame(dropped)
        <3>1. DecodeFrame
            BY <1>3, <2>0 DEF Decode, DecodeNothing, DecodeWorked, DecodeError, timing
        <3>2. \E dropped \in BOOLEAN : EarlyFrame(dropped) \/ LateFrame(dropped)
            BY <3>1 DEF DecodeFrame
        <3> QED BY <2>0, <3>2 DEF EarlyFrame
    <2>2. now >= FrameTime /\ clock'.timestamp = clock.timestamp + 1
        BY <2>1 DEF LateFrame, TInv, Clocks
    <2>3. FrameTime \in Nat /\ FrameTime = clock.start + clock'.timestamp * FramePeriod
        BY <2>2, FrameTimes DEF TInv
    <2>4. now + resolution >= FrameTime
        BY <1>1, <2>2, <2>3
    <2> QED BY <2>3, <2>4
<1>4. CASE Fill \/ ReadMovieInfo \/ (Others /\ ~DisplayWaiting)
    <2>1. UNCHANGED shown
        BY <1>4 DEF Fill, ReadMovieInfo, Others, Call, HandleSource, AskDisabledStream, LastSource,
                    SetStreamAudioDevice, Underrun, Tick, vars, timing
    <2> QED BY <2>1
<1> QED BY <1>2, <1>3, <1>4, Steps

-----------------------------------------------------------------------------
(* The rest of the state.                                                  *)

LEMMA InitControl == Init => Control
<1> SUFFICES ASSUME Init PROVE Control
    OBVIOUS
<1>1. 0 \in 0 .. NumStreams
    BY CakeAssumption
<1> QED BY <1>1 DEF Init, Control

LEMMA DesyncTypes ==
    ASSUME DesyncAudio, decoded' \in Nat
    PROVE  next' \in [Streams -> 0 .. decoded']
<1> QED BY DEF DesyncAudio

LEMMA DecodeControl ==
    ASSUME Control, Decode
    PROVE  Control'
<1>1. decoded' \in Nat /\ next' \in [Streams -> 0 .. decoded']
    <2>1. CASE DigestResult = "audio"
        <3>1. decoded' = decoded + 1 /\ (next' = next \/ DesyncAudio)
            BY <2>1 DEF Decode, AudioArrives
        <3>2. decoded' \in Nat /\ 0 .. decoded \subseteq 0 .. decoded + 1
            BY <3>1 DEF Control
        <3>3. CASE DesyncAudio
            BY <3>2, <3>3, DesyncTypes
        <3>4. CASE next' = next
            BY <3>1, <3>2, <3>4 DEF Control
        <3> QED BY <3>1, <3>3, <3>4
    <2>2. CASE DigestResult # "audio"
        BY <2>2 DEF Decode, AudioArrives, movieAudio, Control
    <2> QED BY <2>1, <2>2
<1>2. /\ phase' \in {phase, "failed"} /\ at' \in {"idle", "filling", "sources"}
      /\ source' \in {source, 0} /\ shown' \in {shown, shown + 1}
    BY DEF Decode, DecodeNothing, DecodeWorked, DecodeError, DecodeFrame, FirstFrame, EarlyFrame,
           LateFrame, HandleVideoSync, timing
<1>3. 0 \in 0 .. NumStreams
    BY CakeAssumption
<1> QED BY <1>1, <1>2, <1>3 DEF Control

\* A device takes what it likes of the samples that are offered to it.
LEMMA QueueTypes ==
    ASSUME NEW d, NEW playable, NEW less, NEW nexts \in [Streams -> 0 .. decoded],
           NEW i \in Streams, NEW j, decoded \in Nat,
           QueueSamples(d, playable, less, nexts, i, j)
    PROVE  next' \in [Streams -> 0 .. decoded]
<1> DEFINE n == MinSamplesAvailable(nexts, i, j)
           group == {SourceAt(k) : k \in i .. j}
<1>1. n \in Nat
    BY DEF MinSamplesAvailable, Available
<1> HIDE DEF n, group
<1>2. PICK m \in 0 .. n :
        next' = [s \in Streams |->
                    IF s \in group THEN nexts[s] + Least(m, decoded - nexts[s]) ELSE nexts[s]]
    BY DEF QueueSamples, n, group
<1>3. ASSUME NEW s \in Streams
      PROVE  nexts[s] + Least(m, decoded - nexts[s]) \in 0 .. decoded
    <2>1. nexts[s] \in Nat /\ nexts[s] <= decoded /\ m \in Nat
        BY <1>1
    <2> QED BY <2>1 DEF Least
<1> QED BY <1>2, <1>3

LEMMA HandleSourceControl ==
    ASSUME Control, Clocks, HandleSource
    PROVE  Control'
<1> DEFINE i == source
           d == attached[SourceAt(i)]
           j == GroupEnd(i)
           trimmed == [s \in Streams |-> IF s \in Enabled THEN AudioTime ELSE next[s]]
<1>1. /\ i < NumStreams /\ source' = source + 1 /\ decoded' = decoded
      /\ UNCHANGED <<phase, at, shown>> /\ decoded \in Nat /\ i \in Nat /\ NumStreams \in Nat
    BY CakeAssumption DEF HandleSource, Control, timing
<1>2. i \in Streams /\ source' \in 0 .. NumStreams
    BY <1>1 DEF Streams
<1>3. \/ DesyncAudio
      \/ QueueSamples(d, queued, apart, next, i, j)
      \/ CanSynchronize /\ QueueSamples(d, Reset(d), PassedOver(d), trimmed, i, j)
      \/ next' = next
    BY DEF HandleSource
<1>4. next' \in [Streams -> 0 .. decoded]
    <2>1. CASE DesyncAudio
        BY <1>1, <2>1, DesyncTypes
    <2>2. CASE QueueSamples(d, queued, apart, next, i, j)
        BY <1>1, <1>2, <2>2, QueueTypes DEF Control
    <2>3. CASE CanSynchronize /\ QueueSamples(d, Reset(d), PassedOver(d), trimmed, i, j)
        <3>1. AudioTime \in 0 .. decoded
            <4>1. clock.timestamp \in Nat
                BY DEF Clocks
            <4> QED BY <1>1, <2>3, <4>1 DEF CanSynchronize, AudioTime
        <3>2. trimmed \in [Streams -> 0 .. decoded]
            BY <3>1 DEF Control
        <3> QED BY <1>1, <1>2, <2>3, <3>2, QueueTypes
    <2>4. CASE next' = next
        BY <2>4 DEF Control
    <2> QED BY <1>3, <2>1, <2>2, <2>3, <2>4
<1> QED BY <1>1, <1>2, <1>4 DEF Control

LEMMA ControlStep ==
    ASSUME Control, Clocks, [Next]_vars
    PROVE  Control'
<1>0. 0 \in 0 .. NumStreams
    BY CakeAssumption
<1>1. CASE Decode
    BY <1>1, DecodeControl
<1>2. CASE HandleSource
    BY <1>2, HandleSourceControl
<1>3. CASE \E s \in Streams, d \in Devices \cup {0} : SetStreamAudioDevice(s, d)
    <2>1. /\ UNCHANGED <<phase, at, source, shown, decoded>>
          /\ DesyncAudio \/ next' = next
        BY <1>3 DEF SetStreamAudioDevice, timing
    <2>2. next' \in [Streams -> 0 .. decoded]
        BY <2>1, DesyncTypes DEF Control
    <2> QED BY <2>1, <2>2 DEF Control
<1>4. CASE DisplayWaiting
    <2>1. /\ UNCHANGED <<phase, decoded, next>> /\ at' \in {"idle", "sources"}
          /\ source' \in {source, 0} /\ shown' \in {shown, shown + 1}
        BY <1>4 DEF DisplayWaiting, HandleVideoSync, movieAudio
    <2> QED BY <1>0, <2>1 DEF Control
<1>5. CASE ReadMovieInfo
    <2>1. /\ UNCHANGED <<source, shown, decoded, next>> /\ at' \in {"idle", "filling"}
          /\ phase' \in {phase, "decoding", "failed"}
        BY <1>5 DEF ReadMovieInfo, movieAudio, timing
    <2> QED BY <2>1 DEF Control
<1>6. CASE \/ Fill \/ Call \/ AskDisabledStream \/ LastSource \/ Tick \/ UNCHANGED vars
           \/ \E d \in Devices : Underrun(d)
    <2>1. /\ UNCHANGED <<phase, source, shown, decoded, next>>
          /\ at' \in {at, "feeding", "waiting", "filling", "crashed", "idle"}
        BY <1>6 DEF Fill, Call, AskDisabledStream, LastSource, Tick, Underrun, vars, movieAudio, timing
    <2> QED BY <2>1 DEF Control
<1> QED BY <1>1, <1>2, <1>3, <1>4, <1>5, <1>6, Steps DEF Others

-----------------------------------------------------------------------------
(* Frames.                                                                 *)

\* The headers of a movie, if there are any, come before its frames, and what comes
\* first has bytes.
HeadersFirst ==
    \A m \in Movies :
        /\ m[1].end > 0
        /\ \A i \in DOMAIN m :
            m[i].kind = "frame" => \E k \in 1 .. i - 1 : m[k].kind = "headers"

HeadersAwaited ==
    phase = "info" => \A k \in DOMAIN movie : movie[k].kind = "headers" => movie[k].end > fed

FramesFed == {i \in DOMAIN movie : movie[i].kind = "frame" /\ movie[i].end <= fed}

\* What a call of the demultiplexer digests is at most the current unit.
LEMMA UnitFed ==
    ASSUME Buffered, FeedData, UNCHANGED movie
    PROVE  /\ Completes => /\ Unit \in DOMAIN movie /\ movie[Unit].end > fed
                           /\ \A k \in 1 .. Unit - 1 : movie[k].end <= fed
           /\ \A i \in DOMAIN movie :
                movie[i].end <= fed' <=> movie[i].end <= fed \/ (Completes /\ i = Unit)
<1>1. /\ movie \in Movies /\ fed \in Nat /\ used \in Nat /\ Length \in Nat /\ fed <= Length
      /\ fed' = fed + Digestible
    BY MissingBytes DEF Buffered, FileTypes, FeedData
<1>2. /\ \A i \in DOMAIN movie : movie[i].end \in Nat /\ movie[i].end <= Length
      /\ DOMAIN movie \subseteq Nat
      /\ \A i, k \in DOMAIN movie : i < k => movie[i].end < movie[k].end
      /\ \A i \in DOMAIN movie : \A k \in Nat \ {0} : k < i => k \in DOMAIN movie
    <2>1. movie \in Seq([kind : STRING, end : Nat])
        BY <1>1, CakeAssumption
    <2>2. \A i \in DOMAIN movie : \A k \in Nat \ {0} : k < i => k \in DOMAIN movie
        BY <2>1
    <2> QED BY <1>1, <2>2, Ends, CakeAssumption DEF Length
<1>3. CASE fed = Length
    <2>1. Missing = 0 /\ ~Completes
        BY <1>3 DEF Missing, Completes
    <2>2. fed' = fed
        BY <1>1, <2>1, MissingBytes
    <2> QED BY <2>1, <2>2
<1>4. CASE fed < Length
    <2>1. /\ Unit \in DOMAIN movie /\ movie[Unit].end > fed
          /\ \A k \in 1 .. Unit - 1 : movie[k].end <= fed
        BY <1>1, <1>4, UnitEnds
    <2>2. Missing = movie[Unit].end - fed /\ Missing > 0 /\ Missing \in Nat
        BY <1>1, <1>4, MissingBytes DEF Missing
    <2>3. Completes => fed' = movie[Unit].end
        BY <1>1, <1>2, <2>1, <2>2 DEF Completes, Digestible, Least
    <2>4. ~Completes => fed' < movie[Unit].end
        BY <1>1, <1>2, <2>1, <2>2 DEF Completes, Digestible, Least
    <2>5. fed <= fed' /\ fed' \in Nat
        BY <1>1, MissingBytes
    <2>6. ASSUME NEW i \in DOMAIN movie
          PROVE  movie[i].end <= fed' <=> movie[i].end <= fed \/ (Completes /\ i = Unit)
        <3>1. CASE i < Unit
            <4>1. i \in 1 .. Unit - 1
                <5>1. i \in Nat /\ i # 0
                    BY <1>1, CakeAssumption
                <5> QED BY <1>2, <2>1, <3>1, <5>1
            <4> QED BY <1>1, <1>2, <2>1, <2>5, <4>1
        <3>2. CASE i = Unit
            BY <1>1, <1>2, <2>1, <2>3, <2>4, <2>5, <3>2
        <3>3. CASE i > Unit
            <4>1. movie[i].end > movie[Unit].end
                BY <1>2, <2>1, <3>3
            <4> QED BY <1>1, <1>2, <2>1, <2>3, <2>4, <2>5, <3>3, <4>1
        <3> QED BY <1>2, <2>1, <3>1, <3>2, <3>3
    <2> QED BY <2>1, <2>6
<1> QED BY <1>1, <1>3, <1>4

LEMMA FiniteFrames ==
    ASSUME movie \in Movies
    PROVE  IsFiniteSet(FramesFed) /\ Cardinality(FramesFed) \in Nat
<1>1. DOMAIN movie = 1 .. Len(movie) /\ Len(movie) \in Nat
    BY CakeAssumption
<1>2. IsFiniteSet(DOMAIN movie)
    BY <1>1, FS_Interval
<1> QED BY <1>2, FS_Subset, FS_CardinalityType DEF FramesFed

\* A frame is counted when its unit has been digested.
LEMMA FramesCounted ==
    ASSUME Buffered, FeedData, UNCHANGED movie
    PROVE  /\ DigestResult = "frame" => Cardinality(FramesFed') = Cardinality(FramesFed) + 1
           /\ DigestResult # "frame" => FramesFed' = FramesFed
<1>1. /\ Completes => /\ Unit \in DOMAIN movie /\ movie[Unit].end > fed
      /\ \A i \in DOMAIN movie :
            movie[i].end <= fed' <=> movie[i].end <= fed \/ (Completes /\ i = Unit)
    BY UnitFed
<1>2. CASE DigestResult = "frame"
    <2>1. Completes /\ movie[Unit].kind = "frame"
        BY <1>2 DEF DigestResult
    <2>2. FramesFed' = FramesFed \cup {Unit}
        BY <1>1, <2>1 DEF FramesFed
    <2>3. movie[Unit].end \in Nat /\ fed \in Nat
        BY <1>1, <2>1, Ends DEF Buffered, FileTypes
    <2>4. Unit \notin FramesFed
        BY <1>1, <2>1, <2>3 DEF FramesFed
    <2>5. IsFiniteSet(FramesFed)
        BY FiniteFrames DEF Buffered, FileTypes
    <2> QED BY <1>2, <2>2, <2>4, <2>5, FS_AddElement
<1>3. CASE DigestResult # "frame"
    <2>1. ~(Completes /\ movie[Unit].kind = "frame")
        BY <1>3 DEF DigestResult
    <2> QED BY <1>1, <1>3, <2>1 DEF FramesFed
<1> QED BY <1>2, <1>3

OneWaits == IF waiting.on /\ ~waiting.dropped THEN 1 ELSE 0

FInv == HeadersAwaited /\ shown = Cardinality(FramesFed) - OneWaits

LEMMA InitFrames ==
    ASSUME HeadersFirst, Init
    PROVE  FInv
<1>1. movie \in Movies /\ fed = 0 /\ shown = 0 /\ ~waiting.on
    BY DEF Init
<1>2. \A i \in DOMAIN movie : movie[i].end > 0
    <2>1. /\ DOMAIN movie = 1 .. Len(movie) /\ Len(movie) \in Nat
          /\ \A i, k \in DOMAIN movie : i < k => movie[i].end < movie[k].end
          /\ movie # <<>>
        BY <1>1, CakeAssumption
    <2>2. movie[1].end > 0 /\ \A i \in DOMAIN movie : movie[i].end \in Nat
        BY <1>1, Ends DEF HeadersFirst
    <2>3. 1 \in DOMAIN movie
        BY <1>1, <2>1, Ends
    <2>4. ASSUME NEW i \in DOMAIN movie PROVE movie[i].end > 0
        <3>1. i = 1 \/ 1 < i
            BY <2>1
        <3>2. movie[i].end \in Nat /\ movie[1].end \in Nat
            BY <2>2, <2>3
        <3> QED BY <2>1, <2>2, <2>3, <3>1, <3>2
    <2> QED BY <2>4
<1>3. FramesFed = {}
    BY <1>1, <1>2, Ends DEF FramesFed
<1> QED BY <1>1, <1>2, <1>3, FS_EmptySet DEF FInv, HeadersAwaited, OneWaits

\* Steps of the application and of the devices.
LEMMA FramesKept ==
    ASSUME FInv, UNCHANGED <<movie, fed, shown, waiting>>, phase' = phase
    PROVE  FInv'
<1>1. FramesFed' = FramesFed /\ OneWaits' = OneWaits
    BY DEF FramesFed, OneWaits
<1> QED BY <1>1 DEF FInv, HeadersAwaited

LEMMA FramesStep ==
    ASSUME HeadersFirst, BInv, TInv, Control, FInv, [Next]_vars
    PROVE  FInv'
<1>0. /\ Cardinality(FramesFed) \in Nat /\ shown \in Nat
      /\ waiting \in [on : BOOLEAN, dropped : BOOLEAN, until : Nat]
    BY FiniteFrames DEF BInv, Buffered, FileTypes, Control, TInv, Clocks
<1>1. CASE ReadMovieInfo
    <2>1. /\ phase = "info" /\ FeedData /\ UNCHANGED <<movie, shown, waiting>>
          /\ DigestResult = "headers" => phase' = "decoding"
        BY <1>1 DEF ReadMovieInfo, fixed, timing
    <2>2. /\ Completes => /\ Unit \in DOMAIN movie
                          /\ \A k \in 1 .. Unit - 1 : movie[k].end <= fed
          /\ \A i \in DOMAIN movie :
                movie[i].end <= fed' <=> movie[i].end <= fed \/ (Completes /\ i = Unit)
        BY <2>1, UnitFed DEF BInv
    <2>3. /\ movie \in Movies /\ fed \in Nat /\ fed' \in Nat
          /\ \A i \in DOMAIN movie : movie[i].end \in Nat
          /\ DOMAIN movie = 1 .. Len(movie) /\ Len(movie) \in Nat
        <3>1. movie \in Movies /\ fed \in Nat /\ fed' \in Nat
            BY <2>1, MissingBytes DEF BInv, Buffered, FileTypes, FeedData
        <3> QED BY <3>1, Ends, CakeAssumption
    <2>4. DigestResult # "frame"
        <3> SUFFICES ASSUME DigestResult = "frame" PROVE FALSE
            OBVIOUS
        <3>1. Completes /\ movie[Unit].kind = "frame"
            BY DEF DigestResult
        <3>2. PICK k \in 1 .. Unit - 1 : movie[k].kind = "headers"
            BY <2>2, <2>3, <3>1 DEF HeadersFirst
        <3>3. k \in DOMAIN movie /\ movie[k].end <= fed
            BY <2>2, <2>3, <3>1
        <3> QED BY <2>1, <2>3, <3>2, <3>3 DEF FInv, HeadersAwaited
    <2>5. HeadersAwaited'
        <3> SUFFICES ASSUME phase' = "info", NEW k \in DOMAIN movie, movie[k].kind = "headers"
                     PROVE  movie[k].end > fed'
            BY <2>1 DEF HeadersAwaited
        <3>1. DigestResult # "headers"
            BY <2>1
        <3>2. ~(Completes /\ k = Unit)
            BY <3>1 DEF DigestResult
        <3>3. ~(movie[k].end <= fed)
            BY <2>1, <2>3 DEF FInv, HeadersAwaited
        <3> QED BY <2>2, <2>3, <3>2, <3>3
    <2>6. FramesFed' = FramesFed /\ OneWaits' = OneWaits
        BY <2>1, <2>4, FramesCounted DEF BInv, OneWaits
    <2> QED BY <2>1, <2>5, <2>6 DEF FInv
<1>2. CASE Decode
    <2>1. /\ phase = "decoding" /\ phase' \in {"decoding", "failed"} /\ FeedData
          /\ movie' = movie /\ at = "feeding"
        BY <1>2 DEF Decode, DecodeNothing, DecodeWorked, DecodeError, DecodeFrame, fixed
    <2>2. ~waiting.on
        BY <2>1 DEF TInv, WaitsIdly
    <2>3. CASE DecodeFrame
        <3> DEFINE dropped == DigestResult = "dropped frame"
        <3>1. DigestResult \in {"frame", "dropped frame"}
            BY <2>3 DEF DecodeFrame
        <3>2. \/ waiting' = waiting /\ shown' = IF dropped THEN shown ELSE shown + 1
              \/ /\ waiting' = [on |-> TRUE, dropped |-> dropped, until |-> FrameTime]
                 /\ shown' = shown
            BY <2>3 DEF DecodeFrame, FirstFrame, EarlyFrame, LateFrame, HandleVideoSync
        <3>3. CASE DigestResult = "frame"
            <4>1. Cardinality(FramesFed') = Cardinality(FramesFed) + 1
                BY <2>1, <3>3, FramesCounted DEF BInv
            <4> QED BY <1>0, <2>1, <2>2, <3>2, <3>3, <4>1 DEF FInv, HeadersAwaited, OneWaits
        <3>4. CASE DigestResult = "dropped frame"
            <4>1. FramesFed' = FramesFed
                BY <2>1, <3>4, FramesCounted DEF BInv
            <4>2. shown' = shown /\ dropped
                BY <3>2, <3>4
            <4>3. ~(waiting'.on /\ ~waiting'.dropped)
                <5>1. dropped = TRUE
                    BY <3>4
                <5> HIDE DEF dropped
                <5>2. waiting' = waiting \/ waiting' = [on |-> TRUE, dropped |-> TRUE, until |-> FrameTime]
                    BY <3>2, <5>1, Zenon
                <5> QED BY <2>2, <5>2
            <4>4. OneWaits = 0 /\ OneWaits' = 0
                BY <2>2, <4>3 DEF OneWaits
            <4> QED BY <2>1, <4>1, <4>2, <4>4 DEF FInv, HeadersAwaited
        <3> QED BY <3>1, <3>3, <3>4
    <2>4. CASE DecodeNothing \/ DecodeWorked \/ DecodeError
        <3>1. DigestResult # "frame" /\ UNCHANGED <<shown, waiting>>
            BY <2>4 DEF DecodeNothing, DecodeWorked, DecodeError, timing
        <3>2. FramesFed' = FramesFed
            BY <2>1, <3>1, FramesCounted DEF BInv
        <3> QED BY <2>1, <3>1, <3>2 DEF FInv, HeadersAwaited, OneWaits
    <2> QED BY <1>2, <2>3, <2>4 DEF Decode
<1>3. CASE DisplayWaiting
    <2>1. /\ UNCHANGED <<movie, fed, phase>> /\ waiting.on
          /\ \/ UNCHANGED <<shown, waiting>>
             \/ /\ waiting' = [waiting EXCEPT !.on = FALSE]
                /\ shown' = IF waiting.dropped THEN shown ELSE shown + 1
        BY <1>3 DEF DisplayWaiting, HandleVideoSync, fixed, feeding, TInv, WaitsIdly
    <2>2. FramesFed' = FramesFed
        BY <2>1 DEF FramesFed
    <2> QED BY <1>0, <2>1, <2>2 DEF FInv, HeadersAwaited, OneWaits
<1>4. CASE Fill \/ (Others /\ ~DisplayWaiting)
    <2>1. UNCHANGED <<movie, fed, shown, waiting>> /\ phase' = phase
        BY <1>4 DEF Fill, Others, Call, HandleSource, AskDisabledStream, LastSource,
           SetStreamAudioDevice, Underrun, Tick, vars, fixed, feeding, timing
    <2> QED BY <2>1, FramesKept
<1> QED BY <1>1, <1>2, <1>3, <1>4, Steps

-----------------------------------------------------------------------------
(* The sources of a device.                                                *)

\* The scan for the sources of one device stays within that device.
LEMMA GroupOfOneDevice ==
    ASSUME NEW i \in Streams
    PROVE  /\ GroupEnd(i) \in i .. NumStreams - 1
           /\ \A k \in i .. GroupEnd(i) : attached[SourceAt(k)] = attached[SourceAt(i)]
           /\ \/ GroupEnd(i) = NumStreams - 1
              \/ attached[SourceAt(GroupEnd(i) + 1)] # attached[SourceAt(i)]
<1> DEFINE Dev(k) == attached[SourceAt(k)]
           Ends1 == {j \in i .. NumStreams - 1 : j = NumStreams - 1 \/ Dev(j + 1) # Dev(i)}
<1>1. NumStreams \in Nat /\ i \in Nat /\ i <= NumStreams - 1
    BY CakeAssumption DEF Streams
<1> HIDE DEF Dev
<1>2. NumStreams - 1 \in Ends1 /\ Ends1 \subseteq Nat
    BY <1>1
<1>3. PICK x \in Ends1 : \A y \in Ends1 : ~(y < x)
    <2> HIDE DEF Ends1
    <2> QED BY <1>2, LeastOf
<1>4. ASSUME NEW k \in i .. x
      PROVE  Dev(k) = Dev(i)
    <2> DEFINE Others1 == {y \in i .. x : Dev(y) # Dev(i)}
    <2> SUFFICES ASSUME Others1 # {} PROVE FALSE
        OBVIOUS
    <2>1. Others1 \subseteq Nat
        BY <1>1
    <2>2. PICK y \in Others1 : \A z \in Others1 : ~(z < y)
        <3> HIDE DEF Others1
        <3> QED BY <2>1, LeastOf
    <2>3. y # i /\ y \in i .. x /\ y \in Nat /\ x \in Nat /\ x <= NumStreams - 1
        BY <1>1, <1>2, <2>1, <2>2
    <2>4. y - 1 \in i .. NumStreams - 1 /\ (y - 1) + 1 = y /\ y - 1 < x
        BY <1>1, <2>3
    <2>5. y - 1 \in Ends1
        BY <2>2, <2>4
    <2> QED BY <1>3, <2>4, <2>5
<1>5. \E j \in i .. NumStreams - 1 :
        /\ \A k \in i .. j : attached[SourceAt(k)] = attached[SourceAt(i)]
        /\ j = NumStreams - 1 \/ attached[SourceAt(j + 1)] # attached[SourceAt(i)]
    BY <1>3, <1>4 DEF Dev
<1> HIDE DEF Ends1
<1> QED BY <1>5 DEF GroupEnd

LEMMA SourcesKept ==
    ASSUME attached' = attached, NEW i
    PROVE  SourceAt(i)' = SourceAt(i)
<1> QED BY DEF SourceAt, Before

LEMMA CrashStep ==
    ASSUME Control, AsksEnabledStreams, [Next]_vars
    PROVE  AsksEnabledStreams'
<1>1. CASE AskDisabledStream
    <2>1. /\ source \in Streams /\ attached[SourceAt(source)] # 0 /\ AsksInVain(source)
          /\ attached' = attached
        BY <1>1, CakeAssumption DEF AskDisabledStream, Control, Streams
    <2>2. PICK k \in source .. GroupEnd(source) : k \notin Enabled
        BY <2>1 DEF AsksInVain
    <2>3. k \in Streams /\ attached[SourceAt(k)] # 0
        <3>1. /\ GroupEnd(source) \in source .. NumStreams - 1
              /\ attached[SourceAt(k)] = attached[SourceAt(source)]
            BY <2>1, <2>2, GroupOfOneDevice
        <3>2. source \in Nat /\ NumStreams \in Nat
            BY <2>1, CakeAssumption DEF Streams
        <3>3. k \in Streams
            BY <2>2, <3>1, <3>2 DEF Streams
        <3> QED BY <2>1, <3>1, <3>3
    <2>4. SourceAt(k) # k
        BY <2>2, <2>3 DEF Enabled
    <2>5. attached'[SourceAt(k)'] # 0 /\ SourceAt(k)' # k
        BY <2>1, <2>3, <2>4, SourcesKept
    <2> QED BY <2>3, <2>5 DEF AsksEnabledStreams
<1>2. CASE at' # "crashed"
    BY <1>2 DEF AsksEnabledStreams
<1>3. CASE at' = at /\ attached' = attached
    <2>1. \A i : SourceAt(i)' = SourceAt(i)
        BY <1>3, SourcesKept
    <2> SUFFICES ASSUME at' = "crashed" PROVE \E i \in Streams : (attached[SourceAt(i)] # 0)' /\ SourceAt(i)' # i
        BY DEF AsksEnabledStreams
    <2>2. PICK i \in Streams : attached[SourceAt(i)] # 0 /\ SourceAt(i) # i
        BY <1>3 DEF AsksEnabledStreams
    <2> QED BY <1>3, <2>1, <2>2
<1>4. [Next]_vars => AskDisabledStream \/ at' # "crashed" \/ (at' = at /\ attached' = attached)
    <2>1. Decode => at' # "crashed"
        BY DEF Decode, DecodeNothing, DecodeWorked, DecodeError, DecodeFrame, FirstFrame,
           EarlyFrame, LateFrame, HandleVideoSync
    <2>2. Fill \/ ReadMovieInfo \/ Call \/ DisplayWaiting \/ LastSource => at' # "crashed"
        BY DEF Fill, ReadMovieInfo, Call, DisplayWaiting, LastSource, HandleVideoSync
    <2>3. HandleSource => at' = at /\ attached' = attached
        BY DEF HandleSource
    <2>4. (\E s \in Streams, d \in Devices \cup {0} : SetStreamAudioDevice(s, d)) => at' # "crashed"
        BY DEF SetStreamAudioDevice
    <2>5. (\E d \in Devices : Underrun(d)) \/ Tick \/ UNCHANGED vars
            => at' = at /\ attached' = attached
        BY DEF Underrun, Tick, vars
    <2> QED BY <2>1, <2>2, <2>3, <2>4, <2>5, Steps DEF Others
<1> QED BY <1>1, <1>2, <1>3, <1>4

-----------------------------------------------------------------------------
(* The order of the sources.                                               *)

Attached ==
    /\ attached \in [Streams -> Nat]
    /\ \A s \in Streams : attached[s] \in Devices \cup {0}

\* How many sources come before that of stream s.
Rank(s) == Cardinality({t \in Streams : Before(t, s)})

LEMMA TotalOrder ==
    ASSUME Attached, NEW a \in Streams, NEW b \in Streams, NEW c \in Streams
    PROVE  /\ ~Before(a, a)
           /\ a # b => Before(a, b) \/ Before(b, a)
           /\ Before(a, b) => ~Before(b, a)
           /\ Before(a, b) /\ Before(b, c) => Before(a, c)
<1> DEFINE x == attached[a]  y == attached[b]  z == attached[c]
<1>1. x \in Nat /\ y \in Nat /\ z \in Nat /\ a \in Int /\ b \in Int /\ c \in Int
    BY CakeAssumption DEF Attached, Streams
<1>2. /\ Before(a, b) <=> (x # 0 /\ y = 0) \/ (((x = 0) <=> (y = 0)) /\ (x < y \/ (x = y /\ a < b)))
      /\ Before(b, a) <=> (y # 0 /\ x = 0) \/ (((y = 0) <=> (x = 0)) /\ (y < x \/ (y = x /\ b < a)))
      /\ Before(b, c) <=> (y # 0 /\ z = 0) \/ (((y = 0) <=> (z = 0)) /\ (y < z \/ (y = z /\ b < c)))
      /\ Before(a, c) <=> (x # 0 /\ z = 0) \/ (((x = 0) <=> (z = 0)) /\ (x < z \/ (x = z /\ a < c)))
      /\ ~Before(a, a)
    BY <1>1 DEF Before
<1> HIDE DEF x, y, z
<1> QED BY <1>1, <1>2

LEMMA StreamCount == IsFiniteSet(Streams) /\ Cardinality(Streams) = NumStreams
<1>1. 0 \in Int /\ NumStreams - 1 \in Int
    BY CakeAssumption
<1>2. IsFiniteSet(0 .. NumStreams - 1)
      /\ Cardinality(0 .. NumStreams - 1)
            = IF 0 > NumStreams - 1 THEN 0 ELSE NumStreams - 1 - 0 + 1
    BY <1>1, FS_Interval
<1> QED BY <1>2, CakeAssumption DEF Streams

LEMMA RankType ==
    ASSUME Attached, NEW s \in Streams
    PROVE  Rank(s) \in Streams
<1> DEFINE T == {t \in Streams : Before(t, s)}
<1>1. T \in SUBSET Streams /\ T # Streams
    BY TotalOrder
<1> HIDE DEF T
<1>2. /\ IsFiniteSet(T) /\ Cardinality(T) <= NumStreams /\ Cardinality(T) # NumStreams
    BY <1>1, StreamCount, FS_Subset
<1>3. Cardinality(T) \in Nat
    BY <1>2, FS_CardinalityType
<1> QED BY <1>2, <1>3, CakeAssumption DEF Rank, T, Streams

LEMMA RankOrder ==
    ASSUME Attached, NEW a \in Streams, NEW b \in Streams, Before(a, b)
    PROVE  Rank(a) < Rank(b)
<1> DEFINE S == {t \in Streams : Before(t, a)}
           T == {t \in Streams : Before(t, b)}
<1>1. S \in SUBSET T /\ S # T /\ T \in SUBSET Streams
    <2>1. \A t \in Streams : Before(t, a) => Before(t, b)
        BY TotalOrder
    <2>2. a \in T /\ a \notin S
        BY TotalOrder
    <2> QED BY <2>1, <2>2
<1>2. Rank(a) = Cardinality(S) /\ Rank(b) = Cardinality(T)
    BY DEF Rank
<1> HIDE DEF S, T
<1>3. IsFiniteSet(T)
    BY <1>1, StreamCount, FS_Subset
<1>4. Cardinality(S) <= Cardinality(T) /\ Cardinality(S) # Cardinality(T)
    BY <1>1, <1>3, FS_Subset
<1>5. Rank(a) \in Nat /\ Rank(b) \in Nat
    BY RankType, CakeAssumption DEF Streams
<1> QED BY <1>2, <1>4, <1>5

\* Every place is some stream's: the ranks are as many as the streams.
LEMMA RankOnto ==
    ASSUME Attached, NEW i \in Streams
    PROVE  \E s \in Streams : Rank(s) = i
<1> DEFINE T == {Rank(s) : s \in Streams}
           f == [s \in Streams |-> Rank(s)]
<1>1. T \in SUBSET Streams
    BY RankType
<1>2. ASSUME NEW a \in Streams, NEW b \in Streams, Rank(a) = Rank(b)
      PROVE  a = b
    <2>1. Rank(a) \in Int /\ Rank(b) \in Int
        BY RankType, CakeAssumption DEF Streams
    <2>2. ~(Rank(a) < Rank(b)) /\ ~(Rank(b) < Rank(a))
        BY <1>2, <2>1
    <2>3. ~Before(a, b) /\ ~Before(b, a)
        BY <2>2, RankOrder
    <2> QED BY <2>3, TotalOrder
<1>3. f \in Surjection(Streams, T)
    BY DEF Surjection
<1>4. f \in Injection(Streams, T)
    BY <1>2 DEF Injection, IsInjective
<1> HIDE DEF T, f
<1>5. Cardinality(T) = Cardinality(Streams)
    BY <1>3, <1>4, StreamCount, FS_Surjection
<1>6. T = Streams
    BY <1>1, <1>5, StreamCount, FS_Subset
<1> QED BY <1>6 DEF T

LEMMA SourceFacts ==
    ASSUME Attached, NEW i \in Streams
    PROVE  SourceAt(i) \in Streams /\ Rank(SourceAt(i)) = i
<1>1. \E s \in Streams : Cardinality({t \in Streams : Before(t, s)}) = i
    BY RankOnto DEF Rank
<1> QED BY <1>1 DEF SourceAt, Rank

LEMMA SourceOf ==
    ASSUME Attached, NEW s \in Streams
    PROVE  \E i \in Streams : SourceAt(i) = s
<1>1. Rank(s) \in Streams
    BY RankType
<1>2. SourceAt(Rank(s)) \in Streams /\ Rank(SourceAt(Rank(s))) = Rank(s)
    BY <1>1, SourceFacts
<1>3. SourceAt(Rank(s)) = s
    <2> DEFINE a == SourceAt(Rank(s))
    <2> SUFFICES ASSUME a # s PROVE FALSE
        OBVIOUS
    <2>1. Before(a, s) \/ Before(s, a)
        BY <1>2, TotalOrder
    <2>2. Rank(a) < Rank(s) \/ Rank(s) < Rank(a)
        BY <1>2, <2>1, RankOrder
    <2>3. Rank(s) \in Int
        BY <1>1, CakeAssumption DEF Streams
    <2> QED BY <1>2, <2>2, <2>3
<1> QED BY <1>1, <1>3

\* Places go by device.
LEMMA SourcesSorted ==
    ASSUME Attached, NEW i \in Streams, NEW k \in Streams, i <= k,
           attached[SourceAt(k)] # 0
    PROVE  attached[SourceAt(i)] # 0 /\ attached[SourceAt(i)] <= attached[SourceAt(k)]
<1> DEFINE a == SourceAt(i)
           b == SourceAt(k)
<1>1. /\ a \in Streams /\ b \in Streams /\ Rank(a) = i /\ Rank(b) = k
      /\ i \in Int /\ k \in Int /\ attached[a] \in Nat /\ attached[b] \in Nat
    BY SourceFacts, CakeAssumption DEF Streams, Attached
<1>2. CASE a = b
    BY <1>1, <1>2
<1>3. CASE a # b
    <2>1. ~Before(b, a)
        <3>1. Before(b, a) => Rank(b) < Rank(a)
            BY <1>1, RankOrder
        <3> QED BY <1>1, <3>1
    <2>2. Before(a, b)
        BY <1>1, <1>3, <2>1, TotalOrder
    <2> QED BY <1>1, <2>2 DEF Before
<1> QED BY <1>2, <1>3

\* Every stream of a device is in the group of a source of that device, unless the
\* source is not the first of them.
LEMMA GroupIsWhole ==
    ASSUME Attached, NEW i \in Streams, NEW t \in Streams,
           attached[t] = attached[SourceAt(i)], attached[t] # 0
    PROVE  \/ t \in {SourceAt(k) : k \in i .. GroupEnd(i)}
           \/ i > 0 /\ attached[SourceAt(i - 1)] = attached[SourceAt(i)]
<1> DEFINE j == GroupEnd(i)
           d == attached[t]
<1>1. PICK p \in Streams : SourceAt(p) = t
    BY SourceOf
<1>2. /\ j \in i .. NumStreams - 1 /\ attached[SourceAt(i)] = d
      /\ j = NumStreams - 1 \/ attached[SourceAt(j + 1)] # d
    BY GroupOfOneDevice
<1>3. /\ i \in Int /\ p \in Int /\ j \in Int /\ i >= 0 /\ p >= 0
      /\ p <= NumStreams - 1 /\ NumStreams \in Nat /\ i <= j /\ j <= NumStreams - 1
      /\ i <= NumStreams - 1
    BY <1>2, CakeAssumption DEF Streams
<1>4. \A k \in Streams : SourceAt(k) \in Streams /\ attached[SourceAt(k)] \in Nat
    BY SourceFacts DEF Attached
<1> HIDE DEF j
<1>5. CASE p \in i .. j
    BY <1>1, <1>5 DEF j
<1>6. CASE p > j
    <2>1. j + 1 \in Streams /\ i <= j + 1 /\ j + 1 <= p
        BY <1>3, <1>6 DEF Streams
    <2>2. attached[SourceAt(j + 1)] # 0 /\ attached[SourceAt(j + 1)] <= d
        BY <1>1, <2>1, SourcesSorted
    <2>3. d <= attached[SourceAt(j + 1)]
        BY <1>2, <2>1, <2>2, SourcesSorted
    <2>4. attached[SourceAt(j + 1)] = d
        BY <1>4, <1>1, <2>1, <2>2, <2>3
    <2> QED BY <1>2, <1>3, <1>6, <2>4
<1>7. CASE p < i
    <2>1. i - 1 \in Streams /\ i - 1 <= i /\ p <= i - 1 /\ i > 0
        BY <1>3, <1>7 DEF Streams
    <2>2. attached[SourceAt(i - 1)] # 0 /\ attached[SourceAt(i - 1)] <= d
        BY <1>2, <2>1, SourcesSorted
    <2>3. d <= attached[SourceAt(i - 1)]
        BY <1>1, <2>1, <2>2, SourcesSorted
    <2>4. attached[SourceAt(i - 1)] = d
        BY <1>4, <1>1, <2>1, <2>2, <2>3
    <2> QED BY <1>2, <2>1, <2>4
<1>8. p \in i .. j \/ p > j \/ p < i
    BY <1>3
<1> QED BY <1>5, <1>6, <1>7, <1>8

-----------------------------------------------------------------------------
(* What the devices have had.                                              *)

Reasons == {"took less", "out of place", "passed over"}

Queues == [Devices -> [Streams -> Int]]
Histories == [Devices -> SUBSET Reasons]

\* The samples a device will be given next follow the last it was given.
Follows(queues, histories, nexts) ==
    \A d \in Devices, s \in Streams :
        attached[s] = d /\ "passed over" \notin histories[d]
            => queues[d][s] \in {Silent, nexts[s]}

Unbroken(queues, histories) ==
    \A d \in Devices, s \in Streams :
        queues[d][s] = Broken => "passed over" \in histories[d]

\* The streams of a device have had the same, and hold the same.
Even(queues, histories, nexts) ==
    \A s, t \in Streams :
        attached[s] # 0 /\ attached[s] = attached[t] /\ histories[attached[s]] = {}
            => /\ nexts[s] = nexts[t]
               /\ queues[attached[s]][s] = queues[attached[s]][t]

\* Audio is synchronized at the first source of the loop or not at all in it.
SynchronizedFirst == at = "sources" /\ source > 0 /\ ~synced => ~CanSynchronize

\* When the second source of a device comes up nothing is left for it.
NothingLeft(i, histories, nexts) ==
    i > 0 /\ attached[SourceAt(i - 1)] = attached[SourceAt(i)]
          /\ histories[attached[SourceAt(i)]] = {}
        => nexts[SourceAt(i)] = decoded

SourceDrained ==
    at = "sources" /\ synced /\ source \in Streams /\ attached[SourceAt(source)] # 0
        => NothingLeft(source, apart, next)

SInv ==
    /\ Attached
    /\ queued \in Queues /\ apart \in Histories
    /\ Unbroken(queued, apart)
    /\ synced => Follows(queued, apart, next) /\ Even(queued, apart, next)
    /\ SynchronizedFirst
    /\ SourceDrained

LEMMA QueueStep ==
    ASSUME Attached, decoded \in Nat, NEW i \in Streams,
           NEW d \in Devices, d = attached[SourceAt(i)], d # 0,
           NEW queues \in Queues, NEW histories \in Histories,
           NEW nexts \in [Streams -> 0 .. decoded],
           Unbroken(queues, histories),
           Follows(queues, histories, nexts), Even(queues, histories, nexts),
           NothingLeft(i, histories, nexts),
           QueueSamples(d, queues, histories, nexts, i, GroupEnd(i))
    PROVE  /\ queued' \in Queues /\ apart' \in Histories
           /\ Unbroken(queued', apart')
           /\ Follows(queued', apart', next')
           /\ Even(queued', apart', next')
           /\ i < GroupEnd(i) /\ apart'[d] = {} => next'[SourceAt(i + 1)] = decoded
<1> DEFINE j == GroupEnd(i)
           n == MinSamplesAvailable(nexts, i, j)
           group == {SourceAt(k) : k \in i .. j}
           Gets(s, m) == nexts[s] + Least(m, decoded - nexts[s])
           Queue(s, last, m) == IF last \in {Silent, nexts[s]} THEN Gets(s, m) ELSE Broken
<1>1. PICK m \in 0 .. n :
        /\ next' = [s \in Streams |-> IF s \in group THEN Gets(s, m) ELSE nexts[s]]
        /\ queued' = IF m = 0 THEN queues
                     ELSE [queues EXCEPT ![d] = [s \in Streams |->
                            IF s \in group THEN Queue(s, @[s], m) ELSE @[s]]]
        /\ apart' = [histories EXCEPT ![d] = @
                        \cup {w \in {"took less"} : m < n /\ i < j}
                        \cup {w \in {"out of place"} : \E k \in i .. j : SourceAt(k) # k}]
    BY DEF QueueSamples
<1>2. /\ j \in i .. NumStreams - 1 /\ i \in Int /\ j \in Int /\ i <= j
      /\ i .. j \subseteq Streams
    <2>1. j \in i .. NumStreams - 1
        BY GroupOfOneDevice
    <2> HIDE DEF j
    <2> QED BY <2>1, CakeAssumption DEF Streams
<1>3. /\ group \subseteq Streams
      /\ \A s \in group : attached[s] = d
      /\ SourceAt(i) \in group
    <2>1. \A k \in i .. j : SourceAt(k) \in Streams /\ attached[SourceAt(k)] = d
        BY <1>2, SourceFacts, GroupOfOneDevice
    <2>2. i \in i .. j
        BY <1>2
    <2> HIDE DEF j
    <2> QED BY <2>1, <2>2
<1>4. n = 0 \/ n = decoded - nexts[i]
    BY DEF MinSamplesAvailable, Available
<1>5. /\ \A s \in Streams : nexts[s] \in Nat /\ nexts[s] <= decoded /\ nexts[s] \in Int
      /\ n \in Nat /\ m \in Nat /\ m <= n
    <2>1. \A s \in Streams : nexts[s] \in Nat /\ nexts[s] <= decoded /\ nexts[s] \in Int
        OBVIOUS
    <2>2. n \in Nat
        BY <1>4, <2>1
    <2> HIDE DEF n
    <2> QED BY <2>1, <2>2
<1>6. \A s \in Streams : /\ Gets(s, m) \in Nat /\ Gets(s, 0) = nexts[s]
                         /\ Gets(s, decoded - nexts[s]) = decoded
    BY <1>5 DEF Least
<1>7. /\ apart' \in Histories
      /\ \A e \in Devices : histories[e] \subseteq apart'[e]
      /\ apart'[d] = {} => /\ ~(m < n /\ i < j)
                           /\ \A k \in i .. j : SourceAt(k) = k
    <2>1. apart'[d] = histories[d]
                        \cup {w \in {"took less"} : m < n /\ i < j}
                        \cup {w \in {"out of place"} : \E k \in i .. j : SourceAt(k) # k}
        BY <1>1 DEF Histories
    <2>2. \A e \in Devices : e # d => apart'[e] = histories[e]
        BY <1>1 DEF Histories
    <2>3. apart' \in Histories
        <3>1. apart'[d] \in SUBSET Reasons
            <4>1. histories[d] \in SUBSET Reasons
                BY DEF Histories
            <4> QED BY <2>1, <4>1 DEF Reasons
        <3>2. apart' = [histories EXCEPT ![d] = apart'[d]]
            BY <1>1, <2>1 DEF Histories
        <3> QED BY <3>1, <3>2 DEF Histories
    <2> QED BY <2>1, <2>2, <2>3
<1>8. /\ \A s \in group : next'[s] = Gets(s, m)
      /\ \A s \in Streams : s \notin group => next'[s] = nexts[s]
    BY <1>1, <1>3
<1>9. /\ queued' \in Queues
      /\ \A e \in Devices : e # d => queued'[e] = queues[e]
      /\ \A s \in Streams : s \notin group => queued'[d][s] = queues[d][s]
      /\ \A s \in group : queued'[d][s] = IF m = 0 THEN queues[d][s]
                                           ELSE Queue(s, queues[d][s], m)
    <2>1. CASE m = 0
        BY <1>1, <1>3, <2>1
    <2>2. CASE m # 0
        <3> DEFINE row == [s \in Streams |-> IF s \in group THEN Queue(s, queues[d][s], m)
                                             ELSE queues[d][s]]
        <3>1. row \in [Streams -> Int]
            <4>1. \A s \in Streams : queues[d][s] \in Int
                BY DEF Queues
            <4>2. \A s \in Streams : Queue(s, queues[d][s], m) \in Int
                BY <1>6 DEF Broken
            <4> HIDE DEF Queue, group
            <4> QED BY <4>1, <4>2
        <3>2. queued' = [queues EXCEPT ![d] = row]
            BY <1>1, <2>2
        <3>3. \A s \in Streams : row[s] = IF s \in group THEN Queue(s, queues[d][s], m)
                                          ELSE queues[d][s]
            OBVIOUS
        <3> HIDE DEF row, Queue, group
        <3>4. queued' \in Queues /\ queued'[d] = row
            BY <3>1, <3>2 DEF Queues
        <3>5. \A e \in Devices : e # d => queued'[e] = queues[e]
            BY <3>2 DEF Queues
        <3> QED BY <1>3, <2>2, <3>3, <3>4, <3>5
    <2> QED BY <2>1, <2>2
<1> HIDE DEF j, n, group, Gets, Queue
<1>10. Unbroken(queued', apart') /\ Follows(queued', apart', next')
    <2>1. ASSUME NEW e \in Devices, NEW s \in Streams, "passed over" \notin apart'[e]
          PROVE  /\ queued'[e][s] # Broken
                 /\ attached[s] = e => queued'[e][s] \in {Silent, next'[s]}
        <3>1. "passed over" \notin histories[e]
            BY <1>7, <2>1
        <3>2. /\ queues[e][s] # Broken
              /\ attached[s] = e => queues[e][s] \in {Silent, nexts[s]}
            BY <3>1 DEF Unbroken, Follows
        <3>3. CASE e # d \/ s \notin group
            <4>1. queued'[e][s] = queues[e][s]
                BY <1>9, <3>3
            <4>2. attached[s] = e => next'[s] = nexts[s]
                BY <1>3, <1>8, <3>3
            <4> QED BY <3>2, <4>1, <4>2
        <3>4. CASE e = d /\ s \in group
            <4>1. queues[d][s] \in {Silent, nexts[s]}
                BY <1>3, <3>2, <3>4
            <4>2. Queue(s, queues[d][s], m) = Gets(s, m)
                BY <4>1 DEF Queue
            <4>3. Gets(s, m) # Broken
                BY <1>6 DEF Broken
            <4>4. m = 0 => Gets(s, m) = nexts[s]
                BY <1>6
            <4>5. next'[s] = Gets(s, m)
                BY <1>8, <3>4
            <4>6. queued'[d][s] = IF m = 0 THEN queues[d][s] ELSE Gets(s, m)
                BY <1>9, <3>4, <4>2
            <4> QED BY <3>2, <3>4, <4>1, <4>3, <4>4, <4>5, <4>6
        <3> QED BY <3>3, <3>4
    <2> QED BY <2>1 DEF Unbroken, Follows
\* The streams of the device, when nothing has set them apart.
<1>11. ASSUME apart'[d] = {}
       PROVE  /\ histories[d] = {} /\ SourceAt(i) = i
              /\ n = decoded - nexts[i]
              /\ \A s \in Streams : attached[s] = d =>
                    nexts[s] = nexts[i] /\ queues[d][s] = queues[d][i]
    <2>1. histories[d] = {} /\ \A k \in i .. j : SourceAt(k) = k
        BY <1>7, <1>11
    <2>2. SourceAt(i) = i
        BY <1>2, <2>1
    <2>3. \A s \in Streams : attached[s] = d =>
            nexts[s] = nexts[i] /\ queues[d][s] = queues[d][i]
        BY <2>1, <2>2 DEF Even
    <2>4. \A k \in i + 1 .. j : nexts[k] = nexts[i]
        <3>1. \A k \in i + 1 .. j : k \in i .. j
            BY <1>2
        <3>2. \A k \in i .. j : k \in Streams /\ attached[k] = d
            BY <1>2, <1>3, <2>1 DEF group
        <3> QED BY <2>3, <3>1, <3>2
    <2>5. n = decoded - nexts[i]
        <3>1. ~(\E k \in i + 1 .. j : decoded - nexts[k] < decoded - nexts[i])
            BY <1>5, <2>4
        <3> QED BY <3>1 DEF n, MinSamplesAvailable, Available
    <2> QED BY <2>1, <2>2, <2>3, <2>5
<1>12. Even(queued', apart', next')
    <2>1. ASSUME NEW s \in Streams, NEW t \in Streams, attached[s] # 0,
                 attached[s] = attached[t], apart'[attached[s]] = {}
          PROVE  /\ next'[s] = next'[t]
                 /\ queued'[attached[s]][s] = queued'[attached[s]][t]
        <3>1. attached[s] \in Devices
            BY <2>1 DEF Attached
        <3>2. CASE attached[s] # d
            <4>1. s \notin group /\ t \notin group
                BY <1>3, <2>1, <3>2
            <4>2. histories[attached[s]] = {}
                BY <1>7, <2>1, <3>1
            <4>3. nexts[s] = nexts[t] /\ queues[attached[s]][s] = queues[attached[s]][t]
                BY <2>1, <4>2 DEF Even
            <4> QED BY <1>8, <1>9, <3>1, <3>2, <4>1, <4>3
        <3>3. CASE attached[s] = d
            <4>1. /\ histories[d] = {} /\ SourceAt(i) = i /\ n = decoded - nexts[i]
                  /\ nexts[s] = nexts[i] /\ nexts[t] = nexts[i]
                  /\ queues[d][s] = queues[d][i] /\ queues[d][t] = queues[d][i]
                BY <1>11, <2>1, <3>3
            <4>2. CASE s \in group /\ t \in group
                <5>1. Gets(s, m) = Gets(t, m)
                    BY <4>1 DEF Gets
                <5>2. Queue(s, queues[d][s], m) = Queue(t, queues[d][t], m)
                    BY <4>1, <5>1 DEF Queue
                <5> QED BY <1>8, <1>9, <3>3, <4>1, <4>2, <5>1, <5>2
            <4>3. CASE ~(s \in group /\ t \in group)
                <5>1. i > 0 /\ attached[SourceAt(i - 1)] = attached[SourceAt(i)]
                    BY <2>1, <3>3, <4>3, GroupIsWhole DEF group, j
                <5>2. nexts[SourceAt(i)] = decoded
                    BY <4>1, <5>1 DEF NothingLeft
                <5>3. m = 0
                    BY <1>5, <4>1, <5>2
                <5>4. Gets(s, m) = nexts[s] /\ Gets(t, m) = nexts[t]
                    BY <1>6, <5>3
                <5>5. next'[s] = nexts[s] /\ next'[t] = nexts[t]
                    BY <1>8, <5>4
                <5>6. queued'[d][s] = queues[d][s] /\ queued'[d][t] = queues[d][t]
                    BY <1>9, <5>3
                <5> QED BY <3>3, <4>1, <5>5, <5>6
            <4> QED BY <4>2, <4>3
        <3> QED BY <3>2, <3>3
    <2> QED BY <2>1 DEF Even
<1>13. ASSUME i < j, apart'[d] = {}
       PROVE  next'[SourceAt(i + 1)] = decoded
    <2>1. SourceAt(i + 1) \in group /\ i + 1 \in i .. j
        <3>1. i + 1 \in i .. j
            BY <1>2, <1>13
        <3> QED BY <3>1 DEF group
    <2> DEFINE s == SourceAt(i + 1)
    <2>2. s \in Streams /\ attached[s] = d
        BY <1>3, <2>1
    <2>3. nexts[s] = nexts[i] /\ n = decoded - nexts[i]
        BY <1>11, <1>13, <2>2
    <2>4. m = n
        BY <1>5, <1>7, <1>13
    <2>5. Gets(s, m) = Gets(s, decoded - nexts[s])
        BY <2>3, <2>4
    <2> QED BY <1>6, <1>8, <2>1, <2>2, <2>5
<1> QED BY <1>7, <1>9, <1>10, <1>12, <1>13 DEF j

\* With streams that hold nothing that goes with a frame, or hold more of it, audio
\* cannot be synchronized; after it was cut they hold nothing.
LEMMA NotAfterDesync ==
    ASSUME Clocks, decoded \in Nat, DesyncAudio, UNCHANGED <<decoded, clock>>
    PROVE  ~CanSynchronize'
<1>1. \A s \in Streams : next'[s] = decoded'
    BY DEF DesyncAudio
<1>2. AudioTime' \in Int /\ decoded' \in Nat
    BY DEF AudioTime, Clocks
<1> SUFFICES ASSUME CanSynchronize' PROVE FALSE
    OBVIOUS
<1>3. /\ Enabled' # {} /\ decoded' > AudioTime'
      /\ \A s \in Enabled' : next'[s] <= AudioTime'
    BY DEF CanSynchronize
<1>4. Enabled' \subseteq Streams
    BY DEF Enabled, Streams
<1> QED BY <1>1, <1>2, <1>3, <1>4

LEMMA HandleSourceSynchronized ==
    ASSUME SInv, Control, Clocks, HandleSource
    PROVE  SInv'
<1> DEFINE i == source
           d == attached[SourceAt(i)]
           j == GroupEnd(i)
           trimmed == [s \in Streams |-> IF s \in Enabled THEN AudioTime ELSE next[s]]
<1>1. /\ at = "sources" /\ i < NumStreams /\ d # 0 /\ source' = i + 1
      /\ attached' = attached /\ decoded' = decoded /\ clock' = clock /\ at' = at
      /\ decoded \in Nat /\ next \in [Streams -> 0 .. decoded]
    BY DEF HandleSource, Control, timing
<1>2. i \in Streams /\ i \in Nat
    BY <1>1, CakeAssumption DEF Control, Streams
<1>3. SourceAt(i) \in Streams /\ d \in Devices
    BY <1>1, <1>2, SourceFacts DEF SInv, Attached
<1>4. Attached'
    BY <1>1 DEF SInv, Attached
<1>5. \A k : SourceAt(k)' = SourceAt(k)
    BY <1>1, SourcesKept
<1>6. /\ synced /\ underrun[d] =>
            DesyncAudio /\ queued' = Reset(d) /\ apart' = Anew(d)
      /\ synced /\ ~underrun[d] =>
            QueueSamples(d, queued, apart, next, i, j) /\ synced' = synced
      /\ ~synced /\ CanSynchronize =>
            QueueSamples(d, Reset(d), PassedOver(d), trimmed, i, j) /\ synced' = TRUE
      /\ ~synced /\ ~CanSynchronize =>
            /\ queued' = Reset(d) /\ apart' = Anew(d) /\ next' = next /\ synced' = FALSE
    BY DEF HandleSource
<1>7. /\ Reset(d) \in Queues /\ Anew(d) \in Histories
      /\ \A s \in Streams : Reset(d)[d][s] = Silent
      /\ \A e \in Devices : e # d => Reset(d)[e] = queued[e] /\ Anew(d)[e] = apart[e]
    <2>1. [s \in Streams |-> Silent] \in [Streams -> Int]
        BY DEF Silent
    <2> QED BY <1>3, <2>1 DEF Reset, Anew, SInv, Queues, Histories
<1>8. Unbroken(Reset(d), Anew(d))
    <2> SUFFICES ASSUME NEW e \in Devices, NEW s \in Streams, Reset(d)[e][s] = Broken
                 PROVE  "passed over" \in Anew(d)[e]
        BY DEF Unbroken
    <2>1. e # d
        BY <1>7 DEF Silent, Broken
    <2> QED BY <1>7, <2>1 DEF SInv, Unbroken
<1> HIDE DEF d, j, trimmed
\* Audio is out of synchronization after the step.
<1>9. ASSUME queued' = Reset(d), apart' = Anew(d), ~synced', ~CanSynchronize'
      PROVE  SInv'
    <2>1. Unbroken(queued, apart)'
        BY <1>8, <1>9 DEF Unbroken
    <2>2. (queued \in Queues /\ apart \in Histories)'
        BY <1>7, <1>9 DEF Queues, Histories
    <2> QED BY <1>4, <1>9, <2>1, <2>2 DEF SInv, SynchronizedFirst, SourceDrained
\* Samples were queued.
<1>10. ASSUME NEW queues \in Queues, NEW histories \in Histories,
              NEW nexts \in [Streams -> 0 .. decoded],
              Unbroken(queues, histories), Follows(queues, histories, nexts),
              Even(queues, histories, nexts), NothingLeft(i, histories, nexts),
              QueueSamples(d, queues, histories, nexts, i, j), synced'
       PROVE  SInv'
    <2>1. /\ queued' \in Queues /\ apart' \in Histories
          /\ Unbroken(queued', apart')
          /\ Follows(queued', apart', next')
          /\ Even(queued', apart', next')
          /\ i < j /\ apart'[d] = {} => next'[SourceAt(i + 1)] = decoded
        BY <1>1, <1>2, <1>3, <1>10, QueueStep DEF SInv, d, j
    <2>2. (queued \in Queues /\ apart \in Histories)'
        BY <2>1 DEF Queues, Histories
    <2>3. Unbroken(queued, apart)'
        BY <2>1 DEF Unbroken
    <2>4. Follows(queued, apart, next)'
        BY <1>1, <2>1 DEF Follows
    <2>5. Even(queued, apart, next)'
        BY <1>1, <2>1 DEF Even
    <2>6. SourceDrained'
        <3>1. ASSUME i + 1 \in Streams, attached[SourceAt(i)] = attached[SourceAt(i + 1)],
                     apart'[attached[SourceAt(i + 1)]] = {}
              PROVE  next'[SourceAt(i + 1)] = decoded
            <4>1. /\ j \in i .. NumStreams - 1
                  /\ j = NumStreams - 1 \/ attached[SourceAt(j + 1)] # d
                BY <1>2, GroupOfOneDevice DEF j, d
            <4>2. j # i /\ i <= j /\ j \in Int
                BY <1>2, <3>1, <4>1, CakeAssumption DEF Streams, d
            <4>3. i < j
                BY <1>2, <4>2
            <4> QED BY <2>1, <3>1, <4>3 DEF d
        <3>2. ASSUME source' \in Streams, NEW k \in Streams, k = source',
                     attached[SourceAt(k - 1)] = attached[SourceAt(k)],
                     apart'[attached[SourceAt(k)]] = {}
              PROVE  next'[SourceAt(k)] = decoded
            <4>1. k = i + 1 /\ k - 1 = i
                BY <1>1, <1>2, <3>2
            <4> QED BY <3>1, <3>2, <4>1
        <3>3. source' \in Streams' => source' \in Streams
            BY DEF Streams
        <3> QED BY <1>1, <1>5, <3>2, <3>3 DEF SourceDrained, NothingLeft
    <2> QED BY <1>4, <1>10, <2>2, <2>3, <2>4, <2>5, <2>6 DEF SInv, SynchronizedFirst
<1>11. CASE synced /\ underrun[d]
    <2>1. DesyncAudio /\ queued' = Reset(d) /\ apart' = Anew(d)
        BY <1>6, <1>11
    <2>2. ~synced'
        BY <2>1 DEF DesyncAudio
    <2>3. ~CanSynchronize'
        BY <1>1, <2>1, NotAfterDesync
    <2> QED BY <1>9, <2>1, <2>2, <2>3
<1>12. CASE synced /\ ~underrun[d]
    <2>1. QueueSamples(d, queued, apart, next, i, j) /\ synced'
        BY <1>6, <1>12
    <2>2. /\ queued \in Queues /\ apart \in Histories /\ Unbroken(queued, apart)
          /\ Follows(queued, apart, next) /\ Even(queued, apart, next)
        BY <1>12 DEF SInv
    <2>3. NothingLeft(i, apart, next)
        BY <1>1, <1>2, <1>12 DEF SInv, SourceDrained, d
    <2> QED BY <1>1, <1>10, <2>1, <2>2, <2>3
<1>13. CASE ~synced /\ CanSynchronize
    <2>1. QueueSamples(d, Reset(d), PassedOver(d), trimmed, i, j) /\ synced'
        BY <1>6, <1>13
    <2>2. ~(i > 0)
        BY <1>1, <1>13 DEF SInv, SynchronizedFirst
    <2>3. /\ PassedOver(d)[d] = {}
          /\ \A e \in Devices : "passed over" \notin PassedOver(d)[e] =>
                \A s \in Streams : Reset(d)[e][s] = Silent
          /\ \A e \in Devices : apart[e] \subseteq PassedOver(d)[e] \/ e = d
          /\ PassedOver(d) \in Histories
        <3>1. \A e \in Devices : e # d =>
                PassedOver(d)[e] = apart[e] \cup {w \in {"passed over"} :
                                        \E s \in Streams : queued[e][s] # Silent}
            BY DEF PassedOver
        <3>2. PassedOver(d)[d] = {}
            BY <1>3 DEF PassedOver
        <3>3. PassedOver(d) \in Histories
            <4>1. \A e \in Devices : apart[e] \in SUBSET Reasons
                BY DEF SInv, Histories
            <4>2. \A e \in Devices : PassedOver(d)[e] \in SUBSET Reasons
                BY <3>1, <3>2, <4>1 DEF Reasons
            <4> QED BY <4>2 DEF PassedOver, Histories
        <3>4. ASSUME NEW e \in Devices, "passed over" \notin PassedOver(d)[e],
                     NEW s \in Streams
              PROVE  Reset(d)[e][s] = Silent
            <4>1. CASE e = d
                BY <1>7, <4>1
            <4>2. CASE e # d
                <5>1. ~(\E t \in Streams : queued[e][t] # Silent)
                    BY <3>1, <3>4, <4>2
                <5>2. Reset(d)[e][s] = queued[e][s]
                    BY <1>7, <4>2
                <5> QED BY <5>1, <5>2
            <4> QED BY <4>1, <4>2
        <3> QED BY <3>1, <3>2, <3>3, <3>4
    <2>4. trimmed \in [Streams -> 0 .. decoded]
        <3>1. AudioTime \in 0 .. decoded
            <4>1. clock.timestamp \in Nat
                BY DEF Clocks
            <4> QED BY <1>1, <1>13, <4>1 DEF CanSynchronize, AudioTime
        <3> QED BY <1>1, <3>1 DEF trimmed
    <2>5. Unbroken(Reset(d), PassedOver(d))
        <3>1. Silent # Broken
            BY DEF Silent, Broken
        <3> QED BY <2>3, <3>1 DEF Unbroken
    <2>6. Follows(Reset(d), PassedOver(d), trimmed)
        BY <2>3 DEF Follows
    <2>7. Even(Reset(d), PassedOver(d), trimmed)
        <3> SUFFICES ASSUME NEW s \in Streams, NEW t \in Streams, attached[s] # 0,
                            attached[s] = attached[t],
                            PassedOver(d)[attached[s]] = {}
                     PROVE  /\ trimmed[s] = trimmed[t]
                            /\ Reset(d)[attached[s]][s] = Reset(d)[attached[s]][t]
            BY DEF Even
        <3>1. attached[s] \in Devices
            BY DEF SInv, Attached
        <3>2. Reset(d)[attached[s]][s] = Silent /\ Reset(d)[attached[s]][t] = Silent
            BY <2>3, <3>1
        <3>3. s \in Enabled /\ t \in Enabled
            BY DEF Enabled
        <3> QED BY <3>2, <3>3 DEF trimmed
    <2>8. NothingLeft(i, PassedOver(d), trimmed)
        BY <2>2 DEF NothingLeft
    <2> QED BY <1>7, <1>10, <2>1, <2>3, <2>4, <2>5, <2>6, <2>7, <2>8
<1>14. CASE ~synced /\ ~CanSynchronize
    <2>1. /\ queued' = Reset(d) /\ apart' = Anew(d) /\ next' = next /\ ~synced'
        BY <1>6, <1>14
    <2>2. ~CanSynchronize'
        BY <1>1, <1>14, <2>1 DEF CanSynchronize, Enabled, AudioTime
    <2> QED BY <1>9, <2>1, <2>2
<1> QED BY <1>11, <1>12, <1>13, <1>14

LEMMA InitSynchronized == Init => SInv
<1> SUFFICES ASSUME Init PROVE SInv
    OBVIOUS
<1>1. Attached
    BY DEF Init, Attached
<1>2. queued \in Queues
    <2>1. [s \in Streams |-> Silent] \in [Streams -> Int]
        BY DEF Silent
    <2> QED BY <2>1 DEF Init, Queues
<1>3. apart \in Histories
    BY DEF Init, Histories
<1>4. Unbroken(queued, apart)
    <2>1. Silent # Broken
        BY DEF Silent, Broken
    <2> QED BY <2>1 DEF Init, Unbroken
<1> QED BY <1>1, <1>2, <1>3, <1>4 DEF Init, SInv, SynchronizedFirst, SourceDrained

\* Steps between two loops: the movie's audio goes on or is cut.
LEMMA BetweenLoops ==
    ASSUME SInv, UNCHANGED <<attached, queued, apart>>,
           DesyncAudio \/ UNCHANGED <<synced, next>>,
           at' = "sources" => source' = 0
    PROVE  SInv'
<1>1. Attached'
    BY DEF SInv, Attached
<1>2. (queued \in Queues /\ apart \in Histories /\ Unbroken(queued, apart))'
    BY DEF SInv, Queues, Histories, Unbroken
<1>3. synced' => (Follows(queued, apart, next) /\ Even(queued, apart, next))'
    <2>1. synced' => synced /\ next' = next
        BY DEF DesyncAudio
    <2>2. synced' => Follows(queued, apart, next)'
        BY <2>1 DEF SInv, Follows
    <2>3. synced' => Even(queued, apart, next)'
        BY <2>1 DEF SInv, Even
    <2> QED BY <2>2, <2>3
<1>4. SynchronizedFirst' /\ SourceDrained'
    BY DEF SynchronizedFirst, SourceDrained, NothingLeft
<1> QED BY <1>1, <1>2, <1>3, <1>4 DEF SInv

\* Steps that may come in the midst of a loop.
LEMMA WithinLoops ==
    ASSUME SInv, UNCHANGED <<attached, queued, apart, synced, next, decoded, clock,
                             at, source>>
    PROVE  SInv'
<1>1. Attached'
    BY DEF SInv, Attached
<1>2. (queued \in Queues /\ apart \in Histories /\ Unbroken(queued, apart))'
    BY DEF SInv, Queues, Histories, Unbroken
<1>3. synced' => (Follows(queued, apart, next) /\ Even(queued, apart, next))'
    BY DEF SInv, Follows, Even
<1>4. SynchronizedFirst'
    BY DEF SInv, SynchronizedFirst, CanSynchronize, AudioTime, Enabled
<1>5. SourceDrained'
    <2>1. \A k : SourceAt(k)' = SourceAt(k)
        BY SourcesKept
    <2> QED BY <2>1 DEF SInv, SourceDrained, NothingLeft
<1> QED BY <1>1, <1>2, <1>3, <1>4, <1>5 DEF SInv

\* Attaching a stream to another device cuts the audio; one that is only taken off
\* leaves the others as they are.
LEMMA SetDeviceSynchronized ==
    ASSUME SInv, NEW s \in Streams, NEW d \in Devices \cup {0},
           SetStreamAudioDevice(s, d)
    PROVE  SInv'
<1>1. /\ attached' = [attached EXCEPT ![s] = d] /\ attached' \in Attachments
      /\ UNCHANGED <<queued, apart>> /\ at' # "sources"
      /\ d # 0 /\ attached[s] # d => DesyncAudio
      /\ d = 0 \/ attached[s] = d => UNCHANGED <<synced, next>>
    BY DEF SetStreamAudioDevice, playing
<1>2. Attached'
    <2>1. attached' \in [Streams -> Nat]
        BY <1>1, CakeAssumption DEF Streams
    <2>2. \A t \in Streams : attached'[t] \in Devices \cup {0}
        <3>1. \A a \in Attachments, t \in Streams : a[t] \in Devices \cup {0}
            BY DEF Devices
        <3> QED BY <1>1, <3>1
    <2>3. Streams' = Streams /\ Devices' = Devices
        BY DEF Streams, Devices
    <2> QED BY <2>1, <2>2, <2>3 DEF Attached
<1>3. (queued \in Queues /\ apart \in Histories /\ Unbroken(queued, apart))'
    BY <1>1 DEF SInv, Queues, Histories, Unbroken
<1>4. synced' => (Follows(queued, apart, next) /\ Even(queued, apart, next))'
    <2> SUFFICES ASSUME synced' PROVE (Follows(queued, apart, next) /\ Even(queued, apart, next))'
        OBVIOUS
    <2>1. d = 0 \/ attached[s] = d
        BY <1>1 DEF DesyncAudio
    <2>2. synced /\ next' = next
        BY <1>1, <2>1
    <2>3. \A t \in Streams : attached'[t] # 0 => attached'[t] = attached[t]
        BY <1>1, <2>1 DEF SInv, Attached
    <2>4. Follows(queued, apart, next) /\ Even(queued, apart, next)
        BY <2>2 DEF SInv
    <2>5. 0 \notin Devices
        BY DEF Devices
    <2>6. Follows(queued, apart, next)'
        BY <1>1, <2>2, <2>3, <2>4, <2>5 DEF Follows
    <2>7. Even(queued, apart, next)'
        <3> SUFFICES ASSUME NEW t \in Streams, NEW u \in Streams, attached'[t] # 0,
                            attached'[t] = attached'[u], apart'[attached'[t]] = {}
                     PROVE  /\ next'[t] = next'[u]
                            /\ queued'[attached'[t]][t] = queued'[attached'[t]][u]
            BY DEF Even, Streams
        <3>1. attached'[t] = attached[t] /\ attached'[u] = attached[u]
            BY <2>3
        <3> QED BY <1>1, <2>2, <2>4, <3>1 DEF Even
    <2> QED BY <2>6, <2>7
<1>5. SynchronizedFirst' /\ SourceDrained'
    BY <1>1 DEF SynchronizedFirst, SourceDrained
<1> QED BY <1>2, <1>3, <1>4, <1>5 DEF SInv

LEMMA SynchronizedStep ==
    ASSUME SInv, Control, Clocks, [Next]_vars
    PROVE  SInv'
<1>1. CASE HandleSource
    BY <1>1, HandleSourceSynchronized
<1>2. CASE \E s \in Streams, d \in Devices \cup {0} : SetStreamAudioDevice(s, d)
    BY <1>2, SetDeviceSynchronized
<1>3. CASE Decode
    <2>1. UNCHANGED <<attached, queued, apart>>
        BY <1>3 DEF Decode, playing
    <2>2. DesyncAudio \/ UNCHANGED <<synced, next>>
        BY <1>3 DEF Decode, AudioArrives, movieAudio
    <2>3. at' = "sources" => source' = 0
        BY <1>3 DEF Decode, DecodeNothing, DecodeWorked, DecodeError, DecodeFrame, FirstFrame,
           EarlyFrame, LateFrame, HandleVideoSync
    <2> QED BY <2>1, <2>2, <2>3, BetweenLoops
<1>4. CASE Fill \/ ReadMovieInfo \/ Call \/ DisplayWaiting \/ AskDisabledStream \/ LastSource
    <2>1. UNCHANGED <<attached, queued, apart, synced, next>>
        BY <1>4 DEF Fill, ReadMovieInfo, Call, DisplayWaiting, AskDisabledStream, LastSource,
           playing, movieAudio
    <2>2. at' = "sources" => source' = 0
        BY <1>4 DEF Fill, ReadMovieInfo, Call, DisplayWaiting, AskDisabledStream, LastSource,
           HandleVideoSync
    <2> QED BY <2>1, <2>2, BetweenLoops
<1>5. CASE (\E d \in Devices : Underrun(d)) \/ Tick \/ UNCHANGED vars
    <2>1. UNCHANGED <<attached, queued, apart, synced, next, decoded, clock, at, source>>
        BY <1>5 DEF Underrun, Tick, vars, movieAudio, playing, timing
    <2> QED BY <2>1, WithinLoops
<1> QED BY <1>1, <1>2, <1>3, <1>4, <1>5, Steps DEF Others

LEMMA Synchronized == Spec => []SInv
<1>1. Init => TInv /\ Control /\ SInv
    BY InitTimes, InitControl, InitSynchronized
<1>2. TInv /\ Control /\ SInv /\ [Next]_vars => (TInv /\ Control /\ SInv)'
    BY TimesStep, ControlStep, SynchronizedStep DEF TInv
<1> QED BY <1>1, <1>2, PTL DEF Spec

-----------------------------------------------------------------------------
(* The theorems.                                                           *)

LEMMA TypesFollow == Buffered /\ Control => TypeOK
<1> SUFFICES ASSUME Buffered, Control PROVE TypeOK
    OBVIOUS
<1>1. /\ start \in 0 .. BufferSize /\ used \in 0 .. BufferSize - start
      /\ filePos \in 0 .. Length /\ fed \in 0 .. Length
    <2>1. Length \in Nat /\ BufferSize \in Nat
        BY MissingBytes, CakeAssumption
    <2> QED BY <2>1 DEF Buffered, FileTypes
<1> QED BY <1>1 DEF TypeOK, Control

\* Whatever the movie and the size of the buffer, the demultiplexer is given the
\* bytes of the file, each once and in order, if the reader returns all it is asked
\* for until the file ends (lwmCake::FillBuffer, ReadMovieInfo and Decode).
THEOREM BytesInOrder == ASSUME ~ShortReads PROVE Spec => []DigestedInOrder
<1>1. Init => BInv /\ TInv /\ Control
    BY InitBytes, InitTimes, InitControl
<1>2. BInv /\ TInv /\ Control /\ [Next]_vars => (BInv /\ TInv /\ Control)'
    BY BytesStep, TimesStep, ControlStep DEF TInv
<1>3. BInv /\ TInv /\ Control => DigestedInOrder
    <2> SUFFICES ASSUME BInv, Control PROVE DigestedInOrder
        OBVIOUS
    <2>1. TypeOK
        BY TypesFollow DEF BInv
    <2>2. PICK n \in Nat : eaten = [i \in 1 .. n |-> fed - n + i]
        BY DEF BInv, Buffered, EatenInOrder
    <2>3. Len(eaten) = n
        BY <2>2
    <2> QED BY <2>1, <2>2, <2>3 DEF DigestedInOrder
<1> QED BY <1>1, <1>2, <1>3, PTL DEF Spec

\* With such a reader, Decode says that the movie has finished only when every
\* byte of the file has been digested.
THEOREM EndIsTheEnd == ASSUME ~ShortReads PROVE Spec => []FinishedMeansEnd
<1>1. BInv => FinishedMeansEnd
    BY DEF BInv, FinishedIdly, FinishedMeansEnd
<1>2. BInv /\ [Next]_vars => BInv'
    BY BytesStep
<1> QED BY <1>1, <1>2, InitBytes, PTL DEF Spec

\* Whatever the frame rate, the clock and its resolution, no frame is shown before
\* it is due (lwmCake::Decode).
THEOREM FramesNotEarly == Spec => NeverEarly
<1>1. Init => TInv /\ Control
    BY InitTimes, InitControl
<1>2. TInv /\ Control /\ [Next]_vars => (TInv /\ Control)'
    BY TimesStep, ControlStep DEF TInv
<1>3. TInv /\ Control /\ [Next]_vars =>
        [shown' > shown /\ ~clock.first =>
            now + resolution >= clock.start + clock'.timestamp * FramePeriod]_vars
    BY ShownInTime DEF Control
<1> QED BY <1>1, <1>2, <1>3, PTL DEF Spec, NeverEarly

\* Whatever the movie and the frame rate, every frame that was decoded and not
\* dropped is returned exactly once, or waits (lwmCake::Decode), if the reader
\* returns all it is asked for and the headers come first.
THEOREM FramesAreShown ==
    ASSUME ~ShortReads, HeadersFirst
    PROVE  Spec => []FramesShown
<1>1. Init => BInv /\ TInv /\ Control /\ FInv
    BY InitBytes, InitTimes, InitControl, InitFrames
<1>2. BInv /\ TInv /\ Control /\ FInv /\ [Next]_vars => (BInv /\ TInv /\ Control /\ FInv)'
    BY BytesStep, TimesStep, ControlStep, FramesStep DEF TInv
<1>3. FInv => FramesShown
    BY DEF FInv, FramesShown, FramesFed, OneWaits
<1> QED BY <1>1, <1>2, <1>3, PTL DEF Spec

\* However many streams there are, the number of samples is asked of a stream
\* without a decoder only when the streams that have devices are not the first
\* ones, in the order of their devices (the loop of lwmCake::HandleVideoSync).
THEOREM OnlyOrderCrashes == Spec => []AsksEnabledStreams
<1>1. Init => TInv /\ Control /\ AsksEnabledStreams
    BY InitTimes, InitControl DEF Init, AsksEnabledStreams
<1>2. TInv /\ Control /\ AsksEnabledStreams /\ [Next]_vars
        => (TInv /\ Control /\ AsksEnabledStreams)'
    BY TimesStep, ControlStep, CrashStep DEF TInv
<1> QED BY <1>1, <1>2, PTL DEF Spec

\* However many streams play on however many devices: as long as audio stays
\* synchronized the streams of one device have had the same samples, unless the
\* device took less than it was offered, was given them by the wrong streams'
\* numbers, or was passed over (the loop of lwmCake::HandleVideoSync).
THEOREM StreamsStayInStep == Spec => []StreamsInStep
<1>1. SInv => StreamsInStep
    <2> SUFFICES ASSUME SInv, synced, NEW s \in Enabled, NEW t \in Enabled,
                        attached[s] = attached[t], apart[attached[s]] = {}
                 PROVE  queued[attached[s]][s] = queued[attached[s]][t]
        BY DEF StreamsInStep
    <2>1. s \in Streams /\ t \in Streams /\ attached[s] # 0
        BY DEF Enabled
    <2> QED BY <2>1 DEF SInv, Even
<1> QED BY <1>1, Synchronized, PTL

\* A device is given samples that do not follow the ones it has only if it was
\* passed over: of the devices in use, it is not the first, and audio was
\* synchronized before its turn to be reset.
THEOREM PlaybackIsContinuous == Spec => []ContinuousPlayback
<1>1. SInv => ContinuousPlayback
    BY DEF SInv, Unbroken, ContinuousPlayback
<1> QED BY <1>1, Synchronized, PTL
=============================================================================
