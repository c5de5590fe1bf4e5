-------------------------------- MODULE Cake --------------------------------
(***************************************************************************)
(* lwmCake (src/lwmovie/lwmovie_cake.cpp), the simplified playback         *)
(* interface: reads the file through a small buffer, feeds the             *)
(* demultiplexer, holds every frame back until it is due, and at every     *)
(* frame hands the audio that has come in to the audio devices.            *)
(*                                                                         *)
(* A movie is a sequence of units (the headers, packets, and the packets   *)
(* that complete a frame); the demultiplexer, which Framing models, is     *)
(* seen here as what it returns when a unit is complete, and its audio as  *)
(* positions on the movie's timeline (AudioSync models how it keeps them). *)
(* One audio sample lasts one video period.  All streams have one rate.    *)
(***************************************************************************)
EXTENDS Integers, Sequences, FiniteSets

CONSTANTS
    Movies,         \* sequences of [kind, end], end being where a unit ends
    BufferSize,     \* BUFFER_SIZE, 4096 bytes in the code
    ShortReads,     \* the file reader may return less than it is asked for
                    \* before the end of the file
    NumStreams,     \* audio streams
    Attachments,    \* which device each stream may be attached to, 0: none
    FramePeriod,    \* 1000 * fpsDenom / fpsNum, the time units of a frame
    MaxSlip,        \* 1000 ms in the code
    Resolutions,    \* what the time reader may say its resolution is
    MaxTime,        \* bound: time that passes without anyone waiting for it
    MaxChanges      \* bound: calls of SetStreamAudioDevice

ASSUME CakeAssumption ==
    /\ \A m \in Movies :
        /\ m \in Seq([kind : STRING, end : Nat]) /\ m # <<>>
        /\ \A i, k \in DOMAIN m : i < k => m[i].end < m[k].end
    /\ BufferSize \in Nat \ {0}
    /\ ShortReads \in BOOLEAN
    /\ NumStreams \in Nat
    /\ Attachments \subseteq [0 .. NumStreams - 1 -> Nat]
    /\ FramePeriod \in Nat \ {0}
    /\ MaxSlip \in Nat
    /\ Resolutions \subseteq Nat
    /\ MaxTime \in Nat
    /\ MaxChanges \in Nat

Streams == 0 .. NumStreams - 1   \* by the order of the stream headers
Silent == -1
Broken == -2
Devices == {a[s] : a \in Attachments, s \in Streams} \ {0}

VARIABLES
    movie,
    filePos,        \* bytes of the file read
    buffer,         \* m_byteBuffer: which byte of the file each cell holds
    start,          \* m_bufferStart
    used,           \* m_bufferUsed
    eof,
    fed,            \* bytes the demultiplexer has digested
    eaten,          \* those of its last call
    phase,          \* "info", "decoding" or "failed" (m_fatalError)
    at,             \* where the call in progress is; "idle": none is;
                    \* "crashed": the program is gone
    answer,         \* what the last call returned, or this one is going to
    now,            \* the time reader's time
    resolution,     \* m_timeResolution
    clock,          \* m_firstFrame, m_playbackStartTime, m_currentVideoTimestamp
    waiting,        \* m_waitingForDisplay, m_waitingFrameIsDropped, m_frameDisplayTime
    shown,          \* frames returned to the application, and when the last was
    attached,       \* per stream, attachedAudioDevice
    source,         \* firstSource, in HandleVideoSync
    synced,         \* the movie state's isAudioSynchronized
    decoded,        \* position after the last committed sample
    next,           \* per stream, position of its oldest sample held
    queued,         \* per device and stream, position after the last sample
                    \* queued since the device was reset, Silent: none,
                    \* Broken: the samples did not follow each other
    apart,          \* history: per device, what has happened since it was reset
                    \* that may set its streams apart
    underrun,       \* per device, what underrunOccurredFunc returns
    changes         \* history: calls of SetStreamAudioDevice

file == <<filePos, buffer, start, used, eof>>
feeding == <<fed, eaten>>
timing == <<clock, waiting, shown>>
movieAudio == <<synced, decoded, next>>
playing == <<queued, apart, underrun>>
fixed == <<movie, resolution>>
vars == <<fixed, file, feeding, phase, at, answer, now, timing, attached, source,
          movieAudio, playing, changes>>

Least(a, b) == IF a < b THEN a ELSE b

Length == movie[Len(movie)].end

Init ==
    /\ movie \in Movies
    /\ filePos = 0
    /\ buffer = [i \in 0 .. BufferSize - 1 |-> 0]
    /\ start = 0
    /\ used = 0
    /\ eof = FALSE
    /\ fed = 0
    /\ eaten = <<>>
    /\ phase = "info"
    /\ at = "idle"
    /\ answer = "none"
    /\ now = 0
    /\ resolution \in Resolutions
    /\ clock = [first |-> TRUE, start |-> 0, timestamp |-> 0]
    /\ waiting = [on |-> FALSE, dropped |-> FALSE, until |-> 0]
    /\ shown = 0
    /\ attached = [s \in Streams |-> 0]
    /\ source = 0
    /\ synced = FALSE
    /\ decoded = 0
    /\ next = [s \in Streams |-> 0]
    /\ queued = [d \in Devices |-> [s \in Streams |-> Silent]]
    /\ apart = [d \in Devices |-> {}]
    /\ underrun = [d \in Devices |-> FALSE]
    /\ changes = 0

-----------------------------------------------------------------------------
(* lwmCake::FillBuffer.                                                    *)

\* What readBytesFunc may return of n bytes, and isEOFFunc after it.
ReadResults(n) ==
    LET left == Length - filePos
        most == Least(n, left)
    IN {r \in (IF ShortReads THEN 0 .. most ELSE {most}) \X BOOLEAN :
            /\ r[2] => r[1] = left
            /\ ~ShortReads /\ r[1] < n => r[2]}

\* The bytes go to m_bufferStart, over any that are not digested yet.
FillBuffer ==
    LET from == IF used = 0 THEN 0 ELSE start
        space == BufferSize - (from + used)
    IN
    IF eof THEN UNCHANGED file
    ELSE IF space = 0 THEN start' = from /\ UNCHANGED <<filePos, buffer, used, eof>>
    ELSE \E r \in ReadResults(space) :
            /\ buffer' = [i \in DOMAIN buffer |->
                    IF i \in from .. from + r[1] - 1 THEN filePos + i - from + 1 ELSE buffer[i]]
            /\ filePos' = filePos + r[1]
            /\ start' = from
            /\ used' = used + r[1]
            /\ eof' = r[2]

Fill ==
    /\ at = "filling"
    /\ at' = "feeding"
    /\ IF phase = "decoding" /\ used = BufferSize THEN UNCHANGED file ELSE FillBuffer
    /\ UNCHANGED <<fixed, feeding, phase, answer, now, timing, attached, source,
                   movieAudio, playing, changes>>

-----------------------------------------------------------------------------
(* lwmMovieState_FeedData, as Cake sees it: it stops after a unit.         *)

Unit == CHOOSE i \in DOMAIN movie :
            movie[i].end > fed /\ \A k \in 1 .. i - 1 : movie[k].end <= fed

\* Bytes to the end of the current unit.
Missing == IF fed = Length THEN 0 ELSE movie[Unit].end - fed
Digestible == Least(used, Missing)
Completes == Missing > 0 /\ used >= Missing

DigestResult == IF Completes THEN movie[Unit].kind ELSE "nothing"

FeedData ==
    /\ fed' = fed + Digestible
    /\ eaten' = [i \in 1 .. Digestible |-> buffer[start + i - 1]]
    /\ start' = start + Digestible
    /\ used' = used - Digestible
    /\ UNCHANGED <<filePos, buffer, eof>>

\* Every stream that has a decoder has lost what it held.
DesyncAudio ==
    /\ synced' = FALSE
    /\ next' = [s \in Streams |-> decoded']

\* An audio frame and its synchronization.  It may not decode, or be too much.
AudioArrives ==
    IF DigestResult = "audio"
    THEN /\ decoded' = decoded + 1
         /\ \/ UNCHANGED <<synced, next>>
            \/ DesyncAudio
    ELSE UNCHANGED movieAudio

-----------------------------------------------------------------------------
(* lwmCake::ReadMovieInfo, and BeginDecoding.                              *)

\* Mutant: the bytes after the headers are dropped.
ReadMovieInfoDroppingRest ==
    /\ phase = "info"
    /\ at = "feeding"
    /\ fed' = fed + Digestible
    /\ eaten' = [i \in 1 .. Digestible |-> buffer[start + i - 1]]
    /\ start' = 0
    /\ used' = 0
    /\ CASE DigestResult = "headers" -> at' = "idle" /\ phase' = "decoding" /\ answer' = "Initialized"
         [] DigestResult = "bad" -> at' = "idle" /\ phase' = "failed" /\ answer' = "Error"
         [] DigestResult = "nothing" -> at' = "idle" /\ answer' = (IF eof THEN "Error" ELSE "Waiting")
                                        /\ phase' = (IF eof THEN "failed" ELSE "info")
         [] OTHER -> at' = "filling" /\ UNCHANGED <<phase, answer>>
    /\ UNCHANGED <<fixed, filePos, buffer, eof, now, timing, attached, source, movieAudio,
                   playing, changes>>

\* An application whose movie has no headers, or bad ones, gives up.
ReadMovieInfo ==
    /\ phase = "info"
    /\ at = "feeding"
    /\ FeedData
    /\ CASE DigestResult = "headers" -> at' = "idle" /\ phase' = "decoding" /\ answer' = "Initialized"
         [] DigestResult = "bad" -> at' = "idle" /\ phase' = "failed" /\ answer' = "Error"
         [] DigestResult = "nothing" -> at' = "idle" /\ answer' = (IF eof THEN "Error" ELSE "Waiting")
                                        /\ phase' = (IF eof THEN "failed" ELSE "info")
         [] OTHER -> at' = "filling" /\ UNCHANGED <<phase, answer>>
    /\ UNCHANGED <<fixed, now, timing, attached, source, movieAudio, playing, changes>>

\* The application calls ReadMovieInfo until it knows the movie, and then Decode.
Call ==
    /\ at = "idle"
    /\ answer \notin {"Finished", "Error"}
    /\ at' = (IF phase = "decoding" /\ waiting.on THEN "waiting" ELSE "filling")
    /\ UNCHANGED <<fixed, file, feeding, phase, answer, now, timing, attached, source,
                   movieAudio, playing, changes>>

-----------------------------------------------------------------------------
(* lwmCake::Decode.                                                        *)

HandleVideoSync(dropped) ==
    /\ at' = "sources"
    /\ source' = 0
    /\ answer' = (IF dropped THEN "Waiting" ELSE "NewVideoFrame")
    /\ shown' = (IF dropped THEN shown ELSE shown + 1)

\* Mutant: goes on waiting for the frame it returns.
DisplayAgain ==
    LET early == now < waiting.until /\ waiting.until - now > resolution IN
    /\ at = "waiting"
    /\ IF early
       THEN /\ at' = "idle"
            /\ answer' = "Waiting"
            /\ UNCHANGED <<shown, source>>
       ELSE HandleVideoSync(waiting.dropped)
    /\ UNCHANGED <<fixed, file, feeding, phase, now, clock, waiting, attached, movieAudio, playing,
                   changes>>

\* A frame has been decoded before, and may be due now.
DisplayWaiting ==
    LET early == now < waiting.until /\ waiting.until - now > resolution IN
    /\ at = "waiting"
    /\ IF early
       THEN /\ at' = "idle"
            /\ answer' = "Waiting"
            /\ UNCHANGED <<waiting, shown, source>>
       ELSE /\ waiting' = [waiting EXCEPT !.on = FALSE]
            /\ HandleVideoSync(waiting.dropped)
    /\ UNCHANGED <<fixed, file, feeding, phase, now, clock, attached, movieAudio, playing,
                   changes>>

\* Mutant: the end is where the buffer is, although a packet has been begun.
DecodeNothingEarly ==
    /\ DigestResult = "nothing"
    /\ IF used = Digestible
       THEN at' = "idle" /\ answer' = "Finished"
       ELSE at' = "filling" /\ UNCHANGED answer
    /\ UNCHANGED <<phase, timing, source>>

\* Mutant: reads on, whether or not anything is left.
DecodeNothingReadingOn ==
    /\ DigestResult = "nothing"
    /\ at' = "filling"
    /\ UNCHANGED <<phase, timing, source, answer>>

\* The movie has digested all there was, or more must be read.
DecodeNothing ==
    /\ DigestResult = "nothing"
    /\ IF Digestible = 0 /\ used = 0
       THEN at' = "idle" /\ answer' = "Finished"
       ELSE at' = "filling" /\ UNCHANGED answer
    /\ UNCHANGED <<phase, timing, source>>

DecodeWorked ==
    /\ DigestResult \in {"data", "audio"}
    /\ at' = "filling"
    /\ UNCHANGED <<phase, answer, timing, source>>

DecodeError ==
    /\ DigestResult \in {"headers", "bad"}
    /\ phase' = "failed"
    /\ at' = "idle"
    /\ answer' = "Error"
    /\ UNCHANGED <<timing, source>>

FirstFrame(dropped) ==
    /\ clock' = [first |-> FALSE, start |-> now, timestamp |-> clock.timestamp + 1]
    /\ UNCHANGED waiting
    /\ HandleVideoSync(dropped)

\* Mutant: the time of the frame before.
FrameTimeOfLast == clock.start + clock.timestamp * FramePeriod

FrameTime == clock.start + (clock.timestamp + 1) * FramePeriod

EarlyFrame(dropped) ==
    /\ now < FrameTime
    /\ clock' = [clock EXCEPT !.timestamp = @ + 1]
    /\ waiting' = [on |-> TRUE, dropped |-> dropped, until |-> FrameTime]
    /\ at' = "idle"
    /\ answer' = "Waiting"
    /\ UNCHANGED <<shown, source>>

\* A frame that is too late puts off all that follow.
LateFrame(dropped) ==
    /\ now >= FrameTime
    /\ clock' = [clock EXCEPT !.timestamp = @ + 1,
                              !.start = IF now - FrameTime > MaxSlip
                                        THEN @ + (now - FrameTime) ELSE @]
    /\ UNCHANGED waiting
    /\ HandleVideoSync(dropped)

DecodeFrame ==
    LET dropped == DigestResult = "dropped frame" IN
    /\ DigestResult \in {"frame", "dropped frame"}
    /\ IF clock.first THEN FirstFrame(dropped) ELSE EarlyFrame(dropped) \/ LateFrame(dropped)
    /\ UNCHANGED phase

Decode ==
    /\ phase = "decoding"
    /\ at = "feeding"
    /\ FeedData
    /\ AudioArrives
    /\ DecodeNothing \/ DecodeWorked \/ DecodeError \/ DecodeFrame
    /\ UNCHANGED <<fixed, now, attached, playing, changes>>

-----------------------------------------------------------------------------
(* Audio: SetStreamAudioDevice and the loop of HandleVideoSync.            *)

\* m_audioSources is sorted: the streams that have a device first, by device.
Before(a, b) ==
    LET d == attached[a]  e == attached[b] IN
    \/ d # 0 /\ e = 0
    \/ (d = 0) = (e = 0) /\ (d < e \/ (d = e /\ a < b))

SourceAt(i) == CHOOSE s \in Streams : Cardinality({t \in Streams : Before(t, s)}) = i

Enabled == {s \in Streams : attached[s] # 0}

\* Mutant: the scan does not stop at another device.
GroupToTheEnd(i) == NumStreams - 1

\* The sources from i on that have the device of source i.
GroupEnd(i) ==
    CHOOSE j \in i .. NumStreams - 1 :
        /\ \A k \in i .. j : attached[SourceAt(k)] = attached[SourceAt(i)]
        /\ j = NumStreams - 1 \/ attached[SourceAt(j + 1)] # attached[SourceAt(i)]

\* Mutant: enabling a stream does not desynchronize.
SetStreamAudioDeviceSynced(s, d) ==
    /\ phase = "decoding"
    /\ at = "idle"
    /\ changes < MaxChanges
    /\ changes' = changes + 1
    /\ attached' = [attached EXCEPT ![s] = d]
    /\ attached' \in Attachments
    /\ UNCHANGED <<fixed, file, feeding, phase, at, answer, now, timing, source, playing,
                   movieAudio>>

\* Disabling a stream destroys its decoder; enabling it again desynchronizes.
SetStreamAudioDevice(s, d) ==
    /\ phase = "decoding"
    /\ at = "idle"
    /\ changes < MaxChanges
    /\ changes' = changes + 1
    /\ attached' = [attached EXCEPT ![s] = d]
    /\ attached' \in Attachments
    /\ UNCHANGED decoded
    /\ IF d # 0 /\ attached[s] # d THEN DesyncAudio ELSE UNCHANGED <<synced, next>>
    /\ UNCHANGED <<fixed, file, feeding, phase, at, answer, now, timing, source, playing>>

\* lwmMovieState_SynchronizeAudioPlayback, with the video at its latest frame:
\* the streams must hold the same samples, and the one that goes with the frame.
\* The period of a frame is one more than its place, the frame's audio begins at
\* the latter.
AudioTime == clock.timestamp - 1

CanSynchronize ==
    /\ Enabled # {}
    /\ clock.timestamp # 0 /\ decoded # 0
    /\ \A s, t \in Enabled : next[s] = next[t]
    /\ \A s \in Enabled : next[s] <= AudioTime
    /\ decoded > AudioTime

\* lwmMovieState_GetNumAudioSamplesAvailable, of the stream whose index is i.
\* It looks into a decoder without asking whether there is one.
Available(nexts, i) == decoded - nexts[i]

\* The amount to queue for the sources from i to j: the first one's, unless a
\* later one has less.
MinSamplesAvailable(nexts, i, j) ==
    IF \E k \in i + 1 .. j : Available(nexts, k) < Available(nexts, i) THEN 0
    ELSE Available(nexts, i)

\* queueSamplesFunc reads as much of every source (ReadAudioSamples).
QueueSamples(d, playable, before, nexts, i, j) ==
    LET n == MinSamplesAvailable(nexts, i, j)
        group == {SourceAt(k) : k \in i .. j}
        Read(s, m) == Least(m, decoded - nexts[s])
        Queue(s, last, m) == IF last \in {Silent, nexts[s]} THEN nexts[s] + Read(s, m) ELSE Broken
    IN
    \E m \in 0 .. n :
        /\ next' = [s \in Streams |-> IF s \in group THEN nexts[s] + Read(s, m) ELSE nexts[s]]
        /\ queued' = IF m = 0 THEN playable
                     ELSE [playable EXCEPT ![d] = [s \in Streams |->
                            IF s \in group THEN Queue(s, @[s], m) ELSE @[s]]]
        /\ apart' = [before EXCEPT ![d] = @
                        \cup {w \in {"took less"} : m < n /\ i < j}
                        \cup {w \in {"out of place"} : \E k \in i .. j : SourceAt(k) # k}]

Reset(d) == [queued EXCEPT ![d] = [s \in Streams |-> Silent]]
Anew(d) == [apart EXCEPT ![d] = {}]

\* Only the device at hand is reset when audio is synchronized.
PassedOver(d) ==
    [e \in Devices |->
        IF e = d THEN {}
        ELSE apart[e] \cup {w \in {"passed over"} : \E s \in Streams : queued[e][s] # Silent}]

\* Whether audio is synchronized when the samples of source i are asked for.
SynchronizedFor(i) ==
    IF synced THEN ~underrun[attached[SourceAt(i)]] ELSE CanSynchronize

\* The positions from i on are taken for streams.  One of these has no decoder.
AsksInVain(i) == SynchronizedFor(i) /\ ~(i .. GroupEnd(i) \subseteq Enabled)

\* Mutant: a device is not reset when audio is out of synchronization.
HandleSourceWithoutReset ==
    LET i == source
        d == attached[SourceAt(i)]
        j == GroupEnd(i)
        trimmed == [s \in Streams |-> IF s \in Enabled THEN AudioTime ELSE next[s]]
    IN
    /\ at = "sources"
    /\ i < NumStreams /\ d # 0 /\ ~AsksInVain(i)
    /\ source' = source + 1
    /\ IF synced THEN UNCHANGED <<synced, underrun>> /\ QueueSamples(d, queued, apart, next, i, j)
       ELSE /\ underrun' = underrun
            /\ synced' = CanSynchronize
            /\ IF CanSynchronize THEN QueueSamples(d, queued, PassedOver(d), trimmed, i, j)
               ELSE UNCHANGED <<queued, apart, next>>
    /\ UNCHANGED <<fixed, file, feeding, phase, at, answer, now, timing, attached, decoded,
                   changes>>

HandleSource ==
    LET i == source
        d == attached[SourceAt(i)]
        j == GroupEnd(i)
        trimmed == [s \in Streams |-> IF s \in Enabled THEN AudioTime ELSE next[s]]
    IN
    /\ at = "sources"
    /\ i < NumStreams /\ d # 0 /\ ~AsksInVain(i)
    /\ source' = source + 1
    /\ UNCHANGED decoded
    /\ CASE synced /\ underrun[d] ->
              /\ DesyncAudio
              /\ queued' = Reset(d) /\ apart' = Anew(d)
              /\ underrun' = [underrun EXCEPT ![d] = FALSE]
         [] synced /\ ~underrun[d] ->
              /\ QueueSamples(d, queued, apart, next, i, j)
              /\ UNCHANGED <<synced, underrun>>
         [] OTHER ->
              /\ underrun' = [underrun EXCEPT ![d] = FALSE]
              /\ synced' = CanSynchronize
              /\ IF CanSynchronize THEN QueueSamples(d, Reset(d), PassedOver(d), trimmed, i, j)
                 ELSE queued' = Reset(d) /\ apart' = Anew(d) /\ UNCHANGED next
    /\ UNCHANGED <<fixed, file, feeding, phase, at, answer, now, timing, attached, changes>>

\* A method of the audio buffer is called on NULL.
AskDisabledStream ==
    /\ at = "sources"
    /\ source < NumStreams /\ attached[SourceAt(source)] # 0
    /\ AsksInVain(source)
    /\ at' = "crashed"
    /\ UNCHANGED <<fixed, file, feeding, phase, answer, now, timing, attached, source,
                   movieAudio, playing, changes>>

LastSource ==
    /\ at = "sources"
    /\ IF source < NumStreams THEN attached[SourceAt(source)] = 0 ELSE TRUE
    /\ at' = "idle"
    /\ UNCHANGED <<fixed, file, feeding, phase, answer, now, timing, attached, source,
                   movieAudio, playing, changes>>

\* A device that has played all it was given.
Underrun(d) ==
    /\ ~underrun[d]
    /\ \E s \in Streams : queued[d][s] # Silent
    /\ underrun' = [underrun EXCEPT ![d] = TRUE]
    /\ UNCHANGED <<fixed, file, feeding, phase, at, answer, now, timing, attached, source,
                   movieAudio, queued, apart, changes>>

Tick ==
    /\ now < MaxTime \/ (waiting.on /\ now < waiting.until)
    /\ now' = now + 1
    /\ UNCHANGED <<fixed, file, feeding, phase, at, answer, timing, attached, source,
                   movieAudio, playing, changes>>

Step == Fill \/ ReadMovieInfo \/ DisplayWaiting \/ Decode \/ HandleSource \/ AskDisabledStream
    \/ LastSource

Next ==
    \/ Call
    \/ Step
    \/ \E s \in Streams, d \in Devices \cup {0} : SetStreamAudioDevice(s, d)
    \/ \E d \in Devices : Underrun(d)
    \/ Tick

\* The application goes on calling, calls return, and time passes.
Fairness == WF_vars(Call) /\ WF_vars(Step) /\ WF_vars(Tick)

Spec == Init /\ [][Next]_vars /\ Fairness

-----------------------------------------------------------------------------
(* Properties.                                                             *)

\* Types; what is unread lies in the buffer.
TypeOK ==
    /\ start \in 0 .. BufferSize
    /\ used \in 0 .. BufferSize - start
    /\ filePos \in 0 .. Length
    /\ fed \in 0 .. Length
    /\ phase \in {"info", "decoding", "failed"}
    /\ at \in {"idle", "waiting", "filling", "feeding", "sources", "crashed"}
    /\ source \in 0 .. NumStreams
    /\ shown \in Nat
    /\ next \in [Streams -> 0 .. decoded]

\* The demultiplexer is given the bytes of the file, each once and in order,
\* however reads fall on packets and buffer; and the state is well formed.
DigestedInOrder ==
    /\ TypeOK
    /\ eaten = [i \in 1 .. Len(eaten) |-> fed - Len(eaten) + i]

\* "Decoding reached the end of the movie" (Cake_Documentation.odt).
FinishedMeansEnd == answer = "Finished" => fed = Length

\* Every frame that was decoded and not dropped is returned exactly once, and
\* one that waits for its time is not overtaken by the next.
FramesShown ==
    shown = Cardinality({i \in DOMAIN movie : movie[i].kind = "frame" /\ movie[i].end <= fed})
                - (IF waiting.on /\ ~waiting.dropped THEN 1 ELSE 0)

\* A frame is never shown before it is due, counted from the time the first one
\* was shown (or from when the movie last fell behind), give or take the clock.
NeverEarly ==
    [][shown' > shown /\ ~clock.first =>
        now + resolution >= clock.start + clock'.timestamp * FramePeriod]_vars

\* While audio is synchronized, the streams that play on one device have had the
\* same samples queued, although each of them comes up in the loop on its own.
\* There are three ways to lose this until the device is reset again: it has
\* taken less than it was offered (then the second stream comes up with samples
\* left, and is offered alone); the streams' places in the sorted list, by which
\* the amount is found, were not their numbers; it still had samples queued when
\* audio was synchronized for a device that comes before it.
StreamsInStep ==
    synced => \A s, t \in Enabled : attached[s] = attached[t] =>
        \/ queued[attached[s]][s] = queued[attached[s]][t]
        \/ apart[attached[s]] # {}

\* A device that goes on playing is given the samples that follow the ones it
\* has: when the movie's audio was cut or trimmed it has been reset before, unless
\* the device of another source was, and audio synchronized with it.
ContinuousPlayback ==
    \A d \in Devices, s \in Streams :
        queued[d][s] = Broken => "passed over" \in apart[d]

\* A stream that is disabled is asked for its samples only when the streams that
\* have devices are not the first ones, or not in the order of their devices: then
\* the place in the sorted list is not the stream's number.
AsksEnabledStreams ==
    at = "crashed" => \E i \in Streams : attached[SourceAt(i)] # 0 /\ SourceAt(i) # i

\* Playback ends, one way or the other.
PlaysToTheEnd == <>(answer \in {"Finished", "Error"} \/ at = "crashed")
=============================================================================
