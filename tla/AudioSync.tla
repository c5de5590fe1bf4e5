------------------------------ MODULE AudioSync ------------------------------
(***************************************************************************)
(* Audio synchronization: the demultiplexer (lwmovie_demux.cpp) decodes    *)
(* audio frames into one CAudioBuffer per stream, commits them at audio    *)
(* synchronization packets, and lines playback up with the video clock in  *)
(* lwmMovieState_SynchronizeAudioPlayback.  The packets come in the order  *)
(* in which lwmux_mux.cpp interleaves them.                                *)
(*                                                                         *)
(* A sample is its position on the movie's timeline, so a buffer shows     *)
(* whether what the player gets is what belongs there.  The buffers are    *)
(* the queues that AudioBuffer is shown to implement.  One video period    *)
(* lasts SamplesPerPeriod samples, a whole number, so audioTime is exact.  *)
(***************************************************************************)
EXTENDS Integers, Sequences, Saturating

CONSTANTS
    NumStreams,        \* audio streams in the movie
    FrameSamples,      \* samples in one audio frame
    Delay,             \* algorithmic delay: samples before position 0
    SamplesPerPeriod,  \* audio samples per video period
    ReadAhead,         \* audioReadAhead, the size of each audio buffer
    PlayerReads,       \* amounts the player asks for
    GarbagePeriods,    \* what the unset audio period may read as
    MaxPeriods,        \* bound: video periods in the movie
    MaxBad,            \* bound: packets that arrive but fail to decode
    MaxLost,           \* bound: audio frames that never reach the decoder
    MaxToggles         \* bound: times the player enables or disables a stream

ASSUME AudioSyncAssumption ==
    /\ NumStreams \in Nat \ {0}
    /\ FrameSamples \in Nat \ {0}
    /\ Delay \in 0 .. FrameSamples - 1
    /\ SamplesPerPeriod \in Nat \ {0}
    /\ ReadAhead \in Nat
    /\ PlayerReads \subseteq Nat
    /\ GarbagePeriods \subseteq Nat
    /\ MaxPeriods \in Nat

Streams == 1 .. NumStreams

VARIABLES
    enabled,      \* streams that have a decoder (audioDecoders[i] # NULL)
    held,         \* per stream, the samples in its buffer, oldest first
    committed,    \* per stream, how many of them are committed
    synchronized, \* isAudioSynchronized
    audioPeriod,  \* streamSyncPeriods[lwmSTREAMTYPE_Audio]
    videoPeriod,  \* streamSyncPeriods[lwmSTREAMTYPE_Video]
    sent,         \* per stream, the samples the file has contained so far
    turn,         \* what the file holds next: a stream, the sync, the video
    copying,      \* the file already holds a frame of this turn
    due,          \* history: per stream, the position playback has reached
    spent         \* history: how often each bounded event has happened

vars == <<enabled, held, committed, synchronized, audioPeriod, videoPeriod,
          sent, turn, copying, due, spent>>
buffers  == <<held, committed>>
fileVars == <<sent, turn, copying>>

SyncTurn  == NumStreams + 1
VideoTurn == NumStreams + 2

Drop(s, n)  == SubSeq(s, n + 1, Len(s))

Init ==
    /\ enabled = {}
    /\ held = [s \in Streams |-> <<>>]
    /\ committed = [s \in Streams |-> 0]
    /\ synchronized = FALSE
    /\ audioPeriod \in GarbagePeriods      \* the constructor does not set it
    /\ videoPeriod = 0
    /\ sent = [s \in Streams |-> 0]
    /\ turn = 1
    /\ copying = FALSE
    /\ due = [s \in Streams |-> 0]
    /\ spent = [bad |-> 0, lost |-> 0, toggles |-> 0]

Spend(kind, limit) ==
    /\ spent[kind] < limit
    /\ spent' = [spent EXCEPT ![kind] = @ + 1]

-----------------------------------------------------------------------------
(* The order of packets in the file.                                       *)

EndPeriod(s) == Monus(sent[s], Delay)

\* Audio is written up to the end of the period after the next video frame.
TargetEndPeriod == (videoPeriod + 2) * SamplesPerPeriod

\* CopyAudioPackets starts only if the next frame ends by the target, and then
\* goes on until the target is reached.
FrameIsNext(s) ==
    /\ turn = s
    /\ EndPeriod(s) < TargetEndPeriod
    /\ copying \/ sent[s] + FrameSamples - Delay <= TargetEndPeriod
    /\ videoPeriod < MaxPeriods

WriteFrame(s) ==
    /\ FrameIsNext(s)
    /\ sent' = [sent EXCEPT ![s] = @ + FrameSamples]
    /\ copying' = TRUE
    /\ UNCHANGED turn

\* A stream is done; only after the last one is the sync packet written, and
\* only if frames were.
EndTurn ==
    /\ turn \in Streams
    /\ ~FrameIsNext(turn)
    /\ videoPeriod < MaxPeriods
    /\ turn' = IF turn = NumStreams /\ ~copying THEN VideoTurn ELSE turn + 1
    /\ copying' = FALSE
    /\ UNCHANGED <<enabled, held, committed, synchronized, audioPeriod,
                   videoPeriod, sent, due, spent>>

-----------------------------------------------------------------------------
(* Packets reaching DigestPacket.                                          *)

\* Mutant: the buffers are not emptied.
DesyncKeepingSamples ==
    /\ synchronized' = FALSE
    /\ UNCHANGED buffers

\* DesyncAudio: every existing buffer is emptied.
DesyncAudio ==
    /\ synchronized' = FALSE
    /\ held' = [s \in Streams |-> IF s \in enabled THEN <<>> ELSE held[s]]
    /\ committed' = [s \in Streams |-> IF s \in enabled THEN 0 ELSE committed[s]]

NewSamples(s) == [i \in 1..FrameSamples |-> sent[s] - Delay + i - 1]

\* A frame that does not fit deletes the oldest samples, and takes their number
\* off the commit count twice.
Overrun(s) == Monus(FrameSamples, ReadAhead - Len(held[s]))

AudioFrame(s) ==
    /\ WriteFrame(s)
    /\ FrameSamples <= ReadAhead
    /\ IF s \in enabled /\ Overrun(s) > 0 /\ synchronized
       THEN DesyncAudio
       ELSE /\ held' = IF s \in enabled
                       THEN [held EXCEPT ![s] =
                                Drop(@, Overrun(s)) \o NewSamples(s)]
                       ELSE held
            /\ committed' = IF s \in enabled
                            THEN [committed EXCEPT ![s] =
                                     Monus(Monus(@, Overrun(s)), Overrun(s))]
                            ELSE committed
            /\ UNCHANGED synchronized
    /\ UNCHANGED <<enabled, audioPeriod, videoPeriod, due, spent>>

\* The decoder refuses the frame.
BadAudioFrame(s) ==
    /\ s \in enabled
    /\ WriteFrame(s)
    /\ Spend("bad", MaxBad)
    /\ DesyncAudio
    /\ UNCHANGED <<enabled, audioPeriod, videoPeriod, due>>

\* The frame is not recognized as one (a damaged packet header): DigestPacket
\* reports an error and changes nothing.
LostAudioFrame(s) ==
    /\ WriteFrame(s)
    /\ Spend("lost", MaxLost)
    /\ UNCHANGED <<enabled, buffers, synchronized, audioPeriod, videoPeriod, due>>

SyncPeriod == EndPeriod(NumStreams)

NumUncommitted(s) == Len(held[s]) - committed[s]

\* Mutant: the samples are not counted.
NeverSoftDesync == FALSE

\* The samples that arrived since the last synchronization point are not as
\* many as the point says.
NeedSoftDesync ==
    /\ synchronized
    /\ \E s \in enabled :
          \/ SyncPeriod < audioPeriod
          \/ SyncPeriod - audioPeriod # NumUncommitted(s)

CommitAll(h) ==
    /\ held' = h
    /\ committed' = [s \in Streams |->
                        IF s \in enabled THEN Len(h[s]) ELSE committed[s]]

AudioSynchronization ==
    /\ turn = SyncTurn
    /\ turn' = VideoTurn
    /\ IF NeedSoftDesync
       THEN /\ synchronized' = FALSE
            /\ CommitAll([s \in Streams |-> IF s \in enabled
                                            THEN Drop(held[s], committed[s])
                                            ELSE held[s]])
       ELSE /\ CommitAll(held)
            /\ UNCHANGED synchronized
    /\ audioPeriod' = SyncPeriod
    /\ UNCHANGED <<enabled, videoPeriod, sent, copying, due, spent>>

BadAudioSynchronization ==
    /\ turn = SyncTurn
    /\ turn' = VideoTurn
    /\ Spend("bad", MaxBad)
    /\ DesyncAudio
    /\ UNCHANGED <<enabled, audioPeriod, videoPeriod, sent, copying, due>>

VideoSynchronization ==
    /\ turn = VideoTurn
    /\ turn' = 1
    /\ videoPeriod' = videoPeriod + 1
    /\ UNCHANGED <<enabled, buffers, synchronized, audioPeriod, sent, copying,
                   due, spent>>

-----------------------------------------------------------------------------
(* Calls of the player.                                                    *)

SetAudioStreamEnabled(s) ==
    /\ Spend("toggles", MaxToggles)
    /\ IF s \in enabled
       THEN /\ enabled' = enabled \ {s}
            /\ held' = [held EXCEPT ![s] = <<>>]
            /\ committed' = [committed EXCEPT ![s] = 0]
            /\ UNCHANGED synchronized
       ELSE /\ DesyncAudio
            /\ enabled' = enabled \cup {s}
    /\ UNCHANGED <<audioPeriod, videoPeriod, fileVars, due>>

NotifyAudioPlaybackUnderrun ==
    /\ DesyncAudio
    /\ UNCHANGED <<enabled, audioPeriod, videoPeriod, fileVars, due, spent>>

ReadAudioSamples(s, k) ==
    LET n == IF k > committed[s] THEN committed[s] ELSE k IN
    /\ synchronized
    /\ s \in enabled
    /\ held' = [held EXCEPT ![s] = Drop(@, n)]
    /\ committed' = [committed EXCEPT ![s] = @ - n]
    /\ due' = [due EXCEPT ![s] = @ + n]
    /\ UNCHANGED <<enabled, synchronized, audioPeriod, videoPeriod, fileVars,
                   spent>>

\* The player synchronizes when the last digest result was a video sync.
AtVideoSync == turn = 1 /\ ~copying /\ videoPeriod > 0

AudioTime == (videoPeriod - 1) * SamplesPerPeriod

First(S) == CHOOSE s \in S : \A t \in S : s <= t

\* The first enabled stream's commit count stands for all.
NumCommitted == committed[First(enabled)]

\* The enabled streams that the comparing loop reaches and finds to agree.
Agreeing == {s \in enabled : \A t \in enabled :
                t <= s => committed[t] = NumCommitted}

Truncated    == Monus(NumCommitted, audioPeriod)
StartPoint   == Monus(audioPeriod, NumCommitted)

\* SkipSamples(n) on each buffer of S.
SkipAll(S, n) ==
    /\ held' = [s \in Streams |-> IF s \in S THEN Drop(held[s], n) ELSE held[s]]
    /\ committed' = [s \in Streams |-> IF s \in S THEN Monus(committed[s], n)
                                                  ELSE committed[s]]

Synchronizable ==
    /\ Agreeing = enabled
    /\ StartPoint <= AudioTime
    /\ audioPeriod > AudioTime

\* The first loop trims what lies before the zero point, whether or not
\* synchronization then succeeds; if it does, the second loop trims again.
TotalTrim == Truncated + (AudioTime - StartPoint + Truncated)

SynchronizeAudioPlayback ==
    /\ AtVideoSync
    /\ ~synchronized
    /\ enabled # {}
    /\ audioPeriod # 0
    /\ IF Synchronizable
       THEN /\ SkipAll(enabled, TotalTrim)
            /\ synchronized' = TRUE
            /\ due' = [s \in Streams |-> AudioTime]
       ELSE /\ SkipAll(Agreeing, Truncated)
            /\ UNCHANGED <<synchronized, due>>
    /\ UNCHANGED <<enabled, audioPeriod, videoPeriod, fileVars, spent>>

-----------------------------------------------------------------------------
Digest ==
    \/ \E s \in Streams : \/ AudioFrame(s)
                          \/ BadAudioFrame(s)
                          \/ LostAudioFrame(s)
    \/ AudioSynchronization
    \/ BadAudioSynchronization
    \/ VideoSynchronization

Player ==
    \/ \E s \in Streams : SetAudioStreamEnabled(s)
    \/ NotifyAudioPlaybackUnderrun
    \/ \E s \in Streams, k \in PlayerReads : ReadAudioSamples(s, k)
    \/ SynchronizeAudioPlayback

Next == EndTurn \/ Digest \/ Player

Spec == Init /\ [][Next]_vars

-----------------------------------------------------------------------------
(* Properties.                                                             *)

\* Types, and no buffer is over its capacity or committed beyond its contents.
TypeOK ==
    /\ enabled \subseteq Streams
    /\ \A s \in Streams : /\ Len(held[s]) <= ReadAhead
                          /\ committed[s] \in 0 .. Len(held[s])
    /\ synchronized \in BOOLEAN
    /\ audioPeriod \in Nat /\ videoPeriod \in 0..MaxPeriods
    /\ sent \in [Streams -> Nat]
    /\ turn \in 1 .. VideoTurn /\ copying \in BOOLEAN
    /\ due \in [Streams -> Nat]

\* While audio is synchronized, the next sample the player reads from any
\* stream is the one that belongs after those it has read since playback
\* started at the video clock: "Synchronizes playback of audio with the most
\* recent video time" (Decoding.txt:147) and "any samples read have been queued
\* for playback consecutively" (Decoding.txt:118).  Packets may be damaged, but
\* none lost: after a loss, samples kept by a soft desynchronization may be
\* taken for later ones.
PlaybackAligned ==
    synchronized /\ spent.lost = 0 => \A s \in enabled :
        \A i \in 1..committed[s] : held[s][i] = due[s] + i - 1

\* The state is well formed, and by the decoder's own account - the audio period minus what is committed and
\* unread - playback stays where the player is, for all streams alike.  This is
\* what the soft desynchronization is for: it holds even if frames are lost.
PlaybackClock ==
    /\ TypeOK
    /\ synchronized => \A s \in enabled : audioPeriod - committed[s] = due[s]
=============================================================================
