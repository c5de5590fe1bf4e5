# Verifying lwmovie

TLA+ models of lwmovie's playback library and muxer, TLC runs that check them on
small instances, and TLAPS proofs that most of what the runs show holds for every
instance. Paths are relative to the repository (`src/`).

- [The system](#the-system): components, their state and operations, how they
  interact, what is hard about them
- [The modules](#the-modules): which module models what, and how
- [The runs](#the-runs): what is checked, within which bounds, what it shows
- [What is proved](#what-is-proved)
- [What the models found](#what-the-models-found)
- [What is not modelled](#what-is-not-modelled) and [what is left](#what-is-left)

## The system

lwmovie decodes movies for games and embedded players. `lwmux` writes a movie
file: packets of one video stream and several audio streams, with
synchronization packets between them. The player feeds the bytes to the library
(`lwmMovieState_FeedData`), is told when a video frame is due, and reads audio
samples when it likes. `lwmCake` is a simplified interface that does this for the
player. Work can be handed to the player's thread pool through a
*work notifier*: `notifyAvailable` asks for one participation, `join` waits for
all of them.

```
 lwmux: ConvertMPEGVideo, Mux          file           lwmovie
   pictures, slices, syncs    ------------------>  FeedData: framing, unescape
                                                     |            ^
                                                     |            | bytes (Cake)
                                                  DigestPacket (main thread)
                    +--------------------------------+-------------+
                    v                                v             v
        CVidStream: picture slots          audio codecs      synchronization
          |  slice jobs on a stack           |                points
          v  (digest pool)                   v                    |
        CDeslicerJob: macroblocks       CAudioBuffer per stream <-+ commit, desync
          |  MarkRowFinished                 |
          v  (recon pool)                    v
        CSoftwareReconstructor: rows    player, or Cake: SynchronizeAudioPlayback,
          v                                     ReadAudioSamples
        work frames -> player: RGB converter
```

| Component | State | Operations | Hard parts | What makes it correct |
|---|---|---|---|---|
| Audio ring (`lwmovie_audiobuffer.cpp`) | two chunks in one allocation, commit count | reserve, commit, read, skip, clear | a contiguous reservation moves the chunks; deletes old samples when full | samples come out in order; no access outside the allocation; chunks never overlap |
| Demultiplexer, audio (`lwmovie_demux.cpp`) | decoder and buffer per stream, last audio and video period, synchronized or not | audio frame, audio sync, video sync, enable/disable, synchronize, underrun, read | damaged or lost packets; streams toggled at any time; start delay | what is read belongs to the playback position; all streams agree |
| Demultiplexer, framing (`lwmovie_demux.cpp:563`) | header and packet states, the fillable in use, packet information | `FeedData` on pieces of any size, `DigestPacket`'s checks | input cut anywhere; damaged headers; sizes from the file | packets arrive as they were written, whatever the pieces; nothing runs over a buffer |
| Escaping (`lwmux_escape.cpp`, `UnescapePacket`) | the last bytes seen | escape, unescape | start codes that overlap, or that end at a packet's end | unescaping is the inverse of escaping |
| Muxer (`lwmux_mux.cpp`) | position in each input file | headers, packet headers, interleave frames and sync packets | read-ahead, several streams, compact headers | every frame before its period; periods exact; what it writes is accepted |
| MPEG converter (`lwmux_convertmpegvideo.cpp`) | last picture type | place video syncs, count work frames | B pictures overtake references | agrees with the decoder's slots |
| Video stream (`mpeg_vidstream.cpp`) | `m_future`, `m_past`, `m_current`, `m_outputSlot`, drop level; job stack | picture header, slice dispatch, `Participate`, joins, `EmitFrame` | dropping at any time; lock-free stack walked by several threads | right references, display order; each job once; no thread on destroyed jobs |
| Deslicer memory pool (`SDeslicerMemoryPool`) | one block, what is left of it, what was asked for | allocate, reset | demand grows; the block or the heap may be refused | jobs of one picture never share memory; a steady stream stops using the heap |
| Deslicer (`mpeg_deslicer.cpp`) | macroblock address | parse a slice, mark rows | damaged slices; slices that share rows | a row is marked when its data is complete |
| Software reconstructor (`lwmovie_recon_m1vsw.cpp`) | commit and user count per row, work frames locked | `MarkRowFinished`, `Participate`, `StartNewFrame`, `PresentFrame`, `WaitForFinish` | participations look for a row without being told which | each committed row once; all done at the join |
| Work notifier (`threadpool_win32.cpp`) | pool work object | notify, participate, join | none of its own | each request is served once and joined |
| RGB converter (`lwmovie_exportpixels.cpp`) | blocks of rows with their planes, one counter | create, convert, participate | the last block is shorter; rows go in pairs between chroma rows; planes depend on the pitch | each block once, all done when `Convert` returns; each row from its own rows of the current frame |
| Cake (`lwmovie_cake.cpp`) | byte buffer, clock, one waiting frame, sorted audio sources | read movie info, decode, attach devices | reads and packets out of step; early and late frames; devices that underrun, fill up, are attached and detached | bytes digested once and in order; each frame once and not early; devices hear uninterrupted samples, streams of one device in step |
| Theora, RoQ, codecs, frame providers | | | | see [what is not modelled](#what-is-not-modelled) |

`PROJECT.json` lists every component with its status, and under "hazards" the
places in the code that are hard to test, each with the properties that watch it.

## The modules

Constants are parameters of every module, with named assumptions; a bound is a
constant whose comment begins with "bound:". Mutants - definitions marked
"Mutant:" - are variations a plausible bug would make; each is used to see that
a property notices it. `MC<module>` gives the constants that are not plain values.

### Audio ring: `AudioFifo`, `AudioBuffer`, `Saturating`

`AudioFifo` is the promise: a bounded queue whose oldest `committed` samples may
be read, and that deletes its oldest samples when a packet does not fit.
`AudioBuffer` is the class. `ring` is its five scalar members, `mem` the sample
memory, a cell holding `<<packet, index>>`, so that a sample that is overwritten,
lost or repeated shows. `ReserveNewContiguous` has one disjunct per branch of the
code (`AppendAfter`, `WrapBelow`, `SlideDown`, `AppendInGap`, `SpreadApart`),
after `MadeRoom` has deleted samples; the codec's writing into the block belongs
to the step because nothing can come between. The refinement mapping reads the
queue off the memory (`Contents`). The commit count is lowered twice when samples
are deleted, by the caller and by `SkipSamples`; the queue allows it to be
lowered by more than necessary. `Saturating` is the subtraction that stops at zero,
which all audio modules use.

### Audio synchronization: `AudioSync`

One `CAudioBuffer` per stream, as the queue of `AudioFifo`; a sample is its
position on the timeline, so that the invariant can say which sample is the right
one. `turn` and `copying` are the muxer's place in `Mux`/`CopyAudioPackets`: they
make the packets come in the order of a real file. Each case of `DigestPacket` is
an action; `BadAudioFrame` and `BadAudioSynchronization` are packets that arrive
but cannot be decoded, `LostAudioFrame` one that is not recognized. `due` is
history: where playback is, from the player's view. The unset audio period of a
new movie state is any of `GarbagePeriods`. A video period is a whole number of
samples, so `audioTime` is exact.

### Threads: `WorkPool`, `RowJobs`, `SliceJobs`, `DeslicerMemory`, `VideoPipeline`

`WorkPool` is what the users of a notifier rely on: a task offered is taken once,
finished, and finished in the end.

`RowJobs` is `m_rowCommitCounts` and `m_workRowUsers` with the search of
`Participate`. Each atomic increment is one step, and so is each read; a
participation is named by the row whose commit asked for it, `stage` and `at` are
its program counter and its row. The main thread is `StartNewFrame`,
`StartDroppedFrame`, `RefusePicture`, `PresentFrame`, `WaitForFinish` with the joins
as guards. A refused picture starts no frame: its slices go to the picture before
it, whose counts stay, and which may have been shown. A synchronization may follow
another, as after a run of B pictures.

`SliceJobs` is the stack of jobs and the walk down it. The head is only changed
by the main thread, so a push is one step. `Beaten` past the last job leads to
"strayed": the participation would go on to the reconstructor.

`DeslicerMemory` adds where a job's memory comes from. It extends `SliceJobs`, and
each outcome of `DispatchDeslicerJob` is a step of it together with a step of the
memory: a job in the pool's block, a job on the heap, the slice digested on the
spot when the heap refuses too (`DispatchDirectly`), or the slice lost without a
block cursor (`LoseSlice`). `JoinAndReset` takes the whole block back, enlarges it
to what was asked for, or loses it. `learned` is history: the largest demand the
block has been through. `MemSpec` refines `SliceJobs!Spec`.

`VideoPipeline` composes rows and slices: the main thread feeds a picture, its
slices and a synchronization, or a second one, every join a place of its own
(`main`); pictures may be refused, and their slices are dispatched all the same;
deslicers go through the macroblocks, commit rows and notify. A slice may, for lack
of memory, be digested by the main thread. A damaged one may break off anywhere
(`AbandonSlice`) or go on over the macroblocks of the next ones (`RunOn`), since the
code holds it only at the end of the frame (`max_mb_addr`). It is shown to implement
both `RowJobs!Spec` and `SliceJobs!Spec`, fairness included: what these modules
assume of the main thread is what the main thread does.

### Picture slots: `PictureSlots`

The converter (`SyncsAfter`, `Provided`), `ParsePicture` (`Refused`, `PlaceI`,
`PlaceP`, `PlaceB`), `StartNewFrame` and `EmitFrame`. A movie is an arbitrary
sequence of picture types beginning with I. `frames` says which picture a work
frame holds and whether it was predicted from the right ones (`PredictedRight`);
the drop level may change between any two packets. A picture without references is
refused (`SkipPicture`): the application stops there, as Cake does, or feeds on, and
then the picture's slices may write over the frame of the picture before it
(`RefusedSlices`), which `spoilt` remembers. As in the code, "future" is the *earlier*
of the two references.

### Container: `Escaping`, `PacketDelivery`, `Framing`

`PacketDelivery` is what the container promises the decoders: the packets the
converters made, in order, each as it was, up to the first whose bytes in the
file were damaged. `Framing` is both ends of the file: `Written` is what the muxer
writes of a movie (headers, compact and full packet headers, escaped audio), the
actions are the cases of the loop in `FeedData`, one action per case and turn of
the loop. A file is a sequence of cells, a byte of packet data or a header field
(an integer of several bytes is one cell; flags are kept as numbers, because a
damaged flag byte is read as any). One cell of a file may be damaged. `Feed(k)` is
a call with the next k cells; `Repeat` goes round the loop, `Return` leaves it with
a result and the number of cells digested. `handed` is what reached `DigestPacket`,
and whether its own checks (`Refused`) let it pass. What the decoders do with it
is in the other modules; the video stream's refusal of its parameters is a free
choice.

`Escaping` gives the two functions by what they do: a marker goes behind every
0 0 1, and is taken out again behind it.

### RGB converter: `RGBConverter`

`Created` is the arithmetic of `CreateSliced`; `BeginConvert`, `NotifyAvailable` and
`Join` are `Convert` with a notifier, `BeginConvertDirectly` and `ProcessInTurn`
without. A row of output is what it was made from: a frame, a luma row, and the
chroma row that weighs most and least in it (`Chroma`), so that a row that is
missing, written by the wrong block, left from the last frame or mixed with the
wrong chroma shows. The planes of a block are set with the pitch the block has
from the conversion before; in the first one that is any of `GarbagePitches`.

### Cake: `Cake`

A movie is a sequence of units, each with its end in the file: headers, packets of
video, an audio frame with its synchronization, a frame. `FeedData` digests to the
end of a unit at most and gives back its kind, which is what `Framing` is shown to
do. `buffer` holds numbers of bytes. The time reader's clock is `now`; it goes on at
any time (`Tick`). The loop over the audio sources is one step per source
(`source`), because the application's devices are called in it: `queueSamplesFunc`
may take any part of what it is offered, and a device may underrun at any time.
`SourceAt` is the order into which `SetStreamAudioDevice` sorts the sources: by
device and number, for streams that have the same sample rate, speaker layout and
meta id.
The demultiplexer's audio is seen as positions on the timeline, `next` being each
stream's oldest sample; `AudioSync` models how it is kept. `apart` is history: what
has happened to a device since it was last reset that may set its streams apart.
Movies of the run put a frame's audio before it, as the muxer does;
`ContinuousPlayback` relies on that.

## The runs

| Run | Bounds | Shows |
|---|---|---|
| `audiobuffer_mixed` | ring of 5, packets of 2 and 3, reads of 1 and 2, trims of 1 | `RingInv`; chunks come to overlap only in too narrow a gap (`OnlyNarrowGapOverlaps`); every other call is a step of the queue (`StepIsFifo`) |
| `audiobuffer_overlap` | as `mixed` | violation: `ChunksDisjoint` |
| `audiosync` | 2 streams, 4 periods of 2 samples, 1 bad packet, 2 lost frames, 3 toggles | `PlaybackAligned` in the behaviours in which no frame was lost; `PlaybackClock` in all |
| `rowjobs` | 3 rows, each committed up to twice, pictures dropped, refused, shown again | exclusion (`RowsExclusive`), the search (`SearchSucceeds`), the join (`JoinMeansReconstructed`), refinement of `WorkPool` with liveness |
| `slicejobs` | 3 jobs of 2 sizes (2, 3), a block of 5 at first, at most 9 asked for | `JobsExclusive`, `NeverStrays`, `JoinMeansDigested` for the stack; `BlocksDisjoint`, `PoolLearns` for its memory; refinement of `WorkPool` with liveness |
| `pipeline` | 2 rows of 2 macroblocks, 2 slices, each of which may break off, run on and be digested directly; 1 picture refused between two accepted | `RowDataComplete`, `FrameReady`, `PacketsFinish`, both refinements |
| `pictureslots` | all 364 movies of up to 6 pictures, any 2 changes of the drop level, refused pictures that are passed over or not | `ReferencesIntact` unless slices of a refused picture went to another's frame, `TwoReferencesRecover`; `ShownInOrder` (with the same exception) and `FramesExist` in the behaviours in which the player drops nothing |
| `framing` | every audio packet of up to 4 bytes of {0, 1, 254} and three longer ones; three movies with any one cell damaged, to any of 6 values; sizes below 4 are compact; pieces of 1 to 5 cells | `WithinBuffers`, `NothingMeansMore`, `NothingRefused`; packets are delivered as `PacketDelivery` promises, to the last (`ImplementsDelivery`) |
| `cake` | buffer of 4 bytes, 5 movies, 2 streams on 2 devices, 3 changes of devices, 5 units of time with frames every 2 | `DigestedInOrder`, `FinishedMeansEnd`, `FramesShown`, `NeverEarly`, `StreamsInStep`, `ContinuousPlayback`, `AsksEnabledStreams`, `PlaysToTheEnd` |
| `cake_shortread` | the same, with a reader that returns fewer bytes than asked | violation: `DigestedInOrder` |
| `rgb` | heights 1, 2, 3 and 6, up to 3 slices, both chroma formats and qualities | `BlocksExclusive`, `JoinMeansConverted`, `ConversionFinishes`; `WholeFrameConverted` with one block |
| `rgb_sliced` | heights 4 and 6, up to 2 slices | violation: `RowsConverted` |

Type invariants have no run of their own: they are proved, or a conjunct of a
property that is checked (of `PlaybackClock`, `FrameReady`, `DigestedInOrder`).

Why the bounds are enough to be interesting. A ring of 5 with packets of 2 and 3
is the smallest in which every branch of a reservation is taken and in which a
gap can be narrower than a packet. Two audio streams are needed for counts to
differ, three to four periods for a desynchronization, a new synchronization and
reads after it. Three rows and three participations are the smallest number in
which one can be overtaken while another commits behind it; three jobs give a walk
that meets a taken job and a push above it, and with sizes 2 and 3 in a block of 5
the third job goes to the heap, so that the block is enlarged, and the enlarged
one is used. In the pipeline two rows of two macroblocks, a slice each, are enough
for a slice to run on into the row of the next and commit it first, or to break off
there, while the other is parsed by another thread or the main one; a refused
picture's slices commit rows a second time. Six pictures contain every run of B pictures up to four and three
references in a row around a dropped one. Four bytes hold a start code and the
byte before or behind it, the longer packets two start codes and a marker in the
data; the fragile movies have each kind of header and packet, and the damaged
values include a size that is too large, flags of other types, and zero. A
buffer of four bytes is shorter than some units and longer than others, so that
units end at, before and behind the buffer's end; two streams on two devices are
the least with which streams share a device, or stand in another order than their
devices. Three slices make a first, a middle and a last block. The theorems remove
the bounds for most of this.

Deadlock is checked except in `audiosync`, `pictureslots`, `framing` and `cake*`,
where the movie ends.

**Fairness.** `AudioBuffer`, `AudioSync` and `PictureSlots` are driven by calls
that need not come: they have safety properties only. In `RowJobs`, `SliceJobs`,
`VideoPipeline` and `RGBConverter`, a thread that has work goes on (weak fairness of
each participation, of a deslicer between increment and notification, and of the
main thread inside a packet or a conversion, written as `main # "feed" /\
MainThread` in the pipeline): the pool's threads are operating system threads that
run until their work is done (`threadpool_win32.cpp:54-76`) and `join` waits for
them. Nothing is assumed of the main thread between packets: the player may stop
feeding. A `join` that cannot return would show as `PacketsFinish` or
`ConversionFinishes` failing. In `Framing`, the application feeds the whole file and
`FeedData` goes on until it returns; that it returns is not assumed, it follows from
weak fairness of the steps of its loop. In `Cake`, the application goes on calling
until the movie is over, calls go on, and time passes; nothing is assumed of
devices or of the files' reader beyond its results.

## What is proved

Assumptions: only the named `ASSUME`s of the modules, which say that sizes are
natural numbers, bounds are positive, and what a movie or a frame consists of;
TLC evaluates them in every run. Where a theorem needs more it says so in its
`ASSUME`.

**`AudioProofs`**, the ring (any capacity, any sets of sizes): `TypeCorrect`,
`MemorySafe` (`RingInv`), `NarrowGapIsTheOnlyCulprit` (`OnlyNarrowGapOverlaps`),
`CallsActOnAQueue` (`StepIsFifo`).
`RingInv` is inductive with `TypeOK`. The argument goes through the chunk
arithmetic: skipping keeps the ring bounded and takes exactly the samples off
(`SkipFacts`), making room leaves room (`MadeRoomFacts`), and each placement of a
packet keeps the bounds. `top` in use implies that `bottom` starts at zero; that
conjunct carries the proof. It follows that the overlap found below damages
samples but never memory outside the buffer. `CallsActOnAQueue` is the refinement of
`AudioFifo`, for every call but a reservation into too narrow a gap: each branch of
`ReserveNewContiguous` is shown to leave the samples where `Contents` reads them
off, the one that moves a chunk over itself included.

**`AudioProofs`**, synchronization (any number of streams, periods of any length, any
frames damaged or lost, streams toggled at any time): `BuffersNeverOverflow`
(`TypeOK`) and `RoundsStayLevel`, for any start delay; `PlaybackKeepsTime`
(`PlaybackClock`) and `PlaybackStaysAligned` (`PlaybackAligned`) for codecs without
one - with a start delay they are false, see below. The invariant `PlaybackInv` says
where the muxer is in its round (`Rounds`: the streams before `turn` have been served
as far as the target, those after it are where they all were), that a stream holds
the last samples written of it, that since the last synchronization point as much
is uncommitted as was written (`AccountInv`), and that right behind that point all
that is held is committed (`PointInv`). One audio period can stand for all streams
only because of the rounds: at a synchronization point they are level.

**`RowJobsProofs`** (any number of rows and commits): `TypeCorrect`, `Exclusive`
(`RowsExclusive`), `EnoughAhead` (`EnoughRowsAhead`), `SearchAlwaysSucceeds`
(`SearchSucceeds`), `JoinIsEnough` (`JoinMeansReconstructed`), and `RowsAreAPool`: every
step is one of `WorkPool` or none. None of the invariants is inductive. The heart of
the strengthening `IInv` is a count, `EnoughRowsAhead`: for every row i, no more
participations have come as far as i than there are committed rows from i on. It is
kept because a participation passes a row only if the row is
uncommitted, or someone else has it; a commit adds a row before it adds a
participation. With it, a participation that finds its row taken has a committed
row left further up, by the pigeonhole principle, and at the join as many
participations are done as rows are committed. The rest of the invariant ties the
counters to the stages (a row with a user count above 0 has one holder) and says
what each stage knows.

**`SliceJobsProofs`** (any number of jobs): `TypeCorrect`, `EveryThreadFindsAJob`
(`JobsExclusive`, `NeverStrays`, `EnoughJobsBelow`), `JoinIsEnough`
(`JoinMeansDigested`), `JobsAreAPool` (every step is one of `WorkPool` or none). The
same counting, downwards: among the d oldest jobs there
are never more than d participations, because the one that goes on from job d
leaves behind the one that has it. A push only ever adds on top, with its own
participation. And for all sizes and demands of the memory: `MemTypeCorrect`,
`BlocksStayApart` (`BlocksDisjoint`; the invariant says that pooled jobs lie in the
order of the stack below what is left of the block), `LearnsTheDemand`
(`PoolLearns`), and `ImplementsJobStack`: `MemSpec => Spec`, fairness included, so
that all of the first three hold with memory too (`JobsKeepTheirPromise`).

**`VideoPipelineProofs`** (frames of any size, any number of slices, damaged or
digested by the main thread, pictures accepted or refused): `UsesThePools`,
`FramesAreReady` (`FrameReady`), `RowsAreComplete` (`RowDataComplete`, for slices that
begin at rows; if a slice has run on, a row may be complete by its deslicer alone).
What is known of the pools is taken from their own proof modules, by INSTANCE: their invariants
hold here because every step of the pipeline is a step of both pools, or leaves
them alone, which is `UsesThePools`, the safety part of the two refinements. Added
to them is what only the composition knows: at which places of the main thread the
pools are at rest, that a deslicer that has a row to notify of is digesting, that
an increment is followed by its notification, that a committed row is complete
(`CommittedIsComplete`) or, of a picture before the one refused, reconstructed, and
that everything is done when the main thread is idle.

**`PictureSlotsProofs`** (movies of any length, any drop levels): `TypeCorrect`,
`ReferencesStayIntact` (`ReferencesIntact`), `TwoReferencesSuffice`
(`TwoReferencesRecover`), `FramesAreThere` (`FramesExist`), `InDisplayOrder`
(`ShownInOrder`). `ReferencesIntact` alone does not say which picture a slot
refers to; the invariant adds that the later reference slot, unless it was
dropped, holds the latest reference picture, and that there is one from the first
picture on, so that only B pictures can be refused (`RefusedIsB`), which leave the
references alone. What frames hold, and the display order, is claimed as long as no
refused picture's slices went to another's frame (`spoilt`). For the third theorem, `DroppedInv`
says what a dropped slot means: a dropped later reference is a reference picture
that was not decoded, and a dropped earlier one means that one of the last two
was not. For the fourth, `UsedInv`: without drops no slot stands for a dropped
picture, and the B frame is only used in movies that have B pictures. For display
order, `ShownInv` says which picture each slot holds and how many synchronizations
there have been; the lemmas on positions (`ReferenceDue`, `BDue`) say which picture
is due where a run of B pictures ends, and where it goes on.

**`FramingProofs`** has two halves. The first is about any file of natural numbers, not
only one the muxer wrote, in any pieces: `PacketsFit` (`WithinBuffers`),
`AskingMeansMore` (`NothingMeansMore`), `PiecesDoNotMatter`. `HoldsTheLast` is the
heart: what the fillable has been filled with is exactly the part of the file
before the next cell to be looked at, whether a call is in progress or not. So
where calls end can make no difference. Around it: a state that waits for nothing
has nothing filled, and a stream header is only expected while some are missing.
`CallsReturn` is as much of "a call returns" as can be proved here: in every turn of
the loop but the last fewer turns are left (`TurnsLeft`), since a state that reads
waits for a cell at least, and the one turn that looks at none (`StartPacket`) is
followed by one that does.

The second half is about the files of `Init`: any set of movies with packets of any
number and size, any one cell of them damaged. `TypeCorrect`; `EscapingIsUndone`,
that `Unescape(Escape(s)) = s` for every sequence of bytes; `NothingIsRefused`
(`NothingRefused`); `PacketsAreDelivered`, the safety half of `ImplementsDelivery`.
The invariant is `Tracked`: as long as the next packet is intact (`Reading`), each state
of `FeedData` is at its own place of the file (`OnTrack`: the n-th stream header n
cells behind the common one, the header of a packet where the packets handed over
end), with what it has read so far equal to what the muxer wrote, and `needParams`
exactly until the first packet was understood. Below it is what the muxer writes,
cell by cell: `Parts` gives the place of each packet in the concatenation of all,
`Copied` the cells of one, `MuxedIsSound` that damage leaves everything before the
damaged packet alone. `MoviesAssumption` says what can be muxed, as the code has it:
a movie without video has audio; the MPEG and Theora converters write
one packet of stream parameters, before all others
(`lwmux_convertmpegvideo.cpp:377`, `lwthenc.cpp:256`), RoQ none, and `Mux` copies none
of audio; a synchronization is one integer, and a packet has data. It is weaker
than what the run uses, and TLC evaluates it there.

**`CakeProofs`** (any movie, buffer, frame rate, clock resolution, number of
streams and devices): `BytesInOrder` (`DigestedInOrder`) and `EndIsTheEnd`
(`FinishedMeansEnd`), both for a reader that returns what it is asked for
(`~ShortReads`); `FramesAreShown` (`FramesShown`; also for movies whose headers come
first, `HeadersFirst`); `FramesNotEarly` (`NeverEarly`); `OnlyOrderCrashes`
(`AsksEnabledStreams`); `StreamsStayInStep` (`StreamsInStep`), `PlaybackIsContinuous`
(`ContinuousPlayback`). The bytes: the buffer is empty, full to its end, or the file
has ended (`ReadInFull`), so that a read never writes over what is left, and
nothing to feed means nothing left. The time: a frame that waits, waits for the
time of its number. The frames: a unit is counted once, by the step that completes
it. The crash: if the sources are in order, the streams of one device are
neighbours at their own numbers. The audio: what comes next in a stream follows what
its device was given last, unless that was passed over (`Follows`); streams of one
device that nothing has set `apart` have had the same and have the same left
(`Even`); and when the second of them comes up in the loop, nothing is left for it
(`NothingLeft`), so that it is not given samples on its own.

**`RGBConverterProofs`** (any height and number of slices): `TypeCorrect`,
`BlocksAreExclusive` (`BlocksExclusive`), `JoinIsEnough` (`JoinMeansConverted`),
`WholeFramesAreConverted` (`WholeFrameConverted`). The blocks below the counter are
those that were taken, each by one participation; there are as many participations
as blocks, so that when all are done the counter is at the end. A picture of even
height in one block is exactly as high as its block, so that its last row is not
mixed with chroma from outside; in an odd one the last row is never the second
of a pair.

**Induction over data.** The library's induction rules cannot be used here, since they
take the property as a parameter. What is proved about sequences of any length
(`EscapingIsUndone`, the cells of a file) argues from a least counterexample instead:
the set of lengths at which a property fails is a set of natural numbers, and if
not empty has a least element (`LeastOf`, from the library's `WFMin`).

**Only model-checked:** what is about liveness and fairness, which these provers do
not reach: `PacketsFinish`, `ConversionFinishes`, `PlaysToTheEnd`, and the fairness in
`ImplementsPool`, `ImplementsRowJobs`, `ImplementsSliceJobs` and `ImplementsDelivery`,
whose safety is proved (`RowsAreAPool`, `JobsAreAPool`, `UsesThePools`,
`PacketsAreDelivered`). Every invariant that a run checks is stated by a theorem,
`ShownInOrder` and `FramesExist` for players that drop nothing, `PlaybackClock` and
`PlaybackAligned` for codecs without a start delay.

## What the models found

Three findings have a run that TLC must find violated; `PROJECT.json` quotes the
sentence each disagrees with.

- `audiobuffer_overlap`: `ReserveNewContiguous` appends to the gap between the
  chunks whenever there is any, without comparing it with the packet
  (`lwmovie_audiobuffer.cpp:174`).
- `rgb_sliced`: with more than one slice, all blocks write to the rows of the first,
  the planes of the others are placed with the pitch of the conversion before, and
  the chroma planes of 4:2:0 are advanced by luma rows
  (`lwmovie_exportpixels.cpp:1046-1054`).
- `cake_shortread`: `FillBuffer` reads over bytes that are not digested yet when the
  reader has returned less than it was asked for (`lwmovie_cake.cpp:310`). The same
  configuration violates `FinishedMeansEnd`: a reader that has nothing for the
  moment is taken for the end of the movie.

Four more disagreements can be seen by changing a run; the properties the runs do
check are stated so that they hold.

- Samples of a codec's start delay are trimmed twice (`lwmovie_demux.cpp:1199-1222`),
  though playback is to be synchronized "with the most recent video time"
  (`doc/Decoding.txt:147`): `audiosync.cfg` with `FrameSamples = 2`, `Delay = 1`,
  `ReadAhead = 6` violates `PlaybackAligned`.
- A row shared by two slices is reconstructed before both are parsed
  (`mpeg_deslicer.cpp:471`), though `MarkRowFinished` is to be called when "all data
  for a row is available" (`doc/GPU Decoding Porting Guide.txt:33`): `pipeline.cfg`
  with the second slice in the middle of a row, `SliceEnd` being `<<1, 4>>`, and
  `MaxDamage = 0`, `MaxDirect = 0` violates `RowDataComplete`.
- Dropping a B picture also keeps the reference picture due after it from being
  shown (`mpeg_vidstream.cpp:622`), though it "will never cause any other frames to
  be dropped" (`doc/Decoding.txt:110`): `pictureslots.cfg` with the invariant
  `OnlyBDropped`.
- After a dropped P picture, an I picture does not end the dropping; two decoded
  references in a row do (`mpeg_vidstream.cpp:275`, `doc/Decoding.txt:111`):
  `pictureslots.cfg` with the property `RecoversAtI`; `TwoReferencesRecover` says what
  does hold.

More show in the models' definitions, and the properties are stated so as not to
promise the contrary:

- `PlaybackAligned` excludes behaviours with a frame lost without notice: on a
  soft desynchronization the new samples are kept, and those from before the lost
  frame are taken for later ones (`lwmovie_demux.cpp:397-411`).
- A stream enabled between the frames of two streams has fewer samples committed
  than the other, so that `SynchronizeAudioPlayback` waits, although a comment
  says that this never happens (`lwmovie_demux.cpp:1197`).
- `FrameReady` is about the moment the player gets the frame: `PresentFrame` has
  unlocked the work frames before the reconstructor is joined
  (`lwmovie_demux.cpp:302,317`).
- `ReferencesIntact` is about I and P pictures: a B picture is decoded even if
  one of its references was dropped (`mpeg_vidstream.cpp:235`).
- `FramesExist` is about movies of which nothing is dropped: once something was,
  `StartNewFrame` also asks the frame provider for the frame of a dropped
  reference slot, which the provider does not have
  (`lwmovie_recon_m1vsw.cpp:594-603`).
- `EmitFrame` reports a frame whether or not the picture was dropped
  (`mpeg_vidstream.cpp:632`); the models have no such result.
- `AsksEnabledStreams`: Cake takes a source's place in the sorted list for its stream
  number when it asks for available samples (`lwmovie_cake.cpp:468-484`), and the
  movie state does not ask whether the stream has a buffer
  (`lwmovie_demux.cpp:1237`). With the first stream silent and the second on a device,
  the call is made on NULL ("crashed"). The property, and the theorem, say that this
  is the only way. With two devices in another order than their streams, the
  amounts are those of the wrong streams; all enabled streams hold the same in the
  run, so it does not show.
- `StreamsInStep` allows three ways in which the streams of one device come apart
  (`apart`), until the device is reset. The device has taken less than it was offered:
  then the second of its streams comes up in the loop again with samples left, and is
  offered alone. The streams' places in the sorted list are not their numbers. Or
  audio is synchronized again in the middle of the loop, for a device that underran:
  only that device is reset, the ones it has passed or will come to still have their
  old samples queued, and go on with samples from elsewhere (`PassedOver`,
  `lwmovie_cake.cpp:431-516`). `ContinuousPlayback` excepts the last.
- The first frame counts as timestamp 1 and is shown at once, the second is due at
  timestamp 2 from that moment (`FirstFrame`, `FrameTime`): two periods pass between
  them, so that from the second frame on video is one period behind the audio that
  was synchronized with the first (`AudioTime`).
- In `Framing`, the first call that meets a fatal error returns `lwmDIGEST_Nothing`;
  the next ones return `lwmDIGEST_Error`. A bad video header digests nothing of the
  call (`ReadVideoHeader`, `FailAgain`). `lwmDIGEST_Error` is also returned for a packet
  that was refused, after which decoding goes on (`SkipPicture`), although `doc/Decoding.txt:22`
  has it mean that the movie state cannot continue.

## What is not modelled

What the models leave out of the modelled parts: pixel and signal arithmetic
(IDCT, motion compensation, colour conversion, the audio codecs), bitstream
syntax and VLC tables, which are pure functions on inputs too large to enumerate;
failures to allocate other than of a job's memory; D pictures; sample rates that
do not divide the frame rate, or differ between streams, as speaker layouts and
meta ids might; several readers of one
audio buffer; wrap-around of 32-bit times; the movie state's allocation of packet
buffers; calls of `FeedData` with no bytes. Files that were not muxed are not
modelled as inputs of `Framing`'s delivery (the first half of the proofs takes any
file): a converter's
output has its stream index unset (`lwmux_util.cpp:34`) until the muxer sets it. Of
the muxer, random access points and statistics are left out.

Of damaged video: a first picture that is refused, after which the row counts are not
initialized when its slices come (`mpeg_vidstream.cpp:544`; movies begin with an I
picture, which is not refused), and a slice header whose row is not the slice's own.
What ends up in the pixels when two deslicers write the same macroblock, after a slice
has run on, or when slices of a refused picture write to a frame that was shown
already, is not modelled either; which rows are counted, claimed and joined is.

Six hazards have no property of a passing run because the code has the fault: a B
picture decoded from a dropped reference, the reference that is not shown after a
dropped B picture, samples of a start delay trimmed twice, work frames unlocked before
the join, slices that share a row, and the frame of a dropped slot that is asked for.
The section above says how each shows. A seventh, an extension packet that changes the
picture while deslicers read it (`mpeg_vidstream.cpp:575`), needs a file the muxer does
not write.

Parts that have no model:

- Theora: one packet per call into the external libtheora, which keeps the state;
  lwmovie's own is which of three headers is next.
- RoQ: codebooks and motion compensation on pixels; its one piece of history is which
  of two work frames is current, exchanged in one call of one thread.
- Frame providers: plane layout and allocation; which frames exist and are locked is
  in `PictureSlots`.
- The D3D11 reconstructor, which drives a GPU through an external interface.
- Command line encoders and converters other than the MPEG one: one sequential pass.
- The C# front ends, the sample player, table generators and platform helpers.
- Vendored libraries (SDL, Theora, CELT, Ogg), more than four fifths of the
  repository's lines. They are the reason that the lines `PROJECT.json` maps are a
  small share of all: of the lines of lwmovie and lwmux alone it is about a sixth, and
  what is left of those is mostly the arithmetic named above.

## What is left

The models cover the parts of the library and muxer that keep state across calls
or threads, except the ones listed above. Next would come

1. `Mux` as a module of its own, with inputs of different lengths, random access
   points and the table of contents, shown to write the order that `AudioSync` takes
   for granted;
2. a composition of `Framing` and `Cake`, in place of the unit as the interface
   between them.
