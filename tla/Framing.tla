------------------------------ MODULE Framing ------------------------------
(***************************************************************************)
(* The container, from the muxer to the decoders: the headers and packets  *)
(* that lwmux writes (src/lwmux/lwmux_mux.cpp), and the header and packet  *)
(* states of lwmMovieState_FeedData (src/lwmovie/lwmovie_demux.cpp), which *)
(* is given them in pieces of any size.                                    *)
(*                                                                         *)
(* A file is a sequence of cells.  A cell is a byte of packet data, or a   *)
(* field of a header that the code checks or uses (an integer of several   *)
(* bytes counts as one cell).  One cell of the file may be damaged.        *)
(***************************************************************************)
EXTENDS Escaping

CONSTANTS
    Movies,         \* [video |-> stream type, streams |-> audio streams,
                    \*  packets |-> sequence of [type, stream, data]]
    Fragile,        \* those of which a cell may be damaged
    DamagedCells,   \* bound: what a damaged cell may hold
    CompactLimit,   \* 2^15, the first size that does not fit in a compact header
    MaxPiece        \* bound: cells given to one call of FeedData

ASSUME FramingAssumption ==
    /\ Fragile \subseteq Movies
    /\ DamagedCells \subseteq Nat
    /\ CompactLimit \in Nat \ {0}
    /\ MaxPiece \in Nat \ {0}

VARIABLES
    movie,      \* what was muxed
    file,
    intact,     \* how many of its packets, from the first, are undamaged
    pos,        \* cells of the file the application has got rid of
    given,      \* cells it gives to the current or last call
    avail,      \* bytesAvailable: those not yet looked at
    calling,    \* FeedData has not returned
    result,     \* what the last call returned
    demux,      \* demuxState
    need,       \* the current fillable's bytesRemaining
    got,        \* what it has been filled with
    info,       \* movieInfo, videoInfo, audioCommonInfo
    parsed,     \* numParsedAudioHeaders
    packet,     \* packetInfo, packetSize, packetStreamIndex
    needParams, \* needVideoStreamParameters
    handed      \* the packets DigestPacket was called for, and what it did

written == <<movie, file, intact>>
call == <<given, avail, calling, result>>
filling == <<demux, need, got>>
headers == <<info, parsed, packet>>
vars == <<written, pos, call, filling, headers, needParams, handed>>

-----------------------------------------------------------------------------
(* The package: lwmovie_package.hpp.                                       *)

NoVideo == 1
M1V == 2
RoQ == 3
NumVideoTypes == 6
NoAudio == 1
MP2 == 2
NumAudioTypes == 5
VideoParameters == 1
VideoData == 2
VideoSync == 3
AudioParameters == 4
AudioFrame == 5
AudioSync == 6
FlagCompact == 32
FlagEscaped == 128

Has(flags, flag) == (flags \div flag) % 2 = 1
TypeOf(flags) == flags % 32

HeaderSize == [MovieHeader |-> 4, VideoHeader |-> 1, AudioCommonHeader |-> 1,
               AudioStreamHeader |-> 1, PacketHeader |-> 2, PacketHeaderCompact |-> 1,
               PacketHeaderFull |-> 2]

\* What the converters make and Mux takes.  Only a video stream has stream
\* parameters, with which it begins unless it is RoQ; none are copied for audio.
CanBeMuxed(m) ==
    /\ m.video \in 1 .. NumVideoTypes - 1
    /\ m.streams \in Nat
    /\ m.video = NoVideo => m.streams # 0
    /\ m.packets \in Seq([type : 1 .. 6, stream : Nat, data : Seq(Nat) \ {<<>>}])
    /\ \A i \in DOMAIN m.packets :
        LET p == m.packets[i] IN
        /\ p.type # AudioParameters
        /\ p.type = VideoParameters <=> i = 1 /\ m.video \notin {NoVideo, RoQ}
        /\ p.type \in {VideoData, VideoSync} => m.video # NoVideo
        /\ p.type = VideoSync => Len(p.data) = 1 /\ p.data # <<0>>
        /\ p.type = AudioFrame => p.stream < m.streams

ASSUME MoviesAssumption ==
    /\ \A m \in Movies : CanBeMuxed(m)
    /\ \A m \in Fragile : m.packets # <<>>

-----------------------------------------------------------------------------
(* Writing.  The converters escape audio frames, Mux copies the packets.   *)

Stored(p) == IF p.type = AudioFrame THEN Escape(p.data) ELSE p.data

Flags(p) == p.type + IF Stored(p) = p.data THEN 0 ELSE FlagEscaped

\* A size and a bit that is always set, in two bytes.
CompactSize(size) == ((2 * size) % (2 * CompactLimit)) + 1

\* Mutant: the first size too large for a compact header gets one.
CopyPacketUpTo(p) ==
    LET size == Len(Stored(p)) IN
    IF size <= CompactLimit /\ p.stream = 0
    THEN <<1, Flags(p) + FlagCompact, CompactSize(size)>> \o Stored(p)
    ELSE <<1, Flags(p), size, p.stream>> \o Stored(p)

CopyPacket(p) ==
    LET size == Len(Stored(p)) IN
    IF size < CompactLimit /\ p.stream = 0
    THEN <<1, Flags(p) + FlagCompact, CompactSize(size)>> \o Stored(p)
    ELSE <<1, Flags(p), size, p.stream>> \o Stored(p)

LargestPacketSize(m) ==
    LET sizes == {Len(Stored(m.packets[i])) : i \in DOMAIN m.packets}
    IN CHOOSE n \in sizes \cup {0} : \A k \in sizes : k <= n

WriteHeaders(m) ==
    <<1, m.video, IF m.streams = 0 THEN NoAudio ELSE MP2, LargestPacketSize(m)>>
        \o (IF m.video = NoVideo THEN <<>> ELSE <<1>>)
        \o (IF m.streams = 0 THEN <<>> ELSE <<m.streams>> \o [i \in 1 .. m.streams |-> 1])

Written(m) == WriteHeaders(m) \o FlattenSeq([i \in DOMAIN m.packets |-> CopyPacket(m.packets[i])])

\* The end of the i-th packet of a movie in its file.
EndOf(m, i) == Len(WriteHeaders(m))
    + Len(FlattenSeq([k \in 1 .. i |-> CopyPacket(m.packets[k])]))

IntactBefore(m, d) ==
    CHOOSE n \in 0 .. Len(m.packets) - 1 : d <= EndOf(m, n + 1) /\ (n = 0 \/ EndOf(m, n) < d)

Muxed ==
    /\ movie \in Movies
    /\ LET whole == Written(movie) IN
       \/ file = whole /\ intact = Len(movie.packets)
       \/ /\ movie \in Fragile
          /\ \E d \in DOMAIN whole, c \in DamagedCells :
                file = [whole EXCEPT ![d] = c] /\ intact = IntactBefore(movie, d)

\* A new movie state, and an application that has opened the file.
Opened ==
    /\ pos = 0
    /\ given = 0
    /\ avail = 0
    /\ calling = FALSE
    /\ result = "none"
    /\ demux = "MovieHeader"
    /\ need = HeaderSize["MovieHeader"]
    /\ got = <<>>
    /\ info = [video |-> 0, audio |-> 0, largest |-> 0, format |-> 0, streams |-> 0]
    /\ parsed = 0
    /\ packet = [flags |-> 0, size |-> 0, stream |-> 0]
    /\ needParams = FALSE
    /\ handed = <<>>

Init == Muxed /\ Opened

-----------------------------------------------------------------------------
(* lwmFillableBuffer::FeedData, and the ways to leave a state.             *)

Least(a, b) == IF a < b THEN a ELSE b

Taken == Least(avail, need)
Filled == got \o SubSeq(file, pos + given - avail + 1, pos + given - avail + Taken)

IsFull == avail >= need

\* repeatFeed, in a state that waits for n cells.
Fill(state, n) ==
    /\ demux' = state
    /\ need' = n
    /\ got' = <<>>

Repeat(state) ==
    /\ Fill(state, IF state = "PacketData" THEN packet.size
                   ELSE IF state \in {"PacketStart", "InitDecoding", "FatalError"} THEN 0
                   ELSE HeaderSize[state])
    /\ avail' = avail - Taken
    /\ UNCHANGED <<pos, given, calling, result>>

\* Returns r, with the cells looked at so far as outBytesDigested.
Return(r, looked) ==
    /\ calling' = FALSE
    /\ result' = r
    /\ avail' = avail - looked
    /\ pos' = pos + given - avail + looked
    /\ UNCHANGED given

GiveUp == Fill("FatalError", 0) /\ Return("Nothing", Taken)

-----------------------------------------------------------------------------
(* lwmMovieState_FeedData: one action per case, as often as it repeats.    *)

\* The application gives it the next cells of the file.
Feed(k) ==
    /\ ~calling
    /\ pos + k <= Len(file)
    /\ given' = k
    /\ avail' = k
    /\ calling' = TRUE
    /\ UNCHANGED <<written, pos, result, filling, headers, needParams, handed>>

In(state) == calling /\ demux = state

\* Whatever is being read is not complete yet.
ReadSome ==
    /\ calling
    /\ demux \notin {"PacketStart", "InitDecoding", "FatalError"}
    /\ ~IsFull
    /\ got' = Filled
    /\ need' = need - Taken
    /\ Return("Nothing", Taken)
    /\ UNCHANGED <<written, demux, headers, needParams, handed>>

ReadMovieHeader ==
    LET h == Filled
        ok == h[1] = 1 /\ h[2] \in 1 .. NumVideoTypes - 1 /\ h[3] \in 1 .. NumAudioTypes - 1
              /\ h[4] > 0
    IN
    /\ In("MovieHeader")
    /\ IsFull
    /\ info' = [info EXCEPT !.video = h[2], !.audio = h[3], !.largest = h[4]]
    /\ CASE ok /\ h[2] # NoVideo -> Repeat("VideoHeader")
         [] ok /\ h[2] = NoVideo /\ h[3] # NoAudio -> Repeat("AudioCommonHeader")
         [] OTHER -> GiveUp
    /\ UNCHANGED <<written, parsed, packet, needParams, handed>>

ReadVideoHeader ==
    /\ In("VideoHeader")
    /\ IsFull
    /\ info' = [info EXCEPT !.format = Filled[1]]
    /\ Repeat(CASE Filled[1] = 0 -> "FatalError"
                [] Filled[1] # 0 /\ info.audio # NoAudio -> "AudioCommonHeader"
                [] OTHER -> "InitDecoding")
    /\ UNCHANGED <<written, parsed, packet, needParams, handed>>

ReadAudioCommonHeader ==
    /\ In("AudioCommonHeader")
    /\ IsFull
    /\ info' = [info EXCEPT !.streams = Filled[1]]
    /\ parsed' = 0
    /\ IF Filled[1] # 0 THEN Repeat("AudioStreamHeader") ELSE GiveUp
    /\ UNCHANGED <<written, packet, needParams, handed>>

ReadAudioStreamHeader ==
    /\ In("AudioStreamHeader")
    /\ IsFull
    /\ IF Filled[1] # 0
       THEN /\ parsed' = parsed + 1
            /\ Repeat(IF parsed + 1 = info.streams THEN "InitDecoding" ELSE "AudioStreamHeader")
       ELSE GiveUp /\ UNCHANGED parsed
    /\ UNCHANGED <<written, info, packet, needParams, handed>>

\* InitDecoding.  Only an M1V or M2V stream (or Theora) has parameters.
InitDecoding ==
    LET ok == info.video = NoVideo \/ info.format = 1 IN
    /\ In("InitDecoding")
    /\ IF ok THEN Fill("PacketHeader", HeaderSize["PacketHeader"]) ELSE Fill("FatalError", 0)
    /\ Return(IF ok THEN "Initialize" ELSE "Nothing", 0)
    /\ needParams' = (ok /\ info.video \notin {NoVideo, RoQ})
    /\ UNCHANGED <<written, headers, handed>>

\* Mutant: returns, to go on with the rest of the header in the next call.
ReadPacketHeaderOnly ==
    /\ In("PacketHeader")
    /\ IsFull
    /\ packet' = [packet EXCEPT !.flags = Filled[2]]
    /\ IF Filled[1] = 1
       THEN LET state == IF Has(Filled[2], FlagCompact) THEN "PacketHeaderCompact"
                         ELSE "PacketHeaderFull"
            IN Fill(state, HeaderSize[state]) /\ Return("Nothing", Taken)
       ELSE GiveUp
    /\ UNCHANGED <<written, info, parsed, needParams, handed>>

ReadPacketHeader ==
    /\ In("PacketHeader")
    /\ IsFull
    /\ packet' = [packet EXCEPT !.flags = Filled[2]]
    /\ IF Filled[1] = 1
       THEN Repeat(IF Has(Filled[2], FlagCompact) THEN "PacketHeaderCompact"
                   ELSE "PacketHeaderFull")
       ELSE GiveUp
    /\ UNCHANGED <<written, info, parsed, needParams, handed>>

ReadPacketHeaderCompact ==
    LET cell == Filled[1] IN
    /\ In("PacketHeaderCompact")
    /\ IsFull
    /\ IF cell % 2 = 1 /\ cell # 1
       THEN /\ packet' = [packet EXCEPT !.size = cell \div 2, !.stream = 0]
            /\ Repeat("PacketStart")
       ELSE GiveUp /\ UNCHANGED packet
    /\ UNCHANGED <<written, info, parsed, needParams, handed>>

ReadPacketHeaderFull ==
    /\ In("PacketHeaderFull")
    /\ IsFull
    /\ IF Filled[1] # 0
       THEN /\ packet' = [packet EXCEPT !.size = Filled[1], !.stream = Filled[2]]
            /\ Repeat("PacketStart")
       ELSE GiveUp /\ UNCHANGED packet
    /\ UNCHANGED <<written, info, parsed, needParams, handed>>

\* Mutant: a size is not compared with the buffers' size.
StartAnyPacket ==
    /\ In("PacketStart")
    /\ IF packet.size = 0 THEN GiveUp ELSE Repeat("PacketData")
    /\ UNCHANGED <<written, headers, needParams, handed>>

StartPacket ==
    /\ In("PacketStart")
    /\ IF packet.size > info.largest \/ packet.size = 0 THEN GiveUp ELSE Repeat("PacketData")
    /\ UNCHANGED <<written, headers, needParams, handed>>

-----------------------------------------------------------------------------
(* DigestPacket: its own refusals.  What decoders and audio buffers do with *)
(* a packet is in other modules; stream parameters they may refuse.        *)

Unescaped == IF Has(packet.flags, FlagEscaped) THEN Unescape(Filled) ELSE Filled

\* A synchronization packet has one cell, which is not 0.
Refused(type) ==
    \/ needParams /\ type # VideoParameters
    \/ type = VideoParameters /\ (~needParams \/ info.video = NoVideo)
    \/ type = VideoData /\ info.video = NoVideo
    \/ type = VideoSync /\ (info.video = NoVideo \/ Len(Unescaped) # 1 \/ Unescaped = <<0>>)
    \/ type = AudioFrame /\ (info.audio = NoAudio \/ packet.stream >= info.streams)
    \/ type \notin {VideoParameters, VideoData, VideoSync, AudioFrame, AudioSync}

Outcome(type, understood) ==
    CASE Refused(type) -> "refused"
      [] ~Refused(type) /\ type = VideoParameters /\ ~understood -> "not understood"
      [] OTHER -> "passed on"

\* Mutant: stream parameters are asked for again after every packet.
DigestPacketAskingAgain(understood) ==
    LET type == TypeOf(packet.flags)
        did == Outcome(type, understood)
    IN
    /\ In("PacketData")
    /\ IsFull
    /\ handed' = Append(handed, [type |-> type, stream |-> packet.stream,
                                 data |-> Unescaped, did |-> did])
    /\ needParams' = (info.video \notin {NoVideo, RoQ})
    /\ Fill("PacketHeader", HeaderSize["PacketHeader"])
    /\ Return(IF did = "passed on" THEN "Worked" ELSE "Error", Taken)
    /\ UNCHANGED <<written, headers>>

\* Whatever comes of it, the next packet's header is next.
DigestPacket(understood) ==
    LET type == TypeOf(packet.flags)
        did == Outcome(type, understood)
    IN
    /\ In("PacketData")
    /\ IsFull
    /\ handed' = Append(handed, [type |-> type, stream |-> packet.stream,
                                 data |-> Unescaped, did |-> did])
    /\ needParams' = (needParams /\ ~(type = VideoParameters /\ did = "passed on"))
    /\ Fill("PacketHeader", HeaderSize["PacketHeader"])
    /\ Return(IF did = "passed on" THEN "Worked" ELSE "Error", Taken)
    /\ UNCHANGED <<written, headers>>

\* Nothing is digested of a call that ends here, although a bad video header,
\* which comes here in the same call, was looked at.
FailAgain ==
    /\ In("FatalError")
    /\ calling' = FALSE
    /\ result' = "Error"
    /\ UNCHANGED <<written, pos, given, avail, filling, headers, needParams, handed>>

Digest ==
    \/ ReadSome
    \/ ReadMovieHeader
    \/ ReadVideoHeader
    \/ ReadAudioCommonHeader
    \/ ReadAudioStreamHeader
    \/ InitDecoding
    \/ ReadPacketHeader
    \/ ReadPacketHeaderCompact
    \/ ReadPacketHeaderFull
    \/ StartPacket
    \/ \E understood \in BOOLEAN : DigestPacket(understood)
    \/ FailAgain

Next == (\E k \in 1 .. MaxPiece : Feed(k)) \/ Digest

\* FeedData returns, and the application feeds it the whole file.
Fairness == WF_vars(\E k \in 1 .. MaxPiece : Feed(k)) /\ WF_vars(Digest)

Spec == Init /\ [][Next]_vars /\ Fairness

-----------------------------------------------------------------------------
(* Properties.                                                             *)

\* Types; the application's position never leaves the file.
TypeOK ==
    /\ movie \in Movies
    /\ pos + (IF calling THEN given ELSE 0) \in 0 .. Len(file)
    /\ avail \in 0 .. given
    /\ calling \in BOOLEAN
    /\ result \in {"none", "Nothing", "Initialize", "Worked", "Error"}
    /\ need \in Nat
    /\ got \in Seq(Nat)
    /\ needParams \in BOOLEAN

\* The buffers for packet data have largestPacketSize bytes, by the file's own
\* word: whatever one damaged cell says, no packet runs over them, and a header
\* is never read into more than its size.
WithinBuffers ==
    /\ demux = "PacketData" =>
        Len(got) + need <= info.largest /\ Len(got) + need = packet.size
    /\ demux \in DOMAIN HeaderSize => Len(got) + need = HeaderSize[demux]
    /\ parsed <= info.streams

\* A call that returns lwmDIGEST_Nothing has used up what it was given, unless
\* the file is broken: "awaiting more data" (Decoding.txt:20), so that the
\* application which asks for more never drops bytes or spins.
NothingMeansMore ==
    ~calling /\ result = "Nothing" /\ demux # "FatalError" => avail = 0

\* DigestPacket refuses no packet of an undamaged movie whose stream parameters
\* were understood: what the muxer declares in the headers and what the
\* demultiplexer expects of the packets agree.
NothingRefused ==
    intact = Len(movie.packets) /\ (\A i \in DOMAIN handed : handed[i].did # "not understood") =>
        \A i \in DOMAIN handed : handed[i].did # "refused"

\* Packets reach DigestPacket as the converters made them, in order, whatever
\* the pieces the file is fed in; damage only affects the packets from there on.
Delivery == INSTANCE PacketDelivery WITH
    packets <- movie.packets,
    delivered <- [i \in DOMAIN handed |->
        [type |-> handed[i].type, stream |-> handed[i].stream, data |-> handed[i].data]]

ImplementsDelivery == Delivery!Spec
=============================================================================
