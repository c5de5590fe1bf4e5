---------------------------- MODULE FramingProofs ----------------------------
(***************************************************************************)
(* Proofs about the demultiplexer.  The first half is for every file there *)
(* may be: what it holds need not have been written by the muxer, and any  *)
(* number of its cells may be damaged.  The argument goes by the cell that *)
(* is looked at next.  A fillable holds the cells right before it, as many *)
(* as it does not need any more; where calls begin and end makes no        *)
(* difference to that (IInv).                                              *)
(*                                                                         *)
(* The second half is for the files of Init, every movie that can be muxed *)
(* with at most one cell damaged.  As long as the next packet is intact,   *)
(* each state of FeedData is at its own place of the file, and has read    *)
(* what the muxer wrote before it (Tracked).                               *)
(***************************************************************************)
EXTENDS Framing, SequenceTheorems, WellFoundedInduction, TLAPS

\* The application has opened a file, whatever it is.
AnyFile == file \in Seq(Nat) /\ Opened

HeaderStates == DOMAIN HeaderSize
OtherStates == {"PacketData", "PacketStart", "InitDecoding", "FatalError"}

\* How far the file has been looked at.
Looked == IF calling THEN pos + given - avail ELSE pos

Types ==
    /\ file \in Seq(Nat)
    /\ pos \in Nat
    /\ given \in Nat
    /\ avail \in Nat
    /\ avail <= given
    /\ calling \in BOOLEAN
    /\ calling => pos + given <= Len(file)
    /\ pos <= Len(file)
    /\ result \in {"none", "Nothing", "Initialize", "Worked", "Error"}
    /\ demux \in HeaderStates \cup OtherStates
    /\ need \in Nat
    /\ got \in Seq(Nat)
    /\ info \in [video : Nat, audio : Nat, largest : Nat, format : Nat, streams : Nat]
    /\ parsed \in Nat
    /\ packet \in [flags : Nat, size : Nat, stream : Nat]
    /\ needParams \in BOOLEAN

\* A fillable holds the cells of the file before the next one to be looked at.
Holds(cells, n) ==
    /\ Len(cells) <= n
    /\ \A i \in 1 .. Len(cells) : cells[i] = file[n - Len(cells) + i]

HoldsTheLast == Holds(got, Looked)

\* The states that read nothing have nothing left of an earlier one.
NothingToFill == demux \in {"PacketStart", "InitDecoding", "FatalError"} => got = <<>>

StreamHeaderExpected == demux = "AudioStreamHeader" => parsed < info.streams

IInv ==
    /\ Types
    /\ HoldsTheLast
    /\ NothingToFill
    /\ StreamHeaderExpected
    /\ WithinBuffers
    /\ NothingMeansMore

-----------------------------------------------------------------------------
(* The fillable.                                                           *)

LEMMA HeaderSizes ==
    /\ HeaderStates = {"MovieHeader", "VideoHeader", "AudioCommonHeader", "AudioStreamHeader",
                        "PacketHeader", "PacketHeaderCompact", "PacketHeaderFull"}
    /\ \A s \in HeaderStates : HeaderSize[s] \in Nat \ {0}
    /\ HeaderSize["MovieHeader"] = 4 /\ HeaderSize["PacketHeader"] = 2
    /\ HeaderSize["PacketHeaderFull"] = 2
<1> QED BY DEF HeaderStates, HeaderSize

LEMMA Takes ==
    ASSUME IInv, calling
    PROVE  /\ Taken \in Nat
           /\ Taken <= avail
           /\ Taken <= need
           /\ IsFull => Taken = need
           /\ ~IsFull => Taken = avail
<1> QED BY DEF IInv, Types, Taken, Least, IsFull

\* What is looked at next goes to the end of what a fillable holds.
LEMMA Extends ==
    ASSUME NEW f \in Seq(Nat), NEW g \in Seq(Nat), NEW a \in Nat, NEW n \in Nat,
           a + n <= Len(f), Len(g) <= a,
           \A i \in 1 .. Len(g) : g[i] = f[a - Len(g) + i]
    PROVE  LET whole == g \o SubSeq(f, a + 1, a + n) IN
           /\ whole \in Seq(Nat)
           /\ Len(whole) = Len(g) + n
           /\ \A i \in 1 .. Len(g) + n : whole[i] = f[a - Len(g) + i]
<1> DEFINE new == SubSeq(f, a + 1, a + n)
<1>1. \A i \in a + 1 .. a + n : f[i] \in Nat
    OBVIOUS
<1>2. /\ new \in Seq(Nat)
      /\ Len(new) = IF a + 1 <= a + n THEN (a + n) - (a + 1) + 1 ELSE 0
      /\ \A i \in 1 .. (a + n) - (a + 1) + 1 : new[i] = f[(a + 1) + i - 1]
    <2>1. a + 1 \in Int /\ a + n \in Int
        OBVIOUS
    <2> QED BY <1>1, <2>1, SubSeqProperties
<1> HIDE DEF new
<1>3. Len(new) = n /\ \A i \in 1 .. n : new[i] = f[a + i]
    BY <1>2
<1>4. /\ g \o new \in Seq(Nat)
      /\ Len(g \o new) = Len(g) + n
      /\ \A i \in 1 .. Len(g) + n :
            (g \o new)[i] = IF i <= Len(g) THEN g[i] ELSE new[i - Len(g)]
    <2>1. new \in Seq(Nat)
        BY <1>2
    <2>2. /\ g \o new \in Seq(Nat)
          /\ Len(g \o new) = Len(g) + Len(new)
          /\ \A i \in 1 .. Len(g) + Len(new) :
                (g \o new)[i] = IF i <= Len(g) THEN g[i] ELSE new[i - Len(g)]
        BY <2>1, ConcatProperties, Zenon
    <2> QED BY <2>2, <1>3
<1>5. ASSUME NEW i \in 1 .. Len(g) + n
      PROVE  (g \o new)[i] = f[a - Len(g) + i]
    <2>1. CASE i <= Len(g)
        BY <2>1, <1>4
    <2>2. CASE ~(i <= Len(g))
        <3>1. (g \o new)[i] = new[i - Len(g)]
            BY <2>2, <1>4
        <3>2. Len(g) \in Nat
            OBVIOUS
        <3>3. i - Len(g) \in 1 .. n /\ a + (i - Len(g)) = a - Len(g) + i
            BY <2>2, <3>2
        <3> QED BY <3>1, <3>3, <1>3
    <2> QED BY <2>1, <2>2
<1> QED BY <1>4, <1>5 DEF new

\* What a state has got when it is left or goes on.
LEMMA Fills ==
    ASSUME IInv, calling
    PROVE  /\ Filled \in Seq(Nat)
           /\ Len(Filled) = Len(got) + Taken
           /\ Holds(Filled, Looked + Taken)
<1> DEFINE a == pos + given - avail
<1>1. /\ Taken \in Nat /\ a \in Nat /\ a + Taken <= Len(file) /\ Looked = a
      /\ file \in Seq(Nat) /\ got \in Seq(Nat)
    BY Takes DEF IInv, Types, Looked
<1>2. Len(got) <= a /\ \A i \in 1 .. Len(got) : got[i] = file[a - Len(got) + i]
    BY <1>1 DEF IInv, HoldsTheLast, Holds
<1>3. Filled = got \o SubSeq(file, a + 1, a + Taken)
    BY DEF Filled
<1> HIDE DEF a
<1>4. /\ Filled \in Seq(Nat)
      /\ Len(Filled) = Len(got) + Taken
      /\ \A i \in 1 .. Len(got) + Taken : Filled[i] = file[a - Len(got) + i]
    BY <1>1, <1>2, <1>3, Extends
<1>5. Len(got) \in Nat /\ Looked + Taken - Len(Filled) = a - Len(got)
    BY <1>1, <1>4
<1>6. Holds(Filled, Looked + Taken)
    BY <1>1, <1>2, <1>4, <1>5 DEF Holds
<1> QED BY <1>4, <1>6

\* A complete header.
LEMMA FilledHeader ==
    ASSUME IInv, calling, IsFull, demux \in HeaderStates
    PROVE  /\ Filled \in Seq(Nat)
           /\ Len(Filled) = HeaderSize[demux]
           /\ \A i \in 1 .. HeaderSize[demux] : Filled[i] \in Nat
<1>1. Len(got) + need = HeaderSize[demux]
    BY DEF IInv, WithinBuffers, HeaderStates
<1>2. Filled \in Seq(Nat) /\ Len(Filled) = HeaderSize[demux]
    BY <1>1, Takes, Fills
<1> QED BY <1>2

-----------------------------------------------------------------------------
(* The ways to leave a state.  Each establishes the part of the invariant  *)
(* that is about the call and the fillable.                                *)

\* The call and the fillable of the next state are well formed.
CallOK ==
    /\ pos \in Nat
    /\ given \in Nat
    /\ avail \in Nat
    /\ avail <= given
    /\ calling \in BOOLEAN
    /\ calling => pos + given <= Len(file)
    /\ pos <= Len(file)
    /\ result \in {"none", "Nothing", "Initialize", "Worked", "Error"}

\* What was read of the headers, in the next state.
ReadOK ==
    /\ info \in [video : Nat, audio : Nat, largest : Nat, format : Nat, streams : Nat]
    /\ parsed \in Nat
    /\ packet \in [flags : Nat, size : Nat, stream : Nat]
    /\ needParams \in BOOLEAN
    /\ parsed <= info.streams

LEMMA Differences == \A a, b, c \in Nat : c <= b => a + b - c \in Nat
<1> QED OBVIOUS

LEMMA LookedInNat ==
    ASSUME CallOK'
    PROVE  Looked' \in Nat
<1>1. pos' \in Nat /\ given' \in Nat /\ avail' \in Nat /\ avail' <= given'
    BY DEF CallOK
<1>2. pos' + given' - avail' \in Nat
    BY <1>1, Differences, Zenon
<1> QED BY <1>1, <1>2, Zenon DEF Looked

\* A new state begins with an empty fillable.
LEMMA NewState ==
    ASSUME file' \in Seq(Nat), CallOK', ReadOK', NothingMeansMore', StreamHeaderExpected',
           got' = <<>>,
           \/ demux' \in HeaderStates /\ need' = HeaderSize[demux']
           \/ demux' = "PacketData" /\ need' = packet'.size /\ packet'.size <= info'.largest
           \/ demux' \in {"PacketStart", "InitDecoding", "FatalError"} /\ need' = 0
    PROVE  IInv'
<1>1. Len(got') = 0 /\ got' \in Seq(Nat)
    OBVIOUS
<1>2. HoldsTheLast'
    <2>1. Looked' \in Nat
        BY LookedInNat
    <2> QED BY <1>1, <2>1 DEF HoldsTheLast, Holds
<1>3. demux' \in HeaderStates \cup OtherStates /\ need' \in Nat
    <2>1. packet'.size \in Nat
        BY DEF ReadOK
    <2>2. \A h \in HeaderStates : HeaderSize[h] \in Nat
        BY HeaderSizes
    <2> QED BY <2>1, <2>2 DEF OtherStates
<1>4. WithinBuffers'
    BY <1>1, HeaderSizes DEF WithinBuffers, ReadOK, HeaderStates
<1>5. Types'
    BY <1>1, <1>3 DEF Types, CallOK, ReadOK
<1> QED BY <1>2, <1>4, <1>5 DEF IInv, NothingToFill

LEMMA Repeats ==
    ASSUME IInv, calling, UNCHANGED file, ReadOK',
           NEW state \in HeaderStates \cup OtherStates, Repeat(state),
           state = "PacketData" => packet' = packet /\ packet.size <= info.largest /\ info' = info,
           state = "AudioStreamHeader" => parsed' < info'.streams
    PROVE  IInv'
<1>1. CallOK' /\ NothingMeansMore'
    BY Takes DEF IInv, Types, CallOK, Repeat, NothingMeansMore
<1>2. got' = <<>> /\ demux' = state
    BY DEF Repeat, Fill
<1>3. \/ demux' \in HeaderStates /\ need' = HeaderSize[demux']
      \/ demux' = "PacketData" /\ need' = packet'.size /\ packet'.size <= info'.largest
      \/ demux' \in {"PacketStart", "InitDecoding", "FatalError"} /\ need' = 0
    BY HeaderSizes DEF Repeat, Fill, OtherStates
<1>4. StreamHeaderExpected'
    BY <1>2 DEF StreamHeaderExpected
<1>5. file' \in Seq(Nat)
    BY DEF IInv, Types
<1> HIDE DEF IInv
<1> QED BY <1>1, <1>2, <1>3, <1>4, <1>5, NewState

\* Leaves FeedData for a new packet, or for good.
LEMMA Leaves ==
    ASSUME IInv, calling, UNCHANGED file, ReadOK',
           NEW r \in {"Nothing", "Initialize", "Worked", "Error"},
           NEW looked \in {0, Taken}, Return(r, looked),
           \/ Fill("FatalError", 0)
           \/ Fill("PacketHeader", HeaderSize["PacketHeader"]) /\ r # "Nothing"
    PROVE  IInv'
<1>1. looked \in Nat /\ looked <= avail
    BY Takes DEF IInv, Types
<1>2. CallOK' /\ NothingMeansMore'
    <2>1. /\ avail \in Nat /\ given \in Nat /\ pos \in Nat /\ avail <= given
          /\ pos + given <= Len(file) /\ Len(file) \in Nat
        BY DEF IInv, Types
    <2>2. /\ calling' = FALSE /\ result' = r /\ given' = given /\ avail' = avail - looked
          /\ pos' = pos + given - avail + looked
        BY DEF Return
    <2>3. NothingMeansMore'
        BY <2>2 DEF NothingMeansMore, Fill
    <2>4. avail - looked \in Nat /\ avail - looked <= given
        BY <1>1, <2>1
    <2>5. /\ pos + given - avail + looked \in Nat
          /\ pos + given - avail + looked <= Len(file)
        BY <1>1, <2>1
    <2>6. /\ pos' \in Nat /\ pos' <= Len(file') /\ given' \in Nat
          /\ avail' \in Nat /\ avail' <= given'
        BY <2>1, <2>2, <2>4, <2>5
    <2>7. CallOK'
        BY <2>2, <2>6 DEF CallOK
    <2> QED BY <2>3, <2>7
<1>3. got' = <<>>
    BY DEF Fill
<1>4. \/ demux' \in HeaderStates /\ need' = HeaderSize[demux']
      \/ demux' \in {"PacketStart", "InitDecoding", "FatalError"} /\ need' = 0
    BY HeaderSizes DEF Fill
<1>5. StreamHeaderExpected'
    BY DEF StreamHeaderExpected, Fill
<1>6. file' \in Seq(Nat)
    BY DEF IInv, Types
<1> QED BY <1>2, <1>3, <1>4, <1>5, <1>6, NewState

-----------------------------------------------------------------------------
(* The steps.                                                              *)

LEMMA Opens == AnyFile => IInv
<1> SUFFICES ASSUME AnyFile PROVE IInv
    OBVIOUS
<1>1. Len(got) = 0 /\ got \in Seq(Nat)
    BY DEF AnyFile, Opened
<1>2. Types
    <2>1. demux \in HeaderStates /\ need \in Nat
        BY HeaderSizes DEF AnyFile, Opened
    <2>2. /\ info \in [video : Nat, audio : Nat, largest : Nat, format : Nat, streams : Nat]
          /\ packet \in [flags : Nat, size : Nat, stream : Nat]
        BY DEF AnyFile, Opened
    <2>3. pos <= Len(file)
        BY DEF AnyFile, Opened
    <2>4. /\ file \in Seq(Nat) /\ pos \in Nat /\ given \in Nat /\ avail \in Nat /\ avail <= given
          /\ calling = FALSE /\ needParams = FALSE /\ result = "none" /\ parsed \in Nat
        BY DEF AnyFile, Opened
    <2> QED BY <1>1, <2>1, <2>2, <2>3, <2>4 DEF Types
<1>3. HoldsTheLast
    BY <1>1 DEF HoldsTheLast, Holds, Looked, AnyFile, Opened
<1>4. WithinBuffers
    BY <1>1, HeaderSizes DEF WithinBuffers, AnyFile, Opened, HeaderStates
<1> QED BY <1>2, <1>3, <1>4 DEF IInv, NothingToFill, StreamHeaderExpected, NothingMeansMore, AnyFile, Opened

LEMMA FeedStep ==
    ASSUME IInv, NEW k \in 1 .. MaxPiece, Feed(k)
    PROVE  IInv'
<1>1. /\ ~calling /\ calling' = TRUE /\ pos + k <= Len(file)
      /\ given' = k /\ avail' = k
      /\ UNCHANGED <<file, pos, result, demux, need, got, info, parsed, packet, needParams>>
    BY DEF Feed, written, filling, headers
<1>2. k \in Nat
    BY FramingAssumption
<1>3. Looked' = Looked
    BY <1>1, <1>2 DEF Looked, IInv, Types
<1>4. Types'
    BY <1>1, <1>2 DEF IInv, Types
<1>5. HoldsTheLast'
    BY <1>1, <1>3 DEF IInv, HoldsTheLast, Holds
<1> QED BY <1>1, <1>4, <1>5 DEF IInv, NothingToFill, StreamHeaderExpected, WithinBuffers, NothingMeansMore

LEMMA ReadSomeStep ==
    ASSUME IInv, ReadSome
    PROVE  IInv'
<1>1. /\ calling /\ ~IsFull /\ got' = Filled /\ need' = need - Taken
      /\ calling' = FALSE /\ result' = "Nothing" /\ avail' = avail - Taken
      /\ pos' = pos + given - avail + Taken /\ given' = given
      /\ UNCHANGED <<file, demux, info, parsed, packet, needParams>>
    BY DEF ReadSome, Return, written, headers
<1>0. demux \notin {"PacketStart", "InitDecoding", "FatalError"}
    BY DEF ReadSome
<1>2. Taken \in Nat /\ Taken <= avail /\ Taken <= need /\ Taken = avail
    BY <1>1, Takes
<1>3. /\ Filled \in Seq(Nat)
      /\ Len(Filled) = Len(got) + Taken
      /\ Holds(Filled, Looked + Taken)
    BY <1>1, Fills
<1>4. Looked' = Looked + Taken
    BY <1>1, <1>2 DEF Looked, IInv, Types
<1>5. HoldsTheLast'
    <2>1. got' = Filled /\ file' = file /\ Looked' = Looked + Taken
        BY <1>1, <1>4
    <2>2. Holds(Filled, Looked + Taken)
        BY <1>3
    <2> QED BY <2>1, <2>2, Zenon DEF HoldsTheLast, Holds
<1>6. Types'
    <2>1. need' \in Nat
        BY <1>1, <1>2 DEF IInv, Types
    <2>2. avail' = 0 /\ pos' = pos + given /\ pos' <= Len(file)
        BY <1>1, <1>2 DEF IInv, Types
    <2>3. got' \in Seq(Nat)
        BY <1>1, <1>3
    <2>4. /\ file' \in Seq(Nat) /\ given' \in Nat /\ pos' \in Nat /\ avail' \in Nat
          /\ avail' <= given' /\ pos' <= Len(file')
        BY <1>1, <2>2 DEF IInv, Types
    <2> QED BY <1>1, <2>1, <2>3, <2>4 DEF IInv, Types
<1>7. Len(got') + need' = Len(got) + need
    BY <1>1, <1>2, <1>3 DEF IInv, Types
<1>8. WithinBuffers'
    BY <1>1, <1>7 DEF IInv, WithinBuffers
<1>9. avail' = 0
    BY <1>1, <1>2 DEF IInv, Types
<1> QED BY <1>0, <1>1, <1>5, <1>6, <1>8, <1>9
        DEF IInv, NothingToFill, StreamHeaderExpected, NothingMeansMore

\* What is kept of the headers when a state changes only some of it.
LEMMA KeepsHeaders ==
    ASSUME IInv, UNCHANGED <<info, parsed, packet>>, needParams' \in BOOLEAN
    PROVE  ReadOK'
<1> QED BY DEF IInv, Types, WithinBuffers, ReadOK

LEMMA MovieHeaderStep ==
    ASSUME IInv, ReadMovieHeader
    PROVE  IInv'
<1> DEFINE h == Filled
<1>1. /\ calling /\ IsFull /\ demux = "MovieHeader" /\ UNCHANGED <<file, parsed, packet, needParams>>
      /\ info' = [info EXCEPT !.video = h[2], !.audio = h[3], !.largest = h[4]]
      /\ Repeat("VideoHeader") \/ Repeat("AudioCommonHeader") \/ GiveUp
    BY DEF ReadMovieHeader, In, written
<1>2. h[2] \in Nat /\ h[3] \in Nat /\ h[4] \in Nat
    BY <1>1, FilledHeader, HeaderSizes
<1> HIDE DEF h
<1>3. ReadOK'
    BY <1>1, <1>2 DEF IInv, Types, WithinBuffers, ReadOK
<1>4. CASE Repeat("VideoHeader")
    BY <1>1, <1>3, <1>4, Repeats, HeaderSizes
<1>5. CASE Repeat("AudioCommonHeader")
    BY <1>1, <1>3, <1>5, Repeats, HeaderSizes
<1>6. CASE GiveUp
    BY <1>1, <1>3, <1>6, Leaves DEF GiveUp
<1> QED BY <1>1, <1>4, <1>5, <1>6

LEMMA VideoHeaderStep ==
    ASSUME IInv, ReadVideoHeader
    PROVE  IInv'
<1>1. /\ calling /\ IsFull /\ demux = "VideoHeader" /\ UNCHANGED <<file, parsed, packet, needParams>>
      /\ info' = [info EXCEPT !.format = Filled[1]]
      /\ \E state \in {"FatalError", "AudioCommonHeader", "InitDecoding"} : Repeat(state)
    BY DEF ReadVideoHeader, In, written
<1>2. Filled[1] \in Nat
    BY <1>1, FilledHeader, HeaderSizes
<1>3. ReadOK'
    BY <1>1, <1>2 DEF IInv, Types, WithinBuffers, ReadOK
<1>4. PICK state \in {"FatalError", "AudioCommonHeader", "InitDecoding"} : Repeat(state)
    BY <1>1
<1>5. state \in HeaderStates \cup OtherStates /\ state # "PacketData" /\ state # "AudioStreamHeader"
    BY HeaderSizes DEF OtherStates
<1> QED BY <1>1, <1>3, <1>4, <1>5, Repeats

LEMMA AudioCommonHeaderStep ==
    ASSUME IInv, ReadAudioCommonHeader
    PROVE  IInv'
<1>1. /\ calling /\ IsFull /\ demux = "AudioCommonHeader" /\ UNCHANGED <<file, packet, needParams>>
      /\ info' = [info EXCEPT !.streams = Filled[1]] /\ parsed' = 0
      /\ IF Filled[1] # 0 THEN Repeat("AudioStreamHeader") ELSE GiveUp
    BY DEF ReadAudioCommonHeader, In, written
<1>2. Filled[1] \in Nat
    BY <1>1, FilledHeader, HeaderSizes
<1>3. ReadOK' /\ info'.streams = Filled[1]
    <2>1. info \in [video : Nat, audio : Nat, largest : Nat, format : Nat, streams : Nat]
        BY DEF IInv, Types
    <2>2. /\ info' \in [video : Nat, audio : Nat, largest : Nat, format : Nat, streams : Nat]
          /\ info'.streams = Filled[1]
        BY <1>1, <1>2, <2>1
    <2>3. parsed' \in Nat /\ parsed' <= info'.streams
        BY <1>1, <1>2, <2>2
    <2> QED BY <1>1, <2>2, <2>3 DEF IInv, Types, ReadOK
<1>4. CASE Filled[1] # 0
    <2>1. parsed' < info'.streams
        BY <1>1, <1>2, <1>3, <1>4
    <2> QED BY <1>1, <1>3, <1>4, <2>1, Repeats, HeaderSizes
<1>5. CASE Filled[1] = 0
    BY <1>1, <1>3, <1>5, Leaves DEF GiveUp
<1> QED BY <1>4, <1>5

LEMMA AudioStreamHeaderStep ==
    ASSUME IInv, ReadAudioStreamHeader
    PROVE  IInv'
<1>1. /\ calling /\ IsFull /\ demux = "AudioStreamHeader" /\ UNCHANGED <<file, info, packet, needParams>>
      /\ \/ parsed' = parsed + 1
            /\ Repeat(IF parsed + 1 = info.streams THEN "InitDecoding" ELSE "AudioStreamHeader")
         \/ GiveUp /\ UNCHANGED parsed
    BY DEF ReadAudioStreamHeader, In, written
<1>2. parsed \in Nat /\ info.streams \in Nat /\ parsed < info.streams
    BY <1>1 DEF IInv, Types, StreamHeaderExpected
<1>3. CASE parsed' = parsed + 1 /\ Repeat(IF parsed + 1 = info.streams THEN "InitDecoding" ELSE "AudioStreamHeader")
    <2>1. ReadOK'
        BY <1>1, <1>2, <1>3 DEF IInv, Types, ReadOK
    <2>2. CASE parsed + 1 = info.streams
        BY <1>1, <1>3, <2>1, <2>2, Repeats DEF OtherStates
    <2>3. CASE parsed + 1 # info.streams
        <3>1. parsed' < info'.streams
            BY <1>1, <1>2, <1>3, <2>3
        <3> QED BY <1>1, <1>3, <2>1, <2>3, <3>1, Repeats, HeaderSizes
    <2> QED BY <2>2, <2>3
<1>4. CASE GiveUp /\ UNCHANGED parsed
    <2>1. ReadOK'
        BY <1>1, <1>4, KeepsHeaders DEF IInv, Types
    <2> QED BY <1>1, <1>4, <2>1, Leaves DEF GiveUp
<1> QED BY <1>1, <1>3, <1>4

LEMMA InitDecodingStep ==
    ASSUME IInv, InitDecoding
    PROVE  IInv'
<1>1. calling /\ UNCHANGED <<file, info, parsed, packet>> /\ needParams' \in BOOLEAN
    BY DEF InitDecoding, In, written, headers
<1>2. ReadOK'
    BY <1>1, KeepsHeaders
<1>3. \/ Fill("PacketHeader", HeaderSize["PacketHeader"]) /\ Return("Initialize", 0)
      \/ Fill("FatalError", 0) /\ Return("Nothing", 0)
    BY DEF InitDecoding
<1> QED BY <1>1, <1>2, <1>3, Leaves

LEMMA PacketHeaderStep ==
    ASSUME IInv, ReadPacketHeader
    PROVE  IInv'
<1>1. /\ calling /\ IsFull /\ demux = "PacketHeader" /\ UNCHANGED <<file, info, parsed, needParams>>
      /\ packet' = [packet EXCEPT !.flags = Filled[2]]
      /\ Repeat("PacketHeaderCompact") \/ Repeat("PacketHeaderFull") \/ GiveUp
    BY DEF ReadPacketHeader, In, written
<1>2. Filled[2] \in Nat
    BY <1>1, FilledHeader, HeaderSizes
<1>3. ReadOK'
    BY <1>1, <1>2 DEF IInv, Types, WithinBuffers, ReadOK
<1>4. CASE Repeat("PacketHeaderCompact")
    BY <1>1, <1>3, <1>4, Repeats, HeaderSizes
<1>5. CASE Repeat("PacketHeaderFull")
    BY <1>1, <1>3, <1>5, Repeats, HeaderSizes
<1>6. CASE GiveUp
    BY <1>1, <1>3, <1>6, Leaves DEF GiveUp
<1> QED BY <1>1, <1>4, <1>5, <1>6

\* The two kinds of the rest of a packet header.
LEMMA RestOfHeaderStep ==
    ASSUME IInv, ReadPacketHeaderCompact \/ ReadPacketHeaderFull
    PROVE  IInv'
<1> DEFINE Sized(size, stream) == packet' = [packet EXCEPT !.size = size, !.stream = stream]
<1>1. /\ calling /\ IsFull /\ UNCHANGED <<file, info, parsed, needParams>>
      /\ demux \in {"PacketHeaderCompact", "PacketHeaderFull"}
    BY DEF ReadPacketHeaderCompact, ReadPacketHeaderFull, In, written
<1>2. /\ Filled[1] \in Nat
      /\ demux = "PacketHeaderFull" => Filled[2] \in Nat
    BY <1>1, FilledHeader, HeaderSizes
<1>3. \/ \E size, stream \in Nat : Sized(size, stream) /\ Repeat("PacketStart")
      \/ GiveUp /\ UNCHANGED packet
    <2>1. CASE ReadPacketHeaderCompact
        <3>1. Filled[1] \div 2 \in Nat /\ 0 \in Nat
            BY <1>2
        <3> QED BY <2>1, <3>1 DEF ReadPacketHeaderCompact
    <2>2. CASE ReadPacketHeaderFull
        BY <1>2, <2>2 DEF ReadPacketHeaderFull, In
    <2> QED BY <2>1, <2>2
<1>4. CASE \E size, stream \in Nat : Sized(size, stream) /\ Repeat("PacketStart")
    <2>1. ReadOK'
        BY <1>1, <1>4 DEF IInv, Types, WithinBuffers, ReadOK
    <2> QED BY <1>1, <1>4, <2>1, Repeats DEF OtherStates
<1>5. CASE GiveUp /\ UNCHANGED packet
    <2>1. ReadOK'
        BY <1>1, <1>5, KeepsHeaders DEF IInv, Types
    <2> QED BY <1>1, <1>5, <2>1, Leaves DEF GiveUp
<1> QED BY <1>3, <1>4, <1>5

LEMMA StartPacketStep ==
    ASSUME IInv, StartPacket
    PROVE  IInv'
<1>1. calling /\ UNCHANGED <<file, info, parsed, packet, needParams>>
    BY DEF StartPacket, In, written, headers
<1>2. ReadOK'
    BY <1>1, KeepsHeaders DEF IInv, Types
<1>3. CASE GiveUp
    BY <1>1, <1>2, <1>3, Leaves DEF GiveUp
<1>4. CASE Repeat("PacketData") /\ ~(packet.size > info.largest)
    <2>1. packet.size <= info.largest
        BY <1>4 DEF IInv, Types
    <2> QED BY <1>1, <1>2, <1>4, <2>1, Repeats DEF OtherStates
<1> QED BY <1>3, <1>4 DEF StartPacket

LEMMA DigestPacketStep ==
    ASSUME IInv, NEW understood \in BOOLEAN, DigestPacket(understood)
    PROVE  IInv'
<1>1. /\ calling /\ UNCHANGED <<file, info, parsed, packet>> /\ needParams' \in BOOLEAN
      /\ Fill("PacketHeader", HeaderSize["PacketHeader"])
      /\ \E r \in {"Worked", "Error"} : Return(r, Taken)
    BY DEF DigestPacket, In, written, headers
<1>2. ReadOK'
    BY <1>1, KeepsHeaders
<1> QED BY <1>1, <1>2, Leaves

LEMMA FailAgainStep ==
    ASSUME IInv, FailAgain
    PROVE  IInv'
<1>1. /\ calling /\ calling' = FALSE /\ result' = "Error" /\ demux = "FatalError"
      /\ UNCHANGED <<file, pos, given, avail, demux, need, got, info, parsed, packet, needParams>>
    BY DEF FailAgain, In, written, filling, headers
<1>2. Types'
    BY <1>1 DEF IInv, Types
<1>3. got' = <<>> /\ got = <<>> /\ Looked' = pos /\ pos \in Nat
    BY <1>1 DEF IInv, Types, NothingToFill, Looked
<1>4. HoldsTheLast'
    BY <1>3 DEF HoldsTheLast, Holds
<1> QED BY <1>1, <1>2, <1>3, <1>4
        DEF IInv, NothingToFill, StreamHeaderExpected, WithinBuffers, NothingMeansMore

LEMMA Inductive == IInv /\ [Next]_vars => IInv'
<1> SUFFICES ASSUME IInv, [Next]_vars PROVE IInv'
    OBVIOUS
<1>1. CASE UNCHANGED vars
    <2>1. UNCHANGED <<file, pos, given, avail, calling, result, demux, need, got, info, parsed,
                      packet, needParams>>
        BY <1>1 DEF vars, written, call, filling, headers
    <2>2. Looked' = Looked
        BY <2>1 DEF Looked
    <2>3. HoldsTheLast'
        BY <2>1, <2>2 DEF IInv, HoldsTheLast, Holds
    <2> QED BY <2>1, <2>3
            DEF IInv, Types, NothingToFill, StreamHeaderExpected, WithinBuffers, NothingMeansMore
<1>2. CASE \E k \in 1 .. MaxPiece : Feed(k)
    BY <1>2, FeedStep
<1>3. CASE ReadSome
    BY <1>3, ReadSomeStep
<1>4. CASE ReadMovieHeader
    BY <1>4, MovieHeaderStep
<1>5. CASE ReadVideoHeader
    BY <1>5, VideoHeaderStep
<1>6. CASE ReadAudioCommonHeader
    BY <1>6, AudioCommonHeaderStep
<1>7. CASE ReadAudioStreamHeader
    BY <1>7, AudioStreamHeaderStep
<1>8. CASE InitDecoding
    BY <1>8, InitDecodingStep
<1>9. CASE ReadPacketHeader
    BY <1>9, PacketHeaderStep
<1>10. CASE ReadPacketHeaderCompact \/ ReadPacketHeaderFull
    BY <1>10, RestOfHeaderStep
<1>11. CASE StartPacket
    BY <1>11, StartPacketStep
<1>12. CASE \E understood \in BOOLEAN : DigestPacket(understood)
    BY <1>12, DigestPacketStep
<1>13. CASE FailAgain
    BY <1>13, FailAgainStep
<1> QED BY <1>1, <1>2, <1>3, <1>4, <1>5, <1>6, <1>7, <1>8, <1>9, <1>10, <1>11, <1>12, <1>13
        DEF Next, Digest

-----------------------------------------------------------------------------
LEMMA LeastOf ==
    ASSUME NEW S \in SUBSET Nat, S # {}
    PROVE  \E x \in S : \A y \in S : ~(y < x)
<1>1. \E x \in S : \A y \in S : <<y, x>> \notin OpToRel(<, Nat)
    BY NatLessThanWellFounded, WFMin
<1> QED BY <1>1 DEF OpToRel

\* The first n of a sequence's elements one behind the other.
Steps(f, s, n) ==
    /\ f \in [1..n -> Seq(Nat)]
    /\ \A i \in 1..n : f[i] = IF i = 1 THEN s[i] ELSE f[i-1] \o s[i]

LEMMA ConcatInSeq ==
    ASSUME NEW s \in Seq(Nat), NEW t \in Seq(Nat)
    PROVE  s \o t \in Seq(Nat)
<1> QED BY ConcatProperties

LEMMA StepsExist ==
    ASSUME NEW s \in Seq(Seq(Nat)), NEW n \in 0 .. Len(s)
    PROVE  \E f : Steps(f, s, n)
<1> DEFINE Bad == {k \in 0 .. Len(s) : ~\E f : Steps(f, s, k)}
<1> SUFFICES ASSUME Bad # {} PROVE FALSE
    OBVIOUS
<1>0. Len(s) \in Nat
    BY LenProperties
<1>1. Bad \in SUBSET Nat
    BY <1>0
<1>2. PICK k \in Bad : \A y \in Bad : ~(y < k)
    <2> HIDE DEF Bad
    <2> QED BY <1>1, LeastOf
<1>3. k \in 0 .. Len(s) /\ ~\E f : Steps(f, s, k)
    OBVIOUS
<1>4. k # 0
    <2>1. Steps(<<>>, s, 0)
        <3>1. 1..0 = {} /\ <<>> \in [1..0 -> Seq(Nat)]
            OBVIOUS
        <3> QED BY <3>1 DEF Steps
    <2> QED BY <2>1, <1>3
<1>5. k - 1 \in 0 .. Len(s) /\ k - 1 < k
    BY <1>0, <1>3, <1>4
<1>14. k - 1 \notin Bad
    <2> HIDE DEF Bad
    <2> QED BY <1>2, <1>5
<1>6. PICK g : Steps(g, s, k - 1)
    BY <1>5, <1>14
<1> DEFINE f == [i \in 1..k |-> IF i = k THEN (IF k = 1 THEN s[k] ELSE g[k-1] \o s[k]) ELSE g[i]]
<1>7. k \in 1..Len(s) /\ s[k] \in Seq(Nat)
    BY <1>0, <1>3, <1>4, ElementOfSeq
<1>8. k # 1 => k - 1 \in 1..k-1 /\ g[k-1] \in Seq(Nat)
    BY <1>0, <1>6, <1>7 DEF Steps
<1>9. k # 1 => g[k-1] \o s[k] \in Seq(Nat)
    BY <1>7, <1>8, ConcatInSeq
<1>10. \A i \in 1..k : i # k => i \in 1..k-1
    BY <1>0, <1>7
<1>11. f \in [1..k -> Seq(Nat)]
    BY <1>6, <1>7, <1>9, <1>10 DEF Steps
<1>12. ASSUME NEW i \in 1..k PROVE f[i] = IF i = 1 THEN s[i] ELSE f[i-1] \o s[i]
    <2>1. CASE i = k
        <3>1. CASE k = 1
            BY <2>1, <3>1
        <3>2. CASE k # 1
            <4>1. k - 1 \in 1..k /\ k - 1 # k
                BY <1>0, <1>7, <3>2
            <4>2. f[k-1] = g[k-1]
                BY <4>1
            <4>3. k \in 1..k
                BY <1>0, <1>7
            <4>4. f[k] = g[k-1] \o s[k]
                BY <4>3, <3>2
            <4> HIDE DEF f
            <4> QED BY <2>1, <3>2, <4>2, <4>4
        <3> QED BY <3>1, <3>2
    <2>2. CASE i # k
        <3>1. i \in 1..k-1 /\ f[i] = g[i]
            BY <1>10, <2>2
        <3>2. g[i] = IF i = 1 THEN s[i] ELSE g[i-1] \o s[i]
            BY <3>1, <1>6 DEF Steps
        <3>3. CASE i = 1
            BY <3>1, <3>2, <3>3
        <3>4. CASE i # 1
            <4>1. i - 1 \in 1..k /\ i - 1 # k
                BY <1>0, <1>7, <3>1, <3>4
            <4>2. f[i-1] = g[i-1]
                BY <4>1
            <4> QED BY <3>1, <3>2, <3>4, <4>2
        <3> QED BY <3>3, <3>4
    <2> QED BY <2>1, <2>2
<1>13. Steps(f, s, k)
    <2> HIDE DEF f
    <2> QED BY <1>11, <1>12 DEF Steps
<1> QED BY <1>3, <1>13

\* There is but one way.
LEMMA StepsUnique ==
    ASSUME NEW s \in Seq(Seq(Nat)), NEW m \in 0 .. Len(s), NEW n \in m .. Len(s),
           NEW f, NEW g, Steps(f, s, m), Steps(g, s, n), NEW i \in 1 .. m
    PROVE  f[i] = g[i]
<1> DEFINE Bad == {k \in 1 .. m : f[k] # g[k]}
<1> SUFFICES ASSUME Bad # {} PROVE FALSE
    OBVIOUS
<1>0. Len(s) \in Nat /\ m \in Nat /\ n \in Nat /\ m <= n
    BY LenProperties
<1>1. Bad \in SUBSET Nat
    BY <1>0
<1>2. PICK k \in Bad : \A y \in Bad : ~(y < k)
    <2> HIDE DEF Bad
    <2> QED BY <1>1, LeastOf
<1>3. k \in 1 .. m /\ k \in 1 .. n /\ f[k] # g[k]
    BY <1>0
<1>4. /\ f[k] = IF k = 1 THEN s[k] ELSE f[k-1] \o s[k]
      /\ g[k] = IF k = 1 THEN s[k] ELSE g[k-1] \o s[k]
    BY <1>3 DEF Steps
<1>5. k # 1
    BY <1>3, <1>4
<1>6. k - 1 \in 1 .. m /\ k - 1 < k
    BY <1>0, <1>3, <1>5
<1>7. f[k-1] = g[k-1]
    BY <1>2, <1>6
<1> QED BY <1>3, <1>4, <1>7

LEMMA FlattenSteps ==
    ASSUME NEW s \in Seq(Seq(Nat)), Len(s) # 0
    PROVE  \E f : Steps(f, s, Len(s)) /\ FlattenSeq(s) = f[Len(s)]
<1> DEFINE n == Len(s)
           Def(f) == f = [i \in 1..n |-> IF i = 1 THEN s[i] ELSE f[i-1] \o s[i]]
           fl == CHOOSE f : Def(f)
<1>1. PICK f : Steps(f, s, n)
    BY StepsExist, LenProperties
<1>2. Def(f)
    BY <1>1 DEF Steps
<1>3. Def(fl)
    BY <1>2
<1>4. FlattenSeq(s) = fl[n]
    BY DEF FlattenSeq
<1>5. fl = [i \in 1..n |-> IF i = 1 THEN s[i] ELSE fl[i-1] \o s[i]]
    BY <1>3
<1> HIDE DEF fl
<1>6. \A i \in 1..n : fl[i] = IF i = 1 THEN s[i] ELSE fl[i-1] \o s[i]
    BY <1>5
<1>7. ASSUME NEW i \in 1..n PROVE fl[i] = f[i]
    <2> DEFINE Bad == {k \in 1..n : fl[k] # f[k]}
    <2> SUFFICES ASSUME Bad # {} PROVE FALSE
        OBVIOUS
    <2>1. Bad \in SUBSET Nat /\ n \in Nat
        BY LenProperties
    <2>2. PICK k \in Bad : \A y \in Bad : ~(y < k)
        <3> HIDE DEF Bad
        <3> QED BY <2>1, LeastOf
    <2>3. k \in 1..n /\ fl[k] # f[k]
        OBVIOUS
    <2>4. f[k] = IF k = 1 THEN s[k] ELSE f[k-1] \o s[k]
        BY <1>1, <2>3 DEF Steps
    <2>5. k # 1
        BY <1>6, <2>3, <2>4
    <2>6. k - 1 \in 1..n /\ k - 1 < k
        BY <2>1, <2>3, <2>5
    <2>7. k - 1 \notin Bad
        <3> HIDE DEF Bad
        <3> QED BY <2>2, <2>6
    <2>8. fl[k-1] = f[k-1]
        BY <2>6, <2>7
    <2> QED BY <1>6, <2>3, <2>4, <2>5, <2>8
<1>8. fl[n] = f[n]
    <2>1. n \in 1..n
        BY LenProperties
    <2> QED BY <1>7, <2>1
<1> QED BY <1>1, <1>4, <1>8

-----------------------------------------------------------------------------
(* The first n elements of a sequence of sequences, one behind the other.  *)
Flat(s, n) == FlattenSeq([k \in 1..n |-> s[k]])

LEMMA FirstOf ==
    ASSUME NEW s \in Seq(Seq(Nat)), NEW n \in 0 .. Len(s)
    PROVE  LET t == [k \in 1..n |-> s[k]] IN
           t \in Seq(Seq(Nat)) /\ Len(t) = n /\ \A k \in 1..n : t[k] = s[k]
<1> DEFINE t == [k \in 1..n |-> s[k]]
<1>1. n \in Nat /\ \A k \in 1..n : s[k] \in Seq(Nat)
    BY LenProperties, ElementOfSeq
<1>2. t \in [1..n -> Seq(Nat)]
    BY <1>1
<1>3. t \in Seq(Seq(Nat)) /\ Len(t) = n
    BY <1>1, <1>2
<1> QED BY <1>3

LEMMA FlatSteps ==
    ASSUME NEW s \in Seq(Seq(Nat)), NEW n \in 1 .. Len(s)
    PROVE  \E f : Steps(f, s, n) /\ Flat(s, n) = f[n]
<1> DEFINE t == [k \in 1..n |-> s[k]]
<1>1. n \in Nat /\ n # 0 /\ n \in 0 .. Len(s)
    BY LenProperties
<1>2. t \in Seq(Seq(Nat)) /\ Len(t) = n /\ \A k \in 1..n : t[k] = s[k]
    BY <1>1, FirstOf
<1>3. Flat(s, n) = FlattenSeq(t)
    BY DEF Flat
<1> HIDE DEF t
<1>4. PICK f : Steps(f, t, n) /\ FlattenSeq(t) = f[n]
    BY <1>1, <1>2, FlattenSteps
<1>5. Steps(f, s, n)
    BY <1>2, <1>4 DEF Steps
<1> QED BY <1>3, <1>4, <1>5

\* The next one comes at the end.
LEMMA FlatNext ==
    ASSUME NEW s \in Seq(Seq(Nat)), NEW n \in 1 .. Len(s)
    PROVE  /\ Flat(s, n - 1) \in Seq(Nat)
           /\ Flat(s, n) = Flat(s, n - 1) \o s[n]
<1>0. n \in Nat /\ Len(s) \in Nat /\ n # 0 /\ n \in 0 .. Len(s) /\ s[n] \in Seq(Nat)
    BY LenProperties, ElementOfSeq
<1>1. PICK g : Steps(g, s, n) /\ Flat(s, n) = g[n]
    BY FlatSteps
<1>5. n \in 1..n
    BY <1>0
<1>2. g[n] = IF n = 1 THEN s[n] ELSE g[n-1] \o s[n]
    BY <1>1, <1>5 DEF Steps
<1>3. CASE n = 1
    <2>1. Flat(s, 0) = <<>>
        <3> DEFINE e == [k \in 1..0 |-> s[k]]
        <3>1. e = <<>>
            OBVIOUS
        <3>2. FlattenSeq(<<>>) = <<>>
            BY EmptySeq DEF FlattenSeq
        <3> QED BY <3>1, <3>2 DEF Flat
    <2>2. <<>> \o s[n] = s[n] /\ <<>> \in Seq(Nat)
        BY <1>0, ConcatEmptySeq
    <2>3. n - 1 = 0 /\ Flat(s, n) = s[n]
        BY <1>1, <1>2, <1>3
    <2> QED BY <2>1, <2>2, <2>3
<1>4. CASE n # 1
    <2>1. n - 1 \in 1 .. Len(s) /\ n - 1 \in 0 .. Len(s) /\ n \in n - 1 .. Len(s) /\ n - 1 \in 1 .. n - 1
        BY <1>0, <1>4
    <2>2. PICK f : Steps(f, s, n - 1) /\ Flat(s, n - 1) = f[n - 1]
        BY <2>1, FlatSteps
    <2>3. f[n - 1] = g[n - 1]
        <3> DEFINE m == n - 1
        <3>1. /\ Steps(f, s, m) /\ Steps(g, s, n)
              /\ m \in 0 .. Len(s) /\ n \in m .. Len(s) /\ m \in 1 .. m
            BY <1>1, <2>1, <2>2
        <3> HIDE DEF m
        <3>2. f[m] = g[m]
            BY <3>1, StepsUnique
        <3> QED BY <3>2 DEF m
    <2>4. f[n - 1] \in Seq(Nat)
        BY <2>1, <2>2 DEF Steps
    <2> QED BY <1>1, <1>2, <1>4, <2>2, <2>3, <2>4
<1> QED BY <1>3, <1>4

-----------------------------------------------------------------------------
(* Sequences of cells.                                                     *)

LEMMA Concats ==
    ASSUME NEW s \in Seq(Nat), NEW t \in Seq(Nat)
    PROVE  /\ s \o t \in Seq(Nat)
           /\ Len(s \o t) = Len(s) + Len(t)
           /\ \A x \in 1 .. Len(s) : (s \o t)[x] = s[x]
           /\ \A x \in 1 .. Len(t) : (s \o t)[Len(s) + x] = t[x]
<1> DEFINE a == Len(s)
           b == Len(t)
<1>1. a \in Nat /\ b \in Nat
    BY LenProperties
<1>2. /\ s \o t \in Seq(Nat)
      /\ Len(s \o t) = a + b
      /\ \A i \in 1 .. a + b : (s \o t)[i] = IF i <= a THEN s[i] ELSE t[i - a]
    BY ConcatProperties, Zenon
<1> HIDE DEF a, b
<1>3. ASSUME NEW x \in 1 .. a PROVE (s \o t)[x] = s[x]
    <2>1. x \in 1 .. a + b /\ x <= a
        BY <1>1
    <2> QED BY <1>2, <2>1
<1>4. ASSUME NEW x \in 1 .. b PROVE (s \o t)[a + x] = t[x]
    <2>1. a + x \in 1 .. a + b /\ ~(a + x <= a) /\ (a + x) - a = x
        BY <1>1
    <2>2. (s \o t)[a + x] = IF a + x <= a THEN s[a + x] ELSE t[(a + x) - a]
        BY <1>2, <2>1
    <2> QED BY <2>1, <2>2
<1> QED BY <1>2, <1>3, <1>4 DEF a, b

LEMMA Piece ==
    ASSUME NEW s \in Seq(Nat), NEW a \in Nat, NEW n \in Nat, a + n <= Len(s)
    PROVE  /\ SubSeq(s, a + 1, a + n) \in Seq(Nat)
           /\ Len(SubSeq(s, a + 1, a + n)) = n
           /\ \A i \in 1 .. n : SubSeq(s, a + 1, a + n)[i] = s[a + i]
<1> DEFINE new == SubSeq(s, a + 1, a + n)
<1>1. \A i \in a + 1 .. a + n : s[i] \in Nat
    OBVIOUS
<1>2. /\ new \in Seq(Nat)
      /\ Len(new) = IF a + 1 <= a + n THEN (a + n) - (a + 1) + 1 ELSE 0
      /\ \A i \in 1 .. (a + n) - (a + 1) + 1 : new[i] = s[(a + 1) + i - 1]
    <2>1. a + 1 \in Int /\ a + n \in Int
        OBVIOUS
    <2> QED BY <1>1, <2>1, SubSeqProperties
<1> HIDE DEF new
<1>3. Len(new) = n /\ \A i \in 1 .. n : new[i] = s[a + i]
    BY <1>2
<1> QED BY <1>2, <1>3 DEF new

LEMMA SameCells ==
    ASSUME NEW s \in Seq(Nat), NEW t \in Seq(Nat), Len(s) = Len(t),
           \A x \in 1 .. Len(s) : s[x] = t[x]
    PROVE  s = t
<1> QED BY SeqEqual

-----------------------------------------------------------------------------
\* Where the k-th element of s is found among the first n.
Parts(s, n) ==
    /\ Flat(s, n) \in Seq(Nat)
    /\ \A k \in 1..n :
        /\ Flat(s, k - 1) \in Seq(Nat) /\ Flat(s, k) \in Seq(Nat)
        /\ Len(Flat(s, k)) = Len(Flat(s, k - 1)) + Len(s[k])
        /\ Len(Flat(s, k)) <= Len(Flat(s, n))
        /\ \A x \in 1 .. Len(s[k]) : Flat(s, n)[Len(Flat(s, k - 1)) + x] = s[k][x]

LEMMA FlatEmpty == \A s : Flat(s, 0) = <<>>
<1> SUFFICES ASSUME NEW s PROVE Flat(s, 0) = <<>>
    OBVIOUS
<1> DEFINE e == [k \in 1..0 |-> s[k]]
<1>1. e = <<>>
    OBVIOUS
<1>2. FlattenSeq(<<>>) = <<>>
    BY EmptySeq DEF FlattenSeq
<1> QED BY <1>1, <1>2 DEF Flat

LEMMA PartsNext ==
    ASSUME NEW s \in Seq(Seq(Nat)), NEW n \in 1 .. Len(s), Parts(s, n - 1)
    PROVE  Parts(s, n)
<1> DEFINE A == Flat(s, n - 1)
           B == Flat(s, n)
<1>0. n \in Nat /\ Len(s) \in Nat /\ s[n] \in Seq(Nat)
    BY LenProperties, ElementOfSeq
<1>1. A \in Seq(Nat) /\ B = A \o s[n]
    BY FlatNext
<1> HIDE DEF A, B
<1>2. /\ B \in Seq(Nat)
      /\ Len(B) = Len(A) + Len(s[n])
      /\ \A x \in 1 .. Len(A) : B[x] = A[x]
      /\ \A x \in 1 .. Len(s[n]) : B[Len(A) + x] = s[n][x]
    BY <1>0, <1>1, Concats
<1>3. Len(A) \in Nat /\ Len(s[n]) \in Nat /\ Len(A) <= Len(B) /\ Len(B) <= Len(B)
    <2>1. Len(A) \in Nat /\ Len(s[n]) \in Nat
        BY <1>0, <1>1, LenProperties
    <2> QED BY <1>2, <2>1
<1>4. ASSUME NEW k \in 1..n
      PROVE  /\ Flat(s, k - 1) \in Seq(Nat) /\ Flat(s, k) \in Seq(Nat)
             /\ Len(Flat(s, k)) = Len(Flat(s, k - 1)) + Len(s[k])
             /\ Len(Flat(s, k)) <= Len(B)
             /\ \A x \in 1 .. Len(s[k]) : B[Len(Flat(s, k - 1)) + x] = s[k][x]
    <2>1. CASE k = n
        <3>1. Flat(s, k - 1) = A /\ Flat(s, k) = B /\ s[k] = s[n]
            BY <2>1 DEF A, B
        <3> QED BY <1>1, <1>2, <1>3, <3>1
    <2>2. CASE k # n
        <3> DEFINE C == Flat(s, k - 1)
                   D == Flat(s, k)
        <3>1. k \in 1 .. n - 1 /\ s[k] \in Seq(Nat)
            BY <1>0, <2>2, ElementOfSeq
        <3>2. /\ C \in Seq(Nat) /\ D \in Seq(Nat)
              /\ Len(D) = Len(C) + Len(s[k])
              /\ Len(D) <= Len(A)
              /\ \A x \in 1 .. Len(s[k]) : A[Len(C) + x] = s[k][x]
            BY <3>1 DEF Parts, A
        <3> HIDE DEF C, D
        <3>3. Len(C) \in Nat /\ Len(D) \in Nat /\ Len(s[k]) \in Nat
            BY <3>1, <3>2, LenProperties
        <3>4. ASSUME NEW x \in 1 .. Len(s[k]) PROVE B[Len(C) + x] = s[k][x]
            <4>0. x \in Nat /\ 1 <= x /\ x <= Len(s[k])
                BY <3>3
            <4>2. \A la, lc, ld, lk \in Nat :
                    ld = lc + lk /\ ld <= la /\ x <= lk => lc + x \in 1 .. la
                BY <4>0
            <4>1. Len(C) + x \in 1 .. Len(A)
                BY <1>3, <3>2, <3>3, <4>0, <4>2
            <4> QED BY <1>2, <3>2, <4>1
        <3>5. Len(D) <= Len(B)
            <4>1. Len(B) \in Nat
                BY <1>2, LenProperties
            <4> QED BY <1>3, <3>2, <3>3, <4>1
        <3> QED BY <3>2, <3>4, <3>5 DEF C, D
    <2> QED BY <2>1, <2>2
<1> QED BY <1>2, <1>4 DEF Parts, B

LEMMA AllParts ==
    ASSUME NEW s \in Seq(Seq(Nat)), NEW n \in 0 .. Len(s)
    PROVE  Parts(s, n)
<1> DEFINE Bad == {k \in 0 .. Len(s) : ~Parts(s, k)}
<1> SUFFICES ASSUME Bad # {} PROVE FALSE
    OBVIOUS
<1>0. Len(s) \in Nat
    BY LenProperties
<1>1. Bad \in SUBSET Nat
    BY <1>0
<1>2. PICK k \in Bad : \A y \in Bad : ~(y < k)
    <2> HIDE DEF Bad
    <2> QED BY <1>1, LeastOf
<1>3. k \in 0 .. Len(s) /\ ~Parts(s, k)
    OBVIOUS
<1>4. Parts(s, 0)
    <2>1. Flat(s, 0) = <<>> /\ <<>> \in Seq(Nat) /\ 1..0 = {}
        BY FlatEmpty
    <2> QED BY <2>1 DEF Parts
<1>5. k # 0
    BY <1>3, <1>4
<1>6. k \in 1 .. Len(s) /\ k - 1 \in 0 .. Len(s) /\ k - 1 < k
    BY <1>0, <1>3, <1>5
<1>7. k - 1 \notin Bad
    <2> HIDE DEF Bad
    <2> QED BY <1>2, <1>6
<1>8. Parts(s, k - 1)
    BY <1>6, <1>7
<1> QED BY <1>3, <1>6, <1>8, PartsNext

LEMMA FlatAll ==
    ASSUME NEW s \in Seq(Seq(Nat))
    PROVE  FlattenSeq(s) = Flat(s, Len(s))
<1>1. s = [k \in 1..Len(s) |-> s[k]]
    BY LenProperties
<1> QED BY <1>1, Zenon DEF Flat

-----------------------------------------------------------------------------
(* Escaping is undone.                                                     *)
Escaped(s) == [i \in DOMAIN s |-> IF EndsStartCode(s, i) THEN <<s[i], Marker>> ELSE <<s[i]>>]
Kept(t) == [i \in DOMAIN t |->
        IF i >= 4 /\ SubSeq(t, i - 3, i) = Append(StartCode, Marker) THEN <<>> ELSE <<t[i]>>]

LEMMA ThreeCells ==
    ASSUME NEW s \in Seq(Nat), NEW i \in DOMAIN s
    PROVE  EndsStartCode(s, i) <=> i >= 3 /\ s[i-2] = 0 /\ s[i-1] = 0 /\ s[i] = 1
<1>1. i \in Nat /\ i <= Len(s) /\ Len(s) \in Nat
    BY LenProperties
<1>2. ASSUME i >= 3 PROVE SubSeq(s, i - 2, i) = StartCode <=> s[i-2] = 0 /\ s[i-1] = 0 /\ s[i] = 1
    <2> DEFINE a == i - 3
               c == SubSeq(s, a + 1, a + 3)
    <2>1. a \in Nat /\ a + 3 <= Len(s) /\ a + 1 = i - 2 /\ a + 2 = i - 1 /\ a + 3 = i
        BY <1>1, <1>2
    <2>2. SubSeq(s, i - 2, i) = c
        BY <2>1
    <2> HIDE DEF a
    <2>3. c \in Seq(Nat) /\ Len(c) = 3 /\ \A j \in 1 .. 3 : c[j] = s[a + j]
        BY <2>1, Piece
    <2> HIDE DEF c
    <2>4. c[1] = s[i-2] /\ c[2] = s[i-1] /\ c[3] = s[i]
        BY <2>1, <2>3
    <2>5. StartCode \in Seq(Nat) /\ Len(StartCode) = 3 /\ StartCode[1] = 0 /\ StartCode[2] = 0 /\ StartCode[3] = 1
        BY DEF StartCode
    <2>6. ASSUME c[1] = 0 /\ c[2] = 0 /\ c[3] = 1 PROVE c = StartCode
        <3>1. \A j \in 1 .. Len(c) : c[j] = StartCode[j]
            BY <2>3, <2>5, <2>6
        <3> QED BY <2>3, <2>5, <3>1, SameCells
    <2>7. c = StartCode => c[1] = 0 /\ c[2] = 0 /\ c[3] = 1
        BY <2>5
    <2> QED BY <2>2, <2>4, <2>6, <2>7
<1> QED BY <1>1, <1>2 DEF EndsStartCode

LEMMA FourCells ==
    ASSUME NEW t \in Seq(Nat), NEW i \in DOMAIN t
    PROVE  i >= 4 /\ SubSeq(t, i - 3, i) = Append(StartCode, Marker)
            <=> i >= 4 /\ t[i-3] = 0 /\ t[i-2] = 0 /\ t[i-1] = 1 /\ t[i] = Marker
<1>1. i \in Nat /\ i <= Len(t) /\ Len(t) \in Nat
    BY LenProperties
<1>2. ASSUME i >= 4
      PROVE  SubSeq(t, i - 3, i) = Append(StartCode, Marker)
                <=> t[i-3] = 0 /\ t[i-2] = 0 /\ t[i-1] = 1 /\ t[i] = Marker
    <2> DEFINE a == i - 4
               c == SubSeq(t, a + 1, a + 4)
               d == Append(StartCode, Marker)
    <2> HIDE DEF c, d
    <2>1. a \in Nat /\ a + 4 = i /\ a + 1 = i - 3
        BY <1>1, <1>2
    <2>8. a + 2 = i - 2 /\ a + 3 = i - 1 /\ a + 4 <= Len(t)
        BY <1>1, <1>2, <2>1
    <2>2. SubSeq(t, i - 3, i) = c
        BY <2>1 DEF c
    <2>3. d \in Seq(Nat) /\ Len(d) = 4 /\ d[1] = 0 /\ d[2] = 0 /\ d[3] = 1 /\ d[4] = Marker
        BY DEF StartCode, Marker, d
    <2> HIDE DEF a
    <2>4. c \in Seq(Nat) /\ Len(c) = 4 /\ \A j \in 1 .. 4 : c[j] = t[a + j]
        <3>1. a \in Nat /\ 4 \in Nat /\ a + 4 <= Len(t)
            BY <2>1, <2>8
        <3> QED BY <3>1, Piece, Zenon DEF c
    <2>5. c[1] = t[i-3] /\ c[2] = t[i-2] /\ c[3] = t[i-1] /\ c[4] = t[i]
        <3>1. c[1] = t[a + 1] /\ c[2] = t[a + 2] /\ c[3] = t[a + 3] /\ c[4] = t[a + 4]
            BY <2>4
        <3> QED BY <3>1, <2>1, <2>8, Zenon
    <2>6. ASSUME c[1] = 0 /\ c[2] = 0 /\ c[3] = 1 /\ c[4] = Marker PROVE c = d
        <3>1. \A j \in 1 .. Len(c) : c[j] = d[j]
            BY <2>3, <2>4, <2>6
        <3> QED BY <2>3, <2>4, <3>1, SameCells
    <2>7. c = d => c[1] = 0 /\ c[2] = 0 /\ c[3] = 1 /\ c[4] = Marker
        BY <2>3
    <2> QED BY <2>2, <2>5, <2>6, <2>7 DEF d
<1> QED BY <1>1, <1>2

-----------------------------------------------------------------------------
LEMMA SeqOfParts ==
    ASSUME NEW s \in Seq(Nat), NEW f(_), \A i \in 1 .. Len(s) : f(i) \in Seq(Nat)
    PROVE  LET e == [i \in DOMAIN s |-> f(i)] IN
           e \in Seq(Seq(Nat)) /\ Len(e) = Len(s) /\ \A i \in 1 .. Len(s) : e[i] = f(i)
<1> DEFINE e == [i \in DOMAIN s |-> f(i)]
<1>1. DOMAIN s = 1 .. Len(s) /\ Len(s) \in Nat
    BY LenProperties
<1>2. e \in [1 .. Len(s) -> Seq(Nat)]
    BY <1>1
<1>3. e \in Seq(Seq(Nat)) /\ Len(e) = Len(s)
    BY <1>1, <1>2
<1> QED BY <1>1, <1>3

LEMMA Ones == \A x, y \in Nat :
    /\ <<x>> \in Seq(Nat) /\ Len(<<x>>) = 1 /\ <<x>>[1] = x
    /\ <<x, y>> \in Seq(Nat) /\ Len(<<x, y>>) = 2 /\ <<x, y>>[1] = x /\ <<x, y>>[2] = y
<1> QED OBVIOUS

LEMMA EscapedCells ==
    ASSUME NEW s \in Seq(Nat)
    PROVE  /\ Escaped(s) \in Seq(Seq(Nat))
           /\ Len(Escaped(s)) = Len(s)
           /\ \A i \in 1 .. Len(s) :
                Escaped(s)[i] = IF EndsStartCode(s, i) THEN <<s[i], Marker>> ELSE <<s[i]>>
           /\ Escape(s) = Flat(Escaped(s), Len(s))
           /\ Escape(s) \in Seq(Nat)
<1> DEFINE f(i) == IF EndsStartCode(s, i) THEN <<s[i], Marker>> ELSE <<s[i]>>
<1>1. ASSUME NEW i \in 1 .. Len(s) PROVE f(i) \in Seq(Nat)
    <2>1. s[i] \in Nat /\ Marker \in Nat
        BY ElementOfSeq DEF Marker
    <2> QED BY <2>1, Ones
<1>2. Escaped(s) = [i \in DOMAIN s |-> f(i)]
    BY DEF Escaped
<1>3. /\ Escaped(s) \in Seq(Seq(Nat)) /\ Len(Escaped(s)) = Len(s)
      /\ \A i \in 1 .. Len(s) : Escaped(s)[i] = f(i)
    <2> HIDE DEF f
    <2> QED BY <1>1, <1>2, SeqOfParts
<1>4. Escape(s) = FlattenSeq(Escaped(s))
    BY DEF Escape, Escaped
<1>5. Escape(s) = Flat(Escaped(s), Len(s))
    BY <1>3, <1>4, FlatAll
<1>6. Escape(s) \in Seq(Nat)
    <2>1. Len(s) \in 0 .. Len(Escaped(s))
        BY <1>3, LenProperties
    <2> QED BY <1>3, <1>5, <2>1, AllParts DEF Parts
<1> QED BY <1>3, <1>5, <1>6

LEMMA KeptCells ==
    ASSUME NEW t \in Seq(Nat)
    PROVE  /\ Kept(t) \in Seq(Seq(Nat))
           /\ Len(Kept(t)) = Len(t)
           /\ \A i \in 1 .. Len(t) :
                Kept(t)[i] = IF i >= 4 /\ t[i-3] = 0 /\ t[i-2] = 0 /\ t[i-1] = 1 /\ t[i] = Marker
                             THEN <<>> ELSE <<t[i]>>
           /\ Unescape(t) = Flat(Kept(t), Len(t))
           /\ Unescape(t) \in Seq(Nat)
<1> DEFINE f(i) == IF i >= 4 /\ SubSeq(t, i - 3, i) = Append(StartCode, Marker) THEN <<>> ELSE <<t[i]>>
<1>1. ASSUME NEW i \in 1 .. Len(t) PROVE f(i) \in Seq(Nat)
    <2>1. t[i] \in Nat
        BY ElementOfSeq
    <2>2. <<t[i]>> \in Seq(Nat) /\ <<>> \in Seq(Nat)
        BY <2>1, Ones
    <2> QED BY <2>2
<1>2. Kept(t) = [i \in DOMAIN t |-> f(i)]
    BY DEF Kept
<1>3. /\ Kept(t) \in Seq(Seq(Nat)) /\ Len(Kept(t)) = Len(t)
      /\ \A i \in 1 .. Len(t) : Kept(t)[i] = f(i)
    <2> HIDE DEF f
    <2> QED BY <1>1, <1>2, SeqOfParts
<1>4. Unescape(t) = FlattenSeq(Kept(t))
    BY DEF Unescape, Kept
<1>5. Unescape(t) = Flat(Kept(t), Len(t))
    BY <1>3, <1>4, FlatAll
<1>6. Unescape(t) \in Seq(Nat)
    <2>1. Len(t) \in 0 .. Len(Kept(t))
        BY <1>3, LenProperties
    <2> QED BY <1>3, <1>5, <2>1, AllParts DEF Parts
<1>7. ASSUME NEW i \in 1 .. Len(t)
      PROVE  Kept(t)[i] = IF i >= 4 /\ t[i-3] = 0 /\ t[i-2] = 0 /\ t[i-1] = 1 /\ t[i] = Marker
                          THEN <<>> ELSE <<t[i]>>
    <2>1. i \in DOMAIN t
        BY LenProperties
    <2> QED BY <1>3, <2>1, FourCells
<1> QED BY <1>3, <1>5, <1>6, <1>7

\* The cells a byte is escaped to.
LEMMA EscapedAt ==
    ASSUME NEW s \in Seq(Nat), NEW k \in 1 .. Len(s)
    PROVE  LET a == Len(Flat(Escaped(s), k - 1))
               b == Len(Flat(Escaped(s), k))
               t == Escape(s)
           IN  /\ a \in Nat /\ b \in Nat /\ b <= Len(t)
               /\ t[a + 1] = s[k]
               /\ EndsStartCode(s, k) => b = a + 2 /\ t[a + 2] = Marker
               /\ ~EndsStartCode(s, k) => b = a + 1
<1> DEFINE e == Escaped(s)
           t == Escape(s)
           a == Len(Flat(e, k - 1))
           b == Len(Flat(e, k))
<1>1. /\ e \in Seq(Seq(Nat)) /\ Len(e) = Len(s)
      /\ e[k] = IF EndsStartCode(s, k) THEN <<s[k], Marker>> ELSE <<s[k]>>
      /\ t = Flat(e, Len(s))
    BY EscapedCells
<1>2. Len(s) \in Nat /\ Len(s) \in 0 .. Len(e) /\ s[k] \in Nat /\ Marker \in Nat
    BY <1>1, LenProperties, ElementOfSeq DEF Marker
<1> HIDE DEF e, t
<1>3. Parts(e, Len(s))
    BY <1>1, <1>2, AllParts
<1>4. /\ Flat(e, k - 1) \in Seq(Nat) /\ Flat(e, k) \in Seq(Nat)
      /\ b = a + Len(e[k]) /\ b <= Len(t)
      /\ \A x \in 1 .. Len(e[k]) : t[a + x] = e[k][x]
    BY <1>1, <1>3 DEF Parts
<1>5. a \in Nat /\ b \in Nat
    BY <1>4, LenProperties
<1> HIDE DEF a, b
<1>6. CASE EndsStartCode(s, k)
    <2>1. e[k] = <<s[k], Marker>>
        BY <1>1, <1>6
    <2>2. Len(e[k]) = 2 /\ e[k][1] = s[k] /\ e[k][2] = Marker
        BY <2>1, <1>2, Ones
    <2> QED BY <1>4, <1>5, <1>6, <2>2 DEF a, b, e, t
<1>7. CASE ~EndsStartCode(s, k)
    <2>1. e[k] = <<s[k]>>
        BY <1>1, <1>7
    <2>2. Len(e[k]) = 1 /\ e[k][1] = s[k]
        BY <2>1, <1>2, Ones
    <2> QED BY <1>4, <1>5, <1>7, <2>2 DEF a, b, e, t
<1> QED BY <1>6, <1>7

\* The first k bytes are escaped and come back, and end like their escaped form.
Undone(s, k) ==
    LET t == Escape(s)
        l == Len(Flat(Escaped(s), k))
    IN  /\ l \in Nat /\ l <= Len(t)
        /\ Flat(Kept(t), l) \in Seq(Nat)
        /\ Len(Flat(Kept(t), l)) = k
        /\ \A x \in 1 .. k : Flat(Kept(t), l)[x] = s[x]
        /\ k >= 1 /\ s[k] = 0 <=> l >= 1 /\ t[l] = 0
        /\ k >= 2 /\ s[k-1] = 0 /\ s[k] = 0 <=> l >= 2 /\ t[l-1] = 0 /\ t[l] = 0
        /\ ~(l >= 3 /\ t[l-2] = 0 /\ t[l-1] = 0 /\ t[l] = 1)

\* The cells of one byte of s, put back.
LEMMA BackAtByte ==
    ASSUME NEW t \in Seq(Nat), NEW a \in Nat, a + 1 <= Len(t),
           ~(a >= 3 /\ t[a-2] = 0 /\ t[a-1] = 0 /\ t[a] = 1)
    PROVE  /\ Flat(Kept(t), a) \in Seq(Nat)
           /\ Flat(Kept(t), a + 1) = Flat(Kept(t), a) \o <<t[a + 1]>>
<1> DEFINE i == a + 1
<1>1. i \in 1 .. Len(t) /\ i \in Nat /\ i - 1 = a /\ i - 2 = a - 1 /\ i - 3 = a - 2 /\ (i >= 4 => a >= 3)
    BY LenProperties
<1> HIDE DEF i
<1>2. Kept(t)[i] = <<t[i]>>
    BY <1>1, KeptCells
<1>3. Kept(t) \in Seq(Seq(Nat)) /\ i \in 1 .. Len(Kept(t))
    BY <1>1, KeptCells
<1>4. /\ Flat(Kept(t), i - 1) \in Seq(Nat)
      /\ Flat(Kept(t), i) = Flat(Kept(t), i - 1) \o Kept(t)[i]
    BY <1>3, FlatNext
<1> QED BY <1>1, <1>2, <1>4 DEF i

LEMMA BackAtMarker ==
    ASSUME NEW t \in Seq(Nat), NEW a \in Nat, a + 1 <= Len(t),
           a >= 3, t[a-2] = 0, t[a-1] = 0, t[a] = 1, t[a + 1] = Marker
    PROVE  Flat(Kept(t), a + 1) = Flat(Kept(t), a)
<1> DEFINE i == a + 1
<1>1. i \in 1 .. Len(t) /\ i \in Nat /\ i - 1 = a /\ i - 2 = a - 1 /\ i - 3 = a - 2 /\ i >= 4
    BY LenProperties
<1>2. t[i] = Marker
    OBVIOUS
<1> HIDE DEF i
<1>3. Kept(t)[i] = <<>>
    BY <1>1, <1>2, KeptCells
<1>4. Kept(t) \in Seq(Seq(Nat)) /\ i \in 1 .. Len(Kept(t))
    BY <1>1, KeptCells
<1>5. /\ Flat(Kept(t), i - 1) \in Seq(Nat)
      /\ Flat(Kept(t), i) = Flat(Kept(t), i - 1) \o Kept(t)[i]
    BY <1>4, FlatNext
<1>6. Flat(Kept(t), i - 1) \o <<>> = Flat(Kept(t), i - 1)
    BY <1>5, ConcatEmptySeq
<1> QED BY <1>1, <1>3, <1>5, <1>6 DEF i

-----------------------------------------------------------------------------
LEMMA UndoneNext ==
    ASSUME NEW s \in Seq(Nat), NEW k \in 1 .. Len(s), Undone(s, k - 1)
    PROVE  Undone(s, k)
<1> DEFINE t == Escape(s)
           a == Len(Flat(Escaped(s), k - 1))
           b == Len(Flat(Escaped(s), k))
           F(n) == Flat(Kept(t), n)
           ends == EndsStartCode(s, k)
           j == k - 1
<1>0. /\ Len(s) \in Nat /\ k \in Nat /\ k \in DOMAIN s /\ s[k] \in Nat
      /\ j \in Nat /\ j + 1 = k /\ k - 2 = j - 1 /\ k - 1 = j
    BY LenProperties, ElementOfSeq
<1>1. t \in Seq(Nat)
    BY EscapedCells
<1>2. /\ a \in Nat /\ b \in Nat /\ b <= Len(t)
      /\ t[a + 1] = s[k]
      /\ ends => b = a + 2 /\ t[a + 2] = Marker
      /\ ~ends => b = a + 1
    BY EscapedAt
<1>3. ends <=> k >= 3 /\ s[k-2] = 0 /\ s[k-1] = 0 /\ s[k] = 1
    BY <1>0, ThreeCells
<1>4. /\ F(a) \in Seq(Nat) /\ Len(F(a)) = j
      /\ \A x \in 1 .. j : F(a)[x] = s[x]
    BY DEF Undone
<1>5. /\ j >= 1 /\ s[j] = 0 <=> a >= 1 /\ t[a] = 0
      /\ j >= 2 /\ s[j-1] = 0 /\ s[j] = 0 <=> a >= 2 /\ t[a-1] = 0 /\ t[a] = 0
      /\ ~(a >= 3 /\ t[a-2] = 0 /\ t[a-1] = 0 /\ t[a] = 1)
    BY DEF Undone
<1> SUFFICES /\ b \in Nat /\ b <= Len(t)
             /\ F(b) \in Seq(Nat)
             /\ Len(F(b)) = k
             /\ \A x \in 1 .. k : F(b)[x] = s[x]
             /\ k >= 1 /\ s[k] = 0 <=> b >= 1 /\ t[b] = 0
             /\ k >= 2 /\ s[k-1] = 0 /\ s[k] = 0 <=> b >= 2 /\ t[b-1] = 0 /\ t[b] = 0
             /\ ~(b >= 3 /\ t[b-2] = 0 /\ t[b-1] = 0 /\ t[b] = 1)
    BY DEF Undone
<1> HIDE DEF t, a, b, F, ends, j
<1>6. Len(t) \in Nat /\ a + 1 <= Len(t)
    BY <1>1, <1>2, LenProperties
<1>7. F(a + 1) = F(a) \o <<t[a + 1]>>
    BY <1>1, <1>2, <1>5, <1>6, BackAtByte DEF F
<1>8. F(a + 1) = F(a) \o <<s[k]>>
    BY <1>2, <1>7
<1>9. /\ F(a + 1) \in Seq(Nat) /\ Len(F(a + 1)) = k
      /\ \A x \in 1 .. k : F(a + 1)[x] = s[x]
    <2>1. <<s[k]>> \in Seq(Nat) /\ Len(<<s[k]>>) = 1 /\ <<s[k]>>[1] = s[k]
        BY <1>0, Ones
    <2>2. /\ F(a + 1) \in Seq(Nat) /\ Len(F(a + 1)) = j + 1
          /\ \A x \in 1 .. j : F(a + 1)[x] = F(a)[x]
          /\ F(a + 1)[j + 1] = s[k]
        <3>1. 1 \in 1 .. 1
            OBVIOUS
        <3> DEFINE w == <<s[k]>>
        <3>2. w \in Seq(Nat) /\ Len(w) = 1 /\ w[1] = s[k] /\ F(a + 1) = F(a) \o w
            BY <1>8, <2>1
        <3> HIDE DEF w
        <3> DEFINE v == F(a)
        <3>3. v \in Seq(Nat) /\ Len(v) = j /\ F(a + 1) = v \o w /\ \A x \in 1 .. j : F(a)[x] = v[x]
            BY <1>4, <3>2
        <3> HIDE DEF v
        <3>4. /\ v \o w \in Seq(Nat) /\ Len(v \o w) = j + 1
              /\ \A x \in 1 .. j : (v \o w)[x] = v[x]
              /\ \A x \in 1 .. 1 : (v \o w)[j + x] = w[x]
            <4>1. /\ v \o w \in Seq(Nat) /\ Len(v \o w) = Len(v) + Len(w)
                  /\ \A x \in 1 .. Len(v) : (v \o w)[x] = v[x]
                  /\ \A x \in 1 .. Len(w) : (v \o w)[Len(v) + x] = w[x]
                BY <3>2, <3>3, Concats, Zenon
            <4> QED BY <3>2, <3>3, <4>1
        <3>5. (v \o w)[j + 1] = s[k]
            BY <3>1, <3>2, <3>4
        <3> QED BY <3>3, <3>4, <3>5
    <2>3. \A x \in 1 .. k : x \in 1 .. j \/ x = k
        BY <1>0
    <2> QED BY <1>0, <1>4, <2>2, <2>3
<1>10. CASE ends
    <2>0. b = a + 2 /\ t[a + 2] = Marker /\ j >= 2 /\ s[j-1] = 0 /\ s[j] = 0 /\ s[k] = 1 /\ t[a + 1] = 1
        BY <1>0, <1>2, <1>3, <1>10
    <2>1. a >= 2 /\ t[a-1] = 0 /\ t[a] = 0
        BY <1>5, <2>0
    <2> DEFINE c == a + 1
    <2>2. c \in Nat /\ c >= 3 /\ c + 1 = b /\ c + 1 <= Len(t) /\ t[c] = 1 /\ t[c - 1] = 0 /\ t[c - 2] = 0 /\ t[c + 1] = Marker
        <3>1. c - 1 = a /\ c - 2 = a - 1 /\ c + 1 = a + 2
            BY <1>2
        <3> QED BY <1>2, <2>0, <2>1, <3>1
    <2> HIDE DEF c
    <2>3. F(c + 1) = F(c)
        BY <1>1, <2>2, BackAtMarker DEF F
    <2>4. F(b) = F(a + 1)
        BY <2>2, <2>3 DEF c
    <2>5. t[b] = 254 /\ b >= 3 /\ s[k] = 1
        BY <1>2, <2>0, <2>2 DEF Marker
    <2> QED BY <1>2, <1>9, <2>4, <2>5
<1>11. CASE ~ends
    <2>0. b = a + 1 /\ F(b) = F(a + 1) /\ t[b] = s[k] /\ b - 1 = a /\ b - 2 = a - 1 /\ b >= 1 /\ k >= 1
        BY <1>0, <1>2, <1>11
    <2>1. (k >= 2 <=> j >= 1) /\ (k >= 3 <=> j >= 2) /\ (b >= 2 <=> a >= 1) /\ (b >= 3 <=> a >= 2)
        BY <1>0, <1>2, <2>0
    <2>2. k >= 1 /\ s[k] = 0 <=> b >= 1 /\ t[b] = 0
        BY <2>0
    <2>3. k >= 2 /\ s[k-1] = 0 /\ s[k] = 0 <=> b >= 2 /\ t[b-1] = 0 /\ t[b] = 0
        BY <1>0, <1>5, <2>0, <2>1
    <2>4. ~(b >= 3 /\ t[b-2] = 0 /\ t[b-1] = 0 /\ t[b] = 1)
        BY <1>0, <1>3, <1>5, <1>11, <2>0, <2>1
    <2> QED BY <1>2, <1>9, <2>0, <2>2, <2>3, <2>4
<1> QED BY <1>10, <1>11

LEMMA AllUndone ==
    ASSUME NEW s \in Seq(Nat), NEW n \in 0 .. Len(s)
    PROVE  Undone(s, n)
<1> DEFINE Bad == {k \in 0 .. Len(s) : ~Undone(s, k)}
<1> SUFFICES ASSUME Bad # {} PROVE FALSE
    OBVIOUS
<1>0. Len(s) \in Nat
    BY LenProperties
<1>1. Bad \in SUBSET Nat
    BY <1>0
<1>2. PICK k \in Bad : \A y \in Bad : ~(y < k)
    <2> HIDE DEF Bad
    <2> QED BY <1>1, LeastOf
<1>3. k \in 0 .. Len(s) /\ ~Undone(s, k)
    OBVIOUS
<1>4. Undone(s, 0)
    <2> DEFINE t == Escape(s)
    <2>1. /\ Flat(Escaped(s), 0) = <<>> /\ Flat(Kept(t), 0) = <<>>
          /\ Len(<<>>) = 0 /\ <<>> \in Seq(Nat)
        BY FlatEmpty
    <2>2. Len(t) \in Nat
        BY EscapedCells, LenProperties
    <2>3. Len(Flat(Escaped(s), 0)) = 0
        BY <2>1, Zenon
    <2>6. \A x \in 1 .. 0 : Flat(Kept(t), 0)[x] = s[x]
        OBVIOUS
    <2>7. Flat(Kept(t), 0) \in Seq(Nat) /\ Len(Flat(Kept(t), 0)) = 0
        BY <2>1, Zenon
    <2>4. /\ 0 <= Len(t) /\ Flat(Kept(t), 0) \in Seq(Nat) /\ Len(Flat(Kept(t), 0)) = 0
          /\ \A x \in 1 .. 0 : Flat(Kept(t), 0)[x] = s[x]
        BY <2>2, <2>6, <2>7
    <2> HIDE DEF t
    <2>5. /\ ~(0 >= 1) /\ ~(0 >= 2) /\ ~(0 >= 3) /\ 0 \in Nat
        OBVIOUS
    <2> QED BY <2>3, <2>4, <2>5 DEF Undone, t
<1>5. k # 0
    BY <1>3, <1>4
<1>6. k \in 1 .. Len(s) /\ k - 1 \in 0 .. Len(s) /\ k - 1 < k
    BY <1>0, <1>3, <1>5
<1>7. k - 1 \notin Bad
    <2> HIDE DEF Bad
    <2> QED BY <1>2, <1>6
<1>8. Undone(s, k - 1)
    BY <1>6, <1>7
<1> QED BY <1>3, <1>6, <1>8, UndoneNext

\* UnescapePacket gives back every packet that lwmGenerateEscapedBytes escaped,
\* whatever bytes are in it, its own markers included.
THEOREM EscapingIsUndone == \A s \in Seq(Nat) : Unescape(Escape(s)) = s
<1> SUFFICES ASSUME NEW s \in Seq(Nat) PROVE Unescape(Escape(s)) = s
    OBVIOUS
<1> DEFINE n == Len(s)
           e == Escaped(s)
           t == Escape(s)
<1>1. n \in Nat /\ n \in 0 .. n
    BY LenProperties
<1>2. /\ t \in Seq(Nat) /\ t = Flat(e, n)
    BY EscapedCells
<1>3. Undone(s, n)
    BY <1>1, AllUndone
<1>4. /\ Flat(Kept(t), Len(t)) \in Seq(Nat)
      /\ Len(Flat(Kept(t), Len(t))) = n
      /\ \A x \in 1 .. n : Flat(Kept(t), Len(t))[x] = s[x]
    BY <1>2, <1>3 DEF Undone
<1>5. Unescape(t) = Flat(Kept(t), Len(t))
    BY <1>2, KeptCells
<1> HIDE DEF t
<1>6. Flat(Kept(t), Len(t)) = s
    BY <1>4, SameCells
<1> QED BY <1>5, <1>6 DEF t

-----------------------------------------------------------------------------
(* A packet in a file.                                                     *)
LEMMA SmallModulo == \A x, y \in Nat : x < y => x % y = x
<1> QED OBVIOUS

LEMMA Halves == \A n \in Nat : (2 * n + 1) % 2 = 1 /\ (2 * n + 1) \div 2 = n
<1> QED OBVIOUS

LEMMA FlagBits ==
    \A type \in 1 .. 6 :
        /\ ~Has(type, FlagCompact) /\ ~Has(type, FlagEscaped) /\ TypeOf(type) = type
        /\ Has(type + 32, FlagCompact) /\ ~Has(type + 32, FlagEscaped) /\ TypeOf(type + 32) = type
        /\ ~Has(type + 128, FlagCompact) /\ Has(type + 128, FlagEscaped) /\ TypeOf(type + 128) = type
        /\ Has(type + 128 + 32, FlagCompact) /\ Has(type + 128 + 32, FlagEscaped) /\ TypeOf(type + 128 + 32) = type
<1> QED BY DEF Has, TypeOf, FlagCompact, FlagEscaped

Packets == [type : 1 .. 6, stream : Nat, data : Seq(Nat) \ {<<>>}]

LEMMA EscapedHasData ==
    ASSUME NEW s \in Seq(Nat), s # <<>>
    PROVE  Escape(s) \in Seq(Nat) /\ Len(Escape(s)) \in Nat \ {0}
<1>1. Escape(s) \in Seq(Nat) /\ Len(Escape(s)) \in Nat
    BY EscapedCells, LenProperties
<1>2. 1 \in 1 .. Len(s)
    BY LenProperties, EmptySeq
<1>3. \E a, b \in Nat : b <= Len(Escape(s)) /\ (b = a + 2 \/ b = a + 1)
    <2> DEFINE a == Len(Flat(Escaped(s), 1 - 1))
               b == Len(Flat(Escaped(s), 1))
    <2>1. /\ a \in Nat /\ b \in Nat /\ b <= Len(Escape(s))
          /\ EndsStartCode(s, 1) => b = a + 2
          /\ ~EndsStartCode(s, 1) => b = a + 1
        BY <1>2, EscapedAt
    <2> HIDE DEF a, b
    <2> QED BY <2>1
<1> QED BY <1>1, <1>3

LEMMA StoredCells ==
    ASSUME NEW p \in Packets
    PROVE  /\ Stored(p) \in Seq(Nat)
           /\ Len(Stored(p)) \in Nat \ {0}
           /\ Flags(p) \in {p.type, p.type + 128}
           /\ Flags(p) = p.type => Stored(p) = p.data
           /\ Flags(p) = p.type + 128 => Stored(p) = Escape(p.data)
<1>1. p.type \in 1 .. 6 /\ p.data \in Seq(Nat) /\ p.data # <<>> /\ Len(p.data) \in Nat \ {0}
    <2>1. p.type \in 1 .. 6 /\ p.data \in Seq(Nat) /\ p.data # <<>>
        BY DEF Packets
    <2> QED BY <2>1, LenProperties, EmptySeq
<1>2. Escape(p.data) \in Seq(Nat) /\ Len(Escape(p.data)) \in Nat \ {0}
    BY <1>1, EscapedHasData
<1>3. Stored(p) = Escape(p.data) \/ Stored(p) = p.data
    BY DEF Stored
<1>4. Stored(p) \in Seq(Nat) /\ Len(Stored(p)) \in Nat \ {0}
    BY <1>1, <1>2, <1>3
<1>5. CASE Stored(p) = p.data
    <2>1. Flags(p) = p.type
        BY <1>1, <1>5 DEF Flags
    <2> QED BY <1>1, <1>4, <1>5, <2>1
<1>6. CASE Stored(p) # p.data
    <2>1. Flags(p) = p.type + 128
        BY <1>1, <1>6 DEF Flags, FlagEscaped
    <2> QED BY <1>1, <1>3, <1>4, <1>6, <2>1
<1> QED BY <1>5, <1>6

IsCompact(p) == Len(Stored(p)) < CompactLimit /\ p.stream = 0
HeaderOf(p) == IF IsCompact(p)
               THEN <<1, Flags(p) + FlagCompact, CompactSize(Len(Stored(p)))>>
               ELSE <<1, Flags(p), Len(Stored(p)), p.stream>>

LEMMA Copied ==
    ASSUME NEW p \in Packets
    PROVE  LET h == HeaderOf(p) IN
           /\ CopyPacket(p) \in Seq(Nat)
           /\ h \in Seq(Nat) /\ Len(h) = (IF IsCompact(p) THEN 3 ELSE 4)
           /\ Len(CopyPacket(p)) = Len(h) + Len(Stored(p))
           /\ \A x \in 1 .. Len(h) : CopyPacket(p)[x] = h[x]
           /\ \A x \in 1 .. Len(Stored(p)) : CopyPacket(p)[Len(h) + x] = Stored(p)[x]
           /\ IsCompact(p) => CompactSize(Len(Stored(p))) = 2 * Len(Stored(p)) + 1
<1> DEFINE h == HeaderOf(p)
           size == Len(Stored(p))
<1>1. /\ Stored(p) \in Seq(Nat) /\ size \in Nat /\ p.stream \in Nat /\ p.type \in 1 .. 6
      /\ Flags(p) \in {p.type, p.type + 128}
    BY StoredCells DEF Packets
<1>2. Flags(p) \in Nat /\ Flags(p) + FlagCompact \in Nat /\ CompactLimit \in Nat /\ CompactLimit # 0
    BY <1>1, FramingAssumption DEF FlagCompact
<1>3. size < CompactLimit => CompactSize(size) = 2 * size + 1
    <2>1. ASSUME size < CompactLimit PROVE (2 * size) % (2 * CompactLimit) = 2 * size
        <3>1. 2 * size \in Nat /\ 2 * CompactLimit \in Nat /\ 2 * size < 2 * CompactLimit
            BY <1>1, <1>2, <2>1
        <3> QED BY <3>1, SmallModulo
    <2> QED BY <2>1 DEF CompactSize
<1>4. h \in Seq(Nat) /\ Len(h) = (IF IsCompact(p) THEN 3 ELSE 4)
    <2>1. CASE IsCompact(p)
        <3>1. CompactSize(size) \in Nat
            BY <1>1, <1>3, <2>1 DEF IsCompact
        <3> QED BY <1>1, <1>2, <2>1, <3>1 DEF HeaderOf
    <2>2. CASE ~IsCompact(p)
        BY <1>1, <1>2, <2>2 DEF HeaderOf
    <2> QED BY <2>1, <2>2
<1>5. CopyPacket(p) = h \o Stored(p)
    BY DEF CopyPacket, HeaderOf, IsCompact
<1> HIDE DEF h
<1>6. /\ h \o Stored(p) \in Seq(Nat)
      /\ Len(h \o Stored(p)) = Len(h) + Len(Stored(p))
      /\ \A x \in 1 .. Len(h) : (h \o Stored(p))[x] = h[x]
      /\ \A x \in 1 .. Len(Stored(p)) : (h \o Stored(p))[Len(h) + x] = Stored(p)[x]
    BY <1>1, <1>4, Concats, Zenon
<1> QED BY <1>3, <1>4, <1>5, <1>6 DEF h, IsCompact

-----------------------------------------------------------------------------
(* The parts of a file.                                                    *)

Cells(m) == [i \in DOMAIN m.packets |-> CopyPacket(m.packets[i])]

LEMMA PacketsOf ==
    ASSUME NEW m \in Movies
    PROVE  /\ m.packets \in Seq(Packets) /\ Len(m.packets) \in Nat
           /\ DOMAIN m.packets = 1 .. Len(m.packets)
           /\ \A k \in 1 .. Len(m.packets) : m.packets[k] \in Packets
<1>1. m.packets \in Seq(Packets)
    BY MoviesAssumption DEF CanBeMuxed, Packets
<1> QED BY <1>1, LenProperties, ElementOfSeq

LEMMA CellsOf ==
    ASSUME NEW m \in Movies
    PROVE  /\ Cells(m) \in Seq(Seq(Nat)) /\ Len(Cells(m)) = Len(m.packets)
           /\ \A k \in 1 .. Len(m.packets) : Cells(m)[k] = CopyPacket(m.packets[k])
<1>1. /\ Len(m.packets) \in Nat /\ DOMAIN m.packets = 1 .. Len(m.packets)
      /\ \A k \in 1 .. Len(m.packets) : m.packets[k] \in Packets
    BY PacketsOf
<1>2. \A k \in 1 .. Len(m.packets) : CopyPacket(m.packets[k]) \in Seq(Nat)
    BY <1>1, Copied
<1>3. Cells(m) \in [1 .. Len(m.packets) -> Seq(Nat)]
    BY <1>1, <1>2 DEF Cells
<1>4. Cells(m) \in Seq(Seq(Nat)) /\ Len(Cells(m)) = Len(m.packets)
    BY <1>1, <1>3
<1> QED BY <1>1, <1>4 DEF Cells

LEMMA EndsOf ==
    ASSUME NEW m \in Movies, NEW i \in 0 .. Len(m.packets)
    PROVE  EndOf(m, i) = Len(WriteHeaders(m)) + Len(Flat(Cells(m), i))
<1>1. \A k \in 1 .. i : k \in 1 .. Len(m.packets)
    BY PacketsOf
<1>2. [k \in 1 .. i |-> CopyPacket(m.packets[k])] = [k \in 1 .. i |-> Cells(m)[k]]
    BY <1>1, CellsOf
<1> QED BY <1>2 DEF EndOf, Flat

LEMMA WrittenIs ==
    ASSUME NEW m \in Movies
    PROVE  Written(m) = WriteHeaders(m) \o Flat(Cells(m), Len(m.packets))
<1>1. Cells(m) \in Seq(Seq(Nat)) /\ Len(Cells(m)) = Len(m.packets)
    BY CellsOf
<1>2. FlattenSeq(Cells(m)) = Flat(Cells(m), Len(m.packets))
    BY <1>1, FlatAll
<1> QED BY <1>2 DEF Written, Cells

-----------------------------------------------------------------------------
LEMMA Greatest ==
    ASSUME NEW N \in Nat, NEW g \in [1 .. N -> Nat]
    PROVE  \E n \in {g[i] : i \in 1 .. N} \cup {0} : \A i \in 1 .. N : g[i] <= n
<1> DEFINE UpTo(j) == \E n \in {g[i] : i \in 1 .. j} \cup {0} : \A i \in 1 .. j : g[i] <= n
           Bad == {j \in 0 .. N : ~UpTo(j)}
<1> SUFFICES ASSUME Bad # {} PROVE FALSE
    <2>1. Bad = {} => UpTo(N)
        <3>1. N \in 0 .. N
            OBVIOUS
        <3> HIDE DEF UpTo
        <3> QED BY <3>1
    <2> QED BY <2>1
<1>1. Bad \in SUBSET Nat
    OBVIOUS
<1>2. PICK k \in Bad : \A y \in Bad : ~(y < k)
    <2> HIDE DEF Bad
    <2> QED BY <1>1, LeastOf
<1>3. k \in 0 .. N /\ ~UpTo(k)
    OBVIOUS
<1>4. UpTo(0)
    OBVIOUS
<1>5. k # 0
    <2> HIDE DEF UpTo
    <2> QED BY <1>3, <1>4
<1>6. k \in 1 .. N /\ k - 1 \in 0 .. N /\ k - 1 < k
    BY <1>3, <1>5
<1>7. k - 1 \notin Bad
    <2> HIDE DEF Bad
    <2> QED BY <1>2, <1>6
<1>8. UpTo(k - 1)
    <2> HIDE DEF UpTo
    <2> QED BY <1>6, <1>7
<1>9. PICK n \in {g[i] : i \in 1 .. k - 1} \cup {0} : \A i \in 1 .. k - 1 : g[i] <= n
    BY <1>8
<1>10. n \in Nat /\ g[k] \in Nat /\ \A i \in 1 .. k - 1 : i \in 1 .. N /\ i \in 1 .. k
    BY <1>6
<1>11. \A i \in 1 .. k : i \in 1 .. k - 1 \/ i = k
    BY <1>6
<1>12. n \in {g[i] : i \in 1 .. k} \cup {0}
    BY <1>10
<1>13. k \in 1 .. k
    BY <1>6
<1>14. g[k] \in {g[i] : i \in 1 .. k} \cup {0}
    BY <1>13
<1>15. CASE g[k] <= n
    <2>1. \A i \in 1 .. k : g[i] <= n
        BY <1>9, <1>11, <1>15
    <2> QED BY <1>3, <1>12, <2>1
<1>16. CASE ~(g[k] <= n)
    <2>1. \A i \in 1 .. k - 1 : g[i] \in Nat
        BY <1>10
    <2>2. \A i \in 1 .. k : g[i] <= g[k]
        BY <1>9, <1>10, <1>11, <1>16, <2>1
    <2> QED BY <1>3, <1>14, <2>2
<1> QED BY <1>15, <1>16

LEMMA Largest ==
    ASSUME NEW m \in Movies
    PROVE  /\ LargestPacketSize(m) \in Nat
           /\ \A i \in 1 .. Len(m.packets) : Len(Stored(m.packets[i])) <= LargestPacketSize(m)
           /\ Len(m.packets) = 0 <=> LargestPacketSize(m) = 0
<1> DEFINE N == Len(m.packets)
           g == [i \in 1 .. N |-> Len(Stored(m.packets[i]))]
           sizes == {Len(Stored(m.packets[i])) : i \in DOMAIN m.packets}
<1>1. N \in Nat /\ DOMAIN m.packets = 1 .. N /\ \A i \in 1 .. N : Len(Stored(m.packets[i])) \in Nat \ {0}
    BY PacketsOf, StoredCells
<1>2. g \in [1 .. N -> Nat]
    BY <1>1
<1>3. sizes = {g[i] : i \in 1 .. N}
    BY <1>1
<1>4. \A i \in 1 .. N : g[i] = Len(Stored(m.packets[i]))
    OBVIOUS
<1> HIDE DEF g
<1>5. \E n \in sizes \cup {0} : \A k \in sizes : k <= n
    <2>1. PICK n \in {g[i] : i \in 1 .. N} \cup {0} : \A i \in 1 .. N : g[i] <= n
        BY <1>1, <1>2, Greatest
    <2> QED BY <1>3, <2>1
<1>6. LargestPacketSize(m) \in sizes \cup {0} /\ \A k \in sizes : k <= LargestPacketSize(m)
    BY <1>5 DEF LargestPacketSize
<1>7. \A i \in 1 .. N : Len(Stored(m.packets[i])) \in sizes
    BY <1>1
<1>8. CASE N = 0
    BY <1>1, <1>6, <1>8
<1>9. CASE N # 0
    <2>1. 1 \in 1 .. N
        BY <1>1, <1>9
    <2>2. Len(Stored(m.packets[1])) <= LargestPacketSize(m) /\ Len(Stored(m.packets[1])) \in Nat \ {0}
        BY <1>1, <1>6, <1>7, <2>1
    <2>3. LargestPacketSize(m) \in Nat
        BY <1>1, <1>6
    <2> QED BY <1>6, <1>7, <1>9, <2>2, <2>3
<1> QED BY <1>8, <1>9

-----------------------------------------------------------------------------
VideoCells(m) == IF m.video = NoVideo THEN 0 ELSE 1
AudioType(m) == IF m.streams = 0 THEN NoAudio ELSE MP2

LEMMA HeadersOf ==
    ASSUME NEW m \in Movies
    PROVE  LET w == WriteHeaders(m)
               v == VideoCells(m)
           IN  /\ w \in Seq(Nat)
               /\ Len(w) = 4 + v + IF m.streams = 0 THEN 0 ELSE 1 + m.streams
               /\ w[1] = 1 /\ w[2] = m.video /\ w[3] = AudioType(m)
               /\ w[4] = LargestPacketSize(m)
               /\ m.video # NoVideo => w[5] = 1
               /\ m.streams # 0 => /\ w[4 + v + 1] = m.streams
                                   /\ \A i \in 1 .. m.streams : w[5 + v + i] = 1
<1> DEFINE A == <<1, m.video, AudioType(m), LargestPacketSize(m)>>
           B == IF m.video = NoVideo THEN <<>> ELSE <<1>>
           one == [i \in 1 .. m.streams |-> 1]
           C == IF m.streams = 0 THEN <<>> ELSE <<m.streams>> \o one
           v == VideoCells(m)
           w == WriteHeaders(m)
<1>1. w = A \o B \o C
    BY DEF WriteHeaders, AudioType
<1>2. m.video \in Nat /\ m.streams \in Nat /\ LargestPacketSize(m) \in Nat /\ AudioType(m) \in Nat
    BY MoviesAssumption, Largest DEF CanBeMuxed, AudioType, NumVideoTypes, NoAudio, MP2
<1>3. A \in Seq(Nat) /\ Len(A) = 4 /\ A[1] = 1 /\ A[2] = m.video /\ A[3] = AudioType(m) /\ A[4] = LargestPacketSize(m)
    BY <1>2
<1>4. B \in Seq(Nat) /\ Len(B) = v /\ v \in {0, 1} /\ (m.video # NoVideo => v = 1 /\ B[1] = 1)
    BY DEF VideoCells
<1>5. one \in Seq(Nat) /\ Len(one) = m.streams /\ \A i \in 1 .. m.streams : one[i] = 1
    BY <1>2
<1>6. <<m.streams>> \in Seq(Nat) /\ Len(<<m.streams>>) = 1 /\ <<m.streams>>[1] = m.streams
    BY <1>2, Ones
<1> HIDE DEF one
<1>7. /\ C \in Seq(Nat) /\ Len(C) = IF m.streams = 0 THEN 0 ELSE 1 + m.streams
      /\ m.streams # 0 => /\ C[1] = m.streams
                          /\ \A i \in 1 .. m.streams : C[1 + i] = 1
    <2>1. CASE m.streams = 0
        BY <2>1
    <2>2. CASE m.streams # 0
        <3> DEFINE D == <<m.streams>>
        <3>1. D \in Seq(Nat) /\ Len(D) = 1 /\ D[1] = m.streams /\ C = D \o one /\ 1 \in 1 .. 1
            BY <1>6, <2>2
        <3> HIDE DEF D, C
        <3>2. /\ D \o one \in Seq(Nat)
              /\ Len(D \o one) = Len(D) + Len(one)
              /\ \A x \in 1 .. Len(D) : (D \o one)[x] = D[x]
              /\ \A x \in 1 .. Len(one) : (D \o one)[Len(D) + x] = one[x]
            BY <1>5, <3>1, Concats, Zenon
        <3> QED BY <1>5, <2>2, <3>1, <3>2
    <2> QED BY <2>1, <2>2
<1> HIDE DEF A, B, C
<1>8. /\ A \o B \in Seq(Nat)
      /\ Len(A \o B) = Len(A) + Len(B)
      /\ \A x \in 1 .. Len(A) : (A \o B)[x] = A[x]
      /\ \A x \in 1 .. Len(B) : (A \o B)[Len(A) + x] = B[x]
    BY <1>3, <1>4, Concats, Zenon
<1> DEFINE E == A \o B
<1>9. /\ E \in Seq(Nat) /\ Len(E) = 4 + v
      /\ E[1] = 1 /\ E[2] = m.video /\ E[3] = AudioType(m) /\ E[4] = LargestPacketSize(m)
      /\ m.video # NoVideo => E[5] = 1
    <2>1. E[1] = A[1] /\ E[2] = A[2] /\ E[3] = A[3] /\ E[4] = A[4]
        BY <1>3, <1>8
    <2>2. m.video # NoVideo => E[5] = 1
        <3>1. 1 \in 1 .. 1 /\ 4 + 1 = 5
            OBVIOUS
        <3> QED BY <1>3, <1>4, <1>8, <3>1
    <2> QED BY <1>3, <1>4, <1>8, <2>1, <2>2
<1> HIDE DEF E
<1>10. /\ E \o C \in Seq(Nat)
       /\ Len(E \o C) = Len(E) + Len(C)
       /\ \A x \in 1 .. Len(E) : (E \o C)[x] = E[x]
       /\ \A x \in 1 .. Len(C) : (E \o C)[Len(E) + x] = C[x]
    BY <1>7, <1>9, Concats, Zenon
<1>11. w = E \o C
    BY <1>1 DEF E
<1> HIDE DEF w, v
<1>12. w[1] = 1 /\ w[2] = m.video /\ w[3] = AudioType(m) /\ w[4] = LargestPacketSize(m)
    <2>1. 1 \in 1 .. Len(E) /\ 2 \in 1 .. Len(E) /\ 3 \in 1 .. Len(E) /\ 4 \in 1 .. Len(E)
        BY <1>4, <1>9
    <2> QED BY <1>9, <1>10, <1>11, <2>1
<1>13. m.video # NoVideo => w[5] = 1
    <2>1. m.video # NoVideo => 5 \in 1 .. Len(E)
        BY <1>4, <1>9
    <2> QED BY <1>9, <1>10, <1>11, <2>1
<1>14. ASSUME m.streams # 0
       PROVE  /\ w[4 + v + 1] = m.streams
              /\ \A i \in 1 .. m.streams : w[5 + v + i] = 1
    <2>1. Len(C) = 1 + m.streams /\ 1 \in 1 .. Len(C)
        BY <1>2, <1>7, <1>14
    <2>2. w[4 + v + 1] = m.streams
        BY <1>7, <1>9, <1>10, <1>11, <1>14, <2>1
    <2>3. ASSUME NEW i \in 1 .. m.streams PROVE w[5 + v + i] = 1
        <3>1. 1 + i \in 1 .. Len(C) /\ 4 + v + (1 + i) = 5 + v + i
            BY <1>2, <1>4, <2>1
        <3> QED BY <1>7, <1>9, <1>10, <1>11, <1>14, <3>1
    <2> QED BY <2>2, <2>3
<1>15. w \in Seq(Nat) /\ Len(w) = 4 + v + IF m.streams = 0 THEN 0 ELSE 1 + m.streams
    BY <1>7, <1>9, <1>10, <1>11
<1> QED BY <1>12, <1>13, <1>14, <1>15 DEF w, v

-----------------------------------------------------------------------------
LEMMA EndsGrow ==
    ASSUME NEW m \in Movies, NEW n \in 0 .. Len(m.packets)
    PROVE  /\ EndOf(m, n) \in Nat
           /\ EndOf(m, 0) = Len(WriteHeaders(m))
           /\ \A k \in 0 .. n : EndOf(m, k) \in Nat /\ EndOf(m, k) <= EndOf(m, n)
<1> DEFINE e == Cells(m)
           l(k) == Len(Flat(e, k))
           h == Len(WriteHeaders(m))
<1>1. e \in Seq(Seq(Nat)) /\ Len(e) = Len(m.packets) /\ Len(e) \in Nat /\ n \in 0 .. Len(e) /\ n \in Nat
    BY CellsOf, PacketsOf
<1> HIDE DEF e
<1>2. Parts(e, n)
    BY <1>1, AllParts
<1>3. Flat(e, n) \in Seq(Nat) /\ \A k \in 1 .. n : Flat(e, k) \in Seq(Nat) /\ l(k) <= l(n)
    BY <1>2 DEF Parts
<1>4. l(n) \in Nat /\ \A k \in 1 .. n : l(k) \in Nat
    BY <1>3, LenProperties
<1>5. l(0) = 0
    BY FlatEmpty
<1>6. h \in Nat
    BY HeadersOf, LenProperties
<1>7. \A k \in 0 .. n : EndOf(m, k) = h + l(k)
    <2>1. \A k \in 0 .. n : k \in 0 .. Len(m.packets)
        BY <1>1
    <2> QED BY <2>1, EndsOf DEF e
<1> HIDE DEF l, h
<1>8. 0 \in 0 .. n /\ n \in 0 .. n /\ \A k \in 0 .. n : k = 0 \/ k \in 1 .. n
    BY <1>1
<1>9. EndOf(m, 0) = h
    BY <1>5, <1>6, <1>7, <1>8
<1>10. ASSUME NEW k \in 0 .. n PROVE EndOf(m, k) \in Nat /\ EndOf(m, k) <= EndOf(m, n)
    <2>1. EndOf(m, k) = h + l(k) /\ EndOf(m, n) = h + l(n)
        BY <1>7, <1>8
    <2>2. l(k) \in Nat /\ l(k) <= l(n)
        BY <1>3, <1>4, <1>5, <1>8
    <2> QED BY <1>4, <1>6, <2>1, <2>2
<1> QED BY <1>8, <1>9, <1>10 DEF h

LEMMA WrittenAt ==
    ASSUME NEW m \in Movies
    PROVE  /\ Written(m) \in Seq(Nat) /\ Len(Written(m)) = EndOf(m, Len(m.packets))
           /\ \A x \in 1 .. Len(WriteHeaders(m)) : Written(m)[x] = WriteHeaders(m)[x]
           /\ \A k \in 1 .. Len(m.packets) :
                /\ EndOf(m, k) = EndOf(m, k - 1) + Len(CopyPacket(m.packets[k]))
                /\ \A x \in 1 .. Len(CopyPacket(m.packets[k])) :
                        Written(m)[EndOf(m, k - 1) + x] = CopyPacket(m.packets[k])[x]
<1> DEFINE e == Cells(m)
           l(k) == Len(Flat(e, k))
           hs == WriteHeaders(m)
           h == Len(hs)
           N == Len(m.packets)
           f == Flat(e, N)
           w == Written(m)
<1>1. /\ e \in Seq(Seq(Nat)) /\ Len(e) = N /\ N \in Nat /\ N \in 0 .. Len(e) /\ N \in 0 .. N
      /\ \A k \in 1 .. N : e[k] = CopyPacket(m.packets[k])
    BY CellsOf, PacketsOf
<1>2. hs \in Seq(Nat) /\ h \in Nat
    BY HeadersOf, LenProperties
<1>3. w = hs \o f
    BY WrittenIs
<1>4. \A k \in 0 .. N : EndOf(m, k) = h + l(k)
    BY EndsOf
<1> HIDE DEF e
<1>5. Parts(e, N)
    BY <1>1, AllParts
<1>6. /\ f \in Seq(Nat)
      /\ \A k \in 1 .. N :
            /\ Flat(e, k - 1) \in Seq(Nat)
            /\ l(k) = l(k - 1) + Len(e[k])
            /\ l(k) <= l(N)
            /\ \A x \in 1 .. Len(e[k]) : f[l(k - 1) + x] = e[k][x]
    BY <1>5 DEF Parts
<1>7. \A k \in 1 .. N : l(k - 1) \in Nat /\ e[k] \in Seq(Nat) /\ Len(e[k]) \in Nat
    BY <1>1, <1>6, LenProperties, ElementOfSeq
<1>8. Len(f) = l(N) /\ l(N) \in Nat
    BY <1>6, LenProperties
<1> HIDE DEF f, w, l, hs
<1>9. /\ hs \o f \in Seq(Nat)
      /\ Len(hs \o f) = Len(hs) + Len(f)
      /\ \A x \in 1 .. Len(hs) : (hs \o f)[x] = hs[x]
      /\ \A x \in 1 .. Len(f) : (hs \o f)[Len(hs) + x] = f[x]
    BY <1>2, <1>6, Concats, Zenon
<1> HIDE DEF N, h
<1>10. ASSUME NEW k \in 1 .. N
       PROVE  /\ EndOf(m, k) = EndOf(m, k - 1) + Len(e[k])
              /\ \A x \in 1 .. Len(e[k]) : w[EndOf(m, k - 1) + x] = e[k][x]
    <2> DEFINE j == k - 1
    <2>1. k \in 0 .. N /\ j \in 0 .. N
        BY <1>1
    <2>2. EndOf(m, k) = h + l(k) /\ EndOf(m, j) = h + l(j)
        BY <1>4, <2>1
    <2>3. /\ l(j) \in Nat /\ Len(e[k]) \in Nat /\ l(k) = l(j) + Len(e[k]) /\ l(k) <= l(N)
          /\ \A x \in 1 .. Len(e[k]) : f[l(j) + x] = e[k][x]
        BY <1>6, <1>7
    <2> HIDE DEF j
    <2>4. EndOf(m, k) = EndOf(m, j) + Len(e[k])
        BY <1>2, <2>2, <2>3
    <2>5. ASSUME NEW x \in 1 .. Len(e[k]) PROVE w[EndOf(m, j) + x] = e[k][x]
        <3> DEFINE y == l(j) + x
        <3>0. x \in Nat /\ 1 <= x /\ x <= Len(e[k])
            BY <2>3
        <3>1. y \in 1 .. Len(f) /\ EndOf(m, j) + x = h + y
            BY <1>2, <1>8, <2>2, <2>3, <3>0
        <3>2. f[y] = e[k][x]
            BY <2>3
        <3> HIDE DEF y
        <3>3. w[h + y] = f[y]
            BY <1>3, <1>9, <3>1 DEF h
        <3> QED BY <3>1, <3>2, <3>3
    <2> QED BY <2>4, <2>5 DEF j
<1>11. Len(w) = EndOf(m, N)
    BY <1>1, <1>3, <1>4, <1>8, <1>9 DEF h
<1>12. w \in Seq(Nat) /\ \A x \in 1 .. Len(hs) : w[x] = hs[x]
    BY <1>3, <1>9
<1> QED BY <1>1, <1>10, <1>11, <1>12 DEF w, hs, N

-----------------------------------------------------------------------------
(* What damage leaves of a file.                                           *)
Sound ==
    /\ movie \in Movies
    /\ file \in Seq(Nat)
    /\ Len(file) = EndOf(movie, Len(movie.packets))
    /\ intact \in 0 .. Len(movie.packets)
    /\ intact > 0 \/ intact = Len(movie.packets) =>
        \A x \in 1 .. EndOf(movie, intact) : file[x] = Written(movie)[x]

LEMMA IntactIs ==
    ASSUME NEW m \in Movies, m.packets # <<>>, NEW d \in 1 .. Len(Written(m))
    PROVE  /\ IntactBefore(m, d) \in 0 .. Len(m.packets) - 1
           /\ IntactBefore(m, d) = 0 \/ EndOf(m, IntactBefore(m, d)) < d
<1> DEFINE N == Len(m.packets)
           R == {n \in 0 .. N - 1 : d <= EndOf(m, n + 1)}
           P(n) == d <= EndOf(m, n + 1) /\ (n = 0 \/ EndOf(m, n) < d)
<1>1. N \in Nat \ {0} /\ Len(Written(m)) = EndOf(m, N) /\ Len(Written(m)) \in Nat
    BY PacketsOf, EmptySeq, WrittenAt, LenProperties
<1>2. d \in Nat /\ d <= EndOf(m, N)
    BY <1>1
<1>3. R \in SUBSET Nat /\ N - 1 \in R
    BY <1>1, <1>2
<1>4. PICK n \in R : \A y \in R : ~(y < n)
    <2> HIDE DEF R
    <2> QED BY <1>3, LeastOf
<1>5. n \in 0 .. N - 1 /\ d <= EndOf(m, n + 1)
    OBVIOUS
<1>6. ASSUME n # 0 PROVE EndOf(m, n) < d
    <2> DEFINE j == n - 1
    <2>1. j \in 0 .. N - 1 /\ j < n /\ j + 1 = n
        BY <1>1, <1>5, <1>6
    <2> HIDE DEF j
    <2>2. j \notin R
        <3> HIDE DEF R
        <3> QED BY <1>4, <2>1
    <2>3. ~(d <= EndOf(m, n))
        BY <2>1, <2>2
    <2>4. EndOf(m, n) \in Nat
        BY <1>1, <1>5, EndsGrow
    <2> QED BY <1>2, <2>3, <2>4
<1>7. P(n)
    BY <1>5, <1>6
<1>8. IntactBefore(m, d) = CHOOSE i \in 0 .. N - 1 : P(i)
    BY DEF IntactBefore
<1>9. IntactBefore(m, d) \in 0 .. N - 1 /\ P(IntactBefore(m, d))
    <2> HIDE DEF P
    <2> QED BY <1>5, <1>7, <1>8
<1> QED BY <1>9

LEMMA MuxedIsSound == Muxed => Sound
<1> SUFFICES ASSUME Muxed PROVE Sound
    OBVIOUS
<1> DEFINE N == Len(movie.packets)
           whole == Written(movie)
<1>1. movie \in Movies /\ N \in Nat
    BY PacketsOf DEF Muxed
<1>2. whole \in Seq(Nat) /\ Len(whole) = EndOf(movie, N) /\ DOMAIN whole = 1 .. Len(whole)
    BY <1>1, WrittenAt, LenProperties
<1> HIDE DEF whole
<1>3. CASE file = whole /\ intact = N
    BY <1>1, <1>2, <1>3 DEF Sound, whole
<1>4. CASE /\ movie \in Fragile
           /\ \E d \in DOMAIN whole, c \in DamagedCells :
                file = [whole EXCEPT ![d] = c] /\ intact = IntactBefore(movie, d)
    <2>1. PICK d \in DOMAIN whole, c \in DamagedCells :
                file = [whole EXCEPT ![d] = c] /\ intact = IntactBefore(movie, d)
        BY <1>4
    <2>2. c \in Nat /\ movie.packets # <<>>
        BY <1>4, FramingAssumption, MoviesAssumption
    <2>3. d \in 1 .. Len(whole) /\ d \in Nat
        BY <1>2, LenProperties
    <2>4. intact \in 0 .. N - 1 /\ (intact = 0 \/ EndOf(movie, intact) < d)
        BY <1>1, <2>1, <2>2, <2>3, IntactIs DEF whole
    <2>5. file \in Seq(Nat) /\ Len(file) = Len(whole)
        BY <1>2, <2>1, <2>2, ExceptSeq
    <2>6. intact \in 0 .. N /\ intact # N /\ EndOf(movie, intact) \in Nat /\ EndOf(movie, intact) <= EndOf(movie, N)
        <3>1. intact \in 0 .. N /\ intact # N /\ N \in 0 .. N
            BY <1>1, <2>4
        <3> QED BY <1>1, <3>1, EndsGrow
    <2>7. ASSUME intact > 0 PROVE \A x \in 1 .. EndOf(movie, intact) : file[x] = whole[x]
        <3> SUFFICES ASSUME NEW x \in 1 .. EndOf(movie, intact) PROVE file[x] = whole[x]
            OBVIOUS
        <3>1. x # d
            BY <2>3, <2>4, <2>6, <2>7
        <3>2. EndOf(movie, N) \in Nat
            BY <1>2, LenProperties
        <3>3. x \in DOMAIN whole
            BY <1>2, <2>6, <3>2
        <3> QED BY <2>1, <3>1, <3>3
    <2> QED BY <1>1, <1>2, <2>4, <2>5, <2>6, <2>7 DEF Sound, whole
<1> QED BY <1>3, <1>4 DEF Muxed, whole

\* As long as what has been handed over is not all there is that was not damaged.
Reading == intact = Len(movie.packets) \/ Len(handed) < intact

LEMMA HeaderAgrees ==
    ASSUME Sound, Reading, Len(handed) \in Nat
    PROVE  \A x \in 1 .. Len(WriteHeaders(movie)) : file[x] = WriteHeaders(movie)[x]
<1>1. movie \in Movies /\ intact \in 0 .. Len(movie.packets) /\ Len(movie.packets) \in Nat
    BY PacketsOf DEF Sound
<1>2. intact > 0 \/ intact = Len(movie.packets)
    BY <1>1 DEF Reading
<1>3. /\ EndOf(movie, intact) \in Nat /\ EndOf(movie, 0) = Len(WriteHeaders(movie))
      /\ EndOf(movie, 0) \in Nat /\ EndOf(movie, 0) <= EndOf(movie, intact)
    <2>1. 0 \in 0 .. intact
        BY <1>1
    <2> QED BY <1>1, <2>1, EndsGrow
<1> SUFFICES ASSUME NEW x \in 1 .. Len(WriteHeaders(movie)) PROVE file[x] = WriteHeaders(movie)[x]
    OBVIOUS
<1>4. x \in 1 .. EndOf(movie, intact)
    BY <1>3
<1>5. file[x] = Written(movie)[x]
    BY <1>2, <1>4 DEF Sound
<1>6. Written(movie)[x] = WriteHeaders(movie)[x]
    BY <1>1, WrittenAt
<1> QED BY <1>5, <1>6

LEMMA PacketAgrees ==
    ASSUME Sound, Reading, NEW K \in Nat, K = Len(handed), K < Len(movie.packets)
    PROVE  LET p == movie.packets[K + 1] IN
           /\ p \in Packets
           /\ EndOf(movie, K) \in Nat
           /\ EndOf(movie, K + 1) = EndOf(movie, K) + Len(CopyPacket(p))
           /\ EndOf(movie, K + 1) <= Len(file)
           /\ \A x \in 1 .. Len(CopyPacket(p)) : file[EndOf(movie, K) + x] = CopyPacket(p)[x]
<1> DEFINE k == K + 1
           N == Len(movie.packets)
           p == movie.packets[k]
           c == CopyPacket(p)
<1>1. movie \in Movies /\ intact \in 0 .. N /\ N \in Nat
    BY PacketsOf DEF Sound
<1>2. k \in 1 .. N /\ k \in 1 .. intact /\ K \in 0 .. intact /\ k \in 0 .. N /\ k - 1 = K /\ k \in 0 .. intact
      /\ intact > 0 /\ N \in 0 .. N
    BY <1>1 DEF Reading
<1>3. p \in Packets /\ c \in Seq(Nat) /\ Len(c) \in Nat
    <2>1. p \in Packets
        BY <1>1, <1>2, PacketsOf
    <2>2. c \in Seq(Nat)
        BY <2>1, Copied
    <2> QED BY <2>1, <2>2, LenProperties
<1> HIDE DEF k
<1>4. EndOf(movie, K) \in Nat /\ EndOf(movie, k) \in Nat /\ EndOf(movie, intact) \in Nat
      /\ EndOf(movie, k) <= EndOf(movie, intact) /\ EndOf(movie, k) <= EndOf(movie, N)
    BY <1>1, <1>2, EndsGrow
<1>5. /\ EndOf(movie, k) = EndOf(movie, K) + Len(c)
      /\ \A x \in 1 .. Len(c) : Written(movie)[EndOf(movie, K) + x] = c[x]
    BY <1>1, <1>2, WrittenAt
<1>6. ASSUME NEW x \in 1 .. Len(c) PROVE file[EndOf(movie, K) + x] = c[x]
    <2>1. EndOf(movie, K) + x \in 1 .. EndOf(movie, intact)
        <3>1. x \in Nat /\ 1 <= x /\ x <= Len(c)
            BY <1>3
        <3> QED BY <1>3, <1>4, <1>5, <3>1
    <2>2. file[EndOf(movie, K) + x] = Written(movie)[EndOf(movie, K) + x]
        BY <1>2, <2>1 DEF Sound
    <2> QED BY <1>5, <2>2
<1> QED BY <1>3, <1>4, <1>5, <1>6 DEF k, Sound

-----------------------------------------------------------------------------
(* Where in the file each state of FeedData is, as long as it reads what   *)
(* was muxed.                                                              *)

\* Where the cells of the current fillable begin.
From == Looked - Len(got)

Begun == EndOf(movie, Len(handed))
Upcoming == movie.packets[Len(handed) + 1]

MovieRead ==
    /\ movie.packets # <<>>
    /\ info.video = movie.video
    /\ info.audio = AudioType(movie)
    /\ info.largest = LargestPacketSize(movie)
VideoRead == MovieRead /\ (movie.video # NoVideo => info.format = 1)
AllRead == VideoRead /\ (movie.streams # 0 => info.streams = movie.streams)

AtMovieHeader == demux = "MovieHeader" /\ From = 0
AtVideoHeader ==
    demux = "VideoHeader" /\ From = 4 /\ MovieRead /\ movie.video # NoVideo
AtAudioCommonHeader ==
    demux = "AudioCommonHeader" /\ From = 4 + VideoCells(movie) /\ VideoRead /\ movie.streams # 0
AtAudioStreamHeader ==
    demux = "AudioStreamHeader" /\ From = 5 + VideoCells(movie) + parsed /\ AllRead /\ movie.streams # 0
AtInitDecoding ==
    demux = "InitDecoding" /\ From = Len(WriteHeaders(movie)) /\ AllRead
GivenUp == demux = "FatalError" /\ movie.packets = <<>>

InHeaders ==
    /\ handed = <<>>
    /\ \/ AtMovieHeader \/ AtVideoHeader \/ AtAudioCommonHeader \/ AtAudioStreamHeader
       \/ AtInitDecoding \/ GivenUp

AtPacketHeader ==
    demux = "PacketHeader" /\ Len(handed) <= Len(movie.packets) /\ From = Begun
AtPacketHeaderCompact ==
    /\ demux = "PacketHeaderCompact" /\ Len(handed) < Len(movie.packets)
    /\ From = Begun + 2 /\ IsCompact(Upcoming) /\ packet.flags = HeaderOf(Upcoming)[2]
AtPacketHeaderFull ==
    /\ demux = "PacketHeaderFull" /\ Len(handed) < Len(movie.packets)
    /\ From = Begun + 2 /\ ~IsCompact(Upcoming) /\ packet.flags = HeaderOf(Upcoming)[2]
AtPacketData ==
    /\ demux \in {"PacketStart", "PacketData"} /\ Len(handed) < Len(movie.packets)
    /\ demux = "PacketStart" => need = 0
    /\ From = Begun + Len(HeaderOf(Upcoming)) /\ packet.flags = HeaderOf(Upcoming)[2]
    /\ packet.size = Len(Stored(Upcoming)) /\ packet.stream = Upcoming.stream

AllUnderstood == \A i \in DOMAIN handed : handed[i].did # "not understood"
ParametersKnown ==
    IF handed = <<>> THEN needParams = (movie.video \notin {NoVideo, RoQ})
    ELSE AllUnderstood => ~needParams

InPackets ==
    /\ AllRead
    /\ ParametersKnown
    /\ AtPacketHeader \/ AtPacketHeaderCompact \/ AtPacketHeaderFull \/ AtPacketData

OnTrack == InHeaders \/ InPackets

\* The packets handed over that were not damaged.
AsMuxed(i) == [type |-> handed[i].type, stream |-> handed[i].stream, data |-> handed[i].data]
Delivered == \A i \in DOMAIN handed : i <= intact => AsMuxed(i) = movie.packets[i]

Outcomes == {"refused", "not understood", "passed on"}

Reports == [type : Nat, stream : Nat, data : Seq(Nat), did : Outcomes]

HandedType == handed \in Seq(Reports)

Tracked ==
    /\ Sound
    /\ HandedType
    /\ Reading => OnTrack
    /\ Delivered
    /\ NothingRefused

-----------------------------------------------------------------------------
LEMMA Basics ==
    ASSUME IInv, Sound, HandedType
    PROVE  /\ movie \in Movies
           /\ Len(movie.packets) \in Nat
           /\ movie.packets = <<>> <=> Len(movie.packets) = 0
           /\ Len(handed) \in Nat
           /\ handed = <<>> <=> Len(handed) = 0
           /\ movie.video \in Nat /\ movie.streams \in Nat
           /\ VideoCells(movie) \in {0, 1}
           /\ Looked \in Nat
           /\ Len(got) \in Nat
<1>1. movie \in Movies
    BY DEF Sound
<1>2. movie.packets \in Seq(Packets) /\ Len(movie.packets) \in Nat
    BY <1>1, PacketsOf
<1>3. movie.packets = <<>> <=> Len(movie.packets) = 0
    BY <1>2, EmptySeq
<1>4. Len(handed) \in Nat /\ (handed = <<>> <=> Len(handed) = 0)
    BY LenProperties, EmptySeq DEF HandedType
<1>5. movie.video \in Nat /\ movie.streams \in Nat
    BY <1>1, MoviesAssumption DEF CanBeMuxed, NumVideoTypes
<1>6. Looked \in Nat
    BY Differences DEF IInv, Types, Looked
<1>7. Len(got) \in Nat
    BY LenProperties DEF IInv, Types
<1> QED BY <1>1, <1>2, <1>3, <1>4, <1>5, <1>6, <1>7 DEF VideoCells

\* What a complete header or packet is in the file.
LEMMA FilledFrom ==
    ASSUME IInv, calling
    PROVE  /\ From \in Nat
           /\ Len(Filled) \in Nat
           /\ From + Len(Filled) = Looked + Taken
           /\ From + Len(Filled) <= Len(file)
           /\ \A i \in 1 .. Len(Filled) : Filled[i] = file[From + i]
<1> DEFINE a == Looked
           n == Len(Filled)
           g == Len(got)
<1>1. a \in Nat /\ g \in Nat /\ g <= a /\ Taken \in Nat /\ a + Taken <= Len(file)
    <2>1. a = pos + given - avail
        BY DEF Looked
    <2>2. Taken \in Nat /\ Taken <= avail
        BY Takes
    <2> QED BY <2>1, <2>2 DEF IInv, Types, HoldsTheLast, Holds
<1>2. n = g + Taken /\ Filled \in Seq(Nat) /\ Holds(Filled, a + Taken)
    BY Fills, Zenon
<1>5. Len(Filled) <= a + Taken
    <2> HIDE DEF a
    <2> QED BY <1>2 DEF Holds
<1>6. \A i \in 1 .. Len(Filled) : Filled[i] = file[(a + Taken) - Len(Filled) + i]
    <2> DEFINE b == a + Taken
    <2>1. Holds(Filled, b)
        BY <1>2
    <2> HIDE DEF b
    <2>2. \A i \in 1 .. Len(Filled) : Filled[i] = file[b - Len(Filled) + i]
        BY <2>1, Zenon DEF Holds
    <2> QED BY <2>2 DEF b
<1> HIDE DEF a, n, g
<1>3. From = a - g /\ a - g \in Nat
    BY <1>1 DEF From, a, g
<1>4. a + Taken - n = a - g /\ n \in Nat /\ (a - g) + n = a + Taken
    BY <1>1, <1>2
<1> QED BY <1>1, <1>2, <1>3, <1>4, <1>6 DEF a, n

LEMMA AfterRepeat ==
    ASSUME IInv, calling, NEW state, Repeat(state)
    PROVE  /\ demux' = state /\ From' = From + Len(Filled)
           /\ state = "PacketStart" => need' = 0
<1>1. /\ pos' = pos /\ given' = given /\ calling' = calling /\ avail' = avail - Taken
      /\ got' = <<>> /\ demux' = state
      /\ state = "PacketStart" => need' = 0
    BY DEF Repeat, Fill
<1>2. /\ pos \in Nat /\ given \in Nat /\ avail \in Nat /\ Taken \in Nat /\ Taken <= avail
    BY Takes DEF IInv, Types
<1>3. Looked' = pos + given - (avail - Taken) /\ Looked = pos + given - avail
    BY <1>1 DEF Looked
<1>4. Looked' = Looked + Taken /\ Looked' \in Int
    BY <1>2, <1>3
<1>5. Len(got') = 0
    BY <1>1
<1>6. From' = Looked + Taken
    BY <1>4, <1>5 DEF From
<1> QED BY <1>1, <1>6, FilledFrom

LEMMA AfterReturn ==
    ASSUME IInv, calling, NEW r, NEW l \in {0, Taken}, Return(r, l), got' = <<>>
    PROVE  From' = Looked + l
<1>1. /\ pos' = pos + given - avail + l /\ calling' = FALSE
    BY DEF Return
<1>2. pos \in Nat /\ given \in Nat /\ avail \in Nat /\ Taken \in Nat
    BY Takes DEF IInv, Types
<1>3. Looked' = pos + given - avail + l /\ Looked = pos + given - avail
    BY <1>1 DEF Looked
<1>4. Len(got') = 0
    OBVIOUS
<1> QED BY <1>2, <1>3, <1>4 DEF From

LEMMA SamePlace ==
    ASSUME OnTrack, UNCHANGED <<movie, handed, demux, info, parsed, packet, needParams>>,
           From' = From, demux = "PacketStart" => need' = need
    PROVE  OnTrack'
<1>1. UNCHANGED <<Begun, Upcoming>>
    BY DEF Begun, Upcoming, EndOf
<1>2. MovieRead' = MovieRead /\ VideoRead' = VideoRead /\ AllRead' = AllRead
    BY DEF MovieRead, VideoRead, AllRead
<1>3. ParametersKnown' = ParametersKnown
    BY DEF ParametersKnown, AllUnderstood
<1>4. InHeaders => InHeaders'
    BY <1>2 DEF InHeaders, AtMovieHeader, AtVideoHeader, AtAudioCommonHeader,
       AtAudioStreamHeader, AtInitDecoding, GivenUp
<1>5. (AtPacketHeader => AtPacketHeader') /\ (AtPacketHeaderCompact => AtPacketHeaderCompact')
      /\ (AtPacketHeaderFull => AtPacketHeaderFull') /\ (AtPacketData => AtPacketData')
    BY <1>1 DEF AtPacketHeader, AtPacketHeaderCompact, AtPacketHeaderFull, AtPacketData
<1>6. InPackets => InPackets'
    BY <1>2, <1>3, <1>5 DEF InPackets
<1> QED BY <1>4, <1>6 DEF OnTrack

LEMMA StaysTracked ==
    ASSUME Tracked, UNCHANGED <<movie, file, intact, handed>>, Reading => OnTrack'
    PROVE  Tracked'
<1>1. Sound' /\ HandedType'
    BY DEF Tracked, Sound, HandedType
<1>2. Reading' = Reading
    BY DEF Reading
<1>3. Delivered' /\ NothingRefused'
    BY DEF Tracked, Delivered, AsMuxed, NothingRefused
<1> QED BY <1>1, <1>2, <1>3 DEF Tracked

-----------------------------------------------------------------------------
(* The steps through the headers.                                          *)

LEMMA NextHeaderCells ==
    ASSUME IInv, Tracked, Reading, calling, From + Len(Filled) <= Len(WriteHeaders(movie))
    PROVE  \A i \in 1 .. Len(Filled) : Filled[i] = WriteHeaders(movie)[From + i]
<1>1. From \in Nat /\ Len(Filled) \in Nat /\ \A i \in 1 .. Len(Filled) : Filled[i] = file[From + i]
    BY FilledFrom
<1>2. Len(handed) \in Nat /\ movie \in Movies
    BY Basics DEF Tracked
<1>3. \A x \in 1 .. Len(WriteHeaders(movie)) : file[x] = WriteHeaders(movie)[x]
    BY <1>2, HeaderAgrees DEF Tracked
<1>4. Len(WriteHeaders(movie)) \in Nat
    BY <1>2, HeadersOf, LenProperties
<1>5. \A i \in 1 .. Len(Filled) : From + i \in 1 .. Len(WriteHeaders(movie))
    BY <1>1, <1>4
<1> QED BY <1>1, <1>3, <1>5

\* Which place a state is.
LEMMA Places ==
    ASSUME OnTrack
    PROVE  /\ demux = "MovieHeader" => handed = <<>> /\ AtMovieHeader
           /\ demux = "VideoHeader" => handed = <<>> /\ AtVideoHeader
           /\ demux = "AudioCommonHeader" => handed = <<>> /\ AtAudioCommonHeader
           /\ demux = "AudioStreamHeader" => handed = <<>> /\ AtAudioStreamHeader
           /\ demux = "InitDecoding" => handed = <<>> /\ AtInitDecoding
           /\ demux = "FatalError" => handed = <<>> /\ GivenUp
           /\ demux \in {"PacketHeader", "PacketHeaderCompact", "PacketHeaderFull", "PacketStart", "PacketData"}
                => AllRead /\ ParametersKnown
           /\ demux = "PacketHeader" => AtPacketHeader
           /\ demux = "PacketHeaderCompact" => AtPacketHeaderCompact
           /\ demux = "PacketHeaderFull" => AtPacketHeaderFull
           /\ demux \in {"PacketStart", "PacketData"} => AtPacketData
<1> QED BY DEF OnTrack, InHeaders, InPackets, AtMovieHeader, AtVideoHeader, AtAudioCommonHeader,
       AtAudioStreamHeader, AtInitDecoding, GivenUp, AtPacketHeader, AtPacketHeaderCompact,
       AtPacketHeaderFull, AtPacketData

LEMMA MovieHeaderTracked ==
    ASSUME IInv, Tracked, ReadMovieHeader
    PROVE  Tracked'
<1>1. /\ calling /\ IsFull /\ demux = "MovieHeader"
      /\ UNCHANGED <<movie, file, intact, parsed, packet, needParams, handed>>
      /\ info' = [info EXCEPT !.video = Filled[2], !.audio = Filled[3], !.largest = Filled[4]]
    BY DEF ReadMovieHeader, In, written
<1> SUFFICES ASSUME Reading PROVE OnTrack'
    BY <1>1, StaysTracked
<1>2. handed = <<>> /\ From = 0 /\ OnTrack
    BY <1>1, Places DEF Tracked, AtMovieHeader
<1>3. movie \in Movies /\ VideoCells(movie) \in {0, 1} /\ movie.video \in Nat /\ movie.streams \in Nat
      /\ movie.video \in 1 .. NumVideoTypes - 1 /\ (movie.video = NoVideo => movie.streams # 0)
    BY Basics, MoviesAssumption DEF Tracked, CanBeMuxed
<1>4. Len(Filled) = 4
    BY <1>1, FilledHeader, HeaderSizes
<1>5. /\ Len(WriteHeaders(movie)) = 4 + VideoCells(movie) + IF movie.streams = 0 THEN 0 ELSE 1 + movie.streams
      /\ WriteHeaders(movie)[1] = 1 /\ WriteHeaders(movie)[2] = movie.video
      /\ WriteHeaders(movie)[3] = AudioType(movie) /\ WriteHeaders(movie)[4] = LargestPacketSize(movie)
    BY <1>3, HeadersOf
<1>6. From + Len(Filled) <= Len(WriteHeaders(movie))
    BY <1>2, <1>3, <1>4, <1>5
<1>7. Filled[1] = 1 /\ Filled[2] = movie.video /\ Filled[3] = AudioType(movie)
      /\ Filled[4] = LargestPacketSize(movie)
    <2>1. \A i \in 1 .. 4 : Filled[i] = WriteHeaders(movie)[0 + i]
        BY <1>1, <1>2, <1>4, <1>6, NextHeaderCells
    <2>2. Filled[1] = WriteHeaders(movie)[1] /\ Filled[2] = WriteHeaders(movie)[2]
          /\ Filled[3] = WriteHeaders(movie)[3] /\ Filled[4] = WriteHeaders(movie)[4]
        BY <2>1
    <2> QED BY <1>5, <2>2
<1>8. /\ LargestPacketSize(movie) \in Nat
      /\ movie.packets = <<>> <=> LargestPacketSize(movie) = 0
    BY <1>3, Largest, Basics DEF Tracked
<1>9. /\ Filled[2] \in 1 .. NumVideoTypes - 1 /\ Filled[3] \in 1 .. NumAudioTypes - 1
      /\ (Filled[3] = NoAudio <=> movie.streams = 0)
    BY <1>3, <1>7 DEF AudioType, NumAudioTypes, NoAudio, MP2
<1>10. info' = [info EXCEPT !.video = movie.video, !.audio = AudioType(movie),
                            !.largest = LargestPacketSize(movie)]
    BY <1>1, <1>7
<1>11. /\ info'.video = movie'.video /\ info'.audio = AudioType(movie')
       /\ info'.largest = LargestPacketSize(movie')
    BY <1>1, <1>10 DEF IInv, Types
<1>12. CASE movie.packets = <<>>
    <2>1. GiveUp
        BY <1>7, <1>8, <1>12 DEF ReadMovieHeader
    <2>2. demux' = "FatalError"
        BY <2>1 DEF GiveUp, Fill
    <2>3. GivenUp'
        BY <1>1, <1>12, <2>2 DEF GivenUp
    <2> QED BY <1>1, <1>2, <2>3 DEF OnTrack, InHeaders
<1>13. CASE movie.packets # <<>>
    <2>1. Filled[4] > 0
        BY <1>7, <1>8, <1>13
    <2>2. MovieRead'
        BY <1>1, <1>11, <1>13 DEF MovieRead, AudioType, LargestPacketSize
    <2>3. CASE movie.video # NoVideo
        <3>1. Repeat("VideoHeader")
            BY <1>7, <1>9, <2>1, <2>3 DEF ReadMovieHeader
        <3>2. demux' = "VideoHeader" /\ From' = 4
            BY <1>1, <1>2, <1>4, <3>1, AfterRepeat
        <3>3. AtVideoHeader'
            BY <1>1, <2>2, <2>3, <3>2 DEF AtVideoHeader
        <3> QED BY <1>1, <1>2, <3>3 DEF OnTrack, InHeaders
    <2>4. CASE movie.video = NoVideo
        <3>1. Filled[3] # NoAudio /\ movie.streams # 0
            BY <1>3, <1>9, <2>4
        <3>2. Repeat("AudioCommonHeader")
            BY <1>7, <1>9, <2>1, <2>4, <3>1 DEF ReadMovieHeader
        <3>3. demux' = "AudioCommonHeader" /\ From' = 4
            BY <1>1, <1>2, <1>4, <3>2, AfterRepeat
        <3>4. AtAudioCommonHeader'
            BY <1>1, <2>2, <2>4, <3>1, <3>3 DEF AtAudioCommonHeader, VideoRead, VideoCells
        <3> QED BY <1>1, <1>2, <3>4 DEF OnTrack, InHeaders
    <2> QED BY <2>3, <2>4
<1> QED BY <1>12, <1>13

LEMMA VideoHeaderTracked ==
    ASSUME IInv, Tracked, ReadVideoHeader
    PROVE  Tracked'
<1>1. /\ calling /\ IsFull /\ demux = "VideoHeader"
      /\ UNCHANGED <<movie, file, intact, parsed, packet, needParams, handed>>
      /\ info' = [info EXCEPT !.format = Filled[1]]
    BY DEF ReadVideoHeader, In, written
<1> SUFFICES ASSUME Reading PROVE OnTrack'
    BY <1>1, StaysTracked
<1>2. handed = <<>> /\ From = 4 /\ MovieRead /\ movie.video # NoVideo
    BY <1>1, Places DEF Tracked, AtVideoHeader
<1>3. movie \in Movies /\ movie.streams \in Nat /\ VideoCells(movie) = 1
    BY <1>2, Basics DEF Tracked, VideoCells
<1>4. Len(Filled) = 1
    BY <1>1, FilledHeader, HeaderSizes DEF HeaderSize
<1>5. /\ Len(WriteHeaders(movie)) = 4 + 1 + IF movie.streams = 0 THEN 0 ELSE 1 + movie.streams
      /\ WriteHeaders(movie)[5] = 1
    BY <1>2, <1>3, HeadersOf
<1>6. From + Len(Filled) <= Len(WriteHeaders(movie))
    BY <1>2, <1>3, <1>4, <1>5
<1>7. Filled[1] = 1
    <2>1. \A i \in 1 .. 1 : Filled[i] = WriteHeaders(movie)[4 + i]
        BY <1>1, <1>2, <1>4, <1>6, NextHeaderCells
    <2> QED BY <1>5, <2>1
<1>8. VideoRead'
    <2>1. info' = [info EXCEPT !.format = 1]
        BY <1>1, <1>7
    <2>2. info'.format = 1 /\ info'.video = info.video /\ info'.audio = info.audio
          /\ info'.largest = info.largest
        BY <2>1 DEF IInv, Types
    <2>3. AudioType(movie)' = AudioType(movie) /\ LargestPacketSize(movie)' = LargestPacketSize(movie)
        BY <1>1
    <2> QED BY <1>1, <1>2, <2>2, <2>3 DEF MovieRead, VideoRead
<1>9. VideoCells(movie)' = 1 /\ WriteHeaders(movie)' = WriteHeaders(movie)
    BY <1>1, <1>3
<1>10. info.audio = NoAudio <=> movie.streams = 0
    BY <1>2 DEF MovieRead, AudioType, NoAudio, MP2
<1>11. CASE movie.streams # 0
    <2>1. Repeat("AudioCommonHeader")
        BY <1>7, <1>10, <1>11 DEF ReadVideoHeader
    <2>2. demux' = "AudioCommonHeader" /\ From' = 5
        BY <1>1, <1>2, <1>4, <2>1, AfterRepeat
    <2>3. AtAudioCommonHeader'
        BY <1>1, <1>8, <1>9, <1>11, <2>2 DEF AtAudioCommonHeader
    <2> QED BY <1>1, <1>2, <2>3 DEF OnTrack, InHeaders
<1>12. CASE movie.streams = 0
    <2>1. Repeat("InitDecoding")
        BY <1>7, <1>10, <1>12 DEF ReadVideoHeader
    <2>2. demux' = "InitDecoding" /\ From' = 5
        BY <1>1, <1>2, <1>4, <2>1, AfterRepeat
    <2>3. AtInitDecoding'
        BY <1>1, <1>5, <1>8, <1>9, <1>12, <2>2 DEF AtInitDecoding, AllRead
    <2> QED BY <1>1, <1>2, <2>3 DEF OnTrack, InHeaders
<1> QED BY <1>11, <1>12

LEMMA AudioCommonHeaderTracked ==
    ASSUME IInv, Tracked, ReadAudioCommonHeader
    PROVE  Tracked'
<1>1. /\ calling /\ IsFull /\ demux = "AudioCommonHeader"
      /\ UNCHANGED <<movie, file, intact, packet, needParams, handed>>
      /\ info' = [info EXCEPT !.streams = Filled[1]] /\ parsed' = 0
    BY DEF ReadAudioCommonHeader, In, written
<1> SUFFICES ASSUME Reading PROVE OnTrack'
    BY <1>1, StaysTracked
<1>2. handed = <<>> /\ From = 4 + VideoCells(movie) /\ VideoRead /\ movie.streams # 0
    BY <1>1, Places DEF Tracked, AtAudioCommonHeader
<1>3. movie \in Movies /\ movie.streams \in Nat /\ VideoCells(movie) \in {0, 1}
    BY Basics DEF Tracked
<1>4. Len(Filled) = 1
    BY <1>1, FilledHeader, HeaderSizes DEF HeaderSize
<1>5. /\ Len(WriteHeaders(movie)) = 4 + VideoCells(movie) + 1 + movie.streams
      /\ WriteHeaders(movie)[4 + VideoCells(movie) + 1] = movie.streams
    <2>1. /\ Len(WriteHeaders(movie)) = 4 + VideoCells(movie) + IF movie.streams = 0 THEN 0 ELSE 1 + movie.streams
          /\ movie.streams # 0 => WriteHeaders(movie)[4 + VideoCells(movie) + 1] = movie.streams
        BY <1>3, HeadersOf, Zenon
    <2> QED BY <1>2, <1>3, <2>1
<1>6. From + Len(Filled) <= Len(WriteHeaders(movie))
    BY <1>2, <1>3, <1>4, <1>5
<1>7. Filled[1] = movie.streams
    <2>1. \A i \in 1 .. 1 : Filled[i] = WriteHeaders(movie)[From + i]
        BY <1>1, <1>4, <1>6, NextHeaderCells
    <2> QED BY <1>2, <1>5, <2>1
<1>8. AllRead'
    <2>1. info' = [info EXCEPT !.streams = movie.streams]
        BY <1>1, <1>7
    <2>2. info'.streams = movie.streams /\ info'.format = info.format /\ info'.video = info.video
          /\ info'.audio = info.audio /\ info'.largest = info.largest
        BY <2>1 DEF IInv, Types
    <2>3. AudioType(movie)' = AudioType(movie) /\ LargestPacketSize(movie)' = LargestPacketSize(movie)
        BY <1>1
    <2> QED BY <1>1, <1>2, <2>2, <2>3 DEF MovieRead, VideoRead, AllRead
<1>9. VideoCells(movie)' = VideoCells(movie)
    BY <1>1
<1>10. Repeat("AudioStreamHeader")
    BY <1>2, <1>7 DEF ReadAudioCommonHeader
<1>11. demux' = "AudioStreamHeader" /\ From' = 4 + VideoCells(movie) + 1
    BY <1>1, <1>2, <1>4, <1>10, AfterRepeat
<1>12. From' = 5 + VideoCells(movie)' + parsed'
    BY <1>1, <1>3, <1>9, <1>11
<1>13. AtAudioStreamHeader'
    BY <1>1, <1>2, <1>8, <1>11, <1>12 DEF AtAudioStreamHeader
<1> QED BY <1>1, <1>2, <1>13 DEF OnTrack, InHeaders

LEMMA AudioStreamHeaderTracked ==
    ASSUME IInv, Tracked, ReadAudioStreamHeader
    PROVE  Tracked'
<1> DEFINE v == VideoCells(movie)
<1>1. /\ calling /\ IsFull /\ demux = "AudioStreamHeader"
      /\ UNCHANGED <<movie, file, intact, info, packet, needParams, handed>>
    BY DEF ReadAudioStreamHeader, In, written
<1> SUFFICES ASSUME Reading PROVE OnTrack'
    BY <1>1, StaysTracked
<1>2. handed = <<>> /\ From = 5 + v + parsed /\ AllRead /\ movie.streams # 0
    BY <1>1, Places DEF Tracked, AtAudioStreamHeader
<1>3. movie \in Movies /\ movie.streams \in Nat /\ v \in {0, 1}
    BY Basics DEF Tracked
<1>4. Len(Filled) = 1
    BY <1>1, FilledHeader, HeaderSizes DEF HeaderSize
<1>5. /\ Len(WriteHeaders(movie)) = 4 + v + 1 + movie.streams
      /\ \A i \in 1 .. movie.streams : WriteHeaders(movie)[5 + v + i] = 1
    <2>1. /\ Len(WriteHeaders(movie)) = 4 + v + IF movie.streams = 0 THEN 0 ELSE 1 + movie.streams
          /\ movie.streams # 0 => \A i \in 1 .. movie.streams : WriteHeaders(movie)[5 + v + i] = 1
        BY <1>3, HeadersOf, Zenon
    <2> HIDE DEF v
    <2> QED BY <1>2, <1>3, <2>1
<1>6. parsed \in Nat /\ parsed < movie.streams /\ info.streams = movie.streams
    BY <1>1, <1>2 DEF IInv, Types, StreamHeaderExpected, AllRead
<1> HIDE DEF v
<1>7. From + Len(Filled) <= Len(WriteHeaders(movie))
    BY <1>2, <1>3, <1>4, <1>5, <1>6
<1>8. Filled[1] = 1
    <2>1. \A i \in 1 .. 1 : Filled[i] = WriteHeaders(movie)[From + i]
        BY <1>1, <1>4, <1>7, NextHeaderCells
    <2>2. parsed + 1 \in 1 .. movie.streams /\ From + 1 = 5 + v + (parsed + 1)
        BY <1>2, <1>3, <1>6
    <2> QED BY <1>5, <2>1, <2>2
<1>9. /\ parsed' = parsed + 1
      /\ Repeat(IF parsed + 1 = info.streams THEN "InitDecoding" ELSE "AudioStreamHeader")
    BY <1>8 DEF ReadAudioStreamHeader
<1>10. AllRead'
    <2>1. AudioType(movie)' = AudioType(movie) /\ LargestPacketSize(movie)' = LargestPacketSize(movie)
        BY <1>1
    <2> QED BY <1>1, <1>2, <2>1 DEF MovieRead, VideoRead, AllRead
<1>11. From' = 5 + v + parsed + 1
    BY <1>1, <1>2, <1>4, <1>9, AfterRepeat
<1>12. CASE parsed + 1 = info.streams
    <2>1. demux' = "InitDecoding"
        BY <1>1, <1>9, <1>12, AfterRepeat
    <2>2. From' = Len(WriteHeaders(movie)')
        BY <1>1, <1>3, <1>5, <1>6, <1>11, <1>12
    <2>3. AtInitDecoding'
        BY <1>10, <2>1, <2>2 DEF AtInitDecoding
    <2> QED BY <1>1, <1>2, <2>3 DEF OnTrack, InHeaders
<1>13. CASE parsed + 1 # info.streams
    <2>1. demux' = "AudioStreamHeader"
        BY <1>1, <1>9, <1>13, AfterRepeat
    <2>2. VideoCells(movie)' = v
        BY <1>1 DEF v
    <2>3. From' = 5 + VideoCells(movie)' + parsed'
        BY <1>3, <1>6, <1>9, <1>11, <2>2
    <2>4. AtAudioStreamHeader'
        BY <1>1, <1>2, <1>10, <2>1, <2>3 DEF AtAudioStreamHeader
    <2> QED BY <1>1, <1>2, <2>4 DEF OnTrack, InHeaders
<1> QED BY <1>12, <1>13

LEMMA InitDecodingTracked ==
    ASSUME IInv, Tracked, InitDecoding
    PROVE  Tracked'
<1>1. /\ calling /\ demux = "InitDecoding"
      /\ UNCHANGED <<movie, file, intact, info, parsed, packet, handed>>
    BY DEF InitDecoding, In, written, headers
<1> SUFFICES ASSUME Reading PROVE OnTrack'
    BY <1>1, StaysTracked
<1>2. handed = <<>> /\ From = Len(WriteHeaders(movie)) /\ AllRead
    BY <1>1, Places DEF Tracked, AtInitDecoding
<1>3. movie \in Movies /\ Len(movie.packets) \in Nat /\ Looked \in Nat
    BY Basics DEF Tracked
<1>4. info.video = NoVideo \/ info.format = 1
    BY <1>2 DEF AllRead, VideoRead, MovieRead
<1>5. /\ Fill("PacketHeader", HeaderSize["PacketHeader"]) /\ Return("Initialize", 0)
      /\ needParams' = (info.video \notin {NoVideo, RoQ})
    BY <1>4 DEF InitDecoding
<1>6. got = <<>> /\ got' = <<>> /\ demux' = "PacketHeader"
    BY <1>1, <1>5 DEF Fill, IInv, NothingToFill
<1>7. From' = From
    <2>1. From' = Looked + 0
        BY <1>1, <1>5, <1>6, AfterReturn
    <2>2. From = Looked
        <3>1. Len(got) = 0
            BY <1>6
        <3> QED BY <1>3, <3>1 DEF From
    <2> QED BY <1>3, <2>1, <2>2
<1>8. Begun' = Len(WriteHeaders(movie)) /\ Len(handed') = 0
    <2>1. Len(handed') = 0
        BY <1>1, <1>2
    <2>2. EndOf(movie, 0) = Len(WriteHeaders(movie))
        BY <1>3, EndsGrow
    <2>3. EndOf(movie, 0)' = EndOf(movie, 0)
        BY <1>1 DEF EndOf
    <2>4. Begun' = EndOf(movie, 0)'
        BY <2>1 DEF Begun
    <2> QED BY <2>1, <2>2, <2>3, <2>4
<1>9. AtPacketHeader'
    BY <1>1, <1>2, <1>3, <1>6, <1>7, <1>8 DEF AtPacketHeader
<1>10. AllRead'
    <2>1. AudioType(movie)' = AudioType(movie) /\ LargestPacketSize(movie)' = LargestPacketSize(movie)
        BY <1>1
    <2> QED BY <1>1, <1>2, <2>1 DEF MovieRead, VideoRead, AllRead
<1>11. ParametersKnown'
    BY <1>1, <1>2, <1>5 DEF ParametersKnown, AllRead, VideoRead, MovieRead
<1> QED BY <1>9, <1>10, <1>11 DEF OnTrack, InPackets

-----------------------------------------------------------------------------
(* The steps through the packets.                                          *)

LEMMA UpcomingIs ==
    ASSUME IInv, Tracked, Reading, Len(handed) < Len(movie.packets)
    PROVE  LET p == Upcoming
               h == Len(HeaderOf(p))
           IN  /\ p \in Packets
               /\ Begun \in Nat
               /\ h = IF IsCompact(p) THEN 3 ELSE 4
               /\ Len(Stored(p)) \in Nat \ {0}
               /\ Len(CopyPacket(p)) = h + Len(Stored(p))
               /\ EndOf(movie, Len(handed) + 1) = Begun + (h + Len(Stored(p)))
<1> DEFINE K == Len(handed)
           p == movie.packets[K + 1]
<1>1. K \in Nat
    BY Basics DEF Tracked
<1> HIDE DEF K
<1>2. /\ p \in Packets
      /\ EndOf(movie, K) \in Nat
      /\ EndOf(movie, K + 1) = EndOf(movie, K) + Len(CopyPacket(p))
    <2>1. Sound /\ K = Len(handed) /\ K < Len(movie.packets)
        BY DEF Tracked, K
    <2> QED BY <1>1, <2>1, PacketAgrees
<1>3. Len(Stored(p)) \in Nat \ {0}
    BY <1>2, StoredCells
<1>4. /\ Len(HeaderOf(p)) = IF IsCompact(p) THEN 3 ELSE 4
      /\ Len(CopyPacket(p)) = Len(HeaderOf(p)) + Len(Stored(p))
    BY <1>2, Copied
<1> QED BY <1>2, <1>3, <1>4 DEF K, Upcoming, Begun

LEMMA NextPacketCells ==
    ASSUME IInv, Tracked, Reading, calling, Len(handed) < Len(movie.packets),
           NEW a \in Nat, From = Begun + a, a + Len(Filled) <= Len(CopyPacket(Upcoming))
    PROVE  \A i \in 1 .. Len(Filled) : Filled[i] = CopyPacket(Upcoming)[a + i]
<1> DEFINE K == Len(handed)
           p == movie.packets[K + 1]
           c == CopyPacket(p)
<1>1. K \in Nat
    BY Basics DEF Tracked
<1>2. Upcoming = p /\ Begun = EndOf(movie, K)
    BY DEF Upcoming, Begun
<1> HIDE DEF K
<1>3. /\ p \in Packets
      /\ EndOf(movie, K) \in Nat
      /\ \A x \in 1 .. Len(c) : file[EndOf(movie, K) + x] = c[x]
    <2>1. Sound /\ K = Len(handed) /\ K < Len(movie.packets)
        BY DEF Tracked, K
    <2> QED BY <1>1, <2>1, PacketAgrees
<1>4. Len(c) \in Nat
    <2>1. c \in Seq(Nat)
        BY <1>3, Copied
    <2> QED BY <2>1, LenProperties
<1>5. Len(Filled) \in Nat /\ \A i \in 1 .. Len(Filled) : Filled[i] = file[From + i]
    BY FilledFrom
<1>6. a + Len(Filled) <= Len(c) /\ From = EndOf(movie, K) + a
    BY <1>2
<1> HIDE DEF c, p
<1> SUFFICES ASSUME NEW i \in 1 .. Len(Filled) PROVE Filled[i] = c[a + i]
    BY <1>2 DEF c
<1>7. a + i \in 1 .. Len(c) /\ From + i = EndOf(movie, K) + (a + i)
    BY <1>3, <1>4, <1>5, <1>6
<1> QED BY <1>3, <1>5, <1>7

\* The header cells of the packet that comes next.
LEMMA NextHeaderOf ==
    ASSUME IInv, Tracked, Reading, Len(handed) < Len(movie.packets)
    PROVE  LET p == Upcoming
               c == CopyPacket(p)
           IN  /\ c[1] = 1 /\ c[2] = HeaderOf(p)[2]
               /\ Has(c[2], FlagCompact) <=> IsCompact(p)
               /\ Has(c[2], FlagEscaped) => Stored(p) = Escape(p.data)
               /\ ~Has(c[2], FlagEscaped) => Stored(p) = p.data
               /\ TypeOf(c[2]) = p.type
               /\ IsCompact(p) => c[3] = 2 * Len(Stored(p)) + 1 /\ p.stream = 0
               /\ ~IsCompact(p) => c[3] = Len(Stored(p)) /\ c[4] = p.stream
               /\ \A x \in 1 .. Len(Stored(p)) : c[Len(HeaderOf(p)) + x] = Stored(p)[x]
<1> DEFINE p == Upcoming
           c == CopyPacket(p)
           h == HeaderOf(p)
<1>1. p \in Packets
    BY UpcomingIs
<1> HIDE DEF p
<1>2. /\ h \in Seq(Nat) /\ Len(h) = (IF IsCompact(p) THEN 3 ELSE 4)
      /\ \A x \in 1 .. Len(h) : c[x] = h[x]
      /\ \A x \in 1 .. Len(Stored(p)) : c[Len(h) + x] = Stored(p)[x]
      /\ IsCompact(p) => CompactSize(Len(Stored(p))) = 2 * Len(Stored(p)) + 1
    BY <1>1, Copied, Zenon
<1>3. /\ Flags(p) \in {p.type, p.type + 128}
      /\ Flags(p) = p.type => Stored(p) = p.data
      /\ Flags(p) = p.type + 128 => Stored(p) = Escape(p.data)
    BY <1>1, StoredCells
<1>4. p.type \in 1 .. 6
    BY <1>1 DEF Packets
<1>5. /\ h[1] = 1
      /\ IsCompact(p) => h[2] = Flags(p) + 32 /\ h[3] = CompactSize(Len(Stored(p)))
      /\ ~IsCompact(p) => h[2] = Flags(p) /\ h[3] = Len(Stored(p)) /\ h[4] = p.stream
    BY DEF HeaderOf, FlagCompact
<1> HIDE DEF h
<1>6. c[1] = h[1] /\ c[2] = h[2] /\ c[3] = h[3] /\ (~IsCompact(p) => c[4] = h[4])
    BY <1>2
<1>7. /\ Has(h[2], FlagCompact) <=> IsCompact(p)
      /\ Has(h[2], FlagEscaped) => Stored(p) = Escape(p.data)
      /\ ~Has(h[2], FlagEscaped) => Stored(p) = p.data
      /\ TypeOf(h[2]) = p.type
    <2> DEFINE t == p.type
    <2>1. /\ ~Has(t, FlagCompact) /\ ~Has(t, FlagEscaped) /\ TypeOf(t) = t
          /\ Has(t + 32, FlagCompact) /\ ~Has(t + 32, FlagEscaped) /\ TypeOf(t + 32) = t
          /\ ~Has(t + 128, FlagCompact) /\ Has(t + 128, FlagEscaped) /\ TypeOf(t + 128) = t
          /\ Has(t + 128 + 32, FlagCompact) /\ Has(t + 128 + 32, FlagEscaped) /\ TypeOf(t + 128 + 32) = t
        BY <1>4, FlagBits
    <2>2. CASE IsCompact(p) /\ Flags(p) = t
        BY <1>3, <1>5, <2>1, <2>2
    <2>3. CASE IsCompact(p) /\ Flags(p) = t + 128
        BY <1>3, <1>5, <2>1, <2>3
    <2>4. CASE ~IsCompact(p) /\ Flags(p) = t
        BY <1>3, <1>5, <2>1, <2>4
    <2>5. CASE ~IsCompact(p) /\ Flags(p) = t + 128
        BY <1>3, <1>5, <2>1, <2>5
    <2> QED BY <1>3, <2>2, <2>3, <2>4, <2>5
<1>8. IsCompact(p) => p.stream = 0
    BY DEF IsCompact
<1> QED BY <1>2, <1>5, <1>6, <1>7, <1>8 DEF p, h

LEMMA SameMovieRead ==
    ASSUME UNCHANGED <<movie, info, needParams, handed>>
    PROVE  (AllRead => AllRead') /\ (ParametersKnown => ParametersKnown') /\ Begun' = Begun
           /\ Upcoming' = Upcoming
<1>1. AudioType(movie)' = AudioType(movie) /\ LargestPacketSize(movie)' = LargestPacketSize(movie)
    OBVIOUS
<1>2. AllRead' = AllRead
    BY <1>1 DEF AllRead, VideoRead, MovieRead
<1>3. ParametersKnown' = ParametersKnown
    BY DEF ParametersKnown, AllUnderstood
<1>4. Begun' = Begun /\ Upcoming' = Upcoming
    BY DEF Begun, Upcoming, EndOf
<1> QED BY <1>2, <1>3, <1>4

LEMMA PacketHeaderTracked ==
    ASSUME IInv, Tracked, ReadPacketHeader
    PROVE  Tracked'
<1>1. /\ calling /\ IsFull /\ demux = "PacketHeader"
      /\ UNCHANGED <<movie, file, intact, info, parsed, needParams, handed>>
      /\ packet' = [packet EXCEPT !.flags = Filled[2]]
    BY DEF ReadPacketHeader, In, written
<1> SUFFICES ASSUME Reading PROVE OnTrack'
    BY <1>1, StaysTracked
<1>2. AllRead /\ ParametersKnown /\ From = Begun /\ Len(handed) <= Len(movie.packets)
    BY <1>1, Places DEF Tracked, AtPacketHeader
<1>3. /\ movie \in Movies /\ Len(movie.packets) \in Nat /\ Len(handed) \in Nat
    BY Basics DEF Tracked
<1>4. Len(Filled) = 2 /\ From \in Nat /\ From + Len(Filled) <= Len(file)
    BY <1>1, FilledHeader, HeaderSizes, FilledFrom
<1>5. Len(handed) < Len(movie.packets)
    <2> SUFFICES ASSUME Len(handed) = Len(movie.packets) PROVE FALSE
        BY <1>2, <1>3
    <2>1. Begun = Len(file)
        BY DEF Begun, Tracked, Sound
    <2> QED BY <1>2, <1>4, <2>1
<1> DEFINE p == Upcoming
<1>6. /\ Begun \in Nat /\ Len(CopyPacket(p)) = Len(HeaderOf(p)) + Len(Stored(p))
      /\ Len(HeaderOf(p)) \in {3, 4} /\ Len(Stored(p)) \in Nat
    BY <1>5, UpcomingIs
<1>7. Filled[1] = CopyPacket(p)[1] /\ Filled[2] = CopyPacket(p)[2]
    <2>0. \A h, n \in Nat : h \in {3, 4} => 0 + 2 <= h + n
        OBVIOUS
    <2>3. 0 + Len(Filled) <= Len(CopyPacket(p))
        BY <1>4, <1>6, <2>0
    <2>1. From = Begun + 0 /\ 0 + Len(Filled) <= Len(CopyPacket(p))
        BY <1>2, <1>6, <2>3
    <2>2. \A i \in 1 .. 2 : Filled[i] = CopyPacket(p)[0 + i]
        BY <1>1, <1>4, <1>5, <2>1, NextPacketCells
    <2> QED BY <2>2
<1>8. Filled[1] = 1 /\ Filled[2] = HeaderOf(p)[2] /\ (Has(Filled[2], FlagCompact) <=> IsCompact(p))
    BY <1>5, <1>7, NextHeaderOf
<1>9. packet'.flags = HeaderOf(p)[2]
    <2>1. packet' = [packet EXCEPT !.flags = HeaderOf(p)[2]]
        BY <1>1, <1>8
    <2> HIDE DEF p
    <2> QED BY <2>1 DEF IInv, Types
<1>10. AllRead' /\ ParametersKnown' /\ Begun' = Begun /\ Upcoming' = p
    BY <1>1, <1>2, SameMovieRead
<1> HIDE DEF p
<1>11. CASE IsCompact(p)
    <2>1. Repeat("PacketHeaderCompact")
        BY <1>8, <1>11 DEF ReadPacketHeader
    <2>2. demux' = "PacketHeaderCompact" /\ From' = Begun + 2
        BY <1>1, <1>2, <1>4, <2>1, AfterRepeat
    <2>3. IsCompact(Upcoming)' /\ packet'.flags = HeaderOf(Upcoming')[2]
        BY <1>9, <1>10, <1>11
    <2>4. AtPacketHeaderCompact'
        BY <1>1, <1>5, <1>10, <2>2, <2>3 DEF AtPacketHeaderCompact
    <2> QED BY <1>10, <2>4 DEF OnTrack, InPackets
<1>12. CASE ~IsCompact(p)
    <2>1. Repeat("PacketHeaderFull")
        BY <1>8, <1>12 DEF ReadPacketHeader
    <2>2. demux' = "PacketHeaderFull" /\ From' = Begun + 2
        BY <1>1, <1>2, <1>4, <2>1, AfterRepeat
    <2>3. ~IsCompact(Upcoming)' /\ packet'.flags = HeaderOf(Upcoming')[2]
        BY <1>9, <1>10, <1>12
    <2>4. AtPacketHeaderFull'
        BY <1>1, <1>5, <1>10, <2>2, <2>3 DEF AtPacketHeaderFull
    <2> QED BY <1>10, <2>4 DEF OnTrack, InPackets
<1> QED BY <1>11, <1>12

LEMMA PacketHeaderCompactTracked ==
    ASSUME IInv, Tracked, ReadPacketHeaderCompact
    PROVE  Tracked'
<1>1. /\ calling /\ IsFull /\ demux = "PacketHeaderCompact"
      /\ UNCHANGED <<movie, file, intact, info, parsed, needParams, handed>>
    BY DEF ReadPacketHeaderCompact, In, written
<1> SUFFICES ASSUME Reading PROVE OnTrack'
    BY <1>1, StaysTracked
<1> DEFINE p == Upcoming
<1>2. /\ AllRead /\ ParametersKnown /\ From = Begun + 2 /\ Len(handed) < Len(movie.packets)
      /\ IsCompact(p) /\ packet.flags = HeaderOf(p)[2]
    BY <1>1, Places DEF Tracked, AtPacketHeaderCompact
<1>3. Len(Filled) = 1
    BY <1>1, FilledHeader, HeaderSizes DEF HeaderSize
<1>4. /\ Begun \in Nat /\ Len(CopyPacket(p)) = Len(HeaderOf(p)) + Len(Stored(p))
      /\ Len(HeaderOf(p)) = 3 /\ Len(Stored(p)) \in Nat \ {0}
    BY <1>2, UpcomingIs
<1>5. Filled[1] = 2 * Len(Stored(p)) + 1 /\ p.stream = 0
    <2>1. 2 + Len(Filled) <= Len(CopyPacket(p))
        BY <1>3, <1>4
    <2>2. \A i \in 1 .. 1 : Filled[i] = CopyPacket(p)[2 + i]
        BY <1>1, <1>2, <1>3, <2>1, NextPacketCells
    <2>3. CopyPacket(p)[3] = 2 * Len(Stored(p)) + 1 /\ p.stream = 0
        BY <1>2, NextHeaderOf
    <2> QED BY <2>2, <2>3
<1>6. Filled[1] % 2 = 1 /\ Filled[1] # 1 /\ Filled[1] \div 2 = Len(Stored(p))
    BY <1>4, <1>5, Halves
<1>7. /\ packet' = [packet EXCEPT !.size = Len(Stored(p)), !.stream = 0]
      /\ Repeat("PacketStart")
    BY <1>6 DEF ReadPacketHeaderCompact
<1>8. AllRead' /\ ParametersKnown' /\ Begun' = Begun /\ Upcoming' = p
    BY <1>1, <1>2, SameMovieRead
<1> HIDE DEF p
<1>9. packet'.flags = HeaderOf(p)[2] /\ packet'.size = Len(Stored(p)) /\ packet'.stream = p.stream
    BY <1>2, <1>5, <1>7 DEF IInv, Types
<1>10. demux' = "PacketStart" /\ need' = 0 /\ From' = Begun + Len(HeaderOf(p))
    <2>1. demux' = "PacketStart" /\ need' = 0 /\ From' = From + Len(Filled)
        BY <1>1, <1>7, AfterRepeat
    <2> QED BY <1>2, <1>3, <1>4, <2>1
<1>11. AtPacketData'
    BY <1>1, <1>2, <1>8, <1>9, <1>10 DEF AtPacketData
<1> QED BY <1>8, <1>11 DEF OnTrack, InPackets

LEMMA PacketHeaderFullTracked ==
    ASSUME IInv, Tracked, ReadPacketHeaderFull
    PROVE  Tracked'
<1>1. /\ calling /\ IsFull /\ demux = "PacketHeaderFull"
      /\ UNCHANGED <<movie, file, intact, info, parsed, needParams, handed>>
    BY DEF ReadPacketHeaderFull, In, written
<1> SUFFICES ASSUME Reading PROVE OnTrack'
    BY <1>1, StaysTracked
<1> DEFINE p == Upcoming
<1>2. /\ AllRead /\ ParametersKnown /\ From = Begun + 2 /\ Len(handed) < Len(movie.packets)
      /\ ~IsCompact(p) /\ packet.flags = HeaderOf(p)[2]
    BY <1>1, Places DEF Tracked, AtPacketHeaderFull
<1>3. Len(Filled) = 2
    BY <1>1, FilledHeader, HeaderSizes DEF HeaderSize
<1>4. /\ Begun \in Nat /\ Len(CopyPacket(p)) = Len(HeaderOf(p)) + Len(Stored(p))
      /\ Len(HeaderOf(p)) = 4 /\ Len(Stored(p)) \in Nat \ {0}
    BY <1>2, UpcomingIs
<1>5. Filled[1] = Len(Stored(p)) /\ Filled[2] = p.stream
    <2>1. 2 + Len(Filled) <= Len(CopyPacket(p))
        BY <1>3, <1>4
    <2>2. \A i \in 1 .. 2 : Filled[i] = CopyPacket(p)[2 + i]
        BY <1>1, <1>2, <1>3, <2>1, NextPacketCells
    <2>3. CopyPacket(p)[3] = Len(Stored(p)) /\ CopyPacket(p)[4] = p.stream
        BY <1>2, NextHeaderOf
    <2> QED BY <2>2, <2>3
<1>7. /\ packet' = [packet EXCEPT !.size = Len(Stored(p)), !.stream = p.stream]
      /\ Repeat("PacketStart")
    BY <1>4, <1>5 DEF ReadPacketHeaderFull
<1>8. AllRead' /\ ParametersKnown' /\ Begun' = Begun /\ Upcoming' = p
    BY <1>1, <1>2, SameMovieRead
<1> HIDE DEF p
<1>9. packet'.flags = HeaderOf(p)[2] /\ packet'.size = Len(Stored(p)) /\ packet'.stream = p.stream
    BY <1>2, <1>7 DEF IInv, Types
<1>10. demux' = "PacketStart" /\ need' = 0 /\ From' = Begun + Len(HeaderOf(p))
    <2>1. demux' = "PacketStart" /\ need' = 0 /\ From' = From + Len(Filled)
        BY <1>1, <1>7, AfterRepeat
    <2> QED BY <1>2, <1>3, <1>4, <2>1
<1>11. AtPacketData'
    BY <1>1, <1>2, <1>8, <1>9, <1>10 DEF AtPacketData
<1> QED BY <1>8, <1>11 DEF OnTrack, InPackets

LEMMA StartPacketTracked ==
    ASSUME IInv, Tracked, StartPacket
    PROVE  Tracked'
<1>1. /\ calling /\ demux = "PacketStart"
      /\ UNCHANGED <<movie, file, intact, info, parsed, packet, needParams, handed>>
    BY DEF StartPacket, In, written, headers
<1> SUFFICES ASSUME Reading PROVE OnTrack'
    BY <1>1, StaysTracked
<1> DEFINE p == Upcoming
<1>2. /\ AllRead /\ ParametersKnown /\ From = Begun + Len(HeaderOf(p))
      /\ Len(handed) < Len(movie.packets) /\ need = 0
      /\ packet.flags = HeaderOf(p)[2] /\ packet.size = Len(Stored(p)) /\ packet.stream = p.stream
    BY <1>1, Places DEF Tracked, AtPacketData
<1>3. Begun \in Nat /\ Len(HeaderOf(p)) \in {3, 4} /\ Len(Stored(p)) \in Nat \ {0}
    BY <1>2, UpcomingIs
<1>4. Len(Stored(p)) <= LargestPacketSize(movie) /\ LargestPacketSize(movie) \in Nat
    <2>1. movie \in Movies /\ Len(handed) + 1 \in 1 .. Len(movie.packets)
        BY <1>2, Basics DEF Tracked
    <2> QED BY <2>1, Largest DEF Upcoming
<1>5. ~(packet.size > info.largest) /\ packet.size # 0
    BY <1>2, <1>3, <1>4 DEF AllRead, VideoRead, MovieRead
<1>6. Repeat("PacketData")
    BY <1>5 DEF StartPacket
<1>7. Len(Filled) = 0
    <2>1. Len(got) = 0
        BY <1>1 DEF IInv, NothingToFill
    <2>2. Taken = 0
        BY <1>1, <1>2, Takes
    <2> QED BY <1>1, <2>1, <2>2, Fills
<1>8. AllRead' /\ ParametersKnown' /\ Begun' = Begun /\ Upcoming' = p
    BY <1>1, <1>2, SameMovieRead
<1> HIDE DEF p
<1>9. demux' = "PacketData" /\ From' = Begun + Len(HeaderOf(p))
    <2>1. demux' = "PacketData" /\ From' = From + Len(Filled)
        BY <1>1, <1>6, AfterRepeat
    <2> QED BY <1>2, <1>3, <1>7, <2>1
<1>11. AtPacketData'
    BY <1>1, <1>2, <1>8, <1>9 DEF AtPacketData
<1> QED BY <1>8, <1>11 DEF OnTrack, InPackets

-----------------------------------------------------------------------------
\* What DigestPacket is given of the packet that comes next.
LEMMA GivenAsMuxed ==
    ASSUME IInv, Tracked, Reading, In("PacketData"), IsFull
    PROVE  LET p == Upcoming IN
           /\ Len(handed) < Len(movie.packets)
           /\ AllRead /\ ParametersKnown
           /\ p \in Packets
           /\ Len(Filled) = Len(Stored(p))
           /\ From + Len(Filled) = EndOf(movie, Len(handed) + 1)
           /\ TypeOf(packet.flags) = p.type
           /\ packet.stream = p.stream
           /\ Unescaped = p.data
<1> DEFINE p == Upcoming
<1>1. calling /\ demux = "PacketData"
    BY DEF In
<1>2. /\ AllRead /\ ParametersKnown /\ From = Begun + Len(HeaderOf(p))
      /\ Len(handed) < Len(movie.packets)
      /\ packet.flags = HeaderOf(p)[2] /\ packet.size = Len(Stored(p)) /\ packet.stream = p.stream
    BY <1>1, Places DEF Tracked, AtPacketData
<1>3. /\ p \in Packets /\ Begun \in Nat /\ Len(HeaderOf(p)) \in {3, 4} /\ Len(Stored(p)) \in Nat \ {0}
      /\ Len(CopyPacket(p)) = Len(HeaderOf(p)) + Len(Stored(p))
      /\ EndOf(movie, Len(handed) + 1) = Begun + (Len(HeaderOf(p)) + Len(Stored(p)))
    BY <1>2, UpcomingIs
<1>4. Len(Filled) = Len(Stored(p)) /\ Filled \in Seq(Nat)
    <2>1. Len(got) + need = packet.size
        BY <1>1 DEF IInv, WithinBuffers
    <2>2. Taken = need
        BY <1>1, Takes
    <2> QED BY <1>1, <1>2, <2>1, <2>2, Fills
<1>5. \A i \in 1 .. Len(Filled) : Filled[i] = CopyPacket(p)[Len(HeaderOf(p)) + i]
    <2> DEFINE a == Len(HeaderOf(p))
    <2>1. a \in Nat /\ From = Begun + a /\ a + Len(Filled) <= Len(CopyPacket(p))
        BY <1>2, <1>3, <1>4
    <2> HIDE DEF a
    <2>2. \A i \in 1 .. Len(Filled) : Filled[i] = CopyPacket(p)[a + i]
        BY <1>1, <1>2, <2>1, NextPacketCells
    <2> QED BY <2>2 DEF a
<1>6. /\ CopyPacket(p)[2] = HeaderOf(p)[2]
      /\ Has(CopyPacket(p)[2], FlagEscaped) => Stored(p) = Escape(p.data)
      /\ ~Has(CopyPacket(p)[2], FlagEscaped) => Stored(p) = p.data
      /\ TypeOf(CopyPacket(p)[2]) = p.type
      /\ \A x \in 1 .. Len(Stored(p)) : CopyPacket(p)[Len(HeaderOf(p)) + x] = Stored(p)[x]
    BY <1>2, NextHeaderOf
<1> HIDE DEF p
<1>7. Filled = Stored(p)
    <2>1. Stored(p) \in Seq(Nat)
        BY <1>3, StoredCells
    <2>2. \A i \in 1 .. Len(Filled) : Filled[i] = Stored(p)[i]
        BY <1>4, <1>5, <1>6
    <2> QED BY <1>4, <2>1, <2>2, SameCells
<1>8. p.data \in Seq(Nat)
    BY <1>3 DEF Packets
<1>9. Unescaped = p.data
    <2>1. CASE Has(packet.flags, FlagEscaped)
        BY <1>2, <1>6, <1>7, <1>8, <2>1, EscapingIsUndone DEF Unescaped
    <2>2. CASE ~Has(packet.flags, FlagEscaped)
        BY <1>2, <1>6, <1>7, <2>2 DEF Unescaped
    <2> QED BY <2>1, <2>2
<1>10. From + Len(Filled) = EndOf(movie, Len(handed) + 1)
    BY <1>2, <1>3, <1>4
<1> QED BY <1>2, <1>3, <1>4, <1>6, <1>9, <1>10 DEF p

\* It does not refuse it, once the stream parameters are understood.
LEMMA NotRefused ==
    ASSUME IInv, Tracked, Reading, In("PacketData"), IsFull, AllUnderstood
    PROVE  /\ ~Refused(TypeOf(packet.flags))
           /\ needParams => TypeOf(packet.flags) = VideoParameters
<1> DEFINE p == Upcoming
           k == Len(handed) + 1
<1>1. /\ AllRead /\ ParametersKnown /\ TypeOf(packet.flags) = p.type /\ packet.stream = p.stream
      /\ Unescaped = p.data /\ Len(handed) < Len(movie.packets) /\ p \in Packets
    BY GivenAsMuxed
<1>2. /\ movie \in Movies /\ Len(handed) \in Nat /\ Len(movie.packets) \in Nat
      /\ (handed = <<>> <=> Len(handed) = 0) /\ movie.streams \in Nat
    BY Basics DEF Tracked
<1>3. k \in DOMAIN movie.packets /\ p = movie.packets[k] /\ (k = 1 <=> handed = <<>>)
    <2>1. k \in 1 .. Len(movie.packets)
        BY <1>1, <1>2
    <2> QED BY <1>2, <2>1, PacketsOf DEF Upcoming
<1>4. p.stream \in Nat /\ p.type \in 1 .. 6
    BY <1>1 DEF Packets
<1> HIDE DEF k, p
<1>5. /\ p.type # AudioParameters
      /\ p.type = VideoParameters <=> k = 1 /\ movie.video \notin {NoVideo, RoQ}
      /\ p.type \in {VideoData, VideoSync} => movie.video # NoVideo
      /\ p.type = VideoSync => Len(p.data) = 1 /\ p.data # <<0>>
      /\ p.type = AudioFrame => p.stream < movie.streams
    BY <1>2, <1>3, MoviesAssumption DEF CanBeMuxed
<1>6. /\ info.video = movie.video /\ info.audio = AudioType(movie)
      /\ movie.streams # 0 => info.streams = movie.streams
    BY <1>1 DEF AllRead, VideoRead, MovieRead
<1>7. needParams <=> p.type = VideoParameters
    <2>1. CASE handed = <<>>
        BY <1>1, <1>3, <1>5, <2>1 DEF ParametersKnown
    <2>2. CASE handed # <<>>
        BY <1>1, <1>3, <1>5, <2>2 DEF ParametersKnown
    <2> QED BY <2>1, <2>2
<1>8. p.type = AudioFrame => info.audio # NoAudio /\ ~(packet.stream >= info.streams)
    <2> SUFFICES ASSUME p.type = AudioFrame
                 PROVE  info.audio # NoAudio /\ ~(packet.stream >= info.streams)
        OBVIOUS
    <2>1. p.stream < movie.streams /\ movie.streams # 0
        BY <1>2, <1>4, <1>5
    <2>2. info.audio = MP2 /\ info.streams = movie.streams
        BY <1>6, <2>1 DEF AudioType
    <2> QED BY <1>1, <1>2, <1>4, <2>1, <2>2 DEF MP2, NoAudio
<1>9. p.type \in {VideoParameters, VideoData, VideoSync, AudioFrame, AudioSync}
    BY <1>4, <1>5 DEF VideoParameters, VideoData, VideoSync, AudioFrame, AudioSync, AudioParameters
<1>10. ~Refused(p.type)
    <2>1. ~(needParams /\ p.type # VideoParameters)
        BY <1>7
    <2>2. ~(p.type = VideoParameters /\ (~needParams \/ info.video = NoVideo))
        BY <1>5, <1>6, <1>7
    <2>3. ~(p.type = VideoData /\ info.video = NoVideo)
        BY <1>5, <1>6
    <2>4. ~(p.type = VideoSync /\ (info.video = NoVideo \/ Len(Unescaped) # 1 \/ Unescaped = <<0>>))
        BY <1>1, <1>5, <1>6
    <2> QED BY <1>8, <1>9, <2>1, <2>2, <2>3, <2>4, Zenon DEF Refused
<1> QED BY <1>1, <1>7, <1>10

LEMMA OutcomeIsOne == ASSUME NEW t, NEW u PROVE Outcome(t, u) \in Outcomes
BY Zenon DEF Outcome, Outcomes

LEMMA OneMore == \A n \in Nat : \A j \in 1 .. n + 1 : j \in 1 .. n \/ j = n + 1
OBVIOUS

LEMMA DigestPacketTracked ==
    ASSUME IInv, Tracked, NEW understood \in BOOLEAN, DigestPacket(understood)
    PROVE  Tracked'
<1> DEFINE type == TypeOf(packet.flags)
           did == Outcome(type, understood)
           report == [type |-> type, stream |-> packet.stream, data |-> Unescaped, did |-> did]
           K == Len(handed)
           N == Len(movie.packets)
<1>1. /\ calling /\ IsFull /\ demux = "PacketData" /\ In("PacketData")
      /\ UNCHANGED <<movie, file, intact, info, parsed, packet>>
      /\ handed' = Append(handed, report)
      /\ needParams' = (needParams /\ ~(type = VideoParameters /\ did = "passed on"))
      /\ demux' = "PacketHeader" /\ got' = <<>>
    BY DEF DigestPacket, In, written, headers, Fill
<1>2. /\ movie \in Movies /\ N \in Nat /\ K \in Nat /\ (handed = <<>> <=> K = 0)
      /\ Looked \in Nat
    BY Basics DEF Tracked
<1>3. report \in Reports
    <2>1. packet \in [flags : Nat, size : Nat, stream : Nat]
        BY DEF IInv, Types
    <2>2. type \in Nat
        BY <2>1 DEF TypeOf
    <2>3. Unescaped \in Seq(Nat)
        <3>1. Filled \in Seq(Nat)
            BY <1>1, Fills
        <3> QED BY <3>1, KeptCells DEF Unescaped
    <2>4. did \in Outcomes
        BY OutcomeIsOne
    <2> HIDE DEF type, did
    <2> QED BY <2>1, <2>2, <2>3, <2>4 DEF Reports
<1> HIDE DEF report
<1>4. handed \in Seq(Reports)
    BY DEF Tracked, HandedType, Reports
<1>5. /\ handed' \in Seq(Reports) /\ Len(handed') = K + 1
      /\ \A i \in 1 .. K : handed'[i] = handed[i]
      /\ handed'[K + 1] = report
      /\ DOMAIN handed' = 1 .. K + 1 /\ DOMAIN handed = 1 .. K
    <2> DEFINE a == Append(handed, report)
    <2>1. /\ a \in Seq(Reports) /\ Len(a) = Len(handed) + 1
          /\ \A i \in 1 .. Len(handed) : a[i] = handed[i]
          /\ a[Len(handed) + 1] = report
        BY <1>3, <1>4, AppendProperties
    <2>2. handed' = a
        BY <1>1
    <2> HIDE DEF a
    <2>3. DOMAIN a = 1 .. Len(a) /\ DOMAIN handed = 1 .. Len(handed)
        BY <1>4, <2>1, LenProperties
    <2> QED BY <2>1, <2>2, <2>3
<1>6. HandedType' /\ Sound'
    BY <1>1, <1>5 DEF Tracked, HandedType, Sound, Reports
<1>7. report.type = type /\ report.stream = packet.stream /\ report.data = Unescaped /\ report.did = did
    BY DEF report
<1> HIDE DEF K, N
<1>8. intact \in 0 .. N
    BY DEF Tracked, Sound, N
<1>9. Reading' => Reading
    <2>1. movie' = movie /\ intact' = intact /\ Len(handed') = K + 1
        BY <1>1, <1>5
    <2>2. K + 1 < intact => K < intact
        BY <1>2, <1>8
    <2> QED BY <2>1, <2>2 DEF Reading, K, N
<1>10. Delivered'
    <2> SUFFICES ASSUME NEW i \in 1 .. K + 1, i <= intact
                 PROVE  [type |-> handed'[i].type, stream |-> handed'[i].stream, data |-> handed'[i].data]
                            = movie.packets[i]
        BY <1>1, <1>5 DEF Delivered, AsMuxed
    <2>1. CASE i \in 1 .. K
        BY <1>5, <2>1 DEF Tracked, Delivered, AsMuxed
    <2>2. CASE i = K + 1
        <3>1. Reading
            BY <1>2, <1>8, <2>2 DEF Reading, K, N
        <3>2. /\ Upcoming \in Packets /\ type = Upcoming.type
              /\ packet.stream = Upcoming.stream /\ Unescaped = Upcoming.data
            BY <1>1, <3>1, GivenAsMuxed
        <3>3. [type |-> report.type, stream |-> report.stream, data |-> report.data] = Upcoming
            BY <1>7, <3>2 DEF Packets
        <3> QED BY <1>5, <2>2, <3>3 DEF Upcoming, K
    <2> QED BY <1>2, <2>1, <2>2
<1>11. AllUnderstood' => AllUnderstood /\ did # "not understood"
    <2>1. AllUnderstood' => \A i \in 1 .. K + 1 : handed'[i].did # "not understood"
        BY <1>5 DEF AllUnderstood
    <2>2. \A i \in 1 .. K : i \in 1 .. K + 1
        BY <1>2
    <2>3. K + 1 \in 1 .. K + 1
        BY <1>2
    <2> QED BY <1>5, <1>7, <2>1, <2>2, <2>3 DEF AllUnderstood
<1>12. ASSUME Reading, AllUnderstood'
       PROVE  did = "passed on" /\ (needParams => type = VideoParameters)
    <2>1. ~Refused(type) /\ (needParams => type = VideoParameters)
        BY <1>1, <1>11, <1>12, NotRefused
    <2> QED BY <1>11, <1>12, <2>1 DEF Outcome
<1>13. NothingRefused'
    <2> SUFFICES ASSUME intact' = Len(movie'.packets),
                        \A i \in DOMAIN handed' : handed'[i].did # "not understood",
                        NEW i \in DOMAIN handed'
                 PROVE  handed'[i].did # "refused"
        BY DEF NothingRefused
    <2>1. AllUnderstood'
        BY DEF AllUnderstood
    <2>2. Reading
        BY <1>1 DEF Reading
    <2>5. i \in 1 .. K \/ i = K + 1
        <3>1. K \in Nat /\ i \in 1 .. K + 1
            BY <1>2, <1>5
        <3> QED BY <3>1, OneMore
    <2>3. CASE i \in 1 .. K
        <3>1. handed[i].did # "refused"
            BY <1>1, <1>5, <1>11, <2>1, <2>3 DEF Tracked, NothingRefused, AllUnderstood
        <3> QED BY <1>5, <2>3, <3>1
    <2>4. CASE i = K + 1
        BY <1>5, <1>7, <1>12, <2>1, <2>2, <2>4
    <2> QED BY <2>3, <2>4, <2>5
<1>14. ASSUME Reading PROVE OnTrack'
    <2>1. /\ K < N /\ AllRead /\ Len(Filled) = Len(Stored(Upcoming))
          /\ From + Len(Filled) = EndOf(movie, K + 1)
        BY <1>1, <1>14, GivenAsMuxed DEF K, N
    <2>2. From' = From + Len(Filled)
        <3>1. \E r : Return(r, Taken)
            BY DEF DigestPacket
        <3>2. From' = Looked + Taken
            BY <1>1, <3>1, AfterReturn
        <3> QED BY <1>1, <3>2, FilledFrom
    <2>3. Begun' = EndOf(movie, K + 1)
        BY <1>1, <1>5 DEF Begun, EndOf
    <2>4. AtPacketHeader'
        <3>1. Len(handed') <= Len(movie'.packets)
            <4>1. K + 1 <= N
                BY <1>2, <2>1
            <4>2. Len(handed') = K + 1 /\ Len(movie'.packets) = N
                BY <1>1, <1>5 DEF N
            <4> QED BY <4>1, <4>2
        <3> QED BY <1>1, <2>1, <2>2, <2>3, <3>1 DEF AtPacketHeader
    <2>5. AllRead'
        <3>1. AudioType(movie)' = AudioType(movie) /\ LargestPacketSize(movie)' = LargestPacketSize(movie)
            BY <1>1
        <3> QED BY <1>1, <2>1, <3>1 DEF AllRead, VideoRead, MovieRead
    <2>6. ParametersKnown'
        <3>1. handed' # <<>>
            <4>1. Len(<<>>) = 0 /\ K + 1 # 0
                BY <1>2
            <4> QED BY <1>5, <4>1
        <3>2. AllUnderstood' => ~needParams'
            BY <1>1, <1>12, <1>14
        <3> QED BY <3>1, <3>2 DEF ParametersKnown
    <2> QED BY <2>4, <2>5, <2>6 DEF OnTrack, InPackets
<1> QED BY <1>6, <1>9, <1>10, <1>13, <1>14 DEF Tracked

LEMMA OthersTracked ==
    ASSUME IInv, Tracked,
           ReadSome \/ FailAgain \/ UNCHANGED vars \/ \E k \in 1 .. MaxPiece : Feed(k)
    PROVE  Tracked'
<1>1. UNCHANGED <<movie, file, intact, handed, demux, info, parsed, packet, needParams>>
    BY DEF ReadSome, FailAgain, Feed, vars, written, call, filling, headers
<1> SUFFICES ASSUME Reading PROVE OnTrack'
    BY <1>1, StaysTracked
<1>2. OnTrack
    BY DEF Tracked
<1>3. CASE ReadSome
    <2>1. /\ calling /\ got' = Filled /\ calling' = FALSE
          /\ pos' = pos + given - avail + Taken /\ demux # "PacketStart"
        BY <1>3 DEF ReadSome, Return
    <2>2. Looked' = Looked + Taken /\ Looked \in Nat
        BY <2>1, Basics DEF Looked, Tracked
    <2>3. Len(got') = Len(got) + Taken /\ Taken \in Nat /\ Len(got) \in Nat
        BY <2>1, Fills, Takes, Basics DEF Tracked
    <2>4. From' = From
        BY <2>2, <2>3 DEF From
    <2> QED BY <1>1, <1>2, <2>1, <2>4, SamePlace
<1>4. CASE FailAgain
    <2>1. demux = "FatalError"
        BY <1>4 DEF FailAgain, In
    <2>2. handed = <<>> /\ GivenUp
        BY <1>2, <2>1, Places
    <2>3. handed' = <<>> /\ GivenUp'
        BY <1>1, <2>2 DEF GivenUp
    <2> QED BY <2>3 DEF OnTrack, InHeaders
<1>5. CASE UNCHANGED vars
    <2>1. UNCHANGED <<pos, given, avail, calling, need, got>>
        BY <1>5 DEF vars, call, filling
    <2>2. From' = From
        BY <2>1 DEF From, Looked
    <2> QED BY <1>1, <1>2, <2>1, <2>2, SamePlace
<1>6. CASE \E k \in 1 .. MaxPiece : Feed(k)
    <2>1. PICK k \in 1 .. MaxPiece : Feed(k)
        BY <1>6
    <2>2. /\ ~calling /\ calling' = TRUE /\ given' = k /\ avail' = k
          /\ UNCHANGED <<pos, need, got>>
        BY <2>1 DEF Feed, filling
    <2>3. k \in Nat /\ pos \in Nat
        BY FramingAssumption DEF IInv, Types
    <2>4. From' = From
        BY <2>2, <2>3 DEF From, Looked
    <2> QED BY <1>1, <1>2, <2>2, <2>4, SamePlace
<1> QED BY <1>3, <1>4, <1>5, <1>6

LEMMA TrackedNext == IInv /\ Tracked /\ [Next]_vars => Tracked'
<1> SUFFICES ASSUME IInv, Tracked, [Next]_vars PROVE Tracked'
    OBVIOUS
<1>1. CASE ReadSome \/ FailAgain \/ UNCHANGED vars \/ \E k \in 1 .. MaxPiece : Feed(k)
    BY <1>1, OthersTracked
<1>2. CASE ReadMovieHeader
    BY <1>2, MovieHeaderTracked
<1>3. CASE ReadVideoHeader
    BY <1>3, VideoHeaderTracked
<1>4. CASE ReadAudioCommonHeader
    BY <1>4, AudioCommonHeaderTracked
<1>5. CASE ReadAudioStreamHeader
    BY <1>5, AudioStreamHeaderTracked
<1>6. CASE InitDecoding
    BY <1>6, InitDecodingTracked
<1>7. CASE ReadPacketHeader
    BY <1>7, PacketHeaderTracked
<1>8. CASE ReadPacketHeaderCompact
    BY <1>8, PacketHeaderCompactTracked
<1>9. CASE ReadPacketHeaderFull
    BY <1>9, PacketHeaderFullTracked
<1>10. CASE StartPacket
    BY <1>10, StartPacketTracked
<1>11. CASE \E understood \in BOOLEAN : DigestPacket(understood)
    BY <1>11, DigestPacketTracked
<1> QED BY <1>1, <1>2, <1>3, <1>4, <1>5, <1>6, <1>7, <1>8, <1>9, <1>10, <1>11 DEF Next, Digest

LEMMA TrackedAtFirst == Init => AnyFile /\ Tracked
<1> SUFFICES ASSUME Init PROVE AnyFile /\ Tracked
    OBVIOUS
<1>1. Sound
    BY MuxedIsSound DEF Init
<1>2. AnyFile
    BY <1>1 DEF Sound, AnyFile, Init
<1>3. handed = <<>> /\ demux = "MovieHeader" /\ pos = 0 /\ calling = FALSE /\ got = <<>>
    BY DEF Init, Opened
<1>4. handed \in Seq(Reports) /\ DOMAIN handed = {}
    BY <1>3
<1>5. From = 0
    <2>1. Len(got) = 0 /\ Looked = 0
        BY <1>3 DEF Looked
    <2> QED BY <2>1 DEF From
<1>6. OnTrack
    BY <1>3, <1>5 DEF OnTrack, InHeaders, AtMovieHeader
<1>7. Delivered /\ NothingRefused
    BY <1>4 DEF Delivered, NothingRefused
<1> QED BY <1>1, <1>2, <1>4, <1>6, <1>7 DEF Tracked, HandedType

LEMMA HandsOver ==
    ASSUME IInv, Tracked, Tracked', [Next]_vars
    PROVE  [Delivery!Deliver]_(Delivery!deliveryVars)
<1> DEFINE d == [i \in DOMAIN handed |-> AsMuxed(i)]
           K == Len(handed)
<1>0. UNCHANGED <<movie, intact>>
    BY DEF Next, Digest, Feed, ReadSome, ReadMovieHeader, ReadVideoHeader,
           ReadAudioCommonHeader, ReadAudioStreamHeader, InitDecoding, ReadPacketHeader,
           ReadPacketHeaderCompact, ReadPacketHeaderFull, StartPacket, DigestPacket,
           FailAgain, vars, written
<1>1. CASE \E understood \in BOOLEAN : DigestPacket(understood)
    <2>1. PICK r : handed' = Append(handed, r)
        BY <1>1 DEF DigestPacket
    <2>2. handed \in Seq(Reports) /\ handed' \in Seq(Reports) /\ K \in Nat
        BY LenProperties DEF Tracked, HandedType, Reports
    <2>3. DOMAIN handed = 1 .. K /\ DOMAIN handed' = 1 .. K + 1 /\ \A i \in 1 .. K : handed'[i] = handed[i]
        BY <2>1, <2>2
    <2>4. d' = [i \in 1 .. K + 1 |-> AsMuxed(i)'] /\ d = [i \in 1 .. K |-> AsMuxed(i)]
        BY <2>3
    <2>5. \A i \in 1 .. K : AsMuxed(i)' = AsMuxed(i) /\ i \in 1 .. K + 1
        BY <2>2, <2>3 DEF AsMuxed
    <2> DEFINE S == {AsMuxed(i)' : i \in 1 .. K + 1}
    <2>6. d \in Seq(S) /\ d' \in Seq(S) /\ Len(d) = K /\ Len(d') = K + 1
        BY <2>2, <2>4, <2>5
    <2>7. \A i \in 1 .. K : d'[i] = d[i]
        BY <2>4, <2>5
    <2> HIDE DEF d, S
    <2>8. SubSeq(d', 1, Len(d)) = d
        BY <2>2, <2>6, <2>7
    <2>9. \A i \in DOMAIN d' : i <= intact => d'[i] = movie.packets[i]
        BY <1>0, <2>3, <2>4 DEF Tracked, Delivered
    <2>10. Delivery!Deliver
        BY <1>0, <2>6, <2>8, <2>9 DEF Delivery!Deliver, Delivery!Faithful, d, AsMuxed
    <2> QED BY <2>10
<1>2. CASE ~\E understood \in BOOLEAN : DigestPacket(understood)
    <2>1. handed' = handed
        BY <1>2 DEF Next, Digest, Feed, ReadSome, ReadMovieHeader, ReadVideoHeader,
           ReadAudioCommonHeader, ReadAudioStreamHeader, InitDecoding, ReadPacketHeader,
           ReadPacketHeaderCompact, ReadPacketHeaderFull, StartPacket,
           FailAgain, vars
    <2> QED BY <1>0, <2>1 DEF Delivery!deliveryVars
<1> QED BY <1>1, <1>2

-----------------------------------------------------------------------------
(* The loop of FeedData ends: how often it can go round before it returns. *)

Idle == {"PacketStart", "InitDecoding", "FatalError"}

\* A state that reads waits for a cell at least.
AwaitsCells == demux \notin Idle => need # 0

\* Each turn but one looks at a cell, and that one is followed by one that does.
TurnsLeft == 2 * avail + IF demux = "PacketStart" THEN 1 ELSE 0

OneTurnLess == calling /\ calling' => TurnsLeft' < TurnsLeft

LEMMA TurnBack ==
    ASSUME IInv, AwaitsCells, calling, NEW state \in HeaderStates \cup OtherStates, Repeat(state),
           \/ demux \notin Idle /\ IsFull
           \/ demux = "PacketStart" /\ state # "PacketStart",
           state = "PacketData" => packet.size # 0
    PROVE  AwaitsCells' /\ OneTurnLess
<1>1. /\ demux' = state /\ avail' = avail - Taken
      /\ need' = IF state = "PacketData" THEN packet.size
                 ELSE IF state \in Idle THEN 0 ELSE HeaderSize[state]
    BY DEF Repeat, Fill, Idle
<1>2. AwaitsCells'
    <2>1. state \in HeaderStates => HeaderSize[state] # 0
        BY HeaderSizes
    <2>2. state \in HeaderStates \/ state \in Idle \/ state = "PacketData"
        BY DEF OtherStates, Idle
    <2> QED BY <1>1, <2>1, <2>2 DEF AwaitsCells, Idle
<1>3. avail \in Nat /\ need \in Nat /\ Taken \in Nat /\ Taken <= avail
    BY Takes DEF IInv, Types
<1> DEFINE last(s) == IF s = "PacketStart" THEN 1 ELSE 0
<1>4. TurnsLeft = 2 * avail + last(demux) /\ TurnsLeft' = 2 * (avail - Taken) + last(state)
    BY <1>1 DEF TurnsLeft
<1>5. CASE demux \notin Idle /\ IsFull
    <2>1. Taken = need /\ need # 0
        BY <1>3, <1>5, Takes DEF AwaitsCells
    <2>2. last(state) \in {0, 1} /\ last(demux) = 0
        BY <1>5 DEF Idle
    <2> HIDE DEF last
    <2>3. 2 * (avail - Taken) + last(state) < 2 * avail + last(demux)
        BY <1>3, <2>1, <2>2
    <2> QED BY <1>2, <1>4, <2>3 DEF OneTurnLess
<1>6. CASE demux = "PacketStart" /\ state # "PacketStart"
    <2>1. last(state) = 0 /\ last(demux) = 1
        BY <1>6
    <2> HIDE DEF last
    <2>2. 2 * (avail - Taken) + last(state) < 2 * avail + last(demux)
        BY <1>3, <2>1
    <2> QED BY <1>2, <1>4, <2>2 DEF OneTurnLess
<1> QED BY <1>5, <1>6

LEMMA Returned ==
    ASSUME NEW r, NEW looked, NEW n \in Nat, NEW state \in HeaderStates \cup OtherStates,
           Fill(state, n), Return(r, looked), state \in Idle \/ n # 0
    PROVE  AwaitsCells' /\ OneTurnLess
<1> QED BY DEF Fill, Return, AwaitsCells, OneTurnLess

LEMMA GaveUp == GiveUp => AwaitsCells' /\ OneTurnLess
<1> QED BY Returned DEF GiveUp, OtherStates, Idle

LEMMA TurnsEnd == IInv /\ AwaitsCells /\ [Next]_vars => AwaitsCells' /\ [OneTurnLess]_vars
<1> SUFFICES ASSUME IInv, AwaitsCells, [Next]_vars PROVE AwaitsCells' /\ [OneTurnLess]_vars
    OBVIOUS
<1>0. /\ avail \in Nat /\ need \in Nat
      /\ HeaderStates \subseteq HeaderStates \cup OtherStates
      /\ HeaderSize["PacketHeader"] = 2 /\ HeaderSize["PacketHeaderFull"] = 2
      /\ "PacketHeader" \in HeaderStates /\ OtherStates \subseteq HeaderStates \cup OtherStates
    BY HeaderSizes DEF IInv, Types
<1>1. CASE ReadSome
    <2>1. Taken = avail /\ need' = need - Taken /\ ~IsFull /\ demux' = demux /\ calling' = FALSE
        BY <1>1, Takes DEF ReadSome, Return, IInv, Types
    <2>2. need' # 0
        BY <1>0, <2>1 DEF IsFull
    <2> QED BY <2>1, <2>2 DEF AwaitsCells, OneTurnLess
<1>2. CASE ReadMovieHeader
    <2>1. demux = "MovieHeader" /\ IsFull /\ calling
        BY <1>2 DEF ReadMovieHeader, In
    <2>2. Repeat("VideoHeader") \/ Repeat("AudioCommonHeader") \/ GiveUp
        BY <1>2 DEF ReadMovieHeader
    <2> QED BY <2>1, <2>2, TurnBack, GaveUp, HeaderSizes DEF Idle
<1>3. CASE ReadVideoHeader
    <2>1. demux = "VideoHeader" /\ IsFull /\ calling
        BY <1>3 DEF ReadVideoHeader, In
    <2>2. Repeat("FatalError") \/ Repeat("AudioCommonHeader") \/ Repeat("InitDecoding")
        BY <1>3 DEF ReadVideoHeader
    <2> QED BY <2>1, <2>2, TurnBack, HeaderSizes DEF Idle, OtherStates
<1>4. CASE ReadAudioCommonHeader
    <2>1. demux = "AudioCommonHeader" /\ IsFull /\ calling
        BY <1>4 DEF ReadAudioCommonHeader, In
    <2>2. Repeat("AudioStreamHeader") \/ GiveUp
        BY <1>4 DEF ReadAudioCommonHeader
    <2> QED BY <2>1, <2>2, TurnBack, GaveUp, HeaderSizes DEF Idle
<1>5. CASE ReadAudioStreamHeader
    <2>1. demux = "AudioStreamHeader" /\ IsFull /\ calling
        BY <1>5 DEF ReadAudioStreamHeader, In
    <2>2. Repeat("AudioStreamHeader") \/ Repeat("InitDecoding") \/ GiveUp
        BY <1>5 DEF ReadAudioStreamHeader
    <2> QED BY <2>1, <2>2, TurnBack, GaveUp, HeaderSizes DEF Idle, OtherStates
<1>6. CASE InitDecoding
    <2>1. /\ Fill("PacketHeader", HeaderSize["PacketHeader"]) \/ Fill("FatalError", 0)
          /\ \E r : Return(r, 0)
        BY <1>6 DEF InitDecoding
    <2> QED BY <1>0, <2>1, Returned DEF Idle, OtherStates
<1>7. CASE ReadPacketHeader
    <2>1. demux = "PacketHeader" /\ IsFull /\ calling
        BY <1>7 DEF ReadPacketHeader, In
    <2>2. Repeat("PacketHeaderCompact") \/ Repeat("PacketHeaderFull") \/ GiveUp
        BY <1>7 DEF ReadPacketHeader
    <2> QED BY <2>1, <2>2, TurnBack, GaveUp, HeaderSizes DEF Idle
<1>8. CASE ReadPacketHeaderCompact \/ ReadPacketHeaderFull
    <2>1. demux \in {"PacketHeaderCompact", "PacketHeaderFull"} /\ IsFull /\ calling
        BY <1>8 DEF ReadPacketHeaderCompact, ReadPacketHeaderFull, In
    <2>2. Repeat("PacketStart") \/ GiveUp
        BY <1>8 DEF ReadPacketHeaderCompact, ReadPacketHeaderFull
    <2> QED BY <2>1, <2>2, TurnBack, GaveUp, HeaderSizes DEF Idle, OtherStates
<1>9. CASE StartPacket
    <2>1. demux = "PacketStart" /\ calling
        BY <1>9 DEF StartPacket, In
    <2>2. GiveUp \/ (Repeat("PacketData") /\ packet.size # 0)
        BY <1>9 DEF StartPacket
    <2> QED BY <2>1, <2>2, TurnBack, GaveUp DEF OtherStates
<1>10. CASE \E understood \in BOOLEAN : DigestPacket(understood)
    <2>1. /\ Fill("PacketHeader", HeaderSize["PacketHeader"])
          /\ \E r : Return(r, Taken)
        BY <1>10 DEF DigestPacket
    <2> QED BY <1>0, <2>1, Returned DEF Idle, OtherStates
<1>11. CASE FailAgain \/ UNCHANGED vars \/ \E k \in 1 .. MaxPiece : Feed(k)
    <2>1. UNCHANGED <<demux, need>>
        BY <1>11 DEF FailAgain, Feed, vars, filling
    <2>2. AwaitsCells'
        BY <2>1 DEF AwaitsCells
    <2>3. OneTurnLess \/ UNCHANGED vars
        BY <1>11 DEF FailAgain, Feed, OneTurnLess
    <2> QED BY <2>2, <2>3
<1> QED BY <1>1, <1>2, <1>3, <1>4, <1>5, <1>6, <1>7, <1>8, <1>9, <1>10, <1>11 DEF Next, Digest

-----------------------------------------------------------------------------
(* The theorems.                                                           *)

\* Whatever the file holds and in whatever pieces it is fed, no packet runs over
\* the buffers of largestPacketSize bytes and no header over its own size, and
\* no more audio stream headers are parsed than there is memory for
\* (lwmMovieState_FeedData, PacketStart and the header states).
THEOREM PacketsFit == AnyFile /\ [][Next]_vars => []WithinBuffers
<1>1. IInv => WithinBuffers
    BY DEF IInv
<1> QED BY <1>1, Opens, Inductive, PTL

\* Whatever the file holds, a call that returns lwmDIGEST_Nothing has used up
\* what it was given, unless it has met a fatal error.
THEOREM AskingMeansMore == AnyFile /\ [][Next]_vars => []NothingMeansMore
<1>1. IInv => NothingMeansMore
    BY DEF IInv
<1> QED BY <1>1, Opens, Inductive, PTL

\* A header or packet that is being read holds the cells of the file right before
\* the next one to be looked at, wherever earlier calls ended: no cell is lost,
\* repeated or moved between calls (lwmFillableBuffer::FeedData).
THEOREM PiecesDoNotMatter == AnyFile /\ [][Next]_vars => []HoldsTheLast
<1>1. IInv => HoldsTheLast
    BY DEF IInv
<1> QED BY <1>1, Opens, Inductive, PTL

\* A call of FeedData returns, whatever the file holds: in each turn of its loop but
\* the last one fewer turns are left, of which there are never more than twice the
\* cells it was given, and one.
THEOREM CallsReturn ==
    AnyFile /\ [][Next]_vars =>
        [](TurnsLeft \in 0 .. 2 * given + 1) /\ [][calling /\ calling' => TurnsLeft' < TurnsLeft]_vars
<1>1. AnyFile => AwaitsCells
    BY HeaderSizes DEF AnyFile, Opened, AwaitsCells
<1>2. IInv => TurnsLeft \in 0 .. 2 * given + 1
    BY DEF IInv, Types, TurnsLeft
<1>3. OneTurnLess <=> (calling /\ calling' => TurnsLeft' < TurnsLeft)
    BY DEF OneTurnLess
<1> QED BY <1>1, <1>2, <1>3, Opens, Inductive, TurnsEnd, PTL

\* The state is well formed, for every movie that is muxed.
THEOREM TypeCorrect == Spec => []TypeOK
<1>1. Init => movie \in Movies
    BY DEF Init, Muxed
<1>2. movie \in Movies /\ [Next]_vars => (movie \in Movies)'
    <2> SUFFICES ASSUME movie \in Movies, [Next]_vars PROVE movie' \in Movies
        OBVIOUS
    <2>1. UNCHANGED movie
        BY DEF Next, Digest, Feed, ReadSome, ReadMovieHeader, ReadVideoHeader,
               ReadAudioCommonHeader, ReadAudioStreamHeader, InitDecoding, ReadPacketHeader,
               ReadPacketHeaderCompact, ReadPacketHeaderFull, StartPacket, DigestPacket,
               FailAgain, vars, written
    <2> QED BY <2>1
<1>3. movie \in Movies /\ IInv => TypeOK
    <2> SUFFICES ASSUME movie \in Movies, IInv PROVE TypeOK
        OBVIOUS
    <2>1. pos + (IF calling THEN given ELSE 0) \in 0 .. Len(file)
        BY DEF IInv, Types
    <2>2. avail \in 0 .. given
        BY DEF IInv, Types
    <2> QED BY <2>1, <2>2 DEF TypeOK, IInv, Types
<1> QED BY <1>1, <1>2, <1>3, TrackedAtFirst, Opens, Inductive, PTL DEF Spec

\* DigestPacket refuses no packet of an undamaged movie whose stream parameters
\* were understood: whatever can be muxed, and in whatever pieces it is fed, the
\* headers declare what the packets need (Mux, DigestPacket).
THEOREM NothingIsRefused == Spec => []NothingRefused
<1>1. Tracked => NothingRefused
    BY DEF Tracked
<1> QED BY <1>1, TrackedAtFirst, TrackedNext, Opens, Inductive, PTL DEF Spec

\* The demultiplexer only hands over, in order and as the converters made them,
\* the packets that were muxed, as far as the file is undamaged: writing, escaping,
\* cutting into pieces, reading and unescaping are together the identity.
THEOREM PacketsAreDelivered ==
    Spec => Delivery!Init /\ [][Delivery!Deliver]_(Delivery!deliveryVars)
<1>1. Init => Delivery!Init
    <2> SUFFICES ASSUME Init PROVE Delivery!Init
        OBVIOUS
    <2>1. handed = <<>> /\ Sound
        BY MuxedIsSound DEF Init, Opened
    <2>2. [i \in DOMAIN handed |->
            [type |-> handed[i].type, stream |-> handed[i].stream, data |-> handed[i].data]] = <<>>
        BY <2>1
    <2> QED BY <2>1, <2>2 DEF Delivery!Init, Sound
<1>2. IInv /\ Tracked /\ Tracked' /\ [Next]_vars => [Delivery!Deliver]_(Delivery!deliveryVars)
    BY HandsOver
<1> QED BY <1>1, <1>2, TrackedAtFirst, TrackedNext, Opens, Inductive, PTL DEF Spec
=============================================================================
