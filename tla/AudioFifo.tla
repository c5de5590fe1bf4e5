------------------------------ MODULE AudioFifo ------------------------------
(***************************************************************************)
(* What lwmovie::CAudioBuffer promises to the codecs, which reserve room   *)
(* for decoded samples, to the demultiplexer, which commits them at audio  *)
(* synchronization packets, and to the player, which reads them: a bounded *)
(* first-in first-out queue whose oldest `committed` samples may be read.  *)
(* A reservation that does not fit deletes the oldest samples.             *)
(***************************************************************************)
EXTENDS Naturals, Sequences, Saturating

CONSTANTS
    Capacity,      \* samples the queue can hold
    Packets,       \* identities of decoded packets
    ReserveSizes,  \* samples in one decoded packet
    ReadSizes,     \* samples the player asks for
    SkipSizes      \* samples the demultiplexer trims

VARIABLES
    queue,         \* the samples held, oldest first
    committed,     \* how many of the oldest samples may be read
    output         \* the samples the last operation handed to the player

fifoVars == <<queue, committed, output>>

\* The i-th sample of packet p is <<p, i>>.
PacketSamples(p, n) == [i \in 1..n |-> <<p, i>>]

Oldest(n)    == SubSeq(queue, 1, n)
AllButOldest(n) == SubSeq(queue, n + 1, Len(queue))

Init ==
    /\ queue = <<>>
    /\ committed = 0
    /\ output = <<>>

\* Reserving may take samples off the committed prefix: at least the deleted
\* ones, and the implementation is free to withdraw more.
Reserve(p, n) ==
    LET dropped == Monus(Len(queue) + n, Capacity) IN
    /\ n <= Capacity
    /\ queue' = AllButOldest(dropped) \o PacketSamples(p, n)
    /\ committed' \in 0..Monus(committed, dropped)
    /\ output' = <<>>

Commit ==
    /\ committed' = Len(queue)
    /\ output' = <<>>
    /\ UNCHANGED queue

Read(k) ==
    LET n == IF k > committed THEN committed ELSE k IN
    /\ output' = Oldest(n)
    /\ queue' = AllButOldest(n)
    /\ committed' = committed - n

Skip(k) ==
    LET n == IF k > Len(queue) THEN Len(queue) ELSE k IN
    /\ queue' = AllButOldest(n)
    /\ committed' = Monus(committed, k)
    /\ output' = <<>>

ClearAll ==
    /\ queue' = <<>>
    /\ committed' = 0
    /\ output' = <<>>

Next ==
    \/ \E p \in Packets, n \in ReserveSizes : Reserve(p, n)
    \/ Commit
    \/ \E k \in ReadSizes : Read(k)
    \/ \E k \in SkipSizes \cup {committed} : Skip(k)
    \/ ClearAll

Spec == Init /\ [][Next]_fifoVars
=============================================================================
