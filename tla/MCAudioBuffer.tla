---------------------------- MODULE MCAudioBuffer ----------------------------
(***************************************************************************)
(* Model checking CAudioBuffer.  The packet identities are symmetric.      *)
(***************************************************************************)
EXTENDS AudioBuffer, TLC

CONSTANTS p1, p2

MCPackets == {p1, p2}
MCSymmetry == Permutations(MCPackets)

\* Packets of every size up to the buffer, reads of any amount.
MixedCapacity == 5
MixedReserves == {2, 3}
MixedReads    == {1, 2}
MixedSkips    == {1}
=============================================================================
