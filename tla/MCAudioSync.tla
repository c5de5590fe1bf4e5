----------------------------- MODULE MCAudioSync -----------------------------
(* Model checking audio synchronization.                                   *)
EXTENDS AudioSync

MCReads   == {1, 4}
MCGarbage == {0, 1, 3}
=============================================================================
