----------------------------- MODULE Saturating -----------------------------
(***************************************************************************)
(* The subtraction with which the audio code takes samples off counts: it  *)
(* stops at zero (lwmovie_audiobuffer.cpp:194, lwmovie_demux.cpp:1180).    *)
(***************************************************************************)
EXTENDS Integers

Monus(a, b) == IF a >= b THEN a - b ELSE 0
=============================================================================
