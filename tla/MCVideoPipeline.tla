--------------------------- MODULE MCVideoPipeline ---------------------------
(* Model checking threaded video decoding.                                 *)
EXTENDS VideoPipeline

\* Rows of two macroblocks, each of them a slice.
RowSlices == <<2, 4>>
=============================================================================
