----------------------------- MODULE MCSliceJobs -----------------------------
(* Model checking the deslicer job stack with the memory of its jobs.      *)
EXTENDS DeslicerMemory
=============================================================================
