------------------------------ MODULE MCRowJobs ------------------------------
(* Model checking the reconstructor's row jobs.                            *)
EXTENDS RowJobs
=============================================================================
