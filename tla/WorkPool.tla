------------------------------ MODULE WorkPool ------------------------------
(***************************************************************************)
(* What a work notifier is for (Decoding.txt, "Thread pooling"): tasks are *)
(* offered to the pool, every task is run exactly once by some thread of   *)
(* it, and the main thread, before it reuses the tasks for the next frame, *)
(* waits until all that were offered have been finished.                   *)
(***************************************************************************)
CONSTANT Tasks

VARIABLES
    offered,    \* tasks handed to the pool for this frame
    taken,      \* those a thread has started on
    finished    \* those that are done

poolVars == <<offered, taken, finished>>

Init ==
    /\ offered = {}
    /\ taken = {}
    /\ finished = {}

Offer(t) ==
    /\ t \notin offered
    /\ offered' = offered \cup {t}
    /\ UNCHANGED <<taken, finished>>

Take(t) ==
    /\ t \in offered \ taken
    /\ taken' = taken \cup {t}
    /\ UNCHANGED <<offered, finished>>

Finish(t) ==
    /\ t \in taken \ finished
    /\ finished' = finished \cup {t}
    /\ UNCHANGED <<offered, taken>>

\* All the work offered has been done, and the tasks may be offered again.
Recycle ==
    /\ finished = offered
    /\ offered' = {}
    /\ taken' = {}
    /\ finished' = {}

Next ==
    \/ \E t \in Tasks : Offer(t) \/ Take(t) \/ Finish(t)
    \/ Recycle

Fairness == \A t \in Tasks : WF_poolVars(Take(t)) /\ WF_poolVars(Finish(t))

Spec == Init /\ [][Next]_poolVars /\ Fairness
=============================================================================
