------------------------------- MODULE JobPool -------------------------------
(***************************************************************************)
(* What the thread pool of threads.h promises its caller, without threads, *)
(* arrays or locks: a submitted job waits in a queue, runs once, and its   *)
(* result is handed back once.  The order of the jobs is not promised.     *)
(***************************************************************************)
CONSTANTS Jobs          \* the jobs the caller may submit, each at most once

VARIABLES queued,       \* submitted, no worker has claimed it
          running,      \* claimed, its callback has not returned
          done,         \* the callback returned, the result is not taken yet
          delivered,    \* the caller has taken the result
          stopped       \* the process aborted or shut the pool down

vars == <<queued, running, done, delivered, stopped>>

Known == queued \cup running \cup done \cup delivered

Init == /\ queued = {}
        /\ running = {}
        /\ done = {}
        /\ delivered = {}
        /\ stopped = FALSE

Submit(j) == /\ j \notin Known
             /\ queued' = queued \cup {j}
             /\ UNCHANGED <<running, done, delivered>>

Start(j) == /\ j \in queued
            /\ queued' = queued \ {j}
            /\ running' = running \cup {j}
            /\ UNCHANGED <<done, delivered>>

Finish(j) == /\ j \in running
             /\ running' = running \ {j}
             /\ done' = done \cup {j}
             /\ UNCHANGED <<queued, delivered>>

Deliver(j) == /\ j \in done
              /\ done' = done \ {j}
              /\ delivered' = delivered \cup {j}
              /\ UNCHANGED <<queued, running>>

(* An assertion ends the process, possibly in the step that also moves a   *)
(* job; nothing un-stops the pool.                                         *)
Move == \E j \in Jobs : Submit(j) \/ Start(j) \/ Finish(j) \/ Deliver(j)

Next == /\ Move \/ UNCHANGED <<queued, running, done, delivered>>
        /\ stopped' \in {stopped, TRUE}

Spec == Init /\ [][Next]_vars

(* As long as the pool is not stopped, what is queued starts and what      *)
(* runs finishes.  Taking results is the caller's business.                *)
Progress(j) == ~stopped /\ (Start(j) \/ Finish(j)) /\ UNCHANGED stopped

FairSpec == Spec /\ \A j \in Jobs : WF_vars(Progress(j))

==============================================================================
