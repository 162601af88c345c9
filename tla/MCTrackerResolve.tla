-------------------------- MODULE MCTrackerResolve --------------------------
(* Small instances of TrackerResolve for TLC.                              *)
EXTENDS TrackerResolve, TLC

(* Workers are interchangeable; tracker ids are not.                       *)
WorkerSymmetry == Permutations(Workers)
=============================================================================
