---------------------------- MODULE MCThreadPool ----------------------------
(* A small instance of ThreadPool for TLC, with the inductive invariant of *)
(* its proofs.                                                             *)
EXTENDS ThreadPoolProofs
=============================================================================
