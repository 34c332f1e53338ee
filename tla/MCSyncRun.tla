----------------------------- MODULE MCSyncRun -----------------------------
(***************************************************************************)
(* SyncRun on small sets of processes, sources and runs.  Runs and sources *)
(* are interchangeable: no definition of SyncRun tells one from another.   *)
(***************************************************************************)
EXTENDS SyncRun, TLC

Symmetry == Permutations(Runs) \cup Permutations(Sources)

=============================================================================
