----------------------------- MODULE MCSyncRuns ------------------------------
(* Instances of SyncRuns for TLC; no symmetry, as liveness is checked.         *)
EXTENDS SyncRuns
=============================================================================
