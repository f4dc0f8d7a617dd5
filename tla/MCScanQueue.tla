--------------------------- MODULE MCScanQueue ---------------------------
(* Instance of ScanQueue for TLC.  The tasks are interchangeable model     *)
(* values, but no symmetry is used: the run checks liveness.               *)
EXTENDS ScanQueue
=============================================================================
