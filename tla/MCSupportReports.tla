------------------------- MODULE MCSupportReports --------------------------
(* Instances of SupportReports for TLC. *)
EXTENDS SupportReports
=============================================================================
