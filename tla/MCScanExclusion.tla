-------------------------- MODULE MCScanExclusion --------------------------
(* The same instances, with the history variable. *)
EXTENDS ScanExclusion, MCScan
=============================================================================
