------------------------- MODULE MCMaintenanceLock -------------------------
(* Small instances of MaintenanceLock for TLC. *)
EXTENDS MaintenanceLock, TLC

\* Processes and files are interchangeable.  Sound for safety only.
Interchangeable == Permutations(Procs) \cup Permutations(Files)
============================================================================
