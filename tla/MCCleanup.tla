----------------------------- MODULE MCCleanup -----------------------------
(* Small instances of Cleanup for TLC. *)
EXTENDS Cleanup, TLC

\* Paths, directories and pids are interchangeable.  Sound for safety only.
Interchangeable ==
    Permutations(Paths) \cup Permutations(Inodes) \cup Permutations(Procs)
============================================================================
