---------------------------- MODULE MCInstaller ----------------------------
(* Small instances of Installer. *)
EXTENDS Installer

SequencesUpTo(S, n) == UNION {[1 .. k -> S] : k \in 0 .. n}
MCSearchPaths == SequencesUpTo({"shims", "tool", "guard", "none"}, 3)
MCManagerPaths == SequencesUpTo({"tool", "none"}, 1)
============================================================================
