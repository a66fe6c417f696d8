---------------------------- MODULE MCSelection ----------------------------
(* Small instances of Selection for TLC. *)
EXTENDS Selection

\* A node_modules, a cache and a build output, in the order of their paths.
Ranks == (1 :> 2) @@ (2 :> 0) @@ (3 :> 1)
Ages == (0 :> 2) @@ (1 :> 1) @@ (2 :> 2)

\* On a volume of 40 bytes the shares are 2, 4, 8 and 12: each of them is less
\* than the configured threshold, and the target is more than the volume.
OneConfig ==
    {[emergency |-> 3, critical |-> 6, pressure |-> 9, target |-> 45]}
============================================================================
