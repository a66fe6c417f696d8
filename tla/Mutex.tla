------------------------------- MODULE Mutex -------------------------------
(* What MaintenanceLock promises: cleanup cycles exclude each other, except *)
(* for those whose lock file was taken away under them: the strays.         *)
EXTENDS FiniteSets

CONSTANT Procs
VARIABLES holders, strays

Init == holders = {} /\ strays = {}

Acquire(r) ==
    /\ r \notin holders /\ holders = strays
    /\ holders' = holders \cup {r}
    /\ UNCHANGED strays

Release(r) ==
    /\ r \in holders
    /\ holders' = holders \ {r}
    /\ strays' = strays \ {r}

Displace(r) ==
    /\ r \in holders \ strays
    /\ strays' = strays \cup {r}
    /\ UNCHANGED holders

Next == \E r \in Procs : Acquire(r) \/ Release(r) \/ Displace(r)
Spec == Init /\ [][Next]_<<holders, strays>>
============================================================================
