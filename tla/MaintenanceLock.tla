-------------------------- MODULE MaintenanceLock --------------------------
(***************************************************************************)
(* The file lock that serializes cleanup cycles and monitors               *)
(* (src/maintenance_lock.rs): open or create the lock file, check the open *)
(* descriptor, flock it without blocking, and compare the locked file with *)
(* the one the path names now.  Each is a step, so that processes, the     *)
(* death of a holder and the replacement of the file interleave.           *)
(***************************************************************************)
EXTENDS Integers, FiniteSets

CONSTANTS
    Procs,        \* processes that want the lock
    Files,        \* lock file identities (device, inode)
    None,
    MaxPolls,     \* bound: polls until the timeout of acquire
    MaxReplace,   \* bound: times the lock file is unlinked or moved away
    MaxDisplace,  \* bound: of these, times it is under a holder
    MaxCrashes    \* bound: processes killed

ASSUME NoneAssumption == None \notin Files \cup Procs
ASSUME BoundAssumption ==
    /\ MaxPolls \in Nat /\ MaxReplace \in Nat
    /\ MaxDisplace \in Nat /\ MaxCrashes \in Nat

VARIABLES
    named,    \* the file the lock path names
    linked,   \* files with exactly one link; an unlinked one has none
    flock,    \* the process whose descriptor holds the flock of each file
    opened,   \* the file each process has open
    pc,
    patient,  \* acquire polls until a timeout, try_acquire does not
    polls,
    replaced, crashes,  \* counters for the bounds
    displaced \* history: times the file of a holder was replaced

vars == <<named, linked, flock, opened, pc, patient, polls,
          replaced, crashes, displaced>>
file == <<named, linked, replaced, displaced>>

Stages == {"idle", "open", "validate", "flock", "compare", "held"}

TypeOK ==
    /\ named \in Files \cup {None}
    /\ linked \in SUBSET Files
    /\ flock \in [Files -> Procs \cup {None}]
    /\ opened \in [Procs -> Files \cup {None}]
    /\ pc \in [Procs -> Stages]
    /\ patient \in [Procs -> BOOLEAN]
    /\ polls \in [Procs -> 0 .. MaxPolls]
    /\ replaced \in Nat
    /\ crashes \in Nat
    /\ displaced \in Nat

Init ==
    /\ named = None
    /\ linked = {}
    /\ flock = [f \in Files |-> None]
    /\ opened = [r \in Procs |-> None]
    /\ pc = [r \in Procs |-> "idle"]
    /\ patient = [r \in Procs |-> FALSE]
    /\ polls = [r \in Procs |-> 0]
    /\ replaced = 0
    /\ crashes = 0
    /\ displaced = 0

Goto(r, stage) == pc' = [pc EXCEPT ![r] = stage]

\* Mutant of Close: the flock survives the descriptor.
CloseKeepsFlock(r) == opened' = [opened EXCEPT ![r] = None] /\ UNCHANGED flock

\* The descriptor is closed, which releases the flock it holds.
Close(r) ==
    /\ opened' = [opened EXCEPT ![r] = None]
    /\ flock' = [f \in Files |-> IF flock[f] = r THEN None ELSE flock[f]]

----------------------------------------------------------------------------

\* acquire (patient) or try_acquire.
Begin(r, waits) ==
    /\ pc[r] = "idle"
    /\ Goto(r, "open")
    /\ patient' = [patient EXCEPT ![r] = waits]
    /\ polls' = [polls EXCEPT ![r] = 0]
    /\ UNCHANGED <<file, flock, opened, crashes>>

\* The path names no file: one is created.
Create(r, f) ==
    /\ pc[r] = "open"
    /\ named = None
    /\ f \notin linked /\ flock[f] = None
    /\ \A g \in Procs : opened[g] # f
    /\ named' = f
    /\ linked' = linked \cup {f}
    /\ opened' = [opened EXCEPT ![r] = f]
    /\ Goto(r, "validate")
    /\ UNCHANGED <<flock, patient, polls, replaced, displaced, crashes>>

Open(r) ==
    /\ pc[r] = "open"
    /\ named # None
    /\ opened' = [opened EXCEPT ![r] = named]
    /\ Goto(r, "validate")
    /\ UNCHANGED <<file, flock, patient, polls, crashes>>

\* validate_parent, open or validate_file fails: acquire fails at once.
Refuse(r) ==
    /\ \/ pc[r] = "open"
       \/ pc[r] = "validate" /\ opened[r] \notin linked
    /\ Close(r)
    /\ Goto(r, "idle")
    /\ UNCHANGED <<file, patient, polls, crashes>>

\* validate_file: the descriptor is of a file with one link.
Validate(r) ==
    /\ pc[r] = "validate"
    /\ opened[r] \in linked
    /\ Goto(r, "flock")
    /\ UNCHANGED <<file, flock, opened, patient, polls, crashes>>

\* flock(LOCK_EX | LOCK_NB) succeeds.
Lock(r) ==
    /\ pc[r] = "flock"
    /\ flock[opened[r]] = None
    /\ flock' = [flock EXCEPT ![opened[r]] = r]
    /\ Goto(r, "compare")
    /\ UNCHANGED <<file, opened, patient, polls, crashes>>

\* Mutant of Busy: the timeout is not looked at.
BusyForever(r) ==
    /\ pc[r] = "flock"
    /\ flock[opened[r]] # None
    /\ Close(r)
    /\ IF patient[r] THEN Goto(r, "open") ELSE Goto(r, "idle")
    /\ UNCHANGED <<file, patient, polls, crashes>>

\* EWOULDBLOCK: try_acquire returns None, acquire sleeps and opens again or
\* runs into its timeout.
Busy(r) ==
    /\ pc[r] = "flock"
    /\ flock[opened[r]] # None
    /\ Close(r)
    /\ \/ Goto(r, "idle") /\ UNCHANGED polls
       \/ /\ patient[r] /\ polls[r] < MaxPolls
          /\ polls' = [polls EXCEPT ![r] = @ + 1]
          /\ Goto(r, "open")
    /\ UNCHANGED <<file, patient, crashes>>

\* Mutant of Compare: the locked file is taken for the named one.
NoCompare(r) ==
    /\ pc[r] = "compare"
    /\ Goto(r, "held")
    /\ UNCHANGED <<file, flock, opened, patient, polls, crashes>>

\* The locked file is compared with the one the path names; another one, or
\* none, or a further link is an error and the lock is given back.
Compare(r) ==
    /\ pc[r] = "compare"
    /\ IF named = opened[r] /\ named \in linked
       THEN Goto(r, "held") /\ UNCHANGED <<opened, flock>>
       ELSE Goto(r, "idle") /\ Close(r)
    /\ UNCHANGED <<file, patient, polls, crashes>>

\* Drop.
Release(r) ==
    /\ pc[r] = "held"
    /\ Close(r)
    /\ Goto(r, "idle")
    /\ UNCHANGED <<file, patient, polls, crashes>>

Crash(r) ==
    /\ crashes < MaxCrashes
    /\ crashes' = crashes + 1
    /\ pc[r] # "idle"
    /\ Close(r)
    /\ Goto(r, "idle")
    /\ UNCHANGED <<file, patient, polls>>

Holders == {r \in Procs : pc[r] = "held"}

\* Somebody removes the lock file or moves it aside.
Replace(kept) ==
    /\ replaced < MaxReplace
    /\ named # None
    /\ IF \E r \in Holders : opened[r] = named
       THEN displaced < MaxDisplace /\ displaced' = displaced + 1
       ELSE UNCHANGED displaced
    /\ replaced' = replaced + 1
    /\ linked' = IF kept THEN linked ELSE linked \ {named}
    /\ named' = None
    /\ UNCHANGED <<flock, opened, pc, patient, polls, crashes>>

Progress(r) ==
    \/ \E f \in Files : Create(r, f)
    \/ Open(r) \/ Refuse(r) \/ Validate(r) \/ Lock(r) \/ Busy(r)
    \/ Compare(r) \/ Release(r)

Next ==
    \/ \E r \in Procs : \/ \E waits \in BOOLEAN : Begin(r, waits)
                        \/ Progress(r)
                        \/ Crash(r)
    \/ \E kept \in BOOLEAN : Replace(kept)

Spec == Init /\ [][Next]_vars

\* A process that has begun is scheduled, and a cleanup cycle ends.
FairSpec == Spec /\ \A r \in Procs : WF_vars(Progress(r))

----------------------------------------------------------------------------

\* Every flock belongs to a live process that has the file open and is past
\* the flock call: neither a killed holder nor a refused replacement leaves
\* the lock taken.
NoOrphanLock ==
    \A f \in Files : flock[f] # None =>
      pc[flock[f]] \in {"compare", "held"} /\ opened[flock[f]] = f

\* A process in its cycle holds the flock of the file it opened.
HoldersHold == \A r \in Holders : opened[r] # None /\ flock[opened[r]] = r

\* Cleanup cycles exclude each other, however the lock file comes and goes
\* between open, flock and compare; only its replacement under a holder lets
\* another cycle in, and each one lets in at most one.
Exclusion == Cardinality(Holders) <= 1 + displaced

\* Every attempt ends: the lock is granted, refused or given up at the
\* timeout, and nobody waits for ever on anybody.
AttemptEnds == \A r \in Procs : pc[r] # "idle" ~> pc[r] = "idle"

\* The holders whose lock file the path does not name any more.
Strays == {r \in Holders : opened[r] # named}

\* The lock implements mutual exclusion, whatever happens to the file: a
\* replacement under a holder, and nothing else, makes a stray of it.
AbstractLock == INSTANCE Mutex WITH holders <- Holders, strays <- Strays
ImplementsMutex == AbstractLock!Spec
============================================================================
