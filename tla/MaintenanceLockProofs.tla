----------------------- MODULE MaintenanceLockProofs -----------------------
(* What holds of MaintenanceLock for every value of its constants. *)
EXTENDS MaintenanceLock, FiniteSetTheorems, TLAPS

USE DEF file

\* The stages at which a process has a file open, and who holds which flock.
Opened ==
    \A r \in Procs :
      /\ pc[r] \in {"validate", "flock", "compare", "held"} => opened[r] \in Files
      /\ pc[r] \in {"compare", "held"} => flock[opened[r]] = r

TypeInv == TypeOK /\ Opened /\ NoOrphanLock

LEMMA TypeInit == Init => TypeInv
  BY BoundAssumption DEF Init, TypeInv, TypeOK, Stages, Opened, NoOrphanLock

LEMMA TypeStep == TypeInv /\ [Next]_vars => TypeInv'
  <1>1. ASSUME TypeInv, Next PROVE TypeInv'
    <2>. USE <1>1, NoneAssumption DEF TypeInv, TypeOK, Stages, Opened,
           NoOrphanLock, Goto, Close
    <2>1. ASSUME NEW r \in Procs, NEW waits \in BOOLEAN, Begin(r, waits)
          PROVE  TypeInv'
      BY <2>1, BoundAssumption DEF Begin
    <2>2. ASSUME NEW r \in Procs, NEW f \in Files, Create(r, f)
          PROVE  TypeInv'
      BY <2>2 DEF Create
    <2>3. ASSUME NEW r \in Procs, Open(r)
          PROVE  TypeInv'
      BY <2>3 DEF Open
    <2>4. ASSUME NEW r \in Procs, Refuse(r)
          PROVE  TypeInv'
      BY <2>4 DEF Refuse
    <2>5. ASSUME NEW r \in Procs, Validate(r)
          PROVE  TypeInv'
      BY <2>5 DEF Validate
    <2>6. ASSUME NEW r \in Procs, Lock(r)
          PROVE  TypeInv'
      BY <2>6 DEF Lock
    <2>7. ASSUME NEW r \in Procs, Busy(r)
          PROVE  TypeInv'
      <3>1. polls' \in [Procs -> 0 .. MaxPolls]
        BY <2>7, BoundAssumption DEF Busy
      <3>2. /\ Close(r) /\ (Goto(r, "idle") \/ Goto(r, "open"))
            /\ UNCHANGED <<file, patient, crashes>>
        BY <2>7 DEF Busy
      <3>. QED BY <3>1, <3>2
    <2>8. ASSUME NEW r \in Procs, Compare(r)
          PROVE  TypeInv'
      BY <2>8 DEF Compare
    <2>9. ASSUME NEW r \in Procs, Release(r)
          PROVE  TypeInv'
      BY <2>9 DEF Release
    <2>10. ASSUME NEW r \in Procs, Crash(r)
           PROVE  TypeInv'
      BY <2>10 DEF Crash
    <2>11. ASSUME NEW kept \in BOOLEAN, Replace(kept)
           PROVE  TypeInv'
      BY <2>11 DEF Replace
    <2>. QED BY <2>1, <2>2, <2>3, <2>4, <2>5, <2>6, <2>7, <2>8, <2>9, <2>10,
         <2>11 DEF Next, Progress
  <1>2. ASSUME TypeInv, UNCHANGED vars PROVE TypeInv'
    BY <1>2 DEF vars, TypeInv, TypeOK, Opened, NoOrphanLock
  <1>. QED BY <1>1, <1>2

LEMMA TypeAlways == Spec => []TypeInv
  BY TypeInit, TypeStep, PTL DEF Spec

\* The state is well typed (try_acquire_at_operation).
THEOREM TypeCorrect == Spec => []TypeOK
  <1>1. TypeInv => TypeOK
    BY DEF TypeInv
  <1>. QED BY TypeAlways, <1>1, PTL

\* No flock outlives the attempt or the cycle that took it, whether that
\* ends by a refusal, the release or the death of the process.
THEOREM NoOrphanCorrect == Spec => []NoOrphanLock
  <1>1. TypeInv => NoOrphanLock
    BY DEF TypeInv
  <1>. QED BY TypeAlways, <1>1, PTL

\* A process in its cycle holds the flock of its own file.
THEOREM HoldersCorrect == Spec => []HoldersHold
  <1>1. TypeInv => HoldersHold
    BY NoneAssumption DEF TypeInv, TypeOK, Opened, Holders, HoldersHold
  <1>. QED BY TypeAlways, <1>1, PTL

----------------------------------------------------------------------------
(* Exclusion: the holders of a file that the path does not name any more.  *)

StraysBounded == IsFiniteSet(Strays) /\ Cardinality(Strays) <= displaced

LEMMA OneMore ==
    ASSUME NEW S, NEW T, NEW e, IsFiniteSet(S), e \notin S, T = S \cup {e}
    PROVE  IsFiniteSet(T) /\ Cardinality(T) = Cardinality(S) + 1
  BY FS_AddElement

\* A step that takes holders away, or adds the one whose file is named,
\* leaves the strays bounded.
LEMMA FewerStrays ==
    ASSUME TypeInv, StraysBounded, Strays' \subseteq Strays, displaced' = displaced
    PROVE  StraysBounded'
  <1>1. IsFiniteSet(Strays') /\ Cardinality(Strays') <= Cardinality(Strays)
    BY FS_Subset DEF StraysBounded
  <1>2. Cardinality(Strays') \in Nat /\ Cardinality(Strays) \in Nat
    BY <1>1, FS_CardinalityType DEF StraysBounded
  <1>. QED BY <1>1, <1>2 DEF StraysBounded, TypeInv, TypeOK

LEMMA StraysStep == TypeInv /\ StraysBounded /\ [Next]_vars => StraysBounded'
  <1>. SUFFICES ASSUME TypeInv, StraysBounded, [Next]_vars
                PROVE  StraysBounded'
    OBVIOUS
  <1>. USE NoneAssumption DEF TypeInv, TypeOK, Opened, Strays, Holders, Goto, Close
  <1>1. ASSUME NEW r \in Procs, NEW f \in Files, Create(r, f)
        PROVE  StraysBounded'
    <2>1. Strays' \subseteq Strays
      BY <1>1 DEF Create
    <2>. QED BY <1>1, <2>1, FewerStrays DEF Create
  <1>2. ASSUME NEW r \in Procs,
               \/ \E waits \in BOOLEAN : Begin(r, waits)
               \/ Open(r) \/ Refuse(r) \/ Validate(r) \/ Lock(r) \/ Busy(r)
               \/ Compare(r) \/ Release(r) \/ Crash(r)
        PROVE  StraysBounded'
    <2>1. Strays' \subseteq Strays /\ displaced' = displaced
      BY <1>2 DEF Begin, Open, Refuse, Validate, Lock, Busy, Compare, Release,
         Crash
    <2>. QED BY <2>1, FewerStrays
  <1>3. ASSUME NEW kept \in BOOLEAN, Replace(kept)
        PROVE  StraysBounded'
    <2>1. CASE \A r \in Holders : opened[r] # named
      <3>1. Strays' \subseteq Strays /\ displaced' = displaced
        BY <1>3, <2>1 DEF Replace
      <3>. QED BY <3>1, FewerStrays
    <2>2. CASE \E r \in Holders : opened[r] = named
      <3>1. PICK r \in Holders : opened[r] = named
        BY <2>2
      <3>2. \A g \in Holders : opened[g] = named => g = r
        BY <3>1
      <3>3. Strays' = Strays \cup {r} /\ displaced' = displaced + 1
        BY <1>3, <2>2, <3>1, <3>2 DEF Replace
      <3>4. r \notin Strays
        BY <3>1
      <3>5. IsFiniteSet(Strays') /\ Cardinality(Strays') = Cardinality(Strays) + 1
        BY <3>3, <3>4, OneMore DEF StraysBounded
      <3>6. Cardinality(Strays) \in Nat
        BY FS_CardinalityType DEF StraysBounded
      <3>. QED BY <3>3, <3>5, <3>6 DEF StraysBounded
    <2>. QED BY <2>1, <2>2
  <1>4. CASE UNCHANGED vars
    BY <1>4 DEF vars, StraysBounded
  <1>. QED BY <1>1, <1>2, <1>3, <1>4 DEF Next, Progress

LEMMA StraysAlways == Spec => []StraysBounded
  <1>1. Init => StraysBounded
    <2>1. Init => Strays = {} /\ displaced = 0
      BY DEF Init, Strays, Holders
    <2>. QED BY <2>1, FS_EmptySet DEF StraysBounded
  <1>. QED BY <1>1, StraysStep, TypeAlways, PTL DEF Spec

\* At most one cycle runs, and one more for each time the lock file of a
\* holder was replaced: the comparison after the flock turns away every
\* process that locked a file the path did not name.
THEOREM ExclusionCorrect == Spec => []Exclusion
  <1>1. TypeInv /\ StraysBounded => Exclusion
    <2>. SUFFICES ASSUME TypeInv, StraysBounded PROVE Exclusion
      OBVIOUS
    <2>1. Cardinality(Strays) \in Nat /\ displaced \in Nat
      BY FS_CardinalityType DEF StraysBounded, TypeInv, TypeOK
    <2>2. CASE Holders = Strays
      BY <2>1, <2>2 DEF Exclusion, StraysBounded
    <2>3. CASE Holders # Strays
      <3>1. PICK r \in Holders : r \notin Strays
        BY <2>3 DEF Strays
      <3>2. Holders = Strays \cup {r}
        BY <3>1 DEF Strays, TypeInv, TypeOK, Opened, Holders
      <3>3. Cardinality(Holders) = Cardinality(Strays) + 1
        BY <3>1, <3>2, FS_AddElement DEF StraysBounded
      <3>. QED BY <2>1, <3>3 DEF Exclusion, StraysBounded
    <2>. QED BY <2>2, <2>3
  <1>. QED BY <1>1, TypeAlways, StraysAlways, PTL

----------------------------------------------------------------------------
(* Refinement of mutual exclusion.                                         *)

LEMMA SameFileSameHolder ==
    ASSUME TypeInv
    PROVE  \A r, g \in Holders \ Strays : r = g
  BY DEF TypeInv, TypeOK, Opened, Holders, Strays

\* Every step of the lock is an acquisition without a rival, a release, the
\* replacement of a holder's file or invisible in mutual exclusion, so the
\* lock implements it however files come and go (try_acquire_at_operation).
THEOREM MutexCorrect == Spec => ImplementsMutex
  <1>1. Init => AbstractLock!Init
    BY DEF Init, AbstractLock!Init, Holders, Strays
  <1>2. ASSUME TypeInv, TypeInv', [Next]_vars
        PROVE  [AbstractLock!Next]_<<Holders, Strays>>
    <2>. USE NoneAssumption DEF TypeInv, TypeOK, Opened, Goto, Close, Holders, Strays
    <2>1. ASSUME NEW r \in Procs,
                 \/ \E waits \in BOOLEAN : Begin(r, waits)
                 \/ \E f \in Files : Create(r, f)
                 \/ Open(r) \/ Refuse(r) \/ Validate(r) \/ Lock(r) \/ Busy(r)
          PROVE  UNCHANGED <<Holders, Strays>>
      BY <1>2, <2>1 DEF Begin, Create, Open, Refuse, Validate, Lock, Busy
    <2>2. ASSUME NEW r \in Procs, Compare(r)
          PROVE  \/ UNCHANGED <<Holders, Strays>>
                 \/ AbstractLock!Acquire(r)
      <3>1. CASE pc'[r] = "held"
        <4>1. Holders' = Holders \cup {r} /\ r \notin Holders
          BY <1>2, <2>2, <3>1 DEF Compare
        <4>2. flock[named] = r /\ named = opened[r]
          BY <1>2, <2>2, <3>1 DEF Compare
        <4>3. Strays' = Strays
          BY <1>2, <2>2, <3>1, <4>2 DEF Compare
        <4>4. Holders = Strays
          BY <1>2, <2>2, <4>1, <4>2
        <4>. QED BY <4>1, <4>3, <4>4 DEF AbstractLock!Acquire
      <3>2. CASE pc'[r] # "held"
        BY <1>2, <2>2, <3>2 DEF Compare
      <3>. QED BY <3>1, <3>2
    <2>3. ASSUME NEW r \in Procs, Release(r) \/ Crash(r)
          PROVE  \/ UNCHANGED <<Holders, Strays>>
                 \/ AbstractLock!Release(r)
      BY <1>2, <2>3 DEF Release, Crash, AbstractLock!Release
    <2>4. ASSUME NEW kept \in BOOLEAN, Replace(kept)
          PROVE  \/ UNCHANGED <<Holders, Strays>>
                 \/ \E r \in Procs : AbstractLock!Displace(r)
      <3>1. Holders' = Holders /\ Strays' = Holders
        BY <1>2, <2>4 DEF Replace
      <3>2. CASE Holders = Strays
        BY <3>1, <3>2
      <3>3. CASE Holders # Strays
        <4>1. PICK r \in Holders \ Strays : TRUE
          BY <3>3
        <4>2. Holders \ Strays = {r}
          BY <1>2, <4>1, SameFileSameHolder
        <4>. QED BY <3>1, <4>1, <4>2 DEF AbstractLock!Displace
      <3>. QED BY <3>2, <3>3
    <2>5. CASE UNCHANGED vars
      BY <2>5 DEF vars
    <2>. QED BY <1>2, <2>1, <2>2, <2>3, <2>4, <2>5
         DEF Next, Progress, AbstractLock!Next
  <1>. QED BY <1>1, <1>2, TypeAlways, PTL
       DEF Spec, ImplementsMutex, AbstractLock!Spec
============================================================================
