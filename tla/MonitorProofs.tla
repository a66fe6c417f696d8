--------------------------- MODULE MonitorProofs ---------------------------
(***************************************************************************)
(* What holds of Monitor for any volume, thresholds, cooldowns, intervals, *)
(* number of guard clean processes, runs and faults.                       *)
(***************************************************************************)
EXTENDS Monitor, TLAPS

\* A cycle that goes for the lock was due by one of the two timers, and time
\* does not take that back.
DueHolds ==
    pc \in {"lock", "fresh"} =>
      IF Short(snap) THEN coolIn = 0 ELSE maintIn = 0

\* What is left of a timer and what has passed since it was armed make up at
\* least its length.
TimersCount ==
    last # None =>
      IF Short(last) THEN coolIn + since >= CooldownOf(last)
      ELSE maintIn + since >= interval

\* A probe follows a load that gave the configuration in use.
LoadedHere == pc = "probe" => loaded = config

IInv ==
    /\ TypeOK
    /\ LoadedHere
    /\ FailsClosed
    /\ Serialized
    /\ DueHolds
    /\ TimersCount

\* Every pressure has a cooldown.
LEMMA CooldownType == ASSUME NEW f PROVE CooldownOf(f) \in 0 .. Horizon
  BY TimeAssumption DEF CooldownOf, Classify, Healthy

LEMMA InitIInv == Init => IInv
<1> SUFFICES ASSUME Init PROVE IInv
  OBVIOUS
<1>1. TypeOK
  BY TimeAssumption, SettingsAssumption DEF Init, TypeOK, Stages, Guards, Lock!Init
<1>2. LoadedHere /\ FailsClosed /\ Serialized /\ DueHolds /\ TimersCount
  BY DEF Init, LoadedHere, FailsClosed, Serialized, Cleaners, DueHolds, TimersCount, Lock!Init
<1>3. QED
  BY <1>1, <1>2 DEF IInv

LEMMA StepIInv == IInv /\ [Next]_vars => IInv'
<1> SUFFICES ASSUME IInv, [Next]_vars PROVE IInv'
  OBVIOUS
<1> USE TimeAssumption, SettingsAssumption, UsersAssumption
    DEF IInv, others, locking, timers, history, Goto, Guards
<1>0. CASE UNCHANGED vars
  BY <1>0 DEF vars, TypeOK, LoadedHere, FailsClosed, Serialized, Cleaners, DueHolds, TimersCount
<1>1. ASSUME Start PROVE IInv'
  <2> USE <1>1 DEF Start
  <2>1. TypeOK'
    BY CooldownType DEF TypeOK, Stages
  <2>2. LoadedHere' /\ FailsClosed'
    BY DEF TypeOK, LoadedHere, FailsClosed
  <2>3. Serialized'
    BY DEF TypeOK, Serialized, Cleaners
  <2>4. DueHolds'
    BY DEF TypeOK, DueHolds
  <2>5. TimersCount'
    BY CooldownType DEF TypeOK, TimersCount
  <2>6. QED
    BY <2>1, <2>2, <2>3, <2>4, <2>5
<1>2. ASSUME LoadConfig PROVE IInv'
  <2> USE <1>2 DEF LoadConfig
  <2>1. TypeOK'
    BY CooldownType DEF TypeOK, Stages
  <2>2. LoadedHere' /\ FailsClosed'
    BY DEF TypeOK, LoadedHere, FailsClosed
  <2>3. Serialized'
    BY DEF TypeOK, Serialized, Cleaners
  <2>4. DueHolds'
    BY DEF TypeOK, DueHolds
  <2>5. TimersCount'
    BY CooldownType DEF TypeOK, TimersCount
  <2>6. QED
    BY <2>1, <2>2, <2>3, <2>4, <2>5
<1>3. ASSUME Probe PROVE IInv'
  <2> USE <1>3 DEF Probe, Due
  <2>1. TypeOK'
    BY CooldownType DEF TypeOK, Stages
  <2>2. LoadedHere' /\ FailsClosed'
    BY DEF TypeOK, LoadedHere, FailsClosed
  <2>3. Serialized'
    BY DEF TypeOK, Serialized, Cleaners
  <2>4. DueHolds'
    BY DEF TypeOK, DueHolds
  <2>5. TimersCount'
    BY CooldownType DEF TypeOK, TimersCount
  <2>6. QED
    BY <2>1, <2>2, <2>3, <2>4, <2>5
<1>4. ASSUME TryLock PROVE IInv'
  <2> USE <1>4 DEF TryLock, Lock!Acquire
  <2>1. TypeOK'
    BY CooldownType DEF TypeOK, Stages
  <2>2. LoadedHere' /\ FailsClosed'
    BY DEF TypeOK, LoadedHere, FailsClosed
  <2>3. Serialized'
    <3>1. CASE holders = strays
      <4>1. Cleaners' = holders \cup {"monitor"} /\ holders' = holders \cup {"monitor"}
        BY <3>1 DEF Serialized, Cleaners
      <4>2. strays' = holders
        BY <3>1
      <4>3. QED
        BY <4>1, <4>2 DEF Serialized
    <3>2. CASE holders # strays
      BY <3>2 DEF Serialized, Cleaners
    <3>3. QED
      BY <3>1, <3>2
  <2>4. DueHolds'
    BY DEF TypeOK, DueHolds
  <2>5. TimersCount'
    BY CooldownType DEF TypeOK, TimersCount
  <2>6. QED
    BY <2>1, <2>2, <2>3, <2>4, <2>5
<1>5. ASSUME FreshProbe PROVE IInv'
  <2> USE <1>5 DEF FreshProbe
  <2>1. TypeOK'
    BY CooldownType DEF TypeOK, Stages
  <2>2. LoadedHere' /\ FailsClosed'
    BY DEF TypeOK, LoadedHere, FailsClosed
  <2>3. Serialized'
    BY DEF TypeOK, Serialized, Cleaners
  <2>4. DueHolds'
    BY DEF TypeOK, DueHolds
  <2>5. TimersCount'
    BY CooldownType DEF TypeOK, TimersCount
  <2>6. QED
    BY <2>1, <2>2, <2>3, <2>4, <2>5
<1>6. ASSUME ProbeFails PROVE IInv'
  <2> USE <1>6 DEF ProbeFails, Drop, Fault
  <2>1. TypeOK'
    BY CooldownType DEF TypeOK, Stages
  <2>2. LoadedHere' /\ FailsClosed'
    BY DEF TypeOK, LoadedHere, FailsClosed
  <2>3. Serialized'
    BY DEF TypeOK, Serialized, Cleaners
  <2>4. DueHolds'
    BY DEF TypeOK, DueHolds
  <2>5. TimersCount'
    BY CooldownType DEF TypeOK, TimersCount
  <2>6. QED
    BY <2>1, <2>2, <2>3, <2>4, <2>5
<1>7. ASSUME CleanSucceeds PROVE IInv'
  <2> USE <1>7 DEF CleanSucceeds, Rearm, Lock!Release
  <2>1. TypeOK'
    BY CooldownType DEF TypeOK, Stages
  <2>2. LoadedHere' /\ FailsClosed'
    BY DEF TypeOK, LoadedHere, FailsClosed
  <2>3. Serialized'
    BY DEF TypeOK, Serialized, Cleaners
  <2>4. DueHolds'
    BY DEF TypeOK, DueHolds
  <2>5. TimersCount'
    BY CooldownType DEF TypeOK, TimersCount
  <2>6. QED
    BY <2>1, <2>2, <2>3, <2>4, <2>5
<1>8. ASSUME CleanFails PROVE IInv'
  <2> USE <1>8 DEF CleanFails, Lock!Release
  <2>1. TypeOK'
    BY CooldownType DEF TypeOK, Stages
  <2>2. LoadedHere' /\ FailsClosed'
    BY DEF TypeOK, LoadedHere, FailsClosed
  <2>3. Serialized'
    BY DEF TypeOK, Serialized, Cleaners
  <2>4. DueHolds'
    BY DEF TypeOK, DueHolds
  <2>5. TimersCount'
    BY CooldownType DEF TypeOK, TimersCount
  <2>6. QED
    BY <2>1, <2>2, <2>3, <2>4, <2>5
<1>9. ASSUME Report PROVE IInv'
  <2> USE <1>9 DEF Report
  <2>1. TypeOK'
    BY CooldownType DEF TypeOK, Stages
  <2>2. LoadedHere' /\ FailsClosed'
    BY DEF TypeOK, LoadedHere, FailsClosed
  <2>3. Serialized'
    BY DEF TypeOK, Serialized, Cleaners
  <2>4. DueHolds'
    BY DEF TypeOK, DueHolds
  <2>5. TimersCount'
    BY CooldownType DEF TypeOK, TimersCount
  <2>6. QED
    BY <2>1, <2>2, <2>3, <2>4, <2>5
<1>10. ASSUME Wake PROVE IInv'
  <2> USE <1>10 DEF Wake
  <2>1. TypeOK'
    BY CooldownType DEF TypeOK, Stages
  <2>2. LoadedHere' /\ FailsClosed'
    BY DEF TypeOK, LoadedHere, FailsClosed
  <2>3. Serialized'
    BY DEF TypeOK, Serialized, Cleaners
  <2>4. DueHolds'
    BY DEF TypeOK, DueHolds
  <2>5. TimersCount'
    BY CooldownType DEF TypeOK, TimersCount
  <2>6. QED
    BY <2>1, <2>2, <2>3, <2>4, <2>5
<1>11. ASSUME Die PROVE IInv'
  <2> USE <1>11 DEF Die, Drop, Fault
  <2>1. TypeOK'
    BY CooldownType DEF TypeOK, Stages
  <2>2. LoadedHere' /\ FailsClosed'
    BY DEF TypeOK, LoadedHere, FailsClosed
  <2>3. Serialized'
    BY DEF TypeOK, Serialized, Cleaners
  <2>4. DueHolds'
    BY DEF TypeOK, DueHolds
  <2>5. TimersCount'
    BY CooldownType DEF TypeOK, TimersCount
  <2>6. QED
    BY <2>1, <2>2, <2>3, <2>4, <2>5
<1>12. ASSUME NEW c \in Clis, CliBegin(c) PROVE IInv'
  <2> USE <1>12 DEF CliBegin
  <2>1. TypeOK'
    BY CooldownType DEF TypeOK, Stages
  <2>2. LoadedHere' /\ FailsClosed'
    BY DEF TypeOK, LoadedHere, FailsClosed
  <2>3. Serialized'
    BY DEF TypeOK, Serialized, Cleaners
  <2>4. DueHolds'
    BY DEF TypeOK, DueHolds
  <2>5. TimersCount'
    BY CooldownType DEF TypeOK, TimersCount
  <2>6. QED
    BY <2>1, <2>2, <2>3, <2>4, <2>5
<1>13. ASSUME NEW c \in Clis, CliAcquire(c) PROVE IInv'
  <2> USE <1>13 DEF CliAcquire, Lock!Acquire
  <2>1. TypeOK'
    BY CooldownType DEF TypeOK, Stages
  <2>2. LoadedHere' /\ FailsClosed'
    BY DEF TypeOK, LoadedHere, FailsClosed
  <2>3. Serialized'
    BY DEF TypeOK, Serialized, Cleaners
  <2>4. DueHolds'
    BY DEF TypeOK, DueHolds
  <2>5. TimersCount'
    BY CooldownType DEF TypeOK, TimersCount
  <2>6. QED
    BY <2>1, <2>2, <2>3, <2>4, <2>5
<1>14. ASSUME NEW c \in Clis, CliGivesUp(c) PROVE IInv'
  <2> USE <1>14 DEF CliGivesUp
  <2>1. TypeOK'
    BY CooldownType DEF TypeOK, Stages
  <2>2. LoadedHere' /\ FailsClosed'
    BY DEF TypeOK, LoadedHere, FailsClosed
  <2>3. Serialized'
    BY DEF TypeOK, Serialized, Cleaners
  <2>4. DueHolds'
    BY DEF TypeOK, DueHolds
  <2>5. TimersCount'
    BY CooldownType DEF TypeOK, TimersCount
  <2>6. QED
    BY <2>1, <2>2, <2>3, <2>4, <2>5
<1>15. ASSUME NEW c \in Clis, CliEnds(c) PROVE IInv'
  <2> USE <1>15 DEF CliEnds, Lock!Release
  <2>1. TypeOK'
    BY CooldownType DEF TypeOK, Stages
  <2>2. LoadedHere' /\ FailsClosed'
    BY DEF TypeOK, LoadedHere, FailsClosed
  <2>3. Serialized'
    BY DEF TypeOK, Serialized, Cleaners
  <2>4. DueHolds'
    BY DEF TypeOK, DueHolds
  <2>5. TimersCount'
    BY CooldownType DEF TypeOK, TimersCount
  <2>6. QED
    BY <2>1, <2>2, <2>3, <2>4, <2>5
<1>16. ASSUME UserUses PROVE IInv'
  <2> USE <1>16 DEF UserUses
  <2>1. TypeOK'
    BY CooldownType DEF TypeOK, Stages
  <2>2. LoadedHere' /\ FailsClosed'
    BY DEF TypeOK, LoadedHere, FailsClosed
  <2>3. Serialized'
    BY DEF TypeOK, Serialized, Cleaners
  <2>4. DueHolds'
    BY DEF TypeOK, DueHolds
  <2>5. TimersCount'
    BY CooldownType DEF TypeOK, TimersCount
  <2>6. QED
    BY <2>1, <2>2, <2>3, <2>4, <2>5
<1>17. ASSUME Edit PROVE IInv'
  <2> USE <1>17 DEF Edit
  <2>1. TypeOK'
    BY CooldownType DEF TypeOK, Stages
  <2>2. LoadedHere' /\ FailsClosed'
    BY DEF TypeOK, LoadedHere, FailsClosed
  <2>3. Serialized'
    BY DEF TypeOK, Serialized, Cleaners
  <2>4. DueHolds'
    BY DEF TypeOK, DueHolds
  <2>5. TimersCount'
    BY CooldownType DEF TypeOK, TimersCount
  <2>6. QED
    BY <2>1, <2>2, <2>3, <2>4, <2>5
<1>18. ASSUME Tick PROVE IInv'
  <2> USE <1>18 DEF Tick, Decrement, Smaller
  <2>1. TypeOK'
    BY CooldownType DEF TypeOK, Stages
  <2>2. LoadedHere' /\ FailsClosed'
    BY DEF TypeOK, LoadedHere, FailsClosed
  <2>3. Serialized'
    BY DEF TypeOK, Serialized, Cleaners
  <2>4. DueHolds'
    BY DEF TypeOK, DueHolds
  <2>5. TimersCount'
    BY CooldownType DEF TypeOK, TimersCount
  <2>6. QED
    BY <2>1, <2>2, <2>3, <2>4, <2>5
<1>19. ASSUME NEW r \in Guards, Displace(r) PROVE IInv'
  <2> USE <1>19 DEF Displace, Lock!Displace
  <2>1. TypeOK'
    BY CooldownType DEF TypeOK, Stages
  <2>2. LoadedHere' /\ FailsClosed'
    BY DEF TypeOK, LoadedHere, FailsClosed
  <2>3. Serialized'
    BY DEF TypeOK, Serialized, Cleaners
  <2>4. DueHolds'
    BY DEF TypeOK, DueHolds
  <2>5. TimersCount'
    BY CooldownType DEF TypeOK, TimersCount
  <2>6. QED
    BY <2>1, <2>2, <2>3, <2>4, <2>5
<1>20. QED
  BY <1>0, <1>1, <1>2, <1>3, <1>4, <1>5, <1>6, <1>7, <1>8, <1>9, <1>10, <1>11, <1>12, <1>13, <1>14, <1>15, <1>16, <1>17, <1>18,
     <1>19 DEF Next, Monitor, Cli

LEMMA AlwaysIInv == Spec => []IInv
  BY InitIInv, StepIInv, PTL DEF Spec

\* The state is well typed: no timer runs below zero or is armed beyond what
\* the configuration and the cooldowns allow.
THEOREM TypeCorrect == Spec => []TypeOK
<1>1. IInv => TypeOK
  BY DEF IInv
<1>2. QED
  BY AlwaysIInv, <1>1, PTL

\* The monitor mutates nothing in a cycle that found no valid and enabled
\* configuration.
THEOREM FailsClosedCorrect == Spec => []FailsClosed
<1>1. IInv => FailsClosed
  BY DEF IInv
<1>2. QED
  BY AlwaysIInv, <1>1, PTL

\* Whoever cleans holds the lock, nobody else does, and only those overlap whose
\* lock file has been replaced under them.
THEOREM SerializedCorrect == Spec => []Serialized
<1>1. IInv => Serialized
  BY DEF IInv
<1>2. QED
  BY AlwaysIInv, <1>1, PTL

\* The cooldown and the maintenance interval are kept.
THEOREM PacedCorrect == Spec => Paced
<1> DEFINE Kept == last # None =>
              IF Short(snap) THEN Short(last) => since >= CooldownOf(last)
              ELSE ~Short(last) => since >= interval
<1>1. IInv /\ pc = "fresh" => Kept
  BY CooldownType, SettingsAssumption DEF IInv, TypeOK, DueHolds, TimersCount
<1>2. IInv /\ [Next]_vars => [pc = "fresh" /\ pc' = "clean" /\ last # None =>
                                IF Short(snap) THEN Short(last) => since >= CooldownOf(last)
                                ELSE ~Short(last) => since >= interval]_vars
  BY <1>1
<1>3. QED
  BY AlwaysIInv, <1>2, PTL DEF Spec, Paced
============================================================================
