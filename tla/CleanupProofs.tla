--------------------------- MODULE CleanupProofs ---------------------------
(* What holds of Cleanup for every value of its constants. *)
EXTENDS Cleanup, FiniteSetTheorems, TLAPS

\* The loop stands at a candidate of its plan, and the names it tries exist.
Removing == {"use", "profile", "intent", "check", "rename", "verify", "purge",
             "success", "failed", "skip"}
InRange ==
    \A r \in Procs :
      /\ pc[r] \in Removing => idx[r] \in 1 .. Len(plan[r])
      /\ pc[r] \in {"rename", "verify", "purge"} => seq[r] < MaxSeq

TypeInv == TypeOK /\ InRange

\* What the successful steps of one process change, for the type argument.
LEMMA PlannedType ==
    ASSUME TypeInv, NEW r \in Procs, idx[r] \in 1 .. Len(plan[r])
    PROVE  Planned(r) \in Candidates
  BY DEF TypeInv, TypeOK, CycleOK, Planned

LEMMA QuarantineNameType ==
    ASSUME TypeInv, NEW r \in Procs, pc[r] \in {"rename", "verify", "purge"}
    PROVE  QuarantineName(r) \in Names
  <1>1. Planned(r) \in Candidates
    BY PlannedType DEF TypeInv, InRange, Removing
  <1>2. seq[r] \in 0 .. MaxSeq - 1
    BY LimitAssumption DEF TypeInv, InRange, TypeOK, CycleOK
  <1>. QED BY <1>1, <1>2 DEF QuarantineName, Names, Candidates

\* Appending a record of the candidate keeps the log well typed ...
LEMMA AuditType ==
    ASSUME TypeInv, NEW r \in Procs, idx[r] \in 1 .. Len(plan[r]),
           NEW o \in Outcomes, AppendAudit(r, o)
    PROVE  audit' \in [Procs -> Seq(Records)]
  <1>1. Record(r, o) \in Records
    BY PlannedType DEF Record, Records, Candidates, TypeInv, TypeOK, CycleOK
  <1>2. Append(audit[r], Record(r, o)) \in Seq(Records)
    BY <1>1 DEF TypeInv, TypeOK, DurableOK
  <1>. QED BY <1>2 DEF AppendAudit, TypeInv, TypeOK, DurableOK

\* ... and reporting it moves on to the next one.
LEMMA ActionType ==
    ASSUME TypeInv, NEW r \in Procs, idx[r] \in 1 .. Len(plan[r]),
           NEW o \in {"would_remove", "removed", "failed", "skipped"},
           PushAction(r, o), NextCandidate(r),
           UNCHANGED <<mode, cycle, plan, seq>>
    PROVE  CycleOK' /\ InRange'
  <1> DEFINE action == [path |-> Planned(r).path, outcome |-> o]
  <1>1. action \in Actions
    BY PlannedType DEF Actions, Candidates
  <1>2. Append(report[r], action) \in Seq(Actions)
    BY <1>1 DEF TypeInv, TypeOK, CycleOK
  <1>3. report' \in [Procs -> Seq(Actions)]
    BY <1>2 DEF PushAction, TypeInv, TypeOK, CycleOK
  <1>4. CycleOK'
    <2>1. pc' \in [Procs -> Stages]
      BY DEF NextCandidate, Goto, TypeInv, TypeOK, CycleOK, Stages
    <2>2. idx' \in [Procs -> Nat \ {0}]
      BY DEF NextCandidate, TypeInv, TypeOK, CycleOK
    <2>. QED BY <1>3, <2>1, <2>2 DEF TypeInv, TypeOK, CycleOK
  <1>5. InRange'
    BY DEF NextCandidate, Goto, TypeInv, TypeOK, CycleOK, InRange, Removing
  <1>. QED BY <1>4, <1>5

LEMMA EndCycleType ==
    ASSUME TypeInv, NEW r \in Procs, EndCycle(r)
    PROVE  CycleOK' /\ InRange'
  BY LimitAssumption
     DEF TypeInv, TypeOK, CycleOK, InRange, EndCycle, Goto, Stages, Removing

USE DEF disk, outside, local, durable, counters

LEMMA TypeInit == Init => TypeInv
  BY LimitAssumption DEF Init, TypeInv, TypeOK, DiskOK, OutsideOK, CycleOK, DurableOK,
     CountersOK, InRange, Stages, Removing, Reports

\* One case per step of a process whose calls succeed.
LEMMA ProgressType ==
    ASSUME TypeInv, NEW r \in Procs, Progress(r)
    PROVE  TypeInv'
  <1>1. CASE \E p \in Paths : Consider(r, p)
    <2>1. PICK p \in Paths : Consider(r, p)
      BY <1>1
    <2>2. CandidateAt(p) \in Candidates
      BY <2>1, NoneAssumption DEF Consider, Inspects, CandidateAt, Candidates,
         TypeInv, TypeOK, DiskOK
    <2>3. Append(plan[r], CandidateAt(p)) \in Seq(Candidates)
      BY <2>2 DEF TypeInv, TypeOK, CycleOK
    <2>4. CycleOK'
      BY <2>1, <2>3 DEF Consider, TypeInv, TypeOK, CycleOK
    <2>5. InRange'
      BY <2>1 DEF Consider, TypeInv, TypeOK, CycleOK, InRange, Removing
    <2>. QED BY <2>1, <2>4, <2>5 DEF Consider, TypeInv, TypeOK, DiskOK,
         OutsideOK, DurableOK, CountersOK
  <1>2. CASE EndPlan(r)
    BY <1>2 DEF EndPlan, TypeInv, TypeOK, DiskOK, OutsideOK, CycleOK,
       DurableOK, CountersOK, InRange, Stages, Removing, Goto
  <1>3. CASE ReportOnly(r)
    <2>1. idx[r] \in 1 .. Len(plan[r])
      BY <1>3 DEF ReportOnly, TypeInv, TypeOK, CycleOK, InRange, Removing, InPlan
    <2>2. DurableOK'
      BY <1>3, <2>1, AuditType DEF ReportOnly, TypeInv, TypeOK, DurableOK, Outcomes
    <2>3. CycleOK' /\ InRange'
      BY <1>3, <2>1, ActionType DEF ReportOnly
    <2>. QED BY <1>3, <2>2, <2>3 DEF ReportOnly, TypeInv, TypeOK, DiskOK, OutsideOK,
         CountersOK
  <1>4. CASE InspectContext(r)
    BY <1>4 DEF InspectContext, TypeInv, TypeOK, DiskOK, OutsideOK, CycleOK,
       DurableOK, CountersOK, InRange, Stages, Removing, Goto,
       InPlan
  <1>5. CASE InspectUse(r)
    BY <1>5 DEF InspectUse, TypeInv, TypeOK, DiskOK, OutsideOK, CycleOK,
       DurableOK, CountersOK, InRange, Stages, Removing, Goto
  <1>6. CASE InspectProfile(r)
    BY <1>6 DEF InspectProfile, TypeInv, TypeOK, DiskOK, OutsideOK, CycleOK,
       DurableOK, CountersOK, InRange, Stages, Removing, Goto
  <1>7. CASE Skip(r)
    <2>1. idx[r] \in 1 .. Len(plan[r])
      BY <1>7 DEF Skip, TypeInv, TypeOK, CycleOK, InRange, Removing
    <2>2. DurableOK'
      BY <1>7, <2>1, AuditType DEF Skip, TypeInv, TypeOK, DurableOK, Outcomes
    <2>3. CycleOK' /\ InRange'
      BY <1>7, <2>1, ActionType DEF Skip
    <2>. QED BY <1>7, <2>2, <2>3 DEF Skip, TypeInv, TypeOK, DiskOK, OutsideOK,
         CountersOK
  <1>8. CASE AuditIntent(r)
    <2>1. idx[r] \in 1 .. Len(plan[r])
      BY <1>8 DEF AuditIntent, TypeInv, InRange, Removing
    <2>2. DurableOK'
      BY <1>8, <2>1, AuditType DEF AuditIntent, TypeInv, TypeOK, DurableOK,
         Outcomes
    <2>3. CycleOK' /\ InRange'
      BY <1>8, <2>1, LimitAssumption DEF AuditIntent, TypeInv, TypeOK, CycleOK,
         InRange, Goto, Stages, Removing
    <2>. QED BY <1>8, <2>2, <2>3 DEF AuditIntent, TypeInv, TypeOK, DiskOK,
         OutsideOK, CountersOK
  <1>9. CASE RevalidateIdentity(r)
    BY <1>9, LimitAssumption DEF RevalidateIdentity, TypeInv, TypeOK, DiskOK, OutsideOK, CycleOK,
       DurableOK, CountersOK, InRange, Stages, Removing, Goto
  <1>10. CASE RenameMissing(r)
    BY <1>10 DEF RenameMissing, TypeInv, TypeOK, DiskOK, OutsideOK, CycleOK,
       DurableOK, CountersOK, InRange, Stages, Removing, Goto
  <1>11. CASE RenameTaken(r)
    BY <1>11, LimitAssumption DEF RenameTaken, TypeInv, TypeOK, DiskOK, OutsideOK, CycleOK,
       DurableOK, CountersOK, InRange, Stages, Removing, Goto
  <1>12. CASE RenameIntoQuarantine(r)
    <2>1. QuarantineName(r) \in Names /\ Planned(r) \in Candidates
      BY <1>12, QuarantineNameType, PlannedType
         DEF RenameIntoQuarantine, TypeInv, InRange, Removing
    <2>2. DiskOK'
      BY <1>12, <2>1 DEF RenameIntoQuarantine, TypeInv, TypeOK, DiskOK, Candidates
    <2>3. CycleOK' /\ InRange'
      BY <1>12 DEF RenameIntoQuarantine, TypeInv, TypeOK, CycleOK, InRange, Goto,
         Stages, Removing
    <2>. QED BY <1>12, <2>2, <2>3 DEF RenameIntoQuarantine, TypeInv, TypeOK,
         OutsideOK, DurableOK, CountersOK
  <1>13. CASE VerifyQuarantine(r)
    BY <1>13 DEF VerifyQuarantine, TypeInv, TypeOK, DiskOK, OutsideOK, CycleOK,
       DurableOK, CountersOK, InRange, Stages, Removing, Goto
  <1>14. CASE PurgeSome(r)
    BY <1>14 DEF PurgeSome, TypeInv, TypeOK, DiskOK, OutsideOK, CycleOK,
       DurableOK, CountersOK, InRange, Stages, Removing, Goto
  <1>15. CASE PurgeAll(r)
    <2>1. QuarantineName(r) \in Names /\ Planned(r) \in Candidates
      BY <1>15, QuarantineNameType, PlannedType
         DEF PurgeAll, TypeInv, InRange, Removing
    <2>2. trash[QuarantineName(r)] \in Inodes
      BY <1>15, <2>1 DEF PurgeAll, TypeInv, TypeOK, DiskOK
    <2>3. DiskOK' /\ OutsideOK'
      BY <1>15, <2>1, <2>2 DEF PurgeAll, TypeInv, TypeOK, DiskOK, OutsideOK
    <2>4. CycleOK' /\ InRange'
      BY <1>15 DEF PurgeAll, TypeInv, TypeOK, CycleOK, InRange, Goto, Stages,
         Removing
    <2>5. DurableOK'
      BY <1>15, <2>1, <2>2 DEF PurgeAll, TypeInv, TypeOK, CycleOK, DurableOK,
         Removals, Candidates
    <2>. QED BY <1>15, <2>3, <2>4, <2>5 DEF PurgeAll, TypeInv, TypeOK, CountersOK
  <1>16. CASE PurgeMissing(r)
    BY <1>16 DEF PurgeMissing, TypeInv, TypeOK, DiskOK, OutsideOK, CycleOK,
       DurableOK, CountersOK, InRange, Stages, Removing, Goto
  <1>17. CASE AuditSuccess(r)
    <2>1. idx[r] \in 1 .. Len(plan[r])
      BY <1>17 DEF AuditSuccess, TypeInv, TypeOK, CycleOK, InRange, Removing
    <2>2. DurableOK'
      BY <1>17, <2>1, AuditType DEF AuditSuccess, TypeInv, TypeOK, DurableOK, Outcomes
    <2>3. CycleOK' /\ InRange'
      BY <1>17, <2>1, ActionType DEF AuditSuccess
    <2>. QED BY <1>17, <2>2, <2>3 DEF AuditSuccess, TypeInv, TypeOK, DiskOK, OutsideOK,
         CountersOK
  <1>18. CASE AuditFailure(r)
    <2>1. idx[r] \in 1 .. Len(plan[r])
      BY <1>18 DEF AuditFailure, TypeInv, TypeOK, CycleOK, InRange, Removing
    <2>2. DurableOK'
      BY <1>18, <2>1, AuditType DEF AuditFailure, TypeInv, TypeOK, DurableOK, Outcomes
    <2>3. CycleOK' /\ InRange'
      BY <1>18, <2>1, ActionType DEF AuditFailure
    <2>. QED BY <1>18, <2>2, <2>3 DEF AuditFailure, TypeInv, TypeOK, DiskOK, OutsideOK,
         CountersOK
  <1>19. CASE LoopDone(r)
    BY <1>19 DEF LoopDone, TypeInv, TypeOK, DiskOK, OutsideOK, CycleOK,
       DurableOK, CountersOK, InRange, Stages, Removing, Goto,
       InPlan
  <1>20. CASE SaveReport(r)
    BY <1>20, EndCycleType DEF SaveReport, TypeInv, TypeOK, DiskOK, OutsideOK, CycleOK,
       DurableOK, CountersOK, InRange, Stages, Removing, Goto,
       EndCycle, Reports
  <1>. QED BY <1>1, <1>2, <1>3, <1>4, <1>5, <1>6, <1>7, <1>8, <1>9, <1>10, <1>11, <1>12, <1>13, <1>14, <1>15, <1>16, <1>17, <1>18, <1>19, <1>20
     DEF Progress

LEMMA StartType ==
    ASSUME TypeInv, NEW r \in Procs, NEW m \in {"dry_run", "execute"},
           StartCycle(r, m)
    PROVE  TypeInv'
  BY DEF StartCycle, TypeInv, TypeOK, DiskOK, OutsideOK, CycleOK,
       DurableOK, CountersOK, InRange, Stages, Removing, Goto

LEMMA TroubleType ==
    ASSUME TypeInv, NEW r \in Procs, Trouble(r)
    PROVE  TypeInv'
  <1>1. ASSUME NEW landed \in BOOLEAN, AppendFails(r, landed)
        PROVE  TypeInv'
    <2>1. CycleOK' /\ InRange'
      BY <1>1, EndCycleType DEF AppendFails
    <2>2. idx[r] \in 1 .. Len(plan[r])
      BY <1>1 DEF AppendFails, InPlan, TypeInv, TypeOK, CycleOK, InRange,
         Removing
    <2>3. DurableOK'
      BY <1>1, <2>2, AuditType DEF AppendFails, TypeInv, TypeOK, DurableOK
    <2>. QED BY <1>1, <2>1, <2>3 DEF AppendFails, Fault, TypeInv, TypeOK, DiskOK,
         OutsideOK, CountersOK
  <1>2. CASE RemovalFails(r)
    BY <1>2 DEF RemovalFails, Fault, TypeInv, TypeOK, DiskOK, OutsideOK, CycleOK,
       DurableOK, CountersOK, InRange, Stages, Removing, Goto
  <1>3. CASE CycleFails(r)
    BY <1>3, EndCycleType DEF CycleFails, Fault, TypeInv, TypeOK, DiskOK,
       OutsideOK, DurableOK, CountersOK
  <1>4. CASE Crash(r)
    BY <1>4, EndCycleType DEF Crash, TypeInv, TypeOK, DiskOK, OutsideOK,
       DurableOK, CountersOK
  <1>. QED BY <1>1, <1>2, <1>3, <1>4 DEF Trouble

LEMMA UserType ==
    ASSUME TypeInv, User
    PROVE  TypeInv'
  <1>. USE DEF User, WorldTurns, BoundExceptWorld, Guards, UserWrites,
         UserAges, UserCreates, UserRefers, UserReclassifies, UserRemoves,
         UserEmpties, UserRestores
  <1>1. CycleOK' /\ DurableOK' /\ CountersOK' /\ InRange'
    BY DEF TypeInv, TypeOK, CycleOK, DurableOK, CountersOK, InRange
  <1>2. DiskOK'
    BY DEF TypeInv, TypeOK, DiskOK, Names
  <1>3. OutsideOK'
    <2>1. verdict' \in [Inodes -> {"aged", "young", "unsound"}]
      BY DEF TypeInv, TypeOK, OutsideOK
    <2>2. refs' \in [Inodes -> SUBSET {"link", "map"}]
      BY DEF TypeInv, TypeOK, OutsideOK
    <2>3. eligible' \in SUBSET Paths
      BY DEF TypeInv, TypeOK, OutsideOK
    <2>. QED BY <2>1, <2>2, <2>3 DEF OutsideOK
  <1>. QED BY <1>1, <1>2, <1>3 DEF TypeInv, TypeOK

LEMMA TypeStep == TypeInv /\ [Next]_vars => TypeInv'
  <1>1. ASSUME TypeInv, Next PROVE TypeInv'
    BY <1>1, StartType, ProgressType, TroubleType, UserType DEF Next
  <1>2. ASSUME TypeInv, UNCHANGED vars PROVE TypeInv'
    BY <1>2 DEF vars, TypeInv, TypeOK, DiskOK, OutsideOK, CycleOK, DurableOK,
       CountersOK, InRange
  <1>. QED BY <1>1, <1>2

\* Every state is well typed and the executor stays inside its plan and
\* inside the quarantine names it may try (execute_cleanup,
\* quarantine_and_remove), whatever the constants are.
THEOREM TypeCorrect == Spec => []TypeOK
  <1>1. TypeInv => TypeOK
    BY DEF TypeInv
  <1>. QED BY TypeInit, TypeStep, <1>1, PTL DEF Spec

----------------------------------------------------------------------------
(* Names.                                                                  *)

LEMMA NamesInit == Init => NamesAreExact
  BY NoneAssumption DEF Init, NamesAreExact, NamesAreLive, NamesAreUnique, NothingIsLost,
     Live

LEMMA NamesOfQuarantine ==
    ASSUME TypeInv, NamesAreExact, NEW r \in Procs,
           RenameIntoQuarantine(r) \/ PurgeSome(r) \/ PurgeAll(r)
    PROVE  NamesAreExact'
  <1> DEFINE n == QuarantineName(r)
             q == Planned(r).path
  <1>1. n \in Names /\ q \in Paths
    BY QuarantineNameType, PlannedType DEF RenameIntoQuarantine, PurgeSome,
       PurgeAll, TypeInv, InRange, Removing, Candidates
  <1>. USE NoneAssumption DEF TypeInv, TypeOK, DiskOK, NamesAreExact, Live
  <1>2. CASE RenameIntoQuarantine(r)
    <2>1. /\ trash' = [trash EXCEPT ![n] = at[q]]
          /\ at' = [at EXCEPT ![q] = None]
          /\ tree' = tree
          /\ at[q] # None
          /\ trash[n] = None
      BY <1>2 DEF RenameIntoQuarantine
    <2>2. NamesAreLive'
      BY <1>1, <2>1 DEF NamesAreLive
    <2>3. NamesAreUnique'
      BY <1>1, <2>1 DEF NamesAreUnique
    <2>4. NothingIsLost'
      BY <1>1, <2>1 DEF NothingIsLost, NamesAreLive
    <2>. QED BY <2>2, <2>3, <2>4
  <1>3. CASE PurgeSome(r)
    <2>1. /\ tree' = [tree EXCEPT ![trash[n]] = "partial"]
          /\ tree[trash[n]] = "whole"
          /\ UNCHANGED <<at, trash>>
          /\ trash[n] \in Inodes
      BY <1>1, <1>3 DEF PurgeSome
    <2>. QED BY <1>1, <2>1 DEF NamesAreLive, NamesAreUnique, NothingIsLost
  <1>4. CASE PurgeAll(r)
    <2>1. /\ tree' = [tree EXCEPT ![trash[n]] = "gone"]
          /\ trash' = [trash EXCEPT ![n] = None]
          /\ at' = at
          /\ trash[n] \in Inodes
      BY <1>1, <1>4 DEF PurgeAll
    <2>2. NamesAreLive'
      BY <1>1, <2>1 DEF NamesAreLive, NamesAreUnique
    <2>3. NamesAreUnique'
      BY <1>1, <2>1 DEF NamesAreUnique
    <2>4. NothingIsLost'
      BY <1>1, <2>1 DEF NothingIsLost
    <2>. QED BY <2>2, <2>3, <2>4
  <1>. QED BY <1>2, <1>3, <1>4

LEMMA NamesOfUser ==
    ASSUME TypeInv, NamesAreExact, User
    PROVE  NamesAreExact'
  <1>. USE NoneAssumption DEF TypeInv, TypeOK, DiskOK, NamesAreExact, Live
  <1>1. ASSUME NEW p \in Paths, UserRemoves(p)
        PROVE  NamesAreExact'
    <2>1. /\ at' = [at EXCEPT ![p] = None]
          /\ tree' = [tree EXCEPT ![at[p]] = "free"]
          /\ trash' = trash
          /\ at[p] \in Inodes
      BY <1>1 DEF UserRemoves
    <2>2. NamesAreLive'
      BY <2>1 DEF NamesAreLive, NamesAreUnique
    <2>3. NamesAreUnique' /\ NothingIsLost'
      BY <2>1 DEF NamesAreUnique, NothingIsLost
    <2>. QED BY <2>2, <2>3
  <1>2. ASSUME NEW p \in Paths, NEW i \in Inodes, NEW v, UserCreates(p, i, v)
        PROVE  NamesAreExact'
    <2>1. /\ at' = [at EXCEPT ![p] = i]
          /\ tree' = [tree EXCEPT ![i] = "whole"]
          /\ trash' = trash
          /\ at[p] = None
          /\ ~Live(i)
      BY <1>2 DEF UserCreates
    <2>2. /\ \A q \in Paths : at[q] # i
          /\ \A n \in Names : trash[n] # i
      BY <2>1 DEF NamesAreLive
    <2>3. NamesAreLive'
      BY <2>1 DEF NamesAreLive
    <2>4. NamesAreUnique'
      BY <2>1, <2>2 DEF NamesAreUnique
    <2>5. NothingIsLost'
      BY <2>1, <2>2 DEF NothingIsLost
    <2>. QED BY <2>3, <2>4, <2>5
  <1>3. ASSUME NEW n \in Names, UserEmpties(n)
        PROVE  NamesAreExact'
    <2>1. /\ trash' = [trash EXCEPT ![n] = None]
          /\ tree' = [tree EXCEPT ![trash[n]] = "free"]
          /\ at' = at
          /\ trash[n] \in Inodes
      BY <1>3 DEF UserEmpties
    <2>2. NamesAreLive'
      BY <2>1 DEF NamesAreLive, NamesAreUnique
    <2>3. NamesAreUnique' /\ NothingIsLost'
      BY <2>1 DEF NamesAreUnique, NothingIsLost
    <2>. QED BY <2>2, <2>3
  <1>4. ASSUME NEW n \in Names, UserRestores(n)
        PROVE  NamesAreExact'
    <2>1. /\ at' = [at EXCEPT ![n[1]] = trash[n]]
          /\ trash' = [trash EXCEPT ![n] = None]
          /\ tree' = tree
          /\ trash[n] \in Inodes
          /\ at[n[1]] = None
          /\ n[1] \in Paths
      BY <1>4 DEF UserRestores, Names
    <2>2. NamesAreLive'
      BY <2>1 DEF NamesAreLive
    <2>3. NamesAreUnique'
      BY <2>1 DEF NamesAreUnique
    <2>4. NothingIsLost'
      BY <2>1 DEF NothingIsLost, NamesAreLive
    <2>. QED BY <2>2, <2>3, <2>4
  <1>5. CASE UNCHANGED <<at, trash, tree>>
    BY <1>5 DEF NamesAreLive, NamesAreUnique, NothingIsLost
  <1>. QED BY <1>1, <1>2, <1>3, <1>4, <1>5 DEF User, UserWrites, UserAges,
       UserRefers, UserReclassifies

LEMMA NamesStep == TypeInv /\ NamesAreExact /\ [Next]_vars => NamesAreExact'
  <1>1. ASSUME NamesAreExact, UNCHANGED <<at, trash, tree>>
        PROVE  NamesAreExact'
    BY <1>1 DEF NamesAreExact, NamesAreLive, NamesAreUnique, NothingIsLost, Live
  <1>2. ASSUME NEW r \in Procs, Progress(r)
        PROVE  \/ UNCHANGED <<at, trash, tree>>
               \/ RenameIntoQuarantine(r) \/ PurgeSome(r) \/ PurgeAll(r)
    BY <1>2 DEF Progress, Consider, EndPlan, ReportOnly, InspectContext, InspectUse,
       InspectProfile, Skip, AuditIntent, RevalidateIdentity, RenameMissing,
       RenameTaken, VerifyQuarantine, PurgeMissing, AuditSuccess, AuditFailure,
       LoopDone, SaveReport
  <1>3. ASSUME NEW r \in Procs, Trouble(r)
        PROVE  UNCHANGED <<at, trash, tree>>
    BY <1>3 DEF Trouble, AppendFails, RemovalFails, CycleFails, Crash
  <1>4. ASSUME NEW r \in Procs, NEW m \in {"dry_run", "execute"},
               StartCycle(r, m)
        PROVE  UNCHANGED <<at, trash, tree>>
    BY <1>4 DEF StartCycle
  <1>5. UNCHANGED vars => UNCHANGED <<at, trash, tree>>
    BY DEF vars
  <1>. QED BY <1>1, <1>2, <1>3, <1>4, <1>5, NamesOfQuarantine, NamesOfUser
       DEF Next

\* Every directory with files keeps exactly one name through every
\* interleaving of cycles, crashes and the user's own moves: the no-replace
\* rename of quarantine_and_remove never overwrites and never loses one.
THEOREM NamesCorrect == Spec => []NamesAreExact
  BY TypeInit, TypeStep, NamesInit, NamesStep, PTL DEF Spec

----------------------------------------------------------------------------
(* The intent, the identity and the outcome.                               *)

LogHeld(r) ==
    pc[r] \in {"check", "rename", "verify", "purge", "success", "failed"} =>
      IntentIsLast(r)
ModeHeld(r) == pc[r] \in Removing => mode[r] = "execute"
QuarantineHeld(r) ==
    pc[r] = "purge" => trash[QuarantineName(r)] \in {Planned(r).ino, None}
SuccessHeld(r) ==
    pc[r] = "success" =>
      \E d \in purged : d.cycle = cycle[r] /\ d.path = Planned(r).path

\* The strengthening: what a process holds between two of its steps.
Held(r) == LogHeld(r) /\ ModeHeld(r) /\ QuarantineHeld(r) /\ SuccessHeld(r)

Inv == TypeInv /\ (\A r \in Procs : Held(r)) /\ SuccessIsTrue

\* A process is not disturbed by a step that leaves its own state alone and
\* at most takes directories away from its quarantine names.
Undisturbed(r) ==
    /\ pc'[r] = pc[r] /\ mode'[r] = mode[r] /\ cycle'[r] = cycle[r]
    /\ plan'[r] = plan[r] /\ idx'[r] = idx[r] /\ seq'[r] = seq[r]
    /\ audit'[r] = audit[r] /\ report'[r] = report[r]
    /\ \A n \in Names : n[2] = r => trash'[n] \in {trash[n], None}
    /\ purged \subseteq purged'

LEMMA HeldUndisturbed ==
    ASSUME TypeInv, NEW r \in Procs, Held(r), Undisturbed(r)
    PROVE  Held(r)'
  <1>1. Planned(r)' = Planned(r) /\ Record(r, "planned")' = Record(r, "planned")
    BY DEF Undisturbed, Planned, Record
  <1>2. LogHeld(r)' /\ ModeHeld(r)' /\ SuccessHeld(r)'
    BY <1>1 DEF Undisturbed, Held, LogHeld, ModeHeld, SuccessHeld, IntentIsLast
  <1>3. QuarantineHeld(r)'
    <2>1. SUFFICES ASSUME pc[r] = "purge"
                   PROVE  QuarantineHeld(r)'
      BY DEF QuarantineHeld, Undisturbed
    <2>2. /\ QuarantineName(r) \in Names
          /\ QuarantineName(r)[2] = r
          /\ QuarantineName(r)' = QuarantineName(r)
      BY <1>1, <2>1, QuarantineNameType DEF QuarantineName, Undisturbed
    <2>. QED BY <1>1, <2>1, <2>2 DEF QuarantineHeld, Held, Undisturbed
  <1>. QED BY <1>2, <1>3 DEF Held

LEMMA OthersUndisturbed ==
    ASSUME TypeInv, NEW r \in Procs, NEW g \in Procs \ {r},
           \/ Progress(r) \/ Trouble(r)
           \/ \E m \in {"dry_run", "execute"} : StartCycle(r, m)
    PROVE  Undisturbed(g)
  <1>. USE DEF Undisturbed, TypeInv, TypeOK, CycleOK, DurableOK, DiskOK, Goto,
         QuarantineName
  <1>1. CASE Progress(r)
    <2>1. CASE RenameIntoQuarantine(r)
      BY <2>1 DEF RenameIntoQuarantine
    <2>2. CASE PurgeAll(r)
      BY <2>2 DEF PurgeAll
    <2>3. CASE UNCHANGED <<trash, purged>> /\ Progress(r)
      BY <2>3 DEF Progress, Consider, EndPlan, ReportOnly, InspectContext,
         InspectUse, InspectProfile, Skip, AuditIntent, RevalidateIdentity,
         RenameMissing, RenameTaken, RenameIntoQuarantine, VerifyQuarantine,
         PurgeSome, PurgeAll, PurgeMissing, AuditSuccess, AuditFailure,
         LoopDone, SaveReport, EndCycle, AppendAudit, PushAction,
         NextCandidate
    <2>4. \/ RenameIntoQuarantine(r) \/ PurgeAll(r)
          \/ UNCHANGED <<trash, purged>>
      BY <1>1 DEF Progress, Consider, EndPlan, ReportOnly, InspectContext,
         InspectUse, InspectProfile, Skip, AuditIntent, RevalidateIdentity,
         RenameMissing, RenameTaken, VerifyQuarantine, PurgeSome,
         PurgeMissing, AuditSuccess, AuditFailure, LoopDone, SaveReport
    <2>. QED BY <1>1, <2>1, <2>2, <2>3, <2>4
  <1>2. CASE Trouble(r)
    BY <1>2 DEF Trouble, AppendFails, RemovalFails, CycleFails, Crash,
       EndCycle, AppendAudit
  <1>3. CASE \E m \in {"dry_run", "execute"} : StartCycle(r, m)
    BY <1>3 DEF StartCycle
  <1>. QED BY <1>1, <1>2, <1>3

LEMMA UserUndisturbing ==
    ASSUME TypeInv, NEW g \in Procs, User \/ UNCHANGED vars
    PROVE  Undisturbed(g)
  BY DEF Undisturbed, TypeInv, TypeOK, DiskOK, User, Guards, vars, UserWrites,
     UserAges, UserCreates, UserRefers, UserReclassifies, UserRemoves,
     UserEmpties, UserRestores

LEMMA IntentAppended ==
    ASSUME TypeInv, NEW r \in Procs, AppendAudit(r, "planned"),
           UNCHANGED <<cycle, plan, idx>>
    PROVE  IntentIsLast(r)'
  <1>1. audit'[r] = Append(audit[r], Record(r, "planned"))
    BY DEF AppendAudit, TypeInv, TypeOK, DurableOK
  <1>2. audit[r] \in Seq(Records)
    BY DEF TypeInv, TypeOK, DurableOK
  <1>3. /\ Len(audit'[r]) = Len(audit[r]) + 1
        /\ Len(audit[r]) \in Nat
        /\ audit'[r][Len(audit'[r])] = Record(r, "planned")
    BY <1>1, <1>2
  <1>. QED BY <1>3 DEF IntentIsLast, Record, Planned

LEMMA OwnHeld ==
    ASSUME TypeInv, NEW r \in Procs, Held(r), Progress(r)
    PROVE  Held(r)'
  <1>. USE DEF Held, LogHeld, ModeHeld, QuarantineHeld, SuccessHeld,
         Removing, Goto, TypeInv, TypeOK, CycleOK
  <1>1. CASE \/ (\E p \in Paths : Consider(r, p)) \/ EndPlan(r)
             \/ ReportOnly(r) \/ Skip(r) \/ AuditSuccess(r)
             \/ AuditFailure(r) \/ LoopDone(r) \/ SaveReport(r)
    <2>1. pc'[r] \in {"plan", "next", "save", "idle"}
      BY <1>1 DEF Consider, EndPlan, ReportOnly, Skip, AuditSuccess,
         AuditFailure, LoopDone, SaveReport, NextCandidate, EndCycle
    <2>. QED BY <2>1
  <1>2. CASE InspectContext(r) \/ InspectUse(r) \/ InspectProfile(r)
    BY <1>2 DEF InspectContext, InspectUse, InspectProfile
  <1>3. CASE AuditIntent(r)
    BY <1>3, IntentAppended DEF AuditIntent
  <1>4. CASE \/ RevalidateIdentity(r) \/ RenameMissing(r) \/ RenameTaken(r)
             \/ PurgeMissing(r) \/ VerifyQuarantine(r)
             \/ RenameIntoQuarantine(r)
    <2>1. IntentIsLast(r)' = IntentIsLast(r)
      BY <1>4 DEF RevalidateIdentity, RenameMissing, RenameTaken, PurgeMissing,
         VerifyQuarantine, RenameIntoQuarantine, IntentIsLast, Record, Planned
    <2>. QED BY <1>4, <2>1 DEF RevalidateIdentity, RenameMissing, RenameTaken,
         PurgeMissing, VerifyQuarantine, RenameIntoQuarantine, QuarantineName,
         Planned
  <1>5. CASE PurgeSome(r)
    BY <1>5 DEF PurgeSome, IntentIsLast, Record, QuarantineName, Planned
  <1>6. CASE PurgeAll(r)
    <2>1. IntentIsLast(r)' /\ pc'[r] = "success" /\ mode'[r] = "execute"
      BY <1>6 DEF PurgeAll, IntentIsLast, Record, Planned
    <2>2. Planned(r)' = Planned(r) /\ cycle' = cycle
      BY <1>6 DEF PurgeAll, Planned
    <2>3. [cycle |-> cycle[r], path |-> Planned(r).path,
           ino |-> trash[QuarantineName(r)]] \in purged'
      BY <1>6 DEF PurgeAll
    <2>4. \E d \in purged' : d.cycle = cycle'[r] /\ d.path = Planned(r)'.path
      BY <2>2, <2>3
    <2>. QED BY <2>1, <2>4
  <1>. QED BY <1>1, <1>2, <1>3, <1>4, <1>5, <1>6 DEF Progress

LEMMA TroubleHeld ==
    ASSUME TypeInv, NEW r \in Procs, Held(r),
           Trouble(r) \/ (\E m \in {"dry_run", "execute"} : StartCycle(r, m))
    PROVE  Held(r)'
  <1>. USE DEF Held, LogHeld, ModeHeld, QuarantineHeld, SuccessHeld,
         Removing, Goto, TypeInv, TypeOK, CycleOK
  <1>1. CASE RemovalFails(r)
    BY <1>1 DEF RemovalFails, IntentIsLast, Record, Planned
  <1>2. CASE \/ (\E landed \in BOOLEAN : AppendFails(r, landed))
             \/ CycleFails(r) \/ Crash(r)
    <2>1. pc'[r] = "idle"
      BY <1>2 DEF AppendFails, CycleFails, Crash, EndCycle
    <2>. QED BY <2>1
  <1>3. CASE \E m \in {"dry_run", "execute"} : StartCycle(r, m)
    BY <1>3 DEF StartCycle
  <1>. QED BY <1>1, <1>2, <1>3 DEF Trouble

LEMMA HeldStep ==
    ASSUME TypeInv, \A r \in Procs : Held(r), [Next]_vars
    PROVE  \A r \in Procs : Held(r)'
  <1>1. ASSUME NEW r \in Procs,
               \/ Progress(r) \/ Trouble(r)
               \/ \E m \in {"dry_run", "execute"} : StartCycle(r, m)
        PROVE  \A g \in Procs : Held(g)'
    <2>1. Held(r)'
      BY <1>1, OwnHeld, TroubleHeld
    <2>2. \A g \in Procs \ {r} : Held(g)'
      BY <1>1, OthersUndisturbed, HeldUndisturbed
    <2>. QED BY <2>1, <2>2
  <1>2. CASE User \/ UNCHANGED vars
    BY <1>2, UserUndisturbing, HeldUndisturbed
  <1>. QED BY <1>1, <1>2 DEF Next

\* A success record is appended only by a process that holds its removal.
LEMMA SuccessStep ==
    ASSUME TypeInv, \A r \in Procs : Held(r), SuccessIsTrue, [Next]_vars
    PROVE  SuccessIsTrue'
  <1>1. purged \subseteq purged'
    <2>1. (\E r \in Procs : PurgeAll(r)) \/ UNCHANGED purged
      BY DEF Next, Progress, Trouble, Consider, EndPlan, ReportOnly,
         InspectContext, InspectUse, InspectProfile, Skip, AuditIntent,
         RevalidateIdentity, RenameMissing, RenameTaken, RenameIntoQuarantine,
         VerifyQuarantine, PurgeSome, PurgeMissing, AuditSuccess,
         AuditFailure, LoopDone, SaveReport, AppendFails, RemovalFails,
         CycleFails, Crash, StartCycle, User, UserWrites, UserAges,
         UserCreates, UserRefers, UserReclassifies, UserRemoves, UserEmpties,
         UserRestores, Guards, vars
    <2>. QED BY <2>1 DEF PurgeAll
  <1>2. ASSUME NEW r \in Procs, NEW o \in Outcomes, AppendAudit(r, o),
               o = "success" => pc[r] = "success"
        PROVE  SuccessIsTrue'
    <2>1. audit'[r] = Append(audit[r], Record(r, o))
      BY <1>2 DEF AppendAudit, TypeInv, TypeOK, DurableOK
    <2>2. audit[r] \in Seq(Records)
      BY DEF TypeInv, TypeOK, DurableOK
    <2>3. ASSUME NEW k \in DOMAIN audit'[r], audit'[r][k].outcome = "success"
          PROVE  \E d \in purged' : /\ d.cycle = audit'[r][k].cycle
                                    /\ d.path = audit'[r][k].path
      <3>1. CASE k \in DOMAIN audit[r]
        BY <1>1, <2>1, <2>2, <2>3, <3>1 DEF SuccessIsTrue
      <3>2. CASE k = Len(audit[r]) + 1
        <4>1. audit'[r][k] = Record(r, o)
          BY <2>1, <2>2, <3>2
        <4>. QED BY <1>1, <1>2, <2>3, <4>1 DEF Record, Held, SuccessHeld
      <3>. QED BY <2>1, <2>2, <3>1, <3>2
    <2>4. \A g \in Procs : g # r => audit'[g] = audit[g]
      BY <1>2 DEF AppendAudit, TypeInv, TypeOK, DurableOK
    <2>. QED BY <1>1, <2>3, <2>4 DEF SuccessIsTrue
  <1>3. ASSUME UNCHANGED audit
        PROVE  SuccessIsTrue'
    BY <1>1, <1>3 DEF SuccessIsTrue
  <1>4. \/ UNCHANGED audit
        \/ \E r \in Procs, o \in Outcomes :
             AppendAudit(r, o) /\ (o = "success" => pc[r] = "success")
    BY DEF Next, Outcomes, Progress, Trouble, Consider, EndPlan, ReportOnly,
       InspectContext, InspectUse, InspectProfile, Skip, AuditIntent,
       RevalidateIdentity, RenameMissing, RenameTaken, RenameIntoQuarantine,
       VerifyQuarantine, PurgeSome, PurgeAll, PurgeMissing, AuditSuccess,
       AuditFailure, LoopDone, SaveReport, AppendFails, RemovalFails,
       CycleFails, Crash, StartCycle, User, UserWrites, UserAges, UserCreates,
       UserRefers, UserReclassifies, UserRemoves, UserEmpties, UserRestores,
       Guards, vars
  <1>. QED BY <1>2, <1>3, <1>4

LEMMA InvInit == Init => Inv
  BY TypeInit DEF Inv, Init, Held, LogHeld, ModeHeld, QuarantineHeld,
     SuccessHeld, SuccessIsTrue, Removing

LEMMA InvStep == Inv /\ [Next]_vars => Inv'
  BY TypeStep, HeldStep, SuccessStep DEF Inv

LEMMA InvAlways == Spec => []Inv
  BY InvInit, InvStep, PTL DEF Spec

\* The audit log never claims a removal that did not happen, across crashes,
\* failed appends and concurrent processes (execute_cleanup).
THEOREM SuccessCorrect == Spec => []SuccessIsTrue
  <1>1. Inv => SuccessIsTrue
    BY DEF Inv
  <1>. QED BY <1>1, InvAlways, PTL

LEMMA PurgeStep ==
    ASSUME Inv, [Next]_vars, NEW i \in Inodes
    PROVE  PurgesPlanned(i)
  <1>. USE DEF PurgesPlanned, Inv, TypeInv, TypeOK, DiskOK
  <1>1. ASSUME NEW r \in Procs, PurgeSome(r) \/ PurgeAll(r)
        PROVE  PurgesPlanned(i)
    <2>1. /\ pc[r] = "purge"
          /\ trash[QuarantineName(r)] # None
          /\ \A j \in Inodes : j # trash[QuarantineName(r)] => tree'[j] = tree[j]
      BY <1>1, QuarantineNameType DEF PurgeSome, PurgeAll
    <2>2. /\ trash[QuarantineName(r)] = Planned(r).ino
          /\ mode[r] = "execute" /\ IntentIsLast(r)
      BY <2>1 DEF Held, QuarantineHeld, ModeHeld, LogHeld, Removing
    <2>. QED BY <2>1, <2>2
  <1>2. CASE UNCHANGED tree
    BY <1>2
  <1>3. CASE User
    BY <1>3, NoneAssumption DEF User, UserWrites, UserAges, UserCreates, UserRefers,
       UserReclassifies, UserRemoves, UserEmpties, UserRestores
  <1>4. \/ User \/ UNCHANGED tree
        \/ \E r \in Procs : PurgeSome(r) \/ PurgeAll(r)
    BY DEF Next, Progress, Trouble, Consider, EndPlan, ReportOnly,
       InspectContext, InspectUse, InspectProfile, Skip, AuditIntent,
       RevalidateIdentity, RenameMissing, RenameTaken, RenameIntoQuarantine,
       VerifyQuarantine, PurgeMissing, AuditSuccess,
       AuditFailure, LoopDone, SaveReport, AppendFails, RemovalFails,
       CycleFails, Crash, StartCycle, vars
  <1>. QED BY <1>1, <1>2, <1>3, <1>4

\* Nothing but the inspected directory is ever purged, and only after its
\* intent (purge_verified_quarantine): the swap of a candidate at any moment
\* ends with the other directory preserved.
THEOREM PurgeCorrect == Spec => PurgeOnlyPlanned
  <1>1. Inv /\ [Next]_vars => [\A i \in Inodes : PurgesPlanned(i)]_vars
    BY PurgeStep
  <1>. QED BY <1>1, InvAlways, PTL DEF Spec, PurgeOnlyPlanned

LEMMA RenameStep ==
    ASSUME Inv, [Next]_vars, NEW n \in Names
    PROVE  FollowsIntent(n)
  <1>. USE DEF FollowsIntent, Inv, TypeInv, TypeOK, DiskOK
  <1>1. ASSUME NEW r \in Procs, RenameIntoQuarantine(r)
        PROVE  FollowsIntent(n)
    <2>1. \A m \in Names : m # QuarantineName(r) => trash'[m] = trash[m]
      BY <1>1 DEF RenameIntoQuarantine
    <2>2. mode[r] = "execute" /\ IntentIsLast(r)
      BY <1>1 DEF RenameIntoQuarantine, Held, LogHeld, ModeHeld, Removing
    <2>. QED BY <2>1, <2>2 DEF QuarantineName
  <1>2. CASE \A m \in Names : trash[m] = None => trash'[m] = None
    BY <1>2
  <1>3. \/ \E r \in Procs : RenameIntoQuarantine(r)
        \/ \E r \in Procs : PurgeAll(r)
        \/ UNCHANGED trash
        \/ User
    BY DEF Next, Progress, Trouble, Consider, EndPlan, ReportOnly,
       InspectContext, InspectUse, InspectProfile, Skip, AuditIntent,
       RevalidateIdentity, RenameMissing, RenameTaken, PurgeSome,
       VerifyQuarantine, PurgeMissing, AuditSuccess,
       AuditFailure, LoopDone, SaveReport, AppendFails, RemovalFails,
       CycleFails, Crash, StartCycle, vars
  <1>4. User => \A m \in Names : trash[m] = None => trash'[m] = None
    BY DEF User, UserWrites, UserAges, UserCreates, UserRefers,
       UserReclassifies, UserRemoves, UserEmpties, UserRestores
  <1>5. (\E r \in Procs : PurgeAll(r)) =>
          \A m \in Names : trash[m] = None => trash'[m] = None
    BY DEF PurgeAll
  <1>. QED BY <1>1, <1>2, <1>3, <1>4, <1>5

\* Every rename into quarantine follows the audited intent of the same
\* process for the same path, and never happens in a dry run
\* (execute_cleanup).
THEOREM IntentCorrect == Spec => IntentBeforeRename
  <1>1. Inv /\ [Next]_vars => [\A n \in Names : FollowsIntent(n)]_vars
    BY RenameStep
  <1>. QED BY <1>1, InvAlways, PTL DEF Spec, IntentBeforeRename
----------------------------------------------------------------------------
(* The refinement of SafeRemoval.                                          *)

RefInv == Inv /\ NamesAreExact

LEMMA RefInit == Init => Removal!Init
  <1>. SUFFICES ASSUME Init PROVE Removal!Init
    OBVIOUS
  <1>1. Homes \in [Inodes -> {{}} \cup {{p} : p \in Paths}]
    <2>1. ASSUME NEW i \in Inodes
          PROVE  Homes[i] \in {{}} \cup {{p} : p \in Paths}
      <3>1. CASE \E p \in Paths : at[p] = i
        <4>1. PICK p \in Paths : at[p] = i
          BY <3>1
        <4>2. Homes[i] = {p}
          BY <4>1, NoneAssumption DEF Init, Homes
        <4>. QED BY <4>2
      <3>2. CASE \A p \in Paths : at[p] # i
        BY <3>2 DEF Homes
      <3>. QED BY <3>1, <3>2
    <2>. QED BY <2>1 DEF Homes
  <1>2. \A d, e \in Inodes : d # e => Homes[d] \cap Homes[e] = {}
    BY DEF Homes
  <1>3. SetsAside = [d \in Inodes |-> {}]
    BY NoneAssumption DEF Init, SetsAside
  <1>4. Cuts = {}
    BY DEF Init, Cuts
  <1>5. Announcements = [r \in Procs |-> {}]
    BY DEF Init, Announcements, Announced
  <1>. QED BY <1>1, <1>2, <1>3, <1>4, <1>5 DEF Removal!Init

\* A process that is not disturbed goes on announcing what it announced.
LEMMA AnnouncedUndisturbed ==
    ASSUME NEW r \in Procs, Undisturbed(r)
    PROVE  Announced(r)' = Announced(r)
  BY DEF Undisturbed, Announced, IntentIsLast, Record, Planned

\* A step of one process changes what that process announces at most.
LEMMA OneAnnouncement ==
    ASSUME TypeInv, NEW r \in Procs,
           \/ Progress(r) \/ Trouble(r)
           \/ \E m \in {"dry_run", "execute"} : StartCycle(r, m)
    PROVE  Announcements' = [Announcements EXCEPT ![r] = Announced(r)']
  <1>1. \A g \in Procs : g # r => Announced(g)' = Announced(g)
    BY OthersUndisturbed, AnnouncedUndisturbed
  <1>. QED BY <1>1 DEF Announcements

\* What a process between its intent and the end of the purge announces.
LEMMA Announcing ==
    ASSUME Inv, NEW r \in Procs, pc[r] \in {"check", "rename", "verify", "purge"}
    PROVE  /\ Announced(r) = {<<Planned(r).path, Planned(r).ino>>}
           /\ Planned(r).path \in Paths /\ Planned(r).ino \in Inodes
           /\ Announcements[r] = {<<Planned(r).path, Planned(r).ino>>}
  <1>1. Announced(r) = {<<Planned(r).path, Planned(r).ino>>}
    BY DEF Inv, Held, LogHeld, ModeHeld, Announced, Removing
  <1>2. Planned(r) \in Candidates
    BY PlannedType DEF Inv, TypeInv, InRange, Removing
  <1>. QED BY <1>1, <1>2 DEF Announcements, Candidates

\* Steps that leave the disk alone announce nothing, or give up.
LEMMA GivesUp ==
    ASSUME TypeInv, NEW r \in Procs,
           \/ Progress(r) \/ Trouble(r)
           \/ \E m \in {"dry_run", "execute"} : StartCycle(r, m),
           UNCHANGED <<at, trash, tree>>,
           Announced(r)' \in {Announced(r), {}}
    PROVE  [Removal!Next]_(Removal!vars)
  <1>1. Announcements' = [Announcements EXCEPT ![r] = Announced(r)']
    BY OneAnnouncement
  <1>2. UNCHANGED <<Homes, SetsAside, Cuts>>
    BY DEF Homes, SetsAside, Cuts
  <1>3. CASE Announced(r)' = Announced(r)
    <2>1. Announcements' = Announcements
      BY <1>1, <1>3 DEF Announcements
    <2>. QED BY <1>2, <2>1 DEF Removal!vars
  <1>4. CASE Announced(r)' = {}
    BY <1>1, <1>2, <1>4 DEF Removal!Next, Removal!Removal, Removal!GiveUp
  <1>. QED BY <1>3, <1>4

\* A path or a name given or taken changes one directory's at a time.
LEMMA HomeMoved ==
    ASSUME NEW d \in Inodes, NEW P,
           \A i \in Inodes :
             {p \in Paths : at'[p] = i} = IF i = d THEN P ELSE Homes[i]
    PROVE  Homes' = [Homes EXCEPT ![d] = P]
  <1>1. Homes' = [i \in Inodes |-> IF i = d THEN P ELSE Homes[i]]
    BY DEF Homes
  <1>. QED BY <1>1 DEF Homes

LEMMA AsideMoved ==
    ASSUME NEW d \in Inodes, NEW N,
           \A i \in Inodes :
             {n \in Names : trash'[n] = i} = IF i = d THEN N ELSE SetsAside[i]
    PROVE  SetsAside' = [SetsAside EXCEPT ![d] = N]
  <1>1. SetsAside' = [i \in Inodes |-> IF i = d THEN N ELSE SetsAside[i]]
    BY DEF SetsAside
  <1>. QED BY <1>1 DEF SetsAside

\* The rename: the directory that has the path gets the quarantine name.
LEMMA SetsAsideWhole ==
    ASSUME RefInv, NEW r \in Procs, RenameIntoQuarantine(r)
    PROVE  Removal!Next
  <1> DEFINE p == Planned(r).path
             n == QuarantineName(r)
             d == at[p]
  <1>. USE DEF RefInv, Inv, TypeInv, TypeOK, DiskOK
  <1>1. /\ n \in Names /\ p \in Paths
        /\ n = <<p, r, seq[r]>> /\ seq[r] \in 0 .. MaxSeq - 1
    BY QuarantineNameType, Announcing DEF RenameIntoQuarantine, QuarantineName,
       Names
  <1>2. /\ at' = [at EXCEPT ![p] = None]
        /\ trash' = [trash EXCEPT ![n] = d]
        /\ tree' = tree
        /\ trash[n] = None /\ d \in Inodes
    BY <1>1 DEF RenameIntoQuarantine
  <1>3. Announcements' = Announcements
    <2>1. Announced(r)' = Announced(r)
      BY DEF RenameIntoQuarantine, Announced, Goto, IntentIsLast, Record,
         Planned, CycleOK
    <2>2. Announcements' = [Announcements EXCEPT ![r] = Announced(r)']
      BY OneAnnouncement DEF Progress
    <2>. QED BY <2>1, <2>2 DEF Announcements
  <1>4. Announcements[r] = {<<p, Planned(r).ino>>}
    BY Announcing DEF RenameIntoQuarantine
  <1>5. \A e \in Inodes : n \notin SetsAside[e]
    BY <1>2, NoneAssumption DEF SetsAside
  <1>6. Homes[d] = {p} /\ SetsAside[d] = {}
    BY <1>1, <1>2, NoneAssumption
       DEF NamesAreExact, NamesAreUnique, Homes, SetsAside
  <1>7. Homes' = [Homes EXCEPT ![d] = {}]
    <2>1. \A i \in Inodes :
           {q \in Paths : at'[q] = i} = IF i = d THEN {} ELSE Homes[i]
      BY <1>1, <1>2, NoneAssumption DEF NamesAreExact, NamesAreUnique, Homes
    <2>. QED BY <2>1, <1>1, <1>2, HomeMoved
  <1>8. SetsAside' = [SetsAside EXCEPT ![d] = {n}]
    <2>1. \A i \in Inodes :
           {m \in Names : trash'[m] = i} = IF i = d THEN {n} ELSE SetsAside[i]
      BY <1>1, <1>2, <1>6, NoneAssumption DEF SetsAside
    <2>. QED BY <2>1, <1>1, <1>2, <1>6, AsideMoved
  <1>9. Cuts' = Cuts
    BY <1>2 DEF Cuts
  <1>10. Removal!SetAside(r, p, d, seq[r])
    BY <1>1, <1>3, <1>5, <1>6, <1>7, <1>8, <1>9
       DEF Removal!SetAside, Removal!FreeName
  <1>11. Removal!SetAside(r, <<p, Planned(r).ino>>[1], d, seq[r])
    BY <1>10
  <1>. QED BY <1>1, <1>2, <1>4, <1>11 DEF Removal!Next, Removal!Removal

\* Where a process that purges has the directory it announced.
LEMMA Purging ==
    ASSUME RefInv, NEW r \in Procs, PurgeSome(r) \/ PurgeAll(r)
    PROVE  /\ QuarantineName(r) \in Names
           /\ QuarantineName(r) = <<Planned(r).path, r, seq[r]>>
           /\ seq[r] \in 0 .. MaxSeq - 1
           /\ trash[QuarantineName(r)] = Planned(r).ino
           /\ Planned(r).path \in Paths /\ Planned(r).ino \in Inodes
           /\ SetsAside[Planned(r).ino] = {QuarantineName(r)}
           /\ Announcements[r] = {<<Planned(r).path, Planned(r).ino>>}
  <1>1. pc[r] = "purge" /\ trash[QuarantineName(r)] # None
    BY DEF PurgeSome, PurgeAll
  <1>2. QuarantineName(r) \in Names
    BY <1>1, QuarantineNameType DEF RefInv, Inv
  <1>3. trash[QuarantineName(r)] = Planned(r).ino
    BY <1>1 DEF RefInv, Inv, Held, QuarantineHeld
  <1>4. /\ Planned(r).path \in Paths /\ Planned(r).ino \in Inodes
        /\ Announcements[r] = {<<Planned(r).path, Planned(r).ino>>}
    BY <1>1, Announcing DEF RefInv
  <1>5. SetsAside[Planned(r).ino] = {QuarantineName(r)}
    BY <1>2, <1>3, <1>4, NoneAssumption
       DEF RefInv, NamesAreExact, NamesAreUnique, SetsAside
  <1>. QED BY <1>2, <1>3, <1>4, <1>5 DEF QuarantineName, Names

LEMMA CutsAnnounced ==
    ASSUME RefInv, NEW r \in Procs, PurgeSome(r)
    PROVE  Removal!Next
  <1> DEFINE p == Planned(r).path
             n == QuarantineName(r)
             d == Planned(r).ino
  <1>1. tree' = [tree EXCEPT ![d] = "partial"] /\ UNCHANGED <<at, trash>>
    BY Purging DEF PurgeSome
  <1>2. Cuts' = Cuts \cup {d}
    BY <1>1, Purging DEF Cuts, RefInv, Inv, TypeInv, TypeOK, DiskOK
  <1>3. UNCHANGED <<Homes, SetsAside>>
    BY <1>1 DEF Homes, SetsAside
  <1>4. Announcements' = Announcements
    BY DEF PurgeSome, Announcements, Announced, IntentIsLast, Record, Planned
  <1>5. Removal!Cut(r, <<p, d>>[1], <<p, d>>[2], seq[r])
    BY <1>2, <1>3, <1>4, Purging DEF Removal!Cut
  <1>. QED BY <1>5, Purging DEF Removal!Next, Removal!Removal

LEMMA FinishesAnnounced ==
    ASSUME RefInv, NEW r \in Procs, PurgeAll(r)
    PROVE  Removal!Next
  <1> DEFINE p == Planned(r).path
             n == QuarantineName(r)
             d == Planned(r).ino
  <1>. USE DEF RefInv, Inv, TypeInv, TypeOK, DiskOK
  <1>1. /\ tree' = [tree EXCEPT ![d] = "gone"]
        /\ trash' = [trash EXCEPT ![n] = None]
        /\ at' = at /\ tree[d] = "partial" /\ pc'[r] = "success"
    BY Purging DEF PurgeAll, Goto, CycleOK
  <1>2. Cuts' = Cuts \ {d} /\ d \in Cuts
    BY <1>1, Purging DEF Cuts
  <1>3. Homes' = Homes
    BY <1>1 DEF Homes
  <1>4. n \in Names /\ d \in Inodes /\ trash[n] = d /\ SetsAside[d] = {n}
    BY Purging
  <1>5. SetsAside' = [SetsAside EXCEPT ![d] = {}]
    <2>1. \A i \in Inodes :
           {m \in Names : trash'[m] = i} = IF i = d THEN {} ELSE SetsAside[i]
      <3>1. \A m \in Names : trash[m] = d => m = n
        BY <1>4 DEF SetsAside
      <3>2. \A m \in Names : trash'[m] = IF m = n THEN None ELSE trash[m]
        BY <1>1, <1>4
      <3>. QED BY <1>4, <3>1, <3>2, NoneAssumption DEF SetsAside
    <2>. QED BY <2>1, <1>4, AsideMoved
  <1>6. Announcements' = [Announcements EXCEPT ![r] = {}]
    <2>1. Announced(r)' = {}
      BY <1>1 DEF Announced
    <2>. QED BY <2>1, OneAnnouncement DEF Progress
  <1>7. Removal!Finish(r, <<p, d>>[1], <<p, d>>[2], seq[r])
    BY <1>2, <1>3, <1>5, <1>6, Purging DEF Removal!Finish
  <1>. QED BY <1>7, Purging DEF Removal!Next, Removal!Removal

LEMMA AnnouncesIntent ==
    ASSUME RefInv, RefInv', NEW r \in Procs, AuditIntent(r)
    PROVE  Removal!Next
  <1> DEFINE p == Planned(r).path
             d == Planned(r).ino
  <1>. USE DEF RefInv
  <1>1. pc[r] = "intent" /\ pc'[r] = "check" /\ UNCHANGED <<at, trash, tree>>
    BY DEF AuditIntent, Goto, Inv, TypeInv, TypeOK, CycleOK
  <1>2. Planned(r)' = Planned(r)
    BY DEF AuditIntent, Planned
  <1>3. Planned(r) \in Candidates
    BY <1>1, PlannedType DEF Inv, TypeInv, InRange, Removing
  <1>4. Announced(r)' = {<<p, d>>}
    <2>1. IntentIsLast(r)' /\ mode'[r] = "execute"
      BY <1>1 DEF Inv, Held, LogHeld, ModeHeld, Removing
    <2>. QED BY <1>1, <1>2, <2>1 DEF Announced
  <1>5. Announcements' = [Announcements EXCEPT ![r] = {<<p, d>>}]
    BY <1>4, OneAnnouncement DEF Progress, Inv
  <1>6. Announcements[r] = {}
    BY <1>1 DEF Announcements, Announced
  <1>7. UNCHANGED <<Homes, SetsAside, Cuts>>
    BY <1>1 DEF Homes, SetsAside, Cuts
  <1>8. Removal!Announce(r, p, d)
    BY <1>5, <1>6, <1>7 DEF Removal!Announce
  <1>. QED BY <1>3, <1>8 DEF Removal!Next, Removal!Removal, Candidates

LEMMA RemovalOfProcess ==
    ASSUME RefInv, RefInv', NEW r \in Procs,
           \/ Progress(r) \/ Trouble(r)
           \/ \E m \in {"dry_run", "execute"} : StartCycle(r, m)
    PROVE  [Removal!Next]_(Removal!vars)
  <1>. USE DEF RefInv, Inv, TypeInv, TypeOK, CycleOK, Goto, Announced
  <1>1. CASE \/ RenameIntoQuarantine(r) \/ PurgeSome(r) \/ PurgeAll(r)
             \/ AuditIntent(r)
    BY <1>1, SetsAsideWhole, CutsAnnounced, FinishesAnnounced, AnnouncesIntent
  <1>2. CASE \/ RevalidateIdentity(r) \/ RenameMissing(r) \/ RenameTaken(r)
             \/ VerifyQuarantine(r) \/ PurgeMissing(r)
    <2>1. UNCHANGED <<at, trash, tree, mode, plan, idx, audit, cycle>>
      BY <1>2 DEF RevalidateIdentity, RenameMissing, RenameTaken,
         VerifyQuarantine, PurgeMissing
    <2>2. Announced(r)' \in {Announced(r), {}}
      <3>1. IntentIsLast(r)' = IntentIsLast(r) /\ Planned(r)' = Planned(r)
        BY <2>1 DEF IntentIsLast, Record, Planned
      <3>2. /\ pc[r] \in {"check", "rename", "verify", "purge"}
            /\ pc'[r] \in Stages
        BY <1>2 DEF RevalidateIdentity, RenameMissing, RenameTaken,
           VerifyQuarantine, PurgeMissing, Stages
      <3>. QED BY <2>1, <3>1, <3>2
    <2>. QED BY <2>1, <2>2, GivesUp
  <1>3. CASE \/ (\E p \in Paths : Consider(r, p)) \/ EndPlan(r)
             \/ ReportOnly(r) \/ InspectContext(r) \/ InspectUse(r)
             \/ InspectProfile(r) \/ Skip(r) \/ AuditSuccess(r)
             \/ AuditFailure(r) \/ LoopDone(r) \/ SaveReport(r)
             \/ Trouble(r)
             \/ \E m \in {"dry_run", "execute"} : StartCycle(r, m)
    <2>1. UNCHANGED <<at, trash, tree>>
      BY <1>3 DEF Consider, EndPlan, ReportOnly, InspectContext, InspectUse,
         InspectProfile, Skip, AuditSuccess, AuditFailure, LoopDone,
         SaveReport, Trouble, AppendFails, RemovalFails, CycleFails, Crash,
         StartCycle
    <2>2. pc'[r] \notin {"check", "rename", "verify", "purge"}
      BY <1>3 DEF Consider, EndPlan, ReportOnly, InspectContext, InspectUse,
         InspectProfile, Skip, AuditSuccess, AuditFailure, LoopDone,
         SaveReport, Trouble, AppendFails, RemovalFails, CycleFails, Crash,
         StartCycle, EndCycle, NextCandidate
    <2>3. Announced(r)' = {}
      BY <2>2
    <2>. QED BY <2>1, <2>3, GivesUp
  <1>. QED BY <1>1, <1>2, <1>3 DEF Progress

\* What the user does to a directory is what its owner may do.
LEMMA RemovalOfUser ==
    ASSUME RefInv, User \/ UNCHANGED vars
    PROVE  [Removal!Next]_(Removal!vars)
  <1>. USE NoneAssumption DEF RefInv, Inv, TypeInv, TypeOK, DiskOK
  <1>1. Announcements' = Announcements
    BY UserUndisturbing, AnnouncedUndisturbed DEF Announcements
  <1>2. ASSUME NEW p \in Paths, UserRemoves(p)
        PROVE  Removal!Next
    <2> DEFINE d == at[p]
    <2>1. /\ at' = [at EXCEPT ![p] = None]
          /\ tree' = [tree EXCEPT ![d] = "free"]
          /\ trash' = trash /\ d \in Inodes
      BY <1>2 DEF UserRemoves
    <2>2. Homes[d] = {p} /\ SetsAside[d] = {}
      BY <2>1 DEF NamesAreExact, NamesAreUnique, Homes, SetsAside
    <2>3. Homes' = [Homes EXCEPT ![d] = {}]
      <3>1. \A i \in Inodes :
             {q \in Paths : at'[q] = i} = IF i = d THEN {} ELSE Homes[i]
        BY <2>1, <2>2 DEF Homes
      <3>. QED BY <3>1, <2>1, <2>2, HomeMoved
    <2>4. SetsAside' = [SetsAside EXCEPT ![d] = {}]
      <3>1. \A i \in Inodes :
             {m \in Names : trash'[m] = i} = IF i = d THEN {} ELSE SetsAside[i]
        BY <2>1, <2>2 DEF SetsAside
      <3>. QED BY <3>1, <2>1, <2>2, AsideMoved
    <2>5. Cuts' = Cuts \ {d}
      BY <2>1 DEF Cuts
    <2>6. Removal!Discard(d)
      BY <1>1, <2>2, <2>3, <2>4, <2>5 DEF Removal!Discard, Removal!Nowhere
    <2>. QED BY <2>1, <2>6 DEF Removal!Next, Removal!Owner
  <1>3. ASSUME NEW p \in Paths, NEW d \in Inodes, NEW v, UserCreates(p, d, v)
        PROVE  Removal!Next
    <2>1. /\ at' = [at EXCEPT ![p] = d]
          /\ tree' = [tree EXCEPT ![d] = "whole"]
          /\ trash' = trash /\ at[p] = None /\ tree[d] \in {"free", "gone"}
      BY <1>3 DEF UserCreates
    <2>2. Homes[d] = {} /\ SetsAside[d] = {}
      BY <2>1 DEF NamesAreExact, NamesAreLive, Live, Homes, SetsAside
    <2>3. \A e \in Inodes : p \notin Homes[e]
      BY <2>1 DEF Homes
    <2>4. Homes' = [Homes EXCEPT ![d] = {p}]
      <3>1. \A i \in Inodes :
             {q \in Paths : at'[q] = i} = IF i = d THEN {p} ELSE Homes[i]
        BY <2>1, <2>2, <2>3 DEF Homes
      <3>. QED BY <3>1, <2>1, <2>2, <2>3, HomeMoved
    <2>5. SetsAside' = SetsAside
      BY <2>1 DEF SetsAside
    <2>6. Cuts' = Cuts
      BY <2>1 DEF Cuts
    <2>7. Removal!Make(p, d)
      BY <1>1, <2>2, <2>3, <2>4, <2>5, <2>6
         DEF Removal!Make, Removal!Nowhere, Removal!FreePath
    <2>. QED BY <2>7 DEF Removal!Next, Removal!Owner
  <1>4. ASSUME NEW n \in Names, UserEmpties(n)
        PROVE  Removal!Next
    <2> DEFINE d == trash[n]
    <2>1. /\ trash' = [trash EXCEPT ![n] = None]
          /\ tree' = [tree EXCEPT ![d] = "free"]
          /\ at' = at /\ d \in Inodes
      BY <1>4 DEF UserEmpties
    <2>2. SetsAside[d] = {n} /\ Homes[d] = {}
      BY <2>1 DEF NamesAreExact, NamesAreUnique, Homes, SetsAside
    <2>3. SetsAside' = [SetsAside EXCEPT ![d] = {}]
      <3>1. \A i \in Inodes :
             {m \in Names : trash'[m] = i} = IF i = d THEN {} ELSE SetsAside[i]
        BY <2>1, <2>2 DEF SetsAside
      <3>. QED BY <3>1, <2>1, <2>2, AsideMoved
    <2>4. Homes' = [Homes EXCEPT ![d] = {}]
      <3>1. \A i \in Inodes :
             {q \in Paths : at'[q] = i} = IF i = d THEN {} ELSE Homes[i]
        BY <2>1, <2>2 DEF Homes
      <3>. QED BY <3>1, <2>1, <2>2, HomeMoved
    <2>5. Cuts' = Cuts \ {d}
      BY <2>1 DEF Cuts
    <2>6. Removal!Discard(d)
      BY <1>1, <2>2, <2>3, <2>4, <2>5 DEF Removal!Discard, Removal!Nowhere
    <2>. QED BY <2>1, <2>6 DEF Removal!Next, Removal!Owner
  <1>5. ASSUME NEW n \in Names, UserRestores(n)
        PROVE  Removal!Next
    <2> DEFINE d == trash[n]
               p == n[1]
    <2>1. /\ at' = [at EXCEPT ![p] = d]
          /\ trash' = [trash EXCEPT ![n] = None]
          /\ tree' = tree /\ d \in Inodes /\ p \in Paths /\ at[p] = None
      BY <1>5 DEF UserRestores, Names
    <2>2. SetsAside[d] = {n} /\ Homes[d] = {}
      BY <2>1 DEF NamesAreExact, NamesAreUnique, Homes, SetsAside
    <2>3. \A e \in Inodes : p \notin Homes[e]
      BY <2>1 DEF Homes
    <2>4. SetsAside' = [SetsAside EXCEPT ![d] = {}]
      <3>1. \A i \in Inodes :
             {m \in Names : trash'[m] = i} = IF i = d THEN {} ELSE SetsAside[i]
        BY <2>1, <2>2 DEF SetsAside
      <3>. QED BY <3>1, <2>1, <2>2, AsideMoved
    <2>5. Homes' = [Homes EXCEPT ![d] = {p}]
      <3>1. \A i \in Inodes :
             {q \in Paths : at'[q] = i} = IF i = d THEN {p} ELSE Homes[i]
        BY <2>1, <2>2, <2>3 DEF Homes
      <3>. QED BY <3>1, <2>1, <2>2, <2>3, HomeMoved
    <2>6. Cuts' = Cuts
      BY <2>1 DEF Cuts
    <2>7. Removal!Restore(d, n)
      BY <1>1, <2>2, <2>3, <2>4, <2>5, <2>6
         DEF Removal!Restore, Removal!FreePath
    <2>. QED BY <2>1, <2>2, <2>7 DEF Removal!Next, Removal!Owner
  <1>6. CASE UNCHANGED <<at, trash, tree>>
    <2>1. UNCHANGED <<Homes, SetsAside, Cuts>>
      BY <1>6 DEF Homes, SetsAside, Cuts
    <2>. QED BY <1>1, <2>1 DEF Removal!vars
  <1>. QED BY <1>2, <1>3, <1>4, <1>5, <1>6 DEF User, vars, UserWrites,
       UserAges, UserRefers, UserReclassifies

LEMMA RefAlways == Spec => []RefInv
  BY InvAlways, NamesCorrect, PTL DEF RefInv

\* Every step of the executor is one of an announced removal or invisible to
\* the owner of the directories: it implements SafeRemoval whatever crashes,
\* fails or interleaves (execute_cleanup, quarantine_and_remove).
THEOREM RemovalCorrect == Spec => ImplementsSafeRemoval
  <1>1. RefInv /\ RefInv' /\ [Next]_vars => [Removal!Next]_(Removal!vars)
    <2>1. SUFFICES ASSUME RefInv, RefInv', [Next]_vars
                   PROVE  [Removal!Next]_(Removal!vars)
      OBVIOUS
    <2>. QED BY <2>1, RemovalOfProcess, RemovalOfUser DEF Next
  <1>. QED BY RefInit, <1>1, RefAlways, PTL
       DEF Spec, ImplementsSafeRemoval, Removal!Spec
----------------------------------------------------------------------------
(* The report and the audit log.                                           *)

\* Where the records are that Tally counts.
TalliedIn(log, c, p, o) ==
    {e \in Procs \X Nat :
       /\ e[2] \in DOMAIN log[e[1]]
       /\ log[e[1]][e[2]] = [cycle |-> c, path |-> p, outcome |-> o]}
Tallied(c, p, o) == TalliedIn(audit, c, p, o)

LEMMA TallyOfTallied ==
    ASSUME NEW log \in [Procs -> Seq(Records)], NEW c, NEW p, NEW o
    PROVE  UNION {{<<r, k>> : k \in {k \in DOMAIN log[r] :
             log[r][k] = [cycle |-> c, path |-> p, outcome |-> o]}} : r \in Procs}
             = TalliedIn(log, c, p, o)
  <1> DEFINE x == [cycle |-> c, path |-> p, outcome |-> o]
             S == UNION {{<<r, k>> : k \in {k \in DOMAIN log[r] : log[r][k] = x}} :
                           r \in Procs}
  <1>1. \A r \in Procs : DOMAIN log[r] \subseteq Nat
    OBVIOUS
  <1>2. S \subseteq TalliedIn(log, c, p, o)
    <2>1. ASSUME NEW r \in Procs, NEW k \in DOMAIN log[r], log[r][k] = x
          PROVE  <<r, k>> \in TalliedIn(log, c, p, o)
      <3>1. <<r, k>> \in Procs \X Nat /\ <<r, k>>[1] = r /\ <<r, k>>[2] = k
        BY <1>1
      <3>. QED BY <2>1, <3>1 DEF TalliedIn
    <2>. QED BY <2>1
  <1>3. TalliedIn(log, c, p, o) \subseteq S
    <2>1. ASSUME NEW e \in TalliedIn(log, c, p, o) PROVE e \in S
      <3>1. /\ e = <<e[1], e[2]>> /\ e[1] \in Procs
            /\ e[2] \in DOMAIN log[e[1]] /\ log[e[1]][e[2]] = x
        BY DEF TalliedIn
      <3>. QED BY <3>1
    <2>. QED BY <2>1
  <1>. QED BY <1>2, <1>3

\* The records of each kind are finitely many, so that they can be counted.
TalliesFinite ==
    \A c \in Nat, p \in Paths, o \in Outcomes : IsFiniteSet(Tallied(c, p, o))

LEMMA RecordedTally ==
    ASSUME TypeInv, TalliesFinite, NEW r \in Procs, idx[r] \in 1 .. Len(plan[r]),
           NEW o \in Outcomes, AppendAudit(r, o), TypeInv',
           NEW c \in Nat, NEW p \in Paths, NEW o2 \in Outcomes
    PROVE  /\ IsFiniteSet(Tallied(c, p, o2))'
           /\ Tally(c, p, o2) \in Nat
           /\ Tally(c, p, o2)' = Tally(c, p, o2) +
                IF c = cycle[r] /\ p = Planned(r).path /\ o2 = o THEN 1 ELSE 0
  <1> DEFINE n == Len(audit[r]) + 1
             x == [cycle |-> c, path |-> p, outcome |-> o2]
  <1>1. /\ audit[r] \in Seq(Records) /\ n \in Nat
        /\ audit'[r] = Append(audit[r], Record(r, o))
        /\ \A g \in Procs : g # r => audit'[g] = audit[g]
    BY DEF AppendAudit, TypeInv, TypeOK, DurableOK
  <1>2. /\ DOMAIN audit'[r] = DOMAIN audit[r] \cup {n} /\ n \notin DOMAIN audit[r]
        /\ audit'[r][n] = Record(r, o)
        /\ \A k \in DOMAIN audit[r] : audit'[r][k] = audit[r][k]
    BY <1>1
  <1>3. Record(r, o) = x <=> c = cycle[r] /\ p = Planned(r).path /\ o2 = o
    BY DEF Record
  <1>4. <<r, n>> \in Procs \X Nat /\ <<r, n>>[1] = r /\ <<r, n>>[2] = n
    BY <1>1
  <1>5. <<r, n>> \notin Tallied(c, p, o2)
    BY <1>2, <1>4 DEF Tallied, TalliedIn
  <1>6. Tallied(c, p, o2)' =
          IF Record(r, o) = x THEN Tallied(c, p, o2) \cup {<<r, n>>} ELSE Tallied(c, p, o2)
    <2>1. \A e \in Procs \X Nat : e[1] \in Procs /\ e = <<e[1], e[2]>>
      OBVIOUS
    <2>2. ASSUME NEW e \in Procs \X Nat
          PROVE  e \in Tallied(c, p, o2)' <=>
                   e \in Tallied(c, p, o2) \/ (e = <<r, n>> /\ Record(r, o) = x)
      <3>1. CASE e[1] # r
        <4>1. audit'[e[1]] = audit[e[1]] /\ e # <<r, n>>
          BY <1>1, <1>4, <2>1, <3>1
        <4>. QED BY <4>1 DEF Tallied, TalliedIn
      <3>2. CASE e[1] = r /\ e[2] # n
        <4>1. e[2] \in DOMAIN audit'[r] <=> e[2] \in DOMAIN audit[r]
          BY <1>2, <3>2
        <4>2. e[2] \in DOMAIN audit[r] => audit'[r][e[2]] = audit[r][e[2]]
          BY <1>2
        <4>3. e # <<r, n>>
          BY <1>4, <3>2
        <4>. QED BY <3>2, <4>1, <4>2, <4>3 DEF Tallied, TalliedIn
      <3>3. CASE e[1] = r /\ e[2] = n
        <4>1. e = <<r, n>>
          BY <2>1, <3>3
        <4>2. e \in Tallied(c, p, o2)' <=> Record(r, o) = x
          BY <1>2, <3>3 DEF Tallied, TalliedIn
        <4>. QED BY <1>5, <4>1, <4>2
      <3>. QED BY <3>1, <3>2, <3>3
    <2>3. Tallied(c, p, o2)' \subseteq Procs \X Nat /\ Tallied(c, p, o2) \subseteq Procs \X Nat
      BY DEF Tallied, TalliedIn
    <2>. QED BY <1>4, <2>2, <2>3
  <1>7. IsFiniteSet(Tallied(c, p, o2))
    BY DEF TalliesFinite
  <1>8. Cardinality(Tallied(c, p, o2)) \in Nat
    BY <1>7, FS_CardinalityType
  <1>9. /\ IsFiniteSet(Tallied(c, p, o2) \cup {<<r, n>>})
        /\ Cardinality(Tallied(c, p, o2) \cup {<<r, n>>}) = Cardinality(Tallied(c, p, o2)) + 1
    BY <1>5, <1>7, FS_AddElement
  <1>10. Tally(c, p, o2) = Cardinality(Tallied(c, p, o2))
    BY TallyOfTallied DEF Tally, Tallied, TypeInv, TypeOK, DurableOK
  <1>11. Tally(c, p, o2)' = Cardinality(Tallied(c, p, o2)')
    BY TallyOfTallied DEF Tally, Tallied, TypeInv, TypeOK, DurableOK
  <1>12. CASE Record(r, o) = x
    <2>1. Tallied(c, p, o2)' = Tallied(c, p, o2) \cup {<<r, n>>}
      BY <1>6, <1>12
    <2>. QED BY <1>3, <1>8, <1>9, <1>10, <1>11, <1>12, <2>1
  <1>13. CASE Record(r, o) # x
    <2>1. Tallied(c, p, o2)' = Tallied(c, p, o2)
      BY <1>6, <1>13
    <2>. QED BY <1>3, <1>7, <1>8, <1>10, <1>11, <1>13, <2>1
  <1>. QED BY <1>12, <1>13

\* An action that joins a report adds one to the count of its kind.
LEMMA ActedAppend ==
    ASSUME NEW a \in Seq(Actions), NEW q, NEW o, NEW p, NEW o2
    PROVE  /\ Acted(a, p, o2) \in Nat
           /\ Acted(Append(a, [path |-> q, outcome |-> o]), p, o2) =
                Acted(a, p, o2) + IF p = q /\ o2 = o THEN 1 ELSE 0
  <1> DEFINE x == [path |-> q, outcome |-> o]
             y == [path |-> p, outcome |-> o2]
             n == Len(a) + 1
             K(s) == {k \in DOMAIN s : s[k] = y}
  <1>1. Len(a) \in Nat /\ DOMAIN a = 1 .. Len(a)
    OBVIOUS
  <1>2. IsFiniteSet(K(a)) /\ Cardinality(K(a)) \in Nat
    <2>1. IsFiniteSet(1 .. Len(a))
      BY <1>1, FS_Interval
    <2>2. K(a) \in SUBSET (1 .. Len(a))
      BY <1>1
    <2>. QED BY <2>1, <2>2, FS_Subset, FS_CardinalityType
  <1>3. /\ DOMAIN Append(a, x) = DOMAIN a \cup {n} /\ n \notin DOMAIN a
        /\ Append(a, x)[n] = x
        /\ \A k \in DOMAIN a : Append(a, x)[k] = a[k]
    BY <1>1
  <1>4. x = y <=> p = q /\ o2 = o
    OBVIOUS
  <1>5. K(Append(a, x)) = IF x = y THEN K(a) \cup {n} ELSE K(a)
    <2> HIDE DEF x, y, n
    <2>. QED BY <1>3
  <1>6. Cardinality(K(a) \cup {n}) = Cardinality(K(a)) + 1
    <2>1. n \notin K(a)
      BY <1>3
    <2> HIDE DEF K, n
    <2>. QED BY <1>2, <2>1, FS_AddElement
  <1>7. \A s : Acted(s, p, o2) = Cardinality(K(s))
    BY DEF Acted
  <1>. HIDE DEF K, x, y, n
  <1>8. Acted(Append(a, x), p, o2) = Acted(a, p, o2) + IF x = y THEN 1 ELSE 0
    <2>1. CASE x = y
      <3>1. K(Append(a, x)) = K(a) \cup {n}
        BY <1>5, <2>1
      <3>. QED BY <1>2, <1>6, <1>7, <2>1, <3>1
    <2>2. CASE x # y
      <3>1. K(Append(a, x)) = K(a)
        BY <1>5, <2>2
      <3>. QED BY <1>2, <1>7, <2>2, <3>1
    <2>. QED BY <2>1, <2>2
  <1>. QED BY <1>2, <1>4, <1>7, <1>8 DEF x

\* The path whose intent the process has audited and not its outcome.
OpenIntent(r) ==
    IF pc[r] \in {"check", "rename", "verify", "purge", "success", "failed"}
    THEN {Planned(r).path} ELSE {}

\* The records of a cycle and the actions of its report agree, but for the
\* intents that are still open.
Balanced(c, actions, open) ==
    \A p \in Paths :
      /\ Tally(c, p, "success") = Acted(actions, p, "removed")
      /\ Tally(c, p, "failed") = Acted(actions, p, "failed")
      /\ Tally(c, p, "skipped") = Acted(actions, p, "skipped")
      /\ Tally(c, p, "planned") =
           Acted(actions, p, "removed") + Acted(actions, p, "failed")
             + Acted(actions, p, "would_remove") + IF p \in open THEN 1 ELSE 0

\* A cycle has one process, and its report is saved when the process leaves it.
CyclesNumbered ==
    /\ last.cycle \in 0 .. cycles
    /\ \A r \in Procs : \A k \in DOMAIN audit[r] : audit[r][k].cycle \in 1 .. cycles
    /\ \A r \in Procs : pc[r] # "idle" => cycle[r] \in 1 .. cycles /\ cycle[r] # last.cycle
    /\ \A r, g \in Procs :
         pc[r] # "idle" /\ pc[g] # "idle" /\ cycle[r] = cycle[g] => r = g

Account(r) ==
    /\ pc[r] # "idle" => Balanced(cycle[r], report[r], OpenIntent(r))
    /\ pc[r] \in {"idle", "plan"} => report[r] = <<>>

\* The strengthening of ReportMatchesAudit: the report that each process is
\* still writing agrees with the log as well, and cycles are told apart.
Books ==
    /\ TalliesFinite /\ CyclesNumbered
    /\ \A r \in Procs : Account(r)
    /\ Balanced(last.cycle, last.actions, {})
LEMMA BooksReport == TypeInv /\ Books => ReportMatchesAudit
  <1> SUFFICES ASSUME TypeInv, Books, NEW p \in Paths
               PROVE  Tally(last.cycle, p, "planned") =
                        Acted(last.actions, p, "removed")
                          + Acted(last.actions, p, "failed")
                          + Acted(last.actions, p, "would_remove")
    BY DEF Books, Balanced, ReportMatchesAudit
  <1>1. last.actions \in Seq(Actions)
    BY DEF TypeInv, TypeOK, DurableOK, Reports
  <1>2. \A o : Acted(last.actions, p, o) \in Nat
    BY <1>1, ActedAppend
  <1>. QED BY <1>2 DEF Books, Balanced

\* A cycle without records balances with an empty report.
LEMMA NoRecords ==
    ASSUME TypeInv, NEW c,
           \A r \in Procs : \A k \in DOMAIN audit[r] : audit[r][k].cycle # c
    PROVE  /\ Balanced(c, <<>>, {})
           /\ \A p, o : Tallied(c, p, o) = {}
  <1>1. ASSUME NEW p, NEW o PROVE Tallied(c, p, o) = {}
    BY DEF Tallied, TalliedIn
  <1>2. ASSUME NEW p, NEW o PROVE Tally(c, p, o) = 0
    <2>1. Tally(c, p, o) = Cardinality(Tallied(c, p, o))
      BY TallyOfTallied DEF Tally, Tallied, TypeInv, TypeOK, DurableOK
    <2>. QED BY <1>1, <2>1, FS_EmptySet
  <1>3. ASSUME NEW p, NEW o PROVE Acted(<<>>, p, o) = 0
    <2>1. {k \in DOMAIN <<>> : <<>>[k] = [path |-> p, outcome |-> o]} = {}
      OBVIOUS
    <2>. QED BY <2>1, FS_EmptySet DEF Acted
  <1>. QED BY <1>1, <1>2, <1>3 DEF Balanced

LEMMA BooksInit == Init => Books
  <1> SUFFICES ASSUME Init PROVE Books
    OBVIOUS
  <1>1. \A c : \A r \in Procs : \A k \in DOMAIN audit[r] : audit[r][k].cycle # c
    BY DEF Init
  <1>2. \A c : Balanced(c, <<>>, {}) /\ \A p, o : Tallied(c, p, o) = {}
    BY <1>1, TypeInit, NoRecords
  <1>3. TalliesFinite
    BY <1>2, FS_EmptySet DEF TalliesFinite
  <1>. QED BY <1>1, <1>2, <1>3 DEF Init, Books, CyclesNumbered, Account

LEMMA UnrecordedTally ==
    ASSUME UNCHANGED audit, NEW c, NEW p, NEW o
    PROVE  Tally(c, p, o)' = Tally(c, p, o)
  <1> DEFINE Of(log) == UNION {{<<r, k>> : k \in {k \in DOMAIN log[r] :
                 log[r][k] = [cycle |-> c, path |-> p, outcome |-> o]}} : r \in Procs}
  <1>1. Tally(c, p, o) = Cardinality(Of(audit)) /\ Tally(c, p, o)' = Cardinality(Of(audit'))
    BY DEF Tally
  <1> HIDE DEF Of
  <1>. QED BY <1>1

\* A process that neither records nor reports: it leaves its cycle or it goes
\* on with the intent it has open, if any.
Quiet(g) ==
    \/ pc'[g] = "idle" /\ report'[g] = <<>>
    \/ /\ pc[g] # "idle" /\ pc'[g] # "idle" /\ (pc'[g] = "plan" => pc[g] = "plan")
       /\ cycle'[g] = cycle[g] /\ report'[g] = report[g]
       /\ OpenIntent(g)' = OpenIntent(g)

LEMMA BooksQuiet ==
    ASSUME TypeInv, Books, UNCHANGED <<audit, last, cycles>>,
           \A g \in Procs : Quiet(g)
    PROVE  Books'
  <1>1. TalliesFinite'
    BY DEF Books, TalliesFinite, Tallied
  <1>2. CyclesNumbered'
    BY DEF Books, CyclesNumbered, Quiet
  <1>3. ASSUME NEW g \in Procs PROVE Account(g)'
    <2>1. CASE pc'[g] = "idle" /\ report'[g] = <<>>
      BY <2>1 DEF Account
    <2>2. CASE /\ pc[g] # "idle" /\ pc'[g] # "idle" /\ (pc'[g] = "plan" => pc[g] = "plan")
               /\ cycle'[g] = cycle[g] /\ report'[g] = report[g]
               /\ OpenIntent(g)' = OpenIntent(g)
      <3>1. Balanced(cycle[g], report[g], OpenIntent(g))
        BY <2>2 DEF Books, Account
      <3>2. Balanced(cycle[g], report[g], OpenIntent(g))'
        BY <2>2, <3>1, UnrecordedTally DEF Balanced
      <3>. QED BY <2>2, <3>2 DEF Books, Account
    <2>. QED BY <2>1, <2>2 DEF Quiet
  <1>4. Balanced(last.cycle, last.actions, {})'
    BY UnrecordedTally DEF Books, Balanced
  <1>. QED BY <1>1, <1>2, <1>3, <1>4 DEF Books

LEMMA BooksStart ==
    ASSUME TypeInv, Books, NEW r \in Procs, NEW m \in {"dry_run", "execute"},
           StartCycle(r, m)
    PROVE  Books'
  <1>1. /\ UNCHANGED <<audit, last, report, plan, idx>>
        /\ pc' = [pc EXCEPT ![r] = "plan"] /\ pc[r] = "idle"
        /\ cycle' = [cycle EXCEPT ![r] = cycles + 1]
        /\ cycles' = cycles + 1 /\ cycles \in Nat
    BY DEF StartCycle, Goto, TypeInv, TypeOK, CountersOK
  <1>2. pc \in [Procs -> Stages] /\ cycle \in [Procs -> Nat]
    BY DEF TypeInv, TypeOK, CycleOK
  <1>3. CyclesNumbered /\ TalliesFinite
    BY DEF Books
  <1>4. TalliesFinite'
    BY <1>1, <1>3 DEF TalliesFinite, Tallied
  <1>5. \A n \in 1 .. cycles : n \in 1 .. cycles + 1 /\ n # cycles + 1
    BY <1>1
  <1>6. CyclesNumbered'
    <2>1. last'.cycle \in 0 .. cycles'
      BY <1>1, <1>3 DEF CyclesNumbered
    <2>2. \A g \in Procs : \A k \in DOMAIN audit'[g] : audit'[g][k].cycle \in 1 .. cycles'
      BY <1>1, <1>3, <1>5 DEF CyclesNumbered
    <2>3. \A g \in Procs : pc'[g] # "idle" =>
            cycle'[g] \in 1 .. cycles' /\ cycle'[g] # last'.cycle
      BY <1>1, <1>2, <1>3 DEF CyclesNumbered
    <2>4. \A g, h \in Procs :
            pc'[g] # "idle" /\ pc'[h] # "idle" /\ cycle'[g] = cycle'[h] => g = h
      BY <1>1, <1>2, <1>3, <1>5 DEF CyclesNumbered
    <2>. QED BY <2>1, <2>2, <2>3, <2>4 DEF CyclesNumbered
  <1>7. ASSUME NEW g \in Procs PROVE Account(g)'
    <2>1. CASE g = r
      <3>1. Balanced(cycles + 1, <<>>, {})
        BY <1>1, <1>3, <1>5, NoRecords DEF CyclesNumbered
      <3>2. report'[r] = <<>>
        BY <1>1 DEF Books, Account
      <3>3. OpenIntent(r)' = {}
        BY <1>1, <1>2 DEF OpenIntent
      <3>4. Balanced(cycle[r], report[r], OpenIntent(r))'
        BY <1>1, <1>2, <3>1, <3>2, <3>3, UnrecordedTally DEF Balanced
      <3>. QED BY <2>1, <3>2, <3>4 DEF Account
    <2>2. CASE g # r
      <3>1. pc'[g] = pc[g] /\ cycle'[g] = cycle[g] /\ report'[g] = report[g]
        BY <1>1, <1>2, <2>2
      <3>2. OpenIntent(g)' = OpenIntent(g)
        BY <1>1, <3>1 DEF OpenIntent, Planned
      <3>3. Balanced(cycle[g], report[g], OpenIntent(g)) =>
              Balanced(cycle[g], report[g], OpenIntent(g))'
        BY <1>1, <3>1, <3>2, UnrecordedTally DEF Balanced
      <3>. QED BY <3>1, <3>3 DEF Books, Account
    <2>. QED BY <2>1, <2>2
  <1>8. Balanced(last.cycle, last.actions, {})'
    BY <1>1, UnrecordedTally DEF Books, Balanced
  <1>. QED BY <1>4, <1>6, <1>7, <1>8 DEF Books

\* A record keeps every other account; the account of its process is the
\* business of the steps below.
LEMMA BooksRecorded ==
    ASSUME TypeInv, TypeInv', Books, NEW r \in Procs, pc[r] # "idle",
           idx[r] \in 1 .. Len(plan[r]), NEW o \in Outcomes, AppendAudit(r, o),
           UNCHANGED <<cycle, last, cycles>>, Account(r)',
           \A g \in Procs \ {r} : Undisturbed(g)
    PROVE  Books'
  <1>1. TalliesFinite /\ CyclesNumbered
    BY DEF Books
  <1>0. ASSUME NEW c \in Nat, NEW p \in Paths, NEW o2 \in Outcomes, c # cycle[r]
        PROVE  Tally(c, p, o2)' = Tally(c, p, o2)
    <2>1. /\ IsFiniteSet(Tallied(c, p, o2))'
          /\ Tally(c, p, o2) \in Nat
          /\ Tally(c, p, o2)' = Tally(c, p, o2) +
               IF c = cycle[r] /\ p = Planned(r).path /\ o2 = o THEN 1 ELSE 0
      BY <1>1, RecordedTally
    <2>. QED BY <1>0, <2>1
  <1>2. TalliesFinite'
    BY <1>1, RecordedTally DEF TalliesFinite
  <1>3. cycle[r] \in 1 .. cycles /\ cycle[r] # last.cycle
    BY <1>1 DEF CyclesNumbered
  <1>4. CyclesNumbered'
    <2>1. \A g \in Procs : \A k \in DOMAIN audit'[g] : audit'[g][k].cycle \in 1 .. cycles'
      <3>1. ASSUME NEW k \in DOMAIN audit'[r] PROVE audit'[r][k].cycle \in 1 .. cycles
        <4>1. audit[r] \in Seq(Records) /\ audit'[r] = Append(audit[r], Record(r, o))
          BY DEF AppendAudit, TypeInv, TypeOK, DurableOK
        <4>2. CASE k \in DOMAIN audit[r]
          BY <1>1, <4>1, <4>2 DEF CyclesNumbered
        <4>3. CASE k = Len(audit[r]) + 1
          BY <1>3, <4>1, <4>3 DEF Record
        <4>. QED BY <4>1, <4>2, <4>3
      <3>2. \A g \in Procs \ {r} : audit'[g] = audit[g]
        BY DEF Undisturbed
      <3>. QED BY <1>1, <3>1, <3>2 DEF CyclesNumbered
    <2>2. \A g \in Procs : pc'[g] # "idle" => pc[g] # "idle"
      BY DEF Undisturbed
    <2>. QED BY <1>1, <2>1, <2>2 DEF CyclesNumbered
  <1>5. ASSUME NEW g \in Procs, g # r PROVE Account(g)'
    <2>1. /\ pc'[g] = pc[g] /\ cycle'[g] = cycle[g] /\ report'[g] = report[g]
          /\ OpenIntent(g)' = OpenIntent(g)
      BY <1>5 DEF Undisturbed, OpenIntent, Planned
    <2>2. CASE pc[g] = "idle"
      BY <2>1, <2>2 DEF Books, Account
    <2>3. CASE pc[g] # "idle"
      <3>1. cycle[g] \in Nat /\ cycle[g] # cycle[r]
        BY <1>1, <1>5, <2>3 DEF CyclesNumbered, TypeInv, TypeOK, CycleOK
      <3>2. \A p \in Paths, o2 \in Outcomes : Tally(cycle[g], p, o2)' = Tally(cycle[g], p, o2)
        <4>1. ASSUME NEW c \in Nat, NEW p \in Paths, NEW o2 \in Outcomes, c # cycle[r]
              PROVE  Tally(c, p, o2)' = Tally(c, p, o2)
          BY <4>1, <1>0
        <4>. QED BY <2>1, <3>1, <4>1 DEF Tally
      <3>3. Balanced(cycle[g], report[g], OpenIntent(g))
        BY <2>3 DEF Books, Account
      <3>4. Balanced(cycle[g], report[g], OpenIntent(g))'
        BY <2>1, <3>2, <3>3 DEF Balanced, Outcomes
      <3>. QED BY <2>1, <3>4 DEF Books, Account
    <2>. QED BY <2>2, <2>3
  <1>6. Balanced(last.cycle, last.actions, {})'
    <2>1. last.cycle \in Nat
      BY DEF TypeInv, TypeOK, DurableOK, Reports
    <2>2. ASSUME NEW c \in Nat, NEW p \in Paths, NEW o2 \in Outcomes, c # cycle[r]
          PROVE  Tally(c, p, o2)' = Tally(c, p, o2)
      BY <2>2, <1>0
    <2>3. \A p \in Paths, o2 \in Outcomes : Tally(last.cycle, p, o2)' = Tally(last.cycle, p, o2)
      BY <1>3, <2>1, <2>2 DEF Tally
    <2>. QED BY <2>3 DEF Books, Balanced, Outcomes
  <1>. QED BY <1>2, <1>4, <1>5, <1>6 DEF Books
\* Saving the report ends its cycle, so that nothing is recorded of it later.
LEMMA BooksSaved ==
    ASSUME TypeInv, Books, NEW r \in Procs, SaveReport(r)
    PROVE  Books'
  <1>1. /\ UNCHANGED <<audit, cycle, cycles>> /\ pc[r] = "save"
        /\ last' = [cycle |-> cycle[r], actions |-> report[r]]
        /\ pc'[r] = "idle" /\ report'[r] = <<>>
    BY DEF SaveReport, EndCycle, Goto, TypeInv, TypeOK, CycleOK
  <1>2. \A g \in Procs \ {r} : Undisturbed(g)
    BY OthersUndisturbed DEF Progress
  <1>3. CyclesNumbered /\ TalliesFinite
    BY DEF Books
  <1>4. TalliesFinite'
    BY <1>1, <1>3 DEF TalliesFinite, Tallied
  <1>5. CyclesNumbered'
    <2>1. cycle[r] \in 1 .. cycles /\ cycles \in Nat
      BY <1>1, <1>3 DEF CyclesNumbered, TypeInv, TypeOK, CountersOK
    <2>2. last'.cycle = cycle[r] /\ cycle[r] \in 0 .. cycles
      BY <1>1, <2>1
    <2>3. \A g \in Procs : pc'[g] # "idle" => pc[g] # "idle" /\ g # r
      BY <1>1, <1>2 DEF Undisturbed
    <2>4. \A g \in Procs : pc'[g] # "idle" => cycle[g] # cycle[r]
      BY <1>1, <1>3, <2>3 DEF CyclesNumbered
    <2>. QED BY <1>1, <1>3, <2>2, <2>3, <2>4 DEF CyclesNumbered
  <1>6. ASSUME NEW g \in Procs PROVE Account(g)'
    <2>1. CASE g = r
      BY <1>1, <2>1 DEF Account
    <2>2. CASE g # r
      <3>1. /\ pc'[g] = pc[g] /\ cycle'[g] = cycle[g] /\ report'[g] = report[g]
            /\ OpenIntent(g)' = OpenIntent(g)
        BY <1>2, <2>2 DEF Undisturbed, OpenIntent, Planned
      <3>2. Balanced(cycle[g], report[g], OpenIntent(g)) =>
              Balanced(cycle[g], report[g], OpenIntent(g))'
        BY <1>1, <3>1, UnrecordedTally DEF Balanced
      <3>. QED BY <3>1, <3>2 DEF Books, Account
    <2>. QED BY <2>1, <2>2
  <1>7. Balanced(last.cycle, last.actions, {})'
    <2>1. Balanced(cycle[r], report[r], {})
      BY <1>1 DEF Books, Account, OpenIntent
    <2>2. last'.cycle = cycle[r] /\ last'.actions = report[r]
      BY <1>1
    <2>. QED BY <1>1, <2>1, <2>2, UnrecordedTally DEF Balanced
  <1>. QED BY <1>4, <1>5, <1>6, <1>7 DEF Books

\* The steps that append a record, with the action that joins the report, if
\* any: the account of the process stays balanced.
LEMMA OwnBalance ==
    ASSUME TypeInv, TypeInv', Books, NEW r \in Procs,
           \/ ReportOnly(r) \/ Skip(r) \/ AuditIntent(r)
           \/ AuditSuccess(r) \/ AuditFailure(r)
    PROVE  /\ idx[r] \in 1 .. Len(plan[r])
           /\ \E o \in Outcomes : AppendAudit(r, o)
           /\ UNCHANGED <<cycle, last, cycles>> /\ pc[r] # "idle"
           /\ Account(r)'
  <1> DEFINE q == Planned(r).path
  <1>1. idx[r] \in 1 .. Len(plan[r])
    BY DEF ReportOnly, Skip, AuditIntent, AuditSuccess, AuditFailure, InRange, Removing,
       InPlan, TypeInv, TypeOK, CycleOK
  <1>2. /\ UNCHANGED <<cycle, last, cycles, plan>> /\ pc[r] # "idle"
        /\ pc'[r] \notin {"idle", "plan"}
    BY DEF ReportOnly, Skip, AuditIntent, AuditSuccess, AuditFailure, NextCandidate, Goto,
       TypeInv, TypeOK, CycleOK
  <1>3. TalliesFinite /\ cycle[r] \in Nat /\ q \in Paths
    BY <1>1, PlannedType DEF Books, Candidates, TypeInv, TypeOK, CycleOK
  <1>4. Balanced(cycle[r], report[r], OpenIntent(r))
    BY <1>2 DEF Books, Account
  <1>5. ASSUME NEW o \in Outcomes, AppendAudit(r, o), NEW p \in Paths, NEW o2 \in Outcomes
        PROVE  /\ Tally(cycle[r], p, o2) \in Nat
               /\ Tally(cycle[r], p, o2)' =
                    Tally(cycle[r], p, o2) + IF p = q /\ o2 = o THEN 1 ELSE 0
    <2>1. ASSUME NEW c \in Nat, c = cycle[r]
          PROVE  /\ Tally(c, p, o2) \in Nat
                 /\ Tally(c, p, o2)' =
                      Tally(c, p, o2) + IF p = q /\ o2 = o THEN 1 ELSE 0
      <3>1. /\ Tally(c, p, o2) \in Nat
            /\ Tally(c, p, o2)' = Tally(c, p, o2) +
                 IF c = cycle[r] /\ p = Planned(r).path /\ o2 = o THEN 1 ELSE 0
        <4>1. AppendAudit(r, o) /\ TalliesFinite /\ idx[r] \in 1 .. Len(plan[r])
          BY <1>1, <1>3, <1>5
        <4>. QED BY <4>1, RecordedTally
      <3>. QED BY <2>1, <3>1
    <2>. QED BY <1>2, <1>3, <2>1
  <1>6. ASSUME NEW o, PushAction(r, o), NEW p, NEW o2
        PROVE  /\ Acted(report[r], p, o2) \in Nat
               /\ Acted(report'[r], p, o2) =
                    Acted(report[r], p, o2) + IF p = q /\ o2 = o THEN 1 ELSE 0
    <2>1. report'[r] = Append(report[r], [path |-> q, outcome |-> o])
      BY <1>6 DEF PushAction, TypeInv, TypeOK, CycleOK
    <2>2. report[r] \in Seq(Actions)
      BY DEF TypeInv, TypeOK, CycleOK
    <2>. QED BY <2>1, <2>2, ActedAppend
  <1>7. ASSUME NEW o \in Outcomes, NEW x, AppendAudit(r, o), PushAction(r, x),
               \/ o = "planned" /\ x = "would_remove" /\ OpenIntent(r) = {}
               \/ o = "skipped" /\ x = "skipped" /\ OpenIntent(r) = {}
               \/ o = "success" /\ x = "removed" /\ OpenIntent(r) = {q}
               \/ o = "failed" /\ x = "failed" /\ OpenIntent(r) = {q},
               OpenIntent(r)' = {}
        PROVE  Balanced(cycle[r], report[r], OpenIntent(r))'
    <2>1. ASSUME NEW p \in Paths
          PROVE  /\ Tally(cycle[r], p, "success")' = Acted(report'[r], p, "removed")
                 /\ Tally(cycle[r], p, "failed")' = Acted(report'[r], p, "failed")
                 /\ Tally(cycle[r], p, "skipped")' = Acted(report'[r], p, "skipped")
                 /\ Tally(cycle[r], p, "planned")' =
                      Acted(report'[r], p, "removed") + Acted(report'[r], p, "failed")
                        + Acted(report'[r], p, "would_remove")
      <3>1. \A o2 \in Outcomes :
              /\ Tally(cycle[r], p, o2) \in Nat
              /\ Tally(cycle[r], p, o2)' =
                   Tally(cycle[r], p, o2) + IF p = q /\ o2 = o THEN 1 ELSE 0
        BY <1>5, <1>7
      <3>2. \A o2 :
              /\ Acted(report[r], p, o2) \in Nat
              /\ Acted(report'[r], p, o2) =
                   Acted(report[r], p, o2) + IF p = q /\ o2 = x THEN 1 ELSE 0
        BY <1>6, <1>7
      <3>3. /\ Tally(cycle[r], p, "success") = Acted(report[r], p, "removed")
            /\ Tally(cycle[r], p, "failed") = Acted(report[r], p, "failed")
            /\ Tally(cycle[r], p, "skipped") = Acted(report[r], p, "skipped")
            /\ Tally(cycle[r], p, "planned") =
                 Acted(report[r], p, "removed") + Acted(report[r], p, "failed")
                   + Acted(report[r], p, "would_remove")
                   + IF p \in OpenIntent(r) THEN 1 ELSE 0
        BY <1>4 DEF Balanced
      <3>. HIDE DEF q
      <3>. QED BY <1>7, <3>1, <3>2, <3>3 DEF Outcomes
    <2>2. \A p \in Paths : Acted(report'[r], p, "removed") + Acted(report'[r], p, "failed")
                             + Acted(report'[r], p, "would_remove") + 0 =
                           Acted(report'[r], p, "removed") + Acted(report'[r], p, "failed")
                             + Acted(report'[r], p, "would_remove")
      BY <1>6, <1>7
    <2>. QED BY <1>7, <2>1, <2>2 DEF Balanced
  <1>8. CASE ReportOnly(r)
    <2>1. AppendAudit(r, "planned") /\ PushAction(r, "would_remove")
      BY <1>8 DEF ReportOnly
    <2>2. OpenIntent(r) = {} /\ OpenIntent(r)' = {}
      BY <1>8 DEF ReportOnly, OpenIntent, NextCandidate, Goto,
         TypeInv, TypeOK, CycleOK
    <2>3. Balanced(cycle[r], report[r], OpenIntent(r))'
      BY <1>7, <2>1, <2>2 DEF Outcomes
    <2>. QED BY <1>1, <1>2, <2>1, <2>3 DEF Account, Outcomes
  <1>9. CASE Skip(r)
    <2>1. AppendAudit(r, "skipped") /\ PushAction(r, "skipped")
      BY <1>9 DEF Skip
    <2>2. OpenIntent(r) = {} /\ OpenIntent(r)' = {}
      BY <1>9 DEF Skip, OpenIntent, NextCandidate, Goto,
         TypeInv, TypeOK, CycleOK
    <2>3. Balanced(cycle[r], report[r], OpenIntent(r))'
      BY <1>7, <2>1, <2>2 DEF Outcomes
    <2>. QED BY <1>1, <1>2, <2>1, <2>3 DEF Account, Outcomes
  <1>10. CASE AuditIntent(r)
    <2>1. AppendAudit(r, "planned") /\ report' = report
      BY <1>10 DEF AuditIntent
    <2>2. OpenIntent(r) = {} /\ OpenIntent(r)' = {q}
      BY <1>2, <1>10 DEF AuditIntent, OpenIntent, Goto, Planned,
         TypeInv, TypeOK, CycleOK
    <2>3. \A p, o2 : Acted(report[r], p, o2) \in Nat
      <3>1. report[r] \in Seq(Actions)
        BY DEF TypeInv, TypeOK, CycleOK
      <3>. QED BY <3>1, ActedAppend
    <2>4. Balanced(cycle[r], report[r], OpenIntent(r))'
      BY <1>4, <1>5, <2>1, <2>2, <2>3 DEF Balanced, Outcomes
    <2>. QED BY <1>1, <1>2, <2>1, <2>4 DEF Account, Outcomes
  <1>11. CASE AuditSuccess(r)
    <2>1. AppendAudit(r, "success") /\ PushAction(r, "removed")
      BY <1>11 DEF AuditSuccess
    <2>2. OpenIntent(r) = {q} /\ OpenIntent(r)' = {}
      BY <1>11 DEF AuditSuccess, OpenIntent, NextCandidate, Goto,
         TypeInv, TypeOK, CycleOK
    <2>3. Balanced(cycle[r], report[r], OpenIntent(r))'
      BY <1>7, <2>1, <2>2 DEF Outcomes
    <2>. QED BY <1>1, <1>2, <2>1, <2>3 DEF Account, Outcomes
  <1>12. CASE AuditFailure(r)
    <2>1. AppendAudit(r, "failed") /\ PushAction(r, "failed")
      BY <1>12 DEF AuditFailure
    <2>2. OpenIntent(r) = {q} /\ OpenIntent(r)' = {}
      BY <1>12 DEF AuditFailure, OpenIntent, NextCandidate, Goto,
         TypeInv, TypeOK, CycleOK
    <2>3. Balanced(cycle[r], report[r], OpenIntent(r))'
      BY <1>7, <2>1, <2>2 DEF Outcomes
    <2>. QED BY <1>1, <1>2, <2>1, <2>3 DEF Account, Outcomes
  <1>. QED BY <1>8, <1>9, <1>10, <1>11, <1>12

LEMMA BooksProgress ==
    ASSUME TypeInv, TypeInv', Books, NEW r \in Procs, Progress(r)
    PROVE  Books'
  <1>1. \A g \in Procs \ {r} : Undisturbed(g)
    BY OthersUndisturbed
  <1>2. CASE \/ ReportOnly(r) \/ Skip(r) \/ AuditIntent(r)
             \/ AuditSuccess(r) \/ AuditFailure(r)
    BY <1>1, <1>2, OwnBalance, BooksRecorded
  <1>3. CASE SaveReport(r)
    BY <1>3, BooksSaved
  <1>4. ASSUME \/ (\E p \in Paths : Consider(r, p)) \/ EndPlan(r) \/ InspectContext(r)
               \/ InspectUse(r) \/ InspectProfile(r) \/ RevalidateIdentity(r)
               \/ RenameMissing(r) \/ RenameTaken(r) \/ RenameIntoQuarantine(r)
               \/ VerifyQuarantine(r) \/ PurgeSome(r) \/ PurgeAll(r)
               \/ PurgeMissing(r) \/ LoopDone(r)
        PROVE  UNCHANGED <<audit, last, cycles>> /\ Quiet(r)
    BY <1>4 DEF Consider, EndPlan, InspectContext, InspectUse, InspectProfile,
       RevalidateIdentity, RenameMissing, RenameTaken, RenameIntoQuarantine,
       VerifyQuarantine, PurgeSome, PurgeAll, PurgeMissing, LoopDone, Goto, Quiet,
       OpenIntent, Planned, TypeInv, TypeOK, CycleOK
  <1>5. \A g \in Procs \ {r} : Quiet(g)
    BY <1>1 DEF Undisturbed, Quiet, OpenIntent, Planned, Books, Account
  <1>. QED BY <1>2, <1>3, <1>4, <1>5, BooksQuiet DEF Progress

LEMMA BooksTrouble ==
    ASSUME TypeInv, TypeInv', Books, NEW r \in Procs, Trouble(r)
    PROVE  Books'
  <1>1. \A g \in Procs \ {r} : Undisturbed(g)
    BY OthersUndisturbed
  <1>2. \A g \in Procs \ {r} : Quiet(g)
    BY <1>1 DEF Undisturbed, Quiet, OpenIntent, Planned, Books, Account
  <1>3. ASSUME EndCycle(r) PROVE Quiet(r) /\ Account(r)' /\ cycle' = cycle
    BY <1>3 DEF EndCycle, Goto, Quiet, Account, TypeInv, TypeOK, CycleOK
  <1>4. ASSUME NEW landed \in BOOLEAN, AppendFails(r, landed) PROVE Books'
    <2>1. /\ EndCycle(r) /\ UNCHANGED <<last, cycles>> /\ pc[r] # "idle"
          /\ idx[r] \in 1 .. Len(plan[r])
      BY <1>4 DEF AppendFails, InPlan, TypeInv, TypeOK, CycleOK, InRange, Removing
    <2>2. UNCHANGED audit \/ \E o \in Outcomes : AppendAudit(r, o)
      BY <1>4 DEF AppendFails
    <2>. QED BY <1>1, <1>2, <1>3, <2>1, <2>2, BooksQuiet, BooksRecorded
  <1>5. CASE RemovalFails(r)
    <2>1. UNCHANGED <<audit, last, cycles>> /\ Quiet(r)
      BY <1>5 DEF RemovalFails, Goto, Quiet, OpenIntent, Planned, TypeInv, TypeOK, CycleOK
    <2>. QED BY <1>2, <2>1, BooksQuiet
  <1>6. CASE CycleFails(r) \/ Crash(r)
    <2>1. EndCycle(r) /\ UNCHANGED <<audit, last, cycles>>
      BY <1>6 DEF CycleFails, Crash
    <2>. QED BY <1>2, <1>3, <2>1, BooksQuiet
  <1>. QED BY <1>4, <1>5, <1>6 DEF Trouble

LEMMA BooksStep == TypeInv /\ TypeInv' /\ Books /\ [Next]_vars => Books'
  <1> SUFFICES ASSUME TypeInv, TypeInv', Books, [Next]_vars PROVE Books'
    OBVIOUS
  <1>1. CASE User \/ UNCHANGED vars
    <2>1. \A g \in Procs : Undisturbed(g)
      BY <1>1, UserUndisturbing
    <2>2. \A g \in Procs : Quiet(g)
      BY <2>1 DEF Undisturbed, Quiet, OpenIntent, Planned, Books, Account
    <2>3. UNCHANGED <<audit, last, cycles>>
      BY <1>1 DEF User, Guards, BoundExceptWorld, vars, UserWrites, UserAges,
         UserCreates, UserRefers, UserReclassifies, UserRemoves, UserEmpties,
         UserRestores
    <2>. QED BY <2>2, <2>3, BooksQuiet
  <1>. QED BY <1>1, BooksStart, BooksProgress, BooksTrouble DEF Next

\* cleanup-last.json and the audit log agree on the cycle the report is of,
\* for any number of processes, cycles, failed appends and crashes, and
\* whichever cycle happens to save its report last (execute_cleanup,
\* run_cleanup).
THEOREM ReportCorrect == Spec => []ReportMatchesAudit
  <1>1. TypeInv /\ Books /\ [Next]_vars => TypeInv' /\ Books'
    BY TypeStep, BooksStep
  <1>2. Spec => [](TypeInv /\ Books)
    BY TypeInit, BooksInit, <1>1, PTL DEF Spec
  <1>. QED BY <1>2, BooksReport, PTL
============================================================================
