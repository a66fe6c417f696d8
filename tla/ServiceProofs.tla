--------------------------- MODULE ServiceProofs ---------------------------
(***************************************************************************)
(* Theorems about the monitor as a service: about Heartbeat, that the      *)
(* verdict on a monitor is right about the dead and fair to the living,    *)
(* for every interval, every patience and any number of deaths, edits,     *)
(* jumps of the wall clock and processes that take over a pid; and about   *)
(* Installer, what installation and rollback leave behind, for any number  *)
(* of failing commands, signals and kills.                                 *)
(***************************************************************************)
EXTENDS Heartbeat, Installer, WellFoundedInduction, TLAPS


\* The age of a status against what the monitor has done since it wrote it, and
\* how far the wall clock has jumped meanwhile.
StatusDated ==
    /\ ~alive /\ status # None => status.age >= gone + shifted
    /\ alive /\ took # None =>
         /\ status # None /\ status.pid = pid
         /\ stage = "sleep" => status.age = took + slept - nap + shifted /\ nap <= slept
         /\ stage = "work" => status.age = took + slept + work + shifted
    /\ alive /\ status # None => status.age >= shifted

IInv == TypeOK /\ StatusDated

\* An interval is shorter than what a status is good for.
LEMMA Products ==
    ASSUME NEW i \in Intervals
    PROVE  /\ i \in Nat \ {0} /\ Patience * i \in Nat /\ (Patience - 1) * i \in Nat
           /\ Patience * i = (Patience - 1) * i + i
  <1>1. i \in Nat \ {0} /\ Patience \in Nat \ {0}
    BY TickAssumption
  <1>2. Patience * i \in Nat /\ (Patience - 1) * i \in Nat
    BY <1>1
  <1>3. Patience * i = (Patience - 1) * i + i
    BY <1>1
  <1> QED BY <1>1, <1>2, <1>3

LEMMA Bounds ==
    /\ Horizon \in Nat /\ MaxDeaths \in Nat /\ MaxEdits \in Nat /\ MaxOthers \in Nat
    /\ MaxJumps \in Nat /\ Jumps \subseteq Int
    /\ \A i \in Intervals : i \in Nat
  BY TickAssumption

\* The age of a status moves with the clocks.
LEMMA Aged ==
    ASSUME NEW d \in Int, status \in Statuses,
           status' = [status EXCEPT !.age = @ + d]
    PROVE  /\ status' \in Statuses /\ status' # None /\ status'.pid = status.pid
           /\ status'.error = status.error
           /\ status.age \in Int /\ status'.age = status.age + d
  BY NoneAssumption DEF Statuses

LEMMA InitIInv == Init => IInv
<1> SUFFICES ASSUME Init PROVE IInv
  OBVIOUS
<1>1. TypeOK
  <2>1. alive \in BOOLEAN
    BY DEF Init
  <2>2. QED
    BY <2>1, Bounds DEF Init, TypeOK
<1>2. StatusDated
  BY DEF Init, StatusDated
<1>3. QED
  BY <1>1, <1>2 DEF IInv

LEMMA StepIInv == IInv /\ [Next]_vars => IInv'
<1> SUFFICES ASSUME IInv, [Next]_vars PROVE IInv'
  OBVIOUS
<1> USE Bounds, NoneAssumption
    DEF IInv, clock, past, wall, bounds
<1>0. CASE UNCHANGED vars
  BY <1>0 DEF vars, TypeOK, StatusDated
<1>1. ASSUME Start PROVE IInv'
  <2> USE <1>1 DEF Start
  <2>1. TypeOK'
    BY DEF TypeOK
  <2>2. StatusDated'
    BY DEF TypeOK, StatusDated, Statuses
  <2>3. QED
    BY <2>1, <2>2
<1>2. ASSUME Dies PROVE IInv'
  <2> USE <1>2 DEF Dies
  <2>1. TypeOK'
    <3>1. alive' \in BOOLEAN
      OBVIOUS
    <3>2. deaths \in Nat /\ deaths < MaxDeaths
      BY DEF TypeOK
    <3>3. QED
      BY <3>1, <3>2 DEF TypeOK
  <2>2. StatusDated'
    BY DEF TypeOK, StatusDated, Statuses
  <2>3. QED
    BY <2>1, <2>2
<1>3. ASSUME Report PROVE IInv'
  <2> USE <1>3 DEF Report
  <2>1. PICK error \in BOOLEAN :
          status' = [pid |-> pid, error |-> error, age |-> work + leapt]
    OBVIOUS
  <2>2. status' \in Statuses
    BY <2>1 DEF TypeOK, Statuses
  <2>3. TypeOK'
    BY <2>2 DEF TypeOK
  <2>4. StatusDated'
    BY <2>1, <2>2 DEF TypeOK, StatusDated
  <2>5. QED
    BY <2>3, <2>4
<1>4. ASSUME Wake PROVE IInv'
  <2> USE <1>4 DEF Wake
  <2>1. TypeOK'
    BY DEF TypeOK
  <2>2. StatusDated'
    BY DEF TypeOK, StatusDated, Statuses
  <2>3. QED
    BY <2>1, <2>2
<1>5. ASSUME Tick PROVE IInv'
  <2> USE <1>5 DEF Tick
  <2>1. work' \in Nat /\ nap' \in Nat /\ gone' \in Nat
    BY DEF TypeOK
  <2>2. CASE status = None
    <3>1. status' = None
      BY <2>2
    <3>2. TypeOK'
      BY <2>1, <2>2, <3>1 DEF TypeOK
    <3>3. StatusDated'
      BY <2>2, <3>1 DEF StatusDated
    <3>4. QED
      BY <3>2, <3>3
  <2>3. CASE status # None
    <3>1. status \in Statuses /\ status' = [status EXCEPT !.age = @ + 1]
      BY <2>3 DEF TypeOK
    <3>2. /\ status' \in Statuses /\ status' # None /\ status'.pid = status.pid
          /\ status.age \in Int /\ status'.age = status.age + 1
      BY <3>1, Aged
    <3>3. TypeOK'
      BY <2>1, <3>2 DEF TypeOK
    <3>4. StatusDated'
      BY <2>1, <2>3, <3>2 DEF TypeOK, StatusDated
    <3>5. QED
      BY <3>3, <3>4
  <2>4. QED
    BY <2>2, <2>3
<1>6. ASSUME Jump PROVE IInv'
  <2> USE <1>6 DEF Jump
  <2>1. PICK d \in Jumps :
          /\ leapt' = leapt + d /\ shifted' = shifted + d
          /\ status' = IF status = None THEN None ELSE [status EXCEPT !.age = @ + d]
    OBVIOUS
  <2>2. d \in Int /\ leapt' \in Int /\ shifted' \in Int /\ jumps' \in 0 .. MaxJumps
    BY <2>1 DEF TypeOK
  <2>3. CASE status = None
    BY <2>1, <2>2, <2>3 DEF TypeOK, StatusDated
  <2>4. CASE status # None
    <3>1. status \in Statuses /\ status' = [status EXCEPT !.age = @ + d]
      BY <2>1, <2>4 DEF TypeOK
    <3>2. /\ status' \in Statuses /\ status' # None /\ status'.pid = status.pid
          /\ status.age \in Int /\ status'.age = status.age + d
      BY <2>2, <3>1, Aged
    <3>3. TypeOK'
      BY <2>2, <3>2 DEF TypeOK
    <3>4. StatusDated'
      BY <2>1, <2>2, <2>4, <3>2 DEF TypeOK, StatusDated
    <3>5. QED
      BY <3>3, <3>4
  <2>5. QED
    BY <2>3, <2>4
<1>7. ASSUME Edit PROVE IInv'
  BY <1>7 DEF Edit, TypeOK, StatusDated
<1>8. ASSUME Reuse PROVE IInv'
  BY <1>8 DEF Reuse, TypeOK, StatusDated
<1>9. QED
  BY <1>0, <1>1, <1>2, <1>3, <1>4, <1>5, <1>6, <1>7, <1>8 DEF Next

THEOREM InvCorrect == Spec => []IInv
BY InitIInv, StepIInv, PTL DEF Spec

\* The status that readers trust is well typed, in every reachable state
\* (monitor, MonitorStatus).
THEOREM TypeCorrect == Spec => []TypeOK
<1>1. IInv => TypeOK
  BY DEF IInv
<1>2. QED
  BY <1>1, InvCorrect, PTL

\* A dead monitor is noticed when Patience intervals have passed by the wall clock,
\* whoever has its pid by then (MonitorStatus::healthy, status, doctor).
THEOREM DeadCorrect == Spec => []DeadNoticed
<1>1. IInv => DeadNoticed
  <2> SUFFICES ASSUME IInv, ~alive, gone + shifted > Patience * interval
               PROVE  ~Healthy
    BY DEF DeadNoticed, StatusOk, DoctorOk
  <2>1. CASE status = None
    BY <2>1 DEF Healthy
  <2>2. CASE status # None
    <3>1. status.age \in Int /\ status.age >= gone + shifted /\ gone + shifted \in Int
      BY <2>2 DEF IInv, TypeOK, StatusDated, Statuses
    <3>2. Patience * interval \in Nat
      BY Products DEF IInv, TypeOK
    <3>3. QED
      BY <3>1, <3>2 DEF Healthy
  <2>3. QED
    BY <2>1, <2>2
<1>2. QED
  BY <1>1, InvCorrect, PTL

\* A living monitor is only called unhealthy for an error, two slow cycles, a wall
\* clock that jumped by more than a bound, or an interval that was lowered, whatever
\* the jumps of the clock (MonitorStatus::healthy).
THEOREM AlarmCorrect == Spec => []AlarmMeansSlow
<1>1. IInv => AlarmMeansSlow
  <2> DEFINE now == IF stage = "work" THEN work ELSE 0
  <2> SUFFICES ASSUME IInv, alive, took # None, ~Healthy, ~status.error, ~(slept > interval),
                      ~(took + shifted < 0)
               PROVE  took + now + shifted > (Patience - 1) * interval
    BY DEF AlarmMeansSlow
  <2>1. /\ Patience * interval \in Nat /\ (Patience - 1) * interval \in Nat
        /\ interval \in Nat \ {0}
        /\ Patience * interval = (Patience - 1) * interval + interval
    BY Products DEF IInv, TypeOK
  <2>2. /\ took \in Nat /\ now \in Nat /\ slept \in Nat /\ nap \in Nat /\ work \in Nat
        /\ shifted \in Int
    BY Bounds DEF IInv, TypeOK
  <2>3. status # None /\ status.pid = pid /\ status.age \in Int
    BY DEF IInv, TypeOK, StatusDated, Statuses
  <2>4. status.age >= took + shifted /\ status.age <= took + slept + now + shifted
    BY <2>2, <2>3 DEF IInv, TypeOK, StatusDated
  <2>5. status.age > Patience * interval
    BY <2>1, <2>2, <2>3, <2>4 DEF Healthy, PidAlive
  <2>6. slept <= interval
    BY <2>1, <2>2
  <2>7. QED
    BY <2>1, <2>2, <2>3, <2>4, <2>5, <2>6
<1>2. QED
  BY <1>1, InvCorrect, PTL

----------------------------------------------------------------------------
(* Installer.                                                              *)

\* The files that the k-th command of the script writes.
Written(k) ==
    IF k \in {3, 4, 6, 9, 10, 16} THEN {Script[k].file}
    ELSE IF k = 5 THEN {"config", "good"}
    ELSE IF k = 7 THEN {"shims"} ELSE {}

\* What the machine was like before the installation.
BeforeOK ==
    /\ before \in [files : [Managed -> {Nothing, "old"}], enabled : BOOLEAN, active : BOOLEAN]
    /\ before.enabled => before.files["unit"] # Nothing
    /\ before.active = before.enabled
    /\ before.files["shims"] # Nothing => before.files["guard"] # Nothing

\* Nothing has been touched before the traps are set, the copies are what was
\* there afterwards, and the script has no exit status until it ends.
CopiesKept ==
    /\ mode = "backup" =>
         files = before.files /\ enabled = before.enabled /\ active = before.active
    /\ mode \in {"install", "rollback"} => backup = before.files
    /\ mode # "exited" => code = Nothing

\* Where the script stands, and what it means that it comes back from a rollback.
Standing ==
    /\ mode = "backup" => at = 1
    /\ mode = "rollback" => at \in 1 .. 14
    /\ mode = "rollback" /\ back # 0 => failed

\* A startup file that was not there before has the block of the shims or nothing.
StartupOwn ==
    before.files["startup"] = Nothing => files["startup"] \in {Nothing, "empty", "new"}

\* What a rollback makes of a startup file, and of the shims.
StartupBack ==
    \/ files["startup"] = before.files["startup"]
    \/ before.files["startup"] = Nothing /\ files["startup"] = "empty"
ShimsBack ==
    \/ files["shims"] = before.files["shims"]
    \/ before.files["shims"] # Nothing /\ files["shims"] = "nested" /\ moved = 2

\* What each command of a rollback restores stays so until its end.
RollsBack ==
    mode = "rollback" /\ ~spoiled =>
      /\ at > 1 => ~active
      /\ \A k \in 2 .. 8 :
           at > k => files[RollbackScript[k].file] = before.files[RollbackScript[k].file]
      /\ at > 9 => StartupBack
      /\ at = 11 => files["shims"] = Nothing \/ moved = 2
      /\ at > 11 => ShimsBack
      /\ at > 13 => enabled = before.enabled

\* What the commands of an installation have done if none has failed.
InstallsInOrder ==
    mode = "install" /\ ~failed =>
      /\ \A k \in 1 .. 16 : at > k => \A f \in Written(k) : files[f] = "new"
      /\ at > 12 => enabled
      /\ at > 13 => active /\ mon \in {Nothing, "new"}
      /\ at > 14 => judged \in {"new", "reused"}

\* Where guard was before, it is there whenever no rollback is at work or has
\* failed; and on a machine that had no shims the script makes them once, with
\* guard there, and moves them away once.
GuardStays ==
    /\ before.files["guard"] # Nothing /\ ~spoiled
    /\ mode \in {"backup", "install"} \/ (mode = "exited" /\ code # "killed")
    => files["guard"] \in Binaries
ShimsOnce ==
    before.files["shims"] = Nothing =>
      /\ mode = "backup" \/ (mode = "install" /\ at < 8) \/ (mode = "rollback" /\ back \in 1 .. 7)
           => files["shims"] = Nothing /\ moved = 0
      /\ moved > 0 => files["shims"] = Nothing
      /\ mode = "rollback" /\ at > 10 /\ ~spoiled => files["shims"] = Nothing
      /\ mode = "install" /\ ~spoiled /\ files["shims"] # Nothing => files["guard"] \in Binaries

\* A shim that is left can run guard.
GuardBehindShims ==
    mode = "exited" /\ code # "killed" /\ ~spoiled =>
      (files["shims"] # Nothing => files["guard"] \in Binaries)

InstallInv ==
    /\ InstallTypeOK /\ BeforeOK /\ CopiesKept /\ Standing /\ StartupOwn /\ RollsBack
    /\ InstallsInOrder /\ GuardStays /\ ShimsOnce
    /\ SignalRestores /\ SuccessIsComplete /\ GuardBehindShims

LEMMA Commands ==
    /\ Len(Script) = 17 /\ Len(RollbackScript) = 14
    /\ Script[1] = Do("build") /\ Script[2] = Do("stop") /\ Script[3] = Put("guard")
    /\ Script[4] = Put("unit") /\ Script[5] = Do("config") /\ Script[6] = Put("distro")
    /\ Script[7] = Do("shims") /\ Script[8] = Do("create") /\ Script[9] = Put("startup")
    /\ Script[10] = Put("env") /\ Script[11] = Do("reload") /\ Script[12] = Do("enable")
    /\ Script[13] = Do("restart") /\ Script[14] = Do("doctor") /\ Script[15] = Do("version")
    /\ Script[16] = Put("record") /\ Script[17] = Do("untrap")
    /\ RollbackScript[1] = Do("stop") /\ RollbackScript[2] = Put("guard")
    /\ RollbackScript[3] = Put("unit") /\ RollbackScript[4] = Put("config")
    /\ RollbackScript[5] = Put("good") /\ RollbackScript[6] = Put("record")
    /\ RollbackScript[7] = Put("distro") /\ RollbackScript[8] = Put("env")
    /\ RollbackScript[9] = Put("startup") /\ RollbackScript[10] = Do("mv")
    /\ RollbackScript[11] = Do("cp") /\ RollbackScript[12] = Do("reload")
    /\ RollbackScript[13] = Do("enable") /\ RollbackScript[14] = Do("start")
  BY DEF Script, RollbackScript

LEMMA Places ==
    /\ Managed = {"guard", "unit", "config", "good", "record", "distro", "env", "startup", "shims"}
    /\ \A k \in 1 .. 17 :
         /\ Script[k].do = "doctor" <=> k = 14
         /\ Script[k].do = "untrap" <=> k = 17
         /\ Written(k) \subseteq Managed
         /\ Behind(k) \in 2 .. 18 /\ Behind(k) \notin 8 .. 10
         /\ k < 17 => Behind(k) \in 2 .. 17
         /\ Behind(k) < 8 => k < 7
    /\ \A k \in 2 .. 9 : RollbackScript[k].file \in Restorable
    /\ \A k \in 2 .. 8 : RollbackScript[k].file # "startup"
    /\ \A f \in Restorable \ {"startup"} : \E k \in 2 .. 8 : RollbackScript[k].file = f
    /\ \A f \in Managed : \E k \in 1 .. 16 : f \in Written(k)
<1>1. Managed = {"guard", "unit", "config", "good", "record", "distro", "env", "startup", "shims"}
  BY DEF Managed, Restorable
<1>2. ASSUME NEW k \in 1 .. 17
      PROVE  /\ Script[k].do = "doctor" <=> k = 14
             /\ Script[k].do = "untrap" <=> k = 17
  BY Commands DEF Do, Put
<1>3. ASSUME NEW k \in 1 .. 17 PROVE Written(k) \subseteq Managed
  BY Commands DEF Do, Put, Managed, Restorable, Written
<1>4. \A k \in 2 .. 9 : RollbackScript[k].file \in Restorable
  BY Commands DEF Put, Restorable
<1>5. ASSUME NEW f \in Restorable \ {"startup"} PROVE \E k \in 2 .. 8 : RollbackScript[k].file = f
  BY Commands DEF Put, Restorable
<1>6. ASSUME NEW f \in Managed PROVE \E k \in 1 .. 16 : f \in Written(k)
  <2>1. /\ Written(3) = {"guard"} /\ Written(4) = {"unit"} /\ Written(5) = {"config", "good"}
        /\ Written(6) = {"distro"} /\ Written(7) = {"shims"} /\ Written(9) = {"startup"}
        /\ Written(10) = {"env"} /\ Written(16) = {"record"}
    BY Commands DEF Put, Written
  <2>2. QED
    BY <1>1, <2>1
<1>7. ASSUME NEW k \in 1 .. 17
      PROVE  /\ Behind(k) \in 2 .. 18 /\ Behind(k) \notin 8 .. 10
             /\ k < 17 => Behind(k) \in 2 .. 17
             /\ Behind(k) < 8 => k < 7
  BY DEF Behind, InstallShims
<1>8. \A k \in 2 .. 8 : RollbackScript[k].file # "startup"
  BY Commands DEF Put
<1>9. QED
  BY <1>1, <1>2, <1>3, <1>4, <1>5, <1>6, <1>7, <1>8

\* What a command of the script changes, wholly done.
LEMMA Effects ==
    ASSUME InstallTypeOK, Effect(Script[at])
    PROVE  /\ backup' = backup /\ moved' = moved /\ report' = report
           /\ at # 8 =>
                files' = [f \in Managed |-> IF f \in Written(at) THEN Content(f) ELSE files[f]]
           /\ at = 8 => \/ files' = files
                        \/ files' = [files EXCEPT !["startup"] = "empty"]
           /\ at = 12 => enabled' = TRUE
           /\ at # 12 => enabled' = enabled
           /\ at = 13 => active' = TRUE /\ mon' = Nothing
           /\ at = 2 /\ before.active => active' = FALSE /\ mon' = Nothing
           /\ at # 13 /\ ~(at = 2 /\ before.active) => UNCHANGED <<active, mon>>
<1>1. at \in 1 .. 17 /\ files = [f \in Managed |-> files[f]] /\ enabled \in BOOLEAN /\ active \in BOOLEAN
  BY Commands DEF InstallTypeOK
<1>2. PICK step : step = Script[at]
  OBVIOUS
<1>3. Effect(step)
  BY <1>2
<1>4. CASE at \in {3, 4, 6, 9, 10, 16}
  <2>1. step.do = "put" /\ Written(at) = {step.file}
    BY <1>2, <1>4, Commands DEF Put, Written
  <2>2. Set({step.file}) /\ Quiet /\ UNCHANGED <<backup, moved, enabled, active>>
    BY <1>3, <2>1 DEF Effect
  <2>3. QED
    BY <1>1, <1>4, <2>1, <2>2 DEF Set, Quiet
<1>5. CASE at = 5
  <2>1. step.do = "config" /\ Written(at) = {"config", "good"}
    BY <1>2, <1>5, Commands DEF Do, Written
  <2>2. Set({"config", "good"}) /\ Quiet /\ UNCHANGED <<backup, moved, enabled, active>>
    BY <1>3, <2>1 DEF Effect
  <2>3. QED
    BY <1>1, <1>5, <2>1, <2>2 DEF Set, Quiet
<1>6. CASE at = 7
  <2>1. step.do = "shims" /\ Written(at) = {"shims"}
    BY <1>2, <1>6, Commands DEF Do, Written
  <2>2. Set({"shims"}) /\ Quiet /\ UNCHANGED <<backup, moved, enabled, active>>
    BY <1>3, <2>1 DEF Effect
  <2>3. QED
    BY <1>1, <1>6, <2>1, <2>2 DEF Set, Quiet
<1>7. CASE at = 8
  <2>1. step.do = "create"
    BY <1>2, <1>7, Commands DEF Do
  <2>2. CASE files["startup"] = Nothing
    <3>1. /\ files' = [files EXCEPT !["startup"] = "empty"]
          /\ Quiet /\ UNCHANGED <<backup, moved, enabled, active>>
      BY <1>3, <2>1, <2>2 DEF Effect
    <3>2. QED
      BY <1>7, <3>1 DEF Quiet
  <2>3. CASE files["startup"] # Nothing
    <3>1. Quiet /\ UNCHANGED machine
      BY <1>3, <2>1, <2>3 DEF Effect
    <3>2. QED
      BY <1>7, <3>1 DEF Quiet, machine
  <2>4. QED
    BY <2>2, <2>3
<1>8. CASE at \in {1, 2, 11, 12, 13, 14, 15, 17}
  <2>1. Written(at) = {}
    BY <1>8 DEF Written
  <2>2. step.do = IF at = 1 THEN "build" ELSE IF at = 2 THEN "stop" ELSE IF at = 11 THEN "reload"
                  ELSE IF at = 12 THEN "enable" ELSE IF at = 13 THEN "restart"
                  ELSE IF at = 14 THEN "doctor" ELSE IF at = 15 THEN "version" ELSE "untrap"
    BY <1>2, <1>8, Commands DEF Do
  <2>3. files' = files
    BY <1>3, <1>8, <2>2 DEF Effect, machine, Stopped, Quiet
  <2>4. files' = [f \in Managed |-> IF f \in Written(at) THEN Content(f) ELSE files[f]]
    BY <1>1, <2>1, <2>3
  <2>5. CASE at = 2 /\ before.active
    <3>1. step.do = "stop"
      BY <2>2, <2>5
    <3>2. active' = FALSE /\ Stopped /\ UNCHANGED <<files, backup, moved, enabled>>
      BY <1>3, <2>5, <3>1 DEF Effect
    <3>3. QED
      BY <1>1, <2>4, <2>5, <3>2 DEF Stopped, Quiet
  <2>6. CASE at = 12
    <3>1. step.do = "enable"
      BY <2>2, <2>6
    <3>2. enabled' = TRUE /\ Quiet /\ UNCHANGED <<files, backup, moved, active>>
      BY <1>3, <2>6, <3>1 DEF Effect
    <3>3. QED
      BY <1>1, <2>4, <2>6, <3>2 DEF Stopped, Quiet
  <2>7. CASE at = 13
    <3>1. step.do = "restart"
      BY <2>2, <2>7
    <3>2. active' = TRUE /\ Stopped /\ UNCHANGED <<files, backup, moved, enabled>>
      BY <1>3, <2>7, <3>1 DEF Effect
    <3>3. QED
      BY <1>1, <2>4, <2>7, <3>2 DEF Stopped, Quiet
  <2>8. CASE at \notin {12, 13} /\ ~(at = 2 /\ before.active)
    <3>1. UNCHANGED <<mon, report, files, backup, moved, enabled, active>>
      BY <1>3, <1>8, <2>2, <2>8 DEF Effect, machine, Quiet
    <3>2. QED
      BY <1>1, <1>8, <2>4, <2>8, <3>1
  <2>9. QED
    BY <2>5, <2>6, <2>7, <2>8
<1>9. \/ at \in {3, 4, 6, 9, 10, 16} \/ at = 5 \/ at = 7 \/ at = 8
      \/ at \in {1, 2, 11, 12, 13, 14, 15, 17}
  BY <1>1
<1>10. QED
  BY <1>4, <1>5, <1>6, <1>7, <1>8, <1>9

\* A command that is stopped in its middle.
LEMMA Halves ==
    ASSUME InstallTypeOK, Half(Script[at])
    PROVE  /\ UNCHANGED <<backup, moved, enabled, active, mon, report>>
           /\ files' \in [Managed -> Contents] /\ files'["startup"] = files["startup"]
           /\ at # 7 => files'["shims"] = files["shims"]
<1>1. at \in 1 .. 17 /\ files \in [Managed -> Contents] /\ "guard" \in Managed
      /\ "shims" \in Managed /\ "startup" \in Managed
  BY Commands, Places DEF InstallTypeOK
<1>2. PICK step : step = Script[at]
  OBVIOUS
<1>3. UNCHANGED <<backup, moved, enabled, active, mon, report>>
  BY <1>2 DEF Half, Quiet
<1>4. CASE step \in {Put("guard"), Put("unit")}
                 /\ \E left \in {Nothing, "part"} : files' = [files EXCEPT ![step.file] = left]
  <2>1. step.file \in {"guard", "unit"} /\ at \notin {5, 7}
    BY <1>2, <1>4, Commands DEF Put, Do
  <2>2. PICK left \in {Nothing, "part"} : files' = [files EXCEPT ![step.file] = left]
    BY <1>4
  <2>3. QED
    BY <1>1, <1>3, <2>1, <2>2 DEF Contents
<1>5. CASE step.do = "config" /\ \E file \in {"config", "good"} : Set({file})
  <2>1. PICK file \in {"config", "good"} : Set({file})
    BY <1>5
  <2>2. files' = [f \in Managed |-> IF f \in {file} THEN Content(f) ELSE files[f]]
    BY <2>1 DEF Set
  <2>3. Content(file) \in Contents
    BY <1>1 DEF Content, Contents, Binaries
  <2>4. QED
    BY <1>1, <1>3, <2>2, <2>3
<1>6. CASE step.do = "shims" /\ files' = [files EXCEPT !["shims"] = "part"]
  <2>1. at = 7
    BY <1>1, <1>2, <1>6, Commands DEF Put, Do
  <2>2. QED
    BY <1>1, <1>3, <1>6, <2>1 DEF Contents
<1>7. QED
  BY <1>2, <1>4, <1>5, <1>6 DEF Half

\* A command of the script that fails or is interrupted.
LEMMA Tries ==
    ASSUME InstallTypeOK, Partly(Script[at]) \/ Effect(Script[at])
    PROVE  /\ backup' = backup /\ moved' = moved /\ report' = report
           /\ mon' \in {mon, Nothing} /\ enabled' \in BOOLEAN /\ active' \in BOOLEAN
           /\ files' \in [Managed -> Contents]
           /\ at # 7 => files'["shims"] = files["shims"]
           /\ files'["startup"] \in {files["startup"], "empty", "new"}
<1>1. at \in 1 .. 17 /\ files \in [Managed -> Contents] /\ enabled \in BOOLEAN /\ active \in BOOLEAN
      /\ "shims" \in Managed /\ "startup" \in Managed
  BY Commands, Places DEF InstallTypeOK
<1>2. CASE Effect(Script[at])
  <2>1. \A f \in Managed : Content(f) \in Contents
    BY <1>1, Places DEF Content, Contents, Binaries
  <2>2. CASE at # 8
    <3>1. files' = [f \in Managed |-> IF f \in Written(at) THEN Content(f) ELSE files[f]]
      BY <1>2, <2>2, Effects
    <3>2. at # 7 => "shims" \notin Written(at)
      BY <1>1, Commands DEF Written, Put
    <3>3. Content("startup") = "new"
      BY DEF Content
    <3>4. /\ files' \in [Managed -> Contents]
          /\ at # 7 => files'["shims"] = files["shims"]
          /\ files'["startup"] \in {files["startup"], "new"}
      BY <1>1, <2>1, <3>1, <3>2, <3>3
    <3>5. QED
      BY <1>1, <1>2, <3>4, Effects
  <2>3. CASE at = 8
    <3>1. files' = files \/ files' = [files EXCEPT !["startup"] = "empty"]
      BY <1>2, <2>3, Effects
    <3>2. /\ files' \in [Managed -> Contents]
          /\ files'["shims"] = files["shims"]
          /\ files'["startup"] \in {files["startup"], "empty"}
      BY <1>1, <3>1 DEF Contents
    <3>3. QED
      BY <1>1, <1>2, <3>2, Effects
  <2>4. QED
    BY <2>2, <2>3
<1>3. CASE Half(Script[at])
  BY <1>1, <1>3, Halves
<1>4. CASE Quiet /\ UNCHANGED machine
  BY <1>1, <1>4 DEF Quiet, machine, InstallTypeOK
<1>5. QED
  BY <1>2, <1>3, <1>4 DEF Partly

\* What a command of a rollback changes.
LEMMA RollbackEffects ==
    ASSUME InstallTypeOK, BeforeOK, backup = before.files, at \in 1 .. 14,
           RollbackEffect(RollbackScript[at])
    PROVE  /\ backup' = backup /\ report' = report
           /\ at \in 2 .. 8 =>
                files' = [files EXCEPT ![RollbackScript[at].file] =
                                         before.files[RollbackScript[at].file]]
           /\ at = 9 => files' = [files EXCEPT !["startup"] = RestoredFile("startup")]
           /\ at = 10 => \/ files["shims"] # Nothing /\ moved < 2 /\ moved' = moved + 1
                            /\ files' = [files EXCEPT !["shims"] = Nothing]
                         \/ (files["shims"] = Nothing \/ moved = 2)
                            /\ UNCHANGED <<files, moved>>
           /\ at = 11 => files' = [files EXCEPT !["shims"] = RestoredShims]
           /\ at \notin 2 .. 11 => files' = files
           /\ at # 10 => moved' = moved
           /\ at = 1 => active' = FALSE /\ mon' = Nothing
           /\ at = 14 /\ before.active => active' = (files["unit"] # Nothing)
           /\ at # 1 /\ ~(at = 14 /\ before.active) => active' = active
           /\ at # 1 => mon' = mon
           /\ at = 13 => enabled' = (before.enabled /\ files["unit"] # Nothing)
           /\ at # 13 => enabled' = enabled
<1>1. PICK step : step = RollbackScript[at]
  OBVIOUS
<1>2. RollbackEffect(step) /\ moved \in 0 .. 2
  BY <1>1 DEF InstallTypeOK
<1>3. CASE at \in 2 .. 9
  <2>1. step.do = "put"
    BY <1>1, <1>3, Commands DEF Put
  <2>2. /\ files' = [files EXCEPT ![step.file] = RestoredFile(step.file)]
        /\ Quiet /\ UNCHANGED <<backup, moved, enabled, active>>
    BY <1>2, <2>1 DEF RollbackEffect
  <2>3. CASE at = 9
    <3>1. step.file = "startup"
      BY <1>1, <2>3, Commands DEF Put
    <3>2. QED
      BY <1>3, <2>2, <2>3, <3>1 DEF Quiet
  <2>4. CASE at \in 2 .. 8
    <3>1. step.file # "startup"
      BY <1>1, <2>4, Places
    <3>2. RestoredFile(step.file) = before.files[step.file]
      BY <3>1 DEF RestoredFile
    <3>3. QED
      BY <1>1, <1>3, <2>2, <2>4, <3>2 DEF Quiet
  <2>5. at = 9 \/ at \in 2 .. 8
    BY <1>3
  <2>6. QED
    BY <2>3, <2>4, <2>5
<1>4. CASE at = 1
  <2>1. step.do = "stop"
    BY <1>1, <1>4, Commands DEF Do
  <2>2. active' = FALSE /\ Stopped /\ UNCHANGED <<files, backup, moved, enabled>>
    BY <1>2, <2>1 DEF RollbackEffect
  <2>3. QED
    BY <1>4, <2>2 DEF Stopped
<1>5. CASE at = 10
  <2>1. step.do = "mv"
    BY <1>1, <1>5, Commands DEF Do
  <2>2. CASE files["shims"] # Nothing /\ moved < 2
    <3>1. /\ files' = [files EXCEPT !["shims"] = Nothing] /\ moved' = moved + 1
          /\ Quiet /\ UNCHANGED <<backup, enabled, active>>
      BY <1>2, <2>1, <2>2 DEF RollbackEffect
    <3>2. QED
      BY <1>5, <2>2, <3>1 DEF Quiet
  <2>3. CASE ~(files["shims"] # Nothing /\ moved < 2)
    <3>1. Quiet /\ UNCHANGED machine
      BY <1>2, <2>1, <2>3 DEF RollbackEffect
    <3>2. QED
      BY <1>2, <1>5, <2>3, <3>1 DEF Quiet, machine
  <2>4. QED
    BY <2>2, <2>3
<1>6. CASE at = 11
  <2>1. step.do = "cp"
    BY <1>1, <1>6, Commands DEF Do
  <2>2. /\ files' = [files EXCEPT !["shims"] = RestoredShims]
        /\ Quiet /\ UNCHANGED <<backup, moved, enabled, active>>
    BY <1>2, <2>1 DEF RollbackEffect
  <2>3. QED
    BY <1>6, <2>2 DEF Quiet
<1>7. CASE at = 12
  <2>1. step.do = "reload"
    BY <1>1, <1>7, Commands DEF Do
  <2>2. Quiet /\ UNCHANGED machine
    BY <1>2, <2>1 DEF RollbackEffect
  <2>3. QED
    BY <1>7, <2>2 DEF Quiet, machine
<1>8. CASE at = 13
  <2>1. step.do = "enable"
    BY <1>1, <1>8, Commands DEF Do
  <2>2. /\ enabled' = (before.enabled /\ files["unit"] # Nothing)
        /\ Quiet /\ UNCHANGED <<files, backup, moved, active>>
    BY <1>2, <2>1 DEF RollbackEffect
  <2>3. QED
    BY <1>8, <2>2 DEF Quiet
<1>9. CASE at = 14
  <2>1. step.do = "start"
    BY <1>1, <1>9, Commands DEF Do
  <2>2. CASE before.active
    <3>1. active' = (files["unit"] # Nothing) /\ Quiet /\ UNCHANGED <<files, backup, moved, enabled>>
      BY <1>2, <2>1, <2>2 DEF RollbackEffect
    <3>2. QED
      BY <1>9, <2>2, <3>1 DEF Quiet
  <2>3. CASE ~before.active
    <3>1. Quiet /\ UNCHANGED machine
      BY <1>2, <2>1, <2>3 DEF RollbackEffect
    <3>2. QED
      BY <1>9, <2>3, <3>1 DEF Quiet, machine
  <2>4. QED
    BY <2>2, <2>3
<1>10. at = 1 \/ at \in 2 .. 9 \/ at = 10 \/ at = 11 \/ at = 12 \/ at = 13 \/ at = 14
  OBVIOUS
<1>11. QED
  BY <1>3, <1>4, <1>5, <1>6, <1>7, <1>8, <1>9, <1>10

\* A copy of a rollback that is stopped in its middle.
LEMMA RollbackHalves ==
    ASSUME InstallTypeOK, BeforeOK, backup = before.files, at \in 1 .. 14,
           RollbackHalf(RollbackScript[at])
    PROVE  /\ UNCHANGED <<backup, moved, enabled, active, mon, report>>
           /\ files' \in [Managed -> Contents]
           /\ files'["shims"] = files["shims"] \/ before.files["shims"] # Nothing
           /\ files'["startup"] = files["startup"] \/ before.files["startup"] # Nothing
<1>1. files \in [Managed -> Contents] /\ "shims" \in Managed /\ "startup" \in Managed
  BY Places DEF InstallTypeOK
<1>2. PICK step : step = RollbackScript[at]
  OBVIOUS
<1>3. UNCHANGED <<backup, moved, enabled, active, mon, report>>
  BY <1>2 DEF RollbackHalf, Quiet
<1>4. CASE /\ step.do = "put" /\ backup[step.file] # Nothing
           /\ \E left \in {Nothing, "part"} : files' = [files EXCEPT ![step.file] = left]
  <2>1. at \in 2 .. 9
    BY <1>2, <1>4, Commands DEF Put, Do
  <2>2. step.file # "shims"
    BY <1>2, <2>1, Places DEF Restorable
  <2>3. PICK left \in {Nothing, "part"} : files' = [files EXCEPT ![step.file] = left]
    BY <1>4
  <2>4. files' \in [Managed -> Contents] /\ files'["shims"] = files["shims"]
    BY <1>1, <2>2, <2>3 DEF Contents
  <2>5. files'["startup"] = files["startup"] \/ before.files["startup"] # Nothing
    <3>1. CASE step.file = "startup"
      BY <1>4, <3>1
    <3>2. CASE step.file # "startup"
      BY <1>1, <2>3, <3>2
    <3>3. QED
      BY <3>1, <3>2
  <2>6. QED
    BY <1>3, <2>4, <2>5
<1>5. CASE /\ step.do = "cp" /\ backup["shims"] # Nothing
           /\ files' = [files EXCEPT !["shims"] =
                                      IF files["shims"] = Nothing THEN "part" ELSE "nested"]
  BY <1>1, <1>3, <1>5 DEF Contents
<1>6. QED
  BY <1>2, <1>4, <1>5 DEF RollbackHalf

\* A command of a rollback, whether it fails, is interrupted or is done.
LEMMA RollbackTries ==
    ASSUME InstallTypeOK, BeforeOK, StartupOwn, backup = before.files, at \in 1 .. 14,
           RollbackPartly(RollbackScript[at]) \/ RollbackEffect(RollbackScript[at])
    PROVE  /\ backup' = backup /\ report' = report
           /\ mon' \in {mon, Nothing} /\ enabled' \in BOOLEAN /\ active' \in BOOLEAN
           /\ files' \in [Managed -> Contents]
           /\ \/ files'["shims"] = files["shims"] /\ moved' = moved
              \/ /\ at = 10 /\ files["shims"] # Nothing /\ moved < 2
                 /\ files'["shims"] = Nothing /\ moved' = moved + 1
              \/ moved' = moved /\ before.files["shims"] # Nothing
           /\ before.files["startup"] = Nothing =>
                files'["startup"] \in {Nothing, "empty", "new"}
<1>1. /\ files \in [Managed -> Contents] /\ "shims" \in Managed /\ "startup" \in Managed
      /\ enabled \in BOOLEAN /\ active \in BOOLEAN /\ moved \in 0 .. 2
      /\ before.files \in [Managed -> Contents]
  BY Places DEF InstallTypeOK, BeforeOK, Contents, Binaries
<1>2. CASE RollbackEffect(RollbackScript[at])
  <2>1. /\ backup' = backup /\ report' = report /\ mon' \in {mon, Nothing}
    <3>1. /\ backup' = backup /\ report' = report
          /\ at = 1 => active' = FALSE /\ mon' = Nothing
          /\ at # 1 => mon' = mon
      BY <1>2, RollbackEffects
    <3>2. QED
      BY <3>1
  <2>2. enabled' \in BOOLEAN
    <3>1. /\ at = 13 => enabled' = (before.enabled /\ files["unit"] # Nothing)
          /\ at # 13 => enabled' = enabled
      BY <1>2, RollbackEffects
    <3>2. QED
      BY <1>1, <3>1
  <2>3. active' \in BOOLEAN
    <3>1. /\ at = 1 => active' = FALSE
          /\ at = 14 /\ before.active => active' = (files["unit"] # Nothing)
          /\ at # 1 /\ ~(at = 14 /\ before.active) => active' = active
      BY <1>2, RollbackEffects
    <3>2. CASE at = 14 /\ before.active
      BY <3>1, <3>2
    <3>3. CASE ~(at = 14 /\ before.active)
      BY <1>1, <3>1, <3>3
    <3>4. QED
      BY <3>2, <3>3
  <2>4. CASE at \in 2 .. 8
    <3>1. /\ files' = [files EXCEPT ![RollbackScript[at].file] =
                                      before.files[RollbackScript[at].file]]
          /\ moved' = moved
      <4>1. /\ at \in 2 .. 8 =>
                 files' = [files EXCEPT ![RollbackScript[at].file] =
                                          before.files[RollbackScript[at].file]]
            /\ at # 10 => moved' = moved
        BY <1>2, RollbackEffects
      <4>2. QED
        BY <2>4, <4>1
    <3>2. PICK file : file = RollbackScript[at].file
      OBVIOUS
    <3>3. file # "startup" /\ file # "shims" /\ file \in Managed
      BY <2>4, <3>2, Places DEF Restorable, Managed
    <3>4. files' = [files EXCEPT ![file] = before.files[file]] /\ before.files[file] \in Contents
      BY <1>1, <3>1, <3>2, <3>3
    <3>5. /\ files' \in [Managed -> Contents] /\ files'["shims"] = files["shims"]
          /\ files'["startup"] = files["startup"]
      BY <1>1, <3>3, <3>4
    <3>6. QED
      BY <2>1, <2>2, <2>3, <3>1, <3>5 DEF StartupOwn
  <2>5. CASE at = 9
    <3>1. files' = [files EXCEPT !["startup"] = RestoredFile("startup")] /\ moved' = moved
      BY <1>2, <2>5, RollbackEffects
    <3>2. RestoredFile("startup") \in {files["startup"], before.files["startup"]}
      BY DEF RestoredFile
    <3>3. /\ files' \in [Managed -> Contents] /\ files'["shims"] = files["shims"]
          /\ files'["startup"] \in {files["startup"], before.files["startup"]}
      BY <1>1, <3>1, <3>2
    <3>4. QED
      BY <2>1, <2>2, <2>3, <3>1, <3>3 DEF StartupOwn
  <2>6. CASE at = 10
    <3>1. \/ files["shims"] # Nothing /\ moved < 2 /\ moved' = moved + 1
             /\ files' = [files EXCEPT !["shims"] = Nothing]
          \/ UNCHANGED <<files, moved>>
      BY <1>2, <2>6, RollbackEffects
    <3>2. files' \in [Managed -> Contents] /\ files'["startup"] = files["startup"]
      BY <1>1, <3>1 DEF Contents
    <3>3. \/ files'["shims"] = files["shims"] /\ moved' = moved
          \/ /\ at = 10 /\ files["shims"] # Nothing /\ moved < 2
             /\ files'["shims"] = Nothing /\ moved' = moved + 1
      BY <1>1, <2>6, <3>1
    <3>4. QED
      BY <2>1, <2>2, <2>3, <3>2, <3>3 DEF StartupOwn
  <2>7. CASE at = 11
    <3>1. files' = [files EXCEPT !["shims"] = RestoredShims] /\ moved' = moved
      BY <1>2, <2>7, RollbackEffects
    <3>2. /\ RestoredShims \in Contents
          /\ before.files["shims"] = Nothing => RestoredShims = files["shims"]
      BY <1>1 DEF RestoredShims, Contents
    <3>3. /\ files' \in [Managed -> Contents] /\ files'["startup"] = files["startup"]
          /\ files'["shims"] = RestoredShims
      BY <1>1, <3>1, <3>2
    <3>4. QED
      BY <2>1, <2>2, <2>3, <3>1, <3>2, <3>3 DEF StartupOwn
  <2>8. CASE at \notin 2 .. 11
    <3>1. files' = files /\ moved' = moved
      <4>1. (at \notin 2 .. 11 => files' = files) /\ (at # 10 => moved' = moved)
        BY <1>2, RollbackEffects
      <4>2. QED
        BY <2>8, <4>1
    <3>2. QED
      BY <1>1, <2>1, <2>2, <2>3, <3>1 DEF StartupOwn
  <2>9. QED
    BY <2>4, <2>5, <2>6, <2>7, <2>8
<1>3. CASE RollbackHalf(RollbackScript[at])
  <2>1. /\ UNCHANGED <<backup, moved, enabled, active, mon, report>>
        /\ files' \in [Managed -> Contents]
        /\ files'["shims"] = files["shims"] \/ before.files["shims"] # Nothing
        /\ files'["startup"] = files["startup"] \/ before.files["startup"] # Nothing
    BY <1>3, RollbackHalves
  <2>2. QED
    BY <1>1, <2>1 DEF StartupOwn
<1>4. CASE Quiet /\ UNCHANGED machine
  BY <1>1, <1>4 DEF Quiet, machine, StartupOwn
<1>5. QED
  BY <1>2, <1>3, <1>4 DEF RollbackPartly

LEMMA InstallTypeKept == ASSUME InstallInv, InstallNext PROVE InstallTypeOK'
<1> USE DEF heart, machine, script, history
<1>1. /\ InstallTypeOK /\ MaxTries \in Nat
      /\ mode = "rollback" => at \in 1 .. 14
      /\ Len(Script) = 17 /\ Len(RollbackScript) = 14
      /\ mon \in Binaries \cup {Nothing} /\ report \in MonitorReports \cup {Nothing}
      /\ files \in [Managed -> Contents] /\ backup \in [Managed -> Contents]
      /\ moved \in 0 .. 2 /\ enabled \in BOOLEAN /\ active \in BOOLEAN
      /\ at \in 1 .. 17 /\ back \in 0 .. 17 /\ tries \in 0 .. MaxTries
  BY Commands, BoundAssumption DEF InstallInv, InstallTypeOK, Standing
<1>2. InstallTypeOK' <=>
        /\ mon' \in Binaries \cup {Nothing} /\ report' \in MonitorReports \cup {Nothing}
        /\ files' \in [Managed -> Contents] /\ backup' \in [Managed -> Contents]
        /\ moved' \in 0 .. 2 /\ enabled' \in BOOLEAN /\ active' \in BOOLEAN
        /\ mode' \in {"backup", "install", "rollback", "exited"}
        /\ at' \in 1 .. 17 /\ back' \in 0 .. 17
        /\ code' \in {Nothing, "success", "failure", "signal", "killed"}
        /\ tries' \in 0 .. MaxTries
        /\ judged' \in Binaries \cup {Nothing, "reused"}
        /\ failed' \in BOOLEAN /\ spoiled' \in BOOLEAN
  BY <1>1 DEF InstallTypeOK
<1>3. CASE Serve
  BY <1>1, <1>2, <1>3 DEF Serve, Watched, InstallTypeOK
<1>4. CASE MonitorDies
  BY <1>1, <1>2, <1>4 DEF MonitorDies, Watched, InstallTypeOK
<1>5. CASE Reports
  BY <1>1, <1>2, <1>5 DEF Reports, Watched, InstallTypeOK, MonitorReports
<1>6. CASE StatusAges
  <2>1. report \in MonitorReports /\ report' \in MonitorReports
    BY <1>1, <1>6 DEF StatusAges, MonitorReports
  <2>2. QED
    BY <1>1, <1>2, <1>6, <2>1 DEF StatusAges, Watched, InstallTypeOK
<1>7. CASE Backup
  BY <1>1, <1>2, <1>7 DEF Backup, InstallTypeOK
<1>8. CASE BackupEnds
  BY <1>1, <1>2, <1>8 DEF BackupEnds, Exit, InstallTypeOK
<1>9. CASE Step
  <2>1. /\ backup' = backup /\ moved' = moved /\ report' = report
        /\ mon' \in {mon, Nothing} /\ enabled' \in BOOLEAN /\ active' \in BOOLEAN
        /\ files' \in [Managed -> Contents]
    BY <1>1, <1>9, Tries DEF Step
  <2>2. at # 17
    BY <1>1, <1>9, Places DEF Step
  <2>3. QED
    BY <1>1, <1>2, <1>9, <2>1, <2>2 DEF Step, Goto, InstallTypeOK
<1>10. CASE Doctor
  <2>1. at = 14
    BY <1>1, <1>10, Places DEF Doctor
  <2>2. tries' \in 0 .. MaxTries
    BY <1>1, <1>10 DEF Doctor
  <2>3. judged' \in Binaries \cup {Nothing, "reused"}
    BY <1>1, <1>10 DEF Doctor, Approves, InstallTypeOK, MonitorReports
  <2>4. QED
    BY <1>1, <1>2, <1>10, <2>1, <2>2, <2>3 DEF Doctor, Goto, InstallTypeOK
<1>11. CASE Untrap
  BY <1>1, <1>2, <1>11 DEF Untrap, Exit, InstallTypeOK
<1>12. CASE Fail
  <2>1. /\ backup' = backup /\ moved' = moved /\ report' = report
        /\ mon' \in {mon, Nothing} /\ enabled' \in BOOLEAN /\ active' \in BOOLEAN
        /\ files' \in [Managed -> Contents]
    <3>1. CASE Partly(Script[at])
      BY <1>1, <3>1, Tries
    <3>2. CASE UNCHANGED <<faults, heart, machine>>
      BY <1>1, <3>2
    <3>3. QED
      BY <1>12, <3>1, <3>2 DEF Fail
  <2>2. at # 17 /\ Behind(at) \in 1 .. 17
    BY <1>1, <1>12, Places DEF Fail
  <2>3. QED
    BY <1>1, <1>2, <1>12, <2>1, <2>2 DEF Fail, Roll, InstallTypeOK
<1>13. CASE Signal
  <2>1. /\ backup' = backup /\ moved' = moved /\ report' = report
        /\ mon' \in {mon, Nothing} /\ enabled' \in BOOLEAN /\ active' \in BOOLEAN
        /\ files' \in [Managed -> Contents]
    BY <1>1, <1>13, Tries DEF Signal
  <2>2. QED
    BY <1>1, <1>2, <1>13, <2>1 DEF Signal, Roll, InstallTypeOK
\* A command of the rollback, done or not.
<1>14. ASSUME mode = "rollback",
              RollbackPartly(RollbackScript[at]) \/ RollbackEffect(RollbackScript[at])
       PROVE  /\ mon' \in Binaries \cup {Nothing} /\ report' \in MonitorReports \cup {Nothing}
              /\ files' \in [Managed -> Contents] /\ backup' \in [Managed -> Contents]
              /\ moved' \in 0 .. 2 /\ enabled' \in BOOLEAN /\ active' \in BOOLEAN
  <2>1. BeforeOK /\ StartupOwn /\ backup = before.files /\ at \in 1 .. 14
    BY <1>1, <1>14 DEF InstallInv, CopiesKept
  <2>2. /\ backup' = backup /\ report' = report
        /\ mon' \in {mon, Nothing} /\ enabled' \in BOOLEAN /\ active' \in BOOLEAN
        /\ files' \in [Managed -> Contents]
        /\ moved' = moved \/ (moved < 2 /\ moved' = moved + 1)
    BY <1>1, <1>14, <2>1, RollbackTries
  <2>3. QED
    BY <1>1, <2>2
<1>15. CASE Rollback
  <2>1. RollbackPartly(RollbackScript[at]) \/ RollbackEffect(RollbackScript[at])
    BY <1>15 DEF Rollback
  <2>2. spoiled' \in BOOLEAN
    BY <1>1, <1>15 DEF Rollback, InstallTypeOK
  <2>3. /\ mode' \in {"backup", "install", "rollback", "exited"}
        /\ at' \in 1 .. 17 /\ back' \in 0 .. 17
        /\ code' \in {Nothing, "success", "failure", "signal", "killed"}
    BY <1>1, <1>15 DEF Rollback, Goto, Exit, InstallTypeOK
  <2>4. mode = "rollback" /\ UNCHANGED <<tries, judged, failed>>
    BY <1>15 DEF Rollback
  <2>5. QED
    BY <1>1, <1>2, <1>14, <2>1, <2>2, <2>3, <2>4 DEF InstallTypeOK
<1>16. CASE SignalAgain
  <2>1. mode = "rollback" /\ RollbackPartly(RollbackScript[at])
    BY <1>16 DEF SignalAgain
  <2>2. QED
    BY <1>1, <1>2, <1>14, <1>16, <2>1 DEF SignalAgain, Roll, InstallTypeOK
<1>17. CASE Kill
  BY <1>1, <1>2, <1>17 DEF Kill, Exit, InstallTypeOK
<1>18. QED
  BY <1>3, <1>4, <1>5, <1>6, <1>7, <1>8, <1>9, <1>10, <1>11, <1>12, <1>13, <1>15, <1>16, <1>17
     DEF InstallNext, Install

\* The service and the monitor go on while the script stands still.
LEMMA Watching ==
    ASSUME InstallInv, Serve \/ MonitorDies \/ Reports \/ StatusAges
    PROVE  /\ mode # "exited"
           /\ UNCHANGED <<files, backup, moved, enabled, active, mode, at, back, code, tries,
                          before, judged, failed, spoiled>>
           /\ mon' \in {mon, Nothing, files["guard"]}
  BY DEF Serve, MonitorDies, Reports, StatusAges, Watched, machine, script, history

LEMMA BeforeKept == ASSUME InstallInv, InstallNext PROVE BeforeOK'
<1>1. before' = before
  BY Watching DEF InstallNext, Install, Backup, Step, Doctor, Untrap, Fail, Rollback, BackupEnds,
                  Signal, SignalAgain, Kill
<1>2. QED
  BY <1>1 DEF InstallInv, BeforeOK

LEMMA CopiesAreKept == ASSUME InstallInv, InstallNext PROVE CopiesKept'
<1> USE DEF heart, machine, script, history, InstallInv, CopiesKept
<1>1. CASE Serve \/ MonitorDies \/ Reports \/ StatusAges
  BY <1>1, Watching
<1>2. CASE Backup
  BY <1>2 DEF Backup
<1>3. CASE BackupEnds \/ Untrap \/ Kill
  BY <1>3 DEF BackupEnds, Untrap, Kill, Exit
<1>4. CASE Step
  <2>1. backup' = backup
    BY <1>4, Tries DEF Step
  <2>2. QED
    BY <1>4, <2>1 DEF Step, Goto
<1>5. CASE Doctor
  BY <1>5 DEF Doctor, Goto
<1>6. CASE Fail \/ Signal
  <2>1. backup' = backup
    BY <1>6, Tries DEF Fail, Signal
  <2>2. QED
    BY <1>6, <2>1 DEF Fail, Signal, Roll
<1>7. CASE Rollback \/ SignalAgain
  <2>1. backup' = backup
    BY <1>7, RollbackTries DEF Rollback, SignalAgain, Standing
  <2>2. QED
    BY <1>7, <2>1 DEF Rollback, SignalAgain, Roll, Goto, Exit
<1>8. QED
  BY <1>1, <1>2, <1>3, <1>4, <1>5, <1>6, <1>7 DEF InstallNext, Install

LEMMA StandingKept == ASSUME InstallInv, InstallNext PROVE Standing'
<1> USE DEF heart, machine, script, history, InstallInv, Standing
<1>1. CASE Serve \/ MonitorDies \/ Reports \/ StatusAges
  BY <1>1, Watching
<1>2. CASE Backup \/ BackupEnds \/ Untrap \/ Kill \/ Step \/ Doctor
  BY <1>2 DEF Backup, BackupEnds, Untrap, Kill, Exit, Step, Doctor, Goto
<1>3. CASE Fail \/ Signal \/ SignalAgain
  BY <1>3 DEF Fail, Signal, SignalAgain, Roll
<1>4. CASE Rollback
  BY <1>4, Commands DEF Rollback, Goto, Exit
<1>5. QED
  BY <1>1, <1>2, <1>3, <1>4 DEF InstallNext, Install

LEMMA StartupKept == ASSUME InstallInv, InstallNext PROVE StartupOwn'
<1> USE DEF heart, machine, script, history
<1>1. before' = before
  BY Watching DEF InstallNext, Install, Backup, Step, Doctor, Untrap, Fail, Rollback, BackupEnds,
                  Signal, SignalAgain, Kill
<1> SUFFICES ASSUME before.files["startup"] = Nothing
             PROVE  files'["startup"] \in {Nothing, "empty", "new"}
  BY <1>1 DEF StartupOwn
<1>2. files["startup"] \in {Nothing, "empty", "new"} /\ InstallTypeOK
  BY DEF InstallInv, StartupOwn
<1>3. CASE files' = files
  BY <1>2, <1>3
<1>4. CASE Partly(Script[at]) \/ Effect(Script[at])
  BY <1>2, <1>4, Tries
<1>5. CASE Rollback \/ SignalAgain
  <2>1. /\ BeforeOK /\ StartupOwn /\ backup = before.files /\ at \in 1 .. 14
        /\ RollbackPartly(RollbackScript[at]) \/ RollbackEffect(RollbackScript[at])
    BY <1>5 DEF Rollback, SignalAgain, InstallInv, CopiesKept, Standing
  <2>2. QED
    BY <1>2, <2>1, RollbackTries
<1>6. QED
  BY <1>3, <1>4, <1>5, Watching DEF InstallNext, Install, Backup, Step, Doctor, Untrap, Fail,
     BackupEnds, Signal, Kill

\* What a command of a rollback that does not fail leaves behind.
LEMMA Rolled ==
    ASSUME InstallInv, InstallTypeOK', Rollback, ~spoiled'
    PROVE  /\ ~spoiled /\ backup = before.files /\ at \in 1 .. 14 /\ before' = before
           /\ RollbackEffect(RollbackScript[at])
           /\ \A k \in 2 .. 8 :
                \/ files'[RollbackScript[k].file] = files[RollbackScript[k].file]
                \/ files'[RollbackScript[k].file] = before.files[RollbackScript[k].file]
           /\ at \in 2 .. 8 => files'[RollbackScript[at].file] =
                                  before.files[RollbackScript[at].file]
           /\ at # 9 => files'["startup"] = files["startup"]
           /\ at = 9 => StartupBack'
           /\ at \notin {10, 11} => files'["shims"] = files["shims"]
           /\ at # 10 => moved' = moved
           /\ at = 10 => files'["shims"] = Nothing \/ moved' = 2
           /\ at = 11 => files'["shims"] = RestoredShims
           /\ at \notin 2 .. 11 => files' = files
<1>1. /\ ~spoiled /\ RollbackEffect(RollbackScript[at]) /\ mode = "rollback" /\ before' = before
  BY DEF Rollback
<1>2. /\ backup = before.files /\ at \in 1 .. 14 /\ InstallTypeOK /\ BeforeOK /\ StartupOwn
      /\ moved \in 0 .. 2
  BY <1>1 DEF InstallInv, CopiesKept, Standing, InstallTypeOK
<1>3. /\ files \in [Managed -> Contents] /\ "shims" \in Managed /\ "startup" \in Managed
      /\ \A k \in 2 .. 8 : /\ RollbackScript[k].file \in Managed
                           /\ RollbackScript[k].file \notin {"startup", "shims"}
  <2>1. files \in [Managed -> Contents]
    BY <1>2 DEF InstallTypeOK
  <2>2. "shims" \in Managed /\ "startup" \in Managed /\ "shims" \notin Restorable
    BY DEF Restorable, Managed
  <2>3. ASSUME NEW k \in 2 .. 8
        PROVE  /\ RollbackScript[k].file \in Managed
               /\ RollbackScript[k].file \notin {"startup", "shims"}
    <3>1. RollbackScript[k].file \in Restorable /\ RollbackScript[k].file # "startup"
      BY Places
    <3>2. QED
      BY <2>2, <3>1 DEF Managed
  <2>4. QED
    BY <2>1, <2>2, <2>3
<1>4. at # 10 => moved' = moved
  BY <1>1, <1>2, RollbackEffects
<1>5. CASE at \in 2 .. 8
  <2>1. PICK file \in Managed : file = RollbackScript[at].file
    BY <1>3, <1>5
  <2>2. at \in 2 .. 8 => files' = [files EXCEPT ![RollbackScript[at].file] =
                                                  before.files[RollbackScript[at].file]]
    BY <1>1, <1>2, RollbackEffects
  <2>3. files' = [files EXCEPT ![file] = before.files[file]] /\ file \notin {"startup", "shims"}
    BY <1>3, <1>5, <2>1, <2>2
  <2>4. /\ files'[file] = before.files[file]
        /\ \A g \in Managed : files'[g] = files[g] \/ files'[g] = before.files[g]
        /\ files'["startup"] = files["startup"] /\ files'["shims"] = files["shims"]
    BY <1>3, <2>3
  <2>5. QED
    BY <1>1, <1>2, <1>3, <1>4, <1>5, <2>1, <2>4
<1>6. CASE at = 9
  <2>1. files' = [files EXCEPT !["startup"] = RestoredFile("startup")]
    BY <1>1, <1>2, <1>6, RollbackEffects
  <2>2. /\ files'["startup"] = RestoredFile("startup") /\ files'["shims"] = files["shims"]
        /\ \A k \in 2 .. 8 : files'[RollbackScript[k].file] = files[RollbackScript[k].file]
    BY <1>3, <2>1
  <2>3. \/ RestoredFile("startup") = before.files["startup"]
        \/ before.files["startup"] = Nothing /\ RestoredFile("startup") = "empty"
    BY <1>2 DEF RestoredFile, StartupOwn
  <2>4. StartupBack'
    BY <1>1, <2>2, <2>3 DEF StartupBack
  <2>5. QED
    BY <1>1, <1>2, <1>4, <1>6, <2>2, <2>4
<1>7. CASE at = 10
  <2>1. \/ files["shims"] # Nothing /\ moved < 2 /\ moved' = moved + 1
           /\ files' = [files EXCEPT !["shims"] = Nothing]
        \/ (files["shims"] = Nothing \/ moved = 2) /\ UNCHANGED <<files, moved>>
    BY <1>1, <1>2, <1>7, RollbackEffects
  <2>2. /\ files'["startup"] = files["startup"]
        /\ \A k \in 2 .. 8 : files'[RollbackScript[k].file] = files[RollbackScript[k].file]
    BY <1>3, <2>1
  <2>3. files'["shims"] = Nothing \/ moved' = 2
    BY <1>3, <2>1
  <2>4. QED
    BY <1>1, <1>2, <1>7, <2>2, <2>3
<1>8. CASE at = 11
  <2>1. files' = [files EXCEPT !["shims"] = RestoredShims]
    BY <1>1, <1>2, <1>8, RollbackEffects
  <2>2. /\ files'["startup"] = files["startup"] /\ files'["shims"] = RestoredShims
        /\ \A k \in 2 .. 8 : files'[RollbackScript[k].file] = files[RollbackScript[k].file]
    BY <1>3, <2>1
  <2>3. QED
    BY <1>1, <1>2, <1>4, <1>8, <2>2
<1>9. CASE at \notin 2 .. 11
  <2>1. at \notin 2 .. 11 => files' = files
    BY <1>1, <1>2, RollbackEffects
  <2>2. files' = files
    BY <1>9, <2>1
  <2>3. QED
    BY <1>1, <1>2, <1>4, <1>9, <2>2
<1>10. at \in 2 .. 8 \/ at = 9 \/ at = 10 \/ at = 11 \/ at \notin 2 .. 11
  BY <1>2
<1>11. QED
  BY <1>5, <1>6, <1>7, <1>8, <1>9, <1>10

LEMMA RollsBackKept == ASSUME InstallInv, InstallNext, InstallTypeOK' PROVE RollsBack'
<1> USE DEF heart, machine, script, history
<1>1. CASE Serve \/ MonitorDies \/ Reports \/ StatusAges
  BY <1>1, Watching DEF RollsBack, StartupBack, ShimsBack, InstallInv
<1>2. CASE Backup \/ BackupEnds \/ Untrap \/ Kill \/ Step \/ Doctor
  <2>1. mode' # "rollback"
    BY <1>2 DEF Backup, BackupEnds, Untrap, Kill, Exit, Step, Doctor, Goto
  <2>2. QED
    BY <2>1 DEF RollsBack
<1>3. CASE Fail \/ Signal \/ SignalAgain
  <2>1. at' = 1
    BY <1>3 DEF Fail, Signal, SignalAgain, Roll
  <2>2. QED
    BY <2>1 DEF RollsBack
<1>4. CASE Rollback
  <2> SUFFICES ASSUME mode' = "rollback", ~spoiled'
               PROVE  RollsBack'
    BY DEF RollsBack
  <2>1. at \in 1 .. 13 /\ at' = at + 1 /\ before' = before /\ mode = "rollback"
    BY <1>4, Commands DEF Rollback, Goto, Exit, InstallInv, Standing
  <2>2. /\ ~spoiled /\ backup = before.files /\ RollbackEffect(RollbackScript[at])
        /\ InstallTypeOK /\ BeforeOK /\ at \in 1 .. 14
    BY <1>4, Rolled DEF InstallInv
  <2>3. /\ at > 1 => ~active
        /\ \A k \in 2 .. 8 :
             at > k => files[RollbackScript[k].file] = before.files[RollbackScript[k].file]
        /\ at > 9 => StartupBack
        /\ at = 11 => files["shims"] = Nothing \/ moved = 2
        /\ at > 11 => ShimsBack
        /\ at > 13 => enabled = before.enabled
    BY <2>1, <2>2 DEF InstallInv, RollsBack
  <2>4. ~active'
    <3>1. /\ at = 1 => active' = FALSE
          /\ at # 1 /\ ~(at = 14 /\ before.active) => active' = active
      BY <2>2, RollbackEffects
    <3>2. QED
      BY <2>1, <2>3, <3>1
  <2>5. ASSUME NEW k \in 2 .. 8, at' > k
        PROVE  files'[RollbackScript[k].file] = before.files[RollbackScript[k].file]
    <3>1. CASE at = k
      BY <1>4, <3>1, Rolled
    <3>2. CASE at > k
      <4>1. files[RollbackScript[k].file] = before.files[RollbackScript[k].file]
        BY <2>3, <3>2
      <4>2. QED
        BY <1>4, <4>1, Rolled
    <3>3. QED
      BY <2>1, <2>5, <3>1, <3>2
  <2>6. at' > 9 => StartupBack'
    <3>1. CASE at = 9
      BY <1>4, <3>1, Rolled
    <3>2. CASE at > 9
      <4>1. files'["startup"] = files["startup"]
        BY <1>4, <3>2, Rolled
      <4>2. QED
        BY <2>1, <2>3, <3>2, <4>1 DEF StartupBack
    <3>3. QED
      BY <2>1, <3>1, <3>2
  <2>7. at' = 11 => files'["shims"] = Nothing \/ moved' = 2
    BY <1>4, <2>1, Rolled
  <2>8. at' > 11 => ShimsBack'
    <3>1. CASE at = 11
      <4>1. files'["shims"] = RestoredShims /\ moved' = moved
        BY <1>4, <3>1, Rolled
      <4>2. files["shims"] = Nothing \/ moved = 2
        BY <2>3, <3>1
      <4>3. before.files["shims"] = Nothing /\ moved > 0 => files["shims"] = Nothing
        BY DEF InstallInv, ShimsOnce
      <4>4. QED
        BY <2>1, <2>2, <4>1, <4>2, <4>3 DEF ShimsBack, RestoredShims
    <3>2. CASE at > 11
      <4>1. files'["shims"] = files["shims"] /\ moved' = moved
        BY <1>4, <3>2, Rolled
      <4>2. QED
        BY <2>1, <2>3, <3>2, <4>1 DEF ShimsBack
    <3>3. QED
      BY <2>1, <3>1, <3>2
  <2>9. at' > 13 => enabled' = before.enabled
    <3>1. SUFFICES ASSUME at = 13 PROVE enabled' = before.enabled
      BY <2>1
    <3>2. enabled' = (before.enabled /\ files["unit"] # Nothing)
      BY <2>1, <2>2, <3>1, RollbackEffects
    <3>3. files["unit"] = before.files["unit"]
      <4>1. RollbackScript[3].file = "unit"
        BY Commands DEF Put
      <4>2. QED
        BY <2>3, <3>1, <4>1
    <3>4. before.enabled \in BOOLEAN /\ (before.enabled => before.files["unit"] # Nothing)
      BY <2>2 DEF BeforeOK
    <3>5. enabled' = before.enabled
      BY <3>2, <3>3, <3>4, Zenon
    <3>6. QED
      BY <3>5
  <2>10. QED
    BY <2>1, <2>4, <2>5, <2>6, <2>7, <2>8, <2>9 DEF RollsBack
<1>5. QED
  BY <1>1, <1>2, <1>3, <1>4 DEF InstallNext, Install

LEMMA InstallsKept == ASSUME InstallInv, InstallNext, InstallTypeOK' PROVE InstallsInOrder'
<1> USE DEF heart, machine, script, history
<1>1. CASE Serve \/ MonitorDies \/ Reports \/ StatusAges
  <2> SUFFICES ASSUME mode = "install", ~failed PROVE InstallsInOrder'
    BY <1>1, Watching DEF InstallsInOrder
  <2>1. at > 13 => files["guard"] = "new"
    <3>1. at > 3 => \A f \in Written(3) : files[f] = "new"
      BY DEF InstallsInOrder, InstallInv
    <3>2. Written(3) = {"guard"} /\ at \in 1 .. 17
      BY Commands DEF Written, Put, InstallInv, InstallTypeOK
    <3>3. QED
      BY <3>1, <3>2
  <2>2. /\ UNCHANGED <<files, backup, moved, enabled, active, mode, at, judged, failed>>
        /\ mon' \in {mon, Nothing, files["guard"]}
    BY <1>1, Watching
  <2>3. QED
    BY <2>1, <2>2 DEF InstallsInOrder, InstallInv
<1>2. CASE Backup
  <2>1. at' = 1 /\ mode' = "install"
    BY <1>2 DEF Backup, InstallInv, Standing
  <2>2. QED
    BY <2>1 DEF InstallsInOrder
<1>3. CASE BackupEnds \/ Untrap \/ Kill \/ Fail \/ Signal \/ SignalAgain
  <2>1. mode' # "install"
    BY <1>3 DEF BackupEnds, Untrap, Kill, Fail, Signal, SignalAgain, Exit, Roll
  <2>2. QED
    BY <2>1 DEF InstallsInOrder
<1>4. CASE Rollback
  <2>1. mode' = "install" => failed'
    BY <1>4 DEF Rollback, Goto, Exit, InstallInv, Standing
  <2>2. QED
    BY <2>1 DEF InstallsInOrder
<1>5. CASE Doctor
  <2> SUFFICES ASSUME ~failed PROVE InstallsInOrder'
    BY <1>5 DEF Doctor, InstallsInOrder
  <2>1. at = 14 /\ mode = "install" /\ UNCHANGED <<files, mon, report, enabled, active, failed>>
    BY <1>5, Places, Commands DEF Doctor, InstallInv, InstallTypeOK
  <2>2. /\ \A k \in 1 .. 13 : \A f \in Written(k) : files[f] = "new"
        /\ enabled /\ active /\ mon \in {Nothing, "new"}
    <3>1. /\ \A k \in 1 .. 16 : at > k => \A f \in Written(k) : files[f] = "new"
          /\ at > 12 => enabled
          /\ at > 13 => active /\ mon \in {Nothing, "new"}
      BY <2>1 DEF InstallsInOrder, InstallInv
    <3>2. QED
      BY <2>1, <3>1
  <2>3. Written(14) = {}
    BY DEF Written
  <2>4. at' = 14 \/ (at' = 15 /\ judged' \in {"new", "reused"})
    <3>1. CASE Approves /\ judged' = (IF report.given THEN "reused" ELSE report.by) /\ at' = 15
      <4>1. report \in MonitorReports /\ (report.by = mon \/ report.given)
        BY <3>1 DEF Approves, InstallInv, InstallTypeOK
      <4>2. ~report.given => report.by = "new"
        BY <2>2, <4>1, BoundAssumption DEF MonitorReports, Binaries
      <4>3. QED
        BY <3>1, <4>2
    <3>2. CASE at' = at
      BY <2>1, <3>2
    <3>3. QED
      BY <1>5, <2>1, <3>1, <3>2 DEF Doctor, Goto
  <2>5. QED
    BY <2>1, <2>2, <2>3, <2>4 DEF InstallsInOrder
<1>6. CASE Step
  <2> SUFFICES ASSUME ~failed PROVE InstallsInOrder'
    BY <1>6 DEF Step, InstallsInOrder
  <2>1. /\ mode = "install" /\ at \in 1 .. 16 /\ at # 14 /\ at' = at + 1
        /\ judged' = judged /\ Effect(Script[at]) /\ InstallTypeOK
    BY <1>6, Places, Commands DEF Step, Goto, InstallInv, InstallTypeOK
  <2>2. /\ at # 8 =>
             files' = [f \in Managed |-> IF f \in Written(at) THEN Content(f) ELSE files[f]]
        /\ at = 8 => files' = files \/ files' = [files EXCEPT !["startup"] = "empty"]
        /\ at = 12 => enabled' = TRUE
        /\ at # 12 => enabled' = enabled
        /\ at = 13 => active' = TRUE /\ mon' = Nothing
        /\ at # 13 /\ ~(at = 2 /\ before.active) => UNCHANGED <<active, mon>>
    BY <2>1, Effects
  <2>3. ASSUME NEW f \in Written(at) PROVE Content(f) = "new"
    <3>1. CASE f \in {"config", "good"}
      <4>1. at = 5
        BY <2>1, <3>1, Commands DEF Written, Put
      <4>2. \A g \in Written(3) : files[g] = "new"
        BY <2>1, <4>1 DEF InstallsInOrder, InstallInv
      <4>3. files["guard"] = "new"
        BY <4>2, Commands DEF Written, Put
      <4>4. QED
        BY <3>1, <4>3 DEF Content
    <3>2. CASE f \notin {"config", "good"}
      BY <3>2 DEF Content
    <3>3. QED
      BY <3>1, <3>2
  <2>4. ASSUME NEW k \in 1 .. 16, k <= at, NEW f \in Written(k) PROVE files'[f] = "new"
    <3>1. f \in Managed /\ files \in [Managed -> Contents]
      <4>1. Written(k) \subseteq Managed
        BY Places
      <4>2. files \in [Managed -> Contents]
        BY <2>1 DEF InstallInv, InstallTypeOK
      <4>3. QED
        BY <4>1, <4>2
    <3>2. CASE f \in Written(at)
      <4>1. at # 8
        BY <3>2 DEF Written
      <4>2. QED
        BY <2>2, <2>3, <3>1, <3>2, <4>1
    <3>3. CASE f \notin Written(at)
      <4>1. k < at
        BY <2>1, <2>4, <3>3
      <4>2. files[f] = "new"
        BY <2>1, <4>1 DEF InstallsInOrder, InstallInv
      <4>3. CASE at # 8
        BY <2>2, <3>1, <3>3, <4>2, <4>3
      <4>4. CASE at = 8
        <5>1. f # "startup"
          BY <4>1, <4>4, <2>4, Commands DEF Written, Put
        <5>2. QED
          BY <2>2, <3>1, <4>2, <4>4, <5>1
      <4>5. QED
        BY <4>3, <4>4
    <3>4. QED
      BY <3>2, <3>3
  <2>5. at' > 12 => enabled'
    <3>1. at > 12 => enabled
      BY <2>1 DEF InstallsInOrder, InstallInv
    <3>2. QED
      BY <2>1, <2>2, <3>1
  <2>6. at' > 13 => active' /\ mon' \in {Nothing, "new"}
    <3>1. at > 13 => active /\ mon \in {Nothing, "new"}
      BY <2>1 DEF InstallsInOrder, InstallInv
    <3>2. QED
      BY <2>1, <2>2, <3>1
  <2>7. at' > 14 => judged' \in {"new", "reused"}
    BY <2>1 DEF InstallsInOrder, InstallInv
  <2>8. QED
    BY <2>1, <2>4, <2>5, <2>6, <2>7 DEF InstallsInOrder
<1>7. QED
  BY <1>1, <1>2, <1>3, <1>4, <1>5, <1>6 DEF InstallNext, Install

\* When a rollback ends and nothing in it has failed, guard is what it was before.
LEMMA GuardRolled ==
    ASSUME InstallInv, InstallTypeOK', Rollback, ~spoiled', mode' # "rollback"
    PROVE  files'["guard"] = before.files["guard"]
<1>1. at = 14 /\ mode = "rollback"
  BY Commands DEF Rollback, Goto, Exit, InstallInv, Standing
<1>2. ~spoiled /\ files' = files
  BY <1>1, Rolled
<1>3. RollbackScript[2].file = "guard"
  BY Commands DEF Put
<1>4. \A k \in 2 .. 8 :
        at > k => files[RollbackScript[k].file] = before.files[RollbackScript[k].file]
  BY <1>1, <1>2 DEF InstallInv, RollsBack
<1>5. QED
  BY <1>1, <1>2, <1>3, <1>4

LEMMA GuardKept == ASSUME InstallInv, InstallNext, InstallTypeOK' PROVE GuardStays'
<1> USE DEF heart, machine, script, history
<1>1. before' = before /\ BeforeOK /\ InstallTypeOK
  BY Watching DEF InstallNext, Install, Backup, Step, Doctor, Untrap, Fail, Rollback, BackupEnds,
                  Signal, SignalAgain, Kill, InstallInv
<1> SUFFICES ASSUME before.files["guard"] # Nothing, ~spoiled',
                    mode' \in {"backup", "install"} \/ (mode' = "exited" /\ code' # "killed")
             PROVE  files'["guard"] \in Binaries
  BY <1>1 DEF GuardStays
<1>2. ~spoiled /\ mode \in {"backup", "install"} => files["guard"] \in Binaries
  BY DEF GuardStays, InstallInv
<1>3. CASE Serve \/ MonitorDies \/ Reports \/ StatusAges
  BY <1>2, <1>3, Watching DEF GuardStays, InstallInv
<1>4. CASE Backup \/ BackupEnds \/ Doctor \/ Untrap
  <2>1. files' = files /\ mode \in {"backup", "install"} /\ ~spoiled
    BY <1>4 DEF Backup, BackupEnds, Doctor, Untrap
  <2>2. QED
    BY <1>2, <2>1
<1>5. CASE Step
  <2>1. ~spoiled /\ mode = "install" /\ Effect(Script[at])
    BY <1>5 DEF Step
  <2>2. CASE at # 8
    <3>1. files' = [f \in Managed |-> IF f \in Written(at) THEN Content(f) ELSE files[f]]
      BY <1>1, <2>1, <2>2, Effects
    <3>2. "guard" \in Managed /\ Content("guard") = "new"
      BY Places DEF Content
    <3>3. QED
      BY <1>2, <2>1, <3>1, <3>2 DEF Binaries
  <2>3. CASE at = 8
    <3>1. files' = files \/ files' = [files EXCEPT !["startup"] = "empty"]
      BY <1>1, <2>1, <2>3, Effects
    <3>2. files \in [Managed -> Contents] /\ "guard" \in Managed
      BY <1>1, Places DEF InstallTypeOK
    <3>3. QED
      BY <1>2, <2>1, <3>1, <3>2
  <2>4. QED
    BY <2>2, <2>3
<1>6. CASE Fail \/ Signal \/ SignalAgain \/ Kill
  BY <1>6 DEF Fail, Signal, SignalAgain, Kill, Roll, Exit
<1>7. CASE Rollback
  <2>1. files'["guard"] = before.files["guard"]
    BY <1>7, GuardRolled
  <2>2. before.files["guard"] \in {Nothing, "old"}
    BY <1>1, Places DEF BeforeOK
  <2>3. QED
    BY <2>1, <2>2 DEF Binaries
<1>8. QED
  BY <1>3, <1>4, <1>5, <1>6, <1>7 DEF InstallNext, Install

LEMMA ShimsMadeOnce == ASSUME InstallInv, InstallNext, InstallTypeOK' PROVE ShimsOnce'
<1> USE DEF heart, machine, script, history
<1>1. before' = before /\ BeforeOK /\ InstallTypeOK
  BY Watching DEF InstallNext, Install, Backup, Step, Doctor, Untrap, Fail, Rollback, BackupEnds,
                  Signal, SignalAgain, Kill, InstallInv
<1> SUFFICES ASSUME before.files["shims"] = Nothing PROVE ShimsOnce'
  BY <1>1 DEF ShimsOnce
<1>2. /\ mode = "backup" \/ (mode = "install" /\ at < 8) \/ (mode = "rollback" /\ back \in 1 .. 7)
           => files["shims"] = Nothing /\ moved = 0
      /\ moved > 0 => files["shims"] = Nothing
      /\ mode = "rollback" /\ at > 10 /\ ~spoiled => files["shims"] = Nothing
      /\ mode = "install" /\ ~spoiled /\ files["shims"] # Nothing => files["guard"] \in Binaries
  BY DEF ShimsOnce, InstallInv
<1>3. at \in 1 .. 17 /\ back \in 0 .. 17 /\ moved \in 0 .. 2
  BY <1>1, Commands DEF InstallTypeOK
<1>4. ASSUME files' = files, moved' = moved, mode' = mode, at' = at, back' = back, spoiled' = spoiled
      PROVE  ShimsOnce'
  BY <1>1, <1>2, <1>4 DEF ShimsOnce
<1>5. CASE Serve \/ MonitorDies \/ Reports \/ StatusAges
  BY <1>4, <1>5, Watching
<1>6. CASE Backup
  BY <1>1, <1>2, <1>3, <1>6 DEF Backup, ShimsOnce, InstallInv, Standing
<1>7. CASE BackupEnds \/ Untrap \/ Kill
  BY <1>1, <1>2, <1>7 DEF BackupEnds, Untrap, Kill, Exit, ShimsOnce
<1>8. CASE Doctor
  BY <1>1, <1>2, <1>3, <1>8, Places DEF Doctor, Goto, ShimsOnce
\* A command of the script that is tried, and where it may leave shims.
<1>9. ASSUME Partly(Script[at]) \/ Effect(Script[at]) \/ UNCHANGED machine, mode = "install"
      PROVE  /\ moved' = moved
             /\ at # 7 => files'["shims"] = files["shims"]
             /\ at = 7 => moved = 0
  <2>1. CASE Partly(Script[at]) \/ Effect(Script[at])
    <3>1. moved' = moved /\ (at # 7 => files'["shims"] = files["shims"])
      BY <1>1, <2>1, Tries
    <3>2. QED
      BY <1>2, <1>9, <3>1
  <2>2. CASE UNCHANGED machine
    BY <1>2, <1>9, <2>2
  <2>3. QED
    BY <1>9, <2>1, <2>2
<1>10. CASE Step
  <2>1. /\ mode = "install" /\ mode' = "install" /\ at' = at + 1 /\ back' = back
        /\ spoiled' = spoiled /\ Possible(Script[at]) /\ Effect(Script[at])
    BY <1>10 DEF Step, Goto
  <2>2. files'["guard"] = files["guard"] \/ files'["guard"] = "new"
    <3>1. CASE at # 8
      <4>1. files' = [f \in Managed |-> IF f \in Written(at) THEN Content(f) ELSE files[f]]
        BY <1>1, <2>1, <3>1, Effects
      <4>2. QED
        BY <4>1, Places DEF Content
    <3>2. CASE at = 8
      <4>1. files' = files \/ files' = [files EXCEPT !["startup"] = "empty"]
        BY <1>1, <2>1, <3>2, Effects
      <4>2. files \in [Managed -> Contents] /\ "guard" \in Managed
        BY <1>1, Places DEF InstallTypeOK
      <4>3. QED
        BY <4>1, <4>2
    <3>3. QED
      BY <3>1, <3>2
  <2>3. at = 7 => files["guard"] \in Binaries
    <3>1. at = 7 => Script[at].do = "shims"
      BY Commands DEF Do
    <3>2. QED
      BY <2>1, <3>1 DEF Possible
  <2>4. "new" \in Binaries
    BY DEF Binaries
  <2>5. /\ moved' = moved
        /\ at # 7 => files'["shims"] = files["shims"]
        /\ at = 7 => moved = 0
    BY <1>9, <2>1
  <2>6. QED
    BY <1>1, <1>2, <1>3, <2>1, <2>2, <2>3, <2>4, <2>5 DEF ShimsOnce
<1>11. CASE Fail
  <2>1. /\ mode = "install" /\ mode' = "rollback" /\ at' = 1 /\ back' = Behind(at) /\ at # 17
        /\ Partly(Script[at]) \/ UNCHANGED machine
    BY <1>3, <1>11, Places DEF Fail, Roll
  <2>2. Behind(at) \in 2 .. 17 /\ (Behind(at) < 8 => at < 7)
    BY <1>3, <2>1, Places
  <2>3. /\ moved' = moved
        /\ at # 7 => files'["shims"] = files["shims"]
        /\ at = 7 => moved = 0
    BY <1>9, <2>1
  <2>4. QED
    BY <1>1, <1>2, <1>3, <2>1, <2>2, <2>3 DEF ShimsOnce
<1>12. CASE Signal
  <2>1. /\ mode = "install" /\ mode' = "rollback" /\ at' = 1 /\ back' = 0
        /\ Partly(Script[at])
    BY <1>12 DEF Signal, Roll
  <2>2. QED
    BY <1>1, <1>2, <1>3, <1>9, <2>1 DEF ShimsOnce
\* What a command of the rollback, done or not, does where there were no shims.
<1>13. ASSUME Rollback \/ SignalAgain
       PROVE  /\ mode = "rollback"
              /\ \/ files'["shims"] = files["shims"] /\ moved' = moved
                 \/ /\ at = 10 /\ files["shims"] # Nothing
                    /\ files'["shims"] = Nothing /\ moved' = moved + 1
  <2>1. /\ mode = "rollback" /\ StartupOwn /\ backup = before.files /\ at \in 1 .. 14
        /\ RollbackPartly(RollbackScript[at]) \/ RollbackEffect(RollbackScript[at])
    BY <1>13 DEF Rollback, SignalAgain, InstallInv, CopiesKept, Standing
  <2>2. QED
    BY <1>1, <2>1, RollbackTries
<1>14. CASE SignalAgain
  <2>1. mode' = "rollback" /\ at' = 1 /\ back' = 0
    BY <1>14 DEF SignalAgain, Roll
  <2>2. QED
    BY <1>1, <1>2, <1>3, <1>13, <1>14, <2>1 DEF ShimsOnce
<1>15. CASE Rollback
  <2>1. /\ mode = "rollback"
        /\ ~spoiled' => ~spoiled
        /\ \/ mode' = "rollback" /\ at' = at + 1 /\ at < 14 /\ back' = back
           \/ mode' = "install" /\ at' = back /\ back # 0 /\ at = 14
           \/ mode' = "exited"
    BY <1>15, Commands DEF Rollback, Goto, Exit, InstallInv, Standing
  <2>2. /\ \/ files'["shims"] = files["shims"] /\ moved' = moved
           \/ /\ at = 10 /\ files["shims"] # Nothing
              /\ files'["shims"] = Nothing /\ moved' = moved + 1
        /\ ~spoiled' /\ at = 10 => files'["shims"] = Nothing \/ moved' = 2
    BY <1>13, <1>15, Rolled
  <2>3. /\ mode' = "install" /\ at' < 8 => back \in 1 .. 7
        /\ mode' = "rollback" /\ back' \in 1 .. 7 => back \in 1 .. 7
        /\ mode' # "backup"
    BY <1>3, <2>1
  <2>4. back \in 1 .. 7 => files'["shims"] = Nothing /\ moved' = 0
    BY <1>2, <2>1, <2>2
  <2>5. moved' > 0 => files'["shims"] = Nothing
    BY <1>2, <2>2
  <2>6. mode' = "rollback" /\ at' > 10 /\ ~spoiled' => files'["shims"] = Nothing
    BY <1>2, <1>3, <2>1, <2>2, <2>5
  <2>7. mode' = "install" /\ ~spoiled' => files'["shims"] = Nothing
    BY <1>2, <1>3, <2>1, <2>2
  <2>8. QED
    BY <1>1, <2>3, <2>4, <2>5, <2>6, <2>7 DEF ShimsOnce
<1>16. QED
  BY <1>5, <1>6, <1>7, <1>8, <1>10, <1>11, <1>12, <1>14, <1>15 DEF InstallNext, Install

\* A script that has ended stays as it is.
LEMMA Ended ==
    ASSUME InstallInv, InstallNext
    PROVE  mode # "exited"
  BY Watching DEF InstallNext, Install, Backup, Step, Doctor, Untrap, Fail, Rollback, BackupEnds,
                  Signal, SignalAgain, Kill

LEMMA SignalKept == ASSUME InstallInv, InstallNext, InstallTypeOK' PROVE SignalRestores'
<1> USE DEF heart, machine, script, history
<1>1. ASSUME mode' = "exited", code' = "signal", ~spoiled'
      PROVE  /\ enabled' = before'.enabled /\ active' = before'.active
             /\ \A f \in Managed \ {"startup", "shims"} : files'[f] = before'.files[f]
             /\ StartupBack' /\ ShimsBack'
  <2>1. CASE BackupEnds
    BY <2>1 DEF BackupEnds, InstallInv, CopiesKept, StartupBack, ShimsBack
  <2>2. CASE Rollback
    <3>1. /\ at = 14 /\ ~spoiled /\ before' = before /\ mode = "rollback"
          /\ InstallTypeOK /\ BeforeOK /\ backup = before.files
          /\ RollbackEffect(RollbackScript[at]) /\ files' = files /\ moved' = moved
      <4>1. at = 14 /\ mode = "rollback"
        BY <1>1, <2>2, Commands DEF Rollback, Goto, InstallInv, Standing
      <4>2. QED
        BY <1>1, <2>2, <4>1, Rolled DEF InstallInv
    <3>2. /\ at = 14 /\ before.active => active' = (files["unit"] # Nothing)
          /\ at # 1 /\ ~(at = 14 /\ before.active) => active' = active
          /\ at # 13 => enabled' = enabled
      BY <3>1, RollbackEffects
    <3>3. /\ ~active /\ StartupBack /\ ShimsBack /\ enabled = before.enabled
          /\ \A k \in 2 .. 8 :
               at > k => files[RollbackScript[k].file] = before.files[RollbackScript[k].file]
      BY <3>1 DEF InstallInv, RollsBack
    <3>4. \A f \in Managed \ {"startup", "shims"} : files[f] = before.files[f]
      BY <3>1, <3>3, Places DEF Managed
    <3>5. active' = before.active
      <4>1. /\ before.active \in BOOLEAN /\ active \in BOOLEAN
            /\ before.active => before.files["unit"] # Nothing
        <5>1. /\ before.active \in BOOLEAN
              /\ before.enabled => before.files["unit"] # Nothing
              /\ before.active = before.enabled
          BY <3>1 DEF BeforeOK
        <5>2. QED
          BY <3>1, <5>1 DEF InstallTypeOK
      <4>2. files["unit"] = before.files["unit"]
        BY <3>4, Places
      <4>3. CASE before.active
        BY <3>1, <3>2, <4>1, <4>2, <4>3
      <4>4. CASE ~before.active
        <5>1. active' = active
          BY <3>1, <3>2, <4>4
        <5>2. QED
          BY <3>3, <4>1, <4>4, <5>1
      <4>5. QED
        BY <4>3, <4>4
    <3>6. StartupBack' /\ ShimsBack'
      BY <3>1, <3>3 DEF StartupBack, ShimsBack
    <3>7. QED
      BY <3>1, <3>2, <3>3, <3>4, <3>5, <3>6
  <2>3. CASE ~BackupEnds /\ ~Rollback
    <3>1. code' # "signal" \/ mode' # "exited"
      BY <2>3, Watching DEF InstallNext, Install, Backup, Step, Doctor, Untrap, Fail, Signal,
         SignalAgain, Kill, Exit, Goto, Roll
    <3>2. QED
      BY <1>1, <3>1
  <2>4. QED
    BY <2>1, <2>2, <2>3
<1>2. QED
  BY <1>1 DEF SignalRestores, StartupBack, ShimsBack

LEMMA SuccessKept == ASSUME InstallInv, InstallNext, InstallTypeOK' PROVE SuccessIsComplete'
<1> USE DEF heart, machine, script, history
<1> SUFFICES ASSUME mode' = "exited", code' = "success", ~failed'
             PROVE  Installed' /\ judged' \in {"new", "reused"}
  BY DEF SuccessIsComplete
<1>1. Untrap
  BY Watching, Ended DEF InstallNext, Install, Backup, Step, Doctor, Untrap, Fail, Rollback,
     BackupEnds, Signal, SignalAgain, Kill, Exit, Goto, Roll
<1>2. at = 17 /\ mode = "install" /\ ~failed /\ UNCHANGED <<files, enabled, active, judged>>
  BY <1>1, Places, Commands DEF Untrap, InstallInv, InstallTypeOK
<1>3. /\ \A k \in 1 .. 16 : at > k => \A f \in Written(k) : files[f] = "new"
      /\ at > 12 => enabled
      /\ at > 13 => active
      /\ at > 14 => judged \in {"new", "reused"}
  BY <1>2 DEF InstallsInOrder, InstallInv
<1>4. \A f \in Managed : files[f] = "new"
  BY <1>2, <1>3, Places
<1>5. QED
  BY <1>2, <1>3, <1>4 DEF Installed

LEMMA BehindKept ==
    ASSUME InstallInv, InstallNext, InstallTypeOK', ShimsOnce', GuardStays'
    PROVE  GuardBehindShims'
<1> USE DEF heart, machine, script, history
<1> SUFFICES ASSUME mode' = "exited", code' # "killed", ~spoiled', files'["shims"] # Nothing
             PROVE  files'["guard"] \in Binaries
  BY DEF GuardBehindShims
<1>1. before' = before /\ BeforeOK
  BY Watching DEF InstallNext, Install, Backup, Step, Doctor, Untrap, Fail, Rollback, BackupEnds,
                  Signal, SignalAgain, Kill, InstallInv
<1>2. CASE before.files["shims"] # Nothing
  BY <1>1, <1>2 DEF BeforeOK, GuardStays
<1>3. CASE before.files["shims"] = Nothing
  <2>1. CASE BackupEnds
    BY <1>3, <2>1 DEF BackupEnds, InstallInv, CopiesKept
  <2>2. CASE Untrap
    BY <1>3, <2>2 DEF Untrap, InstallInv, ShimsOnce
  <2>3. CASE Rollback
    <3>1. at = 14 /\ ~spoiled /\ mode = "rollback"
      BY <2>3, Commands DEF Rollback, Goto, Exit, InstallInv, Standing
    <3>2. files' = files
      BY <2>3, <3>1, Rolled
    <3>3. files["shims"] = Nothing
      BY <1>3, <3>1 DEF InstallInv, ShimsOnce
    <3>4. QED
      BY <3>2, <3>3
  <2>4. CASE ~BackupEnds /\ ~Untrap /\ ~Rollback
    <3>1. code' = "killed" \/ mode' # "exited"
      BY <2>4, Watching DEF InstallNext, Install, Backup, Step, Doctor, Fail, Signal,
         SignalAgain, Kill, Exit, Goto, Roll
    <3>2. QED
      BY <3>1
  <2>5. QED
    BY <2>1, <2>2, <2>3, <2>4
<1>4. QED
  BY <1>2, <1>3

LEMMA InstallStep == InstallInv /\ [InstallNext]_installVars => InstallInv'
<1> SUFFICES ASSUME InstallInv, [InstallNext]_installVars PROVE InstallInv'
  OBVIOUS
<1>1. CASE InstallNext
  <2>1. InstallTypeOK'
    BY <1>1, InstallTypeKept
  <2>2. QED
    BY <1>1, <2>1, BeforeKept, CopiesAreKept, StandingKept, StartupKept, RollsBackKept,
       InstallsKept, GuardKept, ShimsMadeOnce, SignalKept, SuccessKept, BehindKept
       DEF InstallInv
<1>2. CASE UNCHANGED installVars
  <2>1. UNCHANGED <<mon, report, files, backup, moved, enabled, active, mode, at, back, code,
                    tries, before, judged, failed, spoiled>>
    BY <1>2 DEF installVars, heart, machine, script, history
  <2>2. /\ InstallTypeOK' /\ BeforeOK' /\ CopiesKept' /\ Standing'
    BY <2>1 DEF InstallInv, InstallTypeOK, BeforeOK, CopiesKept, Standing
  <2>3. StartupOwn' /\ RollsBack' /\ InstallsInOrder'
    BY <2>1 DEF InstallInv, StartupOwn, RollsBack, StartupBack, ShimsBack, InstallsInOrder
  <2>4. GuardStays' /\ ShimsOnce' /\ GuardBehindShims'
    BY <2>1 DEF InstallInv, GuardStays, ShimsOnce, GuardBehindShims
  <2>5. SignalRestores' /\ SuccessIsComplete'
    BY <2>1 DEF InstallInv, SignalRestores, SuccessIsComplete, Installed
  <2>6. QED
    BY <2>2, <2>3, <2>4, <2>5 DEF InstallInv
<1>3. QED
  BY <1>1, <1>2

LEMMA InstallBegins == InstallInit => InstallInv
<1> SUFFICES ASSUME InstallInit PROVE InstallInv
  OBVIOUS
<1>1. /\ files \in [Managed -> {Nothing, "old"}] /\ enabled \in BOOLEAN /\ active = enabled
      /\ mon \in Binaries \cup {Nothing} /\ report \in MonitorReports \cup {Nothing}
      /\ enabled => files["unit"] # Nothing
      /\ files["shims"] # Nothing => files["guard"] # Nothing
  <2>1. {"unit", "shims", "guard"} \subseteq Managed
    BY Places
  <2>2. CASE enabled = FALSE /\ mon = Nothing
    <3>1. files \in [Managed -> {Nothing, "old"}] /\ files["shims"] = Nothing /\ report = Nothing
      BY <2>1, <2>2, BoundAssumption DEF InstallInit
    <3>2. QED
      BY <2>2, <3>1 DEF InstallInit
  <2>3. CASE enabled = TRUE /\ mon = "old"
    <3>1. files = [f \in Managed |-> "old"] /\ report \in MonitorReports \cup {Nothing}
      BY <2>3, BoundAssumption DEF InstallInit
    <3>2. QED
      BY <2>1, <2>3, <3>1, BoundAssumption DEF InstallInit, Binaries
  <2>4. QED
    BY <2>2, <2>3 DEF InstallInit
<1>2. /\ backup = [f \in Managed |-> Nothing] /\ moved = 0
      /\ mode = "backup" /\ at = 1 /\ back = 0 /\ code = Nothing /\ tries = 0
      /\ before = [files |-> files, enabled |-> enabled, active |-> active]
      /\ judged = Nothing /\ failed = FALSE /\ spoiled = FALSE
  BY DEF InstallInit
<1>3. InstallTypeOK
  <2>1. /\ files \in [Managed -> Contents] /\ backup \in [Managed -> Contents]
        /\ active \in BOOLEAN
    BY <1>1, <1>2 DEF Contents, Binaries
  <2>2. Len(Script) = 17 /\ MaxTries \in Nat
    BY Commands, BoundAssumption
  <2>3. failed \in BOOLEAN /\ spoiled \in BOOLEAN
    BY <1>2
  <2>4. moved \in 0 .. 2 /\ at \in 1 .. Len(Script) /\ back \in 0 .. Len(Script) /\ tries \in 0 .. MaxTries
    BY <1>2, <2>2
  <2>5. QED
    BY <1>1, <1>2, <2>1, <2>3, <2>4 DEF InstallTypeOK
<1>4. BeforeOK /\ CopiesKept /\ StartupOwn
  BY <1>1, <1>2 DEF BeforeOK, CopiesKept, StartupOwn
<1>5. GuardStays
  <2>1. "guard" \in Managed /\ before.files = files
    BY <1>2, Places
  <2>2. QED
    BY <1>1, <2>1 DEF GuardStays, Binaries
<1>6. /\ Standing /\ RollsBack /\ InstallsInOrder /\ ShimsOnce
      /\ SignalRestores /\ SuccessIsComplete /\ GuardBehindShims
  BY <1>2 DEF Standing, RollsBack, InstallsInOrder, ShimsOnce, SignalRestores,
              SuccessIsComplete, GuardBehindShims
<1>7. QED
  BY <1>3, <1>4, <1>5, <1>6 DEF InstallInv

THEOREM InstallInvCorrect == InstallSpec => []InstallInv
BY InstallBegins, InstallStep, PTL DEF InstallSpec

\* The machine, the script and what it has seen are well typed, and doctor is
\* not asked more often than the script says (install-linux.sh).
THEOREM InstallTypeCorrect == InstallSpec => []InstallTypeOK
<1>1. InstallInv => InstallTypeOK
  BY DEF InstallInv
<1>2. QED
  BY <1>1, InstallInvCorrect, PTL

\* A signal at any command, half done perhaps, after any failures, and any number of
\* signals in the rollback, leave the machine as it was but for an empty startup
\* file and for shims copied into shims (the traps of install-linux.sh).
THEOREM SignalCorrect == InstallSpec => []SignalRestores
<1>1. InstallInv => SignalRestores
  BY DEF InstallInv
<1>2. QED
  BY <1>1, InstallInvCorrect, PTL

\* An installation that reports success without a failing command is complete,
\* and no monitor from before was taken for the new one (install-linux.sh).
THEOREM SuccessCorrect == InstallSpec => []SuccessIsComplete
<1>1. InstallInv => SuccessIsComplete
  BY DEF InstallInv
<1>2. QED
  BY <1>1, InstallInvCorrect, PTL

\* Every set of numbers has a least one.
LEMMA LeastNatural ==
    ASSUME NEW S, S \subseteq Nat, S # {}
    PROVE  \E m \in S : \A k \in S : m <= k
<1> DEFINE R == {p \in Nat \X Nat : p[1] < p[2]}
<1>1. R = OpToRel(<, Nat)
  BY DEF OpToRel
<1>2. PICK m \in S : \A y \in S : ~(<<y, m>> \in R)
  <2> HIDE DEF R
  <2>1. IsWellFoundedOn(R, Nat)
    BY <1>1, NatLessThanWellFounded
  <2>2. QED
    BY <2>1, WFMin
<1>3. ASSUME NEW k \in S PROVE m <= k
  <2>1. k \in Nat /\ m \in Nat
    OBVIOUS
  <2>2. <<k, m>> \in Nat \X Nat /\ <<k, m>>[1] = k /\ <<k, m>>[2] = m
    BY <2>1
  <2>3. k < m => <<k, m>> \in R
    BY <2>2
  <2>4. QED
    BY <1>2, <2>1, <2>3
<1>4. QED
  BY <1>3

\* What FirstOf finds comes before every other one.
LEMMA FoundFirst ==
    ASSUME NEW path \in Seq(STRING), NEW wanted, NEW i \in DOMAIN path, path[i] \in wanted
    PROVE  \E m \in DOMAIN path : /\ m <= i /\ path[m] \in wanted
                                /\ FirstOf(path, wanted) = path[m]
                                /\ \A j \in DOMAIN path : path[j] \in wanted => m <= j
<1> DEFINE hits == {j \in DOMAIN path : path[j] \in wanted}
<1>1. hits \subseteq Nat /\ hits # {} /\ i \in hits
  OBVIOUS
<1>2. \E m \in hits : \A j \in hits : m <= j
  <2> HIDE DEF hits
  <2>1. QED
    BY <1>1, LeastNatural
<1>3. PICK m : m = Min(hits)
  OBVIOUS
<1>4. m \in hits /\ \A j \in hits : m <= j
  <2> HIDE DEF hits
  <2>1. QED
    BY <1>2, <1>3 DEF Min
<1>5. FirstOf(path, wanted) = path[m]
  BY <1>1, <1>3 DEF FirstOf
<1>6. QED
  BY <1>1, <1>4, <1>5

\* A tool in the user's PATH is run when it is called, through whatever shims
\* an installation leaves, on every PATH (resolve_tool, install-shims.sh).
THEOREM ToolsCorrect == InstallSpec => []ToolsRun
<1>1. InstallInv => ToolsRun
  <2> SUFFICES ASSUME GuardBehindShims, mode = "exited", code # "killed", ~spoiled,
                      NEW path \in SearchPaths, NEW managers \in ManagerPaths,
                      FirstOf(path, {"tool", "guard"}) = "tool"
               PROVE  RunTool(path, managers) = "tool"
    BY DEF ToolsRun, InstallInv
  <2>1. path \in Seq(STRING) /\ Nothing # "tool" /\ Nothing # "shims"
    BY BoundAssumption
  <2>2. PICK i \in DOMAIN path : path[i] \in {"tool", "guard"}
    BY <2>1 DEF FirstOf
  <2>3. PICK first \in DOMAIN path :
          /\ path[first] = "tool"
          /\ \A j \in DOMAIN path : path[j] \in {"tool", "guard"} => first <= j
    BY <2>1, <2>2, FoundFirst
  <2>4. FirstOf(path, {"tool"}) = "tool"
    BY <2>1, <2>3, FoundFirst
  <2>5. PICK shims : shims = IF files["shims"] = Nothing THEN {} ELSE {"shims"}
    OBVIOUS
  <2>6. PICK found \in DOMAIN path :
          /\ path[found] \in {"tool", "guard"} \cup shims /\ found <= first
          /\ FirstOf(path, {"tool", "guard"} \cup shims) = path[found]
    BY <2>1, <2>3, FoundFirst
  <2>7. path[found] = "tool" \/ (path[found] = "shims" /\ files["shims"] # Nothing)
    <3>1. CASE path[found] \in {"tool", "guard"}
      <4>1. first <= found /\ found \in Nat /\ first \in Nat
        BY <2>1, <2>3, <3>1
      <4>2. QED
        BY <2>3, <2>6, <4>1
    <3>2. QED
      BY <2>5, <2>6, <3>1
  <2>8. CASE path[found] = "tool"
    BY <2>5, <2>6, <2>8 DEF RunTool
  <2>9. CASE path[found] = "shims" /\ files["shims"] # Nothing
    <3>1. files["guard"] \in Binaries
      BY <2>9 DEF GuardBehindShims
    <3>2. ResolveTool(path, managers) = "tool"
      BY <2>1, <2>4 DEF ResolveTool
    <3>3. QED
      BY <2>5, <2>6, <2>9, <3>1, <3>2 DEF RunTool
  <2>10. QED
    BY <2>7, <2>8, <2>9
<1>2. QED
  BY <1>1, InstallInvCorrect, PTL
============================================================================
