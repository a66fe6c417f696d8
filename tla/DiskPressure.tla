---------------------------- MODULE DiskPressure ----------------------------
(***************************************************************************)
(* The arithmetic that decides whether space is needed and how much is to  *)
(* be freed (src/config.rs, src/host.rs, src/main.rs): absolute thresholds *)
(* capped by a share of the volume, the pressure classes, the target and   *)
(* the logical budget of a cycle.                                          *)
(***************************************************************************)
EXTENDS Integers

Thresholds == [emergency : Nat, critical : Nat, pressure : Nat, target : Nat]

Smaller(a, b) == IF a <= b THEN a ELSE b

\* percent_cap multiplies 64-bit numbers in 128 bits: nothing wraps.
PercentCap(volume, percent) == (volume * percent) \div 100

\* DiskConfig::effective_thresholds
Effective(c, volume) ==
    [emergency |-> Smaller(c.emergency, PercentCap(volume, 5)),
     critical |-> Smaller(c.critical, PercentCap(volume, 10)),
     pressure |-> Smaller(c.pressure, PercentCap(volume, 20)),
     target |-> Smaller(c.target, PercentCap(volume, 30))]

\* DiskConfig::validate
ValidDisk(c) ==
    /\ 0 < c.emergency
    /\ c.emergency < c.critical
    /\ c.critical < c.pressure
    /\ c.pressure < c.target

\* HostSnapshot::validate, the geometry.
ValidVolume(volume, available) == 0 < volume /\ available <= volume

\* DiskPressure::Healthy.
Healthy == "healthy"

\* classify_disk
Classify(available, volume, c) ==
    LET t == Effective(c, volume) IN
      IF available <= t.emergency THEN "emergency"
      ELSE IF available <= t.critical THEN "critical"
      ELSE IF available <= t.pressure THEN "pressure" ELSE Healthy

BelowTarget(available, volume, c) == available < Effective(c, volume).target

\* need_space, in run_cleanup and in the monitor.
NeedSpace(available, volume, c) ==
    \/ Classify(available, volume, c) # Healthy
    \/ BelowTarget(available, volume, c)

\* Mutant of LogicalBudget: a cycle frees up to the pressure threshold only.
BudgetToPressure(available, volume, c) ==
    LET t == Effective(c, volume).pressure IN
      IF available < t THEN t - available ELSE 0

\* target_free_bytes.saturating_sub(volume_free_bytes)
LogicalBudget(available, volume, c) ==
    LET t == Effective(c, volume).target IN
      IF available < t THEN t - available ELSE 0
============================================================================
