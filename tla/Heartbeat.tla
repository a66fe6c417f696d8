----------------------------- MODULE Heartbeat -----------------------------
(***************************************************************************)
(* How status, doctor and the installer know that the monitor lives        *)
(* (MonitorStatus, monitor, status and doctor of src/main.rs): after each  *)
(* cycle the monitor writes its pid, the beginning of the cycle and its    *)
(* error; a reader asks whether the pid exists and how old the cycle is,   *)
(* against the interval of its own configuration.  The pid of a dead       *)
(* monitor may be given to another process.  The cycle is dated by the     *)
(* wall clock, which may be set and which leaps when a suspended machine   *)
(* wakes; the monitor works and sleeps by the monotonic one.               *)
(***************************************************************************)
EXTENDS Integers

CONSTANTS
    None,
    Pids,       \* pids that may be given twice
    Intervals,  \* monitor.interval_seconds, in ticks
    Patience,   \* intervals a status is good for: 4
    Jumps,      \* ticks by which the wall clock is put forward, or back if negative
    Horizon,    \* bound: no time passes once an age or a duration has this many ticks
    MaxDeaths, MaxEdits, MaxOthers, MaxJumps
                \* bounds: deaths, edits of the interval, reused pids, jumps of the clock

ASSUME TickAssumption ==
    /\ Intervals \subseteq Nat \ {0} /\ Patience \in Nat \ {0}
    /\ Jumps \subseteq Int /\ Horizon \in Nat
    /\ MaxDeaths \in Nat /\ MaxEdits \in Nat /\ MaxOthers \in Nat /\ MaxJumps \in Nat

VARIABLES
    interval,  \* monitor.interval_seconds in the active configuration
    alive,     \* a monitor runs
    pid,       \* with this pid
    stage,     \* what it does
    loaded,    \* the interval it has loaded
    work,      \* ticks since its cycle began
    nap,       \* ticks it still sleeps
    leapt,     \* how far the wall clock has jumped since its cycle began
    status,    \* monitor-status.json, with what the wall clock gives as the age
               \* of last_cycle_at
    others,    \* pids of other processes
    took,      \* history: ticks the latest cycle of this monitor took, None
               \* before it has reported
    slept,     \* history: what it was to sleep after it
    gone,      \* history: ticks without a monitor
    shifted,   \* history: how far the wall clock has jumped since last_cycle_at
    deaths, edits, reuses, jumps  \* counters for the bounds

clock == <<loaded, work, nap>>
past == <<took, slept, gone>>
wall == <<leapt, shifted>>
bounds == <<deaths, edits, reuses, jumps>>
vars == <<interval, alive, pid, stage, clock, status, others, past, wall, bounds>>

Statuses == [pid : Pids, error : BOOLEAN, age : Int]

TypeOK ==
    /\ interval \in Intervals /\ alive \in BOOLEAN /\ pid \in Pids
    /\ stage \in {"work", "sleep"} /\ loaded \in Intervals
    /\ work \in Nat /\ nap \in Nat /\ leapt \in Int
    /\ status \in Statuses \cup {None} /\ others \subseteq Pids
    /\ took \in Nat \cup {None} /\ slept \in Intervals /\ gone \in Nat /\ shifted \in Int
    /\ deaths \in 0 .. MaxDeaths /\ edits \in 0 .. MaxEdits
    /\ reuses \in 0 .. MaxOthers /\ jumps \in 0 .. MaxJumps

ASSUME NoneAssumption == None \notin Statuses /\ None \notin Nat

\* No monitor runs, and none has ever reported.
Init ==
    /\ interval \in Intervals /\ alive = FALSE /\ pid \in Pids /\ stage = "work"
    /\ loaded = interval /\ work = 0 /\ nap = 0 /\ status = None /\ others = {}
    /\ took = None /\ slept = interval /\ gone = 0 /\ leapt = 0 /\ shifted = 0
    /\ deaths = 0 /\ edits = 0 /\ reuses = 0 /\ jumps = 0

----------------------------------------------------------------------------
(* The monitor.                                                            *)

\* It takes the singleton lock, loads the configuration and begins a cycle.
Start ==
    /\ ~alive
    /\ pid' \in Pids \ others
    /\ alive' = TRUE /\ stage' = "work" /\ loaded' = interval /\ work' = 0
    /\ took' = None /\ leapt' = 0
    /\ UNCHANGED <<interval, nap, status, others, slept, gone, shifted, bounds>>

\* Stopped, killed, or ended by an error of its own.
Dies ==
    /\ alive /\ deaths < MaxDeaths
    /\ alive' = FALSE /\ gone' = 0 /\ deaths' = deaths + 1
    /\ UNCHANGED <<interval, pid, stage, clock, status, others, took, slept, wall,
                   edits, reuses, jumps>>

\* Mutant of Report: last_cycle_at is left at the beginning of the cycle before.
ReportLate ==
    /\ alive /\ stage = "work"
    /\ \E error \in BOOLEAN :
         status' = [pid |-> pid, error |-> error,
                    age |-> IF status = None THEN work + leapt ELSE status.age]
    /\ stage' = "sleep" /\ nap' = loaded /\ took' = work /\ slept' = loaded
    /\ shifted' = leapt
    /\ UNCHANGED <<interval, alive, pid, loaded, work, others, gone, leapt, bounds>>

\* The end of a cycle, whose work is a load, one or two probes and perhaps a
\* cleanup: last_cycle_at is the beginning, as the wall clock showed it then.
Report ==
    /\ alive /\ stage = "work"
    /\ \E error \in BOOLEAN :
         status' = [pid |-> pid, error |-> error, age |-> work + leapt]
    /\ stage' = "sleep" /\ nap' = loaded /\ took' = work /\ slept' = loaded
    /\ shifted' = leapt
    /\ UNCHANGED <<interval, alive, pid, loaded, work, others, gone, leapt, bounds>>

Wake ==
    /\ alive /\ stage = "sleep" /\ nap = 0
    /\ stage' = "work" /\ work' = 0 /\ loaded' = interval /\ leapt' = 0
    /\ UNCHANGED <<interval, alive, pid, nap, status, others, past, shifted, bounds>>

----------------------------------------------------------------------------
(* Its surroundings.                                                       *)

\* Time passes on both clocks; a sleep that is over is not slept on.
Tick ==
    /\ (alive /\ stage = "sleep") => nap > 0
    /\ work < Horizon /\ gone < Horizon /\ (status # None => status.age < Horizon)
    /\ work' = IF alive /\ stage = "work" THEN work + 1 ELSE work
    /\ nap' = IF alive /\ stage = "sleep" THEN nap - 1 ELSE nap
    /\ status' = IF status = None THEN None ELSE [status EXCEPT !.age = @ + 1]
    /\ gone' = IF ~alive THEN gone + 1 ELSE gone
    /\ UNCHANGED <<interval, alive, pid, stage, loaded, others, took, slept, wall, bounds>>

\* The wall clock is set, or catches up with a suspension in which the monotonic
\* clock stood still: no sleep is longer or shorter for it.
Jump ==
    /\ jumps < MaxJumps /\ jumps' = jumps + 1
    /\ \E d \in Jumps :
         /\ leapt' = leapt + d /\ shifted' = shifted + d
         /\ status' = IF status = None THEN None ELSE [status EXCEPT !.age = @ + d]
    /\ UNCHANGED <<interval, alive, pid, stage, clock, others, past, deaths, edits, reuses>>

Edit ==
    /\ edits < MaxEdits /\ edits' = edits + 1
    /\ interval' \in Intervals \ {interval}
    /\ UNCHANGED <<alive, pid, stage, clock, status, others, past, wall,
                   deaths, reuses, jumps>>

\* Another process begins, with any pid that is free.
Reuse ==
    /\ reuses < MaxOthers /\ reuses' = reuses + 1
    /\ \E p \in Pids \ others : (~alive \/ p # pid) /\ others' = others \cup {p}
    /\ UNCHANGED <<interval, alive, pid, stage, clock, status, past, wall,
                   deaths, edits, jumps>>

Next == Start \/ Dies \/ Report \/ Wake \/ Tick \/ Jump \/ Edit \/ Reuse

Spec == Init /\ [][Next]_vars

----------------------------------------------------------------------------
(* The readers.                                                            *)

PidAlive(p) == p \in others \/ (alive /\ p = pid)

\* Mutant of Healthy: whoever has the pid is the monitor.
HealthyByPid ==
    /\ status # None /\ ~status.error /\ PidAlive(status.pid)

\* MonitorStatus::healthy, of what read_monitor_status gives.
Healthy ==
    /\ status # None /\ ~status.error /\ PidAlive(status.pid)
    /\ status.age >= 0 /\ status.age <= Patience * interval

\* The verdict of guard status, and with the audit log that of guard doctor.
StatusOk(config, host) == config /\ host /\ Healthy

DoctorOk(config, host, audit) == StatusOk(config, host) /\ audit

----------------------------------------------------------------------------
(* Properties.                                                             *)

\* A monitor that is dead is reported as dead when Patience intervals have
\* passed by the wall clock (a clock set back postpones it by as much), even if
\* its pid belongs to another process by then: neither status nor doctor succeeds
\* any more, whatever else they find.
DeadNoticed ==
    ~alive /\ gone + shifted > Patience * interval =>
      \A config, host, audit \in BOOLEAN :
        ~StatusOk(config, host) /\ ~DoctorOk(config, host, audit)

\* A living monitor whose latest cycle went well is only called unhealthy when
\* two cycles in a row and what the wall clock was put forward took more than
\* Patience - 1 intervals together, when the clock was set back by more than the
\* latest cycle took, or when the interval has been lowered below the one it slept
\* by: a clock that keeps time gives no other alarm than for slowness.
AlarmMeansSlow ==
    alive /\ took # None /\ ~Healthy =>
      \/ status.error
      \/ took + (IF stage = "work" THEN work ELSE 0) + shifted > (Patience - 1) * interval
      \/ took + shifted < 0
      \/ slept > interval
============================================================================
