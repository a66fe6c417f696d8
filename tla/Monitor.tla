------------------------------ MODULE Monitor ------------------------------
(***************************************************************************)
(* The loop of the systemd user monitor (src/main.rs monitor) next to      *)
(* guard clean, the user's programs, an edited configuration and the       *)
(* passing of time: when a cleanup is due, how the maintenance lock is     *)
(* shared, how the two timers are armed, and what a failure leaves behind. *)
(* How the configuration is stored, the lock taken and a cycle executed is *)
(* the subject of ConfigStore, MaintenanceLock and Selection; here the     *)
(* lock is the abstract Mutex.                                             *)
(***************************************************************************)
EXTENDS DiskPressure

CONSTANTS
    Settings,  \* valid configurations: cleanup.enabled and the interval
    Disk,      \* their disk thresholds
    Total,     \* bytes of the volume
    Frees,     \* bound: bytes free that are considered
    Cooldown,  \* ticks of pressure_cleanup_cooldown for each pressure
    Nap,       \* ticks of monitor.interval_seconds
    Clis,      \* guard clean processes
    None,
    Horizon,   \* bound: ticks the history variable since counts up to
    MaxRuns,   \* bound: runs of guard clean
    MaxLost,   \* bound: replacements of the lock file under a holder
    MaxFaults  \* bound: kills, failing probes and fatal errors of the monitor

ASSUME SettingsAssumption ==
    /\ Settings \subseteq [enabled : BOOLEAN, interval : 0 .. Horizon]
    /\ None \notin Settings /\ None \notin Frees
ASSUME DiskAssumption ==
    /\ Disk \in Thresholds /\ ValidDisk(Disk)
    /\ Total \in Nat \ {0} /\ Frees \subseteq 0 .. Total
ASSUME TimeAssumption ==
    /\ Cooldown \in [{"healthy", "pressure", "critical", "emergency"} -> 0 .. Horizon]
    /\ Nap \in Nat /\ Horizon \in Nat /\ MaxRuns \in Nat
    /\ MaxLost \in Nat /\ MaxFaults \in Nat
ASSUME UsersAssumption == "monitor" \notin Clis

VARIABLES
    free,      \* bytes free on the volume
    active,    \* what a load of the configuration gives; None if it is
               \* degraded or an error
    holders,   \* of the maintenance lock
    strays,    \* those of them whose lock file has been replaced
    cli,       \* stage of each guard clean
    pc,        \* stage of the monitor
    config,    \* its configuration
    interval,  \* its maintenance_interval
    maintIn,   \* ticks until next_maintenance, 0 when it has passed
    coolIn,    \* ticks until next_pressure_cleanup, 0 when it has passed
    nap,       \* ticks it still sleeps
    snap,      \* the snapshot of its latest probe
    loaded,    \* history: what the load of this cycle gave
    last,      \* history: the snapshot its last successful cleanup began with
    since,     \* history: ticks since that ended
    runs, lost, faults  \* counters for the bounds

timers == <<interval, maintIn, coolIn, nap>>
history == <<loaded, last, since>>
others == <<free, active, cli, runs>>
locking == <<holders, strays, lost>>
vars == <<others, locking, pc, config, timers, snap, history, faults>>

Guards == {"monitor"} \cup Clis
Lock == INSTANCE Mutex WITH Procs <- Guards

Stages == {"dead", "load", "probe", "lock", "fresh", "clean", "report", "sleep"}

TypeOK ==
    /\ free \in Frees /\ active \in Settings \cup {None}
    /\ holders \subseteq Guards /\ strays \subseteq holders /\ lost \in 0 .. MaxLost
    /\ cli \in [Clis -> {"idle", "waiting", "cleaning"}]
    /\ pc \in Stages /\ config \in Settings /\ interval \in 0 .. Horizon
    /\ maintIn \in 0 .. Horizon /\ coolIn \in 0 .. Horizon /\ nap \in 0 .. Nap
    /\ snap \in Frees
    /\ loaded \in Settings \cup {None} /\ last \in Frees \cup {None}
    /\ since \in 0 .. Horizon
    /\ runs \in 0 .. MaxRuns /\ faults \in 0 .. MaxFaults

Init ==
    /\ free \in Frees /\ active \in Settings \cup {None}
    /\ Lock!Init
    /\ cli = [c \in Clis |-> "idle"]
    /\ pc = "dead" /\ config \in Settings /\ snap = free
    /\ interval = 0 /\ maintIn = 0 /\ coolIn = 0 /\ nap = 0
    /\ loaded = None /\ last = None /\ since = 0
    /\ runs = 0 /\ lost = 0 /\ faults = 0

Short(available) == NeedSpace(available, Total, Disk)
CooldownOf(available) == Cooldown[Classify(available, Total, Disk)]

\* saturating_duration_since
Decrement(n) == IF n > 0 THEN n - 1 ELSE 0

Goto(stage) == pc' = stage

\* The monitor's lock, if it has it, is dropped.
Drop ==
    /\ holders' = holders \ {"monitor"} /\ strays' = strays \ {"monitor"}
    /\ UNCHANGED lost

Fault == faults < MaxFaults /\ faults' = faults + 1

----------------------------------------------------------------------------
(* The monitor.                                                            *)

\* systemd starts the monitor, again and again as long as it fails: with a
\* degraded or invalid configuration it exits at once.
Start ==
    /\ pc = "dead"
    /\ active # None
    /\ Goto("load")
    /\ config' = active /\ interval' = active.interval
    /\ maintIn' = active.interval /\ coolIn' = 0
    /\ last' = None /\ since' = 0
    /\ UNCHANGED <<others, locking, nap, snap, loaded, faults>>

\* Mutant of LoadConfig: the cycle goes on with the configuration it has.
LoadIgnored ==
    /\ pc = "load"
    /\ loaded' = active
    /\ Goto("probe")
    /\ UNCHANGED <<others, locking, config, timers, snap, last, since, faults>>

\* Mutant of LoadConfig: the timer is armed in every cycle.
LoadRearms ==
    /\ pc = "load"
    /\ loaded' = active
    /\ IF active = None
       THEN Goto("report") /\ UNCHANGED <<config, interval, maintIn>>
       ELSE /\ Goto("probe")
            /\ config' = active /\ interval' = active.interval
            /\ maintIn' = active.interval
    /\ UNCHANGED <<others, locking, coolIn, nap, snap, last, since, faults>>

\* A degraded or failing load ends the cycle; a changed maintenance interval
\* is waited for anew.
LoadConfig ==
    /\ pc = "load"
    /\ loaded' = active
    /\ IF active = None
       THEN Goto("report") /\ UNCHANGED <<config, interval, maintIn>>
       ELSE /\ Goto("probe")
            /\ config' = active /\ interval' = active.interval
            /\ maintIn' = IF active.interval # interval THEN active.interval
                          ELSE maintIn
    /\ UNCHANGED <<others, locking, coolIn, nap, snap, last, since, faults>>

\* Mutant of Due: only the calendar counts.
DueByCalendar(available) == ~Short(available) /\ maintIn = 0

\* pressure_due || scheduled_due
Due(available) ==
    \/ Short(available) /\ coolIn = 0
    \/ ~Short(available) /\ maintIn = 0

Probe ==
    /\ pc = "probe"
    /\ snap' = free
    /\ Goto(IF config.enabled /\ Due(free) THEN "lock" ELSE "report")
    /\ UNCHANGED <<others, locking, config, timers, history, faults>>

\* Mutant of TryLock: a busy lock does not keep the monitor from cleaning.
TryLockIgnored ==
    /\ pc = "lock"
    /\ holders' = holders \cup {"monitor"} /\ Goto("fresh")
    /\ UNCHANGED <<others, strays, lost, config, timers, snap, history, faults>>

\* MaintenanceLock::try_acquire: a busy lock ends the cycle without an error.  A
\* holder of a lock file that is not there any more does not make it busy.
TryLock ==
    /\ pc = "lock"
    /\ IF holders = strays THEN Lock!Acquire("monitor") /\ Goto("fresh")
       ELSE Goto("report") /\ UNCHANGED <<holders, strays>>
    /\ UNCHANGED <<others, lost, config, timers, snap, history, faults>>

\* The snapshot the cleanup goes by is taken under the lock.
FreshProbe ==
    /\ pc = "fresh"
    /\ snap' = free
    /\ Goto("clean")
    /\ UNCHANGED <<others, locking, config, timers, history, faults>>

\* A probe fails and ends the cycle.
ProbeFails ==
    /\ pc \in {"probe", "fresh"}
    /\ Fault
    /\ Drop
    /\ Goto("report")
    /\ UNCHANGED <<others, config, timers, snap, history>>

\* Mutant of Rearm: a volume that was short has no cooldown.
RearmCalendar ==
    /\ maintIn' = interval
    /\ UNCHANGED coolIn

\* Which timer a successful cleanup arms depends on the snapshot it began with.
Rearm ==
    IF Short(snap) THEN coolIn' = CooldownOf(snap) /\ UNCHANGED maintIn
    ELSE maintIn' = interval /\ UNCHANGED coolIn

CleanSucceeds ==
    /\ pc = "clean"
    /\ free' \in {f \in Frees : f >= free}
    /\ Rearm
    /\ last' = snap /\ since' = 0
    /\ Lock!Release("monitor") /\ UNCHANGED lost
    /\ Goto("report")
    /\ UNCHANGED <<active, cli, runs, config, interval, nap, snap, loaded, faults>>

\* Failed actions or an error of run_cleanup arm neither timer.
CleanFails ==
    /\ pc = "clean"
    /\ free' \in {f \in Frees : f >= free}
    /\ Lock!Release("monitor") /\ UNCHANGED lost
    /\ Goto("report")
    /\ UNCHANGED <<active, cli, runs, config, timers, snap, history, faults>>

\* The status is written and the monitor sleeps.
Report ==
    /\ pc = "report"
    /\ nap' = Nap
    /\ Goto("sleep")
    /\ UNCHANGED <<others, locking, config, interval, maintIn, coolIn, snap,
                   history, faults>>

Wake ==
    /\ pc = "sleep" /\ nap = 0
    /\ Goto("load")
    /\ UNCHANGED <<others, locking, config, timers, snap, history, faults>>

\* A kill, an error of try_acquire or of writing the status ends the monitor;
\* the kernel closes the lock file.
Die ==
    /\ pc # "dead"
    /\ Fault
    /\ Drop
    /\ Goto("dead")
    /\ UNCHANGED <<others, config, timers, snap, history>>

----------------------------------------------------------------------------
(* guard clean.                                                            *)

\* The configuration is loaded before the lock is waited for; only a dry run,
\* which takes the lock as well, goes on with a degraded one.
CliBegin(c) ==
    /\ runs < MaxRuns
    /\ runs' = runs + 1
    /\ cli[c] = "idle"
    /\ cli' = [cli EXCEPT ![c] = "waiting"]
    /\ UNCHANGED <<free, active, locking, pc, config, timers, snap, history, faults>>

CliAcquire(c) ==
    /\ cli[c] = "waiting"
    /\ Lock!Acquire(c) /\ UNCHANGED lost
    /\ cli' = [cli EXCEPT ![c] = "cleaning"]
    /\ UNCHANGED <<free, active, runs, pc, config, timers, snap, history, faults>>

\* The wait for the lock ends after thirty seconds, or with a signal.
CliGivesUp(c) ==
    /\ cli[c] = "waiting"
    /\ cli' = [cli EXCEPT ![c] = "idle"]
    /\ UNCHANGED <<free, active, runs, locking, pc, config, timers, snap, history, faults>>

\* It ends, with or without an error, or is killed.
CliEnds(c) ==
    /\ cli[c] = "cleaning"
    /\ free' \in {f \in Frees : f >= free}
    /\ Lock!Release(c) /\ UNCHANGED lost
    /\ cli' = [cli EXCEPT ![c] = "idle"]
    /\ UNCHANGED <<active, runs, pc, config, timers, snap, history, faults>>

----------------------------------------------------------------------------
(* The world.                                                              *)

UserUses ==
    /\ free' \in Frees \ {free}
    /\ UNCHANGED <<active, cli, runs, locking, pc, config, timers, snap, history, faults>>

\* The configuration is edited, broken or repaired.
Edit ==
    /\ active' \in (Settings \cup {None}) \ {active}
    /\ UNCHANGED <<free, cli, runs, locking, pc, config, timers, snap, history, faults>>

\* Somebody replaces the lock file under a holder, which compares it with the
\* file it has locked only once, when it gets the lock.
Displace(r) ==
    /\ lost < MaxLost
    /\ lost' = lost + 1
    /\ Lock!Displace(r)
    /\ UNCHANGED <<others, pc, config, timers, snap, history, faults>>

\* Time passes, in any stage of anybody.
Tick ==
    /\ maintIn' = Decrement(maintIn)
    /\ coolIn' = Decrement(coolIn)
    /\ nap' = Decrement(nap)
    /\ since' = Smaller(since + 1, Horizon)
    /\ UNCHANGED <<others, locking, pc, config, interval, snap, loaded, last, faults>>

Monitor ==
    \/ LoadConfig \/ Probe \/ TryLock \/ FreshProbe \/ ProbeFails
    \/ CleanSucceeds \/ CleanFails \/ Report \/ Wake

Cli(c) == CliAcquire(c) \/ CliGivesUp(c) \/ CliEnds(c)

Next ==
    \/ Start \/ Monitor \/ Die
    \/ \E c \in Clis : CliBegin(c) \/ Cli(c)
    \/ UserUses \/ Edit \/ Tick
    \/ \E r \in Guards : Displace(r)

Spec == Init /\ [][Next]_vars

\* systemd restarts the monitor, its thread and those of guard clean are
\* scheduled, a cleanup ends and time goes on.
FairSpec ==
    /\ Spec
    /\ WF_vars(Start) /\ WF_vars(Monitor) /\ WF_vars(Tick)
    /\ \A c \in Clis : WF_vars(Cli(c))

----------------------------------------------------------------------------

\* The monitor holds the lock or cleans only in a cycle whose own load gave a
\* configuration that is valid and enabled: a cycle that finds it degraded
\* mutates nothing, however the last one went.
FailsClosed ==
    pc \in {"lock", "fresh", "clean"} => loaded = config /\ config.enabled

\* Whoever cleans holds the maintenance lock, on every way into a cleanup, and
\* whoever is done, fails or is killed leaves it.  The monitor and the runs of
\* guard clean clean one at a time but for those whose lock file has been
\* replaced under them: each of these lets in one more.
Cleaners == {c \in Clis : cli[c] = "cleaning"}
            \cup IF pc \in {"fresh", "clean"} THEN {"monitor"} ELSE {}
Serialized ==
    /\ Cleaners = holders /\ strays \subseteq Cleaners
    /\ \A u, v \in Cleaners \ strays : u = v

\* A cleanup that is decided on because the volume is short begins no sooner
\* than the cooldown after one that succeeded on a short volume, and one that
\* is decided on by the calendar no sooner than the maintenance interval after
\* one that succeeded on a volume that was not, whatever the volume, the
\* configuration and the lock did in between.
Paced ==
    [][pc = "fresh" /\ pc' = "clean" /\ last # None =>
         IF Short(snap) THEN Short(last) => since >= CooldownOf(last)
         ELSE ~Short(last) => since >= interval]_vars

\* The configuration stays the same and enabled.
Settled == \E s \in Settings : s.enabled /\ <>[](active = s)

\* As long as space is needed cleanups begin again and again, whatever fails.
PressureAnswered == Settled /\ <>[]Short(free) => []<>(pc = "clean")

\* A volume that stays well above its target is maintained again and again.
MaintenanceComes == Settled /\ <>[]~Short(free) => []<>(pc = "clean")
============================================================================
