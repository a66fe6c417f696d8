# GuardWSL: models, model checking and proofs

GuardWSL watches the free space of a volume (the local file system, or the
Windows volume behind a WSL2 disk), and removes old caches and build outputs when
space runs short or on a schedule. It deletes directories while their owner goes
on working, so what matters is what happens *between* its system calls. This
directory holds TLA+ modules that follow the Rust source, TLC configurations that
check them on small instances, and TLAPS proofs for every value of the constants.

    tlc -workers 2 -config MCMonitor.cfg MCMonitor.tla     # any row of "Runs"
    tlapm ConfigStoreProofs.tla                            # any *Proofs module

`PROJECT.json` lists components, runs, the mutants of the code that each property
detects, the source lines each definition stands for, the findings, the hazards
and the theorems. Source lines below are of `src/src/`.

## Inventory

| Component | State | Operations | Hard behaviours | Correct when |
| --- | --- | --- | --- | --- |
| Cleanup executor (`cleanup.rs`) | the file system; report and plan of a cycle | plan, inspect again, audit the intent, check identity, rename into quarantine, verify, purge, audit the outcome, report | the user's programs move, write to or open a candidate between any two calls; kills; failing calls; leftovers of earlier cycles; several processes | only the planned directory is purged, after its intent; nothing is overwritten or lost; report and log tell the truth; a cycle ends |
| Planner and budget (`cleanup.rs` 160-205, `main.rs` 382-406) | candidates of one cycle | order, ages, budget, action limit | a share of the budget spent on a candidate that fails; many cycles in a row | safer kinds first, no more than the budget, and need ends |
| Thresholds and pressure (`config.rs` 136-173, `host.rs` 181-193) | none | cap by shares of the volume, classify | mixtures of configured values and shares, `<=` against `<` | order kept, a healthy amount of space exists, due cycles have a budget |
| Maintenance lock (`maintenance_lock.rs`) | a lock file and flocks on it | open, validate, flock, compare, poll, release | the file unlinked or moved at any moment; killed holders | cycles exclude each other while the file stays, nothing stays locked, attempts end |
| Configuration store (`config.rs` 340-424, `fsutil.rs` 71-111) | `config.toml`, `config.last-good.toml` | load, refresh, init, normalize | no lock at all; an editor at work; kills and loss of power between two writes | nothing torn, no invented configuration, the copy holds what was active |
| Monitor (`main.rs` 740-924) | two timers, its configuration, a status file | load, probe, try the lock, probe again, clean, arm a timer, report, sleep | a volume that changes between two probes, failures that arm nothing, edits, restarts | fails closed, keeps its pace, keeps on cleaning while needed |
| Audit log (`history.rs`, `fsutil.rs` 113-150) | one JSONL file | append under a flock, tail without | records torn by a full disk, a kill or a loss of power; a new log whose name is not on the disk; readers next to writers; size limit | what was acknowledged is durable and whole, or the new log is gone; readers recover |
| Host probe (`host.rs`) | a child process, two reader threads | classify, measure, spawn, poll, kill, join, parse, validate | children that hang, talk too much, or leave their pipes to others; a clock that is off; sizes that overflow | every probe ends, on time or discarded, and tells the truth; it does not if a process keeps the pipes |
| Status and doctor (`main.rs` 144-209, 645-738) | the monitor's status file | read and judge | stale status, reused pid, edited interval, a wall clock that is set or jumps over a suspension | the dead are noticed, the living slandered for a reason |
| Repository discovery and planning (`repository.rs`, `cleanup.rs` 160-745) | the plan | walk, authenticate, look for projects, inspect, sort, drop duplicates | a tree that changes between any two looks; nested repositories; quarantines | nothing twice, nothing unfit, nothing forgotten |
| Legacy migration and schema (`config.rs` 26-103, 427-620) | none | recognise, convert, validate, print | two schemas in one file, absent fields, retired tables | normal ages and protected paths are kept; what is printed is read back |
| Installer and rollback (`scripts/install-linux.sh`) | backup and installed files, systemd | commands in order, a rollback of commands | failure or signal at and within every command and in the rollback | the old installation or the new one |
| Shims and tool forwarding (`install-shims.sh`, `main.rs` 523-623) | files in front of the user's `PATH` | resolve, run | half an installation in front of every tool | the user's tools run |
| Process-use check (`cleanup.rs` 884-992) | none | read `/proc` | processes come and go while it reads | no false negative for what it promises to see |
| Command line, exec (`main.rs`) | none | run one command | none but the lock and the store | exit codes preserved |
| Unit file, build, CI | files | written once | none | - |

**Interactions.** The monitor and `guard clean` load the configuration through the
store, probe the volume, take the maintenance lock and call `run_cleanup`, which
selects under a budget and hands a plan to the executor; the executor appends to
the audit log around every removal. `guard config` and the monitor's start write
through the store. `status` and `doctor` only read. systemd restarts a monitor
that failed. The installer stops and starts the monitor, judges it with `doctor` and
puts shims into `PATH` that call `guard exec`. Everything that is shared is shared
through files: there is one thread per process, apart from the readers of a probe.

## Plan

| # | Module | Models | Composed with | State |
| --- | --- | --- | --- | --- |
| 1 | `Cleanup` | the executor, step by step | the user's programs; implements `SafeRemoval` | done, seven theorems |
| 2 | `MaintenanceLock` | the lock protocol | implements `Mutex` | done, five theorems |
| 3 | `DiskPressure`, `Selection` | threshold arithmetic; many cycles of selection | `Selection` extends `DiskPressure` | done, seven theorems |
| 4 | `ConfigStore` | the store down to system calls | - | done, five theorems |
| 5 | `Monitor` | the loop of the monitor and `guard clean` | `Mutex` for the lock, `DiskPressure` for need | done, four theorems |
| 6 | `AuditLog` | append under flock, torn writes, tail, limit | - | done, three theorems |
| 7 | `HostProbe` | platform, Linux volume, `run_bounded`: child, readers, timeout | - | done, four theorems |
| 8 | `Heartbeat` | the status file and its judges | the interface of `Monitor` and `Installer` | done, three theorems |
| 9 | `Installer` | install steps, failure or signal at each, rollback, shims | the monitor and its status, abstractly | done, four theorems |
| 10 | `Planning` | repositories, projects, inspection, order | what `Cleanup` and `Selection` take as given | done, four theorems |
| 11 | `Configuration`, `ConfigMeaning` | the two schemas as operators | `ConfigMeaning` extends `ConfigStore` with the meaning of its texts | done, four theorems |
| 12 | `SafeRemoval` | what a removal promises, abstractly | implemented by `Cleanup` | done, with `Cleanup` |

Abstract specifications: `Mutex` (there), `SafeRemoval` (a directory is whole,
set aside or gone, and only the announced one goes), an atomic register for the
active configuration.

## The modules

### Cleanup and SafeRemoval

One action per system call that reads or changes the file system, for any number
of guard processes. A directory is its identity (device and inode); its contents
are a newest modification time, the verdict of `profile_tree` and the age check,
and the processes that refer to it. `at` is what candidate paths name, `trash`
what quarantine names do, `tree` what is left of each directory, `audit` the log
by process, `last` is `cleanup-last.json`.

| Code | Actions |
| --- | --- |
| `plan_cleanup` | `StartCycle`, `Consider`, `EndPlan` |
| second `inspect_candidate` | `InspectContext`, `InspectUse`, `InspectProfile`, `Skip` |
| `audit.append`, dry run | `AuditIntent`, `ReportOnly` |
| `revalidate_directory_identity` | `RevalidateIdentity` |
| `quarantine_and_remove`, `rename_noreplace` | `RenameIntoQuarantine`, `RenameTaken`, `RenameMissing` |
| `purge_verified_quarantine` | `VerifyQuarantine`, `PurgeSome`, `PurgeAll`, `PurgeMissing` |
| outcome, end of loop, report | `AuditSuccess`, `AuditFailure`, `LoopDone`, `SaveReport` |
| any call that fails | `AppendFails`, `RemovalFails`, `CycleFails`; `Crash` is a kill |

The `User...` actions are the rest of the world: writing, opening, mapping,
replacing, removing, restoring from quarantine. They are bounded, not restricted.
`PurgeSome` finds the directory by its name each time, `remove_dir_all` goes on in the one
it has opened: of a directory restored in the middle of its purge the code removes more
than the model.
An inode number is reused as soon as its directory is gone, with a later
modification time. Everything
`inspect_candidate` says about a path before it looks for users is membership in
`eligible`, which the user's programs change at any time.

`SafeRemoval` is what the owner of the directories is promised. It knows which path
each directory has or which name it was set aside by, which ones have lost entries, and
what each process has announced; plans, inspections, log, cycles and failing calls are
not in it. A process announces one path and directory, sets aside whole whatever has
that path by then under a free name of its own, and takes entries out of a directory only
if it is the announced one under such a name. `Removal` maps the names of `Cleanup` to
those of each directory, and the stages from `check` to `purge`, in execute mode and with
the intent as the newest record, to an announcement.

### MaintenanceLock and Mutex

`file` operations `Create`/`Open`, `Validate`, `Lock`, `Compare`, `Release` are the
calls of `try_acquire_at_operation`; `Busy` is a failed flock, with the polling of
`acquire` (a patient process) or the single attempt of `try_acquire`. `Replace`
unlinks or moves the lock file, under a holder or not, `Crash` kills a process.
`Mutex` is the abstract lock, whose holders exclude each other until one is displaced
and becomes a stray; `AbstractLock` maps its holders to the processes past `Compare`
and its strays to those of them whose file is no longer the named one.

### DiskPressure and Selection

`DiskPressure` holds the arithmetic as operators. `Selection` uses it for cycles:
`Begin` probes, plans and selects, `Delete`/`Spare` handle one candidate in order,
`Finish`/`Fail` end the cycle, while the user fills the volume, writes to or holds
candidates and time makes them older. A removal is one step here, and gains
either the candidate's size or nothing (on a thin WSL2 disk deleted bytes need not
return). The candidate paths are a fixed set; a removed one does not come back.
`Selected(s)[k]` is what the first `k` candidates in order add up to, the running sum of
`select_for_budget`, and `Retains` says that the budget was not met before the last of them.
`NeedHasBudget` and `BudgetCures` leave out volumes so small that 20 % and 30 %
are the same number of bytes (none above six bytes), where pressure holds at `<=`
and the budget is zero.

### ConfigStore

`UserExists`, `GoodExists`, `ReadUser`, `FallBack` are the calls of `load_inner` in
their order, `InitIfMissing` that of `init_if_missing`; `WriteTemp`, `SyncTemp`,
`Rename`, `SyncDir` those of `atomic_write_private`, for the active file and then
the copy. `Stop` is a failing call or a kill, `PowerLoss` picks, for each file, one
of the contents `disk` says it may have: after a rename the old or the new, and
anything if the data were never synced. Nothing locks the store, and nothing is
assumed to. Texts are model values with a meaning, so that a legacy document and
its normalized form differ as texts and agree as configurations. Editors are
assumed to save durably. A read happens at one moment: the files are replaced, not
overwritten, by GuardWSL itself.

### Monitor

`LoadConfig`, `Probe`, `TryLock`, `FreshProbe`, `CleanSucceeds`/`CleanFails`,
`Report`, `Wake` are the stages of the loop; `Start` is systemd's start or restart
(a degraded configuration ends it at once, which leaves it to the next restart),
`Die` a kill or one of the errors that end the loop. `maintIn` and `coolIn` count
down to `next_maintenance` and `next_pressure_cleanup`. `Tick` lets time pass in
any stage, so a probe or a cleanup may take as long as it likes. `CliBegin`,
`CliAcquire`, `CliGivesUp`, `CliEnds` are `guard clean`. The lock is the abstract
`Mutex` that `MaintenanceLock` implements, strays included: `Displace` replaces the lock
file under a holder, and the next one that asks finds the new file free and cleans at the
same time. A restarted monitor has no cooldown, as its timers were its own. Need and
pressure are those of `DiskPressure`. What a cleanup frees is
any amount, and the user fills and frees the volume at any time.

### AuditLog

A line is three pieces: a text that does not parse, one that completes it, and the
newline. `Open`, `Lock`, `Write` (once per piece, as `write_all` may), `Sync`, `Unlock`
are the calls of `append_private`; `Stop` is one that fails, or a kill, and leaves what
was written; `PowerLoss` cuts the file anywhere behind what was synced (`Cut`), or takes it
away whole (`Gone`) if it is new: `append_private` creates it and, unlike
`atomic_write_private`, never syncs its directory, so that its name is only on the disk once
somebody else has seen to it (`NameSettles`: the system, or the report and the status, which
are written next to it and sync the directory they share). `lost` is history: what was
acknowledged of a log that is gone. `TailOf` is
`tail`: it takes no lock, splits at newlines (`After` reads one piece, `Closed` adds a last
line without its newline), and gives an error for one bad line among those asked for. `since` is history: the records acknowledged since the latest fault.

### HostProbe

One probe. `MeasureLinux` is `probe_linux_disk`, `Refuse` whatever ends a probe before a
child is there. `Spawn`, `Reap`, `Expire`, `Nap`, `Join`, `ParseSnapshot`, `Answer` are
the main thread of `run_bounded` and its callers, `Reads` and `ReaderEnds` the two
readers. The child writes, exits or hangs as it likes, may start a process that inherits
its pipes (`Inherit`), and asks for the volume at some time of its own (`Capture`), on a
clock that is `offset` ticks off. `Hosts` are records of what can be found: words of
`osrelease`, names, sockets with their times, roots and volumes with 4-bit sizes, so that
products overflow.

### Heartbeat

There are two clocks: the sleep is one of the monotonic clock, the age of a status one of
the wall clock, which `Jump` sets forward or back, or lets catch up with a suspension.
`Report` writes `monitor-status.json` at the end of a cycle with the time of its
beginning; `Wake` begins the next after the interval that cycle loaded. `Healthy` is the
reader's judgement, by the interval of *its* configuration, which `Edit` changes at any
time, and wants an age that is neither negative nor too high. `Reuse` gives a free pid to
somebody else. `took`, `slept`, `gone`, `leapt`, `shifted` are history: how long the latest
cycle took, what the monitor sleeps after it, for how long there has been none, and by how
much the wall clock has jumped in this cycle and since the beginning of the reported one.

### Installer

The variables and actions have names of their own (`InstallSpec`, `InstallTypeOK`), so that
`ServiceProofs` can extend this module next to `Heartbeat`.
`Script` and `RollbackScript` are the commands of `install-linux.sh` in order, `at` the one
it is at; `install-shims.sh` is one command of the former with four of its own
(`InstallShims`), the first failing one of which ends it. `Step` is a command that succeeds,
`Fail` one that fails, which runs the rollback and then goes on with the command of the main
script behind it (`Behind`), since `rollback` has turned errexit off; `Signal` and
`SignalAgain` roll back, again if need be, and exit; `Kill` runs nothing. What fails or is
interrupted is done, not done or half done (`Half`, `RollbackHalf`): a file removed or
partly written by `install` or `cp`, one of two files saved, some of the shims there; files
that are renamed into place are old or new. "new" stands for what this installation wants of
a file, whether it has to write it or not, as a startup file that has the block already.

A rollback puts each copy back and removes what has none, but a startup file only if it has
the marker (`RestoredFile`): one that `path_block` has created and not yet filled stays,
empty. It moves the shims to `failed-shims`: a second one moves them into that directory, a
third fails, and `cp` then puts the old shims into a directory of those that are there
(`RestoredShims`, "nested"); if the name is taken by an empty directory `mv` succeeds, which
is kinder than the model. Left-over temporary files (`.distro-name.XXXXXX`,
`.guardwsl.XXXXXX`) are left out.
The three startup files, and the files of the shims, are one each. What is modelled is an
installation in WSL2: on Linux `distro-name` is not written. `Serve`, `MonitorDies`,
`Reports` are systemd and the monitor, `StatusAges` the passing of time. `RunTool` is what
a call of a tool comes to with the shims in `PATH`, `ResolveTool` is `resolve_tool`, and
`FirstOf` the first directory of a `PATH` that has what is looked for.

### Planning

`layout` is a tree with its manifests, lockfiles, repositories and what Git says in each;
`dirs`, `away`, `stamp`, `used` are what the user changes while the plan is made: a
directory that is moved away leaves a link in its place. `VisitDirectory` and
`VisitProject` are one entry each of the two walks, `PushCandidate` one `inspect_candidate`,
`SortPlan` sort and dedup: `InOrder` gives every candidate the place that the number of
those before it says, `Repeated` are those whose neighbour before has the same path.
`touched` is history: what changed since the plan began. `ProjectPlaces` are the
directories that may be projects of a repository, `ProjectsOf` those that are there.
Completeness is promised for repositories with no more of the former than the code takes:
counting the latter at the end is not enough, as a project that has been found and then
removed still takes a place.
Names that stand for many (one artifact of each kind, one manifest, one lockfile) are
one. `cleanup.enabled`, without which the plan is empty, and a missing `HOME`, without which
there are no global caches, are left out: with either there is less to plan. What someone
has touched is excepted from all three properties: for a path that a link has taken the
place of meanwhile nothing is promised by the plan, and one that is written to between two
inspections is planned twice.

### Configuration

`ParseConfigText` and `ToTomlText` are what `ConfigStore` leaves to the constants `Parse`
and `ToToml`, on documents that are records of what a file sets: every setting of
`[cleanup]`, the shared ones of the legacy schema, and for each legacy category whether it
has `enabled = false` (`off`). Lists of paths are sets; a path has a head as it is written
(`~/`, `/`, or one that is refused) and a rest. `~//x` is taken for `/x`, as joining an
absolute path to the home directory gives that path. The limits on roots and protected paths
are constants (32 and 256 in the code).

`ConfigMeaning` puts the two together: `MeaningAssumption` says that the tables given to
`ConfigStore` are those of `Configuration`, and `MeaningIsKept` has three parts. `AgesKept`:
what a legacy file asks of the age of a kind, `age_for` asks after the migration too; when
space is wanted it takes the lesser of that and `critical_min_age_hours`, which no legacy
file can set, so that there the default of a day is enough. `ProtectionKept`: the protected
paths are the same ones, path by path, or the file is refused. `NormalizeIsStable`: what
`normalize` writes, and so what the store comes to hold, is read back the same.

What a migration does *not* keep is no part of it: a category with `enabled = false` is
cleaned afterwards, since `LegacyCategory` (`config.rs` 480-484) has no such field and
ignores it, and the whole home directory is scanned, whatever roots the file had. The model
has both (`off` is read by nothing).

## Runs

| Run | Checks | Shows |
| --- | --- | --- |
| `cleanup_solo` | names, report, log, purge, intent | one process, two cycles, two paths, two steps of the user, one failing call, one kill and restart with the same pid |
| `cleanup_pair` | every cycle ends; implements `SafeRemoval` | two processes on one path *without* the lock, two directories, one step of the user, one failing call, one kill |
| `lock_attempts` | no orphan; attempts end; implements `Mutex` | two processes, three files, two replacements under holders or not, one kill |
| `select_cycles` | safer first, bounded by the target; relief comes; the budget cures | a cache, a build output and a `node_modules` of every age, every pressure, an action limit of two |
| `config_store` | answers, copy, nothing torn, only active saved; the meaning of a configuration is kept | two processes, two operations, two edits, one fault anywhere; some thousands of documents of both schemas, with and without a home, at normal ages and under pressure |
| `monitor_cycles` | fails closed, serialized, paced; pressure answered, maintenance comes | two configurations (one disables cleanup and has another interval), three amounts of free space, two runs of `guard clean`, one fault, one lock file replaced under its holder |
| `audit_log` | acknowledged is durable, history heals; the log is freed | two processes, five records of three pieces, a log that is there or new, two faults |
| `host_probe` | output is drained, true sizes, stuck is discarded; only heirs of the pipes keep it | Linux and WSL2 hosts, good and bad, outputs of up to two pieces with a pipe and a cap of one, clocks that are off |
| `heartbeat` | the dead are noticed, an alarm means slow | two pids, two intervals, two deaths, an edit, a reused pid, two jumps of the wall clock, forward or back |
| `install` | types, a signal restores, success is complete, tools run | over nothing and over an active installation, three faults, in the middle of commands too, every order of `PATH` |
| `install_transactional` | - | violation, see Findings |
| `planning` | types, planned once, the plan is sound, the plan is complete | nested repositories, a monorepo, a quarantine with a repository, a protected path; two steps of the user |

**Bounds.** A property of the executor is broken, if at all, by one process and one
other actor at one candidate, so two directories, two paths or processes, and one
or two steps of everybody else reach every pair of interleaved calls, and the second
cycle meets the leftovers of the first. Three lock files are the one held, the
one that replaced it and the one that replaced that. A volume of 40 bytes puts the
shares at 2, 4, 8 and 12, between, below and above the configured thresholds.
Timers of one to three ticks suffice for each to run out before, with and after
the other. One replacement of the lock file makes two cycles overlap, and a second holder
come and go meanwhile. The bounds on faults, edits and runs are counters in the guards and
named `Max...`; those of `Monitor` do not bound edits of the configuration or use
of the volume at all. `Horizon` bounds a history variable that only has to tell
"at least as long as the longest timer". Symmetry is used in runs that check
safety only. Deadlock checking is off where the bounds let everything come to
rest (all but `MaintenanceLock`, `Selection` and `Monitor`).
A pipe, a cap and a report of one or two pieces are enough for a child to block, and for
output to be cut; a record of three pieces for every place it can be torn at, and five
records for two torn ones and more acknowledged ones than a reader asks for. Three faults in
the installer are a failure, a signal and a signal in the rollback of that, and three
rollbacks, the last of which meets two of the others' shims. Jumps of -3 and +5 ticks are
more than a short cycle takes and more than three of the shorter intervals; in between there
are the differences of the two. Trees of
depth two with walks of that depth have entries at, above and below the limit; the depths of
the source are four, its number of projects 512 (`MaxDepth`, `MaxProjects`).

**Mutants.** For every property of a passing run `PROJECT.json` names a definition
and an operator that changes it as a plausible slip in the code would (no compare
after flock, rename that replaces, copy written first, data not synced, timer armed
in every cycle); the property is violated in the mutated model. They stand in the
modules next to what they change, marked "Mutant of".

**Fairness.** Weak fairness of a guard process or of the monitor's thread says that the
system schedules it; of `guard clean`, that a cleanup or a wait ends, which its timeout
and `cleanup_pair` justify; of `Start`, systemd's `Restart=on-failure`; of `Tick`, that
time passes; of `Progress` in `Selection`, that the monitor or the user begins
cycles. No fairness is asked of the user, the editor or any fault. `ReliefComes` is for
candidates that do not stay stuck, `PressureAnswered` and `MaintenanceComes` for a
configuration that in the end stays the same and enabled: the code restarts the
interval whenever it changes, and gives no guarantee otherwise. In `AuditLog` writers go
on; in `HostProbe` threads run and time passes, while the child and whoever inherited its
pipes owe nothing: `OnlyHeirsKeepIt` says that a probe ends or waits for ever in the one place
that has no limit.

## Findings

`install_transactional` states what `README.md:77` and `docs/INSTALLATION.md:58` say and
finds it violated: the ERR trap rolls back with errexit turned off and does not exit, so
that the script goes on with the command behind the one that failed. It may then write
`install.json` and end with "installed and active" over restored files. After a signal,
which does exit, the promise holds (`SignalRestores`).

The models follow the code, not the documents, in these places as well, where no run is
kept for the difference:

* `docs/SAFETY.md:35` names mappings among the references that protect a directory;
  `path_is_in_use` does not read `/proc/<pid>/maps`, and `PathIsInUse` of `Cleanup` does not
  see them.
* `docs/SAFETY.md:23` and `:38` want the newest modification time to match the plan; it is
  compared before the intent is appended and synced, not at the rename, and what is written
  in between is removed (`UserWrites` after `InspectProfile`).
* `README.md:33` has every outcome in the audit log; a failing append of the success record
  leaves a removal whose outcome is nowhere (`AppendFails` in stage "audit success").
* `docs/SAFETY.md:57` has a replaced lock rejected and `docs/ARCHITECTURE.md:13` cleanups
  serialized; the file is compared once, at acquisition, and replaced later it lets a
  second cycle in. `Exclusion` counts how many, `Mutex` calls the first a stray, and
  `Serialized` of `Monitor` lets those overlap and no others. The
  theorems of `CleanupProofs` do not assume the lock: they hold for any number of
  processes that clean at the same time.
* `docs/ARCHITECTURE.md:36` says that the PowerShell adapter has a bounded timeout. It covers
  the child; the two `join`s behind it (`host.rs` 438) have no limit, and a process that has
  inherited a pipe from a child which has exited holds up the probe, and with it the monitor,
  for as long as it lives (`Inherit`, `Join`). `OnlyHeirsKeepIt` says that there is no other
  way to wait for ever, `StuckIsDiscarded` that no answer comes of a long wait.
* `docs/SAFETY.md:38` has the audit intent durably appended before the rename. Its data are
  forced to the disk; a log that is new may still be lost whole, since its directory is not
  synced (`fsutil.rs` 117-130 against 105; `Gone` of `AuditLog`).
* `docs/SAFETY.md:32` keeps what Git tracks. Git is asked in the repository a candidate was
  found through; one that is nested in another, ignored by it and not a submodule of it, is
  not asked when the candidate comes through the outer one (`ValidateGitState`).

## Proofs

TLAPS checks the `*Proofs` modules, with no assumption beyond the named `ASSUME`s of
the modules, which TLC evaluates in every run. They say that bounds are numbers, that the
stand-in for "nothing" is no value of its type, that configurations are valid and sizes and
times natural numbers; `MeaningAssumption` is explained above, and `DocumentAssumption`
says that documents are of the shape `Configuration` reads; `OrderAssumption` and
`LayoutAssumption` say that paths have an order and that a directory is in directories. Where a proof needs induction
over a number (the length of a log, of a plan, of a `PATH`), it takes the least
counterexample, which exists since `<` on the natural numbers is well founded: the lemmas
`LeastNatural` and `AllNaturals` of several modules.

* **Cleanup.** `TypeInv` adds to `TypeOK` that the loop stands inside its plan and
  its quarantine names. `NamesAreExact` is inductive with it. For the action
  properties and `SuccessIsTrue` the invariant `Inv` says what a process has
  established at each stage after the intent: that the intent is its newest record,
  that its quarantine name holds the directory it verified or nothing, since others can
  only take that away, and that a removal it is about to report is in the history. `Books` is what makes
  `ReportMatchesAudit` inductive: at every moment the report that a process is still writing
  agrees, outcome by outcome and path by path, with what the log holds of its cycle, but for
  an intent that is still open, and no two processes are in one cycle. A record appended adds
  one to one tally and to no other (`RecordedTally`). `RemovalCorrect`, the refinement of
  `SafeRemoval`, needs `Inv` and `NamesAreExact` together: the first says that a process which
  renames or purges has announced it and where its directory is, the second that the
  directory a name is taken from or given to has no other, so that one rename is one step of
  one directory. Its lemmas go action by action: the rename is `SetAside`, the purge `Cut` and
  `Finish`, the intent `Announce`, every other step of a process is invisible or `GiveUp`,
  and the user's moves are `Make`, `Discard` and `Restore`. Theorems: `TypeCorrect`,
  `NamesCorrect`, `SuccessCorrect`, `PurgeCorrect`, `IntentCorrect`, `ReportCorrect`,
  `RemovalCorrect`.
* **MaintenanceLock.** Past the flock a process holds the flock of the file it
  opened (`Opened`). Holders whose file is no longer the named one are counted:
  there are never more than replacements under a holder (`StraysBounded`), and all
  others have the same file, hence are the same process. Theorems: `TypeCorrect`,
  `NoOrphanCorrect`, `HoldersCorrect`, `ExclusionCorrect`, and `MutexCorrect`, the
  refinement of `Mutex`.
* **Planning** (in `PlanProofs`). The walks are followed by what is still ahead of a
  candidate, never by their history. Whatever is found, an entry of a walk, a repository, a
  project, an offer, a candidate, is what it seems unless someone has touched it or what it
  lies in (`WalksStay`, `ReposFound`, `RepoFound`, `ProjectsFound`, `OffersFit`, `PlanFits`);
  and for each candidate that is due and untouched, something is still to be read on the way
  to it, or it is among the offers, or it has been planned or skipped (`NothingForgotten`).
  Both survive the user because a question asked of an untouched path is answered by
  directories on the way to it, and none of these has changed (`Steady`, `FitKept`,
  `InspectsKept`). `OfferedIs` turns the first into soundness and the second into
  completeness at the end. For `PlannedOnce`, the order tells all candidates apart
  (`CandidatesOrderly`), so that each place is one candidate's (`PlacesFilled`) and
  candidates of one path and time are neighbours (`Between`), all but the first of which are
  dropped (`KeptOnce`, `KeptAll`). Theorems: `PlanTypeCorrect`, `OnceCorrect`,
  `SoundCorrect`, `CompleteCorrect`.
* **Selection** (also in `PlanProofs`). `PercentCaps`, `EffectiveFacts` and `NeedFacts` are the arithmetic
  for every valid configuration and every volume; `Validity` (the configuration is
  valid, free is within the volume) carries them to every reachable state. The lemma `OrderedType` says that a set of candidates in
  order is a sequence of them. `SaferFirst` follows from `InTurn`: every safer candidate
  of the cycle is tried already or earlier in the plan. `BoundedByTarget` needs a witness:
  `Affordable` says that there are running sums, each below the budget, that cover what is
  reported and leave room for what the rest of the plan can add. Theorems: `OrderCorrect`,
  `PressureCanEndCorrect`, `NeedHasBudgetCorrect`, `BudgetCuresCorrect`, `TypeCorrect`,
  `SaferCorrect`, `BoundedCorrect`.
* **ConfigStore.** No property is inductive alone. `Witnessed` says that what is
  active is recorded with every load under way, `NeitherSeen` that a load which found
  no active file and still finds no copy has lived through the moment without
  either, because a copy never goes away; `WritesConfig` that nothing unsynced is
  renamed; `CopyKnown` that only what was active is on its way to the copy, which
  holds because a save renames the active file first; `InitIsSilent` keeps init
  apart. About the texts: what a legacy document allows and protects is followed through
  `migrate_legacy_config` (`AgesCorrect`, with and without pressure, and `ProtectionCorrect`,
  path by path, for every legacy document), and
  the lemma `ReadBack` says that the print of valid settings is accepted and has them
  (`NormalizeCorrect`, for every document of either schema, with a home directory or without).
  With `MeaningAssumption` and the type invariant of the store that is `MeaningIsKept`.
  Theorems: `TypeCorrect`, `NeverTornCorrect`, `AnswerCorrect`, `GoodCorrect`,
  `SavedCorrect`, `AgesCorrect`, `ProtectionCorrect`, `NormalizeCorrect`, `MeaningCorrect`.
* **Monitor.** `TimersCount` says that what is left of a timer and what has passed
  since it was armed make up its length, `DueHolds` that a cycle on its way to a
  cleanup was due and stays so. Theorems: `TypeCorrect`, `FailsClosedCorrect`,
  `SerializedCorrect`, `PacedCorrect`.
* **AuditLog.** `FlockHeld` says that whoever stands between its flock and its unlock
  has it alone, `EndWritten` that the pieces it has written are then the last ones of
  the file, and `UnlockDurable` that past the sync its record lies whole in what is on
  the disk; the lemma `DurableKept` carries that through whatever keeps that part of
  the file, a power loss included; `FileOpened` says that nobody appends to a log that is not
  there, so that a loss of the whole log takes all that was acknowledged, and that all of it
  is counted as lost. For the history, `SinceWritten` says that the records
  acknowledged since the latest fault end the file, three pieces each, with only the append
  under way behind them, whatever is torn before; by induction over the pieces `Split` then
  ends in exactly these lines, and the first of them, which a torn record may have spoilt,
  is the one that a reader of `n` lines does not ask for. Theorems:
  `TypeCorrect`, `DurableCorrect`, `HistoryCorrect`.
* **Heartbeat.** `StatusDated` ties the age of the status to how long the cycle took,
  how long the monitor has slept, how long it has been gone and by how much the wall clock has
  jumped meanwhile; the judgement then is arithmetic. Theorems: `TypeCorrect`, `DeadCorrect`, `AlarmCorrect`.
* **Installer** (also in `ServiceProofs`). The four invariants are inductive only with what the
  machine was like (`BeforeOK`), that the copies stay what it was (`CopiesKept`), and a part
  for each script: `RollsBack` says that what a command of a rollback has restored stays so
  until its end, through signals that begin the rollback again, with `StartupOwn` and
  `StartupBack` for the startup file that may be left empty and `ShimsBack` for the shims,
  `InstallsInOrder` that in an installation without a failure each command before the present
  one has written its files, `ShimsOnce` and `GuardStays` that shims without `guard` are never
  left. `ToolsRun` then is a fact about `PATH`: the first directory that has the tool is found
  behind the shims (`FirstOf`, for a `PATH` of any length). Theorems: `InstallTypeCorrect`,
  `SignalCorrect`, `SuccessCorrect`, `ToolsCorrect`.
* **HostProbe.** The invariant is a conjunction of `Together` (stages of child, readers
  and main thread that can coincide), `Drained` and `Joined` (what a reader has kept is what
  left its pipe, up to the cap, and it ends behind the last writer), `Timely` (a child
  lives no longer than the timeout and asks for the volume while it lives) and `Measured`
  (what an answer was computed from). Theorems: `TypeCorrect`, `DrainedCorrect`,
  `SizesCorrect`, `FreshCorrect`.

`OrderKept`, `PressureCanEnd`, `NeedHasBudget`, `HoldersHold`, `Exclusion` and the type
invariants of the modules above are proved and in no run, but for `InstallTypeOK`, which is
in one as well.

**Only model-checked.** Liveness (`CycleEnds`, `AttemptEnds`, `ReliefComes`,
`PressureAnswered`, `MaintenanceComes`, `LogIsFreed`, `OnlyHeirsKeepIt`), which is
out of the prover's reach, and the violated property.

## Not modelled

* Inside one inspection: the mount table, the entries of `/proc` one by one and the files of
  a tree one by one. An inspection is a step that sees one state, except that in `Cleanup`
  its three parts (context, use, contents) see three. Sizes of candidates in `Planning`, the
  third key of the order: one of another size counts as one of another time.
* The text of TOML, JSON, the PowerShell script and the shims; of a configuration the memory
  and build limits, which are parsed and not used.
* Ownership and modes of the private files and directories, which each call checks again by
  itself, and where the directories are (`XDG_...`).
* Which `powershell.exe` is run and how `WSLENV` is extended: one string each.
* The monitor's singleton lock is a `MaintenanceLock` on another path; `Monitor` and
  `Heartbeat` have one monitor.
* Argument parsing, output, the exit status of `guard exec`, which is its child's.
* Resource limits of the unit, build script, tests, release and CI: no state of the program.
