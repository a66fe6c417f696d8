----------------------------- MODULE Installer -----------------------------
(***************************************************************************)
(* The installation and its rollback (scripts/install-linux.sh with        *)
(* scripts/install-shims.sh), next to the monitor it stops, starts and     *)
(* judges by its status file, and the shims it leaves in the user's PATH   *)
(* (resolve_tool of src/main.rs).  A bash script of simple commands, each  *)
(* of which may fail or be interrupted by a signal, half done perhaps: an  *)
(* ERR trap rolls back, and so does a trap of INT and TERM, which then     *)
(* exits.  rollback turns errexit off in the shell that runs it, so that   *)
(* after an ERR the script goes on with its next command: install-shims.sh *)
(* is one such command, with several of its own.                           *)
(***************************************************************************)
EXTENDS Integers, Sequences, FiniteSetsExt

CONSTANTS
    Nothing,
    SearchPaths,  \* values of PATH: what each directory has of a tool's name
    ManagerPaths, \* directories of nvm and bun, likewise
    MaxTries,     \* attempts of doctor before the installation fails
    MaxFaults     \* bound: failing commands, signals and kills

ASSUME BoundAssumption ==
    /\ Nothing \notin {"old", "new", "empty", "part", "nested", "tool", "shims"}
    /\ MaxTries \in Nat \ {0}
    /\ MaxFaults \in Nat
    /\ SearchPaths \subseteq Seq(STRING)

Binaries == {"old", "new"}

VARIABLES
    \* the monitor
    mon,       \* the binary that runs as the monitor, or Nothing
    report,    \* what it has reported last, Nothing if nothing
    \* the machine
    files,     \* managed files: from before, from this installation, none or less
    backup,    \* their copies under backup_root
    moved,     \* failed-shims: absent, there, or with shims of its own in it
    enabled,   \* guardwsl.service is enabled
    active,    \* and active: systemd runs it
    \* the script
    mode,      \* "backup", "install", "rollback", "exited"
    at,        \* the command it is at, in the script of its mode
    back,      \* where it goes on after a rollback, 0 for exit
    code,      \* its exit status
    tries,     \* of doctor
    before,    \* what it found
    \* history
    judged,    \* by which binary the status was written that doctor approved
    failed,    \* some command of the installation has failed
    spoiled,   \* some command of a rollback has failed
    faults     \* counter for the bound

heart == <<mon, report>>
machine == <<files, backup, moved, enabled, active>>
script == <<mode, at, back, code, tries>>
history == <<judged, failed, spoiled>>
installVars == <<heart, machine, script, before, history, faults>>

\* A startup file may be created and still be empty, a file or the directory of
\* the shims be written in part, and that directory have another one copied into
\* it.  "new" is what this installation wants of a file, written by it or not.
Contents == Binaries \cup {Nothing, "empty", "part", "nested"}

\* The three startup files are one, and so are the files of the shims.
Restorable ==
    {"guard", "unit", "config", "good", "record", "distro", "env", "startup"}
Managed == Restorable \cup {"shims"}

Do(what) == [do |-> what, file |-> Nothing]
Put(file) == [do |-> "put", file |-> file]

\* What is done after the traps are set; install-shims.sh does the commands from
\* "shims" to the environment file.
Script ==
    << Do("build"), Do("stop"), Put("guard"), Put("unit"), Do("config"), Put("distro"),
       Do("shims"), Do("create"), Put("startup"), Put("env"), Do("reload"), Do("enable"),
       Do("restart"), Do("doctor"), Do("version"), Put("record"), Do("untrap") >>

InstallShims == 7 .. 10

\* The command of the main script behind the one at this place.
Behind(place) == IF place \in InstallShims THEN 11 ELSE place + 1

\* rollback, command by command: mv and cp are the two that restore the shims.
RollbackScript ==
    << Do("stop"), Put("guard"), Put("unit"), Put("config"), Put("good"), Put("record"),
       Put("distro"), Put("env"), Put("startup"), Do("mv"), Do("cp"), Do("reload"),
       Do("enable"), Do("start") >>

\* error is its last_error, old that it is older than four intervals, and
\* given that its pid has been given to another process.
MonitorReports == [by : Binaries, error : BOOLEAN, old : BOOLEAN, given : BOOLEAN]

InstallTypeOK ==
    /\ mon \in Binaries \cup {Nothing} /\ report \in MonitorReports \cup {Nothing}
    /\ files \in [Managed -> Contents] /\ backup \in [Managed -> Contents]
    /\ moved \in 0 .. 2 /\ enabled \in BOOLEAN /\ active \in BOOLEAN
    /\ mode \in {"backup", "install", "rollback", "exited"}
    /\ at \in 1 .. Len(Script) /\ back \in 0 .. Len(Script)
    /\ code \in {Nothing, "success", "failure", "signal", "killed"}
    /\ tries \in 0 .. MaxTries
    /\ judged \in Binaries \cup {Nothing, "reused"}
    /\ failed \in BOOLEAN /\ spoiled \in BOOLEAN

\* A machine without guard, where there may be a startup file and a
\* configuration, or one with an installation that is active.
InstallInit ==
    /\ \/ /\ mon = Nothing /\ report = Nothing
          /\ files \in [Managed -> {Nothing, "old"}]
          /\ files["config"] = files["startup"]
          /\ \A f \in Managed \ {"config", "startup"} : files[f] = Nothing
          /\ enabled = FALSE
       \/ /\ mon = "old" /\ report \in {s \in MonitorReports : s.by = "old" /\ ~s.given} \cup {Nothing}
          /\ files = [f \in Managed |-> "old"] /\ enabled = TRUE
    /\ active = enabled
    /\ backup = [f \in Managed |-> Nothing] /\ moved = 0
    /\ mode = "backup" /\ at = 1 /\ back = 0 /\ code = Nothing /\ tries = 0
    /\ before = [files |-> files, enabled |-> enabled, active |-> active]
    /\ judged = Nothing /\ failed = FALSE /\ spoiled = FALSE
    /\ faults = 0

----------------------------------------------------------------------------
(* The service and the monitor, watched until the script ends: Heartbeat   *)
(* has the monitor's clock.                                                *)

Watched ==
    /\ mode # "exited"
    /\ UNCHANGED <<machine, script, before, history, faults>>

\* systemd runs the binary that is installed, as often as it fails.
Serve ==
    /\ Watched /\ active /\ mon = Nothing
    /\ files["guard"] \in Binaries /\ mon' = files["guard"]
    /\ UNCHANGED report

MonitorDies == Watched /\ mon # Nothing /\ mon' = Nothing /\ UNCHANGED report

Reports ==
    /\ Watched /\ mon # Nothing
    /\ \E error \in BOOLEAN :
         report' = [by |-> mon, error |-> error, old |-> FALSE, given |-> FALSE]
    /\ UNCHANGED mon

\* Four intervals pass, or another process gets the pid of a dead monitor.
StatusAges ==
    /\ Watched /\ report # Nothing
    /\ \/ report' = [report EXCEPT !.old = TRUE]
       \/ report.by # mon /\ report' = [report EXCEPT !.given = TRUE]
    /\ UNCHANGED mon

\* MonitorStatus::healthy
Approves ==
    /\ report # Nothing /\ ~report.error /\ ~report.old
    /\ report.by = mon \/ report.given

\* systemctl stop waits for the end of the process.
Stopped == mon' = Nothing /\ UNCHANGED report

----------------------------------------------------------------------------
(* The commands: what they need and what they do to the machine.           *)

Content(file) ==
    IF file \in {"config", "good"} THEN files["guard"] ELSE "new"

Set(changed) ==
    files' = [f \in Managed |-> IF f \in changed THEN Content(f) ELSE files[f]]

Quiet == UNCHANGED <<mon, report>>

\* config and shims run the binary, systemctl needs the unit, and the binary
\* must tell the commit of this checkout.
Possible(step) ==
    CASE step.do \in {"config", "shims", "doctor"} -> files["guard"] \in Binaries
      [] step.do \in {"enable", "restart"} -> files["unit"] # Nothing
      [] step.do = "version" -> files["guard"] = "new"
      [] OTHER -> TRUE

\* Mutant of Effect: the service is started, not restarted, and never stopped.
EffectStarts(step) ==
    CASE step.do = "put" ->
           Set({step.file}) /\ Quiet /\ UNCHANGED <<backup, moved, enabled, active>>
      [] step.do = "config" ->
           Set({"config", "good"}) /\ Quiet /\ UNCHANGED <<backup, moved, enabled, active>>
      [] step.do = "shims" ->
           Set({"shims"}) /\ Quiet /\ UNCHANGED <<backup, moved, enabled, active>>
      [] step.do = "create" /\ files["startup"] = Nothing ->
           /\ files' = [files EXCEPT !["startup"] = "empty"]
           /\ Quiet /\ UNCHANGED <<backup, moved, enabled, active>>
      [] step.do = "restart" ->
           active' = TRUE /\ Quiet /\ UNCHANGED <<files, backup, moved, enabled>>
      [] step.do = "enable" ->
           enabled' = TRUE /\ Quiet /\ UNCHANGED <<files, backup, moved, active>>
      [] OTHER -> Quiet /\ UNCHANGED machine

\* normalize and init write the copy as well as the configuration.
Effect(step) ==
    CASE step.do = "put" ->
           Set({step.file}) /\ Quiet /\ UNCHANGED <<backup, moved, enabled, active>>
      [] step.do = "config" ->
           Set({"config", "good"}) /\ Quiet /\ UNCHANGED <<backup, moved, enabled, active>>
      [] step.do = "shims" ->
           Set({"shims"}) /\ Quiet /\ UNCHANGED <<backup, moved, enabled, active>>
      [] step.do = "create" /\ files["startup"] = Nothing ->
           /\ files' = [files EXCEPT !["startup"] = "empty"]
           /\ Quiet /\ UNCHANGED <<backup, moved, enabled, active>>
      [] step.do = "stop" /\ before.active ->
           active' = FALSE /\ Stopped /\ UNCHANGED <<files, backup, moved, enabled>>
      [] step.do = "restart" ->
           active' = TRUE /\ Stopped /\ UNCHANGED <<files, backup, moved, enabled>>
      [] step.do = "enable" ->
           enabled' = TRUE /\ Quiet /\ UNCHANGED <<files, backup, moved, active>>
      [] OTHER -> Quiet /\ UNCHANGED machine

\* A command stopped in its middle: install has removed the old file or written a
\* part of the new one, guard has saved one of its two files, or some shims are
\* there.  The other files are renamed into place.
Half(step) ==
    /\ \/ /\ step \in {Put("guard"), Put("unit")}
          /\ \E left \in {Nothing, "part"} : files' = [files EXCEPT ![step.file] = left]
       \/ step.do = "config" /\ \E file \in {"config", "good"} : Set({file})
       \/ step.do = "shims" /\ files' = [files EXCEPT !["shims"] = "part"]
    /\ Quiet /\ UNCHANGED <<backup, moved, enabled, active>>

\* What a command that fails or is interrupted has done by then.
Partly(step) ==
    \/ Possible(step) /\ (Effect(step) \/ Half(step))
    \/ Quiet /\ UNCHANGED machine

\* What rollback makes of a file: its copy, or none; a startup file of which there
\* is no copy is only removed if it has the marker of the shims.
RestoredFile(file) ==
    IF file = "startup" /\ backup[file] = Nothing /\ files[file] # "new" THEN files[file]
    ELSE backup[file]

\* An mv to failed-shims puts the directory into one that is there already, and
\* fails if that has one of the name; cp then copies into what was not moved.
RestoredShims ==
    IF backup["shims"] = Nothing THEN files["shims"]
    ELSE IF files["shims"] = Nothing THEN backup["shims"] ELSE "nested"

RollbackEffect(step) ==
    CASE step.do = "put" ->
           /\ files' = [files EXCEPT ![step.file] = RestoredFile(step.file)]
           /\ Quiet /\ UNCHANGED <<backup, moved, enabled, active>>
      [] step.do = "stop" ->
           active' = FALSE /\ Stopped /\ UNCHANGED <<files, backup, moved, enabled>>
      [] step.do = "mv" /\ files["shims"] # Nothing /\ moved < 2 ->
           /\ files' = [files EXCEPT !["shims"] = Nothing] /\ moved' = moved + 1
           /\ Quiet /\ UNCHANGED <<backup, enabled, active>>
      [] step.do = "cp" ->
           /\ files' = [files EXCEPT !["shims"] = RestoredShims]
           /\ Quiet /\ UNCHANGED <<backup, moved, enabled, active>>
      [] step.do = "enable" ->
           /\ enabled' = (before.enabled /\ files["unit"] # Nothing)
           /\ Quiet /\ UNCHANGED <<files, backup, moved, active>>
      [] step.do = "start" /\ before.active ->
           active' = (files["unit"] # Nothing) /\ Quiet /\ UNCHANGED <<files, backup, moved, enabled>>
      [] OTHER -> Quiet /\ UNCHANGED machine

\* A copy stopped in its middle.
RollbackHalf(step) ==
    /\ \/ /\ step.do = "put" /\ backup[step.file] # Nothing
          /\ \E left \in {Nothing, "part"} : files' = [files EXCEPT ![step.file] = left]
       \/ /\ step.do = "cp" /\ backup["shims"] # Nothing
          /\ files' = [files EXCEPT !["shims"] =
                                     IF files["shims"] = Nothing THEN "part" ELSE "nested"]
    /\ Quiet /\ UNCHANGED <<backup, moved, enabled, active>>

RollbackPartly(step) ==
    RollbackEffect(step) \/ RollbackHalf(step) \/ (Quiet /\ UNCHANGED machine)

----------------------------------------------------------------------------
(* The script.                                                             *)

Fault == faults < MaxFaults /\ faults' = faults + 1

Exit(outcome) == mode' = "exited" /\ code' = outcome /\ UNCHANGED <<at, back>>

Goto(place) == at' = place /\ UNCHANGED <<mode, back, code>>

\* cp -a of every managed file that exists.
Backup ==
    /\ mode = "backup"
    /\ backup' = files /\ mode' = "install"
    /\ UNCHANGED <<heart, files, moved, enabled, active, at, back, code, tries,
                   before, history, faults>>

\* Before the traps are set set -e or the signal ends the script.
BackupEnds ==
    /\ mode = "backup"
    /\ Fault
    /\ \/ failed' = TRUE /\ Exit("failure")
       \/ Exit("signal") /\ UNCHANGED failed
    /\ UNCHANGED <<heart, machine, tries, before, judged, spoiled>>

\* A command succeeds.
Step ==
    /\ mode = "install" /\ Script[at].do \notin {"doctor", "untrap"}
    /\ Possible(Script[at]) /\ Effect(Script[at])
    /\ Goto(at + 1)
    /\ UNCHANGED <<tries, before, history, faults>>

\* Mutant of Doctor: the attempts are not limited.
DoctorUnlimited ==
    /\ mode = "install" /\ Script[at].do = "doctor"
    /\ \/ /\ Possible(Script[at]) /\ Approves
          /\ judged' = IF report.given THEN "reused" ELSE report.by
          /\ Goto(at + 1) /\ tries' = 0
       \/ tries' = tries + 1 /\ UNCHANGED <<mode, at, back, code, judged>>
    /\ UNCHANGED <<heart, machine, before, failed, spoiled, faults>>

\* doctor --json, up to MaxTries times: the configuration, the host and the
\* audit log may be well or not.
Doctor ==
    /\ mode = "install" /\ Script[at].do = "doctor" /\ tries < MaxTries
    /\ \/ /\ Possible(Script[at]) /\ Approves
          /\ judged' = IF report.given THEN "reused" ELSE report.by
          /\ Goto(at + 1) /\ tries' = 0
       \/ tries' = tries + 1 /\ UNCHANGED <<mode, at, back, code, judged>>
    /\ UNCHANGED <<heart, machine, before, failed, spoiled, faults>>

\* The traps are removed and success is reported.
Untrap ==
    /\ mode = "install" /\ Script[at].do = "untrap"
    /\ Exit("success")
    /\ UNCHANGED <<heart, machine, tries, before, history, faults>>

\* Mutant of Roll: the trap of INT and TERM only exits.
RollSignalExits(place) ==
    IF place = 0 THEN Exit("signal")
    ELSE mode' = "rollback" /\ at' = 1 /\ back' = place /\ UNCHANGED code

Roll(place) == mode' = "rollback" /\ at' = 1 /\ back' = place /\ UNCHANGED code

\* A command fails, with a part of its effect or none: the script is rolled
\* back and goes on behind the command.
Fail ==
    /\ mode = "install" /\ Script[at].do # "untrap"
    /\ \/ Fault /\ Partly(Script[at])
       \/ /\ ~Possible(Script[at]) \/ (Script[at].do = "doctor" /\ tries = MaxTries)
          /\ UNCHANGED <<faults, heart, machine>>
    /\ failed' = TRUE /\ tries' = 0
    /\ Roll(Behind(at))
    /\ UNCHANGED <<before, judged, spoiled>>

\* INT or TERM, to the script and the command it runs.
Signal ==
    /\ mode = "install" /\ Fault
    /\ Partly(Script[at])
    /\ Roll(0)
    /\ UNCHANGED <<tries, before, history>>

\* The trap runs again, within the rollback, and then exits.
SignalAgain ==
    /\ mode = "rollback" /\ Fault
    /\ RollbackPartly(RollbackScript[at])
    /\ Roll(0)
    /\ UNCHANGED <<tries, before, history>>

\* A command of the rollback, which goes on if it fails.
Rollback ==
    /\ mode = "rollback"
    /\ \/ RollbackEffect(RollbackScript[at]) /\ UNCHANGED <<faults, spoiled>>
       \/ Fault /\ spoiled' = TRUE /\ RollbackPartly(RollbackScript[at])
    /\ IF at < Len(RollbackScript) THEN Goto(at + 1)
       ELSE IF back = 0 THEN Exit("signal")
       ELSE mode' = "install" /\ at' = back /\ UNCHANGED <<back, code>>
    /\ UNCHANGED <<tries, before, judged, failed>>

\* HUP, KILL or a loss of power: no trap.
Kill ==
    /\ mode # "exited" /\ Fault
    /\ Exit("killed")
    /\ UNCHANGED <<heart, machine, tries, before, history>>

Install == Backup \/ Step \/ Doctor \/ Untrap \/ Fail \/ Rollback

InstallNext ==
    \/ Install \/ BackupEnds \/ Signal \/ SignalAgain \/ Kill
    \/ Serve \/ MonitorDies \/ Reports \/ StatusAges

InstallSpec == InstallInit /\ [][InstallNext]_installVars

----------------------------------------------------------------------------
(* A tool of that name, called by the user.                                *)

\* The first of these in path, Nothing if it has none of them.
FirstOf(path, wanted) ==
    LET hits == {i \in DOMAIN path : path[i] \in wanted}
    IN  IF hits = {} THEN Nothing ELSE path[Min(hits)]

\* Mutant of ResolveTool: the directory of the shims is not passed over.
ResolveFirst(path, managers) ==
    LET found == FirstOf(path, {"tool", "shims"})
    IN  IF found # Nothing THEN found ELSE FirstOf(managers, {"tool"})

\* The first executable of PATH that is not guard, outside of directories
\* called guardwsl/shims, else the first one of nvm and bun.
ResolveTool(path, managers) ==
    LET found == FirstOf(path, {"tool"})
    IN  IF found # Nothing THEN found ELSE FirstOf(managers, {"tool"})

\* The shell runs the first one of PATH; a shim runs guard, which runs what it
\* resolves.
RunTool(path, managers) ==
    LET shims == IF files["shims"] = Nothing THEN {} ELSE {"shims"}
        found == FirstOf(path, {"tool", "guard"} \cup shims)
    IN  IF found # "shims" THEN found
        ELSE IF files["guard"] \notin Binaries THEN Nothing
        ELSE ResolveTool(path, managers)

----------------------------------------------------------------------------
(* Properties.                                                             *)

Restored ==
    /\ files = before.files /\ enabled = before.enabled /\ active = before.active

Installed ==
    /\ \A f \in Managed : files[f] = "new"
    /\ enabled /\ active

\* A signal at any command, and others during the rollback, leave the machine as
\* it was before (trap of INT and TERM): every file, the shims and the service, but
\* for an empty startup file where there was none, if install-shims.sh was stopped
\* before it had written its block, and for shims with a copy of the old ones in
\* them, if two rollbacks before had moved shims away and the third could not.
SignalRestores ==
    mode = "exited" /\ code = "signal" /\ ~spoiled =>
      /\ enabled = before.enabled /\ active = before.active
      /\ \A f \in Managed :
           \/ files[f] = before.files[f]
           \/ f = "startup" /\ before.files[f] = Nothing /\ files[f] = "empty"
           \/ f = "shims" /\ before.files[f] # Nothing /\ files[f] = "nested" /\ moved = 2

\* Without a failing command, "installed and active" is true and rests on a
\* status that the new binary has written or, if the pid was given away, on one
\* whose writer nobody knows: never on a monitor from before.
SuccessIsComplete ==
    mode = "exited" /\ code = "success" /\ ~failed =>
      Installed /\ judged \in {"new", "reused"}

\* However the script ends, failures included, unless it was killed or a
\* command of a rollback failed: a tool in the user's PATH is run when it is
\* called, behind the shims as well, wherever they stand in PATH.
ToolsRun ==
    mode = "exited" /\ code # "killed" /\ ~spoiled =>
      \A path \in SearchPaths, managers \in ManagerPaths :
        FirstOf(path, {"tool", "guard"}) = "tool" => RunTool(path, managers) = "tool"

============================================================================
