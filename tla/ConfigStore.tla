---------------------------- MODULE ConfigStore ----------------------------
(***************************************************************************)
(* The configuration file and its last-known-good copy (src/config.rs      *)
(* ConfigStore, src/fsutil.rs atomic_write_private, src/main.rs config and *)
(* monitor): loads with and without refresh of the copy, init and          *)
(* normalize, each call on the file system a step of its own, so that      *)
(* processes, the user's editor, failing writes, killed processes and a    *)
(* loss of power interleave.  There is no lock around any of it.           *)
(***************************************************************************)
EXTENDS Integers

CONSTANTS
    Procs,     \* guard processes
    Configs,   \* configurations that pass GuardConfig::validate
    Default,   \* the one of GuardConfig::default
    Texts,     \* what a file may hold
    Parse,     \* the configuration a text means, None if it is refused
    ToToml,    \* the text to_toml gives a configuration
    None,
    MaxEdits,  \* bound: edits of the active file by the user
    MaxOps,    \* bound: operations begun
    MaxFaults  \* bound: failing writes, killed processes, losses of power

ASSUME NoneAssumption == None \notin Configs \cup Texts
ASSUME TextAssumption ==
    /\ Default \in Configs
    /\ Parse \in [Texts -> Configs \cup {None}]
    /\ ToToml \in [Configs -> Texts]
    /\ \A c \in Configs : Parse[ToToml[c]] = c
ASSUME BoundAssumption == MaxEdits \in Nat /\ MaxOps \in Nat /\ MaxFaults \in Nat

VARIABLES
    file,      \* config.toml and config.last-good.toml; None is no file
    disk,      \* what each may hold after a loss of power
    pc, op,
    config,    \* the configuration a process has loaded or saves
    degraded,  \* LoadedConfig.degraded
    target,    \* the file a process writes
    synced,    \* its temporary file is on the disk
    answers,   \* history: what was active at some moment of its load
    known,     \* history: what was ever active
    left,      \* history: what the user has left at the active file
    edits, ops, faults  \* counters for the bounds

vars == <<file, disk, pc, op, config, degraded, target, synced, answers, known,
          left, edits, ops, faults>>
history == <<answers, known, left>>
bounds == <<edits, ops, faults>>

Files == {"user", "good"}
Operations == {"load", "read", "init", "normalize"}
Writing == {"temp", "sync", "rename", "dir"}
Stages == {"idle", "user-exists", "good-exists", "read-user", "fall-back",
           "init", "loaded"} \cup Writing

TypeOK ==
    /\ file \in [Files -> Texts \cup {None}]
    /\ disk \in [Files -> SUBSET (Texts \cup {None})]
    /\ pc \in [Procs -> Stages] /\ op \in [Procs -> Operations]
    /\ config \in [Procs -> Configs \cup {None}]
    /\ degraded \in [Procs -> BOOLEAN]
    /\ target \in [Procs -> Files] /\ synced \in [Procs -> BOOLEAN]
    /\ answers \in [Procs -> SUBSET Configs] /\ known \subseteq Configs
    /\ left \subseteq Texts \cup {None}
    /\ edits \in Nat /\ ops \in Nat /\ faults \in Nat

\* The configuration a file means, None if it is missing or refused.
Meaning(text) == IF text = None THEN None ELSE Parse[text]

\* What an undisturbed load takes for active without being degraded.
Active(f) ==
    IF f["user"] # None THEN {Meaning(f["user"])} \ {None}
    ELSE IF f["good"] = None THEN {Default} ELSE {}

\* The copy is missing or holds what an earlier save has printed.
Init ==
    /\ file \in [Files -> Texts \cup {None}]
    /\ file["good"] \in {ToToml[c] : c \in Configs} \cup {None}
    /\ disk = [f \in Files |-> {file[f]}]
    /\ pc = [r \in Procs |-> "idle"] /\ op = [r \in Procs |-> "read"]
    /\ config = [r \in Procs |-> None]
    /\ degraded = [r \in Procs |-> FALSE]
    /\ target = [r \in Procs |-> "user"] /\ synced = [r \in Procs |-> FALSE]
    /\ answers = [r \in Procs |-> {}]
    /\ known = (Active(file) \cup {Meaning(file["good"])}) \ {None}
    /\ left = {file["user"]}
    /\ edits = 0 /\ ops = 0 /\ faults = 0

Goto(r, stage) == pc' = [pc EXCEPT ![r] = stage]

\* A file changes: the loads under way have seen what is active now.
Witness ==
    /\ answers' = [r \in Procs |-> answers[r] \cup Active(file')]
    /\ known' = known \cup Active(file')

Load(r, c, fallback) ==
    /\ config' = [config EXCEPT ![r] = c]
    /\ degraded' = [degraded EXCEPT ![r] = fallback]

\* Mutant of SavedFirst: save writes the copy before the active file.
CopyFirst == "good"

\* ConfigStore::save writes the active file and then the copy.
SavedFirst == "user"

Save(r, first) ==
    /\ Goto(r, "temp")
    /\ target' = [target EXCEPT ![r] = first]

----------------------------------------------------------------------------
(* Loads.                                                                  *)

\* ConfigStore::load (the monitor at its start), load_read_only (every other
\* command), init_if_missing, or load_read_only and save (normalize).
Begin(r, operation) ==
    /\ ops < MaxOps
    /\ ops' = ops + 1
    /\ pc[r] = "idle"
    /\ op' = [op EXCEPT ![r] = operation]
    /\ Goto(r, IF operation = "init" THEN "init" ELSE "user-exists")
    /\ answers' = [answers EXCEPT ![r] = Active(file)]
    /\ UNCHANGED <<file, disk, config, degraded, target, synced, known, left,
                   edits, faults>>

UserExists(r) ==
    /\ pc[r] = "user-exists"
    /\ Goto(r, IF file["user"] = None THEN "good-exists" ELSE "read-user")
    /\ UNCHANGED <<file, disk, op, config, degraded, target, synced, history, bounds>>

\* What follows a load that is not degraded: normalize saves it.
Proceed(r) ==
    IF op[r] = "normalize" THEN Save(r, SavedFirst)
    ELSE Goto(r, "loaded") /\ UNCHANGED target

\* Mutant of GoodExists: without an active file the default is good enough.
GoodIgnored(r) ==
    /\ pc[r] = "good-exists"
    /\ Load(r, Default, FALSE) /\ Proceed(r)
    /\ UNCHANGED <<file, disk, op, synced, history, bounds>>

\* Neither file: the default, which no load writes to the copy.
GoodExists(r) ==
    /\ pc[r] = "good-exists"
    /\ IF file["good"] # None
       THEN Goto(r, "fall-back") /\ UNCHANGED <<config, degraded, target>>
       ELSE Load(r, Default, FALSE) /\ Proceed(r)
    /\ UNCHANGED <<file, disk, op, synced, history, bounds>>

\* read_config of the active file, which may be invalid or gone by now.  The
\* monitor's first load refreshes the copy.
ReadUser(r) ==
    /\ pc[r] = "read-user"
    /\ IF Meaning(file["user"]) = None
       THEN Goto(r, "fall-back") /\ UNCHANGED <<config, degraded, target>>
       ELSE /\ Load(r, Meaning(file["user"]), FALSE)
            /\ IF op[r] = "load" THEN Save(r, "good") ELSE Proceed(r)
    /\ UNCHANGED <<file, disk, op, synced, history, bounds>>

\* Mutant of FallBack: degraded mode does not block normalize.
FallBackSaves(r) ==
    /\ pc[r] = "fall-back"
    /\ IF Meaning(file["good"]) = None
       THEN Goto(r, "idle") /\ UNCHANGED <<config, degraded, target>>
       ELSE Load(r, Meaning(file["good"]), TRUE) /\ Proceed(r)
    /\ UNCHANGED <<file, disk, op, synced, history, bounds>>

\* read_config of the copy: an error, or a degraded load, with which
\* normalize, the monitor and a real cleanup end.
FallBack(r) ==
    /\ pc[r] = "fall-back"
    /\ UNCHANGED target
    /\ IF Meaning(file["good"]) = None
       THEN Goto(r, "idle") /\ UNCHANGED <<config, degraded>>
       ELSE Load(r, Meaning(file["good"]), TRUE) /\ Goto(r, "loaded")
    /\ UNCHANGED <<file, disk, op, synced, history, bounds>>

\* init_if_missing
InitIfMissing(r) ==
    /\ pc[r] = "init"
    /\ IF file["user"] # None
       THEN Goto(r, "idle") /\ UNCHANGED <<config, degraded, target>>
       ELSE Load(r, Default, FALSE) /\ Save(r, SavedFirst)
    /\ UNCHANGED <<file, disk, op, synced, history, bounds>>

\* The command uses what it has loaded and is done.
Use(r) ==
    /\ pc[r] = "loaded"
    /\ Goto(r, "idle")
    /\ UNCHANGED <<file, disk, op, config, degraded, target, synced, history, bounds>>

----------------------------------------------------------------------------
(* atomic_write_private.                                                   *)

WriteTemp(r) ==
    /\ pc[r] = "temp"
    /\ synced' = [synced EXCEPT ![r] = FALSE]
    /\ Goto(r, "sync")
    /\ UNCHANGED <<file, disk, op, config, degraded, target, history, bounds>>

\* Mutant of SyncTemp: the data are not forced to the disk.
SyncSkipped(r) ==
    /\ pc[r] = "sync"
    /\ Goto(r, "rename")
    /\ UNCHANGED <<file, disk, op, config, degraded, target, synced, history, bounds>>

SyncTemp(r) ==
    /\ pc[r] = "sync"
    /\ synced' = [synced EXCEPT ![r] = TRUE]
    /\ Goto(r, "rename")
    /\ UNCHANGED <<file, disk, op, config, degraded, target, history, bounds>>

\* The name changes at once for every reader.  On the disk it may still be the
\* old file; one whose data were not synced may turn out to hold anything.
Rename(r) ==
    /\ pc[r] = "rename"
    /\ file' = [file EXCEPT ![target[r]] = ToToml[config[r]]]
    /\ disk' = [disk EXCEPT ![target[r]] =
                  @ \cup IF synced[r] THEN {ToToml[config[r]]} ELSE Texts]
    /\ Witness
    /\ Goto(r, "dir")
    /\ UNCHANGED <<op, config, degraded, target, synced, left, bounds>>

\* The directory of both files is forced to the disk.  A save goes on with the
\* copy, a refreshing load has its result.
SyncDir(r) ==
    /\ pc[r] = "dir"
    /\ disk' = [f \in Files |-> {file[f]}]
    /\ IF op[r] # "load" /\ target[r] = SavedFirst
       THEN Save(r, CHOOSE f \in Files : f # SavedFirst)
       ELSE /\ Goto(r, IF op[r] = "load" THEN "loaded" ELSE "idle")
            /\ UNCHANGED target
    /\ UNCHANGED <<file, op, config, degraded, synced, history, bounds>>

Fault == faults < MaxFaults /\ faults' = faults + 1

\* A call of atomic_write_private fails, or the process is killed; a temporary
\* file that is left has a name nobody reads.
Stop(r) ==
    /\ Fault
    /\ pc[r] # "idle"
    /\ Goto(r, "idle")
    /\ UNCHANGED <<file, disk, op, config, degraded, target, synced, history,
                   edits, ops>>

PowerLoss ==
    /\ Fault
    /\ file' \in {f \in [Files -> Texts \cup {None}] : \A n \in Files : f[n] \in disk[n]}
    /\ disk' = [f \in Files |-> {file'[f]}]
    /\ pc' = [r \in Procs |-> "idle"]
    /\ Witness
    /\ UNCHANGED <<op, config, degraded, target, synced, left, edits, ops>>

\* The user writes, breaks, removes or restores the active file.
Edit(text) ==
    /\ edits < MaxEdits
    /\ edits' = edits + 1
    /\ text # file["user"]
    /\ file' = [file EXCEPT !["user"] = text]
    /\ disk' = [disk EXCEPT !["user"] = {text}]
    /\ left' = left \cup {text}
    /\ Witness
    /\ UNCHANGED <<pc, op, config, degraded, target, synced, ops, faults>>

Next ==
    \/ \E r \in Procs :
         \/ \E operation \in Operations : Begin(r, operation)
         \/ UserExists(r) \/ GoodExists(r) \/ ReadUser(r) \/ FallBack(r)
         \/ InitIfMissing(r) \/ Use(r)
         \/ WriteTemp(r) \/ SyncTemp(r) \/ Rename(r) \/ SyncDir(r)
         \/ Stop(r)
    \/ PowerLoss
    \/ \E text \in Texts \cup {None} : Edit(text)

Spec == Init /\ [][Next]_vars

----------------------------------------------------------------------------

\* A configuration that a load reports as not degraded was active at some
\* moment of that load: no mixture of the two files, and the default only if
\* there was neither.
AnswerIsTrue ==
    \A r \in Procs :
      pc[r] = "loaded" /\ ~degraded[r] => config[r] \in answers[r]

\* The copy never holds a configuration that was not active before, whatever
\* is killed or lost between the two writes of a save, and can always be read.
GoodWasActive == file["good"] # None => Meaning(file["good"]) \in known

\* No save, refresh, failure, killed process or loss of power leaves a torn
\* file: what a file holds, now or after a loss of power, is what to_toml gave
\* or, for the active file, what the user left there.
NeverTorn ==
    \A f \in Files : {file[f]} \cup disk[f] \subseteq
      {ToToml[c] : c \in Configs} \cup IF f = "user" THEN left ELSE {None}

\* A degraded load mutates nothing: what normalize writes to the active file
\* was active when it was loaded.
OnlyActiveIsSaved ==
    \A r \in Procs :
      op[r] = "normalize" /\ pc[r] \in Writing => config[r] \in answers[r]
============================================================================
