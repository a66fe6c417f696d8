------------------------------ MODULE Cleanup ------------------------------
(***************************************************************************)
(* The cleanup executor of GuardWSL (src/cleanup.rs): planning, the second *)
(* inspection of every planned candidate, the audited intent, the          *)
(* no-replace rename into a quarantine name, the identity check and the    *)
(* purge, with the outcome appended to the audit log and the cycle report  *)
(* saved at the end.  Every system call that reads or changes the file     *)
(* system is a step of its own, so the user's programs and other guard     *)
(* processes interleave with it wherever they can in the real program.     *)
(*                                                                         *)
(* Data is abstracted to what the properties tell apart.  A directory is   *)
(* its identity (device, inode); its contents are a modification stamp,    *)
(* the verdict profile_tree and the age check reach about them, and the    *)
(* processes that refer to it.  Everything inspect_candidate decides about *)
(* a path before it looks for users (type, owner, mode, canonical form,    *)
(* protected paths, manifests, Git) is membership in "eligible".           *)
(***************************************************************************)
EXTENDS Integers, Sequences, FiniteSets

CONSTANTS
    Paths,       \* candidate paths
    Inodes,      \* directory identities (device, inode)
    Procs,       \* guard processes; a process is its pid
    None,        \* no directory
    MaxActions,  \* cleanup.max_actions_per_cycle
    MaxSeq,      \* quarantine names tried per removal (100 in the source)
    MaxPlan,     \* bound: candidates in a plan
    MaxCycles,   \* bound: cycles started
    MaxWorld,    \* bound: steps taken by the user's programs
    MaxFaults,   \* bound: failing system calls
    MaxCrashes   \* bound: guard processes killed

ASSUME NoneAssumption == None \notin Inodes
ASSUME LimitAssumption ==
    /\ MaxActions \in Nat \ {0}
    /\ MaxSeq \in Nat \ {0}
    /\ MaxPlan \in Nat
    /\ MaxCycles \in Nat
    /\ MaxWorld \in Nat
    /\ MaxFaults \in Nat
    /\ MaxCrashes \in Nat

VARIABLES
    at,        \* the directory each candidate path names
    trash,     \* the directory each quarantine name names
    tree,      \* what is left of each directory
    stamp,     \* newest modification time below each directory
    verdict,   \* what profile_tree and the age check say of each directory
    refs,      \* how running processes refer to each directory
    eligible,  \* paths whose type, owner, context and Git state pass
    pc, mode, cycle, plan, idx, seq, report,  \* one cycle of each process
    audit,     \* records each process appended to the audit log
    last,      \* cleanup-last.json
    purged,    \* history: removals that completed
    cycles, world, faults, crashes            \* counters for the bounds

disk == <<at, trash, tree, stamp>>
outside == <<verdict, refs, eligible>>
local == <<mode, cycle, plan>>
durable == <<audit, last, purged>>
counters == <<cycles, world, faults, crashes>>
vars == <<disk, outside, pc, local, idx, seq, report, durable, counters>>

Names == Paths \X Procs \X (0 .. MaxSeq - 1)
Candidates == [path : Paths, ino : Inodes, stamp : Nat]
Outcomes == {"planned", "success", "failed", "skipped"}
Records == [cycle : Nat, path : Paths, outcome : Outcomes]
Actions == [path : Paths,
            outcome : {"would_remove", "removed", "failed", "skipped"}]
Reports == [cycle : Nat, actions : Seq(Actions)]
Removals == [cycle : Nat, path : Paths, ino : Inodes]
Stages == {"idle", "plan", "next", "use", "profile", "intent", "check",
           "rename", "verify", "purge", "success", "failed", "skip", "save"}

DiskOK ==
    /\ at \in [Paths -> Inodes \cup {None}]
    /\ trash \in [Names -> Inodes \cup {None}]
    /\ tree \in [Inodes -> {"free", "whole", "partial", "gone"}]
    /\ stamp \in [Inodes -> Nat]

OutsideOK ==
    /\ verdict \in [Inodes -> {"aged", "young", "unsound"}]
    /\ refs \in [Inodes -> SUBSET {"link", "map"}]
    /\ eligible \in SUBSET Paths

CycleOK ==
    /\ pc \in [Procs -> Stages]
    /\ mode \in [Procs -> {"dry_run", "execute"}]
    /\ cycle \in [Procs -> Nat]
    /\ plan \in [Procs -> Seq(Candidates)]
    /\ idx \in [Procs -> Nat \ {0}]
    /\ seq \in [Procs -> 0 .. MaxSeq]
    /\ report \in [Procs -> Seq(Actions)]

DurableOK ==
    /\ audit \in [Procs -> Seq(Records)]
    /\ last \in Reports
    /\ purged \in SUBSET Removals

CountersOK == cycles \in Nat /\ world \in Nat /\ faults \in Nat /\ crashes \in Nat

TypeOK == DiskOK /\ OutsideOK /\ CycleOK /\ DurableOK /\ CountersOK

Init ==
    /\ at \in [Paths -> Inodes \cup {None}]
    /\ \A p, q \in Paths : at[p] = at[q] /\ at[p] # None => p = q
    /\ trash = [n \in Names |-> None]
    /\ tree = [i \in Inodes |->
                 IF \E p \in Paths : at[p] = i THEN "whole" ELSE "free"]
    /\ stamp = [i \in Inodes |-> 0]
    /\ verdict = [i \in Inodes |-> "aged"]
    /\ refs = [i \in Inodes |-> {}]
    /\ eligible = Paths
    /\ pc = [r \in Procs |-> "idle"]
    /\ mode = [r \in Procs |-> "execute"]
    /\ cycle = [r \in Procs |-> 0]
    /\ plan = [r \in Procs |-> <<>>]
    /\ idx = [r \in Procs |-> 1]
    /\ seq = [r \in Procs |-> 0]
    /\ report = [r \in Procs |-> <<>>]
    /\ audit = [r \in Procs |-> <<>>]
    /\ last = [cycle |-> 0, actions |-> <<>>]
    /\ purged = {}
    /\ cycles = 0
    /\ world = 0
    /\ faults = 0
    /\ crashes = 0

----------------------------------------------------------------------------
(* Helpers of the executor.                                                *)

Goto(r, stage) == pc' = [pc EXCEPT ![r] = stage]

\* The candidate the loop of execute_cleanup is at.
Planned(r) == plan[r][idx[r]]

\* plan.candidates.iter().take(max_actions_per_cycle)
InPlan(r) == idx[r] <= Len(plan[r]) /\ idx[r] <= MaxActions

\* parent/.guardwsl-trash-{pid}-{sequence}-{name}
QuarantineName(r) == <<Planned(r).path, r, seq[r]>>

\* path_is_in_use: cwd, root, exe and descriptor links and command-line
\* arguments are read; /proc/<pid>/maps is not.
PathIsInUse(p) == at[p] # None /\ "link" \in refs[at[p]]

\* inspect_candidate as one step, as planning uses it.
Inspects(p) ==
    /\ p \in eligible
    /\ at[p] # None
    /\ ~PathIsInUse(p)
    /\ verdict[at[p]] = "aged"

CandidateAt(p) == [path |-> p, ino |-> at[p], stamp |-> stamp[at[p]]]

Record(r, o) == [cycle |-> cycle[r], path |-> Planned(r).path, outcome |-> o]
AppendAudit(r, o) == audit' = [audit EXCEPT ![r] = Append(@, Record(r, o))]
PushAction(r, o) ==
    report' = [report EXCEPT ![r] =
                 Append(@, [path |-> Planned(r).path, outcome |-> o])]
NextCandidate(r) == idx' = [idx EXCEPT ![r] = @ + 1] /\ Goto(r, "next")

\* The process leaves the cycle: the plan and the report it held are lost.
EndCycle(r) ==
    /\ Goto(r, "idle")
    /\ plan' = [plan EXCEPT ![r] = <<>>]
    /\ report' = [report EXCEPT ![r] = <<>>]
    /\ idx' = [idx EXCEPT ![r] = 1]
    /\ seq' = [seq EXCEPT ![r] = 0]
    /\ UNCHANGED <<mode, cycle>>
----------------------------------------------------------------------------
(* Planning.                                                               *)

\* A monitor or a manual clean starts run_cleanup.
StartCycle(r, m) ==
    /\ pc[r] = "idle"
    /\ cycles < MaxCycles
    /\ cycles' = cycles + 1
    /\ cycle' = [cycle EXCEPT ![r] = cycles + 1]
    /\ mode' = [mode EXCEPT ![r] = m]
    /\ Goto(r, "plan")
    /\ UNCHANGED <<disk, outside, plan, idx, seq, report, durable,
                   world, faults, crashes>>

\* push_candidate: a path that exists and passes inspection joins the plan.
\* The order in which paths are considered stands for every sort order, and
\* a path met twice is dropped only when both inspections agree.
Consider(r, p) ==
    /\ pc[r] = "plan"
    /\ Len(plan[r]) < MaxPlan
    /\ Inspects(p)
    /\ \A k \in DOMAIN plan[r] : plan[r][k] # CandidateAt(p)
    /\ plan' = [plan EXCEPT ![r] = Append(@, CandidateAt(p))]
    /\ UNCHANGED <<disk, outside, pc, mode, cycle, idx, seq, report, durable,
                   counters>>

EndPlan(r) ==
    /\ pc[r] = "plan"
    /\ Goto(r, "next")
    /\ UNCHANGED <<disk, outside, local, idx, seq, report, durable, counters>>

----------------------------------------------------------------------------
(* The loop of execute_cleanup.                                            *)

\* A dry run appends the plan to the audit log and touches nothing.
ReportOnly(r) ==
    /\ pc[r] = "next" /\ InPlan(r) /\ mode[r] = "dry_run"
    /\ AppendAudit(r, "planned")
    /\ PushAction(r, "would_remove")
    /\ NextCandidate(r)
    /\ UNCHANGED <<disk, outside, local, seq, last, purged, counters>>

\* inspect_candidate up to and including the Git questions.
InspectContext(r) ==
    /\ pc[r] = "next" /\ InPlan(r) /\ mode[r] = "execute"
    /\ LET p == Planned(r).path IN
         Goto(r, IF p \in eligible /\ at[p] # None THEN "use" ELSE "skip")
    /\ UNCHANGED <<disk, outside, local, idx, seq, report, durable, counters>>

InspectUse(r) ==
    /\ pc[r] = "use"
    /\ Goto(r, IF PathIsInUse(Planned(r).path) THEN "skip" ELSE "profile")
    /\ UNCHANGED <<disk, outside, local, idx, seq, report, durable, counters>>

\* profile_tree and the age check, then the comparison with the plan.
InspectProfile(r) ==
    /\ pc[r] = "profile"
    /\ LET p == Planned(r).path
           unchanged == /\ at[p] # None
                        /\ verdict[at[p]] = "aged"
                        /\ CandidateAt(p) = Planned(r)
       IN  Goto(r, IF unchanged THEN "intent" ELSE "skip")
    /\ UNCHANGED <<disk, outside, local, idx, seq, report, durable, counters>>

\* Mutant of Skip: the refusal is reported only.
SkipUnaudited(r) ==
    /\ pc[r] = "skip"
    /\ PushAction(r, "skipped")
    /\ NextCandidate(r)
    /\ UNCHANGED <<disk, outside, local, seq, durable, counters>>

\* The refusal is audited and reported.
Skip(r) ==
    /\ pc[r] = "skip"
    /\ AppendAudit(r, "skipped")
    /\ PushAction(r, "skipped")
    /\ NextCandidate(r)
    /\ UNCHANGED <<disk, outside, local, seq, last, purged, counters>>

\* Mutant of AuditIntent: the removal starts without its intent.
NoIntent(r) ==
    /\ pc[r] = "intent"
    /\ seq' = [seq EXCEPT ![r] = 0]
    /\ Goto(r, "check")
    /\ UNCHANGED <<disk, outside, local, idx, report, durable, counters>>

\* The intent is synced to the audit log before anything is renamed.
AuditIntent(r) ==
    /\ pc[r] = "intent"
    /\ AppendAudit(r, "planned")
    /\ seq' = [seq EXCEPT ![r] = 0]
    /\ Goto(r, "check")
    /\ UNCHANGED <<disk, outside, local, idx, report, last, purged, counters>>

\* The head of quarantine_and_remove's loop: revalidate_directory_identity,
\* or the end of the names to try.
RevalidateIdentity(r) ==
    /\ pc[r] = "check"
    /\ Goto(r, IF seq[r] < MaxSeq /\ at[Planned(r).path] = Planned(r).ino
               THEN "rename" ELSE "failed")
    /\ UNCHANGED <<disk, outside, local, idx, seq, report, durable, counters>>

\* rename_noreplace: the source went away.
RenameMissing(r) ==
    /\ pc[r] = "rename"
    /\ at[Planned(r).path] = None
    /\ Goto(r, "failed")
    /\ UNCHANGED <<disk, outside, local, idx, seq, report, durable, counters>>

\* Mutant of RenameTaken: the same name is tried again.
RetrySameName(r) ==
    /\ pc[r] = "rename"
    /\ at[Planned(r).path] # None
    /\ trash[QuarantineName(r)] # None
    /\ Goto(r, "check")
    /\ UNCHANGED <<disk, outside, local, idx, seq, report, durable, counters>>

\* rename_noreplace: EEXIST, the next sequence number is tried.
RenameTaken(r) ==
    /\ pc[r] = "rename"
    /\ at[Planned(r).path] # None
    /\ trash[QuarantineName(r)] # None
    /\ seq' = [seq EXCEPT ![r] = @ + 1]
    /\ Goto(r, "check")
    /\ UNCHANGED <<disk, outside, local, idx, report, durable, counters>>

\* Mutant of RenameIntoQuarantine: a rename that replaces.
RenameReplacing(r) ==
    /\ pc[r] = "rename"
    /\ at[Planned(r).path] # None
    /\ trash' = [trash EXCEPT ![QuarantineName(r)] = at[Planned(r).path]]
    /\ at' = [at EXCEPT ![Planned(r).path] = None]
    /\ Goto(r, "verify")
    /\ UNCHANGED <<tree, stamp, outside, local, idx, seq, report, durable,
                   counters>>

\* rename_noreplace moves whatever the path names now.
RenameIntoQuarantine(r) ==
    /\ pc[r] = "rename"
    /\ at[Planned(r).path] # None
    /\ trash[QuarantineName(r)] = None
    /\ trash' = [trash EXCEPT ![QuarantineName(r)] = at[Planned(r).path]]
    /\ at' = [at EXCEPT ![Planned(r).path] = None]
    /\ Goto(r, "verify")
    /\ UNCHANGED <<tree, stamp, outside, local, idx, seq, report, durable,
                   counters>>

\* Mutant of VerifyQuarantine: the quarantined identity is trusted.
TrustQuarantine(r) ==
    /\ pc[r] = "verify"
    /\ Goto(r, "purge")
    /\ UNCHANGED <<disk, outside, local, idx, seq, report, durable, counters>>

\* purge_verified_quarantine: a directory other than the inspected one is
\* preserved under its quarantine name.
VerifyQuarantine(r) ==
    /\ pc[r] = "verify"
    /\ Goto(r, IF trash[QuarantineName(r)] = Planned(r).ino
               THEN "purge" ELSE "failed")
    /\ UNCHANGED <<disk, outside, local, idx, seq, report, durable, counters>>

\* remove_dir_all, which resolves the quarantine name again, has removed
\* some entries ...
PurgeSome(r) ==
    /\ pc[r] = "purge"
    /\ trash[QuarantineName(r)] # None
    /\ tree[trash[QuarantineName(r)]] = "whole"
    /\ tree' = [tree EXCEPT ![trash[QuarantineName(r)]] = "partial"]
    /\ UNCHANGED <<at, trash, stamp, outside, pc, local, idx, seq, report,
                   durable, counters>>

\* ... or the last ones and the directory itself ...
PurgeAll(r) ==
    /\ pc[r] = "purge"
    /\ LET i == trash[QuarantineName(r)] IN
         /\ i # None
         /\ tree[i] = "partial"
         /\ tree' = [tree EXCEPT ![i] = "gone"]
         /\ refs' = [refs EXCEPT ![i] = {}]
         /\ purged' = purged \cup
                        {[cycle |-> cycle[r], path |-> Planned(r).path,
                          ino |-> i]}
    /\ trash' = [trash EXCEPT ![QuarantineName(r)] = None]
    /\ Goto(r, "success")
    /\ UNCHANGED <<at, stamp, verdict, eligible, local, idx, seq, report,
                   audit, last, counters>>

\* Mutant of PurgeMissing: a quarantine that went away counts as removed.
MissingIsRemoved(r) ==
    /\ pc[r] = "purge"
    /\ trash[QuarantineName(r)] = None
    /\ Goto(r, "success")
    /\ UNCHANGED <<disk, outside, local, idx, seq, report, durable, counters>>

\* ... or finds that the name is gone.
PurgeMissing(r) ==
    /\ pc[r] = "purge"
    /\ trash[QuarantineName(r)] = None
    /\ Goto(r, "failed")
    /\ UNCHANGED <<disk, outside, local, idx, seq, report, durable, counters>>

AuditSuccess(r) ==
    /\ pc[r] = "success"
    /\ AppendAudit(r, "success")
    /\ PushAction(r, "removed")
    /\ NextCandidate(r)
    /\ UNCHANGED <<disk, outside, local, seq, last, purged, counters>>

AuditFailure(r) ==
    /\ pc[r] = "failed"
    /\ AppendAudit(r, "failed")
    /\ PushAction(r, "failed")
    /\ NextCandidate(r)
    /\ UNCHANGED <<disk, outside, local, seq, last, purged, counters>>

LoopDone(r) ==
    /\ pc[r] = "next" /\ ~InPlan(r)
    /\ Goto(r, "save")
    /\ UNCHANGED <<disk, outside, local, idx, seq, report, durable, counters>>

\* run_cleanup replaces cleanup-last.json atomically.
SaveReport(r) ==
    /\ pc[r] = "save"
    /\ last' = [cycle |-> cycle[r], actions |-> report[r]]
    /\ EndCycle(r)
    /\ UNCHANGED <<disk, outside, audit, purged, counters>>
----------------------------------------------------------------------------
(* Failing calls.  Each ends as the "?" or the match arm of the code does. *)

Fault == faults < MaxFaults /\ faults' = faults + 1

\* AuditLog::append fails, before or after its line reached the file; the
\* "?" leaves execute_cleanup and run_cleanup at once.
AppendFails(r, landed) ==
    /\ Fault
    /\ \E o \in Outcomes :
         /\ \/ pc[r] = "next" /\ InPlan(r) /\ mode[r] = "dry_run" /\ o = "planned"
            \/ pc[r] = "skip" /\ o = "skipped"
            \/ pc[r] = "intent" /\ o = "planned"
            \/ pc[r] = "success" /\ o = "success"
            \/ pc[r] = "failed" /\ o = "failed"
         /\ IF landed THEN AppendAudit(r, o) ELSE UNCHANGED audit
    /\ EndCycle(r)
    /\ UNCHANGED <<disk, outside, last, purged, cycles, world, crashes>>

\* The rename fails for another reason, or remove_dir_all stops part way:
\* the removal has failed and the loop goes on.
RemovalFails(r) ==
    /\ Fault
    /\ pc[r] \in {"rename", "purge"}
    /\ Goto(r, "failed")
    /\ UNCHANGED <<disk, outside, local, idx, seq, report, durable,
                   cycles, world, crashes>>

\* Repository discovery or the write of cleanup-last.json fails.
CycleFails(r) ==
    /\ Fault
    /\ pc[r] \in {"plan", "save"}
    /\ EndCycle(r)
    /\ UNCHANGED <<disk, outside, durable, cycles, world, crashes>>

\* The process is killed; another one may get its pid.
Crash(r) ==
    /\ crashes < MaxCrashes
    /\ crashes' = crashes + 1
    /\ pc[r] # "idle"
    /\ EndCycle(r)
    /\ UNCHANGED <<disk, outside, durable, cycles, world, faults>>

----------------------------------------------------------------------------
(* The user's programs.                                                    *)

WorldTurns == world < MaxWorld /\ world' = world + 1
BoundExceptWorld == <<cycles, faults, crashes>>
Guards == <<pc, local, idx, seq, report, durable>>

\* Files below a directory are written, mtimes may be set back.
UserWrites(i, v) ==
    /\ WorldTurns
    /\ tree[i] \in {"whole", "partial"}
    /\ stamp' = [stamp EXCEPT ![i] = @ + 1]
    /\ verdict' = [verdict EXCEPT ![i] = v]
    /\ UNCHANGED <<at, trash, tree, refs, eligible, Guards, BoundExceptWorld>>

\* A mount or an outside hard link comes or goes, or time passes.
UserAges(i, v) ==
    /\ WorldTurns
    /\ tree[i] \in {"whole", "partial"}
    /\ v # "young"
    /\ verdict' = [verdict EXCEPT ![i] = v]
    /\ UNCHANGED <<disk, refs, eligible, Guards, BoundExceptWorld>>

\* A process opens, maps or leaves a directory.
UserRefers(i, kinds) ==
    /\ WorldTurns
    /\ tree[i] \in {"whole", "partial"}
    /\ kinds # refs[i]
    /\ refs' = [refs EXCEPT ![i] = kinds]
    /\ UNCHANGED <<disk, verdict, eligible, Guards, BoundExceptWorld>>

\* A manifest, lockfile, .gitignore, index or parent mode changes.
UserReclassifies(p) ==
    /\ WorldTurns
    /\ eligible' = IF p \in eligible THEN eligible \ {p} ELSE eligible \cup {p}
    /\ UNCHANGED <<disk, verdict, refs, Guards, BoundExceptWorld>>

UserRemoves(p) ==
    /\ WorldTurns
    /\ at[p] # None
    /\ at' = [at EXCEPT ![p] = None]
    /\ tree' = [tree EXCEPT ![at[p]] = "free"]
    /\ refs' = [refs EXCEPT ![at[p]] = {}]
    /\ UNCHANGED <<trash, stamp, verdict, eligible, Guards, BoundExceptWorld>>

\* A directory is made at a free path; the file system may reuse an inode.
UserCreates(p, i, v) ==
    /\ WorldTurns
    /\ at[p] = None
    /\ tree[i] \in {"free", "gone"}
    /\ at' = [at EXCEPT ![p] = i]
    /\ tree' = [tree EXCEPT ![i] = "whole"]
    /\ stamp' = [stamp EXCEPT ![i] = @ + 1]
    /\ verdict' = [verdict EXCEPT ![i] = v]
    /\ UNCHANGED <<trash, refs, eligible, Guards, BoundExceptWorld>>

\* The user deletes a quarantined directory by hand ...
UserEmpties(n) ==
    /\ WorldTurns
    /\ trash[n] # None
    /\ trash' = [trash EXCEPT ![n] = None]
    /\ tree' = [tree EXCEPT ![trash[n]] = "free"]
    /\ refs' = [refs EXCEPT ![trash[n]] = {}]
    /\ UNCHANGED <<at, stamp, verdict, eligible, Guards, BoundExceptWorld>>

\* ... or moves it back.
UserRestores(n) ==
    /\ WorldTurns
    /\ trash[n] # None
    /\ at[n[1]] = None
    /\ at' = [at EXCEPT ![n[1]] = trash[n]]
    /\ trash' = [trash EXCEPT ![n] = None]
    /\ UNCHANGED <<tree, stamp, outside, Guards, BoundExceptWorld>>

----------------------------------------------------------------------------

\* The steps of one process when every call it makes succeeds.
Progress(r) ==
    \/ \E p \in Paths : Consider(r, p)
    \/ EndPlan(r)
    \/ ReportOnly(r)
    \/ InspectContext(r)
    \/ InspectUse(r)
    \/ InspectProfile(r)
    \/ Skip(r)
    \/ AuditIntent(r)
    \/ RevalidateIdentity(r)
    \/ RenameMissing(r)
    \/ RenameTaken(r)
    \/ RenameIntoQuarantine(r)
    \/ VerifyQuarantine(r)
    \/ PurgeSome(r)
    \/ PurgeAll(r)
    \/ PurgeMissing(r)
    \/ AuditSuccess(r)
    \/ AuditFailure(r)
    \/ LoopDone(r)
    \/ SaveReport(r)

Trouble(r) ==
    \/ \E landed \in BOOLEAN : AppendFails(r, landed)
    \/ RemovalFails(r)
    \/ CycleFails(r)
    \/ Crash(r)

User ==
    \/ \E i \in Inodes, v \in {"aged", "young", "unsound"} :
         \/ UserWrites(i, v)
         \/ UserAges(i, v)
         \/ \E p \in Paths : UserCreates(p, i, v)
    \/ \E i \in Inodes, kinds \in SUBSET {"link", "map"} : UserRefers(i, kinds)
    \/ \E p \in Paths : UserReclassifies(p) \/ UserRemoves(p)
    \/ \E n \in Names : UserEmpties(n) \/ UserRestores(n)

Next ==
    \/ \E r \in Procs :
         \/ \E m \in {"dry_run", "execute"} : StartCycle(r, m)
         \/ Progress(r)
         \/ Trouble(r)
    \/ User

Spec == Init /\ [][Next]_vars

\* A guard process is a single thread that the system schedules; none of its
\* steps waits for another process.
FairSpec == Spec /\ \A r \in Procs : WF_vars(Progress(r))

----------------------------------------------------------------------------
(* Properties.                                                             *)

Live(i) == tree[i] \in {"whole", "partial"}

NamesAreLive ==
    /\ \A p \in Paths : at[p] # None => Live(at[p])
    /\ \A n \in Names : trash[n] # None => Live(trash[n])

NamesAreUnique ==
    /\ \A p, q \in Paths : at[p] = at[q] /\ at[p] # None => p = q
    /\ \A m, n \in Names : trash[m] = trash[n] /\ trash[m] # None => m = n
    /\ \A p \in Paths, n \in Names : at[p] # None => at[p] # trash[n]

NothingIsLost ==
    \A i \in Inodes : Live(i) => \/ \E p \in Paths : at[p] = i
                                \/ \E n \in Names : trash[n] = i

\* Every directory that still holds files has exactly one name, either a
\* candidate path or a quarantine name, and every name in use names such a
\* directory: no interleaving of guard processes with each other, with a
\* crash or with the user makes a rename overwrite what an earlier attempt
\* left in quarantine, and no directory is lost (rename_noreplace).
NamesAreExact == NamesAreLive /\ NamesAreUnique /\ NothingIsLost

\* The newest record of the process is the intent for its candidate.
IntentIsLast(r) ==
    /\ Len(audit[r]) > 0
    /\ audit[r][Len(audit[r])] = Record(r, "planned")

\* A guard process takes entries out of a directory only when that directory
\* is the one its plan names, in execute mode, and the newest record it
\* appended is the intent for it: a directory swapped in between the
\* inspection, the revalidation and the rename is never purged.
PurgesPlanned(i) ==
    tree'[i] # tree[i] /\ tree'[i] \in {"partial", "gone"} =>
      \E r \in Procs : /\ pc[r] = "purge"
                       /\ Planned(r).ino = i
                       /\ mode[r] = "execute"
                       /\ IntentIsLast(r)
PurgeOnlyPlanned == [][\A i \in Inodes : PurgesPlanned(i)]_vars

\* No directory enters quarantine before the intent for its path is in the
\* audit log, and only a process that executes moves one, into a name of its
\* own pid.
FollowsIntent(n) ==
    trash[n] = None /\ trash'[n] # None =>
      /\ mode[n[2]] = "execute"
      /\ Planned(n[2]).path = n[1]
      /\ IntentIsLast(n[2])
IntentBeforeRename == [][\A n \in Names : FollowsIntent(n)]_vars

\* Records of a cycle and actions of a report that say the same.
Tally(c, p, o) ==
    Cardinality(UNION {{<<r, k>> : k \in {k \in DOMAIN audit[r] :
        audit[r][k] = [cycle |-> c, path |-> p, outcome |-> o]}} : r \in Procs})
Acted(actions, p, o) ==
    Cardinality({k \in DOMAIN actions :
                   actions[k] = [path |-> p, outcome |-> o]})

\* cleanup-last.json and the audit log agree on the cycle the report is of:
\* each removal, failure and refusal was audited, and intents were written
\* for exactly the reported removals, failures and dry-run entries.
ReportMatchesAudit ==
    \A p \in Paths :
      /\ Tally(last.cycle, p, "success") = Acted(last.actions, p, "removed")
      /\ Tally(last.cycle, p, "failed") = Acted(last.actions, p, "failed")
      /\ Tally(last.cycle, p, "skipped") = Acted(last.actions, p, "skipped")
      /\ Tally(last.cycle, p, "planned") =
           Acted(last.actions, p, "removed") + Acted(last.actions, p, "failed")
             + Acted(last.actions, p, "would_remove")

\* A success record never stands for a removal that did not happen.
SuccessIsTrue ==
    \A r \in Procs : \A k \in DOMAIN audit[r] :
      audit[r][k].outcome = "success" =>
        \E d \in purged : /\ d.cycle = audit[r][k].cycle
                          /\ d.path = audit[r][k].path

\* A process has announced a removal from its intent to the end of the purge.
Announced(r) ==
    IF /\ pc[r] \in {"check", "rename", "verify", "purge"}
       /\ mode[r] = "execute"
       /\ IntentIsLast(r)
    THEN {<<Planned(r).path, Planned(r).ino>>} ELSE {}

Homes == [i \in Inodes |-> {p \in Paths : at[p] = i}]
SetsAside == [i \in Inodes |-> {n \in Names : trash[n] = i}]
Cuts == {i \in Inodes : tree[i] = "partial"}
Announcements == [r \in Procs |-> Announced(r)]

Removal == INSTANCE SafeRemoval WITH
    Dirs <- Inodes, Tries <- 0 .. MaxSeq - 1, home <- Homes,
    aside <- SetsAside, cut <- Cuts, announced <- Announcements

\* Whoever owns the directories sees only announced removals: a directory is
\* set aside whole and keeps every file unless it is the announced one, and
\* nothing that fails, crashes or interleaves between the intent and the
\* purge makes any other step visible (execute_cleanup,
\* quarantine_and_remove, purge_verified_quarantine).
ImplementsSafeRemoval == Removal!Spec

\* Every cycle ends, whatever the user does meanwhile: the search for a free
\* quarantine name, the skips and the failures all move the loop on.
CycleEnds == \A r \in Procs : pc[r] # "idle" ~> pc[r] = "idle"
============================================================================
