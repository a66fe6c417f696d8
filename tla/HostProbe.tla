----------------------------- MODULE HostProbe -----------------------------
(***************************************************************************)
(* One probe of the host (src/host.rs, probe_host of src/main.rs): the     *)
(* platform is classified, a Linux volume measured on the spot, a Windows  *)
(* one by a PowerShell child whose two pipes are drained by two threads    *)
(* while the main thread polls for its exit or the timeout.  The child may *)
(* hang, crash, write more than is kept, or leave its pipes to processes   *)
(* of its own.  A tick is the 50 ms between two polls.                     *)
(***************************************************************************)
EXTENDS Integers, FiniteSets, Sequences

CONSTANTS
    Hosts,     \* what a probe may find: kernel, environment, files, volumes
    Reports,   \* snapshots that the script may print
    None,
    Word,      \* u64::MAX + 1
    Timeout, Skew,  \* ticks of the timeout and of MAX_CLOCK_SKEW
    Offsets,   \* ticks by which the host's clock may be ahead
    Cap, PipeSize,  \* MAX_PROBE_OUTPUT_BYTES and a pipe, in pieces
    MaxOut,    \* bound: pieces written to a pipe
    MaxTime    \* bound: ticks counted

ASSUME NumberAssumption ==
    /\ Timeout \in Nat \ {0} /\ Skew \in Nat /\ Offsets \subseteq Int
    /\ Cap \in Nat /\ PipeSize \in Nat \ {0} /\ MaxOut \in Nat
    /\ MaxTime \in Nat /\ MaxTime > 3 * Timeout /\ \A o \in Offsets : MaxTime > 3 * Timeout + o
ASSUME HostsAssumption ==
    /\ \A h \in Hosts :
         /\ h.roots \in Seq([dir : BOOLEAN, dev : DOMAIN h.volumes])
         /\ \A d \in DOMAIN h.volumes : h.volumes[d] \in [blocks : Nat, avail : Nat, size : Nat]
    /\ \A r \in Reports : r.total \in Nat
ASSUME NoneAssumption == None \notin 0 .. MaxTime

VARIABLES
    host, report, offset,  \* what this probe finds, prints and is off by
    size,     \* pieces the child is to write to each pipe
    pc,       \* stage of the main thread
    child,    \* its state
    status,   \* whether it exited successfully
    heirs,    \* whether some other process holds the pipes' write ends
    wrote, pipe, kept,  \* pieces written to, in and kept from each pipe
    reader,   \* state of each reader thread
    elapsed,  \* ticks since the child was started
    age,      \* ticks since captured_at, None before that
    answer    \* the snapshot, None for an error

inputs == <<host, report, offset, size>>
pipes == <<wrote, pipe, kept, reader>>
vars == <<inputs, pc, child, status, heirs, pipes, elapsed, age, answer>>

Streams == {"stdout", "stderr"}

TypeOK ==
    /\ host \in Hosts /\ report \in Reports /\ offset \in Offsets
    /\ size \in [Streams -> 0 .. MaxOut]
    /\ pc \in {"start", "poll", "nap", "stdout", "stderr", "parse", "fresh", "done"}
    /\ child \in {"none", "running", "exited", "reaped"}
    /\ status \in BOOLEAN /\ heirs \in BOOLEAN
    /\ wrote \in [Streams -> 0 .. MaxOut] /\ pipe \in [Streams -> 0 .. PipeSize]
    /\ kept \in [Streams -> 0 .. Cap]
    /\ reader \in [Streams -> {"none", "reading", "ended"}]
    /\ elapsed \in 0 .. MaxTime /\ age \in 0 .. MaxTime \cup {None}
    /\ answer = None \/ answer.total \in Nat

Init ==
    /\ host \in Hosts /\ report \in Reports /\ offset \in Offsets
    /\ size \in [Streams -> 0 .. MaxOut]
    /\ pc = "start" /\ child = "none" /\ status = FALSE /\ heirs = FALSE
    /\ wrote = [s \in Streams |-> 0] /\ pipe = wrote /\ kept = wrote
    /\ reader = [s \in Streams |-> "none"]
    /\ elapsed = 0 /\ age = None /\ answer = None

----------------------------------------------------------------------------
(* What is decided before a child is started.                              *)

\* release is the set of the words of osrelease that matter.
ClassifyPlatform(release) ==
    IF "microsoft" \notin release THEN "linux"
    ELSE IF "wsl2" \in release THEN "wsl2" ELSE None

\* A name in the environment is taken even if it is not valid; distro-name is
\* read only without one.
CurrentDistroName ==
    LET found == IF host.env # None THEN host.env ELSE host.file
    IN  IF found = "valid" THEN found ELSE None

\* WSL_INTEROP if it is a socket, else the newest one of /run/WSL by time and
\* name.
DiscoverWslInterop ==
    IF host.configured = "socket" THEN host.configured
    ELSE LET sockets == {e \in host.entries : e.socket /\ e.interop}
             newest == {e \in sockets : \A o \in sockets :
                          \/ o.modified < e.modified
                          \/ o.modified = e.modified /\ o.name <= e.name}
         IN  IF newest = {} THEN None ELSE (CHOOSE e \in newest : TRUE).name

Validate(s) ==
    /\ s.schema = 2 /\ s.total # 0 /\ s.free <= s.total
    /\ s.identity = IF s.platform = "wsl2" THEN "whole" ELSE "none"
    /\ s.printable

\* A Linux volume is measured by the clock that is looked at here.
RequireFresh ==
    LET seen == IF child = "none" THEN age ELSE age - offset
    IN  seen >= -Skew /\ seen <= 2 * Timeout

\* Mutant of ProbeLinuxDisk: only the first root is looked at.
FirstRootOnly ==
    LET volume == host.volumes[host.roots[1].dev]
        total == volume.blocks * volume.size
        avail == volume.avail * volume.size
    IN  IF host.roots # <<>> /\ host.roots[1].dir /\ total < Word /\ total > 0 /\ avail <= total
        THEN [total |-> total, free |-> avail] ELSE None

\* The volume of the first scan root, provided that every root is a directory
\* on it and no product overflows.
ProbeLinuxDisk ==
    LET device == host.roots[1].dev
        volume == host.volumes[device]
        total == volume.blocks * volume.size
        avail == volume.avail * volume.size
    IN  IF /\ host.roots # <<>>
           /\ \A i \in DOMAIN host.roots :
                host.roots[i].dir /\ host.roots[i].dev = device
           /\ total < Word /\ avail < Word /\ total > 0 /\ avail <= total
        THEN [total |-> total, free |-> avail] ELSE None

End(result) == pc' = "done" /\ answer' = result

\* captured_at is now.
MeasureLinux ==
    /\ pc = "start" /\ ClassifyPlatform(host.release) = "linux"
    /\ ProbeLinuxDisk # None
    /\ age' = 0 /\ answer' = ProbeLinuxDisk /\ pc' = "fresh"
    /\ UNCHANGED <<inputs, child, status, heirs, pipes, elapsed>>

\* An error before there is a child.
Refuse ==
    /\ pc = "start"
    /\ CASE ClassifyPlatform(host.release) = "linux" -> ProbeLinuxDisk = None
         [] ClassifyPlatform(host.release) = "wsl2" ->
              CurrentDistroName = None \/ DiscoverWslInterop = None
         [] OTHER -> TRUE
    /\ End(None)
    /\ UNCHANGED <<inputs, child, status, heirs, pipes, elapsed, age>>

Spawn ==
    /\ pc = "start" /\ ClassifyPlatform(host.release) = "wsl2"
    /\ CurrentDistroName # None /\ DiscoverWslInterop # None
    /\ child' = "running" /\ reader' = [s \in Streams |-> "reading"]
    /\ elapsed' = 0 /\ pc' = "poll"
    /\ UNCHANGED <<inputs, status, heirs, wrote, pipe, kept, age, answer>>

----------------------------------------------------------------------------
(* The child and what it leaves behind.                                    *)

main == <<pc, elapsed, answer>>

\* The script asks for the volume.
Capture ==
    /\ child = "running" /\ age = None
    /\ age' = 0
    /\ UNCHANGED <<inputs, main, child, status, heirs, pipes>>

ChildWrites(s) ==
    /\ child = "running" /\ wrote[s] < size[s] /\ pipe[s] < PipeSize
    /\ s = "stdout" => age # None
    /\ wrote' = [wrote EXCEPT ![s] = @ + 1] /\ pipe' = [pipe EXCEPT ![s] = @ + 1]
    /\ UNCHANGED <<inputs, main, child, status, heirs, kept, reader, age>>

\* A process the child started inherits the pipes.
Inherit ==
    /\ child = "running" /\ ~heirs
    /\ heirs' = TRUE
    /\ UNCHANGED <<inputs, main, child, status, pipes, age>>

LetGo ==
    /\ heirs /\ heirs' = FALSE
    /\ UNCHANGED <<inputs, main, child, status, pipes, age>>

\* It succeeds, fails or crashes.
ChildExits ==
    /\ child = "running" /\ child' = "exited"
    /\ status' \in BOOLEAN
    /\ UNCHANGED <<inputs, main, heirs, pipes, age>>

----------------------------------------------------------------------------
(* read_capped, by the reader of s.                                        *)

Writable == child = "running" \/ heirs

Lesser(a, b) == IF a < b THEN a ELSE b

\* Mutant of ReaderEnds: it stops when it has all it may keep.
ReaderFull(s) ==
    /\ reader[s] = "reading"
    /\ kept[s] = Cap \/ (pipe[s] = 0 /\ ~Writable)
    /\ reader' = [reader EXCEPT ![s] = "ended"]
    /\ UNCHANGED <<inputs, main, child, status, heirs, wrote, pipe, kept, age>>

\* What exceeds the cap is read and dropped.
Reads(s) ==
    /\ reader[s] = "reading" /\ pipe[s] > 0
    /\ pipe' = [pipe EXCEPT ![s] = @ - 1]
    /\ kept' = [kept EXCEPT ![s] = Lesser(@ + 1, Cap)]
    /\ UNCHANGED <<inputs, main, child, status, heirs, wrote, reader, age>>

\* The pipe is empty and nobody can write to it.
ReaderEnds(s) ==
    /\ reader[s] = "reading" /\ pipe[s] = 0 /\ ~Writable
    /\ reader' = [reader EXCEPT ![s] = "ended"]
    /\ UNCHANGED <<inputs, main, child, status, heirs, wrote, pipe, kept, age>>

----------------------------------------------------------------------------
(* run_bounded, the main thread.                                           *)

\* try_wait
Reap ==
    /\ pc = "poll" /\ child = "exited"
    /\ child' = "reaped" /\ pc' = "stdout"
    /\ UNCHANGED <<inputs, status, heirs, pipes, elapsed, age, answer>>

\* Mutant of Expire: it looks at the time only once the child has spoken.
ExpireIfHeard ==
    /\ pc = "poll" /\ child = "running" /\ elapsed >= Timeout
    /\ \E s \in Streams : wrote[s] > 0
    /\ child' = "reaped" /\ End(None)
    /\ UNCHANGED <<inputs, status, heirs, pipes, elapsed, age>>

\* The child is killed and waited for; its readers are left to themselves.
Expire ==
    /\ pc = "poll" /\ child = "running" /\ elapsed >= Timeout
    /\ child' = "reaped" /\ End(None)
    /\ UNCHANGED <<inputs, status, heirs, pipes, elapsed, age>>

Nap ==
    /\ pc = "poll" /\ child = "running" /\ elapsed < Timeout
    /\ pc' = "nap"
    /\ UNCHANGED <<inputs, child, status, heirs, pipes, elapsed, age, answer>>

\* Time passes for everything but a poll.
Tick ==
    /\ pc \notin {"start", "poll", "done"}
    /\ elapsed' = Lesser(elapsed + 1, MaxTime)
    /\ age' = IF age = None THEN None ELSE Lesser(age + 1, MaxTime)
    /\ pc' = IF pc = "nap" THEN "poll" ELSE pc
    /\ UNCHANGED <<inputs, child, status, heirs, pipes, answer>>

\* join_reader, without a limit.
Join(s) ==
    /\ pc = s /\ reader[s] = "ended"
    /\ pc' = IF s = "stdout" THEN "stderr" ELSE "parse"
    /\ UNCHANGED <<inputs, child, status, heirs, pipes, elapsed, age, answer>>

\* The script writes its report in size pieces, and only the whole is JSON.
ParseSnapshot ==
    /\ pc = "parse"
    /\ IF status /\ size["stdout"] > 0 /\ kept["stdout"] = size["stdout"] /\ Validate(report)
       THEN pc' = "fresh" /\ answer' = report
       ELSE End(None)
    /\ UNCHANGED <<inputs, child, status, heirs, pipes, elapsed, age>>

\* Mutant of Answer: the snapshot is given as it is.
AnswerAnyway ==
    /\ pc = "fresh"
    /\ End(answer)
    /\ UNCHANGED <<inputs, child, status, heirs, pipes, elapsed, age>>

\* require_fresh
Answer ==
    /\ pc = "fresh"
    /\ End(IF RequireFresh THEN answer ELSE None)
    /\ UNCHANGED <<inputs, child, status, heirs, pipes, elapsed, age>>

Main ==
    \/ MeasureLinux \/ Refuse \/ Spawn \/ Reap \/ Expire \/ Nap
    \/ \E s \in Streams : Join(s)
    \/ ParseSnapshot \/ Answer

Reader(s) == Reads(s) \/ ReaderEnds(s)

Next ==
    \/ Main \/ Tick
    \/ \E s \in Streams : Reader(s) \/ ChildWrites(s)
    \/ Capture \/ Inherit \/ LetGo \/ ChildExits

Spec == Init /\ [][Next]_vars

\* The threads of the program are scheduled and time passes.  The child and
\* whoever inherited its pipes owe nothing.
FairSpec ==
    /\ Spec
    /\ WF_vars(Main) /\ WF_vars(Tick)
    /\ \A s \in Streams : WF_vars(Reader(s))

----------------------------------------------------------------------------
(* Properties.                                                             *)

\* What is parsed is all that the child wrote, up to the cap, although it was
\* collected by threads that run behind the child and its exit; and as long as
\* anybody may write to a pipe somebody reads from it, beyond the cap too: a
\* talkative child is neither blocked for good nor killed by a broken pipe
\* (read_capped, join_reader).
OutputIsDrained ==
    \A s \in Streams :
      /\ pc = "parse" => kept[s] = Lesser(wrote[s], Cap)
      /\ Writable /\ child # "none" => reader[s] # "ended"

\* The sizes given for a Linux host are the true sizes of the one volume all
\* scan roots lie on, without overflow: what is measured is what cleaning the
\* roots can change.
SizesAreTrue ==
    pc = "done" /\ answer # None /\ child = "none" =>
      \A i \in DOMAIN host.roots :
        LET volume == host.volumes[host.roots[i].dev]
        IN  /\ answer.total = volume.blocks * volume.size
            /\ answer.free = volume.avail * volume.size

\* No decision rests on what a stuck probe has seen long ago: an answer comes
\* within three timeouts of the start of the child, one for the script and two
\* for require_fresh, or not at all, whoever keeps the readers waiting after the
\* exit of the child; a host clock that is ahead adds what it is ahead by.
StuckIsDiscarded ==
    pc = "done" /\ answer # None /\ child = "reaped" =>
      elapsed <= 3 * Timeout + offset

\* Nothing the child does keeps a probe from its end: it may hang, crash or talk
\* without end.  What it leaves behind does: the one way to wait for ever is to
\* join a reader of a child that has exited, while a process that inherited the
\* pipes keeps them; the timeout is over by then, and no other covers the join
\* (run_bounded).
OnlyHeirsKeepIt ==
    \/ <>(pc = "done")
    \/ <>[](pc \in Streams /\ child = "reaped" /\ heirs)
============================================================================
