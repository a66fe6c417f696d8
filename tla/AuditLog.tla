------------------------------ MODULE AuditLog ------------------------------
(***************************************************************************)
(* The audit log as a file (src/history.rs, append_private and             *)
(* read_private of src/fsutil.rs): several processes append records under  *)
(* a flock, force them to the disk and report success; history and doctor  *)
(* read the last lines without any lock.  A write may be cut short by a    *)
(* full disk, a kill or a loss of power, and a log that is new goes with   *)
(* its name: append_private creates it and never syncs its directory.      *)
(***************************************************************************)
EXTENDS Integers, SequencesExt

CONSTANTS
    Writers,     \* processes that append
    None,
    MaxRecords,  \* bound: records
    MaxLimit,    \* bound: records asked for by a reader
    MaxHistory,  \* MAX_HISTORY_BYTES, in pieces
    MaxFaults    \* bound: failing calls, kills and losses of power

ASSUME NoneAssumption == None \notin Writers
ASSUME BoundAssumption ==
    /\ MaxRecords \in Nat /\ MaxLimit \in Nat
    /\ MaxHistory \in Nat /\ MaxFaults \in Nat

VARIABLES
    log,     \* the pieces in the file
    synced,  \* how many of them are on the disk for certain
    name,    \* "none": there is no file, "new": its name in the directory is
             \* not on the disk for certain, "durable": it is
    flock,   \* who holds its flock
    pc, record, done,  \* stage of an append, its record, pieces written
    acked,   \* records whose append has reported success
    issued, faults,    \* counters for the bounds
    since,   \* history: records acknowledged since the latest fault
    lost     \* history: records acknowledged before a new log was lost

vars == <<log, synced, name, flock, pc, record, done, acked, issued, faults,
          since, lost>>
history == <<acked, since, lost>>

\* A line is written piece by piece: a text that does not parse, one that
\* completes it and the newline.
Newline == 3
Piece == [record : 1 .. MaxRecords, part : 1 .. Newline]
Stages == {"idle", "flock", "write", "sync", "unlock"}

TypeOK ==
    /\ log \in Seq(Piece) /\ synced \in 0 .. Len(log)
    /\ name \in {"none", "new", "durable"} /\ lost \subseteq acked
    /\ flock \in Writers \cup {None}
    /\ pc \in [Writers -> Stages]
    /\ record \in [Writers -> 0 .. MaxRecords]
    /\ done \in [Writers -> 0 .. Newline]
    /\ acked \subseteq 1 .. MaxRecords
    /\ since \in Seq(1 .. MaxRecords)
    /\ issued \in 0 .. MaxRecords /\ faults \in 0 .. MaxFaults

Init ==
    /\ log = <<>> /\ synced = 0 /\ name \in {"none", "durable"} /\ flock = None
    /\ pc = [w \in Writers |-> "idle"]
    /\ record = [w \in Writers |-> 0] /\ done = [w \in Writers |-> 0]
    /\ acked = {} /\ since = <<>> /\ lost = {} /\ issued = 0 /\ faults = 0

Goto(w, stage) == pc' = [pc EXCEPT ![w] = stage]

----------------------------------------------------------------------------
(* append, by a writer.                                                    *)

\* The record is serialized, the file opened for appending, created if it is not
\* there, and validated.
Open(w) ==
    /\ pc[w] = "idle" /\ issued < MaxRecords
    /\ issued' = issued + 1
    /\ record' = [record EXCEPT ![w] = issued + 1]
    /\ done' = [done EXCEPT ![w] = 0]
    /\ name' = IF name = "none" THEN "new" ELSE name
    /\ Goto(w, "flock")
    /\ UNCHANGED <<log, synced, flock, history, faults>>

\* flock(LOCK_EX) waits as long as it takes.
Lock(w) ==
    /\ pc[w] = "flock" /\ flock = None
    /\ flock' = w
    /\ Goto(w, "write")
    /\ UNCHANGED <<log, synced, record, done, history, issued, faults, name>>

\* write_all, as many calls as it takes.
Write(w) ==
    /\ pc[w] = "write"
    /\ log' = Append(log, [record |-> record[w], part |-> done[w] + 1])
    /\ done' = [done EXCEPT ![w] = @ + 1]
    /\ IF done'[w] = Newline THEN Goto(w, "sync") ELSE UNCHANGED pc
    /\ UNCHANGED <<synced, flock, record, history, issued, faults, name>>

\* Mutant of Sync: the data are left to the page cache.
SyncSkipped(w) ==
    /\ pc[w] = "sync"
    /\ Goto(w, "unlock")
    /\ UNCHANGED <<log, synced, flock, record, done, history, issued, faults, name>>

\* sync_data
Sync(w) ==
    /\ pc[w] = "sync"
    /\ synced' = Len(log)
    /\ Goto(w, "unlock")
    /\ UNCHANGED <<log, flock, record, done, history, issued, faults, name>>

\* LOCK_UN, and success is reported.
Unlock(w) ==
    /\ pc[w] = "unlock"
    /\ flock' = None
    /\ acked' = acked \cup {record[w]}
    /\ since' = Append(since, record[w])
    /\ Goto(w, "idle")
    /\ UNCHANGED <<log, synced, record, done, issued, faults, name, lost>>

----------------------------------------------------------------------------
(* Faults.                                                                 *)

Fault == faults < MaxFaults /\ faults' = faults + 1 /\ since' = <<>>

\* Mutant of Stop: an error returns before the unlock, and the descriptor
\* stays open.
StopLocked(w) ==
    /\ Fault
    /\ pc[w] # "idle"
    /\ Goto(w, "idle")
    /\ UNCHANGED <<log, synced, flock, record, done, acked, issued, name, lost>>

\* A call fails, which unlocks and reports an error, or the process is killed.
Stop(w) ==
    /\ Fault
    /\ pc[w] # "idle"
    /\ flock' = IF flock = w THEN None ELSE flock
    /\ Goto(w, "idle")
    /\ UNCHANGED <<log, synced, record, done, acked, issued, name, lost>>

\* What was not forced to the disk is there up to some piece.
Cut ==
    /\ \E n \in synced .. Len(log) :
         /\ log' = SubSeq(log, 1, n) /\ synced' = n
    /\ name' = IF name = "none" THEN "none" ELSE "durable"
    /\ UNCHANGED lost

\* A name that was not: the file is gone, whatever was forced to the disk of it.
Gone ==
    /\ name = "new"
    /\ log' = <<>> /\ synced' = 0 /\ name' = "none"
    /\ lost' = acked

PowerLoss ==
    /\ Fault
    /\ Cut \/ Gone
    /\ flock' = None
    /\ pc' = [w \in Writers |-> "idle"]
    /\ UNCHANGED <<record, done, acked, issued>>

\* The system writes back the name of the log and of its directory: sooner or
\* later, or when the report or the status is written next to the log.
NameSettles ==
    /\ name = "new"
    /\ name' = "durable"
    /\ UNCHANGED <<log, synced, flock, pc, record, done, history, issued, faults>>

Progress(w) == Lock(w) \/ Write(w) \/ Sync(w) \/ Unlock(w)

Next ==
    \/ \E w \in Writers : Open(w) \/ Progress(w) \/ Stop(w)
    \/ PowerLoss \/ NameSettles

Spec == Init /\ [][Next]_vars

\* A process that appends is scheduled.
FairSpec == Spec /\ \A w \in Writers : WF_vars(Progress(w))

----------------------------------------------------------------------------
(* tail, as history and doctor (with a limit of one) call it.              *)

\* filter: the lines with what follows the last newline, unless it is empty.
Closed(s) == IF s.open = <<>> THEN s.lines ELSE Append(s.lines, s.open)

\* What has been read after one more piece.
After(s, p) ==
    IF p.part = Newline THEN [lines |-> Closed(s), open |-> <<>>]
    ELSE [lines |-> s.lines, open |-> Append(s.open, p)]

\* split at the newlines: after each piece of l, the lines that have ended and
\* what there is of the next one.
Split(l) ==
    LET read[i \in 0 .. Len(l)] ==
          IF i = 0 THEN [lines |-> <<>>, open |-> <<>>] ELSE After(read[i - 1], l[i])
    IN  read

\* The lines of the file that are not empty.
Lines(l) == Closed(Split(l)[Len(l)])

Parses(line) ==
    \E r \in 1 .. MaxRecords :
      line = <<[record |-> r, part |-> 1], [record |-> r, part |-> 2]>>

Lesser(a, b) == IF a < b THEN a ELSE b

\* Mutant of TailOf: the records are left in the order they were read in.
TailReversed(limit) ==
    LET lines == Lines(log)
        last == [i \in 1 .. Lesser(limit, Len(lines)) |-> lines[Len(lines) + 1 - i]]
    IN  IF Len(log) > MaxHistory \/ \E i \in DOMAIN last : ~Parses(last[i])
        THEN None
        ELSE [i \in DOMAIN last |-> last[i][1].record]

\* The last records, oldest first, or None for an error: a file that is too
\* large, or a line among the last that does not parse.
TailOf(limit) ==
    LET lines == Lines(log)
        count == Lesser(limit, Len(lines))
        last == [i \in 1 .. count |-> lines[Len(lines) - count + i]]
    IN  IF Len(log) > MaxHistory \/ \E i \in DOMAIN last : ~Parses(last[i])
        THEN None
        ELSE [i \in DOMAIN last |-> last[i][1].record]

----------------------------------------------------------------------------
(* Properties.                                                             *)

\* The record lies in the file in one run of pieces that ends at or before
\* piece n.
WrittenAt(r, k, n) ==
    /\ k + Newline <= n
    /\ \A part \in 1 .. Newline : log[k + part] = [record |-> r, part |-> part]

\* An append that has reported success survives failing calls, kills and losses
\* of power, whole, with no other record inside it: the write is complete and
\* forced to the disk under the flock (append_private).  A loss of power takes it
\* only together with the whole log, when that was new and its name not yet on
\* the disk.
AcknowledgedIsDurable ==
    /\ \A r \in acked \ lost : \E k \in 0 .. Len(log) : WrittenAt(r, k, synced)
    /\ name = "none" => log = <<>> /\ acked = lost

\* A torn record makes history and doctor fail only as long as it is among the
\* lines they ask for: once more than n appends have succeeded since the
\* latest fault, history -n answers, with exactly the last n of them in the
\* order they were reported (tail).
HistoryHeals ==
    flock = None /\ Len(log) <= MaxHistory =>
      \A n \in 1 .. MaxLimit :
        Len(since) > n =>
          TailOf(n) = SubSeq(since, Len(since) - n + 1, Len(since))

\* No failure leaves the log locked for the others, who wait without a limit
\* (append_private unlocks on every way out).
LogIsFreed == []<>(flock = None)
============================================================================
